------------------------------ MODULE KMemPool ------------------------------
(***************************************************************************)
(* The memory pool of src/sdk014_ZS285A/kernel/mempool.c: NMax blocks of   *)
(* level 0, each of which can be broken into four of the next level, and   *)
(* so on.  Every level has a free list and an array of free bits.          *)
(*                                                                         *)
(* Only single-block steps are locked: the search for a level reads the    *)
(* lists without a lock, a block is broken and recombined one level at a   *)
(* time, and the decision to wait is made before the lock is taken.  Any   *)
(* thread may run between any two of these steps.                          *)
(*                                                                         *)
(* Two premises, which nothing in K_MEM_POOL_DEFINE enforces.  The sizes   *)
(* of the levels are exact quarters (sz / 4 is never rounded up), so every *)
(* block fits (block_fits), and block bn of level l consists of blocks     *)
(* 4 * bn .. 4 * bn + 3 of level l + 1.  And n_max is below 32: otherwise  *)
(* no level sets max_inline_level, which stays 0, and get_bit_ptr() keeps  *)
(* the bits of level 0 in an inline word that they do not fit in.          *)
(***************************************************************************)
EXTENDS Integers, Sequences, SequencesExt, FiniteSetsExt

CONSTANTS
  Threads,
  NMax,       \* n_max
  NLevels,    \* n_levels
  MaxHeld     \* bound on the blocks one thread keeps

ASSUME PoolAssumption ==
  /\ NMax \in Nat \ {0} /\ NMax < 32 /\ NLevels \in Nat \ {0} /\ MaxHeld \in Nat \ {0}
  /\ "free" \notin Threads

VARIABLES
  bits,     \* the free bits of each level, as the set of blocks they are set for
  list,     \* free_list of each level
  waiting,  \* the threads on wait_q
  pc,       \* "out"; "scan": in pool_alloc(), looking for a level; "take": about
            \* to call alloc_block(); "break": about to break the block it has;
            \* "pend": has failed and is about to wait; "wait": waits, or has
            \* been woken; "free": in free_block(); "wake": about to wake waiters
  want,     \* alloc_l: the level the size asks for
  timeout,  \* "nowait", "timed" or "forever"
  lev,      \* the level the thread is at
  freeL,    \* free_l, or -1
  hand,     \* the block a call has in its hands, or -1
  held,     \* the blocks <<level, number>> the application has
  missed    \* history: the threads that a wake-up passed while they were about
            \* to wait, or that a block was broken behind

poolVars == <<bits, list>>
vars == <<poolVars, waiting, pc, want, timeout, lev, freeL, hand, held, missed>>

Levels == 0..(NLevels - 1)
Pow4[l \in Nat] == IF l = 0 THEN 1 ELSE 4 * Pow4[l - 1]
Numbers(l) == 0..(NMax * Pow4[l] - 1)

TypeOK ==
  /\ bits \in [Levels -> SUBSET Int] /\ \A l \in Levels : bits[l] \subseteq Numbers(l)
  /\ \A l \in Levels : list[l] \in Seq(Numbers(l))
  /\ waiting \subseteq {t \in Threads : pc[t] = "wait"}
  /\ pc \in [Threads -> {"out", "scan", "take", "break", "pend", "wait", "free", "wake"}]
  /\ want \in [Threads -> Levels] /\ lev \in [Threads -> Levels]
  /\ timeout \in [Threads -> {"nowait", "timed", "forever"}]
  /\ freeL \in [Threads -> Levels \cup {-1}]
  /\ \A t \in Threads : hand[t] \in Numbers(lev[t]) \cup {-1}
  /\ \A t \in Threads : \A b \in held[t] : b[1] \in Levels /\ b[2] \in Numbers(b[1])
  /\ missed \subseteq Threads

\* init_mem_pool()
Init ==
  /\ bits = [l \in Levels |-> IF l = 0 THEN Numbers(0) ELSE {}]
  /\ list = [l \in Levels |-> IF l = 0 THEN [i \in 1..NMax |-> i - 1] ELSE << >>]
  /\ waiting = {} /\ missed = {}
  /\ pc = [t \in Threads |-> "out"]
  /\ want = [t \in Threads |-> 0] /\ lev = [t \in Threads |-> 0]
  /\ timeout = [t \in Threads |-> "nowait"]
  /\ freeL = [t \in Threads |-> -1] /\ hand = [t \in Threads |-> -1]
  /\ held = [t \in Threads |-> {}]

\* The call of t ends.
Finish(t) ==
  /\ pc' = [pc EXCEPT ![t] = "out"]
  /\ want' = [want EXCEPT ![t] = 0] /\ lev' = [lev EXCEPT ![t] = 0]
  /\ timeout' = [timeout EXCEPT ![t] = "nowait"]
  /\ freeL' = [freeL EXCEPT ![t] = -1] /\ hand' = [hand EXCEPT ![t] = -1]

-----------------------------------------------------------------------------
(* k_mem_pool_alloc() *)

Alloc(t, l, to) ==
  /\ pc[t] = "out" /\ Cardinality(held[t]) < MaxHeld
  /\ pc' = [pc EXCEPT ![t] = "scan"]
  /\ want' = [want EXCEPT ![t] = l]
  /\ timeout' = [timeout EXCEPT ![t] = to]
  /\ UNCHANGED <<poolVars, waiting, lev, freeL, hand, held, missed>>

\* One round of the walk down the levels; the last level with a free block is
\* the one to take it from.
Scan(t) ==
  /\ pc[t] = "scan"
  /\ freeL' = [freeL EXCEPT ![t] = IF list[lev[t]] # << >> THEN lev[t] ELSE @]
  /\ IF lev[t] < want[t]
     THEN lev' = [lev EXCEPT ![t] = @ + 1] /\ UNCHANGED <<pc, want, timeout, hand>>
     ELSE /\ lev' = [lev EXCEPT ![t] = IF freeL'[t] = -1 THEN 0 ELSE freeL'[t]]
          /\ pc' = [pc EXCEPT ![t] = IF freeL'[t] = -1 THEN "pend" ELSE "take"]
          /\ UNCHANGED <<want, timeout, hand>>
  /\ UNCHANGED <<poolVars, waiting, held, missed>>

\* clear_free_bit() in alloc_block()
TakenBit(l, b) == [bits EXCEPT ![l] = @ \ {b}]

\* alloc_block(): when another allocator was faster, -EAGAIN
Take(t) ==
  LET l == lev[t] IN
  /\ pc[t] = "take"
  /\ IF list[l] = << >>
     THEN Finish(t) /\ UNCHANGED poolVars
     ELSE /\ hand' = [hand EXCEPT ![t] = Head(list[l])]
          /\ list' = [list EXCEPT ![l] = Tail(@)]
          /\ bits' = TakenBit(l, Head(list[l]))
          /\ pc' = [pc EXCEPT ![t] = "break"]
          /\ UNCHANGED <<want, timeout, lev, freeL>>
  /\ missed' = missed \ {t}
  /\ UNCHANGED <<waiting, held>>

\* The parts of block b that break_block() gives away
RestOfBlock(b) == <<4 * b + 1, 4 * b + 2, 4 * b + 3>>

\* break_block(), or what has been reached is returned
Break(t) ==
  LET l == lev[t] IN
  /\ pc[t] = "break"
  /\ IF l < want[t]
     THEN /\ bits' = [bits EXCEPT ![l + 1] = @ \cup ToSet(RestOfBlock(hand[t]))]
          /\ list' = [list EXCEPT ![l + 1] = @ \o RestOfBlock(hand[t])]
          /\ lev' = [lev EXCEPT ![t] = l + 1]
          /\ hand' = [hand EXCEPT ![t] = 4 * @]
          /\ missed' = missed \cup {u \in Threads : pc[u] \in {"scan", "pend"} \/ u \in waiting}
          /\ UNCHANGED <<pc, want, timeout, freeL, held>>
     ELSE /\ held' = [held EXCEPT ![t] = @ \cup {<<l, hand[t]>>}]
          /\ Finish(t)
          /\ UNCHANGED <<poolVars, missed>>
  /\ UNCHANGED waiting

\* -ENOMEM is returned, or the thread goes to wait.
Pend(t) ==
  /\ pc[t] = "pend"
  /\ IF timeout[t] = "nowait"
     THEN /\ Finish(t)
          /\ missed' = missed \ {t}
          /\ UNCHANGED waiting
     ELSE /\ pc' = [pc EXCEPT ![t] = "wait"]
          /\ waiting' = waiting \cup {t}
          /\ UNCHANGED <<want, timeout, lev, freeL, hand, missed>>
  /\ UNCHANGED <<poolVars, held>>

\* The timeout of a waiter ends its wait.
Expire(t) ==
  /\ t \in waiting /\ timeout[t] = "timed"
  /\ waiting' = waiting \ {t}
  /\ missed' = missed \ {t}
  /\ UNCHANGED <<poolVars, pc, want, timeout, lev, freeL, hand, held>>

\* Mutant: a thread that is woken waits again without another attempt.
RetryNoScan(t) ==
  /\ pc[t] = "wait" /\ t \notin waiting
  /\ \/ timeout[t] = "timed" /\ Finish(t)
     \/ /\ pc' = [pc EXCEPT ![t] = "pend"]
        /\ UNCHANGED <<want, timeout, lev, freeL, hand>>
  /\ UNCHANGED <<poolVars, waiting, held, missed>>

\* After the wait: no time is left; or there is a last attempt, when exactly
\* none is left (timeout becomes K_NO_WAIT); or another.
Retry(t) ==
  /\ pc[t] = "wait" /\ t \notin waiting
  /\ \/ timeout[t] = "timed" /\ Finish(t)
     \/ /\ pc' = [pc EXCEPT ![t] = "scan"]
        /\ lev' = [lev EXCEPT ![t] = 0] /\ freeL' = [freeL EXCEPT ![t] = -1]
        /\ \E to \in IF timeout[t] = "timed" THEN {"timed", "nowait"} ELSE {"forever"} :
             timeout' = [timeout EXCEPT ![t] = to]
        /\ UNCHANGED <<want, hand>>
  /\ UNCHANGED <<poolVars, waiting, held, missed>>

-----------------------------------------------------------------------------
(* k_mem_pool_free() *)

Free(t, b) ==
  /\ pc[t] = "out" /\ b \in held[t]
  /\ held' = [held EXCEPT ![t] = @ \ {b}]
  /\ lev' = [lev EXCEPT ![t] = b[1]]
  /\ hand' = [hand EXCEPT ![t] = b[2]]
  /\ pc' = [pc EXCEPT ![t] = "free"]
  /\ UNCHANGED <<poolVars, waiting, want, timeout, freeL, missed>>

\* The blocks that make up the same block of the level above as b does.
Partners(b) == {4 * (b \div 4) + i : i \in 0..3}

\* Mutant: the three partners stay on the free list.
WithoutPartnersKept(l, b) == list[l]

\* The free list of level l without the partners of b, which is not on it
WithoutPartners(l, b) ==
  LET first == 4 * (b \div 4)
      front == RemoveFirst(RemoveFirst(list[l], first), first + 1)
  IN  RemoveFirst(RemoveFirst(front, first + 2), first + 3)

\* Mutant: the bits are looked at before the bit of b is set.
AllPartnersFreeBefore(l, b) == l > 0 /\ Partners(b) \subseteq bits[l]

\* level && partner_bits(p, level, bn) == 0xf, once the bit of b is set
AllPartnersFree(l, b) == l > 0 /\ Partners(b) \subseteq bits[l] \cup {b}

\* One call of free_block(): the block becomes free, or it and its partners
\* become one block of the level above, to be freed in turn.
FreeBlock(t) ==
  LET l == lev[t]
      b == hand[t]
  IN  /\ pc[t] = "free"
      /\ IF AllPartnersFree(l, b)
         THEN /\ bits' = [bits EXCEPT ![l] = @ \ Partners(b)]
              /\ list' = [list EXCEPT ![l] = WithoutPartners(l, b)]
              /\ lev' = [lev EXCEPT ![t] = l - 1]
              /\ hand' = [hand EXCEPT ![t] = b \div 4]
              /\ UNCHANGED pc
         ELSE /\ bits' = [bits EXCEPT ![l] = @ \cup {b}]
              /\ list' = [list EXCEPT ![l] = Append(@, b)]
              /\ hand' = [hand EXCEPT ![t] = -1]
              /\ pc' = [pc EXCEPT ![t] = "wake"]
              /\ UNCHANGED lev
      /\ UNCHANGED <<waiting, want, timeout, freeL, held, missed>>

\* All waiters are woken.
Wake(t) ==
  /\ pc[t] = "wake"
  /\ waiting' = {}
  /\ missed' = (missed \ waiting) \cup {u \in Threads : pc[u] \in {"scan", "pend"}}
  /\ Finish(t)
  /\ UNCHANGED <<poolVars, held>>

Next ==
  \E t \in Threads :
    \/ \E l \in Levels, to \in {"nowait", "timed", "forever"} : Alloc(t, l, to)
    \/ Scan(t) \/ Take(t) \/ Break(t) \/ Pend(t) \/ Expire(t) \/ Retry(t)
    \/ \E b \in held[t] : Free(t, b)
    \/ FreeBlock(t) \/ Wake(t)

Spec == Init /\ [][Next]_vars

-----------------------------------------------------------------------------
\* The blocks of the last level that block b of level l consists of.
Leaves(l, b) == {b * Pow4[NLevels - 1 - l] + i : i \in 0..(Pow4[NLevels - 1 - l] - 1)}

\* The blocks there are: free, with the application, or in the hands of a call.
Blocks ==
  (UNION {{<<l, list[l][i], "free">> : i \in DOMAIN list[l]} : l \in Levels})
  \cup (UNION {{<<b[1], b[2], t>> : b \in held[t]} : t \in Threads})
  \cup {<<lev[t], hand[t], t>> : t \in {u \in Threads : hand[u] # -1}}

\* The two records of the free blocks agree.
BitsMatchLists == \A l \in Levels : bits[l] = ToSet(list[l]) /\ IsInjective(list[l])

\* All memory is somewhere, and nothing is in two places: every smallest block
\* is part of exactly one block that is free, allocated, or being broken or
\* recombined by one thread, wherever the threads stand in these; and what is
\* free is so by the lists and by the bits.
MemoryConserved ==
  /\ TypeOK
  /\ BitsMatchLists
  /\ \A x \in Numbers(NLevels - 1) :
       Cardinality({b \in Blocks : x \in Leaves(b[1], b[2])}) = 1

\* Four free partners never stay apart: when everything has been given back
\* the pool is what it was at first, and there is room for NMax large blocks.
NoFragments ==
  \A l \in Levels \ {0} : \A b \in Numbers(l) : ~(Partners(b) \subseteq bits[l])

\* A thread that waits while a block is free that it could have is about to be
\* woken, unless it was overlooked: its failure to find a block and its wait
\* are two steps, between which a wake-up finds nobody, and breaking a block
\* wakes nobody.
WaitersOverlooked ==
  \A t \in waiting :
    (\E l \in 0..want[t] : list[l] # << >>) =>
      t \in missed \/ \E u \in Threads : pc[u] = "wake"

\* A call with K_FOREVER returns with a block.
ForeverWaits ==
  [][\A t \in Threads : timeout[t] = "forever" /\ pc[t] # "out" /\ pc'[t] = "out"
                          => held'[t] # held[t]]_vars

=============================================================================

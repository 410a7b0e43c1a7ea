------------------------------ MODULE AbsFifo -------------------------------
(***************************************************************************)
(* What a queue does for its callers (k_queue, k_fifo and k_lifo in        *)
(* src/sdk014_ZS285A/include/kernel.h): an unbounded channel of items;     *)
(* appended items come out in order, prepended ones next; no item comes    *)
(* out twice; nobody waits while there is an item.  An append is a call    *)
(* and its end, and other operations may overtake it: its item goes behind *)
(* the one that was last at the call.  KQueue.tla implements it.           *)
(***************************************************************************)
EXTENDS Integers, Sequences, SequencesExt, FiniteSetsExt

CONSTANTS Threads, Items, Appenders, Null

VARIABLES
  chan,      \* the items put and not yet got
  calls,     \* per appender: the item of its open append and the item that was
             \* last at the call, or None
  result,    \* per thread: "waiting", or how its last get ended
  item       \* per thread: the item its last get returned, or Null

absVars == <<chan, calls, result, item>>

None == [item |-> Null, prev |-> Null]

AbsInit ==
  /\ chan = << >>
  /\ calls = [a \in Appenders |-> None]
  /\ result = [t \in Threads |-> "none"]
  /\ item = [t \in Threads |-> Null]

Waiting == {t \in Threads : result[t] = "waiting"}

Ends(t, r, i) ==
  /\ result' = [result EXCEPT ![t] = r]
  /\ item' = [item EXCEPT ![t] = i]

\* Items that are neither in the channel nor in an open append
Fresh(list) ==
  /\ IsInjective(list)
  /\ \A k \in DOMAIN list : ~Contains(chan, list[k])
  /\ \A k \in DOMAIN list, a \in Appenders : calls[a].item # list[k]

AbsCall(a, i) ==
  /\ calls[a] = None
  /\ Fresh(<<i>>)
  /\ calls' = [calls EXCEPT ![a] =
       [item |-> i, prev |-> IF chan = << >> THEN Null ELSE Last(chan)]]
  /\ UNCHANGED <<chan, result, item>>

\* The channels that may result from the end of an append of i that found p
\* last.  If p is still last, i goes to the end, as it should.
Places(p, i) ==
  {d \in {<<i>> \o chan} : p = Null}
    \cup {InsertAt(chan, k + 1, i) : k \in {j \in DOMAIN chan : chan[j] = p}}
    \cup {d \in {Append(chan, i), chan} : p # Null /\ ~Contains(chan, p)}

AbsEnd(a) ==
  /\ calls[a] # None
  /\ calls' = [calls EXCEPT ![a] = None]
  /\ \/ \E t \in Waiting : Ends(t, "OK", calls[a].item) /\ UNCHANGED chan
     \/ /\ Waiting = {}
        /\ chan' \in Places(calls[a].prev, calls[a].item)
        /\ UNCHANGED <<result, item>>

\* New items go to waiting threads, one each, as far as there are any, and
\* the rest joins the channel, at its end or at its front.
AbsPut(list, rear) ==
  /\ Fresh(list)
  /\ \E served \in SUBSET Waiting :
       /\ Cardinality(served) = Min({Cardinality(Waiting), Len(list)})
       /\ \E f \in [served -> 1..Cardinality(served)] :
            /\ IsInjective(f)
            /\ item' = [t \in Threads |-> IF t \in served THEN list[f[t]] ELSE item[t]]
       /\ result' = [t \in Threads |-> IF t \in served THEN "OK" ELSE result[t]]
       /\ LET rest == SubSeq(list, Cardinality(served) + 1, Len(list))
          IN  chan' = IF rear THEN chan \o rest ELSE rest \o chan
  /\ UNCHANGED calls

AbsGet(t) ==
  /\ t \notin Waiting
  /\ chan # << >>
  /\ Ends(t, "OK", Head(chan))
  /\ chan' = Tail(chan)
  /\ UNCHANGED calls

AbsIsrGet == chan # << >> /\ chan' = Tail(chan) /\ UNCHANGED <<calls, result, item>>

AbsRemove(i) ==
  /\ Contains(chan, i)
  /\ chan' = RemoveFirst(chan, i)
  /\ UNCHANGED <<calls, result, item>>

\* A get that finds nothing returns NULL or blocks.
AbsNothing(t) ==
  /\ t \notin Waiting
  /\ chan = << >>
  /\ \E r \in {"EMPTY", "waiting"} : Ends(t, r, Null)
  /\ UNCHANGED <<chan, calls>>

\* A wait ends without an item: timeout, or k_queue_cancel_wait().
AbsGiveUp(t) ==
  /\ t \in Waiting
  /\ \E r \in {"EAGAIN", "OK"} : Ends(t, r, Null)
  /\ UNCHANGED <<chan, calls>>

AbsNext ==
  \/ \E a \in Appenders : AbsEnd(a) \/ \E i \in Items : AbsCall(a, i)
  \/ \E i \in Items : AbsPut(<<i>>, FALSE) \/ AbsRemove(i)
  \/ \E i, j \in Items : AbsPut(<<i, j>>, TRUE)
  \/ \E t \in Threads : AbsGet(t) \/ AbsNothing(t) \/ AbsGiveUp(t)
  \/ AbsIsrGet

AbsSpec == AbsInit /\ [][AbsNext]_absVars

=============================================================================

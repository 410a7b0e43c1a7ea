------------------------------- MODULE KQueue -------------------------------
(***************************************************************************)
(* The queue of src/sdk014_ZS285A/kernel/queue.c, on which k_fifo, k_lifo  *)
(* and the work queues are built: a singly linked list of items whose      *)
(* first word is the link (src/sdk014_ZS285A/include/misc/slist.h) and a   *)
(* wait queue of the threads blocked in k_queue_get().  Without            *)
(* CONFIG_POLL, as in the product configurations.                          *)
(*                                                                         *)
(* k_queue_append() reads data_q.tail before k_queue_insert() takes the    *)
(* lock, so an append is two steps, and any other operation, of a thread   *)
(* or of an interrupt handler, may come between them.                      *)
(***************************************************************************)
EXTENDS KThreads, FiniteSetsExt

CONSTANTS
  Items,       \* the data items
  Appenders,   \* the threads and interrupt handlers that append
  Null

ASSUME QueueAssumption ==
  /\ IsFiniteSet(Items)
  /\ Null \notin Items

VARIABLES
  head, tail,   \* data_q
  next,         \* the link in each item
  append,       \* an appender's arguments between its two steps, or Idle
  where,        \* history: "free", "append" while an append holds the item,
                \* "queued" from its insertion until a get returns it, "lost"
                \* if it was linked behind an item that is not on the list
  got           \* the item a thread's last get returned

listVars == <<head, tail, next>>
queueVars == <<threadVars, listVars, append, where, got>>

Idle == [item |-> Null, prev |-> Null]

QueueTypeOK ==
  /\ ThreadTypeOK
  /\ ret \in [Threads -> {"none", "OK", "EMPTY", "EAGAIN"}]
  /\ head \in Items \cup {Null} /\ tail \in Items \cup {Null}
  /\ next \in [Items -> Items \cup {Null}]
  /\ append \in [Appenders -> [item : Items \cup {Null}, prev : Items \cup {Null}]]
  /\ where \in [Items -> {"free", "append", "queued", "lost"}]
  /\ \A i \in Items : where[i] = "append" <=> \E a \in Appenders : append[a].item = i
  /\ got \in [Threads -> Items \cup {Null}]

\* k_queue_init()
QueueInit ==
  /\ ThreadInit
  /\ head = Null /\ tail = Null
  /\ next = [i \in Items |-> Null]
  /\ append = [a \in Appenders |-> Idle]
  /\ where = [i \in Items |-> "free"]
  /\ got = [t \in Threads |-> Null]

-----------------------------------------------------------------------------
(* slist.h *)

\* sys_slist_append_list() of the items from i to j, which are linked
ListAppend(i, j, links) ==
  /\ IF tail = Null
     THEN head' = i /\ next' = links
     ELSE next' = [links EXCEPT ![tail] = i] /\ UNCHANGED head
  /\ tail' = j

\* Mutant: a prepend to an empty list leaves the tail alone.
ListPrependNoTail(i) ==
  /\ next' = [next EXCEPT ![i] = head]
  /\ head' = i
  /\ UNCHANGED tail

\* sys_slist_prepend()
ListPrepend(i) ==
  /\ next' = [next EXCEPT ![i] = head]
  /\ head' = i
  /\ tail' = IF tail = Null THEN i ELSE tail

\* sys_slist_insert(): the decision rests on prev's link
ListInsert(prev, i) ==
  \/ prev = Null /\ ListPrepend(i)
  \/ prev # Null /\ next[prev] = Null /\ ListAppend(i, i, [next EXCEPT ![i] = Null])
  \/ /\ prev # Null /\ next[prev] # Null
     /\ next' = [next EXCEPT ![i] = next[prev], ![prev] = i]
     /\ UNCHANGED <<head, tail>>

\* Mutant: the tail still points to the item that was taken.
ListGetNoTail ==
  /\ head # Null
  /\ head' = next[head]
  /\ UNCHANGED <<tail, next>>

\* sys_slist_get_not_empty(); the item keeps its link
ListGet ==
  /\ head # Null
  /\ head' = next[head]
  /\ tail' = IF tail = head THEN head' ELSE tail
  /\ UNCHANGED next

\* sys_slist_find_and_remove() of i, found after prev, or at the head
ListRemove(prev, i) ==
  /\ IF prev = Null
     THEN /\ head = i
          /\ head' = next[i]
          /\ tail' = IF tail = i THEN head' ELSE tail
          /\ next' = [next EXCEPT ![i] = Null]
     ELSE /\ next[prev] = i
          /\ next' = [next EXCEPT ![prev] = next[i], ![i] = Null]
          /\ tail' = IF tail = i THEN prev ELSE tail
          /\ UNCHANGED head

-----------------------------------------------------------------------------
\* prepare_thread_to_run() for the first waiter: it gets item i, or NULL
ServeFirst(i) ==
  \E k \in DOMAIN waitq :
    /\ FirstToUnpend(k)
    /\ Wake(k, "OK")
    /\ got' = [got EXCEPT ![waitq[k]] = i]

\* prev was the tail when an append read it; meanwhile it left the list and
\* kept its link, behind which sys_slist_insert() hangs the new item.
Astray(prev) == prev # Null /\ next[prev] # Null /\ where[prev] # "queued"

\* k_queue_insert() after prev
Insert(prev, i) ==
  \/ /\ ServeFirst(i)
     /\ where' = [where EXCEPT ![i] = "free"]
     /\ UNCHANGED listVars
  \/ /\ NoneToUnpend
     /\ ListInsert(prev, i)
     /\ where' = [where EXCEPT ![i] = IF Astray(prev) THEN "lost" ELSE "queued"]
     /\ UNCHANGED <<threadVars, got>>

\* k_queue_append(): the tail is read ...
AppendStart(a, i) ==
  /\ append[a] = Idle
  /\ where[i] = "free"
  /\ append' = [append EXCEPT ![a] = [item |-> i, prev |-> tail]]
  /\ where' = [where EXCEPT ![i] = "append"]
  /\ UNCHANGED <<threadVars, listVars, got>>

\* ... and used
AppendEnd(a) ==
  /\ append[a] # Idle
  /\ Insert(append[a].prev, append[a].item)
  /\ append' = [append EXCEPT ![a] = Idle]

\* k_queue_prepend()
Prepend(i) ==
  /\ where[i] = "free"
  /\ Insert(Null, i)
  /\ UNCHANGED append

\* What is left of a list when the members of S are taken off it one by one
Without(s, S) ==
  LET rest[k \in 0..Len(s)] ==
        IF k = 0 THEN << >>
        ELSE IF s[k] \in S THEN rest[k - 1] ELSE Append(rest[k - 1], s[k])
  IN  rest[Len(s)]

\* k_queue_append_list() and k_queue_merge_slist() with the items of list: as
\* many as there are waiters that may be served go to them
AppendList(list) ==
  LET live   == Without(waitq, {t \in Threads : tmo[t] = "expired"})
      n      == Min({Len(live), Len(list)})
      served == {live[k] : k \in 1..n}
      linked == [i \in Items |->
                   IF Contains(list, i)
                   THEN LET k == CHOOSE m \in DOMAIN list : list[m] = i
                        IN  IF k = Len(list) THEN Null ELSE list[k + 1]
                   ELSE next[i]]
  IN  /\ IsInjective(list)
      /\ \A k \in DOMAIN list : where[list[k]] = "free"
      /\ waitq' = Without(waitq, served)
      /\ tstate' = [t \in Threads |-> IF t \in served THEN "ready" ELSE tstate[t]]
      /\ tmo' = [t \in Threads |-> IF t \in served THEN "inactive" ELSE tmo[t]]
      /\ ret' = [t \in Threads |-> IF t \in served THEN "OK" ELSE ret[t]]
      /\ got' = [t \in Threads |->
           IF t \in served THEN list[CHOOSE k \in 1..n : live[k] = t] ELSE got[t]]
      /\ IF n = Len(list)
         THEN next' = linked /\ UNCHANGED <<head, tail>>
         ELSE ListAppend(list[n + 1], list[Len(list)], linked)
      /\ where' = [i \in Items |->
           IF \E k \in (n + 1)..Len(list) : list[k] = i THEN "queued" ELSE where[i]]
      /\ UNCHANGED <<clock, expired, ahead, append>>

\* k_queue_get() by a thread
QueueGet(t, timeout) ==
  /\ Running(t)
  /\ \/ /\ ListGet
        /\ Return(t, "OK")
        /\ got' = [got EXCEPT ![t] = head]
        /\ where' = [where EXCEPT ![head] = "free"]
     \/ /\ head = Null
        /\ \/ timeout = "nowait" /\ Return(t, "EMPTY")
           \/ timeout # "nowait" /\ Pend(t, timeout)
        /\ got' = [got EXCEPT ![t] = Null]
        /\ UNCHANGED <<listVars, where>>
  /\ UNCHANGED append

\* k_queue_get(queue, K_NO_WAIT) by an interrupt handler
QueueIsrGet ==
  /\ ListGet
  /\ where' = [where EXCEPT ![head] = "free"]
  /\ UNCHANGED <<threadVars, append, got>>

\* k_queue_remove(), which takes no lock: its caller must hold one
RemoveItem(prev, i) ==
  /\ \A j \in {prev, i} \ {Null} : where[j] = "queued"
  /\ ListRemove(prev, i)
  /\ where' = [where EXCEPT ![i] = "free"]
  /\ UNCHANGED <<threadVars, append, got>>

\* k_queue_cancel_wait()
CancelWait ==
  /\ ServeFirst(Null)
  /\ UNCHANGED <<listVars, append, where>>

QueueKill(t) == Abort(t) /\ UNCHANGED <<listVars, append, where, got>>

QueueClock == Tick /\ UNCHANGED <<listVars, append, where, got>>

QueueNext ==
  \/ \E a \in Appenders : AppendEnd(a) \/ \E i \in Items : AppendStart(a, i)
  \/ \E i \in Items : Prepend(i)
  \/ \E i, j \in Items : AppendList(<<i, j>>)
  \/ \E t \in Threads, timeout \in Timeouts : QueueGet(t, timeout)
  \/ QueueIsrGet
  \/ \E prev \in Items \cup {Null}, i \in Items : RemoveItem(prev, i)
  \/ CancelWait
  \/ \E t \in Threads : QueueKill(t)
  \/ QueueClock

QueueSpec == QueueInit /\ [][QueueNext]_queueVars

-----------------------------------------------------------------------------
\* The items reachable from head, in order, to a depth of n.
Walk[n \in 0..Cardinality(Items)] ==
  IF n = 0 THEN << >>
  ELSE LET w == Walk[n - 1]
           i == IF w = << >> THEN head ELSE next[Last(w)]
       IN  IF i = Null \/ Len(w) < n - 1 THEN w ELSE Append(w, i)

Chain == Walk[Cardinality(Items)]

\* Whatever comes between the two steps of an append, the list stays whole: it
\* holds the inserted items, each once, and ends, at tail; and while it is not
\* empty nobody is waiting, except threads whose timeout is already marked.
ListWhole ==
  /\ QueueTypeOK
  /\ IsInjective(Chain)
  /\ ToSet(Chain) = {i \in Items : where[i] = "queued"}
  /\ tail = IF Chain = << >> THEN Null ELSE Last(Chain)
  /\ tail # Null => next[tail] = Null
  /\ Chain # << >> => LiveWaiters = {}

\* Not guaranteed, although kernel.h says of k_queue_append() that it appends
\* to the end of the queue and can be called by ISRs: an appended item is on
\* the list until it is got.
NoItemLost == \A i \in Items : where[i] # "lost"

queueResult == [t \in Threads |-> IF t \in LiveWaiters THEN "waiting" ELSE ret[t]]

AbstractFifo == INSTANCE AbsFifo WITH
  chan <- Chain, result <- queueResult, item <- got, calls <- append

\* queue.c implements AbsFifo: first in, first out for appended items, last in
\* first out for prepended ones, each item to one getter; and an append that is
\* overtaken puts its item behind the one it found last, in front if it found
\* none, and at the end or nowhere only if that item has left meanwhile.
ImplementsAbsFifo == AbstractFifo!AbsSpec

=============================================================================

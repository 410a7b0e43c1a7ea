------------------------------- MODULE KWork --------------------------------
(***************************************************************************)
(* Delayed work of src/sdk014_ZS285A/kernel/work_q.c: an item counts down, *)
(* is appended to a work queue by the clock interrupt, and its handler is  *)
(* run by the queue's thread, while threads and interrupt handlers submit  *)
(* it again or cancel it.                                                  *)
(*                                                                         *)
(* A section under irq_lock() is one action.  While a timeout is being     *)
(* called the processor is inside the clock interrupt: no thread runs, but *)
(* an interrupt that nests in it may submit and cancel, the very item too  *)
(* whose timeout is being called.                                          *)
(* The list of the work queue is KQueue.tla's, the countdown KTimeoutQ's.  *)
(***************************************************************************)
EXTENDS Integers, Sequences, SequencesExt

CONSTANTS
  Works,         \* delayed work items
  Queues,        \* work queues, each with its thread
  Cancellers,    \* threads that call k_delayed_work_cancel_sync()
  NoHandler,     \* the items that were initialised with the handler NULL
  Null

ASSUME WorkAssumption ==
  /\ NoHandler \subseteq Works
  /\ Null \notin Works \cup Queues

VARIABLES
  pending,   \* flag K_WORK_STATE_PENDING of each item
  running,   \* flag K_WORK_STATE_RUNNING
  workq,     \* k_delayed_work.work_q
  tmo,       \* its timeout: "inactive" or "armed"
  calling,   \* the item whose work_timeout() the clock interrupt is about to
             \* run, after it made the timeout inactive; or Null
  fifo,      \* the items on each work queue
  pc, cur,   \* where each work_q_main() is, and its variable work
  sync,      \* each call of k_delayed_work_cancel_sync(): its step, its item,
             \* the last error, and who has submitted the item since: "nobody",
             \* only its "handler", or "others"
  raced,     \* history: the items cancelled, or started again with a delay,
             \* while their timeout was being called
  wild       \* the items that were appended to the queue at address NULL, or
             \* whose active timeout was linked into the timeout queue again

workVars == <<pending, running, workq, tmo, calling, fifo>>
vars == <<workVars, pc, cur, sync, raced, wild>>

NoSync == [at |-> "idle", work |-> Null, err |-> "none", by |-> "nobody"]

TypeOK ==
  /\ pending \in [Works -> BOOLEAN]
  /\ running \in [Works -> BOOLEAN]
  /\ workq \in [Works -> Queues \cup {Null}]
  /\ tmo \in [Works -> {"inactive", "armed"}]
  /\ calling \in Works \cup {Null}
  /\ fifo \in [Queues -> Seq(Works)] /\ \A q \in Queues : IsInjective(fifo[q])
  /\ pc \in [Queues -> {"get", "got", "flagged", "handler", "done"}]
  /\ cur \in [Queues -> Works \cup {Null}]
  /\ sync \in [Cancellers -> [at : {"idle", "cancel", "check"},
                              work : Works \cup {Null},
                              err : {"none", "OK", "EINVAL", "EBUSY"},
                              by : {"nobody", "handler", "others"}]]
  /\ raced \subseteq Works /\ wild \subseteq Works

\* k_delayed_work_init() and k_work_q_start()
Init ==
  /\ pending = [w \in Works |-> FALSE]
  /\ running = [w \in Works |-> FALSE]
  /\ workq = [w \in Works |-> Null]
  /\ tmo = [w \in Works |-> "inactive"]
  /\ fifo = [q \in Queues |-> << >>]
  /\ pc = [q \in Queues |-> "get"]
  /\ cur = [q \in Queues |-> Null]
  /\ sync = [c \in Cancellers |-> NoSync]
  /\ calling = Null
  /\ raced = {} /\ wild = {}

\* Threads run only outside the clock interrupt.
InThread == calling = Null

-----------------------------------------------------------------------------
\* What a cancellation leaves: k_queue_remove() takes a pending item off the
\* list of its queue.
Removed(w) ==
  IF workq[w] # Null /\ pending[w] THEN [fifo EXCEPT ![workq[w]] = RemoveFirst(@, w)] ELSE fifo

\* Mutant: the countdown goes on.
CountdownLeft(w) == tmo

\* _abort_timeout() stops the countdown of any other, and does nothing to one
\* that is no longer active since it is being called.
Aborted(w) ==
  IF workq[w] # Null /\ ~pending[w] THEN [tmo EXCEPT ![w] = "inactive"] ELSE tmo

\* What k_delayed_work_cancel() returns
CancelErr(w) ==
  CASE workq[w] = Null -> "EINVAL"
    [] workq[w] # Null /\ pending[w] /\ ~Contains(fifo[workq[w]], w) -> "EBUSY"
    [] OTHER -> "OK"

\* Mutant: a pending item is taken for one that still counts down.
CancelCountdownOnly(w) ==
  IF CancelErr(w) = "OK"
  THEN /\ tmo' = [tmo EXCEPT ![w] = "inactive"]
       /\ workq' = [workq EXCEPT ![w] = Null]
       /\ pending' = [pending EXCEPT ![w] = FALSE]
       /\ UNCHANGED fifo
  ELSE UNCHANGED <<pending, workq, tmo, fifo>>

\* ... and does
Cancelled(w) ==
  IF CancelErr(w) = "OK"
  THEN /\ fifo' = Removed(w)
       /\ tmo' = Aborted(w)
       /\ workq' = [workq EXCEPT ![w] = Null]
       /\ pending' = [pending EXCEPT ![w] = FALSE]
  ELSE UNCHANGED <<pending, workq, tmo, fifo>>

\* k_delayed_work_submit_to_queue() when it succeeds: an item of the same queue
\* is first cancelled; k_work_submit_to_queue() appends it unless its flag is
\* set.  The failures (-EADDRINUSE, and -EBUSY from the cancellation) change
\* nothing.  _add_timeout() links the timeout without a look whether it is
\* linked already.
Submitted(w, q, delay) ==
  LET flagged == workq[w] = Null /\ pending[w]
  IN  /\ workq[w] \in {Null, q}
      /\ CancelErr(w) # "EBUSY"
      /\ workq' = [workq EXCEPT ![w] = q]
      /\ IF delay = 0
         THEN /\ fifo' = IF flagged THEN fifo ELSE [Removed(w) EXCEPT ![q] = Append(@, w)]
              /\ pending' = [pending EXCEPT ![w] = TRUE]
              /\ tmo' = Aborted(w)
              /\ UNCHANGED wild
         ELSE /\ fifo' = Removed(w)
              /\ pending' = [pending EXCEPT ![w] = flagged]
              /\ tmo' = [tmo EXCEPT ![w] = "armed"]
              /\ wild' = IF Aborted(w)[w] = "armed" THEN wild \cup {w} ELSE wild

\* History: who submits w while somebody waits for it to finish.
SubmittedBy(who, w) ==
  sync' = [c \in Cancellers |->
    IF sync[c].work = w /\ sync[c].by # "others" THEN [sync[c] EXCEPT !.by = who]
                                                ELSE sync[c]]

\* History: w is changed under the call of its timeout.
Races(w) == raced' = IF calling = w THEN raced \cup {w} ELSE raced

\* A submission, and a cancellation, by a thread or an interrupt handler, one
\* that nests in the clock interrupt included.
Submit(w, q, delay) ==
  /\ Submitted(w, q, delay)
  /\ SubmittedBy("others", w)
  /\ IF delay = 0 THEN UNCHANGED raced ELSE Races(w)
  /\ UNCHANGED <<running, calling, pc, cur>>

Cancel(w) ==
  /\ Cancelled(w)
  /\ Races(w)
  /\ UNCHANGED <<running, calling, pc, cur, sync, wild>>

-----------------------------------------------------------------------------
(* The clock interrupt *)

\* _handle_one_expired_timeout() marks the timeout inactive and unlocks
Expire(w) ==
  /\ InThread
  /\ tmo[w] = "armed"
  /\ tmo' = [tmo EXCEPT ![w] = "inactive"]
  /\ calling' = w
  /\ UNCHANGED <<pending, running, workq, fifo, pc, cur, sync, raced, wild>>

\* work_timeout(): k_work_submit_to_queue(w->work_q, &w->work), which appends
\* an item whose flag is clear, to whatever queue the item has by now
Timeout(w) ==
  /\ calling = w
  /\ calling' = Null
  /\ pending' = [pending EXCEPT ![w] = TRUE]
  /\ fifo' = IF pending[w] \/ workq[w] = Null THEN fifo
             ELSE [fifo EXCEPT ![workq[w]] = Append(@, w)]
  /\ wild' = IF ~pending[w] /\ workq[w] = Null THEN wild \cup {w} ELSE wild
  /\ UNCHANGED <<running, workq, tmo, pc, cur, sync, raced>>

-----------------------------------------------------------------------------
(* work_q_main() of the thread of queue q *)

At(q, here, there) == InThread /\ pc[q] = here /\ pc' = [pc EXCEPT ![q] = there]

\* k_queue_get()
WorkerGet(q) ==
  /\ At(q, "get", "got")
  /\ fifo[q] # << >>
  /\ cur' = [cur EXCEPT ![q] = Head(fifo[q])]
  /\ fifo' = [fifo EXCEPT ![q] = Tail(@)]
  /\ UNCHANGED <<pending, running, workq, tmo, calling, sync, raced, wild>>

WorkerFlag(q) ==
  /\ At(q, "got", "flagged")
  /\ running' = [running EXCEPT ![cur[q]] = TRUE]
  /\ UNCHANGED <<pending, workq, tmo, calling, fifo, cur, sync, raced, wild>>

\* Mutant: the flag is tested and not cleared.
WorkerCallNoClear(q) ==
  /\ cur[q] \notin NoHandler
  /\ At(q, "flagged", IF pending[cur[q]] THEN "handler" ELSE "done")
  /\ UNCHANGED <<workVars, cur, sync, raced, wild>>

\* atomic_test_and_clear_bit(PENDING), and the handler is called
WorkerCall(q) ==
  /\ cur[q] \notin NoHandler
  /\ At(q, "flagged", IF pending[cur[q]] THEN "handler" ELSE "done")
  /\ pending' = [pending EXCEPT ![cur[q]] = FALSE]
  /\ UNCHANGED <<running, workq, tmo, calling, fifo, cur, sync, raced, wild>>

\* An item without a handler is dropped with both flags set: from then on it
\* can be neither submitted nor cancelled.
WorkerNoHandler(q) ==
  /\ cur[q] \in NoHandler
  /\ At(q, "flagged", "get")
  /\ cur' = [cur EXCEPT ![q] = Null]
  /\ UNCHANGED <<workVars, sync, raced, wild>>

\* The handler submits its item again
HandlerSubmit(q, delay) ==
  /\ InThread
  /\ pc[q] = "handler"
  /\ Submitted(cur[q], q, delay)
  /\ SubmittedBy("handler", cur[q])
  /\ UNCHANGED <<running, calling, pc, cur, raced>>

HandlerReturn(q) ==
  /\ At(q, "handler", "done")
  /\ UNCHANGED <<workVars, cur, sync, raced, wild>>

WorkerDone(q) ==
  /\ At(q, "done", "get")
  /\ running' = [running EXCEPT ![cur[q]] = FALSE]
  /\ cur' = [cur EXCEPT ![q] = Null]
  /\ UNCHANGED <<pending, workq, tmo, calling, fifo, sync, raced, wild>>

Worker(q) ==
  \/ WorkerGet(q) \/ WorkerFlag(q) \/ WorkerNoHandler(q) \/ WorkerCall(q)
  \/ HandlerReturn(q) \/ WorkerDone(q)

-----------------------------------------------------------------------------
(* k_delayed_work_cancel_sync() by thread c *)

SyncStart(c, w) ==
  /\ InThread
  /\ sync[c].at = "idle"
  /\ sync' = [sync EXCEPT ![c] = [NoSync EXCEPT !.at = "cancel", !.work = w]]
  /\ UNCHANGED <<workVars, pc, cur, raced, wild>>

SyncCancel(c) ==
  /\ InThread
  /\ sync[c].at = "cancel"
  /\ sync' = [sync EXCEPT ![c].at = "check", ![c].err = CancelErr(sync[c].work)]
  /\ Cancelled(sync[c].work)
  /\ UNCHANGED <<running, calling, pc, cur, raced, wild>>

\* Mutant: only the result of the cancellation is looked at.
FinishedIfCancelled(c) == sync[c].err # "EBUSY"

\* The test on which 0 is returned
Finished(c) == sync[c].err # "EBUSY" /\ ~running[sync[c].work]

SyncReturn(c) ==
  /\ InThread
  /\ sync[c].at = "check"
  /\ Finished(c)
  /\ sync' = [sync EXCEPT ![c] = NoSync]
  /\ UNCHANGED <<workVars, pc, cur, raced, wild>>

\* Otherwise it sleeps for a tick and tries again, or returns -EBUSY once its
\* time is up.
SyncRetry(c) ==
  /\ InThread
  /\ sync[c].at = "check"
  /\ ~Finished(c)
  /\ \E then \in {[sync[c] EXCEPT !.at = "cancel"], NoSync} :
       sync' = [sync EXCEPT ![c] = then]
  /\ UNCHANGED <<workVars, pc, cur, raced, wild>>

Next ==
  \/ \E w \in Works, q \in Queues, delay \in {0, 1} : Submit(w, q, delay)
  \/ \E w \in Works : Cancel(w) \/ Expire(w) \/ Timeout(w)
  \/ \E q \in Queues : Worker(q) \/ \E delay \in {0, 1} : HandlerSubmit(q, delay)
  \/ \E c \in Cancellers :
       \/ SyncCancel(c) \/ SyncReturn(c) \/ SyncRetry(c)
       \/ \E w \in Works : SyncStart(c, w)

Spec == Init /\ [][Next]_vars

\* The threads of the work queues are scheduled between the interrupts, however
\* many there are, and handlers return; an interrupt that was entered is left.
Fairness == /\ \A q \in Queues : SF_vars(Worker(q))
            /\ \A w \in Works : WF_vars(Timeout(w))

FairSpec == Spec /\ Fairness

-----------------------------------------------------------------------------
\* The queues whose list holds w, those whose thread has taken w and not yet
\* finished with it, and those of them that have not yet called its handler.
Listed(w) == {q \in Queues : Contains(fifo[q], w)}
Holders(w) == {q \in Queues : cur[q] = w}
Taken(w) == {q \in Holders(w) : pc[q] \in {"got", "flagged"}}

\* The flag PENDING, the lists and the countdown agree, whatever the clock
\* interrupt, the threads, the handler and the callers of cancel do in
\* between.  An item is on a list, or in the hands of a thread that has not yet
\* called the handler, in one place at most, that of its queue, and only while
\* its flag is set.  If nobody changed it under the call of its timeout, a
\* pending item is in such a place, unless it has no handler and was dropped,
\* and does not count down as well; and what counts down or is being called has
\* a queue.
PendingIsHeld ==
  TypeOK /\ \A w \in Works :
    /\ Listed(w) \cup Taken(w) \subseteq IF pending[w] THEN {workq[w]} ELSE {}
    /\ Listed(w) \cap Taken(w) = {}
    /\ w \notin raced =>
         /\ pending[w] => /\ \/ Listed(w) \cup Taken(w) # {}
                             \/ w \in NoHandler /\ running[w]
                          /\ tmo[w] = "inactive"
         /\ pending[w] \/ tmo[w] = "armed" \/ calling = w => workq[w] # Null

\* What has been queued is run or cancelled, unless it has no handler, it was
\* changed under the call of its timeout, or it is submitted again and again,
\* which moves it to the end of the queue every time.
PendingEnds ==
  \A w \in Works \ NoHandler :
    \/ pending[w] ~> ~pending[w] \/ w \in raced
    \/ []<><<\E q \in Queues, delay \in {0, 1} : Submit(w, q, delay)>>_vars

\* An item that counts down, is queued, or whose handler has not returned.
Active(w) ==
  pending[w] \/ tmo[w] = "armed" \/ calling = w \/ \E q \in Holders(w) : pc[q] # "done"

\* The calls of k_delayed_work_cancel_sync() that return 0 in this step.
Returning(c) == sync[c].at = "check" /\ sync'[c].at = "idle" /\ Finished(c)

\* When k_delayed_work_cancel_sync() returns 0 the item is at rest: it does not
\* count down, is not queued and its handler is not running; unless somebody
\* submitted it while the call was under way, or changed it earlier under the
\* call of its timeout.
SyncMeansFinished ==
  [][\A c \in Cancellers :
        Returning(c) /\ sync[c].by = "nobody" /\ sync[c].work \notin raced
          => ~Active(sync[c].work)]_vars

\* Not guaranteed, although kernel.h says of k_delayed_work_cancel_sync() that
\* it waits for the item to finish and that 0 means the countdown is cancelled:
\* the handler it waits for has not started the item again.
SyncEndsResubmission ==
  [][\A c \in Cancellers :
        Returning(c) /\ sync[c].by # "others" /\ sync[c].work \notin raced
          => ~Active(sync[c].work)]_vars

\* work_timeout() finds a queue to submit to, and no timeout that counts down
\* is started a second time, for every item that nobody cancelled or started
\* again under the call of its timeout: the resets of work_q by cancel, by the
\* handler's resubmission and by cancel_sync never meet a countdown that goes on.
NeverNullQueue == wild \subseteq raced

\* Not guaranteed, although kernel.h lets interrupt handlers cancel an item and
\* calls the countdown cancelled on 0: no memory is written that is not there.
NoWildWrite == wild = {}

=============================================================================

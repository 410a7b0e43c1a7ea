------------------------------- MODULE KMsgq --------------------------------
(***************************************************************************)
(* The message queue of src/sdk014_ZS285A/kernel/msg_q.c: a ring buffer,   *)
(* and one wait queue for the threads that wait to write and the threads   *)
(* that wait to read.  Nothing in the queue says which is which:           *)
(* k_msgq_put() takes whomever it finds there for a reader, k_msgq_get()   *)
(* for a writer.                                                           *)
(***************************************************************************)
EXTENDS KThreads

CONSTANTS
  MaxMsgs,   \* q->max_msgs
  Msgs,      \* the contents of a message
  NoMsg

ASSUME MsgqAssumption == MaxMsgs \in Nat \ {0} /\ NoMsg \notin Msgs \cup Threads

VARIABLES
  buffer,    \* the ring buffer
  rd, wr,    \* read_ptr and write_ptr, as indices
  used,      \* used_msgs
  op,        \* what a thread last called: "put" or "get"
  data,      \* what its swap_data points to: the message to send, or the
             \* area for the one received
  taken      \* what an interrupt handler received in the last step, or NoMsg

ringVars == <<buffer, rd, wr, used>>
msgqVars == <<threadVars, ringVars, op, data, taken>>

Slots == 0..(MaxMsgs - 1)

MsgqTypeOK ==
  /\ ThreadTypeOK
  /\ ret \in [Threads -> {"none", "OK", "ENOMSG", "EAGAIN"}]
  /\ buffer \in [Slots -> Msgs \cup {NoMsg}]
  /\ rd \in Slots /\ wr \in Slots
  /\ used \in 0..MaxMsgs
  /\ op \in [Threads -> {"none", "put", "get"}]
  /\ data \in [Threads -> Msgs \cup {NoMsg}]
  /\ taken \in Msgs \cup {NoMsg}

\* k_msgq_init()
MsgqInit ==
  /\ ThreadInit
  /\ buffer = [i \in Slots |-> NoMsg]
  /\ rd = 0 /\ wr = 0 /\ used = 0
  /\ op = [t \in Threads |-> "none"]
  /\ data = [t \in Threads |-> NoMsg]
  /\ taken = NoMsg

-----------------------------------------------------------------------------
\* A pointer that reaches buffer_end goes back to buffer_start.
Wrapped(p) == IF p + 1 = MaxMsgs THEN 0 ELSE p + 1

\* The memory of the calls after an operation of c (a thread, or NoMsg for an
\* interrupt handler): c's own, and that of the thread w it served.
Served(f, c, v, w, x) ==
  [t \in Threads |-> IF t = w THEN x ELSE IF t = c THEN v ELSE f[t]]

\* The rest of a successful call by c that woke the waiter at position i.
WakeAndReturn(i, c) ==
  /\ waitq' = RemoveAt(waitq, i)
  /\ tstate' = [tstate EXCEPT ![waitq[i]] = "ready"]
  /\ tmo' = [tmo EXCEPT ![waitq[i]] = "inactive"]
  /\ ret' = Served(ret, c, "OK", waitq[i], "OK")
  /\ UNCHANGED <<clock, expired, ahead>>

\* k_msgq_put() with used_msgs < max_msgs, by a thread or an interrupt
PutNow(c, m) ==
  /\ used < MaxMsgs
  /\ taken' = NoMsg
  /\ op' = Served(op, c, "put", c, "put")
  /\ \/ \E i \in DOMAIN waitq :
          /\ FirstToUnpend(i)
          /\ WakeAndReturn(i, c)
          /\ data' = Served(data, c, m, waitq[i], m)
          /\ UNCHANGED ringVars
     \/ /\ NoneToUnpend
        /\ buffer' = [buffer EXCEPT ![wr] = m]
        /\ wr' = Wrapped(wr)
        /\ used' = used + 1
        /\ data' = Served(data, c, m, c, m)
        /\ ret' = Served(ret, c, "OK", c, "OK")
        /\ UNCHANGED <<rd, waitq, tstate, tmo, clock, expired, ahead>>

\* k_msgq_get() with used_msgs > 0, by a thread or an interrupt: the first
\* waiter's message goes into the place that becomes free.
GetNow(c) ==
  /\ used > 0
  /\ rd' = Wrapped(rd)
  /\ taken' = IF c = NoMsg THEN buffer[rd] ELSE NoMsg
  /\ op' = Served(op, c, "get", c, "get")
  /\ data' = Served(data, c, buffer[rd], c, buffer[rd])
  /\ \/ \E i \in DOMAIN waitq :
          /\ FirstToUnpend(i)
          /\ WakeAndReturn(i, c)
          /\ buffer' = [buffer EXCEPT ![wr] = data[waitq[i]]]
          /\ wr' = Wrapped(wr)
          /\ UNCHANGED used
     \/ /\ NoneToUnpend
        /\ used' = used - 1
        /\ ret' = Served(ret, c, "OK", c, "OK")
        /\ UNCHANGED <<buffer, wr, waitq, tstate, tmo, clock, expired, ahead>>

\* A call of t that finds the queue full, or empty, and fails or blocks.
RefuseOrPend(t, name, m, timeout) ==
  /\ op' = [op EXCEPT ![t] = name]
  /\ data' = [data EXCEPT ![t] = m]
  /\ taken' = NoMsg
  /\ \/ timeout = "nowait" /\ Return(t, "ENOMSG")
     \/ timeout # "nowait" /\ Pend(t, timeout)
  /\ UNCHANGED ringVars

\* k_msgq_put() and k_msgq_get() by a thread
Put(t, m, timeout) ==
  /\ Running(t)
  /\ \/ PutNow(t, m)
     \/ used = MaxMsgs /\ RefuseOrPend(t, "put", m, timeout)

Get(t, timeout) ==
  /\ Running(t)
  /\ \/ GetNow(t)
     \/ used = 0 /\ RefuseOrPend(t, "get", NoMsg, timeout)

\* The same by an interrupt handler, which does not wait
IsrPut(m) == PutNow(NoMsg, m)

IsrGet == GetNow(NoMsg)

\* k_msgq_purge(), by a thread: it may swap at its end
Purge ==
  /\ clock = "idle"
  /\ WakeAll("ENOMSG")
  /\ used' = 0
  /\ rd' = wr
  /\ taken' = NoMsg
  /\ UNCHANGED <<buffer, wr, op, data>>

MsgqKill(t) == Abort(t) /\ taken' = NoMsg /\ UNCHANGED <<ringVars, op, data>>

MsgqClock == Tick /\ taken' = NoMsg /\ UNCHANGED <<ringVars, op, data>>

MsgqNext ==
  \/ \E t \in Threads, m \in Msgs, timeout \in Timeouts : Put(t, m, timeout)
  \/ \E t \in Threads, timeout \in Timeouts : Get(t, timeout)
  \/ \E m \in Msgs : IsrPut(m)
  \/ IsrGet
  \/ Purge
  \/ \E t \in Threads : MsgqKill(t)
  \/ MsgqClock

MsgqSpec == MsgqInit /\ [][MsgqNext]_msgqVars

-----------------------------------------------------------------------------
\* The two pointers and the count describe the same region of the ring.
RingConsistent == wr = (rd + used) % MaxMsgs

\* The wait queue that readers and writers share is never misread, in any
\* state of the ring: a thread that k_msgq_put() may take from it waits to
\* read, and then the buffer is empty; one that k_msgq_get() may take waits to
\* write, and then it is full.
WaitersMatchBuffer ==
  /\ MsgqTypeOK
  /\ RingConsistent
  /\ \A t \in LiveWaiters : \/ op[t] = "get" /\ used = 0
                            \/ op[t] = "put" /\ used = MaxMsgs

\* A waiter whose timeout has been marked has already failed.
msgqResult ==
  [t \in Threads |->
     CASE t \in LiveWaiters /\ op[t] = "put" -> "putting"
       [] t \in LiveWaiters /\ op[t] = "get" -> "getting"
       [] OTHER -> ret[t]]

AbstractMsgq == INSTANCE AbsMsgq WITH
         chan <- [i \in 1..used |-> buffer[(rd + i - 1) % MaxMsgs]],
         result <- msgqResult,
         msg <- data

\* msg_q.c implements AbsMsgq: messages come out once and in the order in
\* which their puts succeeded, a blocked writer's message enters when its call
\* succeeds and only then, and a call that timed out received and sent nothing.
ImplementsAbsMsgq == AbstractMsgq!AbsSpec

=============================================================================

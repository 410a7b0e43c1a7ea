----------------------------- MODULE MsgManager -----------------------------
(***************************************************************************)
(* The messages between the applications and services of the product:      *)
(* ext/actions/component/system/msg_manager.c and the part of              *)
(* ext/actions/porting/os_wrapper/os_wrapper.c below it, over the one      *)
(* mailbox of KMailbox.tla.                                                *)
(*                                                                         *)
(* An asynchronous message is copied to one of the msg_info buffers; the   *)
(* semaphore of a buffer is taken while it is in use and is what           *)
(* k_mbox_async_put() gives when the message is disposed of.  There are as *)
(* many buffers as descriptors (CONFIG_NUM_MBOX_ASYNC_MSGS), and a sender  *)
(* waits for neither.  A synchronous sender raises its priority to -1,     *)
(* waits until its message is copied, and then on a semaphore on its stack *)
(* until the receiver has called the message's callback.                   *)
(*                                                                         *)
(* Here Sems are the buffers.  Name lookup is left out: a message goes to  *)
(* a thread, or to whoever receives first (ALL_RECEIVER_NAME).             *)
(***************************************************************************)
EXTENDS KMailbox

CONSTANTS
  Servers,     \* the threads that only receive and handle messages
  NoCallback   \* of an asynchronous message

\* Both pools have CONFIG_NUM_MBOX_ASYNC_MSGS entries.
ASSUME MsgAssumption ==
  /\ Servers \subseteq Threads /\ NoCallback \notin Threads \cup {Null}
  /\ "data" \in Kinds
  /\ IsFiniteSet(Sems) /\ Cardinality(Sems) <= Cardinality(Asyncs)

VARIABLES
  buf,        \* the buffer a sender has filled and not yet sent, or Null
  syncing,    \* the threads inside msg_manager_send_sync_msg()
  syncSem,    \* those of them whose sync_sem has been given
  got,        \* what a thread has received and not yet handled: NoCallback, or
              \* the sender whose sync_sem the callback gives; Null if nothing
  dropped     \* history: the threads whose synchronous message was cleared

msgVars == <<buf, syncing, syncSem, got, dropped>>
allVars == <<mboxVars, msgVars>>

MsgTypeOK ==
  /\ MboxTypeOK
  /\ buf \in [Threads -> Sems \cup {Null}]
  /\ syncing \subseteq Threads /\ syncSem \subseteq syncing
  /\ got \in [Threads -> Threads \cup {NoCallback, Null}]

\* os_msg_init()
MsgInit ==
  /\ MboxInit(1)
  /\ buf = [t \in Threads |-> Null]
  /\ syncing = {} /\ syncSem = {}
  /\ got = [t \in Threads |-> Null]
  /\ dropped = {}

\* t is in none of the calls below and has no message to handle.
Idle(t) ==
  Runs(t, "out") /\ buf[t] = Null /\ t \notin syncing /\ got[t] = Null

\* Mutant: the result of k_sem_take() is not looked at.
FillBufferAnyway(t, b) ==
  /\ Idle(t) /\ t \notin Servers
  /\ sem' = [sem EXCEPT ![b] = 0]
  /\ buf' = [buf EXCEPT ![t] = b]
  /\ UNCHANGED <<queueVars, tstate, timed, tx, rx, callVars, irqLocked, out, ahead, fault,
                 syncing, syncSem, got, dropped>>

\* msg_pool_get_free_msg_info() tries the buffers one by one without a lock, so
\* it may find any that is free; if it finds none the send fails.
FillBuffer(t, b) ==
  /\ Idle(t) /\ t \notin Servers
  /\ sem[b] = 1
  /\ sem' = [sem EXCEPT ![b] = 0]
  /\ buf' = [buf EXCEPT ![t] = b]
  /\ UNCHANGED <<queueVars, tstate, timed, tx, rx, callVars, irqLocked, out, ahead, fault,
                 syncing, syncSem, got, dropped>>

\* Mutant: the message is sent without the semaphore of its buffer.
SendAsyncNoSem(t, target) ==
  /\ buf[t] # Null
  /\ AsyncAlloc(t, target, "data", Null)
  /\ buf' = [buf EXCEPT ![t] = Null]
  /\ UNCHANGED <<syncing, syncSem, got, dropped>>

\* os_mbox_async_put() of the buffer: the descriptor is taken; AsyncPut is next
SendAsync(t, target) ==
  /\ buf[t] # Null
  /\ AsyncAlloc(t, target, "data", buf[t])
  /\ buf' = [buf EXCEPT ![t] = Null]
  /\ UNCHANGED <<syncing, syncSem, got, dropped>>

\* Mutant: the priority of the caller is left alone.
SyncPrioKept(t) == prio[t]

\* os_thread_priority_set(os_current_get(), -1)
SyncPrio(t) == -1

\* msg_manager_send_sync_msg() and os_send_sync_msg() up to os_mbox_put(): t
\* does not let another thread run between the two
SendSync(t, target) ==
  /\ Idle(t) /\ t \notin Servers
  /\ syncing' = syncing \cup {t}
  /\ prio' = [prio EXCEPT ![t] = SyncPrio(t)]
  /\ PutOrWait(t, target, "data", SyncPrio(t), "forever")
  /\ UNCHANGED <<buf, syncSem, got, dropped>>

\* os_sem_take(&sync_sem) succeeds and the call returns
SyncReturn(t) ==
  /\ Runs(t, "out")
  /\ t \in syncSem
  /\ syncing' = syncing \ {t}
  /\ syncSem' = syncSem \ {t}
  /\ prio' = [prio EXCEPT ![t] = Prio[t]]
  /\ dropped' = dropped \ {t}
  /\ UNCHANGED <<txq, rxq, free, poolq, tstate, timed, tx, rx, callVars, sem, irqLocked, out,
                 ahead, fault, buf, got>>

\* os_receive_msg() passes a buffer, so the data is copied at once ...
Receive(t, timeout) == Idle(t) /\ Get(t, K_ANY, FALSE, timeout) /\ UNCHANGED msgVars

\* Mutant: the copy has no callback.
CopyNoCallback(t) ==
  /\ DataCheck(t)
  /\ got' = [got EXCEPT ![t] = NoCallback]
  /\ UNCHANGED <<buf, syncing, syncSem, dropped>>

\* ... and then disposed of, in _mbox_message_data_check()
Copy(t) ==
  /\ DataCheck(t)
  /\ got' = [got EXCEPT ![t] = IF rx[t].from \in Asyncs THEN NoCallback ELSE rx[t].from]
  /\ UNCHANGED <<buf, syncing, syncSem, dropped>>

\* The application handles the message and calls the callback of a synchronous
\* one, os_sync_msg_callback().
Handle(t) ==
  /\ Runs(t, "out") /\ got[t] # Null
  /\ got' = [got EXCEPT ![t] = Null]
  /\ syncSem' = IF got[t] = NoCallback THEN syncSem ELSE syncSem \cup {got[t]}
  /\ UNCHANGED <<mboxVars, buf, syncing, dropped>>

\* The steps of the mailbox that change nothing here
Mailbox(t) == (AsyncPut(t) \/ Give(t) \/ ClearEnd(t)) /\ UNCHANGED msgVars

\* msg_manager_drop_all_msg() comes to a synchronous message, or to another
Drop(t) ==
  /\ ClearOne(t)
  /\ dropped' = IF next[t] \in Threads THEN dropped \cup {next[t]} ELSE dropped
  /\ UNCHANGED <<buf, syncing, syncSem, got>>

\* What a thread that has something left to do in a call, or a message to
\* handle, does next.
GoOn(t) ==
  SyncReturn(t) \/ Copy(t) \/ Handle(t) \/ Mailbox(t) \/ Drop(t)

MsgNext ==
  \E t \in Threads :
    \/ \E b \in Sems : FillBuffer(t, b)
    \/ \E target \in Peers(t) : SendAsync(t, target)
    \/ \E target \in Peers(t) : SendSync(t, target)
    \/ \E timeout \in Waits : Receive(t, timeout)
    \/ GoOn(t)
    \/ Timeout(t) /\ UNCHANGED msgVars
    \/ Idle(t) /\ ClearStart(t) /\ UNCHANGED msgVars

\* The scheduler runs every thread that is able to run again and again, and a
\* server receives again and again.
MsgFairness ==
  \A t \in Threads :
    /\ SF_allVars(GoOn(t))
    /\ t \in Servers => SF_allVars(Receive(t, "forever"))

MsgSpec == MsgInit /\ [][MsgNext]_allVars /\ MsgFairness

-----------------------------------------------------------------------------
\* A thread that has got a buffer finds a descriptor: k_mbox_async_put() waits
\* without a limit for one, but never has to, because the descriptor of a
\* message is freed before the semaphore of its buffer is given.
PoolNeverWaits == poolq = << >>

\* A buffer is free, or in the hands of one sender, one message or one receiver
\* about to free it; none is lost, whether its message is received or dropped.
BuffersAccounted ==
  MsgTypeOK /\ \A b \in Sems :
    sem[b] + Cardinality({t \in Threads : buf[t] = b}) + Cardinality({s \in Senders : tx[s].sem = b})
           + Cardinality({t \in Threads : hand[t] = b}) = 1

\* A synchronous sender waits for something that will come, its message is
\* queued, with a receiver, or answered, unless it was dropped; and a callback
\* that is still to be called gives the semaphore of a call that still waits.
SyncAnswered ==
  LET asked(t) == Contains(txq, t) \/ Holders(t) # {} \/ \E r \in Threads : got[r] = t
  IN  /\ \A t \in syncing : asked(t) \/ t \in syncSem \/ t \in dropped
      /\ \A t \in Threads : asked(t) => t \in syncing \ syncSem

\* A synchronous message to a server is answered, however many asynchronous
\* ones come: it overtakes them, at priority -1.
SyncReturns ==
  \A t \in Threads \ Servers, r \in Servers :
    (t \in syncing /\ tx[t].target = r) ~> (t \notin syncing \/ t \in dropped)

=============================================================================

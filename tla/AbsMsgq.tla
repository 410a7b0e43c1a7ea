------------------------------ MODULE AbsMsgq -------------------------------
(***************************************************************************)
(* What a message queue promises (k_msgq_put, k_msgq_get and k_msgq_purge  *)
(* in src/sdk014_ZS285A/include/kernel.h): a bounded channel that is first *)
(* in, first out.  A message is received once if and only if its put       *)
(* returned 0 and no purge came first; nobody waits for what is there.     *)
(* KMsgq.tla implements it.                                                *)
(***************************************************************************)
EXTENDS Integers, Sequences

CONSTANTS Threads, Msgs, MaxMsgs, NoMsg

VARIABLES
  chan,      \* the messages sent and not yet received
  result,    \* per thread: "putting", "getting", or how its last call ended
  msg,       \* per thread: the message it sends, or the last one it received
  taken      \* what an interrupt handler received in the last step, or NoMsg

absVars == <<chan, result, msg, taken>>

AbsInit ==
  /\ chan = << >>
  /\ result = [t \in Threads |-> "none"]
  /\ msg = [t \in Threads |-> NoMsg]
  /\ taken = NoMsg

Putting == {t \in Threads : result[t] = "putting"}
Getting == {t \in Threads : result[t] = "getting"}

\* t's call ends with r, m being what it sent or received.
Ends(t, r, m) ==
  /\ result' = [result EXCEPT ![t] = r]
  /\ msg' = [msg EXCEPT ![t] = m]

\* A message is accepted: it goes straight to a waiting receiver, or joins
\* the channel.  c is who sends it: a thread, or NoMsg for an interrupt.
AbsPut(c, m) ==
  LET sent(f, v) == IF c \in Threads THEN [f EXCEPT ![c] = v] ELSE f
  IN  /\ c \notin Putting \cup Getting
      /\ taken' = NoMsg
      /\ \/ \E r \in Getting :
              /\ result' = [sent(result, "OK") EXCEPT ![r] = "OK"]
              /\ msg' = [sent(msg, m) EXCEPT ![r] = m]
              /\ UNCHANGED chan
         \/ /\ Getting = {}
            /\ Len(chan) < MaxMsgs
            /\ chan' = Append(chan, m)
            /\ result' = sent(result, "OK")
            /\ msg' = sent(msg, m)

\* The oldest message is received, and a waiting sender's message takes the
\* place that becomes free.
AbsGet(c) ==
  LET got(f, v) == IF c \in Threads THEN [f EXCEPT ![c] = v] ELSE f
  IN  /\ c \notin Putting \cup Getting
      /\ chan # << >>
      /\ taken' = IF c \in Threads THEN NoMsg ELSE Head(chan)
      /\ msg' = got(msg, Head(chan))
      /\ \/ \E w \in Putting :
              /\ chan' = Append(Tail(chan), msg[w])
              /\ result' = [got(result, "OK") EXCEPT ![w] = "OK"]
         \/ /\ Putting = {}
            /\ chan' = Tail(chan)
            /\ result' = got(result, "OK")

\* A put that finds the channel full, or a get that finds it empty, is refused
\* or blocks.
AbsRefuse(t, m) ==
  /\ t \notin Putting \cup Getting
  /\ \/ m # NoMsg /\ Len(chan) = MaxMsgs /\ \E r \in {"ENOMSG", "putting"} : Ends(t, r, m)
     \/ m = NoMsg /\ chan = << >> /\ \E r \in {"ENOMSG", "getting"} : Ends(t, r, m)
  /\ taken' = NoMsg
  /\ UNCHANGED chan

AbsTimeout(t) ==
  /\ t \in Putting \cup Getting
  /\ Ends(t, "EAGAIN", msg[t])
  /\ taken' = NoMsg
  /\ UNCHANGED chan

\* All messages are discarded and all waiting calls fail.
AbsPurge ==
  /\ chan' = << >>
  /\ result' = [t \in Threads |->
       IF t \in Putting \cup Getting THEN "ENOMSG" ELSE result[t]]
  /\ taken' = NoMsg
  /\ UNCHANGED msg

\* Ends the visibility of taken.
AbsIdle == taken' = NoMsg /\ UNCHANGED <<chan, result, msg>>

AbsNext ==
  \/ \E c \in Threads \cup {NoMsg} :
       AbsGet(c) \/ \E m \in Msgs : AbsPut(c, m)
  \/ \E t \in Threads :
       \/ \E m \in Msgs \cup {NoMsg} : AbsRefuse(t, m)
       \/ AbsTimeout(t)
  \/ AbsPurge
  \/ AbsIdle

AbsSpec == AbsInit /\ [][AbsNext]_absVars

=============================================================================

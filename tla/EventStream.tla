----------------------------- MODULE EventStream -----------------------------
(***************************************************************************)
(* What sessions.events({ sessionID, after? }) promises a consumer that    *)
(* keeps its cursor and reconnects with it (core/src/session.ts events,    *)
(* core/src/event.ts durable): it receives every durable event of the      *)
(* session once, in the order of the log, and while it stays connected it  *)
(* catches up with what was announced.                                     *)
(*                                                                         *)
(* The log of the one session is its latest sequence: events 0 .. latest.  *)
(***************************************************************************)
EXTENDS Integers

CONSTANT Reader  \* consumers

VARIABLES
  latest,    \* latest committed sequence, -1 before the first
  connected, \* Reader -> BOOLEAN
  received,  \* Reader -> sequence of the last event the consumer received
  announced  \* the log up to here is known to have grown

vars == <<latest, connected, received, announced>>

Init ==
  /\ latest = -1
  /\ connected = [t \in Reader |-> FALSE]
  /\ received = [t \in Reader |-> -1]
  /\ announced = -1

\* One event, or an atomic batch of them, is committed.
Append ==
  /\ latest' \in {latest + 1, latest + 2}
  /\ UNCHANGED <<connected, received, announced>>

\* A publisher announces the log as it is.
Announce ==
  /\ announced' = latest
  /\ UNCHANGED <<latest, connected, received>>

Connect(t) ==
  /\ connected' = [connected EXCEPT ![t] = TRUE]
  /\ UNCHANGED <<latest, received, announced>>

\* A consumer, or all of them, lose their connection.
Disconnect ==
  /\ connected' \in [Reader -> BOOLEAN]
  /\ \A t \in Reader : connected'[t] => connected[t]
  /\ UNCHANGED <<latest, received, announced>>

Deliver(t) ==
  /\ connected[t]
  /\ received[t] < latest
  /\ received' = [received EXCEPT ![t] = @ + 1]
  /\ UNCHANGED <<latest, connected, announced>>

Next == Append \/ Announce \/ Disconnect \/ \E t \in Reader : Connect(t) \/ Deliver(t)

Spec == Init /\ [][Next]_vars

FairSpec == Spec /\ \A t \in Reader : WF_vars(Deliver(t) /\ received[t] < announced)
=============================================================================

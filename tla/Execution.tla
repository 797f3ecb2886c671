------------------------------ MODULE Execution ------------------------------
(***************************************************************************)
(* What the run coordinator promises for each session, without its entry   *)
(* objects, fibers and waiters: core/src/session/execution.ts (resume,     *)
(* wake, interrupt) over core/src/session/run-coordinator.ts.              *)
(*                                                                         *)
(* A session is idle, due for a drain, or draining.  RunCoordinator        *)
(* implements this specification, and SessionCore composes it with the     *)
(* inbox and the runner.                                                   *)
(***************************************************************************)
CONSTANT Key

VARIABLES
  slot,      \* Key -> "idle", "due" (a drain is scheduled) or "draining"
  force,     \* Key -> the scheduled or running drain was started by a resume
  stopping,  \* Key -> the scheduled or running drain was interrupted
  again      \* Key -> a follow-up was asked for

vars == <<slot, force, stopping, again>>

Init ==
  /\ slot = [k \in Key |-> "idle"]
  /\ force = [k \in Key |-> FALSE]
  /\ stopping = [k \in Key |-> FALSE]
  /\ again = [k \in Key |-> FALSE]

\* A resume starts a forced drain of an idle session; otherwise it only waits.
Resume(k) ==
  /\ slot[k] = "idle"
  /\ slot' = [slot EXCEPT ![k] = "due"]
  /\ force' = [force EXCEPT ![k] = TRUE]
  /\ UNCHANGED <<stopping, again>>

\* A wake starts a drain of an idle session, or asks for one more after this one.
Wake(k) ==
  \/ /\ slot[k] = "idle"
     /\ slot' = [slot EXCEPT ![k] = "due"]
     /\ UNCHANGED <<force, stopping, again>>
  \/ /\ slot[k] # "idle"
     /\ again' = [again EXCEPT ![k] = TRUE]
     /\ UNCHANGED <<slot, force, stopping>>

\* An interrupt stops the execution and withdraws the wakes before it.
Interrupt(k) ==
  /\ slot[k] # "idle"
  /\ stopping' = [stopping EXCEPT ![k] = TRUE]
  /\ again' = [again EXCEPT ![k] = FALSE]
  /\ UNCHANGED <<slot, force>>

Begin(k) ==
  /\ slot[k] = "due"
  /\ ~stopping[k]
  /\ slot' = [slot EXCEPT ![k] = "draining"]
  /\ UNCHANGED <<force, stopping, again>>

\* The execution ends, one way or another: a wake since makes the next drain due.
End(k) ==
  /\ slot[k] = "draining" \/ (slot[k] = "due" /\ stopping[k])
  /\ slot' = [slot EXCEPT ![k] = IF again[k] THEN "due" ELSE "idle"]
  /\ force' = [force EXCEPT ![k] = FALSE]
  /\ stopping' = [stopping EXCEPT ![k] = FALSE]
  /\ again' = [again EXCEPT ![k] = FALSE]

Next == \E k \in Key : Resume(k) \/ Wake(k) \/ Interrupt(k) \/ Begin(k) \/ End(k)

Fairness == \A k \in Key : WF_vars(Begin(k)) /\ WF_vars(End(k))

Spec == Init /\ [][Next]_vars

FairSpec == Spec /\ Fairness
=============================================================================

---------------------------- MODULE BackgroundJob ----------------------------
(***************************************************************************)
(* The registry of background jobs, for one id: core/src/background-job.ts. *)
(* A job is a chain of runs: the first one, and extensions that each wait  *)
(* for the one before.  The registry's entry is a value that every         *)
(* operation exchanges as a whole; a run settles some time after it ended, *)
(* when the chain may have gone on, the job may have ended, and the id may *)
(* have been given to another job.                                         *)
(***************************************************************************)
EXTENDS Integers

CONSTANTS MaxJob,     \* bound: jobs started one after another under the id
          MaxExtend   \* bound: extensions of a job

ASSUME BoundsAreNat == MaxJob \in Nat /\ MaxExtend \in Nat

Job == 1..MaxJob          \* also the entry's token
Run == 0..MaxExtend       \* the sequence number of a run
Exits == {"success", "failure"}   \* an interruption of the run by itself is a failure, too
Status == {"none", "running", "completed", "failed", "cancelled"}

VARIABLES
  entry,       \* the job the id stands for, 0 before the first
  status,      \* per job: info.status
  pending,     \* runs that have not settled
  next,        \* the sequence number of the next run
  output,      \* the run whose output the job shows, -1 for none
  background,  \* the job has been promoted: what waitForPromotion awaits
  done,        \* the deferred that wait awaits
  open,        \* the job's scope
  fiber,       \* per job and run: where its fiber is
  exit         \* how the run ended

registry == <<entry, status, pending, next, output, background>>
vars == <<registry, done, open, fiber, exit>>

Init ==
  /\ entry = 0
  /\ status = [j \in Job |-> "none"]
  /\ pending = [j \in Job |-> 0]
  /\ next = [j \in Job |-> 0]
  /\ output = [j \in Job |-> -1]
  /\ background = [j \in Job |-> FALSE]
  /\ done = [j \in Job |-> "none"]
  /\ open = [j \in Job |-> FALSE]
  /\ fiber = [j \in Job |-> [n \in Run |-> "none"]]
  /\ exit = [j \in Job |-> [n \in Run |-> "success"]]

Running(j) == j \in Job /\ status[j] = "running"
-----------------------------------------------------------------------------
\* start: a job that still runs under the id is returned as it is.
Start ==
  /\ ~Running(entry)
  /\ entry < MaxJob
  /\ LET j == entry + 1 IN
       /\ entry' = j
       /\ status' = [status EXCEPT ![j] = "running"]
       /\ pending' = [pending EXCEPT ![j] = 1]
       /\ next' = [next EXCEPT ![j] = 1]
       /\ open' = [open EXCEPT ![j] = TRUE]
       /\ fiber' = [fiber EXCEPT ![j][0] = "running"]
  /\ UNCHANGED <<output, background, done, exit>>

\* extend: another run, behind the job's tail.
Extend ==
  /\ Running(entry)
  /\ next[entry] <= MaxExtend
  /\ pending' = [pending EXCEPT ![entry] = @ + 1]
  /\ next' = [next EXCEPT ![entry] = @ + 1]
  /\ fiber' = [fiber EXCEPT ![entry][next[entry]] = "waiting"]
  /\ UNCHANGED <<entry, status, output, background, done, open, exit>>

\* The tail of a run is released when the run ends, before it settles.
Released(j, n) == fiber[j][n] \in {"ended", "gone"}

\* Mutation: every extension waits for the first run only.
BeginAfterFirst(j, n) ==
  /\ fiber[j][n] = "waiting"
  /\ open[j]
  /\ Released(j, 0)
  /\ fiber' = [fiber EXCEPT ![j][n] = "running"]
  /\ UNCHANGED <<registry, done, open, exit>>

Begin(j, n) ==
  /\ fiber[j][n] = "waiting"
  /\ open[j]
  /\ Released(j, n - 1)
  /\ fiber' = [fiber EXCEPT ![j][n] = "running"]
  /\ UNCHANGED <<registry, done, open, exit>>

RunEnds(j, n) ==
  /\ fiber[j][n] = "running"
  /\ fiber' = [fiber EXCEPT ![j][n] = "ended"]
  /\ \E e \in Exits : exit' = [exit EXCEPT ![j][n] = e]
  /\ UNCHANGED <<registry, done, open>>

\* The closed scope interrupts the fibers that are left; their job has ended, and they
\* have nothing to settle.
Interrupted(j) ==
  /\ ~open[j]
  /\ \E n \in Run : fiber[j][n] \in {"waiting", "running", "ended"}
  /\ fiber' = [fiber EXCEPT ![j] = [n \in Run |-> IF @[n] = "none" THEN "none" ELSE "gone"]]
  /\ exit' = [exit EXCEPT ![j] =
                [n \in Run |-> IF fiber[j][n] \in {"waiting", "running"} THEN "failure" ELSE @[n]]]
  /\ UNCHANGED <<registry, done, open>>

\* The job j ends: done is completed, and the scope closed.
Ends(j, how) ==
  /\ status' = [status EXCEPT ![j] = how]
  /\ pending' = [pending EXCEPT ![j] = 0]
  /\ done' = [done EXCEPT ![j] = IF @ = "none" THEN how ELSE @]
  /\ open' = [open EXCEPT ![j] = FALSE]

Latest(j, n) == exit[j][n] = "success" /\ n > output[j]

\* Mutation: the token is not compared.
SettleAny(j, n) ==
  /\ fiber[j][n] = "ended"
  /\ fiber' = [fiber EXCEPT ![j][n] = "gone"]
  /\ IF ~Running(entry)
     THEN UNCHANGED <<registry, done, open>>
     ELSE LET e == entry IN
          /\ output' = [output EXCEPT ![e] = IF exit[j][n] = "success" /\ n > @ THEN n ELSE @]
          /\ IF exit[j][n] = "success" /\ pending[e] - 1 > 0
             THEN /\ pending' = [pending EXCEPT ![e] = @ - 1]
                  /\ UNCHANGED <<status, done, open>>
             ELSE Ends(e, IF exit[j][n] = "success" THEN "completed" ELSE "failed")
          /\ UNCHANGED <<entry, next, background>>
  /\ UNCHANGED exit

\* Mutation: the last run to settle is counted as still pending.
SettleOneShort(j, n) ==
  /\ fiber[j][n] = "ended"
  /\ fiber' = [fiber EXCEPT ![j][n] = "gone"]
  /\ IF j # entry \/ ~Running(j)
     THEN UNCHANGED <<registry, done, open>>
     ELSE /\ output' = [output EXCEPT ![j] = IF Latest(j, n) THEN n ELSE @]
          /\ IF exit[j][n] = "success" /\ pending[j] > 0
             THEN /\ pending' = [pending EXCEPT ![j] = @ - 1]
                  /\ UNCHANGED <<status, done, open>>
             ELSE Ends(j, IF exit[j][n] = "success" THEN "completed" ELSE "failed")
          /\ UNCHANGED <<entry, next, background>>
  /\ UNCHANGED exit

\* settle: only the job the run belongs to, while it runs.  The first failure ends it;
\* success ends it when nothing else is pending.
Settle(j, n) ==
  /\ fiber[j][n] = "ended"
  /\ fiber' = [fiber EXCEPT ![j][n] = "gone"]
  /\ IF j # entry \/ ~Running(j)
     THEN UNCHANGED <<registry, done, open>>
     ELSE /\ output' = [output EXCEPT ![j] = IF Latest(j, n) THEN n ELSE @]
          /\ IF exit[j][n] = "success" /\ pending[j] - 1 > 0
             THEN /\ pending' = [pending EXCEPT ![j] = @ - 1]
                  /\ UNCHANGED <<status, done, open>>
             ELSE Ends(j, IF exit[j][n] = "success" THEN "completed" ELSE "failed")
          /\ UNCHANGED <<entry, next, background>>
  /\ UNCHANGED exit

\* cancel: the runs are interrupted, and settle nothing any more.
Cancel ==
  /\ Running(entry)
  /\ Ends(entry, "cancelled")
  /\ UNCHANGED <<entry, next, output, background, fiber, exit>>

\* promote: the job goes on without whoever waits for it in the foreground.
Promote ==
  /\ Running(entry)
  /\ ~background[entry]
  /\ background' = [background EXCEPT ![entry] = TRUE]
  /\ UNCHANGED <<entry, status, pending, next, output, done, open, fiber, exit>>

Next ==
  \/ Start \/ Extend \/ Cancel \/ Promote
  \/ \E j \in Job, n \in Run :
       Begin(j, n) \/ RunEnds(j, n) \/ Settle(j, n)
  \/ \E j \in Job : Interrupted(j)

Spec == Init /\ [][Next]_vars

\* Fibers that can run are run; a run itself need not end.
FairSpec ==
  /\ Spec
  /\ \A j \in Job, n \in Run :
       WF_vars(Begin(j, n)) /\ WF_vars(Settle(j, n))
  /\ \A j \in Job : WF_vars(Interrupted(j))
-----------------------------------------------------------------------------
\* Type invariant.
TypeOK ==
  /\ entry \in 0..MaxJob
  /\ status \in [Job -> Status]
  /\ pending \in [Job -> Nat]
  /\ next \in [Job -> Nat]
  /\ output \in [Job -> {-1} \cup Run]
  /\ background \in [Job -> BOOLEAN]
  /\ done \in [Job -> Status]
  /\ open \in [Job -> BOOLEAN]
  /\ fiber \in [Job -> [Run -> {"none", "waiting", "running", "ended", "gone"}]]
  /\ exit \in [Job -> [Run -> Exits]]

\* What waits for a job is told "completed" only when every run it was extended by has
\* succeeded, and then shows the output of the last one in the chain, in whatever order
\* the runs settle and whatever the runs of an earlier job under the id still do.
CompletedIsWhole ==
  \A j \in Job : done[j] = "completed" =>
    /\ \A n \in Run : n < next[j] => fiber[j][n] \in {"ended", "gone"} /\ exit[j][n] = "success"
    /\ output[j] = next[j] - 1

\* The runs of a job never overlap.
RunsAreSerial ==
  \A j \in Job : \A m, n \in Run : fiber[j][m] = "running" /\ fiber[j][n] = "running" => m = n

\* A job none of whose runs is left ends, or is extended.
JobEnds ==
  \A j \in Job :
    status[j] = "running" /\ (\A n \in Run : fiber[j][n] \notin {"waiting", "running"})
      ~> done[j] # "none" \/ \E n \in Run : fiber[j][n] \in {"waiting", "running"}
=============================================================================

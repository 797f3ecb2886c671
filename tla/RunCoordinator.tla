--------------------------- MODULE RunCoordinator ---------------------------
(***************************************************************************)
(* The per-key run coordinator of core/src/session/run-coordinator.ts: it  *)
(* serialises the drains of one session while different sessions drain     *)
(* concurrently.                                                           *)
(*                                                                         *)
(* An entry is the object a key maps to while it is being executed; it     *)
(* carries the deferred `done` its joiners await and the fiber that owns   *)
(* the execution.  Entries and fibers have identities here because the     *)
(* code closes over them: settle() deletes whatever the key maps to, a     *)
(* waiter keeps the deferred of the entry it joined and an interrupter the *)
(* fiber it stopped.  Completing a deferred or a fiber resumes its waiters *)
(* in the same step; an object nobody can reach any more is Unused.        *)
(*                                                                         *)
(* What the drain does is left open: it ends with any exit, at any time,   *)
(* also with an interruption nobody asked the coordinator for (the runner  *)
(* interrupts itself when its session moved) and also with a success after *)
(* an interruption (an uninterruptible tail).                              *)
(***************************************************************************)

CONSTANTS Key,      \* session IDs
          Entry,    \* pool of entry objects
          Fiber,    \* pool of drain fibers
          Caller,   \* fibers that call run and interrupt
          None      \* the absent entry

\* The absent entry is not an entry.
ASSUME NoneIsFresh == None \notin Entry

VARIABLES
  active,   \* Key -> its entry, or None:  Map<Key, Entry>
  entry,    \* Entry -> its owner fiber, pendingWake and stopping, or Unused
  fiber,    \* Fiber -> the execution it owns, or Unused
  caller,   \* Caller -> what it awaits, or how its last call returned
  owed      \* history: Key -> execution was asked for and none has begun since

vars == <<active, entry, fiber, caller, owed>>

Exit == {"success", "failure", "interrupt"}
Unused == [phase |-> "unused"]
Ready(exit) == [pc |-> "ready", exit |-> exit]

LiveEntry == [phase : {"pending"}, owner : Fiber, pendingWake : BOOLEAN, stopping : BOOLEAN]
LiveFiber == [phase : {"scheduled", "draining"}, interrupted : BOOLEAN,
              key : Key, entry : Entry, force : BOOLEAN]
CallerState == [pc : {"ready"}, exit : Exit \cup {"none", "cancelled"}]
                 \cup [pc : {"joined", "deferred"}, key : Key, entry : Entry]
                 \cup [pc : {"rerun"}, key : Key]
                 \cup [pc : {"interrupting"}, fiber : Fiber]

FreeEntry == {e \in Entry : entry[e] = Unused}
FreeFiber == {f \in Fiber : fiber[f] = Unused}
Live == Fiber \ FreeFiber

Init ==
  /\ active = [k \in Key |-> None]
  /\ entry = [e \in Entry |-> Unused]
  /\ fiber = [f \in Fiber |-> Unused]
  /\ caller = [c \in Caller |-> Ready("none")]
  /\ owed = [k \in Key |-> FALSE]

\* makeEntry() with the owner start() gives it.
MakeEntry(f) == [phase |-> "pending", owner |-> f, pendingWake |-> FALSE, stopping |-> FALSE]

\* The fiber start() forks.  It has not entered the drain: it awaits `ready`, or
\* it yields when it follows a settled drain.
Start(k, e, force) ==
  [phase |-> "scheduled", interrupted |-> FALSE, key |-> k, entry |-> e, force |-> force]

\* Mutation: a key is launched without looking at the entry it maps to.
LaunchAnyway(k, e, f, force) ==
  /\ e \in FreeEntry /\ f \in FreeFiber
  /\ active' = [active EXCEPT ![k] = e]
  /\ entry' = [entry EXCEPT ![e] = MakeEntry(f)]
  /\ fiber' = [fiber EXCEPT ![f] = Start(k, e, force)]
  /\ owed' = [owed EXCEPT ![k] = TRUE]

\* run and wake of an idle key: a new entry, its owner, and the demand for a drain.
Launch(k, e, f, force) ==
  /\ active[k] = None
  /\ e \in FreeEntry /\ f \in FreeFiber
  /\ active' = [active EXCEPT ![k] = e]
  /\ entry' = [entry EXCEPT ![e] = MakeEntry(f)]
  /\ fiber' = [fiber EXCEPT ![f] = Start(k, e, force)]
  /\ owed' = [owed EXCEPT ![k] = TRUE]

\* Caller c may call run(k): it is free, or its deferred call runs again.
MayRun(c, k) == \/ caller[c].pc = "ready"
                \/ caller[c].pc = "rerun" /\ caller[c].key = k

RunIdle(c, k) ==
  /\ MayRun(c, k)
  /\ \E e \in Entry, f \in Fiber :
       /\ Launch(k, e, f, TRUE)
       /\ caller' = [caller EXCEPT ![c] = [pc |-> "joined", key |-> k, entry |-> e]]

\* An entry that is being stopped is not joined: its end is awaited, then run is
\* tried again.
RunBusy(c, k) ==
  /\ MayRun(c, k)
  /\ active[k] # None
  /\ caller' = [caller EXCEPT ![c] =
                  [pc    |-> IF entry[active[k]].stopping THEN "deferred" ELSE "joined",
                   key   |-> k,
                   entry |-> active[k]]]
  /\ UNCHANGED <<active, entry, fiber, owed>>

Run(c, k) == RunIdle(c, k) \/ RunBusy(c, k)

\* wake(key) is synchronous: no caller waits for it.
WakeIdle(k) ==
  /\ \E e \in Entry, f \in Fiber : Launch(k, e, f, FALSE)
  /\ UNCHANGED caller

\* Mutation: a busy key ignores the wake.
WakeDropped(k) ==
  /\ active[k] # None
  /\ owed' = [owed EXCEPT ![k] = TRUE]
  /\ UNCHANGED <<active, entry, fiber, caller>>

WakeBusy(k) ==
  /\ active[k] # None
  /\ entry' = [entry EXCEPT ![active[k]].pendingWake = TRUE]
  /\ owed' = [owed EXCEPT ![k] = TRUE]
  /\ UNCHANGED <<active, fiber, caller>>

Wake(k) == WakeIdle(k) \/ WakeBusy(k)

\* interrupt(key): Fiber.interrupt delivers the interruption and awaits the
\* fiber's exit.  Without an execution it returns at once and changes nothing.
Interrupt(c, k) ==
  /\ caller[c].pc = "ready"
  /\ active[k] # None
  /\ LET o == entry[active[k]].owner IN
     /\ entry' = [entry EXCEPT ![active[k]].stopping = TRUE, ![active[k]].pendingWake = FALSE]
     /\ fiber' = [fiber EXCEPT ![o].interrupted = TRUE]
     /\ caller' = [caller EXCEPT ![c] = [pc |-> "interrupting", fiber |-> o]]
  /\ owed' = [owed EXCEPT ![k] = FALSE]
  /\ UNCHANGED active

\* The owner fiber enters the drain.
Begin(f) ==
  /\ fiber[f].phase = "scheduled"
  /\ ~fiber[f].interrupted
  /\ fiber' = [fiber EXCEPT ![f].phase = "draining"]
  /\ owed' = [owed EXCEPT ![fiber[f].key] = FALSE]
  /\ UNCHANGED <<active, entry, caller>>

\* Mutation: onExit guards the drain only, not the wait before it.
EndsDraining(f, exit) == exit \in Exit /\ fiber[f].phase = "draining"

\* How fiber f can end: any way once it drains, interrupted if that came before.
Ends(f, exit) ==
  /\ exit \in Exit
  /\ \/ fiber[f].phase = "draining"
     \/ fiber[f].phase = "scheduled" /\ fiber[f].interrupted /\ exit = "interrupt"

\* The fiber's observers: the callers of interrupt.
FiberDone(f, callers) ==
  [c \in Caller |-> IF callers[c].pc = "interrupting" /\ callers[c].fiber = f
                    THEN Ready("success") ELSE callers[c]]

\* Effect.andThen(run(key)) runs only after a success; another exit becomes the
\* result of the deferred call.
AfterStopped(k, exit) == IF exit = "success" THEN [pc |-> "rerun", key |-> k] ELSE Ready(exit)

\* Deferred.doneUnsafe(entry.done, exit): everyone who awaits entry e resumes.
EntryDone(e, exit) ==
  [c \in Caller |->
     IF caller[c].pc = "joined" /\ caller[c].entry = e THEN Ready(exit)
     ELSE IF caller[c].pc = "deferred" /\ caller[c].entry = e
          THEN AfterStopped(caller[c].key, exit)
     ELSE caller[c]]

\* Mutation: every woken execution is handed over, successful ones too.
NeverKeepsEntry(e, exit) == FALSE

KeepsEntry(e, exit) == exit = "success" /\ ~entry[e].stopping /\ entry[e].pendingWake

\* Mutation: the wake is not consumed by the follow-up it starts.
RestartKeepingWake(f) ==
  /\ Ends(f, "success")
  /\ LET k == fiber[f].key
         e == fiber[f].entry IN
     /\ KeepsEntry(e, "success")
     /\ \E g \in FreeFiber :
          /\ entry' = [entry EXCEPT ![e].owner = g]
          /\ fiber' = [fiber EXCEPT ![f] = Unused, ![g] = Start(k, e, FALSE)]
  /\ caller' = FiberDone(f, caller)
  /\ UNCHANGED <<active, owed>>

\* settle(): a woken execution that succeeded drains again under the same entry.
Restart(f) ==
  /\ Ends(f, "success")
  /\ LET k == fiber[f].key
         e == fiber[f].entry IN
     /\ KeepsEntry(e, "success")
     /\ \E g \in FreeFiber :
          /\ entry' = [entry EXCEPT ![e].pendingWake = FALSE, ![e].owner = g]
          /\ fiber' = [fiber EXCEPT ![f] = Unused, ![g] = Start(k, e, FALSE)]
  /\ caller' = FiberDone(f, caller)
  /\ UNCHANGED <<active, owed>>

\* Mutation: the successor replaces the entry and its deferred is forgotten.
HandoverSilently(f, exit) ==
  /\ Ends(f, exit)
  /\ LET k == fiber[f].key
         e == fiber[f].entry IN
     /\ ~KeepsEntry(e, exit)
     /\ entry[e].pendingWake
     /\ \E s \in FreeEntry, g \in FreeFiber :
          /\ active' = [active EXCEPT ![k] = s]
          /\ entry' = [entry EXCEPT ![e] = Unused, ![s] = MakeEntry(g)]
          /\ fiber' = [fiber EXCEPT ![f] = Unused, ![g] = Start(k, s, FALSE)]
     /\ caller' = FiberDone(f, caller)
  /\ UNCHANGED owed

\* settle(): a woken execution that failed or was stopped is replaced by a successor.
Handover(f, exit) ==
  /\ Ends(f, exit)
  /\ LET k == fiber[f].key
         e == fiber[f].entry IN
     /\ ~KeepsEntry(e, exit)
     /\ entry[e].pendingWake
     /\ \E s \in FreeEntry, g \in FreeFiber :
          /\ active' = [active EXCEPT ![k] = s]
          /\ entry' = [entry EXCEPT ![e] = Unused, ![s] = MakeEntry(g)]
          /\ fiber' = [fiber EXCEPT ![f] = Unused, ![g] = Start(k, s, FALSE)]
     /\ caller' = FiberDone(f, EntryDone(e, exit))
  /\ UNCHANGED owed

\* Mutation: an execution that did not succeed forgets the wake it received.
RetireOnFailure(f, exit) ==
  /\ Ends(f, exit)
  /\ LET e == fiber[f].entry IN
     /\ entry[e].pendingWake => exit # "success"
     /\ active' = [active EXCEPT ![fiber[f].key] = None]
     /\ entry' = [entry EXCEPT ![e] = Unused]
     /\ fiber' = [fiber EXCEPT ![f] = Unused]
     /\ caller' = FiberDone(f, EntryDone(e, exit))
  /\ UNCHANGED owed

\* settle(): nothing was woken, the key becomes idle.
Retire(f, exit) ==
  /\ Ends(f, exit)
  /\ LET e == fiber[f].entry IN
     /\ ~entry[e].pendingWake
     /\ active' = [active EXCEPT ![fiber[f].key] = None]
     /\ entry' = [entry EXCEPT ![e] = Unused]
     /\ fiber' = [fiber EXCEPT ![f] = Unused]
     /\ caller' = FiberDone(f, EntryDone(e, exit))
  /\ UNCHANGED owed

Settle(f) == Restart(f) \/ \E exit \in Exit : Handover(f, exit) \/ Retire(f, exit)

\* A waiter is itself interrupted: the waits are restored to interruptible.
Cancel(c) ==
  /\ caller[c].pc \in {"joined", "deferred", "interrupting"}
  /\ caller' = [caller EXCEPT ![c] = Ready("cancelled")]
  /\ UNCHANGED <<active, entry, fiber, owed>>

Next ==
  \/ \E k \in Key : Wake(k) \/ \E c \in Caller : Run(c, k) \/ Interrupt(c, k)
  \/ \E f \in Fiber : Begin(f) \/ Settle(f)
  \/ \E c \in Caller : Cancel(c)

Spec == Init /\ [][Next]_vars

\* The event loop runs every scheduled fiber and every resumed waiter, and a
\* drain ends: its provider and tool calls end, or it is interrupted.
Fairness ==
  /\ \A f \in Fiber : WF_vars(Begin(f)) /\ WF_vars(Settle(f))
  /\ \A c \in Caller, k \in Key : WF_vars(caller[c].pc = "rerun" /\ Run(c, k))

FairSpec == Spec /\ Fairness
-----------------------------------------------------------------------------
\* Type invariant.
TypeOK ==
  /\ active \in [Key -> Entry \cup {None}]
  /\ entry \in [Entry -> LiveEntry \cup {Unused}]
  /\ fiber \in [Fiber -> LiveFiber \cup {Unused}]
  /\ caller \in [Caller -> CallerState]
  /\ owed \in [Key -> BOOLEAN]

\* Execution is serialised: two fibers never execute the same key, not even while
\* one of them still runs the cleanup of an interruption and a run, a wake or a
\* successor asks for the next drain.
Serialised ==
  \A f, g \in Live : fiber[f].key = fiber[g].key => f = g

\* The three objects of an execution point at each other: a key's entry is owned by
\* a running fiber that works for this key and this entry, and every running fiber
\* owns the entry its key maps to.  Settling relies on it: it deletes or replaces
\* whatever the key maps to.
OneOwner ==
  /\ \A k \in Key : active[k] # None =>
       /\ entry[active[k]] # Unused
       /\ LET o == entry[active[k]].owner IN
          o \in Live /\ fiber[o].key = k /\ fiber[o].entry = active[k]
  /\ \A f \in Live :
       /\ active[fiber[f].key] = fiber[f].entry
       /\ entry[fiber[f].entry].owner = f

\* A waiter is never abandoned: the entry whose deferred it awaits is the one its
\* key maps to, and the fiber whose exit it awaits is running.
NoAbandonedWaiter ==
  \A c \in Caller :
    /\ caller[c].pc \in {"joined", "deferred"} => active[caller[c].key] = caller[c].entry
    /\ caller[c].pc = "interrupting" => caller[c].fiber \in Live

\* No demand is lost: after a wake (or a run that found the key idle) that no
\* interrupt followed, either the owner has yet to enter its drain or the entry
\* remembers the wake for when the drain settles, whatever exit it settles with.
NoLostDemand ==
  \A k \in Key : owed[k] =>
    /\ active[k] # None
    /\ \/ entry[active[k]].pendingWake
       \/ LET o == fiber[entry[active[k]].owner] IN o.phase = "scheduled" /\ ~o.interrupted

\* A joiner told "success" by an execution nobody interrupted is told so when all
\* the work woken before has been drained: no demand is outstanding.
SuccessMeansDrained ==
  [][\A c \in Caller :
       /\ caller[c].pc = "joined"
       /\ caller'[c] = Ready("success")
       /\ ~entry[caller[c].entry].stopping
       => ~owed[caller[c].key]]_vars

\* A resume that arrives while an interrupted drain cleans up is executed after
\* the cleanup (unless its caller gives up): it is not answered with the exit of
\* the drain it did not join.
DeferredResumeRuns ==
  [][\A c \in Caller :
       caller[c].pc = "deferred" /\ caller'[c].pc = "ready"
         => caller'[c].exit = "cancelled"]_vars

\* Every demand is served: a drain begins, or an interrupt withdraws it.
DemandServed == \A k \in Key : owed[k] ~> ~owed[k]

\* Every call returns.  interrupt does so once the drain's cleanup ended; a resume,
\* unless wakes keep arriving: each wake during a drain extends the execution its
\* joiners wait for.
CallsReturn ==
  \A c \in Caller :
    /\ caller[c].pc = "interrupting" ~> caller[c].pc # "interrupting"
    /\ \/ \E k \in Key : []<><<WakeBusy(k)>>_vars
       \/ \A k \in Key : []<>~(caller[c].pc = "joined" /\ caller[c].key = k)

\* The owner of the entry a key maps to; only used where there is one.
Owner(k) == fiber[entry[active[k]].owner]

\* What the contract sees of a key.
SlotOf(k) == IF active[k] = None THEN "idle"
             ELSE IF Owner(k).phase = "scheduled" THEN "due" ELSE "draining"
ForceOf(k) == active[k] # None /\ Owner(k).force
StoppingOf(k) == active[k] # None /\ entry[active[k]].stopping
AgainOf(k) == active[k] # None /\ entry[active[k]].pendingWake

\* The refinement mapping: an execution per key.
Contract == INSTANCE Execution WITH
  slot     <- [k \in Key |-> SlotOf(k)],
  force    <- [k \in Key |-> ForceOf(k)],
  stopping <- [k \in Key |-> StoppingOf(k)],
  again    <- [k \in Key |-> AgainOf(k)]

\* The coordinator keeps the contract of Execution: what it does to entries,
\* fibers and waiters never shows as anything but one serial execution per key,
\* every due drain begins and every execution ends.
ImplementsExecution == Contract!FairSpec
=============================================================================

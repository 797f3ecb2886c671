----------------------------- MODULE SessionCore -----------------------------
(***************************************************************************)
(* One V2 session: clients admit prompts into the durable inbox and wake   *)
(* the execution (core/src/session.ts, session/input.ts); the drain of the *)
(* runner promotes them into the visible history and calls the provider    *)
(* (session/runner/llm.ts); reverts delete both (session/revert.ts,        *)
(* session/projector.ts).  Scheduling is the contract of Execution, which  *)
(* RunCoordinator implements.                                              *)
(*                                                                         *)
(* Every publication of a durable event is one step: its projection and    *)
(* its sequence number commit in one transaction.  Between two steps       *)
(* anything may happen: another client, a revert, an interrupt, a crash.   *)
(***************************************************************************)
EXTENDS Integers

CONSTANTS Id,       \* message IDs that clients use
          Client,   \* fibers that call the session API
          S,        \* the session
          None,     \* no message ID
          MaxSeq    \* bound: no prompt or revert starts beyond this sequence

ASSUME NoneIsNoId == None \notin Id
ASSUME MaxSeqIsNat == MaxSeq \in Nat

VARIABLES
  slot, force, stopping, again,  \* the execution of S, see Execution
  seq,       \* latest durable sequence of the session, 0 before the first event
  inbox,     \* Id -> its row in session_input, or Absent
  message,   \* Id -> seq of its visible user message, or 0
  staged,    \* boundary of the staged revert, or None
  run,       \* the drain: its point of control and what it has read
  call,      \* Client -> the call in progress
  seen,      \* history: the visible prompts a provider call was given
  asked,     \* history: prompts whose execution was asked for and not withdrawn
  accepted   \* history: Id -> the delivery of a receipt a caller was given

execution == <<slot, force, stopping, again>>
durable == <<seq, inbox, message, staged>>
vars == <<execution, durable, run, call, seen, asked, accepted>>

Exec == INSTANCE Execution WITH Key <- {S}

Delivery == {"steer", "queue"}
Absent == [state |-> "absent"]
Row(delivery, admitted, promoted) ==
  [state |-> "stored", delivery |-> delivery, admitted |-> admitted, promoted |-> promoted]

Stored(id) == inbox[id] # Absent
\* Mutation: a promoted row is taken for a pending one.
IsStored(id) == Stored(id)

IsPending(id) == Stored(id) /\ inbox[id].promoted = 0
Pending(delivery) == {id \in Id : IsPending(id) /\ inbox[id].delivery = delivery}
Visible == {id \in Id : message[id] # 0}

\* What a drain remembers between its steps.  `rows` are the inbox rows it selected,
\* `fresh` says that it has not called the provider yet.
Off == [pc |-> "off"]
Drain(pc, promotion) ==
  [pc |-> pc, promotion |-> promotion, cutoff |-> 0, rows |-> {}, fresh |-> TRUE]

Idle == [pc |-> "idle"]

Init ==
  /\ Exec!Init
  /\ seq = 0
  /\ inbox = [id \in Id |-> Absent]
  /\ message = [id \in Id |-> 0]
  /\ staged = None
  /\ run = Off
  /\ call = [c \in Client |-> Idle]
  /\ seen = {}
  /\ asked = {}
  /\ accepted = [id \in Id |-> "none"]
-----------------------------------------------------------------------------
(* session.prompt, uninterruptible: admit, compare with what is stored, wake. *)

\* admit() looks for the row first.
PromptFind(c, id, delivery, resume) ==
  /\ call[c] = Idle
  /\ Stored(id) \/ seq < MaxSeq
  /\ call' = [call EXCEPT ![c] =
                [pc |-> IF Stored(id) THEN "check" ELSE "publish",
                 id |-> id, delivery |-> delivery, resume |-> resume,
                 stored |-> IF Stored(id) THEN inbox[id].delivery ELSE delivery]]
  /\ UNCHANGED <<execution, durable, run, seen, asked, accepted>>

\* PromptAdmitted commits with its projection, or projectAdmitted dies of a
\* LifecycleConflict and nothing commits.
PromptPublish(c) ==
  /\ call[c].pc = "publish"
  /\ LET id == call[c].id IN
     IF id \in Visible \/ Stored(id)
     THEN /\ call' = [call EXCEPT ![c].pc = "recover"]
          /\ UNCHANGED durable
     ELSE /\ seq' = seq + 1
          /\ inbox' = [inbox EXCEPT ![id] = Row(call[c].delivery, seq', 0)]
          /\ call' = [call EXCEPT ![c].pc = "check"]
          /\ UNCHANGED <<message, staged>>
  /\ UNCHANGED <<execution, run, seen, asked, accepted>>

\* After the conflict the stored row is looked up once more; without one the
\* conflict becomes the answer.
PromptRecover(c) ==
  /\ call[c].pc = "recover"
  /\ LET id == call[c].id IN
     call' = [call EXCEPT ![c] =
                IF Stored(id) THEN [call[c] EXCEPT !.pc = "check", !.stored = inbox[id].delivery]
                ELSE Idle]
  /\ UNCHANGED <<execution, durable, run, seen, asked, accepted>>

\* A receipt that is not equivalent to the request is a PromptConflictError.
PromptConflict(c) ==
  /\ call[c].pc = "check"
  /\ call[c].stored # call[c].delivery
  /\ call' = [call EXCEPT ![c] = Idle]
  /\ UNCHANGED <<execution, durable, run, seen, asked, accepted>>

\* Mutation: the stored prompt is not compared with the request.
AcceptAnything(c) ==
  /\ call[c].pc = "check"
  /\ accepted' = [accepted EXCEPT ![call[c].id] = call[c].delivery]
  /\ IF call[c].resume
     THEN /\ Exec!Wake(S)
          /\ asked' = asked \cup {id \in {call[c].id} : IsPending(id)}
     ELSE UNCHANGED <<execution, asked>>
  /\ call' = [call EXCEPT ![c] = Idle]
  /\ UNCHANGED <<durable, run, seen>>

\* The receipt is returned; unless resume is false the execution is woken.
PromptAccept(c) ==
  /\ call[c].pc = "check"
  /\ call[c].stored = call[c].delivery
  /\ accepted' = [accepted EXCEPT ![call[c].id] = call[c].delivery]
  /\ IF call[c].resume
     THEN /\ Exec!Wake(S)
          /\ asked' = asked \cup {id \in {call[c].id} : IsPending(id)}
     ELSE UNCHANGED <<execution, asked>>
  /\ call' = [call EXCEPT ![c] = Idle]
  /\ UNCHANGED <<durable, run, seen>>

\* session.resume and session.interrupt, as far as the session's execution goes.
Resume ==
  /\ Exec!Resume(S)
  /\ UNCHANGED <<durable, run, call, seen, asked, accepted>>

Interrupt ==
  /\ Exec!Interrupt(S)
  /\ asked' = {}
  /\ UNCHANGED <<durable, run, call, seen, accepted>>
-----------------------------------------------------------------------------
(* session.revert: stage, clear and commit read the session, then publish. *)

RevertRead(c, op, boundary) ==
  /\ call[c] = Idle
  /\ IF op = "stage" THEN boundary \in Visible /\ seq < MaxSeq
     ELSE boundary = staged /\ staged # None
  /\ call' = [call EXCEPT ![c] = [pc |-> op, boundary |-> boundary]]
  /\ UNCHANGED <<execution, durable, run, seen, asked, accepted>>

RevertStage(c) ==
  /\ call[c].pc = "stage"
  /\ staged' = call[c].boundary
  /\ seq' = seq + 1
  /\ call' = [call EXCEPT ![c] = Idle]
  /\ UNCHANGED <<execution, inbox, message, run, seen, asked, accepted>>

RevertClear(c) ==
  /\ call[c].pc = "clear"
  /\ staged' = None
  /\ seq' = seq + 1
  /\ call' = [call EXCEPT ![c] = Idle]
  /\ UNCHANGED <<execution, inbox, message, run, seen, asked, accepted>>

\* Mutation: only rows admitted after the boundary are deleted.
RowsAdmittedAfter(b) == {id \in Id : Stored(id) /\ inbox[id].admitted > b}

\* The rows the projection of Committed deletes: admitted or promoted after the boundary.
RowsAfter(b) == {id \in Id : Stored(id) /\ (inbox[id].admitted > b \/ inbox[id].promoted > b)}

\* The projection dies when the boundary message is gone, and nothing commits.
RevertCommit(c) ==
  /\ call[c].pc = "commit"
  /\ LET b == message[call[c].boundary] IN
     IF b = 0 THEN UNCHANGED <<durable, seen, asked, accepted>>
     ELSE /\ seq' = seq + 1
          /\ message' = [id \in Id |-> IF message[id] > b THEN 0 ELSE message[id]]
          /\ inbox' = [id \in Id |-> IF id \in RowsAfter(b) THEN Absent ELSE inbox[id]]
          /\ staged' = None
          /\ seen' = seen \ RowsAfter(b)
          /\ asked' = asked \ RowsAfter(b)
          /\ accepted' = [id \in Id |-> IF id \in RowsAfter(b) THEN "none" ELSE accepted[id]]
  /\ call' = [call EXCEPT ![c] = Idle]
  /\ UNCHANGED <<execution, run>>
-----------------------------------------------------------------------------
(* The drain: SessionRunner.run under the coordinator. *)

DrainBegin ==
  /\ Exec!Begin(S)
  /\ run' = Drain("hasSteer", "none")
  /\ UNCHANGED <<durable, call, seen, asked, accepted>>

\* hasSteer = hasPending("steer"), the first of the two reads.
ReadSteer ==
  /\ run.pc = "hasSteer"
  /\ run' = IF Pending("steer") # {} THEN Drain("turn", "steer") ELSE Drain("hasQueue", "none")
  /\ UNCHANGED <<execution, durable, call, seen, asked, accepted>>

\* Mutation: the drain runs whether or not there is anything to promote.
ReadQueueUnguarded ==
  /\ run.pc = "hasQueue"
  /\ run' = Drain("turn", IF Pending("queue") # {} THEN "queue" ELSE "none")
  /\ UNCHANGED <<execution, durable, call, seen, asked, accepted>>

\* Mutation: only a forced drain looks at the queue.
ReadQueueIfForced ==
  /\ run.pc = "hasQueue"
  /\ run' = IF ~force[S] THEN Drain("ended", "none")
            ELSE Drain("turn", IF Pending("queue") # {} THEN "queue" ELSE "none")
  /\ UNCHANGED <<execution, durable, call, seen, asked, accepted>>

\* hasQueue, then the guard: a drain that is not forced needs pending input.
ReadQueue ==
  /\ run.pc = "hasQueue"
  /\ run' = IF Pending("queue") # {} THEN Drain("turn", "queue")
            ELSE IF force[S] THEN Drain("turn", "none")
            ELSE Drain("ended", "none")
  /\ UNCHANGED <<execution, durable, call, seen, asked, accepted>>

\* A turn that promotes captures the inbox cutoff before it selects any row.
TurnBegin ==
  /\ run.pc = "turn"
  /\ run' = [run EXCEPT !.cutoff = IF run.promotion = "none" THEN 0 ELSE seq,
                        !.promotion = "none",
                        !.pc = CASE run.promotion = "none" -> "provider"
                                 [] run.promotion = "queue" -> "selectQueued"
                                 [] run.promotion = "steer" -> "selectSteers"]
  /\ UNCHANGED <<execution, durable, call, seen, asked, accepted>>

\* The inbox rows a select returns, with their values.
Selected(ids) == {[id |-> id, row |-> inbox[id]] : id \in ids}

\* Mutation: the newest row comes first.
Newest(rows) == {r \in rows : \A o \in rows : o.row.admitted <= r.row.admitted}

\* They are ordered by admission.
Oldest(rows) == {r \in rows : \A o \in rows : r.row.admitted <= o.row.admitted}

\* Mutation: every queued input is promoted at once.
SelectAllQueued ==
  /\ run.pc = "selectQueued"
  /\ run' = [run EXCEPT !.rows = Selected(Pending("queue")), !.pc = "publishQueued"]
  /\ UNCHANGED <<execution, durable, call, seen, asked, accepted>>

\* promoteNextQueued: the first queued input, admitted before or after the cutoff.
SelectQueued ==
  /\ run.pc = "selectQueued"
  /\ run' = [run EXCEPT !.rows = Oldest(Selected(Pending("queue"))), !.pc = "publishQueued"]
  /\ UNCHANGED <<execution, durable, call, seen, asked, accepted>>

\* promoteSteers: every steer admitted up to the cutoff.
SelectSteers ==
  /\ run.pc = "selectSteers"
  /\ run' = [run EXCEPT !.rows = Selected({id \in Pending("steer") : inbox[id].admitted <= run.cutoff}),
                        !.cutoff = 0,
                        !.pc = "publishSteers"]
  /\ UNCHANGED <<execution, durable, call, seen, asked, accepted>>

\* Prompted commits with projectPrompted and the visible message: the row is marked,
\* or inserted when there is none.  A row admitted anew since it was selected does
\* not match the event, and the drain dies (see Refused).
PublishRow ==
  /\ run.pc \in {"publishQueued", "publishSteers"}
  /\ \E r \in Oldest(run.rows) :
       /\ IsPending(r.id) => inbox[r.id].admitted = r.row.admitted
       /\ IF Stored(r.id) /\ ~IsPending(r.id) THEN UNCHANGED durable
          ELSE /\ seq' = seq + 1
               /\ inbox' = [inbox EXCEPT ![r.id] =
                    Row(r.row.delivery, IF Stored(r.id) THEN r.row.admitted ELSE seq', seq')]
               /\ message' = [message EXCEPT ![r.id] = seq']
               /\ UNCHANGED staged
       /\ run' = [run EXCEPT !.rows = @ \ {r}]
  /\ UNCHANGED <<execution, call, seen, asked, accepted>>

\* The row to be published next has been admitted anew.
Refused ==
  /\ run.pc \in {"publishQueued", "publishSteers"}
  /\ \E r \in Oldest(run.rows) : IsPending(r.id) /\ inbox[r.id].admitted # r.row.admitted

\* A queued promotion is followed by the steers up to the cutoff.
PublishDone ==
  /\ run.pc \in {"publishQueued", "publishSteers"}
  /\ run.rows = {}
  /\ run' = [run EXCEPT !.pc = IF run.pc = "publishQueued" THEN "selectSteers" ELSE "provider"]
  /\ UNCHANGED <<execution, durable, call, seen, asked, accepted>>

\* The request is assembled from the visible history and the provider is called.
CallProvider ==
  /\ run.pc = "provider"
  /\ seen' = seen \cup Visible
  /\ run' = [run EXCEPT !.pc = "streaming", !.fresh = FALSE]
  /\ UNCHANGED <<execution, durable, call, asked, accepted>>

\* Compaction, before the call or after one that overflowed unanswered: the attempt
\* is repeated and promotes nothing.
Compact ==
  /\ run.pc = "provider"
  /\ run' = [run EXCEPT !.pc = "turn", !.promotion = "none"]
  /\ UNCHANGED <<execution, durable, call, seen, asked, accepted>>

\* The turn ended with tool results: the next one takes steers along.
TurnContinues ==
  /\ run.pc = "streaming"
  /\ run' = [run EXCEPT !.pc = "turn", !.promotion = "steer"]
  /\ UNCHANGED <<execution, durable, call, seen, asked, accepted>>

TurnEnds ==
  /\ run.pc = "streaming"
  /\ run' = [run EXCEPT !.pc = "moreSteer"]
  /\ UNCHANGED <<execution, durable, call, seen, asked, accepted>>

\* A steer admitted meanwhile continues the activity.
MoreSteer ==
  /\ run.pc = "moreSteer"
  /\ run' = IF Pending("steer") # {} THEN [run EXCEPT !.pc = "turn", !.promotion = "steer"]
            ELSE [run EXCEPT !.pc = "moreQueue"]
  /\ UNCHANGED <<execution, durable, call, seen, asked, accepted>>

\* Otherwise one queued input starts the next one.
MoreQueue ==
  /\ run.pc = "moreQueue"
  /\ run' = IF Pending("queue") # {} THEN [run EXCEPT !.pc = "turn", !.promotion = "queue"]
            ELSE [run EXCEPT !.pc = "ended"]
  /\ UNCHANGED <<execution, durable, call, seen, asked, accepted>>

DrainSucceeds ==
  /\ run.pc = "ended"
  /\ Exec!End(S)
  /\ run' = Off
  /\ UNCHANGED <<durable, call, seen, asked, accepted>>

\* A failure, a defect or an interruption ends the drain wherever it is, or before
\* it began.  What it was asked for is withdrawn, except what a later wake covers.
DrainFails ==
  /\ Exec!End(S)
  /\ run' = Off
  /\ asked' = IF again[S] THEN {id \in asked : IsPending(id)} ELSE {}
  /\ UNCHANGED <<durable, call, seen, accepted>>

\* The process dies: the coordinator, the drain and the calls are gone, the
\* database is not.
Crash ==
  /\ slot' = [slot EXCEPT ![S] = "idle"]
  /\ force' = [force EXCEPT ![S] = FALSE]
  /\ stopping' = [stopping EXCEPT ![S] = FALSE]
  /\ again' = [again EXCEPT ![S] = FALSE]
  /\ run' = Off
  /\ call' = [c \in Client |-> Idle]
  /\ asked' = {}
  /\ UNCHANGED <<durable, seen, accepted>>
-----------------------------------------------------------------------------
Prompt(c) ==
  \/ \E id \in Id, delivery \in Delivery, resume \in BOOLEAN : PromptFind(c, id, delivery, resume)
  \/ PromptPublish(c) \/ PromptRecover(c) \/ PromptConflict(c) \/ PromptAccept(c)

Revert(c) ==
  \/ \E op \in {"stage", "clear", "commit"}, boundary \in Id : RevertRead(c, op, boundary)
  \/ RevertStage(c) \/ RevertClear(c) \/ RevertCommit(c)

\* The steps of a drain between its beginning and its end.
DrainStep ==
  \/ ReadSteer \/ ReadQueue \/ TurnBegin \/ SelectQueued \/ SelectSteers \/ PublishRow
  \/ PublishDone \/ MoreSteer \/ MoreQueue

\* A session nobody reverts.
NextNoRevert ==
  \/ \E c \in Client : Prompt(c)
  \/ Resume \/ Interrupt \/ Crash
  \/ DrainBegin \/ DrainStep \/ CallProvider \/ Compact \/ TurnContinues \/ TurnEnds
  \/ DrainSucceeds \/ DrainFails

Next == NextNoRevert \/ \E c \in Client : Revert(c)

Spec == Init /\ [][Next]_vars

SpecNoRevert == Init /\ [][NextNoRevert]_vars

\* The event loop runs every call and every drain step, and ends a drain that is stopped
\* or refused; a provider answers, its compactions and its continuations come to an end.
\* Nothing makes a client call, an interrupt, a crash or another failure happen.
Fairness ==
  /\ WF_vars(DrainBegin) /\ WF_vars(DrainStep) /\ WF_vars(DrainSucceeds)
  /\ WF_vars(DrainFails /\ (stopping[S] \/ Refused))
  /\ SF_vars(CallProvider) /\ SF_vars(TurnEnds)
  /\ \A c \in Client : WF_vars(PromptPublish(c) \/ PromptRecover(c) \/ PromptConflict(c) \/ PromptAccept(c))

FairSpec == Spec /\ Fairness
-----------------------------------------------------------------------------
DrainPc == {"hasSteer", "hasQueue", "turn", "selectQueued", "selectSteers", "publishQueued",
            "publishSteers", "provider", "streaming", "moreSteer", "moreQueue", "ended"}
PromptCall == [pc : {"publish", "check", "recover"}, id : Id, delivery : Delivery,
               resume : BOOLEAN, stored : Delivery]
RevertCall == [pc : {"stage", "clear", "commit"}, boundary : Id]
StoredRow == [state : {"stored"}, delivery : Delivery, admitted : Nat, promoted : Nat]
DrainState == [pc : DrainPc, promotion : Delivery \cup {"none"}, cutoff : Nat,
               rows : SUBSET [id : Id, row : StoredRow], fresh : BOOLEAN]

\* Type invariant; a drain is in progress exactly while the execution drains.
TypeOK ==
  /\ slot \in [{S} -> {"idle", "due", "draining"}]
  /\ force \in [{S} -> BOOLEAN]
  /\ stopping \in [{S} -> BOOLEAN]
  /\ again \in [{S} -> BOOLEAN]
  /\ seq \in Nat
  /\ inbox \in [Id -> StoredRow \cup {Absent}]
  /\ message \in [Id -> Nat]
  /\ staged \in Id \cup {None}
  /\ \/ run = Off
     \/ run \in DrainState
  /\ call \in [Client -> {Idle} \cup PromptCall \cup RevertCall]
  /\ seen \in SUBSET Id
  /\ asked \in SUBSET Id
  /\ accepted \in [Id -> Delivery \cup {"none"}]
  /\ run # Off <=> slot[S] = "draining"

\* The two projections agree after every transaction, reverts included: a prompt is
\* visible exactly when its inbox row is promoted, at the sequence of its promotion.
HistoryMatchesInbox ==
  \A id \in Id : message[id] = IF Stored(id) THEN inbox[id].promoted ELSE 0

\* Inputs of one delivery mode become visible in the order of their admission: none
\* overtakes another, whatever drains failed, crashed or were interrupted between.
PromotedInOrder ==
  \A a, b \in Id :
    /\ Stored(a) /\ Stored(b)
    /\ inbox[a].delivery = inbox[b].delivery
    /\ inbox[a].admitted < inbox[b].admitted
    /\ ~IsPending(b)
    => ~IsPending(a) /\ inbox[a].promoted < inbox[b].promoted

\* No prompt is stranded: a prompt admitted with a wake was given to the provider by
\* the time the session is idle, unless the drain failed, or an interrupt, a crash or
\* a revert withdrew it.
NothingStranded == slot[S] = "idle" => asked \subseteq seen

\* A receipt is kept: the stored prompt is the one every caller was told it is, also
\* when two callers race to use the same ID, and after a crash.
ReceiptIsKept ==
  \A id \in Id : accepted[id] # "none" => Stored(id) /\ inbox[id].delivery = accepted[id]

\* A prompt becomes visible once: no later promotion of the same row moves or
\* repeats it, and only a revert removes it.
PromotedOnce ==
  [][\A id \in Visible : message'[id] = message[id] \/ \E c \in Client : RevertCommit(c)]_vars

\* While a drain continues, a queued input waits until the provider was given all
\* that is visible: one queued input is promoted at a time.
QueuedWaits ==
  [][run.pc = "publishQueued" /\ message' # message /\ ~run.fresh => Visible \subseteq seen]_vars

\* A wake calls the provider only when it can promote eligible input: the first call
\* of a drain that is not forced is given something new.
WakeCallsWithInput ==
  [][run.pc = "provider" /\ run'.pc = "streaming" /\ run.fresh /\ ~force[S]
       => ~(Visible \subseteq seen)]_vars

\* Every prompt admitted with a wake is given to the provider, or withdrawn, unless
\* the drains that follow all fail before they get to it.
AskedIsAnswered ==
  \/ []<><<DrainFails>>_vars
  \/ \A id \in Id : id \in asked ~> id \in seen \/ id \notin asked
=============================================================================

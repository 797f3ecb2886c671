--------------------------- MODULE SessionCoreProofs ---------------------------
(***************************************************************************)
(* Proofs about SessionCore, for any number of message IDs and clients.    *)
(*                                                                         *)
(* First what holds under reverts too: the inbox and the history are       *)
(* projections of the same events, since whoever publishes a row found it  *)
(* pending or absent in the transaction.  Then what only a revert can undo: *)
(* a stored prompt stays, and the rows a drain selected are the oldest     *)
(* pending ones.  Then, that no asked prompt is stranded: where the drain  *)
(* has already looked, another one has been asked for.  Last, what a call  *)
(* of the provider is given: from its first read to its first call a drain *)
(* that was only woken has something new, and after a call it has nothing  *)
(* new until it publishes one queued row.                                  *)
(***************************************************************************)
EXTENDS SessionCore, WellFoundedInduction, TLAPS

\* What the sequence numbers of a stored row say.
RowsInOrder ==
  \A id \in Id : Stored(id) =>
    /\ inbox[id].admitted \in 1..seq
    /\ inbox[id].promoted \in 0..seq
    /\ ~IsPending(id) => inbox[id].admitted <= inbox[id].promoted

IInv == TypeOK /\ RowsInOrder /\ HistoryMatchesInbox

-----------------------------------------------------------------------------
LEMMA TypeInit == Init => TypeOK
<1> SUFFICES ASSUME Init PROVE TypeOK
  OBVIOUS
<1> USE DEF Init, Exec!Init
<1>1. /\ slot \in [{S} -> {"idle", "due", "draining"}]
      /\ seq \in Nat
      /\ inbox \in [Id -> StoredRow \cup {Absent}]
      /\ message \in [Id -> Nat]
      /\ staged \in Id \cup {None}
      /\ call \in [Client -> {Idle} \cup PromptCall \cup RevertCall]
      /\ seen \in SUBSET Id
      /\ asked \in SUBSET Id
      /\ accepted \in [Id -> Delivery \cup {"none"}]
  OBVIOUS
<1>2. force \in [{S} -> BOOLEAN] /\ stopping \in [{S} -> BOOLEAN] /\ again \in [{S} -> BOOLEAN]
  BY Zenon
<1>3. run = Off /\ slot[S] # "draining"
  OBVIOUS
<1> QED
  BY <1>1, <1>2, <1>3 DEF TypeOK

LEMMA PromptType ==
  ASSUME TypeOK, NEW c \in Client, Prompt(c)
  PROVE  TypeOK'
<1> USE DEF TypeOK, execution, durable, Idle, PromptCall, RevertCall
<1>1. ASSUME NEW id \in Id, NEW delivery \in Delivery, NEW resume \in BOOLEAN,
             PromptFind(c, id, delivery, resume)
      PROVE  TypeOK'
  BY <1>1 DEF PromptFind, Stored, Absent, StoredRow
<1>2. CASE PromptPublish(c)
  BY <1>2 DEF PromptPublish, Row, StoredRow
<1>3. CASE PromptRecover(c)
  <2>1. call[c] \in PromptCall
    BY <1>3 DEF PromptRecover
  <2>2. CASE Stored(call[c].id)
    BY <1>3, <2>1, <2>2 DEF PromptRecover, Stored, StoredRow
  <2>3. CASE ~Stored(call[c].id)
    BY <1>3, <2>3 DEF PromptRecover
  <2> QED BY <2>2, <2>3
<1>4. CASE PromptConflict(c)
  BY <1>4 DEF PromptConflict
<1>5. CASE PromptAccept(c)
  <2>1. call[c] \in PromptCall
    BY <1>5 DEF PromptAccept
  <2>2. CASE call[c].resume
    BY <1>5, <2>1, <2>2 DEF PromptAccept, Exec!Wake
  <2>3. CASE ~call[c].resume
    BY <1>5, <2>1, <2>3 DEF PromptAccept
  <2> QED BY <2>2, <2>3
<1> QED
  BY <1>1, <1>2, <1>3, <1>4, <1>5 DEF Prompt

LEMMA RevertType ==
  ASSUME TypeOK, NEW c \in Client, Revert(c)
  PROVE  TypeOK'
<1> USE DEF TypeOK, execution, durable, Idle, PromptCall, RevertCall
<1>1. ASSUME NEW op \in {"stage", "clear", "commit"}, NEW boundary \in Id,
             RevertRead(c, op, boundary)
      PROVE  TypeOK'
  BY <1>1 DEF RevertRead
<1>2. CASE RevertStage(c)
  BY <1>2 DEF RevertStage
<1>3. CASE RevertClear(c)
  BY <1>3 DEF RevertClear
<1>4. CASE RevertCommit(c)
  BY <1>4 DEF RevertCommit, Absent, StoredRow
<1> QED
  BY <1>1, <1>2, <1>3, <1>4 DEF Revert

LEMMA ScheduleType ==
  ASSUME TypeOK, Resume \/ Interrupt \/ Crash \/ DrainBegin \/ DrainSucceeds \/ DrainFails
  PROVE  TypeOK'
<1> USE DEF TypeOK, execution, durable, Off
<1>1. CASE Resume
  BY <1>1 DEF Resume, Exec!Resume
<1>2. CASE Interrupt
  BY <1>2 DEF Interrupt, Exec!Interrupt
<1>3. CASE Crash
  BY <1>3 DEF Crash
<1>4. CASE DrainBegin
  BY <1>4 DEF DrainBegin, Exec!Begin, Drain, DrainState, DrainPc
<1>5. CASE DrainSucceeds
  BY <1>5 DEF DrainSucceeds, Exec!End
<1>6. CASE DrainFails
  BY <1>6 DEF DrainFails, Exec!End
<1> QED
  BY <1>1, <1>2, <1>3, <1>4, <1>5, <1>6

\* A step of the drain leaves a drain behind, and the execution alone.
LEMMA DrainKept ==
  ASSUME TypeOK, run # Off, run' \in DrainState, UNCHANGED <<execution, durable, call, asked, accepted>>,
         seen' \in SUBSET Id
  PROVE  TypeOK'
<1>1. run' # Off
  BY DEF DrainState, DrainPc, Off
<1> QED
  BY <1>1 DEF TypeOK, execution, durable

LEMMA DrainRuns ==
  ASSUME TypeOK, run.pc # "off"
  PROVE  run # Off /\ run \in DrainState
BY DEF TypeOK, Off

LEMMA DrainType ==
  ASSUME TypeOK, DrainStep \/ CallProvider \/ Compact \/ TurnContinues \/ TurnEnds
  PROVE  TypeOK'
<1>1. CASE ReadSteer
  <2>1. run' \in DrainState
    BY <1>1 DEF ReadSteer, Drain, Delivery, DrainState, DrainPc
  <2> QED BY <1>1, <2>1, DrainRuns, DrainKept DEF ReadSteer, TypeOK
<1>2. CASE ReadQueue
  <2>1. run' \in DrainState
    BY <1>2 DEF ReadQueue, Drain, Delivery, DrainState, DrainPc
  <2> QED BY <1>2, <2>1, DrainRuns, DrainKept DEF ReadQueue, TypeOK
<1>3. CASE PublishRow
  <2>1. PICK r \in Oldest(run.rows) :
       /\ IsPending(r.id) => inbox[r.id].admitted = r.row.admitted
       /\ IF Stored(r.id) /\ ~IsPending(r.id) THEN UNCHANGED durable
          ELSE /\ seq' = seq + 1
               /\ inbox' = [inbox EXCEPT ![r.id] =
                    Row(r.row.delivery, IF Stored(r.id) THEN r.row.admitted ELSE seq', seq')]
               /\ message' = [message EXCEPT ![r.id] = seq']
               /\ UNCHANGED staged
       /\ run' = [run EXCEPT !.rows = @ \ {r}]
    BY <1>3 DEF PublishRow
  <2>2. run # Off /\ run \in DrainState /\ r \in [id : Id, row : StoredRow]
    BY <1>3, <2>1, DrainRuns DEF PublishRow, Oldest, DrainState
  <2>3. run' \in DrainState /\ run' # Off
    BY <2>1, <2>2 DEF DrainState, DrainPc, Off
  <2>4. UNCHANGED <<execution, call, seen, asked, accepted>>
    BY <1>3 DEF PublishRow
  <2>5. CASE UNCHANGED durable
    BY <2>2, <2>3, <2>4, <2>5, DrainKept DEF TypeOK
  <2>6. CASE ~(Stored(r.id) /\ ~IsPending(r.id))
    <3>1. seq' \in Nat /\ message' \in [Id -> Nat] /\ staged' = staged
      BY <2>1, <2>2, <2>6 DEF TypeOK
    <3>2. inbox' \in [Id -> StoredRow \cup {Absent}]
      BY <2>1, <2>2, <2>6, <3>1 DEF TypeOK, Row, StoredRow
    <3> QED BY <2>2, <2>3, <2>4, <3>1, <3>2 DEF TypeOK, execution
  <2> QED BY <2>1, <2>5, <2>6
<1>4. CASE DrainStep /\ ~ReadSteer /\ ~ReadQueue /\ ~PublishRow
  <2>1. run.pc # "off" /\ UNCHANGED <<execution, durable, call, seen, asked, accepted>>
    BY <1>4 DEF DrainStep, TurnBegin, SelectQueued, SelectSteers, PublishDone, MoreSteer, MoreQueue
  <2>2. run \in DrainState /\ run # Off
    BY <2>1, DrainRuns
  <2>3. CASE TurnBegin
    <3>1. run.promotion \in Delivery \cup {"none"} /\ seq \in Nat
      BY <2>2 DEF DrainState, TypeOK
    <3> QED
      BY <2>1, <2>2, <2>3, <3>1, DrainKept DEF TurnBegin, Delivery, DrainState, DrainPc, TypeOK
  <2>4. CASE SelectQueued
    <3>1. Oldest(Selected(Pending("queue"))) \in SUBSET [id : Id, row : StoredRow]
      BY DEF Oldest, Selected, Pending, IsPending, Stored, TypeOK
    <3>2. run' \in DrainState
      BY <2>2, <2>4, <3>1 DEF SelectQueued, DrainState, DrainPc
    <3> QED BY <2>1, <2>2, <3>2, DrainKept DEF TypeOK
  <2>5. CASE SelectSteers
    <3>1. Selected({id \in Pending("steer") : inbox[id].admitted <= run.cutoff})
             \in SUBSET [id : Id, row : StoredRow]
      BY DEF Selected, Pending, IsPending, Stored, TypeOK
    <3>2. run' \in DrainState
      BY <2>2, <2>5, <3>1 DEF SelectSteers, DrainState, DrainPc
    <3> QED BY <2>1, <2>2, <3>2, DrainKept DEF TypeOK
  <2>6. CASE PublishDone \/ MoreSteer \/ MoreQueue
    <3>1. run' \in DrainState
      BY <2>2, <2>6 DEF PublishDone, MoreSteer, MoreQueue, DrainState, DrainPc, Delivery
    <3> QED BY <2>1, <2>2, <3>1, DrainKept DEF TypeOK
  <2> QED BY <1>4, <2>3, <2>4, <2>5, <2>6 DEF DrainStep
<1>5. CASE CallProvider \/ Compact \/ TurnContinues \/ TurnEnds
  <2>1. /\ run.pc # "off"
        /\ UNCHANGED <<execution, durable, call, asked, accepted>>
        /\ seen' \in SUBSET Id
    BY <1>5 DEF CallProvider, Compact, TurnContinues, TurnEnds, Visible, TypeOK
  <2>2. run \in DrainState /\ run # Off
    BY <2>1, DrainRuns
  <2>3. run' \in DrainState
    BY <1>5, <2>2 DEF CallProvider, Compact, TurnContinues, TurnEnds, DrainState, DrainPc, Delivery
  <2> QED BY <2>1, <2>2, <2>3, DrainKept
<1> QED
  BY <1>1, <1>2, <1>3, <1>4, <1>5

LEMMA TypeStep == TypeOK /\ [Next]_vars => TypeOK'
<1> SUFFICES ASSUME TypeOK, [Next]_vars PROVE TypeOK'
  OBVIOUS
<1>1. CASE UNCHANGED vars
  BY <1>1 DEF TypeOK, vars, execution, durable
<1> QED
  BY <1>1, PromptType, RevertType, ScheduleType, DrainType DEF Next, NextNoRevert
\* Whoever publishes the prompt of a row: it was pending or absent, hence not visible.
LEMMA PublishedRow ==
  ASSUME IInv, PublishRow
  PROVE  \/ UNCHANGED durable
         \/ \E id \in Id, delivery \in Delivery, admitted \in 1..seq' :
              /\ message[id] = 0
              /\ seq' = seq + 1
              /\ inbox' = [inbox EXCEPT ![id] = Row(delivery, admitted, seq')]
              /\ message' = [message EXCEPT ![id] = seq']
              /\ staged' = staged
<1>1. PICK r \in Oldest(run.rows) :
       /\ IsPending(r.id) => inbox[r.id].admitted = r.row.admitted
       /\ IF Stored(r.id) /\ ~IsPending(r.id) THEN UNCHANGED durable
          ELSE /\ seq' = seq + 1
               /\ inbox' = [inbox EXCEPT ![r.id] =
                    Row(r.row.delivery, IF Stored(r.id) THEN r.row.admitted ELSE seq', seq')]
               /\ message' = [message EXCEPT ![r.id] = seq']
               /\ UNCHANGED staged
  BY DEF PublishRow
<1>2. run # Off /\ run \in DrainState /\ r \in [id : Id, row : StoredRow]
  BY <1>1, DrainRuns DEF PublishRow, Oldest, DrainState, IInv
<1>3. r.id \in Id /\ r.row.delivery \in Delivery /\ seq \in Nat
  BY <1>2 DEF StoredRow, IInv, TypeOK
<1>4. CASE Stored(r.id) /\ IsPending(r.id)
  <2>1. message[r.id] = 0 /\ r.row.admitted \in 1..seq
    BY <1>1, <1>3, <1>4 DEF IInv, HistoryMatchesInbox, RowsInOrder, IsPending
  <2>2. r.row.admitted \in 1..seq'
    BY <1>1, <1>3, <1>4, <2>1
  <2> QED BY <1>1, <1>3, <1>4, <2>1, <2>2
<1>5. CASE ~Stored(r.id)
  <2>1. message[r.id] = 0
    BY <1>3, <1>5 DEF IInv, HistoryMatchesInbox
  <2>2. seq' \in 1..seq'
    BY <1>1, <1>3, <1>5
  <2> QED BY <1>1, <1>3, <1>5, <2>1, <2>2
<1> QED
  BY <1>1, <1>4, <1>5

LEMMA PromptAdmits ==
  ASSUME IInv, NEW c \in Client, PromptPublish(c)
  PROVE  \/ UNCHANGED durable
         \/ \E id \in Id, delivery \in Delivery :
              /\ inbox[id] = Absent
              /\ message[id] = 0
              /\ seq' = seq + 1
              /\ inbox' = [inbox EXCEPT ![id] = Row(delivery, seq', 0)]
              /\ UNCHANGED <<message, staged>>
<1>1. call[c] \in PromptCall
  BY DEF PromptPublish, IInv, TypeOK, Idle, RevertCall
<1>2. call[c].id \in Id /\ call[c].delivery \in Delivery
  BY <1>1 DEF PromptCall
<1>3. CASE UNCHANGED durable
  BY <1>3
<1>4. CASE ~(call[c].id \in Visible \/ Stored(call[c].id))
  BY <1>2, <1>4 DEF PromptPublish, Visible, Stored, IInv, TypeOK
<1> QED
  BY <1>3, <1>4 DEF PromptPublish

\* The steps that publish nothing: all others of a session nobody reverts.
LEMMA Silent ==
  ASSUME [NextNoRevert]_vars, ~PublishRow, \A c \in Client : ~PromptPublish(c)
  PROVE  UNCHANGED durable
<1>1. CASE UNCHANGED vars
  BY <1>1 DEF vars
<1>2. ASSUME NEW c \in Client, Prompt(c)
      PROVE  UNCHANGED durable
  BY <1>2 DEF Prompt, PromptFind, PromptRecover, PromptConflict, PromptAccept
<1>3. CASE Resume \/ Interrupt \/ Crash \/ DrainBegin \/ DrainSucceeds \/ DrainFails
  BY <1>3 DEF Resume, Interrupt, Crash, DrainBegin, DrainSucceeds, DrainFails
<1>4. CASE DrainStep
  BY <1>4 DEF DrainStep, ReadSteer, ReadQueue, TurnBegin, SelectQueued, SelectSteers, PublishDone,
              MoreSteer, MoreQueue
<1>5. CASE CallProvider \/ Compact \/ TurnContinues \/ TurnEnds
  BY <1>5 DEF CallProvider, Compact, TurnContinues, TurnEnds
<1> QED
  BY <1>1, <1>2, <1>3, <1>4, <1>5 DEF NextNoRevert

\* The steps that project nothing.
LEMMA Quiet ==
  ASSUME [Next]_vars,
         ~PublishRow, \A c \in Client : ~PromptPublish(c) /\ ~RevertCommit(c)
  PROVE  /\ UNCHANGED <<inbox, message>>
         /\ seq' = seq \/ seq' = seq + 1
<1>1. CASE [NextNoRevert]_vars
  BY <1>1, Silent DEF durable
<1>2. ASSUME NEW c \in Client, Revert(c)
      PROVE  UNCHANGED <<inbox, message>> /\ (seq' = seq \/ seq' = seq + 1)
  BY <1>2 DEF Revert, RevertRead, RevertStage, RevertClear, durable
<1> QED
  BY <1>1, <1>2 DEF Next

LEMMA ProjectionStep ==
  ASSUME IInv, [Next]_vars, TypeOK'
  PROVE  RowsInOrder' /\ HistoryMatchesInbox'
<1> USE DEF IInv
<1>0. seq \in Nat /\ \A id \in Id : message[id] \in Nat
  BY DEF TypeOK
<1>1. CASE UNCHANGED <<inbox, message>> /\ (seq' = seq \/ seq' = seq + 1)
  <2>1. RowsInOrder'
    BY <1>0, <1>1 DEF RowsInOrder, Stored, IsPending
  <2>2. HistoryMatchesInbox'
    BY <1>1 DEF HistoryMatchesInbox, Stored
  <2> QED BY <2>1, <2>2
<1>2. CASE PublishRow
  <2>1. CASE UNCHANGED durable
    BY <1>1, <2>1 DEF durable
  <2>2. ASSUME NEW id \in Id, NEW delivery \in Delivery, NEW admitted \in 1..seq',
               message[id] = 0,
               seq' = seq + 1,
               inbox' = [inbox EXCEPT ![id] = Row(delivery, admitted, seq')],
               message' = [message EXCEPT ![id] = seq']
        PROVE  RowsInOrder' /\ HistoryMatchesInbox'
    <3>1. inbox'[id] = Row(delivery, admitted, seq') /\ message'[id] = seq'
      BY <2>2 DEF TypeOK
    <3>2. \A other \in Id \ {id} : inbox'[other] = inbox[other] /\ message'[other] = message[other]
      BY <2>2 DEF TypeOK
    <3>3. Row(delivery, admitted, seq') # Absent
      BY DEF Row, Absent
    <3>4. RowsInOrder'
      BY <1>0, <2>2, <3>1, <3>2 DEF RowsInOrder, Stored, IsPending, Row
    <3>5. HistoryMatchesInbox'
      BY <3>1, <3>2, <3>3 DEF HistoryMatchesInbox, Stored, Row
    <3> QED BY <3>4, <3>5
  <2> QED BY <1>2, <2>1, <2>2, PublishedRow
<1>3. ASSUME NEW c \in Client, PromptPublish(c)
      PROVE  RowsInOrder' /\ HistoryMatchesInbox'
  <2>1. CASE UNCHANGED durable
    BY <1>1, <2>1 DEF durable
  <2>2. ASSUME NEW id \in Id, NEW delivery \in Delivery,
               message[id] = 0,
               seq' = seq + 1,
               inbox' = [inbox EXCEPT ![id] = Row(delivery, seq', 0)],
               message' = message
        PROVE  RowsInOrder' /\ HistoryMatchesInbox'
    <3>1. inbox'[id] = Row(delivery, seq', 0)
      BY <2>2 DEF TypeOK
    <3>2. \A other \in Id \ {id} : inbox'[other] = inbox[other]
      BY <2>2 DEF TypeOK
    <3>3. RowsInOrder'
      BY <1>0, <2>2, <3>1, <3>2 DEF RowsInOrder, Stored, IsPending, Row
    <3>4. HistoryMatchesInbox'
      BY <2>2, <3>1, <3>2 DEF HistoryMatchesInbox, Stored, Row
    <3> QED BY <3>3, <3>4
  <2> QED BY <1>3, <2>1, <2>2, PromptAdmits
<1>4. ASSUME NEW c \in Client, RevertCommit(c)
      PROVE  RowsInOrder' /\ HistoryMatchesInbox'
  <2>1. PICK b \in Nat :
          \/ UNCHANGED durable
          \/ /\ seq' = seq + 1
             /\ message' = [id \in Id |-> IF message[id] > b THEN 0 ELSE message[id]]
             /\ inbox' = [id \in Id |-> IF id \in RowsAfter(b) THEN Absent ELSE inbox[id]]
    <3>1. call[c] \in RevertCall
      BY <1>4 DEF RevertCommit, TypeOK, Idle, PromptCall
    <3>2. message[call[c].boundary] \in Nat
      BY <1>0, <3>1 DEF RevertCall
    <3> QED BY <1>4, <3>2 DEF RevertCommit
  <2>2. CASE UNCHANGED durable
    BY <1>1, <2>2 DEF durable
  <2>3. CASE ~UNCHANGED durable
    <3>1. RowsInOrder'
      BY <1>0, <2>1, <2>3 DEF RowsInOrder, Stored, IsPending
    <3>2. \A id \in Id : inbox[id] # Absent =>
            /\ inbox[id].promoted \in Nat
            /\ inbox[id].admitted \in Nat
            /\ inbox[id].promoted # 0 => inbox[id].admitted <= inbox[id].promoted
            /\ message[id] = inbox[id].promoted
      BY <1>0 DEF RowsInOrder, HistoryMatchesInbox, Stored, IsPending
    <3>3. \A id \in Id : inbox[id] = Absent => message[id] = 0
      BY DEF HistoryMatchesInbox, Stored
    <3>4. \A id \in Id : id \in RowsAfter(b) =>
            inbox'[id] = Absent /\ message'[id] = 0
      BY <2>1, <2>3, <3>2, <3>3 DEF RowsAfter, Stored
    <3>5. \A id \in Id : id \notin RowsAfter(b) =>
            inbox'[id] = inbox[id] /\ message'[id] = message[id]
      BY <2>1, <2>3, <3>2, <3>3 DEF RowsAfter, Stored
    <3>6. HistoryMatchesInbox'
      BY <3>4, <3>5 DEF HistoryMatchesInbox, Stored
    <3> QED BY <3>1, <3>6
  <2> QED BY <2>2, <2>3
<1> QED
  BY <1>1, <1>2, <1>3, <1>4, Quiet

LEMMA Initially == Init => IInv
<1> SUFFICES ASSUME Init PROVE IInv
  OBVIOUS
<1>1. RowsInOrder /\ HistoryMatchesInbox
  BY DEF Init, RowsInOrder, HistoryMatchesInbox, Stored
<1> QED
  BY <1>1, TypeInit DEF IInv

LEMMA Inductive == IInv /\ [Next]_vars => IInv'
<1> SUFFICES ASSUME IInv, [Next]_vars PROVE IInv'
  OBVIOUS
<1>1. TypeOK'
  BY TypeStep DEF IInv
<1> QED
  BY <1>1, ProjectionStep DEF IInv

LEMMA AlwaysIInv == Spec => []IInv
BY Initially, Inductive, PTL DEF Spec

\* Every variable keeps its type, and a drain is in progress exactly while the execution
\* of the session drains (session/runner/llm.ts under session/run-coordinator.ts).
THEOREM TypeCorrect == Spec => []TypeOK
<1>1. IInv => TypeOK
  BY DEF IInv
<1> QED
  BY <1>1, AlwaysIInv, PTL

\* After every transaction, reverts included, a prompt is visible exactly when its inbox
\* row is promoted, at the same sequence (session/projector.ts, session/input.ts).
THEOREM ProjectionsAgree == Spec => []HistoryMatchesInbox
<1>1. IInv => HistoryMatchesInbox
  BY DEF IInv
<1> QED
  BY <1>1, AlwaysIInv, PTL

\* A visible prompt is never promoted again: only a revert moves it
\* (projectPrompted in session/input.ts).
THEOREM PromotesOnce == Spec => PromotedOnce
<1> DEFINE Keeps == \A id \in Visible : message'[id] = message[id] \/ \E c \in Client : RevertCommit(c)
<1>1. ASSUME IInv, [Next]_vars PROVE [Keeps]_vars
  <2>1. CASE UNCHANGED message
    BY <2>1
  <2>2. CASE PublishRow
    <3>1. CASE UNCHANGED durable
      BY <2>1, <3>1 DEF durable
    <3>2. ASSUME NEW id \in Id, message[id] = 0, message' = [message EXCEPT ![id] = seq']
          PROVE  Keeps
      BY <1>1, <3>2 DEF Visible, IInv, TypeOK
    <3> QED BY <1>1, <2>2, <3>1, <3>2, PublishedRow
  <2>3. ASSUME NEW c \in Client, RevertCommit(c)
        PROVE  Keeps
    BY <2>3
  <2>4. ASSUME NEW c \in Client, PromptPublish(c)
        PROVE  UNCHANGED message
    BY <2>4 DEF PromptPublish, durable
  <2> QED BY <1>1, <2>1, <2>2, <2>3, <2>4, Quiet
<1> QED
  BY <1>1, AlwaysIInv, PTL DEF Spec, PromotedOnce
-----------------------------------------------------------------------------
\* What a call found or stored is still there.
CallsHold ==
  \A c \in Client :
    /\ call[c].pc = "publish" => call[c].stored = call[c].delivery
    /\ call[c].pc = "check" => Stored(call[c].id) /\ inbox[call[c].id].delivery = call[c].stored

\* The rows that a drain selected and has not published: they stand as they were read,
\* and no pending one before them was passed over.
RowsHold ==
  run # Off => \A r \in run.rows :
    /\ Stored(r.id)
    /\ inbox[r.id].admitted = r.row.admitted
    /\ inbox[r.id].delivery = r.row.delivery
    /\ \A id \in Id : IsPending(id) /\ inbox[id].delivery = r.row.delivery
                       /\ inbox[id].admitted < r.row.admitted
                     => \E o \in run.rows : o.id = id

NInv == IInv /\ CallsHold /\ RowsHold /\ PromotedInOrder /\ ReceiptIsKept

LEMMA NoRevertIsNext == [NextNoRevert]_vars => [Next]_vars
BY DEF Next

LEMMA NInitially == Init => NInv
<1> SUFFICES ASSUME Init PROVE NInv
  OBVIOUS
<1>1. CallsHold /\ RowsHold /\ PromotedInOrder /\ ReceiptIsKept
  BY DEF Init, CallsHold, RowsHold, PromotedInOrder, ReceiptIsKept, Stored, Idle, Off
<1> QED
  BY <1>1, Initially DEF NInv

\* The row a drain publishes is still pending, or was promoted meanwhile.
LEMMA PublishedInOrder ==
  ASSUME NInv, PublishRow
  PROVE  \E r \in run.rows :
           /\ r.id \in Id
           /\ run # Off
           /\ run' = [run EXCEPT !.rows = @ \ {r}]
           /\ \A o \in run.rows : r.row.admitted <= o.row.admitted
           /\ \/ UNCHANGED durable /\ ~IsPending(r.id)
              \/ /\ IsPending(r.id)
                 /\ seq' = seq + 1
                 /\ inbox' = [inbox EXCEPT ![r.id] =
                      Row(inbox[r.id].delivery, inbox[r.id].admitted, seq')]
                 /\ UNCHANGED staged
<1>1. PICK r \in Oldest(run.rows) :
       /\ IsPending(r.id) => inbox[r.id].admitted = r.row.admitted
       /\ IF Stored(r.id) /\ ~IsPending(r.id) THEN UNCHANGED durable
          ELSE /\ seq' = seq + 1
               /\ inbox' = [inbox EXCEPT ![r.id] =
                    Row(r.row.delivery, IF Stored(r.id) THEN r.row.admitted ELSE seq', seq')]
               /\ message' = [message EXCEPT ![r.id] = seq']
               /\ UNCHANGED staged
       /\ run' = [run EXCEPT !.rows = @ \ {r}]
  BY DEF PublishRow
<1>2. run # Off /\ run \in DrainState
  BY DrainRuns DEF PublishRow, NInv, IInv
<1>3. r \in run.rows /\ r.id \in Id /\ \A o \in run.rows : r.row.admitted <= o.row.admitted
  BY <1>1, <1>2 DEF Oldest, DrainState
<1>4. /\ Stored(r.id)
      /\ inbox[r.id].admitted = r.row.admitted
      /\ inbox[r.id].delivery = r.row.delivery
  BY <1>2, <1>3 DEF NInv, RowsHold
<1> QED
  BY <1>1, <1>2, <1>3, <1>4

\* A stored prompt stays, whatever happens but a revert.
LEMMA RowsStay ==
  ASSUME NInv, [NextNoRevert]_vars
  PROVE  \A id \in Id : Stored(id) => inbox'[id] # Absent /\ inbox'[id].delivery = inbox[id].delivery
<1>1. CASE UNCHANGED inbox
  BY <1>1 DEF Stored
<1>2. CASE PublishRow
  <2>1. CASE UNCHANGED durable
    BY <1>1, <2>1 DEF durable
  <2>2. ASSUME NEW r \in run.rows, r.id \in Id,
               inbox' = [inbox EXCEPT ![r.id] = Row(inbox[r.id].delivery, inbox[r.id].admitted, seq')]
        PROVE  \A id \in Id : Stored(id) => inbox'[id] # Absent /\ inbox'[id].delivery = inbox[id].delivery
    BY <2>2 DEF Stored, Row, Absent, NInv, IInv, TypeOK
  <2> QED BY <1>2, <2>1, <2>2, PublishedInOrder
<1>3. ASSUME NEW c \in Client, PromptPublish(c)
      PROVE  \A id \in Id : Stored(id) => inbox'[id] # Absent /\ inbox'[id].delivery = inbox[id].delivery
  BY <1>3, PromptAdmits DEF durable, Stored, Row, Absent, NInv, IInv, TypeOK
<1> QED
  BY <1>1, <1>2, <1>3, Silent DEF durable

LEMMA CallsStep ==
  ASSUME NInv, [NextNoRevert]_vars
  PROVE  CallsHold' /\ ReceiptIsKept'
<1> USE DEF NInv, IInv
<1>0. \A c \in Client : call[c] = Idle \/ (call[c] \in PromptCall /\ call[c].id \in Id) \/ call[c] \in RevertCall
  BY DEF TypeOK, PromptCall
<1>1. \A id \in Id : Stored(id) => inbox'[id] # Absent /\ inbox'[id].delivery = inbox[id].delivery
  BY RowsStay
<1>2. CASE UNCHANGED <<call, accepted>>
  <2>1. CallsHold'
    BY <1>0, <1>1, <1>2 DEF CallsHold, Stored, Idle, RevertCall
  <2>2. ReceiptIsKept'
    BY <1>1, <1>2 DEF ReceiptIsKept, Stored
  <2> QED BY <2>1, <2>2
<1>3. CASE Crash
  <2>1. CallsHold'
    BY <1>3 DEF Crash, CallsHold, Idle
  <2>2. ReceiptIsKept'
    BY <1>1, <1>3 DEF ReceiptIsKept, Stored, Crash
  <2> QED BY <2>1, <2>2
<1>4. ASSUME NEW c \in Client, Prompt(c)
      PROVE  CallsHold' /\ ReceiptIsKept'
  <2>1. \A d \in Client \ {c} : call'[d] = call[d]
    BY <1>4 DEF Prompt, PromptFind, PromptPublish, PromptRecover, PromptConflict, PromptAccept, TypeOK
  <2>2. ASSUME /\ call'[c].pc = "publish" => call'[c].stored = call'[c].delivery
               /\ call'[c].pc = "check" => inbox'[call'[c].id] # Absent /\ inbox'[call'[c].id].delivery = call'[c].stored
        PROVE  CallsHold'
    <3> SUFFICES ASSUME NEW d \in Client \ {c}
                 PROVE  /\ call'[d].pc = "publish" => call'[d].stored = call'[d].delivery
                        /\ call'[d].pc = "check" =>
                             /\ inbox'[call'[d].id] # Absent
                             /\ inbox'[call'[d].id].delivery = call'[d].stored
      BY <2>2 DEF CallsHold, Stored
    <3>1. call'[d] = call[d]
      BY <2>1
    <3>2. call[d].pc = "check" => call[d].id \in Id
      BY <1>0 DEF Idle, RevertCall
    <3> QED BY <1>1, <3>1, <3>2 DEF CallsHold
  <2>3. ASSUME NEW id \in Id, NEW delivery \in Delivery, NEW resume \in BOOLEAN,
               PromptFind(c, id, delivery, resume)
        PROVE  CallsHold' /\ ReceiptIsKept'
    <3>1. UNCHANGED <<inbox, accepted>>
      BY <2>3 DEF PromptFind, durable
    <3>2. call'[c] = [pc |-> IF Stored(id) THEN "check" ELSE "publish",
                      id |-> id, delivery |-> delivery, resume |-> resume,
                      stored |-> IF Stored(id) THEN inbox[id].delivery ELSE delivery]
      BY <2>3 DEF PromptFind, TypeOK
    <3>3. CallsHold'
      BY <2>2, <3>1, <3>2 DEF Stored
    <3> QED BY <1>1, <3>1, <3>3 DEF ReceiptIsKept, Stored
  <2>4. CASE PromptPublish(c)
    <3>1. call[c] \in PromptCall /\ call[c].id \in Id
      BY <1>0, <2>4 DEF PromptPublish, Idle, RevertCall
    <3>2. call[c].stored = call[c].delivery /\ accepted' = accepted
      BY <2>4 DEF PromptPublish, CallsHold
    <3>3. CASE call[c].id \in Visible \/ Stored(call[c].id)
      <4>1. call'[c].pc = "recover"
        BY <2>4, <3>1, <3>3 DEF PromptPublish, TypeOK, PromptCall
      <4> QED BY <1>1, <2>2, <3>2, <4>1 DEF ReceiptIsKept, Stored
    <3>4. CASE ~(call[c].id \in Visible \/ Stored(call[c].id))
      <4>1. call'[c].pc = "check" /\ call'[c].id = call[c].id /\ call'[c].stored = call[c].stored
        BY <2>4, <3>1, <3>4 DEF PromptPublish, TypeOK, PromptCall
      <4>2. inbox'[call[c].id] = Row(call[c].delivery, seq', 0)
        BY <2>4, <3>1, <3>4 DEF PromptPublish, TypeOK
      <4>3. CallsHold'
        BY <2>2, <3>2, <4>1, <4>2 DEF Row, Absent
      <4> QED BY <1>1, <3>2, <4>3 DEF ReceiptIsKept, Stored
    <3> QED BY <3>3, <3>4
  <2>5. CASE PromptRecover(c)
    <3>1. call[c] \in PromptCall /\ call[c].id \in Id /\ UNCHANGED <<inbox, accepted>>
      BY <1>0, <2>5 DEF PromptRecover, Idle, RevertCall, durable
    <3>2. CASE Stored(call[c].id)
      <4>1. /\ call'[c].pc = "check" /\ call'[c].id = call[c].id
            /\ call'[c].stored = inbox[call[c].id].delivery
        BY <2>5, <3>1, <3>2 DEF PromptRecover, TypeOK, PromptCall
      <4>2. CallsHold'
        BY <2>2, <3>1, <3>2, <4>1 DEF Stored
      <4> QED BY <1>1, <3>1, <4>2 DEF ReceiptIsKept, Stored
    <3>3. CASE ~Stored(call[c].id)
      <4>1. call'[c] = Idle
        BY <2>5, <3>3 DEF PromptRecover, TypeOK
      <4> QED BY <1>1, <2>2, <3>1, <4>1 DEF ReceiptIsKept, Stored, Idle
    <3> QED BY <3>2, <3>3
  <2>6. CASE PromptConflict(c)
    <3>1. call'[c] = Idle /\ UNCHANGED <<inbox, accepted>>
      BY <2>6 DEF PromptConflict, TypeOK, durable
    <3> QED BY <1>1, <2>2, <3>1 DEF ReceiptIsKept, Stored, Idle
  <2>7. CASE PromptAccept(c)
    <3>1. call[c].id \in Id /\ UNCHANGED inbox
      BY <1>0, <2>7 DEF PromptAccept, Idle, RevertCall, durable
    <3>2. Stored(call[c].id) /\ inbox[call[c].id].delivery = call[c].delivery
      BY <2>7 DEF PromptAccept, CallsHold
    <3>3. call'[c] = Idle /\ accepted' = [accepted EXCEPT ![call[c].id] = call[c].delivery]
      BY <2>7 DEF PromptAccept, TypeOK
    <3>4. ReceiptIsKept'
      BY <1>1, <3>1, <3>2, <3>3 DEF ReceiptIsKept, Stored, TypeOK
    <3> QED BY <2>2, <3>3, <3>4 DEF Idle
  <2> QED BY <1>4, <2>3, <2>4, <2>5, <2>6, <2>7 DEF Prompt
<1>5. CASE Resume \/ Interrupt \/ DrainBegin \/ DrainSucceeds \/ DrainFails
  BY <1>2, <1>5 DEF Resume, Interrupt, DrainBegin, DrainSucceeds, DrainFails
<1>6. CASE DrainStep
  BY <1>2, <1>6 DEF DrainStep, ReadSteer, ReadQueue, TurnBegin, SelectQueued, SelectSteers, PublishRow,
              PublishDone, MoreSteer, MoreQueue
<1>7. CASE CallProvider \/ Compact \/ TurnContinues \/ TurnEnds
  BY <1>2, <1>7 DEF CallProvider, Compact, TurnContinues, TurnEnds
<1>8. CASE UNCHANGED vars
  BY <1>2, <1>8 DEF vars
<1> QED
  BY <1>3, <1>4, <1>5, <1>6, <1>7, <1>8 DEF NextNoRevert

\* The steps that neither select nor publish keep the rows or drop them.
LEMMA RowsKept ==
  ASSUME TypeOK, [NextNoRevert]_vars, ~PublishRow, ~SelectQueued, ~SelectSteers
  PROVE  run' = run \/ run' = Off \/ run'.rows = {} \/ (run # Off /\ run'.rows = run.rows)
<1>1. ASSUME NEW c \in Client, Prompt(c)
      PROVE  run' = run
  BY <1>1 DEF Prompt, PromptFind, PromptPublish, PromptRecover, PromptConflict, PromptAccept
<1>2. CASE Resume \/ Interrupt \/ Crash \/ DrainBegin \/ DrainSucceeds \/ DrainFails
  BY <1>2 DEF Resume, Interrupt, Crash, DrainBegin, Drain, DrainSucceeds, DrainFails
<1>3. CASE ReadSteer \/ ReadQueue
  BY <1>3 DEF ReadSteer, ReadQueue, Drain
<1>4. CASE UNCHANGED vars
  BY <1>4 DEF vars
<1>5. CASE TurnBegin \/ PublishDone \/ MoreSteer \/ MoreQueue
  <2>1. run # Off /\ run \in DrainState
    BY <1>5, DrainRuns DEF TurnBegin, PublishDone, MoreSteer, MoreQueue
  <2> QED BY <1>5, <2>1 DEF TurnBegin, PublishDone, MoreSteer, MoreQueue, DrainState
<1>6. CASE CallProvider \/ Compact \/ TurnContinues \/ TurnEnds
  <2>1. run # Off /\ run \in DrainState
    BY <1>6, DrainRuns DEF CallProvider, Compact, TurnContinues, TurnEnds
  <2> QED BY <1>6, <2>1 DEF CallProvider, Compact, TurnContinues, TurnEnds, DrainState
<1> QED
  BY <1>1, <1>2, <1>3, <1>4, <1>5, <1>6 DEF NextNoRevert, DrainStep

LEMMA RowsStep ==
  ASSUME NInv, [NextNoRevert]_vars, TypeOK'
  PROVE  RowsHold'
<1> USE DEF NInv, IInv
<1>1. run # Off => \A r \in run.rows : r.id \in Id /\ r.row.admitted \in Nat
  BY DEF TypeOK, DrainState, StoredRow
<1>2. \A id \in Id : Stored(id) => inbox[id].admitted \in Nat /\ inbox[id].admitted <= seq /\ seq \in Nat
  BY DEF RowsInOrder, TypeOK
<1>3. CASE PublishRow
  <2>1. PICK r \in run.rows :
           /\ r.id \in Id
           /\ run # Off
           /\ run' = [run EXCEPT !.rows = @ \ {r}]
           /\ \/ UNCHANGED durable /\ ~IsPending(r.id)
              \/ /\ IsPending(r.id)
                 /\ seq' = seq + 1
                 /\ inbox' = [inbox EXCEPT ![r.id] =
                      Row(inbox[r.id].delivery, inbox[r.id].admitted, seq')]
    BY <1>3, PublishedInOrder
  <2>2. run'.rows = run.rows \ {r}
    BY <2>1, DrainRuns DEF TypeOK, DrainState
  <2>3. \A id \in Id : inbox'[id] # Absent /\ inbox'[id].promoted = 0 =>
          IsPending(id) /\ inbox'[id] = inbox[id] /\ id # r.id
    BY <1>2, <2>1 DEF IsPending, Stored, durable, TypeOK, Row
  <2>4. \A id \in Id : Stored(id) => /\ inbox'[id] # Absent
                                  /\ inbox'[id].admitted = inbox[id].admitted
                                  /\ inbox'[id].delivery = inbox[id].delivery
    BY <2>1 DEF Stored, durable, TypeOK, Row, Absent
  <2> SUFFICES ASSUME NEW x \in run'.rows
               PROVE  /\ inbox'[x.id] # Absent
                      /\ inbox'[x.id].admitted = x.row.admitted
                      /\ inbox'[x.id].delivery = x.row.delivery
                      /\ \A id \in Id : inbox'[id] # Absent /\ inbox'[id].promoted = 0
                                       /\ inbox'[id].delivery = x.row.delivery
                                       /\ inbox'[id].admitted < x.row.admitted
                                     => \E o \in run'.rows : o.id = id
    BY DEF RowsHold, Stored, IsPending
  <2>5. x \in run.rows /\ x.id \in Id
    BY <1>1, <2>1, <2>2
  <2> QED BY <2>1, <2>2, <2>3, <2>4, <2>5 DEF RowsHold
<1>4. CASE SelectQueued
  <2>1. run # Off /\ run \in DrainState /\ inbox' = inbox
    BY <1>4, DrainRuns DEF SelectQueued, durable
  <2>2. run'.rows = Oldest(Selected(Pending("queue")))
    BY <1>4, <2>1 DEF SelectQueued, DrainState
  <2>3. \A r \in run'.rows : /\ r.id \in Pending("queue")
                            /\ r.row = inbox[r.id]
                            /\ \A id \in Pending("queue") : inbox[r.id].admitted <= inbox[id].admitted
    <3>1. \A r \in run'.rows : /\ r \in Selected(Pending("queue"))
                              /\ \A o \in Selected(Pending("queue")) : r.row.admitted <= o.row.admitted
      BY <2>2 DEF Oldest
    <3>2. \A r \in Selected(Pending("queue")) : r.id \in Pending("queue") /\ r.row = inbox[r.id]
      BY DEF Selected
    <3>3. ASSUME NEW id \in Pending("queue")
          PROVE  [id |-> id, row |-> inbox[id]] \in Selected(Pending("queue"))
      BY DEF Selected
    <3> QED BY <3>1, <3>2, <3>3
  <2> QED BY <1>2, <2>1, <2>3 DEF RowsHold, Pending, IsPending, Stored
<1>5. CASE SelectSteers
  <2>1. run # Off /\ run \in DrainState /\ inbox' = inbox
    BY <1>5, DrainRuns DEF SelectSteers, durable
  <2>2. run'.rows = Selected({id \in Pending("steer") : inbox[id].admitted <= run.cutoff})
    BY <1>5, <2>1 DEF SelectSteers, DrainState
  <2>3. \A r \in run'.rows : /\ r.id \in Pending("steer")
                            /\ r.row = inbox[r.id]
                            /\ inbox[r.id].admitted <= run.cutoff
    BY <2>2 DEF Selected
  <2>4. \A id \in Pending("steer") :
          inbox[id].admitted <= run.cutoff => \E o \in run'.rows : o.id = id
    <3> SUFFICES ASSUME NEW id \in Pending("steer"), inbox[id].admitted <= run.cutoff
                 PROVE  \E o \in run'.rows : o.id = id
      OBVIOUS
    <3>1. [id |-> id, row |-> inbox[id]] \in run'.rows
      BY <2>2 DEF Selected
    <3> QED BY <3>1
  <2>5. run.cutoff \in Nat
    BY <2>1 DEF DrainState
  <2> QED BY <1>2, <2>1, <2>3, <2>4, <2>5 DEF RowsHold, Pending, IsPending, Stored
<1>6. CASE UNCHANGED inbox /\ ~PublishRow /\ ~SelectQueued /\ ~SelectSteers
  BY <1>6, RowsKept DEF RowsHold, IsPending, Stored
<1>7. ASSUME NEW c \in Client, PromptPublish(c), ~UNCHANGED durable
      PROVE  RowsHold'
  <2>1. PICK id \in Id, delivery \in Delivery :
              /\ inbox[id] = Absent
              /\ seq' = seq + 1
              /\ inbox' = [inbox EXCEPT ![id] = Row(delivery, seq', 0)]
    BY <1>7, PromptAdmits
  <2>2. run' = run
    BY <1>7 DEF PromptPublish
  <2>3. inbox'[id].admitted = seq + 1 /\ \A other \in Id \ {id} : inbox'[other] = inbox[other]
    BY <2>1 DEF TypeOK, Row
  <2> SUFFICES ASSUME run # Off, NEW x \in run.rows
               PROVE  /\ inbox'[x.id] # Absent
                      /\ inbox'[x.id].admitted = x.row.admitted
                      /\ inbox'[x.id].delivery = x.row.delivery
                      /\ \A other \in Id : inbox'[other] # Absent /\ inbox'[other].promoted = 0
                                       /\ inbox'[other].delivery = x.row.delivery
                                       /\ inbox'[other].admitted < x.row.admitted
                                     => \E o \in run.rows : o.id = other
    BY <2>2 DEF RowsHold, Stored, IsPending
  <2>4. x.id \in Id \ {id} /\ x.row.admitted \in Nat /\ x.row.admitted <= seq /\ seq \in Nat
    BY <1>1, <1>2, <2>1 DEF RowsHold, Stored
  <2> QED BY <2>3, <2>4 DEF RowsHold, Stored, IsPending
<1> QED
  BY <1>3, <1>4, <1>5, <1>6, <1>7, Silent DEF durable

LEMMA OrderStep ==
  ASSUME NInv, [NextNoRevert]_vars, TypeOK'
  PROVE  PromotedInOrder'
<1> USE DEF NInv, IInv
<1>1. CASE UNCHANGED inbox
  BY <1>1 DEF PromotedInOrder, Stored, IsPending
<1>2. \A id \in Id : Stored(id) => /\ inbox[id].admitted \in Nat /\ inbox[id].admitted <= seq
                                  /\ inbox[id].promoted \in Nat /\ inbox[id].promoted <= seq
                                  /\ seq \in Nat
  BY DEF RowsInOrder, TypeOK
<1>3. CASE PublishRow
  <2>1. PICK r \in run.rows :
           /\ r.id \in Id
           /\ run # Off
           /\ \A o \in run.rows : r.row.admitted <= o.row.admitted
           /\ \/ UNCHANGED durable
              \/ /\ IsPending(r.id)
                 /\ seq' = seq + 1
                 /\ inbox' = [inbox EXCEPT ![r.id] =
                      Row(inbox[r.id].delivery, inbox[r.id].admitted, seq')]
    BY <1>3, PublishedInOrder
  <2>2. CASE UNCHANGED durable
    BY <1>1, <2>2 DEF durable
  <2>3. CASE ~UNCHANGED durable
    <3>1. inbox'[r.id] = Row(inbox[r.id].delivery, inbox[r.id].admitted, seq + 1)
      BY <2>1, <2>3 DEF TypeOK
    <3>2. \A other \in Id \ {r.id} : inbox'[other] = inbox[other]
      BY <2>1, <2>3 DEF TypeOK
    <3>3. IsPending(r.id) /\ inbox[r.id].admitted = r.row.admitted /\ inbox[r.id].delivery = r.row.delivery
      BY <2>1, <2>3 DEF RowsHold
    <3>4. \A id \in Id : IsPending(id) /\ inbox[id].delivery = inbox[r.id].delivery
                      => inbox[r.id].admitted <= inbox[id].admitted
      <4> SUFFICES ASSUME NEW id \in Id, IsPending(id), inbox[id].delivery = inbox[r.id].delivery,
                          inbox[id].admitted < inbox[r.id].admitted
                   PROVE  FALSE
        BY <1>2, <2>1, <3>3 DEF IsPending
      <4>1. PICK o \in run.rows : o.id = id
        BY <2>1, <3>3 DEF RowsHold
      <4>2. inbox[id].admitted = o.row.admitted
        BY <2>1, <4>1 DEF RowsHold
      <4> QED BY <1>2, <2>1, <3>3, <4>2 DEF IsPending
    <3>5. \A id \in Id : (Stored(id) <=> inbox'[id] # Absent) /\ (Stored(id) =>
             /\ inbox'[id].admitted = inbox[id].admitted
             /\ inbox'[id].delivery = inbox[id].delivery
             /\ inbox'[id].promoted = IF id = r.id THEN seq + 1 ELSE inbox[id].promoted)
      BY <3>1, <3>2, <3>3 DEF Stored, IsPending, Row, Absent
    <3> SUFFICES ASSUME NEW a \in Id, NEW b \in Id, Stored(a), Stored(b),
                        inbox[a].delivery = inbox[b].delivery,
                        inbox[a].admitted < inbox[b].admitted,
                        inbox'[b].promoted # 0
                 PROVE  inbox'[a].promoted # 0 /\ inbox'[a].promoted < inbox'[b].promoted
      BY <3>5 DEF PromotedInOrder, Stored, IsPending
    <3>6. CASE b = r.id
      BY <1>2, <3>3, <3>4, <3>5, <3>6 DEF IsPending
    <3>7. CASE b # r.id
      BY <1>2, <3>3, <3>5, <3>7 DEF IsPending, PromotedInOrder
    <3> QED BY <3>6, <3>7
  <2> QED BY <2>2, <2>3
<1>4. ASSUME NEW c \in Client, PromptPublish(c), ~UNCHANGED durable
      PROVE  PromotedInOrder'
  <2>1. PICK id \in Id, delivery \in Delivery :
              /\ inbox[id] = Absent
              /\ seq' = seq + 1
              /\ inbox' = [inbox EXCEPT ![id] = Row(delivery, seq', 0)]
    BY <1>4, PromptAdmits
  <2>2. /\ inbox'[id].admitted = seq + 1 /\ inbox'[id].promoted = 0
        /\ \A other \in Id \ {id} : inbox'[other] = inbox[other]
    BY <2>1 DEF TypeOK, Row
  <2> SUFFICES ASSUME NEW a \in Id, NEW b \in Id, inbox'[a] # Absent, inbox'[b] # Absent,
                      inbox'[a].delivery = inbox'[b].delivery,
                      inbox'[a].admitted < inbox'[b].admitted,
                      inbox'[b].promoted # 0
               PROVE  inbox'[a].promoted # 0 /\ inbox'[a].promoted < inbox'[b].promoted
    BY DEF PromotedInOrder, Stored, IsPending
  <2>3. b # id /\ Stored(b) /\ inbox'[b] = inbox[b]
    BY <2>2 DEF Stored
  <2>4. a # id /\ Stored(a) /\ inbox'[a] = inbox[a]
    BY <1>2, <2>2, <2>3 DEF Stored
  <2> QED BY <2>3, <2>4 DEF PromotedInOrder, IsPending
<1> QED
  BY <1>1, <1>3, <1>4, Silent DEF durable

LEMMA NInductive == NInv /\ [NextNoRevert]_vars => NInv'
<1> SUFFICES ASSUME NInv, [NextNoRevert]_vars PROVE NInv'
  OBVIOUS
<1>1. IInv'
  BY Inductive, NoRevertIsNext DEF NInv
<1>2. TypeOK'
  BY <1>1 DEF IInv
<1> QED
  BY <1>1, <1>2, CallsStep, RowsStep, OrderStep DEF NInv

\* Unless the session is reverted, the inputs of one delivery mode become visible in the
\* order of their admission, through failures and crashes (promote in session/input.ts).
THEOREM PromotesInOrder == SpecNoRevert => []PromotedInOrder
<1>1. NInv => PromotedInOrder
  BY DEF NInv
<1> QED
  BY <1>1, NInitially, NInductive, PTL DEF SpecNoRevert

\* Unless the session is reverted, the stored prompt is the one its receipts describe
\* (admit in session/input.ts, prompt in session.ts).
THEOREM KeepsReceipts == SpecNoRevert => []ReceiptIsKept
<1>1. NInv => ReceiptIsKept
  BY DEF NInv
<1> QED
  BY <1>1, NInitially, NInductive, PTL DEF SpecNoRevert
-----------------------------------------------------------------------------
\* The points at which a drain has shown the provider all that is visible and asked for.
Told == run = Off \/ run.pc \in {"hasSteer", "hasQueue", "streaming", "moreSteer", "moreQueue", "ended"}

\* An asked prompt has its row; it waits for the drain in progress, which has not yet
\* looked where it is, or for the next one.
AskedInv ==
  /\ \A id \in asked : Stored(id)
  /\ slot[S] = "idle" => ~again[S]
  /\ Told => \A id \in asked : id \in Visible => id \in seen
  /\ ~again[S] => \A id \in asked : IsPending(id) =>
       /\ slot[S] # "idle"
       /\ run.pc \in {"hasQueue", "moreQueue"} => inbox[id].delivery = "queue"
       /\ run.pc # "ended"

SInv == IInv /\ AskedInv

LEMMA SInitially == Init => SInv
<1> SUFFICES ASSUME Init PROVE SInv
  OBVIOUS
<1>1. AskedInv
  BY DEF Init, Exec!Init, AskedInv
<1> QED
  BY <1>1, Initially DEF SInv

\* Whoever asks leaves the asked prompts to a drain to come.
LEMMA AskedByPrompt ==
  ASSUME SInv, NEW c \in Client, Prompt(c)
  PROVE  AskedInv'
<1> USE DEF SInv, IInv
<1>1. CASE PromptAccept(c)
  <2>1. call[c].id \in Id
    BY <1>1 DEF PromptAccept, TypeOK, Idle, RevertCall, PromptCall
  <2>2. UNCHANGED <<inbox, message, run, seen>>
    BY <1>1 DEF PromptAccept, durable
  <2>3. CASE call[c].resume
    <3>1. asked' = asked \cup {id \in {call[c].id} : IsPending(id)} /\ Exec!Wake(S)
      BY <1>1, <2>3 DEF PromptAccept
    <3>2. \A id \in asked' : id \in asked \/ (IsPending(id) /\ id \notin Visible)
      BY <2>1, <3>1 DEF HistoryMatchesInbox, IsPending, Visible
    <3>3. CASE slot[S] = "idle"
      <4>1. slot'[S] = "due" /\ again' = again /\ run = Off /\ ~again[S]
        BY <3>1, <3>3 DEF Exec!Wake, TypeOK, AskedInv
      <4> QED BY <2>2, <3>2, <4>1 DEF AskedInv, Told, Stored, IsPending, Visible, Off
    <3>4. CASE slot[S] # "idle"
      <4>1. slot' = slot /\ again'[S]
        BY <3>1, <3>4 DEF Exec!Wake, TypeOK
      <4> QED BY <2>2, <3>2, <3>4, <4>1 DEF AskedInv, Told, Stored, IsPending, Visible
    <3> QED BY <3>3, <3>4
  <2>4. CASE ~call[c].resume
    <3>1. UNCHANGED <<execution, asked>>
      BY <1>1, <2>4 DEF PromptAccept
    <3> QED BY <2>2, <3>1 DEF AskedInv, Told, Stored, IsPending, Visible, execution
  <2> QED BY <2>3, <2>4
<1>2. CASE PromptPublish(c)
  <2>1. UNCHANGED <<execution, run, seen, asked>>
    BY <1>2 DEF PromptPublish
  <2>2. CASE UNCHANGED durable
    BY <2>1, <2>2 DEF AskedInv, Told, Stored, IsPending, Visible, execution, durable
  <2>3. ASSUME NEW id \in Id, NEW delivery \in Delivery,
               inbox[id] = Absent,
               inbox' = [inbox EXCEPT ![id] = Row(delivery, seq', 0)],
               message' = message
        PROVE  AskedInv'
    <3>1. \A other \in asked : other \in Id \ {id} /\ inbox'[other] = inbox[other]
      BY <2>3 DEF AskedInv, Stored, TypeOK
    <3> QED BY <2>1, <2>3, <3>1 DEF AskedInv, Told, Stored, IsPending, Visible, execution
  <2> QED BY <1>2, <2>2, <2>3, PromptAdmits
<1>3. CASE PromptRecover(c) \/ PromptConflict(c)
           \/ \E id \in Id, delivery \in Delivery, resume \in BOOLEAN : PromptFind(c, id, delivery, resume)
  <2>1. UNCHANGED <<execution, durable, run, seen, asked>>
    BY <1>3 DEF PromptRecover, PromptConflict, PromptFind
  <2> QED BY <2>1 DEF AskedInv, Told, Stored, IsPending, Visible, execution, durable
<1> QED
  BY <1>1, <1>2, <1>3 DEF Prompt

LEMMA AskedByRevert ==
  ASSUME SInv, NEW c \in Client, Revert(c)
  PROVE  AskedInv'
<1> USE DEF SInv, IInv
<1>1. CASE RevertCommit(c)
  <2>1. UNCHANGED <<execution, run>>
    BY <1>1 DEF RevertCommit
  <2>2. CASE UNCHANGED <<durable, seen, asked>>
    BY <2>1, <2>2 DEF AskedInv, Told, Stored, IsPending, Visible, execution, durable
  <2>3. CASE ~UNCHANGED <<durable, seen, asked>>
    <3>1. PICK b \in Nat :
             /\ message' = [id \in Id |-> IF message[id] > b THEN 0 ELSE message[id]]
             /\ inbox' = [id \in Id |-> IF id \in RowsAfter(b) THEN Absent ELSE inbox[id]]
             /\ seen' = seen \ RowsAfter(b)
             /\ asked' = asked \ RowsAfter(b)
      <4>1. call[c] \in RevertCall
        BY <1>1 DEF RevertCommit, TypeOK, Idle, PromptCall
      <4>2. message[call[c].boundary] \in Nat
        BY <4>1 DEF RevertCall, TypeOK
      <4> QED BY <1>1, <2>3, <4>2 DEF RevertCommit
    <3>2. \A id \in asked' : id \in Id /\ id \in asked /\ inbox'[id] = inbox[id] /\ id \notin RowsAfter(b)
      BY <3>1 DEF TypeOK
    <3>3. \A id \in asked' : message'[id] # 0 => message[id] # 0
      BY <3>1, <3>2 DEF TypeOK
    <3> QED BY <2>1, <3>1, <3>2, <3>3 DEF AskedInv, Told, Stored, IsPending, Visible, execution
  <2> QED BY <2>2, <2>3
<1>2. CASE RevertStage(c) \/ RevertClear(c)
           \/ \E op \in {"stage", "clear", "commit"}, boundary \in Id : RevertRead(c, op, boundary)
  <2>1. UNCHANGED <<execution, inbox, message, run, seen, asked>>
    BY <1>2 DEF RevertStage, RevertClear, RevertRead, durable
  <2> QED BY <2>1 DEF AskedInv, Told, Stored, IsPending, Visible, execution
<1> QED
  BY <1>1, <1>2 DEF Revert

LEMMA AskedBySchedule ==
  ASSUME SInv, Resume \/ Interrupt \/ Crash \/ DrainBegin \/ DrainSucceeds \/ DrainFails
  PROVE  AskedInv'
<1> USE DEF SInv, IInv
<1>0. /\ UNCHANGED <<inbox, message, seen>>
      /\ \A id \in asked : id \in Id /\ (IsPending(id) \/ id \in Visible)
  BY DEF Resume, Interrupt, Crash, DrainBegin, DrainSucceeds, DrainFails, durable, AskedInv,
         HistoryMatchesInbox, Visible, IsPending, TypeOK
<1>1. CASE Resume
  <2>1. slot[S] = "idle" /\ slot'[S] = "due" /\ UNCHANGED <<again, run, asked>>
    BY <1>1 DEF Resume, Exec!Resume, TypeOK
  <2> QED BY <1>0, <2>1 DEF AskedInv, Told, Stored, IsPending, Visible
<1>2. CASE Interrupt
  <2>1. asked' = {} /\ slot' = slot /\ slot[S] # "idle"
    BY <1>2 DEF Interrupt, Exec!Interrupt
  <2> QED BY <2>1 DEF AskedInv
<1>3. CASE Crash
  <2>1. asked' = {} /\ ~again'[S]
    BY <1>3 DEF Crash, TypeOK
  <2> QED BY <2>1 DEF AskedInv
<1>4. CASE DrainBegin
  <2>1. /\ slot[S] = "due" /\ slot'[S] = "draining" /\ UNCHANGED <<again, asked>>
        /\ run' = Drain("hasSteer", "none")
    BY <1>4 DEF DrainBegin, Exec!Begin, TypeOK
  <2>2. run = Off
    BY <2>1 DEF TypeOK
  <2> QED BY <1>0, <2>1, <2>2 DEF AskedInv, Told, Stored, IsPending, Visible, Drain
<1>5. CASE DrainSucceeds
  <2>1. run.pc = "ended" /\ run' = Off /\ asked' = asked /\ Exec!End(S)
    BY <1>5 DEF DrainSucceeds
  <2>2. ~again'[S] /\ slot'[S] = IF again[S] THEN "due" ELSE "idle"
    BY <2>1 DEF Exec!End, TypeOK
  <2> QED BY <1>0, <2>1, <2>2 DEF AskedInv, Told, Stored, IsPending, Visible, Off
<1>6. CASE DrainFails
  <2>1. /\ run' = Off /\ Exec!End(S)
        /\ asked' = IF again[S] THEN {id \in asked : IsPending(id)} ELSE {}
    BY <1>6 DEF DrainFails
  <2>2. ~again'[S] /\ slot'[S] = IF again[S] THEN "due" ELSE "idle"
    BY <2>1 DEF Exec!End, TypeOK
  <2>3. \A id \in asked' : id \in asked /\ IsPending(id) /\ id \notin Visible
    BY <1>0, <2>1 DEF HistoryMatchesInbox, Visible, IsPending
  <2>4. \A id \in asked' : again[S]
    BY <2>1
  <2> QED BY <1>0, <2>1, <2>2, <2>3, <2>4 DEF AskedInv, Told, Stored, IsPending, Visible, Off
<1> QED
  BY <1>1, <1>2, <1>3, <1>4, <1>5, <1>6

LEMMA AskedByDrain ==
  ASSUME SInv, DrainStep \/ CallProvider \/ Compact \/ TurnContinues \/ TurnEnds
  PROVE  AskedInv'
<1> USE DEF SInv, IInv
<1>0. \A id \in asked : id \in Id
  BY DEF TypeOK
<1>1. CASE PublishRow
  <2>1. UNCHANGED <<execution, seen, asked>> /\ run # Off /\ run.pc \in {"publishQueued", "publishSteers"}
    BY <1>1, DrainRuns DEF PublishRow
  <2>2. run'.pc = run.pc /\ run' # Off /\ slot[S] # "idle"
    BY <1>1, <2>1, DrainRuns DEF PublishRow, DrainState, Off, TypeOK
  <2>3. \A id \in asked : Stored(id) => inbox'[id] # Absent
    BY <1>0, <1>1, PublishedRow DEF durable, Stored, Row, Absent, TypeOK
  <2> QED BY <2>1, <2>2, <2>3 DEF AskedInv, Told, Stored, IsPending, execution
<1>2. CASE CallProvider
  <2>1. UNCHANGED <<execution, inbox, message, asked>> /\ seen' = seen \cup Visible /\ run # Off
    BY <1>2, DrainRuns DEF CallProvider, durable
  <2>2. run'.pc = "streaming" /\ slot[S] # "idle"
    BY <1>2, <2>1, DrainRuns DEF CallProvider, DrainState, TypeOK
  <2> QED BY <2>1, <2>2 DEF AskedInv, Told, Stored, IsPending, Visible, execution
<1>3. CASE ~PublishRow /\ ~CallProvider
  <2>1. UNCHANGED <<execution, inbox, message, seen, asked>> /\ run.pc # "off"
    BY <1>3 DEF DrainStep, ReadSteer, ReadQueue, TurnBegin, SelectQueued, SelectSteers, PublishDone,
                MoreSteer, MoreQueue, Compact, TurnContinues, TurnEnds, durable
  <2>2. run # Off /\ run \in DrainState /\ slot[S] # "idle"
    BY <2>1, DrainRuns DEF TypeOK
  <2>3. ASSUME \/ run'.pc \notin {"hasSteer", "hasQueue", "streaming", "moreSteer", "moreQueue", "ended"}
               \/ Told /\ run'.pc \in {"hasSteer", "streaming", "moreSteer"}
               \/ Told /\ run'.pc \in {"hasQueue", "moreQueue"} /\ Pending("steer") = {}
               \/ Told /\ run'.pc = "ended" /\ Pending("queue") = {} /\ run.pc \in {"hasQueue", "moreQueue"},
               run' # Off
        PROVE  AskedInv'
    <3>1. \A id \in asked : IsPending(id) => id \in Pending("steer") \/ (id \in Pending("queue") /\ inbox[id].delivery = "queue")
      BY <1>0 DEF Pending, IsPending, Stored, TypeOK, StoredRow, Delivery, AskedInv
    <3>2. \A id \in Pending("steer") : inbox[id].delivery # "queue"
      BY DEF Pending
    <3> QED BY <2>1, <2>2, <2>3, <3>1, <3>2 DEF AskedInv, Told, Stored, IsPending, Visible, execution
  <2>4. CASE ReadSteer
    BY <2>3, <2>4 DEF ReadSteer, Drain, Told, Off
  <2>5. CASE ReadQueue
    BY <2>3, <2>5 DEF ReadQueue, Drain, Told, Off
  <2>6. CASE TurnBegin
    <3>1. run'.pc \in {"provider", "selectQueued", "selectSteers"}
      BY <2>2, <2>6 DEF TurnBegin, DrainState, Delivery
    <3> QED BY <2>3, <3>1 DEF Off
  <2>7. CASE SelectQueued \/ SelectSteers
    <3>1. run'.pc \in {"publishQueued", "publishSteers"}
      BY <2>2, <2>7 DEF SelectQueued, SelectSteers, DrainState
    <3> QED BY <2>3, <3>1 DEF Off
  <2>8. CASE PublishDone \/ Compact \/ TurnContinues
    <3>1. run'.pc \in {"selectSteers", "provider", "turn"}
      BY <2>2, <2>8 DEF PublishDone, Compact, TurnContinues, DrainState
    <3> QED BY <2>3, <3>1 DEF Off
  <2>9. CASE TurnEnds
    <3>1. run'.pc = "moreSteer" /\ Told
      BY <2>2, <2>9 DEF TurnEnds, DrainState, Told
    <3> QED BY <2>3, <3>1 DEF Off
  <2>10. CASE MoreSteer
    <3>1. Told /\ (run'.pc = "turn" \/ (run'.pc = "moreQueue" /\ Pending("steer") = {}))
      BY <2>2, <2>10 DEF MoreSteer, DrainState, Told
    <3> QED BY <2>3, <3>1 DEF Off
  <2>11. CASE MoreQueue
    <3>1. Told /\ (run'.pc = "turn" \/ (run'.pc = "ended" /\ Pending("queue") = {}))
      BY <2>2, <2>11 DEF MoreQueue, DrainState, Told
    <3> QED BY <2>3, <2>11, <3>1 DEF Off, MoreQueue
  <2> QED
    BY <1>3, <2>4, <2>5, <2>6, <2>7, <2>8, <2>9, <2>10, <2>11 DEF DrainStep
<1> QED
  BY <1>1, <1>2, <1>3

LEMMA SInductive == SInv /\ [Next]_vars => SInv'
<1> SUFFICES ASSUME SInv, [Next]_vars PROVE SInv'
  OBVIOUS
<1>1. IInv'
  BY Inductive DEF SInv
<1>2. AskedInv'
  <2>1. CASE UNCHANGED vars
    BY <2>1 DEF SInv, AskedInv, Told, Stored, IsPending, Visible, vars, execution, durable
  <2> QED
    BY <2>1, AskedByPrompt, AskedByRevert, AskedBySchedule, AskedByDrain DEF Next, NextNoRevert
<1> QED
  BY <1>1, <1>2 DEF SInv

\* When the session is idle the provider has been given every prompt whose execution was
\* asked for and not withdrawn, reverts included (wake in session/execution.ts against the
\* reads of session/runner/llm.ts).
THEOREM StrandsNothing == Spec => []NothingStranded
<1>1. SInv => NothingStranded
  <2> SUFFICES ASSUME SInv, slot[S] = "idle", NEW id \in asked
               PROVE  id \in seen
    BY DEF NothingStranded
  <2>1. id \in Visible /\ run = Off
    BY DEF SInv, IInv, AskedInv, HistoryMatchesInbox, Visible, IsPending, TypeOK
  <2> QED BY <2>1 DEF SInv, AskedInv, Told
<1> QED
  BY <1>1, SInitially, SInductive, PTL DEF Spec
-----------------------------------------------------------------------------
(* What a provider call of a drain is given, in a session nobody reverts. *)

New == ~(Visible \subseteq seen)

Distinct == \A a, b \in Id : Stored(a) /\ Stored(b) /\ inbox[a].admitted = inbox[b].admitted => a = b

\* A drain that goes on has shown the provider all there is, until it publishes.
Shown ==
  run # Off /\ ~run.fresh =>
    /\ run.pc \in {"streaming", "moreSteer", "moreQueue", "selectQueued"} => ~New
    /\ run.pc = "turn" /\ run.promotion = "queue" => ~New
    /\ run.pc = "publishQueued" /\ run.rows # {} => ~New

OneRow == run # Off /\ run.pc = "publishQueued" => \A q, r \in run.rows : q = r

\* A drain that nobody forced has something to show from its first read on.
Fed ==
  run # Off /\ run.fresh /\ ~force[S] =>
    /\ run.pc = "turn" => IF run.promotion = "none" THEN New ELSE Pending(run.promotion) # {}
    /\ run.pc = "selectQueued" => Pending("queue") # {}
    /\ run.pc = "selectSteers" =>
         New \/ \E id \in Pending("steer") : inbox[id].admitted <= run.cutoff
    /\ run.pc \in {"publishQueued", "publishSteers"} => New \/ \E r \in run.rows : IsPending(r.id)
    /\ run.pc = "provider" => New

FInv ==
  /\ NInv /\ Distinct /\ Shown /\ OneRow /\ Fed
  /\ seen \subseteq Visible
  /\ run # Off /\ run.pc \in {"streaming", "moreSteer", "moreQueue"} => ~run.fresh

LEMMA FInitially == Init => FInv
<1> SUFFICES ASSUME Init PROVE FInv
  OBVIOUS
<1> USE DEF Init
<1>1. Distinct /\ Shown /\ OneRow /\ Fed
  BY DEF Distinct, Shown, OneRow, Fed, Stored, Off
<1>2. seen \subseteq Visible
  OBVIOUS
<1> QED
  BY <1>1, <1>2, NInitially DEF FInv, Off

\* Only a promotion, which the drain publishes, makes a row other than pending.
LEMMA PendingStays ==
  ASSUME NInv, [NextNoRevert]_vars, ~PublishRow
  PROVE  /\ UNCHANGED message
         /\ \A id \in Id : IsPending(id) => IsPending(id)' /\ inbox'[id] = inbox[id]
<1>1. CASE UNCHANGED durable
  BY <1>1 DEF durable, IsPending, Stored
<1>2. ASSUME NEW c \in Client, PromptPublish(c)
      PROVE  /\ UNCHANGED message
             /\ \A id \in Id : IsPending(id) => IsPending(id)' /\ inbox'[id] = inbox[id]
  <2>1. ASSUME NEW id \in Id, NEW delivery \in Delivery, inbox[id] = Absent,
               inbox' = [inbox EXCEPT ![id] = Row(delivery, seq', 0)],
               message' = message
        PROVE  /\ UNCHANGED message
               /\ \A o \in Id : IsPending(o) => IsPending(o)' /\ inbox'[o] = inbox[o]
    BY <2>1 DEF IsPending, Stored, NInv, IInv, TypeOK
  <2> QED BY <1>1, <1>2, <2>1, PromptAdmits DEF NInv
<1> QED
  BY <1>1, <1>2, Silent

LEMMA DistinctStep ==
  ASSUME NInv, Distinct, [NextNoRevert]_vars
  PROVE  Distinct'
<1> USE DEF NInv, IInv
<1>0. \A id \in Id : Stored(id) => inbox[id].admitted \in Nat /\ inbox[id].admitted <= seq /\ seq \in Nat
  BY DEF RowsInOrder, TypeOK
<1>1. CASE UNCHANGED durable
  BY <1>1 DEF durable, Distinct, Stored
<1>2. CASE PublishRow
  <2>1. ASSUME NEW r \in run.rows, r.id \in Id, IsPending(r.id),
               inbox' = [inbox EXCEPT ![r.id] = Row(inbox[r.id].delivery, inbox[r.id].admitted, seq')]
        PROVE  Distinct'
    <3>1. \A id \in Id : inbox'[id] # Absent => Stored(id) /\ inbox'[id].admitted = inbox[id].admitted
      BY <2>1 DEF IsPending, Stored, Row, TypeOK
    <3> QED BY <3>1 DEF Distinct, Stored
  <2> QED BY <1>1, <1>2, <2>1, PublishedInOrder
<1>3. ASSUME NEW c \in Client, PromptPublish(c)
      PROVE  Distinct'
  <2>1. ASSUME NEW id \in Id, NEW delivery \in Delivery, inbox[id] = Absent, seq' = seq + 1,
               inbox' = [inbox EXCEPT ![id] = Row(delivery, seq', 0)]
        PROVE  Distinct'
    <3>1. inbox'[id].admitted = seq + 1 /\ \A o \in Id \ {id} : inbox'[o] = inbox[o]
      BY <2>1 DEF Row, TypeOK
    <3>2. \A o \in Id \ {id} : inbox'[o] # Absent => Stored(o) /\ inbox'[o].admitted # seq + 1
      BY <1>0, <3>1 DEF Stored
    <3> QED BY <3>1, <3>2 DEF Distinct, Stored
  <2> QED BY <1>1, <1>3, <2>1, PromptAdmits
<1> QED
  BY <1>1, <1>2, <1>3, Silent

\* The inbox has an oldest row among any selection.
LEMMA OldestIs ==
  ASSUME NEW rows, rows # {}, \A r \in rows : r.row.admitted \in Nat
  PROVE  Oldest(rows) # {}
<1> DEFINE R == {ss \in Nat \X Nat : ss[1] < ss[2]}
           T == {r.row.admitted : r \in rows}
<1>1. IsWellFoundedOn(R, Nat)
  BY NatLessThanWellFounded, Zenon DEF OpToRel
<1>2. \A x, y \in Nat : <<y, x>> \notin R => x <= y
  OBVIOUS
<1>3. T \in SUBSET Nat /\ T # {}
  OBVIOUS
<1> HIDE DEF R
<1>4. PICK x \in T : \A y \in T : <<y, x>> \notin R
  <2> HIDE DEF T
  <2> QED BY <1>1, <1>3, WFMin
<1>5. PICK r \in rows : x = r.row.admitted
  OBVIOUS
<1>6. \A o \in rows : r.row.admitted <= o.row.admitted
  <2> SUFFICES ASSUME NEW o \in rows PROVE r.row.admitted <= o.row.admitted
    OBVIOUS
  <2>1. o.row.admitted \in T /\ x \in Nat /\ o.row.admitted \in Nat
    BY <1>5
  <2>2. <<o.row.admitted, x>> \notin R
    BY <1>4, <2>1
  <2> QED BY <1>2, <1>5, <2>1, <2>2
<1> QED
  BY <1>6 DEF Oldest

\* A step that is not the drain's own.
LEMMA FedOutside ==
  ASSUME FInv, [NextNoRevert]_vars, UNCHANGED <<run, message, seen>>,
         run # Off => force'[S] = force[S],
         \A id \in Id : IsPending(id) => IsPending(id)' /\ inbox'[id] = inbox[id]
  PROVE  Shown' /\ OneRow' /\ Fed'
<1> USE DEF FInv
<1>1. New' = New
  BY DEF New, Visible
<1>2. Shown' /\ OneRow'
  BY <1>1 DEF Shown, OneRow
<1>3. \A d : Pending(d) \subseteq Pending(d)'
  BY DEF Pending
<1>4. run # Off => \A r \in run.rows : r.id \in Id
  BY DEF NInv, IInv, TypeOK, DrainState
<1>5. Fed'
  <2> SUFFICES ASSUME run # Off, run.fresh, ~force[S]
               PROVE  Fed'
    BY DEF Fed
  <2>1. run.pc = "turn" => IF run.promotion = "none" THEN New' ELSE Pending(run.promotion)' # {}
    BY <1>1, <1>3 DEF Fed
  <2>2. run.pc = "selectQueued" => Pending("queue")' # {}
    BY <1>3 DEF Fed
  <2>3. run.pc = "selectSteers" => New' \/ \E id \in Pending("steer")' : inbox'[id].admitted <= run.cutoff
    BY <1>1, <1>3 DEF Fed, Pending
  <2>4. run.pc \in {"publishQueued", "publishSteers"} => New' \/ \E r \in run.rows : IsPending(r.id)'
    BY <1>1, <1>4 DEF Fed
  <2>5. run.pc = "provider" => New'
    BY <1>1 DEF Fed
  <2> QED BY <2>1, <2>2, <2>3, <2>4, <2>5 DEF Fed
<1> QED
  BY <1>2, <1>5

\* What the drain's own steps other than a publication and a provider call have in common.
LEMMA FedInside ==
  ASSUME FInv, DrainStep \/ Compact \/ TurnContinues \/ TurnEnds, ~PublishRow
  PROVE  /\ run # Off /\ run \in DrainState
         /\ UNCHANGED <<execution, durable, seen>>
         /\ New' = New /\ \A d : Pending(d)' = Pending(d)
         /\ \A id : IsPending(id)' = IsPending(id)
<1>1. run.pc # "off" /\ UNCHANGED <<execution, durable, seen>>
  BY DEF DrainStep, ReadSteer, ReadQueue, TurnBegin, SelectQueued, SelectSteers, PublishDone,
         MoreSteer, MoreQueue, Compact, TurnContinues, TurnEnds
<1>2. run # Off /\ run \in DrainState
  BY <1>1, DrainRuns DEF FInv, NInv, IInv
<1>3. New' = New /\ \A d : Pending(d)' = Pending(d)
  BY <1>1 DEF New, Visible, Pending, IsPending, Stored, durable
<1>4. \A id : IsPending(id)' = IsPending(id)
  BY <1>1 DEF IsPending, Stored, durable
<1> QED
  BY <1>1, <1>2, <1>3, <1>4

LEMMA FedByReads ==
  ASSUME FInv, ReadSteer \/ ReadQueue \/ TurnBegin \/ MoreSteer \/ MoreQueue
  PROVE  Shown' /\ OneRow' /\ Fed'
<1>1. /\ run # Off /\ run \in DrainState
      /\ UNCHANGED <<execution, durable, seen>>
      /\ New' = New /\ \A d : Pending(d)' = Pending(d)
  BY FedInside DEF DrainStep, ReadSteer, ReadQueue, TurnBegin, MoreSteer, MoreQueue, PublishRow
<1> USE DEF FInv
<1>2. CASE ReadSteer
  <2>1. \/ run' = Drain("turn", "steer") /\ Pending("steer") # {}
        \/ run' = Drain("hasQueue", "none")
    BY <1>2 DEF ReadSteer
  <2> QED BY <1>1, <2>1 DEF Shown, OneRow, Fed, Drain
<1>3. CASE ReadQueue
  <2>1. \/ run' = Drain("turn", "queue") /\ Pending("queue") # {}
        \/ run' = Drain("turn", "none") /\ force[S]
        \/ run' = Drain("ended", "none")
    BY <1>3 DEF ReadQueue
  <2> QED BY <1>1, <2>1 DEF Shown, OneRow, Fed, Drain, execution
<1>4. CASE MoreSteer \/ MoreQueue
  <2>1. /\ run.pc \in {"moreSteer", "moreQueue"} /\ run'.fresh = run.fresh
        /\ run'.pc \in {"turn", "moreQueue", "ended"}
    BY <1>1, <1>4 DEF MoreSteer, MoreQueue, DrainState
  <2>2. ~run.fresh /\ ~New
    BY <1>1, <2>1 DEF Shown
  <2> QED BY <1>1, <2>1, <2>2 DEF Shown, OneRow, Fed
<1>5. CASE TurnBegin
  <2>1. /\ run.pc = "turn" /\ run'.fresh = run.fresh
        /\ run'.cutoff = IF run.promotion = "none" THEN 0 ELSE seq
        /\ run'.pc = CASE run.promotion = "none" -> "provider"
                       [] run.promotion = "queue" -> "selectQueued"
                       [] run.promotion = "steer" -> "selectSteers"
        /\ run.promotion \in {"none", "queue", "steer"}
    BY <1>1, <1>5 DEF TurnBegin, DrainState, Delivery
  <2>2. \A id \in Pending("steer") : inbox[id].admitted <= seq
    <3>1. seq \in Nat
      BY DEF NInv, IInv, TypeOK
    <3>2. RowsInOrder
      BY DEF NInv, IInv
    <3>3. \A id \in Id : Stored(id) => inbox[id].admitted <= seq
      BY <3>1, <3>2 DEF RowsInOrder
    <3> QED BY <3>3 DEF Pending, IsPending
  <2>3. CASE run.promotion = "none"
    BY <1>1, <2>1, <2>3 DEF Shown, OneRow, Fed, execution
  <2>4. CASE run.promotion = "queue"
    BY <1>1, <2>1, <2>4 DEF Shown, OneRow, Fed, execution
  <2>5. CASE run.promotion = "steer"
    <3>1. run'.pc = "selectSteers" /\ run'.cutoff = seq
      BY <2>1, <2>5
    <3>2. run.fresh /\ ~force[S] => \E id \in Pending("steer") : inbox[id].admitted <= seq
      BY <1>1, <2>1, <2>2, <2>5 DEF Fed
    <3> QED BY <1>1, <2>1, <3>1, <3>2 DEF Shown, OneRow, Fed, execution, durable
  <2> QED BY <2>1, <2>3, <2>4, <2>5
<1> QED
  BY <1>2, <1>3, <1>4, <1>5

LEMMA FedBySelections ==
  ASSUME FInv, SelectQueued \/ SelectSteers \/ PublishDone
  PROVE  Shown' /\ OneRow' /\ Fed'
<1>1. /\ run # Off /\ run \in DrainState
      /\ UNCHANGED <<execution, durable, seen>>
      /\ New' = New /\ \A d : Pending(d)' = Pending(d)
      /\ \A id : IsPending(id)' = IsPending(id)
  <2>1. ~PublishRow
    BY DEF SelectQueued, SelectSteers, PublishDone, PublishRow, Oldest
  <2> QED BY <2>1, FedInside DEF DrainStep
<1> USE DEF FInv
<1>2. CASE SelectQueued
  <2>1. /\ run.pc = "selectQueued" /\ run'.pc = "publishQueued" /\ run'.fresh = run.fresh
        /\ run'.rows = Oldest(Selected(Pending("queue")))
    BY <1>1, <1>2 DEF SelectQueued, DrainState
  <2>2. \A r \in Selected(Pending("queue")) :
          r.id \in Id /\ IsPending(r.id) /\ r.row = inbox[r.id] /\ r.row.admitted \in Nat
    BY DEF Selected, Pending, IsPending, NInv, IInv, RowsInOrder
  <2>3. OneRow'
    <3> SUFFICES ASSUME NEW q \in run'.rows, NEW r \in run'.rows PROVE q = r
      BY DEF OneRow
    <3>1. q \in Selected(Pending("queue")) /\ r \in Selected(Pending("queue"))
          /\ q.row.admitted <= r.row.admitted /\ r.row.admitted <= q.row.admitted
      BY <2>1 DEF Oldest
    <3>2. q.row.admitted = r.row.admitted
      BY <2>2, <3>1
    <3>3. q.id = r.id
      BY <2>2, <3>1, <3>2 DEF Distinct, IsPending
    <3> QED BY <3>1, <3>3 DEF Selected
  <2>4. Pending("queue") # {} => \E r \in run'.rows : IsPending(r.id)
    <3> SUFFICES ASSUME Pending("queue") # {} PROVE \E r \in run'.rows : IsPending(r.id)
      OBVIOUS
    <3>1. Selected(Pending("queue")) # {}
      BY DEF Selected
    <3>2. run'.rows # {}
      BY <2>1, <2>2, <3>1, OldestIs
    <3> QED BY <2>1, <2>2, <3>2 DEF Oldest
  <2>5. ~run.fresh => ~New
    BY <1>1, <2>1 DEF Shown
  <2>6. run.fresh /\ ~force[S] => Pending("queue") # {}
    BY <1>1, <2>1 DEF Fed
  <2>7. Shown'
    BY <1>1, <2>1, <2>5 DEF Shown
  <2>8. Fed'
    BY <1>1, <2>1, <2>4, <2>6 DEF Fed, execution
  <2> QED BY <2>3, <2>7, <2>8
<1>3. CASE SelectSteers
  <2>1. /\ run.pc = "selectSteers" /\ run'.pc = "publishSteers" /\ run'.fresh = run.fresh
        /\ run'.rows = Selected({id \in Pending("steer") : inbox[id].admitted <= run.cutoff})
    BY <1>1, <1>3 DEF SelectSteers, DrainState
  <2>2. Shown' /\ OneRow'
    BY <2>1 DEF Shown, OneRow
  <2>3. ASSUME NEW id \in Pending("steer"), inbox[id].admitted <= run.cutoff
        PROVE  \E r \in run'.rows : IsPending(r.id)
    <3>1. [id |-> id, row |-> inbox[id]] \in run'.rows
      BY <2>1, <2>3 DEF Selected
    <3> QED BY <3>1 DEF Pending
  <2>4. run.fresh /\ ~force[S] => New \/ \E r \in run'.rows : IsPending(r.id)
    BY <1>1, <2>1, <2>3 DEF Fed
  <2> QED BY <1>1, <2>1, <2>2, <2>4 DEF Fed, execution
<1>4. CASE PublishDone
  <2>1. /\ run.pc \in {"publishQueued", "publishSteers"} /\ run.rows = {}
        /\ run'.pc \in {"selectSteers", "provider"} /\ run'.fresh = run.fresh
    BY <1>1, <1>4 DEF PublishDone, DrainState
  <2> QED BY <1>1, <2>1 DEF Shown, OneRow, Fed, execution
<1> QED
  BY <1>2, <1>3, <1>4

LEMMA FedByPublication ==
  ASSUME FInv, PublishRow
  PROVE  Shown' /\ OneRow' /\ Fed'
<1> USE DEF FInv
<1>1. PICK r \in run.rows :
        /\ r.id \in Id
        /\ run # Off
        /\ run' = [run EXCEPT !.rows = @ \ {r}]
        /\ \/ UNCHANGED durable /\ ~IsPending(r.id)
           \/ IsPending(r.id) /\ seq' = seq + 1
              /\ inbox' = [inbox EXCEPT ![r.id] =
                   Row(inbox[r.id].delivery, inbox[r.id].admitted, seq')]
  BY PublishedInOrder
<1>2. /\ run \in DrainState /\ run.pc \in {"publishQueued", "publishSteers"}
      /\ UNCHANGED <<execution, seen>>
  BY DrainRuns DEF PublishRow, NInv, IInv
<1>3. run'.rows = run.rows \ {r} /\ run'.pc = run.pc /\ run'.fresh = run.fresh
  BY <1>1, <1>2 DEF DrainState
<1>4. OneRow' /\ (run.pc = "publishQueued" => run'.rows = {})
  BY <1>1, <1>3 DEF OneRow
<1>5. Shown'
  BY <1>2, <1>3, <1>4 DEF Shown
<1>6. CASE UNCHANGED durable /\ ~IsPending(r.id)
  <2>1. New' = New /\ \A id : IsPending(id)' = IsPending(id)
    BY <1>2, <1>6 DEF New, Visible, IsPending, Stored, durable
  <2>2. (\E o \in run.rows : IsPending(o.id)) => \E o \in run'.rows : IsPending(o.id)
    BY <1>3, <1>6
  <2> QED BY <1>1, <1>2, <1>3, <1>4, <1>5, <2>1, <2>2 DEF Fed, execution
<1>7. CASE IsPending(r.id) /\ seq' = seq + 1
           /\ inbox' = [inbox EXCEPT ![r.id] = Row(inbox[r.id].delivery, inbox[r.id].admitted, seq')]
  <2>1. inbox'[r.id] = Row(inbox[r.id].delivery, inbox[r.id].admitted, seq') /\ seq \in Nat
    BY <1>1, <1>7 DEF NInv, IInv, TypeOK
  <2>2. HistoryMatchesInbox'
    BY TypeStep, ProjectionStep DEF NInv, IInv, Next, NextNoRevert, DrainStep
  <2>3. message'[r.id] = seq + 1
    BY <1>1, <1>7, <2>1, <2>2 DEF HistoryMatchesInbox, Stored, Row, Absent
  <2>4. r.id \notin Visible /\ r.id \notin seen
    BY <1>1, <1>7 DEF NInv, IInv, HistoryMatchesInbox, IsPending, Visible
  <2>5. New'
    BY <1>1, <1>2, <2>1, <2>3, <2>4 DEF New, Visible
  <2> QED BY <1>2, <1>3, <1>4, <1>5, <2>5 DEF Fed
<1> QED
  BY <1>1, <1>6, <1>7

LEMMA FedByTurns ==
  ASSUME FInv, CallProvider \/ Compact \/ TurnContinues \/ TurnEnds
  PROVE  Shown' /\ OneRow' /\ Fed'
<1> USE DEF FInv
<1>1. CASE CallProvider
  <2>1. run'.pc = "streaming" /\ run'.fresh = FALSE
    BY <1>1, DrainRuns DEF CallProvider, DrainState, NInv, IInv
  <2>2. ~New'
    BY <1>1 DEF CallProvider, durable, New, Visible
  <2> QED BY <2>1, <2>2 DEF Shown, OneRow, Fed
<1>2. CASE Compact \/ TurnContinues \/ TurnEnds
  <2>1. /\ run # Off /\ run \in DrainState
        /\ UNCHANGED <<execution, durable, seen>> /\ New' = New
    BY <1>2, FedInside DEF Compact, TurnContinues, TurnEnds, PublishRow
  <2>2. CASE Compact
    <3>1. /\ run.pc = "provider" /\ run'.pc = "turn" /\ run'.promotion = "none"
          /\ run'.fresh = run.fresh
      BY <2>1, <2>2 DEF Compact, DrainState
    <3> QED BY <2>1, <3>1 DEF Shown, OneRow, Fed, execution
  <2>3. CASE TurnContinues \/ TurnEnds
    <3>1. /\ run.pc = "streaming" /\ run'.fresh = run.fresh
          /\ run'.pc = "moreSteer" \/ (run'.pc = "turn" /\ run'.promotion = "steer")
      BY <2>1, <2>3 DEF TurnContinues, TurnEnds, DrainState
    <3>2. ~run.fresh /\ ~New
      BY <2>1, <3>1 DEF Shown
    <3> QED BY <2>1, <3>1, <3>2 DEF Shown, OneRow, Fed
  <2> QED BY <1>2, <2>2, <2>3
<1> QED
  BY <1>1, <1>2

LEMMA FedStep ==
  ASSUME FInv, [NextNoRevert]_vars
  PROVE  Shown' /\ OneRow' /\ Fed'
<1>1. CASE \/ \E c \in Client : Prompt(c)
           \/ Resume \/ Interrupt
           \/ UNCHANGED vars
  <2>0. UNCHANGED <<run, seen>>
    BY <1>1 DEF Prompt, PromptFind, PromptPublish, PromptRecover, PromptConflict,
       PromptAccept, Resume, Interrupt, vars
  <2>1. ~PublishRow
    <3> SUFFICES ASSUME PublishRow PROVE FALSE
      OBVIOUS
    <3>1. PICK r \in run.rows : run # Off /\ run' = [run EXCEPT !.rows = @ \ {r}]
      BY PublishedInOrder DEF FInv
    <3>2. run \in DrainState
      BY <3>1 DEF FInv, NInv, IInv, TypeOK
    <3>3. run'.rows = run.rows \ {r}
      BY <3>1, <3>2 DEF DrainState
    <3> QED BY <2>0, <3>1, <3>3
  <2>2. UNCHANGED message /\ \A id \in Id : IsPending(id) => IsPending(id)' /\ inbox'[id] = inbox[id]
    BY <2>1, PendingStays DEF FInv
  <2>3. run # Off => force'[S] = force[S]
    <3>1. run # Off => slot[S] # "idle"
      BY DEF FInv, NInv, IInv, TypeOK
    <3> QED BY <1>1, <3>1 DEF Prompt, PromptFind, PromptPublish, PromptRecover, PromptConflict,
       PromptAccept, Resume, Interrupt, vars, execution, Exec!Wake, Exec!Resume, Exec!Interrupt
  <2> QED BY <2>0, <2>2, <2>3, FedOutside
<1>2. CASE Crash \/ DrainBegin \/ DrainSucceeds \/ DrainFails
  <2>1. run' = Off \/ run' = Drain("hasSteer", "none")
    BY <1>2 DEF Crash, DrainBegin, DrainSucceeds, DrainFails
  <2> QED BY <2>1 DEF Shown, OneRow, Fed, Drain
<1> QED
  BY <1>1, <1>2, FedByReads, FedBySelections, FedByPublication, FedByTurns DEF NextNoRevert, DrainStep

LEMMA FInductive == FInv /\ [NextNoRevert]_vars => FInv'
<1> SUFFICES ASSUME FInv, [NextNoRevert]_vars PROVE FInv'
  OBVIOUS
<1>1. NInv' /\ Distinct'
  BY NInductive, DistinctStep DEF FInv
<1>2. Shown' /\ OneRow' /\ Fed'
  BY FedStep
<1>3. seen' \subseteq Visible'
  <2>1. seen' = seen \/ seen' = seen \cup Visible
    BY DEF NextNoRevert, Prompt, PromptFind, PromptPublish, PromptRecover, PromptConflict,
       PromptAccept, Resume, Interrupt, Crash, DrainBegin, DrainSucceeds, DrainFails, DrainStep,
       ReadSteer, ReadQueue, TurnBegin, SelectQueued, SelectSteers, PublishRow, PublishDone,
       MoreSteer, MoreQueue, CallProvider, Compact, TurnContinues, TurnEnds, vars
  <2>2. Visible \subseteq Visible'
    <3>1. CASE ~PublishRow
      BY <3>1, PendingStays DEF FInv, Visible
    <3>2. CASE PublishRow
      <4>1. CASE UNCHANGED durable
        BY <4>1 DEF durable, Visible
      <4>2. ASSUME NEW id \in Id, message[id] = 0, message' = [message EXCEPT ![id] = seq']
            PROVE  Visible \subseteq Visible'
        BY <4>2 DEF Visible, FInv, NInv, IInv, TypeOK
      <4> QED BY <3>2, <4>1, <4>2, PublishedRow DEF FInv, NInv
    <3> QED BY <3>1, <3>2
  <2> QED BY <2>1, <2>2 DEF FInv
<1>4. ASSUME run' # Off, run'.pc \in {"streaming", "moreSteer", "moreQueue"}
      PROVE  ~run'.fresh
  <2>0. run # Off => run \in DrainState
    BY DEF FInv, NInv, IInv, TypeOK
  <2>1. CASE run' = run
    BY <1>4, <2>1 DEF FInv
  <2>2. CASE CallProvider
    BY <2>0, <2>2, DrainRuns DEF CallProvider, FInv, NInv, IInv, DrainState
  <2>3. CASE TurnEnds \/ MoreSteer
    <3>1. run # Off /\ ~run.fresh
      BY <2>3, DrainRuns DEF TurnEnds, MoreSteer, FInv, NInv, IInv
    <3> QED BY <2>0, <2>3, <3>1 DEF TurnEnds, MoreSteer, DrainState
  <2>4. CASE run' # run /\ ~CallProvider /\ ~TurnEnds /\ ~MoreSteer
    <3>1. CASE PublishRow \/ PublishDone \/ TurnBegin \/ SelectQueued \/ SelectSteers \/ MoreQueue
               \/ Compact \/ TurnContinues
      <4>1. run # Off
        BY <3>1, DrainRuns DEF PublishRow, PublishDone, TurnBegin, SelectQueued, SelectSteers,
           MoreQueue, Compact, TurnContinues, FInv, NInv, IInv
      <4>2. run'.pc \notin {"streaming", "moreSteer", "moreQueue"}
        BY <2>0, <3>1, <4>1 DEF PublishRow, PublishDone, TurnBegin, SelectQueued, SelectSteers,
           MoreQueue, Compact, TurnContinues, DrainState, Delivery
      <4> QED BY <1>4, <4>2
    <3>2. CASE Crash \/ DrainBegin \/ DrainSucceeds \/ DrainFails \/ ReadSteer \/ ReadQueue
      BY <1>4, <3>2 DEF Crash, DrainBegin, DrainSucceeds, DrainFails, ReadSteer, ReadQueue, Drain
    <3>3. CASE (\E c \in Client : Prompt(c)) \/ Resume \/ Interrupt \/ UNCHANGED vars
      BY <2>4, <3>3 DEF Prompt, PromptFind, PromptPublish, PromptRecover, PromptConflict,
         PromptAccept, Resume, Interrupt, vars
    <3> QED BY <2>4, <3>1, <3>2, <3>3 DEF NextNoRevert, DrainStep
  <2> QED BY <2>1, <2>2, <2>3, <2>4
<1> QED
  BY <1>1, <1>2, <1>3, <1>4 DEF FInv

LEMMA AlwaysFInv == SpecNoRevert => []FInv
BY FInitially, FInductive, PTL DEF SpecNoRevert

\* A queued prompt is promoted by a drain that goes on only when the provider has been
\* given all that is visible, one at a time (promoteNextQueued in session/input.ts under
\* the loop of session/runner/llm.ts).
THEOREM QueuedInputWaits == SpecNoRevert => QueuedWaits
<1>1. ASSUME FInv, [NextNoRevert]_vars
      PROVE  [run.pc = "publishQueued" /\ message' # message /\ ~run.fresh => Visible \subseteq seen]_vars
  <2> SUFFICES ASSUME run.pc = "publishQueued", message' # message, ~run.fresh
               PROVE  Visible \subseteq seen
    OBVIOUS
  <2>1. PublishRow
    BY <1>1, PendingStays DEF FInv
  <2>2. run # Off /\ run.rows # {}
    BY <1>1, <2>1, PublishedInOrder DEF FInv
  <2> QED BY <1>1, <2>2 DEF FInv, Shown, New
<1> QED
  BY <1>1, AlwaysFInv, PTL DEF SpecNoRevert, QueuedWaits

\* The first provider call of a drain that was only woken is given a prompt no call was
\* given before (the guard of run in session/runner/llm.ts).
THEOREM WokenDrainHasInput == SpecNoRevert => WakeCallsWithInput
<1>1. ASSUME FInv, [NextNoRevert]_vars
      PROVE  [run.pc = "provider" /\ run'.pc = "streaming" /\ run.fresh /\ ~force[S]
                => ~(Visible \subseteq seen)]_vars
  <2> SUFFICES ASSUME run.pc = "provider", run.fresh, ~force[S]
               PROVE  ~(Visible \subseteq seen)
    OBVIOUS
  <2>1. run # Off
    BY DEF Off
  <2> QED BY <1>1, <2>1 DEF FInv, Fed, New
<1> QED
  BY <1>1, AlwaysFInv, PTL DEF SpecNoRevert, WakeCallsWithInput
=============================================================================

-------------------------- MODULE ProviderTurnProofs --------------------------
(***************************************************************************)
(* Proofs about ProviderTurn, for any number of calls.                     *)
(*                                                                         *)
(* The inductive invariant says who may still settle a call: the call's    *)
(* fiber while it is in the FiberSet and no other fiber's failure has      *)
(* overtaken it, the stream's fiber while it publishes the call's events,  *)
(* the end of the turn for what is left in the publisher's map, and the    *)
(* next drain for what is left in the database.                            *)
(***************************************************************************)
EXTENDS ProviderTurn, TLAPS

Turning == runner \notin {"idle", "recover", "request"}

\* The stream's fiber publishes only while the stream lasts.
OpInv ==
  /\ op.to # "nothing" => runner = "stream" /\ op.call \in known
  /\ op.to = "pending" => op.call \notin called
  /\ op.to = "running" => op.call \in called
  /\ op.to = "fork" => op.call \in called \ (hosted \cup settled)
  /\ op.to \in {"completed", "error"} => op.call \in settled
  /\ op.to \in {"completed", "error"} /\ ~stream.refusing => op.call \in hosted
  /\ stream.refusing => stream.disabled

\* A fiber runs a local call of this turn, which its publisher has recorded.
OpenInv ==
  /\ open \subseteq called \ hosted
  /\ ~Turning => open = {}
  /\ runner = "failAll" => open = {} \/ failure = "unstored"
  /\ stream.disabled => open = {} /\ op.to # "fork"
  /\ \A c \in open : failure # "unstored" => c \notin settled

FiberInv ==
  \A c \in Call : fiber[c] # "none" =>
    /\ state[c] \notin {"absent", "pending"}
    /\ c \in known => c \in called
    /\ c = op.call => op.to \notin {"pending", "running", "fork"}

\* What the database holds of the calls of this turn.
StateInv ==
  /\ \A c \in open \ settled : state[c] = "running"
  /\ op.to = "pending" => state[op.call] = "absent"
  /\ op.to = "fork" => state[op.call] = "running"
  /\ op.to \in {"completed", "error"} /\ ~stream.refusing => state[op.call] = "running"
  /\ runner = "stream" =>
       /\ \A c \in known : state[c] = "absent" => op = [call |-> c, to |-> "pending"]
       /\ \A c \in (called \cap hosted) \ settled : c # op.call => state[c] = "running"
       /\ ~stream.disabled => \A c \in settled : c \in called /\ (c = op.call => op.to # "running")

\* Who may still settle a call.
SettleInv ==
  /\ \A c \in Call : settlements[c] = 1 => state[c] \notin {"pending", "running"}
  /\ Turning => \A c \in known \ settled : settlements[c] = 0
  /\ runner = "stream" => \A c \in known \ called : settlements[c] = 0
  /\ op.to \in {"pending", "running"} => settlements[op.call] = 0
  /\ op.to \in {"completed", "error"} /\ ~stream.refusing => settlements[op.call] = 0

\* A call of a turn with tools that is projected as running still has somebody to settle it.
Running == {c \in known : state[c] = "running"}

TurnInv ==
  /\ runner = "stream" => stream.ended = "no"
  /\ runner = "failHosted" => stream.ended = "llmError"
  /\ runner = "clear" => stream.ended = "halted"
  /\ runner = "failRest" => stream.ended = "success"
  /\ \A c \in known : fiber[c] = "rejected" => failure # "none"
  /\ runner \in {"failRest", "failAll", "close"} /\ stream.ended = "success" =>
       (failure = "none" /\ open = {}) \/ failure = "unstored"
  /\ ~stream.disabled =>
       /\ runner = "stream" => \A c \in Running :
            \/ c \in open \cup hosted /\ c \notin settled
            \/ c = op.call /\ op.to \in {"fork", "completed", "error"}
            \/ failure # "none" /\ c \notin settled
       /\ runner = "await" /\ stream.ended = "success" => \A c \in Running :
            c \notin settled /\ (c \in open \cup hosted \/ failure # "none")
       /\ runner = "failRest" => Running \subseteq hosted \ settled
       /\ runner = "failAll" /\ stream.ended = "success" => Running \cap settled = {}
       /\ runner = "close" /\ stream.ended = "success" => Running = {}
       /\ runner = "request" => Running = {}

\* The properties among the parts of the invariant.
Promised ==
  RecordedBeforeRun /\ SettledOnce /\ ResultIsKept /\ ToolsStopped /\ SettledBeforeRequest

IInv == TypeOK /\ OpInv /\ OpenInv /\ FiberInv /\ StateInv /\ SettleInv /\ TurnInv /\ Promised
-----------------------------------------------------------------------------
\* The steps of the drain between turns.
LEMMA DrainKeeps ==
  ASSUME IInv,
         \/ Interrupt
         \/ StartDrain
         \/ \E c \in Call : Recover(c)
         \/ Recovered
         \/ Request
         \/ StopDrain
         \/ Crash
  PROVE  IInv'
<1> USE DEF TypeOK, Op, Nothing, Turning, Running, OpInv, OpenInv, FiberInv, StateInv, SettleInv, TurnInv,
           Promised, RecordedBeforeRun, SettledOnce, ResultIsKept, ToolsStopped, SettledBeforeRequest,
           IInv, turn, publisher, durable
<1>1. CASE Interrupt
  BY <1>1, NoCallIsNoCall DEF Interrupt
<1>2. CASE StartDrain
  BY <1>2, NoCallIsNoCall DEF StartDrain
<1>3. ASSUME NEW c \in Call, Recover(c) PROVE IInv'
  BY <1>3, NoCallIsNoCall DEF Recover, Dangling, Commit, Project, Applies
<1>4. CASE Recovered
  BY <1>4, NoCallIsNoCall DEF Recovered, Dangling
<1>5. CASE Request
  BY <1>5, NoCallIsNoCall DEF Request, Fresh
<1>6. CASE StopDrain
  BY <1>6, NoCallIsNoCall DEF StopDrain
<1>7. CASE Crash
  BY <1>7, NoCallIsNoCall DEF Crash, Fresh
<1> QED
  BY <1>1, <1>2, <1>3, <1>4, <1>5, <1>6, <1>7

\* The steps of the stream: every event is published before the next is taken.
LEMMA StreamKeeps ==
  ASSUME IInv,
         \/ \E c \in Call : ToolInput(c)
         \/ \E c \in Call : ToolCall(c)
         \/ \E c \in Call : HostedResult(c)
         \/ ProviderError
         \/ Published
         \/ Fork
         \/ \E c \in Call : Refuse(c)
         \/ Refused
         \/ StreamEnds
         \/ StreamInterrupted
  PROVE  IInv'
<1> USE DEF TypeOK, Op, Nothing, Turning, Running, OpInv, OpenInv, FiberInv, StateInv, SettleInv, TurnInv,
           Promised, RecordedBeforeRun, SettledOnce, ResultIsKept, ToolsStopped, SettledBeforeRequest,
           IInv, turn, publisher, durable
<1>1. ASSUME NEW c \in Call, ToolInput(c) PROVE IInv'
  BY <1>1, NoCallIsNoCall DEF ToolInput, Hears, Streaming, Publishing
<1>2. ASSUME NEW c \in Call, ToolCall(c) PROVE IInv'
  BY <1>2, NoCallIsNoCall DEF ToolCall, Hears, Streaming, Publishing
<1>3. ASSUME NEW c \in Call, HostedResult(c) PROVE IInv'
  BY <1>3, NoCallIsNoCall DEF HostedResult, Hears, Streaming, Publishing, MarkSettled
<1>4. CASE ProviderError
  BY <1>4, NoCallIsNoCall DEF ProviderError, Hears, Streaming
<1>5. CASE Published
  <2>1. TypeOK'
    <3>1. op' \in Op
      BY <1>5, NoCallIsNoCall DEF Published, Publishing
    <3>2. state' \in [Call -> {"absent", "pending", "running", "completed", "error"}]
      BY <1>5, NoCallIsNoCall DEF Published, Commit, Project, Applies
    <3>3. settlements' \in [Call -> Nat]
      BY <1>5, NoCallIsNoCall DEF Published, Commit
    <3>4. stream' \in [ended : {"no", "success", "llmError", "died", "halted"}, providerError : BOOLEAN,
                       continues : BOOLEAN, disabled : BOOLEAN, refusing : BOOLEAN]
      BY <1>5, NoCallIsNoCall DEF Published
    <3> QED
      BY <1>5, <3>1, <3>2, <3>3, <3>4 DEF Published
  <2>2. OpInv'
    BY <1>5, NoCallIsNoCall DEF Published, Publishing, Commit, Project, Applies
  <2>3. OpenInv'
    BY <1>5, NoCallIsNoCall DEF Published, Publishing, Commit, Project, Applies
  <2>4. FiberInv'
    BY <1>5, NoCallIsNoCall DEF Published, Publishing, Commit, Project, Applies
  <2>5. StateInv'
    BY <1>5, NoCallIsNoCall DEF Published, Publishing, Commit, Project, Applies
  <2>6. SettleInv'
    BY <1>5, NoCallIsNoCall DEF Published, Publishing, Commit, Project, Applies
  <2>7. TurnInv'
    BY <1>5, NoCallIsNoCall DEF Published, Publishing, Commit, Project, Applies
  <2>8. Promised'
    BY <1>5, NoCallIsNoCall DEF Published, Publishing, Commit, Project, Applies
  <2> QED
    BY <2>1, <2>2, <2>3, <2>4, <2>5, <2>6, <2>7, <2>8
<1>6. CASE Fork
  BY <1>6, NoCallIsNoCall DEF Fork
<1>7. ASSUME NEW c \in Call, Refuse(c) PROVE IInv'
  BY <1>7, NoCallIsNoCall DEF Refuse, Unsettled, MarkSettled, Publishing
<1>8. CASE Refused
  BY <1>8, NoCallIsNoCall DEF Refused, Unsettled
<1>9. CASE StreamEnds
  BY <1>9, NoCallIsNoCall DEF StreamEnds, Streaming
<1>10. CASE StreamInterrupted
  BY <1>10, NoCallIsNoCall DEF StreamInterrupted
<1> QED
  BY <1>1, <1>2, <1>3, <1>4, <1>5, <1>6, <1>7, <1>8, <1>9, <1>10

\* The steps of a tool's fiber.
LEMMA ToolsKeep ==
  ASSUME IInv,
         \/ \E c \in Call : FiberReturns(c)
         \/ \E c \in Call : FiberFails(c)
         \/ \E c \in Call : FiberPublishes(c)
         \/ \E c \in Call : Stop(c)
  PROVE  IInv'
<1> USE DEF TypeOK, Op, Nothing, Turning, Running, OpInv, OpenInv, FiberInv, StateInv, SettleInv, TurnInv,
           Promised, RecordedBeforeRun, SettledOnce, ResultIsKept, ToolsStopped, SettledBeforeRequest,
           IInv, turn, publisher, durable
<1>1. ASSUME NEW c \in Call, FiberReturns(c) PROVE IInv'
  BY <1>1, NoCallIsNoCall DEF FiberReturns
<1>2. ASSUME NEW c \in Call, FiberFails(c) PROVE IInv'
  BY <1>2, NoCallIsNoCall DEF FiberFails
<1>3. ASSUME NEW c \in Call, FiberPublishes(c) PROVE IInv'
  BY <1>3, NoCallIsNoCall DEF FiberPublishes, PermitFree, MarkSettled, Commit, Project, Applies
<1>4. ASSUME NEW c \in Call, Stop(c) PROVE IInv'
  BY <1>4, NoCallIsNoCall DEF Stop
<1> QED
  BY <1>1, <1>2, <1>3, <1>4

\* The steps that settle the turn.
LEMMA SettlingKeeps ==
  ASSUME IInv,
         \/ AwaitEmpty
         \/ AwaitFailure
         \/ AwaitHalted
         \/ Cleared
         \/ \E c \in Call : Fail(c)
         \/ Failed
         \/ Close
  PROVE  IInv'
<1> USE DEF TypeOK, Op, Nothing, Turning, Running, OpInv, OpenInv, FiberInv, StateInv, SettleInv, TurnInv,
           Promised, RecordedBeforeRun, SettledOnce, ResultIsKept, ToolsStopped, SettledBeforeRequest,
           IInv, turn, publisher, durable
<1>1. CASE AwaitEmpty
  BY <1>1, NoCallIsNoCall DEF AwaitEmpty
<1>2. CASE AwaitFailure
  BY <1>2, NoCallIsNoCall DEF AwaitFailure
<1>3. CASE AwaitHalted
  BY <1>3, NoCallIsNoCall DEF AwaitHalted
<1>4. CASE Cleared
  BY <1>4, NoCallIsNoCall DEF Cleared
<1>5. ASSUME NEW c \in Call, Fail(c) PROVE IInv'
  BY <1>5, NoCallIsNoCall DEF Fail, Unsettled, MarkSettled, Commit, Project, Applies
<1>6. CASE Failed
  BY <1>6, NoCallIsNoCall DEF Failed, Unsettled
<1>7. CASE Close
  BY <1>7, NoCallIsNoCall DEF Close
<1> QED
  BY <1>1, <1>2, <1>3, <1>4, <1>5, <1>6, <1>7

LEMMA Initially == Init => IInv
<1> SUFFICES ASSUME Init PROVE IInv
  OBVIOUS
<1>1. TypeOK
  BY DEF Init, TypeOK, Op, Nothing, Fresh
<1>2. OpInv /\ OpenInv /\ FiberInv
  BY DEF Init, OpInv, OpenInv, FiberInv, Turning, Nothing, Fresh
<1>3. StateInv /\ SettleInv /\ TurnInv
  BY DEF Init, StateInv, SettleInv, TurnInv, Running, Turning, Nothing, Fresh
<1>4. Promised
  BY DEF Init, Promised, RecordedBeforeRun, SettledOnce, ResultIsKept, ToolsStopped, SettledBeforeRequest
<1> QED
  BY <1>1, <1>2, <1>3, <1>4 DEF IInv

\* Every step keeps the invariant.
LEMMA Inductive == IInv /\ [Next]_vars => IInv'
<1> SUFFICES ASSUME IInv, [Next]_vars PROVE IInv'
  OBVIOUS
<1>1. CASE UNCHANGED vars
  BY <1>1 DEF vars, turn, publisher, durable, IInv, TypeOK, Op, Nothing, Turning, Running, OpInv, OpenInv,
    FiberInv, StateInv, SettleInv, TurnInv, Promised, RecordedBeforeRun, SettledOnce, ResultIsKept,
    ToolsStopped, SettledBeforeRequest
<1>2. CASE StartDrain \/ Interrupt \/ Crash
  BY <1>2, DrainKeeps
<1>3. CASE Provider
  BY <1>3, StreamKeeps DEF Provider
<1>4. CASE Tools
  BY <1>4, ToolsKeep DEF Tools
<1>5. CASE Runner
  BY <1>5, DrainKeeps, StreamKeeps, SettlingKeeps DEF Runner
<1> QED
  BY <1>1, <1>2, <1>3, <1>4, <1>5 DEF Next

LEMMA Invariant == Spec => []IInv
BY Initially, Inductive, PTL DEF Spec
-----------------------------------------------------------------------------
\* Every variable has its type, at every moment of every turn.
THEOREM TypeCorrect == Spec => []TypeOK
BY Invariant, PTL DEF IInv

\* A tool executes only calls that are durably recorded, whatever dies or is interrupted.
THEOREM RunsWhatIsRecorded == Spec => []RecordedBeforeRun
BY Invariant, PTL DEF IInv, Promised

\* A call is settled at most once, although the tool's fiber, the stream, the end of the turn
\* and the next drain may all do it.
THEOREM SettlesOnce == Spec => []SettledOnce
BY Invariant, PTL DEF IInv, Promised

\* What a tool returned is what is recorded, also when the drain is interrupted meanwhile.
THEOREM KeepsResults == Spec => []ResultIsKept
BY Invariant, PTL DEF IInv, Promised

\* No execution outlives its turn.
THEOREM StopsTools == Spec => []ToolsStopped
BY Invariant, PTL DEF IInv, Promised

\* After a turn with tools no call of it is left running when the next request is assembled.
THEOREM SettlesBeforeRequest == Spec => []SettledBeforeRequest
BY Invariant, PTL DEF IInv, Promised

\* A drain does not go on after a dismissed question, unless another tool's failure came first.
THEOREM HaltsOnRejection == Spec => QuestionHalts
<1> DEFINE Halts == runner = "close" /\ runner' = "request" /\ failure # "unstored"
                     => \A c \in Call : c \in known => fiber[c] # "rejected"
<1>1. IInv /\ [Next]_vars => Halts
  <2> SUFFICES ASSUME IInv, [Next]_vars, runner = "close", runner' = "request", failure # "unstored"
               PROVE  \A c \in Call : c \in known => fiber[c] # "rejected"
    OBVIOUS
  <2>1. stream.ended = "success"
    BY DEF Next, vars, StartDrain, Interrupt, Crash, Provider, ToolInput, ToolCall, HostedResult,
      ProviderError, Hears, Streaming, StreamEnds, Tools, FiberReturns, FiberFails, FiberPublishes, Stop,
      Runner, Recovered, Request, StopDrain, Published, Fork, Refused, StreamInterrupted, AwaitEmpty,
      AwaitFailure, AwaitHalted, Cleared, Failed, Close, Recover, Refuse, Fail
  <2>2. failure = "none"
    BY <2>1 DEF IInv, TurnInv
  <2> QED
    BY <2>2 DEF IInv, TurnInv
<1> QED
  BY <1>1, Invariant, PTL DEF Spec, QuestionHalts
=============================================================================

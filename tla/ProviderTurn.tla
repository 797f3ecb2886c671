----------------------------- MODULE ProviderTurn -----------------------------
(***************************************************************************)
(* The provider turns of one session's drains and the tool calls they      *)
(* make: runTurnAttempt and failInterruptedTools of                        *)
(* core/src/session/runner/llm.ts, the publisher of one turn's events      *)
(* (runner/publish-llm-event.ts) and the tool states that                  *)
(* session/message-updater.ts projects.                                    *)
(*                                                                         *)
(* Three kinds of fibers: the runner, which streams the provider's events  *)
(* and then settles the turn; one fiber per local tool call, in a FiberSet *)
(* of the turn; and whoever interrupts the drain.  They share the          *)
(* publisher's map of calls, one permit to publish, and the database, one  *)
(* transaction of which is one step.                                       *)
(***************************************************************************)
EXTENDS Naturals, FiniteSets

CONSTANTS Call,   \* tool calls, each made at most once
          NoCall  \* nothing is being published

ASSUME NoCallIsNoCall == NoCall \notin Call

VARIABLES
  runner,      \* control of the drain
  interrupted, \* the drain was asked to stop
  known,       \* calls in the map of this turn's publisher
  called,      \* those of them that were made
  hosted,      \* those the provider executes
  settled,     \* those whose settlement was published, or is about to be
  op,          \* what the stream is publishing: a call and its next state
  stream,      \* the stream so far
  failure,     \* first failure of a tool fiber: the deferred of the FiberSet
  open,        \* calls whose fiber is in the FiberSet
  fiber,       \* Call -> its execution
  state,       \* durable: Call -> its projected tool state
  settlements  \* history: Call -> Success and Failed events published, refusals apart

publisher == <<known, called, hosted, settled>>
turn == <<publisher, op, stream, failure>>
durable == <<state, settlements>>
vars == <<runner, interrupted, turn, open, fiber, durable>>

Unsettled(hostedOnly) == {c \in known \ settled : hostedOnly => c \in hosted}
Dangling == {c \in Call : state[c] \in {"pending", "running"}}
Nothing == [call |-> NoCall, to |-> "nothing"]
Fresh == [ended |-> "no", providerError |-> FALSE, continues |-> FALSE, disabled |-> FALSE, refusing |-> FALSE]

Init ==
  /\ runner = "idle"
  /\ interrupted = FALSE
  /\ known = {} /\ called = {} /\ hosted = {} /\ settled = {}
  /\ op = Nothing
  /\ stream = Fresh
  /\ failure = "none"
  /\ open = {}
  /\ fiber = [c \in Call |-> "none"]
  /\ state = [c \in Call |-> "absent"]
  /\ settlements = [c \in Call |-> 0]

\* Whether an event that makes a tool `to` changes a tool in state s.
Applies(s, to) ==
  \/ to = "pending" /\ s = "absent"
  \/ to = "running" /\ s # "absent"
  \/ to = "completed" /\ s = "running"
  \/ to = "error" /\ s \in {"pending", "running"}

\* The event and its projection are one transaction.
Project(c, to) == state' = IF Applies(state[c], to) THEN [state EXCEPT ![c] = to] ELSE state

Commit(c, to) ==
  /\ Project(c, to)
  /\ settlements' = IF to \in {"completed", "error"} THEN [settlements EXCEPT ![c] = @ + 1] ELSE settlements

MarkSettled(c) ==
  /\ settled' = settled \cup {c}
  /\ UNCHANGED <<known, called, hosted>>
-----------------------------------------------------------------------------
(* The drain. *)

StartDrain ==
  /\ runner = "idle"
  /\ runner' = "recover"
  /\ UNCHANGED <<interrupted, turn, open, fiber, durable>>

Interrupt ==
  /\ runner # "idle"
  /\ interrupted' = TRUE
  /\ UNCHANGED <<runner, turn, open, fiber, durable>>

\* failInterruptedTools, once at the beginning of a drain.
Recover(c) ==
  /\ runner = "recover"
  /\ c \in Dangling
  /\ Commit(c, "error")
  /\ UNCHANGED <<runner, interrupted, turn, open, fiber>>

Recovered ==
  /\ runner = "recover"
  /\ Dangling = {}
  /\ runner' = "request"
  /\ UNCHANGED <<interrupted, turn, open, fiber, durable>>

\* The request is assembled from the projected history and the provider is called, on the
\* last step of an agent without tools.
Request ==
  /\ runner = "request"
  /\ ~interrupted
  /\ runner' = "stream"
  /\ known' = {} /\ called' = {} /\ hosted' = {} /\ settled' = {}
  /\ failure' = "none"
  /\ \E disabled \in BOOLEAN : stream' = [Fresh EXCEPT !.disabled = disabled]
  /\ UNCHANGED <<interrupted, op, open, fiber, durable>>

\* An interrupt or a failure outside the turn's uninterruptible part.
StopDrain ==
  /\ runner \in {"recover", "request"}
  /\ runner' = "idle"
  /\ interrupted' = FALSE
  /\ UNCHANGED <<turn, open, fiber, durable>>
-----------------------------------------------------------------------------
(* The stream: an event is published before the next one is taken.  What the       *)
(* publisher keeps in memory changes before the transaction, so that an interrupt  *)
(* in between loses the event but not the mark.                                    *)

Streaming == runner = "stream" /\ op = Nothing /\ ~stream.refusing
Hears == Streaming /\ ~stream.providerError

Publishing(c, to) == op' = [call |-> c, to |-> to]

\* The provider begins a call with its input; what later turns call is another call.
ToolInput(c) ==
  /\ Hears
  /\ c \notin known /\ state[c] = "absent" /\ settlements[c] = 0
  /\ known' = known \cup {c}
  /\ Publishing(c, "pending")
  /\ UNCHANGED <<runner, interrupted, called, hosted, settled, stream, failure, open, fiber, durable>>

\* The call itself, to be executed here or by the provider.
ToolCall(c) ==
  /\ Hears
  /\ c \in known \ called
  /\ called' = called \cup {c}
  /\ hosted' \in {hosted, hosted \cup {c}}
  /\ Publishing(c, "running")
  /\ UNCHANGED <<runner, interrupted, known, settled, stream, failure, open, fiber, durable>>

\* The provider's result of a call it executed.
HostedResult(c) ==
  /\ Hears
  /\ c \in (called \cap hosted) \ settled
  /\ MarkSettled(c)
  /\ \E to \in {"completed", "error"} : Publishing(c, to)
  /\ UNCHANGED <<runner, interrupted, stream, failure, open, fiber, durable>>

\* provider-error: what follows it in the stream is ignored.
ProviderError ==
  /\ Hears
  /\ stream' = [stream EXCEPT !.providerError = TRUE]
  /\ UNCHANGED <<runner, interrupted, publisher, op, failure, open, fiber, durable>>

\* The transaction ends.  A recorded local call is executed next or, when the turn has no
\* tools, refused together with every other unsettled call.
Published ==
  /\ runner = "stream" /\ op # Nothing
  /\ op.to # "fork"
  /\ LET c == op.call
         local == op.to = "running" /\ c \notin hosted IN
     /\ IF stream.refusing THEN Project(c, op.to) /\ UNCHANGED settlements
                           ELSE Commit(c, op.to)
     /\ IF local /\ ~stream.disabled THEN Publishing(c, "fork") ELSE op' = Nothing
     /\ stream' = [stream EXCEPT !.continues = @ \/ (local /\ ~stream.disabled),
                                 !.refusing = @ \/ (local /\ stream.disabled)]
  /\ UNCHANGED <<runner, interrupted, publisher, failure, open, fiber>>

Fork ==
  /\ runner = "stream" /\ op # Nothing
  /\ op.to = "fork"
  /\ open' = open \cup {op.call}
  /\ fiber' = [fiber EXCEPT ![op.call] = "running"]
  /\ op' = Nothing
  /\ UNCHANGED <<runner, interrupted, publisher, stream, failure, durable>>

Refuse(c) ==
  /\ runner = "stream" /\ op = Nothing /\ stream.refusing
  /\ c \in Unsettled(FALSE)
  /\ MarkSettled(c)
  /\ Publishing(c, "error")
  /\ UNCHANGED <<runner, interrupted, stream, failure, open, fiber, durable>>

Refused ==
  /\ runner = "stream" /\ op = Nothing /\ stream.refusing
  /\ Unsettled(FALSE) = {}
  /\ stream' = [stream EXCEPT !.refusing = FALSE]
  /\ UNCHANGED <<runner, interrupted, publisher, op, failure, open, fiber, durable>>

\* The provider ends the stream, fails with an LLMError, or sends what the publisher
\* does not accept.
StreamEnds ==
  /\ Streaming
  /\ \E how \in {"success", "llmError", "died"} :
       /\ stream' = [stream EXCEPT !.ended = how]
       /\ runner' = IF how = "llmError" /\ ~stream.providerError THEN "failHosted" ELSE "await"
  /\ UNCHANGED <<interrupted, publisher, op, failure, open, fiber, durable>>

\* An interrupt reaches the stream between two operations or within a transaction, which
\* is rolled back (an interrupt after the commit is Published before it).
StreamInterrupted ==
  /\ runner = "stream" /\ interrupted
  /\ op' = Nothing
  /\ stream' = [stream EXCEPT !.ended = "halted", !.refusing = FALSE]
  /\ runner' = "clear"
  /\ UNCHANGED <<interrupted, publisher, failure, open, fiber, durable>>
-----------------------------------------------------------------------------
(* The fiber of a local call: interruptible while it executes, not while it publishes. *)

\* The execution ends with a result or with an error for the model.
FiberReturns(c) ==
  /\ c \in open /\ fiber[c] = "running"
  /\ \E result \in {"ok", "fault"} : fiber' = [fiber EXCEPT ![c] = result]
  /\ UNCHANGED <<runner, interrupted, turn, open, durable>>

\* Its output cannot be stored, it dies, or the user dismisses the question it asks: the
\* fiber fails.
FiberFails(c) ==
  /\ c \in open /\ fiber[c] = "running"
  /\ \E how \in {"unstored", "rejected"} :
       /\ fiber' = [fiber EXCEPT ![c] = how]
       /\ failure' = IF failure = "none" THEN how ELSE failure
  /\ open' = open \ {c}
  /\ UNCHANGED <<runner, interrupted, publisher, op, stream, durable>>

PermitFree ==
  /\ op.to \in {"nothing", "fork"}
  /\ ~stream.refusing
  /\ runner \notin {"failHosted", "failAll", "failRest"}

\* The result is published, unless the call was settled after the failure of another tool
\* (a second result is then a failure nobody sees).
FiberPublishes(c) ==
  /\ c \in open /\ fiber[c] \in {"ok", "fault"}
  /\ PermitFree
  /\ open' = open \ {c}
  /\ IF c \in settled THEN UNCHANGED <<publisher, durable>>
     ELSE MarkSettled(c) /\ Commit(c, IF fiber[c] = "ok" THEN "completed" ELSE "error")
  /\ UNCHANGED <<runner, interrupted, op, stream, failure, fiber>>

\* Mutation: nothing is interrupted before the scope closes.
StopAtClose(c) ==
  /\ runner = "close"
  /\ c \in open /\ fiber[c] = "running"
  /\ fiber' = [fiber EXCEPT ![c] = "stopped"]
  /\ open' = open \ {c}
  /\ UNCHANGED <<runner, interrupted, turn, durable>>

\* FiberSet.clear, and the end of the turn's scope, interrupt the executions.
Stop(c) ==
  /\ runner \in {"clear", "close"}
  /\ c \in open /\ fiber[c] = "running"
  /\ fiber' = [fiber EXCEPT ![c] = "stopped"]
  /\ open' = open \ {c}
  /\ UNCHANGED <<runner, interrupted, turn, durable>>
-----------------------------------------------------------------------------
(* Settling the turn: uninterruptible but for the wait for the tool fibers. *)

\* Mutation: the tools are not waited for.
AwaitNobody ==
  /\ runner = "await"
  /\ runner' = IF stream.providerError THEN "failAll"
             ELSE IF stream.ended = "success" THEN "failRest" ELSE "close"
  /\ UNCHANGED <<interrupted, turn, open, fiber, durable>>

\* Every tool fiber has ended, none by failing.
AwaitEmpty ==
  /\ runner = "await"
  /\ failure = "none" /\ open = {}
  /\ runner' = IF stream.providerError THEN "failAll"
             ELSE IF stream.ended = "success" THEN "failRest" ELSE "close"
  /\ UNCHANGED <<interrupted, turn, open, fiber, durable>>

\* Mutation: a dismissed question is a failure like any other.
AwaitAnyFailure ==
  /\ runner = "await"
  /\ failure # "none"
  /\ runner' = "failAll"
  /\ UNCHANGED <<interrupted, turn, open, fiber, durable>>

\* A tool fiber has failed: the others are not waited for.
AwaitFailure ==
  /\ runner = "await"
  /\ failure = "unstored"
  /\ runner' = "failAll"
  /\ UNCHANGED <<interrupted, turn, open, fiber, durable>>

\* A dismissed question, or an interrupt, halts the drain.
AwaitHalted ==
  /\ runner = "await"
  /\ failure = "rejected" \/ interrupted
  /\ runner' = "clear"
  /\ stream' = [stream EXCEPT !.ended = "halted"]
  /\ UNCHANGED <<interrupted, publisher, op, failure, open, fiber, durable>>

\* Mutation: the interrupted fibers are not waited for.
ClearedAtOnce ==
  /\ runner = "clear"
  /\ runner' = "failAll"
  /\ UNCHANGED <<interrupted, turn, open, fiber, durable>>

Cleared ==
  /\ runner = "clear"
  /\ open = {}
  /\ runner' = "failAll"
  /\ UNCHANGED <<interrupted, turn, open, fiber, durable>>

\* Mutation: settled calls are failed too.
FailKnown(c) ==
  /\ runner \in {"failHosted", "failAll", "failRest"}
  /\ c \in known /\ state[c] # "error"
  /\ MarkSettled(c)
  /\ Commit(c, "error")
  /\ UNCHANGED <<runner, interrupted, op, stream, failure, open, fiber>>

\* failUnsettledTools: hosted calls after an LLMError and after a stream that ended well,
\* all calls otherwise.
Fail(c) ==
  /\ runner \in {"failHosted", "failAll", "failRest"}
  /\ c \in Unsettled(runner # "failAll")
  /\ MarkSettled(c)
  /\ Commit(c, "error")
  /\ UNCHANGED <<runner, interrupted, op, stream, failure, open, fiber>>

Failed ==
  /\ runner \in {"failHosted", "failAll", "failRest"}
  /\ Unsettled(runner # "failAll") = {}
  /\ runner' = IF runner = "failHosted" THEN "await" ELSE "close"
  /\ UNCHANGED <<interrupted, turn, open, fiber, durable>>

\* The turn's scope is closed.  The drain goes on after local calls or with new input, and
\* ends otherwise.
Close ==
  /\ runner = "close"
  /\ open = {}
  /\ \/ stream.ended = "success" /\ runner' = "request" /\ UNCHANGED interrupted
     \/ /\ ~(stream.ended = "success" /\ stream.continues /\ ~stream.providerError)
        /\ runner' = "idle" /\ interrupted' = FALSE
  /\ UNCHANGED <<turn, open, fiber, durable>>

\* The process dies.
Crash ==
  /\ runner' = "idle"
  /\ interrupted' = FALSE
  /\ known' = {} /\ called' = {} /\ hosted' = {} /\ settled' = {}
  /\ op' = Nothing
  /\ stream' = Fresh
  /\ failure' = "none"
  /\ open' = {}
  /\ fiber' = [c \in Call |-> IF c \in open THEN "stopped" ELSE fiber[c]]
  /\ UNCHANGED durable
-----------------------------------------------------------------------------
Provider == \/ \E c \in Call : ToolInput(c) \/ ToolCall(c) \/ HostedResult(c)
            \/ ProviderError \/ StreamEnds

Tools == \E c \in Call : FiberReturns(c) \/ FiberFails(c) \/ FiberPublishes(c) \/ Stop(c)

Runner ==
  \/ Recovered \/ Request \/ StopDrain
  \/ Published \/ Fork \/ Refused \/ StreamInterrupted
  \/ AwaitEmpty \/ AwaitFailure \/ AwaitHalted \/ Cleared \/ Failed \/ Close
  \/ \E c \in Call : Recover(c) \/ Refuse(c) \/ Fail(c)

Next == StartDrain \/ Interrupt \/ Crash \/ Provider \/ Tools \/ Runner

Spec == Init /\ [][Next]_vars

\* The runner's fiber and the tool fibers are scheduled; nothing makes the provider send
\* anything or a tool return.
Fairness ==
  /\ WF_vars(Runner)
  /\ \A c \in Call : WF_vars(Stop(c)) /\ WF_vars(FiberPublishes(c))

FairSpec == Spec /\ Fairness
-----------------------------------------------------------------------------
Op == [call : Call, to : {"pending", "running", "completed", "error", "fork"}] \cup {Nothing}

\* Type invariant.
TypeOK ==
  /\ runner \in {"idle", "recover", "request", "stream", "failHosted", "await", "clear",
                 "failAll", "failRest", "close"}
  /\ interrupted \in BOOLEAN
  /\ known \subseteq Call /\ called \subseteq known
  /\ hosted \subseteq called /\ settled \subseteq known
  /\ op \in Op
  /\ stream \in [ended : {"no", "success", "llmError", "died", "halted"}, providerError : BOOLEAN,
                 continues : BOOLEAN, disabled : BOOLEAN, refusing : BOOLEAN]
  /\ failure \in {"none", "unstored", "rejected"}
  /\ fiber \in [Call -> {"none", "running", "ok", "fault", "unstored", "rejected", "stopped"}]
  /\ open \subseteq {c \in Call : fiber[c] \in {"running", "ok", "fault"}}
  /\ state \in [Call -> {"absent", "pending", "running", "completed", "error"}]
  /\ settlements \in [Call -> Nat]

\* A tool has side effects only after its call is durably recorded.
RecordedBeforeRun == \A c \in Call : fiber[c] = "running" => state[c] \notin {"absent", "pending"}

\* A call is settled by one event: its result, the failure of its turn, or the recovery of
\* a later drain, whatever is interrupted or dies in between.
SettledOnce == \A c \in Call : settlements[c] <= 1

\* A result is recorded as such, also when the drain is interrupted while the execution
\* ends; the turn's other results are lost when the output of one could not be stored.
ResultIsKept ==
  \A c \in Call : c \in known /\ fiber[c] = "ok" /\ c \notin open /\ failure # "unstored"
                    => state[c] = "completed"

\* Tool results are durable before the provider is called again: after a turn with tools
\* no call of it is still projected as running.  (A turn without tools may leave one.)
SettledBeforeRequest ==
  runner = "request" /\ ~stream.disabled => \A c \in Call : c \in known => state[c] # "running"

\* No tool of an earlier turn runs while the next one is assembled or when the drain ended.
ToolsStopped == runner \in {"idle", "recover", "request"} => open = {}

\* Dismissing a question ends the drain, unless a failure of another tool came first.
QuestionHalts ==
  [][runner = "close" /\ runner' = "request" /\ failure # "unstored"
       => \A c \in Call : c \in known => fiber[c] # "rejected"]_vars

\* An interrupted drain ends, though neither the provider nor a tool ever returns.
InterruptEnds == interrupted ~> runner = "idle"
=============================================================================

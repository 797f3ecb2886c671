--------------------------- MODULE ToolEventJournal ---------------------------
(***************************************************************************)
(* The journal of a turn's tool events: core/src/session/tool-journal.ts   *)
(* under the turn that owns it (session/runner/llm.ts).  State transitions *)
(* of calls are persisted at once, together with all that is buffered;     *)
(* progress is buffered until a timer, a full buffer or the end of the     *)
(* turn flushes it.  A flush takes the buffer out and waits for the        *)
(* database, where flushes of several fibers stand in line.                *)
(***************************************************************************)
EXTENDS Integers, Sequences, SequencesExt

CONSTANTS Call,               \* tool calls, each executed by a fiber of its own
          Stream,             \* the fiber that reads the provider's stream and ends the turn
          Timer, Drainer,     \* the flush timer; the finalizer of the journal's scope
          MemoryLimit,        \* journalMemoryLimit
          MaxEvent            \* bound: events appended

ASSUME Fibers == Stream # Timer /\ Stream # Drainer /\ Timer # Drainer
                 /\ {Stream, Timer, Drainer} \cap Call = {}
ASSUME Bounds == MemoryLimit \in Nat \ {0} /\ MaxEvent \in Nat

VARIABLES
  appended,  \* how many events have been appended; an event's number is its chunk
  pending,   \* the journal's buffer
  batch,     \* per fiber: what its flush has taken out
  line,      \* the fibers that wait for the database, in the order it serves them
  stored,    \* the durable events
  status,    \* per call: how far it has come
  live,      \* the calls whose fiber runs
  journal    \* open, or how far its drain has come

buffers == <<appended, pending, batch, line>>
journalVars == <<buffers, stored, status, live, journal>>

Fiber == Call \cup {Stream, Timer, Drainer}

Event(c, kind, n) == [call |-> c, kind |-> kind, chunks |-> <<n>>]
IsProgress(e) == e.kind = "progress"

JournalInit ==
  /\ appended = 0
  /\ pending = <<>>
  /\ batch = [f \in Fiber |-> <<>>]
  /\ line = <<>>
  /\ stored = <<>>
  /\ status = [c \in Call |-> "none"]
  /\ live = {}
  /\ journal = "open"
-----------------------------------------------------------------------------
(* The journal. *)

\* Mutation: progress of one call is merged across the events of others.
MergeAnyProgress(out, e) ==
  LET same == {i \in DOMAIN out : IsProgress(out[i]) /\ IsProgress(e) /\ out[i].call = e.call} IN
  IF same = {} THEN Append(out, e)
  ELSE LET i == CHOOSE i \in same : TRUE IN [out EXCEPT ![i].chunks = @ \o e.chunks]

\* coalesceProgress: consecutive progress of one call becomes one event.
Merge(out, e) ==
  IF out # <<>> /\ IsProgress(Last(out)) /\ IsProgress(e) /\ Last(out).call = e.call
  THEN Append(Front(out), [Last(out) EXCEPT !.chunks = @ \o e.chunks])
  ELSE Append(out, e)

Coalesce(events) ==
  LET merged[i \in 0 .. Len(events)] == IF i = 0 THEN <<>> ELSE Merge(merged[i - 1], events[i])
  IN  merged[Len(events)]

Busy(f) == batch[f] # <<>>

\* flush: the buffer is taken out, and the fiber joins the line.
Flush(f, buffer) ==
  /\ pending' = <<>>
  /\ batch' = [batch EXCEPT ![f] = Coalesce(buffer)]
  /\ line' = Append(line, f)

\* append: anything but progress, and progress that fills the buffer, flushes it.
AppendEvent(f, e) ==
  /\ appended < MaxEvent
  /\ appended' = appended + 1
  /\ IF ~IsProgress(e) \/ Len(pending) + 1 >= MemoryLimit
     THEN Flush(f, Append(pending, e))
     ELSE pending' = Append(pending, e) /\ UNCHANGED <<batch, line>>

\* Mutation: the timer fires once.
TimerFlushOnce ==
  /\ journal = "open"
  /\ stored = <<>>
  /\ ~Busy(Timer)
  /\ pending # <<>>
  /\ Flush(Timer, pending)
  /\ UNCHANGED <<appended, stored, status, live, journal>>

\* The timer flushes again and again.
TimerFlush ==
  /\ journal = "open"
  /\ ~Busy(Timer)
  /\ pending # <<>>
  /\ Flush(Timer, pending)
  /\ UNCHANGED <<appended, stored, status, live, journal>>

\* A fiber leaves the line, and its batch is gone.
Abandon(f) ==
  /\ batch' = [batch EXCEPT ![f] = <<>>]
  /\ line' = RemoveFirst(line, f)
  /\ UNCHANGED <<appended, pending>>

\* drain, when the turn's scope closes: the timer is interrupted, wherever it is.
StopTimer ==
  /\ journal = "open"
  /\ ~Busy(Stream)
  /\ journal' = "stopped"
  /\ Abandon(Timer)
  /\ UNCHANGED <<stored, status, live>>

\* Then what is buffered is flushed.
DrainFlush ==
  /\ journal = "stopped"
  /\ IF pending = <<>>
     THEN journal' = "drained" /\ UNCHANGED <<pending, batch, line>>
     ELSE journal' = "draining" /\ Flush(Drainer, pending)
  /\ UNCHANGED <<appended, stored, status, live>>
-----------------------------------------------------------------------------
(* The turn. *)

\* Transitions are appended under one permit, held until they are stored.
PermitFree == \A f \in Fiber : Busy(f) => IsProgress(Last(batch[f]))

\* The provider calls a tool.
ToolCall(c) ==
  /\ status[c] = "none"
  /\ journal = "open"
  /\ PermitFree
  /\ AppendEvent(Stream, Event(c, "called", appended + 1))
  /\ status' = [status EXCEPT ![c] = "calling"]
  /\ UNCHANGED <<stored, live, journal>>

\* The tool reports progress, and waits when that flushes.
Progress(c) ==
  /\ c \in live
  /\ ~Busy(c)
  /\ AppendEvent(c, Event(c, "progress", appended + 1))
  /\ UNCHANGED <<stored, status, live, journal>>

\* Its fiber publishes its result.
Settle(c) ==
  /\ c \in live
  /\ status[c] = "running"
  /\ ~Busy(c) /\ PermitFree
  /\ AppendEvent(c, Event(c, "settled", appended + 1))
  /\ status' = [status EXCEPT ![c] = "settling"]
  /\ UNCHANGED <<stored, live, journal>>

\* The end of the turn fails a call that has no result: its fiber died, or still runs
\* while the fiber of another one died, be it at the settlement of that one.
Fail(c) ==
  /\ journal = "open"
  /\ \/ status[c] = "failed"
     \/ status[c] = "running" /\ \E other \in Call : status[other] \in {"failed", "unsettled"}
  /\ ~Busy(Stream) /\ PermitFree
  /\ AppendEvent(Stream, Event(c, "settled", appended + 1))
  /\ status' = [status EXCEPT ![c] = "settling"]
  /\ UNCHANGED <<stored, live, journal>>

\* The call whose transition f is publishing.
Published(f) == {c \in Call : Busy(f) /\ Last(batch[f]).call = c /\ ~IsProgress(Last(batch[f]))}

\* Where f's calls are when its append returns, and when it dies.
Returned(f) ==
  [c \in Call |-> IF c \notin Published(f) THEN status[c]
                  ELSE IF status[c] = "calling" THEN "running" ELSE "settled"]
Died(f) ==
  [c \in Call |-> IF c \in Published(f) /\ status[c] = "settling" THEN "unsettled"
                  ELSE IF c \in Published(f) \/ (f = c /\ status[c] = "running") THEN "failed"
                  ELSE status[c]]

\* The database serves the first in line, in one transaction of publishBatch.
Commit ==
  /\ line # <<>>
  /\ LET f == Head(line) IN
       /\ stored' = stored \o batch[f]
       /\ batch' = [batch EXCEPT ![f] = <<>>]
       /\ status' = Returned(f)
       /\ live' = IF f = Stream THEN live \cup {c \in Published(f) : status[c] = "calling"}
                  ELSE live \ Published(f)
       /\ journal' = IF f = Drainer THEN "drained" ELSE journal
  /\ line' = Tail(line)
  /\ UNCHANGED <<appended, pending>>

\* The transaction fails, and with it the fiber, but for the timer.
PersistFails ==
  /\ line # <<>>
  /\ LET f == Head(line) IN
       /\ Abandon(f)
       /\ status' = Died(f)
       /\ live' = live \ {f}
       /\ journal' = IF f = Drainer THEN "drained" ELSE journal
  /\ UNCHANGED stored

\* A tool is interrupted, but not while its result is published; the stream's fiber is,
\* while it publishes a call.
Interrupt(f) ==
  /\ \/ f \in live /\ Published(f) = {}
     \/ f = Stream /\ \E c \in Published(f) : status[c] = "calling"
  /\ Abandon(f)
  /\ status' = Died(f)
  /\ live' = live \ {f}
  /\ UNCHANGED <<stored, journal>>

JournalNext ==
  \/ \E c \in Call : ToolCall(c) \/ Progress(c) \/ Settle(c) \/ Fail(c)
  \/ \E f \in Fiber : Interrupt(f)
  \/ TimerFlush \/ StopTimer \/ DrainFlush \/ Commit \/ PersistFails

JournalSpec == JournalInit /\ [][JournalNext]_journalVars

\* The timer's fiber runs, and the database serves its line.
JournalFairSpec == JournalSpec /\ WF_journalVars(TimerFlush) /\ WF_journalVars(DrainFlush) /\ WF_journalVars(Commit)
-----------------------------------------------------------------------------
Events == [call : Call, kind : {"called", "progress", "settled"}, chunks : Seq(1..MaxEvent)]

\* Type invariant.
JournalTypeOK ==
  /\ appended \in 0..MaxEvent
  /\ pending \in Seq(Events) /\ stored \in Seq(Events)
  /\ batch \in [Fiber -> Seq(Events)]
  /\ line \in Seq(Fiber)
  /\ status \in [Call -> {"none", "calling", "running", "settling", "settled", "failed", "unsettled"}]
  /\ live \subseteq Call
  /\ journal \in {"open", "stopped", "draining", "drained"}

\* What is stored is in the order of its appending, merged progress included: no timer,
\* full buffer, failing flush or interrupted fiber lets the output of a call come after
\* its result, or after later output.
StoredInOrder ==
  LET chunks == FlattenSeq([i \in DOMAIN stored |-> stored[i].chunks]) IN
  \A i, j \in DOMAIN chunks : i < j => chunks[i] < chunks[j]

\* A tool runs only with its call stored, and a call counts as settled only with its
\* settlement stored, whoever flushes what in between.
TransitionsAreStored ==
  \A c \in Call :
    /\ c \in live => \E e \in ToSet(stored) : e.call = c /\ e.kind = "called"
    /\ status[c] = "settled" => \E e \in ToSet(stored) : e.call = c /\ e.kind = "settled"

\* Progress does not stay in the buffer as long as the turn lasts, whatever flushes fail.
ProgressIsFlushed ==
  \A n \in 1..MaxEvent :
    (\E e \in ToSet(pending) : n \in ToSet(e.chunks))
      ~> journal # "open" \/ \A e \in ToSet(pending) : n \notin ToSet(e.chunks)
=============================================================================

----------------------------- MODULE ContextEpoch -----------------------------
(***************************************************************************)
(* The privileged context of one V2 session: core/src/system-context,      *)
(* session/context-epoch.ts and the part of a turn that uses them          *)
(* (session/runner/llm.ts).  Sources are observed, compared with what the  *)
(* model was told before, and told as a baseline or as an update in the    *)
(* history.  The epoch row stores the baseline, the sequence it was taken  *)
(* at and a snapshot of everything told.  A move or a committed revert     *)
(* deletes the row while a drain may be anywhere between reading it and    *)
(* writing it; a compaction makes the next attempt replace the baseline.   *)
(***************************************************************************)
EXTENDS Integers, Sequences

CONSTANTS Key,          \* context sources
          Removable,    \* the sources that can tell their removal
          Value,        \* what a source can be observed as
          Legacy,       \* values written by an earlier codec, unreadable since
          Location,
          Unavailable,  \* an observation that failed
          Gone,         \* the source is not part of the context
          Same,         \* an update does not mention the source
          None,
          MaxLog        \* bound: no event is published beyond this sequence

ASSUME KeysAreRemovable == Removable \subseteq Key
ASSUME LegacyValues == Legacy \subseteq Value
ASSUME DistinctMarks ==
  /\ Unavailable \notin Value /\ Gone \notin Value /\ Same \notin Value
  /\ Unavailable # Gone /\ Same # Gone /\ Same # Unavailable
ASSUME MaxLogIsNat == MaxLog \in Nat

VARIABLES
  log,       \* the session's durable events by sequence, with the message rows they are
  location,  \* the location of the session row
  epoch,     \* the row of session_context_epoch, or None
  upgraded,  \* the running program writes and reads the new codec
  pc,        \* the drain's point of control
  at,        \* the location whose services the drain runs with
  todo,      \* the concurrent reads of prepare that are outstanding
  seen,      \* what the attempt observed
  stored,    \* the epoch row the attempt read, or None
  summary,   \* the sequence of the latest compaction the attempt read, 0 for none
  told,      \* what the request tells: the baseline, in the end with its updates
  cut        \* the sequence its baseline counts from

drain == <<at, todo, seen, stored, summary, told, cut>>
durable == <<log, location, epoch>>
vars == <<durable, upgraded, pc, drain>>

Told == [Key -> Value \cup {Gone}]
Epoch == [baseline : Told, snapshot : Told, seq : Nat]
NoEpoch == [baseline |-> None, snapshot |-> None, seq |-> 0]
Nothing == [k \in Key |-> Gone]
Plain(kind) == [kind |-> kind, update |-> [k \in Key |-> Same]]
System(update) == [kind |-> "system", update |-> update]
-----------------------------------------------------------------------------
(* SystemContext: initialize, reconcile and replace over one observation. *)

\* The codec that stored a value decides whether the running one can read it.
Incompatible(old, new) == old \in Legacy /\ new \notin Legacy

\* What the running program can observe of its sources.
Observation == [Key -> (IF upgraded THEN Value \ Legacy ELSE Legacy) \cup {Unavailable, Gone}]

\* initialize refuses an observation with an unavailable source.
Complete(obs) == \A k \in Key : obs[k] # Unavailable

\* initializeObservation: what a new baseline tells.
Generation(obs) == [k \in Key |-> IF obs[k] = Unavailable THEN Gone ELSE obs[k]]

\* reconcile cannot tell the change as an update.
NeedsReplacement(obs, prev) ==
  \E k \in Key :
    \/ obs[k] \in Value /\ prev[k] \in Value /\ Incompatible(prev[k], obs[k])
    \/ obs[k] = Gone /\ prev[k] # Gone /\ k \notin Removable

\* replaceObservation waits while something already told cannot be observed.
Blocked(obs, prev) == \E k \in Key : obs[k] = Unavailable /\ prev[k] # Gone

\* reconcileObservation: the text of the update, and the snapshot after it.
Update(obs, prev) ==
  [k \in Key |-> IF obs[k] = Unavailable \/ obs[k] = prev[k] THEN Same ELSE obs[k]]
\* Mutation: an unavailable source is forgotten.
Forgotten(obs, prev) == Generation(obs)
Reconciled(obs, prev) == [k \in Key |-> IF obs[k] = Unavailable THEN prev[k] ELSE obs[k]]
-----------------------------------------------------------------------------
Init ==
  /\ log = <<>>
  /\ location \in Location
  /\ epoch = NoEpoch
  /\ upgraded = FALSE
  /\ pc = "off"
  /\ at = location
  /\ todo = {}
  /\ seen = Nothing
  /\ stored = NoEpoch
  /\ summary = 0
  /\ told = Nothing
  /\ cut = 0

\* The history the runner reads keeps every system row after the baseline, those before
\* the latest compaction included.
Mentions(k, from) == {s \in 1..Len(log) : s > from /\ log[s].kind = "system" /\ log[s].update[k] # Same}
TellsAfter(baseline, from) ==
  [k \in Key |->
     IF Mentions(k, from) = {} THEN baseline[k]
     ELSE log[CHOOSE s \in Mentions(k, from) : \A t \in Mentions(k, from) : t <= s].update[k]]

LatestCompaction ==
  LET rows == {s \in 1..Len(log) : log[s].kind = "compaction"} IN
  IF rows = {} THEN 0 ELSE CHOOSE s \in rows : \A t \in rows : t <= s

\* Where a drain keeps nothing: a failure, a defect, an interrupt and a crash end it so.
Off ==
  /\ pc' = "off"
  /\ todo' = {} /\ seen' = Nothing /\ stored' = NoEpoch /\ summary' = 0 /\ told' = Nothing /\ cut' = 0
  /\ UNCHANGED at
-----------------------------------------------------------------------------
(* An attempt of a turn. *)

\* The drain is given the services of the location it looked up.
Begin ==
  /\ pc = "off"
  /\ pc' = "fence"
  /\ at' = location
  /\ UNCHANGED <<durable, upgraded, todo, seen, stored, summary, told, cut>>

\* The session is read once per attempt; elsewhere by now, the drain interrupts itself.
Fence ==
  /\ pc = "fence"
  /\ IF location = at
     THEN /\ pc' = "exists"
          /\ UNCHANGED drain
     ELSE Off
  /\ UNCHANGED <<durable, upgraded>>

\* initialize: does the session have an epoch?
Exists ==
  /\ pc = "exists"
  /\ pc' = IF epoch = NoEpoch THEN "observe" ELSE "promote"
  /\ UNCHANGED <<durable, upgraded, drain>>

\* It has none: the complete context is observed, or the drain fails.
Observe ==
  /\ pc = "observe"
  /\ \E obs \in Observation :
       IF Complete(obs)
       THEN /\ seen' = obs
            /\ pc' = "sequence"
            /\ UNCHANGED <<at, todo, stored, summary, told, cut>>
       ELSE Off
  /\ UNCHANGED <<durable, upgraded>>

\* insert reads the latest sequence, then stores the row, in two queries.
ReadSequence ==
  /\ pc \in {"sequence", "prepareSequence"}
  /\ cut' = Len(log)
  /\ pc' = IF pc = "sequence" THEN "insert" ELSE "prepareInsert"
  /\ UNCHANGED <<durable, upgraded, at, todo, seen, stored, summary, told>>

\* The primary key refuses a second row: the drain dies.
Insert ==
  /\ pc \in {"insert", "prepareInsert"}
  /\ IF epoch = NoEpoch
     THEN /\ epoch' = [baseline |-> Generation(seen), snapshot |-> Generation(seen), seq |-> cut]
          /\ told' = Generation(seen)
          /\ pc' = IF pc = "insert" THEN "promoteFirst" ELSE "history"
          /\ UNCHANGED <<at, todo, seen, stored, summary, cut>>
     ELSE /\ Off
          /\ UNCHANGED epoch
  /\ UNCHANGED <<log, location, upgraded>>

\* Eligible input becomes visible, row by row.  An attempt that initialized the epoch
\* goes on with that baseline, any other one prepares it.
Promote ==
  /\ pc \in {"promote", "promoteFirst"}
  /\ Len(log) < MaxLog
  /\ log' = Append(log, Plain("user"))
  /\ UNCHANGED <<location, epoch, upgraded, pc, drain>>

Promoted ==
  /\ pc \in {"promote", "promoteFirst"}
  /\ IF pc = "promote"
     THEN pc' = "prepare" /\ todo' = {"find", "compaction"}
     ELSE pc' = "history" /\ UNCHANGED todo
  /\ UNCHANGED <<durable, upgraded, at, seen, stored, summary, told, cut>>

\* prepare reads the row and the latest compaction at once, in either order, and then
\* observes the sources.
PrepareFind ==
  /\ pc = "prepare" /\ "find" \in todo
  /\ stored' = epoch
  /\ todo' = todo \ {"find"}
  /\ UNCHANGED <<durable, upgraded, pc, at, seen, summary, told, cut>>

PrepareCompaction ==
  /\ pc = "prepare" /\ "compaction" \in todo
  /\ summary' = LatestCompaction
  /\ todo' = todo \ {"compaction"}
  /\ UNCHANGED <<durable, upgraded, pc, at, seen, stored, told, cut>>

PrepareObserve ==
  /\ pc = "prepare" /\ todo = {}
  /\ seen' \in Observation
  /\ pc' = "decide"
  /\ UNCHANGED <<durable, upgraded, at, todo, stored, summary, told, cut>>

\* No row any more: initialize as above, after the promotion.
DecideInsert ==
  /\ pc = "decide"
  /\ stored = NoEpoch
  /\ IF Complete(seen)
     THEN /\ pc' = "prepareSequence"
          /\ UNCHANGED drain
     ELSE Off
  /\ UNCHANGED <<durable, upgraded>>

\* The stored baseline stays: nothing changed, or its replacement has to wait.
Keeps ==
  /\ stored # NoEpoch
  /\ IF summary > stored.seq \/ NeedsReplacement(seen, stored.snapshot)
     THEN Blocked(seen, stored.snapshot)
     ELSE Update(seen, stored.snapshot) = [k \in Key |-> Same]

DecideKeep ==
  /\ pc = "decide"
  /\ Keeps
  /\ told' = stored.baseline
  /\ cut' = stored.seq
  /\ pc' = "history"
  /\ UNCHANGED <<durable, upgraded, at, todo, seen, stored, summary>>

\* A compaction after the baseline, or a change that cannot be told: a new baseline,
\* counted from the compaction or from the latest sequence.
DecideReplace ==
  /\ pc = "decide"
  /\ stored # NoEpoch
  /\ ~Blocked(seen, stored.snapshot)
  /\ \/ /\ summary > stored.seq
        /\ cut' = summary
     \/ /\ summary <= stored.seq
        /\ NeedsReplacement(seen, stored.snapshot)
        /\ cut' = Len(log)
  /\ pc' = "replace"
  /\ UNCHANGED <<durable, upgraded, at, todo, seen, stored, summary, told>>

\* The row is updated in place; when it is gone the drain dies.
Replace ==
  /\ pc = "replace"
  /\ IF epoch = NoEpoch
     THEN Off /\ UNCHANGED epoch
     ELSE /\ epoch' = [baseline |-> Generation(seen), snapshot |-> Generation(seen), seq |-> cut]
          /\ told' = Generation(seen)
          /\ pc' = "history"
          /\ UNCHANGED <<at, todo, seen, stored, summary, cut>>
  /\ UNCHANGED <<log, location, upgraded>>

\* Mutation: the update becomes part of the baseline, too.
AdvanceBaseline ==
  /\ pc = "decide"
  /\ stored # NoEpoch
  /\ summary <= stored.seq
  /\ ~NeedsReplacement(seen, stored.snapshot)
  /\ Update(seen, stored.snapshot) # [k \in Key |-> Same]
  /\ epoch # NoEpoch
  /\ Len(log) < MaxLog
  /\ log' = Append(log, System(Update(seen, stored.snapshot)))
  /\ epoch' = [epoch EXCEPT !.snapshot = Reconciled(seen, stored.snapshot),
                           !.baseline = Reconciled(seen, stored.snapshot)]
  /\ told' = stored.baseline
  /\ cut' = stored.seq
  /\ pc' = "history"
  /\ UNCHANGED <<location, upgraded, at, todo, seen, stored, summary>>

\* ContextUpdated commits with the advance of the snapshot, or not at all.
Advance ==
  /\ pc = "decide"
  /\ stored # NoEpoch
  /\ summary <= stored.seq
  /\ ~NeedsReplacement(seen, stored.snapshot)
  /\ Update(seen, stored.snapshot) # [k \in Key |-> Same]
  /\ IF epoch = NoEpoch
     THEN Off /\ UNCHANGED <<log, epoch>>
     ELSE /\ Len(log) < MaxLog
          /\ log' = Append(log, System(Update(seen, stored.snapshot)))
          /\ epoch' = [epoch EXCEPT !.snapshot = Reconciled(seen, stored.snapshot)]
          /\ told' = stored.baseline
          /\ cut' = stored.seq
          /\ pc' = "history"
          /\ UNCHANGED <<at, todo, seen, stored, summary>>
  /\ UNCHANGED <<location, upgraded>>

\* Mutation: the compaction hides the system rows before it.
ReadTrimmedHistory ==
  /\ pc = "history"
  /\ told' = TellsAfter(told, IF LatestCompaction > cut THEN LatestCompaction ELSE cut)
  /\ pc' = "call"
  /\ UNCHANGED <<durable, upgraded, at, todo, seen, stored, summary, cut>>

\* entriesForRunner: what the request tells is the baseline and the rows after it.
ReadHistory ==
  /\ pc = "history"
  /\ told' = TellsAfter(told, cut)
  /\ pc' = "call"
  /\ UNCHANGED <<durable, upgraded, at, todo, seen, stored, summary, cut>>

\* The request is too large, or the provider finds it so: a summary, and another attempt.
Compact ==
  /\ pc = "call"
  /\ Len(log) < MaxLog
  /\ log' = Append(log, Plain("compaction"))
  /\ pc' = "fence"
  /\ todo' = {} /\ seen' = Nothing /\ stored' = NoEpoch /\ summary' = 0 /\ told' = Nothing /\ cut' = 0
  /\ UNCHANGED <<location, epoch, upgraded, at>>

\* The turn ends; the next one is another attempt of this drain.
Answered ==
  /\ pc = "call"
  /\ pc' = "fence"
  /\ todo' = {} /\ seen' = Nothing /\ stored' = NoEpoch /\ summary' = 0 /\ told' = Nothing /\ cut' = 0
  /\ UNCHANGED <<durable, upgraded, at>>

\* The drain ends: done, failed, interrupted or dead.
End ==
  /\ pc # "off"
  /\ Off
  /\ UNCHANGED <<durable, upgraded>>
-----------------------------------------------------------------------------
(* Everybody else. *)

\* moveSession publishes Moved; its projection resets the epoch.
Move ==
  /\ Len(log) < MaxLog
  /\ location' \in Location \ {location}
  /\ log' = Append(log, Plain("moved"))
  /\ epoch' = NoEpoch
  /\ UNCHANGED <<upgraded, pc, drain>>

\* A committed revert deletes the rows after its boundary and resets the epoch.
Revert ==
  /\ Len(log) < MaxLog
  /\ \E b \in 1..Len(log) :
       /\ log[b].kind = "user"
       /\ log' = Append([s \in 1..Len(log) |-> IF s > b THEN Plain("deleted") ELSE log[s]],
                        Plain("reverted"))
  /\ epoch' = NoEpoch
  /\ UNCHANGED <<location, upgraded, pc, drain>>

\* The program restarts in a later version.
Upgrade ==
  /\ pc = "off"
  /\ ~upgraded
  /\ upgraded' = TRUE
  /\ UNCHANGED <<durable, pc, drain>>

Next ==
  \/ Begin \/ Fence \/ Exists \/ Observe \/ ReadSequence \/ Insert \/ Promote \/ Promoted
  \/ PrepareObserve \/ PrepareFind \/ PrepareCompaction
  \/ DecideInsert \/ DecideKeep \/ DecideReplace \/ Replace \/ Advance
  \/ ReadHistory \/ Compact \/ Answered \/ End
  \/ Move \/ Revert \/ Upgrade

Spec == Init /\ [][Next]_vars
-----------------------------------------------------------------------------
Entries == [kind : {"user", "system", "compaction", "moved", "reverted", "deleted"},
            update : [Key -> Value \cup {Gone, Same}]]

\* Type invariant.
TypeOK ==
  /\ log \in Seq(Entries)
  /\ location \in Location
  /\ epoch \in Epoch \cup {NoEpoch}
  /\ upgraded \in BOOLEAN
  /\ pc \in {"off", "fence", "exists", "observe", "sequence", "insert", "promote", "promoteFirst",
             "prepare", "decide", "prepareSequence", "prepareInsert", "replace", "history", "call"}
  /\ at \in Location
  /\ todo \in SUBSET {"find", "compaction"}
  /\ seen \in [Key -> Value \cup {Unavailable, Gone}]
  /\ stored \in Epoch \cup {NoEpoch}
  /\ summary \in Nat
  /\ told \in Told
  /\ cut \in Nat

\* The epoch's snapshot is what the model has been told: the baseline, changed by the
\* system messages after it, whatever moves, reverts, compactions, unavailable sources
\* and ends of drains come between the reads and the writes of an attempt.
ToldIsAdmitted == epoch # NoEpoch => TellsAfter(epoch.baseline, epoch.seq) = epoch.snapshot

\* A request tells what its attempt observed, and of a source it could not observe what
\* was told before.  A change is held back only by a replacement that has to wait, and
\* lost to the request only when a move or a revert resets the epoch meanwhile.
RequestTellsWhatWasSeen ==
  pc = "call" /\ epoch # NoEpoch /\ stored # NoEpoch =>
    \/ Keeps /\ told = stored.snapshot
    \/ \A k \in Key : told[k] = IF seen[k] = Unavailable THEN stored.snapshot[k] ELSE seen[k]

\* A stored baseline, which the provider caches, is only exchanged after a compaction
\* or for a change that no update can tell: neither a stale read of the row nor an
\* observation that failed replaces it.
BaselineIsKept ==
  [][epoch # NoEpoch /\ epoch' # NoEpoch /\ epoch'.baseline # epoch.baseline
       => /\ LatestCompaction > epoch.seq \/ NeedsReplacement(seen, epoch.snapshot)
          /\ ~Blocked(seen, epoch.snapshot)]_vars
=============================================================================

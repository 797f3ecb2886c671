----------------------------- MODULE SessionSync -----------------------------
(***************************************************************************)
(* Replication of one session's durable log between the host process and   *)
(* remote workspaces, and the warp that moves the session from one to      *)
(* another: shob/src/control-plane/workspace.ts (syncHistory,              *)
(* syncWorkspaceLoop, sessionWarp), the handlers of /sync/history,         *)
(* /sync/replay and /sync/steal, and replay, replayAll and claim of        *)
(* core/src/event.ts.                                                      *)
(*                                                                         *)
(* Each node has a database of its own; a transaction is one step.  An     *)
(* event is identified by its position and the node that published it.     *)
(* The host's copy of the session row, a projection of its log, says where *)
(* the session is located, and so where its drains run.                    *)
(***************************************************************************)
EXTENDS Integers, Sequences, FiniteSets, SequencesExt

CONSTANTS Space,    \* remote workspaces
          Host,     \* the process the user's clients talk to
          Creator,  \* the node the session was created on
          None,     \* no owner, no move
          MaxLog    \* bound: a node publishes no event beyond this position

Node == Space \cup {Host}

ASSUME CreatorIsNode == Creator \in Node
ASSUME DistinctNames == Host \notin Space /\ None \notin Node
ASSUME MaxLogIsNat == MaxLog \in Nat

VARIABLES
  log,     \* Node -> its events, in order
  owner,   \* Node -> owner_id of the session's row in event_sequence, or None
  busy,    \* Node -> a drain of the session runs here
  unsent,  \* Space -> positions committed there and not yet notified
  loop,    \* Space -> the host's sync loop for it
  wire,    \* Space -> positions on the live connection, oldest first
  behind,  \* history: Space -> an event was dropped or ignored on this connection
  warp     \* the warp in progress, or NoWarp

replicas == <<log, owner>>
links == <<unsent, loop, wire, behind>>
syncVars == <<log, owner, busy, links, warp>>

\* `to` is the workspace a session.created or session.updated event names.
Event(by, to) == [by |-> by, to |-> to]
Positions(l) == 1 .. Len(l)

\* Where a log says the session is: its last move.
LocationOf(l) == l[CHOOSE i \in Positions(l) :
                     l[i].to # None /\ \A j \in Positions(l) : j > i => l[j].to = None].to

\* Where the host routes requests for the session to.
Location == IF log[Host] = <<>> THEN Creator ELSE LocationOf(log[Host])

\* The pages of a history that are still to be replayed.
Page(pc, next, last) == [pc |-> pc, next |-> next, last |-> last]
Off == [pc |-> "off"]
NoWarp == [pc |-> "none"]

SyncInit ==
  /\ log = [n \in Node |-> IF n = Creator THEN <<Event(Creator, Creator)>> ELSE <<>>]
  /\ owner = [n \in Node |-> None]
  /\ busy = [n \in Node |-> FALSE]
  /\ unsent = [w \in Space |-> {}]
  /\ loop = [w \in Space |-> Off]
  /\ wire = [w \in Space |-> <<>>]
  /\ behind = [w \in Space |-> FALSE]
  /\ warp = NoWarp
-----------------------------------------------------------------------------
(* Publishing: no owner is checked. *)

\* At most MaxLog events, and two fibers of a node between a commit and its notification.
Publish(n, to) ==
  /\ Len(log[n]) < MaxLog
  /\ log' = [log EXCEPT ![n] = Append(@, Event(n, to))]
  /\ IF n = Host THEN UNCHANGED unsent
     ELSE /\ Cardinality(unsent[n]) < 2
          /\ unsent' = [unsent EXCEPT ![n] = @ \cup {Len(log'[n])}]
  /\ UNCHANGED owner

\* A prompt is routed to the session's location, where a drain begins.
StartDrain(n) ==
  /\ n = Location
  /\ log[n] # <<>>
  /\ ~busy[n]
  /\ busy' = [busy EXCEPT ![n] = TRUE]
  /\ UNCHANGED <<replicas, links, warp>>

EndDrain(n) ==
  /\ busy[n]
  /\ busy' = [busy EXCEPT ![n] = FALSE]
  /\ UNCHANGED <<replicas, links, warp>>

\* The drain publishes an event, whatever became of the session meanwhile.
Write(n) ==
  /\ busy[n]
  /\ Publish(n, None)
  /\ UNCHANGED <<busy, loop, wire, behind, warp>>

\* Listeners are notified after the commit, outside it: concurrent publishers may be
\* overtaken.  Without a connection nobody listens.
Notify(w) ==
  /\ \E i \in unsent[w] :
       /\ unsent' = [unsent EXCEPT ![w] = @ \ {i}]
       /\ wire' = [wire EXCEPT ![w] = IF loop[w].pc \in {"asking", "history", "live"} THEN Append(@, i) ELSE @]
  /\ UNCHANGED <<replicas, busy, loop, behind, warp>>
-----------------------------------------------------------------------------
(* Replay at node n of the event e with position i, on behalf of owner o. *)

\* Mutation: the owner is not looked at.
OutcomeUnowned(n, i, e, o, strict) ==
  IF i <= Len(log[n]) THEN IF log[n][i] = e THEN "known" ELSE "diverged"
  ELSE IF i > Len(log[n]) + 1 THEN "gap"
  ELSE "new"

\* Mutation: gaps are accepted.
OutcomeGapless(n, i, e, o, strict) ==
  IF strict /\ owner[n] \notin {None, o} THEN "mismatch"
  ELSE IF i <= Len(log[n]) THEN IF log[n][i] = e THEN "known" ELSE "diverged"
  ELSE IF owner[n] \notin {None, o} THEN "ignored"
  ELSE "new"

\* The checks in their order, each of them an early return.
Outcome(n, i, e, o, strict) ==
  IF strict /\ owner[n] \notin {None, o} THEN "mismatch"
  ELSE IF i <= Len(log[n]) THEN IF log[n][i] = e THEN "known" ELSE "diverged"
  ELSE IF owner[n] \notin {None, o} THEN "ignored"
  ELSE IF i > Len(log[n]) + 1 THEN "gap"
  ELSE "new"

Dies(outcome) == outcome \in {"mismatch", "diverged", "gap"}
Misses(outcome) == outcome \notin {"new", "known"}

\* The transaction: an unowned row becomes o's when an event is stored or recognised.
Replay(n, e, o, outcome) ==
  /\ log' = IF outcome = "new" THEN [log EXCEPT ![n] = Append(@, e)] ELSE log
  /\ owner' = IF outcome \in {"new", "known"} /\ owner[n] = None
              THEN [owner EXCEPT ![n] = o] ELSE owner
-----------------------------------------------------------------------------
(* The host's sync loop for workspace w. *)

\* startSync, when somebody calls it: of a loop that ended, or was not yet started.
StartSync(w) ==
  /\ loop[w].pc = "dead"
  /\ loop' = [loop EXCEPT ![w] = Off]
  /\ UNCHANGED <<replicas, busy, unsent, wire, behind, warp>>

\* Mutation: the host asks for what follows its successor.
AskedAfterNext(w) == IF Location = w THEN Len(log[Host]) + 1 ELSE 0

\* syncHistory names its own latest sequence of the sessions located at w; of any
\* other session the whole log comes back.
AskedAfter(w) == IF Location = w THEN Len(log[Host]) ELSE 0

\* The live connection is opened, then the history is asked for.
Connect(w) ==
  /\ loop[w].pc = "off"
  /\ wire' = [wire EXCEPT ![w] = <<>>]
  /\ behind' = [behind EXCEPT ![w] = FALSE]
  /\ loop' = [loop EXCEPT ![w] = Page("asking", AskedAfter(w) + 1, 0)]
  /\ UNCHANGED <<replicas, busy, unsent, warp>>

\* /sync/history answers with the log from there.
FetchHistory(w) ==
  /\ loop[w].pc = "asking"
  /\ loop' = [loop EXCEPT ![w].pc = "history", ![w].last = Len(log[w])]
  /\ UNCHANGED <<replicas, busy, unsent, wire, behind, warp>>

\* An event of the history that cannot be replayed is a defect: the loop dies.
ReplayHistory(w) ==
  /\ loop[w].pc = "history"
  /\ loop[w].next <= loop[w].last
  /\ LET i == loop[w].next
         outcome == Outcome(Host, i, log[w][i], w, FALSE) IN
     /\ Replay(Host, log[w][i], w, outcome)
     /\ behind' = [behind EXCEPT ![w] = @ \/ Misses(outcome)]
     /\ IF Dies(outcome)
        THEN /\ loop' = [loop EXCEPT ![w] = [pc |-> "dead"]]
             /\ wire' = [wire EXCEPT ![w] = <<>>]
        ELSE /\ loop' = [loop EXCEPT ![w].next = i + 1]
             /\ UNCHANGED wire
  /\ UNCHANGED <<busy, unsent, warp>>

GoLive(w) ==
  /\ loop[w].pc = "history"
  /\ loop[w].next > loop[w].last
  /\ loop' = [loop EXCEPT ![w] = [pc |-> "live"]]
  /\ UNCHANGED <<replicas, busy, unsent, wire, behind, warp>>

\* A live event that cannot be replayed is logged and dropped.
ReplayLive(w) ==
  /\ loop[w].pc = "live"
  /\ wire[w] # <<>>
  /\ LET i == Head(wire[w])
         outcome == Outcome(Host, i, log[w][i], w, FALSE) IN
     /\ Replay(Host, log[w][i], w, outcome)
     /\ behind' = [behind EXCEPT ![w] = @ \/ Misses(outcome)]
  /\ wire' = [wire EXCEPT ![w] = Tail(@)]
  /\ UNCHANGED <<busy, unsent, loop, warp>>

\* The history request fails, or the stream is closed, and is lost with what is on it:
\* the loop tries again.
Disconnect(w) ==
  /\ loop[w].pc \in {"asking", "live"}
  /\ loop' = [loop EXCEPT ![w] = Off]
  /\ wire' = [wire EXCEPT ![w] = <<>>]
  /\ UNCHANGED <<replicas, busy, unsent, behind, warp>>

\* Reading the stream fails: outside of what the loop retries, this ends it.
StreamFails(w) ==
  /\ loop[w].pc = "live"
  /\ loop' = [loop EXCEPT ![w] = [pc |-> "dead"]]
  /\ wire' = [wire EXCEPT ![w] = <<>>]
  /\ UNCHANGED <<replicas, busy, unsent, behind, warp>>
-----------------------------------------------------------------------------
(* sessionWarp: one at a time.  Every step after the first may fail. *)

WarpBegin(target) ==
  /\ warp = NoWarp
  /\ log[Host] # <<>>
  /\ warp' = [pc     |-> IF Location = Host THEN "read" ELSE "sourceSync",
              from   |-> Location, target |-> target, next |-> 1, last |-> 0]
  /\ UNCHANGED <<replicas, busy, links>>

\* The final sync of the source; an HTTP failure is logged and the warp goes on.
WarpSourceSync ==
  /\ warp.pc = "sourceSync"
  /\ \/ warp' = [warp EXCEPT !.pc = "sourceReplay", !.next = AskedAfter(warp.from) + 1,
                             !.last = Len(log[warp.from])]
     \/ warp' = [warp EXCEPT !.pc = "claim"]
  /\ UNCHANGED <<replicas, busy, links>>

\* A defect is not caught, and ends the warp.
WarpSourceReplay ==
  /\ warp.pc = "sourceReplay"
  /\ warp.next <= warp.last
  /\ LET e == log[warp.from][warp.next]
         outcome == Outcome(Host, warp.next, e, warp.from, FALSE) IN
     /\ Replay(Host, e, warp.from, outcome)
     /\ warp' = IF Dies(outcome) THEN NoWarp ELSE [warp EXCEPT !.next = @ + 1]
  /\ UNCHANGED <<busy, links>>

\* claim: the events of the old workspace are to be ignored from here on.  Without a
\* target workspace the project becomes the owner.
WarpClaim ==
  /\ \/ warp.pc = "claim"
     \/ warp.pc = "sourceReplay" /\ warp.next > warp.last
  /\ owner' = [owner EXCEPT ![Host] = warp.target]
  /\ warp' = [warp EXCEPT !.pc = "copy", !.next = 1, !.last = 0]
  /\ UNCHANGED <<log, busy, links>>

\* The changes in the working tree, if there are any and they are wanted, are applied at
\* the target; a remote target that fails to does not keep the warp from going on.
WarpCopy ==
  /\ warp.pc = "copy"
  /\ warp' = [warp EXCEPT !.pc = "read"]
  /\ UNCHANGED <<replicas, busy, links>>

\* The rows of the host's log, for a remote target.
WarpRead ==
  /\ warp.pc = "read"
  /\ warp.target # Host
  /\ warp' = [warp EXCEPT !.pc = "replay", !.next = 1, !.last = Len(log[Host])]
  /\ UNCHANGED <<replicas, busy, links>>

\* Mutation: the status of a replay request is not looked at.
WarpReplayUnchecked ==
  /\ warp.pc = "replay"
  /\ warp.next <= warp.last
  /\ LET e == log[Host][warp.next] IN
     Replay(warp.target, e, warp.target, Outcome(warp.target, warp.next, e, warp.target, TRUE))
  /\ warp' = [warp EXCEPT !.next = @ + 1]
  /\ UNCHANGED <<busy, links>>

\* /sync/replay, event by event: what is refused ends the warp, what was stored stays.
WarpReplay ==
  /\ warp.pc = "replay"
  /\ warp.next <= warp.last
  /\ LET e == log[Host][warp.next]
         outcome == Outcome(warp.target, warp.next, e, warp.target, TRUE) IN
     /\ Replay(warp.target, e, warp.target, outcome)
     /\ warp' = IF Dies(outcome) THEN NoWarp ELSE [warp EXCEPT !.next = @ + 1]
  /\ UNCHANGED <<busy, links>>

\* /sync/steal: the target publishes that the session is located there.
WarpSteal ==
  /\ warp.pc = "replay"
  /\ warp.next > warp.last
  /\ Publish(warp.target, warp.target)
  /\ warp' = [warp EXCEPT !.pc = "move"]
  /\ UNCHANGED <<busy, loop, wire, behind>>

\* The host publishes the move too.
WarpMove ==
  /\ warp.pc = "move" \/ (warp.pc = "read" /\ warp.target = Host)
  /\ Publish(Host, warp.target)
  /\ warp' = NoWarp
  /\ UNCHANGED <<busy, loop, wire, behind>>

\* A request fails, the changes do not apply at the host, or the caller goes away.
WarpFails ==
  /\ warp # NoWarp
  /\ warp' = NoWarp
  /\ UNCHANGED <<replicas, busy, links>>

\* The host process dies and starts again; its loops wait for a startSync.
HostCrash ==
  /\ busy' = [busy EXCEPT ![Host] = FALSE]
  /\ loop' = [w \in Space |-> [pc |-> "dead"]]
  /\ wire' = [w \in Space |-> <<>>]
  /\ warp' = NoWarp
  /\ UNCHANGED <<replicas, unsent, behind>>
-----------------------------------------------------------------------------
Drains == \E n \in Node : StartDrain(n) \/ EndDrain(n) \/ Write(n)

SyncLoop(w) ==
  \/ Notify(w) \/ Connect(w) \/ FetchHistory(w) \/ ReplayHistory(w) \/ GoLive(w)
  \/ ReplayLive(w)

Warp ==
  \/ \E target \in Node : WarpBegin(target)
  \/ WarpSourceSync \/ WarpSourceReplay \/ WarpClaim \/ WarpCopy
  \/ WarpRead \/ WarpReplay \/ WarpSteal \/ WarpMove \/ WarpFails

SyncNext ==
  \/ Drains \/ Warp \/ HostCrash
  \/ \E w \in Space : SyncLoop(w) \/ StartSync(w) \/ Disconnect(w) \/ StreamFails(w)

SyncSpec == SyncInit /\ [][SyncNext]_syncVars

\* The host and the workspace run their fibers, a loop that has not ended connects again,
\* and of the history requests not all fail.  Nobody has to call startSync.
SyncFairness ==
  \A w \in Space :
    /\ WF_syncVars(Notify(w)) /\ WF_syncVars(Connect(w)) /\ SF_syncVars(FetchHistory(w))
    /\ SF_syncVars(ReplayHistory(w)) /\ SF_syncVars(GoLive(w)) /\ SF_syncVars(ReplayLive(w))

SyncFairSpec == SyncSpec /\ SyncFairness
-----------------------------------------------------------------------------
\* Only the node the session was created on has written to it, at any node.
OneWriter == \A n \in Node, i \in 1 .. MaxLog : i <= Len(log[n]) => log[n][i].by = Creator

\* With one writer the host's copy of its log is a prefix of the original, whatever is
\* lost, repeated or overtaken on the way.
ReplicaIsPrefix == OneWriter => IsPrefix(log[Host], log[Creator])

\* The fence: an event enters the host's log from the host itself or from the owner
\* the last claim named; what an old workspace goes on to write does not.
OwnerWrites ==
  [][Len(log'[Host]) > Len(log[Host]) => Last(log'[Host]).by \in {Host, owner'[Host]}]_syncVars

\* A session takes its history along: when the target declares the session its own,
\* its log begins with everything the host had read.
MovedWithHistory ==
  [][warp.pc = "replay" /\ warp'.pc = "move"
       => IsPrefix(SubSeq(log[Host], 1, warp.last), log[warp.target])]_syncVars

\* The host catches up with the one writer, unless an event was overtaken and dropped,
\* or ignored while a warp had claimed the session, and the connection holds since; or
\* else its loop ends, and with every startSync it catches up or ends again.
HostCatchesUp ==
  \A w \in Space, i \in 1 .. MaxLog :
    Creator = w /\ Len(log[w]) >= i
      ~> Len(log[Host]) >= i \/ behind[w] \/ loop[w].pc = "dead" \/ ~OneWriter
=============================================================================

------------------------------ MODULE EventTail ------------------------------
(***************************************************************************)
(* The durable event log of one aggregate in one process, and its tails:   *)
(* publish, publishBatch and replay append in transactions and then wake   *)
(* the tails (commitDurableEvent, publishBatch); a tail registers its      *)
(* signal, reads the history and re-reads after every wake (durable,       *)
(* subscribeDurable, readAfter) in core/src/event.ts.                      *)
(*                                                                         *)
(* The signal of a tail is a PubSub of sliding capacity 1: one bit.  Each  *)
(* database transaction or query is one step.  The consumer of a tail      *)
(* keeps the sequence it received last and reconnects with it.             *)
(***************************************************************************)
EXTENDS Integers, Sequences

CONSTANTS Publisher,  \* fibers that append to the aggregate
          Reader,     \* consumers of its durable stream
          MaxSeq      \* bound: nothing is appended beyond this sequence

ASSUME MaxSeqIsNat == MaxSeq \in Nat

VARIABLES
  latest,    \* latest sequence of the aggregate, -1 without a row
  pub,       \* Publisher -> "idle", or committed and about to wake the tails
  tail,      \* Reader -> its stream, or Closed
  dirty,     \* Reader -> its signal is set
  received,  \* Reader -> sequence of the last event its consumer received
  announced  \* history: latest sequence when the tails were last woken

vars == <<latest, pub, tail, dirty, received, announced>>

Closed == [pc |-> "closed"]
Registered(t) == tail[t] # Closed

\* The rows after a sequence, in order.
ReadAfter(seq) == [i \in 1 .. (latest - seq) |-> seq + i]

Init ==
  /\ latest = -1
  /\ pub = [p \in Publisher |-> "idle"]
  /\ tail = [t \in Reader |-> Closed]
  /\ dirty = [t \in Reader |-> FALSE]
  /\ received = [t \in Reader |-> -1]
  /\ announced = -1
-----------------------------------------------------------------------------
\* publish, or a replay that is accepted: one row.  The wake that follows belongs
\* to the same uninterruptible region.
Commit(p) ==
  /\ pub[p] = "idle"
  /\ latest < MaxSeq
  /\ latest' = latest + 1
  /\ pub' = [pub EXCEPT ![p] = "committed"]
  /\ UNCHANGED <<tail, dirty, received, announced>>

\* publishBatch: its rows in one transaction.
CommitBatch(p) ==
  /\ pub[p] = "idle"
  /\ latest + 1 < MaxSeq
  /\ latest' = latest + 2
  /\ pub' = [pub EXCEPT ![p] = "committedBatch"]
  /\ UNCHANGED <<tail, dirty, received, announced>>

\* Mutation: a tail that already reads is not signalled.
WakeWaiting(p) ==
  /\ pub[p] # "idle"
  /\ pub' = [pub EXCEPT ![p] = "idle"]
  /\ dirty' = [t \in Reader |-> dirty[t] \/ (Registered(t) /\ tail[t].pc = "waiting")]
  /\ announced' = latest
  /\ UNCHANGED <<latest, tail, received>>

\* Every registered signal is set.
Wake(p) ==
  /\ pub[p] # "idle"
  /\ pub' = [pub EXCEPT ![p] = "idle"]
  /\ dirty' = [t \in Reader |-> dirty[t] \/ Registered(t)]
  /\ announced' = latest
  /\ UNCHANGED <<latest, tail, received>>

\* publishBatch is interruptible once its transaction ended.
InterruptBatch(p) ==
  /\ pub[p] = "committedBatch"
  /\ pub' = [pub EXCEPT ![p] = "idle"]
  /\ UNCHANGED <<latest, tail, dirty, received, announced>>
-----------------------------------------------------------------------------
\* subscribeDurable: a fresh signal is registered; the cursor is the consumer's.
Open(t) ==
  /\ tail[t] = Closed
  /\ tail' = [tail EXCEPT ![t] = [pc |-> "read", cursor |-> received[t], buffer |-> <<>>]]
  /\ dirty' = [dirty EXCEPT ![t] = FALSE]
  /\ UNCHANGED <<latest, pub, received, announced>>

\* Mutation: the cursor stays where it was.
ReadInPlace(t) ==
  /\ tail[t].pc = "read"
  /\ tail' = [tail EXCEPT ![t] =
                [tail[t] EXCEPT !.pc = "emit", !.buffer = ReadAfter(tail[t].cursor)]]
  /\ UNCHANGED <<latest, pub, dirty, received, announced>>

\* The historical read, and the read after a wake: the cursor moves to the last row.
Read(t) ==
  /\ tail[t].pc = "read"
  /\ LET rows == ReadAfter(tail[t].cursor) IN
     tail' = [tail EXCEPT ![t] =
                [pc     |-> "emit",
                 cursor |-> IF rows = <<>> THEN tail[t].cursor ELSE rows[Len(rows)],
                 buffer |-> rows]]
  /\ UNCHANGED <<latest, pub, dirty, received, announced>>

\* The consumer takes one event of those that were read.
Emit(t) ==
  /\ tail[t].pc = "emit"
  /\ tail[t].buffer # <<>>
  /\ received' = [received EXCEPT ![t] = Head(tail[t].buffer)]
  /\ tail' = [tail EXCEPT ![t].buffer = Tail(@)]
  /\ UNCHANGED <<latest, pub, dirty, announced>>

\* All of it was taken: the tail waits for its signal.
Wait(t) ==
  /\ tail[t].pc = "emit"
  /\ tail[t].buffer = <<>>
  /\ tail' = [tail EXCEPT ![t].pc = "waiting"]
  /\ UNCHANGED <<latest, pub, dirty, received, announced>>

\* Taking the signal clears it, before the read.
TakeWake(t) ==
  /\ tail[t].pc = "waiting"
  /\ dirty[t]
  /\ dirty' = [dirty EXCEPT ![t] = FALSE]
  /\ tail' = [tail EXCEPT ![t].pc = "read"]
  /\ UNCHANGED <<latest, pub, received, announced>>

\* The consumer goes away; events it had not taken are dropped with the stream.
Close(t) ==
  /\ Registered(t)
  /\ tail' = [tail EXCEPT ![t] = Closed]
  /\ UNCHANGED <<latest, pub, dirty, received, announced>>

\* The process dies: the log and the cursors of the consumers survive.
Crash ==
  /\ pub' = [p \in Publisher |-> "idle"]
  /\ tail' = [t \in Reader |-> Closed]
  /\ dirty' = [t \in Reader |-> FALSE]
  /\ UNCHANGED <<latest, received, announced>>
-----------------------------------------------------------------------------
Next ==
  \/ \E p \in Publisher : Commit(p) \/ CommitBatch(p) \/ Wake(p) \/ InterruptBatch(p)
  \/ \E t \in Reader : Open(t) \/ Read(t) \/ Emit(t) \/ Wait(t) \/ TakeWake(t) \/ Close(t)
  \/ Crash

Spec == Init /\ [][Next]_vars

\* A committed publication goes on to wake the tails; a tail reads and its consumer
\* takes what was read.
Fairness ==
  /\ \A p \in Publisher : WF_vars(Wake(p))
  /\ \A t \in Reader : WF_vars(Read(t) \/ Emit(t) \/ Wait(t) \/ TakeWake(t))

FairSpec == Spec /\ Fairness
-----------------------------------------------------------------------------
\* Type invariant.
TypeOK ==
  /\ latest \in -1 .. MaxSeq
  /\ pub \in [Publisher -> {"idle", "committed", "committedBatch"}]
  /\ tail \in [Reader -> {Closed} \cup
                 [pc : {"read", "emit", "waiting"}, cursor : -1 .. MaxSeq, buffer : Seq(0 .. MaxSeq)]]
  /\ dirty \in [Reader -> BOOLEAN]
  /\ received \in [Reader -> -1 .. MaxSeq]
  /\ announced \in -1 .. latest

\* What a consumer has received and what its tail still holds are the log up to the
\* cursor: nothing is skipped and nothing comes twice, however commits, wakes and
\* reconnections interleave.
NoGapNoRepeat ==
  \A t \in Reader : Registered(t) =>
    /\ received[t] <= tail[t].cursor /\ tail[t].cursor <= latest
    /\ tail[t].buffer = [i \in 1 .. (tail[t].cursor - received[t]) |-> received[t] + i]

\* No commit is missed in the hand-over from the history to the signals: a tail that does
\* not read and is behind what was announced is signalled.
NoMissedCommit ==
  \A t \in Reader :
    Registered(t) /\ tail[t].pc # "read" /\ tail[t].cursor < announced => dirty[t]

Stream == INSTANCE EventStream WITH connected <- [t \in Reader |-> Registered(t)]

\* Registering, reading, signals and buffers never show: the consumer sees the log,
\* in order, once, and catches up with what was announced.
ImplementsStream == Stream!FairSpec
=============================================================================

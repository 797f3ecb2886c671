---------------------------- MODULE EventLogProofs ----------------------------
(***************************************************************************)
(* Proofs about the durable event log: how its tails are read (EventTail)  *)
(* and how it is replicated (SessionSync).  The two share no constant and  *)
(* no variable; what is assumed of the constants of one says nothing of    *)
(* the other's.                                                            *)
(*                                                                         *)
(* EventTail, for any publishers and consumers and a log of any length:    *)
(* the order and completeness of what a tail holds, the hand-over to the   *)
(* signals, and the safety part of EventStream.                            *)
(*                                                                         *)
(* SessionSync, for any workspaces and logs of any length: a replica is a  *)
(* prefix of its original, former owners are fenced off, and a session     *)
(* that is moved takes its history along.                                  *)
(***************************************************************************)
EXTENDS EventTail, SessionSync, SequenceTheorems, WellFoundedInduction, TLAPS

\* A tail reads and waits only when its consumer took everything before its cursor.
Drained ==
  \A t \in Reader :
    /\ received[t] <= latest
    /\ tail[t].pc \in {"read", "waiting"} => tail[t].cursor = received[t]

IInv == TypeOK /\ Drained /\ NoGapNoRepeat /\ NoMissedCommit

Stay == [pc : {"read", "emit", "waiting"}, cursor : -1 .. MaxSeq, buffer : Seq(0 .. MaxSeq)]

\* A registered tail is a record of its own kind.
LEMMA OpenTail ==
  ASSUME TypeOK, NEW t \in Reader
  PROVE  /\ Registered(t) => tail[t] \in Stay
         /\ tail[t].pc \in {"read", "emit", "waiting"} => Registered(t)
BY DEF TypeOK, Registered, Closed, Stay

THEOREM Initial == Init => IInv
<1> SUFFICES ASSUME Init PROVE IInv
  OBVIOUS
<1> USE MaxSeqIsNat DEF Init
<1>1. TypeOK
  <2>1. dirty \in [Reader -> BOOLEAN]
    BY Zenon
  <2> QED BY <2>1 DEF TypeOK
<1>2. Drained
  BY DEF Drained, Closed
<1>3. NoGapNoRepeat /\ NoMissedCommit
  BY DEF NoGapNoRepeat, NoMissedCommit, Registered
<1> QED BY <1>1, <1>2, <1>3 DEF IInv

LEMMA CommitKeeps ==
  ASSUME IInv, NEW p \in Publisher, Commit(p)
  PROVE  IInv'
<1> USE MaxSeqIsNat DEF IInv, Commit, TypeOK, Closed
<1>1. TypeOK'
  OBVIOUS
<1>2. Drained'
  BY DEF Drained
<1>3. NoGapNoRepeat'
  BY DEF NoGapNoRepeat, Registered
<1>4. NoMissedCommit'
  BY DEF NoMissedCommit, Registered
<1> QED BY <1>1, <1>2, <1>3, <1>4

LEMMA CommitBatchKeeps ==
  ASSUME IInv, NEW p \in Publisher, CommitBatch(p)
  PROVE  IInv'
<1> USE MaxSeqIsNat DEF IInv, CommitBatch, TypeOK, Closed
<1>1. TypeOK'
  OBVIOUS
<1>2. Drained'
  BY DEF Drained
<1>3. NoGapNoRepeat'
  BY DEF NoGapNoRepeat, Registered
<1>4. NoMissedCommit'
  BY DEF NoMissedCommit, Registered
<1> QED BY <1>1, <1>2, <1>3, <1>4

LEMMA WakeKeeps ==
  ASSUME IInv, NEW p \in Publisher, Wake(p)
  PROVE  IInv'
<1> USE MaxSeqIsNat DEF IInv, Wake, TypeOK, Closed
<1>1. TypeOK'
  OBVIOUS
<1>2. Drained'
  BY DEF Drained
<1>3. NoGapNoRepeat'
  BY DEF NoGapNoRepeat, Registered
<1>4. NoMissedCommit'
  BY DEF NoMissedCommit, Registered
<1> QED BY <1>1, <1>2, <1>3, <1>4

LEMMA InterruptBatchKeeps ==
  ASSUME IInv, NEW p \in Publisher, InterruptBatch(p)
  PROVE  IInv'
<1> USE MaxSeqIsNat DEF IInv, InterruptBatch, TypeOK, Closed
<1>1. TypeOK'
  OBVIOUS
<1>2. Drained'
  BY DEF Drained
<1>3. NoGapNoRepeat'
  BY DEF NoGapNoRepeat, Registered
<1>4. NoMissedCommit'
  BY DEF NoMissedCommit, Registered
<1> QED BY <1>1, <1>2, <1>3, <1>4

LEMMA CloseKeeps ==
  ASSUME IInv, NEW t \in Reader, Close(t)
  PROVE  IInv'
<1> USE MaxSeqIsNat DEF IInv, Close, TypeOK, Closed
<1>1. TypeOK'
  OBVIOUS
<1>2. Drained'
  BY DEF Drained
<1>3. NoGapNoRepeat'
  BY DEF NoGapNoRepeat, Registered
<1>4. NoMissedCommit'
  BY DEF NoMissedCommit, Registered
<1> QED BY <1>1, <1>2, <1>3, <1>4

LEMMA CrashKeeps ==
  ASSUME IInv, Crash
  PROVE  IInv'
<1> USE MaxSeqIsNat DEF IInv, Crash, TypeOK, Closed
<1>1. TypeOK'
  BY Zenon
<1>2. Drained'
  BY DEF Drained
<1>3. NoGapNoRepeat'
  BY DEF NoGapNoRepeat, Registered
<1>4. NoMissedCommit'
  BY DEF NoMissedCommit, Registered
<1> QED BY <1>1, <1>2, <1>3, <1>4

\* A step of one registered tail, and of nothing else that concerns the others.
LEMMA OneTail ==
  ASSUME IInv, NEW t \in Reader, NEW to \in Stay, NEW r \in -1 .. MaxSeq, NEW d \in BOOLEAN,
         tail' = [tail EXCEPT ![t] = to], received' = [received EXCEPT ![t] = r],
         dirty' = [dirty EXCEPT ![t] = d], UNCHANGED <<latest, pub, announced>>,
         r <= to.cursor, to.cursor <= latest,
         to.buffer = [i \in 1 .. (to.cursor - r) |-> r + i],
         to.pc \in {"read", "waiting"} => to.cursor = r,
         to.pc # "read" /\ to.cursor < announced => d
  PROVE  IInv'
<1> USE MaxSeqIsNat DEF IInv, Stay
<1>0. to # Closed /\ r <= latest
  BY DEF Closed, TypeOK
<1>1. TypeOK'
  BY DEF TypeOK
<1>2. Drained'
  BY <1>0 DEF Drained, TypeOK
<1>3. NoGapNoRepeat'
  <2> SUFFICES ASSUME NEW u \in Reader, Registered(u)'
               PROVE  /\ received'[u] <= tail'[u].cursor /\ tail'[u].cursor <= latest
                      /\ tail'[u].buffer = [i \in 1 .. (tail'[u].cursor - received'[u]) |-> received'[u] + i]
    BY DEF NoGapNoRepeat
  <2>1. CASE u = t
    <3>1. tail'[u] = to /\ received'[u] = r
      BY <2>1 DEF TypeOK
    <3> QED BY <3>1
  <2>2. CASE u # t
    <3>1. tail'[u] = tail[u] /\ received'[u] = received[u] /\ Registered(u)
      BY <2>2 DEF TypeOK, Registered
    <3> QED BY <3>1 DEF NoGapNoRepeat
  <2> QED BY <2>1, <2>2
<1>4. NoMissedCommit'
  BY DEF NoMissedCommit, Registered, TypeOK
<1> QED BY <1>1, <1>2, <1>3, <1>4

LEMMA OpenKeeps ==
  ASSUME IInv, NEW t \in Reader, Open(t)
  PROVE  IInv'
<1> DEFINE to == [pc |-> "read", cursor |-> received[t], buffer |-> <<>>]
<1>1. to \in Stay /\ received[t] \in -1 .. MaxSeq /\ received[t] <= latest
  BY DEF IInv, TypeOK, Drained, Stay
<1>2. tail' = [tail EXCEPT ![t] = to] /\ dirty' = [dirty EXCEPT ![t] = FALSE]
      /\ received' = [received EXCEPT ![t] = received[t]] /\ UNCHANGED <<latest, pub, announced>>
  BY DEF Open, IInv, TypeOK
<1>3. to.cursor = received[t] /\ to.pc = "read" /\ to.buffer = <<>>
  OBVIOUS
<1>4. to.buffer = [i \in 1 .. (to.cursor - received[t]) |-> received[t] + i]
  BY <1>1, <1>3
<1> HIDE DEF to
<1>5. received[t] <= to.cursor /\ to.cursor <= latest /\ FALSE \in BOOLEAN
  BY <1>1, <1>3, MaxSeqIsNat
<1> QED BY <1>1, <1>2, <1>3, <1>4, <1>5, OneTail

\* What a read returns.
LEMMA Rows ==
  ASSUME TypeOK, NEW c \in -1 .. MaxSeq, c <= latest
  PROVE  /\ ReadAfter(c) \in Seq(0 .. MaxSeq)
         /\ (IF ReadAfter(c) = <<>> THEN c ELSE ReadAfter(c)[Len(ReadAfter(c))]) = latest
<1> DEFINE rows == ReadAfter(c)
<1>1. latest \in -1 .. MaxSeq /\ latest - c \in Nat
  BY MaxSeqIsNat DEF TypeOK
<1>2. rows = [i \in 1 .. (latest - c) |-> c + i]
  BY DEF ReadAfter
<1> HIDE DEF rows
<1>3. rows \in Seq(0 .. MaxSeq) /\ Len(rows) = latest - c
  BY <1>1, <1>2, MaxSeqIsNat
<1>4. CASE latest = c
  <2>1. rows = <<>>
    BY <1>1, <1>3, <1>4
  <2> QED BY <2>1, <1>3, <1>4 DEF rows
<1>5. CASE latest # c
  <2>1. rows # <<>> /\ rows[Len(rows)] = latest
    BY <1>1, <1>2, <1>3, <1>5
  <2> QED BY <2>1, <1>3 DEF rows
<1> QED BY <1>4, <1>5

LEMMA ReadKeeps ==
  ASSUME IInv, NEW t \in Reader, Read(t)
  PROVE  IInv'
<1> DEFINE c == tail[t].cursor
           to == [pc |-> "emit", cursor |-> latest, buffer |-> ReadAfter(c)]
<1>1. Registered(t) /\ tail[t] \in Stay /\ tail[t].pc = "read"
  BY OpenTail DEF Read, IInv
<1>2. /\ c \in -1 .. MaxSeq /\ c <= latest /\ received[t] = c
      /\ latest \in -1 .. MaxSeq /\ announced \in -1 .. latest
  BY <1>1 DEF IInv, TypeOK, Drained, NoGapNoRepeat, Stay
<1>3. /\ ReadAfter(c) \in Seq(0 .. MaxSeq)
      /\ (IF ReadAfter(c) = <<>> THEN c ELSE ReadAfter(c)[Len(ReadAfter(c))]) = latest
  BY <1>2, Rows DEF IInv
<1>4. tail' = [tail EXCEPT ![t] = to] /\ UNCHANGED <<latest, pub, dirty, received, announced>>
  BY <1>3 DEF Read
<1>5. to \in Stay /\ to.cursor = latest /\ to.pc = "emit" /\ to.buffer = ReadAfter(c)
  BY <1>2, <1>3 DEF Stay
<1>6. to.buffer = [i \in 1 .. (to.cursor - received[t]) |-> received[t] + i]
  BY <1>2, <1>5 DEF ReadAfter
<1>7. received' = [received EXCEPT ![t] = received[t]] /\ dirty' = [dirty EXCEPT ![t] = dirty[t]]
      /\ dirty[t] \in BOOLEAN
  BY <1>4 DEF IInv, TypeOK
<1> HIDE DEF to, c
<1>8. received[t] <= to.cursor /\ to.cursor <= latest /\ ~(to.cursor < announced)
  BY <1>2, <1>5, MaxSeqIsNat
<1> QED BY <1>2, <1>4, <1>5, <1>6, <1>7, <1>8, OneTail

\* The events in the buffer are those after the last one received.
LEMMA NextEvent ==
  ASSUME IInv, NEW t \in Reader, Emit(t)
  PROVE  /\ Registered(t) /\ tail[t] \in Stay /\ tail[t].pc = "emit"
         /\ Head(tail[t].buffer) = received[t] + 1
         /\ Tail(tail[t].buffer) =
              [i \in 1 .. (tail[t].cursor - (received[t] + 1)) |-> received[t] + 1 + i]
         /\ Tail(tail[t].buffer) \in Seq(0 .. MaxSeq)
         /\ received[t] + 1 \in -1 .. MaxSeq
         /\ received[t] + 1 <= tail[t].cursor /\ tail[t].cursor <= latest
         /\ received'[t] = received[t] + 1
<1> DEFINE c == tail[t].cursor
           r == received[t]
           b == tail[t].buffer
<1>1. Registered(t) /\ tail[t] \in Stay /\ tail[t].pc = "emit" /\ b # <<>>
  BY OpenTail DEF Emit, IInv
<1>2. /\ c \in -1 .. MaxSeq /\ r \in -1 .. MaxSeq /\ b \in Seq(0 .. MaxSeq)
      /\ r <= c /\ c <= latest /\ b = [i \in 1 .. (c - r) |-> r + i]
  BY <1>1 DEF IInv, TypeOK, NoGapNoRepeat, Stay
<1>3. received'[t] = Head(b)
  BY DEF Emit, IInv, TypeOK
<1> HIDE DEF c, r, b
<1>4. Len(b) = c - r /\ c - r \in Nat
  BY <1>2, MaxSeqIsNat
<1>5. Len(b) # 0
  BY <1>1, <1>2
<1>6. r + 1 <= c
  BY <1>2, <1>4, <1>5, MaxSeqIsNat
<1>7. Head(b) = r + 1
  BY <1>1, <1>2, <1>6, MaxSeqIsNat
<1>8. /\ Tail(b) \in Seq(0 .. MaxSeq) /\ Len(Tail(b)) = Len(b) - 1
      /\ \A i \in 1 .. Len(Tail(b)) : Tail(b)[i] = b[i + 1]
  BY <1>1, <1>2, HeadTailProperties
<1>9. Tail(b) = [i \in 1 .. (c - (r + 1)) |-> r + 1 + i]
  <2>1. Len(Tail(b)) = c - (r + 1)
    BY <1>2, <1>4, <1>8, MaxSeqIsNat
  <2>2. \A i \in 1 .. (c - (r + 1)) : i + 1 \in 1 .. (c - r) /\ b[i + 1] = r + (i + 1)
    BY <1>2, MaxSeqIsNat
  <2>3. \A i \in 1 .. (c - (r + 1)) : Tail(b)[i] = r + 1 + i
    BY <1>2, <1>8, <2>1, <2>2, MaxSeqIsNat
  <2>4. Tail(b) \in [1 .. (c - (r + 1)) -> 0 .. MaxSeq]
    BY <1>8, <2>1, LenProperties
  <2> QED BY <2>3, <2>4
<1>10. r + 1 \in -1 .. MaxSeq
  BY <1>2, <1>6, MaxSeqIsNat
<1> QED BY <1>1, <1>2, <1>3, <1>6, <1>7, <1>8, <1>9, <1>10 DEF c, r, b

LEMMA EmitKeeps ==
  ASSUME IInv, NEW t \in Reader, Emit(t)
  PROVE  IInv'
<1> DEFINE to == [tail[t] EXCEPT !.buffer = Tail(@)]
           r == received[t] + 1
<1>1. /\ Registered(t) /\ tail[t] \in Stay /\ tail[t].pc = "emit"
      /\ Head(tail[t].buffer) = r
      /\ Tail(tail[t].buffer) = [i \in 1 .. (tail[t].cursor - r) |-> r + i]
      /\ Tail(tail[t].buffer) \in Seq(0 .. MaxSeq)
      /\ r \in -1 .. MaxSeq /\ r <= tail[t].cursor /\ tail[t].cursor <= latest
  BY NextEvent
<1>2. /\ tail' = [tail EXCEPT ![t] = to] /\ received' = [received EXCEPT ![t] = r]
      /\ dirty' = [dirty EXCEPT ![t] = dirty[t]] /\ dirty[t] \in BOOLEAN
      /\ UNCHANGED <<latest, pub, announced>>
  BY <1>1 DEF Emit, IInv, TypeOK
<1>3. to \in Stay /\ to.cursor = tail[t].cursor /\ to.pc = "emit" /\ to.buffer = Tail(tail[t].buffer)
  BY <1>1 DEF Stay
<1>4. to.cursor < announced => dirty[t]
  BY <1>1, <1>3 DEF IInv, NoMissedCommit
<1>5. to.buffer = [i \in 1 .. (to.cursor - r) |-> r + i]
  BY <1>1, <1>3
<1> HIDE DEF to, r
<1> QED BY <1>1, <1>2, <1>3, <1>4, <1>5, OneTail

LEMMA WaitKeeps ==
  ASSUME IInv, NEW t \in Reader, Wait(t)
  PROVE  IInv'
<1> DEFINE to == [tail[t] EXCEPT !.pc = "waiting"]
<1>1. Registered(t) /\ tail[t] \in Stay /\ tail[t].pc = "emit"
  BY OpenTail DEF Wait, IInv
<1>2. /\ received[t] <= tail[t].cursor /\ tail[t].cursor <= latest
      /\ tail[t].buffer = [i \in 1 .. (tail[t].cursor - received[t]) |-> received[t] + i]
      /\ tail[t].cursor \in -1 .. MaxSeq /\ received[t] \in -1 .. MaxSeq /\ tail[t].buffer \in Seq(0 .. MaxSeq)
  BY <1>1 DEF IInv, NoGapNoRepeat, TypeOK, Stay
<1>3. to \in Stay /\ to.cursor = tail[t].cursor /\ to.pc = "waiting" /\ to.buffer = tail[t].buffer
  BY <1>1 DEF Stay
<1>4. /\ tail' = [tail EXCEPT ![t] = to] /\ received' = [received EXCEPT ![t] = received[t]]
      /\ dirty' = [dirty EXCEPT ![t] = dirty[t]] /\ dirty[t] \in BOOLEAN
      /\ UNCHANGED <<latest, pub, announced>>
  BY DEF Wait, IInv, TypeOK
<1>5. tail[t].cursor = received[t]
  <2>1. Len(tail[t].buffer) = 0
    BY DEF Wait
  <2>2. tail[t].cursor - received[t] \in Nat
    BY <1>2, MaxSeqIsNat
  <2>3. Len(tail[t].buffer) = tail[t].cursor - received[t]
    BY <1>2, <2>2
  <2> QED BY <1>2, <2>1, <2>3, MaxSeqIsNat
<1>6. to.pc # "read" /\ to.cursor < announced => dirty[t]
  BY <1>1, <1>3 DEF IInv, NoMissedCommit
<1>7. /\ received[t] <= to.cursor /\ to.cursor <= latest /\ to.cursor = received[t]
      /\ to.buffer = [i \in 1 .. (to.cursor - received[t]) |-> received[t] + i]
  BY <1>2, <1>3, <1>5
<1> HIDE DEF to
<1> QED BY <1>2, <1>3, <1>4, <1>6, <1>7, OneTail

LEMMA TakeWakeKeeps ==
  ASSUME IInv, NEW t \in Reader, TakeWake(t)
  PROVE  IInv'
<1> DEFINE to == [tail[t] EXCEPT !.pc = "read"]
<1>1. Registered(t) /\ tail[t] \in Stay /\ tail[t].pc = "waiting"
  BY OpenTail DEF TakeWake, IInv
<1>2. /\ received[t] <= tail[t].cursor /\ tail[t].cursor <= latest
      /\ tail[t].buffer = [i \in 1 .. (tail[t].cursor - received[t]) |-> received[t] + i]
      /\ tail[t].cursor \in -1 .. MaxSeq /\ received[t] \in -1 .. MaxSeq /\ tail[t].buffer \in Seq(0 .. MaxSeq)
  BY <1>1 DEF IInv, NoGapNoRepeat, TypeOK, Stay
<1>3. to \in Stay /\ to.cursor = tail[t].cursor /\ to.pc = "read" /\ to.buffer = tail[t].buffer
  BY <1>1 DEF Stay
<1>4. /\ tail' = [tail EXCEPT ![t] = to] /\ received' = [received EXCEPT ![t] = received[t]]
      /\ dirty' = [dirty EXCEPT ![t] = FALSE] /\ FALSE \in BOOLEAN
      /\ UNCHANGED <<latest, pub, announced>>
  BY DEF TakeWake, IInv, TypeOK
<1>5. tail[t].cursor = received[t]
  BY <1>1 DEF IInv, Drained
<1>6. to.pc # "read" /\ to.cursor < announced => FALSE
  BY <1>1, <1>3 DEF IInv, NoMissedCommit
<1>7. /\ received[t] <= to.cursor /\ to.cursor <= latest /\ to.cursor = received[t]
      /\ to.buffer = [i \in 1 .. (to.cursor - received[t]) |-> received[t] + i]
  BY <1>2, <1>3, <1>5
<1> HIDE DEF to
<1> QED BY <1>2, <1>3, <1>4, <1>6, <1>7, OneTail

LEMMA StutterKeeps ==
  ASSUME IInv, UNCHANGED vars
  PROVE  IInv'
BY DEF IInv, TypeOK, Drained, NoGapNoRepeat, NoMissedCommit, Registered, vars

THEOREM Inductive == Spec => []IInv
<1>1. ASSUME IInv, [Next]_vars PROVE IInv'
  BY <1>1, StutterKeeps, CommitKeeps, CommitBatchKeeps, WakeKeeps, InterruptBatchKeeps, OpenKeeps,
     ReadKeeps, EmitKeeps, WaitKeeps, TakeWakeKeeps, CloseKeeps, CrashKeeps
  DEF Next
<1> QED BY <1>1, Initial, PTL DEF Spec

-----------------------------------------------------------------------------
\* Every variable keeps to its type.
THEOREM TypeCorrect == Spec => []TypeOK
<1>1. IInv => TypeOK
  BY DEF IInv
<1> QED BY <1>1, Inductive, PTL

\* What a consumer received and what its tail holds (durable) is the log up to the cursor.
THEOREM InOrderOnce == Spec => []NoGapNoRepeat
<1>1. IInv => NoGapNoRepeat
  BY DEF IInv
<1> QED BY <1>1, Inductive, PTL

\* No commit falls between a read of the history and the signals (subscribeDurable).
THEOREM HandsOver == Spec => []NoMissedCommit
<1>1. IInv => NoMissedCommit
  BY DEF IInv
<1> QED BY <1>1, Inductive, PTL

-----------------------------------------------------------------------------
(* The abstract stream. *)

LEMMA StreamInit ==
  ASSUME Init
  PROVE  Stream!Init
BY DEF Init, Stream!Init, Registered

LEMMA StreamStep ==
  ASSUME IInv, [Next]_vars
  PROVE  [Stream!Next]_Stream!vars
<1> DEFINE on == [t \in Reader |-> Registered(t)]
<1> USE DEF Stream!Next, Stream!vars
<1>1. ASSUME NEW p \in Publisher, Commit(p) \/ CommitBatch(p) PROVE Stream!Append
  BY <1>1 DEF Commit, CommitBatch, Stream!Append, Registered
<1>2. ASSUME NEW p \in Publisher, Wake(p) PROVE Stream!Announce
  BY <1>2 DEF Wake, Stream!Announce, Registered
<1>3. ASSUME NEW t \in Reader, Open(t) PROVE Stream!Connect(t)
  BY <1>3 DEF Open, Stream!Connect, Registered, IInv, TypeOK, Closed
<1>4. ASSUME NEW t \in Reader, Close(t) PROVE Stream!Disconnect
  BY <1>4 DEF Close, Stream!Disconnect, Registered, IInv, TypeOK
<1>5. ASSUME Crash PROVE Stream!Disconnect
  BY <1>5 DEF Crash, Stream!Disconnect, Registered
<1>6. ASSUME NEW t \in Reader, Emit(t) PROVE Stream!Deliver(t)
  <2>1. /\ Registered(t) /\ tail[t] \in Stay /\ tail[t].pc = "emit"
        /\ Head(tail[t].buffer) = received[t] + 1
        /\ received[t] + 1 \in -1 .. MaxSeq
        /\ received[t] + 1 <= tail[t].cursor /\ tail[t].cursor <= latest
    BY <1>6, NextEvent
  <2>2. received[t] < latest
    BY <2>1, MaxSeqIsNat DEF IInv, TypeOK, Stay
  <2>3. received' = [received EXCEPT ![t] = @ + 1] /\ UNCHANGED <<latest, announced>>
    BY <1>6, <2>1 DEF Emit
  <2>4. \A u \in Reader : Registered(u)' = Registered(u)
    BY <1>6, <2>1 DEF Emit, Registered, IInv, TypeOK, Closed, Stay
  <2>5. on' = on
    BY <2>4
  <2> QED BY <2>1, <2>2, <2>3, <2>5 DEF Stream!Deliver
<1>7. ASSUME NEW t \in Reader, Read(t) \/ Wait(t) \/ TakeWake(t) PROVE UNCHANGED Stream!vars
  BY <1>7, OpenTail DEF Read, Wait, TakeWake, Registered, IInv, TypeOK, Closed
<1>8. ASSUME NEW p \in Publisher, InterruptBatch(p) PROVE UNCHANGED Stream!vars
  BY <1>8 DEF InterruptBatch, Registered
<1>9. ASSUME UNCHANGED vars PROVE UNCHANGED Stream!vars
  BY <1>9 DEF vars, Registered
<1> QED BY <1>1, <1>2, <1>3, <1>4, <1>5, <1>6, <1>7, <1>8, <1>9 DEF Next

\* The tails implement what sessions.events promises, as far as safety goes: registering,
\* reading, signals and buffers are steps the consumer does not see.
THEOREM StreamIsImplemented == Spec => Stream!Spec
<1>1. Init => Stream!Init
  BY StreamInit
<1>2. IInv /\ [Next]_vars => [Stream!Next]_Stream!vars
  BY StreamStep
<1> QED BY <1>1, <1>2, Inductive, PTL DEF Spec, Stream!Spec
-----------------------------------------------------------------------------
(* SessionSync.  SyncInv says, beside the types, where every position on a *)
(* connection, a page or a warp points to, what a workspace may know that  *)
(* the host does not, and how far a warp has come.  No part is inductive   *)
(* without the others: what a replay appends depends on where its position *)
(* points to.                                                              *)

Events == [by : Node, to : Node \cup {None}]
Pages == [pc : {"asking", "history"}, next : Nat \ {0}, last : Nat]
Warps == [pc : {"read", "sourceSync", "sourceReplay", "claim", "copy", "replay", "move"},
          from : Node, target : Node, next : Nat \ {0}, last : Nat]

\* The type invariant of SessionSync.
SyncTypeOK ==
  /\ log \in [Node -> Seq(Events)]
  /\ owner \in [Node -> Node \cup {None}]
  /\ busy \in [Node -> BOOLEAN]
  /\ unsent \in [Space -> SUBSET (Nat \ {0})]
  /\ loop \in [Space -> {Off, [pc |-> "dead"], [pc |-> "live"]} \cup Pages]
  /\ wire \in [Space -> Seq(Nat \ {0})]
  /\ behind \in [Space -> BOOLEAN]
  /\ warp \in {NoWarp} \cup Warps

\* Every log that has anything starts with the creation of the session.
Begun == \A n \in Node : log[n] # <<>> => log[n][1] = Event(Creator, Creator)

\* A drain runs where the session has arrived.
DrainsArrived == \A n \in Node : busy[n] => log[n] # <<>>

\* What is notified, on its way or on a page is a position of the workspace's log.
LinksPositioned ==
  \A w \in Space :
    /\ unsent[w] \subseteq Positions(log[w])
    /\ \A i \in Positions(wire[w]) : wire[w][i] \in Positions(log[w])
    /\ loop[w].pc = "history" => loop[w].last <= Len(log[w])

\* What a warp has replayed stands at the target as at the host.
Replayed ==
  /\ warp.target \in Space
  /\ 1 <= warp.last /\ warp.last <= Len(log[Host]) /\ warp.next <= warp.last + 1
  /\ \A j \in 1 .. warp.next - 1 :
       j \in Positions(log[warp.target]) /\ log[warp.target][j] = log[Host][j]

\* A warp moves a session the host has, from a workspace that has what is asked for.
WarpPositioned ==
  warp # NoWarp =>
    /\ log[Host] # <<>>
    /\ warp.pc \in {"sourceSync", "sourceReplay"} => warp.from \in Space
    /\ warp.pc = "sourceReplay" => warp.last <= Len(log[warp.from])
    /\ warp.pc = "replay" => Replayed

\* Past the end of the host's log a workspace has only events of its own.
HostKnows ==
  \A w \in Space : \A i \in Positions(log[w]) : i > Len(log[Host]) => log[w][i].by = w

\* Of one writer's events every node has a prefix.
Copies ==
  OneWriter => \A n \in Node : \A i \in Positions(log[n]) :
                 i \in Positions(log[Creator]) /\ log[n][i] = log[Creator][i]

\* The parts that each action is looked at for; the others follow from what a step does
\* to the logs.
Rest == SyncTypeOK /\ DrainsArrived /\ LinksPositioned /\ WarpPositioned

SyncInv == Rest /\ Begun /\ HostKnows /\ Copies
-----------------------------------------------------------------------------
(* How a step changes the logs. *)

\* Node n publishes an event.
Published(n, to) ==
  /\ log[n] # <<>>
  /\ Len(log[n]) < MaxLog
  /\ log' = [log EXCEPT ![n] = Append(@, Event(n, to))]

\* Node n takes over from m the event that follows its own.
TakenOver(n, m) ==
  /\ Len(log[n]) < Len(log[m])
  /\ log' = [log EXCEPT ![n] = Append(@, log[m][Len(log[n]) + 1])]
  /\ IF n = Host THEN m \in Space /\ owner'[Host] = m ELSE m = Host

Changed ==
  \/ log' = log
  \/ \E n \in Node, to \in Node \cup {None} : Published(n, to)
  \/ \E n \in Node, m \in Node : TakenOver(n, m)

LEMMA NodeFacts == Creator \in Node /\ Host \in Node /\ None \notin Node /\ Host \notin Space
                   /\ Space \subseteq Node /\ \A n \in Node : n # Host => n \in Space
BY CreatorIsNode, DistinctNames DEF Node

LEMMA SeqFacts ==
  ASSUME SyncTypeOK, NEW n \in Node
  PROVE  /\ log[n] \in Seq(Events) /\ Len(log[n]) \in Nat
         /\ \A i \in Positions(log[n]) : log[n][i] \in Events
         /\ log[n] # <<>> <=> Len(log[n]) >= 1
BY EmptySeq, LenProperties DEF SyncTypeOK, Positions

\* What an append does to one log and leaves of the others.
LEMMA AppendOne ==
  ASSUME SyncTypeOK, NEW n \in Node, NEW e \in Events,
         log' = [log EXCEPT ![n] = Append(@, e)]
  PROVE  /\ log' \in [Node -> Seq(Events)]
         /\ log'[n] = Append(log[n], e)
         /\ Len(log'[n]) = Len(log[n]) + 1
         /\ log'[n][Len(log[n]) + 1] = e
         /\ \A i \in Positions(log[n]) : log'[n][i] = log[n][i]
         /\ \A m \in Node : m # n => log'[m] = log[m]
<1>1. log[n] \in Seq(Events)
  BY SeqFacts
<1>2. /\ Append(log[n], e) \in Seq(Events)
      /\ Len(Append(log[n], e)) = Len(log[n]) + 1
      /\ \A i \in 1 .. Len(log[n]) : Append(log[n], e)[i] = log[n][i]
      /\ Append(log[n], e)[Len(log[n]) + 1] = e
  BY <1>1, AppendProperties
<1>3. log'[n] = Append(log[n], e) /\ \A m \in Node : m # n => log'[m] = log[m]
  BY DEF SyncTypeOK
<1>4. log' \in [Node -> Seq(Events)]
  BY <1>2 DEF SyncTypeOK
<1> QED BY <1>2, <1>3, <1>4 DEF Positions

\* A log is only ever extended, by one event.
LEMMA Grows ==
  ASSUME SyncTypeOK, Changed
  PROVE  /\ log' \in [Node -> Seq(Events)]
         /\ \A n \in Node : Len(log[n]) <= Len(log'[n]) /\ Len(log'[n]) \in Nat
         /\ \A n \in Node : \A i \in Positions(log[n]) :
              i \in Positions(log'[n]) /\ log'[n][i] = log[n][i]
<1>1. CASE log' = log
  BY <1>1, SeqFacts DEF SyncTypeOK
<1>2. ASSUME NEW n \in Node, NEW e \in Events, log' = [log EXCEPT ![n] = Append(@, e)]
      PROVE  /\ log' \in [Node -> Seq(Events)]
             /\ \A m \in Node : Len(log[m]) <= Len(log'[m]) /\ Len(log'[m]) \in Nat
             /\ \A m \in Node : \A i \in Positions(log[m]) :
                  i \in Positions(log'[m]) /\ log'[m][i] = log[m][i]
  <2>1. log' \in [Node -> Seq(Events)]
    BY <1>2, AppendOne
  <2>2. ASSUME NEW m \in Node
        PROVE  /\ Len(log[m]) <= Len(log'[m]) /\ Len(log'[m]) \in Nat
               /\ \A i \in Positions(log[m]) : i \in Positions(log'[m]) /\ log'[m][i] = log[m][i]
    <3>1. Len(log[m]) \in Nat /\ Len(log[n]) \in Nat
      BY SeqFacts
    <3>2. CASE m = n
      BY <1>2, <3>1, <3>2, AppendOne DEF Positions
    <3>3. CASE m # n
      BY <1>2, <3>1, <3>3, AppendOne DEF Positions
    <3> QED BY <3>2, <3>3
  <2> QED BY <2>1, <2>2
<1>3. ASSUME NEW n \in Node, NEW to \in Node \cup {None}, Published(n, to)
      PROVE  \E e \in Events : log' = [log EXCEPT ![n] = Append(@, e)]
  BY <1>3 DEF Published, Event, Events
<1>4. ASSUME NEW n \in Node, NEW m \in Node, TakenOver(n, m)
      PROVE  \E e \in Events : log' = [log EXCEPT ![n] = Append(@, e)]
  <2>1. Len(log[n]) + 1 \in Positions(log[m])
    BY <1>4, SeqFacts DEF TakenOver, Positions
  <2>2. log[m][Len(log[n]) + 1] \in Events
    BY <2>1, SeqFacts
  <2> QED BY <1>4, <2>2 DEF TakenOver
<1> QED BY <1>1, <1>2, <1>3, <1>4 DEF Changed
-----------------------------------------------------------------------------
(* Where the session is. *)

\* A nonempty set of naturals has a least element.
LEMMA LeastPosition ==
  ASSUME NEW T \in SUBSET Nat, T # {}
  PROVE  \E x \in T : \A y \in T : x <= y
<1> DEFINE R == {ss \in Nat \X Nat : ss[1] < ss[2]}
<1>1. IsWellFoundedOn(R, Nat)
  BY NatLessThanWellFounded, Zenon DEF OpToRel
<1>2. \A x, y \in Nat : <<y, x>> \notin R => x <= y
  OBVIOUS
<1> HIDE DEF R
<1>3. PICK x \in T : \A y \in T : <<y, x>> \notin R
  BY <1>1, WFMin
<1> QED BY <1>2, <1>3

\* A nonempty set of positions has a last one.
LEMMA LatestPosition ==
  ASSUME NEW n \in Nat, NEW T \in SUBSET (1 .. n), T # {}
  PROVE  \E x \in T : \A y \in T : y <= x
<1> DEFINE U == {n - t : t \in T}
<1>1. U \in SUBSET Nat /\ U # {}
  <2>1. \A t \in T : n - t \in Nat
    OBVIOUS
  <2> QED BY <2>1
<1>2. PICK u \in U : \A v \in U : u <= v
  <2> HIDE DEF U
  <2> QED BY <1>1, LeastPosition
<1>3. PICK x \in T : u = n - x
  OBVIOUS
<1>4. ASSUME NEW y \in T PROVE y <= x
  <2>1. n - y \in U
    OBVIOUS
  <2>2. u <= n - y
    BY <1>2, <2>1
  <2> QED BY <2>2, <1>3
<1> QED BY <1>4

LEMMA LocationIsNode ==
  ASSUME SyncTypeOK, Begun
  PROVE  Location \in Node
<1> DEFINE l == log[Host]
<1>1. CASE l = <<>>
  BY <1>1, NodeFacts DEF Location
<1>2. CASE l # <<>>
  <2> DEFINE T == {i \in Positions(l) : l[i].to # None}
  <2>1. Len(l) \in Nat /\ T \in SUBSET (1 .. Len(l))
    BY SeqFacts, NodeFacts DEF Positions
  <2>2. 1 \in Positions(l) /\ l[1].to = Creator
    BY <1>2, SeqFacts, NodeFacts DEF Positions, Begun, Event
  <2>3. T # {}
    BY <2>2, NodeFacts
  <2>4. PICK x \in T : \A y \in T : y <= x
    <3> HIDE DEF l, T
    <3> QED BY <2>1, <2>3, LatestPosition
  <2>5. x \in Positions(l) /\ l[x].to # None /\ \A j \in Positions(l) : j > x => l[j].to = None
    BY <2>1, <2>4 DEF Positions
  <2> DEFINE c == CHOOSE i \in Positions(l) : l[i].to # None /\ \A j \in Positions(l) : j > i => l[j].to = None
  <2>6. c \in Positions(l) /\ l[c].to # None
    BY <2>5
  <2>7. l[c] \in Events
    BY <2>6, SeqFacts, NodeFacts
  <2>8. Location = l[c].to
    BY <1>2 DEF Location, LocationOf
  <2> HIDE DEF c
  <2> QED BY <2>6, <2>7, <2>8 DEF Events
<1> QED BY <1>1, <1>2
-----------------------------------------------------------------------------
(* What a replay does. *)

LEMMA ReplayOne ==
  ASSUME SyncTypeOK, NEW n \in Node, NEW o \in Node, NEW i \in Nat \ {0}, NEW e \in Events,
         NEW strict \in BOOLEAN, NEW outcome, outcome = Outcome(n, i, e, o, strict),
         Replay(n, e, o, outcome)
  PROVE  /\ owner' \in [Node -> Node \cup {None}]
         /\ \/ log' = log
            \/ /\ i = Len(log[n]) + 1
               /\ log' = [log EXCEPT ![n] = Append(@, e)]
               /\ owner'[n] = o
         /\ strict /\ ~Dies(outcome) => i \in Positions(log'[n]) /\ log'[n][i] = e
<1>1. Len(log[n]) \in Nat
  BY SeqFacts
<1>2. owner' \in [Node -> Node \cup {None}]
  BY DEF SyncTypeOK, Replay
<1>3. ASSUME outcome = "new"
      PROVE  i = Len(log[n]) + 1 /\ owner[n] \in {None, o}
  BY <1>1, <1>3 DEF Outcome
<1>4. ASSUME outcome = "new" PROVE owner'[n] = o
  BY <1>3, <1>4 DEF Replay, SyncTypeOK
<1>5. ASSUME strict, ~Dies(outcome)
      PROVE  i \in Positions(log'[n]) /\ log'[n][i] = e
  <2>1. CASE outcome = "new"
    <3>1. i = Len(log[n]) + 1
      BY <1>3, <2>1
    <3>2. log' = [log EXCEPT ![n] = Append(@, e)]
      BY <2>1 DEF Replay
    <3>3. log'[n][i] = e /\ Len(log'[n]) = i
      BY <1>1, <3>1, <3>2, AppendOne
    <3> QED BY <1>1, <3>1, <3>3 DEF Positions
  <2>2. CASE outcome # "new"
    <3>1. i <= Len(log[n]) /\ log[n][i] = e
      BY <1>1, <1>5, <2>2 DEF Outcome, Dies
    <3>2. log' = log
      BY <2>2 DEF Replay
    <3> QED BY <1>1, <3>1, <3>2 DEF Positions
  <2> QED BY <2>1, <2>2
<1>6. \/ log' = log
      \/ /\ i = Len(log[n]) + 1
         /\ log' = [log EXCEPT ![n] = Append(@, e)]
         /\ owner'[n] = o
  BY <1>3, <1>4 DEF Replay
<1> QED BY <1>2, <1>5, <1>6
-----------------------------------------------------------------------------
(* What holds of the parts a step leaves alone. *)

LEMMA DrainsStay ==
  ASSUME Rest, Changed, busy' = busy
  PROVE  DrainsArrived'
<1> SUFFICES ASSUME NEW n \in Node, busy[n] PROVE log'[n] # <<>>
  BY DEF DrainsArrived
<1>1. Len(log[n]) >= 1 /\ Len(log[n]) <= Len(log'[n]) /\ log'[n] \in Seq(Events)
  BY SeqFacts, Grows DEF Rest, DrainsArrived
<1>2. Len(log'[n]) >= 1
  BY <1>1, LenProperties
<1> QED BY <1>1, <1>2, EmptySeq

LEMMA LinksPublish ==
  ASSUME Rest, Changed, wire' = wire, loop' = loop,
         \A w \in Space : unsent'[w] \subseteq Positions(log'[w])
  PROVE  LinksPositioned'
<1> SUFFICES ASSUME NEW w \in Space
             PROVE  /\ \A i \in Positions(wire[w]) : wire[w][i] \in Positions(log'[w])
                    /\ loop[w].pc = "history" => loop[w].last <= Len(log'[w])
  BY DEF LinksPositioned, Positions
<1>1. w \in Node /\ Positions(log[w]) \subseteq Positions(log'[w])
  BY NodeFacts, Grows DEF Rest
<1>2. Len(log[w]) \in Nat /\ Len(log'[w]) \in Nat /\ Len(log[w]) <= Len(log'[w])
  BY <1>1, Grows, SeqFacts DEF Rest
<1>3. loop[w].pc = "history" => loop[w].last \in Nat
  BY DEF Rest, SyncTypeOK, Off, Pages
<1> QED BY <1>1, <1>2, <1>3 DEF Rest, LinksPositioned

LEMMA LinksStay ==
  ASSUME Rest, Changed, unsent' = unsent, wire' = wire, loop' = loop
  PROVE  LinksPositioned'
<1>1. \A w \in Space : unsent'[w] \subseteq Positions(log'[w])
  BY Grows, NodeFacts DEF Rest, LinksPositioned
<1> QED BY <1>1, LinksPublish

LEMMA HostHasMore ==
  ASSUME Rest, Changed, log[Host] # <<>>
  PROVE  log'[Host] # <<>>
<1>1. Len(log[Host]) >= 1 /\ Len(log[Host]) <= Len(log'[Host]) /\ log'[Host] \in Seq(Events)
  BY SeqFacts, NodeFacts, Grows DEF Rest
<1>2. Len(log'[Host]) >= 1
  BY <1>1, LenProperties
<1> QED BY <1>1, <1>2, EmptySeq

LEMMA WarpStays ==
  ASSUME Rest, Changed, warp' = warp
  PROVE  WarpPositioned'
<1> SUFFICES ASSUME warp # NoWarp
             PROVE  /\ log'[Host] # <<>>
                    /\ warp.pc \in {"sourceSync", "sourceReplay"} => warp.from \in Space
                    /\ warp.pc = "sourceReplay" => warp.last <= Len(log'[warp.from])
                    /\ warp.pc = "replay" => Replayed'
  BY DEF WarpPositioned
<1>1. warp \in Warps
  BY DEF Rest, SyncTypeOK
<1>2. log'[Host] # <<>>
  BY HostHasMore DEF Rest, WarpPositioned
<1>3. Len(log[warp.from]) \in Nat /\ Len(log'[warp.from]) \in Nat /\ Len(log[warp.from]) <= Len(log'[warp.from])
  BY <1>1, SeqFacts, Grows DEF Rest, Warps
<1>4. ASSUME warp.pc = "replay" PROVE Replayed'
  <2>1. Replayed
    BY <1>4 DEF Rest, WarpPositioned
  <2>2. Len(log[Host]) \in Nat /\ Len(log'[Host]) \in Nat /\ Len(log[Host]) <= Len(log'[Host])
    BY SeqFacts, Grows, NodeFacts DEF Rest
  <2>3. warp.last \in Nat /\ warp.next \in Nat /\ warp.last <= Len(log'[Host])
    BY <1>1, <2>1, <2>2 DEF Warps, Replayed
  <2>4. ASSUME NEW j \in 1 .. warp.next - 1
        PROVE  j \in Positions(log'[warp.target]) /\ log'[warp.target][j] = log'[Host][j]
    <3>1. j \in Positions(log[warp.target]) /\ log[warp.target][j] = log[Host][j]
      BY <2>1 DEF Replayed
    <3>2. j \in Positions(log[Host])
      BY <2>1, <2>2, <2>3 DEF Replayed, Positions
    <3>3. warp.target \in Node /\ Host \in Node
      BY <1>1, NodeFacts DEF Warps
    <3> QED BY <3>1, <3>2, <3>3, Grows DEF Rest
  <2> QED BY <2>1, <2>3, <2>4 DEF Replayed
<1> QED BY <1>1, <1>2, <1>3, <1>4 DEF Rest, WarpPositioned, Warps
-----------------------------------------------------------------------------
(* Every action of SyncNext changes the logs as Changed says, and keeps Rest. *)

LEMMA PublishOne ==
  ASSUME Rest, NEW n \in Node, NEW to \in Node \cup {None}, log[n] # <<>>, Publish(n, to)
  PROVE  /\ Changed
         /\ owner' = owner
         /\ unsent' \in [Space -> SUBSET (Nat \ {0})]
         /\ \A w \in Space : unsent'[w] \subseteq Positions(log'[w])
<1>1. Changed
  BY DEF Changed, Published, Publish
<1>2. Len(log'[n]) \in Nat \ {0} /\ Len(log'[n]) \in Positions(log'[n])
  <2>1. Event(n, to) \in Events
    BY DEF Event, Events
  <2>2. Len(log'[n]) = Len(log[n]) + 1
    BY <2>1, AppendOne DEF Publish, Rest
  <2> QED BY <2>2, SeqFacts DEF Positions, Rest
<1>3. owner' = owner /\ (n = Host => unsent' = unsent)
      /\ (n # Host => unsent' = [unsent EXCEPT ![n] = @ \cup {Len(log'[n])}])
  BY DEF Publish
<1>4. unsent' \in [Space -> SUBSET (Nat \ {0})]
  <2>1. unsent \in [Space -> SUBSET (Nat \ {0})]
    BY DEF Rest, SyncTypeOK
  <2>2. PICK k \in Nat \ {0} : k = Len(log'[n])
    BY <1>2
  <2>3. CASE n = Host
    BY <1>3, <2>1, <2>3
  <2>4. CASE n # Host
    BY <1>3, <2>1, <2>2, <2>4, NodeFacts
  <2> QED BY <2>3, <2>4
<1>5. ASSUME NEW w \in Space PROVE unsent'[w] \subseteq Positions(log'[w])
  <2>1. unsent[w] \subseteq Positions(log'[w])
    BY <1>1, Grows, NodeFacts DEF Rest, LinksPositioned
  <2>2. w # n => unsent'[w] = unsent[w]
    BY <1>3, NodeFacts DEF Rest, SyncTypeOK
  <2>3. w = n => unsent'[w] = unsent[w] \cup {Len(log'[n])}
    BY <1>3, NodeFacts DEF Rest, SyncTypeOK
  <2> QED BY <2>1, <2>2, <2>3, <1>2
<1> QED BY <1>1, <1>3, <1>4, <1>5

LEMMA StartDrainKeeps ==
  ASSUME Rest, NEW n \in Node, StartDrain(n)
  PROVE  Changed /\ Rest'
<1>1. Changed
  BY DEF Changed, StartDrain, replicas
<1>2. SyncTypeOK'
  BY DEF Rest, SyncTypeOK, StartDrain, replicas, links
<1>3. DrainsArrived'
  BY DEF Rest, SyncTypeOK, DrainsArrived, StartDrain, replicas
<1>4. LinksPositioned'
  BY <1>1, LinksStay DEF StartDrain, links
<1>5. WarpPositioned'
  BY <1>1, WarpStays DEF StartDrain
<1> QED BY <1>1, <1>2, <1>3, <1>4, <1>5 DEF Rest

LEMMA EndDrainKeeps ==
  ASSUME Rest, NEW n \in Node, EndDrain(n)
  PROVE  Changed /\ Rest'
<1>1. Changed
  BY DEF Changed, EndDrain, replicas
<1>2. SyncTypeOK'
  BY DEF Rest, SyncTypeOK, EndDrain, replicas, links
<1>3. DrainsArrived'
  BY DEF Rest, SyncTypeOK, DrainsArrived, EndDrain, replicas
<1>4. LinksPositioned'
  BY <1>1, LinksStay DEF EndDrain, links
<1>5. WarpPositioned'
  BY <1>1, WarpStays DEF EndDrain
<1> QED BY <1>1, <1>2, <1>3, <1>4, <1>5 DEF Rest

LEMMA WriteKeeps ==
  ASSUME Rest, NEW n \in Node, Write(n)
  PROVE  Changed /\ Rest'
<1>1. /\ Changed
      /\ owner' = owner
      /\ unsent' \in [Space -> SUBSET (Nat \ {0})]
      /\ \A w \in Space : unsent'[w] \subseteq Positions(log'[w])
  BY PublishOne DEF Write, Rest, DrainsArrived
<1>2. SyncTypeOK'
  BY <1>1, Grows DEF Rest, SyncTypeOK, Write
<1>3. DrainsArrived'
  BY <1>1, DrainsStay DEF Write
<1>4. LinksPositioned'
  BY <1>1, LinksPublish DEF Write
<1>5. WarpPositioned'
  BY <1>1, WarpStays DEF Write
<1> QED BY <1>1, <1>2, <1>3, <1>4, <1>5 DEF Rest

LEMMA NotifyKeeps ==
  ASSUME Rest, NEW w \in Space, Notify(w)
  PROVE  Changed /\ Rest'
<1>1. Changed
  BY DEF Changed, Notify, replicas
<1>2. PICK i \in unsent[w] :
        /\ unsent' = [unsent EXCEPT ![w] = @ \ {i}]
        /\ wire' = [wire EXCEPT ![w] = IF loop[w].pc \in {"asking", "history", "live"} THEN Append(@, i) ELSE @]
  BY DEF Notify
<1>3. /\ wire[w] \in Seq(Nat \ {0})
      /\ i \in Nat \ {0}
  BY DEF Rest, SyncTypeOK
<1>4. /\ Append(wire[w], i) \in Seq(Nat \ {0})
      /\ Len(Append(wire[w], i)) = Len(wire[w]) + 1
      /\ \A j \in 1 .. Len(wire[w]) : Append(wire[w], i)[j] = wire[w][j]
      /\ Append(wire[w], i)[Len(wire[w]) + 1] = i
      /\ Len(wire[w]) \in Nat
  BY <1>3, AppendProperties, LenProperties
<1>5. SyncTypeOK'
  BY <1>2, <1>4 DEF Rest, SyncTypeOK, Notify, replicas
<1>6. DrainsArrived'
  BY <1>1, DrainsStay DEF Notify
<1>7. LinksPositioned'
  <2> SUFFICES ASSUME NEW v \in Space
               PROVE  /\ unsent'[v] \subseteq Positions(log[v])
                      /\ \A j \in Positions(wire'[v]) : wire'[v][j] \in Positions(log[v])
                      /\ loop[v].pc = "history" => loop[v].last <= Len(log[v])
    BY DEF LinksPositioned, Notify, replicas, Positions
  <2>1. /\ unsent[v] \subseteq Positions(log[v])
        /\ \A j \in Positions(wire[v]) : wire[v][j] \in Positions(log[v])
        /\ loop[v].pc = "history" => loop[v].last <= Len(log[v])
    BY DEF Rest, LinksPositioned
  <2>2. unsent'[v] \subseteq unsent[v]
    BY <1>2 DEF Rest, SyncTypeOK
  <2>3. wire'[v] = wire[v] \/ (v = w /\ wire'[v] = Append(wire[v], i))
    BY <1>2 DEF Rest, SyncTypeOK
  <2> QED BY <2>1, <2>2, <2>3, <1>2, <1>4 DEF Positions
<1>8. WarpPositioned'
  BY <1>1, WarpStays DEF Notify
<1> QED BY <1>1, <1>5, <1>6, <1>7, <1>8 DEF Rest

LEMMA LoopPage ==
  ASSUME Rest, NEW w \in Space, loop[w].pc \in {"asking", "history"}
  PROVE  loop[w] \in Pages
<1>1. loop[w] \in {Off, [pc |-> "dead"], [pc |-> "live"]} \cup Pages
  BY DEF Rest, SyncTypeOK
<1> QED BY <1>1 DEF Off

LEMMA PageFields ==
  ASSUME NEW p \in Pages
  PROVE  /\ p.next \in Nat \ {0} /\ p.last \in Nat
         /\ \A k \in Nat \ {0} : /\ [p EXCEPT !.next = k] \in Pages
                                 /\ [p EXCEPT !.next = k].last = p.last
                                 /\ [p EXCEPT !.next = k].pc = p.pc
         /\ \A m \in Nat : /\ [p EXCEPT !.pc = "history", !.last = m] \in Pages
                           /\ [p EXCEPT !.pc = "history", !.last = m].last = m
BY DEF Pages

LEMMA StartSyncKeeps ==
  ASSUME Rest, NEW w \in Space, StartSync(w)
  PROVE  Changed /\ Rest'
<1>1. Changed
  BY DEF Changed, StartSync, replicas
<1>2. SyncTypeOK'
  BY DEF Rest, SyncTypeOK, StartSync, replicas
<1>3. DrainsArrived'
  BY <1>1, DrainsStay DEF StartSync
<1>4. LinksPositioned'
  BY DEF Rest, SyncTypeOK, LinksPositioned, Positions, StartSync, replicas, Off
<1>5. WarpPositioned'
  BY <1>1, WarpStays DEF StartSync
<1> QED BY <1>1, <1>2, <1>3, <1>4, <1>5 DEF Rest

LEMMA ConnectKeeps ==
  ASSUME Rest, NEW w \in Space, Connect(w)
  PROVE  Changed /\ Rest'
<1>1. Changed
  BY DEF Changed, Connect, replicas
<1>2. Page("asking", AskedAfter(w) + 1, 0) \in Pages
  BY SeqFacts, NodeFacts DEF Page, Pages, AskedAfter, Rest
<1>3. wire' = [wire EXCEPT ![w] = <<>>] /\ wire' \in [Space -> Seq(Nat \ {0})]
  BY DEF Rest, SyncTypeOK, Connect
<1>4. SyncTypeOK'
  BY <1>2, <1>3 DEF Rest, SyncTypeOK, Connect, replicas
<1>5. DrainsArrived'
  BY <1>1, DrainsStay DEF Connect
<1>6. LinksPositioned'
  <2> SUFFICES ASSUME NEW v \in Space
               PROVE  /\ unsent[v] \subseteq Positions(log[v])
                      /\ \A j \in Positions(wire'[v]) : wire'[v][j] \in Positions(log[v])
                      /\ loop'[v].pc = "history" => loop'[v].last <= Len(log[v])
    BY DEF LinksPositioned, Connect, replicas, Positions
  <2>1. /\ unsent[v] \subseteq Positions(log[v])
        /\ \A j \in Positions(wire[v]) : wire[v][j] \in Positions(log[v])
        /\ loop[v].pc = "history" => loop[v].last <= Len(log[v])
    BY DEF Rest, LinksPositioned
  <2>2. \A j \in Positions(wire'[v]) : wire'[v][j] \in Positions(log[v])
    BY <1>3, <2>1 DEF Rest, SyncTypeOK, Positions
  <2>3. loop'[v] = loop[v] \/ loop'[v].pc = "asking"
    BY DEF Rest, SyncTypeOK, Connect, Page
  <2> QED BY <2>1, <2>2, <2>3
<1>7. WarpPositioned'
  BY <1>1, WarpStays DEF Connect
<1> QED BY <1>1, <1>4, <1>5, <1>6, <1>7 DEF Rest

LEMMA FetchHistoryKeeps ==
  ASSUME Rest, NEW w \in Space, FetchHistory(w)
  PROVE  Changed /\ Rest'
<1>1. Changed
  BY DEF Changed, FetchHistory, replicas
<1>2. loop[w] \in Pages /\ Len(log[w]) \in Nat
  BY LoopPage, SeqFacts, NodeFacts DEF Rest, FetchHistory
<1>3. PICK p : p = [loop[w] EXCEPT !.pc = "history", !.last = Len(log[w])]
  OBVIOUS
<1>4. p \in Pages /\ p.last = Len(log[w])
  BY <1>2, <1>3, PageFields
<1>9. loop' = [loop EXCEPT ![w] = p]
  BY <1>3 DEF FetchHistory
<1>5. SyncTypeOK'
  BY <1>4, <1>9 DEF Rest, SyncTypeOK, FetchHistory, replicas
<1>6. DrainsArrived'
  BY <1>1, DrainsStay DEF FetchHistory
<1>7. LinksPositioned'
  BY <1>4, <1>9, SeqFacts, NodeFacts
     DEF Rest, SyncTypeOK, LinksPositioned, Positions, FetchHistory, replicas
<1>8. WarpPositioned'
  BY <1>1, WarpStays DEF FetchHistory
<1> QED BY <1>1, <1>5, <1>6, <1>7, <1>8 DEF Rest

LEMMA GoLiveKeeps ==
  ASSUME Rest, NEW w \in Space, GoLive(w)
  PROVE  Changed /\ Rest'
<1>1. Changed
  BY DEF Changed, GoLive, replicas
<1>2. SyncTypeOK'
  BY DEF Rest, SyncTypeOK, GoLive, replicas
<1>3. DrainsArrived'
  BY <1>1, DrainsStay DEF GoLive
<1>4. LinksPositioned'
  BY DEF Rest, SyncTypeOK, LinksPositioned, Positions, GoLive, replicas
<1>5. WarpPositioned'
  BY <1>1, WarpStays DEF GoLive
<1> QED BY <1>1, <1>2, <1>3, <1>4, <1>5 DEF Rest

LEMMA DisconnectKeeps ==
  ASSUME Rest, NEW w \in Space, Disconnect(w)
  PROVE  Changed /\ Rest'
<1>1. Changed
  BY DEF Changed, Disconnect, replicas
<1>2. wire' = [wire EXCEPT ![w] = <<>>] /\ wire' \in [Space -> Seq(Nat \ {0})]
  BY DEF Rest, SyncTypeOK, Disconnect
<1>3. SyncTypeOK'
  BY <1>2 DEF Rest, SyncTypeOK, Disconnect, replicas
<1>4. DrainsArrived'
  BY <1>1, DrainsStay DEF Disconnect
<1>5. LinksPositioned'
  BY <1>2 DEF Rest, SyncTypeOK, LinksPositioned, Positions, Disconnect, replicas, Off
<1>6. WarpPositioned'
  BY <1>1, WarpStays DEF Disconnect
<1> QED BY <1>1, <1>3, <1>4, <1>5, <1>6 DEF Rest

LEMMA StreamFailsKeeps ==
  ASSUME Rest, NEW w \in Space, StreamFails(w)
  PROVE  Changed /\ Rest'
<1>1. Changed
  BY DEF Changed, StreamFails, replicas
<1>2. wire' = [wire EXCEPT ![w] = <<>>] /\ wire' \in [Space -> Seq(Nat \ {0})]
  BY DEF Rest, SyncTypeOK, StreamFails
<1>3. SyncTypeOK'
  BY <1>2 DEF Rest, SyncTypeOK, StreamFails, replicas
<1>4. DrainsArrived'
  BY <1>1, DrainsStay DEF StreamFails
<1>5. LinksPositioned'
  BY <1>2 DEF Rest, SyncTypeOK, LinksPositioned, Positions, StreamFails, replicas
<1>6. WarpPositioned'
  BY <1>1, WarpStays DEF StreamFails
<1> QED BY <1>1, <1>3, <1>4, <1>5, <1>6 DEF Rest

\* The host replays an event of a workspace, for its sync loop or for a warp.
LEMMA HostReplays ==
  ASSUME Rest, NEW w \in Space, NEW i \in Positions(log[w]),
         Replay(Host, log[w][i], w, Outcome(Host, i, log[w][i], w, FALSE))
  PROVE  Changed /\ owner' \in [Node -> Node \cup {None}]
<1>1. Len(log[w]) \in Nat /\ log[w][i] \in Events /\ i \in Nat \ {0} /\ i <= Len(log[w])
  BY SeqFacts, NodeFacts DEF Rest, Positions
<1>2. PICK outcome : outcome = Outcome(Host, i, log[w][i], w, FALSE)
  OBVIOUS
<1>3. Replay(Host, log[w][i], w, outcome)
  BY <1>2
<1>4. /\ owner' \in [Node -> Node \cup {None}]
      /\ \/ log' = log
         \/ /\ i = Len(log[Host]) + 1
            /\ log' = [log EXCEPT ![Host] = Append(@, log[w][i])]
            /\ owner'[Host] = w
  BY <1>1, <1>2, <1>3, NodeFacts, ReplayOne DEF Rest
<1>5. CASE log' = log
  BY <1>4, <1>5 DEF Changed
<1>6. CASE log' # log
  <2>1. TakenOver(Host, w)
    BY <1>1, <1>4, <1>6, SeqFacts, NodeFacts DEF TakenOver, Rest
  <2> QED BY <1>4, <2>1, NodeFacts DEF Changed
<1> QED BY <1>4, <1>5, <1>6

LEMMA ReplayHistoryKeeps ==
  ASSUME Rest, NEW w \in Space, ReplayHistory(w)
  PROVE  Changed /\ Rest'
<1>1. loop[w] \in Pages /\ loop[w].pc = "history" /\ loop[w].next <= loop[w].last /\ loop[w].last <= Len(log[w])
  BY LoopPage DEF Rest, LinksPositioned, ReplayHistory
<1>2. PICK i : i = loop[w].next
  OBVIOUS
<1>3. i \in Positions(log[w])
  BY <1>1, <1>2, SeqFacts, NodeFacts DEF Pages, Positions, Rest
<1>4. PICK outcome : outcome = Outcome(Host, i, log[w][i], w, FALSE)
  OBVIOUS
<1>5. /\ Replay(Host, log[w][i], w, outcome)
      /\ behind' = [behind EXCEPT ![w] = @ \/ Misses(outcome)]
      /\ \/ loop' = [loop EXCEPT ![w] = [pc |-> "dead"]] /\ wire' = [wire EXCEPT ![w] = <<>>]
         \/ loop' = [loop EXCEPT ![w].next = i + 1] /\ wire' = wire
  BY <1>2, <1>4 DEF ReplayHistory
<1>6. Changed /\ owner' \in [Node -> Node \cup {None}]
  BY <1>3, <1>4, <1>5, HostReplays
<1>7. behind' \in [Space -> BOOLEAN]
  BY <1>5 DEF Rest, SyncTypeOK, Misses
<1>14. PICK p : p = [loop[w] EXCEPT !.next = i + 1]
  OBVIOUS
<1>8. p \in Pages /\ p.last = loop[w].last
  <2>1. loop[w].next \in Nat \ {0}
    BY <1>1 DEF Pages
  <2>2. i + 1 \in Nat \ {0}
    BY <1>2, <2>1
  <2> QED BY <1>1, <1>14, <2>2, PageFields
<1>9. /\ p.last = loop[w].last
      /\ \/ loop' = [loop EXCEPT ![w] = [pc |-> "dead"]] /\ wire' = [wire EXCEPT ![w] = <<>>]
         \/ loop' = [loop EXCEPT ![w] = p] /\ wire' = wire
  BY <1>5, <1>8, <1>14
<1>10. SyncTypeOK'
  <2>1. log' \in [Node -> Seq(Events)]
    BY <1>6, Grows DEF Rest
  <2>2. wire' \in [Space -> Seq(Nat \ {0})]
    <3>1. wire' = wire \/ wire' = [wire EXCEPT ![w] = <<>>]
      BY <1>9
    <3>2. wire \in [Space -> Seq(Nat \ {0})] /\ <<>> \in Seq(Nat \ {0})
      BY EmptySeq DEF Rest, SyncTypeOK
    <3> HIDE DEF Rest, SyncTypeOK
    <3> QED BY <3>1, <3>2
  <2>3. loop' \in [Space -> {Off, [pc |-> "dead"], [pc |-> "live"]} \cup Pages]
    <3>1. CASE loop' = [loop EXCEPT ![w] = [pc |-> "dead"]]
      BY <3>1 DEF Rest, SyncTypeOK
    <3>2. CASE loop' = [loop EXCEPT ![w] = p]
      BY <1>8, <3>2 DEF Rest, SyncTypeOK
    <3> QED BY <1>9, <3>1, <3>2
  <2> QED BY <1>6, <1>7, <2>1, <2>2, <2>3 DEF Rest, SyncTypeOK, ReplayHistory
<1>11. DrainsArrived'
  BY <1>6, DrainsStay DEF ReplayHistory
<1>12. LinksPositioned'
  <2> SUFFICES ASSUME NEW v \in Space
               PROVE  /\ unsent[v] \subseteq Positions(log'[v])
                      /\ \A j \in Positions(wire'[v]) : wire'[v][j] \in Positions(log'[v])
                      /\ loop'[v].pc = "history" => loop'[v].last <= Len(log'[v])
    BY DEF LinksPositioned, ReplayHistory, Positions
  <2>1. v \in Node /\ Len(log[v]) \in Nat /\ Len(log'[v]) \in Nat /\ Len(log[v]) <= Len(log'[v])
    BY <1>6, NodeFacts, SeqFacts, Grows DEF Rest
  <2>2. /\ unsent[v] \subseteq Positions(log[v])
        /\ \A j \in Positions(wire[v]) : wire[v][j] \in Positions(log[v])
        /\ loop[v].pc = "history" => loop[v].last <= Len(log[v])
    BY DEF Rest, LinksPositioned
  <2>3. \A j \in Positions(wire'[v]) : wire'[v][j] \in Positions(log[v])
    BY <1>9, <2>2 DEF Rest, SyncTypeOK, Positions
  <2>4. ASSUME loop'[v].pc = "history"
        PROVE  loop'[v].last = loop[v].last /\ loop[v].pc = "history" /\ loop[v].last \in Nat
    <3>1. CASE v = w
      <4>1. loop'[w] = [pc |-> "dead"] \/ loop'[w] = p
        BY <1>9 DEF Rest, SyncTypeOK
      <4>2. loop'[w] = p
        BY <2>4, <3>1, <4>1
      <4>3. loop[w].last \in Nat
        BY <1>1 DEF Pages
      <4> QED BY <1>1, <1>8, <3>1, <4>2, <4>3
    <3>2. CASE v # w
      BY <1>9, <2>4, <3>2, LoopPage, PageFields DEF Rest, SyncTypeOK
    <3> QED BY <3>1, <3>2
  <2> QED BY <2>1, <2>2, <2>3, <2>4 DEF Positions
<1>13. WarpPositioned'
  BY <1>6, WarpStays DEF ReplayHistory
<1> QED BY <1>6, <1>10, <1>11, <1>12, <1>13 DEF Rest

LEMMA ReplayLiveKeeps ==
  ASSUME Rest, NEW w \in Space, ReplayLive(w)
  PROVE  Changed /\ Rest'
<1>1. /\ wire[w] \in Seq(Nat \ {0}) /\ wire[w] # <<>>
      /\ \A j \in Positions(wire[w]) : wire[w][j] \in Positions(log[w])
  BY DEF Rest, SyncTypeOK, LinksPositioned, ReplayLive
<1>2. PICK i : i = Head(wire[w])
  OBVIOUS
<1>3. i \in Positions(log[w])
  <2>1. i = wire[w][1] /\ 1 \in Positions(wire[w])
    BY <1>1, <1>2, LenProperties, EmptySeq DEF Positions
  <2> QED BY <1>1, <2>1
<1>4. PICK outcome : outcome = Outcome(Host, i, log[w][i], w, FALSE)
  OBVIOUS
<1>5. /\ Replay(Host, log[w][i], w, outcome)
      /\ behind' = [behind EXCEPT ![w] = @ \/ Misses(outcome)]
      /\ wire' = [wire EXCEPT ![w] = Tail(wire[w])]
  BY <1>2, <1>4 DEF ReplayLive
<1>6. Changed /\ owner' \in [Node -> Node \cup {None}]
  BY <1>3, <1>4, <1>5, HostReplays
<1>7. behind' \in [Space -> BOOLEAN]
  BY <1>5 DEF Rest, SyncTypeOK, Misses
<1>8. /\ Tail(wire[w]) \in Seq(Nat \ {0})
      /\ Len(Tail(wire[w])) = Len(wire[w]) - 1 /\ Len(wire[w]) \in Nat
      /\ \A j \in 1 .. Len(Tail(wire[w])) : Tail(wire[w])[j] = wire[w][j + 1]
  BY <1>1, HeadTailProperties, LenProperties
<1>9. SyncTypeOK'
  <2>1. log' \in [Node -> Seq(Events)]
    BY <1>6, Grows DEF Rest
  <2>2. wire' \in [Space -> Seq(Nat \ {0})]
    BY <1>5, <1>8 DEF Rest, SyncTypeOK
  <2> QED BY <1>6, <1>7, <2>1, <2>2 DEF Rest, SyncTypeOK, ReplayLive
<1>10. DrainsArrived'
  BY <1>6, DrainsStay DEF ReplayLive
<1>11. LinksPositioned'
  <2> SUFFICES ASSUME NEW v \in Space
               PROVE  /\ unsent[v] \subseteq Positions(log'[v])
                      /\ \A j \in Positions(wire'[v]) : wire'[v][j] \in Positions(log'[v])
                      /\ loop[v].pc = "history" => loop[v].last <= Len(log'[v])
    BY DEF LinksPositioned, ReplayLive, Positions
  <2>1. v \in Node /\ Len(log[v]) \in Nat /\ Len(log'[v]) \in Nat /\ Len(log[v]) <= Len(log'[v])
    BY <1>6, NodeFacts, SeqFacts, Grows DEF Rest
  <2>2. /\ unsent[v] \subseteq Positions(log[v])
        /\ \A j \in Positions(wire[v]) : wire[v][j] \in Positions(log[v])
        /\ loop[v].pc = "history" => loop[v].last <= Len(log[v])
    BY DEF Rest, LinksPositioned
  <2>3. \A j \in Positions(wire'[v]) : wire'[v][j] \in Positions(log[v])
    <3>1. CASE v = w
      <4>1. wire'[v] = Tail(wire[w])
        BY <1>5, <3>1 DEF Rest, SyncTypeOK
      <4>2. ASSUME NEW j \in 1 .. Len(Tail(wire[w])) PROVE Tail(wire[w])[j] \in Positions(log[w])
        <5>1. j + 1 \in Positions(wire[w])
          BY <1>8 DEF Positions
        <5> QED BY <1>1, <1>8, <5>1
      <4> QED BY <3>1, <4>1, <4>2 DEF Positions
    <3>2. CASE v # w
      BY <1>5, <2>2, <3>2 DEF Rest, SyncTypeOK
    <3> QED BY <3>1, <3>2
  <2>4. loop[v].pc = "history" => loop[v].last \in Nat
    BY LoopPage, PageFields
  <2> QED BY <2>1, <2>2, <2>3, <2>4 DEF Positions
<1>12. WarpPositioned'
  BY <1>6, WarpStays DEF ReplayLive
<1> QED BY <1>6, <1>9, <1>10, <1>11, <1>12 DEF Rest

\* The fields of a warp, and what setting some of them leaves of the others.
LEMMA WarpFields ==
  ASSUME NEW v \in Warps
  PROVE  /\ v.pc # "none" /\ v.from \in Node /\ v.target \in Node
         /\ v.next \in Nat \ {0} /\ v.last \in Nat
BY DEF Warps

LEMMA WarpAt ==
  ASSUME NEW v \in Warps, NEW u,
         NEW c \in {"read", "sourceSync", "sourceReplay", "claim", "copy", "replay", "move"},
         u = [v EXCEPT !.pc = c]
  PROVE  u \in Warps /\ u.pc = c /\ u.from = v.from /\ u.target = v.target
BY DEF Warps

LEMMA WarpTurns ==
  ASSUME NEW v \in Warps, NEW u, NEW k \in Nat \ {0}, u = [v EXCEPT !.next = k]
  PROVE  /\ u \in Warps /\ u.pc = v.pc /\ u.from = v.from /\ u.target = v.target
         /\ u.next = k /\ u.last = v.last
BY DEF Warps

\* A warp that is under way is a record of its fields.
LEMMA UnderWay ==
  ASSUME Rest
  PROVE  warp.pc # "none" \/ warp # NoWarp => warp \in Warps /\ warp # NoWarp
BY DEF Rest, SyncTypeOK, NoWarp, Warps

\* A step of the warp that leaves the logs, the drains and the links alone.
LEMMA WarpOnly ==
  ASSUME Rest, replicas' = replicas, busy' = busy, links' = links,
         warp' \in {NoWarp} \cup Warps, WarpPositioned'
  PROVE  Changed /\ Rest'
<1>1. Changed
  BY DEF Changed, replicas
<1>2. SyncTypeOK'
  BY DEF Rest, SyncTypeOK, replicas, links
<1>3. DrainsArrived'
  BY <1>1, DrainsStay
<1>4. LinksPositioned'
  BY <1>1, LinksStay DEF links
<1> QED BY <1>1, <1>2, <1>3, <1>4 DEF Rest

LEMMA WarpBeginKeeps ==
  ASSUME Rest, Begun, NEW target \in Node, WarpBegin(target)
  PROVE  Changed /\ Rest'
<1>1. Location \in Node
  BY LocationIsNode DEF Rest
<1>2. PICK from \in Node : from = Location
  BY <1>1
<1>3. PICK c \in {"read", "sourceSync"} : c = IF from = Host THEN "read" ELSE "sourceSync"
  BY Zenon
<1>4. warp' = [pc |-> c, from |-> from, target |-> target, next |-> 1, last |-> 0]
  BY <1>2, <1>3 DEF WarpBegin
<1>5. /\ warp' \in Warps /\ warp'.pc = c /\ warp'.from = from
  BY <1>4 DEF Warps
<1>6. WarpPositioned'
  BY <1>3, <1>5, NodeFacts DEF WarpPositioned, WarpBegin, replicas
<1> QED BY <1>5, <1>6, WarpOnly DEF WarpBegin

LEMMA WarpSourceSyncKeeps ==
  ASSUME Rest, WarpSourceSync
  PROVE  Changed /\ Rest'
<1>1. warp \in Warps /\ warp # NoWarp /\ warp.from \in Space /\ log[Host] # <<>>
  BY UnderWay DEF Rest, WarpPositioned, WarpSourceSync
<1>2. PICK k \in Nat \ {0} : k = AskedAfter(warp.from) + 1
  BY SeqFacts, NodeFacts DEF AskedAfter, Rest
<1>3. PICK m \in Nat : m = Len(log[warp.from])
  BY <1>1, SeqFacts, NodeFacts DEF Rest
<1>4. \/ warp' = [warp EXCEPT !.pc = "sourceReplay", !.next = k, !.last = m]
      \/ warp' = [warp EXCEPT !.pc = "claim"]
  BY <1>2, <1>3 DEF WarpSourceSync
<1>5. /\ warp' \in Warps
      /\ \/ warp'.pc = "sourceReplay" /\ warp'.from = warp.from /\ warp'.last = m
         \/ warp'.pc = "claim"
  <2>1. CASE warp' = [warp EXCEPT !.pc = "sourceReplay", !.next = k, !.last = m]
    <3>1. PICK v \in Warps : v = warp
      BY <1>1
    <3>2. PICK u : u = warp'
      OBVIOUS
    <3>3. u = [v EXCEPT !.pc = "sourceReplay", !.next = k, !.last = m]
      BY <2>1, <3>1, <3>2
    <3>4. u \in Warps /\ u.pc = "sourceReplay" /\ u.from = v.from /\ u.last = m
      BY <3>3 DEF Warps
    <3> QED BY <3>1, <3>2, <3>4
  <2>2. CASE warp' = [warp EXCEPT !.pc = "claim"]
    BY <1>1, <2>2, WarpAt
  <2> QED BY <1>4, <2>1, <2>2
<1>6. WarpPositioned'
  BY <1>1, <1>3, <1>5 DEF WarpPositioned, WarpSourceSync, replicas
<1> QED BY <1>5, <1>6, WarpOnly DEF WarpSourceSync

LEMMA WarpSourceReplayKeeps ==
  ASSUME Rest, WarpSourceReplay
  PROVE  Changed /\ Rest'
<1>1. /\ warp \in Warps /\ warp # NoWarp /\ warp.pc = "sourceReplay"
      /\ warp.from \in Space /\ log[Host] # <<>>
      /\ warp.next <= warp.last /\ warp.last <= Len(log[warp.from])
  BY UnderWay DEF Rest, WarpPositioned, WarpSourceReplay
<1>2. PICK w \in Space : w = warp.from
  BY <1>1
<1>3. PICK i : i = warp.next
  OBVIOUS
<1>4. i \in Nat \ {0} /\ i + 1 \in Nat \ {0} /\ i \in Positions(log[w])
  <2>1. i \in Nat \ {0} /\ warp.last \in Nat
    BY <1>1, <1>3, WarpFields
  <2> QED BY <1>1, <1>2, <1>3, <2>1, SeqFacts, NodeFacts DEF Positions, Rest
<1>5. PICK outcome : outcome = Outcome(Host, i, log[w][i], w, FALSE)
  OBVIOUS
<1>6. /\ Replay(Host, log[w][i], w, outcome)
      /\ warp' = NoWarp \/ warp' = [warp EXCEPT !.next = i + 1]
  BY <1>2, <1>3, <1>5 DEF WarpSourceReplay
<1>7. Changed /\ owner' \in [Node -> Node \cup {None}]
  BY <1>4, <1>5, <1>6, HostReplays
<1>8. \/ warp' = NoWarp
      \/ /\ warp' \in Warps /\ warp'.pc = "sourceReplay" /\ warp'.from = w
         /\ warp'.last = warp.last
  BY <1>1, <1>2, <1>4, <1>6, WarpTurns
<1>9. SyncTypeOK'
  <2>1. log' \in [Node -> Seq(Events)]
    BY <1>7, Grows DEF Rest
  <2> QED BY <1>7, <1>8, <2>1 DEF Rest, SyncTypeOK, WarpSourceReplay, links
<1>10. DrainsArrived'
  BY <1>7, DrainsStay DEF WarpSourceReplay
<1>11. LinksPositioned'
  BY <1>7, LinksStay DEF WarpSourceReplay, links
<1>12. WarpPositioned'
  <2>1. log'[Host] # <<>>
    BY <1>1, <1>7, HostHasMore
  <2>2. warp.last <= Len(log'[w])
    <3>1. warp.last \in Nat
      BY <1>1, WarpFields
    <3>2. Len(log[w]) \in Nat /\ Len(log'[w]) \in Nat /\ Len(log[w]) <= Len(log'[w])
      BY <1>7, SeqFacts, Grows, NodeFacts DEF Rest
    <3> QED BY <1>1, <1>2, <3>1, <3>2
  <2> QED BY <1>8, <2>1, <2>2 DEF WarpPositioned
<1> QED BY <1>7, <1>9, <1>10, <1>11, <1>12 DEF Rest

LEMMA WarpClaimKeeps ==
  ASSUME Rest, WarpClaim
  PROVE  Changed /\ Rest'
<1>1. warp \in Warps /\ warp # NoWarp /\ log[Host] # <<>>
  BY UnderWay DEF Rest, WarpPositioned, WarpClaim
<1>2. Changed
  BY DEF Changed, WarpClaim
<1>3. owner' \in [Node -> Node \cup {None}]
  BY <1>1, WarpFields DEF Rest, SyncTypeOK, WarpClaim
<1>4. warp' \in Warps /\ warp'.pc = "copy"
  <2>1. warp' = [warp EXCEPT !.pc = "copy", !.next = 1, !.last = 0]
    BY DEF WarpClaim
  <2>2. PICK v \in Warps : v = warp
    BY <1>1
  <2>3. PICK u : u = warp'
    OBVIOUS
  <2>4. u = [v EXCEPT !.pc = "copy", !.next = 1, !.last = 0]
    BY <2>1, <2>2, <2>3
  <2>5. u = [pc |-> "copy", from |-> v.from, target |-> v.target, next |-> 1, last |-> 0]
    BY <2>4 DEF Warps
  <2>6. v.from \in Node /\ v.target \in Node
    BY WarpFields
  <2>7. u \in Warps /\ u.pc = "copy"
    BY <2>5, <2>6 DEF Warps
  <2> QED BY <2>3, <2>7
<1>5. SyncTypeOK'
  BY <1>3, <1>4 DEF Rest, SyncTypeOK, WarpClaim, links
<1>6. DrainsArrived'
  BY <1>2, DrainsStay DEF WarpClaim
<1>7. LinksPositioned'
  BY <1>2, LinksStay DEF WarpClaim, links
<1>8. WarpPositioned'
  BY <1>1, <1>4 DEF WarpPositioned, WarpClaim
<1> QED BY <1>2, <1>5, <1>6, <1>7, <1>8 DEF Rest

LEMMA WarpCopyKeeps ==
  ASSUME Rest, WarpCopy
  PROVE  Changed /\ Rest'
<1>1. warp \in Warps /\ warp # NoWarp /\ log[Host] # <<>>
  BY UnderWay DEF Rest, WarpPositioned, WarpCopy
<1>2. warp' \in Warps /\ warp'.pc = "read"
  BY <1>1, WarpAt DEF WarpCopy
<1>3. WarpPositioned'
  BY <1>1, <1>2 DEF WarpPositioned, WarpCopy, replicas
<1> QED BY <1>2, <1>3, WarpOnly DEF WarpCopy

LEMMA WarpReadKeeps ==
  ASSUME Rest, WarpRead
  PROVE  Changed /\ Rest'
<1>1. /\ warp \in Warps /\ warp # NoWarp /\ warp.target \in Space
      /\ log[Host] # <<>> /\ Len(log[Host]) \in Nat \ {0}
  BY UnderWay, WarpFields, SeqFacts, NodeFacts DEF Rest, WarpPositioned, WarpRead
<1>2. PICK m \in Nat \ {0} : m = Len(log[Host])
  BY <1>1
<1>3. warp' = [warp EXCEPT !.pc = "replay", !.next = 1, !.last = m]
  BY <1>2 DEF WarpRead
<1>4. /\ warp' \in Warps /\ warp'.pc = "replay" /\ warp'.target = warp.target
      /\ warp'.next = 1 /\ warp'.last = m
  <2>1. PICK v \in Warps : v = warp
    BY <1>1
  <2>2. PICK u : u = warp'
    OBVIOUS
  <2>3. u = [v EXCEPT !.pc = "replay", !.next = 1, !.last = m]
    BY <1>3, <2>1, <2>2
  <2>4. u = [pc |-> "replay", from |-> v.from, target |-> v.target, next |-> 1, last |-> m]
    BY <2>3 DEF Warps
  <2>5. v.from \in Node /\ v.target \in Node
    BY WarpFields
  <2>6. u \in Warps
    BY <2>4, <2>5 DEF Warps
  <2> QED BY <2>1, <2>2, <2>4, <2>6
<1>5. Replayed'
  BY <1>1, <1>2, <1>4 DEF Replayed, WarpRead, replicas
<1>6. WarpPositioned'
  BY <1>1, <1>4, <1>5 DEF WarpPositioned, WarpRead, replicas
<1> QED BY <1>4, <1>6, WarpOnly DEF WarpRead

\* What was replayed at the target before has stayed; this event was stored or recognised.
LEMMA WarpReplayKeeps ==
  ASSUME Rest, WarpReplay
  PROVE  Changed /\ Rest'
<1>1. /\ warp \in Warps /\ warp # NoWarp /\ warp.pc = "replay" /\ Replayed
      /\ log[Host] # <<>> /\ warp.next <= warp.last
  BY UnderWay DEF Rest, WarpPositioned, WarpReplay
<1>2. PICK w \in Space : w = warp.target
  BY <1>1 DEF Replayed
<1>3. PICK i : i = warp.next
  OBVIOUS
<1>4. PICK e : e = log[Host][i]
  OBVIOUS
<1>5. /\ i \in Nat \ {0} /\ i + 1 \in Nat \ {0} /\ i \in Positions(log[Host]) /\ e \in Events
      /\ warp.last \in Nat
  <2>1. i \in Nat \ {0} /\ warp.last \in Nat
    BY <1>1, <1>3, WarpFields
  <2>2. i \in Positions(log[Host])
    BY <1>1, <1>3, <2>1, SeqFacts, NodeFacts DEF Replayed, Positions, Rest
  <2> QED BY <1>4, <2>1, <2>2, SeqFacts, NodeFacts DEF Rest
<1>6. PICK outcome : outcome = Outcome(w, i, e, w, TRUE)
  OBVIOUS
<1>7. /\ Replay(w, e, w, outcome)
      /\ warp' = IF Dies(outcome) THEN NoWarp ELSE [warp EXCEPT !.next = i + 1]
  BY <1>2, <1>3, <1>4, <1>6 DEF WarpReplay
<1>8. /\ owner' \in [Node -> Node \cup {None}]
      /\ \/ log' = log
         \/ /\ i = Len(log[w]) + 1
            /\ log' = [log EXCEPT ![w] = Append(@, e)]
      /\ ~Dies(outcome) => i \in Positions(log'[w]) /\ log'[w][i] = e
  BY <1>5, <1>6, <1>7, NodeFacts, ReplayOne DEF Rest
<1>9. Changed
  <2>1. CASE log' = log
    BY <2>1 DEF Changed
  <2>2. CASE log' # log
    <3>1. TakenOver(w, Host)
      BY <1>4, <1>5, <1>8, <2>2, SeqFacts, NodeFacts DEF TakenOver, Positions, Rest
    <3> QED BY <3>1, NodeFacts DEF Changed
  <2> QED BY <2>1, <2>2
<1>10. \/ warp' = NoWarp
       \/ /\ warp' \in Warps /\ warp'.pc = "replay" /\ warp'.target = w
          /\ warp'.next = i + 1 /\ warp'.last = warp.last /\ ~Dies(outcome)
  BY <1>1, <1>2, <1>5, <1>7, WarpTurns
<1>11. SyncTypeOK'
  <2>1. log' \in [Node -> Seq(Events)]
    BY <1>9, Grows DEF Rest
  <2> QED BY <1>8, <1>10, <2>1 DEF Rest, SyncTypeOK, WarpReplay, links
<1>12. DrainsArrived'
  BY <1>9, DrainsStay DEF WarpReplay
<1>13. LinksPositioned'
  BY <1>9, LinksStay DEF WarpReplay, links
<1>14. log'[Host] = log[Host]
  BY <1>5, <1>8, AppendOne, NodeFacts DEF Rest
<1>15. ASSUME ~Dies(outcome), warp'.pc = "replay", warp'.target = w, warp'.next = i + 1,
              warp'.last = warp.last
       PROVE  Replayed'
  <2>1. ASSUME NEW j \in 1 .. i PROVE j \in Positions(log'[w]) /\ log'[w][j] = log[Host][j]
    <3>1. CASE j = i
      BY <1>4, <1>8, <1>15, <3>1
    <3>2. CASE j # i
      <4>1. j \in Positions(log[w]) /\ log[w][j] = log[Host][j]
        BY <1>1, <1>2, <1>3, <1>5, <3>2 DEF Replayed
      <4> QED BY <1>9, <4>1, Grows, NodeFacts DEF Rest
    <3> QED BY <3>1, <3>2
  <2>2. 1 <= warp.last /\ warp.last <= Len(log[Host]) /\ i <= warp.last
    BY <1>1, <1>3 DEF Replayed
  <2>3. (i + 1) - 1 = i /\ i + 1 <= warp.last + 1
    BY <1>5, <2>2
  <2> QED BY <1>14, <1>15, <2>1, <2>2, <2>3 DEF Replayed
<1>16. WarpPositioned'
  BY <1>1, <1>10, <1>14, <1>15 DEF WarpPositioned
<1> QED BY <1>9, <1>11, <1>12, <1>13, <1>16 DEF Rest

LEMMA WarpStealKeeps ==
  ASSUME Rest, WarpSteal
  PROVE  Changed /\ Rest'
<1>1. /\ warp \in Warps /\ warp # NoWarp /\ Replayed /\ warp.target \in Space
      /\ log[Host] # <<>> /\ warp.next > warp.last
  BY UnderWay DEF Rest, WarpPositioned, WarpSteal, Replayed
<1>2. log[warp.target] # <<>>
  <2>1. warp.next \in Nat /\ warp.last \in Nat
    BY <1>1, WarpFields
  <2>2. 1 \in Positions(log[warp.target])
    BY <1>1, <2>1 DEF Replayed
  <2> QED BY <1>1, <2>2, SeqFacts, NodeFacts DEF Positions, Rest
<1>3. PICK w \in Space : w = warp.target
  BY <1>1
<1>4. /\ Changed
      /\ owner' = owner
      /\ unsent' \in [Space -> SUBSET (Nat \ {0})]
      /\ \A v \in Space : unsent'[v] \subseteq Positions(log'[v])
  BY <1>2, <1>3, NodeFacts, PublishOne DEF WarpSteal
<1>5. warp' \in Warps /\ warp'.pc = "move"
  BY <1>1, WarpAt DEF WarpSteal
<1>6. SyncTypeOK'
  BY <1>4, <1>5, Grows DEF Rest, SyncTypeOK, WarpSteal
<1>7. DrainsArrived'
  BY <1>4, DrainsStay DEF WarpSteal
<1>8. LinksPositioned'
  BY <1>4, LinksPublish DEF WarpSteal
<1>9. WarpPositioned'
  BY <1>1, <1>4, <1>5, HostHasMore DEF WarpPositioned
<1> QED BY <1>4, <1>6, <1>7, <1>8, <1>9 DEF Rest

LEMMA WarpMoveKeeps ==
  ASSUME Rest, WarpMove
  PROVE  Changed /\ Rest'
<1>1. warp \in Warps /\ warp # NoWarp /\ log[Host] # <<>>
  BY UnderWay DEF Rest, WarpPositioned, WarpMove
<1>2. PICK to \in Node : to = warp.target
  BY <1>1, WarpFields
<1>3. /\ Changed
      /\ owner' = owner
      /\ unsent' \in [Space -> SUBSET (Nat \ {0})]
      /\ \A v \in Space : unsent'[v] \subseteq Positions(log'[v])
  BY <1>1, <1>2, NodeFacts, PublishOne DEF WarpMove
<1>4. SyncTypeOK'
  BY <1>3, Grows DEF Rest, SyncTypeOK, WarpMove
<1>5. DrainsArrived'
  BY <1>3, DrainsStay DEF WarpMove
<1>6. LinksPositioned'
  BY <1>3, LinksPublish DEF WarpMove
<1>7. WarpPositioned'
  BY DEF WarpPositioned, WarpMove
<1> QED BY <1>3, <1>4, <1>5, <1>6, <1>7 DEF Rest

LEMMA WarpFailsKeeps ==
  ASSUME Rest, WarpFails
  PROVE  Changed /\ Rest'
BY WarpOnly DEF WarpFails, WarpPositioned

LEMMA HostCrashKeeps ==
  ASSUME Rest, HostCrash
  PROVE  Changed /\ Rest'
<1>1. Changed
  BY DEF Changed, HostCrash, replicas
<1>2. SyncTypeOK'
  <2>1. wire' \in [Space -> Seq(Nat \ {0})]
    BY EmptySeq DEF HostCrash
  <2> QED BY <2>1 DEF Rest, SyncTypeOK, HostCrash, replicas
<1>3. DrainsArrived'
  BY DEF Rest, SyncTypeOK, DrainsArrived, HostCrash, replicas
<1>4. LinksPositioned'
  BY DEF Rest, LinksPositioned, Positions, HostCrash, replicas
<1>5. WarpPositioned'
  BY DEF WarpPositioned, HostCrash
<1> QED BY <1>1, <1>2, <1>3, <1>4, <1>5 DEF Rest

LEMMA StepKeeps ==
  ASSUME SyncInv, [SyncNext]_syncVars
  PROVE  Changed /\ Rest'
<1>1. Rest /\ Begun
  BY DEF SyncInv
<1>2. CASE Drains
  BY <1>1, <1>2, StartDrainKeeps, EndDrainKeeps, WriteKeeps DEF Drains
<1>3. CASE Warp
  BY <1>1, <1>3, WarpBeginKeeps, WarpSourceSyncKeeps, WarpSourceReplayKeeps, WarpClaimKeeps,
     WarpCopyKeeps, WarpReadKeeps, WarpReplayKeeps, WarpStealKeeps, WarpMoveKeeps,
     WarpFailsKeeps DEF Warp
<1>4. CASE HostCrash
  BY <1>1, <1>4, HostCrashKeeps
<1>5. ASSUME NEW w \in Space, SyncLoop(w) \/ StartSync(w) \/ Disconnect(w) \/ StreamFails(w)
      PROVE  Changed /\ Rest'
  BY <1>1, <1>5, NotifyKeeps, ConnectKeeps, FetchHistoryKeeps, ReplayHistoryKeeps, GoLiveKeeps,
     ReplayLiveKeeps, StartSyncKeeps, DisconnectKeeps, StreamFailsKeeps DEF SyncLoop
<1>6. CASE UNCHANGED syncVars
  <2>1. Changed
    BY <1>6 DEF Changed, syncVars
  <2>2. SyncTypeOK'
    BY <1>1, <1>6 DEF Rest, SyncTypeOK, syncVars, links
  <2> QED BY <1>1, <1>6, <2>1, <2>2, DrainsStay, LinksStay, WarpStays DEF Rest, syncVars, links
<1> QED BY <1>2, <1>3, <1>4, <1>5, <1>6 DEF SyncNext
-----------------------------------------------------------------------------
(* What the logs promise, from how they change. *)

\* What a step adds to the log of n.
LEMMA PublishedOne ==
  ASSUME SyncTypeOK, NEW n \in Node, NEW to \in Node \cup {None}, Published(n, to)
  PROVE  /\ Len(log'[n]) = Len(log[n]) + 1 /\ Len(log[n]) \in Nat
         /\ log'[n][Len(log[n]) + 1].by = n
         /\ \A m \in Node : m # n => log'[m] = log[m]
<1>1. Event(n, to) \in Events /\ Event(n, to).by = n
  BY DEF Event, Events
<1> QED BY <1>1, AppendOne, SeqFacts DEF Published

LEMMA TakenOne ==
  ASSUME SyncTypeOK, NEW n \in Node, NEW m \in Node, TakenOver(n, m)
  PROVE  /\ Len(log'[n]) = Len(log[n]) + 1 /\ Len(log[n]) \in Nat
         /\ Len(log[n]) + 1 \in Positions(log[m]) /\ n # m
         /\ log'[n][Len(log[n]) + 1] = log[m][Len(log[n]) + 1]
         /\ \A k \in Node : k # n => log'[k] = log[k]
<1>1. Len(log[n]) \in Nat /\ Len(log[m]) \in Nat /\ Len(log[n]) < Len(log[m])
  BY SeqFacts DEF TakenOver
<1>2. Len(log[n]) + 1 \in Positions(log[m])
  BY <1>1 DEF Positions
<1>3. PICK e \in Events : e = log[m][Len(log[n]) + 1]
  BY <1>2, SeqFacts
<1>4. log' = [log EXCEPT ![n] = Append(@, e)]
  BY <1>3 DEF TakenOver
<1>5. /\ Len(log'[n]) = Len(log[n]) + 1
      /\ log'[n][Len(log[n]) + 1] = e
      /\ \A k \in Node : k # n => log'[k] = log[k]
  BY <1>4, AppendOne
<1> QED BY <1>1, <1>2, <1>3, <1>5

LEMMA BegunKeeps ==
  ASSUME SyncTypeOK, Begun, Changed
  PROVE  Begun'
<1> SUFFICES ASSUME NEW k \in Node, log'[k] # <<>>
             PROVE  log'[k][1] = Event(Creator, Creator)
  BY DEF Begun, Event
<1>1. CASE log[k] # <<>>
  <2>1. 1 \in Positions(log[k]) /\ log[k][1] = Event(Creator, Creator)
    BY <1>1, SeqFacts DEF Begun, Positions
  <2> QED BY <2>1, Grows
<1>2. CASE log[k] = <<>>
  <2>1. Len(log[k]) = 0
    BY <1>2, SeqFacts
  <2>2. log' # log
    BY <1>2
  <2>3. ASSUME NEW n \in Node, NEW to \in Node \cup {None}, Published(n, to)
        PROVE  FALSE
    BY <1>2, <2>3, PublishedOne DEF Published
  <2>4. ASSUME NEW n \in Node, NEW m \in Node, TakenOver(n, m)
        PROVE  log'[k][1] = Event(Creator, Creator)
    <3>1. n = k
      BY <1>2, <2>4, TakenOne
    <3>2. 1 \in Positions(log[m]) /\ log'[k][1] = log[m][1]
      BY <2>1, <2>4, <3>1, TakenOne
    <3>3. log[m] # <<>>
      BY <3>2, SeqFacts DEF Positions
    <3> QED BY <3>2, <3>3 DEF Begun
  <2> QED BY <2>2, <2>3, <2>4 DEF Changed
<1> QED BY <1>1, <1>2

LEMMA HostKnowsKeeps ==
  ASSUME SyncTypeOK, HostKnows, Changed
  PROVE  HostKnows'
<1> SUFFICES ASSUME NEW w \in Space, NEW i \in Positions(log'[w]), i > Len(log'[Host])
             PROVE  log'[w][i].by = w
  BY DEF HostKnows, Positions
<1>1. /\ w \in Node /\ w # Host /\ Len(log[Host]) \in Nat /\ Len(log'[Host]) \in Nat
      /\ Len(log[w]) \in Nat /\ Len(log'[w]) \in Nat /\ Len(log[Host]) <= Len(log'[Host])
  BY NodeFacts, SeqFacts, Grows
<1>2. CASE i \in Positions(log[w])
  <2>1. i > Len(log[Host])
    BY <1>1 DEF Positions
  <2> QED BY <1>1, <1>2, <2>1, Grows DEF HostKnows
<1>3. CASE i \notin Positions(log[w])
  <2>1. log'[w] # log[w]
    BY <1>3
  <2>2. ASSUME NEW n \in Node, NEW to \in Node \cup {None}, Published(n, to)
        PROVE  log'[w][i].by = w
    <3>1. n = w
      BY <1>1, <2>1, <2>2, PublishedOne
    <3>2. Len(log'[w]) = Len(log[w]) + 1 /\ log'[w][Len(log[w]) + 1].by = w
      BY <2>2, <3>1, PublishedOne
    <3>3. i = Len(log[w]) + 1
      BY <1>1, <1>3, <3>2 DEF Positions
    <3> QED BY <3>2, <3>3
  <2>3. ASSUME NEW n \in Node, NEW m \in Node, TakenOver(n, m)
        PROVE  FALSE
    <3>1. n = w
      BY <1>1, <2>1, <2>3, TakenOne
    <3>2. m = Host
      BY <1>1, <2>3, <3>1 DEF TakenOver
    <3>3. Len(log'[w]) = Len(log[w]) + 1 /\ Len(log[w]) + 1 \in Positions(log[Host])
      BY <2>3, <3>1, <3>2, TakenOne
    <3> QED BY <1>1, <3>3 DEF Positions
  <2> QED BY <2>1, <2>2, <2>3 DEF Changed
<1> QED BY <1>2, <1>3

\* If only the creator has written after the step, only it had before.
LEMMA OneWriterBefore ==
  ASSUME SyncTypeOK, Changed, OneWriter'
  PROVE  OneWriter
<1> SUFFICES ASSUME NEW n \in Node, NEW i \in 1 .. MaxLog, i <= Len(log[n])
             PROVE  log[n][i].by = Creator
  BY DEF OneWriter
<1>1. i \in Positions(log[n])
  BY SeqFacts, MaxLogIsNat DEF Positions
<1>2. i \in Positions(log'[n]) /\ log'[n][i] = log[n][i] /\ Len(log'[n]) \in Nat
  BY <1>1, Grows
<1>3. i <= Len(log'[n])
  BY <1>2 DEF Positions
<1> QED BY <1>2, <1>3 DEF OneWriter

LEMMA CopiesKeeps ==
  ASSUME SyncTypeOK, Copies, Changed
  PROVE  Copies'
<1> SUFFICES ASSUME OneWriter', NEW k \in Node, NEW i \in Positions(log'[k])
             PROVE  i \in Positions(log'[Creator]) /\ log'[k][i] = log'[Creator][i]
  BY DEF Copies, Positions
<1>1. \A n \in Node : \A j \in Positions(log[n]) :
        j \in Positions(log[Creator]) /\ log[n][j] = log[Creator][j]
  BY OneWriterBefore DEF Copies
<1>2. Creator \in Node /\ Len(log[k]) \in Nat /\ Len(log'[k]) \in Nat /\ Len(log[Creator]) \in Nat
  BY NodeFacts, SeqFacts, Grows
<1>3. CASE i \in Positions(log[k])
  BY <1>1, <1>2, <1>3, Grows
<1>4. CASE i \notin Positions(log[k])
  <2>1. log'[k] # log[k]
    BY <1>4
  <2>2. ASSUME NEW n \in Node, NEW to \in Node \cup {None}, Published(n, to)
        PROVE  i \in Positions(log'[Creator]) /\ log'[k][i] = log'[Creator][i]
    <3>1. n = k
      BY <2>1, <2>2, PublishedOne
    <3>2. Len(log'[k]) = Len(log[k]) + 1 /\ log'[k][Len(log[k]) + 1].by = k
      BY <2>2, <3>1, PublishedOne
    <3>3. Len(log[k]) + 1 \in 1 .. MaxLog
      BY <1>2, <2>2, <3>1, MaxLogIsNat DEF Published
    <3>4. k = Creator
      BY <1>2, <3>2, <3>3 DEF OneWriter
    <3> QED BY <3>4
  <2>3. ASSUME NEW n \in Node, NEW m \in Node, TakenOver(n, m)
        PROVE  i \in Positions(log'[Creator]) /\ log'[k][i] = log'[Creator][i]
    <3>1. n = k
      BY <2>1, <2>3, TakenOne
    <3>2. /\ Len(log'[k]) = Len(log[k]) + 1 /\ Len(log[k]) + 1 \in Positions(log[m])
          /\ log'[k][Len(log[k]) + 1] = log[m][Len(log[k]) + 1]
      BY <2>3, <3>1, TakenOne
    <3>3. i = Len(log[k]) + 1
      BY <1>2, <1>4, <3>2 DEF Positions
    <3>4. i \in Positions(log[Creator]) /\ log'[k][i] = log[Creator][i]
      BY <1>1, <3>2, <3>3
    <3> QED BY <1>2, <3>4, Grows
  <2> QED BY <2>1, <2>2, <2>3 DEF Changed
<1> QED BY <1>3, <1>4
-----------------------------------------------------------------------------
(* The theorems about SyncSpec. *)

\* The log of a new session is where it was created and nowhere else.
THEOREM SyncInitial == SyncInit => SyncInv
<1> SUFFICES ASSUME SyncInit PROVE SyncInv
  OBVIOUS
<1>1. /\ log \in [Node -> Seq(Events)]
      /\ log[Creator] = <<Event(Creator, Creator)>>
      /\ \A n \in Node : n # Creator => log[n] = <<>>
  <2>1. Event(Creator, Creator) \in Events
    BY NodeFacts DEF Event, Events
  <2>2. <<Event(Creator, Creator)>> \in Seq(Events) /\ <<>> \in Seq(Events)
    BY <2>1, EmptySeq
  <2> QED BY <2>2, NodeFacts DEF SyncInit
<1>2. SyncTypeOK
  <2>1. wire \in [Space -> Seq(Nat \ {0})]
    BY EmptySeq DEF SyncInit
  <2>2. busy \in [Node -> BOOLEAN] /\ behind \in [Space -> BOOLEAN]
    BY Zenon DEF SyncInit
  <2> QED BY <1>1, <2>1, <2>2 DEF SyncTypeOK, SyncInit
<1>3. \A n \in Node : \A i \in Positions(log[n]) : n = Creator /\ i = 1
  <2>1. Len(log[Creator]) = 1
    BY <1>1
  <2>2. ASSUME NEW n \in Node, n # Creator PROVE Positions(log[n]) = {}
    <3>1. log[n] = <<>>
      BY <1>1, <2>2
    <3>2. Len(log[n]) = 0
      BY <3>1
    <3> QED BY <3>2 DEF Positions
  <2>3. ASSUME NEW i \in Positions(log[Creator]) PROVE i = 1
    BY <2>1 DEF Positions
  <2> QED BY <2>2, <2>3, NodeFacts
<1>4. DrainsArrived /\ WarpPositioned
  BY DEF DrainsArrived, WarpPositioned, SyncInit
<1>5. LinksPositioned
  BY DEF LinksPositioned, Positions, SyncInit, Off
<1>6. Begun
  BY <1>1 DEF Begun
<1>7. HostKnows
  BY <1>1, <1>3, NodeFacts DEF HostKnows, Event
<1>8. Copies
  BY <1>3 DEF Copies
<1> QED BY <1>2, <1>4, <1>5, <1>6, <1>7, <1>8 DEF SyncInv, Rest

\* Every step of the sync and of the warp keeps the invariant.
THEOREM SyncInductive == SyncInv /\ [SyncNext]_syncVars => SyncInv'
<1> SUFFICES ASSUME SyncInv, [SyncNext]_syncVars PROVE SyncInv'
  OBVIOUS
<1>1. Changed /\ Rest'
  BY StepKeeps
<1>2. Begun' /\ HostKnows' /\ Copies'
  BY <1>1, BegunKeeps, HostKnowsKeeps, CopiesKeeps DEF SyncInv, Rest
<1> QED BY <1>1, <1>2 DEF SyncInv

LEMMA SyncInvHolds == SyncSpec => []SyncInv
BY SyncInitial, SyncInductive, PTL DEF SyncSpec

\* The logs, their owners, the connections and the warp are well-typed.
THEOREM SyncTypeCorrect == SyncSpec => []SyncTypeOK
<1>1. SyncInv => SyncTypeOK
  BY DEF SyncInv, Rest
<1> QED BY <1>1, SyncInvHolds, PTL

LEMMA PrefixFromPositions ==
  ASSUME NEW s \in Seq(Events), NEW t \in Seq(Events), NEW n \in Nat, n <= Len(s),
         \A i \in 1 .. n : i \in Positions(t) /\ s[i] = t[i]
  PROVE  IsPrefix(SubSeq(s, 1, n), t)
<1>1. Len(s) \in Nat /\ Len(t) \in Nat
  BY LenProperties
<1>2. n <= Len(t)
  BY <1>1 DEF Positions
<1>3. \A i \in 1 .. n : s[i] \in Events /\ t[i] \in Events
  BY <1>1, <1>2, LenProperties
<1>4. /\ SubSeq(s, 1, n) \in Seq(Events) /\ Len(SubSeq(s, 1, n)) = n
      /\ \A i \in 1 .. n : SubSeq(s, 1, n)[i] = s[i]
  BY <1>1, <1>3, SubSeqProperties
<1>5. /\ SubSeq(t, 1, n) \in Seq(Events) /\ Len(SubSeq(t, 1, n)) = n
      /\ \A i \in 1 .. n : SubSeq(t, 1, n)[i] = t[i]
  BY <1>1, <1>3, SubSeqProperties
<1>6. SubSeq(s, 1, n) = SubSeq(t, 1, n)
  BY <1>4, <1>5, SeqEqual
<1>7. SubSeq(SubSeq(s, 1, n), 1, Len(SubSeq(s, 1, n))) = SubSeq(s, 1, n)
  BY <1>4, SubSeqFull
<1> QED BY <1>2, <1>4, <1>6, <1>7 DEF IsPrefix

\* With one writer the host's log is a prefix of the original.
THEOREM ReplicaFollows == SyncSpec => []ReplicaIsPrefix
<1>1. SyncInv => ReplicaIsPrefix
  <2> SUFFICES ASSUME SyncInv, OneWriter PROVE IsPrefix(log[Host], log[Creator])
    BY DEF ReplicaIsPrefix
  <2>1. /\ log[Host] \in Seq(Events) /\ log[Creator] \in Seq(Events) /\ Len(log[Host]) \in Nat
    BY SeqFacts, NodeFacts DEF SyncInv, Rest
  <2>2. \A i \in 1 .. Len(log[Host]) : i \in Positions(log[Creator]) /\ log[Host][i] = log[Creator][i]
    BY NodeFacts DEF SyncInv, Copies, Positions
  <2>3. SubSeq(log[Host], 1, Len(log[Host])) = log[Host]
    BY <2>1, SubSeqFull
  <2>4. IsPrefix(SubSeq(log[Host], 1, Len(log[Host])), log[Creator])
    BY <2>1, <2>2, PrefixFromPositions
  <2> QED BY <2>3, <2>4
<1> QED BY <1>1, SyncInvHolds, PTL

\* An event enters the host's log from the host itself or from the owner last claimed.
THEOREM OldOwnersAreFenced == SyncSpec => OwnerWrites
<1>1. SyncInv /\ [SyncNext]_syncVars
        => [Len(log'[Host]) > Len(log[Host]) => Last(log'[Host]).by \in {Host, owner'[Host]}]_syncVars
  <2> SUFFICES ASSUME SyncInv, [SyncNext]_syncVars, Len(log'[Host]) > Len(log[Host])
               PROVE  Last(log'[Host]).by \in {Host, owner'[Host]}
    OBVIOUS
  <2>1. Changed /\ SyncTypeOK /\ HostKnows
    BY StepKeeps DEF SyncInv, Rest
  <2>2. Len(log[Host]) \in Nat /\ log'[Host] # log[Host]
    BY <2>1, SeqFacts, NodeFacts
  <2>3. Last(log'[Host]) = log'[Host][Len(log'[Host])]
    BY DEF Last
  <2>4. ASSUME NEW n \in Node, NEW to \in Node \cup {None}, Published(n, to)
        PROVE  Last(log'[Host]).by \in {Host, owner'[Host]}
    BY <2>1, <2>2, <2>3, <2>4, PublishedOne, NodeFacts
  <2>5. ASSUME NEW n \in Node, NEW m \in Node, TakenOver(n, m)
        PROVE  Last(log'[Host]).by \in {Host, owner'[Host]}
    <3>1. n = Host
      BY <2>1, <2>2, <2>5, TakenOne, NodeFacts
    <3>2. m \in Space /\ owner'[Host] = m
      BY <2>5, <3>1 DEF TakenOver
    <3>3. /\ Len(log'[Host]) = Len(log[Host]) + 1 /\ Len(log[Host]) + 1 \in Positions(log[m])
          /\ log'[Host][Len(log[Host]) + 1] = log[m][Len(log[Host]) + 1]
      BY <2>1, <2>5, <3>1, TakenOne
    <3>4. log[m][Len(log[Host]) + 1].by = m
      BY <2>1, <2>2, <3>2, <3>3 DEF HostKnows
    <3> QED BY <2>3, <3>2, <3>3, <3>4
  <2> QED BY <2>1, <2>2, <2>4, <2>5 DEF Changed
<1> QED BY <1>1, SyncInvHolds, PTL DEF SyncSpec, OwnerWrites

\* A warp that reaches the steal has brought everything the host had read.
THEOREM HistoryArrives == SyncSpec => MovedWithHistory
<1>1. SyncInv /\ [SyncNext]_syncVars
        => [warp.pc = "replay" /\ warp'.pc = "move"
              => IsPrefix(SubSeq(log[Host], 1, warp.last), log[warp.target])]_syncVars
  <2> SUFFICES ASSUME SyncInv, SyncNext, warp.pc = "replay", warp'.pc = "move"
               PROVE  IsPrefix(SubSeq(log[Host], 1, warp.last), log[warp.target])
    BY DEF syncVars
  <2>1. /\ warp \in Warps /\ Replayed
    BY UnderWay DEF SyncInv, Rest, WarpPositioned
  <2>7. SyncNext /\ warp.pc = "replay" /\ warp'.pc = "move" /\ warp' # warp
    OBVIOUS
  <2>2. warp.next > warp.last
    <3>1. CASE WarpSteal
      BY <3>1 DEF WarpSteal
    <3>2. ASSUME ~WarpSteal PROVE FALSE
      <4>1. ~Drains
        BY <2>7 DEF Drains, StartDrain, EndDrain, Write
      <4>2. ~HostCrash
        BY <2>7 DEF HostCrash, NoWarp
      <4>3. ~Warp
        <5>1. ~(WarpSourceSync \/ WarpSourceReplay \/ WarpClaim \/ WarpCopy \/ WarpRead)
          BY <2>7 DEF WarpSourceSync, WarpSourceReplay, WarpClaim, WarpCopy, WarpRead
        <5>2. ~(\E target \in Node : WarpBegin(target))
          BY <2>7 DEF WarpBegin, NoWarp
        <5>3. ~(WarpMove \/ WarpFails)
          BY <2>7 DEF WarpMove, WarpFails, NoWarp
        <5>4. ~WarpReplay
          <6>1. WarpReplay => warp' = NoWarp \/ warp' = [warp EXCEPT !.next = warp.next + 1]
            BY DEF WarpReplay
          <6>2. warp.next + 1 \in Nat \ {0}
            BY <2>1, WarpFields
          <6> QED BY <2>1, <2>7, <6>1, <6>2, WarpTurns DEF NoWarp
        <5> QED BY <3>2, <5>1, <5>2, <5>3, <5>4 DEF Warp
      <4>4. ASSUME NEW w \in Space
            PROVE  ~(SyncLoop(w) \/ StartSync(w) \/ Disconnect(w) \/ StreamFails(w))
        BY <2>7 DEF SyncLoop, Notify, Connect, FetchHistory, ReplayHistory, GoLive, ReplayLive,
           StartSync, Disconnect, StreamFails
      <4> QED BY <2>7, <4>1, <4>2, <4>3, <4>4 DEF SyncNext
    <3> QED BY <3>1, <3>2
  <2>3. warp.next = warp.last + 1 /\ warp.last \in Nat
    BY <2>1, <2>2, WarpFields DEF Replayed
  <2>4. \A j \in 1 .. warp.last : j \in Positions(log[warp.target]) /\ log[Host][j] = log[warp.target][j]
    BY <2>1, <2>3 DEF Replayed
  <2>5. log[Host] \in Seq(Events) /\ log[warp.target] \in Seq(Events) /\ warp.last <= Len(log[Host])
    BY <2>1, SeqFacts, NodeFacts DEF Replayed, SyncInv, Rest
  <2> QED BY <2>3, <2>4, <2>5, PrefixFromPositions
<1> QED BY <1>1, SyncInvHolds, PTL DEF SyncSpec, MovedWithHistory
===============================================================================

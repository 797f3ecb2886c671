-------------------------- MODULE ContextEpochProofs --------------------------
(***************************************************************************)
(* Proofs about ContextEpoch, for any sources, values and locations and a  *)
(* history of any length.                                                  *)
(*                                                                         *)
(* The drain alone writes an epoch that is there, so the row an attempt    *)
(* has read is the row it changes; and between the sequence a baseline     *)
(* counts from and the write of its row, nobody tells the model anything.  *)
(***************************************************************************)
EXTENDS ContextEpoch, WellFoundedInduction, TLAPS

Rows == 1..Len(log)
NoSystemAfter(c) == \A s \in Rows : s > c => log[s].kind # "system"

Held ==
  epoch # NoEpoch =>
    /\ epoch.seq <= Len(log)
    /\ stored # NoEpoch /\ pc \in {"prepare", "decide", "replace"} => epoch = stored

\* A compaction after the baseline is followed by no update.
Compactions ==
  epoch # NoEpoch =>
    \A s \in Rows : log[s].kind = "compaction" /\ s > epoch.seq => NoSystemAfter(s)

\* What the attempt knows of the latest compaction.
Summarised ==
  /\ pc = "decide" => todo = {}
  /\ pc \in {"prepare", "decide"} /\ "compaction" \notin todo =>
       /\ \A s \in Rows : log[s].kind = "compaction" => s <= summary
       /\ summary > 0 /\ epoch # NoEpoch => summary \in Rows /\ log[summary].kind = "compaction"

\* The sequence the baseline in the making counts from.
Counted ==
  /\ pc \in {"insert", "prepareInsert"} => cut <= Len(log) /\ NoSystemAfter(cut)
  /\ pc = "replace" /\ epoch # NoEpoch => cut <= Len(log) /\ NoSystemAfter(cut)

\* No row has been read before prepare.
Unread ==
  \/ pc \in {"off", "fence", "exists", "observe", "sequence", "insert", "promote", "promoteFirst"}
  \/ pc = "prepare" /\ "find" \in todo
  => stored = NoEpoch

IInv == TypeOK /\ Held /\ Compactions /\ Summarised /\ Counted /\ Unread /\ ToldIsAdmitted

-----------------------------------------------------------------------------
(* The latest of some sequences. *)

LEMMA Smallest ==
  ASSUME NEW T \in SUBSET Nat, T # {}
  PROVE  \E x \in T : \A y \in T : x <= y
<1> DEFINE R == {ss \in Nat \X Nat : ss[1] < ss[2]}
<1>1. IsWellFoundedOn(R, Nat)
  BY NatLessThanWellFounded, Zenon DEF OpToRel
<1>2. \A x, y \in Nat : <<y, x>> \notin R => x <= y
  OBVIOUS
<1> HIDE DEF R
<1>3. PICK x \in T : \A y \in T : <<y, x>> \notin R
  BY <1>1, WFMin
<1> QED BY <1>2, <1>3

LEMMA Latest ==
  ASSUME NEW n \in Nat, NEW T \in SUBSET (1..n), T # {}
  PROVE  \E x \in T : \A y \in T : y <= x
<1> DEFINE U == {n - t : t \in T}
<1>1. U \in SUBSET Nat /\ U # {}
  <2>1. \A t \in T : n - t \in Nat
    OBVIOUS
  <2> QED BY <2>1
<1>2. PICK u \in U : \A v \in U : u <= v
  <2> HIDE DEF U
  <2> QED BY <1>1, Smallest
<1>3. PICK x \in T : u = n - x
  OBVIOUS
<1>4. ASSUME NEW y \in T PROVE y <= x
  <2>1. n - y \in U
    OBVIOUS
  <2>2. u <= n - y
    BY <1>2, <2>1
  <2> QED BY <2>2, <1>3
<1> QED BY <1>4

LEMMA MentionsAreRows ==
  ASSUME TypeOK, NEW k \in Key, NEW from \in Nat, Mentions(k, from) # {}
  PROVE  LET s == CHOOSE s \in Mentions(k, from) : \A t \in Mentions(k, from) : t <= s
         IN  s \in Mentions(k, from) /\ log[s].update[k] \in Value \cup {Gone}
<1>1. Len(log) \in Nat /\ Mentions(k, from) \in SUBSET (1..Len(log))
  BY DEF TypeOK, Mentions
<1>2. \E s \in Mentions(k, from) : \A t \in Mentions(k, from) : t <= s
  BY <1>1, Latest
<1> DEFINE l == CHOOSE s \in Mentions(k, from) : \A t \in Mentions(k, from) : t <= s
<1>3. l \in Mentions(k, from)
  BY <1>2
<1> HIDE DEF l
<1>4. l \in 1..Len(log) /\ log[l].update[k] # Same
  BY <1>3 DEF Mentions
<1>5. log[l] \in Entries
  BY <1>4 DEF TypeOK
<1>6. log[l].update[k] \in Value \cup {Gone}
  BY <1>4, <1>5 DEF Entries
<1> QED BY <1>3, <1>6 DEF l

LEMMA TellsType ==
  ASSUME TypeOK, NEW baseline \in Told, NEW from \in Nat
  PROVE  TellsAfter(baseline, from) \in Told
<1>1. ASSUME NEW k \in Key
      PROVE  TellsAfter(baseline, from)[k] \in Value \cup {Gone}
  <2>1. CASE Mentions(k, from) = {}
    BY <2>1 DEF TellsAfter, Told
  <2>2. CASE Mentions(k, from) # {}
    BY <2>2, MentionsAreRows DEF TellsAfter
  <2> QED BY <2>1, <2>2
<1> QED BY <1>1 DEF TellsAfter, Told

LEMMA LatestCompactionIs ==
  ASSUME TypeOK
  PROVE  /\ LatestCompaction \in Nat
         /\ \A s \in Rows : log[s].kind = "compaction" => s <= LatestCompaction
         /\ LatestCompaction > 0 =>
              LatestCompaction \in Rows /\ log[LatestCompaction].kind = "compaction"
<1> DEFINE rows == {s \in Rows : log[s].kind = "compaction"}
           l == CHOOSE s \in rows : \A t \in rows : t <= s
<1>1. LatestCompaction = IF rows = {} THEN 0 ELSE l
  BY DEF LatestCompaction, Rows
<1>2. Len(log) \in Nat /\ rows \in SUBSET (1..Len(log))
  BY DEF TypeOK, Rows
<1>3. CASE rows = {}
  BY <1>1, <1>3
<1>4. CASE rows # {}
  <2>1. \E s \in rows : \A t \in rows : t <= s
    <3> HIDE DEF rows
    <3> QED BY <1>2, <1>4, Latest
  <2>2. l \in rows /\ \A t \in rows : t <= l
    BY <2>1
  <2>3. LatestCompaction = l
    BY <1>1, <1>4
  <2> HIDE DEF l
  <2> QED BY <1>2, <2>2, <2>3
<1> QED BY <1>3, <1>4

-----------------------------------------------------------------------------
(* Types of what the attempt makes. *)

LEMMA Kinds ==
  /\ Nothing \in Told
  /\ Nothing \in [Key -> Value \cup {Unavailable, Gone}]
BY DEF Nothing, Told

LEMMA Observed ==
  /\ Observation \subseteq [Key -> Value \cup {Unavailable, Gone}]
  /\ \A obs \in [Key -> Value \cup {Unavailable, Gone}] : Generation(obs) \in Told
<1>1. Observation \subseteq [Key -> Value \cup {Unavailable, Gone}]
  BY LegacyValues DEF Observation
<1>2. \A obs \in [Key -> Value \cup {Unavailable, Gone}] : Generation(obs) \in Told
  BY DEF Generation, Told
<1> QED BY <1>1, <1>2

LEMMA RowKinds ==
  /\ \A kind \in {"user", "compaction", "moved", "reverted", "deleted"} :
       Plain(kind) \in Entries /\ Plain(kind).kind = kind
  /\ \A update \in [Key -> Value \cup {Gone, Same}] :
       System(update) \in Entries /\ System(update).kind = "system" /\ System(update).update = update
BY DEF Plain, System, Entries

LEMMA Appended ==
  ASSUME log \in Seq(Entries), NEW row \in Entries, log' = Append(log, row)
  PROVE  /\ log' \in Seq(Entries) /\ Len(log) \in Nat
         /\ Len(log') = Len(log) + 1
         /\ \A s \in Rows : log'[s] = log[s]
         /\ log'[Len(log) + 1] = row
BY DEF Rows

\* Rows that tell nothing leave what is told as it is.
LEMMA StillAdmitted ==
  ASSUME IInv, epoch' = epoch, Len(log') >= Len(log), Len(log') \in Nat,
         \A s \in Rows : log'[s] = log[s],
         \A s \in Rows' : s > Len(log) => log'[s].kind # "system"
  PROVE  /\ ToldIsAdmitted'
         /\ \A c \in Nat : c <= Len(log) /\ NoSystemAfter(c) => NoSystemAfter(c)'
         /\ Compactions'
<1> USE DEF IInv, TypeOK
<1>1. ToldIsAdmitted'
  <2> SUFFICES ASSUME epoch # NoEpoch
               PROVE  TellsAfter(epoch.baseline, epoch.seq)' = epoch.snapshot
    BY DEF ToldIsAdmitted
  <2>1. \A k \in Key : Mentions(k, epoch.seq)' = Mentions(k, epoch.seq)
    BY DEF Mentions, Rows
  <2>2. \A k \in Key : \A s \in Mentions(k, epoch.seq) : log'[s] = log[s]
    BY DEF Mentions, Rows
  <2>3. \A k \in Key : Mentions(k, epoch.seq) # {} =>
          (CHOOSE s \in Mentions(k, epoch.seq) : \A t \in Mentions(k, epoch.seq) : t <= s)
            \in Mentions(k, epoch.seq)
    BY MentionsAreRows DEF Epoch
  <2>4. TellsAfter(epoch.baseline, epoch.seq)' = TellsAfter(epoch.baseline, epoch.seq)
    <3>1. ASSUME NEW k \in Key
          PROVE  TellsAfter(epoch.baseline, epoch.seq)'[k] = TellsAfter(epoch.baseline, epoch.seq)[k]
      <4> DEFINE M == Mentions(k, epoch.seq)
                 c == CHOOSE s \in M : \A t \in M : t <= s
      <4>1. TellsAfter(epoch.baseline, epoch.seq)[k] = IF M = {} THEN epoch.baseline[k] ELSE log[c].update[k]
        BY DEF TellsAfter
      <4>2. TellsAfter(epoch.baseline, epoch.seq)'[k] = IF M' = {} THEN epoch.baseline[k] ELSE log'[c'].update[k]
        BY DEF TellsAfter
      <4>3. M' = M
        BY <2>1
      <4>4. c' = c
        <5> HIDE DEF M
        <5> QED BY <4>3
      <4>5. M # {} => log'[c] = log[c]
        BY <2>2, <2>3
      <4> HIDE DEF M, c
      <4> QED BY <4>1, <4>2, <4>3, <4>4, <4>5
    <3> QED BY <3>1 DEF TellsAfter
  <2> QED BY <2>4 DEF ToldIsAdmitted
<1>2. \A c \in Nat : c <= Len(log) /\ NoSystemAfter(c) => NoSystemAfter(c)'
  BY DEF NoSystemAfter, Rows
<1>3. Compactions'
  <2> SUFFICES ASSUME epoch # NoEpoch, NEW s \in Rows', log'[s].kind = "compaction", s > epoch.seq
               PROVE  NoSystemAfter(s)'
    BY DEF Compactions
  <2>1. CASE s \in Rows
    <3>1. NoSystemAfter(s)
      BY <2>1 DEF Compactions
    <3> QED BY <3>1, <2>1, <1>2 DEF Rows
  <2>2. CASE s \notin Rows
    BY <2>2 DEF NoSystemAfter, Rows
  <2> QED BY <2>1, <2>2
<1> QED BY <1>1, <1>2, <1>3

\* A step that leaves the session's rows alone.
LEMMA RowsKept ==
  ASSUME IInv, UNCHANGED <<log, epoch>>
  PROVE  ToldIsAdmitted' /\ Compactions' /\ \A c : NoSystemAfter(c)' <=> NoSystemAfter(c)
<1>1. Len(log) \in Nat
  BY DEF IInv, TypeOK
<1>2. ToldIsAdmitted' /\ Compactions'
  BY <1>1, StillAdmitted DEF Rows
<1>3. \A c : NoSystemAfter(c)' <=> NoSystemAfter(c)
  BY DEF NoSystemAfter, Rows
<1> QED BY <1>2, <1>3

LEMMA OffType ==
  ASSUME TypeOK, Off, UNCHANGED <<durable, upgraded>>
  PROVE  TypeOK'
<1> USE DEF Off, durable, TypeOK
<1>1. log' \in Seq(Entries) /\ epoch' \in Epoch \cup {NoEpoch} /\ location' \in Location
  OBVIOUS
<1>2. pc' = "off" /\ at' \in Location /\ todo' = {} /\ stored' = NoEpoch /\ summary' = 0 /\ cut' = 0
  OBVIOUS
<1>3. upgraded' \in BOOLEAN
  OBVIOUS
<1>4. seen' = Nothing /\ told' = Nothing
  OBVIOUS
<1> QED BY <1>1, <1>2, <1>3, <1>4, Kinds

THEOREM Initial == Init => IInv
<1> SUFFICES ASSUME Init PROVE IInv
  OBVIOUS
<1> USE DEF Init
<1>1. TypeOK
  <2>1. log \in Seq(Entries) /\ summary \in Nat /\ cut \in Nat
    OBVIOUS
  <2>2. upgraded \in BOOLEAN
    BY Zenon
  <2> QED BY <2>1, <2>2, Kinds DEF TypeOK
<1>2. Held /\ Compactions /\ Summarised /\ Counted /\ Unread /\ ToldIsAdmitted
  BY DEF Held, Compactions, Summarised, Counted, Unread, ToldIsAdmitted
<1> QED BY <1>1, <1>2 DEF IInv

LEMMA BeginKeeps ==
  ASSUME IInv, Begin
  PROVE  IInv'
<1> USE DEF IInv, Begin, Off, durable, drain
<1>1. TypeOK'
  BY Kinds DEF TypeOK
<1> USE DEF TypeOK
<1>2. ToldIsAdmitted' /\ Compactions' /\ \A c : NoSystemAfter(c)' <=> NoSystemAfter(c)
  BY RowsKept
<1>3. Held'
  BY DEF Held
<1>4. Summarised'
  BY DEF Summarised, Rows
<1>5. Counted'
  BY <1>2 DEF Counted
<1>6. Unread'
  BY DEF Unread
<1> QED BY <1>1, <1>2, <1>3, <1>4, <1>5, <1>6

LEMMA FenceKeeps ==
  ASSUME IInv, Fence
  PROVE  IInv'
<1>1. TypeOK'
  <2>1. CASE location = at
    BY <2>1 DEF IInv, TypeOK, Fence, durable, drain
  <2>2. CASE ~(location = at)
    BY <2>2, OffType DEF IInv, Fence
  <2> QED BY <2>1, <2>2
<1> USE DEF IInv, Fence, Off, durable, drain
<1> USE DEF TypeOK
<1>2. ToldIsAdmitted' /\ Compactions' /\ \A c : NoSystemAfter(c)' <=> NoSystemAfter(c)
  BY RowsKept
<1>3. Held'
  BY DEF Held
<1>4. Summarised'
  BY DEF Summarised, Rows
<1>5. Counted'
  BY <1>2 DEF Counted
<1>6. Unread'
  BY DEF Unread
<1> QED BY <1>1, <1>2, <1>3, <1>4, <1>5, <1>6

LEMMA ExistsKeeps ==
  ASSUME IInv, Exists
  PROVE  IInv'
<1> USE DEF IInv, Exists, Off, durable, drain
<1>1. TypeOK'
  BY Kinds DEF TypeOK
<1> USE DEF TypeOK
<1>2. ToldIsAdmitted' /\ Compactions' /\ \A c : NoSystemAfter(c)' <=> NoSystemAfter(c)
  BY RowsKept
<1>3. Held'
  BY DEF Held
<1>4. Summarised'
  BY DEF Summarised, Rows
<1>5. Counted'
  BY <1>2 DEF Counted
<1>6. Unread'
  BY DEF Unread
<1> QED BY <1>1, <1>2, <1>3, <1>4, <1>5, <1>6

LEMMA ObserveKeeps ==
  ASSUME IInv, Observe
  PROVE  IInv'
<1>1. TypeOK'
  <2>1. PICK obs \in Observation : Observe!2!(obs)
    BY DEF Observe
  <2>2. CASE Complete(obs)
    BY <2>1, <2>2, Observed DEF IInv, TypeOK, Observe, durable
  <2>3. CASE ~Complete(obs)
    BY <2>1, <2>3, OffType DEF IInv, Observe
  <2> QED BY <2>2, <2>3
<1> USE DEF IInv, Observe, Off, durable, drain
<1> USE DEF TypeOK
<1>2. ToldIsAdmitted' /\ Compactions' /\ \A c : NoSystemAfter(c)' <=> NoSystemAfter(c)
  BY RowsKept
<1>3. Held'
  BY DEF Held
<1>4. Summarised'
  BY DEF Summarised, Rows
<1>5. Counted'
  BY <1>2 DEF Counted
<1>6. Unread'
  BY DEF Unread
<1> QED BY <1>1, <1>2, <1>3, <1>4, <1>5, <1>6

LEMMA ReadSequenceKeeps ==
  ASSUME IInv, ReadSequence
  PROVE  IInv'
<1> USE DEF IInv, ReadSequence, Off, durable, drain
<1>1. TypeOK'
  BY Kinds DEF TypeOK
<1> USE DEF TypeOK
<1>2. ToldIsAdmitted' /\ Compactions' /\ \A c : NoSystemAfter(c)' <=> NoSystemAfter(c)
  BY RowsKept
<1>3. Held'
  BY DEF Held
<1>4. Summarised'
  BY DEF Summarised, Rows
<1>5. Counted'
  BY DEF Counted, NoSystemAfter, Rows
<1>6. Unread'
  BY DEF Unread
<1> QED BY <1>1, <1>2, <1>3, <1>4, <1>5, <1>6

LEMMA PromotedKeeps ==
  ASSUME IInv, Promoted
  PROVE  IInv'
<1> USE DEF IInv, Promoted, Off, durable, drain
<1>1. TypeOK'
  BY Kinds DEF TypeOK
<1> USE DEF TypeOK
<1>2. ToldIsAdmitted' /\ Compactions' /\ \A c : NoSystemAfter(c)' <=> NoSystemAfter(c)
  BY RowsKept
<1>3. Held'
  BY DEF Held, Unread
<1>4. Summarised'
  BY DEF Summarised, Rows
<1>5. Counted'
  BY <1>2 DEF Counted
<1>6. Unread'
  BY DEF Unread
<1> QED BY <1>1, <1>2, <1>3, <1>4, <1>5, <1>6

LEMMA PrepareFindKeeps ==
  ASSUME IInv, PrepareFind
  PROVE  IInv'
<1> USE DEF IInv, PrepareFind, Off, durable, drain
<1>1. TypeOK'
  BY Kinds DEF TypeOK
<1> USE DEF TypeOK
<1>2. ToldIsAdmitted' /\ Compactions' /\ \A c : NoSystemAfter(c)' <=> NoSystemAfter(c)
  BY RowsKept
<1>3. Held'
  BY DEF Held
<1>4. Summarised'
  BY DEF Summarised, Rows
<1>5. Counted'
  BY <1>2 DEF Counted
<1>6. Unread'
  BY DEF Unread
<1> QED BY <1>1, <1>2, <1>3, <1>4, <1>5, <1>6

LEMMA PrepareCompactionKeeps ==
  ASSUME IInv, PrepareCompaction
  PROVE  IInv'
<1> USE DEF IInv, PrepareCompaction, Off, durable, drain
<1>1. TypeOK'
  BY Kinds, LatestCompactionIs DEF TypeOK
<1> USE DEF TypeOK
<1>2. ToldIsAdmitted' /\ Compactions' /\ \A c : NoSystemAfter(c)' <=> NoSystemAfter(c)
  BY RowsKept
<1>3. Held'
  BY DEF Held
<1>4. Summarised'
  BY LatestCompactionIs DEF Summarised, Rows
<1>5. Counted'
  BY <1>2 DEF Counted
<1>6. Unread'
  BY DEF Unread
<1> QED BY <1>1, <1>2, <1>3, <1>4, <1>5, <1>6

LEMMA PrepareObserveKeeps ==
  ASSUME IInv, PrepareObserve
  PROVE  IInv'
<1> USE DEF IInv, PrepareObserve, Off, durable, drain
<1>1. TypeOK'
  BY Kinds, Observed DEF TypeOK
<1> USE DEF TypeOK
<1>2. ToldIsAdmitted' /\ Compactions' /\ \A c : NoSystemAfter(c)' <=> NoSystemAfter(c)
  BY RowsKept
<1>3. Held'
  BY DEF Held
<1>4. Summarised'
  BY DEF Summarised, Rows
<1>5. Counted'
  BY <1>2 DEF Counted
<1>6. Unread'
  BY DEF Unread
<1> QED BY <1>1, <1>2, <1>3, <1>4, <1>5, <1>6

LEMMA DecideInsertKeeps ==
  ASSUME IInv, DecideInsert
  PROVE  IInv'
<1>1. TypeOK'
  <2>1. CASE Complete(seen)
    BY <2>1 DEF IInv, TypeOK, DecideInsert, durable, drain
  <2>2. CASE ~(Complete(seen))
    BY <2>2, OffType DEF IInv, DecideInsert
  <2> QED BY <2>1, <2>2
<1> USE DEF IInv, DecideInsert, Off, durable, drain
<1> USE DEF TypeOK
<1>2. ToldIsAdmitted' /\ Compactions' /\ \A c : NoSystemAfter(c)' <=> NoSystemAfter(c)
  BY RowsKept
<1>3. Held'
  BY DEF Held
<1>4. Summarised'
  BY DEF Summarised, Rows
<1>5. Counted'
  BY <1>2 DEF Counted
<1>6. Unread'
  BY DEF Unread
<1> QED BY <1>1, <1>2, <1>3, <1>4, <1>5, <1>6

LEMMA DecideKeepKeeps ==
  ASSUME IInv, DecideKeep
  PROVE  IInv'
<1> USE DEF IInv, DecideKeep, Off, durable, drain
<1>1. TypeOK'
  <2>1. stored # NoEpoch
    BY DEF Keeps
  <2>2. stored.baseline \in Told /\ stored.seq \in Nat
    BY <2>1 DEF TypeOK, Epoch
  <2> QED BY <2>2 DEF TypeOK
<1> USE DEF TypeOK
<1>2. ToldIsAdmitted' /\ Compactions' /\ \A c : NoSystemAfter(c)' <=> NoSystemAfter(c)
  BY RowsKept
<1>3. Held'
  BY DEF Held
<1>4. Summarised'
  BY DEF Summarised, Rows
<1>5. Counted'
  BY <1>2 DEF Counted
<1>6. Unread'
  BY DEF Unread
<1> QED BY <1>1, <1>2, <1>3, <1>4, <1>5, <1>6

LEMMA DecideReplaceKeeps ==
  ASSUME IInv, DecideReplace
  PROVE  IInv'
<1> USE DEF IInv, DecideReplace, Off, durable, drain
<1>1. TypeOK'
  BY Kinds DEF TypeOK, Epoch
<1> USE DEF TypeOK
<1>2. ToldIsAdmitted' /\ Compactions' /\ \A c : NoSystemAfter(c)' <=> NoSystemAfter(c)
  BY RowsKept
<1>3. Held'
  BY DEF Held
<1>4. Summarised'
  BY DEF Summarised, Rows
<1>5. Counted'
  <2> SUFFICES ASSUME epoch # NoEpoch PROVE cut' <= Len(log) /\ NoSystemAfter(cut')
    BY <1>2 DEF Counted
  <2>1. epoch = stored /\ todo = {} /\ epoch.seq \in Nat
    BY DEF Held, Summarised, Epoch
  <2>2. CASE summary > stored.seq /\ cut' = summary
    <3>1. summary \in Rows /\ log[summary].kind = "compaction"
      BY <2>1, <2>2 DEF Summarised
    <3> QED BY <2>1, <2>2, <3>1 DEF Compactions, Rows
  <2>3. CASE cut' = Len(log)
    BY <2>3 DEF NoSystemAfter, Rows
  <2> QED BY <2>2, <2>3
<1>6. Unread'
  BY DEF Unread
<1> QED BY <1>1, <1>2, <1>3, <1>4, <1>5, <1>6

LEMMA ReadHistoryKeeps ==
  ASSUME IInv, ReadHistory
  PROVE  IInv'
<1> USE DEF IInv, ReadHistory, Off, durable, drain
<1>1. TypeOK'
  BY Kinds, TellsType DEF TypeOK
<1> USE DEF TypeOK
<1>2. ToldIsAdmitted' /\ Compactions' /\ \A c : NoSystemAfter(c)' <=> NoSystemAfter(c)
  BY RowsKept
<1>3. Held'
  BY DEF Held
<1>4. Summarised'
  BY DEF Summarised, Rows
<1>5. Counted'
  BY <1>2 DEF Counted
<1>6. Unread'
  BY DEF Unread
<1> QED BY <1>1, <1>2, <1>3, <1>4, <1>5, <1>6

LEMMA AnsweredKeeps ==
  ASSUME IInv, Answered
  PROVE  IInv'
<1> USE DEF IInv, Answered, Off, durable, drain
<1>1. TypeOK'
  BY Kinds DEF TypeOK
<1> USE DEF TypeOK
<1>2. ToldIsAdmitted' /\ Compactions' /\ \A c : NoSystemAfter(c)' <=> NoSystemAfter(c)
  BY RowsKept
<1>3. Held'
  BY DEF Held
<1>4. Summarised'
  BY DEF Summarised, Rows
<1>5. Counted'
  BY <1>2 DEF Counted
<1>6. Unread'
  BY DEF Unread
<1> QED BY <1>1, <1>2, <1>3, <1>4, <1>5, <1>6

LEMMA EndKeeps ==
  ASSUME IInv, End
  PROVE  IInv'
<1> USE DEF IInv, End, Off, durable, drain
<1>1. TypeOK'
  BY Kinds DEF TypeOK
<1> USE DEF TypeOK
<1>2. ToldIsAdmitted' /\ Compactions' /\ \A c : NoSystemAfter(c)' <=> NoSystemAfter(c)
  BY RowsKept
<1>3. Held'
  BY DEF Held
<1>4. Summarised'
  BY DEF Summarised, Rows
<1>5. Counted'
  BY <1>2 DEF Counted
<1>6. Unread'
  BY DEF Unread
<1> QED BY <1>1, <1>2, <1>3, <1>4, <1>5, <1>6

LEMMA UpgradeKeeps ==
  ASSUME IInv, Upgrade
  PROVE  IInv'
<1> USE DEF IInv, Upgrade, Off, durable, drain
<1>1. TypeOK'
  BY Kinds DEF TypeOK
<1> USE DEF TypeOK
<1>2. ToldIsAdmitted' /\ Compactions' /\ \A c : NoSystemAfter(c)' <=> NoSystemAfter(c)
  BY RowsKept
<1>3. Held'
  BY DEF Held
<1>4. Summarised'
  BY DEF Summarised, Rows
<1>5. Counted'
  BY <1>2 DEF Counted
<1>6. Unread'
  BY DEF Unread
<1> QED BY <1>1, <1>2, <1>3, <1>4, <1>5, <1>6

LEMMA InsertKeeps ==
  ASSUME IInv, Insert
  PROVE  IInv'
<1>1. CASE epoch = NoEpoch
  <2> USE <1>1 DEF IInv, Insert
  <2>1. /\ epoch' = [baseline |-> Generation(seen), snapshot |-> Generation(seen), seq |-> cut]
        /\ UNCHANGED <<log, location, upgraded, at, todo, seen, stored, summary, cut>>
        /\ told' = Generation(seen) /\ pc' \in {"promoteFirst", "history"}
        /\ pc = "insert" => pc' = "promoteFirst"
        /\ Generation(seen) \in Told
        /\ cut \in Nat /\ cut <= Len(log) /\ NoSystemAfter(cut)
    BY Observed DEF TypeOK, Counted
  <2>2. TypeOK'
    BY <2>1 DEF TypeOK, Epoch
  <2>3. Held' /\ Summarised' /\ Counted'
    BY <2>1 DEF Held, Summarised, Counted
  <2>4. Unread'
    BY <2>1 DEF Unread
  <2>5. Compactions'
    BY <2>1 DEF Compactions, NoSystemAfter, Rows, TypeOK
  <2>6. ToldIsAdmitted'
    <3>1. \A k \in Key : Mentions(k, cut)' = {}
      BY <2>1 DEF Mentions, NoSystemAfter, Rows
    <3>2. \A k \in Key : Mentions(k, epoch.seq)' = {}
      BY <2>1, <3>1 DEF Mentions
    <3> QED BY <2>1, <3>2 DEF ToldIsAdmitted, TellsAfter, Told
  <2> QED BY <2>2, <2>3, <2>4, <2>5, <2>6
<1>2. CASE epoch # NoEpoch
  <2> USE <1>2 DEF IInv, Insert, Off
  <2>1. TypeOK'
    BY Kinds DEF TypeOK
  <2>2. ToldIsAdmitted' /\ Compactions'
    BY RowsKept
  <2>3. Held' /\ Summarised' /\ Counted' /\ Unread'
    BY DEF Held, Summarised, Counted, Unread
  <2> QED BY <2>1, <2>2, <2>3
<1> QED BY <1>1, <1>2

LEMMA ReplaceKeeps ==
  ASSUME IInv, Replace
  PROVE  IInv'
<1>1. CASE epoch # NoEpoch
  <2> USE <1>1 DEF IInv, Replace
  <2>1. /\ epoch' = [baseline |-> Generation(seen), snapshot |-> Generation(seen), seq |-> cut]
        /\ UNCHANGED <<log, location, upgraded, at, todo, seen, stored, summary, cut>>
        /\ told' = Generation(seen) /\ pc' \in {"history"}
        /\ Generation(seen) \in Told
        /\ cut \in Nat /\ cut <= Len(log) /\ NoSystemAfter(cut)
    BY Observed DEF TypeOK, Counted
  <2>2. TypeOK'
    BY <2>1 DEF TypeOK, Epoch
  <2>3. Held' /\ Summarised' /\ Counted'
    BY <2>1 DEF Held, Summarised, Counted
  <2>4. Unread'
    BY <2>1 DEF Unread
  <2>5. Compactions'
    BY <2>1 DEF Compactions, NoSystemAfter, Rows, TypeOK
  <2>6. ToldIsAdmitted'
    <3>1. \A k \in Key : Mentions(k, cut)' = {}
      BY <2>1 DEF Mentions, NoSystemAfter, Rows
    <3>2. \A k \in Key : Mentions(k, epoch.seq)' = {}
      BY <2>1, <3>1 DEF Mentions
    <3> QED BY <2>1, <3>2 DEF ToldIsAdmitted, TellsAfter, Told
  <2> QED BY <2>2, <2>3, <2>4, <2>5, <2>6
<1>2. CASE epoch = NoEpoch
  <2> USE <1>2 DEF IInv, Replace, Off
  <2>1. TypeOK'
    BY Kinds DEF TypeOK
  <2>2. ToldIsAdmitted' /\ Compactions'
    BY RowsKept
  <2>3. Held' /\ Summarised' /\ Counted' /\ Unread'
    BY DEF Held, Summarised, Counted, Unread
  <2> QED BY <2>1, <2>2, <2>3
<1> QED BY <1>1, <1>2

LEMMA PromoteKeeps ==
  ASSUME IInv, Promote
  PROVE  IInv'
<1> USE DEF IInv, Promote, drain
<1>0. Plain("user") \in Entries /\ Plain("user").kind = "user"
  BY RowKinds
<1>1. /\ log' \in Seq(Entries) /\ Len(log) \in Nat /\ Len(log') = Len(log) + 1
      /\ \A s \in Rows : log'[s] = log[s]
      /\ log'[Len(log) + 1].kind = "user"
  BY <1>0, Appended DEF TypeOK
<1>2. TypeOK'
  BY <1>1, Kinds DEF TypeOK
<1>3. \A s \in Rows' : s > Len(log) => log'[s].kind # "system"
  BY <1>1 DEF Rows
<1>4. \A c \in Nat : c <= Len(log) /\ NoSystemAfter(c) => NoSystemAfter(c)'
  BY <1>1, <1>3 DEF NoSystemAfter, Rows
<1>5. ToldIsAdmitted' /\ Compactions'
  <2>1. epoch' = epoch /\ Len(log') >= Len(log) /\ Len(log') \in Nat
    BY <1>1
  <2> QED BY <1>1, <1>3, <2>1, StillAdmitted
<1> USE DEF TypeOK
<1>6. Held'
  BY <1>1 DEF Held, Epoch
<1>7. Summarised'
  BY <1>1 DEF Summarised, Rows
<1>8. Counted'
  BY <1>1, <1>4 DEF Counted
<1>9. Unread'
  BY DEF Unread
<1> QED BY <1>2, <1>5, <1>6, <1>7, <1>8, <1>9

LEMMA CompactKeeps ==
  ASSUME IInv, Compact
  PROVE  IInv'
<1> USE DEF IInv, Compact, drain
<1>0. Plain("compaction") \in Entries /\ Plain("compaction").kind = "compaction"
  BY RowKinds
<1>1. /\ log' \in Seq(Entries) /\ Len(log) \in Nat /\ Len(log') = Len(log) + 1
      /\ \A s \in Rows : log'[s] = log[s]
      /\ log'[Len(log) + 1].kind = "compaction"
  BY <1>0, Appended DEF TypeOK
<1>2. TypeOK'
  BY <1>1, Kinds DEF TypeOK
<1>3. \A s \in Rows' : s > Len(log) => log'[s].kind # "system"
  BY <1>1 DEF Rows
<1>4. \A c \in Nat : c <= Len(log) /\ NoSystemAfter(c) => NoSystemAfter(c)'
  BY <1>1, <1>3 DEF NoSystemAfter, Rows
<1>5. ToldIsAdmitted' /\ Compactions'
  <2>1. epoch' = epoch /\ Len(log') >= Len(log) /\ Len(log') \in Nat
    BY <1>1
  <2> QED BY <1>1, <1>3, <2>1, StillAdmitted
<1> USE DEF TypeOK
<1>6. Held'
  BY <1>1 DEF Held, Epoch
<1>7. Summarised'
  BY <1>1 DEF Summarised, Rows
<1>8. Counted'
  BY <1>1, <1>4 DEF Counted
<1>9. Unread'
  BY DEF Unread
<1> QED BY <1>2, <1>5, <1>6, <1>7, <1>8, <1>9

LEMMA MoveKeeps ==
  ASSUME IInv, Move
  PROVE  IInv'
<1> USE DEF IInv, Move, drain
<1>0. Plain("moved") \in Entries /\ Plain("moved").kind = "moved"
  BY RowKinds
<1>1. /\ log' \in Seq(Entries) /\ Len(log) \in Nat /\ Len(log') = Len(log) + 1
      /\ \A s \in Rows : log'[s] = log[s]
      /\ log'[Len(log) + 1].kind = "moved"
  BY <1>0, Appended DEF TypeOK
<1>2. TypeOK'
  BY <1>1, Kinds DEF TypeOK
<1>3. \A s \in Rows' : s > Len(log) => log'[s].kind # "system"
  BY <1>1 DEF Rows
<1>4. \A c \in Nat : c <= Len(log) /\ NoSystemAfter(c) => NoSystemAfter(c)'
  BY <1>1, <1>3 DEF NoSystemAfter, Rows
<1>5. ToldIsAdmitted' /\ Compactions'
  BY DEF ToldIsAdmitted, Compactions
<1> USE DEF TypeOK
<1>6. Held'
  BY <1>1 DEF Held, Epoch
<1>7. Summarised'
  BY <1>1 DEF Summarised, Rows
<1>8. Counted'
  BY <1>1, <1>4 DEF Counted
<1>9. Unread'
  BY DEF Unread
<1> QED BY <1>2, <1>5, <1>6, <1>7, <1>8, <1>9

LEMMA RevertKeeps ==
  ASSUME IInv, Revert
  PROVE  IInv'
<1> USE DEF IInv, Revert, drain
<1>0. PICK b \in Rows :
        log' = Append([s \in 1..Len(log) |-> IF s > b THEN Plain("deleted") ELSE log[s]],
                      Plain("reverted"))
  BY DEF Rows
<1> DEFINE l == [s \in 1..Len(log) |-> IF s > b THEN Plain("deleted") ELSE log[s]]
<1>1. /\ Plain("reverted") \in Entries /\ Plain("reverted").kind = "reverted"
      /\ Plain("deleted") \in Entries /\ Plain("deleted").kind = "deleted"
  BY RowKinds
<1>2. Len(log) \in Nat /\ l \in Seq(Entries) /\ Len(l) = Len(log)
  BY <1>1 DEF TypeOK
<1>3. /\ log' \in Seq(Entries) /\ Len(log') = Len(log) + 1
      /\ \A s \in Rows : log'[s] = IF s > b THEN Plain("deleted") ELSE log[s]
      /\ log'[Len(log) + 1] = Plain("reverted")
  <2> HIDE DEF l
  <2>1. log' = Append(l, Plain("reverted"))
    BY <1>0 DEF l
  <2>2. \A s \in Rows : l[s] = IF s > b THEN Plain("deleted") ELSE log[s]
    BY DEF l, Rows
  <2> QED BY <1>1, <1>2, <2>1, <2>2 DEF Rows
<1>4. TypeOK'
  BY <1>3 DEF TypeOK
<1>5. \A s \in Rows' : \/ s = Len(log) + 1 /\ log'[s].kind = "reverted"
                       \/ s \in Rows /\ log'[s].kind = "deleted"
                       \/ s \in Rows /\ log'[s] = log[s]
  BY <1>1, <1>2, <1>3 DEF Rows
<1>6. \A c \in Nat : c <= Len(log) /\ NoSystemAfter(c) => NoSystemAfter(c)'
  BY <1>5 DEF NoSystemAfter
<1>7. ToldIsAdmitted' /\ Compactions' /\ Held'
  BY DEF ToldIsAdmitted, Compactions, Held
<1> USE DEF TypeOK
<1>8. Summarised'
  BY <1>5 DEF Summarised
<1>9. Counted'
  BY <1>2, <1>3, <1>6 DEF Counted
<1>10. Unread'
  BY DEF Unread
<1> QED BY <1>4, <1>7, <1>8, <1>9, <1>10

LEMMA AdvanceKeeps ==
  ASSUME IInv, Advance
  PROVE  IInv'
<1>1. CASE epoch = NoEpoch
  <2> USE <1>1 DEF IInv, Advance, Off
  <2>1. TypeOK'
    BY Kinds DEF TypeOK
  <2>2. ToldIsAdmitted' /\ Compactions'
    BY RowsKept
  <2>3. Held' /\ Summarised' /\ Counted' /\ Unread'
    BY DEF Held, Summarised, Counted, Unread
  <2> QED BY <2>1, <2>2, <2>3
<1>2. CASE epoch # NoEpoch
  <2> DEFINE u == Update(seen, stored.snapshot)
             r == Reconciled(seen, stored.snapshot)
  <2>1. /\ epoch = stored /\ epoch \in Epoch /\ todo = {} /\ pc = "decide"
        /\ summary <= epoch.seq /\ summary \in Nat
    BY <1>2 DEF IInv, Advance, Held, Summarised, TypeOK
  <2>2. /\ log' = Append(log, System(u))
        /\ epoch' = [epoch EXCEPT !.snapshot = r]
        /\ told' = stored.baseline /\ cut' = stored.seq /\ pc' = "history"
        /\ UNCHANGED <<location, upgraded, at, todo, seen, stored, summary>>
    BY <1>2 DEF Advance
  <2>3. /\ seen \in [Key -> Value \cup {Unavailable, Gone}] /\ log \in Seq(Entries)
        /\ stored.snapshot \in Told /\ stored.baseline \in Told /\ stored.seq \in Nat
    BY <2>1 DEF IInv, TypeOK, Epoch
  <2>4. u \in [Key -> Value \cup {Gone, Same}] /\ r \in Told
    BY <2>3 DEF Update, Reconciled, Told
  <2>5. System(u) \in Entries /\ System(u).kind = "system" /\ System(u).update = u
    BY <2>4, RowKinds
  <2>6. /\ log' \in Seq(Entries) /\ Len(log) \in Nat /\ Len(log') = Len(log) + 1
        /\ \A s \in Rows : log'[s] = log[s]
        /\ log'[Len(log) + 1] = System(u)
    <3> HIDE DEF u
    <3> QED BY <2>2, <2>3, <2>5, Appended
  <2>7. epoch' = [baseline |-> stored.baseline, snapshot |-> r, seq |-> stored.seq]
    <3> HIDE DEF r
    <3> QED BY <2>1, <2>2 DEF Epoch
  <2>8. TypeOK'
    <3> HIDE DEF r
    <3>1. epoch' \in Epoch
      BY <2>3, <2>4, <2>7 DEF Epoch
    <3> QED BY <2>2, <2>3, <2>6, <3>1 DEF IInv, TypeOK
  <2>9. epoch.seq <= Len(log)
    BY <1>2 DEF IInv, Held
  <2> HIDE DEF u, r
  <2>10. Held' /\ Summarised' /\ Counted' /\ Unread'
    BY <2>1, <2>2, <2>3, <2>6, <2>7, <2>9 DEF Held, Summarised, Counted, Unread
  <2>11. Compactions'
    <3>1. \A s \in Rows : log[s].kind = "compaction" => s <= epoch.seq
      BY <2>1, <2>3 DEF IInv, Summarised, Rows
    <3>2. \A s \in Rows' : log'[s].kind = "compaction" => s <= stored.seq
      BY <2>1, <2>5, <2>6, <3>1 DEF Rows
    <3> QED BY <2>7, <3>2, <2>3, <2>6 DEF Compactions, Rows
  <2>12. ToldIsAdmitted'
    <3>1. ASSUME NEW k \in Key
          PROVE  TellsAfter(epoch.baseline, epoch.seq)'[k] = r[k]
      <4>0. /\ TellsAfter(stored.baseline, stored.seq)[k] = stored.snapshot[k]
            /\ epoch'.baseline = stored.baseline /\ epoch'.seq = stored.seq
            /\ \A s \in Mentions(k, stored.seq) : s \in Rows
        BY <1>2, <2>1, <2>7 DEF IInv, ToldIsAdmitted, Mentions, Rows
      <4>1. CASE u[k] = Same
        <5>1. Mentions(k, epoch.seq)' = Mentions(k, stored.seq)
          BY <4>1, <4>0, <2>3, <2>5, <2>6 DEF Mentions, Rows
        <5>2. TellsAfter(epoch.baseline, epoch.seq)'[k] = TellsAfter(stored.baseline, stored.seq)[k]
          <6> DEFINE M == Mentions(k, stored.seq)
                     c == CHOOSE s \in M : \A t \in M : t <= s
                     d == CHOOSE s \in Mentions(k, epoch.seq)' : \A t \in Mentions(k, epoch.seq)' : t <= s
          <6>1. TellsAfter(stored.baseline, stored.seq)[k] = IF M = {} THEN stored.baseline[k] ELSE log[c].update[k]
            BY DEF TellsAfter
          <6>2. TellsAfter(epoch.baseline, epoch.seq)'[k] =
                  IF Mentions(k, epoch.seq)' = {} THEN epoch'.baseline[k] ELSE log'[d].update[k]
            BY DEF TellsAfter
          <6>3. d = c
            <7> HIDE DEF M
            <7> QED BY <5>1 DEF M
          <6>4. M # {} => c \in M
            BY <2>3, MentionsAreRows DEF IInv
          <6> HIDE DEF M, c, d
          <6> QED BY <6>1, <6>2, <6>3, <6>4, <5>1, <4>0, <2>6 DEF M
        <5>3. r[k] = stored.snapshot[k]
          BY <4>1, <2>3, DistinctMarks DEF u, r, Update, Reconciled, Told
        <5> QED BY <5>2, <5>3, <4>0
      <4>2. CASE u[k] # Same
        <5>1. Len(log) + 1 \in Mentions(k, epoch.seq)'
          BY <4>2, <4>0, <2>1, <2>3, <2>5, <2>6, <2>9 DEF Mentions
        <5>2. \A t \in Mentions(k, epoch.seq)' : t <= Len(log) + 1 /\ t \in Nat
          BY <2>6 DEF Mentions
        <5>3. (CHOOSE s \in Mentions(k, epoch.seq)' : \A t \in Mentions(k, epoch.seq)' : t <= s)
                = Len(log) + 1
          BY <5>1, <5>2, <2>6
        <5>4. TellsAfter(epoch.baseline, epoch.seq)'[k] = u[k]
          BY <5>1, <5>3, <2>5, <2>6 DEF TellsAfter
        <5>5. u[k] = r[k]
          BY <4>2, <2>3 DEF u, r, Update, Reconciled
        <5> QED BY <5>4, <5>5
      <4> QED BY <4>1, <4>2
    <3>2. r = [k \in Key |-> r[k]]
      BY <2>4 DEF Told
    <3>3. TellsAfter(epoch.baseline, epoch.seq)' = [k \in Key |-> TellsAfter(epoch.baseline, epoch.seq)'[k]]
      BY DEF TellsAfter
    <3>4. TellsAfter(epoch.baseline, epoch.seq)' = r
      BY <3>1, <3>2, <3>3
    <3> QED BY <3>4, <2>7 DEF ToldIsAdmitted
  <2> QED BY <2>8, <2>10, <2>11, <2>12 DEF IInv
<1> QED BY <1>1, <1>2

LEMMA StutterKeeps ==
  ASSUME IInv, UNCHANGED vars
  PROVE  IInv'
<1> USE DEF IInv, vars, durable, drain
<1>1. TypeOK'
  BY DEF TypeOK
<1>2. ToldIsAdmitted' /\ Compactions' /\ \A c : NoSystemAfter(c)' <=> NoSystemAfter(c)
  BY RowsKept
<1>3. Held' /\ Summarised' /\ Unread'
  BY DEF Held, Summarised, Unread, Rows
<1>4. Counted'
  BY <1>2 DEF Counted
<1> QED BY <1>1, <1>2, <1>3, <1>4

THEOREM Inductive == Spec => []IInv
<1>1. ASSUME IInv, [Next]_vars PROVE IInv'
  BY <1>1, StutterKeeps, BeginKeeps, FenceKeeps, ExistsKeeps, ObserveKeeps, ReadSequenceKeeps,
     InsertKeeps, PromoteKeeps, PromotedKeeps, PrepareObserveKeeps, PrepareFindKeeps,
     PrepareCompactionKeeps, DecideInsertKeeps, DecideKeepKeeps, DecideReplaceKeeps, ReplaceKeeps,
     AdvanceKeeps, ReadHistoryKeeps, CompactKeeps, AnsweredKeeps, EndKeeps, MoveKeeps, RevertKeeps,
     UpgradeKeeps
  DEF Next
<1> QED BY <1>1, Initial, PTL DEF Spec

-----------------------------------------------------------------------------
\* Every variable keeps to its type.
THEOREM TypeCorrect == Spec => []TypeOK
<1>1. IInv => TypeOK
  BY DEF IInv
<1> QED BY <1>1, Inductive, PTL

\* The snapshot of the epoch is what its baseline and the updates after it tell
\* (prepare, insert, replace, advance in session/context-epoch.ts).
THEOREM AdmittedIsTold == Spec => []ToldIsAdmitted
<1>1. IInv => ToldIsAdmitted
  BY DEF IInv
<1> QED BY <1>1, Inductive, PTL

\* Why the attempt replaces the baseline.
Due ==
  pc = "replace" =>
    /\ stored # NoEpoch
    /\ epoch # NoEpoch =>
         /\ ~Blocked(seen, stored.snapshot)
         /\ \/ NeedsReplacement(seen, stored.snapshot)
            \/ \E s \in Rows : log[s].kind = "compaction" /\ s > stored.seq

LEMMA DueKeeps ==
  ASSUME IInv, Due, [Next]_vars
  PROVE  Due'
<1>1. CASE DecideReplace
  <2>1. /\ stored # NoEpoch /\ ~Blocked(seen, stored.snapshot) /\ todo = {} /\ pc = "decide"
        /\ summary > stored.seq \/ NeedsReplacement(seen, stored.snapshot)
        /\ UNCHANGED <<log, epoch, seen, stored>>
    BY <1>1 DEF DecideReplace, IInv, Summarised, durable
  <2>2. stored.seq \in Nat /\ summary \in Nat
    BY <2>1 DEF IInv, TypeOK, Epoch
  <2>3. epoch # NoEpoch /\ summary > stored.seq => summary \in Rows /\ log[summary].kind = "compaction"
    BY <2>1, <2>2 DEF IInv, Summarised
  <2> QED BY <2>1, <2>2, <2>3 DEF Due, Blocked, NeedsReplacement, Incompatible, Rows
<1>2. CASE Move \/ Revert
  BY <1>2 DEF Move, Revert, Due, drain
<1>3. CASE Next /\ ~DecideReplace /\ ~Move /\ ~Revert
  <2>1. pc' # "replace"
    BY <1>3 DEF Next, Begin, Fence, Exists, Observe, ReadSequence, Insert, Promote, Promoted,
       PrepareObserve, PrepareFind, PrepareCompaction, DecideInsert, DecideKeep, Replace, Advance,
       ReadHistory, Compact, Answered, End, Upgrade, Off
  <2> QED BY <2>1 DEF Due
<1>4. CASE UNCHANGED vars
  BY <1>4 DEF Due, Blocked, NeedsReplacement, Incompatible, Rows, vars, durable, drain
<1> QED BY <1>1, <1>2, <1>3, <1>4

LEMMA OnlyReplaceExchanges ==
  ASSUME IInv, Due, [Next]_vars, epoch # NoEpoch, epoch' # NoEpoch, epoch'.baseline # epoch.baseline
  PROVE  /\ LatestCompaction > epoch.seq \/ NeedsReplacement(seen, epoch.snapshot)
         /\ ~Blocked(seen, epoch.snapshot)
<1>1. CASE Replace
  <2>1. pc = "replace" /\ epoch = stored
    BY <1>1 DEF Replace, IInv, Held, Due
  <2>2. ~Blocked(seen, epoch.snapshot)
    BY <2>1 DEF Due
  <2>3. CASE NeedsReplacement(seen, epoch.snapshot)
    BY <2>2, <2>3
  <2>4. CASE \E s \in Rows : log[s].kind = "compaction" /\ s > epoch.seq
    <3>1. LatestCompaction \in Nat /\ epoch.seq \in Nat
          /\ \A s \in Rows : log[s].kind = "compaction" => s <= LatestCompaction
      BY LatestCompactionIs DEF IInv, TypeOK, Epoch
    <3>2. LatestCompaction > epoch.seq
      BY <2>4, <3>1 DEF Rows
    <3> QED BY <2>2, <3>2
  <2> QED BY <2>1, <2>3, <2>4 DEF Due
<1>2. CASE Advance
  <2>1. epoch' = [epoch EXCEPT !.snapshot = Reconciled(seen, stored.snapshot)]
    BY <1>2 DEF Advance
  <2>2. epoch \in Epoch
    BY DEF IInv, TypeOK
  <2> QED BY <2>1, <2>2 DEF Epoch
<1>3. CASE ~Replace /\ ~Advance
  <2>1. epoch' = epoch \/ epoch = NoEpoch \/ epoch' = NoEpoch
    BY <1>3 DEF Next, Begin, Fence, Exists, Observe, ReadSequence, Insert, Promote, Promoted,
       PrepareObserve, PrepareFind, PrepareCompaction, DecideInsert, DecideKeep, DecideReplace,
       ReadHistory, Compact, Answered, End, Move, Revert, Upgrade, vars, durable
  <2> QED BY <2>1
<1> QED BY <1>1, <1>2, <1>3

\* A baseline that is stored is only exchanged for the reasons decide has (prepare in
\* session/context-epoch.ts), and these still hold when the row is written.
THEOREM BaselineStays == Spec => BaselineIsKept
<1>1. Init => Due
  BY DEF Init, Due
<1>2. Spec => []Due
  BY <1>1, DueKeeps, Inductive, PTL DEF Spec
<1> QED BY <1>2, OnlyReplaceExchanges, Inductive, PTL DEF Spec, BaselineIsKept
-----------------------------------------------------------------------------
(* What a request tells. *)

\* Tells(t): t tells what the attempt observed, but for a replacement that has to wait.
Tells(t) ==
  \/ Keeps /\ t = stored.snapshot
  \/ \A k \in Key : t[k] = IF seen[k] = Unavailable THEN stored.snapshot[k] ELSE seen[k]

\* An attempt that has read a row and still finds one goes by the row it finds.
Telling ==
  /\ pc \in {"prepareSequence", "prepareInsert"} => stored = NoEpoch
  /\ epoch # NoEpoch /\ stored # NoEpoch =>
       /\ pc = "history" => told = epoch.baseline /\ cut = epoch.seq /\ Tells(epoch.snapshot)
       /\ pc = "call" => Tells(told)

LEMMA TellsSame ==
  ASSUME UNCHANGED <<seen, stored, summary>>, NEW t, Tells(t)
  PROVE  Tells(t)'
BY DEF Tells, Keeps, Blocked, NeedsReplacement, Incompatible, Update

LEMMA KeepTells ==
  ASSUME IInv, DecideKeep
  PROVE  Telling'
<1>1. /\ UNCHANGED <<epoch, seen, stored, summary>>
      /\ pc = "decide" /\ pc' = "history" /\ Keeps /\ told' = stored.baseline /\ cut' = stored.seq
  BY DEF DecideKeep, durable
<1>2. epoch # NoEpoch => epoch = stored
  BY <1>1 DEF IInv, Held, Keeps
<1>3. Tells(stored.snapshot)
  BY <1>1 DEF Tells
<1>4. Tells(stored.snapshot)'
  BY <1>1, <1>3, TellsSame
<1> QED BY <1>1, <1>2, <1>4 DEF Telling

LEMMA AdvanceTells ==
  ASSUME IInv, Advance
  PROVE  Telling'
<1>1. CASE epoch = NoEpoch
  BY <1>1 DEF Advance, Off, Telling
<1>2. CASE epoch # NoEpoch
  <2>0. PICK r : r = Reconciled(seen, stored.snapshot)
    OBVIOUS
  <2>1. epoch = stored /\ epoch \in Epoch
    BY <1>2 DEF IInv, TypeOK, Held, Advance
  <2>2. /\ epoch' = [epoch EXCEPT !.snapshot = r]
        /\ told' = stored.baseline /\ cut' = stored.seq /\ pc' = "history"
        /\ UNCHANGED <<seen, stored, summary>>
    BY <1>2, <2>0 DEF Advance
  <2>3. \A k \in Key : r[k] = IF seen[k] = Unavailable THEN stored.snapshot[k] ELSE seen[k]
    BY <2>0 DEF Reconciled
  <2>4. epoch'.snapshot = r /\ epoch'.baseline = stored.baseline /\ epoch'.seq = stored.seq
    BY <2>1, <2>2 DEF Epoch
  <2>5. Tells(r)'
    BY <2>2, <2>3 DEF Tells
  <2> QED BY <2>2, <2>4, <2>5 DEF Telling
<1> QED BY <1>1, <1>2

LEMMA ReplaceTells ==
  ASSUME IInv, Due, Replace
  PROVE  Telling'
<1>1. CASE epoch = NoEpoch
  BY <1>1 DEF Replace, Off, Telling
<1>2. CASE epoch # NoEpoch
  <2>0. PICK g : g = Generation(seen)
    OBVIOUS
  <2>1. /\ epoch' = [baseline |-> g, snapshot |-> g, seq |-> cut] /\ told' = g /\ pc' = "history"
        /\ UNCHANGED <<seen, stored, summary, cut>>
    BY <1>2, <2>0 DEF Replace
  <2>2. ~Blocked(seen, stored.snapshot)
    BY <1>2 DEF Replace, Due
  <2>3. \A k \in Key : g[k] = IF seen[k] = Unavailable THEN stored.snapshot[k] ELSE seen[k]
    BY <2>0, <2>2 DEF Generation, Blocked
  <2>4. Tells(g)'
    BY <2>1, <2>3 DEF Tells
  <2> QED BY <2>1, <2>4 DEF Telling
<1> QED BY <1>1, <1>2

LEMMA HistoryTells ==
  ASSUME IInv, Telling, ReadHistory
  PROVE  Telling'
<1>1. /\ UNCHANGED <<epoch, seen, stored, summary>>
      /\ pc = "history" /\ pc' = "call" /\ told' = TellsAfter(told, cut)
  BY DEF ReadHistory, durable
<1>2. SUFFICES ASSUME epoch # NoEpoch, stored # NoEpoch PROVE Tells(told)'
  BY <1>1 DEF Telling
<1>3. told = epoch.baseline /\ cut = epoch.seq /\ Tells(epoch.snapshot)
  BY <1>1, <1>2 DEF Telling
<1>4. told' = epoch.snapshot
  BY <1>1, <1>2, <1>3 DEF IInv, ToldIsAdmitted
<1>5. Tells(epoch.snapshot)'
  BY <1>1, <1>3, TellsSame
<1> QED BY <1>1, <1>4, <1>5

LEMMA TellingKeeps ==
  ASSUME IInv, Due, Telling, [Next]_vars
  PROVE  Telling'
<1>1. CASE DecideKeep \/ Advance \/ Replace \/ ReadHistory
  BY <1>1, KeepTells, AdvanceTells, ReplaceTells, HistoryTells
<1>2. CASE ReadSequence
  BY <1>2 DEF IInv, Unread, ReadSequence, Telling
<1>3. CASE Insert
  <2>1. stored = NoEpoch
    BY <1>3 DEF Insert, Telling, IInv, Unread
  <2> QED BY <1>3, <2>1 DEF Insert, Telling, Off
<1>4. CASE Promoted
  <2>1. pc = "promoteFirst" => stored = NoEpoch
    BY DEF IInv, Unread
  <2> QED BY <1>4, <2>1 DEF Promoted, Telling
<1>5. CASE DecideInsert
  BY <1>5 DEF DecideInsert, Telling, Off, drain
<1>6. CASE Move \/ Revert
  BY <1>6 DEF Move, Revert, Telling, drain
<1>7. CASE Begin \/ Fence \/ Exists \/ Observe \/ Promote \/ PrepareObserve \/ PrepareFind
           \/ PrepareCompaction \/ DecideReplace \/ Compact \/ Answered \/ End \/ Upgrade
  <2>1. pc' \notin {"prepareSequence", "prepareInsert", "history", "call"}
    BY <1>7 DEF Begin, Fence, Exists, Observe, Promote, PrepareObserve, PrepareFind,
       PrepareCompaction, DecideReplace, Compact, Answered, End, Upgrade, Off
  <2> QED BY <2>1 DEF Telling
<1>8. CASE UNCHANGED vars
  <2>1. UNCHANGED <<epoch, pc, seen, stored, summary, told, cut>>
    BY <1>8 DEF vars, durable, drain
  <2>2. Tells(epoch.snapshot) => Tells(epoch.snapshot)'
    BY <2>1, TellsSame
  <2>3. Tells(told) => Tells(told)'
    BY <2>1, TellsSame
  <2> QED BY <2>1, <2>2, <2>3 DEF Telling
<1> QED BY <1>1, <1>2, <1>3, <1>4, <1>5, <1>6, <1>7, <1>8 DEF Next

\* While the epoch an attempt read is still there, its request tells what the attempt
\* observed, and of a source it could not observe what was told before (runTurnAttempt in
\* session/runner/llm.ts, prepare in session/context-epoch.ts), unless a replacement has to
\* wait.  It says nothing of a request whose epoch a move or a revert reset meanwhile.
THEOREM TellsWhatWasSeen == Spec => []RequestTellsWhatWasSeen
<1>1. Init => Due /\ Telling
  BY DEF Init, Due, Telling
<1>2. Telling => RequestTellsWhatWasSeen
  BY DEF Telling, Tells, RequestTellsWhatWasSeen
<1> QED BY <1>1, <1>2, DueKeeps, TellingKeeps, Inductive, PTL DEF Spec
=============================================================================

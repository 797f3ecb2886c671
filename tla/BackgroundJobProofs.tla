------------------------- MODULE BackgroundJobProofs -------------------------
(***************************************************************************)
(* Proofs about BackgroundJob, for any number of jobs and of extensions.   *)
(*                                                                         *)
(* While a job runs, its count of pending runs is the number of those that *)
(* have not settled, every settled one has succeeded, and its output is    *)
(* that of the latest among them; a run starts only behind runs that all   *)
(* have ended.                                                             *)
(***************************************************************************)
EXTENDS BackgroundJob, FiniteSets, FiniteSetTheorems, TLAPS

Unsettled(j) == {n \in Run : fiber[j][n] \in {"waiting", "running", "ended"}}

\* Only the entry's job runs; what the jobs before it are told is final.
EntryInv ==
  \A j \in Job :
    /\ status[j] = "none" <=> j > entry
    /\ status[j] = "running" => j = entry
    /\ open[j] <=> status[j] = "running"
    /\ done[j] = IF status[j] \in {"none", "running"} THEN "none" ELSE status[j]

\* The runs of a job, in their order.
ChainInv ==
  \A j \in Job :
    /\ next[j] <= MaxExtend + 1
    /\ status[j] = "none" <=> next[j] = 0
    /\ status[j] = "none" => output[j] = -1
    /\ \A n \in Run :
         /\ fiber[j][n] = "none" <=> n >= next[j]
         /\ fiber[j][n] = "waiting" => n > 0
         /\ fiber[j][n] \notin {"none", "waiting"} =>
              \A m \in Run : m < n => fiber[j][m] \in {"ended", "gone"}

\* What a job that runs knows of its runs.
CountInv ==
  \A j \in Job : status[j] = "running" =>
    /\ pending[j] = Cardinality(Unsettled(j))
    /\ output[j] < next[j]
    /\ \A n \in Run : fiber[j][n] = "gone" => exit[j][n] = "success" /\ n <= output[j]

IInv == TypeOK /\ EntryInv /\ ChainInv /\ CountInv /\ CompletedIsWhole

LEMMA RunsAreFinite ==
  ASSUME NEW S \in SUBSET Run
  PROVE  IsFiniteSet(S) /\ Cardinality(S) \in Nat
<1>1. IsFiniteSet(Run)
  BY BoundsAreNat, FS_Interval DEF Run
<1>2. IsFiniteSet(S)
  BY <1>1, FS_Subset
<1> QED BY <1>2, FS_CardinalityType

THEOREM Initial == Init => IInv
<1> SUFFICES ASSUME Init PROVE IInv
  OBVIOUS
<1> USE BoundsAreNat DEF Init, Job, Run
<1>1. TypeOK
  <2>1. background \in [Job -> BOOLEAN] /\ open \in [Job -> BOOLEAN]
    BY Zenon
  <2>2. entry \in 0..MaxJob
    OBVIOUS
  <2>3. status \in [Job -> Status] /\ done \in [Job -> Status]
    BY DEF Status
  <2>4. pending \in [Job -> Nat] /\ next \in [Job -> Nat] /\ output \in [Job -> {-1} \cup Run]
    OBVIOUS
  <2>5. fiber \in [Job -> [Run -> {"none", "waiting", "running", "ended", "gone"}]]
    OBVIOUS
  <2>6. exit \in [Job -> [Run -> Exits]]
    BY DEF Exits
  <2> QED BY <2>1, <2>2, <2>3, <2>4, <2>5, <2>6 DEF TypeOK
<1>2. EntryInv
  BY DEF EntryInv
<1>3. ChainInv
  BY DEF ChainInv
<1>4. CountInv
  BY DEF CountInv
<1>5. CompletedIsWhole
  BY DEF CompletedIsWhole
<1> QED BY <1>1, <1>2, <1>3, <1>4, <1>5 DEF IInv

LEMMA Known ==
  ASSUME IInv, NEW j \in Job, status[j] = "running"
  PROVE  /\ pending[j] = Cardinality(Unsettled(j))
         /\ output[j] < next[j]
         /\ \A n \in Run : fiber[j][n] = "gone" => exit[j][n] = "success" /\ n <= output[j]
BY DEF IInv, CountInv

LEMMA StartKeeps ==
  ASSUME IInv, Start
  PROVE  IInv'
<1> USE BoundsAreNat DEF IInv, TypeOK, Start, Running, registry, Job, Run
<1>1. TypeOK'
  BY DEF Status, Exits
<1>2. EntryInv'
  BY DEF EntryInv
<1>3. ChainInv'
  BY DEF ChainInv, EntryInv
<1>4. CountInv'
  <2> PICK j \in Job : j = entry + 1
    OBVIOUS
  <2>0. status[j] = "none"
    BY DEF EntryInv
  <2>1. next[j] = 0 /\ output[j] = -1
    BY <2>0 DEF ChainInv
  <2>2. \A m \in Run : fiber[j][m] = "none"
    BY <2>0, <2>1 DEF ChainInv
  <2>3. /\ \A m \in Run : fiber'[j][m] = IF m = 0 THEN "running" ELSE "none"
        /\ next'[j] = 1 /\ output'[j] = -1 /\ pending'[j] = 1
    BY <2>0, <2>1, <2>2
  <2>4. {m \in Run : fiber'[j][m] \in {"waiting", "running", "ended"}} = {0}
    BY <2>3
  <2>5. Cardinality({0}) = 1
    BY FS_Singleton
  <2>6. \A k \in Job : status'[k] = "running" => k = j
    BY DEF EntryInv
  <2>7. pending'[j] = Cardinality(Unsettled(j)')
    <3>1. Unsettled(j)' = {0}
      BY <2>4 DEF Unsettled
    <3> QED BY <3>1, <2>3, <2>5
  <2>8. output'[j] < next'[j] /\ \A m \in Run : fiber'[j][m] # "gone"
    BY <2>3
  <2> QED BY <2>0, <2>6, <2>7, <2>8 DEF CountInv
<1>5. CompletedIsWhole'
  BY DEF CompletedIsWhole, EntryInv, ChainInv, CountInv
<1> QED BY <1>1, <1>2, <1>3, <1>4, <1>5

LEMMA ExtendKeeps ==
  ASSUME IInv, Extend
  PROVE  IInv'
<1> USE BoundsAreNat DEF IInv, TypeOK, Extend, Running, registry, Job, Run
<1>1. TypeOK'
  BY DEF Status, Exits
<1>2. EntryInv'
  BY DEF EntryInv
<1>3. ChainInv'
  BY DEF ChainInv, EntryInv
<1>4. CountInv'
  <2> DEFINE n == next[entry]
  <2>1. n \in Run /\ fiber[entry][n] = "none" /\ entry \in Job
    BY DEF ChainInv
  <2>2. Unsettled(entry)' = Unsettled(entry) \cup {n} /\ n \notin Unsettled(entry)
    BY <2>1 DEF Unsettled
  <2>3. IsFiniteSet(Unsettled(entry))
    BY RunsAreFinite DEF Unsettled
  <2>4. Cardinality(Unsettled(entry) \cup {n}) = Cardinality(Unsettled(entry)) + 1
    BY <2>2, <2>3, FS_AddElement
  <2>5. \A k \in Job : status'[k] = "running" => k = entry
    BY DEF EntryInv
  <2>6. pending[entry] = Cardinality(Unsettled(entry))
    BY <2>1 DEF CountInv
  <2>7. pending'[entry] = Cardinality(Unsettled(entry)')
    BY <2>1, <2>2, <2>4, <2>6
  <2>8. output'[entry] < next'[entry]
    <3>1. next[entry] \in Nat /\ output[entry] \in Int /\ output[entry] < next[entry]
      BY <2>1, Known
    <3>2. output'[entry] = output[entry] /\ next'[entry] = next[entry] + 1
      BY <2>1
    <3> QED BY <3>1, <3>2
  <2>9. \A m \in Run : fiber'[entry][m] = "gone" => exit'[entry][m] = "success" /\ m <= output'[entry]
    BY <2>1 DEF CountInv
  <2> QED BY <2>5, <2>7, <2>8, <2>9 DEF CountInv
<1>5. CompletedIsWhole'
  BY DEF CompletedIsWhole, EntryInv, ChainInv, CountInv
<1> QED BY <1>1, <1>2, <1>3, <1>4, <1>5

LEMMA BeginKeeps ==
  ASSUME IInv, NEW j \in Job, NEW n \in Run, Begin(j, n)
  PROVE  IInv'
<1> USE BoundsAreNat DEF IInv, TypeOK, Begin, Released, registry, Job, Run
<1>1. TypeOK'
  BY DEF Status, Exits
<1>2. EntryInv'
  BY DEF EntryInv
<1>3. ChainInv'
  <2>1. n > 0 /\ n - 1 \in Run /\ fiber[j][n - 1] \in {"ended", "gone"}
    BY DEF ChainInv
  <2>2. \A m \in Run : m < n => fiber[j][m] \in {"ended", "gone"}
    <3>1. \A m \in Run : m < n => m = n - 1 \/ m < n - 1
      OBVIOUS
    <3> DEFINE k == n - 1
    <3>k. k \in Run /\ fiber[j][k] \notin {"none", "waiting"}
      BY <2>1
    <3>2. \A m \in Run : m < k => fiber[j][m] \in {"ended", "gone"}
      <4> HIDE DEF k
      <4> QED BY <3>k DEF ChainInv
    <3> QED BY <2>1, <3>1, <3>2
  <2> QED BY <2>2 DEF ChainInv
<1>u. \A k \in Job : Unsettled(k)' = Unsettled(k)
  BY DEF Unsettled
<1>4. CountInv'
  BY <1>u DEF CountInv
<1>5. CompletedIsWhole'
  BY DEF CompletedIsWhole, EntryInv, ChainInv, CountInv
<1> QED BY <1>1, <1>2, <1>3, <1>4, <1>5

LEMMA RunEndsKeeps ==
  ASSUME IInv, NEW j \in Job, NEW n \in Run, RunEnds(j, n)
  PROVE  IInv'
<1> USE BoundsAreNat DEF IInv, TypeOK, RunEnds, registry, Job, Run
<1>1. TypeOK'
  BY DEF Status, Exits
<1>2. EntryInv'
  BY DEF EntryInv
<1>3. ChainInv'
  BY DEF ChainInv, EntryInv
<1>u. \A k \in Job : Unsettled(k)' = Unsettled(k)
  BY DEF Unsettled
<1>4. CountInv'
  BY <1>u DEF CountInv
<1>5. CompletedIsWhole'
  BY DEF CompletedIsWhole, EntryInv, ChainInv, CountInv
<1> QED BY <1>1, <1>2, <1>3, <1>4, <1>5

\* A run that settles leaves one run less, and the job's output is then the latest.
LEMMA OneLess ==
  ASSUME IInv, NEW j \in Job, NEW n \in Run, Settle(j, n), status[j] = "running", j = entry
  PROVE  /\ Unsettled(j)' = Unsettled(j) \ {n}
         /\ Cardinality(Unsettled(j)') = pending[j] - 1
         /\ pending[j] - 1 \in Nat
         /\ \A m \in Run : fiber'[j][m] = "gone" <=> m = n \/ fiber[j][m] = "gone"
         /\ output'[j] = IF exit[j][n] = "success" /\ n > output[j] THEN n ELSE output[j]
<1> USE DEF IInv, TypeOK, Settle
<1>1. n \in Unsettled(j) /\ Unsettled(j)' = Unsettled(j) \ {n}
  BY DEF Unsettled
<1>2. IsFiniteSet(Unsettled(j)) /\ Cardinality(Unsettled(j)) \in Nat
  BY RunsAreFinite DEF Unsettled
<1>3. Cardinality(Unsettled(j) \ {n}) = Cardinality(Unsettled(j)) - 1
  BY <1>1, <1>2, FS_RemoveElement
<1>4. Cardinality(Unsettled(j)) = pending[j]
  BY DEF CountInv
<1>5. Cardinality(Unsettled(j) \ {n}) \in Nat
  BY RunsAreFinite DEF Unsettled
<1>6. \A m \in Run : fiber'[j][m] = "gone" <=> m = n \/ fiber[j][m] = "gone"
  OBVIOUS
<1>7. output'[j] = IF exit[j][n] = "success" /\ n > output[j] THEN n ELSE output[j]
  BY DEF Running, Latest
<1> QED BY <1>1, <1>3, <1>4, <1>5, <1>6, <1>7

LEMMA SettleKeeps ==
  ASSUME IInv, NEW j \in Job, NEW n \in Run, Settle(j, n)
  PROVE  IInv'
<1>k. status[j] = "running" =>
        \A m \in Run : fiber[j][m] = "gone" => exit[j][m] = "success" /\ m <= output[j]
  BY Known
<1> USE BoundsAreNat DEF IInv, TypeOK, registry, Job, Run
<1>1. CASE j # entry \/ ~Running(j)
  <2>1. UNCHANGED <<registry, done, open, exit>> /\ fiber' = [fiber EXCEPT ![j][n] = "gone"]
        /\ fiber[j][n] = "ended"
    BY <1>1 DEF Settle
  <2>2. status[j] # "running"
    BY <1>1 DEF Running, EntryInv
  <2>3. TypeOK'
    BY <2>1
  <2>4. EntryInv'
    BY <2>1 DEF EntryInv
  <2>5. ChainInv'
    BY <2>1 DEF ChainInv
  <2>u. \A k \in Job : status[k] = "running" => k # j /\ Unsettled(k)' = Unsettled(k)
    BY <2>1, <2>2 DEF Unsettled
  <2>6. CountInv'
    BY <2>1, <2>u DEF CountInv
  <2>7. CompletedIsWhole'
    BY <2>1 DEF CompletedIsWhole
  <2> QED BY <2>3, <2>4, <2>5, <2>6, <2>7
<1>2. CASE j = entry /\ Running(j) /\ exit[j][n] = "success" /\ pending[j] - 1 > 0
  <2>1. /\ fiber[j][n] = "ended" /\ status[j] = "running"
        /\ fiber' = [fiber EXCEPT ![j][n] = "gone"]
        /\ output' = [output EXCEPT ![j] = IF Latest(j, n) THEN n ELSE @]
        /\ pending' = [pending EXCEPT ![j] = @ - 1]
        /\ UNCHANGED <<entry, status, next, background, done, open, exit>>
    BY <1>2 DEF Settle, Running
  <2>2. /\ Cardinality(Unsettled(j)') = pending[j] - 1
        /\ \A m \in Run : fiber'[j][m] = "gone" <=> m = n \/ fiber[j][m] = "gone"
        /\ output'[j] = IF exit[j][n] = "success" /\ n > output[j] THEN n ELSE output[j]
    BY <1>2, <2>1, OneLess
  <2>3. TypeOK'
    BY <1>2, <2>1
  <2>4. EntryInv'
    BY <2>1 DEF EntryInv
  <2>5. ChainInv'
    BY <2>1 DEF ChainInv
  <2>6. CountInv'
    <3>1. \A k \in Job : status[k] = "running" => k = j
      BY <1>2 DEF EntryInv
    <3>2. n < next[j]
      BY <2>1 DEF ChainInv
    <3>3. output'[j] < next[j]
      BY <2>1, <2>2, <3>2 DEF CountInv
    <3>4. ASSUME NEW m \in Run, fiber'[j][m] = "gone"
          PROVE  exit[j][m] = "success" /\ m <= output'[j]
      <4>1. CASE m = n
        BY <4>1, <1>2, <2>2
      <4>2. CASE fiber[j][m] = "gone"
        <5>1. exit[j][m] = "success" /\ m <= output[j]
          BY <4>2, <2>1, <1>k
        <5>2. output[j] \in Int /\ n \in Int /\ m \in Int
          OBVIOUS
        <5>3. m <= IF exit[j][n] = "success" /\ n > output[j] THEN n ELSE output[j]
          BY <5>1, <5>2
        <5> QED BY <5>1, <5>3, <2>2
      <4> QED BY <3>4, <4>1, <4>2, <2>2
    <3> QED BY <2>1, <2>2, <3>1, <3>3, <3>4 DEF CountInv
  <2>7. CompletedIsWhole'
    BY <2>1 DEF CompletedIsWhole, EntryInv
  <2> QED BY <2>3, <2>4, <2>5, <2>6, <2>7
<1>3. CASE j = entry /\ Running(j) /\ ~(exit[j][n] = "success" /\ pending[j] - 1 > 0)
  <2> DEFINE how == IF exit[j][n] = "success" THEN "completed" ELSE "failed"
  <2>1. /\ fiber[j][n] = "ended" /\ status[j] = "running" /\ done[j] = "none"
        /\ fiber' = [fiber EXCEPT ![j][n] = "gone"]
        /\ output' = [output EXCEPT ![j] = IF Latest(j, n) THEN n ELSE @]
        /\ status' = [status EXCEPT ![j] = how]
        /\ pending' = [pending EXCEPT ![j] = 0]
        /\ done' = [done EXCEPT ![j] = IF @ = "none" THEN how ELSE @]
        /\ open' = [open EXCEPT ![j] = FALSE]
        /\ UNCHANGED <<entry, next, background, exit>>
    BY <1>3 DEF Settle, Running, Ends, EntryInv
  <2>2. /\ Unsettled(j)' = Unsettled(j) \ {n}
        /\ Cardinality(Unsettled(j)') = pending[j] - 1 /\ pending[j] - 1 \in Nat
        /\ \A m \in Run : fiber'[j][m] = "gone" <=> m = n \/ fiber[j][m] = "gone"
        /\ output'[j] = IF exit[j][n] = "success" /\ n > output[j] THEN n ELSE output[j]
    BY <1>3, <2>1, OneLess
  <2>3. TypeOK'
    BY <2>1 DEF Status
  <2>4. EntryInv'
    BY <1>3, <2>1 DEF EntryInv
  <2>5. ChainInv'
    BY <2>1 DEF ChainInv
  <2>6. CountInv'
    <3>1. \A k \in Job : status'[k] # "running"
      BY <1>3, <2>1 DEF EntryInv
    <3> QED BY <3>1 DEF CountInv
  <2>7. CompletedIsWhole'
    <3>1. ASSUME how = "completed"
          PROVE  /\ \A m \in Run : m < next[j] => fiber'[j][m] = "gone" /\ exit[j][m] = "success"
                 /\ output'[j] = next[j] - 1
      <4>1. exit[j][n] = "success" /\ Cardinality(Unsettled(j)') = 0
        <5>1. exit[j][n] = "success"
          BY <3>1
        <5>2. pending[j] \in Nat /\ ~(pending[j] - 1 > 0)
          BY <1>3, <5>1
        <5> QED BY <5>1, <5>2, <2>2
      <4>2. IsFiniteSet(Unsettled(j)')
        BY RunsAreFinite, <2>2 DEF Unsettled
      <4>3. Unsettled(j)' = {}
        BY <4>1, <4>2, FS_EmptySet
      <4>4. \A m \in Run : m < next[j] => fiber'[j][m] = "gone"
        <5> SUFFICES ASSUME NEW m \in Run, m < next[j] PROVE fiber'[j][m] = "gone"
          OBVIOUS
        <5>1. fiber'[j][m] \notin {"waiting", "running", "ended"}
          BY <4>3 DEF Unsettled
        <5>2. fiber[j][m] # "none"
          BY DEF ChainInv
        <5>3. fiber'[j][m] \in {"none", "waiting", "running", "ended", "gone"}
          BY <2>3
        <5>4. fiber'[j][m] # "none"
          BY <2>1, <5>2
        <5> QED BY <5>1, <5>3, <5>4
      <4>5. ASSUME NEW m \in Run, m < next[j]
            PROVE  exit[j][m] = "success" /\ m <= output'[j]
        <5>1. CASE m = n
          BY <5>1, <4>1, <2>2
        <5>2. CASE fiber[j][m] = "gone"
          <6>1. exit[j][m] = "success" /\ m <= output[j]
            BY <5>2, <2>1, <1>k
          <6>2. output[j] \in Int /\ n \in Int /\ m \in Int
            OBVIOUS
          <6>3. m <= IF exit[j][n] = "success" /\ n > output[j] THEN n ELSE output[j]
            BY <6>1, <6>2
          <6> QED BY <6>1, <6>3, <2>2
        <5> QED BY <4>5, <4>4, <5>1, <5>2, <2>2
      <4>6. n < next[j] /\ output'[j] < next[j] /\ next[j] - 1 \in Run
        BY <2>1, <2>2 DEF ChainInv, CountInv
      <4>7. output'[j] >= next[j] - 1
        <5> DEFINE l == next[j] - 1
        <5>1. l \in Run /\ l < next[j]
          BY <4>6
        <5>2. l <= output'[j]
          BY <5>1, <4>5
        <5> QED BY <5>2
      <4>8. output'[j] = next[j] - 1
        <5>1. output'[j] \in Int /\ next[j] \in Int
          BY <2>3
        <5> QED BY <5>1, <4>6, <4>7
      <4> QED BY <4>4, <4>5, <4>8
    <3>2. done'[j] = how /\ \A k \in Job \ {j} : done'[k] = done[k] /\ fiber'[k] = fiber[k] /\ output'[k] = output[k]
      BY <2>1
    <3> QED BY <2>1, <3>1, <3>2 DEF CompletedIsWhole
  <2> QED BY <2>3, <2>4, <2>5, <2>6, <2>7
<1> QED BY <1>1, <1>2, <1>3

LEMMA InterruptedKeeps ==
  ASSUME IInv, NEW j \in Job, Interrupted(j)
  PROVE  IInv'
<1> USE BoundsAreNat DEF IInv, TypeOK, Interrupted, registry, Job, Run
<1>1. TypeOK'
  BY DEF Status, Exits
<1>2. EntryInv'
  BY DEF EntryInv
<1>3. ChainInv'
  BY DEF ChainInv, EntryInv
<1>u. \A k \in Job : status[k] = "running" => k # j /\ Unsettled(k)' = Unsettled(k)
  BY DEF Unsettled, EntryInv
<1>4. CountInv'
  BY <1>u DEF CountInv
<1>5. CompletedIsWhole'
  BY DEF CompletedIsWhole, EntryInv, ChainInv, CountInv
<1> QED BY <1>1, <1>2, <1>3, <1>4, <1>5

LEMMA CancelKeeps ==
  ASSUME IInv, Cancel
  PROVE  IInv'
<1> USE BoundsAreNat DEF IInv, TypeOK, Cancel, Running, Ends, registry, Job, Run
<1>1. TypeOK'
  BY DEF Status, Exits
<1>2. EntryInv'
  BY DEF EntryInv
<1>3. ChainInv'
  BY DEF ChainInv, EntryInv
<1>4. CountInv'
  BY DEF CountInv, EntryInv, Unsettled
<1>5. CompletedIsWhole'
  BY DEF CompletedIsWhole, EntryInv, ChainInv, CountInv
<1> QED BY <1>1, <1>2, <1>3, <1>4, <1>5

LEMMA PromoteKeeps ==
  ASSUME IInv, Promote
  PROVE  IInv'
<1> USE BoundsAreNat DEF IInv, TypeOK, Promote, Running, registry, Job, Run
<1>1. TypeOK'
  BY DEF Status, Exits
<1>2. EntryInv'
  BY DEF EntryInv
<1>3. ChainInv'
  BY DEF ChainInv, EntryInv
<1>u. \A k \in Job : Unsettled(k)' = Unsettled(k)
  BY DEF Unsettled
<1>4. CountInv'
  BY <1>u DEF CountInv
<1>5. CompletedIsWhole'
  BY DEF CompletedIsWhole, EntryInv, ChainInv, CountInv
<1> QED BY <1>1, <1>2, <1>3, <1>4, <1>5

LEMMA StutterKeeps ==
  ASSUME IInv, UNCHANGED vars
  PROVE  IInv'
<1> USE DEF vars, registry
<1>1. TypeOK' /\ EntryInv'
  BY DEF IInv, TypeOK, EntryInv
<1>2. ChainInv' /\ CompletedIsWhole'
  BY DEF IInv, ChainInv, CompletedIsWhole
<1>3. \A j \in Job : Unsettled(j)' = Unsettled(j)
  BY DEF Unsettled
<1>4. CountInv'
  BY <1>3 DEF IInv, CountInv
<1> QED BY <1>1, <1>2, <1>4 DEF IInv

THEOREM Inductive == Spec => []IInv
<1>1. ASSUME IInv, [Next]_vars PROVE IInv'
  BY <1>1, StutterKeeps, StartKeeps, ExtendKeeps, BeginKeeps, RunEndsKeeps, SettleKeeps,
     InterruptedKeeps, CancelKeeps, PromoteKeeps
  DEF Next
<1> QED BY <1>1, Initial, PTL DEF Spec

-----------------------------------------------------------------------------
\* Every variable keeps to its type.
THEOREM TypeCorrect == Spec => []TypeOK
<1>1. IInv => TypeOK
  BY DEF IInv
<1> QED BY <1>1, Inductive, PTL

\* A job is told "completed" (settle) only with every run of its chain.
THEOREM CompletesWhole == Spec => []CompletedIsWhole
<1>1. IInv => CompletedIsWhole
  BY DEF IInv
<1> QED BY <1>1, Inductive, PTL

\* The runs of a job (extend awaits the tail before it) never overlap.
THEOREM RunsInTurn == Spec => []RunsAreSerial
<1>1. IInv => RunsAreSerial
  <2> SUFFICES ASSUME IInv, NEW j \in Job, NEW m \in Run, NEW n \in Run,
                      fiber[j][m] = "running", fiber[j][n] = "running"
               PROVE  m = n
    BY DEF RunsAreSerial
  <2>1. ~(m < n) /\ ~(n < m)
    BY DEF IInv, ChainInv
  <2> QED BY <2>1, BoundsAreNat DEF Run
<1> QED BY <1>1, Inductive, PTL
=============================================================================

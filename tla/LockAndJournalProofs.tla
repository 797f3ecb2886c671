------------------------- MODULE LockAndJournalProofs -------------------------
(***************************************************************************)
(* Proofs about two components that share nothing: the lock between        *)
(* processes (FileLock), for any number of processes and of crashes, and   *)
(* the journal of tool events (ToolEventJournal), for any calls, buffer    *)
(* and number of events.                                                   *)
(*                                                                         *)
(* The lock: as long as no process died with the breaker, nobody removes a *)
(* breaker but its owner, so that one process at a time checks a lock      *)
(* under it; what it then finds stale has a dead creator, and stays so     *)
(* until this process removes it.                                          *)
(*                                                                         *)
(* The journal: what is stored was appended before what the fibers in line *)
(* have taken out, in the order of the line, and that before what is       *)
(* buffered.  One fiber at a time publishes a transition, and what is      *)
(* buffered is progress; merging loses and reorders nothing.  What merging *)
(* a whole buffer and taking apart what is stored compute is shown one     *)
(* event after the other, as the set of the lengths for which it holds.    *)
(***************************************************************************)
EXTENDS FileLock, ToolEventJournal, SequenceTheorems, WellFoundedInduction, TLAPS

Breaking == {"nuke", "recreate", "drop", "dropOwning"}
Checking == {"statHeartbeat", "statMeta", "statDir"}

\* What is in a directory is gone with it, and only what the dead left behind is stale.
FilesInv ==
  /\ heartbeat # None \/ meta # None \/ old => lock # None
  /\ old => lock = Dead

\* The second check and what follows it run under the breaker.
TwiceInv ==
  \A p \in Process :
    /\ twice[p] => pc[p] \in Checking \cup Breaking
    /\ pc[p] \in Breaking => twice[p]

BreakerInv ==
  ~breakerDied =>
    /\ breaker # Dead
    /\ ~breakerOld
    /\ \A p \in Process :
         /\ pc[p] # "clean"
         /\ twice[p] => breaker = p
         /\ pc[p] = "nuke" => lock = Dead

IInv == TypeOK /\ FilesInv /\ TwiceInv /\ BreakerInv /\ HolderOwnsLock

THEOREM Start == Init => IInv
<1> SUFFICES ASSUME Init PROVE IInv
  OBVIOUS
<1> USE Outsiders, MaxCrashIsNat DEF Init
<1>1. TypeOK
  <2>1. twice \in [Process -> BOOLEAN] /\ breakerDied \in BOOLEAN
    BY Zenon
  <2>2. lock \in Owner /\ heartbeat \in Owner /\ meta \in Owner /\ breaker \in Owner
    BY DEF Owner
  <2>3. old \in BOOLEAN /\ breakerOld \in BOOLEAN
    BY Zenon
  <2>4. pc \in [Process -> Points]
    BY DEF Points
  <2>5. crashes \in 0..MaxCrash
    OBVIOUS
  <2> QED BY <2>1, <2>2, <2>3, <2>4, <2>5 DEF TypeOK
<1>2. FilesInv
  BY DEF FilesInv
<1>3. TwiceInv
  BY DEF TwiceInv, Breaking
<1>4. BreakerInv
  BY DEF BreakerInv
<1>5. HolderOwnsLock
  BY DEF HolderOwnsLock, Owning
<1> QED BY <1>1, <1>2, <1>3, <1>4, <1>5 DEF IInv

LEMMA BeginKeeps ==
  ASSUME IInv, NEW p \in Process, Begin(p)
  PROVE  IInv'
<1> USE Outsiders DEF IInv, TypeOK, Begin, Local, Go, files, breakers
<1>1. TypeOK'
  BY MaxCrashIsNat DEF Owner, Points
<1>2. FilesInv'
  BY DEF FilesInv, BreakerInv, HolderOwnsLock, Owning
<1>3. TwiceInv'
  BY DEF TwiceInv, Breaking, Checking
<1>4. BreakerInv'
  BY DEF FilesInv, TwiceInv, BreakerInv, HolderOwnsLock, Owning, Breaking, Checking
<1>5. HolderOwnsLock'
  BY DEF FilesInv, TwiceInv, BreakerInv, HolderOwnsLock, Owning, Breaking
<1> QED BY <1>1, <1>2, <1>3, <1>4, <1>5

LEMMA TimeoutKeeps ==
  ASSUME IInv, NEW p \in Process, Timeout(p)
  PROVE  IInv'
<1> USE Outsiders DEF IInv, TypeOK, Timeout, Local, Go, files, breakers
<1>1. TypeOK'
  BY MaxCrashIsNat DEF Owner, Points
<1>2. FilesInv'
  BY DEF FilesInv, BreakerInv, HolderOwnsLock, Owning
<1>3. TwiceInv'
  BY DEF TwiceInv, Breaking, Checking
<1>4. BreakerInv'
  BY DEF FilesInv, TwiceInv, BreakerInv, HolderOwnsLock, Owning, Breaking, Checking
<1>5. HolderOwnsLock'
  BY DEF FilesInv, TwiceInv, BreakerInv, HolderOwnsLock, Owning, Breaking
<1> QED BY <1>1, <1>2, <1>3, <1>4, <1>5

LEMMA RetryKeeps ==
  ASSUME IInv, NEW p \in Process, Retry(p)
  PROVE  IInv'
<1> USE Outsiders DEF IInv, TypeOK, Retry, Local, Go, files, breakers
<1>1. TypeOK'
  BY MaxCrashIsNat DEF Owner, Points
<1>2. FilesInv'
  BY DEF FilesInv, BreakerInv, HolderOwnsLock, Owning
<1>3. TwiceInv'
  BY DEF TwiceInv, Breaking, Checking
<1>4. BreakerInv'
  BY DEF FilesInv, TwiceInv, BreakerInv, HolderOwnsLock, Owning, Breaking, Checking
<1>5. HolderOwnsLock'
  BY DEF FilesInv, TwiceInv, BreakerInv, HolderOwnsLock, Owning, Breaking
<1> QED BY <1>1, <1>2, <1>3, <1>4, <1>5

LEMMA MakeLockKeeps ==
  ASSUME IInv, NEW p \in Process, MakeLock(p)
  PROVE  IInv'
<1> USE Outsiders DEF IInv, TypeOK, MakeLock, Create, Go, files, breakers
<1>1. TypeOK'
  BY MaxCrashIsNat DEF Owner, Points
<1>2. FilesInv'
  BY DEF FilesInv, BreakerInv, HolderOwnsLock, Owning
<1>3. TwiceInv'
  BY DEF TwiceInv, Breaking, Checking
<1>4. BreakerInv'
  BY DEF FilesInv, TwiceInv, BreakerInv, HolderOwnsLock, Owning, Breaking, Checking
<1>5. HolderOwnsLock'
  BY DEF FilesInv, TwiceInv, BreakerInv, HolderOwnsLock, Owning, Breaking
<1> QED BY <1>1, <1>2, <1>3, <1>4, <1>5

LEMMA StatHeartbeatKeeps ==
  ASSUME IInv, NEW p \in Process, StatHeartbeat(p)
  PROVE  IInv'
<1> USE Outsiders DEF IInv, TypeOK, StatHeartbeat, Stat, Stale, Fresh, Go, files, breakers
<1>1. TypeOK'
  BY MaxCrashIsNat DEF Owner, Points
<1>2. FilesInv'
  BY DEF FilesInv, BreakerInv, HolderOwnsLock, Owning
<1>3. TwiceInv'
  BY DEF TwiceInv, Breaking, Checking
<1>4. BreakerInv'
  BY DEF FilesInv, TwiceInv, BreakerInv, HolderOwnsLock, Owning, Breaking, Checking
<1>5. HolderOwnsLock'
  BY DEF FilesInv, TwiceInv, BreakerInv, HolderOwnsLock, Owning, Breaking
<1> QED BY <1>1, <1>2, <1>3, <1>4, <1>5

LEMMA StatMetaKeeps ==
  ASSUME IInv, NEW p \in Process, StatMeta(p)
  PROVE  IInv'
<1> USE Outsiders DEF IInv, TypeOK, StatMeta, Stat, Stale, Fresh, Go, files, breakers
<1>1. TypeOK'
  BY MaxCrashIsNat DEF Owner, Points
<1>2. FilesInv'
  BY DEF FilesInv, BreakerInv, HolderOwnsLock, Owning
<1>3. TwiceInv'
  BY DEF TwiceInv, Breaking, Checking
<1>4. BreakerInv'
  BY DEF FilesInv, TwiceInv, BreakerInv, HolderOwnsLock, Owning, Breaking, Checking
<1>5. HolderOwnsLock'
  BY DEF FilesInv, TwiceInv, BreakerInv, HolderOwnsLock, Owning, Breaking
<1> QED BY <1>1, <1>2, <1>3, <1>4, <1>5

LEMMA StatDirKeeps ==
  ASSUME IInv, NEW p \in Process, StatDir(p)
  PROVE  IInv'
<1> USE Outsiders DEF IInv, TypeOK, StatDir, Stat, Stale, Fresh, Go, files, breakers
<1>1. TypeOK'
  BY MaxCrashIsNat DEF Owner, Points
<1>2. FilesInv'
  BY DEF FilesInv, BreakerInv, HolderOwnsLock, Owning
<1>3. TwiceInv'
  BY DEF TwiceInv, Breaking, Checking
<1>4. BreakerInv'
  BY DEF FilesInv, TwiceInv, BreakerInv, HolderOwnsLock, Owning, Breaking, Checking
<1>5. HolderOwnsLock'
  BY DEF FilesInv, TwiceInv, BreakerInv, HolderOwnsLock, Owning, Breaking
<1> QED BY <1>1, <1>2, <1>3, <1>4, <1>5

LEMMA ClaimKeeps ==
  ASSUME IInv, NEW p \in Process, Claim(p)
  PROVE  IInv'
<1> USE Outsiders DEF IInv, TypeOK, Claim, Go, files, breakers
<1>1. TypeOK'
  BY MaxCrashIsNat DEF Owner, Points
<1>2. FilesInv'
  BY DEF FilesInv, BreakerInv, HolderOwnsLock, Owning
<1>3. TwiceInv'
  BY DEF TwiceInv, Breaking, Checking
<1>4. BreakerInv'
  BY DEF FilesInv, TwiceInv, BreakerInv, HolderOwnsLock, Owning, Breaking, Checking
<1>5. HolderOwnsLock'
  BY DEF FilesInv, TwiceInv, BreakerInv, HolderOwnsLock, Owning, Breaking
<1> QED BY <1>1, <1>2, <1>3, <1>4, <1>5

LEMMA StatBreakerKeeps ==
  ASSUME IInv, NEW p \in Process, StatBreaker(p)
  PROVE  IInv'
<1> USE Outsiders DEF IInv, TypeOK, StatBreaker, Local, Go, files, breakers
<1>1. TypeOK'
  BY MaxCrashIsNat DEF Owner, Points
<1>2. FilesInv'
  BY DEF FilesInv, BreakerInv, HolderOwnsLock, Owning
<1>3. TwiceInv'
  BY DEF TwiceInv, Breaking, Checking
<1>4. BreakerInv'
  BY DEF FilesInv, TwiceInv, BreakerInv, HolderOwnsLock, Owning, Breaking, Checking
<1>5. HolderOwnsLock'
  BY DEF FilesInv, TwiceInv, BreakerInv, HolderOwnsLock, Owning, Breaking
<1> QED BY <1>1, <1>2, <1>3, <1>4, <1>5

LEMMA CleanKeeps ==
  ASSUME IInv, NEW p \in Process, Clean(p)
  PROVE  IInv'
<1> USE Outsiders DEF IInv, TypeOK, Clean, Local, Go, NoBreaker, files, breakers
<1>1. TypeOK'
  BY MaxCrashIsNat DEF Owner, Points
<1>2. FilesInv'
  BY DEF FilesInv, BreakerInv, HolderOwnsLock, Owning
<1>3. TwiceInv'
  BY DEF TwiceInv, Breaking, Checking
<1>4. BreakerInv'
  BY DEF FilesInv, TwiceInv, BreakerInv, HolderOwnsLock, Owning, Breaking, Checking
<1>5. HolderOwnsLock'
  BY DEF FilesInv, TwiceInv, BreakerInv, HolderOwnsLock, Owning, Breaking
<1> QED BY <1>1, <1>2, <1>3, <1>4, <1>5

LEMMA NukeKeeps ==
  ASSUME IInv, NEW p \in Process, Nuke(p)
  PROVE  IInv'
<1> USE Outsiders DEF IInv, TypeOK, Nuke, Local, Go, NoLock, files, breakers
<1>1. TypeOK'
  BY MaxCrashIsNat DEF Owner, Points
<1>2. FilesInv'
  BY DEF FilesInv, BreakerInv, HolderOwnsLock, Owning
<1>3. TwiceInv'
  BY DEF TwiceInv, Breaking, Checking
<1>4. BreakerInv'
  BY DEF FilesInv, TwiceInv, BreakerInv, HolderOwnsLock, Owning, Breaking, Checking
<1>5. HolderOwnsLock'
  BY DEF FilesInv, TwiceInv, BreakerInv, HolderOwnsLock, Owning, Breaking
<1> QED BY <1>1, <1>2, <1>3, <1>4, <1>5

LEMMA RecreateKeeps ==
  ASSUME IInv, NEW p \in Process, Recreate(p)
  PROVE  IInv'
<1> USE Outsiders DEF IInv, TypeOK, Recreate, Create, Go, files, breakers
<1>1. TypeOK'
  BY MaxCrashIsNat DEF Owner, Points
<1>2. FilesInv'
  BY DEF FilesInv, BreakerInv, HolderOwnsLock, Owning
<1>3. TwiceInv'
  BY DEF TwiceInv, Breaking, Checking
<1>4. BreakerInv'
  BY DEF FilesInv, TwiceInv, BreakerInv, HolderOwnsLock, Owning, Breaking, Checking
<1>5. HolderOwnsLock'
  BY DEF FilesInv, TwiceInv, BreakerInv, HolderOwnsLock, Owning, Breaking
<1> QED BY <1>1, <1>2, <1>3, <1>4, <1>5

LEMMA DropKeeps ==
  ASSUME IInv, NEW p \in Process, Drop(p)
  PROVE  IInv'
<1> USE Outsiders DEF IInv, TypeOK, Drop, Go, NoBreaker, files, breakers
<1>1. TypeOK'
  BY MaxCrashIsNat DEF Owner, Points
<1>2. FilesInv'
  BY DEF FilesInv, BreakerInv, HolderOwnsLock, Owning
<1>3. TwiceInv'
  BY DEF TwiceInv, Breaking, Checking
<1>4. BreakerInv'
  BY DEF FilesInv, TwiceInv, BreakerInv, HolderOwnsLock, Owning, Breaking, Checking
<1>5. HolderOwnsLock'
  BY DEF FilesInv, TwiceInv, BreakerInv, HolderOwnsLock, Owning, Breaking
<1> QED BY <1>1, <1>2, <1>3, <1>4, <1>5

LEMMA WriteHeartbeatKeeps ==
  ASSUME IInv, NEW p \in Process, WriteHeartbeat(p)
  PROVE  IInv'
<1> USE Outsiders DEF IInv, TypeOK, WriteHeartbeat, Go, files, breakers
<1>1. TypeOK'
  BY MaxCrashIsNat DEF Owner, Points
<1>2. FilesInv'
  BY DEF FilesInv, BreakerInv, HolderOwnsLock, Owning
<1>3. TwiceInv'
  BY DEF TwiceInv, Breaking, Checking
<1>4. BreakerInv'
  BY DEF FilesInv, TwiceInv, BreakerInv, HolderOwnsLock, Owning, Breaking, Checking
<1>5. HolderOwnsLock'
  BY DEF FilesInv, TwiceInv, BreakerInv, HolderOwnsLock, Owning, Breaking
<1> QED BY <1>1, <1>2, <1>3, <1>4, <1>5

LEMMA WriteMetaKeeps ==
  ASSUME IInv, NEW p \in Process, WriteMeta(p)
  PROVE  IInv'
<1> USE Outsiders DEF IInv, TypeOK, WriteMeta, Go, files, breakers
<1>1. TypeOK'
  BY MaxCrashIsNat DEF Owner, Points
<1>2. FilesInv'
  BY DEF FilesInv, BreakerInv, HolderOwnsLock, Owning
<1>3. TwiceInv'
  BY DEF TwiceInv, Breaking, Checking
<1>4. BreakerInv'
  BY DEF FilesInv, TwiceInv, BreakerInv, HolderOwnsLock, Owning, Breaking, Checking
<1>5. HolderOwnsLock'
  BY DEF FilesInv, TwiceInv, BreakerInv, HolderOwnsLock, Owning, Breaking
<1> QED BY <1>1, <1>2, <1>3, <1>4, <1>5

LEMMA CompromisedKeeps ==
  ASSUME IInv, NEW p \in Process, Compromised(p)
  PROVE  IInv'
<1> USE Outsiders DEF IInv, TypeOK, Compromised, Local, Go, NoLock, files, breakers
<1>1. TypeOK'
  BY MaxCrashIsNat DEF Owner, Points
<1>2. FilesInv'
  BY DEF FilesInv, BreakerInv, HolderOwnsLock, Owning
<1>3. TwiceInv'
  BY DEF TwiceInv, Breaking, Checking
<1>4. BreakerInv'
  BY DEF FilesInv, TwiceInv, BreakerInv, HolderOwnsLock, Owning, Breaking, Checking
<1>5. HolderOwnsLock'
  BY DEF FilesInv, TwiceInv, BreakerInv, HolderOwnsLock, Owning, Breaking
<1> QED BY <1>1, <1>2, <1>3, <1>4, <1>5

LEMMA ReleaseKeeps ==
  ASSUME IInv, NEW p \in Process, Release(p)
  PROVE  IInv'
<1> USE Outsiders DEF IInv, TypeOK, Release, Local, Go, files, breakers
<1>1. TypeOK'
  BY MaxCrashIsNat DEF Owner, Points
<1>2. FilesInv'
  BY DEF FilesInv, BreakerInv, HolderOwnsLock, Owning
<1>3. TwiceInv'
  BY DEF TwiceInv, Breaking, Checking
<1>4. BreakerInv'
  BY DEF FilesInv, TwiceInv, BreakerInv, HolderOwnsLock, Owning, Breaking, Checking
<1>5. HolderOwnsLock'
  BY DEF FilesInv, TwiceInv, BreakerInv, HolderOwnsLock, Owning, Breaking
<1> QED BY <1>1, <1>2, <1>3, <1>4, <1>5

LEMMA RemoveLockKeeps ==
  ASSUME IInv, NEW p \in Process, RemoveLock(p)
  PROVE  IInv'
<1> USE Outsiders DEF IInv, TypeOK, RemoveLock, Local, Go, NoLock, files, breakers
<1>1. TypeOK'
  BY MaxCrashIsNat DEF Owner, Points
<1>2. FilesInv'
  BY DEF FilesInv, BreakerInv, HolderOwnsLock, Owning
<1>3. TwiceInv'
  BY DEF TwiceInv, Breaking, Checking
<1>4. BreakerInv'
  BY DEF FilesInv, TwiceInv, BreakerInv, HolderOwnsLock, Owning, Breaking, Checking
<1>5. HolderOwnsLock'
  BY DEF FilesInv, TwiceInv, BreakerInv, HolderOwnsLock, Owning, Breaking
<1> QED BY <1>1, <1>2, <1>3, <1>4, <1>5

LEMMA CrashKeeps ==
  ASSUME IInv, NEW p \in Process, Crash(p)
  PROVE  IInv'
<1> USE Outsiders DEF IInv, TypeOK, Crash, Left, Go, files, breakers
<1>1. TypeOK'
  BY MaxCrashIsNat DEF Owner, Points
<1>2. FilesInv'
  BY DEF FilesInv, BreakerInv, HolderOwnsLock, Owning
<1>3. TwiceInv'
  BY DEF TwiceInv, Breaking, Checking
<1>4. BreakerInv'
  BY DEF FilesInv, TwiceInv, BreakerInv, HolderOwnsLock, Owning, Breaking, Checking
<1>5. HolderOwnsLock'
  BY DEF FilesInv, TwiceInv, BreakerInv, HolderOwnsLock, Owning, Breaking
<1> QED BY <1>1, <1>2, <1>3, <1>4, <1>5

LEMMA TouchKeeps ==
  ASSUME IInv, NEW p \in Process, Touch(p)
  PROVE  IInv'
<1> USE Outsiders DEF IInv, TypeOK, Touch, Reaches, breakers
<1>1. TypeOK'
  BY MaxCrashIsNat DEF Owner, Points
<1>2. FilesInv'
  BY DEF FilesInv
<1>3. TwiceInv'
  BY DEF TwiceInv, Breaking, Checking
<1>4. BreakerInv'
  BY DEF BreakerInv
<1>5. HolderOwnsLock'
  BY DEF HolderOwnsLock, Owning
<1> QED BY <1>1, <1>2, <1>3, <1>4, <1>5

LEMMA AgeKeeps ==
  ASSUME IInv, Age
  PROVE  IInv'
<1> USE Outsiders DEF IInv, TypeOK, Age, files, breakers
<1>1. TypeOK'
  BY MaxCrashIsNat DEF Owner, Points
<1>2. FilesInv'
  BY DEF FilesInv, BreakerInv, HolderOwnsLock, Owning
<1>3. TwiceInv'
  BY DEF TwiceInv, Breaking, Checking
<1>4. BreakerInv'
  BY DEF FilesInv, TwiceInv, BreakerInv, HolderOwnsLock, Owning, Breaking, Checking
<1>5. HolderOwnsLock'
  BY DEF FilesInv, TwiceInv, BreakerInv, HolderOwnsLock, Owning, Breaking
<1> QED BY <1>1, <1>2, <1>3, <1>4, <1>5

LEMMA AgeBreakerKeeps ==
  ASSUME IInv, AgeBreaker
  PROVE  IInv'
<1> USE Outsiders DEF IInv, TypeOK, AgeBreaker, files, breakers
<1>1. TypeOK'
  BY MaxCrashIsNat DEF Owner, Points
<1>2. FilesInv'
  BY DEF FilesInv, BreakerInv, HolderOwnsLock, Owning
<1>3. TwiceInv'
  BY DEF TwiceInv, Breaking, Checking
<1>4. BreakerInv'
  BY DEF FilesInv, TwiceInv, BreakerInv, HolderOwnsLock, Owning, Breaking, Checking
<1>5. HolderOwnsLock'
  BY DEF FilesInv, TwiceInv, BreakerInv, HolderOwnsLock, Owning, Breaking
<1> QED BY <1>1, <1>2, <1>3, <1>4, <1>5

LEMMA StutterKeeps ==
  ASSUME IInv, UNCHANGED vars
  PROVE  IInv'
BY DEF IInv, TypeOK, FilesInv, TwiceInv, BreakerInv, HolderOwnsLock, vars, files, breakers

LEMMA AttemptKeeps ==
  ASSUME IInv, NEW p \in Process, Attempt(p)
  PROVE  IInv'
BY RetryKeeps, MakeLockKeeps, StatHeartbeatKeeps, StatMetaKeeps, StatDirKeeps, ClaimKeeps, StatBreakerKeeps, CleanKeeps, NukeKeeps, RecreateKeeps, DropKeeps, WriteHeartbeatKeeps, WriteMetaKeeps, CompromisedKeeps, RemoveLockKeeps DEF Attempt

THEOREM Inductive == Spec => []IInv
<1>1. ASSUME IInv, [Next]_vars PROVE IInv'
  BY <1>1, StutterKeeps, AttemptKeeps, BeginKeeps, TimeoutKeeps, TouchKeeps, ReleaseKeeps,
     CrashKeeps, AgeKeeps, AgeBreakerKeeps
  DEF Next
<1> QED BY <1>1, Start, PTL DEF Spec

-----------------------------------------------------------------------------
\* Every variable keeps to its type.
THEOREM TypeCorrect == Spec => []TypeOK
<1>1. IInv => TypeOK
  BY DEF IInv
<1> QED BY <1>1, Inductive, PTL

\* The directory that a process counts as its lock (tryAcquireLockDir, release) is its
\* own, as long as no process died with the breaker.
THEOREM HoldersOwn == Spec => []HolderOwnsLock
<1>1. IInv => HolderOwnsLock
  BY DEF IInv
<1> QED BY <1>1, Inductive, PTL

\* Two bodies never run under one lock, as long as no process died with the breaker.
THEOREM Exclusive == Spec => []MutualExclusion
<1>1. IInv => MutualExclusion
  BY DEF IInv, HolderOwnsLock, MutualExclusion, Owning
<1> QED BY <1>1, Inductive, PTL
-----------------------------------------------------------------------------
(* Numbers of events. *)

Ascends(s) == \A a, b \in 1 .. Len(s) : a < b => s[a] < s[b]

\* Event number n is among what e stands for.
In(e, n) == Contains(e.chunks, n)

\* Event number n is among what the events es stand for.
Has(es, n) == \E i \in 1 .. Len(es) : In(es[i], n)

\* What e stands for is in the order of its appending.
Climbs(e) == Ascends(e.chunks)

\* So is what the events es stand for.
Rising(es) ==
  /\ \A i \in 1 .. Len(es) : Climbs(es[i])
  /\ \A i, j \in 1 .. Len(es) : i < j =>
       \A m, n \in 1 .. MaxEvent : In(es[i], m) /\ In(es[j], n) => m < n

\* Everything in es was appended before everything in fs.
Below(es, fs) == \A m, n \in 1 .. MaxEvent : Has(es, m) /\ Has(fs, n) => m < n
-----------------------------------------------------------------------------
(* What merging does to the order of events. *)

LEMMA EventFields ==
  ASSUME NEW e \in Events
  PROVE  /\ e.call \in Call /\ e.kind \in {"called", "progress", "settled"}
         /\ e.chunks \in Seq(1 .. MaxEvent) /\ Len(e.chunks) \in Nat
         /\ \A n : In(e, n) => n \in 1 .. MaxEvent
<1>1. e.call \in Call /\ e.kind \in {"called", "progress", "settled"} /\ e.chunks \in Seq(1 .. MaxEvent)
  BY DEF Events
<1>2. Len(e.chunks) \in Nat /\ \A a \in 1 .. Len(e.chunks) : e.chunks[a] \in 1 .. MaxEvent
  BY <1>1, LenProperties, ElementOfSeq
<1> QED BY <1>1, <1>2 DEF In, Contains

LEMMA HasNumbers ==
  ASSUME NEW es \in Seq(Events), NEW n, Has(es, n)
  PROVE  n \in 1 .. MaxEvent
BY LenProperties, EventFields DEF Has

LEMMA AppendRises ==
  ASSUME NEW es \in Seq(Events), NEW e \in Events, Rising(es), Climbs(e),
         \A m, n \in 1 .. MaxEvent : Has(es, m) /\ In(e, n) => m < n
  PROVE  Rising(Append(es, e))
<1> DEFINE r == Append(es, e)
<1>1. /\ Len(es) \in Nat /\ Len(r) = Len(es) + 1
      /\ \A i \in 1 .. Len(es) : r[i] = es[i]
      /\ r[Len(es) + 1] = e
  BY AppendProperties, LenProperties
<1> HIDE DEF r
<1>2. \A i \in 1 .. Len(r) : i \in 1 .. Len(es) \/ i = Len(es) + 1
  BY <1>1
<1>3. \A i \in 1 .. Len(r) : Climbs(r[i])
  BY <1>1, <1>2 DEF Rising
<1>4. ASSUME NEW i \in 1 .. Len(r), NEW j \in 1 .. Len(r), i < j,
             NEW m \in 1 .. MaxEvent, NEW n \in 1 .. MaxEvent, In(r[i], m), In(r[j], n)
      PROVE  m < n
  <2>1. i \in 1 .. Len(es) /\ r[i] = es[i]
    BY <1>1, <1>4
  <2>2. CASE j \in 1 .. Len(es)
    BY <1>1, <1>4, <2>1, <2>2 DEF Rising
  <2>3. CASE j = Len(es) + 1
    BY <1>1, <1>4, <2>1, <2>3 DEF Has
  <2> QED BY <1>2, <2>2, <2>3
<1>5. Rising(r)
  BY <1>3, <1>4 DEF Rising
<1> QED BY <1>5 DEF r

LEMMA AppendHas ==
  ASSUME NEW es \in Seq(Events), NEW e \in Events
  PROVE  \A n : Has(Append(es, e), n) <=> Has(es, n) \/ In(e, n)
<1> DEFINE r == Append(es, e)
<1>1. /\ Len(es) \in Nat /\ Len(r) = Len(es) + 1
      /\ \A i \in 1 .. Len(es) : r[i] = es[i]
      /\ r[Len(es) + 1] = e
  BY AppendProperties, LenProperties
<1> HIDE DEF r
<1>2. \A i \in 1 .. Len(r) : i \in 1 .. Len(es) \/ i = Len(es) + 1
  BY <1>1
<1>3. ASSUME NEW n PROVE Has(r, n) => Has(es, n) \/ In(e, n)
  BY <1>1, <1>2 DEF Has
<1>4. ASSUME NEW n PROVE Has(es, n) \/ In(e, n) => Has(r, n)
  BY <1>1 DEF Has
<1> QED BY <1>3, <1>4 DEF r

\* All but the last event.
LEMMA FrontFacts ==
  ASSUME NEW es \in Seq(Events), es # <<>>
  PROVE  /\ Front(es) \in Seq(Events) /\ Last(es) \in Events
         /\ \A n : Has(es, n) <=> Has(Front(es), n) \/ In(Last(es), n)
         /\ Rising(es) => /\ Rising(Front(es)) /\ Climbs(Last(es))
                          /\ \A m, n \in 1 .. MaxEvent : Has(Front(es), m) /\ In(Last(es), n) => m < n
<1>1. Len(es) \in Nat \ {0} /\ \A i \in 1 .. Len(es) : es[i] \in Events
  BY LenProperties, EmptySeq
<1> DEFINE k == Len(es) - 1
           r == SubSeq(es, 1, k)
<1>2. k \in Nat /\ \A i \in 1 .. k : i \in 1 .. Len(es) /\ i < Len(es)
  BY <1>1
<1>3. r \in Seq(Events) /\ Len(r) = k /\ \A i \in 1 .. k : r[i] = es[i]
  <2>1. \A i \in 1 .. k : es[i] \in Events
    BY <1>1, <1>2
  <2>2. /\ SubSeq(es, 1, k) \in Seq(Events)
        /\ Len(SubSeq(es, 1, k)) = IF 1 <= k THEN k - 1 + 1 ELSE 0
        /\ \A i \in 1 .. k - 1 + 1 : SubSeq(es, 1, k)[i] = es[1 + i - 1]
    <3> HIDE DEF k
    <3> QED BY <1>2, <2>1, SubSeqProperties
  <2> HIDE DEF k
  <2> QED BY <1>2, <2>2
<1>4. Front(es) = r /\ Last(es) = es[Len(es)]
  BY DEF Front, Last
<1>5. \A i \in 1 .. Len(es) : i \in 1 .. k \/ i = Len(es)
  BY <1>1
<1> HIDE DEF r, k
<1>6. \A n : Has(es, n) <=> Has(r, n) \/ In(es[Len(es)], n)
  BY <1>1, <1>2, <1>3, <1>5 DEF Has
<1>7. ASSUME Rising(es)
      PROVE  /\ Rising(r) /\ Climbs(es[Len(es)])
             /\ \A m, n \in 1 .. MaxEvent : Has(r, m) /\ In(es[Len(es)], n) => m < n
  <2>1. Rising(r)
    BY <1>2, <1>3, <1>7 DEF Rising
  <2>2. Climbs(es[Len(es)])
    BY <1>1, <1>7 DEF Rising
  <2>3. ASSUME NEW m \in 1 .. MaxEvent, NEW n \in 1 .. MaxEvent, Has(r, m), In(es[Len(es)], n)
        PROVE  m < n
    <3>1. PICK i \in 1 .. k : In(es[i], m)
      BY <1>3, <2>3 DEF Has
    <3> QED BY <1>1, <1>2, <1>7, <2>3, <3>1 DEF Rising
  <2> QED BY <2>1, <2>2, <2>3
<1> QED BY <1>1, <1>3, <1>4, <1>6, <1>7

LEMMA ConcatAscends ==
  ASSUME NEW s \in Seq(1 .. MaxEvent), NEW t \in Seq(1 .. MaxEvent)
  PROVE  /\ \A n : Contains(s \o t, n) <=> Contains(s, n) \/ Contains(t, n)
         /\ Ascends(s) /\ Ascends(t)
              /\ (\A m, n \in 1 .. MaxEvent : Contains(s, m) /\ Contains(t, n) => m < n)
              => Ascends(s \o t)
<1> DEFINE u == s \o t
<1>1. /\ u \in Seq(1 .. MaxEvent) /\ Len(u) = Len(s) + Len(t)
      /\ \A i \in 1 .. Len(u) : u[i] = IF i <= Len(s) THEN s[i] ELSE t[i - Len(s)]
      /\ Len(s) \in Nat /\ Len(t) \in Nat
      /\ \A i \in 1 .. Len(s) : s[i] \in 1 .. MaxEvent
      /\ \A i \in 1 .. Len(t) : t[i] \in 1 .. MaxEvent
  BY ConcatProperties, LenProperties, ElementOfSeq
<1> HIDE DEF u
<1>2. \A i \in 1 .. Len(s) : i \in 1 .. Len(u) /\ u[i] = s[i]
  BY <1>1
<1>3. ASSUME NEW i \in 1 .. Len(t)
      PROVE  Len(s) + i \in 1 .. Len(u) /\ u[Len(s) + i] = t[i]
  <2>1. /\ Len(s) + i \in 1 .. Len(u) /\ ~(Len(s) + i <= Len(s))
        /\ (Len(s) + i) - Len(s) = i
    BY <1>1
  <2> QED BY <1>1, <2>1
<1>4. \A i \in 1 .. Len(u) :
        \/ i \in 1 .. Len(s) /\ u[i] = s[i]
        \/ i > Len(s) /\ i - Len(s) \in 1 .. Len(t) /\ u[i] = t[i - Len(s)]
  BY <1>1
<1>5. \A n : Contains(u, n) <=> Contains(s, n) \/ Contains(t, n)
  BY <1>2, <1>3, <1>4 DEF Contains
<1>6. ASSUME Ascends(s), Ascends(t),
             \A m, n \in 1 .. MaxEvent : Contains(s, m) /\ Contains(t, n) => m < n
      PROVE  Ascends(u)
  <2> SUFFICES ASSUME NEW i \in 1 .. Len(u), NEW j \in 1 .. Len(u), i < j
               PROVE  u[i] < u[j]
    BY DEF Ascends
  <2>1. CASE j \in 1 .. Len(s)
    BY <1>1, <1>2, <1>6, <2>1 DEF Ascends
  <2>2. CASE i > Len(s)
    <3>1. /\ i - Len(s) \in 1 .. Len(t) /\ u[i] = t[i - Len(s)]
          /\ j - Len(s) \in 1 .. Len(t) /\ u[j] = t[j - Len(s)]
          /\ i - Len(s) < j - Len(s)
      BY <1>1, <1>4, <2>2
    <3> QED BY <1>6, <3>1 DEF Ascends
  <2>3. CASE i \in 1 .. Len(s) /\ j > Len(s)
    <3>1. u[i] = s[i] /\ j - Len(s) \in 1 .. Len(t) /\ u[j] = t[j - Len(s)]
      BY <1>1, <1>2, <1>4, <2>3
    <3>2. Contains(s, u[i]) /\ Contains(t, u[j])
      BY <2>3, <3>1 DEF Contains
    <3>3. u[i] \in 1 .. MaxEvent /\ u[j] \in 1 .. MaxEvent
      BY <1>1, <2>3, <3>1
    <3> QED BY <1>6, <3>2, <3>3
  <2>4. (i \in 1 .. Len(s) \/ i > Len(s)) /\ (j \in 1 .. Len(s) \/ j > Len(s))
    BY <1>1
  <2> QED BY <2>1, <2>2, <2>3, <2>4
<1> QED BY <1>5, <1>6 DEF u

\* One event that stands for what a and then b stand for.
Joined(a, b) == [a EXCEPT !.chunks = @ \o b.chunks]

LEMMA JoinedFacts ==
  ASSUME NEW a \in Events, NEW b \in Events
  PROVE  /\ Joined(a, b) \in Events /\ Joined(a, b).kind = a.kind
         /\ \A n : In(Joined(a, b), n) <=> In(a, n) \/ In(b, n)
         /\ Climbs(a) /\ Climbs(b) /\ (\A m, n \in 1 .. MaxEvent : In(a, m) /\ In(b, n) => m < n)
              => Climbs(Joined(a, b))
<1>1. a.chunks \in Seq(1 .. MaxEvent) /\ b.chunks \in Seq(1 .. MaxEvent)
  BY EventFields
<1>2. a.chunks \o b.chunks \in Seq(1 .. MaxEvent)
  BY <1>1, ConcatProperties
<1>3. Joined(a, b).chunks = a.chunks \o b.chunks /\ Joined(a, b).kind = a.kind
  BY DEF Joined, Events
<1>4. Joined(a, b) \in Events
  BY <1>2 DEF Joined, Events
<1>5. \A n : In(Joined(a, b), n) <=> In(a, n) \/ In(b, n)
  BY <1>1, <1>3, ConcatAscends DEF In
<1>6. Climbs(a) /\ Climbs(b) /\ (\A m, n \in 1 .. MaxEvent : In(a, m) /\ In(b, n) => m < n)
        => Climbs(Joined(a, b))
  BY <1>1, <1>3, ConcatAscends DEF In, Climbs
<1> QED BY <1>3, <1>4, <1>5, <1>6

\* coalesceProgress takes in one event: nothing is lost or reordered, and the last event is
\* of the kind of the one taken in; a transition stays as it is.
LEMMA MergeFacts ==
  ASSUME NEW es \in Seq(Events), NEW e \in Events
  PROVE  /\ Merge(es, e) \in Seq(Events) /\ Merge(es, e) # <<>>
         /\ \A n : Has(Merge(es, e), n) <=> Has(es, n) \/ In(e, n)
         /\ IsProgress(Last(Merge(es, e))) <=> IsProgress(e)
         /\ ~IsProgress(e) => Last(Merge(es, e)) = e
         /\ Rising(es) /\ Climbs(e) /\ (\A m, n \in 1 .. MaxEvent : Has(es, m) /\ In(e, n) => m < n)
              => Rising(Merge(es, e))
<1>1. ASSUME NEW s \in Seq(Events), NEW x \in Events
      PROVE  Append(s, x) \in Seq(Events) /\ Append(s, x) # <<>> /\ Last(Append(s, x)) = x
  BY AppendProperties, LenProperties DEF Last
<1>2. CASE es # <<>> /\ IsProgress(Last(es)) /\ IsProgress(e) /\ Last(es).call = e.call
  <2> DEFINE s == Front(es)
             x == Joined(Last(es), e)
  <2>1. Merge(es, e) = Append(s, x)
    BY <1>2 DEF Merge, Joined
  <2>2. s \in Seq(Events) /\ x \in Events /\ IsProgress(x)
    BY <1>2, FrontFacts, JoinedFacts DEF IsProgress
  <2>3. Append(s, x) \in Seq(Events) /\ Append(s, x) # <<>> /\ Last(Append(s, x)) = x
    BY <1>1, <2>2
  <2>4. \A n : Has(Append(s, x), n) <=> Has(s, n) \/ In(x, n)
    BY <2>2, AppendHas
  <2>5. \A n : Has(es, n) <=> Has(s, n) \/ In(Last(es), n)
    BY <1>2, FrontFacts
  <2>6. \A n : In(x, n) <=> In(Last(es), n) \/ In(e, n)
    BY <1>2, FrontFacts, JoinedFacts
  <2>7. ASSUME Rising(es), Climbs(e), \A m, n \in 1 .. MaxEvent : Has(es, m) /\ In(e, n) => m < n
        PROVE  Rising(Append(s, x))
    <3>1. /\ Rising(s) /\ Climbs(Last(es)) /\ Last(es) \in Events
          /\ \A m, n \in 1 .. MaxEvent : Has(s, m) /\ In(Last(es), n) => m < n
      BY <1>2, <2>7, FrontFacts
    <3>2. \A m, n \in 1 .. MaxEvent : In(Last(es), m) /\ In(e, n) => m < n
      BY <2>5, <2>7
    <3>3. Climbs(x)
      BY <2>7, <3>1, <3>2, JoinedFacts
    <3>4. \A m, n \in 1 .. MaxEvent : Has(s, m) /\ In(x, n) => m < n
      BY <2>5, <2>6, <2>7, <3>1
    <3> HIDE DEF s, x
    <3> QED BY <2>2, <3>1, <3>3, <3>4, AppendRises
  <2> HIDE DEF s, x
  <2> QED BY <1>2, <2>1, <2>2, <2>3, <2>4, <2>5, <2>6, <2>7
<1>3. CASE ~(es # <<>> /\ IsProgress(Last(es)) /\ IsProgress(e) /\ Last(es).call = e.call)
  <2>1. Merge(es, e) = Append(es, e)
    BY <1>3 DEF Merge
  <2> QED BY <1>1, <2>1, AppendHas, AppendRises
<1> QED BY <1>2, <1>3
-----------------------------------------------------------------------------
(* A function that is defined along a sequence exists, and so does the one that     *)
(* coalesceProgress is modelled by; what it returns is shown for one event after    *)
(* the other.                                                                       *)

LEMMA LeastOf ==
  ASSUME NEW T \in SUBSET Nat, T # {}
  PROVE  \E x \in T : \A y \in T : x <= y
<1> DEFINE R == {ss \in Nat \X Nat : ss[1] < ss[2]}
<1>1. IsWellFoundedOn(R, Nat)
  BY NatLessThanWellFounded, Zenon DEF OpToRel
<1>2. \A x, y \in Nat : <<y, x>> \notin R => x <= y
  OBVIOUS
<1> HIDE DEF R
<1>3. PICK x \in T : \A y \in T : <<y, x>> \notin R
  BY <1>1, WFMin
<1> QED BY <1>2, <1>3

\* What holds of 0 and passes from each number to the next holds up to any bound.
LEMMA UpTo ==
  ASSUME NEW n \in Nat, NEW T, 0 \in T, \A k \in 1 .. n : k - 1 \in T => k \in T
  PROVE  \A k \in 0 .. n : k \in T
<1> DEFINE U == {k \in 0 .. n : k \notin T}
<1>1. SUFFICES ASSUME U # {} PROVE FALSE
  OBVIOUS
<1>2. PICK x \in U : \A y \in U : x <= y
  <2>1. U \in SUBSET Nat
    OBVIOUS
  <2> HIDE DEF U
  <2> QED BY <1>1, <2>1, LeastOf
<1>3. x \in 1 .. n
  OBVIOUS
<1>4. x - 1 \in 0 .. n /\ ~(x <= x - 1)
  BY <1>3
<1>5. x - 1 \in T
  BY <1>2, <1>4
<1> QED BY <1>3, <1>5

\* The functions on 0 .. k that start with base and go on by step.
Unrolled(S, base, k, step) ==
  {f \in [0 .. k -> S] : f[0] = base /\ \A i \in 1 .. k : f[i] = step[<<f[i - 1], i>>]}

LEMMA RecursionExists ==
  ASSUME NEW S, NEW base \in S, NEW n \in Nat, NEW step \in [S \X (1 .. n) -> S]
  PROVE  Unrolled(S, base, n, step) # {}
<1> DEFINE Upto(k) == {f \in [0 .. k -> S] : f[0] = base /\ \A i \in 1 .. k : f[i] = step[<<f[i - 1], i>>]}
           T == {k \in 0 .. n : Upto(k) # {}}
<1>1. 0 \in T
  <2>1. [i \in 0 .. 0 |-> base] \in Upto(0)
    OBVIOUS
  <2> QED BY <2>1
<1>2. ASSUME NEW k \in 1 .. n, k - 1 \in T PROVE k \in T
  <2>1. PICK f \in Upto(k - 1) : TRUE
    BY <1>2
  <2>2. /\ f \in [0 .. k - 1 -> S] /\ f[0] = base
        /\ \A i \in 1 .. k - 1 : f[i] = step[<<f[i - 1], i>>]
    OBVIOUS
  <2>3. f[k - 1] \in S /\ step[<<f[k - 1], k>>] \in S
    BY <2>2
  <2> DEFINE g == [i \in 0 .. k |-> IF i = k THEN step[<<f[k - 1], k>>] ELSE f[i]]
  <2>4. g \in [0 .. k -> S]
    BY <2>2, <2>3
  <2>5. g[0] = base /\ \A i \in 0 .. k - 1 : g[i] = f[i]
    BY <2>2
  <2>6. g[k] = step[<<g[k - 1], k>>]
    <3>1. g[k - 1] = f[k - 1]
      BY <2>5
    <3>2. g[k] = step[<<f[k - 1], k>>]
      OBVIOUS
    <3> QED BY <3>1, <3>2
  <2>7. ASSUME NEW i \in 1 .. k PROVE g[i] = step[<<g[i - 1], i>>]
    <3> HIDE DEF g
    <3>1. CASE i = k
      BY <2>6, <3>1
    <3>2. CASE i # k
      <4>1. i \in 1 .. k - 1 /\ i - 1 \in 0 .. k - 1
        BY <3>2
      <4> QED BY <2>2, <2>5, <4>1
    <3> QED BY <3>1, <3>2
  <2>8. g \in Upto(k)
    <3> HIDE DEF g
    <3> QED BY <2>4, <2>5, <2>7
  <2>9. Upto(k) # {} /\ k \in 0 .. n
    <3> HIDE DEF Upto, g
    <3> QED BY <2>8
  <2> QED BY <2>9
<1>3. n \in T
  <2> HIDE DEF T
  <2>1. \A k \in 0 .. n : k \in T
    BY <1>1, <1>2, UpTo
  <2> QED BY <2>1
<1> QED BY <1>3 DEF Unrolled

LEMMA CoalesceFacts ==
  ASSUME NEW es \in Seq(Events), es # <<>>
  PROVE  /\ Coalesce(es) \in Seq(Events) /\ Coalesce(es) # <<>>
         /\ \A n : Has(Coalesce(es), n) <=> Has(es, n)
         /\ IsProgress(Last(Coalesce(es))) <=> IsProgress(Last(es))
         /\ ~IsProgress(Last(es)) => Last(Coalesce(es)) = Last(es)
         /\ Rising(es) => Rising(Coalesce(es))
<1>1. Len(es) \in Nat \ {0} /\ \A i \in 1 .. Len(es) : es[i] \in Events
  BY LenProperties, EmptySeq
<1> DEFINE l == Len(es)
           m == CHOOSE m : m = [i \in 0 .. l |-> IF i = 0 THEN <<>> ELSE Merge(m[i - 1], es[i])]
<1>2. Coalesce(es) = m[l]
  BY DEF Coalesce
<1>3. m = [i \in 0 .. l |-> IF i = 0 THEN <<>> ELSE Merge(m[i - 1], es[i])]
  <2> DEFINE step == [x \in Seq(Events) \X (1 .. l) |-> Merge(x[1], es[x[2]])]
  <2>1. step \in [Seq(Events) \X (1 .. l) -> Seq(Events)]
    BY <1>1, MergeFacts
  <2>2. <<>> \in Seq(Events) /\ l \in Nat
    BY <1>1, EmptySeq
  <2>3. PICK f \in [0 .. l -> Seq(Events)] : f[0] = <<>> /\ \A i \in 1 .. l : f[i] = step[<<f[i - 1], i>>]
    <3> HIDE DEF step, l
    <3>1. Unrolled(Seq(Events), <<>>, l, step) # {}
      BY <2>1, <2>2, RecursionExists
    <3> QED BY <3>1 DEF Unrolled
  <2>6. \A x \in Seq(Events), i \in 1 .. l : step[<<x, i>>] = Merge(x, es[i])
    OBVIOUS
  <2>4. \A i \in 1 .. l : f[i - 1] \in Seq(Events) /\ f[i] = Merge(f[i - 1], es[i])
    <3>1. \A i \in 1 .. l : f[i - 1] \in Seq(Events)
      BY <1>1, <2>3
    <3> HIDE DEF step, l
    <3> QED BY <2>3, <2>6, <3>1
  <2>5. f = [i \in 0 .. l |-> IF i = 0 THEN <<>> ELSE Merge(f[i - 1], es[i])]
    <3>1. \A i \in 0 .. l : f[i] = IF i = 0 THEN <<>> ELSE Merge(f[i - 1], es[i])
      BY <1>1, <2>3, <2>4
    <3> QED BY <2>3, <3>1
  <2> QED BY <2>5
<1> HIDE DEF m
<1>4. m[0] = <<>> /\ \A i \in 1 .. l : m[i] = Merge(m[i - 1], es[i])
  <2>1. 0 \in 0 .. l /\ \A i \in 1 .. l : i \in 0 .. l /\ i # 0
    BY <1>1
  <2> HIDE DEF l
  <2> QED BY <1>3, <2>1
<1> DEFINE T == {k \in 0 .. l :
                   /\ m[k] \in Seq(Events)
                   /\ \A n : Has(m[k], n) <=> \E i \in 1 .. k : In(es[i], n)
                   /\ Rising(es) => Rising(m[k])
                   /\ k # 0 => /\ m[k] # <<>>
                               /\ IsProgress(Last(m[k])) <=> IsProgress(es[k])
                               /\ ~IsProgress(es[k]) => Last(m[k]) = es[k]}
<1>5. 0 \in T
  <2>1. m[0] \in Seq(Events) /\ Len(m[0]) = 0
    BY <1>4, EmptySeq
  <2>2. \A n : ~Has(m[0], n)
    BY <2>1 DEF Has
  <2>3. Rising(m[0])
    BY <2>1 DEF Rising
  <2> QED BY <1>1, <2>1, <2>2, <2>3
<1>6. ASSUME NEW k \in 1 .. l, k - 1 \in T PROVE k \in T
  <2>1. /\ m[k - 1] \in Seq(Events)
        /\ \A n : Has(m[k - 1], n) <=> \E i \in 1 .. k - 1 : In(es[i], n)
        /\ Rising(es) => Rising(m[k - 1])
    BY <1>6
  <2>2. m[k] = Merge(m[k - 1], es[k]) /\ es[k] \in Events
    BY <1>1, <1>4
  <2>3. /\ m[k] \in Seq(Events) /\ m[k] # <<>>
        /\ \A n : Has(m[k], n) <=> Has(m[k - 1], n) \/ In(es[k], n)
        /\ IsProgress(Last(m[k])) <=> IsProgress(es[k])
        /\ ~IsProgress(es[k]) => Last(m[k]) = es[k]
    <3>0. PICK p \in Seq(Events), e \in Events : p = m[k - 1] /\ e = es[k]
      BY <2>1, <2>2
    <3>1. PICK q : q = Merge(p, e)
      OBVIOUS
    <3>2. /\ q \in Seq(Events) /\ q # <<>>
          /\ \A n : Has(q, n) <=> Has(p, n) \/ In(e, n)
          /\ IsProgress(Last(q)) <=> IsProgress(e)
          /\ ~IsProgress(e) => Last(q) = e
      BY <3>1, MergeFacts, Zenon
    <3>3. m[k] = q
      BY <2>2, <3>0, <3>1
    <3> QED BY <3>0, <3>1, <3>2, <3>3
  <2>4. \A i : i \in 1 .. k <=> i \in 1 .. k - 1 \/ i = k
    BY <1>1
  <2>5. \A n : Has(m[k], n) <=> \E i \in 1 .. k : In(es[i], n)
    BY <2>1, <2>3, <2>4
  <2>6. ASSUME Rising(es) PROVE Rising(m[k])
    <3>1. Climbs(es[k])
      BY <1>1, <2>6 DEF Rising
    <3>2. ASSUME NEW a \in 1 .. MaxEvent, NEW b \in 1 .. MaxEvent, Has(m[k - 1], a), In(es[k], b)
          PROVE  a < b
      <4>1. PICK i \in 1 .. k - 1 : In(es[i], a)
        BY <2>1, <3>2
      <4>2. i \in 1 .. Len(es) /\ k \in 1 .. Len(es) /\ i < k
        BY <1>1
      <4> QED BY <2>6, <3>2, <4>1, <4>2 DEF Rising
    <3>3. PICK p \in Seq(Events), e \in Events : p = m[k - 1] /\ e = es[k]
      BY <2>1, <2>2
    <3> QED BY <2>1, <2>2, <2>6, <3>1, <3>2, <3>3, MergeFacts
  <2>7. k \in 0 .. l
    BY <1>1
  <2> QED BY <2>3, <2>5, <2>6, <2>7
<1>7. l \in T
  <2>1. l \in Nat /\ l \in 0 .. l
    BY <1>1
  <2> HIDE DEF T, l
  <2>2. \A k \in 0 .. l : k \in T
    BY <1>5, <1>6, <2>1, UpTo
  <2> QED BY <2>1, <2>2
<1>8. Last(es) = es[l]
  BY DEF Last
<1>9. \A n : Has(m[l], n) <=> Has(es, n)
  BY <1>7 DEF Has
<1> QED BY <1>1, <1>2, <1>7, <1>8, <1>9

\* What is stored in order is still in order when the merged events are taken apart.
LEMMA FlattenAscends ==
  ASSUME NEW es \in Seq(Events), Rising(es)
  PROVE  LET chunks == FlattenSeq([i \in DOMAIN es |-> es[i].chunks]) IN
         \A i, j \in DOMAIN chunks : i < j => chunks[i] < chunks[j]
<1>1. /\ Len(es) \in Nat /\ DOMAIN es = 1 .. Len(es) /\ \A i \in 1 .. Len(es) : es[i] \in Events
  BY LenProperties
<1> DEFINE N == 1 .. MaxEvent
           l == Len(es)
           c == [i \in DOMAIN es |-> es[i].chunks]
<1>2. \A i \in 1 .. l : c[i] = es[i].chunks /\ c[i] \in Seq(N)
  BY <1>1, EventFields
<1>3. c \in Seq(Seq(N)) /\ Len(c) = l
  <2>1. c \in [1 .. l -> Seq(N)]
    BY <1>1, <1>2
  <2> HIDE DEF c, N
  <2> QED BY <1>1, <2>1, LenProperties
<1> HIDE DEF c
<1>4. CASE l = 0
  <2>1. FlattenSeq(c) = c
    BY <1>3, <1>4 DEF FlattenSeq
  <2>2. DOMAIN c = {}
    BY <1>3, <1>4, LenProperties
  <2> QED BY <2>1, <2>2 DEF c
<1>5. CASE l # 0
  <2> DEFINE m == CHOOSE m : m = [i \in 1 .. Len(c) |-> IF i = 1 THEN c[i] ELSE m[i - 1] \o c[i]]
  <2>1. FlattenSeq(c) = m[Len(c)]
    BY <1>3, <1>5 DEF FlattenSeq
  <2>2. m = [i \in 1 .. Len(c) |-> IF i = 1 THEN c[i] ELSE m[i - 1] \o c[i]]
    <3> DEFINE step == [x \in Seq(N) \X (1 .. l) |-> IF x[2] = 1 THEN c[x[2]] ELSE x[1] \o c[x[2]]]
    <3>1. step \in [Seq(N) \X (1 .. l) -> Seq(N)]
      <4> HIDE DEF N
      <4> QED BY <1>2, ConcatProperties
    <3>2. <<>> \in Seq(N) /\ l \in Nat
      BY <1>1, EmptySeq
    <3>3. PICK f \in [0 .. l -> Seq(N)] : \A i \in 1 .. l : f[i] = step[<<f[i - 1], i>>]
      <4> HIDE DEF step, l, N
      <4>1. Unrolled(Seq(N), <<>>, l, step) # {}
        BY <3>1, <3>2, RecursionExists
      <4> QED BY <4>1 DEF Unrolled
    <3>4. \A x \in Seq(N), i \in 1 .. l : step[<<x, i>>] = IF i = 1 THEN c[i] ELSE x \o c[i]
      OBVIOUS
    <3>5. \A i \in 1 .. l : f[i] = IF i = 1 THEN c[i] ELSE f[i - 1] \o c[i]
      <4>1. \A i \in 1 .. l : f[i - 1] \in Seq(N)
        BY <1>1, <3>3
      <4> HIDE DEF step, l, N
      <4> QED BY <3>3, <3>4, <4>1
    <3> DEFINE h == [i \in 1 .. Len(c) |-> f[i]]
    <3>6. \A i \in 1 .. Len(c) : h[i] = IF i = 1 THEN c[i] ELSE h[i - 1] \o c[i]
      <4>1. \A i \in 1 .. Len(c) : i # 1 => i - 1 \in 1 .. Len(c)
        BY <1>1, <1>3
      <4> QED BY <1>3, <3>5, <4>1
    <3>7. h = [i \in 1 .. Len(c) |-> IF i = 1 THEN c[i] ELSE h[i - 1] \o c[i]]
      BY <3>6
    <3> HIDE DEF h
    <3> QED BY <3>7
  <2> HIDE DEF m
  <2>3. /\ m[1] = c[1]
        /\ \A i \in 1 .. l : i # 1 => m[i] = m[i - 1] \o c[i]
    <3> HIDE DEF l
    <3>1. 1 \in 1 .. l
      BY <1>1, <1>5 DEF l
    <3> QED BY <1>3, <2>2, <3>1
  <2> DEFINE T == {k \in 0 .. l :
                     k # 0 => /\ m[k] \in Seq(N) /\ Ascends(m[k])
                              /\ \A n : Contains(m[k], n) => \E i \in 1 .. k : In(es[i], n)}
  <2>4. 0 \in T
    BY <1>1
  <2>5. ASSUME NEW k \in 1 .. l, k - 1 \in T PROVE k \in T
    <3>1. CASE k = 1
      <4>1. m[k] = es[1].chunks /\ m[k] \in Seq(N)
        BY <1>2, <2>3, <3>1
      <4>2. Ascends(m[k]) /\ \A n : Contains(m[k], n) => In(es[1], n)
        BY <3>1, <4>1 DEF Rising, In, Climbs
      <4> QED BY <3>1, <4>1, <4>2
    <3>2. CASE k # 1
      <4>1. /\ m[k - 1] \in Seq(N) /\ Ascends(m[k - 1])
            /\ \A n : Contains(m[k - 1], n) => \E i \in 1 .. k - 1 : In(es[i], n)
        BY <2>5, <3>2
      <4>2. m[k] = m[k - 1] \o c[k] /\ c[k] = es[k].chunks /\ c[k] \in Seq(N) /\ es[k] \in Events
        BY <1>1, <1>2, <2>3, <3>2
      <4>3. Ascends(c[k])
        BY <1>1, <4>2 DEF Rising, Climbs
      <4>4. ASSUME NEW a \in 1 .. MaxEvent, NEW b \in 1 .. MaxEvent, Contains(m[k - 1], a), Contains(c[k], b)
            PROVE  a < b
        <5>1. PICK i \in 1 .. k - 1 : In(es[i], a)
          BY <4>1, <4>4
        <5>2. In(es[k], b)
          BY <4>2, <4>4 DEF In
        <5>3. i \in 1 .. Len(es) /\ k \in 1 .. Len(es) /\ i < k
          BY <1>1
        <5> QED BY <5>1, <5>2, <5>3 DEF Rising
      <4>5. m[k] \in Seq(N)
        <5> HIDE DEF N
        <5> QED BY <4>1, <4>2, ConcatProperties
      <4>6. Ascends(m[k])
        BY <4>1, <4>2, <4>3, <4>4, ConcatAscends
      <4>7. \A n : Contains(m[k], n) => \E i \in 1 .. k : In(es[i], n)
        <5>1. \A n : Contains(m[k], n) => Contains(m[k - 1], n) \/ Contains(c[k], n)
          BY <4>1, <4>2, ConcatAscends
        <5>2. \A n : Contains(c[k], n) => In(es[k], n)
          BY <4>2 DEF In
        <5>3. k \in 1 .. k /\ \A i \in 1 .. k - 1 : i \in 1 .. k
          BY <1>1
        <5> QED BY <4>1, <5>1, <5>2, <5>3
      <4>8. k \in 0 .. l
        BY <1>1
      <4> QED BY <4>5, <4>6, <4>7, <4>8
    <3> QED BY <3>1, <3>2
  <2>6. l \in T
    <3>1. l \in Nat /\ l \in 0 .. l
      BY <1>1
    <3> HIDE DEF T, l
    <3>2. \A k \in 0 .. l : k \in T
      BY <2>4, <2>5, <3>1, UpTo
    <3> QED BY <3>1, <3>2
  <2>7. m[l] \in Seq(N) /\ Ascends(m[l])
    BY <1>5, <2>6
  <2>8. DOMAIN m[l] = 1 .. Len(m[l])
    <3> HIDE DEF N
    <3> QED BY <2>7, LenProperties
  <2>9. FlattenSeq(c) = m[l]
    BY <1>3, <2>1
  <2> QED BY <2>7, <2>8, <2>9 DEF Ascends, c
<1> QED BY <1>4, <1>5
-----------------------------------------------------------------------------
(* The line before the database. *)

Waits(q, f) == \E i \in 1 .. Len(q) : q[i] = f
Before(q, f, g) == \E i, j \in 1 .. Len(q) : i < j /\ q[i] = f /\ q[j] = g
Once(q) == \A i, j \in 1 .. Len(q) : q[i] = q[j] => i = j

\* Somebody joins the line.
LEMMA JoinLine ==
  ASSUME NEW q \in Seq(Fiber), NEW f \in Fiber, Once(q), ~Waits(q, f)
  PROVE  /\ Append(q, f) \in Seq(Fiber) /\ Once(Append(q, f))
         /\ \A g : Waits(Append(q, f), g) <=> Waits(q, g) \/ g = f
         /\ \A g, h : Before(Append(q, f), g, h) => Waits(q, g) /\ (Before(q, g, h) \/ h = f)
<1> DEFINE r == Append(q, f)
<1>1. /\ r \in Seq(Fiber) /\ Len(q) \in Nat /\ Len(r) = Len(q) + 1
      /\ \A i \in 1 .. Len(q) : r[i] = q[i]
      /\ r[Len(q) + 1] = f
  BY AppendProperties, LenProperties
<1> HIDE DEF r
<1>2. \A i \in 1 .. Len(r) : i \in 1 .. Len(q) \/ i = Len(q) + 1
  BY <1>1
<1>3. Once(r)
  BY <1>1, <1>2 DEF Once, Waits
<1>4. ASSUME NEW g PROVE Waits(r, g) <=> Waits(q, g) \/ g = f
  BY <1>1, <1>2 DEF Waits
<1>5. ASSUME NEW g, NEW h, Before(r, g, h)
      PROVE  Waits(q, g) /\ (Before(q, g, h) \/ h = f)
  <2>1. PICK i \in 1 .. Len(r), j \in 1 .. Len(r) : i < j /\ r[i] = g /\ r[j] = h
    BY <1>5 DEF Before
  <2>2. i \in 1 .. Len(q) /\ q[i] = g
    BY <1>1, <1>2, <2>1
  <2>3. j \in 1 .. Len(q) => q[j] = h
    BY <1>1, <2>1
  <2> QED BY <1>1, <1>2, <2>1, <2>2, <2>3 DEF Waits, Before
<1> QED BY <1>1, <1>3, <1>4, <1>5 DEF r

\* The first in line is served.
LEMMA ServeLine ==
  ASSUME NEW q \in Seq(Fiber), Once(q), q # <<>>
  PROVE  /\ Head(q) \in Fiber /\ Waits(q, Head(q))
         /\ Tail(q) \in Seq(Fiber) /\ Once(Tail(q))
         /\ \A g : Waits(Tail(q), g) <=> Waits(q, g) /\ g # Head(q)
         /\ \A g, h : Before(Tail(q), g, h) => Before(q, g, h)
         /\ \A g : Waits(Tail(q), g) => Before(q, Head(q), g)
<1> DEFINE r == Tail(q)
<1>1. /\ Len(q) \in Nat \ {0} /\ \A i \in 1 .. Len(q) : q[i] \in Fiber
      /\ Head(q) = q[1] /\ r \in Seq(Fiber) /\ Len(r) = Len(q) - 1
      /\ \A i \in 1 .. Len(r) : r[i] = q[i + 1]
  BY HeadTailProperties, LenProperties, EmptySeq
<1> HIDE DEF r
<1>2. \A i \in 1 .. Len(r) : i + 1 \in 1 .. Len(q) /\ 1 < i + 1
  BY <1>1
<1>3. \A i \in 1 .. Len(q) : i = 1 \/ (i - 1 \in 1 .. Len(r) /\ r[i - 1] = q[i])
  BY <1>1
<1>4. 1 \in 1 .. Len(q) /\ Waits(q, q[1])
  BY <1>1 DEF Waits
<1>5. Once(r)
  BY <1>1, <1>2 DEF Once
<1>6. ASSUME NEW g PROVE Waits(r, g) <=> Waits(q, g) /\ g # q[1]
  <2>1. ASSUME Waits(r, g) PROVE Waits(q, g) /\ g # q[1]
    <3>1. PICK i \in 1 .. Len(r) : r[i] = g
      BY <2>1 DEF Waits
    <3>2. i + 1 \in 1 .. Len(q) /\ q[i + 1] = g /\ i + 1 # 1
      BY <1>1, <1>2, <3>1
    <3> QED BY <1>4, <3>2 DEF Waits, Once
  <2>2. ASSUME Waits(q, g), g # q[1] PROVE Waits(r, g)
    BY <1>3, <2>2 DEF Waits
  <2> QED BY <2>1, <2>2
<1>7. ASSUME NEW g, NEW h, Before(r, g, h) PROVE Before(q, g, h)
  <2>1. PICK i \in 1 .. Len(r), j \in 1 .. Len(r) : i < j /\ r[i] = g /\ r[j] = h
    BY <1>7 DEF Before
  <2>2. i + 1 \in 1 .. Len(q) /\ j + 1 \in 1 .. Len(q) /\ i + 1 < j + 1 /\ q[i + 1] = g /\ q[j + 1] = h
    BY <1>1, <1>2, <2>1
  <2> QED BY <2>2 DEF Before
<1>8. ASSUME NEW g, Waits(r, g) PROVE Before(q, q[1], g)
  <2>1. PICK i \in 1 .. Len(r) : r[i] = g
    BY <1>8 DEF Waits
  <2>2. i + 1 \in 1 .. Len(q) /\ q[i + 1] = g /\ 1 < i + 1
    BY <1>1, <1>2, <2>1
  <2> QED BY <1>4, <2>2 DEF Before
<1> QED BY <1>1, <1>4, <1>5, <1>6, <1>7, <1>8 DEF r

\* Somebody leaves the line, or was not in it.
LEMMA LeaveLine ==
  ASSUME NEW q \in Seq(Fiber), NEW f \in Fiber, Once(q)
  PROVE  /\ RemoveFirst(q, f) \in Seq(Fiber) /\ Once(RemoveFirst(q, f))
         /\ \A g : Waits(RemoveFirst(q, f), g) <=> Waits(q, g) /\ g # f
         /\ \A g, h : Before(RemoveFirst(q, f), g, h) => Before(q, g, h)
<1>1. Len(q) \in Nat /\ \A i \in 1 .. Len(q) : q[i] \in Fiber
  BY LenProperties
<1>2. CASE ~Waits(q, f)
  <2>1. RemoveFirst(q, f) = q
    BY <1>2 DEF RemoveFirst, Waits
  <2> QED BY <1>2, <2>1
<1>3. CASE Waits(q, f)
  <2>1. PICK k \in 1 .. Len(q) : q[k] = f
    BY <1>3 DEF Waits
  <2> DEFINE I == {i \in 1 .. Len(q) : q[i] = f}
  <2>2. I = {k}
    BY <2>1 DEF Once
  <2>3. SelectInSeq(q, LAMBDA v : v = f) = IF I # {} THEN Min(I) ELSE 0
    BY DEF SelectInSeq
  <2>4. Min(I) = k
    BY <2>1, <2>2 DEF Min
  <2>5. RemoveFirst(q, f) = RemoveAt(q, k)
    BY <1>3, <2>2, <2>3, <2>4 DEF RemoveFirst, Waits
  <2> DEFINE a == SubSeq(q, 1, k - 1)
             b == SubSeq(q, k + 1, Len(q))
             r == a \o b
  <2>6. RemoveAt(q, k) = r
    BY DEF RemoveAt
  <2>7. a \in Seq(Fiber) /\ Len(a) = k - 1 /\ \A i \in 1 .. k - 1 : a[i] = q[i]
    <3>1. k - 1 \in Int /\ \A i \in 1 .. k - 1 : q[i] \in Fiber
      BY <1>1, <2>1
    <3>2. /\ a \in Seq(Fiber)
          /\ Len(a) = IF 1 <= k - 1 THEN (k - 1) - 1 + 1 ELSE 0
          /\ \A i \in 1 .. (k - 1) - 1 + 1 : a[i] = q[1 + i - 1]
      BY <3>1, SubSeqProperties
    <3> HIDE DEF a
    <3> QED BY <1>1, <2>1, <3>2
  <2>8. b \in Seq(Fiber) /\ Len(b) = Len(q) - k /\ \A i \in 1 .. Len(q) - k : b[i] = q[k + i]
    <3>1. k + 1 \in Int /\ Len(q) \in Int /\ \A i \in k + 1 .. Len(q) : q[i] \in Fiber
      BY <1>1, <2>1
    <3>2. /\ b \in Seq(Fiber)
          /\ Len(b) = IF k + 1 <= Len(q) THEN Len(q) - (k + 1) + 1 ELSE 0
          /\ \A i \in 1 .. Len(q) - (k + 1) + 1 : b[i] = q[(k + 1) + i - 1]
      BY <3>1, SubSeqProperties
    <3> HIDE DEF b
    <3> QED BY <1>1, <2>1, <3>2
  <2> HIDE DEF a, b
  <2> DEFINE at(i) == IF i < k THEN i ELSE i + 1
  <2>9. r \in Seq(Fiber) /\ Len(r) = Len(q) - 1 /\ \A i \in 1 .. Len(r) : r[i] = q[at(i)]
    <3>1. /\ r \in Seq(Fiber) /\ Len(r) = Len(a) + Len(b)
          /\ \A i \in 1 .. Len(r) : r[i] = IF i <= Len(a) THEN a[i] ELSE b[i - Len(a)]
      <4> a \in Seq(Fiber) /\ b \in Seq(Fiber)
        BY <2>7, <2>8
      <4> QED BY ConcatProperties
    <3> HIDE DEF r
    <3>2. Len(r) = Len(q) - 1
      BY <1>1, <2>1, <2>7, <2>8, <3>1
    <3>3. ASSUME NEW i \in 1 .. Len(r) PROVE r[i] = q[at(i)]
      <4>1. CASE i < k
        BY <1>1, <2>1, <2>7, <3>1, <4>1
      <4>2. CASE ~(i < k)
        <5>1. i - Len(a) \in 1 .. Len(q) - k /\ ~(i <= Len(a)) /\ k + (i - Len(a)) = i + 1
          BY <1>1, <2>1, <2>7, <3>2, <4>2
        <5> QED BY <2>8, <3>1, <4>2, <5>1
      <4> QED BY <4>1, <4>2
    <3> QED BY <3>1, <3>2, <3>3
  <2> HIDE DEF r
  <2>10. \A i \in 1 .. Len(r) : at(i) \in 1 .. Len(q) /\ at(i) # k
    BY <1>1, <2>1, <2>9
  <2>11. \A i, j \in 1 .. Len(r) : (i < j => at(i) < at(j)) /\ (at(i) = at(j) => i = j)
    BY <1>1, <2>1, <2>9
  <2>12. \A i \in 1 .. Len(q) : i # k => \E j \in 1 .. Len(r) : at(j) = i
    <3> SUFFICES ASSUME NEW i \in 1 .. Len(q), i # k
                 PROVE  \E j \in 1 .. Len(r) : at(j) = i
      OBVIOUS
    <3>1. CASE i < k
      BY <1>1, <2>1, <2>9, <3>1
    <3>2. CASE i > k
      <4>1. i - 1 \in 1 .. Len(r) /\ at(i - 1) = i
        BY <1>1, <2>1, <2>9, <3>2
      <4> QED BY <4>1
    <3> QED BY <1>1, <2>1, <3>1, <3>2
  <2> HIDE DEF at
  <2>13. Once(r)
    BY <2>9, <2>10, <2>11 DEF Once
  <2>14. ASSUME NEW g PROVE Waits(r, g) <=> Waits(q, g) /\ g # f
    <3>1. ASSUME Waits(r, g) PROVE Waits(q, g) /\ g # f
      <4>1. PICK i \in 1 .. Len(r) : r[i] = g
        BY <3>1 DEF Waits
      <4>2. at(i) \in 1 .. Len(q) /\ at(i) # k /\ q[at(i)] = g
        BY <2>9, <2>10, <4>1
      <4> QED BY <2>1, <4>2 DEF Waits, Once
    <3>2. ASSUME Waits(q, g), g # f PROVE Waits(r, g)
      BY <2>1, <2>9, <2>12, <3>2 DEF Waits
    <3> QED BY <3>1, <3>2
  <2>15. ASSUME NEW g, NEW h, Before(r, g, h) PROVE Before(q, g, h)
    <3>1. PICK i \in 1 .. Len(r), j \in 1 .. Len(r) : i < j /\ r[i] = g /\ r[j] = h
      BY <2>15 DEF Before
    <3>2. at(i) \in 1 .. Len(q) /\ at(j) \in 1 .. Len(q) /\ at(i) < at(j) /\ q[at(i)] = g /\ q[at(j)] = h
      BY <2>9, <2>10, <2>11, <3>1
    <3> QED BY <3>2 DEF Before
  <2>16. RemoveFirst(q, f) = r
    BY <2>5, <2>6
  <2> QED BY <2>9, <2>13, <2>14, <2>15, <2>16
<1> QED BY <1>2, <1>3
-----------------------------------------------------------------------------
(* Why the invariants hold. *)

\* Who flushes stands in line, once.
InLine == Once(line) /\ \A f \in Fiber : Busy(f) <=> Waits(line, f)

\* What is stored was appended before what the fibers in line have taken out, in the order
\* of the line, and that before what is buffered.
Apart ==
  /\ Rising(stored) /\ Rising(pending) /\ Below(stored, pending)
  /\ \A f \in Fiber : Rising(batch[f]) /\ Below(stored, batch[f]) /\ Below(batch[f], pending)
  /\ \A f, g \in Fiber : Before(line, f, g) => Below(batch[f], batch[g])

\* The next event is after all of them.
Counted ==
  \A n \in 1 .. MaxEvent :
    Has(stored, n) \/ Has(pending, n) \/ (\E f \in Fiber : Has(batch[f], n)) => n <= appended

\* f publishes a transition: it has the permit.
Transition(f) == Busy(f) /\ ~IsProgress(Last(batch[f]))

\* What is buffered is progress, and who flushes what.
Kinds ==
  /\ \A i \in 1 .. Len(pending) : IsProgress(pending[i])
  /\ ~Transition(Timer) /\ ~Transition(Drainer)
  /\ Busy(Drainer) => journal = "draining"
  /\ Busy(Stream) => Transition(Stream)

\* One fiber has the permit, for a transition of the call's status.
OnePermit ==
  /\ \A f, g \in Fiber : Transition(f) /\ Transition(g) => f = g
  /\ \A f \in Fiber : Transition(f) =>
       \/ Last(batch[f]).kind = "called" /\ status[Last(batch[f]).call] = "calling"
       \/ Last(batch[f]).kind = "settled" /\ status[Last(batch[f]).call] = "settling"

JournalInv ==
  JournalTypeOK /\ InLine /\ Apart /\ Counted /\ Kinds /\ OnePermit /\ TransitionsAreStored

LEMMA ConcatEvents ==
  ASSUME NEW es \in Seq(Events), NEW fs \in Seq(Events)
  PROVE  /\ es \o fs \in Seq(Events)
         /\ \A n : Has(es \o fs, n) <=> Has(es, n) \/ Has(fs, n)
         /\ Rising(es) /\ Rising(fs) /\ Below(es, fs) => Rising(es \o fs)
         /\ ToSet(es) \subseteq ToSet(es \o fs)
         /\ fs # <<>> => Last(fs) \in ToSet(es \o fs)
<1> DEFINE r == es \o fs
<1>1. /\ r \in Seq(Events) /\ Len(r) = Len(es) + Len(fs) /\ DOMAIN r = 1 .. Len(r)
      /\ \A i \in 1 .. Len(r) : r[i] = IF i <= Len(es) THEN es[i] ELSE fs[i - Len(es)]
      /\ Len(es) \in Nat /\ Len(fs) \in Nat /\ DOMAIN es = 1 .. Len(es)
  BY ConcatProperties, LenProperties
<1> HIDE DEF r
<1>2. \A i \in 1 .. Len(es) : i \in 1 .. Len(r) /\ r[i] = es[i]
  BY <1>1
<1>3. ASSUME NEW i \in 1 .. Len(fs)
      PROVE  Len(es) + i \in 1 .. Len(r) /\ r[Len(es) + i] = fs[i]
  <2>1. /\ Len(es) + i \in 1 .. Len(r) /\ ~(Len(es) + i <= Len(es))
        /\ (Len(es) + i) - Len(es) = i
    BY <1>1
  <2> QED BY <1>1, <2>1
<1>4. \A i \in 1 .. Len(r) :
        \/ i \in 1 .. Len(es) /\ r[i] = es[i]
        \/ i > Len(es) /\ i - Len(es) \in 1 .. Len(fs) /\ r[i] = fs[i - Len(es)]
  BY <1>1
<1>5. ASSUME NEW n PROVE Has(r, n) <=> Has(es, n) \/ Has(fs, n)
  BY <1>2, <1>3, <1>4 DEF Has
<1>6. ASSUME Rising(es), Rising(fs), Below(es, fs) PROVE Rising(r)
  <2>1. \A i \in 1 .. Len(r) : Climbs(r[i])
    BY <1>4, <1>6 DEF Rising
  <2>2. ASSUME NEW i \in 1 .. Len(r), NEW j \in 1 .. Len(r), i < j,
               NEW m \in 1 .. MaxEvent, NEW n \in 1 .. MaxEvent, In(r[i], m), In(r[j], n)
        PROVE  m < n
    <3>1. CASE j \in 1 .. Len(es)
      <4>1. i \in 1 .. Len(es) /\ r[i] = es[i] /\ r[j] = es[j]
        BY <1>1, <1>2, <2>2, <3>1
      <4> QED BY <1>6, <2>2, <3>1, <4>1 DEF Rising
    <3>2. CASE i > Len(es)
      <4>1. /\ i - Len(es) \in 1 .. Len(fs) /\ r[i] = fs[i - Len(es)]
            /\ j - Len(es) \in 1 .. Len(fs) /\ r[j] = fs[j - Len(es)]
            /\ i - Len(es) < j - Len(es)
        BY <1>1, <1>4, <2>2, <3>2
      <4> QED BY <1>6, <2>2, <4>1 DEF Rising
    <3>3. CASE i \in 1 .. Len(es) /\ j > Len(es)
      <4>1. r[i] = es[i] /\ j - Len(es) \in 1 .. Len(fs) /\ r[j] = fs[j - Len(es)]
        BY <1>1, <1>2, <1>4, <2>2, <3>3
      <4>2. Has(es, m) /\ Has(fs, n)
        BY <2>2, <3>3, <4>1 DEF Has
      <4> QED BY <1>6, <4>2 DEF Below
    <3>4. (i \in 1 .. Len(es) \/ i > Len(es)) /\ (j \in 1 .. Len(es) \/ j > Len(es))
      BY <1>1
    <3> QED BY <3>1, <3>2, <3>3, <3>4
  <2> QED BY <2>1, <2>2 DEF Rising
<1>7. ToSet(es) \subseteq ToSet(r)
  BY <1>1, <1>2 DEF ToSet
<1>8. ASSUME fs # <<>> PROVE Last(fs) \in ToSet(r)
  <2>1. Len(fs) \in 1 .. Len(fs)
    BY <1>1, <1>8, EmptySeq
  <2>2. Len(es) + Len(fs) \in DOMAIN r /\ r[Len(es) + Len(fs)] = Last(fs)
    BY <1>1, <1>3, <2>1 DEF Last
  <2> QED BY <2>2 DEF ToSet
<1> QED BY <1>1, <1>5, <1>6, <1>7, <1>8 DEF r

LEMMA Distinct == /\ Stream # Timer /\ Stream # Drainer /\ Timer # Drainer
                  /\ Stream \notin Call /\ Timer \notin Call /\ Drainer \notin Call
                  /\ Stream \in Fiber /\ Timer \in Fiber /\ Drainer \in Fiber /\ Call \subseteq Fiber
BY Fibers DEF Fiber

LEMMA NothingIn == Rising(<<>>) /\ \A n : ~Has(<<>>, n)
<1>1. Len(<<>>) = 0
  BY EmptySeq
<1> QED BY <1>1 DEF Rising, Has

\* A flush: f joins the line with what is in the buffer.
LEMMA FlushKeeps ==
  ASSUME JournalTypeOK, InLine, Apart, NEW f \in Fiber, ~Busy(f),
         NEW buffer \in Seq(Events), buffer # <<>>, Rising(buffer), Below(stored, buffer),
         \A g \in Fiber : Below(batch[g], buffer),
         Flush(f, buffer), UNCHANGED stored
  PROVE  /\ pending' \in Seq(Events) /\ pending' = <<>> /\ line' \in Seq(Fiber)
         /\ batch' \in [Fiber -> Seq(Events)] /\ \A g \in Fiber : g # f => batch'[g] = batch[g]
         /\ batch'[f] # <<>>
         /\ \A n : Has(batch'[f], n) <=> Has(buffer, n)
         /\ IsProgress(Last(batch'[f])) <=> IsProgress(Last(buffer))
         /\ ~IsProgress(Last(buffer)) => Last(batch'[f]) = Last(buffer)
         /\ InLine' /\ Apart'
<1>1. PICK b : b = Coalesce(buffer)
  OBVIOUS
<1>2. /\ b \in Seq(Events) /\ b # <<>> /\ \A n : Has(b, n) <=> Has(buffer, n)
      /\ IsProgress(Last(b)) <=> IsProgress(Last(buffer))
      /\ ~IsProgress(Last(buffer)) => Last(b) = Last(buffer)
      /\ Rising(b)
  BY <1>1, CoalesceFacts
<1>3. batch \in [Fiber -> Seq(Events)] /\ line \in Seq(Fiber)
  BY DEF JournalTypeOK
<1>4. /\ batch' = [batch EXCEPT ![f] = b] /\ pending' = <<>> /\ line' = Append(line, f)
      /\ stored' = stored
  BY <1>1 DEF Flush
<1>5. /\ batch' \in [Fiber -> Seq(Events)] /\ batch'[f] = b
      /\ \A g \in Fiber : g # f => batch'[g] = batch[g]
  BY <1>2, <1>3, <1>4
<1>6. Once(line) /\ ~Waits(line, f)
  BY DEF InLine
<1>7. /\ line' \in Seq(Fiber) /\ Once(line')
      /\ \A g : Waits(line', g) <=> Waits(line, g) \/ g = f
      /\ \A g, h : Before(line', g, h) => Waits(line, g) /\ (Before(line, g, h) \/ h = f)
  BY <1>3, <1>4, <1>6, JoinLine
<1>8. InLine'
  BY <1>2, <1>5, <1>7 DEF InLine, Busy
<1>9. pending' \in Seq(Events) /\ Rising(pending') /\ \A n : ~Has(pending', n)
  BY <1>4, NothingIn, EmptySeq
<1>10. \A g \in Fiber : Rising(batch'[g]) /\ Below(stored', batch'[g]) /\ Below(batch'[g], pending')
  <2>1. Below(stored, b)
    BY <1>2 DEF Below
  <2>2. \A es : Below(es, pending')
    BY <1>9 DEF Below
  <2> QED BY <1>2, <1>4, <1>5, <2>1, <2>2 DEF Apart
<1>11. ASSUME NEW g \in Fiber, NEW h \in Fiber, Before(line', g, h)
       PROVE  Below(batch'[g], batch'[h])
  <2>1. g # f /\ batch'[g] = batch[g]
    BY <1>5, <1>6, <1>7, <1>11
  <2>2. CASE h = f
    <3>1. Below(batch[g], b)
      BY <1>2 DEF Below
    <3> QED BY <1>5, <2>1, <2>2, <3>1
  <2>3. CASE h # f
    BY <1>5, <1>7, <1>11, <2>1, <2>3 DEF Apart
  <2> QED BY <2>2, <2>3
<1>12. Rising(stored') /\ Below(stored', pending')
  BY <1>4, <1>9 DEF Apart, Below
<1>13. Apart'
  BY <1>9, <1>10, <1>11, <1>12 DEF Apart
<1> QED BY <1>2, <1>4, <1>5, <1>7, <1>8, <1>9, <1>13

\* f leaves the line with nothing stored.
LEMMA AbandonKeeps ==
  ASSUME JournalTypeOK, InLine, Apart, Counted, NEW f \in Fiber, Abandon(f), UNCHANGED stored
  PROVE  /\ line' \in Seq(Fiber) /\ batch' \in [Fiber -> Seq(Events)] /\ batch'[f] = <<>>
         /\ \A g \in Fiber : g # f => batch'[g] = batch[g]
         /\ InLine' /\ Apart' /\ Counted'
<1>1. batch \in [Fiber -> Seq(Events)] /\ line \in Seq(Fiber) /\ Once(line)
  BY DEF JournalTypeOK, InLine
<1>2. /\ batch' = [batch EXCEPT ![f] = <<>>] /\ pending' = pending /\ line' = RemoveFirst(line, f)
      /\ stored' = stored /\ appended' = appended
  BY DEF Abandon
<1>3. /\ batch' \in [Fiber -> Seq(Events)] /\ batch'[f] = <<>>
      /\ \A g \in Fiber : g # f => batch'[g] = batch[g]
  BY <1>1, <1>2, EmptySeq
<1>4. /\ line' \in Seq(Fiber) /\ Once(line')
      /\ \A g : Waits(line', g) <=> Waits(line, g) /\ g # f
      /\ \A g, h : Before(line', g, h) => Before(line, g, h)
  BY <1>1, <1>2, LeaveLine
<1>5. InLine'
  BY <1>3, <1>4 DEF InLine, Busy
<1>6. \A es : Below(es, <<>>) /\ Below(<<>>, es)
  BY NothingIn DEF Below
<1>7. Apart'
  <2>1. \A g \in Fiber : Rising(batch'[g]) /\ Below(stored', batch'[g]) /\ Below(batch'[g], pending')
    BY <1>2, <1>3, <1>6, NothingIn DEF Apart
  <2>2. \A g, h \in Fiber : Before(line', g, h) => Below(batch'[g], batch'[h])
    BY <1>3, <1>4, <1>6 DEF Apart
  <2> QED BY <1>2, <2>1, <2>2 DEF Apart
<1>8. Counted'
  BY <1>2, <1>3, NothingIn DEF Counted
<1> QED BY <1>3, <1>4, <1>5, <1>7, <1>8

\* The first in line is served.
LEMMA ServeKeeps ==
  ASSUME JournalTypeOK, InLine, Apart, Counted, line # <<>>, NEW f, f = Head(line),
         stored' = stored \o batch[f], batch' = [batch EXCEPT ![f] = <<>>], line' = Tail(line),
         UNCHANGED <<appended, pending>>
  PROVE  /\ f \in Fiber /\ Busy(f)
         /\ stored' \in Seq(Events) /\ line' \in Seq(Fiber) /\ batch' \in [Fiber -> Seq(Events)]
         /\ batch'[f] = <<>> /\ \A g \in Fiber : g # f => batch'[g] = batch[g]
         /\ ToSet(stored) \subseteq ToSet(stored') /\ Last(batch[f]) \in ToSet(stored')
         /\ InLine' /\ Apart' /\ Counted'
<1>1. /\ batch \in [Fiber -> Seq(Events)] /\ line \in Seq(Fiber) /\ stored \in Seq(Events) /\ Once(line)
  BY DEF JournalTypeOK, InLine
<1>2. /\ f \in Fiber /\ Waits(line, f) /\ line' \in Seq(Fiber) /\ Once(line')
      /\ \A g : Waits(line', g) <=> Waits(line, g) /\ g # f
      /\ \A g, h : Before(line', g, h) => Before(line, g, h)
      /\ \A g : Waits(line', g) => Before(line, f, g)
  BY <1>1, ServeLine
<1>3. Busy(f) /\ batch[f] \in Seq(Events) /\ batch[f] # <<>>
  BY <1>1, <1>2 DEF InLine, Busy
<1>4. /\ batch' \in [Fiber -> Seq(Events)] /\ batch'[f] = <<>>
      /\ \A g \in Fiber : g # f => batch'[g] = batch[g]
  BY <1>1, <1>2, EmptySeq
<1>5. /\ stored' \in Seq(Events) /\ \A n : Has(stored', n) <=> Has(stored, n) \/ Has(batch[f], n)
      /\ Rising(stored')
      /\ ToSet(stored) \subseteq ToSet(stored') /\ Last(batch[f]) \in ToSet(stored')
  <2>1. Rising(stored) /\ Rising(batch[f]) /\ Below(stored, batch[f])
    BY <1>2 DEF Apart
  <2> QED BY <1>1, <1>3, <2>1, ConcatEvents
<1>6. InLine'
  BY <1>2, <1>4 DEF InLine, Busy
<1>7. \A es : Below(es, <<>>) /\ Below(<<>>, es)
  BY NothingIn DEF Below
<1>8. Apart'
  <2>1. ASSUME NEW g \in Fiber
        PROVE  Rising(batch'[g]) /\ Below(stored', batch'[g]) /\ Below(batch'[g], pending')
    <3>1. CASE g = f \/ ~Busy(g)
      <4>1. batch'[g] = <<>>
        BY <1>4, <3>1 DEF Busy
      <4> QED BY <1>7, <4>1, NothingIn
    <3>2. CASE g # f /\ Busy(g)
      <4>1. Below(batch[f], batch[g])
        BY <1>2, <3>2 DEF InLine, Apart
      <4>2. batch'[g] = batch[g] /\ Rising(batch[g]) /\ Below(stored, batch[g]) /\ Below(batch[g], pending)
        BY <1>4, <3>2 DEF Apart
      <4>3. Below(stored', batch[g])
        BY <1>5, <4>1, <4>2 DEF Below
      <4> QED BY <4>2, <4>3
    <3> QED BY <3>1, <3>2
  <2>2. \A g, h \in Fiber : Before(line', g, h) => Below(batch'[g], batch'[h])
    BY <1>2, <1>4, <1>7 DEF Apart
  <2>3. Below(stored', pending')
    BY <1>2, <1>5 DEF Apart, Below
  <2> QED BY <1>5, <2>1, <2>2, <2>3 DEF Apart
<1>9. Counted'
  BY <1>2, <1>4, <1>5, NothingIn DEF Counted
<1> QED BY <1>2, <1>3, <1>4, <1>5, <1>6, <1>8, <1>9

\* An event is appended, and may flush the buffer.
LEMMA AppendKeeps ==
  ASSUME JournalTypeOK, InLine, Apart, Counted, Kinds, NEW f \in Fiber, ~Busy(f),
         NEW e \in Events, e.chunks = <<appended + 1>>, AppendEvent(f, e), UNCHANGED stored
  PROVE  /\ appended' \in 0 .. MaxEvent /\ pending' \in Seq(Events) /\ line' \in Seq(Fiber)
         /\ batch' \in [Fiber -> Seq(Events)] /\ \A g \in Fiber : g # f => batch'[g] = batch[g]
         /\ \A i \in 1 .. Len(pending') : IsProgress(pending'[i])
         /\ IsProgress(e) => ~Transition(f)'
         /\ ~IsProgress(e) => batch'[f] # <<>> /\ Last(batch'[f]) = e
         /\ InLine' /\ Apart' /\ Counted'
<1>1. /\ appended \in Nat /\ appended' = appended + 1 /\ appended' \in 1 .. MaxEvent
      /\ pending \in Seq(Events) /\ batch \in [Fiber -> Seq(Events)] /\ line \in Seq(Fiber)
      /\ stored' = stored
  BY Bounds DEF JournalTypeOK, AppendEvent
<1>2. Climbs(e) /\ \A n : In(e, n) <=> n = appended + 1
  <2>1. Len(<<appended + 1>>) = 1 /\ <<appended + 1>>[1] = appended + 1
    OBVIOUS
  <2>2. \A a \in 1 .. 1 : a = 1
    OBVIOUS
  <2> QED BY <2>1, <2>2 DEF Climbs, Ascends, In, Contains
<1>3. \A m \in 1 .. MaxEvent : m <= appended => m < appended + 1
  BY <1>1
<1>4. /\ \A m, n \in 1 .. MaxEvent : Has(pending, m) /\ In(e, n) => m < n
      /\ \A m, n \in 1 .. MaxEvent : Has(stored, m) /\ In(e, n) => m < n
      /\ \A g \in Fiber : \A m, n \in 1 .. MaxEvent : Has(batch[g], m) /\ In(e, n) => m < n
  BY <1>2, <1>3 DEF Counted
<1>5. PICK p : p = Append(pending, e)
  OBVIOUS
<1>6. /\ p \in Seq(Events) /\ p # <<>> /\ Last(p) = e
      /\ Len(p) = Len(pending) + 1 /\ Len(pending) \in Nat
      /\ \A i \in 1 .. Len(pending) : p[i] = pending[i]
      /\ p[Len(pending) + 1] = e
  BY <1>1, <1>5, AppendProperties, LenProperties DEF Last
<1>7. Rising(p) /\ \A n : Has(p, n) <=> Has(pending, n) \/ In(e, n)
  BY <1>1, <1>2, <1>4, <1>5, AppendRises, AppendHas DEF Apart
<1>8. Below(stored, p) /\ \A g \in Fiber : Below(batch[g], p)
  <2>1. Below(stored, p)
    BY <1>4, <1>7 DEF Apart, Below
  <2>2. ASSUME NEW g \in Fiber PROVE Below(batch[g], p)
    BY <1>4, <1>7 DEF Apart, Below
  <2> QED BY <2>1, <2>2
<1>9. \A n \in 1 .. MaxEvent : n <= appended => n <= appended'
  BY <1>1
<1>10. CASE ~IsProgress(e) \/ Len(pending) + 1 >= MemoryLimit
  <2>1. Flush(f, p)
    BY <1>5, <1>10 DEF AppendEvent
  <2>2. /\ pending' \in Seq(Events) /\ pending' = <<>> /\ line' \in Seq(Fiber)
        /\ batch' \in [Fiber -> Seq(Events)] /\ \A g \in Fiber : g # f => batch'[g] = batch[g]
        /\ batch'[f] # <<>>
        /\ \A n : Has(batch'[f], n) <=> Has(p, n)
        /\ IsProgress(Last(batch'[f])) <=> IsProgress(e)
        /\ ~IsProgress(e) => Last(batch'[f]) = e
        /\ InLine' /\ Apart'
    BY <1>1, <1>6, <1>7, <1>8, <2>1, FlushKeeps
  <2>3. Len(pending') = 0
    BY <2>2, EmptySeq
  <2>4. \A i \in 1 .. Len(pending') : IsProgress(pending'[i])
    BY <2>3
  <2>5. Counted'
    <3> SUFFICES ASSUME NEW n \in 1 .. MaxEvent,
                        Has(stored', n) \/ Has(pending', n) \/ \E g \in Fiber : Has(batch'[g], n)
                 PROVE  n <= appended'
      BY DEF Counted
    <3>1. \/ Has(stored, n) \/ Has(pending, n) \/ In(e, n)
          \/ \E g \in Fiber : Has(batch[g], n)
      BY <1>1, <1>7, <2>2, NothingIn
    <3>2. CASE In(e, n)
      BY <1>1, <1>2, <3>2
    <3> QED BY <1>9, <3>1, <3>2 DEF Counted
  <2> QED BY <1>1, <2>2, <2>4, <2>5 DEF Transition
<1>11. CASE ~(~IsProgress(e) \/ Len(pending) + 1 >= MemoryLimit)
  <2>1. pending' = p /\ batch' = batch /\ line' = line /\ IsProgress(e)
    BY <1>5, <1>11 DEF AppendEvent
  <2>2. InLine'
    BY <2>1 DEF InLine, Busy
  <2>3. Apart'
    BY <1>1, <1>7, <1>8, <2>1 DEF Apart
  <2>4. \A i \in 1 .. Len(p) : i \in 1 .. Len(pending) \/ i = Len(pending) + 1
    BY <1>6
  <2>5. \A i \in 1 .. Len(pending') : IsProgress(pending'[i])
    BY <1>6, <2>1, <2>4 DEF Kinds
  <2>6. Counted'
    <3> SUFFICES ASSUME NEW n \in 1 .. MaxEvent,
                        Has(stored', n) \/ Has(pending', n) \/ \E g \in Fiber : Has(batch'[g], n)
                 PROVE  n <= appended'
      BY DEF Counted
    <3>1. \/ Has(stored, n) \/ Has(pending, n) \/ In(e, n)
          \/ \E g \in Fiber : Has(batch[g], n)
      BY <1>1, <1>7, <2>1
    <3>2. CASE In(e, n)
      BY <1>1, <1>2, <3>2
    <3> QED BY <1>9, <3>1, <3>2 DEF Counted
  <2>7. ~Transition(f)'
    BY <2>1 DEF Transition, Busy
  <2> QED BY <1>1, <1>6, <2>1, <2>2, <2>3, <2>5, <2>6, <2>7
<1> QED BY <1>10, <1>11

LEMMA EventIs ==
  ASSUME NEW c \in Call, NEW kind \in {"called", "progress", "settled"}, NEW n \in 1 .. MaxEvent
  PROVE  /\ Event(c, kind, n) \in Events /\ Event(c, kind, n).chunks = <<n>>
         /\ Event(c, kind, n).call = c /\ Event(c, kind, n).kind = kind
BY DEF Event, Events

\* A transition of a call is appended, under the permit.
LEMMA TransitionKeeps ==
  ASSUME JournalInv, NEW f \in Fiber, NEW c \in Call, NEW kind \in {"called", "settled"},
         NEW to, (kind = "called" /\ to = "calling") \/ (kind = "settled" /\ to = "settling"),
         f # Timer, f # Drainer, ~Busy(f), PermitFree,
         AppendEvent(f, Event(c, kind, appended + 1)),
         status' = [status EXCEPT ![c] = to], UNCHANGED <<stored, live, journal>>
  PROVE  JournalInv'
<1> USE DEF JournalInv
<1>1. appended + 1 \in 1 .. MaxEvent
  BY Bounds DEF JournalTypeOK, AppendEvent
<1>2. PICK e \in Events : e = Event(c, kind, appended + 1)
  BY <1>1, EventIs
<1>3. e.chunks = <<appended + 1>> /\ e.call = c /\ e.kind = kind /\ ~IsProgress(e)
  BY <1>1, <1>2, EventIs DEF IsProgress
<1>4. /\ appended' \in 0 .. MaxEvent /\ pending' \in Seq(Events) /\ line' \in Seq(Fiber)
      /\ batch' \in [Fiber -> Seq(Events)] /\ \A g \in Fiber : g # f => batch'[g] = batch[g]
      /\ \A i \in 1 .. Len(pending') : IsProgress(pending'[i])
      /\ batch'[f] # <<>> /\ Last(batch'[f]) = e
      /\ InLine' /\ Apart' /\ Counted'
  BY <1>2, <1>3, AppendKeeps
<1>5. to \in {"calling", "settling"}
  OBVIOUS
<1>6. JournalTypeOK'
  BY <1>4, <1>5 DEF JournalTypeOK
<1>7. Transition(f)' /\ \A g \in Fiber : g # f => (Transition(g)' <=> Transition(g)) /\ (Busy(g)' <=> Busy(g))
  BY <1>3, <1>4 DEF Transition, Busy
<1>8. Kinds'
  BY <1>4, <1>7, Distinct DEF Kinds
<1>9. \A g \in Fiber : ~Transition(g)
  BY DEF PermitFree, Transition
<1>10. status'[c] = to
  BY DEF JournalTypeOK
<1>11. OnePermit'
  BY <1>3, <1>4, <1>7, <1>9, <1>10 DEF OnePermit
<1>12. TransitionsAreStored'
  BY <1>5 DEF TransitionsAreStored, JournalTypeOK
<1> QED BY <1>4, <1>6, <1>8, <1>11, <1>12

LEMMA ToolCallKeeps == ASSUME JournalInv, NEW c \in Call, ToolCall(c) PROVE JournalInv'
<1>1. ~Busy(Stream)
  BY Distinct DEF JournalInv, Kinds, Transition, ToolCall, PermitFree
<1>2. /\ PermitFree /\ AppendEvent(Stream, Event(c, "called", appended + 1))
      /\ status' = [status EXCEPT ![c] = "calling"] /\ UNCHANGED <<stored, live, journal>>
  BY DEF ToolCall
<1>3. Stream \in Fiber /\ Stream # Timer /\ Stream # Drainer /\ "called" \in {"called", "settled"}
  BY Distinct
<1> QED BY <1>1, <1>2, <1>3, TransitionKeeps

LEMMA SettleKeeps == ASSUME JournalInv, NEW c \in Call, Settle(c) PROVE JournalInv'
<1>1. /\ ~Busy(c) /\ PermitFree /\ AppendEvent(c, Event(c, "settled", appended + 1))
      /\ status' = [status EXCEPT ![c] = "settling"] /\ UNCHANGED <<stored, live, journal>>
  BY DEF Settle
<1>2. c \in Fiber /\ c # Timer /\ c # Drainer /\ "settled" \in {"called", "settled"}
  BY Distinct
<1> QED BY <1>1, <1>2, TransitionKeeps

LEMMA FailKeeps == ASSUME JournalInv, NEW c \in Call, Fail(c) PROVE JournalInv'
<1>1. /\ ~Busy(Stream) /\ PermitFree /\ AppendEvent(Stream, Event(c, "settled", appended + 1))
      /\ status' = [status EXCEPT ![c] = "settling"] /\ UNCHANGED <<stored, live, journal>>
  BY DEF Fail
<1>2. Stream \in Fiber /\ Stream # Timer /\ Stream # Drainer /\ "settled" \in {"called", "settled"}
  BY Distinct
<1> QED BY <1>1, <1>2, TransitionKeeps

\* Nothing but who stands in line with progress changes.
LEMMA ProgressMoves ==
  ASSUME JournalInv, NEW f \in Fiber, f # Stream,
         \A g \in Fiber : g # f => batch'[g] = batch[g], ~Transition(f)',
         UNCHANGED <<stored, status, live>>
  PROVE  OnePermit' /\ TransitionsAreStored'
<1>1. \A g \in Fiber : Transition(g)' => Transition(g) /\ batch'[g] = batch[g]
  BY DEF Transition, Busy
<1>2. OnePermit'
  BY <1>1 DEF JournalInv, OnePermit
<1>3. TransitionsAreStored'
  BY DEF JournalInv, TransitionsAreStored
<1> QED BY <1>2, <1>3

LEMMA ProgressKeeps == ASSUME JournalInv, NEW c \in Call, Progress(c) PROVE JournalInv'
<1> USE DEF JournalInv
<1>1. appended + 1 \in 1 .. MaxEvent
  BY Bounds DEF JournalTypeOK, AppendEvent, Progress
<1>2. PICK e \in Events : e = Event(c, "progress", appended + 1)
  BY <1>1, EventIs
<1>3. e.chunks = <<appended + 1>> /\ IsProgress(e)
  BY <1>1, <1>2, EventIs DEF IsProgress
<1>4. c \in Fiber /\ c # Stream /\ c # Timer /\ c # Drainer
  BY Distinct
<1>5. /\ appended' \in 0 .. MaxEvent /\ pending' \in Seq(Events) /\ line' \in Seq(Fiber)
      /\ batch' \in [Fiber -> Seq(Events)] /\ \A g \in Fiber : g # c => batch'[g] = batch[g]
      /\ \A i \in 1 .. Len(pending') : IsProgress(pending'[i])
      /\ ~Transition(c)'
      /\ InLine' /\ Apart' /\ Counted'
  BY <1>2, <1>3, <1>4, AppendKeeps DEF Progress
<1>6. JournalTypeOK'
  BY <1>5 DEF JournalTypeOK, Progress
<1>7. Kinds'
  BY <1>4, <1>5, Distinct DEF Kinds, Transition, Busy, Progress
<1>8. OnePermit' /\ TransitionsAreStored'
  BY <1>4, <1>5, ProgressMoves DEF Progress
<1> QED BY <1>5, <1>6, <1>7, <1>8

\* What is buffered is flushed by the timer or by the drain.
LEMMA BufferKeeps ==
  ASSUME JournalInv, NEW f \in {Timer, Drainer}, ~Busy(f), pending # <<>>, Flush(f, pending),
         UNCHANGED <<appended, stored, status, live>>,
         journal' \in {"open", "stopped", "draining", "drained"},
         journal' = journal \/ journal # "draining", f = Drainer => journal' = "draining"
  PROVE  JournalInv'
<1> USE DEF JournalInv
<1>1. f \in Fiber /\ f # Stream
  BY Distinct
<1>2. pending \in Seq(Events) /\ Len(pending) \in Nat \ {0}
  BY LenProperties, EmptySeq DEF JournalTypeOK
<1>3. IsProgress(Last(pending))
  BY <1>2 DEF Kinds, Last
<1>4. Rising(pending) /\ Below(stored, pending) /\ \A g \in Fiber : Below(batch[g], pending)
  BY DEF Apart
<1>5. /\ pending' \in Seq(Events) /\ pending' = <<>> /\ line' \in Seq(Fiber)
      /\ batch' \in [Fiber -> Seq(Events)] /\ \A g \in Fiber : g # f => batch'[g] = batch[g]
      /\ \A n : Has(batch'[f], n) <=> Has(pending, n)
      /\ IsProgress(Last(batch'[f]))
      /\ InLine' /\ Apart'
  BY <1>1, <1>2, <1>3, <1>4, FlushKeeps
<1>6. JournalTypeOK'
  BY <1>5 DEF JournalTypeOK
<1>7. Counted'
  BY <1>5, NothingIn DEF Counted
<1>8. ~Transition(f)'
  BY <1>5 DEF Transition
<1>9. Len(pending') = 0
  BY <1>5, EmptySeq
<1>10. Kinds'
  <2>1. \A i \in 1 .. Len(pending') : IsProgress(pending'[i])
    BY <1>9
  <2>2. ~Transition(Timer)' /\ ~Transition(Drainer)'
    BY <1>5, <1>8, Distinct DEF Kinds, Transition, Busy
  <2>3. Busy(Drainer)' => journal' = "draining"
    BY <1>5, Distinct DEF Kinds, Busy
  <2>4. Busy(Stream)' => Transition(Stream)'
    BY <1>1, <1>5, Distinct DEF Kinds, Transition, Busy
  <2> QED BY <2>1, <2>2, <2>3, <2>4 DEF Kinds
<1>11. OnePermit' /\ TransitionsAreStored'
  BY <1>1, <1>5, <1>8, ProgressMoves
<1> QED BY <1>5, <1>6, <1>7, <1>10, <1>11

LEMMA TimerFlushKeeps == ASSUME JournalInv, TimerFlush PROVE JournalInv'
BY Distinct, BufferKeeps DEF TimerFlush, JournalInv, JournalTypeOK

LEMMA DrainFlushKeeps == ASSUME JournalInv, DrainFlush PROVE JournalInv'
<1> USE DEF JournalInv
<1>1. ~Busy(Drainer) /\ journal = "stopped"
  BY DEF DrainFlush, Kinds
<1>2. CASE pending = <<>>
  <2>1. journal' = "drained" /\ UNCHANGED <<pending, batch, line, appended, stored, status, live>>
    BY <1>2 DEF DrainFlush
  <2>2. JournalTypeOK' /\ InLine' /\ Apart' /\ Counted'
    BY <2>1 DEF JournalTypeOK, InLine, Apart, Counted, Busy
  <2>3. Kinds'
    BY <1>1, <2>1 DEF Kinds, Transition, Busy
  <2>4. OnePermit' /\ TransitionsAreStored'
    BY <2>1 DEF OnePermit, Transition, Busy, TransitionsAreStored
  <2> QED BY <2>2, <2>3, <2>4
<1>3. CASE pending # <<>>
  <2>1. /\ journal' = "draining" /\ Flush(Drainer, pending)
        /\ UNCHANGED <<appended, stored, status, live>>
    BY <1>3 DEF DrainFlush
  <2> QED BY <1>1, <1>3, <2>1, BufferKeeps
<1> QED BY <1>2, <1>3

LEMMA StopTimerKeeps == ASSUME JournalInv, StopTimer PROVE JournalInv'
<1> USE DEF JournalInv
<1>1. /\ line' \in Seq(Fiber) /\ batch' \in [Fiber -> Seq(Events)] /\ batch'[Timer] = <<>>
      /\ \A g \in Fiber : g # Timer => batch'[g] = batch[g]
      /\ InLine' /\ Apart' /\ Counted'
  BY Distinct, AbandonKeeps DEF StopTimer
<1>2. JournalTypeOK'
  BY <1>1 DEF JournalTypeOK, StopTimer, Abandon
<1>3. ~Transition(Timer)'
  BY <1>1 DEF Transition, Busy
<1>4. Kinds'
  BY <1>1, <1>3, Distinct DEF Kinds, Transition, Busy, StopTimer, Abandon
<1>5. OnePermit' /\ TransitionsAreStored'
  BY <1>1, <1>3, Distinct, ProgressMoves DEF StopTimer
<1> QED BY <1>1, <1>2, <1>4, <1>5

\* Who publishes a transition publishes it for one call, and nobody else does for that call.
LEMMA PublishedFacts ==
  ASSUME JournalTypeOK, OnePermit, NEW f \in Fiber
  PROVE  /\ \A c \in Published(f) : /\ c \in Call /\ Transition(f) /\ Last(batch[f]).call = c
                                    /\ \/ Last(batch[f]).kind = "called" /\ status[c] = "calling"
                                       \/ Last(batch[f]).kind = "settled" /\ status[c] = "settling"
         /\ \A g \in Fiber : Transition(g) /\ g # f => Published(f) = {}
         /\ \A g \in Fiber : Transition(g) => Last(batch[g]).call \in Call
<1>1. \A c \in Published(f) : c \in Call /\ Transition(f) /\ Last(batch[f]).call = c
  BY DEF Published, Transition
<1>2. ASSUME NEW g \in Fiber, Transition(g) PROVE Last(batch[g]).call \in Call
  <2>1. batch[g] \in Seq(Events) /\ batch[g] # <<>>
    BY <1>2 DEF JournalTypeOK, Transition, Busy
  <2> QED BY <2>1, FrontFacts, EventFields
<1> QED BY <1>1, <1>2 DEF OnePermit

\* A fiber dies in the line, or out of it.
LEMMA DeathKeeps ==
  ASSUME JournalInv, NEW f \in Fiber, Abandon(f), status' = Died(f), live' = live \ {f},
         UNCHANGED stored,
         journal' = journal \/ (f = Drainer /\ journal' = "drained")
  PROVE  JournalInv'
<1> USE DEF JournalInv
<1>1. /\ line' \in Seq(Fiber) /\ batch' \in [Fiber -> Seq(Events)] /\ batch'[f] = <<>>
      /\ \A g \in Fiber : g # f => batch'[g] = batch[g]
      /\ InLine' /\ Apart' /\ Counted'
  BY AbandonKeeps
<1>2. \A c \in Call :
        status'[c] = IF c \in Published(f) /\ status[c] = "settling" THEN "unsettled"
                     ELSE IF c \in Published(f) \/ (f = c /\ status[c] = "running") THEN "failed"
                     ELSE status[c]
  BY DEF Died
<1>3. status' \in [Call -> {"none", "calling", "running", "settling", "settled", "failed", "unsettled"}]
  BY DEF Died, JournalTypeOK
<1>4. JournalTypeOK'
  BY <1>1, <1>3 DEF JournalTypeOK, Abandon
<1>5. ~Transition(f)' /\ ~Busy(f)' /\ \A g \in Fiber : g # f => (Transition(g)' <=> Transition(g)) /\ (Busy(g)' <=> Busy(g))
  BY <1>1 DEF Transition, Busy
<1>6. pending' = pending
  BY DEF Abandon
<1>7. Kinds'
  BY <1>5, <1>6, Distinct DEF Kinds
<1>8. ASSUME NEW g \in Fiber, Transition(g)'
      PROVE  /\ Transition(g) /\ g # f /\ batch'[g] = batch[g]
             /\ status'[Last(batch[g]).call] = status[Last(batch[g]).call]
  <2>1. Transition(g) /\ g # f /\ batch'[g] = batch[g]
    BY <1>1, <1>5, <1>8
  <2>2. Published(f) = {} /\ Last(batch[g]).call \in Call
    BY <2>1, PublishedFacts
  <2>3. status[Last(batch[g]).call] # "running"
    BY <2>1 DEF OnePermit
  <2> QED BY <1>2, <2>1, <2>2, <2>3
<1>9. OnePermit'
  BY <1>8 DEF OnePermit
<1>10. TransitionsAreStored'
  <2>1. \A c \in Call : status'[c] = "settled" => status[c] = "settled"
    BY <1>2
  <2> QED BY <2>1 DEF TransitionsAreStored
<1> QED BY <1>1, <1>4, <1>7, <1>9, <1>10

LEMMA PersistFailsKeeps == ASSUME JournalInv, PersistFails PROVE JournalInv'
<1>1. PICK f : f = Head(line)
  OBVIOUS
<1>2. f \in Fiber
  BY <1>1, ServeLine DEF JournalInv, JournalTypeOK, InLine, PersistFails
<1>3. /\ Abandon(f) /\ status' = Died(f) /\ live' = live \ {f} /\ UNCHANGED stored
      /\ journal' = IF f = Drainer THEN "drained" ELSE journal
  BY <1>1 DEF PersistFails
<1>4. journal' = journal \/ (f = Drainer /\ journal' = "drained")
  BY <1>3
<1> QED BY <1>2, <1>3, <1>4, DeathKeeps

LEMMA InterruptKeeps == ASSUME JournalInv, NEW f \in Fiber, Interrupt(f) PROVE JournalInv'
<1>1. /\ Abandon(f) /\ status' = Died(f) /\ live' = live \ {f} /\ UNCHANGED stored
      /\ journal' = journal
  BY DEF Interrupt
<1> QED BY <1>1, DeathKeeps

LEMMA CommitKeeps == ASSUME JournalInv, Commit PROVE JournalInv'
<1> USE DEF JournalInv
<1>1. PICK f : f = Head(line)
  OBVIOUS
<1>2. /\ line # <<>> /\ stored' = stored \o batch[f] /\ batch' = [batch EXCEPT ![f] = <<>>]
      /\ status' = Returned(f)
      /\ live' = IF f = Stream THEN live \cup {c \in Published(f) : status[c] = "calling"}
                 ELSE live \ Published(f)
      /\ journal' = IF f = Drainer THEN "drained" ELSE journal
      /\ line' = Tail(line) /\ UNCHANGED <<appended, pending>>
  BY <1>1 DEF Commit
<1>3. /\ f \in Fiber /\ Busy(f)
      /\ stored' \in Seq(Events) /\ line' \in Seq(Fiber) /\ batch' \in [Fiber -> Seq(Events)]
      /\ batch'[f] = <<>> /\ \A g \in Fiber : g # f => batch'[g] = batch[g]
      /\ ToSet(stored) \subseteq ToSet(stored') /\ Last(batch[f]) \in ToSet(stored')
      /\ InLine' /\ Apart' /\ Counted'
  BY <1>1, <1>2, ServeKeeps
<1>4. \A c \in Call :
        status'[c] = IF c \notin Published(f) THEN status[c]
                     ELSE IF status[c] = "calling" THEN "running" ELSE "settled"
  BY <1>2 DEF Returned
<1>5. status' \in [Call -> {"none", "calling", "running", "settling", "settled", "failed", "unsettled"}]
  BY <1>2 DEF Returned, JournalTypeOK
<1>6. Published(f) \subseteq Call
  BY DEF Published
<1>7. JournalTypeOK'
  BY <1>2, <1>3, <1>5, <1>6 DEF JournalTypeOK
<1>8. ~Transition(f)' /\ ~Busy(f)' /\ \A g \in Fiber : g # f => (Transition(g)' <=> Transition(g)) /\ (Busy(g)' <=> Busy(g))
  BY <1>3 DEF Transition, Busy
<1>9. Kinds'
  BY <1>2, <1>3, <1>8, Distinct DEF Kinds
<1>10. ASSUME NEW g \in Fiber, Transition(g)'
       PROVE  /\ Transition(g) /\ batch'[g] = batch[g]
              /\ status'[Last(batch[g]).call] = status[Last(batch[g]).call]
  <2>1. Transition(g) /\ g # f /\ batch'[g] = batch[g]
    BY <1>3, <1>8, <1>10
  <2>2. Published(f) = {} /\ Last(batch[g]).call \in Call
    BY <1>3, <2>1, PublishedFacts
  <2> QED BY <1>4, <2>1, <2>2
<1>11. OnePermit'
  BY <1>10 DEF OnePermit
<1>12. ASSUME NEW c \in Published(f)
       PROVE  /\ status[c] = "calling" => \E e \in ToSet(stored') : e.call = c /\ e.kind = "called"
              /\ status[c] # "calling" => \E e \in ToSet(stored') : e.call = c /\ e.kind = "settled"
  BY <1>3, PublishedFacts
<1>13. TransitionsAreStored'
  <2> SUFFICES ASSUME NEW c \in Call
               PROVE  /\ c \in live' => \E e \in ToSet(stored') : e.call = c /\ e.kind = "called"
                      /\ status'[c] = "settled" => \E e \in ToSet(stored') : e.call = c /\ e.kind = "settled"
    BY DEF TransitionsAreStored
  <2>1. /\ c \in live => \E e \in ToSet(stored') : e.call = c /\ e.kind = "called"
        /\ status[c] = "settled" => \E e \in ToSet(stored') : e.call = c /\ e.kind = "settled"
    BY <1>3 DEF TransitionsAreStored
  <2>2. c \in live' => c \in live \/ (c \in Published(f) /\ status[c] = "calling")
    BY <1>2
  <2>3. status'[c] = "settled" => status[c] = "settled" \/ (c \in Published(f) /\ status[c] # "calling")
    BY <1>4
  <2> QED BY <1>12, <2>1, <2>2, <2>3
<1> QED BY <1>3, <1>7, <1>9, <1>11, <1>13

\* The invariant holds of the journal of a new turn.
THEOREM JournalInitial == JournalInit => JournalInv
<1> SUFFICES ASSUME JournalInit PROVE JournalInv
  OBVIOUS
<1>1. Len(<<>>) = 0 /\ \A S : <<>> \in Seq(S)
  BY EmptySeq
<1>2. JournalTypeOK
  BY <1>1, Bounds DEF JournalInit, JournalTypeOK
<1>3. InLine
  BY <1>1, Distinct DEF JournalInit, InLine, Once, Waits, Busy
<1>4. Apart /\ Counted
  BY <1>1, NothingIn DEF JournalInit, Apart, Counted, Below, Before
<1>5. Kinds /\ OnePermit
  BY <1>1, Distinct DEF JournalInit, Kinds, OnePermit, Transition, Busy
<1>6. TransitionsAreStored
  BY DEF JournalInit, TransitionsAreStored
<1> QED BY <1>2, <1>3, <1>4, <1>5, <1>6 DEF JournalInv

\* Every step of the journal, of the turn and of the database keeps it.
THEOREM JournalInductive == JournalInv /\ [JournalNext]_journalVars => JournalInv'
<1> SUFFICES ASSUME JournalInv, [JournalNext]_journalVars PROVE JournalInv'
  OBVIOUS
<1>1. ASSUME NEW c \in Call, ToolCall(c) \/ Progress(c) \/ Settle(c) \/ Fail(c)
      PROVE  JournalInv'
  BY <1>1, ToolCallKeeps, ProgressKeeps, SettleKeeps, FailKeeps
<1>2. ASSUME NEW f \in Fiber, Interrupt(f) PROVE JournalInv'
  BY <1>2, InterruptKeeps
<1>3. CASE TimerFlush \/ StopTimer \/ DrainFlush \/ Commit \/ PersistFails
  BY <1>3, TimerFlushKeeps, StopTimerKeeps, DrainFlushKeeps, CommitKeeps, PersistFailsKeeps
<1>4. CASE UNCHANGED journalVars
  BY <1>4 DEF JournalInv, JournalTypeOK, InLine, Apart, Counted, Kinds, OnePermit, Transition,
              Busy, TransitionsAreStored, journalVars, buffers
<1> QED BY <1>1, <1>2, <1>3, <1>4 DEF JournalNext

\* So it holds always.
LEMMA JournalHolds == JournalSpec => []JournalInv
BY JournalInitial, JournalInductive, PTL DEF JournalSpec

\* The type invariant holds always.
THEOREM JournalTypeCorrect == JournalSpec => []JournalTypeOK
<1>1. JournalInv => JournalTypeOK
  BY DEF JournalInv
<1> QED BY <1>1, JournalHolds, PTL

\* What is stored is in the order of its appending, however many events the buffer holds and
\* whichever fibers flush it, fail or are interrupted.
THEOREM EventsKeepOrder == JournalSpec => []StoredInOrder
<1>1. JournalInv => StoredInOrder
  BY FlattenAscends DEF JournalInv, JournalTypeOK, Apart, StoredInOrder
<1> QED BY <1>1, JournalHolds, PTL

\* A tool runs only with its call stored, and counts as settled only with its result stored.
THEOREM TransitionsComeFirst == JournalSpec => []TransitionsAreStored
<1>1. JournalInv => TransitionsAreStored
  BY DEF JournalInv
<1> QED BY <1>1, JournalHolds, PTL
===============================================================================

------------------------------- MODULE FileLock -------------------------------
(***************************************************************************)
(* The lock between processes: core/src/util/effect-flock.ts.  Who creates *)
(* the lock directory has the lock, keeps its heartbeat fresh, and removes *)
(* it at the end.  A lock whose owner died grows old and is broken under a *)
(* second directory, the breaker, which may itself be left behind by a     *)
(* process that dies.  One process stands for one caller; every call of    *)
(* the file system is a step.  Time is what Age does: living processes are *)
(* never late by STALE_MS (StalenessMeansDeath), so what grows old is what *)
(* the dead left behind and no living holder's heartbeat reaches.          *)
(***************************************************************************)
EXTENDS Integers

CONSTANTS Process,
          Dead,       \* the owner of what a process that died left behind
          None,
          MaxCrash    \* bound: processes that die

ASSUME Outsiders == Dead \notin Process /\ None \notin Process /\ Dead # None
ASSUME MaxCrashIsNat == MaxCrash \in Nat

VARIABLES
  lock,       \* who created the lock directory, None when there is none
  old,        \* the file that isStale looks at, or the directory, is stale
  heartbeat,  \* who wrote the heartbeat file in it
  meta,       \* who wrote meta.json in it: its token
  breaker,    \* who created the breaker directory
  breakerOld,
  pc,
  twice,      \* the process checks staleness again, under the breaker
  crashes,
  breakerDied \* history: a process died while it had the breaker

files == <<lock, old, heartbeat, meta>>
breakers == <<breaker, breakerOld>>
vars == <<files, breakers, pc, twice, crashes, breakerDied>>

Owner == Process \cup {Dead, None}

Init ==
  /\ lock = None /\ old = FALSE /\ heartbeat = None /\ meta = None
  /\ breaker = None /\ breakerOld = FALSE
  /\ pc = [p \in Process |-> "idle"]
  /\ twice = [p \in Process |-> FALSE]
  /\ crashes = 0
  /\ breakerDied = FALSE

Go(p, to) == pc' = [pc EXCEPT ![p] = to]
Local(p, from, to) == pc[p] = from /\ Go(p, to) /\ UNCHANGED <<crashes, breakerDied>>

NoLock == lock' = None /\ old' = FALSE /\ heartbeat' = None /\ meta' = None
NoBreaker == breaker' = None /\ breakerOld' = FALSE
-----------------------------------------------------------------------------
(* An attempt: tryAcquireLockDir. *)

Begin(p) ==
  /\ Local(p, "idle", "mkdir")
  /\ UNCHANGED <<files, breakers, twice>>

\* The caller gives up after TIMEOUT_MS; otherwise NotAcquired is retried.
Timeout(p) ==
  /\ Local(p, "retry", "idle")
  /\ UNCHANGED <<files, breakers, twice>>

Retry(p) ==
  /\ Local(p, "retry", "mkdir")
  /\ UNCHANGED <<files, breakers, twice>>

\* atomicMkdir
Create(p, from, created, exists) ==
  /\ pc[p] = from
  /\ IF lock = None
     THEN lock' = p /\ Go(p, created) /\ UNCHANGED <<old, heartbeat, meta>>
     ELSE Go(p, exists) /\ UNCHANGED files
  /\ UNCHANGED <<breakers, twice, crashes, breakerDied>>

MakeLock(p) == Create(p, "mkdir", "writeHeartbeat", "statHeartbeat")

\* isStale, for the first time or again under the breaker.
Stale(p) == Go(p, IF twice[p] THEN "nuke" ELSE "claim")
Fresh(p) == Go(p, IF twice[p] THEN "drop" ELSE "retry")

Stat(p, from, found, next) ==
  /\ pc[p] = from
  /\ \/ found /\ old /\ Stale(p)
     \/ found /\ ~old /\ Fresh(p)
     \/ ~found /\ next
  /\ UNCHANGED <<files, breakers, twice, crashes, breakerDied>>

StatHeartbeat(p) == Stat(p, "statHeartbeat", heartbeat # None, Go(p, "statMeta"))
StatMeta(p) == Stat(p, "statMeta", meta # None, Go(p, "statDir"))

\* Mutation: a directory without heartbeat and metadata is taken for stale.
StatNoDir(p) == Stat(p, "statDir", FALSE, Stale(p))

StatDir(p) == Stat(p, "statDir", lock # None, Fresh(p))

\* Mutation: the breaker's owner does not check again.
ClaimUnchecked(p) ==
  /\ pc[p] = "claim"
  /\ IF breaker = None
     THEN /\ breaker' = p /\ UNCHANGED breakerOld
          /\ twice' = [twice EXCEPT ![p] = TRUE]
          /\ Go(p, "nuke")
     ELSE Go(p, "statBreaker") /\ UNCHANGED <<breakers, twice>>
  /\ UNCHANGED <<files, crashes, breakerDied>>

\* Who creates the breaker checks again; who finds it there looks at its age.
Claim(p) ==
  /\ pc[p] = "claim"
  /\ IF breaker = None
     THEN /\ breaker' = p /\ UNCHANGED breakerOld
          /\ twice' = [twice EXCEPT ![p] = TRUE]
          /\ Go(p, "statHeartbeat")
     ELSE Go(p, "statBreaker") /\ UNCHANGED <<breakers, twice>>
  /\ UNCHANGED <<files, crashes, breakerDied>>

\* cleanStaleBreaker looks first, and removes whatever is there then.
StatBreaker(p) ==
  /\ Local(p, "statBreaker", IF breaker # None /\ breakerOld THEN "clean" ELSE "retry")
  /\ UNCHANGED <<files, breakers, twice>>

\* Mutation: a stale breaker stays.
CleanNothing(p) ==
  /\ Local(p, "clean", "retry")
  /\ UNCHANGED <<files, breakers, twice>>

Clean(p) ==
  /\ Local(p, "clean", "retry")
  /\ NoBreaker
  /\ UNCHANGED <<files, twice>>

\* Still stale: the lock directory is removed and created anew.
Nuke(p) ==
  /\ Local(p, "nuke", "recreate")
  /\ NoLock
  /\ UNCHANGED <<breakers, twice>>

Recreate(p) == Create(p, "recreate", "dropOwning", "drop")

\* In any case the breaker is removed after it.
Drop(p) ==
  /\ pc[p] \in {"drop", "dropOwning"}
  /\ NoBreaker
  /\ twice' = [twice EXCEPT ![p] = FALSE]
  /\ Go(p, IF pc[p] = "drop" THEN "retry" ELSE "writeHeartbeat")
  /\ UNCHANGED <<files, crashes, breakerDied>>

\* exclusiveWrite: a file that is there already, or a write that fails, means that the
\* lock is compromised.
WriteHeartbeat(p) ==
  /\ pc[p] = "writeHeartbeat"
  /\ \/ /\ lock # None /\ heartbeat = None
        /\ heartbeat' = p /\ old' = FALSE
        /\ Go(p, "writeMeta")
     \/ /\ Go(p, "compromised")
        /\ UNCHANGED <<heartbeat, old>>
  /\ UNCHANGED <<lock, meta, breakers, twice, crashes, breakerDied>>

WriteMeta(p) ==
  /\ pc[p] = "writeMeta"
  /\ \/ /\ lock # None /\ meta = None
        /\ meta' = p /\ old' = (old /\ heartbeat # None)
        /\ Go(p, "held")
     \/ /\ Go(p, "compromised")
        /\ UNCHANGED <<meta, old>>
  /\ UNCHANGED <<lock, heartbeat, breakers, twice, crashes, breakerDied>>

Compromised(p) ==
  /\ Local(p, "compromised", "idle")
  /\ NoLock
  /\ UNCHANGED <<breakers, twice>>
-----------------------------------------------------------------------------
(* The scope of a holder: its heartbeat fiber, and release. *)

\* The fiber names the heartbeat file by its path, whoever wrote it.
Reaches(p) == pc[p] = "held" /\ heartbeat # None

Touch(p) ==
  /\ Reaches(p)
  /\ old' = FALSE
  /\ UNCHANGED <<lock, heartbeat, meta, breakers, pc, twice, crashes, breakerDied>>

\* The token is compared with that of the metadata; another one, or none, is a defect.
Release(p) ==
  /\ Local(p, "held", IF meta = p THEN "remove" ELSE "idle")
  /\ UNCHANGED <<files, breakers, twice>>

RemoveLock(p) ==
  /\ Local(p, "remove", "idle")
  /\ NoLock
  /\ UNCHANGED <<breakers, twice>>
-----------------------------------------------------------------------------
\* A process dies anywhere, and is started again.
Left(owner, p) == IF owner = p THEN Dead ELSE owner

Crash(p) ==
  /\ crashes < MaxCrash
  /\ pc[p] # "idle"
  /\ crashes' = crashes + 1
  /\ Go(p, "idle")
  /\ twice' = [twice EXCEPT ![p] = FALSE]
  /\ lock' = Left(lock, p) /\ heartbeat' = Left(heartbeat, p) /\ meta' = Left(meta, p)
  /\ breaker' = Left(breaker, p)
  /\ breakerDied' = (breakerDied \/ breaker = p)
  /\ UNCHANGED <<old, breakerOld>>

\* StalenessMeansDeath: STALE_MS pass for a directory whose creator is dead, and which
\* nobody's heartbeat reaches.
Age ==
  /\ lock = Dead /\ ~old
  /\ \A p \in Process : ~Reaches(p)
  /\ old' = TRUE
  /\ UNCHANGED <<lock, heartbeat, meta, breakers, pc, twice, crashes, breakerDied>>

AgeBreaker ==
  /\ breaker = Dead /\ ~breakerOld
  /\ breakerOld' = TRUE
  /\ UNCHANGED <<files, breaker, pc, twice, crashes, breakerDied>>

Attempt(p) ==
  \/ Retry(p) \/ MakeLock(p) \/ StatHeartbeat(p) \/ StatMeta(p) \/ StatDir(p)
  \/ Claim(p) \/ StatBreaker(p) \/ Clean(p) \/ Nuke(p) \/ Recreate(p) \/ Drop(p)
  \/ WriteHeartbeat(p) \/ WriteMeta(p) \/ Compromised(p) \/ RemoveLock(p)

Next ==
  \/ \E p \in Process : Begin(p) \/ Timeout(p) \/ Attempt(p) \/ Touch(p) \/ Release(p) \/ Crash(p)
  \/ Age \/ AgeBreaker

Spec == Init /\ [][Next]_vars

\* A living process goes on with its attempt and with its heartbeat, and time passes.
FairSpec ==
  /\ Spec
  /\ \A p \in Process : WF_vars(Attempt(p)) /\ WF_vars(Touch(p))
  /\ WF_vars(Age) /\ WF_vars(AgeBreaker)
-----------------------------------------------------------------------------
Points == {"idle", "retry", "mkdir", "statHeartbeat", "statMeta", "statDir", "claim",
           "statBreaker", "clean", "nuke", "recreate", "drop", "dropOwning",
           "writeHeartbeat", "writeMeta", "compromised", "held", "remove"}

\* Type invariant.
TypeOK ==
  /\ lock \in Owner /\ heartbeat \in Owner /\ meta \in Owner /\ breaker \in Owner
  /\ old \in BOOLEAN /\ breakerOld \in BOOLEAN
  /\ pc \in [Process -> Points]
  /\ twice \in [Process -> BOOLEAN]
  /\ crashes \in 0..MaxCrash
  /\ breakerDied \in BOOLEAN

Owning == {"dropOwning", "writeHeartbeat", "writeMeta", "compromised", "held", "remove"}

\* As long as no process died with the breaker, the directory a process created and
\* counts as its lock, until it removes it, is its own: nobody breaks the lock of a
\* living owner, and no removal meets another's.
HolderOwnsLock ==
  ~breakerDied => \A p \in Process : pc[p] \in Owning => lock = p

\* As long as no process died with the breaker, two bodies never run under one lock.
MutualExclusion ==
  ~breakerDied => \A p, q \in Process : pc[p] = "held" /\ pc[q] = "held" => p = q

\* Whatever its owner and the processes that break it died at, a lock left behind does not
\* keep those out that still wait for it, unless a holder's heartbeat reaches it: beside a
\* second holder, which a death with the breaker may bring about, they wait for that one.
DeadLockIsBroken ==
  lock = Dead ~> \/ lock # Dead
                 \/ \A p \in Process : pc[p] \in {"idle", "held"}
                 \/ \E p \in Process : Reaches(p)
=============================================================================

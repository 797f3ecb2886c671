------------------------ MODULE RunCoordinatorProofs ------------------------
(* Proofs about RunCoordinator, for any keys, entries, fibers and callers. *)
EXTENDS RunCoordinator, TLAPS

\* The first part of the inductive invariant.  An interrupt writes to the owner of
\* an entry and settling to the entry of a fiber: neither is well typed unless the
\* key, the entry and the fiber of an execution point at each other.
Linked == TypeOK /\ OneOwner

\* What an entry and a fiber in use look like.
LEMMA LiveObjects ==
  ASSUME Linked
  PROVE  /\ \A e \in Entry : entry[e] # Unused =>
              /\ entry[e] \in LiveEntry
              /\ entry[e].phase = "pending" /\ entry[e].owner \in Fiber
              /\ entry[e].pendingWake \in BOOLEAN /\ entry[e].stopping \in BOOLEAN
         /\ \A f \in Live :
              /\ fiber[f] \in LiveFiber
              /\ fiber[f].phase \in {"scheduled", "draining"}
              /\ fiber[f].interrupted \in BOOLEAN /\ fiber[f].force \in BOOLEAN
              /\ fiber[f].key \in Key /\ fiber[f].entry \in Entry
              /\ entry[fiber[f].entry] # Unused
         /\ \A k \in Key : active[k] # None => active[k] \in Entry
<1>1. \A e \in Entry : entry[e] # Unused => entry[e] \in LiveEntry
  BY DEF Linked, TypeOK
<1>2. \A f \in Live : fiber[f] \in LiveFiber
  BY DEF Linked, TypeOK, Live, FreeFiber
<1>3. \A k \in Key : active[k] # None => active[k] \in Entry
  BY DEF Linked, TypeOK
<1>4. \A f \in Live : active[fiber[f].key] # None
  <2> SUFFICES ASSUME NEW f \in Live PROVE active[fiber[f].key] # None
    OBVIOUS
  <2>1. fiber[f].entry \in Entry
    BY <1>2 DEF LiveFiber
  <2> QED BY <2>1, NoneIsFresh DEF Linked, OneOwner
<1>5. \A f \in Live : fiber[f].key \in Key /\ fiber[f].entry \in Entry
  BY <1>2 DEF LiveFiber
<1>6. \A f \in Live : entry[fiber[f].entry] # Unused
  BY <1>4, <1>5 DEF Linked, OneOwner
<1> QED
  BY <1>1, <1>2, <1>3, <1>5, <1>6 DEF LiveEntry, LiveFiber

\* A fiber that can end is in use.
LEMMA EndsLive ==
  ASSUME NEW f \in Fiber, NEW exit, Ends(f, exit)
  PROVE  f \in Live /\ exit \in Exit
BY DEF Ends, Live, FreeFiber, Unused

\* A fiber that can begin is in use.
LEMMA BeginsLive ==
  ASSUME NEW f \in Fiber, Begin(f)
  PROVE  f \in Live
BY DEF Begin, Live, FreeFiber, Unused

\* The types of everything but the callers.
Typed ==
  /\ active \in [Key -> Entry \cup {None}]
  /\ entry \in [Entry -> LiveEntry \cup {Unused}]
  /\ fiber \in [Fiber -> LiveFiber \cup {Unused}]
  /\ owed \in [Key -> BOOLEAN]

\* The constructors build live objects.
LEMMA Constructors ==
  /\ \A f \in Fiber : MakeEntry(f) \in LiveEntry /\ MakeEntry(f) # Unused
                      /\ MakeEntry(f).owner = f /\ ~MakeEntry(f).pendingWake
  /\ \A k \in Key, e \in Entry, force \in BOOLEAN :
       /\ Start(k, e, force) \in LiveFiber
       /\ Start(k, e, force) # Unused
       /\ Start(k, e, force).key = k /\ Start(k, e, force).entry = e
       /\ Start(k, e, force).phase = "scheduled" /\ ~Start(k, e, force).interrupted
BY DEF MakeEntry, LiveEntry, Start, LiveFiber, Unused

\* Launching an execution of an idle key (run, wake) keeps the links.
LEMMA LaunchKeeps ==
  ASSUME Linked, NEW k \in Key, NEW e \in Entry, NEW f \in Fiber, NEW force \in BOOLEAN,
         Launch(k, e, f, force)
  PROVE  Typed' /\ OneOwner'
<1> DEFINE o(j) == entry[active[j]].owner
<1>1. /\ active[k] = None /\ entry[e] = Unused /\ fiber[f] = Unused
      /\ active' = [active EXCEPT ![k] = e]
      /\ entry' = [entry EXCEPT ![e] = MakeEntry(f)]
      /\ fiber' = [fiber EXCEPT ![f] = Start(k, e, force)]
  BY DEF Launch, FreeEntry, FreeFiber
<1>2. Typed'
  BY <1>1, Constructors DEF Launch, Typed, Linked, TypeOK
<1>3. entry[e] = Unused /\ \A j \in Key : active[j] # e
  BY <1>1, NoneIsFresh DEF Linked, OneOwner
<1>4. Live' = Live \cup {f}
  BY <1>1, Constructors DEF Live, FreeFiber, Linked, TypeOK
<1>5. ASSUME NEW j \in Key, active'[j] # None
      PROVE  /\ entry'[active'[j]] # Unused
             /\ LET p == entry'[active'[j]].owner IN
                p \in Live' /\ fiber'[p].key = j /\ fiber'[p].entry = active'[j]
  <2>1. CASE j = k
    BY <1>1, <1>4, <2>1, Constructors DEF Linked, TypeOK
  <2>2. CASE j # k
    <3>1. active'[j] = active[j] /\ active[j] \in Entry /\ active[j] # e
      BY <1>1, <1>3, <1>5, <2>2, LiveObjects DEF Linked, TypeOK
    <3>2. entry'[active[j]] = entry[active[j]]
      BY <1>1, <3>1 DEF Linked, TypeOK
    <3>3. o(j) \in Live /\ fiber[o(j)].key = j /\ fiber[o(j)].entry = active[j]
      BY <1>5, <3>1 DEF Linked, OneOwner
    <3>4. o(j) # f /\ o(j) \in Fiber
      BY <1>1, <3>3 DEF Live, FreeFiber
    <3>5. fiber'[o(j)] = fiber[o(j)]
      BY <1>1, <3>4 DEF Linked, TypeOK
    <3>6. entry[active[j]] # Unused
      BY <1>5, <3>1 DEF Linked, OneOwner
    <3> QED BY <3>1, <3>2, <3>3, <3>5, <3>6, <1>4
  <2> QED BY <2>1, <2>2
<1>6. ASSUME NEW g \in Live'
      PROVE  active'[fiber'[g].key] = fiber'[g].entry /\ entry'[fiber'[g].entry].owner = g
  <2>1. CASE g = f
    BY <1>1, <2>1, Constructors DEF Linked, TypeOK
  <2>2. CASE g # f
    <3>1. g \in Live /\ fiber'[g] = fiber[g]
      BY <1>1, <1>4, <1>6, <2>2 DEF Linked, TypeOK, Live
    <3>2. fiber[g].key \in Key /\ fiber[g].entry \in Entry
      BY <3>1, LiveObjects
    <3>3. active[fiber[g].key] = fiber[g].entry /\ entry[fiber[g].entry].owner = g
      BY <3>1 DEF Linked, OneOwner
    <3>4. fiber[g].key # k /\ fiber[g].entry # e
      BY <1>1, <1>3, <3>2, <3>3, NoneIsFresh
    <3> QED BY <1>1, <3>1, <3>2, <3>3, <3>4 DEF Linked, TypeOK
  <2> QED BY <2>1, <2>2
<1> QED BY <1>2, <1>5, <1>6 DEF OneOwner

\* A step that keeps the links of every object keeps them consistent.
LEMMA RelabelKeeps ==
  ASSUME Linked, Typed', active' = active,
         \A e \in Entry : entry[e] # Unused =>
            entry'[e] # Unused /\ entry'[e].owner = entry[e].owner,
         Live' = Live,
         \A f \in Live : fiber'[f].key = fiber[f].key /\ fiber'[f].entry = fiber[f].entry
  PROVE  OneOwner'
<1>1. ASSUME NEW k \in Key, active'[k] # None
      PROVE  /\ entry'[active'[k]] # Unused
             /\ LET o == entry'[active'[k]].owner IN
                o \in Live' /\ fiber'[o].key = k /\ fiber'[o].entry = active'[k]
  BY <1>1, LiveObjects DEF Linked, OneOwner
<1>2. ASSUME NEW f \in Live'
      PROVE  active'[fiber'[f].key] = fiber'[f].entry /\ entry'[fiber'[f].entry].owner = f
  BY <1>2, LiveObjects DEF Linked, OneOwner
<1> QED BY <1>1, <1>2 DEF OneOwner

\* A wake of a busy key changes no link.
LEMMA WakeBusyKeeps ==
  ASSUME Linked, NEW k \in Key, WakeBusy(k)
  PROVE  Typed' /\ OneOwner'
<1>1. active[k] \in Entry /\ entry[active[k]] \in LiveEntry
  BY LiveObjects DEF WakeBusy, Linked, OneOwner
<1>2. entry' = [entry EXCEPT ![active[k]] = [entry[active[k]] EXCEPT !.pendingWake = TRUE]]
  BY DEF WakeBusy
<1>3. /\ [entry[active[k]] EXCEPT !.pendingWake = TRUE] \in LiveEntry
      /\ [entry[active[k]] EXCEPT !.pendingWake = TRUE].owner = entry[active[k]].owner
  BY <1>1 DEF LiveEntry
<1>4. Typed'
  BY <1>1, <1>2, <1>3 DEF WakeBusy, Typed, Linked, TypeOK
<1>5. \A e \in LiveEntry : e # Unused
  BY DEF LiveEntry, Unused
<1> QED
  BY <1>1, <1>2, <1>3, <1>4, <1>5, RelabelKeeps
     DEF WakeBusy, Live, FreeFiber, Linked, TypeOK

\* What interrupt() writes.
LEMMA InterruptObjects ==
  ASSUME Linked, NEW c \in Caller, NEW k \in Key, Interrupt(c, k)
  PROVE  LET a == active[k]
             o == entry[a].owner
             e == [entry[a] EXCEPT !.stopping = TRUE, !.pendingWake = FALSE]
             f == [fiber[o] EXCEPT !.interrupted = TRUE] IN
         /\ a \in Entry /\ o \in Live
         /\ entry[a] \in LiveEntry /\ fiber[o] \in LiveFiber
         /\ entry' = [entry EXCEPT ![a] = e] /\ e \in LiveEntry /\ e.owner = o /\ ~e.pendingWake
         /\ fiber' = [fiber EXCEPT ![o] = f] /\ f \in LiveFiber
         /\ f.key = fiber[o].key /\ f.entry = fiber[o].entry /\ f.phase = fiber[o].phase
         /\ caller' = [caller EXCEPT ![c] = [pc |-> "interrupting", fiber |-> o]]
         /\ active' = active
<1>1. active[k] # None
  BY DEF Interrupt
<1>2. active[k] \in Entry /\ entry[active[k]] \in LiveEntry
  BY <1>1, LiveObjects DEF Linked, OneOwner
<1>3. entry[active[k]].owner \in Live
  BY <1>1 DEF Linked, OneOwner
<1>4. fiber[entry[active[k]].owner] \in LiveFiber
  BY <1>3, LiveObjects
<1>5. /\ entry' = [entry EXCEPT ![active[k]] =
                    [entry[active[k]] EXCEPT !.stopping = TRUE, !.pendingWake = FALSE]]
      /\ fiber' = [fiber EXCEPT ![entry[active[k]].owner] =
                    [fiber[entry[active[k]].owner] EXCEPT !.interrupted = TRUE]]
      /\ caller' = [caller EXCEPT ![c] = [pc |-> "interrupting", fiber |-> entry[active[k]].owner]]
      /\ active' = active
  BY <1>2 DEF Interrupt, Linked, TypeOK
<1>6. ASSUME NEW e \in LiveEntry
      PROVE  LET x == [e EXCEPT !.stopping = TRUE, !.pendingWake = FALSE] IN
             x \in LiveEntry /\ x.owner = e.owner /\ ~x.pendingWake
  BY DEF LiveEntry
<1>7. ASSUME NEW f \in LiveFiber
      PROVE  LET x == [f EXCEPT !.interrupted = TRUE] IN
             x \in LiveFiber /\ x.key = f.key /\ x.entry = f.entry /\ x.phase = f.phase
  BY DEF LiveFiber
<1> QED BY <1>2, <1>3, <1>4, <1>5, <1>6, <1>7

\* An interrupt changes no link.
LEMMA InterruptKeeps ==
  ASSUME Linked, NEW c \in Caller, NEW k \in Key, Interrupt(c, k)
  PROVE  Typed' /\ OneOwner'
<1>1. Typed'
  BY InterruptObjects DEF Interrupt, Typed, Linked, TypeOK
<1>2. (\A e \in LiveEntry : e # Unused) /\ (\A f \in LiveFiber : f # Unused)
  BY DEF LiveEntry, LiveFiber, Unused
<1>3. Live' = Live
  <2>1. \A f \in Fiber : fiber'[f] = Unused <=> fiber[f] = Unused
    BY <1>2, InterruptObjects DEF Linked, TypeOK
  <2> QED BY <2>1 DEF Live, FreeFiber
<1>4. \A e \in Entry : entry[e] # Unused =>
        entry'[e] # Unused /\ entry'[e].owner = entry[e].owner
  BY <1>2, InterruptObjects DEF Linked, TypeOK
<1>5. \A f \in Live : fiber'[f].key = fiber[f].key /\ fiber'[f].entry = fiber[f].entry
  BY InterruptObjects DEF Live, Linked, TypeOK
<1>6. active' = active
  BY DEF Interrupt
<1> QED
  BY <1>1, <1>3, <1>4, <1>5, <1>6, RelabelKeeps

\* A fiber that enters its drain keeps the links.
LEMMA BeginKeeps ==
  ASSUME Linked, NEW f \in Fiber, Begin(f)
  PROVE  Typed' /\ OneOwner'
<1> DEFINE g == [fiber[f] EXCEPT !.phase = "draining"]
<1>1. f \in Live /\ fiber[f] \in LiveFiber /\ fiber[f].key \in Key
  BY BeginsLive, LiveObjects
<1>2. g \in LiveFiber /\ g.key = fiber[f].key /\ g.entry = fiber[f].entry
  BY <1>1 DEF LiveFiber
<1>3. fiber' = [fiber EXCEPT ![f] = g]
  BY DEF Begin
<1> HIDE DEF g
<1>4. Typed'
  BY <1>1, <1>2, <1>3 DEF Begin, Typed, Linked, TypeOK
<1>5. g # Unused
  BY <1>2 DEF LiveFiber, Unused
<1>6. Live' = Live
  BY <1>1, <1>3, <1>5 DEF Live, FreeFiber, Linked, TypeOK
<1> QED
  BY <1>1, <1>2, <1>3, <1>4, <1>6, RelabelKeeps DEF Begin, Live, Linked, TypeOK

\* A settling fiber is alone with its key and its entry.
LEMMA Exclusive ==
  ASSUME Linked, NEW f \in Live
  PROVE  LET k == fiber[f].key
             e == fiber[f].entry IN
         /\ k \in Key /\ e \in Entry /\ f \in Fiber
         /\ active[k] = e /\ entry[e] \in LiveEntry /\ entry[e].owner = f
         /\ \A j \in Key : active[j] # None /\ j # k => active[j] # e /\ entry[active[j]].owner # f
         /\ \A g \in Live : g # f => fiber[g].key # k /\ fiber[g].entry # e
<1>1. f \in Fiber
  BY DEF Live
<1>2. fiber[f].key \in Key /\ fiber[f].entry \in Entry /\ entry[fiber[f].entry] \in LiveEntry
  BY LiveObjects
<1>3. active[fiber[f].key] = fiber[f].entry /\ entry[fiber[f].entry].owner = f
  BY DEF Linked, OneOwner
<1>4. ASSUME NEW j \in Key, active[j] # None, j # fiber[f].key
      PROVE  active[j] # fiber[f].entry /\ entry[active[j]].owner # f
  <2>1. fiber[entry[active[j]].owner].key = j
    BY <1>4 DEF Linked, OneOwner
  <2> QED BY <1>3, <1>4, <2>1
<1>5. ASSUME NEW g \in Live, g # f
      PROVE  fiber[g].key # fiber[f].key /\ fiber[g].entry # fiber[f].entry
  <2>1. active[fiber[g].key] = fiber[g].entry /\ entry[fiber[g].entry].owner = g
    BY DEF Linked, OneOwner
  <2> QED BY <1>3, <1>5, <2>1
<1> QED BY <1>1, <1>2, <1>3, <1>4, <1>5

\* Settling f touches the objects of f's key only.
Elsewhere(f) ==
  /\ Live \ {f} \subseteq Live'
  /\ \A j \in Key \ {fiber[f].key} :
       /\ active'[j] = active[j]
       /\ active[j] # None =>
            /\ entry'[active[j]] = entry[active[j]]
            /\ fiber'[entry[active[j]].owner] = fiber[entry[active[j]].owner]

\* A follow-up of key k is due.
FollowedUp(k) ==
  /\ active'[k] # None
  /\ LET p == fiber'[entry'[active'[k]].owner] IN p.phase = "scheduled" /\ ~p.interrupted

\* What settling replaces leaves the links of the other keys alone.
LEMMA ElsewhereLinked ==
  ASSUME Linked, NEW f \in Live, Elsewhere(f), NEW j \in Key, j # fiber[f].key, active'[j] # None
  PROVE  /\ entry'[active'[j]] # Unused
         /\ LET p == entry'[active'[j]].owner IN
            p \in Live' /\ fiber'[p].key = j /\ fiber'[p].entry = active'[j]
<1>1. /\ active'[j] = active[j] /\ active[j] # None
      /\ entry'[active[j]] = entry[active[j]]
      /\ fiber'[entry[active[j]].owner] = fiber[entry[active[j]].owner]
  BY DEF Elsewhere
<1>2. /\ entry[active[j]] # Unused
      /\ entry[active[j]].owner \in Live
      /\ fiber[entry[active[j]].owner].key = j
      /\ fiber[entry[active[j]].owner].entry = active[j]
  BY <1>1 DEF Linked, OneOwner
<1>3. entry[active[j]].owner # f
  BY <1>1, Exclusive
<1> QED BY <1>1, <1>2, <1>3 DEF Elsewhere

\* Settling with nothing left to do frees the key and its objects.
LEMMA RetireKeeps ==
  ASSUME Linked, NEW f \in Fiber, NEW exit \in Exit, Retire(f, exit)
  PROVE  Typed' /\ OneOwner' /\ Elsewhere(f)
<1> DEFINE k == fiber[f].key
           e == fiber[f].entry
<1>1. f \in Live
  BY EndsLive DEF Retire
<1>2. /\ active' = [active EXCEPT ![k] = None]
      /\ entry' = [entry EXCEPT ![e] = Unused]
      /\ fiber' = [fiber EXCEPT ![f] = Unused]
      /\ owed' = owed
  BY DEF Retire
<1>3. /\ k \in Key /\ e \in Entry
      /\ \A j \in Key : active[j] # None /\ j # k => active[j] # e /\ entry[active[j]].owner # f
      /\ \A g \in Live : g # f => fiber[g].key # k /\ fiber[g].entry # e
  BY <1>1, Exclusive
<1> HIDE DEF k, e
<1>4. Typed'
  BY <1>2, <1>3 DEF Typed, Linked, TypeOK
<1>5. Live' = Live \ {f}
  BY <1>2 DEF Live, FreeFiber, Linked, TypeOK
<1>6. Elsewhere(f)
  <2> SUFFICES ASSUME NEW j \in Key, j # k
               PROVE  /\ active'[j] = active[j]
                      /\ active[j] # None =>
                           /\ entry'[active[j]] = entry[active[j]]
                           /\ fiber'[entry[active[j]].owner] = fiber[entry[active[j]].owner]
    BY <1>5 DEF Elsewhere, k
  <2>1. active'[j] = active[j]
    BY <1>2, <1>3 DEF Linked, TypeOK
  <2>2. ASSUME active[j] # None
        PROVE  /\ active[j] \in Entry /\ active[j] # e
               /\ entry[active[j]].owner \in Fiber /\ entry[active[j]].owner # f
    BY <1>3, <2>2, LiveObjects DEF Linked, OneOwner, Live
  <2> QED BY <1>2, <2>1, <2>2 DEF Linked, TypeOK
<1>7. ASSUME NEW g \in Live'
      PROVE  active'[fiber'[g].key] = fiber'[g].entry /\ entry'[fiber'[g].entry].owner = g
  <2>1. g \in Live /\ g # f /\ fiber'[g] = fiber[g]
    BY <1>2, <1>5, <1>7 DEF Live, Linked, TypeOK
  <2>2. fiber[g].key \in Key /\ fiber[g].entry \in Entry
    BY <2>1, LiveObjects
  <2>3. active[fiber[g].key] = fiber[g].entry /\ entry[fiber[g].entry].owner = g
    BY <2>1 DEF Linked, OneOwner
  <2> QED BY <1>2, <1>3, <2>1, <2>2, <2>3 DEF Linked, TypeOK
<1>8. ASSUME NEW j \in Key, active'[j] # None
      PROVE  /\ entry'[active'[j]] # Unused
             /\ LET p == entry'[active'[j]].owner IN
                p \in Live' /\ fiber'[p].key = j /\ fiber'[p].entry = active'[j]
  <2>1. j # fiber[f].key
    BY <1>2, <1>3, <1>8 DEF Linked, TypeOK, k
  <2> QED BY ONLY <1>1, <1>6, <1>8, <2>1, Linked, ElsewhereLinked
<1> QED BY <1>4, <1>6, <1>7, <1>8 DEF OneOwner

\* Settling with a pending wake hands the same entry to a new fiber.
LEMMA RestartKeeps ==
  ASSUME Linked, NEW f \in Fiber, Restart(f)
  PROVE  Typed' /\ OneOwner' /\ Elsewhere(f) /\ FollowedUp(fiber[f].key)
<1> DEFINE k == fiber[f].key
           e == fiber[f].entry
<1>1. f \in Live
  BY EndsLive DEF Restart
<1>2. PICK h \in FreeFiber :
        /\ entry' = [entry EXCEPT ![e] = [entry[e] EXCEPT !.pendingWake = FALSE, !.owner = h]]
        /\ fiber' = [fiber EXCEPT ![f] = Unused, ![h] = Start(k, e, FALSE)]
        /\ active' = active /\ owed' = owed
  <2>1. e \in Entry
    BY <1>1, Exclusive
  <2> QED BY <2>1 DEF Restart, Linked, TypeOK
<1>3. /\ k \in Key /\ e \in Entry /\ active[k] = e /\ entry[e] \in LiveEntry
      /\ \A j \in Key : active[j] # None /\ j # k => active[j] # e /\ entry[active[j]].owner # f
      /\ \A g \in Live : g # f => fiber[g].key # k /\ fiber[g].entry # e
  BY <1>1, Exclusive
<1> DEFINE x == [entry[e] EXCEPT !.pendingWake = FALSE, !.owner = h]
           s == Start(k, e, FALSE)
<1>4. h \in Fiber /\ fiber[h] = Unused /\ h \notin Live /\ h # f
  BY <1>1 DEF FreeFiber, Live
<1>5. x \in LiveEntry /\ x.owner = h /\ x # Unused
  BY <1>3, <1>4 DEF LiveEntry, Unused
<1>6. /\ s \in LiveFiber /\ s # Unused /\ s.key = k /\ s.entry = e
      /\ s.phase = "scheduled" /\ ~s.interrupted
  <2>1. k \in Key /\ e \in Entry /\ FALSE \in BOOLEAN
    BY <1>3
  <2> QED BY ONLY <2>1, Constructors
<1>7. /\ entry' = [entry EXCEPT ![e] = x]
      /\ fiber' = [fiber EXCEPT ![f] = Unused, ![h] = s]
      /\ active' = active /\ owed' = owed
  BY <1>2
<1> HIDE DEF k, e, x, s
<1>8. Typed'
  BY <1>3, <1>4, <1>5, <1>6, <1>7 DEF Typed, Linked, TypeOK
<1>9. Live' = (Live \ {f}) \cup {h}
  BY <1>4, <1>6, <1>7 DEF Live, FreeFiber, Linked, TypeOK
<1>e. Elsewhere(f)
  <2> SUFFICES ASSUME NEW j \in Key, j # k
               PROVE  /\ active'[j] = active[j]
                      /\ active[j] # None =>
                           /\ entry'[active[j]] = entry[active[j]]
                           /\ fiber'[entry[active[j]].owner] = fiber[entry[active[j]].owner]
    BY <1>9 DEF Elsewhere, k
  <2>1. active'[j] = active[j]
    BY <1>3, <1>7 DEF Linked, TypeOK
  <2>2. ASSUME active[j] # None
        PROVE  /\ active[j] \in Entry /\ active[j] # e
               /\ entry[active[j]].owner \in Fiber
               /\ entry[active[j]].owner # f /\ entry[active[j]].owner # h
    BY <1>3, <1>4, <2>2, LiveObjects DEF Linked, OneOwner, Live
  <2> QED BY <1>7, <2>1, <2>2 DEF Linked, TypeOK
<1>10. ASSUME NEW j \in Key, active'[j] # None
       PROVE  /\ entry'[active'[j]] # Unused
              /\ LET p == entry'[active'[j]].owner IN
                 p \in Live' /\ fiber'[p].key = j /\ fiber'[p].entry = active'[j]
  <2>1. CASE j = k
    <3>1. active'[j] = e /\ entry'[e] = x /\ fiber'[h] = s
      BY <1>3, <1>4, <1>7, <2>1 DEF Linked, TypeOK
    <3> QED BY <1>5, <1>6, <1>9, <2>1, <3>1
  <2>2. CASE j # k
    <3>1. j # fiber[f].key
      BY <2>2 DEF k
    <3> QED BY ONLY <1>1, <1>e, <1>10, <3>1, Linked, ElsewhereLinked
  <2> QED BY <2>1, <2>2
<1>11. ASSUME NEW g \in Live'
       PROVE  active'[fiber'[g].key] = fiber'[g].entry /\ entry'[fiber'[g].entry].owner = g
  <2>1. CASE g = h
    <3>1. active'[k] = e /\ entry'[e] = x /\ fiber'[h] = s
      BY <1>3, <1>4, <1>7 DEF Linked, TypeOK
    <3> QED BY <1>5, <1>6, <2>1, <3>1
  <2>2. CASE g # h
    <3>1. g \in Live /\ g # f /\ fiber'[g] = fiber[g]
      BY <1>7, <1>9, <1>11, <2>2 DEF Live, Linked, TypeOK
    <3>2. fiber[g].key \in Key /\ fiber[g].entry \in Entry
      BY <3>1, LiveObjects
    <3>3. active[fiber[g].key] = fiber[g].entry /\ entry[fiber[g].entry].owner = g
      BY <3>1 DEF Linked, OneOwner
    <3>4. fiber[g].entry # e
      BY <1>3, <3>1
    <3>5. entry'[fiber[g].entry] = entry[fiber[g].entry] /\ active' = active
      BY <1>7, <3>2, <3>4 DEF Linked, TypeOK
    <3> QED BY <3>1, <3>3, <3>5
  <2> QED BY <2>1, <2>2
<1>f. FollowedUp(fiber[f].key)
  <2>1. active'[k] = e /\ entry'[e] = x /\ fiber'[h] = s
    BY <1>3, <1>4, <1>7 DEF Linked, TypeOK
  <2>2. e # None
    BY <1>3, NoneIsFresh
  <2> QED BY <1>5, <1>6, <2>1, <2>2 DEF FollowedUp, k
<1> QED BY <1>8, <1>10, <1>11, <1>e, <1>f DEF OneOwner

\* Settling a stopped entry that was woken installs a successor.
LEMMA HandoverKeeps ==
  ASSUME Linked, NEW f \in Fiber, NEW exit \in Exit, Handover(f, exit)
  PROVE  Typed' /\ OneOwner' /\ Elsewhere(f) /\ FollowedUp(fiber[f].key)
<1> DEFINE k == fiber[f].key
           e == fiber[f].entry
<1>1. f \in Live
  BY EndsLive DEF Handover
<1>2. PICK n \in FreeEntry, h \in FreeFiber :
        /\ active' = [active EXCEPT ![k] = n]
        /\ entry' = [entry EXCEPT ![e] = Unused, ![n] = MakeEntry(h)]
        /\ fiber' = [fiber EXCEPT ![f] = Unused, ![h] = Start(k, n, FALSE)]
        /\ owed' = owed
  BY DEF Handover
<1>3. /\ k \in Key /\ e \in Entry /\ active[k] = e /\ entry[e] \in LiveEntry
      /\ \A j \in Key : active[j] # None /\ j # k => active[j] # e /\ entry[active[j]].owner # f
      /\ \A g \in Live : g # f => fiber[g].key # k /\ fiber[g].entry # e
  BY <1>1, Exclusive
<1> DEFINE x == MakeEntry(h)
           s == Start(k, n, FALSE)
<1>4. /\ h \in Fiber /\ fiber[h] = Unused /\ h \notin Live /\ h # f
      /\ n \in Entry /\ entry[n] = Unused
  BY <1>1 DEF FreeFiber, FreeEntry, Live
<1>5. n # e /\ \A j \in Key : active[j] # n
  <2>1. n # e
    BY <1>3, <1>4 DEF LiveEntry, Unused
  <2>2. \A j \in Key : active[j] # n
    BY <1>4, NoneIsFresh DEF Linked, OneOwner
  <2> QED BY <2>1, <2>2
<1>6. x \in LiveEntry /\ x.owner = h /\ x # Unused
  BY <1>4, Constructors
<1>7. /\ s \in LiveFiber /\ s # Unused /\ s.key = k /\ s.entry = n
      /\ s.phase = "scheduled" /\ ~s.interrupted
  <2>1. k \in Key /\ n \in Entry /\ FALSE \in BOOLEAN
    BY <1>3, <1>4
  <2> QED BY ONLY <2>1, Constructors
<1>8. /\ active' = [active EXCEPT ![k] = n]
      /\ entry' = [entry EXCEPT ![e] = Unused, ![n] = x]
      /\ fiber' = [fiber EXCEPT ![f] = Unused, ![h] = s]
      /\ owed' = owed
  BY <1>2
<1> HIDE DEF k, e, x, s
<1>9. Typed'
  BY <1>3, <1>4, <1>6, <1>7, <1>8 DEF Typed, Linked, TypeOK
<1>10. Live' = (Live \ {f}) \cup {h}
  BY <1>4, <1>7, <1>8 DEF Live, FreeFiber, Linked, TypeOK
<1>e. Elsewhere(f)
  <2> SUFFICES ASSUME NEW j \in Key, j # k
               PROVE  /\ active'[j] = active[j]
                      /\ active[j] # None =>
                           /\ entry'[active[j]] = entry[active[j]]
                           /\ fiber'[entry[active[j]].owner] = fiber[entry[active[j]].owner]
    BY <1>10 DEF Elsewhere, k
  <2>1. active'[j] = active[j]
    BY <1>3, <1>8 DEF Linked, TypeOK
  <2>2. ASSUME active[j] # None
        PROVE  /\ active[j] \in Entry /\ active[j] # e /\ active[j] # n
               /\ entry[active[j]].owner \in Fiber
               /\ entry[active[j]].owner # f /\ entry[active[j]].owner # h
    BY <1>3, <1>4, <1>5, <2>2, LiveObjects DEF Linked, OneOwner, Live
  <2> QED BY <1>8, <2>1, <2>2 DEF Linked, TypeOK
<1>11. ASSUME NEW j \in Key, active'[j] # None
       PROVE  /\ entry'[active'[j]] # Unused
              /\ LET p == entry'[active'[j]].owner IN
                 p \in Live' /\ fiber'[p].key = j /\ fiber'[p].entry = active'[j]
  <2>1. CASE j = k
    <3>1. active'[j] = n /\ entry'[n] = x /\ fiber'[h] = s
      BY <1>3, <1>4, <1>8, <2>1 DEF Linked, TypeOK
    <3> QED BY <1>6, <1>7, <1>10, <2>1, <3>1
  <2>2. CASE j # k
    <3>1. j # fiber[f].key
      BY <2>2 DEF k
    <3> QED BY ONLY <1>1, <1>e, <1>11, <3>1, Linked, ElsewhereLinked
  <2> QED BY <2>1, <2>2
<1>12. ASSUME NEW g \in Live'
       PROVE  active'[fiber'[g].key] = fiber'[g].entry /\ entry'[fiber'[g].entry].owner = g
  <2>1. CASE g = h
    <3>1. active'[k] = n /\ entry'[n] = x /\ fiber'[h] = s
      BY <1>3, <1>4, <1>8 DEF Linked, TypeOK
    <3> QED BY <1>6, <1>7, <2>1, <3>1
  <2>2. CASE g # h
    <3>1. g \in Live /\ g # f /\ fiber'[g] = fiber[g]
      BY <1>8, <1>10, <1>12, <2>2 DEF Live, Linked, TypeOK
    <3>2. fiber[g].key \in Key /\ fiber[g].entry \in Entry
      BY <3>1, LiveObjects
    <3>3. active[fiber[g].key] = fiber[g].entry /\ entry[fiber[g].entry].owner = g
      BY <3>1 DEF Linked, OneOwner
    <3>4. fiber[g].entry # e /\ fiber[g].key # k /\ fiber[g].entry # n
      BY <1>3, <1>5, <3>1, <3>2, <3>3
    <3>5. entry'[fiber[g].entry] = entry[fiber[g].entry]
      BY <1>8, <3>2, <3>4 DEF Linked, TypeOK
    <3>6. active'[fiber[g].key] = active[fiber[g].key]
      BY <1>8, <3>2, <3>4 DEF Linked, TypeOK
    <3> QED BY <3>1, <3>3, <3>5, <3>6
  <2> QED BY <2>1, <2>2
<1>f. FollowedUp(fiber[f].key)
  <2>1. active'[k] = n /\ entry'[n] = x /\ fiber'[h] = s
    BY <1>3, <1>4, <1>8 DEF Linked, TypeOK
  <2>2. n # None
    BY <1>4, NoneIsFresh
  <2> QED BY <1>6, <1>7, <2>1, <2>2 DEF FollowedUp, k
<1> QED BY <1>9, <1>11, <1>12, <1>e, <1>f DEF OneOwner

\* What a caller's state can be.
LEMMA CallerStates ==
  /\ \A exit \in Exit \cup {"none", "cancelled"} :
       Ready(exit) \in CallerState /\ Ready(exit).pc = "ready"
  /\ \A k \in Key, e \in Entry, pc \in {"joined", "deferred"} :
       [pc |-> pc, key |-> k, entry |-> e] \in CallerState
  /\ \A k \in Key, exit \in Exit :
       AfterStopped(k, exit) \in CallerState /\ AfterStopped(k, exit).pc \in {"ready", "rerun"}
  /\ \A f \in Fiber : [pc |-> "interrupting", fiber |-> f] \in CallerState
  /\ \A w \in CallerState : w.pc \in {"joined", "deferred"} => w.key \in Key /\ w.entry \in Entry
  /\ \A w \in CallerState : w.pc = "interrupting" => w.fiber \in Fiber
BY DEF CallerState, Ready, AfterStopped, Exit

\* Settling answers the joiners of the entry (unless it is kept) and the
\* interrupters of the fiber; everyone else waits on as before.
LEMMA Answers ==
  ASSUME TypeOK, NEW f \in Fiber, NEW e \in Entry, NEW exit \in Exit,
         NEW answered \in {caller, EntryDone(e, exit)}
  PROVE  LET next == FiberDone(f, answered) IN
         /\ next \in [Caller -> CallerState]
         /\ \A c \in Caller : next[c].pc \in {"joined", "deferred"} =>
              /\ next[c] = caller[c]
              /\ answered = EntryDone(e, exit) => caller[c].entry # e
         /\ \A c \in Caller : next[c].pc = "interrupting" =>
              next[c] = caller[c] /\ caller[c].fiber # f
<1> DEFINE next == FiberDone(f, answered)
<1>1. caller \in [Caller -> CallerState]
  BY DEF TypeOK
<1>2. ASSUME NEW c \in Caller
      PROVE  LET w == EntryDone(e, exit)[c] IN
             /\ w \in CallerState
             /\ w.pc \in {"joined", "deferred"} => w = caller[c] /\ caller[c].entry # e
             /\ w.pc = "interrupting" => w = caller[c]
  <2> DEFINE w == EntryDone(e, exit)[c]
  <2>1. CASE caller[c].pc = "joined" /\ caller[c].entry = e
    <3>1. w = Ready(exit)
      BY <2>1 DEF EntryDone
    <3> QED BY <3>1, CallerStates
  <2>2. CASE caller[c].pc = "deferred" /\ caller[c].entry = e
    <3>1. w = AfterStopped(caller[c].key, exit) /\ caller[c].key \in Key
      BY <1>1, <2>2, CallerStates DEF EntryDone
    <3> QED BY <3>1, CallerStates
  <2>3. CASE ~(caller[c].pc \in {"joined", "deferred"} /\ caller[c].entry = e)
    <3>1. w = caller[c]
      BY <2>3 DEF EntryDone
    <3> QED BY <1>1, <2>3, <3>1
  <2> QED BY <2>1, <2>2, <2>3
<1>3. ASSUME NEW c \in Caller
      PROVE  /\ answered[c] \in CallerState
             /\ answered[c].pc \in {"joined", "deferred"} =>
                  answered[c] = caller[c] /\ (answered = EntryDone(e, exit) => caller[c].entry # e)
             /\ answered[c].pc = "interrupting" => answered[c] = caller[c]
  BY <1>1, <1>2
<1>4. ASSUME NEW c \in Caller
      PROVE  /\ next[c] = IF answered[c].pc = "interrupting" /\ answered[c].fiber = f
                          THEN Ready("success") ELSE answered[c]
             /\ next[c] \in CallerState
  BY <1>3, CallerStates DEF FiberDone, Exit
<1>5. next \in [Caller -> CallerState]
  BY <1>4 DEF FiberDone
<1>6. ASSUME NEW c \in Caller, next[c].pc \in {"joined", "deferred", "interrupting"}
      PROVE  next[c] = answered[c] /\ ~(answered[c].pc = "interrupting" /\ answered[c].fiber = f)
  BY <1>4, <1>6 DEF Ready
<1> QED BY <1>3, <1>5, <1>6

\* The inductive invariant.
IInv == Linked /\ NoAbandonedWaiter /\ NoLostDemand

\* A launch makes its own demand due and leaves the other keys alone.
LEMMA LaunchDemand ==
  ASSUME Linked, NoLostDemand, NEW k \in Key, NEW e \in Entry, NEW f \in Fiber,
         NEW force \in BOOLEAN, Launch(k, e, f, force)
  PROVE  NoLostDemand'
<1>1. /\ active[k] = None /\ entry[e] = Unused /\ fiber[f] = Unused
      /\ active' = [active EXCEPT ![k] = e]
      /\ entry' = [entry EXCEPT ![e] = MakeEntry(f)]
      /\ fiber' = [fiber EXCEPT ![f] = Start(k, e, force)]
      /\ owed' = [owed EXCEPT ![k] = TRUE]
  BY DEF Launch, FreeEntry, FreeFiber
<1> SUFFICES ASSUME NEW j \in Key, owed'[j]
             PROVE  /\ active'[j] # None
                    /\ \/ entry'[active'[j]].pendingWake
                       \/ LET p == fiber'[entry'[active'[j]].owner] IN
                          p.phase = "scheduled" /\ ~p.interrupted
  BY DEF NoLostDemand
<1>2. CASE j = k
  <2>1. active'[j] = e /\ entry'[e] = MakeEntry(f) /\ fiber'[f] = Start(k, e, force)
    BY <1>1, <1>2 DEF Linked, TypeOK
  <2> QED BY <2>1, Constructors, NoneIsFresh
<1>3. CASE j # k
  <2>1. active'[j] = active[j] /\ active[j] # None
    BY <1>1, <1>3 DEF NoLostDemand, Linked, TypeOK
  <2>2. /\ active[j] \in Entry /\ entry[active[j]] # Unused
        /\ entry[active[j]].owner \in Live
    BY <2>1, LiveObjects DEF Linked, OneOwner
  <2>3. entry'[active[j]] = entry[active[j]]
    BY <1>1, <2>2 DEF Linked, TypeOK
  <2>4. fiber'[entry[active[j]].owner] = fiber[entry[active[j]].owner]
    BY <1>1, <2>2 DEF Live, FreeFiber, Linked, TypeOK
  <2> QED BY <1>1, <1>3, <2>1, <2>3, <2>4 DEF NoLostDemand, Linked, TypeOK
<1> QED BY <1>2, <1>3

\* What the callers wait for is not disturbed by a launch, nor by settling f unless
\* they are answered.
StillThere(c) ==
  /\ caller[c].pc \in {"joined", "deferred"} => active'[caller[c].key] = caller[c].entry
  /\ caller[c].pc = "interrupting" => caller[c].fiber \in Live'

\* A launch abandons no waiter.
LEMMA LaunchWaiters ==
  ASSUME Linked, NoAbandonedWaiter, NEW k \in Key, NEW e \in Entry, NEW f \in Fiber,
         NEW force \in BOOLEAN, Launch(k, e, f, force), NEW c \in Caller
  PROVE  StillThere(c)
<1>1. /\ active[k] = None /\ fiber[f] = Unused
      /\ active' = [active EXCEPT ![k] = e]
      /\ fiber' = [fiber EXCEPT ![f] = Start(k, e, force)]
  BY DEF Launch, FreeFiber
<1>2. caller[c] \in CallerState
  BY DEF Linked, TypeOK
<1>3. ASSUME caller[c].pc \in {"joined", "deferred"}
      PROVE  active'[caller[c].key] = caller[c].entry
  <2>1. /\ caller[c].key \in Key /\ caller[c].entry \in Entry
        /\ active[caller[c].key] = caller[c].entry
    BY <1>2, <1>3, CallerStates DEF NoAbandonedWaiter
  <2>2. caller[c].key # k
    BY <1>1, <2>1, NoneIsFresh
  <2> QED BY <1>1, <2>1, <2>2 DEF Linked, TypeOK
<1>4. ASSUME caller[c].pc = "interrupting" PROVE caller[c].fiber \in Live'
  <2>1. caller[c].fiber \in Live
    BY <1>4 DEF NoAbandonedWaiter
  <2> QED BY <1>1, <2>1 DEF Live, FreeFiber, Linked, TypeOK
<1> QED BY <1>3, <1>4 DEF StillThere

\* run on an idle key keeps the invariant.
LEMMA RunIdleKeeps ==
  ASSUME IInv, NEW c \in Caller, NEW k \in Key, RunIdle(c, k)
  PROVE  IInv'
<1>1. PICK e \in Entry, f \in Fiber :
        /\ Launch(k, e, f, TRUE)
        /\ caller' = [caller EXCEPT ![c] = [pc |-> "joined", key |-> k, entry |-> e]]
  BY DEF RunIdle
<1>2. Linked /\ NoAbandonedWaiter /\ NoLostDemand /\ TRUE \in BOOLEAN
  BY DEF IInv
<1>3. Typed' /\ OneOwner' /\ NoLostDemand'
  BY ONLY <1>1, <1>2, LaunchKeeps, LaunchDemand
<1>4. Linked'
  BY <1>1, <1>2, <1>3, CallerStates DEF Linked, TypeOK, Typed
<1>w. \A d \in Caller : StillThere(d)
  BY ONLY <1>1, <1>2, LaunchWaiters
<1>5. NoAbandonedWaiter'
  <2> SUFFICES ASSUME NEW d \in Caller
               PROVE  /\ caller'[d].pc \in {"joined", "deferred"} =>
                           active'[caller'[d].key] = caller'[d].entry
                      /\ caller'[d].pc = "interrupting" => caller'[d].fiber \in Live'
    BY DEF NoAbandonedWaiter
  <2>1. CASE d = c
    BY <1>1, <1>2, <2>1 DEF Launch, Linked, TypeOK
  <2>2. CASE d # c
    <3>1. caller'[d] = caller[d]
      BY <1>1, <1>2, <2>2 DEF Linked, TypeOK
    <3>2. StillThere(d)
      BY <1>w
    <3> QED BY <3>1, <3>2 DEF StillThere
  <2> QED BY <2>1, <2>2
<1> QED BY <1>3, <1>4, <1>5 DEF IInv

\* wake of an idle key keeps the invariant.
LEMMA WakeIdleKeeps ==
  ASSUME IInv, NEW k \in Key, WakeIdle(k)
  PROVE  IInv'
<1>1. PICK e \in Entry, f \in Fiber : Launch(k, e, f, FALSE)
  BY DEF WakeIdle
<1>2. /\ Linked /\ NoAbandonedWaiter /\ NoLostDemand /\ FALSE \in BOOLEAN
      /\ caller' = caller
  BY DEF IInv, WakeIdle
<1>3. Typed' /\ OneOwner' /\ NoLostDemand'
  BY ONLY <1>1, <1>2, LaunchKeeps, LaunchDemand
<1>4. Linked'
  BY <1>2, <1>3 DEF Linked, TypeOK, Typed
<1>5. \A d \in Caller : StillThere(d)
  BY ONLY <1>1, <1>2, LaunchWaiters
<1>6. NoAbandonedWaiter'
  BY <1>2, <1>5 DEF NoAbandonedWaiter, StillThere
<1> QED BY <1>3, <1>4, <1>6 DEF IInv

\* run on a busy key, joining or deferred, keeps the invariant.
LEMMA RunBusyKeeps ==
  ASSUME IInv, NEW c \in Caller, NEW k \in Key, RunBusy(c, k)
  PROVE  IInv'
<1> DEFINE w == [pc    |-> IF entry[active[k]].stopping THEN "deferred" ELSE "joined",
                 key   |-> k,
                 entry |-> active[k]]
<1>1. /\ Linked /\ active[k] \in Entry
      /\ caller' = [caller EXCEPT ![c] = w]
      /\ UNCHANGED <<active, entry, fiber, owed>>
  BY LiveObjects DEF IInv, RunBusy
<1>2. w \in CallerState /\ w.pc \in {"joined", "deferred"} /\ w.key = k /\ w.entry = active[k]
  BY <1>1, CallerStates
<1> HIDE DEF w
<1>3. Linked'
  BY <1>1, <1>2 DEF Linked, OneOwner, Live, FreeFiber, TypeOK
<1>4. NoAbandonedWaiter'
  BY <1>1, <1>2 DEF IInv, NoAbandonedWaiter, Linked, TypeOK, Live, FreeFiber
<1>5. NoLostDemand'
  BY <1>1 DEF IInv, NoLostDemand
<1> QED BY <1>3, <1>4, <1>5 DEF IInv

\* The interruption of a waiter keeps the invariant.
LEMMA CancelKeeps ==
  ASSUME IInv, NEW c \in Caller, Cancel(c)
  PROVE  IInv'
<1>1. /\ Linked
      /\ caller' = [caller EXCEPT ![c] = Ready("cancelled")]
      /\ UNCHANGED <<active, entry, fiber, owed>>
  BY DEF IInv, Cancel
<1>2. Ready("cancelled") \in CallerState /\ Ready("cancelled").pc = "ready"
  BY CallerStates
<1>3. Linked'
  BY <1>1, <1>2 DEF Linked, OneOwner, Live, FreeFiber, TypeOK
<1>4. NoAbandonedWaiter'
  BY <1>1, <1>2 DEF IInv, NoAbandonedWaiter, Linked, TypeOK, Live, FreeFiber
<1>5. NoLostDemand'
  BY <1>1 DEF IInv, NoLostDemand
<1> QED BY <1>3, <1>4, <1>5 DEF IInv

\* wake of a busy key keeps the invariant: the wake is pending.
LEMMA WakeBusyKeepsInv ==
  ASSUME IInv, NEW k \in Key, WakeBusy(k)
  PROVE  IInv'
<1>1. Linked /\ Typed' /\ OneOwner'
  BY WakeBusyKeeps DEF IInv
<1>2. Linked'
  BY <1>1 DEF WakeBusy, Linked, TypeOK, Typed
<1>3. NoAbandonedWaiter'
  BY DEF IInv, WakeBusy, NoAbandonedWaiter, Live, FreeFiber
<1>4. NoLostDemand'
  <2> SUFFICES ASSUME NEW j \in Key, owed'[j]
               PROVE  /\ active'[j] # None
                      /\ \/ entry'[active'[j]].pendingWake
                         \/ LET p == fiber'[entry'[active'[j]].owner] IN
                            p.phase = "scheduled" /\ ~p.interrupted
    BY DEF NoLostDemand
  <2>1. active[k] \in Entry /\ entry[active[k]] \in LiveEntry /\ active' = active /\ fiber' = fiber
    BY <1>1, LiveObjects DEF WakeBusy, Linked, OneOwner
  <2>2. CASE j = k
    <3>1. entry'[active[k]].pendingWake
      BY <1>1, <2>1 DEF WakeBusy, Linked, TypeOK, LiveEntry
    <3> QED BY <2>1, <2>2, <3>1 DEF WakeBusy
  <2>3. CASE j # k
    <3>1. active[j] # None /\ owed[j]
      BY <1>1, <2>3 DEF IInv, NoLostDemand, WakeBusy, Linked, TypeOK
    <3>2. active[j] # active[k]
      BY <1>1, <2>3, <3>1 DEF WakeBusy, Linked, OneOwner
    <3>3. entry'[active[j]] = entry[active[j]]
      BY <1>1, <3>1, <3>2, LiveObjects DEF WakeBusy, Linked, TypeOK
    <3> QED BY <2>1, <3>1, <3>3 DEF IInv, NoLostDemand
  <2> QED BY <2>2, <2>3
<1> QED BY <1>2, <1>3, <1>4 DEF IInv

\* interrupt keeps the invariant: what it withdraws is no longer owed.
LEMMA InterruptKeepsInv ==
  ASSUME IInv, NEW c \in Caller, NEW k \in Key, Interrupt(c, k)
  PROVE  IInv'
<1> DEFINE a == active[k]
           o == entry[active[k]].owner
<1>1. Linked /\ Typed' /\ OneOwner'
  BY InterruptKeeps DEF IInv
<1>2. /\ a # None /\ a \in Entry /\ o \in Live /\ o \in Fiber
      /\ caller' = [caller EXCEPT ![c] = [pc |-> "interrupting", fiber |-> o]]
      /\ owed' = [owed EXCEPT ![k] = FALSE]
      /\ active' = active
  BY <1>1, InterruptObjects DEF Live, Interrupt
<1>3. \A e \in Entry \ {a} : entry'[e] = entry[e]
  <2>1. entry' = [entry EXCEPT ![a] = [entry[a] EXCEPT !.stopping = TRUE, !.pendingWake = FALSE]]
    BY <1>1, InterruptObjects
  <2> QED BY <1>1, <2>1 DEF Linked, TypeOK
<1>4. \A f \in Fiber \ {o} : fiber'[f] = fiber[f]
  <2>1. fiber' = [fiber EXCEPT ![o] = [fiber[o] EXCEPT !.interrupted = TRUE]]
    BY <1>1, InterruptObjects
  <2> QED BY <1>1, <2>1 DEF Linked, TypeOK
<1>5. Live' = Live
  <2>1. \A f \in LiveFiber : f # Unused
    BY DEF LiveFiber, Unused
  <2>2. fiber'[o] # Unused
    BY <1>1, <1>2, <2>1, InterruptObjects DEF Linked, TypeOK
  <2> QED BY <1>2, <1>4, <2>2 DEF Live, FreeFiber
<1>6. Linked'
  BY <1>1, <1>2, CallerStates DEF Linked, TypeOK, Typed
<1>7. NoAbandonedWaiter'
  BY <1>1, <1>2, <1>5 DEF IInv, NoAbandonedWaiter, Linked, TypeOK
<1>8. NoLostDemand'
  <2> SUFFICES ASSUME NEW j \in Key, owed'[j]
               PROVE  /\ active'[j] # None
                      /\ \/ entry'[active'[j]].pendingWake
                         \/ LET p == fiber'[entry'[active'[j]].owner] IN
                            p.phase = "scheduled" /\ ~p.interrupted
    BY DEF NoLostDemand
  <2>1. j # k /\ owed[j] /\ active[j] # None
    BY <1>1, <1>2 DEF IInv, NoLostDemand, Linked, TypeOK
  <2>2. /\ fiber[entry[active[j]].owner].key = j /\ fiber[o].key = k
        /\ fiber[entry[active[j]].owner].entry = active[j] /\ fiber[o].entry = a
        /\ entry[active[j]].owner \in Live /\ active[j] \in Entry
    BY <1>1, <1>2, <2>1, LiveObjects DEF Linked, OneOwner
  <2>3. active[j] # a /\ entry[active[j]].owner # o
    BY <2>1, <2>2
  <2>4. /\ entry'[active[j]] = entry[active[j]]
        /\ fiber'[entry[active[j]].owner] = fiber[entry[active[j]].owner]
    BY <1>3, <1>4, <2>2, <2>3 DEF Live
  <2> QED BY <1>2, <2>1, <2>4 DEF IInv, NoLostDemand
<1> QED BY <1>6, <1>7, <1>8 DEF IInv

\* Beginning a drain keeps the invariant: the demand is served.
LEMMA BeginKeepsInv ==
  ASSUME IInv, NEW f \in Fiber, Begin(f)
  PROVE  IInv'
<1> DEFINE k == fiber[f].key
<1>1. Linked /\ Typed' /\ OneOwner'
  BY BeginKeeps DEF IInv
<1>2. /\ f \in Live /\ fiber[f] \in LiveFiber /\ k \in Key
      /\ active' = active /\ entry' = entry /\ caller' = caller
      /\ owed' = [owed EXCEPT ![k] = FALSE]
      /\ fiber' = [fiber EXCEPT ![f] = [fiber[f] EXCEPT !.phase = "draining"]]
  BY <1>1, BeginsLive, LiveObjects DEF Begin
<1>3. fiber'[f] # Unused /\ \A g \in Fiber \ {f} : fiber'[g] = fiber[g]
  <2>1. [fiber[f] EXCEPT !.phase = "draining"] # Unused
    BY <1>2 DEF LiveFiber, Unused
  <2> QED BY <1>1, <1>2, <2>1 DEF Linked, TypeOK
<1>4. Live' = Live
  BY <1>2, <1>3 DEF Live, FreeFiber
<1>5. Linked'
  BY <1>1, <1>2 DEF Linked, TypeOK, Typed
<1>6. NoAbandonedWaiter'
  BY <1>2, <1>4 DEF IInv, NoAbandonedWaiter
<1>7. NoLostDemand'
  <2> SUFFICES ASSUME NEW j \in Key, owed'[j]
               PROVE  /\ active'[j] # None
                      /\ \/ entry'[active'[j]].pendingWake
                         \/ LET p == fiber'[entry'[active'[j]].owner] IN
                            p.phase = "scheduled" /\ ~p.interrupted
    BY DEF NoLostDemand
  <2>1. j # k /\ owed[j] /\ active[j] # None
    BY <1>1, <1>2 DEF IInv, NoLostDemand, Linked, TypeOK
  <2>2. entry[active[j]].owner \in Fiber /\ entry[active[j]].owner # f
    BY <1>1, <1>2, <2>1 DEF Linked, OneOwner, Live
  <2>3. fiber'[entry[active[j]].owner] = fiber[entry[active[j]].owner]
    BY <1>3, <2>2
  <2> QED BY <1>2, <2>1, <2>3 DEF IInv, NoLostDemand
<1> QED BY <1>5, <1>6, <1>7 DEF IInv

\* Settling leaves nobody behind: whoever still waits does so for objects that
\* are still there.
LEMMA SettleWaiters ==
  ASSUME Linked, NoAbandonedWaiter, NEW f \in Live, NEW exit \in Exit, Elsewhere(f),
         NEW answered \in {caller, EntryDone(fiber[f].entry, exit)},
         caller' = FiberDone(f, answered),
         active'[fiber[f].key] # active[fiber[f].key]
           => answered = EntryDone(fiber[f].entry, exit)
  PROVE  caller' \in [Caller -> CallerState] /\ NoAbandonedWaiter'
<1> DEFINE k == fiber[f].key
           e == fiber[f].entry
<1>1. TypeOK /\ f \in Fiber /\ e \in Entry /\ k \in Key /\ active[k] = e
  BY Exclusive DEF Linked
<1>2. /\ caller' \in [Caller -> CallerState]
      /\ \A c \in Caller : caller'[c].pc \in {"joined", "deferred"} =>
           /\ caller'[c] = caller[c]
           /\ answered = EntryDone(e, exit) => caller[c].entry # e
      /\ \A c \in Caller : caller'[c].pc = "interrupting" =>
           caller'[c] = caller[c] /\ caller[c].fiber # f
  BY <1>1, Answers
<1>3. ASSUME NEW c \in Caller, caller'[c].pc \in {"joined", "deferred"}
      PROVE  active'[caller'[c].key] = caller'[c].entry
  <2>1. /\ caller'[c] = caller[c] /\ caller[c].key \in Key
        /\ active[caller[c].key] = caller[c].entry
    BY <1>1, <1>2, <1>3, CallerStates DEF NoAbandonedWaiter, TypeOK
  <2>2. CASE caller[c].key = k
    BY <1>1, <1>2, <1>3, <2>1, <2>2
  <2>3. CASE caller[c].key # k
    BY <2>1, <2>3 DEF Elsewhere
  <2> QED BY <2>2, <2>3
<1>4. ASSUME NEW c \in Caller, caller'[c].pc = "interrupting"
      PROVE  caller'[c].fiber \in Live'
  BY <1>2, <1>4 DEF NoAbandonedWaiter, Elsewhere
<1> QED BY <1>2, <1>3, <1>4 DEF NoAbandonedWaiter

\* Settling f keeps the demand for the other keys.
LEMMA SettleDemand ==
  ASSUME Linked, NoLostDemand, NEW f \in Live, Elsewhere(f), owed' = owed,
         owed[fiber[f].key] => FollowedUp(fiber[f].key)
  PROVE  NoLostDemand'
BY DEF NoLostDemand, Elsewhere, FollowedUp

\* Restarting keeps the invariant: the joiners await the same entry.
LEMMA RestartKeepsInv ==
  ASSUME IInv, NEW f \in Fiber, Restart(f)
  PROVE  IInv'
<1>1. f \in Live /\ "success" \in Exit
  BY EndsLive DEF Restart
<1>2. Typed' /\ OneOwner' /\ Elsewhere(f) /\ FollowedUp(fiber[f].key)
  BY RestartKeeps DEF IInv
<1>3. caller' = FiberDone(f, caller) /\ active' = active /\ owed' = owed
  BY DEF Restart
<1>4. Linked /\ NoAbandonedWaiter /\ NoLostDemand
  BY DEF IInv
<1>5. caller' \in [Caller -> CallerState] /\ NoAbandonedWaiter'
  BY ONLY <1>1, <1>2, <1>3, <1>4, SettleWaiters
<1>6. NoLostDemand'
  BY ONLY <1>1, <1>2, <1>3, <1>4, SettleDemand
<1> QED BY <1>2, <1>5, <1>6 DEF IInv, Linked, TypeOK, Typed

\* Handing over keeps the invariant: the joiners of the old entry are answered.
LEMMA HandoverKeepsInv ==
  ASSUME IInv, NEW f \in Fiber, NEW exit \in Exit, Handover(f, exit)
  PROVE  IInv'
<1>1. f \in Live
  BY EndsLive DEF Handover
<1>2. Typed' /\ OneOwner' /\ Elsewhere(f) /\ FollowedUp(fiber[f].key)
  BY HandoverKeeps DEF IInv
<1>3. caller' = FiberDone(f, EntryDone(fiber[f].entry, exit)) /\ owed' = owed
  BY DEF Handover
<1>4. Linked /\ NoAbandonedWaiter /\ NoLostDemand
  BY DEF IInv
<1>5. caller' \in [Caller -> CallerState] /\ NoAbandonedWaiter'
  BY ONLY <1>1, <1>2, <1>3, <1>4, SettleWaiters, exit \in Exit
<1>6. NoLostDemand'
  BY ONLY <1>1, <1>2, <1>3, <1>4, SettleDemand
<1> QED BY <1>2, <1>5, <1>6 DEF IInv, Linked, TypeOK, Typed

\* Nothing is owed when a key becomes idle: the fiber that ended had entered its
\* drain or was interrupted, and its entry was not woken.
LEMMA RetireKeepsInv ==
  ASSUME IInv, NEW f \in Fiber, NEW exit \in Exit, Retire(f, exit)
  PROVE  IInv'
<1>1. f \in Live
  BY EndsLive DEF Retire
<1>2. Typed' /\ OneOwner' /\ Elsewhere(f)
  BY RetireKeeps DEF IInv
<1>3. caller' = FiberDone(f, EntryDone(fiber[f].entry, exit)) /\ owed' = owed
  BY DEF Retire
<1>4. Linked /\ NoAbandonedWaiter /\ NoLostDemand
  BY DEF IInv
<1>5. caller' \in [Caller -> CallerState] /\ NoAbandonedWaiter'
  BY ONLY <1>1, <1>2, <1>3, <1>4, SettleWaiters, exit \in Exit
<1>6. ~owed[fiber[f].key]
  <2>1. /\ active[fiber[f].key] = fiber[f].entry /\ entry[fiber[f].entry].owner = f
        /\ fiber[f].key \in Key
    BY <1>1, <1>4, Exclusive
  <2> QED BY <1>4, <2>1 DEF Retire, Ends, NoLostDemand
<1>7. NoLostDemand'
  BY ONLY <1>1, <1>2, <1>3, <1>4, <1>6, SettleDemand
<1> QED BY <1>2, <1>5, <1>7 DEF IInv, Linked, TypeOK, Typed
-----------------------------------------------------------------------------
\* Initially nothing runs and nobody waits.
LEMMA InitInv == Init => IInv
BY NoneIsFresh DEF Init, IInv, Linked, TypeOK, OneOwner, NoAbandonedWaiter, NoLostDemand,
                   Live, FreeFiber, CallerState, Ready, Unused

\* Every step keeps the invariant, one case per action.
LEMMA NextInv == IInv /\ [Next]_vars => IInv'
<1> SUFFICES ASSUME IInv, [Next]_vars PROVE IInv'
  OBVIOUS
<1>1. ASSUME NEW k \in Key, Wake(k) PROVE IInv'
  BY <1>1, WakeIdleKeeps, WakeBusyKeepsInv DEF Wake
<1>2. ASSUME NEW k \in Key, NEW c \in Caller, Run(c, k) PROVE IInv'
  BY <1>2, RunIdleKeeps, RunBusyKeeps DEF Run
<1>3. ASSUME NEW k \in Key, NEW c \in Caller, Interrupt(c, k) PROVE IInv'
  BY <1>3, InterruptKeepsInv
<1>4. ASSUME NEW f \in Fiber, Begin(f) PROVE IInv'
  BY <1>4, BeginKeepsInv
<1>5. ASSUME NEW f \in Fiber, Settle(f) PROVE IInv'
  BY <1>5, RestartKeepsInv, HandoverKeepsInv, RetireKeepsInv DEF Settle
<1>6. ASSUME NEW c \in Caller, Cancel(c) PROVE IInv'
  BY <1>6, CancelKeeps
<1>7. CASE UNCHANGED vars
  BY <1>7 DEF vars, IInv, Linked, TypeOK, OneOwner, NoAbandonedWaiter, NoLostDemand,
              Live, FreeFiber
<1> QED BY <1>1, <1>2, <1>3, <1>4, <1>5, <1>6, <1>7 DEF Next

\* The inductive invariant holds of every behaviour of the coordinator.
THEOREM Invariance == Spec => []IInv
BY InitInv, NextInv, PTL DEF Spec

\* Type correctness of run-coordinator.ts's entries, fibers and waiters.
THEOREM TypeCorrect == Spec => []TypeOK
<1>1. IInv => TypeOK
  BY DEF IInv, Linked
<1> QED BY <1>1, Invariance, PTL

\* Key, entry and owner fiber always point at each other (start and settle).
THEOREM OwnershipHolds == Spec => []OneOwner
<1>1. IInv => OneOwner
  BY DEF IInv, Linked
<1> QED BY <1>1, Invariance, PTL

\* Two fibers never execute the same key, whatever is interrupted, woken, resumed
\* or settled in whatever order.
THEOREM ExecutionIsSerialised == Spec => []Serialised
<1>1. IInv => Serialised
  <2> SUFFICES ASSUME IInv, NEW f \in Live, NEW g \in Live, fiber[f].key = fiber[g].key
               PROVE  f = g
    BY DEF Serialised
  <2> QED BY DEF IInv, Linked, OneOwner
<1> QED BY <1>1, Invariance, PTL

\* No waiter of run or interrupt is left with an object that nothing completes.
THEOREM WaitersAreKept == Spec => []NoAbandonedWaiter
<1>1. IInv => NoAbandonedWaiter
  BY DEF IInv
<1> QED BY <1>1, Invariance, PTL

\* A wake, or a resume of an idle key, is never forgotten by what settles later.
THEOREM DemandIsKept == Spec => []NoLostDemand
<1>1. IInv => NoLostDemand
  BY DEF IInv
<1> QED BY <1>1, Invariance, PTL
-----------------------------------------------------------------------------
\* What a joiner is answered when the execution it joined settles.
LEMMA JoinerAnswered ==
  ASSUME NEW f \in Fiber, NEW e, NEW exit, NEW c \in Caller, caller[c].pc = "joined"
  PROVE  FiberDone(f, EntryDone(e, exit))[c] =
           IF caller[c].entry = e THEN Ready(exit) ELSE caller[c]
<1>1. EntryDone(e, exit)[c] = IF caller[c].entry = e THEN Ready(exit) ELSE caller[c]
  BY DEF EntryDone
<1>2. EntryDone(e, exit)[c].pc # "interrupting"
  BY <1>1 DEF Ready
<1> QED BY <1>1, <1>2 DEF FiberDone

\* A joiner is told "success" only by an entry that was stopped or retired unwoken.
LEMMA SuccessStep ==
  ASSUME IInv, Next, NEW c \in Caller, caller[c].pc = "joined",
         caller'[c] = Ready("success"), ~entry[caller[c].entry].stopping
  PROVE  ~owed[caller[c].key]
<1>1. /\ Linked /\ NoAbandonedWaiter /\ NoLostDemand /\ caller \in [Caller -> CallerState]
      /\ active[caller[c].key] = caller[c].entry
      /\ caller[c].key \in Key
  BY CallerStates DEF IInv, Linked, TypeOK, NoAbandonedWaiter
<1>2. caller'[c].pc = "ready" /\ caller'[c].exit = "success" /\ caller'[c] # caller[c]
  BY DEF Ready
<1>3. ASSUME NEW k \in Key, Wake(k) PROVE FALSE
  BY <1>2, <1>3 DEF Wake, WakeIdle, WakeBusy
<1>4. ASSUME NEW k \in Key, NEW b \in Caller, Run(b, k) PROVE FALSE
  BY <1>1, <1>2, <1>4 DEF Run, RunIdle, RunBusy, MayRun
<1>5. ASSUME NEW k \in Key, NEW b \in Caller, Interrupt(b, k) PROVE FALSE
  BY <1>1, <1>2, <1>5 DEF Interrupt
<1>6. ASSUME NEW f \in Fiber, Begin(f) PROVE FALSE
  BY <1>2, <1>6 DEF Begin
<1>7. ASSUME NEW f \in Fiber, Restart(f) PROVE FALSE
  BY <1>2, <1>7 DEF Restart, FiberDone
<1>8. ASSUME NEW f \in Fiber, NEW exit \in Exit,
             caller' = FiberDone(f, EntryDone(fiber[f].entry, exit))
      PROVE  caller[c].entry = fiber[f].entry /\ exit = "success"
  <2>1. caller'[c] = IF caller[c].entry = fiber[f].entry THEN Ready(exit) ELSE caller[c]
    BY <1>8, JoinerAnswered
  <2>2. caller[c].entry = fiber[f].entry
    BY <1>2, <2>1
  <2> QED BY <1>2, <2>1, <2>2 DEF Ready
<1>9. ASSUME NEW f \in Fiber, NEW exit \in Exit, Handover(f, exit) PROVE FALSE
  BY <1>8, <1>9 DEF Handover, KeepsEntry
<1>10. ASSUME NEW f \in Fiber, NEW exit \in Exit, Retire(f, exit) PROVE ~owed[caller[c].key]
  <2>1. f \in Live
    BY <1>10, EndsLive DEF Retire
  <2>2. caller[c].entry = fiber[f].entry
    BY <1>8, <1>10 DEF Retire
  <2>3. /\ fiber[f].entry \in Entry /\ entry[fiber[f].entry].owner = f
        /\ \A j \in Key : active[j] # None /\ j # fiber[f].key => active[j] # fiber[f].entry
    BY <1>1, <2>1, Exclusive
  <2>4. caller[c].key = fiber[f].key
    BY <1>1, <2>2, <2>3, NoneIsFresh
  <2> QED BY <1>1, <1>10, <2>2, <2>3, <2>4 DEF Retire, Ends, NoLostDemand
<1>11. ASSUME NEW b \in Caller, Cancel(b) PROVE FALSE
  BY <1>1, <1>2, <1>11 DEF Cancel, Ready
<1> QED BY <1>3, <1>4, <1>5, <1>6, <1>7, <1>9, <1>10, <1>11 DEF Next, Settle

\* settle() tells a joiner "success" only when all that was woken before has been
\* drained, unless the execution was interrupted.
THEOREM SuccessIsDrained == Spec => SuccessMeansDrained
<1>1. IInv /\ [Next]_vars =>
        [\A c \in Caller : /\ caller[c].pc = "joined"
                           /\ caller'[c] = Ready("success")
                           /\ ~entry[caller[c].entry].stopping
                           => ~owed[caller[c].key]]_vars
  BY SuccessStep
<1> QED BY <1>1, Invariance, PTL DEF Spec, SuccessMeansDrained
-----------------------------------------------------------------------------
(* The contract of Execution. *)

\* What the contract sees of a key is untouched.
Kept(j) ==
  /\ active'[j] = active[j]
  /\ active[j] # None =>
       /\ entry'[active[j]] = entry[active[j]]
       /\ fiber'[entry[active[j]].owner] = fiber[entry[active[j]].owner]

\* The entry of a key is being stopped exactly when its owner is interrupted.
StopAgrees(k) == active[k] # None => (entry[active[k]].stopping <=> Owner(k).interrupted)

StopInv == \A k \in Key : StopAgrees(k)

LEMMA KeptView ==
  ASSUME NEW j, Kept(j)
  PROVE  /\ SlotOf(j)' = SlotOf(j) /\ ForceOf(j)' = ForceOf(j)
         /\ StoppingOf(j)' = StoppingOf(j) /\ AgainOf(j)' = AgainOf(j)
         /\ StopAgrees(j) => StopAgrees(j)'
BY DEF Kept, SlotOf, ForceOf, StoppingOf, AgainOf, StopAgrees, Owner

\* An idle key is launched: it is due.
LEMMA LaunchView ==
  ASSUME Linked, NEW k \in Key, NEW e \in Entry, NEW f \in Fiber, NEW force \in BOOLEAN,
         Launch(k, e, f, force)
  PROVE  /\ \A j \in Key : j # k => Kept(j)
         /\ active[k] = None
         /\ SlotOf(k)' = "due" /\ ForceOf(k)' = force
         /\ StoppingOf(k)' = FALSE /\ AgainOf(k)' = FALSE
         /\ StopAgrees(k)'
<1>1. /\ active[k] = None /\ entry[e] = Unused /\ fiber[f] = Unused
      /\ active' = [active EXCEPT ![k] = e]
      /\ entry' = [entry EXCEPT ![e] = MakeEntry(f)]
      /\ fiber' = [fiber EXCEPT ![f] = Start(k, e, force)]
  BY DEF Launch, FreeEntry, FreeFiber
<1>2. active'[k] = e /\ entry'[e] = MakeEntry(f) /\ fiber'[f] = Start(k, e, force) /\ e # None
  BY <1>1, NoneIsFresh DEF Linked, TypeOK
<1>3. ASSUME NEW j \in Key, j # k PROVE Kept(j)
  <2>1. active'[j] = active[j]
    BY <1>1, <1>3 DEF Linked, TypeOK
  <2>2. ASSUME active[j] # None
        PROVE  /\ active[j] \in Entry /\ active[j] # e
               /\ entry[active[j]].owner \in Fiber /\ entry[active[j]].owner # f
    BY <1>1, <2>2, LiveObjects DEF Linked, OneOwner, Live, FreeFiber
  <2> QED BY <1>1, <2>1, <2>2 DEF Kept, Linked, TypeOK
<1>4. /\ MakeEntry(f).owner = f /\ MakeEntry(f).stopping = FALSE
      /\ MakeEntry(f).pendingWake = FALSE
      /\ Start(k, e, force).phase = "scheduled" /\ Start(k, e, force).force = force
      /\ Start(k, e, force).interrupted = FALSE
  BY DEF MakeEntry, Start
<1>5. /\ SlotOf(k)' = "due" /\ ForceOf(k)' = force
      /\ StoppingOf(k)' = FALSE /\ AgainOf(k)' = FALSE
      /\ StopAgrees(k)'
  BY <1>2, <1>4 DEF SlotOf, ForceOf, StoppingOf, AgainOf, StopAgrees, Owner
<1> QED BY <1>1, <1>3, <1>5

\* A wake of a busy key only asks for one more drain.
LEMMA WakeBusyView ==
  ASSUME Linked, StopInv, NEW k \in Key, WakeBusy(k)
  PROVE  /\ \A j \in Key : j # k => Kept(j)
         /\ SlotOf(k) # "idle" /\ SlotOf(k)' = SlotOf(k) /\ ForceOf(k)' = ForceOf(k)
         /\ StoppingOf(k)' = StoppingOf(k) /\ AgainOf(k)' = TRUE
         /\ StopAgrees(k)'
<1> DEFINE a == active[k]
           x == [entry[a] EXCEPT !.pendingWake = TRUE]
<1>1. /\ a # None /\ a \in Entry /\ entry[a] \in LiveEntry
      /\ entry' = [entry EXCEPT ![a] = x] /\ active' = active /\ fiber' = fiber
  BY LiveObjects DEF WakeBusy, Linked, OneOwner
<1>2. x.owner = entry[a].owner /\ x.stopping = entry[a].stopping /\ x.pendingWake = TRUE
  BY <1>1 DEF LiveEntry
<1> HIDE DEF x
<1>3. entry'[a] = x
  BY <1>1 DEF Linked, TypeOK
<1>4. ASSUME NEW j \in Key, j # k PROVE Kept(j)
  <2>1. active[j] # None => active[j] \in Entry /\ active[j] # a
    BY <1>1, <1>4, LiveObjects DEF Linked, OneOwner
  <2> QED BY <1>1, <2>1 DEF Kept, Linked, TypeOK
<1>5. SlotOf(k) # "idle" /\ SlotOf(k)' = SlotOf(k) /\ ForceOf(k)' = ForceOf(k)
  BY <1>1, <1>2, <1>3 DEF SlotOf, ForceOf, Owner
<1>6. StoppingOf(k)' = StoppingOf(k) /\ AgainOf(k)' = TRUE
  BY <1>1, <1>2, <1>3 DEF StoppingOf, AgainOf
<1>7. StopAgrees(k)'
  BY <1>1, <1>2, <1>3 DEF StopInv, StopAgrees, Owner
<1> QED BY <1>4, <1>5, <1>6, <1>7

\* An interrupt stops the execution of its key.
LEMMA InterruptView ==
  ASSUME Linked, NEW c \in Caller, NEW k \in Key, Interrupt(c, k)
  PROVE  /\ \A j \in Key : j # k => Kept(j)
         /\ SlotOf(k) # "idle" /\ SlotOf(k)' = SlotOf(k) /\ ForceOf(k)' = ForceOf(k)
         /\ StoppingOf(k)' = TRUE /\ AgainOf(k)' = FALSE
         /\ StopAgrees(k)'
<1> DEFINE a == active[k]
           o == entry[a].owner
           e == [entry[a] EXCEPT !.stopping = TRUE, !.pendingWake = FALSE]
           g == [fiber[o] EXCEPT !.interrupted = TRUE]
<1>1. /\ a \in Entry /\ o \in Live /\ entry[a] \in LiveEntry /\ fiber[o] \in LiveFiber
      /\ entry' = [entry EXCEPT ![a] = e] /\ e.owner = o
      /\ fiber' = [fiber EXCEPT ![o] = g] /\ g.phase = fiber[o].phase
      /\ active' = active
  BY InterruptObjects
<1>2. /\ e.stopping = TRUE /\ e.pendingWake = FALSE
      /\ g.interrupted = TRUE /\ g.force = fiber[o].force
  BY <1>1 DEF LiveEntry, LiveFiber
<1>3. a # None
  BY <1>1, NoneIsFresh
<1> HIDE DEF e, g
<1>4. entry'[a] = e /\ fiber'[o] = g
  BY <1>1 DEF Linked, TypeOK, Live
<1>5. ASSUME NEW j \in Key, j # k PROVE Kept(j)
  <2>1. ASSUME active[j] # None
        PROVE  /\ active[j] \in Entry /\ active[j] # a
               /\ entry[active[j]].owner \in Fiber /\ entry[active[j]].owner # o
    BY <1>3, <1>5, <2>1, LiveObjects DEF Linked, OneOwner, Live
  <2> QED BY <1>1, <2>1 DEF Kept, Linked, TypeOK
<1>6. SlotOf(k) # "idle" /\ SlotOf(k)' = SlotOf(k) /\ ForceOf(k)' = ForceOf(k)
  BY <1>1, <1>2, <1>3, <1>4 DEF SlotOf, ForceOf, Owner
<1>7. StoppingOf(k)' = TRUE /\ AgainOf(k)' = FALSE /\ StopAgrees(k)'
  BY <1>1, <1>2, <1>3, <1>4 DEF StoppingOf, AgainOf, StopAgrees, Owner
<1> QED BY <1>5, <1>6, <1>7

\* The owner of a due key enters its drain.
LEMMA BeginView ==
  ASSUME Linked, StopInv, NEW f \in Fiber, Begin(f), NEW k, k = fiber[f].key
  PROVE  /\ k \in Key
         /\ \A j \in Key : j # k => Kept(j)
         /\ SlotOf(k) = "due" /\ SlotOf(k)' = "draining" /\ ForceOf(k)' = ForceOf(k)
         /\ ~StoppingOf(k) /\ StoppingOf(k)' = StoppingOf(k) /\ AgainOf(k)' = AgainOf(k)
         /\ StopAgrees(k)'
<1> DEFINE g == [fiber[f] EXCEPT !.phase = "draining"]
<1>1. /\ f \in Live /\ fiber[f] \in LiveFiber /\ k \in Key
      /\ fiber' = [fiber EXCEPT ![f] = g] /\ active' = active /\ entry' = entry
      /\ fiber[f].phase = "scheduled" /\ fiber[f].interrupted = FALSE
  BY BeginsLive, LiveObjects DEF Begin
<1>2. /\ g.phase = "draining" /\ g.interrupted = FALSE
      /\ g.force = fiber[f].force /\ fiber[f].force \in BOOLEAN
  BY <1>1 DEF LiveFiber
<1>3. /\ active[k] # None /\ entry[active[k]].owner = f
      /\ \A j \in Key : active[j] # None /\ j # k => entry[active[j]].owner # f
  BY <1>1, Exclusive, NoneIsFresh
<1> HIDE DEF g
<1>4. fiber'[f] = g
  BY <1>1 DEF Linked, TypeOK
<1>5. ASSUME NEW j \in Key, j # k PROVE Kept(j)
  <2>1. active[j] # None => entry[active[j]].owner \in Fiber /\ entry[active[j]].owner # f
    BY <1>3, <1>5 DEF Linked, OneOwner, Live
  <2> QED BY <1>1, <2>1 DEF Kept, Linked, TypeOK
<1>6. SlotOf(k) = "due" /\ SlotOf(k)' = "draining" /\ ForceOf(k)' = ForceOf(k)
  BY <1>1, <1>2, <1>3, <1>4 DEF SlotOf, ForceOf, Owner
<1>7. ~StoppingOf(k) /\ StoppingOf(k)' = StoppingOf(k) /\ AgainOf(k)' = AgainOf(k)
  BY <1>1, <1>3 DEF StoppingOf, AgainOf, StopInv, StopAgrees, Owner
<1>8. StopAgrees(k)'
  BY <1>1, <1>2, <1>3, <1>4 DEF StopAgrees, StopInv, Owner
<1> QED BY <1>1, <1>5, <1>6, <1>7, <1>8

\* A fiber that can settle shows as an execution that can end.
LEMMA EndsView ==
  ASSUME Linked, StopInv, NEW f \in Fiber, NEW exit, Ends(f, exit), NEW k, k = fiber[f].key
  PROVE  /\ k \in Key
         /\ SlotOf(k) = "draining" \/ (SlotOf(k) = "due" /\ StoppingOf(k))
         /\ AgainOf(k) = entry[fiber[f].entry].pendingWake
<1>1. /\ f \in Live /\ k \in Key
      /\ active[k] = fiber[f].entry /\ active[k] # None
      /\ entry[fiber[f].entry] \in LiveEntry /\ entry[active[k]].owner = f
  BY EndsLive, Exclusive, NoneIsFresh
<1>2. entry[active[k]].pendingWake \in BOOLEAN
  BY <1>1 DEF LiveEntry
<1>3. AgainOf(k) = entry[fiber[f].entry].pendingWake
  BY <1>1, <1>2 DEF AgainOf
<1>4. fiber[f].phase = "draining" \/ (fiber[f].phase = "scheduled" /\ fiber[f].interrupted)
  BY DEF Ends
<1>5. SlotOf(k) = "draining" \/ (SlotOf(k) = "due" /\ StoppingOf(k))
  BY <1>1, <1>4 DEF SlotOf, StoppingOf, StopInv, StopAgrees, Owner
<1> QED BY <1>1, <1>3, <1>5

\* Settling shows as the end of the execution of key k, and of no other.
Ended(k) ==
  /\ \A j \in Key : j # k => Kept(j)
  /\ SlotOf(k)' = (IF AgainOf(k) THEN "due" ELSE "idle")
  /\ ForceOf(k)' = FALSE /\ StoppingOf(k)' = FALSE /\ AgainOf(k)' = FALSE
  /\ StopAgrees(k)'

LEMMA ElsewhereKept ==
  ASSUME NEW f, Elsewhere(f)
  PROVE  \A j \in Key : j # fiber[f].key => Kept(j)
BY DEF Elsewhere, Kept

LEMMA RetireView ==
  ASSUME Linked, StopInv, NEW f \in Fiber, NEW exit \in Exit, Retire(f, exit),
         NEW k, k = fiber[f].key
  PROVE  Ended(k)
<1>1. /\ k \in Key /\ AgainOf(k) = entry[fiber[f].entry].pendingWake
      /\ ~entry[fiber[f].entry].pendingWake
      /\ active' = [active EXCEPT ![k] = None]
  BY EndsView DEF Retire
<1>2. active'[k] = None
  BY <1>1 DEF Linked, TypeOK
<1>3. \A j \in Key : j # k => Kept(j)
  BY RetireKeeps, ElsewhereKept
<1> QED BY <1>1, <1>2, <1>3 DEF Ended, SlotOf, ForceOf, StoppingOf, AgainOf, StopAgrees

LEMMA RestartView ==
  ASSUME Linked, StopInv, NEW f \in Fiber, Restart(f), NEW k, k = fiber[f].key
  PROVE  Ended(k)
<1> DEFINE e == fiber[f].entry
<1>1. /\ f \in Live /\ k \in Key /\ e \in Entry /\ active[k] = e /\ e # None
      /\ entry[e] \in LiveEntry
  BY EndsLive, Exclusive, NoneIsFresh DEF Restart
<1>2. PICK h \in FreeFiber :
        /\ entry' = [entry EXCEPT ![e] = [entry[e] EXCEPT !.pendingWake = FALSE, !.owner = h]]
        /\ fiber' = [fiber EXCEPT ![f] = Unused, ![h] = Start(k, e, FALSE)]
        /\ active' = active
  BY <1>1 DEF Restart, Linked, TypeOK
<1> DEFINE x == [entry[e] EXCEPT !.pendingWake = FALSE, !.owner = h]
           s == Start(k, e, FALSE)
<1>3. entry[e].pendingWake = TRUE /\ entry[e].stopping = FALSE
  BY <1>1 DEF Restart, KeepsEntry, LiveEntry
<1>4. /\ h \in Fiber /\ h # f
      /\ x.owner = h /\ x.pendingWake = FALSE /\ x.stopping = FALSE
      /\ s.phase = "scheduled" /\ s.interrupted = FALSE /\ s.force = FALSE
  BY <1>1, <1>3 DEF FreeFiber, Live, LiveEntry, Start
<1>5. AgainOf(k) = TRUE
  BY <1>3, EndsView DEF Restart
<1>6. entry' = [entry EXCEPT ![e] = x] /\ fiber' = [fiber EXCEPT ![f] = Unused, ![h] = s]
  BY <1>2
<1> HIDE DEF x, s
<1>7. active'[k] = e /\ entry'[e] = x /\ fiber'[h] = s
  BY <1>1, <1>2, <1>4, <1>6 DEF Linked, TypeOK
<1>8. \A j \in Key : j # k => Kept(j)
  BY RestartKeeps, ElsewhereKept
<1> HIDE DEF e
<1> QED BY <1>1, <1>4, <1>5, <1>7, <1>8
        DEF Ended, SlotOf, ForceOf, StoppingOf, AgainOf, StopAgrees, Owner

LEMMA HandoverView ==
  ASSUME Linked, StopInv, NEW f \in Fiber, NEW exit \in Exit, Handover(f, exit),
         NEW k, k = fiber[f].key
  PROVE  Ended(k)
<1> DEFINE e == fiber[f].entry
<1>1. f \in Live /\ k \in Key /\ e \in Entry /\ entry[e] \in LiveEntry
  BY EndsLive, Exclusive DEF Handover
<1>2. PICK n \in FreeEntry, h \in FreeFiber :
        /\ active' = [active EXCEPT ![k] = n]
        /\ entry' = [entry EXCEPT ![e] = Unused, ![n] = MakeEntry(h)]
        /\ fiber' = [fiber EXCEPT ![f] = Unused, ![h] = Start(k, n, FALSE)]
  BY DEF Handover
<1> DEFINE x == MakeEntry(h)
           s == Start(k, n, FALSE)
<1>3. entry[e].pendingWake = TRUE
  BY <1>1 DEF Handover, LiveEntry
<1>4. /\ h \in Fiber /\ h # f /\ n \in Entry /\ n # None
      /\ x.owner = h /\ x.pendingWake = FALSE /\ x.stopping = FALSE
      /\ s.phase = "scheduled" /\ s.interrupted = FALSE /\ s.force = FALSE
  BY <1>1, NoneIsFresh DEF FreeFiber, FreeEntry, Live, MakeEntry, Start
<1>5. AgainOf(k) = TRUE
  BY <1>3, EndsView DEF Handover
<1>6. /\ entry' = [entry EXCEPT ![e] = Unused, ![n] = x]
      /\ fiber' = [fiber EXCEPT ![f] = Unused, ![h] = s]
  BY <1>2
<1> HIDE DEF x, s
<1>7. active'[k] = n /\ entry'[n] = x /\ fiber'[h] = s
  BY <1>1, <1>2, <1>4, <1>6 DEF Linked, TypeOK
<1>8. \A j \in Key : j # k => Kept(j)
  BY HandoverKeeps, ElsewhereKept
<1> QED BY <1>4, <1>5, <1>7, <1>8
        DEF Ended, SlotOf, ForceOf, StoppingOf, AgainOf, StopAgrees, Owner

\* The functions of the refinement mapping.
Slots == [k \in Key |-> SlotOf(k)]
Forces == [k \in Key |-> ForceOf(k)]
Stops == [k \in Key |-> StoppingOf(k)]
Agains == [k \in Key |-> AgainOf(k)]

\* What a step that shows at key k alone does to them.
LEMMA ViewChange ==
  ASSUME NEW k \in Key, \A j \in Key : j # k => Kept(j)
  PROVE  /\ Slots' = [Slots EXCEPT ![k] = SlotOf(k)']
         /\ Forces' = [Forces EXCEPT ![k] = ForceOf(k)']
         /\ Stops' = [Stops EXCEPT ![k] = StoppingOf(k)']
         /\ Agains' = [Agains EXCEPT ![k] = AgainOf(k)']
<1>1. \A j \in Key : j # k => /\ SlotOf(j)' = SlotOf(j) /\ ForceOf(j)' = ForceOf(j)
                              /\ StoppingOf(j)' = StoppingOf(j) /\ AgainOf(j)' = AgainOf(j)
  BY KeptView
<1> QED BY <1>1 DEF Slots, Forces, Stops, Agains

\* A step that shows nowhere.
LEMMA ViewSame ==
  ASSUME \A j \in Key : Kept(j)
  PROVE  Slots' = Slots /\ Forces' = Forces /\ Stops' = Stops /\ Agains' = Agains
<1>1. \A j \in Key : /\ SlotOf(j)' = SlotOf(j) /\ ForceOf(j)' = ForceOf(j)
                     /\ StoppingOf(j)' = StoppingOf(j) /\ AgainOf(j)' = AgainOf(j)
  BY KeptView
<1> QED BY <1>1 DEF Slots, Forces, Stops, Agains

\* StopInv is kept by a step that shows at key k alone.
LEMMA StopElsewhere ==
  ASSUME StopInv, NEW k, \A j \in Key : j # k => Kept(j), StopAgrees(k)'
  PROVE  StopInv'
<1>1. \A j \in Key : j # k => StopAgrees(j)'
  BY KeptView DEF StopInv
<1> QED BY <1>1 DEF StopInv

\* The mapped variables, by key.
LEMMA Views ==
  ASSUME NEW k \in Key
  PROVE  /\ Slots[k] = SlotOf(k) /\ Forces[k] = ForceOf(k)
         /\ Stops[k] = StoppingOf(k) /\ Agains[k] = AgainOf(k)
         /\ [Slots EXCEPT ![k] = SlotOf(k)] = Slots
         /\ [Forces EXCEPT ![k] = ForceOf(k)] = Forces
         /\ [Stops EXCEPT ![k] = StoppingOf(k)] = Stops
         /\ [Agains EXCEPT ![k] = AgainOf(k)] = Agains
BY DEF Slots, Forces, Stops, Agains

\* run of an idle key is a resume, wake of an idle key a wake.
LEMMA LaunchImplements ==
  ASSUME Linked, StopInv, NEW k \in Key, NEW e \in Entry, NEW f \in Fiber, NEW force \in BOOLEAN,
         Launch(k, e, f, force)
  PROVE  StopInv' /\ Contract!Next
<1>1. /\ \A j \in Key : j # k => Kept(j)
      /\ SlotOf(k)' = "due" /\ ForceOf(k)' = force
      /\ StoppingOf(k)' = FALSE /\ AgainOf(k)' = FALSE
      /\ StopAgrees(k)' /\ active[k] = None
  BY LaunchView
<1>2. /\ SlotOf(k) = "idle" /\ ForceOf(k) = FALSE
      /\ StoppingOf(k)' = StoppingOf(k) /\ AgainOf(k)' = AgainOf(k)
  BY <1>1 DEF SlotOf, ForceOf, StoppingOf, AgainOf
<1>3. Slots[k] = "idle" /\ Slots' = [Slots EXCEPT ![k] = "due"]
  BY <1>1, <1>2, Views, ViewChange
<1>4. Stops' = Stops /\ Agains' = Agains
  BY <1>1, <1>2, Views, ViewChange
<1>5. Forces' = [Forces EXCEPT ![k] = ForceOf(k)']
  BY <1>1, ViewChange
<1>6. ASSUME force = TRUE PROVE Contract!Next
  <2>1. Forces' = [Forces EXCEPT ![k] = TRUE]
    BY <1>1, <1>5, <1>6
  <2> QED BY <1>3, <1>4, <2>1 DEF Contract!Next, Contract!Resume, Slots, Forces, Stops, Agains
<1>7. ASSUME force = FALSE PROVE Contract!Next
  <2>1. ForceOf(k)' = ForceOf(k)
    BY <1>1, <1>2, <1>7
  <2>2. Forces' = Forces
    BY <1>5, <2>1, Views
  <2> QED BY <1>3, <1>4, <2>2 DEF Contract!Next, Contract!Wake, Slots, Forces, Stops, Agains
<1> QED BY <1>1, <1>6, <1>7, StopElsewhere

LEMMA WakeBusyImplements ==
  ASSUME Linked, StopInv, NEW k \in Key, WakeBusy(k)
  PROVE  StopInv' /\ Contract!Next
<1>1. /\ \A j \in Key : j # k => Kept(j)
      /\ SlotOf(k) # "idle" /\ SlotOf(k)' = SlotOf(k) /\ ForceOf(k)' = ForceOf(k)
      /\ StoppingOf(k)' = StoppingOf(k) /\ AgainOf(k)' = TRUE
      /\ StopAgrees(k)'
  BY WakeBusyView
<1>2. /\ Slots[k] # "idle" /\ Slots' = Slots /\ Forces' = Forces /\ Stops' = Stops
      /\ Agains' = [Agains EXCEPT ![k] = TRUE]
  BY <1>1, Views, ViewChange
<1>3. Contract!Next
  BY <1>2 DEF Contract!Next, Contract!Wake, Slots, Forces, Stops, Agains
<1> QED BY <1>1, <1>3, StopElsewhere

LEMMA InterruptImplements ==
  ASSUME Linked, StopInv, NEW c \in Caller, NEW k \in Key, Interrupt(c, k)
  PROVE  StopInv' /\ Contract!Next
<1>1. /\ \A j \in Key : j # k => Kept(j)
      /\ SlotOf(k) # "idle" /\ SlotOf(k)' = SlotOf(k) /\ ForceOf(k)' = ForceOf(k)
      /\ StoppingOf(k)' = TRUE /\ AgainOf(k)' = FALSE
      /\ StopAgrees(k)'
  BY InterruptView
<1>2. /\ Slots[k] # "idle" /\ Slots' = Slots /\ Forces' = Forces
      /\ Stops' = [Stops EXCEPT ![k] = TRUE] /\ Agains' = [Agains EXCEPT ![k] = FALSE]
  BY <1>1, Views, ViewChange
<1>3. Contract!Next
  BY <1>2 DEF Contract!Next, Contract!Interrupt, Slots, Forces, Stops, Agains
<1> QED BY <1>1, <1>3, StopElsewhere

LEMMA BeginImplements ==
  ASSUME Linked, StopInv, NEW f \in Fiber, Begin(f)
  PROVE  StopInv' /\ Contract!Next
<1>1. PICK k : k = fiber[f].key
  OBVIOUS
<1>2. /\ k \in Key
      /\ \A j \in Key : j # k => Kept(j)
      /\ SlotOf(k) = "due" /\ SlotOf(k)' = "draining" /\ ForceOf(k)' = ForceOf(k)
      /\ ~StoppingOf(k) /\ StoppingOf(k)' = StoppingOf(k) /\ AgainOf(k)' = AgainOf(k)
      /\ StopAgrees(k)'
  BY <1>1, BeginView
<1>3. /\ Slots[k] = "due" /\ ~Stops[k] /\ Slots' = [Slots EXCEPT ![k] = "draining"]
      /\ Forces' = Forces /\ Stops' = Stops /\ Agains' = Agains
  BY <1>2, Views, ViewChange
<1>4. Contract!Next
  BY <1>2, <1>3 DEF Contract!Next, Contract!Begin, Slots, Forces, Stops, Agains
<1> QED BY <1>2, <1>4, StopElsewhere

\* settle() is the end of an execution.
LEMMA SettleImplements ==
  ASSUME Linked, StopInv, NEW f \in Fiber, Settle(f)
  PROVE  StopInv' /\ Contract!Next
<1>1. PICK k : k = fiber[f].key
  OBVIOUS
<1>2. PICK exit \in Exit : Restart(f) \/ Handover(f, exit) \/ Retire(f, exit)
  BY DEF Settle, Exit
<1>3. PICK how : Ends(f, how)
  BY <1>2 DEF Restart, Handover, Retire
<1>4. k \in Key /\ (SlotOf(k) = "draining" \/ (SlotOf(k) = "due" /\ StoppingOf(k)))
  BY <1>1, <1>3, EndsView
<1>5. Ended(k)
  BY <1>1, <1>2, RestartView, HandoverView, RetireView
<1>6. /\ Slots[k] = "draining" \/ (Slots[k] = "due" /\ Stops[k])
      /\ Slots' = [Slots EXCEPT ![k] = IF Agains[k] THEN "due" ELSE "idle"]
      /\ Forces' = [Forces EXCEPT ![k] = FALSE]
      /\ Stops' = [Stops EXCEPT ![k] = FALSE]
      /\ Agains' = [Agains EXCEPT ![k] = FALSE]
  BY <1>4, <1>5, Views, ViewChange DEF Ended
<1>7. Contract!Next
  BY <1>4, <1>6 DEF Contract!Next, Contract!End, Slots, Forces, Stops, Agains
<1> QED BY <1>4, <1>5, <1>7, StopElsewhere DEF Ended

\* What waiters do does not show.
LEMMA HiddenImplements ==
  ASSUME StopInv, UNCHANGED <<active, entry, fiber>>
  PROVE  StopInv' /\ UNCHANGED Contract!vars
<1>1. \A j \in Key : Kept(j)
  BY DEF Kept
<1>2. StopInv'
  BY <1>1, KeptView DEF StopInv
<1>3. UNCHANGED Contract!vars
  BY <1>1, ViewSame DEF Contract!vars, Slots, Forces, Stops, Agains
<1> QED BY <1>2, <1>3

LEMMA StepImplements == IInv /\ StopInv /\ [Next]_vars => StopInv' /\ [Contract!Next]_Contract!vars
<1> SUFFICES ASSUME IInv, StopInv, [Next]_vars
             PROVE  StopInv' /\ (Contract!Next \/ UNCHANGED Contract!vars)
  OBVIOUS
<1>1. Linked
  BY DEF IInv
<1>2. ASSUME NEW k \in Key, Wake(k) PROVE StopInv' /\ Contract!Next
  <2>1. FALSE \in BOOLEAN
    OBVIOUS
  <2> QED BY <1>1, <1>2, <2>1, LaunchImplements, WakeBusyImplements DEF Wake, WakeIdle
<1>3. ASSUME NEW k \in Key, NEW c \in Caller, RunIdle(c, k) PROVE StopInv' /\ Contract!Next
  <2>1. TRUE \in BOOLEAN
    OBVIOUS
  <2> QED BY <1>1, <1>3, <2>1, LaunchImplements DEF RunIdle
<1>4. ASSUME NEW k \in Key, NEW c \in Caller, RunBusy(c, k)
      PROVE  StopInv' /\ UNCHANGED Contract!vars
  BY <1>4, HiddenImplements DEF RunBusy
<1>5. ASSUME NEW c \in Caller, Cancel(c) PROVE StopInv' /\ UNCHANGED Contract!vars
  BY <1>5, HiddenImplements DEF Cancel
<1>6. CASE UNCHANGED vars
  BY <1>6, HiddenImplements DEF vars
<1> QED BY <1>1, <1>2, <1>3, <1>4, <1>5, <1>6, InterruptImplements, BeginImplements,
           SettleImplements DEF Next, Run

LEMMA InitImplements == Init => StopInv /\ Contract!Init
<1> SUFFICES ASSUME Init PROVE StopInv /\ Contract!Init
  OBVIOUS
<1>1. \A k \in Key : active[k] = None
  BY DEF Init
<1>2. \A k \in Key : /\ SlotOf(k) = "idle" /\ ForceOf(k) = FALSE
                     /\ StoppingOf(k) = FALSE /\ AgainOf(k) = FALSE
  BY <1>1 DEF SlotOf, ForceOf, StoppingOf, AgainOf
<1> QED BY <1>1, <1>2 DEF StopInv, StopAgrees, Contract!Init

\* Every behaviour of the coordinator is one of the contract of Execution: one
\* serial execution per key, whatever entries, fibers and waiters do (safety only:
\* the fairness of the contract is left to model checking).
THEOREM ContractIsImplemented == Spec => Contract!Spec
<1>1. Init => Contract!Init /\ StopInv
  BY InitImplements
<1>2. IInv /\ StopInv /\ [Next]_vars => StopInv' /\ [Contract!Next]_Contract!vars
  BY StepImplements
<1> QED BY <1>1, <1>2, Invariance, PTL DEF Spec, Contract!Spec
=============================================================================

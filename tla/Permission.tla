------------------------------ MODULE Permission ------------------------------
(***************************************************************************)
(* The permission requests of one location: core/src/permission.ts.  A     *)
(* tool call evaluates its resources against the configured and the saved  *)
(* rules; when something is left to ask, the request is registered as      *)
(* pending, announced, and waits on a deferred.  A reply settles the       *)
(* pending request, and then others: a rejection those of the same         *)
(* session, an "always" those that the rules it saved allow.  Every event  *)
(* published and every rule read is a point where the others go on.        *)
(***************************************************************************)
EXTENDS Integers

CONSTANTS Request, Replier, Session, Resource,
          SessionOf, ResourcesOf,
          Config,        \* what the agent's rules may say
          SaveOf,        \* what an "always" reply to the request saves
          Detached,      \* the requests made by ask, which does not wait
          None,
          MaxEdits       \* bound: changes of the rules by somebody else

ASSUME RequestShape ==
  /\ SessionOf \in [Request -> Session]
  /\ ResourcesOf \in [Request -> SUBSET Resource]
  /\ SaveOf \in [Request -> SUBSET Resource]
  /\ Detached \subseteq Request
  /\ Config \subseteq [Resource -> {"deny", "ask", "allow"}]
ASSUME NoneIsNoRequest == None \notin Request
ASSUME MaxEditsIsNat == MaxEdits \in Nat

VARIABLES
  rules,     \* what the agent's rules say of a resource
  saved,     \* the resources the project's saved rules allow
  edits,     \* bounded count of changes
  call,      \* where the call that makes a request is
  need,      \* the resources the configured rules did not allow it
  pending,   \* the Map of pending requests
  verdict,   \* the deferred of a request
  step,      \* where a reply is
  target, kind,  \* the request it answers, and how
  item,      \* the other request its scan is at
  visited,   \* the requests its scan has passed over
  remembered,  \* the saved rules its scan goes by
  owed       \* history: the requests its scan has to settle

calls == <<call, need>>
replies == <<step, target, kind, item, visited, remembered>>
vars == <<rules, saved, edits, calls, pending, verdict, replies, owed>>

Kind == {"once", "always", "reject"}

Denied(q, conf) == \E r \in ResourcesOf[q] : conf[r] = "deny"

\* The last rule that matches decides, and saved rules come after configured ones.
Covered(q, conf, allowed) == \A r \in ResourcesOf[q] : r \in allowed \/ conf[r] = "allow"

Init ==
  /\ rules \in Config
  /\ saved = {}
  /\ edits = 0
  /\ call = [q \in Request |-> "none"]
  /\ need = [q \in Request |-> {}]
  /\ pending = {}
  /\ verdict = [q \in Request |-> "open"]
  /\ step = [p \in Replier |-> "none"]
  /\ target = [p \in Replier |-> None]
  /\ kind = [p \in Replier |-> "once"]
  /\ item = [p \in Replier |-> None]
  /\ visited = [p \in Replier |-> {}]
  /\ remembered = [p \in Replier |-> {}]
  /\ owed = [p \in Replier |-> {}]
-----------------------------------------------------------------------------
(* The call that needs a permission. *)

\* evaluateInput reads the configured rules; a denial among them is final.
Evaluate(q) ==
  /\ call[q] = "none"
  /\ call' = [call EXCEPT ![q] = IF Denied(q, rules) THEN "denied" ELSE "evaluate"]
  /\ need' = [need EXCEPT ![q] = {r \in ResourcesOf[q] : rules[r] # "allow"}]
  /\ UNCHANGED <<rules, saved, edits, pending, verdict, replies, owed>>

\* It then reads the saved ones.  What still has to be asked for is registered at once.
EvaluateSaved(q) ==
  /\ call[q] = "evaluate"
  /\ IF need[q] \subseteq saved
     THEN /\ call' = [call EXCEPT ![q] = "allowed"]
          /\ UNCHANGED <<need, pending>>
     ELSE /\ call' = [call EXCEPT ![q] = "announce"]
          /\ pending' = pending \cup {q}
  /\ need' = [need EXCEPT ![q] = {}]
  /\ UNCHANGED <<rules, saved, edits, verdict, replies, owed>>

\* Asked is published; assert goes on to wait, ask returns.
Announced(q) ==
  /\ call[q] = "announce"
  /\ call' = [call EXCEPT ![q] = IF q \in Detached THEN "left" ELSE "waiting"]
  /\ UNCHANGED <<rules, saved, edits, need, pending, verdict, replies, owed>>

\* Mutation: the failed announcement leaves the request behind.
AnnounceFailsOnly(q) ==
  /\ call[q] = "announce"
  /\ call' = [call EXCEPT ![q] = "dead"]
  /\ UNCHANGED <<rules, saved, edits, need, pending, verdict, replies, owed>>

\* A subscriber fails on it: the request is withdrawn.
AnnounceFails(q) ==
  /\ call[q] = "announce"
  /\ call' = [call EXCEPT ![q] = "dead"]
  /\ pending' = pending \ {q}
  /\ UNCHANGED <<rules, saved, edits, need, verdict, replies, owed>>

\* The deferred is settled: the call returns or fails with it.
Resume(q) ==
  /\ call[q] = "waiting"
  /\ verdict[q] # "open"
  /\ call' = [call EXCEPT ![q] = IF verdict[q] = "approved" THEN "allowed" ELSE "rejected"]
  /\ pending' = pending \ {q}
  /\ UNCHANGED <<rules, saved, edits, need, verdict, replies, owed>>

\* Only the wait can be interrupted.
Interrupt(q) ==
  /\ call[q] = "waiting"
  /\ call' = [call EXCEPT ![q] = "interrupted"]
  /\ pending' = pending \ {q}
  /\ UNCHANGED <<rules, saved, edits, need, verdict, replies, owed>>
-----------------------------------------------------------------------------
(* A reply. *)

\* Mutation: the loop ends at the first request it passes over.
AheadOfFirst(p, left, passed) ==
  {q \in left \ passed : passed = {} /\ (kind[p] = "reject" => SessionOf[q] = SessionOf[target[p]])}

\* The requests the loop of a reply has before it, given what is still pending.
Ahead(p, left, passed) ==
  {q \in left \ passed : kind[p] = "reject" => SessionOf[q] = SessionOf[target[p]]}

Ends(p, how) ==
  /\ step' = [step EXCEPT ![p] = how]
  /\ target' = [target EXCEPT ![p] = None]
  /\ kind' = [kind EXCEPT ![p] = "once"]
  /\ item' = [item EXCEPT ![p] = None]
  /\ visited' = [visited EXCEPT ![p] = {}]
  /\ remembered' = [remembered EXCEPT ![p] = {}]

\* The loop goes on with one of them.  The Map iterates them in the order of their
\* registration; here any order will do, that one included.
GoOn(p, left, passed, allowed) ==
  LET ahead == Ahead(p, left, passed) IN
  \/ /\ ahead = {}
     /\ Ends(p, "done")
  \/ \E q \in ahead :
       /\ visited' = [visited EXCEPT ![p] = passed]
       /\ remembered' = [remembered EXCEPT ![p] = allowed]
       /\ UNCHANGED <<target, kind>>
       /\ step' = [step EXCEPT ![p] = IF kind[p] = "reject" THEN "cascade" ELSE "check"]
       /\ item' = [item EXCEPT ![p] = q]

\* A deferred is completed once.
Settled(q, outcome) ==
  verdict' = [verdict EXCEPT ![q] = IF @ = "open" THEN outcome ELSE @]

\* The request is looked up, and Replied is published.  A reply to one that is not
\* pending fails and changes nothing.
Reply(p, q, k) ==
  /\ step[p] = "none"
  /\ q \in pending
  /\ target' = [target EXCEPT ![p] = q]
  /\ kind' = [kind EXCEPT ![p] = k]
  /\ step' = [step EXCEPT ![p] = "publish"]
  /\ UNCHANGED <<rules, saved, edits, calls, pending, verdict, item, visited, remembered, owed>>

\* A subscriber fails on Replied: the reply ends where it is.
ReplyDies(p) ==
  /\ step[p] \in {"publish", "cascade"}
  /\ Ends(p, "dead")
  /\ owed' = [owed EXCEPT ![p] = {}]
  /\ UNCHANGED <<rules, saved, edits, calls, pending, verdict>>

Remembers(p) == kind[p] = "always" /\ SaveOf[target[p]] # {}

\* A rejection fails the request, and turns to the others of its session.
Reject(p) ==
  /\ step[p] = "publish"
  /\ kind[p] = "reject"
  /\ Settled(target[p], "rejected")
  /\ pending' = pending \ {target[p]}
  /\ GoOn(p, pending', {}, {})
  /\ owed' = [owed EXCEPT ![p] = {q \in pending' : SessionOf[q] = SessionOf[target[p]]}]
  /\ UNCHANGED <<rules, saved, edits, calls>>

\* Mutation: the request leaves the Map, and its deferred is forgotten.
ApproveUnsettled(p) ==
  /\ step[p] = "publish"
  /\ kind[p] # "reject"
  /\ ~Remembers(p)
  /\ pending' = pending \ {target[p]}
  /\ Ends(p, "done")
  /\ UNCHANGED <<rules, saved, edits, calls, verdict, owed>>

Approve(p) ==
  /\ step[p] = "publish"
  /\ kind[p] # "reject"
  /\ ~Remembers(p)
  /\ Settled(target[p], "approved")
  /\ pending' = pending \ {target[p]}
  /\ Ends(p, "done")
  /\ UNCHANGED <<rules, saved, edits, calls, owed>>

Save(p) ==
  /\ step[p] = "publish"
  /\ Remembers(p)
  /\ saved' = saved \cup SaveOf[target[p]]
  /\ step' = [step EXCEPT ![p] = "saved"]
  /\ UNCHANGED <<rules, edits, calls, pending, verdict, target, kind, item, visited, remembered, owed>>

ApproveSaved(p) ==
  /\ step[p] = "saved"
  /\ Settled(target[p], "approved")
  /\ pending' = pending \ {target[p]}
  /\ step' = [step EXCEPT ![p] = "remember"]
  /\ UNCHANGED <<rules, saved, edits, calls, target, kind, item, visited, remembered, owed>>

\* The saved rules are read once for the whole loop.
Remember(p) ==
  /\ step[p] = "remember"
  /\ GoOn(p, pending, {}, saved)
  /\ owed' = [owed EXCEPT ![p] = {q \in pending : ~Denied(q, rules) /\ Covered(q, rules, saved)}]
  /\ UNCHANGED <<rules, saved, edits, calls, pending, verdict>>

\* The configured rules are read for each request: one they deny, or do not allow with
\* the saved ones, is passed over.
Check(p) ==
  /\ step[p] = "check"
  /\ IF ~Denied(item[p], rules) /\ Covered(item[p], rules, remembered[p])
     THEN /\ step' = [step EXCEPT ![p] = "cascade"]
          /\ UNCHANGED <<target, kind, item, visited, remembered>>
     ELSE GoOn(p, pending, visited[p] \cup {item[p]}, remembered[p])
  /\ UNCHANGED <<rules, saved, edits, calls, pending, verdict, owed>>

\* Replied is published for the request; it is settled, and the loop goes on.
Cascade(p) ==
  /\ step[p] = "cascade"
  /\ Settled(item[p], IF kind[p] = "reject" THEN "rejected" ELSE "approved")
  /\ pending' = pending \ {item[p]}
  /\ GoOn(p, pending', visited[p] \cup {item[p]}, remembered[p])
  /\ UNCHANGED <<rules, saved, edits, calls, owed>>
-----------------------------------------------------------------------------
(* Everybody else. *)

\* The agent or its configuration changes.
Configure ==
  /\ edits < MaxEdits
  /\ edits' = edits + 1
  /\ rules' \in Config \ {rules}
  /\ owed' = [p \in Replier |->
       IF kind[p] # "always" THEN owed[p]
       ELSE {q \in owed[p] : ~Denied(q, rules') /\ Covered(q, rules', remembered[p])}]
  /\ UNCHANGED <<saved, calls, pending, verdict, replies>>

\* A saved rule is removed.
Forget(r) ==
  /\ edits < MaxEdits
  /\ edits' = edits + 1
  /\ r \in saved
  /\ saved' = saved \ {r}
  /\ UNCHANGED <<rules, calls, pending, verdict, replies, owed>>

Next ==
  \/ \E q \in Request :
       \/ Evaluate(q) \/ EvaluateSaved(q) \/ Announced(q) \/ AnnounceFails(q)
       \/ Resume(q) \/ Interrupt(q)
  \/ \E p \in Replier :
       \/ \E q \in Request, k \in Kind : Reply(p, q, k)
       \/ ReplyDies(p) \/ Reject(p) \/ Approve(p) \/ Save(p) \/ ApproveSaved(p)
       \/ Remember(p) \/ Check(p) \/ Cascade(p)
  \/ Configure
  \/ \E r \in Resource : Forget(r)

Spec == Init /\ [][Next]_vars

\* Fibers that can run are run; nobody has to reply, and nothing has to fail.
Fairness ==
  /\ \A q \in Request : WF_vars(Announced(q)) /\ WF_vars(Resume(q))
  /\ \A p \in Replier :
       /\ WF_vars(Reject(p) \/ Approve(p) \/ Save(p))
       /\ WF_vars(ApproveSaved(p))
       /\ WF_vars(Remember(p))
       /\ WF_vars(Check(p))
       /\ WF_vars(Cascade(p))

FairSpec == Spec /\ Fairness
-----------------------------------------------------------------------------
\* Type invariant.
TypeOK ==
  /\ rules \in Config
  /\ saved \subseteq Resource
  /\ edits \in 0..MaxEdits
  /\ call \in [Request -> {"none", "denied", "evaluate", "announce", "waiting", "left",
                           "allowed", "rejected", "interrupted", "dead"}]
  /\ need \in [Request -> SUBSET Resource]
  /\ pending \subseteq Request
  /\ verdict \in [Request -> {"open", "approved", "rejected"}]
  /\ step \in [Replier -> {"none", "publish", "saved", "remember", "check",
                           "cascade", "done", "dead"}]
  /\ target \in [Replier -> Request \cup {None}]
  /\ kind \in [Replier -> Kind]
  /\ item \in [Replier -> Request \cup {None}]
  /\ visited \in [Replier -> SUBSET Request]
  /\ remembered \in [Replier -> SUBSET Resource]
  /\ owed \in [Replier -> SUBSET Request]

\* A request can be found and answered exactly while somebody may still need the answer:
\* no interleaving of replies, loops, interrupts and failed announcements loses a request
\* that is waited for, or keeps one whose call has returned.
PendingMatchesCalls ==
  \A q \in Request :
    q \in pending <=> call[q] \in {"announce", "waiting", "left"} /\ verdict[q] = "open"

\* A reply that ends has settled what it stands for: a rejection every request that its
\* session had pending, an "always" every request that the rules it saved allow and no
\* configured rule denied meanwhile.
ReplyReachesAll == \A p \in Replier : step[p] = "done" => owed[p] \cap pending = {}

\* Who was told that a request is answered sees its call go on, unless the publication
\* of an answer failed.
AnsweredReturns ==
  \A q \in Request :
    (\E p \in Replier : step[p] = "publish" /\ target[p] = q)
      ~> call[q] \notin {"announce", "waiting"} \/ \E p \in Replier : step[p] = "dead"
=============================================================================

--------------------------- MODULE PermissionProofs ---------------------------
(***************************************************************************)
(* Proofs about Permission, for any number of requests, replies and        *)
(* resources.                                                              *)
(*                                                                         *)
(* A request is registered once, before anybody can answer it; so what a   *)
(* reply has passed over or settled never becomes pending again, and what  *)
(* its loop still has to settle is ahead of it.                            *)
(***************************************************************************)
EXTENDS Permission, TLAPS

\* The request has been registered, or needed no answer.
Met(q) == call[q] \notin {"none", "evaluate", "denied"}

MetInv ==
  /\ \A q \in Request : verdict[q] # "open" => Met(q)
  /\ \A p \in Replier :
       /\ step[p] \in {"publish", "saved", "remember", "check", "cascade"} =>
            target[p] \in Request /\ Met(target[p])
       /\ step[p] \in {"check", "cascade"} => item[p] \in Request /\ Met(item[p])
       /\ \A q \in owed[p] : Met(q)

\* What a loop owes and has not settled is still ahead of it.
LoopInv ==
  \A p \in Replier :
    /\ step[p] \in {"none", "publish", "saved", "remember", "dead"} => owed[p] = {}
    /\ step[p] \in {"saved", "remember", "check"} => kind[p] = "always"
    /\ step[p] = "cascade" => kind[p] # "once"
    /\ step[p] \in {"check", "cascade"} => \A q \in owed[p] :
         /\ q \in pending => q \notin visited[p]
         /\ kind[p] = "reject" => SessionOf[q] = SessionOf[target[p]]
         /\ kind[p] = "always" => ~Denied(q, rules) /\ Covered(q, rules, remembered[p])

IInv == TypeOK /\ PendingMatchesCalls /\ MetInv /\ LoopInv /\ ReplyReachesAll

THEOREM Start == Init => IInv
<1> SUFFICES ASSUME Init PROVE IInv
  OBVIOUS
<1> USE RequestShape, NoneIsNoRequest, MaxEditsIsNat DEF Init
<1>1. TypeOK
  BY DEF TypeOK, Kind
<1>2. PendingMatchesCalls
  BY DEF PendingMatchesCalls
<1>3. MetInv
  BY DEF MetInv, Met
<1>4. LoopInv
  BY DEF LoopInv
<1>5. ReplyReachesAll
  BY DEF ReplyReachesAll
<1> QED BY <1>1, <1>2, <1>3, <1>4, <1>5 DEF IInv

\* One step of a loop changes what is recorded of its own reply only, which ends or turns
\* to a request ahead of it.
RepliesType ==
  /\ step \in [Replier -> {"none", "publish", "saved", "remember", "check", "cascade", "done", "dead"}]
  /\ target \in [Replier -> Request \cup {None}]
  /\ kind \in [Replier -> Kind]
  /\ item \in [Replier -> Request \cup {None}]
  /\ visited \in [Replier -> SUBSET Request]
  /\ remembered \in [Replier -> SUBSET Resource]

LEMMA EndsType ==
  ASSUME RepliesType, NEW p \in Replier, NEW how \in {"done", "dead"}, Ends(p, how)
  PROVE  RepliesType'
BY DEF RepliesType, Ends, Kind

LEMMA GoOnType ==
  ASSUME RepliesType, NEW p \in Replier, NEW left \in SUBSET Request, NEW passed \in SUBSET Request,
         NEW allowed \in SUBSET Resource, GoOn(p, left, passed, allowed)
  PROVE  RepliesType'
<1>1. CASE Ends(p, "done")
  BY <1>1, EndsType
<1>2. ASSUME NEW q \in Ahead(p, left, passed),
             visited' = [visited EXCEPT ![p] = passed],
             remembered' = [remembered EXCEPT ![p] = allowed],
             UNCHANGED <<target, kind>>,
             step' = [step EXCEPT ![p] = IF kind[p] = "reject" THEN "cascade" ELSE "check"],
             item' = [item EXCEPT ![p] = q]
      PROVE  RepliesType'
  BY <1>2 DEF RepliesType, Ahead
<1> QED BY <1>1, <1>2 DEF GoOn

LEMMA GoOnResult ==
  ASSUME RepliesType, NEW p \in Replier, NEW left, NEW passed, NEW allowed,
         GoOn(p, left, passed, allowed)
  PROVE  /\ \A o \in Replier \ {p} :
              /\ step'[o] = step[o] /\ target'[o] = target[o] /\ kind'[o] = kind[o]
              /\ item'[o] = item[o] /\ visited'[o] = visited[o] /\ remembered'[o] = remembered[o]
         /\ \/ step'[p] = "done" /\ Ahead(p, left, passed) = {}
            \/ /\ step'[p] = IF kind[p] = "reject" THEN "cascade" ELSE "check"
               /\ item'[p] \in Ahead(p, left, passed)
               /\ target'[p] = target[p] /\ kind'[p] = kind[p]
               /\ visited'[p] = passed /\ remembered'[p] = allowed
BY DEF RepliesType, GoOn, Ends

LEMMA EvaluateKeeps ==
  ASSUME IInv, NEW q \in Request, Evaluate(q)
  PROVE  IInv'
<1> USE RequestShape, NoneIsNoRequest DEF IInv, TypeOK, Evaluate, calls, replies
<1>1. TypeOK'
  <2>1. {r \in ResourcesOf[q] : rules[r] # "allow"} \in SUBSET Resource
    OBVIOUS
  <2>2. need' \in [Request -> SUBSET Resource]
    BY <2>1
  <2> QED BY <2>2
<1>2. PendingMatchesCalls'
  BY DEF PendingMatchesCalls
<1>3. MetInv'
  BY DEF MetInv, Met
<1>4. LoopInv'
  BY DEF LoopInv
<1>5. ReplyReachesAll'
  BY DEF ReplyReachesAll
<1> QED BY <1>1, <1>2, <1>3, <1>4, <1>5

LEMMA EvaluateSavedKeeps ==
  ASSUME IInv, NEW q \in Request, EvaluateSaved(q)
  PROVE  IInv'
<1> USE RequestShape, NoneIsNoRequest DEF IInv, TypeOK, EvaluateSaved, calls, replies
<1>1. TypeOK'
  BY MaxEditsIsNat DEF Kind, PendingMatchesCalls, MetInv, LoopInv
<1>2. PendingMatchesCalls'
  BY DEF PendingMatchesCalls, MetInv, Met, LoopInv
<1>3. MetInv'
  BY DEF PendingMatchesCalls, MetInv, Met, LoopInv
<1>4. LoopInv'
  BY DEF PendingMatchesCalls, MetInv, Met, LoopInv
<1>5. ReplyReachesAll'
  BY DEF PendingMatchesCalls, MetInv, Met, LoopInv, ReplyReachesAll
<1> QED BY <1>1, <1>2, <1>3, <1>4, <1>5

LEMMA AnnouncedKeeps ==
  ASSUME IInv, NEW q \in Request, Announced(q)
  PROVE  IInv'
<1> USE RequestShape, NoneIsNoRequest DEF IInv, TypeOK, Announced, calls, replies
<1>1. TypeOK'
  BY MaxEditsIsNat DEF Kind, PendingMatchesCalls, MetInv, LoopInv
<1>2. PendingMatchesCalls'
  BY DEF PendingMatchesCalls, MetInv, Met, LoopInv
<1>3. MetInv'
  BY DEF PendingMatchesCalls, MetInv, Met, LoopInv
<1>4. LoopInv'
  BY DEF PendingMatchesCalls, MetInv, Met, LoopInv
<1>5. ReplyReachesAll'
  BY DEF PendingMatchesCalls, MetInv, Met, LoopInv, ReplyReachesAll
<1> QED BY <1>1, <1>2, <1>3, <1>4, <1>5

LEMMA AnnounceFailsKeeps ==
  ASSUME IInv, NEW q \in Request, AnnounceFails(q)
  PROVE  IInv'
<1> USE RequestShape, NoneIsNoRequest DEF IInv, TypeOK, AnnounceFails, calls, replies
<1>1. TypeOK'
  BY MaxEditsIsNat DEF Kind, PendingMatchesCalls, MetInv, LoopInv
<1>2. PendingMatchesCalls'
  BY DEF PendingMatchesCalls, MetInv, Met, LoopInv
<1>3. MetInv'
  BY DEF PendingMatchesCalls, MetInv, Met, LoopInv
<1>4. LoopInv'
  BY DEF PendingMatchesCalls, MetInv, Met, LoopInv
<1>5. ReplyReachesAll'
  BY DEF PendingMatchesCalls, MetInv, Met, LoopInv, ReplyReachesAll
<1> QED BY <1>1, <1>2, <1>3, <1>4, <1>5

LEMMA ResumeKeeps ==
  ASSUME IInv, NEW q \in Request, Resume(q)
  PROVE  IInv'
<1> USE RequestShape, NoneIsNoRequest DEF IInv, TypeOK, Resume, calls, replies
<1>1. TypeOK'
  BY MaxEditsIsNat DEF Kind, PendingMatchesCalls, MetInv, LoopInv
<1>2. PendingMatchesCalls'
  BY DEF PendingMatchesCalls, MetInv, Met, LoopInv
<1>3. MetInv'
  BY DEF PendingMatchesCalls, MetInv, Met, LoopInv
<1>4. LoopInv'
  BY DEF PendingMatchesCalls, MetInv, Met, LoopInv
<1>5. ReplyReachesAll'
  BY DEF PendingMatchesCalls, MetInv, Met, LoopInv, ReplyReachesAll
<1> QED BY <1>1, <1>2, <1>3, <1>4, <1>5

LEMMA InterruptKeeps ==
  ASSUME IInv, NEW q \in Request, Interrupt(q)
  PROVE  IInv'
<1> USE RequestShape, NoneIsNoRequest DEF IInv, TypeOK, Interrupt, calls, replies
<1>1. TypeOK'
  BY MaxEditsIsNat DEF Kind, PendingMatchesCalls, MetInv, LoopInv
<1>2. PendingMatchesCalls'
  BY DEF PendingMatchesCalls, MetInv, Met, LoopInv
<1>3. MetInv'
  BY DEF PendingMatchesCalls, MetInv, Met, LoopInv
<1>4. LoopInv'
  BY DEF PendingMatchesCalls, MetInv, Met, LoopInv
<1>5. ReplyReachesAll'
  BY DEF PendingMatchesCalls, MetInv, Met, LoopInv, ReplyReachesAll
<1> QED BY <1>1, <1>2, <1>3, <1>4, <1>5

LEMMA ReplyKeeps ==
  ASSUME IInv, NEW p \in Replier, NEW q \in Request, NEW k \in Kind, Reply(p, q, k)
  PROVE  IInv'
<1> USE RequestShape, NoneIsNoRequest DEF IInv, TypeOK, Reply, calls, replies
<1>1. TypeOK'
  BY MaxEditsIsNat DEF Kind, PendingMatchesCalls, MetInv, LoopInv
<1>2. PendingMatchesCalls'
  BY DEF PendingMatchesCalls, MetInv, Met, LoopInv
<1>3. MetInv'
  BY DEF PendingMatchesCalls, MetInv, Met, LoopInv
<1>4. LoopInv'
  BY DEF PendingMatchesCalls, MetInv, Met, LoopInv
<1>5. ReplyReachesAll'
  BY DEF PendingMatchesCalls, MetInv, Met, LoopInv, ReplyReachesAll
<1> QED BY <1>1, <1>2, <1>3, <1>4, <1>5

LEMMA ReplyDiesKeeps ==
  ASSUME IInv, NEW p \in Replier, ReplyDies(p)
  PROVE  IInv'
<1> USE RequestShape, NoneIsNoRequest DEF IInv, TypeOK, ReplyDies, Ends, calls, replies
<1>1. TypeOK'
  BY MaxEditsIsNat DEF Kind, PendingMatchesCalls, MetInv, LoopInv
<1>2. PendingMatchesCalls'
  BY DEF PendingMatchesCalls, MetInv, Met, LoopInv
<1>3. MetInv'
  BY DEF PendingMatchesCalls, MetInv, Met, LoopInv
<1>4. LoopInv'
  BY DEF PendingMatchesCalls, MetInv, Met, LoopInv
<1>5. ReplyReachesAll'
  BY DEF PendingMatchesCalls, MetInv, Met, LoopInv, ReplyReachesAll
<1> QED BY <1>1, <1>2, <1>3, <1>4, <1>5

LEMMA RejectKeeps ==
  ASSUME IInv, NEW p \in Replier, Reject(p)
  PROVE  IInv'
<1> USE RequestShape, NoneIsNoRequest DEF IInv, TypeOK, Reject, Settled, calls
<1> DEFINE left == pending'
           passed == {}
           allowed == {}
<1>t. /\ RepliesType /\ left \in SUBSET Request /\ passed \in SUBSET Request
      /\ allowed \in SUBSET Resource
  BY DEF RepliesType, LoopInv, MetInv
<1>g. GoOn(p, left, passed, allowed)
  OBVIOUS
<1> HIDE DEF left, passed, allowed
<1>r. RepliesType'
  BY <1>t, <1>g, GoOnType
<1>o. /\ \A o \in Replier \ {p} :
           /\ step'[o] = step[o] /\ target'[o] = target[o] /\ kind'[o] = kind[o]
           /\ item'[o] = item[o] /\ visited'[o] = visited[o] /\ remembered'[o] = remembered[o]
      /\ \/ step'[p] = "done" /\ Ahead(p, left, passed) = {}
         \/ /\ step'[p] = IF kind[p] = "reject" THEN "cascade" ELSE "check"
            /\ item'[p] \in Ahead(p, left, passed)
            /\ target'[p] = target[p] /\ kind'[p] = kind[p]
            /\ visited'[p] = passed /\ remembered'[p] = allowed
  BY <1>t, <1>g, GoOnResult
<1> USE DEF left, passed, allowed
<1>1. TypeOK'
  BY <1>r DEF RepliesType, LoopInv
<1>2. PendingMatchesCalls'
  BY DEF PendingMatchesCalls, MetInv, Met, LoopInv
<1>3. MetInv'
  BY <1>o DEF PendingMatchesCalls, MetInv, Met, LoopInv, Ahead
<1>4. LoopInv'
  BY <1>o DEF PendingMatchesCalls, MetInv, Met, LoopInv, Ahead
<1>5. ReplyReachesAll'
  BY <1>o DEF PendingMatchesCalls, MetInv, Met, LoopInv, ReplyReachesAll, Ahead
<1> QED BY <1>1, <1>2, <1>3, <1>4, <1>5

LEMMA ApproveKeeps ==
  ASSUME IInv, NEW p \in Replier, Approve(p)
  PROVE  IInv'
<1> USE RequestShape, NoneIsNoRequest DEF IInv, TypeOK, Approve, Ends, Settled, calls, replies
<1>1. TypeOK'
  BY MaxEditsIsNat DEF Kind, PendingMatchesCalls, MetInv, LoopInv
<1>2. PendingMatchesCalls'
  BY DEF PendingMatchesCalls, MetInv, Met, LoopInv
<1>3. MetInv'
  BY DEF PendingMatchesCalls, MetInv, Met, LoopInv
<1>4. LoopInv'
  BY DEF PendingMatchesCalls, MetInv, Met, LoopInv
<1>5. ReplyReachesAll'
  BY DEF PendingMatchesCalls, MetInv, Met, LoopInv, ReplyReachesAll
<1> QED BY <1>1, <1>2, <1>3, <1>4, <1>5

LEMMA SaveKeeps ==
  ASSUME IInv, NEW p \in Replier, Save(p)
  PROVE  IInv'
<1> USE RequestShape, NoneIsNoRequest DEF IInv, TypeOK, Save, Remembers, calls, replies
<1>1. TypeOK'
  BY MaxEditsIsNat DEF Kind, PendingMatchesCalls, MetInv, LoopInv
<1>2. PendingMatchesCalls'
  BY DEF PendingMatchesCalls, MetInv, Met, LoopInv
<1>3. MetInv'
  BY DEF PendingMatchesCalls, MetInv, Met, LoopInv
<1>4. LoopInv'
  BY DEF PendingMatchesCalls, MetInv, Met, LoopInv
<1>5. ReplyReachesAll'
  BY DEF PendingMatchesCalls, MetInv, Met, LoopInv, ReplyReachesAll
<1> QED BY <1>1, <1>2, <1>3, <1>4, <1>5

LEMMA ApproveSavedKeeps ==
  ASSUME IInv, NEW p \in Replier, ApproveSaved(p)
  PROVE  IInv'
<1> USE RequestShape, NoneIsNoRequest DEF IInv, TypeOK, ApproveSaved, Settled, Remembers, calls, replies
<1>1. TypeOK'
  BY MaxEditsIsNat DEF Kind, PendingMatchesCalls, MetInv, LoopInv
<1>2. PendingMatchesCalls'
  BY DEF PendingMatchesCalls, MetInv, Met, LoopInv
<1>3. MetInv'
  BY DEF PendingMatchesCalls, MetInv, Met, LoopInv
<1>4. LoopInv'
  BY DEF PendingMatchesCalls, MetInv, Met, LoopInv
<1>5. ReplyReachesAll'
  BY DEF PendingMatchesCalls, MetInv, Met, LoopInv, ReplyReachesAll
<1> QED BY <1>1, <1>2, <1>3, <1>4, <1>5

LEMMA RememberKeeps ==
  ASSUME IInv, NEW p \in Replier, Remember(p)
  PROVE  IInv'
<1> USE RequestShape, NoneIsNoRequest DEF IInv, TypeOK, Remember, calls
<1> DEFINE left == pending
           passed == {}
           allowed == saved
<1>t. /\ RepliesType /\ left \in SUBSET Request /\ passed \in SUBSET Request
      /\ allowed \in SUBSET Resource
  BY DEF RepliesType, LoopInv, MetInv
<1>g. GoOn(p, left, passed, allowed)
  OBVIOUS
<1> HIDE DEF left, passed, allowed
<1>r. RepliesType'
  BY <1>t, <1>g, GoOnType
<1>o. /\ \A o \in Replier \ {p} :
           /\ step'[o] = step[o] /\ target'[o] = target[o] /\ kind'[o] = kind[o]
           /\ item'[o] = item[o] /\ visited'[o] = visited[o] /\ remembered'[o] = remembered[o]
      /\ \/ step'[p] = "done" /\ Ahead(p, left, passed) = {}
         \/ /\ step'[p] = IF kind[p] = "reject" THEN "cascade" ELSE "check"
            /\ item'[p] \in Ahead(p, left, passed)
            /\ target'[p] = target[p] /\ kind'[p] = kind[p]
            /\ visited'[p] = passed /\ remembered'[p] = allowed
  BY <1>t, <1>g, GoOnResult
<1> USE DEF left, passed, allowed
<1>1. TypeOK'
  BY <1>r DEF RepliesType, LoopInv
<1>2. PendingMatchesCalls'
  BY DEF PendingMatchesCalls, MetInv, Met, LoopInv
<1>w. owed'[p] \subseteq pending /\ \A o \in Replier \ {p} : owed'[o] = owed[o]
  OBVIOUS
<1>3. MetInv'
  <2>1. \A q \in pending : Met(q)'
    BY DEF PendingMatchesCalls, Met
  <2>2. \A q \in Request : Met(q)' <=> Met(q)
    BY DEF Met
  <2>3. /\ step'[p] \in {"check", "cascade"} => item'[p] \in Request /\ Met(item'[p])
        /\ Met(target[p])
    BY <1>o, <2>1, <2>2 DEF MetInv, Met, Ahead
  <2> QED BY <1>o, <1>w, <2>1, <2>2, <2>3 DEF MetInv, Met
<1>4. LoopInv'
  BY <1>o DEF PendingMatchesCalls, MetInv, Met, LoopInv, Ahead
<1>5. ReplyReachesAll'
  BY <1>o DEF PendingMatchesCalls, MetInv, Met, LoopInv, ReplyReachesAll, Ahead
<1> QED BY <1>1, <1>2, <1>3, <1>4, <1>5

LEMMA CheckKeeps ==
  ASSUME IInv, NEW p \in Replier, Check(p)
  PROVE  IInv'
<1> USE RequestShape, NoneIsNoRequest DEF IInv, TypeOK, Check, calls
<1> DEFINE passed == visited[p] \cup {item[p]}
<1>t. RepliesType /\ item[p] \in Request /\ passed \in SUBSET Request /\ remembered[p] \in SUBSET Resource
  BY DEF RepliesType, MetInv
<1>1. CASE ~Denied(item[p], rules) /\ Covered(item[p], rules, remembered[p])
  <2> USE <1>1
  <2>1. TypeOK'
    OBVIOUS
  <2>2. PendingMatchesCalls' /\ MetInv'
    BY DEF PendingMatchesCalls, MetInv, Met
  <2>3. LoopInv'
    BY DEF LoopInv
  <2>4. ReplyReachesAll'
    BY DEF ReplyReachesAll
  <2> QED BY <2>1, <2>2, <2>3, <2>4
<1>2. CASE ~(~Denied(item[p], rules) /\ Covered(item[p], rules, remembered[p]))
  <2>g. GoOn(p, pending, passed, remembered[p])
    BY <1>2
  <2> HIDE DEF passed
  <2>r. RepliesType'
    BY <1>t, <2>g, GoOnType
  <2>o. /\ \A o \in Replier \ {p} :
             /\ step'[o] = step[o] /\ target'[o] = target[o] /\ kind'[o] = kind[o]
             /\ item'[o] = item[o] /\ visited'[o] = visited[o] /\ remembered'[o] = remembered[o]
        /\ \/ step'[p] = "done" /\ Ahead(p, pending, passed) = {}
           \/ /\ step'[p] = IF kind[p] = "reject" THEN "cascade" ELSE "check"
              /\ item'[p] \in Ahead(p, pending, passed)
              /\ target'[p] = target[p] /\ kind'[p] = kind[p]
              /\ visited'[p] = passed /\ remembered'[p] = remembered[p]
    BY <1>t, <2>g, GoOnResult
  <2>n. item[p] \notin owed[p]
    BY <1>2 DEF LoopInv
  <2> USE DEF passed
  <2>1. TypeOK'
    BY <2>r DEF RepliesType
  <2>2. PendingMatchesCalls'
    BY DEF PendingMatchesCalls
  <2>3. MetInv'
    BY <2>o DEF PendingMatchesCalls, MetInv, Met, Ahead
  <2>4. LoopInv'
    BY <2>o, <2>n DEF LoopInv
  <2>5. ReplyReachesAll'
    BY <2>o, <2>n DEF LoopInv, ReplyReachesAll, Ahead
  <2> QED BY <2>1, <2>2, <2>3, <2>4, <2>5
<1> QED BY <1>1, <1>2

LEMMA CascadeKeeps ==
  ASSUME IInv, NEW p \in Replier, Cascade(p)
  PROVE  IInv'
<1> USE RequestShape, NoneIsNoRequest DEF IInv, TypeOK, Cascade, Settled, calls
<1> DEFINE left == pending'
           passed == visited[p] \cup {item[p]}
           allowed == remembered[p]
<1>t. /\ RepliesType /\ left \in SUBSET Request /\ passed \in SUBSET Request
      /\ allowed \in SUBSET Resource
  BY DEF RepliesType, LoopInv, MetInv
<1>g. GoOn(p, left, passed, allowed)
  OBVIOUS
<1> HIDE DEF left, passed, allowed
<1>r. RepliesType'
  BY <1>t, <1>g, GoOnType
<1>o. /\ \A o \in Replier \ {p} :
           /\ step'[o] = step[o] /\ target'[o] = target[o] /\ kind'[o] = kind[o]
           /\ item'[o] = item[o] /\ visited'[o] = visited[o] /\ remembered'[o] = remembered[o]
      /\ \/ step'[p] = "done" /\ Ahead(p, left, passed) = {}
         \/ /\ step'[p] = IF kind[p] = "reject" THEN "cascade" ELSE "check"
            /\ item'[p] \in Ahead(p, left, passed)
            /\ target'[p] = target[p] /\ kind'[p] = kind[p]
            /\ visited'[p] = passed /\ remembered'[p] = allowed
  BY <1>t, <1>g, GoOnResult
<1> USE DEF left, passed, allowed
<1>1. TypeOK'
  BY <1>r DEF RepliesType, LoopInv
<1>2. PendingMatchesCalls'
  BY DEF PendingMatchesCalls, MetInv, Met, LoopInv
<1>3. MetInv'
  BY <1>o DEF PendingMatchesCalls, MetInv, Met, LoopInv, Ahead
<1>4. LoopInv'
  <2>1. item[p] \notin pending' /\ pending' \subseteq pending /\ UNCHANGED <<owed, rules>>
    OBVIOUS
  <2>2. kind[p] # "once" /\ (kind[p] \in Kind => kind[p] = "reject" \/ kind[p] = "always")
    BY DEF LoopInv, Kind
  <2>3. \A o \in Replier \ {p} : \A q \in owed[o] : q \in pending' => q \in pending
    BY <2>1
  <2> QED BY <1>o, <2>1, <2>2, <2>3 DEF LoopInv
<1>5. ReplyReachesAll'
  BY <1>o DEF PendingMatchesCalls, MetInv, Met, LoopInv, ReplyReachesAll, Ahead
<1> QED BY <1>1, <1>2, <1>3, <1>4, <1>5

LEMMA ConfigureKeeps ==
  ASSUME IInv, Configure
  PROVE  IInv'
<1> USE RequestShape, NoneIsNoRequest DEF IInv, TypeOK, Configure, calls, replies
<1>1. TypeOK'
  BY MaxEditsIsNat DEF Kind, PendingMatchesCalls, MetInv, LoopInv
<1>2. PendingMatchesCalls'
  BY DEF PendingMatchesCalls, MetInv, Met, LoopInv
<1>3. MetInv'
  BY DEF PendingMatchesCalls, MetInv, Met, LoopInv
<1>4. LoopInv'
  BY DEF PendingMatchesCalls, MetInv, Met, LoopInv
<1>5. ReplyReachesAll'
  BY DEF PendingMatchesCalls, MetInv, Met, LoopInv, ReplyReachesAll
<1> QED BY <1>1, <1>2, <1>3, <1>4, <1>5

LEMMA ForgetKeeps ==
  ASSUME IInv, NEW r \in Resource, Forget(r)
  PROVE  IInv'
<1> USE RequestShape, NoneIsNoRequest DEF IInv, TypeOK, Forget, calls, replies
<1>1. TypeOK'
  BY MaxEditsIsNat DEF Kind, PendingMatchesCalls, MetInv, LoopInv
<1>2. PendingMatchesCalls'
  BY DEF PendingMatchesCalls, MetInv, Met, LoopInv
<1>3. MetInv'
  BY DEF PendingMatchesCalls, MetInv, Met, LoopInv
<1>4. LoopInv'
  BY DEF PendingMatchesCalls, MetInv, Met, LoopInv
<1>5. ReplyReachesAll'
  BY DEF PendingMatchesCalls, MetInv, Met, LoopInv, ReplyReachesAll
<1> QED BY <1>1, <1>2, <1>3, <1>4, <1>5

LEMMA StutterKeeps ==
  ASSUME IInv, UNCHANGED vars
  PROVE  IInv'
BY DEF IInv, TypeOK, PendingMatchesCalls, MetInv, Met, LoopInv, ReplyReachesAll, vars, calls, replies

THEOREM Inductive == Spec => []IInv
<1>1. ASSUME IInv, [Next]_vars PROVE IInv'
  BY <1>1, StutterKeeps, EvaluateKeeps, EvaluateSavedKeeps, AnnouncedKeeps, AnnounceFailsKeeps,
     ResumeKeeps, InterruptKeeps, ReplyKeeps, ReplyDiesKeeps, RejectKeeps, ApproveKeeps,
     SaveKeeps, ApproveSavedKeeps, RememberKeeps, CheckKeeps, CascadeKeeps, ConfigureKeeps,
     ForgetKeeps
  DEF Next
<1> QED BY <1>1, Start, PTL DEF Spec

-----------------------------------------------------------------------------
\* Every variable keeps to its type.
THEOREM TypeCorrect == Spec => []TypeOK
<1>1. IInv => TypeOK
  BY DEF IInv
<1> QED BY <1>1, Inductive, PTL

\* The Map of pending requests holds exactly those that somebody may still need answered.
THEOREM PendingIsRight == Spec => []PendingMatchesCalls
<1>1. IInv => PendingMatchesCalls
  BY DEF IInv
<1> QED BY <1>1, Inductive, PTL

\* A reply (the loops of reply) ends when it has settled all it stands for.
THEOREM RepliesReach == Spec => []ReplyReachesAll
<1>1. IInv => ReplyReachesAll
  BY DEF IInv
<1> QED BY <1>1, Inductive, PTL
=============================================================================

---------------------------- MODULE MCSessionCore ----------------------------
(* Instances of SessionCore for TLC. *)
EXTENDS SessionCore, TLC

Symmetry == Permutations(Id) \cup Permutations(Client)

\* The first message ID to be admitted; the IDs are alike.
First == CHOOSE id \in Id : TRUE

\* Every revert, but no crash, which withdraws what was asked, and no resume, which asks
\* for nothing.
NextLive ==
  /\ \/ \E c \in Client : Prompt(c) \/ Revert(c)
     \/ Interrupt
     \/ DrainBegin \/ DrainStep \/ CallProvider \/ Compact \/ TurnContinues \/ TurnEnds
     \/ DrainSucceeds \/ DrainFails
  /\ seq = 0 => \A c \in Client : call'[c] = Idle \/ call'[c].id = First

SpecLive == Init /\ [][NextLive]_vars /\ Fairness
=============================================================================

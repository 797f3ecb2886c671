\* Three calls, in one turn or in several; no symmetry: liveness.
CONSTANTS
  Call = {a1, a2, a3}
  NoCall = NoCall
SPECIFICATION FairSpec
INVARIANTS SettledOnce ResultIsKept SettledBeforeRequest
PROPERTIES QuestionHalts InterruptEnds

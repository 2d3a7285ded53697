\* Two participants and a stranger; rosters and lists of reveals of up to three.
SPECIFICATION Spec
CONSTANTS
  Participants = {p1, p2}
  Stranger = stranger
  Channels = {lan, wan}
  Agora = agora
  None = None
  MaxDraws = 3
  MaxRounds = 2
  MaxRoster = 3
INVARIANTS ContributionsFixedFirst AnotherContributes ContextsAgreeExactly NoPseudonymTwice
SYMMETRY RoundSymmetry
CHECK_DEADLOCK FALSE

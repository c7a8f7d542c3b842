SPECIFICATION MCSpec
CONSTANTS
  s1 = s1
  s2 = s2
  c1 = c1
  c2 = c2
  n1 = n1
  n2 = n2
  Skills = {s1, s2}
  Categories = {c1, c2}
  Names = {n1, n2}
  Base <- OneBase
  Text <- TheText
  Answers <- SomeAnswers
  Weights = {1, 3}
  Handlers = {h1, h2}
  Calculators = {k1, k2}
  Years = 2
  MaxTop = 1
  MaxCandidates = 2
  MaxOthers = 1
  MaxRequests = 3
  MaxFaults = 1
  Clear = Clear
  None = None
SYMMETRY Alike
INVARIANTS
  CatalogueIsSoundInSequence
  FoundMatchIsCurrentInSequence
  FoundSkillMatchIsCurrent
  OnlyOfferedIsLinkedInSequence
CHECK_DEADLOCK FALSE

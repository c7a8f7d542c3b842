SPECIFICATION Spec
CONSTANTS
  Groups <- AllGroups
  Queries <- FollowedQueries
  Commands <- AllCommands
  Unversioned <- Deleted
  Known <- NotFollowed
  Readers = {r1, r2}
  Handlers = {h1, h2}
  MaxCommands = 2
  MaxFaults = 1
SYMMETRY Symmetry
INVARIANTS
  CurrentEntryIsFresh
  AnswersFollowCommands

SPECIFICATION MCSpec
CONSTANTS
  u1 = u1
  Users = {u1}
  Jobs = {j1}
  Cvs = {c1}
  Owner <- OneCandidate
  AppIds = {a1, a2}
  Handlers = {h1, h2}
  MaxFaults = 1
  NoRow = NoRow
  Idle = Idle
SYMMETRY Symmetry
INVARIANTS
  OneApplicationPerUserJob
  MailsTellWhatHappened
  StaleIsOwedOrLost
  RowsAgreeInSequence
  MailsMatchStatusInSequence
PROPERTIES
  KeepsPromise
  StatusFollowsTableInSequence

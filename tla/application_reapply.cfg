SPECIFICATION MCSpec
CONSTANTS
  u1 = u1
  Users = {u1}
  Jobs = {j1}
  Cvs = {c1}
  Owner <- OneCandidate
  AppIds = {a1, a2}
  Handlers = {h1}
  MaxFaults = 0
  NoRow = NoRow
  Idle = Idle
PROPERTY
  EligibleApplicationIsCreated

SPECIFICATION MCSpec
CONSTANTS
  Handlers = {h1, h2}
  Emails = {e1}
  Unknown = Unknown
  MaxFailIp = 3
  MaxFailEmailIp = 2
  MaxOtpFail = 2
  MaxResend = 3
  MaxIpRequest = 1
  MaxUploads = 2
  Cooldown = 1
  OneMinute = 2
  TenMinutes = 3
  HalfHour = 4
  OneHour = 5
  MaxFaults = 1
  Sides = {"password"}
  MaxRequests = 6
  Keys = {k1, k2}
  NoKey = NoKey
  MaxPasswords = 2
SYMMETRY Alike
INVARIANTS
  SupersededKeyIsDeadInSequence
  OldPasswordIsOut
CHECK_DEADLOCK FALSE

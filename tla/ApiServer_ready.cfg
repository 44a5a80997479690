SPECIFICATION ApiSpec
CONSTANTS
  Callers = {c1, c2}
  Dependencies = {postgres, other}
  Pending = Pending
  Down = Down
  None = None
  Unit = 2
  Rate <- MCRate
  Burst <- MCBurst
  Timeout = 1
  TTL = 1
  MaxTime = 2
INVARIANTS
  AdmissionsAreBounded
  OneCheckAtATime
  AnswersAreRecent
PROPERTY WaitersAreWoken
CHECK_DEADLOCK FALSE

SPECIFICATION AuditSpec
CONSTANTS
  Executors = {x1}
  Keys = {k1}
  NoKey = NoKey
  ErrorKinds = {"transient"}
INVARIANT RetryCanSucceed

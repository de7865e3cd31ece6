SPECIFICATION FairSpec
CONSTANTS
  own = own
  ctl = ctl
  rco = rco
  nobody = nobody
  e1 = e1
  e2 = e2
  h1 = h1
  noexec = noexec
  Principals = {own, ctl, rco}
  Profile <- MCProfile
  Nobody = nobody
  Templates <- Drifting
  ObjectPeriod = 2
  HoldKinds <- MCKinds
  MaxPolicies = 2
  HoldIds = {h1}
  KindOf <- OneOther
  ExecIds = {e1, e2}
  NoExec = noexec
  MaxRequests = 2
INVARIANTS
  TypeOK PurgedOnce ClosedKeysTellTheTruth SeparationOfDuties ProjectionFollows
  AbsenceDocumented AtMostOneLiveIntent
PROPERTIES
  ClosedAttemptsAreFinal ImplementsLifecycle UnlinkGuarded RecoveryConverges

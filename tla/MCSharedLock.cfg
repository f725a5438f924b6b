SPECIFICATION FairSpec
CONSTANTS
  Server = Server
  Nobody = Nobody
  Pids = {a1, a2}
  MaxConn = 2
  MaxFailures = 1
  FdReuse = TRUE
INVARIANTS TypeOK ExclusionWhileConnected NeverWaitsForItself
PROPERTIES StolenOnlyAfterLoss ServerRecoversLock RendererSurvivesServerDeath
CHECK_DEADLOCK FALSE

SPECIFICATION FairSpec
CONSTANTS
  Server = Server
  Nobody = Nobody
  Pids = {a1, a2}
  MaxConn = 2
  MaxFailures = 0
  FdReuse = FALSE
PROPERTY ServerSurvivesActivityDeath
CHECK_DEADLOCK FALSE

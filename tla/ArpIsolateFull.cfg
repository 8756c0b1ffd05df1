SPECIFICATION FairSpec
CONSTANTS
  a1 = a1
  camera = camera
  router1 = router1
  router2 = router2
  Actions = {a1}
  MacOf <- OneVictim
  ProtectedMacs = {}
  GatewayMacs = {router1, router2}
  FirstGateway = router1
  Sensor = sensor
  NoMac = NoMac
  NoAction = NoAction
  Calls = {c1, c2}
  Loops = {l1, l2}
  NoLoop = NoLoop
  TTL = 1
  Rounds = 2
INVARIANT TypeOK
INVARIANT NoOrphanLoop
INVARIANT FramesUseCurrentGateway
PROPERTY ReleasedIsLeftAlone
CHECK_DEADLOCK FALSE

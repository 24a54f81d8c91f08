SPECIFICATION FairSpec
CONSTANTS
  Bufs = {1, 2}
  Hosts = {"h1", "h2"}
  QueueSize = 1
  ArpSize = 1
  ArpWait = 1
  StableTmo = 1
  PendingTmo = 2
  ArpRetry = 2
  RecvMax = 1
  SocketMax = 1
  Ports = {1}
  Tasks = {"t1", "t2"}
INVARIANTS BuffersAccounted TablesSound
PROPERTIES UdpCloseReturns NoPacketWaitsForever

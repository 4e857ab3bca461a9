\* A runner and a client; one fault anywhere, and crashes.
CONSTANTS
  runner = runner
  client = client
  boot = boot
  Relay = relay
  NoPeer = NoPeer
  Runner <- MCRunner
  Client <- MCClient
  Bootstrap <- MCBootstrap
  BootstrapPeerIDs <- MCBootstrap
  MaxFault = 1
SPECIFICATION FairSpec
INVARIANTS DiscoveryInv ServedUnlessStale NobodyPassedOver
PROPERTIES Promise StartupEnds StaysFindable
CHECK_DEADLOCK FALSE

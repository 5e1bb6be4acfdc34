SPECIFICATION FairSpec
CONSTANTS
  Peers = {p1, p2}
  NoPeer = NoPeer
  MaxLogins = 2
  MaxClicks = 2
  MaxFaults = 1
  MaxStatus = 2
  WireCap = 1
INVARIANTS
  TypeOK
  LoggedOutIsQuiet
  OneNegotiation
  FlagsAreBacked
  StreamIsKept
PROPERTIES
  StatusNeverGoesBack
  ScreenCatchesUp
  VideoSettles
  PeersReleased
CHECK_DEADLOCK FALSE

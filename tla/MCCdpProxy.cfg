CONSTANTS
  Profile = {1, 2}
  Configs <- MCConfigs
  StartPort = 2
  EndPort = 3
  PortSpace = 3
  Host <- MCHere
  None = None
  LeaseId = {1, 2}
  Granted <- MCGranted
  Conn = {c1}
  MaxClock = 3
SPECIFICATION FairSpec
INVARIANTS AllocatedDistinct UrlCarriesAuthority EndReachesPeer
PROPERTIES StoredTableComplete NoNewDriver BridgeReleased

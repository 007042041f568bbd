SPECIFICATION FairSpec
CONSTANTS
  Gateways = {g1, g2}
  Accepting = {g1}
  NoGateway = NoGateway
  PROV_EVT_Q_SZ = 10
  SSID_BLACKLIST_SZ = 10
  MaxTrouble = 1
PROPERTIES LostLinkRecovers
CHECK_DEADLOCK FALSE

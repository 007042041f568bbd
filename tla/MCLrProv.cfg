SPECIFICATION FairSpec
CONSTANTS
  Gateways = {g1, g2, g3}
  Accepting = {g1}
  NoGateway = NoGateway
  PROV_EVT_Q_SZ = 10
  SSID_BLACKLIST_SZ = 3
  MaxTrouble = 3
INVARIANTS CredentialsStored ProvisionedSsidAccepted
PROPERTIES ProvisionedIsFinal EventuallyConnected EventuallyProvisioned ReconnectsAfterRestart
CHECK_DEADLOCK FALSE

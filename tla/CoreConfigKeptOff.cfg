SPECIFICATION ConfigSpec
CONSTANTS
  Subscriptions <- MCSubscriptions
  Listed <- MCListed
  Programs <- MCPrograms
  CheckNames <- MCCheckNames
  CheckIPs <- MCCheckIPs
  Private <- MCPrivate
  Sites <- MCSites
  Lists <- MCLists
  KnownLists <- MCKnownLists
  Names <- MCNames
  Protocols <- MCProtocols
  Servers <- MCServers
  InboundTags <- MCInboundTags
  None = None
  Refused = Refused
  NoRouting = NoRouting
INVARIANT EveryServerIsKeptOff
CHECK_DEADLOCK FALSE

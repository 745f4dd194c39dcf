SPECIFICATION MCSpec
CONSTANTS
  c = c
  s = s
  hello = hello
  bye = bye
  None = None
  Damaged = Damaged
  Clients = {c}
  Servers = {s}
  Host <- MCHost
  TrustedHosts = {"good"}
  NoisePeers <- MCNoisePeers
  Partner <- MCPartner
  ProvidersMayFail = FALSE
  MaxQueue = 1
  Plaintext = {hello, bye}
  TooLarge = {}
  MaxSequence = 1
  U32Max = 3
  Configs <- AllConfigs
  Scenarios = {"init", "proxy"}
  Capacity = 2
  ChunkPlans <- MCOneChunk
  PingPayloads = {1}
  MayBreak = FALSE
PROPERTIES InitDecides InitCompletes ChannelDelivers TunnelEnds
CHECK_DEADLOCK FALSE

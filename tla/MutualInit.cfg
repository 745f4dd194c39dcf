SPECIFICATION MCSpec
CONSTANTS
  c = c
  s = s
  hello = hello
  bye = bye
  None = None
  Damaged = Damaged
  Clients = {c}
  Servers = {s}
  Host <- MCHost
  TrustedHosts = {"good"}
  NoisePeers <- MCNoisePeers
  Partner <- MCPartner
  ProvidersMayFail = FALSE
  MaxQueue = 1
  Plaintext = {hello, bye}
  TooLarge = {}
  MaxSequence = 1
  U32Max = 3
  Configs <- AllConfigs
  Scenarios = {"init"}
  Capacity = 2
  ChunkPlans <- MCOneChunk
  PingPayloads = {1}
  MayBreak = FALSE
PROPERTIES MutualInitCompletes
CHECK_DEADLOCK FALSE

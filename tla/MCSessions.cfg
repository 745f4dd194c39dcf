\* Mixed-up sessions, evidence with single changes, and two streams with three requests.
SPECIFICATION MCSpec
CONSTANTS
  c1 = c1
  c2 = c2
  c3 = c3
  s1 = s1
  s2 = s2
  s3 = s3
  a = a
  big = big
  None = None
  Damaged = Damaged
  Clients = {c1, c2, c3}
  Servers = {s1, s2, s3}
  Host <- MCHost
  TrustedHosts <- MCTrustedHosts
  NoisePeers <- MCNoisePeers
  ProvidersMayFail = TRUE
  MayDamage = TRUE
  MaxQueue = 1
  Plaintext <- Plaintexts
  TooLarge <- Oversized
  MaxSequence = 1
  U32Max = 3
  Configs <- MCConfigs
  Writers = {c3, s3}
  MaxToken = 3
  Nil = Nil
  Err = Err
  Decoded <- MCDecoded
  Cases <- MCCases
  MaxTime = 3
  LongCmdLines = {"long"}
  Null = Null
  Streams = {"a", "b"}
  Concurrent = {"a"}
  ClientKeys = {1}
  GrpcErrors = {"a"}
  MaxRequests = 3
INVARIANTS
  OpenPeerVerified
  TranscriptAgreement
  KeyAgreement
  PublishedOnce
  AuthenticInOrder
  VerdictsAgree
  ChainOfCustody
  AnswersInOrder
  DataMatchesKey
  AcceptedMemoriesKept
PROPERTIES NoRenegotiation
\* Clocks and requests are bounded.
CHECK_DEADLOCK FALSE

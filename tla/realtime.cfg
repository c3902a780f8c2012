SPECIFICATION FairSpec
CONSTANTS
  Calls = {c1, c2}
  Peers <- TestPeers
  ClientMessages <- TestClientMessages
  GeminiMessages <- TestGeminiMessages
INVARIANTS
  TypeOK
  InOrder
PROPERTIES
  SessionCloses

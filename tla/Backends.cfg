CONSTANTS
  u = u
  c1 = c1
  k1 = k1
  t1 = t1
  Urls = {u}
  Self = self
  Tokens = {t1, t2}
  None = None
  Adders = {a1, a2}
  MaxPeers = 2
  Cameras = {c1}
  PeerOf <- MCPeerOf
  Clients = {k1, k2}
  MaxRelays = 2
  MaxStrays = 1
  Side = 5
  Pictures <- MCPictures
  MaxParts = 2
  MaxChunk = 12
  Sizes <- MCSizes
  Orientations = {180}
  Phones <- MCPhones
  MaxShots = 2
  Callers = {a, b}
  MaxHandles = 2
  Best = "uhd"
  Fallback = "hd"
  MaxReads = 4
  Native <- MCNative
  MaxSinks = 2
SPECIFICATION Spec
INVARIANTS BackendsTypeOK RegistryIsSound ConnectedIsOpen RelaysAreReleased PicturesAsSent PicturesAreUpright AnswersAreTrue LiveViewComesBack
PROPERTY IdleIsReleased
CHECK_DEADLOCK FALSE

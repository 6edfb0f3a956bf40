SPECIFICATION Spec
CONSTANTS
  h1 = h1 h2 = h2 h3 = h3
  ap1 = ap1 ap2 = ap2 badAp = badAp
  home = home cafe = cafe secret = secret
  k1 = k1 k2 = k2 alice = alice bob = bob ip1 = ip1
  ApForms = {ap1, ap2, badAp}
  GoodAp = {ap1, ap2}
  DefaultAp = ap1
  Uplinks = {home, cafe}
  NoUplink = NoUplink
  Passwords = {secret}
  NoPassword = NoPassword
  Keys = {k1, k2}
  NoKey = NoKey
  PeerNames = {alice, bob}
  PeerIps = {ip1}
  BadIp = BadIp
  AnyIp = AnyIp
  Unset = Unset
  NoFile = NoFile
  NoOne = NoOne
  Handlers <- MCHandlers3
  Savers <- MCSavers3
  Requests <- AllRequests
  Overlap = FALSE
  MaxFaults = 1
  MaxRestarts = 1
SYMMETRY Symmetry3
INVARIANTS AlwaysBootable DiskMatchesMemory CredentialAgrees
PROPERTY UplinkPersists

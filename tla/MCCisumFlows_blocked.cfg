\* Two songs, registered with one URL or not; song.reg stays the only creator.
CONSTANTS
  Users = {alice, bob}
  SongRegistry = songreg
  NoName = none
  Nids = {1, 2}
  Urls = {u1, u2}
  Hashes = {h1}
  UnitsPerIssue = {2}
  NftPrices = {1}
  Admitted = {}
  MaxUnits = 2
  MaxInt = 3
  CisumSupply = 2
  MaxMvs = 0
  Vault = vault
  Admins = {op}
SPECIFICATION FlowsSpec
SYMMETRY UserSymmetry
INVARIANTS RegisteredIsCreatable

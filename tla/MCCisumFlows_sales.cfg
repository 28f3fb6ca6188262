\* One nid (and 0), units sold by the three at two prices, one of which makes the payment for
\* three units overflow.
CONSTANTS
  Users = {alice, bob}
  SongRegistry = songreg
  NoName = none
  Nids = {0, 1}
  Urls = {u1}
  Hashes = {h1}
  UnitsPerIssue = {3}
  NftPrices = {1, 3}
  Admitted = {songreg}
  MaxUnits = 3
  MaxInt = 3
  CisumSupply = 6
  MaxMvs = 1
  Vault = vault
  Admins = {op}
SPECIFICATION FlowsSpec
SYMMETRY UserSymmetry
INVARIANTS FlowsTypeOK SongsAreWhole MvsAreOfSongs
PROPERTIES SalesArePaid

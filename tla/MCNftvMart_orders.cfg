\* Orders for parts of the two units of one NFT, with every fee setting.
CONSTANTS
  Users = {alice, bob}
  Mart = mart
  Custody = custody
  NoName = none
  Ghost = ghost
  Nids = {1}
  Supply = 2
  Vectors <- SingleVectors
  ModeChoices = {}
  StatusChoices = {}
  MaxAssetId = 0
  MaxCoins = 0
  MaxManifests = 0
  BasisPoints = 4
  PayTokens = {cisum}
  Prices = {4, 5}
  FeeConfs <- AllFees
  FeeAccounts = {treasury}
  IpOwners = {ghost, custody}
  MaxOrders = 2
SPECIFICATION MartSpec
SYMMETRY UserSymmetry
INVARIANTS EscrowCovers
PROPERTIES MarketKeepsNothing ImplementsConsignment

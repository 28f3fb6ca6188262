\* Two NFTs, whose TBAs may hold each other's root and be sold.
CONSTANTS
  Users = {alice, bob}
  Mart = mart
  Custody = custody
  NoName = none
  Ghost = ghost
  Nids = {1, 2}
  Supply = 1
  Vectors <- PairVectors
  ModeChoices = {"excluded"}
  StatusChoices = {}
  MaxAssetId = 2
  MaxCoins = 0
  MaxManifests = 0
  BasisPoints = 4
  PayTokens = {cisum}
  Prices = {5}
  FeeConfs <- NoFeeConfs
  FeeAccounts = {treasury}
  IpOwners = {}
  MaxOrders = 2
SPECIFICATION MartSpec
SYMMETRY UserSymmetry
INVARIANTS NoCustodyRing
PROPERTIES OnlyHolderWithdraws

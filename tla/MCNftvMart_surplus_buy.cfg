\* Two units of the root NFT: after listing, the seller may hold a second one.
CONSTANTS
  Users = {alice, bob}
  Mart = mart
  Custody = custody
  NoName = none
  Ghost = ghost
  Nids = {1}
  Supply = 2
  Vectors <- SingleVectors
  ModeChoices = {"deliverable", "excluded", "blocking"}
  StatusChoices = {"active", "closed"}
  MaxAssetId = 2
  MaxCoins = 2
  MaxManifests = 0
  BasisPoints = 4
  PayTokens = {cisum}
  Prices = {5}
  FeeConfs <- NoFeeConfs
  FeeAccounts = {treasury}
  IpOwners = {}
  MaxOrders = 2
SPECIFICATION MartSpec
SYMMETRY UserSymmetry
PROPERTIES BuyerGetsManifest

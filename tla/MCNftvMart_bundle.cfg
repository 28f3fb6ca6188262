\* One NFT of one unit with its TBA, two ordinary token assets, two orders.
CONSTANTS
  Users = {alice, bob}
  Mart = mart
  Custody = custody
  NoName = none
  Ghost = ghost
  Nids = {1}
  Supply = 1
  Vectors <- SingleVectors
  ModeChoices = {"deliverable", "excluded", "blocking"}
  StatusChoices = {"active", "closed"}
  MaxAssetId = 2
  MaxCoins = 2
  MaxManifests = 0
  BasisPoints = 4
  PayTokens = {cisum}
  Prices = {5}
  FeeConfs <- NoFeeConfs
  FeeAccounts = {treasury}
  IpOwners = {}
  MaxOrders = 2
SPECIFICATION MartSpec
SYMMETRY UserSymmetry
INVARIANTS MartTypeOK BundleIntact CancelReturns CustodyIsExact
PROPERTIES BuyerGetsManifest ImplementsConsignment

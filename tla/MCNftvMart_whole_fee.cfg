\* Fees of the whole price, which setfee accepts.
CONSTANTS
  Users = {alice, bob}
  Mart = mart
  Custody = custody
  NoName = none
  Ghost = ghost
  Nids = {1}
  Supply = 1
  Vectors <- SingleVectors
  ModeChoices = {}
  StatusChoices = {}
  MaxAssetId = 0
  MaxCoins = 0
  MaxManifests = 0
  BasisPoints = 4
  PayTokens = {cisum}
  Prices = {4}
  FeeConfs <- WholeFees
  FeeAccounts = {treasury}
  IpOwners = {}
  MaxOrders = 2
SPECIFICATION MartSpec
SYMMETRY UserSymmetry
INVARIANTS ListedIsBuyable

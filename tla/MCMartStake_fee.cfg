\* One NFT with a plan that takes the market's payment token.
CONSTANTS
  Users = {alice, bob}
  Mart = mart
  Custody = custody
  NoName = none
  Ghost = ghost
  Nids = {1}
  Supply = 1
  Vectors <- NoVectors
  ModeChoices = {}
  StatusChoices = {}
  MaxAssetId = 0
  MaxCoins = 0
  MaxManifests = 0
  BasisPoints = 4
  PayTokens = {cisum}
  Prices = {4}
  FeeConfs <- StakeFees
  FeeAccounts = {gnosstake}
  IpOwners = {}
  MaxOrders = 1
  StakeAccount = gnosstake
  MaxAsset = 3
  Precision = 4
  PaySupply = 2
SPECIFICATION SysSpec
PROPERTIES StakeFeeIsReward

\* Two NFTs of two units, deposited one by one or two in one transfer.
CONSTANTS
  Users = {alice, bob}
  Mart = mart
  Custody = custody
  NoName = none
  Ghost = ghost
  Nids = {1, 2}
  Supply = 2
  Vectors <- UnitVectors
  ModeChoices = {}
  StatusChoices = {}
  MaxAssetId = 2
  MaxCoins = 1
  MaxManifests = 1
SPECIFICATION Spec
SYMMETRY UserSymmetry
INVARIANTS TypeOK CustodyIsExact AssetsArePayable
PROPERTIES OnlyHolderWithdraws
\* The system may stop: every NFT may be sent to the market outright, which
\* never gives such units back.
CHECK_DEADLOCK FALSE

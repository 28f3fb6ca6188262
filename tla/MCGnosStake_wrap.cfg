\* One plan, two stakers (one is the market); a small stake and a large reward overflow the
\* 64 bit reward per share.
CONSTANTS
  Accounts = {alice, mart}
  Mart = mart
  NoName = none
  Nfts = {1}
  Tokens = {stk, rwd}
  MaxAmount = 3
  Precision = 7
  Supply = 3
  MaxUnbacked = 1
SPECIFICATION Spec
INVARIANTS TypeOK StakedMatchesPositions RewardSolvency NoIdleReward Backed ExitAlwaysOpen
PROPERTIES EarningsArePermanent

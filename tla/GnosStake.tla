----------------------------- MODULE GnosStake -----------------------------
(***************************************************************************)
(* The contract gnos.stake: one staking plan per NFT, funded by the NFT's  *)
(* controller, whose rewards are spread over the stakers by a cumulative   *)
(* reward per share in fixed point arithmetic.                             *)
(*                                                                         *)
(* A staker without a row in a plan is a staker whose position is all      *)
(* zero: both are refused by unstake and claim and treated alike by stake. *)
(* The flag active of a plan is never cleared and is left out.             *)
(*                                                                         *)
(* External, modelled from how the contract uses it: the controller that   *)
(* gnos.ntoken records for an NFT, and the balance of gnos.stake in every  *)
(* token.  What gnos.stake does not hold of a token is in the hands of the *)
(* other accounts, any of which may send it.                               *)
(*                                                                         *)
(* An operator named X_y, defined before X, is X with the plausible        *)
(* mistake y: a mutant, which some property of the module must refute.     *)
(***************************************************************************)
EXTENDS Integers, FiniteSets, Totals

CONSTANTS
  Accounts,      \* stakers, NFT controllers and the market
  Mart,          \* the account nftv.mart
  NoName,        \* the controller of an NFT that does not exist
  Nfts,          \* NFT ids
  Tokens,        \* (contract, symbol) pairs
  MaxAmount,     \* asset::max_amount, 2^62 - 1
  Precision,     \* reward_precision
  Supply,        \* units of each token in existence
  MaxUnbacked    \* bound on the units credited by the contract's own authority

Uint64 == 4 * (MaxAmount + 1)   \* the number of uint64_t values

ASSUME GnosStakeAssumption ==
  /\ IsFiniteSet(Accounts) /\ IsFiniteSet(Nfts)
  /\ Mart \in Accounts /\ NoName \notin Accounts
  /\ MaxAmount \in Nat \ {0}
  /\ Precision \in Nat \ {0}
  /\ Supply \in 1 .. MaxAmount
  /\ MaxUnbacked \in Nat

VARIABLES
  controller,  \* controller[nft]: who controls the NFT (external)
  plans,       \* the plan of each NFT that has one
  positions,   \* positions[nft][staker]: the position in the NFT's plan
  held,        \* held[t]: balance of gnos.stake in token t (external)
  unbacked     \* unbacked[t]: units credited without a token transfer

vars == <<controller, plans, positions, held, unbacked>>

Amount == 0 .. MaxAmount

Plan == [stake_token : Tokens, reward_token : Tokens,
         total_staked : Amount, total_reward : Amount, claimed_reward : Amount,
         undistributed_reward : Amount, reward_per_share : 0 .. Uint64 - 1]

Position == [staked : Amount, reward_per_share_paid : 0 .. Uint64 - 1,
             pending_reward : Amount]

NoPosition == [staked |-> 0, reward_per_share_paid |-> 0, pending_reward |-> 0]

Planned == DOMAIN plans

TypeOK ==
  /\ controller \in [Nfts -> Accounts \cup {NoName}]
  /\ Planned \subseteq Nfts
  /\ plans \in [Planned -> Plan]
  /\ positions \in [Nfts -> [Accounts -> Position]]
  /\ held \in [Tokens -> 0 .. Supply]
  /\ unbacked \in [Tokens -> 0 .. MaxUnbacked]

NoPlans ==
  /\ plans = << >>
  /\ positions = [n \in Nfts |-> [a \in Accounts |-> NoPosition]]
  /\ held = [t \in Tokens |-> 0]
  /\ unbacked = [t \in Tokens |-> 0]

Init == controller = [n \in Nfts |-> NoName] /\ NoPlans

-----------------------------------------------------------------------------
(* Reward arithmetic.                                                      *)

Int64(n) == ((n + Uint64 \div 2) % Uint64) - Uint64 \div 2

InRange_unchecked(n) == TRUE

InRange(n) == n \in -MaxAmount .. MaxAmount

(* What quantity adds to the reward per share, cast to uint64_t.           *)
Share(quantity, total) == ((quantity * Precision) \div total) % Uint64

(* What a position has earned since it was last settled.  The difference   *)
(* of the two uint64_t counters wraps.                                     *)
Accrued_since_start(plan, pos) ==
  Int64((pos.staked * plan.reward_per_share) \div Precision)

Accrued(plan, pos) ==
  LET delta_rps == (plan.reward_per_share - pos.reward_per_share_paid) % Uint64
  IN  Int64((pos.staked * delta_rps) \div Precision)

Claimable(plan, pos) == pos.pending_reward + Accrued(plan, pos)

(* compute_claimable builds two assets, each checked to be in range.       *)
CanSettle(plan, pos) ==
  InRange(Accrued(plan, pos)) /\ InRange(Claimable(plan, pos))

Settled_lost(plan, pos) ==
  [pos EXCEPT !.reward_per_share_paid = plan.reward_per_share]

Settled(plan, pos) ==
  [pos EXCEPT !.pending_reward = Claimable(plan, pos),
              !.reward_per_share_paid = plan.reward_per_share]

(* The position after quantity was added to it or taken from it, and after *)
(* a claim.                                                                *)
Increased_anew(plan, pos, quantity) ==
  [Settled(plan, pos) EXCEPT !.staked = quantity]

Increased(plan, pos, quantity) ==
  [Settled(plan, pos) EXCEPT !.staked = @ + quantity]

Decreased(plan, pos, quantity) ==
  [Settled(plan, pos) EXCEPT !.staked = @ - quantity]

PaidOut(plan, pos) == [Settled(plan, pos) EXCEPT !.pending_reward = 0]

(* The plan after quantity was staked: the first stake after a time with   *)
(* none releases the reward that was parked meanwhile.                     *)
AfterStake_parked(plan, quantity) ==
  [plan EXCEPT !.total_staked = @ + quantity]

AfterStake(plan, quantity) ==
  LET total    == plan.total_staked + quantity
      releases == plan.total_staked = 0 /\ plan.undistributed_reward > 0
  IN  [plan EXCEPT
         !.total_staked = total,
         !.reward_per_share =
            IF releases THEN (@ + Share(plan.undistributed_reward, total)) % Uint64
                        ELSE @,
         !.undistributed_reward = IF releases THEN 0 ELSE @]

AfterReward_double(plan, quantity) ==
  [plan EXCEPT
     !.total_reward = @ + quantity,
     !.reward_per_share =
        IF plan.total_staked > 0
        THEN (@ + Share(quantity, plan.total_staked)) % Uint64 ELSE @,
     !.undistributed_reward = @ + quantity]

AfterReward(plan, quantity) ==
  [plan EXCEPT
     !.total_reward = @ + quantity,
     !.reward_per_share =
        IF plan.total_staked > 0
        THEN (@ + Share(quantity, plan.total_staked)) % Uint64 ELSE @,
     !.undistributed_reward =
        IF plan.total_staked > 0 THEN @ ELSE @ + quantity]

-----------------------------------------------------------------------------
(* External: gnos.ntoken creates the NFT or gives it another controller.   *)
ChangeController(nft, a) ==
  /\ controller' = [controller EXCEPT ![nft] = a]
  /\ UNCHANGED <<plans, positions, held, unbacked>>

Createplan(nft, stake_token, reward_token) ==
  /\ controller[nft] # NoName
  /\ nft \notin Planned
  /\ plans' = [n \in Planned \cup {nft} |->
       IF n = nft
       THEN [stake_token |-> stake_token, reward_token |-> reward_token,
             total_staked |-> 0, total_reward |-> 0, claimed_reward |-> 0,
             undistributed_reward |-> 0, reward_per_share |-> 0]
       ELSE plans[n]]
  /\ UNCHANGED <<controller, positions, held, unbacked>>

(* apply_stake: an earlier position is settled at the reward per share     *)
(* before the stake.                                                       *)
ApplyStake(staker, nft, quantity) ==
  LET plan == plans[nft]
      pos  == positions[nft][staker]
  IN  /\ CanSettle(plan, pos)
      /\ InRange(plan.total_staked + quantity)
      /\ plans' = [plans EXCEPT ![nft] = AfterStake(plan, quantity)]
      /\ positions' = [positions EXCEPT ![nft][staker] =
                         Increased(plan, pos, quantity)]

ApplyFundreward(nft, quantity) ==
  LET plan == plans[nft]
  IN  /\ InRange(plan.total_reward + quantity)
      /\ plans' = [plans EXCEPT ![nft] = AfterReward(plan, quantity)]
      /\ UNCHANGED positions

-----------------------------------------------------------------------------
(* ontransfer: a token transfer into gnos.stake and its notification.      *)

Receive(t, quantity) ==
  /\ held[t] + quantity <= Supply
  /\ held' = [held EXCEPT ![t] = @ + quantity]
  /\ UNCHANGED <<controller, unbacked>>

(* The contract that notifies is the one the plan names for this purpose.  *)
IsTokenOf_any_contract(t, expected) == TRUE

IsTokenOf(t, expected) == t = expected

(* Memo "stake:<plan>".                                                    *)
TransferStake(from, nft, t, quantity) ==
  /\ nft \in Planned
  /\ IsTokenOf(t, plans[nft].stake_token)
  /\ ApplyStake(from, nft, quantity)
  /\ Receive(t, quantity)

(* Memo "reward:<plan>".                                                   *)
TransferReward(from, nft, t, quantity) ==
  /\ nft \in Planned
  /\ from \in {controller[nft], Mart}
  /\ IsTokenOf(t, plans[nft].reward_token)
  /\ ApplyFundreward(nft, quantity)
  /\ Receive(t, quantity)

(* Any other memo, the market's "gnos stake fee" included: the tokens stay *)
(* and nothing is recorded.                                                *)
TransferOther(t, quantity) ==
  /\ Receive(t, quantity)
  /\ UNCHANGED <<plans, positions>>

-----------------------------------------------------------------------------
(* stake and fundreward credit a plan on the contract's own authority, and *)
(* no token moves.                                                         *)

Credit(t, quantity) ==
  /\ unbacked[t] + quantity <= MaxUnbacked
  /\ unbacked' = [unbacked EXCEPT ![t] = @ + quantity]
  /\ UNCHANGED <<controller, held>>

Stake(staker, nft, quantity) ==
  /\ nft \in Planned
  /\ ApplyStake(staker, nft, quantity)
  /\ Credit(plans[nft].stake_token, quantity)

Fundreward(nft, quantity) ==
  /\ nft \in Planned
  /\ ApplyFundreward(nft, quantity)
  /\ Credit(plans[nft].reward_token, quantity)

-----------------------------------------------------------------------------
(* Leaving.  The tokens are paid by an inline transfer, which fails, and   *)
(* the action with it, when gnos.stake holds too little.                   *)

CanUnstake(staker, nft, quantity) ==
  /\ positions[nft][staker].staked >= quantity
  /\ CanSettle(plans[nft], positions[nft][staker])
  /\ held[plans[nft].stake_token] >= quantity

Unstake(staker, nft, quantity) ==
  /\ nft \in Planned
  /\ CanUnstake(staker, nft, quantity)
  /\ positions' = [positions EXCEPT ![nft][staker] =
                     Decreased(plans[nft], @, quantity)]
  /\ plans' = [plans EXCEPT ![nft].total_staked = @ - quantity]
  /\ held' = [held EXCEPT ![plans[nft].stake_token] = @ - quantity]
  /\ UNCHANGED <<controller, unbacked>>

CanClaim(staker, nft) ==
  LET plan == plans[nft]
      pos  == positions[nft][staker]
  IN  /\ CanSettle(plan, pos)
      /\ Claimable(plan, pos) > 0
      /\ InRange(plan.claimed_reward + Claimable(plan, pos))
      /\ held[plan.reward_token] >= Claimable(plan, pos)

Claim(staker, nft) ==
  /\ nft \in Planned
  /\ CanClaim(staker, nft)
  /\ LET plan   == plans[nft]
         amount == Claimable(plan, positions[nft][staker])
     IN  /\ positions' = [positions EXCEPT ![nft][staker] =
                            PaidOut(plan, @)]
         /\ plans' = [plans EXCEPT ![nft].claimed_reward = @ + amount]
         /\ held' = [held EXCEPT ![plan.reward_token] = @ - amount]
  /\ UNCHANGED <<controller, unbacked>>

-----------------------------------------------------------------------------
Next ==
  \/ \E nft \in Nfts, a \in Accounts : ChangeController(nft, a)
  \/ \E nft \in Nfts, st, rt \in Tokens : Createplan(nft, st, rt)
  \/ \E a \in Accounts, nft \in Nfts, t \in Tokens, q \in 1 .. Supply :
       \/ TransferStake(a, nft, t, q)
       \/ TransferReward(a, nft, t, q)
  \/ \E t \in Tokens, q \in 1 .. Supply : TransferOther(t, q)
  \/ \E a \in Accounts, nft \in Nfts, q \in 1 .. MaxUnbacked : Stake(a, nft, q)
  \/ \E nft \in Nfts, q \in 1 .. MaxUnbacked : Fundreward(nft, q)
  \/ \E a \in Accounts, nft \in Nfts, q \in 1 .. MaxAmount : Unstake(a, nft, q)
  \/ \E a \in Accounts, nft \in Nfts : Claim(a, nft)

Spec == Init /\ [][Next]_vars

-----------------------------------------------------------------------------
(* Properties.                                                             *)

StakedOf(nft) == [a \in Accounts |-> positions[nft][a].staked]

ClaimableOf(nft) == [a \in Accounts |-> Claimable(plans[nft], positions[nft][a])]

(* The share every reward is divided by is exactly what the stakers have   *)
(* staked, through every interleaving of stakes, top-ups and withdrawals.  *)
StakedMatchesPositions ==
  \A nft \in Planned : Total(StakedOf(nft)) = plans[nft].total_staked

(* A plan never owes more reward than it was funded with: rounding and the *)
(* wrapping of the uint64_t counters only ever cost the stakers.           *)
RewardSolvency ==
  \A nft \in Planned :
    LET plan == plans[nft]
    IN  /\ \A a \in Accounts : Claimable(plan, positions[nft][a]) >= 0
        /\ Total(ClaimableOf(nft)) + plan.claimed_reward + plan.undistributed_reward
             <= plan.total_reward

(* Reward is parked only while nobody stakes.                              *)
NoIdleReward ==
  \A nft \in Planned :
    plans[nft].total_staked > 0 => plans[nft].undistributed_reward = 0

(* All plans draw on one balance per token.  With what the contract's own  *)
(* authority credited set aside, that balance covers the stakes and the    *)
(* unpaid rewards of all the plans together.                               *)
Backed ==
  \A t \in Tokens :
    Total([nft \in Planned |->
             (IF plans[nft].stake_token = t THEN plans[nft].total_staked ELSE 0)
             + (IF plans[nft].reward_token = t
                THEN plans[nft].total_reward - plans[nft].claimed_reward ELSE 0)])
      <= held[t] + unbacked[t]

(* Without unbacked credits nobody can be locked in: every staker can      *)
(* withdraw the whole stake, and claim whatever is claimable, right now.   *)
ExitAlwaysOpen ==
  (\A t \in Tokens : unbacked[t] = 0) =>
    \A nft \in Planned, a \in Accounts :
      /\ CanUnstake(a, nft, positions[nft][a].staked)
      /\ Claimable(plans[nft], positions[nft][a]) > 0 => CanClaim(a, nft)

(* The reward per share of a plan cannot have exceeded its 64 bits yet,    *)
(* not even if all the reward came while a single unit was staked.         *)
NoWrap(nft) == Precision * plans[nft].total_reward < Uint64

(* As long as the reward per share does not wrap, nobody's step takes away *)
(* what a staker has earned: it shrinks only when all of it is paid, and   *)
(* then nothing of it can be claimed again.                                *)
EarningsArePermanent ==
  [][\A nft \in Planned, a \in Accounts :
       LET earned == Claimable(plans[nft], positions[nft][a])
       IN  NoWrap(nft)' =>
             \/ Claimable(plans[nft], positions[nft][a])' >= earned
             \/ /\ Claimable(plans[nft], positions[nft][a])' = 0
                /\ plans'[nft].claimed_reward = plans[nft].claimed_reward + earned
                /\ held'[plans[nft].reward_token] =
                     held[plans[nft].reward_token] - earned]_vars

=============================================================================

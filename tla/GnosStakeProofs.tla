--------------------------- MODULE GnosStakeProofs ---------------------------
(***************************************************************************)
(* Solvency of gnos.stake for any number of stakers and plans, any         *)
(* precision and any width of the counters.                                *)
(*                                                                         *)
(* The argument follows one plan and the column of its positions.  Every   *)
(* position has a weight: what it is owed, times the precision, before any *)
(* rounding.  Settling rounds down and a wrapped counter forgets, so that  *)
(* the weights only ever lose against the funds of the plan.               *)
(***************************************************************************)
EXTENDS GnosStake, TotalsTheorems

-----------------------------------------------------------------------------
(* Arithmetic of \div and %.                                               *)

(* The remainder of a number at most one divisor out of range.             *)
LEMMA ModOfNear ==
  ASSUME NEW u \in Nat \ {0}, NEW n \in Int, -u <= n, n < 2 * u
  PROVE  n % u = IF n < 0 THEN n + u ELSE IF n < u THEN n ELSE n - u
OBVIOUS

(* A wrapping counter that rises by s runs ahead by at most s more.        *)
LEMMA CounterRise ==
  ASSUME NEW u \in Nat \ {0}, NEW r \in 0 .. u - 1, NEW p \in 0 .. u - 1,
         NEW s \in 0 .. u - 1
  PROVE  (((r + s) % u) - p) % u <= ((r - p) % u) + s
<1> DEFINE sum  == r + s
           next == sum % u
           gap  == r - p
           then == next - p
<1>1. sum \in Int /\ gap \in Int /\ 0 <= sum /\ sum < 2 * u /\ -u <= gap /\ gap < u
  OBVIOUS
<1> HIDE DEF sum, gap
<1>2. next = IF sum < u THEN sum ELSE sum - u
  BY <1>1
<1>3. gap % u = IF gap < 0 THEN gap + u ELSE gap
  BY <1>1
<1>4. next \in 0 .. u - 1
  BY <1>1, <1>2
<1> HIDE DEF next
<1>5. then \in Int /\ -u <= then /\ then < u
  BY <1>4
<1> HIDE DEF then
<1>6. then % u = IF then < 0 THEN then + u ELSE then
  BY <1>5
<1>7. then % u <= (gap % u) + s
  BY <1>1, <1>2, <1>3, <1>4, <1>6 DEF sum, gap, then
<1>8. QED
  BY <1>7 DEF sum, next, gap, then

(* A remainder is less than the divisor and no more than the number.       *)
LEMMA ModOfNat ==
  ASSUME NEW u \in Nat \ {0}, NEW n \in Nat
  PROVE  n % u \in 0 .. u - 1 /\ n % u <= n
OBVIOUS

(* Dividing rounds down.                                                   *)
LEMMA DivOfNat ==
  ASSUME NEW d \in Nat \ {0}, NEW n \in Nat
  PROVE  n \div d \in Nat /\ d * (n \div d) <= n
OBVIOUS

(* A common positive factor may be cancelled from an inequality.           *)
LEMMA CancelFactor ==
  ASSUME NEW d \in Nat \ {0}, NEW a \in Int, NEW b \in Int, d * a <= d * b
  PROVE  a <= b
OBVIOUS

(* Dividing keeps the order.                                               *)
LEMMA DivMonotone ==
  ASSUME NEW d \in Nat \ {0}, NEW m \in Nat, NEW n \in Nat, m <= n
  PROVE  m \div d <= n \div d /\ m \div d \in Nat /\ n \div d \in Nat
OBVIOUS

(* The product of two naturals, for the provers.                           *)
LEMMA ProductIsNat ==
  ASSUME NEW m \in Nat, NEW n \in Nat
  PROVE  m * n \in Nat
OBVIOUS

(* An inequality may be multiplied by a natural number.                    *)
LEMMA ProductMonotone ==
  ASSUME NEW d \in Nat, NEW a \in Int, NEW b \in Int, a <= b
  PROVE  d * a <= d * b
OBVIOUS

-----------------------------------------------------------------------------
(* One plan.                                                               *)

Column == [Accounts -> Position]

Delta(plan, pos) == (plan.reward_per_share - pos.reward_per_share_paid) % Uint64

Weight(plan, pos) == Precision * pos.pending_reward + pos.staked * Delta(plan, pos)

ClaimWeight(plan, pos) == Precision * Claimable(plan, pos)

Weights(plan, column) == [a \in Accounts |-> Weight(plan, column[a])]

Stakes(column) == [a \in Accounts |-> column[a].staked]

Funds(plan) == plan.total_reward - plan.claimed_reward - plan.undistributed_reward

Sound(plan, column) ==
  /\ Total(Stakes(column)) = plan.total_staked
  /\ plan.total_staked > 0 => plan.undistributed_reward = 0
  /\ Total(Weights(plan, column)) <= Precision * Funds(plan)

(* What the constants of gnos.stake are assumed to be.                     *)
LEMMA Constants ==
  /\ IsFiniteSet(Accounts) /\ IsFiniteSet(Nfts)
  /\ MaxAmount \in Nat \ {0} /\ Precision \in Nat \ {0}
  /\ Uint64 \in Nat \ {0} /\ Uint64 = 4 * (MaxAmount + 1)
  /\ Supply \in 1 .. MaxAmount /\ MaxUnbacked \in Nat
BY GnosStakeAssumption DEF Uint64

(* The fields of a plan and of a position.                                 *)
LEMMA PlanFields ==
  ASSUME NEW plan \in Plan
  PROVE  /\ plan.total_staked \in Amount /\ plan.total_reward \in Amount
         /\ plan.claimed_reward \in Amount /\ plan.undistributed_reward \in Amount
         /\ plan.reward_per_share \in 0 .. Uint64 - 1
         /\ plan.stake_token \in Tokens /\ plan.reward_token \in Tokens
         /\ Funds(plan) \in Int
BY Constants DEF Plan, Amount, Funds

(* Plans with other values in some fields.                                 *)
Rewarded(plan, total_reward, per_share, parked) ==
  [plan EXCEPT !.total_reward = total_reward, !.reward_per_share = per_share,
               !.undistributed_reward = parked]

(* The fields of a plan that received a reward.                            *)
LEMMA RewardedFields ==
  ASSUME NEW plan \in Plan, NEW total_reward \in Amount,
         NEW per_share \in 0 .. Uint64 - 1, NEW parked \in Amount
  PROVE  LET new == Rewarded(plan, total_reward, per_share, parked)
         IN  /\ new \in Plan
             /\ new.total_staked = plan.total_staked
             /\ new.total_reward = total_reward
             /\ new.claimed_reward = plan.claimed_reward
             /\ new.undistributed_reward = parked
             /\ new.reward_per_share = per_share
             /\ new.stake_token = plan.stake_token
             /\ new.reward_token = plan.reward_token
<1> DEFINE new == Rewarded(plan, total_reward, per_share, parked)
<1>1. DOMAIN plan = {"stake_token", "reward_token", "total_staked", "total_reward",
                     "claimed_reward", "undistributed_reward", "reward_per_share"}
  BY DEF Plan
<1>2. new \in Plan
  BY DEF Plan, Rewarded
<1>3. QED
  BY <1>1, <1>2 DEF Rewarded

Restaked(plan, total_staked, per_share, parked) ==
  [plan EXCEPT !.total_staked = total_staked, !.reward_per_share = per_share,
               !.undistributed_reward = parked]

(* The fields of a plan that received a stake.                             *)
LEMMA RestakedFields ==
  ASSUME NEW plan \in Plan, NEW total_staked \in Amount,
         NEW per_share \in 0 .. Uint64 - 1, NEW parked \in Amount
  PROVE  LET new == Restaked(plan, total_staked, per_share, parked)
         IN  /\ new \in Plan
             /\ new.total_staked = total_staked
             /\ new.total_reward = plan.total_reward
             /\ new.claimed_reward = plan.claimed_reward
             /\ new.undistributed_reward = parked
             /\ new.reward_per_share = per_share
             /\ new.stake_token = plan.stake_token
             /\ new.reward_token = plan.reward_token
<1> DEFINE new == Restaked(plan, total_staked, per_share, parked)
<1>1. DOMAIN plan = {"stake_token", "reward_token", "total_staked", "total_reward",
                     "claimed_reward", "undistributed_reward", "reward_per_share"}
  BY DEF Plan
<1>2. new \in Plan
  BY DEF Plan, Restaked
<1>3. QED
  BY <1>1, <1>2 DEF Restaked

Unstaked(plan, total_staked) ==
  [plan EXCEPT !.total_staked = total_staked]

(* The fields of a plan from which a stake was withdrawn.                  *)
LEMMA UnstakedFields ==
  ASSUME NEW plan \in Plan, NEW total_staked \in Amount
  PROVE  LET new == Unstaked(plan, total_staked)
         IN  /\ new \in Plan
             /\ new.total_staked = total_staked
             /\ new.total_reward = plan.total_reward
             /\ new.claimed_reward = plan.claimed_reward
             /\ new.undistributed_reward = plan.undistributed_reward
             /\ new.reward_per_share = plan.reward_per_share
             /\ new.stake_token = plan.stake_token
             /\ new.reward_token = plan.reward_token
<1> DEFINE new == Unstaked(plan, total_staked)
<1>1. DOMAIN plan = {"stake_token", "reward_token", "total_staked", "total_reward",
                     "claimed_reward", "undistributed_reward", "reward_per_share"}
  BY DEF Plan
<1>2. new \in Plan
  BY DEF Plan, Unstaked
<1>3. QED
  BY <1>1, <1>2 DEF Unstaked

Claimed(plan, claimed) ==
  [plan EXCEPT !.claimed_reward = claimed]

(* The fields of a plan from which a reward was claimed.                   *)
LEMMA ClaimedFields ==
  ASSUME NEW plan \in Plan, NEW claimed \in Amount
  PROVE  LET new == Claimed(plan, claimed)
         IN  /\ new \in Plan
             /\ new.total_staked = plan.total_staked
             /\ new.total_reward = plan.total_reward
             /\ new.claimed_reward = claimed
             /\ new.undistributed_reward = plan.undistributed_reward
             /\ new.reward_per_share = plan.reward_per_share
             /\ new.stake_token = plan.stake_token
             /\ new.reward_token = plan.reward_token
<1> DEFINE new == Claimed(plan, claimed)
<1>1. DOMAIN plan = {"stake_token", "reward_token", "total_staked", "total_reward",
                     "claimed_reward", "undistributed_reward", "reward_per_share"}
  BY DEF Plan
<1>2. new \in Plan
  BY DEF Plan, Claimed
<1>3. QED
  BY <1>1, <1>2 DEF Claimed

(* The fields of a position.                                               *)
LEMMA PositionFields ==
  ASSUME NEW pos \in Position
  PROVE  /\ pos.staked \in Amount /\ pos.pending_reward \in Amount
         /\ pos.reward_per_share_paid \in 0 .. Uint64 - 1
         /\ Amount \subseteq Nat
BY Constants DEF Position, Amount

(* A weight is a natural number, and so are its two parts.                 *)
LEMMA WeightType ==
  ASSUME NEW plan \in Plan, NEW pos \in Position
  PROVE  /\ Delta(plan, pos) \in 0 .. Uint64 - 1
         /\ pos.staked * Delta(plan, pos) \in Nat
         /\ Precision * pos.pending_reward \in Nat
         /\ Weight(plan, pos) \in Nat
<1>1. Delta(plan, pos) \in 0 .. Uint64 - 1
  BY PlanFields, PositionFields, Constants, ModOfNear DEF Delta
<1>2. Delta(plan, pos) \in Nat
  BY <1>1, Constants
<1>3. pos.staked * Delta(plan, pos) \in Nat /\ Precision * pos.pending_reward \in Nat
  BY <1>2, PositionFields, Constants, ProductIsNat
<1>4. QED
  BY <1>1, <1>3 DEF Weight

(* To a position that was just settled nothing more has accrued.           *)
LEMMA SettledDelta ==
  ASSUME NEW plan \in Plan, NEW pos,
         pos.reward_per_share_paid = plan.reward_per_share
  PROVE  Delta(plan, pos) = 0
<1>1. plan.reward_per_share - plan.reward_per_share = 0
  BY PlanFields, Constants
<1>2. 0 % Uint64 = 0
  BY Constants
<1>3. QED
  BY <1>1, <1>2 DEF Delta

(* Weights and stakes are naturals, and so are their totals.               *)
LEMMA ColumnTypes ==
  ASSUME NEW plan \in Plan, NEW column \in Column
  PROVE  /\ Weights(plan, column) \in [Accounts -> Nat]
         /\ Stakes(column) \in [Accounts -> Nat]
         /\ Total(Weights(plan, column)) \in Nat
         /\ Total(Stakes(column)) \in Nat
<1>1. \A a \in Accounts : column[a] \in Position
  BY DEF Column
<1>2. Weights(plan, column) \in [Accounts -> Nat]
  BY <1>1, WeightType DEF Weights
<1>3. Stakes(column) \in [Accounts -> Nat]
  BY <1>1, PositionFields DEF Stakes
<1>4. QED
  BY <1>2, <1>3, Constants, TotalType

-----------------------------------------------------------------------------
(* What a position can claim.                                              *)

(* A sound plan has not paid out or parked more than it received.          *)
LEMMA SoundFunds ==
  ASSUME NEW plan \in Plan, NEW column \in Column, Sound(plan, column)
  PROVE  /\ Funds(plan) \in Amount
         /\ plan.undistributed_reward <= plan.total_reward
         /\ plan.claimed_reward <= plan.total_reward
<1>1. 0 <= Precision * Funds(plan)
  <2>1. Precision * Funds(plan) \in Int
    BY PlanFields, Constants
  <2>2. QED
    BY <2>1, ColumnTypes DEF Sound
<1>2. Precision * 0 <= Precision * Funds(plan)
  BY <1>1, Constants
<1>3. 0 <= Funds(plan)
  BY <1>2, PlanFields, Constants, CancelFactor
<1>4. QED
  BY <1>3, PlanFields, Constants DEF Funds, Amount

(* The cast to int64_t loses nothing, the assets that compute_claimable    *)
(* builds are in range, and rounding is in favour of the plan.             *)
LEMMA ClaimableBound ==
  ASSUME NEW plan \in Plan, NEW column \in Column, Sound(plan, column),
         NEW a \in Accounts
  PROVE  /\ Claimable(plan, column[a]) \in Amount
         /\ Claimable(plan, column[a]) <= Funds(plan)
         /\ ClaimWeight(plan, column[a]) <= Weight(plan, column[a])
         /\ CanSettle(plan, column[a])
         /\ Claimable(plan, column[a]) =
              column[a].pending_reward
                + (column[a].staked * Delta(plan, column[a])) \div Precision
<1> DEFINE pos     == column[a]
           product == pos.staked * Delta(plan, pos)
           earned  == product \div Precision
<1>1. pos \in Position
  BY DEF Column
<1>2. product \in Nat /\ Weight(plan, pos) \in Nat
  BY <1>1, WeightType
<1>3. earned \in Nat /\ Precision * earned <= product
  <2> HIDE DEF product
  <2>1. QED
    BY <1>2, Constants, DivOfNat
<1>4. pos.pending_reward \in Nat
  BY <1>1, PositionFields
<1>5. Precision * (pos.pending_reward + earned) <= Weight(plan, pos)
  <2>1. Precision * (pos.pending_reward + earned) =
          Precision * pos.pending_reward + Precision * earned
    <3> HIDE DEF earned
    <3>1. QED
      BY <1>3, <1>4, Constants
  <2>2. Weight(plan, pos) = Precision * pos.pending_reward + product
    BY DEF Weight
  <2>3. Precision * pos.pending_reward \in Nat /\ Precision * earned \in Nat
    <3> HIDE DEF earned
    <3>1. QED
      BY <1>3, <1>4, Constants, ProductIsNat
  <2> HIDE DEF product, earned
  <2>4. QED
    BY <1>2, <1>3, <2>1, <2>2, <2>3
<1>6. Weight(plan, pos) <= Precision * Funds(plan)
  <2>1. Weights(plan, column)[a] <= Total(Weights(plan, column))
    BY ColumnTypes, Constants, TotalBoundsRow
  <2>2. Precision * Funds(plan) \in Int
    BY PlanFields, Constants
  <2>3. QED
    BY <1>2, <2>1, <2>2, ColumnTypes DEF Sound, Weights
<1>7. pos.pending_reward + earned <= Funds(plan)
  <2> HIDE DEF earned, pos
  <2>1. Precision * (pos.pending_reward + earned) \in Int
        /\ Precision * Funds(plan) \in Int
    BY <1>3, <1>4, PlanFields, Constants
  <2>2. Precision * (pos.pending_reward + earned) <= Precision * Funds(plan)
    BY <1>2, <1>5, <1>6, <2>1
  <2>3. QED
    BY <1>3, <1>4, <2>2, PlanFields, Constants, CancelFactor
<1>8. earned < Uint64 \div 2 /\ Uint64 \div 2 = 2 * (MaxAmount + 1)
  <2> HIDE DEF earned, pos
  <2>1. QED
    BY <1>3, <1>4, <1>7, SoundFunds, Constants DEF Amount
<1>9. Int64(earned) = earned
  <2> HIDE DEF earned
  <2>1. (earned + Uint64 \div 2) % Uint64 = earned + Uint64 \div 2
    <3> DEFINE half    == Uint64 \div 2
               shifted == earned + half
    <3>1. half \in Nat /\ Uint64 = 2 * half
      BY <1>8, Constants
    <3>2. shifted \in Int /\ 0 <= shifted /\ shifted < Uint64
      BY <1>3, <1>8, <3>1
    <3> HIDE DEF shifted
    <3>3. shifted % Uint64 = shifted
      BY <3>2, Constants, ModOfNear
    <3>4. QED
      BY <3>3 DEF shifted
  <2>2. QED
    BY <1>3, <1>8, <2>1, Constants DEF Int64
<1>10. Accrued(plan, pos) = earned
  BY <1>9 DEF Accrued, Delta
<1>11. Claimable(plan, pos) = pos.pending_reward + earned
  BY <1>10 DEF Claimable
<1>12. Claimable(plan, pos) =
         pos.pending_reward + (pos.staked * Delta(plan, pos)) \div Precision
  BY <1>11
<1> HIDE DEF earned, pos
<1>13. Claimable(plan, pos) \in Amount /\ Accrued(plan, pos) \in Amount
  BY <1>3, <1>4, <1>7, <1>10, <1>11, SoundFunds, Constants DEF Amount
<1>14. CanSettle(plan, pos)
  BY <1>13, Constants DEF CanSettle, InRange, Amount
<1>15. QED
  BY <1>5, <1>7, <1>11, <1>13, <1>14, <1>12 DEF pos, ClaimWeight

-----------------------------------------------------------------------------
(* How the weights change.                                                 *)

Restated(plan, pos, stake) == [Settled(plan, pos) EXCEPT !.staked = stake]

(* A position settled and given another stake weighs what is claimable,    *)
(* and nothing once that was paid.                                         *)
LEMMA SettledWeight ==
  ASSUME NEW plan \in Plan, NEW column \in Column, Sound(plan, column),
         NEW a \in Accounts, NEW stake \in Amount
  PROVE  /\ Restated(plan, column[a], stake) \in Position
         /\ Restated(plan, column[a], stake).staked = stake
         /\ Weight(plan, Restated(plan, column[a], stake)) = ClaimWeight(plan, column[a])
<1> DEFINE pos     == column[a]
           claim   == Claimable(plan, pos)
           settled == Restated(plan, pos, stake)
<1>1. pos \in Position
  BY DEF Column
<1>2. claim \in Amount
  BY ClaimableBound
<1> HIDE DEF claim
<1>3. settled = [staked |-> stake, reward_per_share_paid |-> plan.reward_per_share,
                 pending_reward |-> claim]
  <2>1. settled = [pos EXCEPT !.pending_reward = claim,
                              !.reward_per_share_paid = plan.reward_per_share,
                              !.staked = stake]
    BY DEF Settled, Restated, claim
  <2> HIDE DEF pos, settled
  <2>2. QED
    BY <1>1, <2>1 DEF Position
<1> HIDE DEF settled
<1>4. settled \in Position
  BY <1>2, <1>3, PlanFields DEF Position
<1>5. Delta(plan, settled) = 0
  BY <1>3, SettledDelta
<1>6. stake * 0 = 0 /\ Precision * claim \in Int
  BY <1>2, Constants DEF Amount
<1>7. Weight(plan, settled) = Precision * claim
  BY <1>3, <1>5, <1>6 DEF Weight
<1>8. QED
  BY <1>3, <1>4, <1>7 DEF settled, claim, ClaimWeight

(* A position that was paid out keeps its stake and weighs nothing.        *)
LEMMA PaidWeight ==
  ASSUME NEW plan \in Plan, NEW column \in Column, Sound(plan, column),
         NEW a \in Accounts
  PROVE  /\ PaidOut(plan, column[a]) \in Position
         /\ PaidOut(plan, column[a]).staked = column[a].staked
         /\ Weight(plan, PaidOut(plan, column[a])) = 0
<1> DEFINE pos  == column[a]
           paid == PaidOut(plan, pos)
<1>1. pos \in Position /\ pos.staked \in Amount /\ 0 \in Amount
  BY PositionFields, Constants DEF Column, Amount
<1>2. paid = [staked |-> pos.staked, reward_per_share_paid |-> plan.reward_per_share,
              pending_reward |-> 0]
  <2>1. paid = [pos EXCEPT !.pending_reward = 0,
                           !.reward_per_share_paid = plan.reward_per_share]
    BY <1>1 DEF Settled, PaidOut, Position
  <2> HIDE DEF pos, paid
  <2>2. QED
    BY <1>1, <2>1 DEF Position
<1> HIDE DEF paid
<1>3. paid \in Position
  BY <1>1, <1>2, PlanFields DEF Position
<1>4. Delta(plan, paid) = 0
  BY <1>2, SettledDelta
<1>5. pos.staked * 0 = 0 /\ Precision * 0 = 0
  BY <1>1, Constants DEF Amount
<1>6. Weight(plan, paid) = 0
  BY <1>2, <1>4, <1>5 DEF Weight
<1>7. QED
  BY <1>2, <1>3, <1>6 DEF paid

(* A position that loses weight takes as much off the total.               *)
LEMMA PositionChange ==
  ASSUME NEW plan \in Plan, NEW column \in Column, NEW a \in Accounts,
         NEW pos \in Position, NEW loss \in Nat,
         Weight(plan, pos) + loss <= Weight(plan, column[a])
  PROVE  LET changed == [column EXCEPT ![a] = pos]
         IN  /\ changed \in Column
             /\ Total(Weights(plan, changed)) + loss <= Total(Weights(plan, column))
             /\ Total(Stakes(changed)) + column[a].staked =
                  Total(Stakes(column)) + pos.staked
<1> DEFINE changed == [column EXCEPT ![a] = pos]
<1>1. changed \in Column /\ changed[a] = pos
      /\ \A b \in Accounts \ {a} : changed[b] = column[b]
  BY DEF Column
<1> HIDE DEF changed
<1>2. Total(Weights(plan, changed)) + Weight(plan, column[a]) =
        Total(Weights(plan, column)) + Weight(plan, pos)
  <2>1. /\ Weights(plan, changed)[a] = Weight(plan, pos)
        /\ Weights(plan, column)[a] = Weight(plan, column[a])
        /\ \A b \in Accounts \ {a} : Weights(plan, changed)[b] = Weights(plan, column)[b]
    BY <1>1 DEF Weights
  <2>2. /\ Weights(plan, changed) \in [Accounts -> Nat]
        /\ Weights(plan, column) \in [Accounts -> Nat]
    BY <1>1, ColumnTypes
  <2> HIDE DEF Weights
  <2>3. QED
    BY <2>1, <2>2, Constants, TotalUpdate
<1>3. Total(Stakes(changed)) + column[a].staked = Total(Stakes(column)) + pos.staked
  <2>1. /\ Stakes(changed)[a] = pos.staked
        /\ Stakes(column)[a] = column[a].staked
        /\ \A b \in Accounts \ {a} : Stakes(changed)[b] = Stakes(column)[b]
    BY <1>1 DEF Stakes
  <2>2. Stakes(changed) \in [Accounts -> Nat] /\ Stakes(column) \in [Accounts -> Nat]
    BY <1>1, ColumnTypes
  <2>3. QED
    BY <2>1, <2>2, Constants, TotalUpdate
<1>4. /\ Total(Weights(plan, changed)) \in Nat /\ Total(Weights(plan, column)) \in Nat
      /\ Weight(plan, pos) \in Nat /\ Weight(plan, column[a]) \in Nat
  BY <1>1, ColumnTypes, WeightType DEF Column
<1>5. QED
  BY <1>1, <1>2, <1>3, <1>4 DEF changed

(* Spreading a reward over all the stakes adds at most the reward to what  *)
(* is owed, whatever rounding and wrapping make of it.                     *)
LEMMA SpreadWeight ==
  ASSUME NEW plan \in Plan, NEW column \in Column, NEW spread \in Plan,
         NEW reward \in Nat, Total(Stakes(column)) > 0,
         spread.reward_per_share =
           (plan.reward_per_share + Share(reward, Total(Stakes(column)))) % Uint64
  PROVE  Total(Weights(spread, column)) <=
           Total(Weights(plan, column)) + Precision * reward
<1> DEFINE stakes == Stakes(column)
           total  == Total(stakes)
           share  == Share(reward, total)
           added  == [a \in Accounts |-> share * stakes[a]]
           bound  == [a \in Accounts |-> Weights(plan, column)[a] + added[a]]
<1>1. /\ stakes \in [Accounts -> Nat] /\ total \in Nat \ {0}
      /\ Weights(plan, column) \in [Accounts -> Nat]
      /\ Weights(spread, column) \in [Accounts -> Nat]
  BY ColumnTypes
<1> HIDE DEF stakes, total
<1>2. share \in 0 .. Uint64 - 1 /\ total * share <= Precision * reward
  <2> DEFINE value == reward * Precision
             whole == value \div total
  <2>1. value \in Nat /\ value = Precision * reward
    BY Constants
  <2> HIDE DEF value
  <2>2. whole \in Nat /\ total * whole <= value
    BY <1>1, <2>1, DivOfNat
  <2> HIDE DEF whole
  <2>3. share = whole % Uint64
    BY DEF Share, value, whole
  <2>4. share \in 0 .. Uint64 - 1 /\ share <= whole
    BY <2>2, <2>3, Constants, ModOfNat
  <2>5. total * share <= total * whole
    BY <1>1, <2>2, <2>4, Constants, ProductMonotone
  <2>6. total * share \in Int /\ total * whole \in Int
    BY <1>1, <2>2, <2>4, Constants
  <2>7. QED
    BY <2>1, <2>2, <2>4, <2>5, <2>6
<1> HIDE DEF share
<1>3. share \in Nat
  BY <1>2, Constants
<1>4. added \in [Accounts -> Nat] /\ bound \in [Accounts -> Nat]
  <2>1. added \in [Accounts -> Nat]
    BY <1>1, <1>3, ProductIsNat
  <2> HIDE DEF added
  <2>2. QED
    BY <1>1, <2>1
<1>5. \A a \in Accounts : Weights(spread, column)[a] <= bound[a]
  <2> TAKE a \in Accounts
  <2> DEFINE pos    == column[a]
             before == Delta(plan, pos)
             after  == Delta(spread, pos)
  <2>1. pos \in Position
    BY DEF Column
  <2>2. /\ before \in 0 .. Uint64 - 1 /\ after \in 0 .. Uint64 - 1
        /\ Precision * pos.pending_reward \in Nat
        /\ pos.staked * before \in Nat /\ pos.staked * after \in Nat
    BY <2>1, WeightType
  <2>3. after <= before + share
    <3> DEFINE r == plan.reward_per_share
               p == pos.reward_per_share_paid
    <3>1. r \in 0 .. Uint64 - 1 /\ p \in 0 .. Uint64 - 1
      BY <2>1, PlanFields, PositionFields
    <3>2. spread.reward_per_share = (r + share) % Uint64
      BY DEF share, total, stakes
    <3> HIDE DEF r, p
    <3>3. (((r + share) % Uint64) - p) % Uint64 <= ((r - p) % Uint64) + share
      BY <1>2, <3>1, Constants, CounterRise
    <3>4. QED
      BY <3>2, <3>3 DEF Delta, r, p
  <2> HIDE DEF before, after
  <2>4. pos.staked \in Nat
    BY <2>1, PositionFields
  <2>5. pos.staked * after <= pos.staked * before + share * pos.staked
    <3>1. before \in Nat /\ after \in Nat
      BY <2>2, Constants
    <3>2. pos.staked * after <= pos.staked * (before + share)
      BY <1>3, <2>3, <2>4, <3>1, ProductMonotone
    <3>3. pos.staked * (before + share) = pos.staked * before + share * pos.staked
      BY <1>3, <2>4, <3>1
    <3>4. QED
      BY <3>2, <3>3
  <2>6. /\ Weights(spread, column)[a] = Precision * pos.pending_reward + pos.staked * after
        /\ Weights(plan, column)[a] = Precision * pos.pending_reward + pos.staked * before
        /\ added[a] = share * pos.staked
    BY DEF Weights, Weight, Stakes, stakes, before, after
  <2>7. share * pos.staked \in Nat
    BY <1>3, <2>4, ProductIsNat
  <2>8. QED
    BY <2>2, <2>5, <2>6, <2>7
<1>6. Total(added) = share * total
  BY <1>1, <1>3, Constants, TotalScaled DEF total
<1>7. Total(bound) = Total(Weights(plan, column)) + Total(added)
  <2> HIDE DEF added, Weights
  <2>1. QED
    BY <1>1, <1>4, Constants, TotalSum
<1>8. Total(Weights(spread, column)) <= Total(bound)
  <2> HIDE DEF bound
  <2>1. QED
    BY <1>1, <1>4, <1>5, Constants, TotalMonotone
<1>9. share * total = total * share
  BY <1>1, <1>3
<1>10. /\ Total(Weights(spread, column)) \in Nat /\ Total(Weights(plan, column)) \in Nat
       /\ total * share \in Nat /\ Precision * reward \in Nat
  BY <1>1, <1>3, ColumnTypes, Constants, ProductIsNat
<1>11. QED
  BY <1>2, <1>6, <1>7, <1>8, <1>9, <1>10

-----------------------------------------------------------------------------
(* What the operations do to a plan and its column.                        *)

(* Only the reward per share of a plan counts for the weights.             *)
LEMMA SameWeights ==
  ASSUME NEW plan, NEW other, NEW column, plan.reward_per_share = other.reward_per_share
  PROVE  Weights(plan, column) = Weights(other, column)
BY DEF Weights, Weight, Delta

(* A reward spread over all stakes keeps a plan sound.                     *)
LEMMA SpreadSound ==
  ASSUME NEW plan \in Plan, NEW column \in Column, NEW spread \in Plan,
         NEW reward \in Nat, Total(Stakes(column)) > 0,
         Total(Stakes(column)) = spread.total_staked,
         spread.undistributed_reward = 0,
         Total(Weights(plan, column)) + Precision * reward <= Precision * Funds(spread),
         spread.reward_per_share =
           (plan.reward_per_share + Share(reward, Total(Stakes(column)))) % Uint64
  PROVE  Sound(spread, column)
<1>1. Total(Weights(spread, column)) <= Total(Weights(plan, column)) + Precision * reward
  BY SpreadWeight
<1>2. /\ Total(Weights(spread, column)) \in Nat /\ Total(Weights(plan, column)) \in Nat
      /\ Precision * reward \in Int /\ Precision * Funds(spread) \in Int
  BY ColumnTypes, PlanFields, Constants
<1>3. QED
  BY <1>1, <1>2 DEF Sound

(* The reward per share stays a uint64_t when it rises.                    *)
LEMMA RisenType ==
  ASSUME NEW plan \in Plan, NEW quantity \in Nat, NEW total \in Nat \ {0}
  PROVE  (plan.reward_per_share + Share(quantity, total)) % Uint64 \in 0 .. Uint64 - 1
<1> DEFINE value == quantity * Precision
           whole == value \div total
           sum   == plan.reward_per_share + Share(quantity, total)
<1>1. value \in Nat
  BY Constants, ProductIsNat
<1> HIDE DEF value
<1>2. whole \in Nat
  BY <1>1, DivOfNat
<1> HIDE DEF whole
<1>3. Share(quantity, total) \in Nat
  BY <1>2, Constants, ModOfNat DEF Share, value, whole
<1>4. sum \in Nat
  BY <1>3, PlanFields, Constants
<1> HIDE DEF sum
<1>5. sum % Uint64 \in 0 .. Uint64 - 1
  BY <1>4, Constants, ModOfNat
<1>6. QED
  BY <1>5 DEF sum

(* apply_fundreward keeps a plan sound.                                    *)
LEMMA RewardSound ==
  ASSUME NEW plan \in Plan, NEW column \in Column, Sound(plan, column),
         NEW quantity \in Nat, InRange(plan.total_reward + quantity)
  PROVE  /\ AfterReward(plan, quantity) \in Plan
         /\ Sound(AfterReward(plan, quantity), column)
         /\ AfterReward(plan, quantity).total_staked = plan.total_staked
         /\ AfterReward(plan, quantity).total_reward = plan.total_reward + quantity
         /\ AfterReward(plan, quantity).claimed_reward = plan.claimed_reward
         /\ AfterReward(plan, quantity).stake_token = plan.stake_token
         /\ AfterReward(plan, quantity).reward_token = plan.reward_token
<1> DEFINE after == AfterReward(plan, quantity)
           total == plan.total_staked
           risen == (plan.reward_per_share + Share(quantity, total)) % Uint64
<1>1. total \in Nat /\ Total(Stakes(column)) = total
  BY PlanFields, Constants DEF Amount, Sound
<1>2. plan.total_reward + quantity \in Amount
  BY PlanFields, Constants DEF InRange, Amount
<1>3. plan.undistributed_reward + quantity \in Amount
  BY <1>2, SoundFunds, PlanFields, Constants DEF Amount
<1>4. total > 0 => risen \in 0 .. Uint64 - 1
  BY <1>1, RisenType
<1> DEFINE per_share == IF total > 0 THEN risen ELSE plan.reward_per_share
           parked    == IF total > 0 THEN plan.undistributed_reward
                                     ELSE plan.undistributed_reward + quantity
           funded    == plan.total_reward + quantity
<1>5. /\ per_share \in 0 .. Uint64 - 1 /\ parked \in Amount /\ funded \in Amount
      /\ after = Rewarded(plan, funded, per_share, parked)
  BY <1>2, <1>3, <1>4, PlanFields DEF AfterReward, Rewarded
<1> HIDE DEF per_share, parked, funded, after, risen
<1>6. /\ after \in Plan
      /\ after.total_staked = plan.total_staked
      /\ after.total_reward = funded
      /\ after.claimed_reward = plan.claimed_reward
      /\ after.undistributed_reward = parked
      /\ after.reward_per_share = per_share
      /\ after.stake_token = plan.stake_token
      /\ after.reward_token = plan.reward_token
  BY <1>5, RewardedFields
<1>7. Sound(after, column)
  <2>1. CASE total > 0
    <3>1. /\ after.reward_per_share = risen /\ after.undistributed_reward = 0
          /\ plan.undistributed_reward = 0
          /\ after.total_staked = total
          /\ after.total_reward = plan.total_reward + quantity
          /\ after.claimed_reward = plan.claimed_reward
      BY <1>6, <2>1 DEF Sound, per_share, parked, funded
    <3>2. Funds(after) = Funds(plan) + quantity
      BY <3>1, PlanFields, Constants DEF Funds, Amount
    <3>3. Precision * Funds(after) = Precision * Funds(plan) + Precision * quantity
      BY <3>2, PlanFields, Constants
    <3>4. /\ Total(Weights(plan, column)) \in Nat /\ Precision * quantity \in Int
          /\ Precision * Funds(plan) \in Int
      BY ColumnTypes, PlanFields, Constants
    <3>5. Total(Weights(plan, column)) + Precision * quantity <= Precision * Funds(after)
      BY <3>3, <3>4 DEF Sound
    <3>6. after.reward_per_share =
            (plan.reward_per_share + Share(quantity, Total(Stakes(column)))) % Uint64
      BY <1>1, <3>1 DEF risen
    <3>7. QED
      BY <1>1, <1>6, <2>1, <3>1, <3>5, <3>6, SpreadSound
  <2>2. CASE ~ (total > 0)
    <3>1. /\ after.reward_per_share = plan.reward_per_share
          /\ after.undistributed_reward = plan.undistributed_reward + quantity
          /\ after.total_staked = total
          /\ after.total_reward = plan.total_reward + quantity
          /\ after.claimed_reward = plan.claimed_reward
      BY <1>6, <2>2 DEF per_share, parked, funded
    <3>2. Funds(after) = Funds(plan)
      BY <3>1, PlanFields, Constants DEF Funds, Amount
    <3>3. Weights(after, column) = Weights(plan, column)
      BY <3>1, SameWeights
    <3>4. QED
      BY <1>1, <2>2, <3>1, <3>2, <3>3 DEF Sound
  <2>3. QED
    BY <2>1, <2>2
<1>8. QED
  BY <1>6, <1>7 DEF after, funded

(* A stake is added to the position after that was settled, and releases   *)
(* the reward that was parked while nobody staked.                         *)
LEMMA StakeSound ==
  ASSUME NEW plan \in Plan, NEW column \in Column, Sound(plan, column),
         NEW a \in Accounts, NEW quantity \in Nat \ {0},
         InRange(plan.total_staked + quantity)
  PROVE  LET after   == AfterStake(plan, quantity)
             changed == [column EXCEPT ![a] = Increased(plan, @, quantity)]
         IN  /\ after \in Plan /\ changed \in Column
             /\ Sound(after, changed)
             /\ after.total_staked = plan.total_staked + quantity
             /\ after.total_reward = plan.total_reward
             /\ after.claimed_reward = plan.claimed_reward
             /\ after.stake_token = plan.stake_token
             /\ after.reward_token = plan.reward_token
<1> DEFINE pos       == column[a]
           stake     == pos.staked + quantity
           increased == Increased(plan, pos, quantity)
           changed   == [column EXCEPT ![a] = increased]
           after     == AfterStake(plan, quantity)
           total     == plan.total_staked + quantity
           parked    == plan.undistributed_reward
           releases  == plan.total_staked = 0 /\ parked > 0
           risen     == (plan.reward_per_share + Share(parked, total)) % Uint64
           per_share == IF releases THEN risen ELSE plan.reward_per_share
           left      == IF releases THEN 0 ELSE parked
<1>1. /\ pos \in Position /\ pos.staked \in Nat
      /\ plan.total_staked \in Nat /\ parked \in Nat
      /\ total \in Amount /\ total \in Nat \ {0} /\ 0 \in Amount
  BY PositionFields, PlanFields, Constants DEF Column, InRange, Amount
<1>2. pos.staked <= plan.total_staked
  <2>1. Stakes(column)[a] <= Total(Stakes(column))
    BY ColumnTypes, Constants, TotalBoundsRow
  <2>2. QED
    BY <2>1 DEF Sound, Stakes
<1>3. stake \in Amount
  BY <1>1, <1>2, Constants DEF Amount
<1>4. /\ increased \in Position /\ increased.staked = stake
      /\ Weight(plan, increased) = ClaimWeight(plan, pos)
  <2>1. increased = Restated(plan, pos, stake)
    BY <1>1 DEF Increased, Settled, Position, Restated
  <2> HIDE DEF increased
  <2> HIDE DEF stake
  <2>2. QED
    BY <1>3, <2>1, SettledWeight
<1>5. Weight(plan, increased) + 0 <= Weight(plan, pos)
  BY <1>1, <1>4, WeightType, ClaimableBound
<1> HIDE DEF increased
<1>6. /\ changed \in Column
      /\ Total(Weights(plan, changed)) + 0 <= Total(Weights(plan, column))
      /\ Total(Stakes(changed)) + pos.staked = Total(Stakes(column)) + increased.staked
  BY <1>4, <1>5, PositionChange
<1> HIDE DEF changed
<1>7. /\ Total(Stakes(changed)) = total
      /\ Total(Weights(plan, changed)) <= Precision * Funds(plan)
  <2>1. /\ Total(Weights(plan, changed)) \in Nat /\ Total(Weights(plan, column)) \in Nat
        /\ Total(Stakes(changed)) \in Nat /\ Precision * Funds(plan) \in Int
    BY <1>6, ColumnTypes, PlanFields, Constants
  <2>2. QED
    BY <1>1, <1>4, <1>6, <2>1 DEF Sound
<1>8. risen \in 0 .. Uint64 - 1
  BY <1>1, RisenType
<1>9. /\ per_share \in 0 .. Uint64 - 1 /\ left \in Amount
      /\ after = Restaked(plan, total, per_share, left)
  BY <1>1, <1>8, PlanFields DEF AfterStake, Restaked
<1> HIDE DEF per_share, left, after, risen, total
<1>10. /\ after \in Plan
       /\ after.total_staked = total
       /\ after.total_reward = plan.total_reward
       /\ after.claimed_reward = plan.claimed_reward
       /\ after.undistributed_reward = left
       /\ after.reward_per_share = per_share
       /\ after.stake_token = plan.stake_token
       /\ after.reward_token = plan.reward_token
  BY <1>1, <1>9, RestakedFields
<1>11. Sound(after, changed)
  <2>1. CASE releases
    <3>1. left = 0 /\ per_share = risen
      BY <2>1 DEF left, per_share
    <3>2. Funds(after) = Funds(plan) + parked
      BY <1>1, <1>10, <3>1, PlanFields, Constants DEF Funds, Amount
    <3>3. Precision * Funds(after) = Precision * Funds(plan) + Precision * parked
      BY <1>1, <3>2, PlanFields, Constants
    <3>4. /\ Total(Weights(plan, changed)) \in Nat /\ Precision * parked \in Int
          /\ Precision * Funds(plan) \in Int
      BY <1>1, <1>6, ColumnTypes, PlanFields, Constants
    <3>5. Total(Weights(plan, changed)) + Precision * parked <= Precision * Funds(after)
      BY <1>7, <3>3, <3>4
    <3>6. after.reward_per_share =
            (plan.reward_per_share + Share(parked, Total(Stakes(changed)))) % Uint64
      BY <1>7, <1>10, <3>1 DEF risen
    <3>7. /\ Total(Stakes(changed)) > 0 /\ Total(Stakes(changed)) = after.total_staked
          /\ after.undistributed_reward = 0
      BY <1>1, <1>7, <1>10, <3>1
    <3>8. QED
      BY <1>1, <1>6, <1>10, <3>5, <3>6, <3>7, SpreadSound
  <2>2. CASE ~ releases
    <3>1. left = parked /\ per_share = plan.reward_per_share /\ parked = 0
      BY <1>1, <2>2 DEF left, per_share, Sound
    <3>2. Funds(after) = Funds(plan)
      BY <1>10, <3>1 DEF Funds
    <3>3. Weights(after, changed) = Weights(plan, changed)
      BY <1>10, <3>1, SameWeights
    <3>4. QED
      BY <1>7, <1>10, <3>1, <3>2, <3>3 DEF Sound
  <2>3. QED
    BY <2>1, <2>2
<1>12. QED
  BY <1>6, <1>10, <1>11 DEF after, changed, increased, total

(* unstake keeps a plan sound.                                             *)
LEMMA UnstakeSound ==
  ASSUME NEW plan \in Plan, NEW column \in Column, Sound(plan, column),
         NEW a \in Accounts, NEW quantity \in Nat, column[a].staked >= quantity
  PROVE  LET after   == [plan EXCEPT !.total_staked = @ - quantity]
             changed == [column EXCEPT ![a] = Decreased(plan, @, quantity)]
         IN  /\ after \in Plan /\ changed \in Column
             /\ Sound(after, changed)
             /\ after.total_staked = plan.total_staked - quantity
             /\ quantity <= plan.total_staked
             /\ after.total_reward = plan.total_reward
             /\ after.claimed_reward = plan.claimed_reward
             /\ after.stake_token = plan.stake_token
             /\ after.reward_token = plan.reward_token
<1> DEFINE pos     == column[a]
           stake   == pos.staked - quantity
           decreased == Decreased(plan, pos, quantity)
           changed == [column EXCEPT ![a] = decreased]
           after   == [plan EXCEPT !.total_staked = @ - quantity]
           total   == plan.total_staked - quantity
<1>1. /\ pos \in Position /\ pos.staked \in Nat /\ plan.total_staked \in Nat
      /\ stake \in Amount
  BY PositionFields, PlanFields, Constants DEF Column, Amount
<1>2. pos.staked <= plan.total_staked
  <2>1. Stakes(column)[a] <= Total(Stakes(column))
    BY ColumnTypes, Constants, TotalBoundsRow
  <2>2. QED
    BY <2>1 DEF Sound, Stakes
<1>3. total \in Amount
  BY <1>1, <1>2, PlanFields, Constants DEF Amount
<1>4. /\ decreased \in Position /\ decreased.staked = stake
      /\ Weight(plan, decreased) = ClaimWeight(plan, pos)
  <2>1. decreased = Restated(plan, pos, stake)
    BY <1>1 DEF Decreased, Settled, Position, Restated
  <2> HIDE DEF decreased
  <2> HIDE DEF stake
  <2>2. QED
    BY <1>1, <2>1, SettledWeight
<1>5. Weight(plan, decreased) + 0 <= Weight(plan, pos)
  BY <1>1, <1>4, WeightType, ClaimableBound
<1> HIDE DEF decreased
<1>6. /\ changed \in Column
      /\ Total(Weights(plan, changed)) + 0 <= Total(Weights(plan, column))
      /\ Total(Stakes(changed)) + pos.staked = Total(Stakes(column)) + decreased.staked
  BY <1>4, <1>5, PositionChange
<1> HIDE DEF changed
<1>7. after = Unstaked(plan, total)
  BY DEF Unstaked
<1> HIDE DEF after
<1>8. /\ after \in Plan
      /\ after.total_staked = total
      /\ after.total_reward = plan.total_reward
      /\ after.claimed_reward = plan.claimed_reward
      /\ after.undistributed_reward = plan.undistributed_reward
      /\ after.reward_per_share = plan.reward_per_share
      /\ after.stake_token = plan.stake_token
      /\ after.reward_token = plan.reward_token
  <2> HIDE DEF total
  <2>1. QED
    BY <1>3, <1>7, UnstakedFields
<1>9. Sound(after, changed)
  <2>1. /\ Total(Weights(plan, changed)) \in Nat /\ Total(Weights(plan, column)) \in Nat
        /\ Total(Stakes(changed)) \in Nat /\ Precision * Funds(plan) \in Int
    BY <1>6, ColumnTypes, PlanFields, Constants
  <2>2. Funds(after) = Funds(plan) /\ Weights(after, changed) = Weights(plan, changed)
    BY <1>8, SameWeights DEF Funds
  <2>3. QED
    BY <1>1, <1>2, <1>4, <1>6, <1>8, <2>1, <2>2 DEF Sound
<1>10. QED
  BY <1>1, <1>2, <1>6, <1>8, <1>9 DEF after, changed, decreased

(* claim keeps a plan sound.                                               *)
LEMMA ClaimSound ==
  ASSUME NEW plan \in Plan, NEW column \in Column, Sound(plan, column),
         NEW a \in Accounts,
         InRange(plan.claimed_reward + Claimable(plan, column[a]))
  PROVE  LET amount  == Claimable(plan, column[a])
             after   == [plan EXCEPT !.claimed_reward = @ + amount]
             changed == [column EXCEPT ![a] = PaidOut(plan, @)]
         IN  /\ after \in Plan /\ changed \in Column
             /\ Sound(after, changed)
             /\ after.total_staked = plan.total_staked
             /\ after.total_reward = plan.total_reward
             /\ after.claimed_reward = plan.claimed_reward + amount
             /\ after.stake_token = plan.stake_token
             /\ after.reward_token = plan.reward_token
<1> DEFINE pos     == column[a]
           amount  == Claimable(plan, pos)
           paid    == PaidOut(plan, pos)
           changed == [column EXCEPT ![a] = paid]
           after   == [plan EXCEPT !.claimed_reward = @ + amount]
           claimed == plan.claimed_reward + amount
           loss    == Precision * amount
<1>1. /\ pos \in Position /\ pos.staked \in Amount /\ pos.staked \in Nat
      /\ amount \in Amount /\ amount \in Nat /\ plan.claimed_reward \in Nat
      /\ loss <= Weight(plan, pos)
  BY PositionFields, PlanFields, ClaimableBound, Constants
     DEF Column, Amount, ClaimWeight
<1> HIDE DEF amount
<1>2. claimed \in Amount /\ loss \in Nat
  BY <1>1, Constants, ProductIsNat DEF InRange, Amount, amount
<1> HIDE DEF loss
<1>3. paid \in Position /\ paid.staked = pos.staked /\ Weight(plan, paid) = 0
  BY PaidWeight
<1>4. Weight(plan, paid) + loss <= Weight(plan, pos)
  BY <1>1, <1>2, <1>3
<1> HIDE DEF paid
<1>5. /\ changed \in Column
      /\ Total(Weights(plan, changed)) + loss <= Total(Weights(plan, column))
      /\ Total(Stakes(changed)) + pos.staked = Total(Stakes(column)) + paid.staked
  BY <1>2, <1>3, <1>4, PositionChange
<1> HIDE DEF changed
<1>6. after = Claimed(plan, claimed)
  BY DEF Claimed
<1> HIDE DEF after
<1>7. /\ after \in Plan
      /\ after.total_staked = plan.total_staked
      /\ after.total_reward = plan.total_reward
      /\ after.claimed_reward = claimed
      /\ after.undistributed_reward = plan.undistributed_reward
      /\ after.reward_per_share = plan.reward_per_share
      /\ after.stake_token = plan.stake_token
      /\ after.reward_token = plan.reward_token
  <2> HIDE DEF claimed
  <2>1. QED
    BY <1>2, <1>6, ClaimedFields
<1>8. Sound(after, changed)
  <2>1. /\ Total(Weights(plan, changed)) \in Nat /\ Total(Weights(plan, column)) \in Nat
        /\ Total(Stakes(changed)) \in Nat /\ Total(Stakes(column)) \in Nat
        /\ Precision * Funds(plan) \in Int
    BY <1>5, ColumnTypes, PlanFields, Constants
  <2>2. Funds(after) = Funds(plan) - amount /\ Weights(after, changed) = Weights(plan, changed)
    <3>1. Funds(after) = Funds(plan) - amount
      BY <1>1, <1>7, PlanFields, Constants DEF Funds, Amount
    <3>2. QED
      BY <1>7, <3>1, SameWeights
  <2>3. Precision * Funds(after) = Precision * Funds(plan) - loss
    BY <1>1, <2>2, PlanFields, Constants DEF loss
  <2>4. QED
    BY <1>1, <1>2, <1>3, <1>5, <1>7, <2>1, <2>2, <2>3 DEF Sound
<1>9. QED
  BY <1>5, <1>7, <1>8 DEF after, changed, paid, amount

-----------------------------------------------------------------------------
(* The inductive invariant: every plan is sound, an NFT without a plan has *)
(* no positions, and the tokens cover the plans.                           *)

PlansInv ==
  /\ Planned \subseteq Nfts
  /\ plans \in [Planned -> Plan]
  /\ positions \in [Nfts -> Column]
  /\ \A nft \in Planned : Sound(plans[nft], positions[nft])
  /\ \A nft \in Nfts \ Planned : positions[nft] = [a \in Accounts |-> NoPosition]

TokensInv ==
  /\ controller \in [Nfts -> Accounts \cup {NoName}]
  /\ held \in [Tokens -> 0 .. Supply]
  /\ unbacked \in [Tokens -> 0 .. MaxUnbacked]

StakeInv == PlansInv /\ TokensInv /\ Backed

(* What a plan needs of token t: its stakes and its unpaid rewards.        *)
Need(t, plan) ==
  (IF plan.stake_token = t THEN plan.total_staked ELSE 0)
  + (IF plan.reward_token = t THEN plan.total_reward - plan.claimed_reward ELSE 0)

Needs(t) == [nft \in Planned |-> Need(t, plans[nft])]

(* A sound plan needs a natural number of each token.                      *)
LEMMA NeedType ==
  ASSUME NEW t, NEW plan \in Plan, NEW column \in Column, Sound(plan, column)
  PROVE  Need(t, plan) \in Nat
<1>1. plan.total_staked \in Nat /\ plan.total_reward - plan.claimed_reward \in Nat
  BY SoundFunds, PlanFields, Constants DEF Amount
<1>2. QED
  BY <1>1 DEF Need

(* The needs of all plans have a total.                                    *)
LEMMA NeedsType ==
  ASSUME PlansInv, NEW t
  PROVE  /\ IsFiniteSet(Planned)
         /\ Needs(t) \in [Planned -> Nat]
         /\ Total(Needs(t)) \in Nat
<1>1. IsFiniteSet(Planned)
  BY Constants, FS_Subset DEF PlansInv
<1>2. \A nft \in Planned : Need(t, plans[nft]) \in Nat
  BY NeedType DEF PlansInv
<1>3. Needs(t) \in [Planned -> Nat]
  BY <1>2 DEF Needs
<1>4. QED
  BY <1>1, <1>3, TotalType

(* A step that concerns the plan and the positions of one NFT.             *)
LEMMA OnePlanStep ==
  ASSUME PlansInv, NEW nft \in Planned, NEW plan \in Plan, NEW column \in Column,
         Sound(plan, column),
         plans' = [plans EXCEPT ![nft] = plan],
         positions' = [positions EXCEPT ![nft] = column]
  PROVE  /\ PlansInv'
         /\ \A t : /\ Total(Needs(t)') \in Nat
                  /\ Total(Needs(t)') + Need(t, plans[nft]) =
                       Total(Needs(t)) + Need(t, plan)
<1>1. /\ DOMAIN plans' = DOMAIN plans /\ nft \in Nfts
      /\ plans'[nft] = plan /\ positions'[nft] = column
      /\ \A n \in Planned \ {nft} : plans'[n] = plans[n]
      /\ \A n \in Nfts \ {nft} : positions'[n] = positions[n]
  BY DEF PlansInv, Planned
<1>2. plans' \in [Planned' -> Plan] /\ positions' \in [Nfts -> Column]
  BY <1>1 DEF PlansInv, Planned
<1>3. PlansInv'
  BY <1>1, <1>2 DEF PlansInv, Planned
<1>4. ASSUME NEW t
      PROVE  /\ Total(Needs(t)') \in Nat
             /\ Total(Needs(t)') + Need(t, plans[nft]) = Total(Needs(t)) + Need(t, plan)
  <2>1. /\ Needs(t)' = [n \in Planned |-> Need(t, plans'[n])]
        /\ \A n \in Planned : Need(t, plans'[n]) \in Nat
    BY <1>1, <1>2, <1>3, NeedType DEF Needs, PlansInv, Planned
  <2>2. /\ Needs(t)' \in [Planned -> Nat]
        /\ Needs(t)'[nft] = Need(t, plan) /\ Needs(t)[nft] = Need(t, plans[nft])
        /\ \A n \in Planned \ {nft} : Needs(t)'[n] = Needs(t)[n]
    BY <1>1, <2>1 DEF Needs
  <2>3. QED
    BY <2>2, NeedsType, TotalType, TotalUpdate
<1>5. QED
  BY <1>3, <1>4

(* Backed, in terms of the needs.                                          *)
LEMMA BackedIsCover ==
  Backed <=> \A t \in Tokens : Total(Needs(t)) <= held[t] + unbacked[t]
BY DEF Backed, Needs, Need

(* Without plans the invariant holds.                                      *)
LEMMA NoPlansInv ==
  ASSUME Init  PROVE StakeInv
<1>1. PlansInv
  <2>1. NoPosition \in Position
    BY Constants DEF NoPosition, Position, Amount
  <2>2. [a \in Accounts |-> NoPosition] \in Column
    BY <2>1 DEF Column
  <2>3. QED
    BY <2>2 DEF Init, NoPlans, PlansInv, Planned
<1>2. TokensInv
  BY Constants DEF Init, NoPlans, TokensInv
<1>3. \A t \in Tokens : Total(Needs(t)) = 0
  <2> TAKE t \in Tokens
  <2>1. Planned = {}
    BY DEF Init, NoPlans, Planned
  <2>2. Needs(t) \in [Planned -> Nat] /\ \A n \in Planned : Needs(t)[n] = 0
    BY <2>1 DEF Needs
  <2>3. QED
    BY <2>2, TotalZero
<1>4. QED
  BY <1>1, <1>2, <1>3, BackedIsCover DEF StakeInv, Init, NoPlans

(* A new plan is sound and needs nothing.                                  *)
LEMMA CreateplanInv ==
  ASSUME StakeInv, NEW nft \in Nfts, NEW st \in Tokens, NEW rt \in Tokens,
         Createplan(nft, st, rt)
  PROVE  StakeInv'
<1> DEFINE plan == [stake_token |-> st, reward_token |-> rt,
                    total_staked |-> 0, total_reward |-> 0, claimed_reward |-> 0,
                    undistributed_reward |-> 0, reward_per_share |-> 0]
           column == [a \in Accounts |-> NoPosition]
<1>1. /\ nft \notin Planned /\ Planned' = Planned \cup {nft}
      /\ positions' = positions /\ positions[nft] = column
      /\ plans'[nft] = plan /\ \A n \in Planned : plans'[n] = plans[n]
      /\ plans' = [n \in Planned \cup {nft} |-> IF n = nft THEN plan ELSE plans[n]]
  BY DEF Createplan, StakeInv, PlansInv, Planned
<1>2. plan \in Plan /\ column \in Column
  BY Constants DEF Plan, Column, Position, NoPosition, Amount
<1>3. Sound(plan, column)
  <2>1. \A a \in Accounts : Stakes(column)[a] = 0 /\ Weights(plan, column)[a] = 0
    <3>1. Precision * 0 = 0 /\ 0 * Delta(plan, NoPosition) = 0
      <4>1. Delta(plan, NoPosition) = 0
        BY <1>2, SettledDelta DEF NoPosition
      <4>2. QED
        BY <4>1, Constants
    <3>2. QED
      BY <3>1 DEF Stakes, Weights, Weight, NoPosition
  <2>2. Total(Stakes(column)) = 0 /\ Total(Weights(plan, column)) = 0
    BY <1>2, <2>1, ColumnTypes, TotalZero
  <2>3. Precision * Funds(plan) = 0
    BY Constants DEF Funds
  <2>4. QED
    BY <2>2, <2>3 DEF Sound
<1> HIDE DEF plan, column
<1>4. PlansInv'
  <2>1. plans' \in [Planned' -> Plan]
    BY <1>1, <1>2 DEF StakeInv, PlansInv
  <2>2. QED
    BY <1>1, <1>2, <1>3, <2>1 DEF StakeInv, PlansInv, column
<1>5. \A t \in Tokens : Total(Needs(t)') = Total(Needs(t))
  <2> TAKE t \in Tokens
  <2>1. Need(t, plan) = 0
    BY DEF Need, plan
  <2>2. /\ DOMAIN Needs(t) = Planned /\ DOMAIN Needs(t)' = Planned \cup {nft}
        /\ Needs(t)'[nft] = 0
        /\ \A n \in Planned : Needs(t)'[n] = Needs(t)[n]
    BY <1>1, <2>1 DEF Needs
  <2>3. {nft} \X (1 .. 0) = {}
    OBVIOUS
  <2>4. UnitsOf(Needs(t)') = UnitsOf(Needs(t)) \cup ({nft} \X (1 .. 0))
    BY <2>2 DEF UnitsOf
  <2>5. QED
    BY <2>3, <2>4 DEF Total
<1>6. QED
  <2>1. UNCHANGED <<controller, held, unbacked>>
    BY DEF Createplan
  <2>2. TokensInv'
    BY <2>1 DEF TokensInv, StakeInv
  <2>3. Backed'
    BY <1>5, <2>1, BackedIsCover DEF StakeInv, Backed, Needs, Need
  <2>4. QED
    BY <1>4, <2>2, <2>3 DEF StakeInv

(* A step that changes one plan and leaves Backed true: whatever it needs  *)
(* more of a token has come in or was credited, whatever has gone out is   *)
(* needed no longer.                                                       *)
LEMMA CoveredStep ==
  ASSUME StakeInv, NEW nft \in Planned, NEW plan \in Plan, NEW column \in Column,
         Sound(plan, column),
         plans' = [plans EXCEPT ![nft] = plan],
         positions' = [positions EXCEPT ![nft] = column],
         TokensInv',
         \A t \in Tokens :
           Need(t, plan) + held[t] + unbacked[t] <=
             Need(t, plans[nft]) + held'[t] + unbacked'[t]
  PROVE  StakeInv'
<1>1. PlansInv /\ TokensInv /\ Backed
  BY DEF StakeInv
<1>2. PlansInv'
  BY <1>1, OnePlanStep
<1>3. \A t \in Tokens : Total(Needs(t)') <= held'[t] + unbacked'[t]
  <2> TAKE t \in Tokens
  <2>1. Total(Needs(t)') + Need(t, plans[nft]) = Total(Needs(t)) + Need(t, plan)
    BY <1>1, OnePlanStep
  <2>2. Total(Needs(t)) <= held[t] + unbacked[t]
    BY <1>1, BackedIsCover
  <2>3. Need(t, plans[nft]) \in Nat /\ Need(t, plan) \in Nat
    BY <1>1, NeedType DEF PlansInv
  <2>4. Total(Needs(t)) \in Nat
    BY <1>1, NeedsType
  <2>5. Total(Needs(t)') \in Nat
    BY <1>1, OnePlanStep
  <2>6. held[t] \in Nat /\ held'[t] \in Nat /\ unbacked[t] \in Nat /\ unbacked'[t] \in Nat
    BY <1>1, Constants DEF TokensInv
  <2>7. QED
    BY <2>1, <2>2, <2>3, <2>4, <2>5, <2>6
<1>4. Backed'
  BY <1>3 DEF Backed, Needs, Need
<1>5. QED
  BY <1>2, <1>4 DEF StakeInv

(* Staking, whether tokens are received for it or it is credited.          *)
LEMMA ApplyStakeInv ==
  ASSUME StakeInv, NEW staker \in Accounts, NEW nft \in Planned, NEW quantity \in Nat \ {0},
         ApplyStake(staker, nft, quantity), TokensInv',
         \A t \in Tokens :
           held'[t] + unbacked'[t] >=
             held[t] + unbacked[t] + (IF t = plans[nft].stake_token THEN quantity ELSE 0)
  PROVE  StakeInv'
<1> DEFINE plan   == plans[nft]
           column == positions[nft]
           after  == AfterStake(plan, quantity)
           changed == [column EXCEPT ![staker] = Increased(plan, @, quantity)]
<1>1. plan \in Plan /\ column \in Column /\ Sound(plan, column)
  BY DEF StakeInv, PlansInv
<1>2. InRange(plan.total_staked + quantity)
  BY DEF ApplyStake
<1>3. plans' = [plans EXCEPT ![nft] = after] /\ positions' = [positions EXCEPT ![nft] = changed]
  BY DEF ApplyStake
<1> HIDE DEF plan, column
<1>4. /\ after \in Plan /\ changed \in Column
      /\ Sound(after, changed)
      /\ after.total_staked = plan.total_staked + quantity
      /\ after.total_reward = plan.total_reward
      /\ after.claimed_reward = plan.claimed_reward
      /\ after.stake_token = plan.stake_token
      /\ after.reward_token = plan.reward_token
  BY <1>1, <1>2, StakeSound
<1> HIDE DEF after, changed
<1>5. \A t \in Tokens :
        Need(t, after) = Need(t, plan) + (IF t = plan.stake_token THEN quantity ELSE 0)
  BY <1>1, <1>4, PlanFields, Constants DEF Need, Amount
<1>6. \A t \in Tokens :
        Need(t, after) + held[t] + unbacked[t] <= Need(t, plan) + held'[t] + unbacked'[t]
  <2> TAKE t \in Tokens
  <2>1. held[t] \in Nat /\ held'[t] \in Nat /\ unbacked[t] \in Nat /\ unbacked'[t] \in Nat
    BY Constants DEF TokensInv, StakeInv
  <2>2. Need(t, plan) \in Nat
    BY <1>1, NeedType
  <2>3. QED
    BY <1>5, <2>1, <2>2 DEF plan
<1>7. QED
  BY <1>3, <1>4, <1>6, CoveredStep DEF plan

(* Funding a reward, whether tokens are received for it or it is credited. *)
LEMMA ApplyFundrewardInv ==
  ASSUME StakeInv, NEW nft \in Planned, NEW quantity \in Nat \ {0},
         ApplyFundreward(nft, quantity), TokensInv',
         \A t \in Tokens :
           held'[t] + unbacked'[t] >=
             held[t] + unbacked[t] + (IF t = plans[nft].reward_token THEN quantity ELSE 0)
  PROVE  StakeInv'
<1> DEFINE plan   == plans[nft]
           column == positions[nft]
           after  == AfterReward(plan, quantity)
<1>1. plan \in Plan /\ column \in Column /\ Sound(plan, column)
  BY DEF StakeInv, PlansInv
<1>2. InRange(plan.total_reward + quantity)
  BY DEF ApplyFundreward
<1>3. plans' = [plans EXCEPT ![nft] = after] /\ positions' = [positions EXCEPT ![nft] = column]
  BY DEF ApplyFundreward, StakeInv, PlansInv
<1> HIDE DEF plan, column
<1>4. /\ after \in Plan /\ Sound(after, column)
      /\ after.total_staked = plan.total_staked
      /\ after.total_reward = plan.total_reward + quantity
      /\ after.claimed_reward = plan.claimed_reward
      /\ after.stake_token = plan.stake_token
      /\ after.reward_token = plan.reward_token
  BY <1>1, <1>2, RewardSound
<1> HIDE DEF after
<1>5. \A t \in Tokens :
        Need(t, after) = Need(t, plan) + (IF t = plan.reward_token THEN quantity ELSE 0)
  BY <1>1, <1>4, PlanFields, Constants DEF Need, Amount
<1>6. \A t \in Tokens :
        Need(t, after) + held[t] + unbacked[t] <= Need(t, plan) + held'[t] + unbacked'[t]
  <2> TAKE t \in Tokens
  <2>1. held[t] \in Nat /\ held'[t] \in Nat /\ unbacked[t] \in Nat /\ unbacked'[t] \in Nat
    BY Constants DEF TokensInv, StakeInv
  <2>2. Need(t, plan) \in Nat
    BY <1>1, NeedType
  <2>3. QED
    BY <1>5, <2>1, <2>2 DEF plan
<1>7. QED
  BY <1>1, <1>3, <1>4, <1>6, CoveredStep DEF plan

(* What comes in or is credited.                                           *)
LEMMA ReceiveInv ==
  ASSUME TokensInv, NEW token \in Tokens, NEW quantity \in Nat, Receive(token, quantity)
  PROVE  /\ TokensInv'
         /\ \A t \in Tokens :
              held'[t] + unbacked'[t] >=
                held[t] + unbacked[t] + (IF t = token THEN quantity ELSE 0)
<1>1. /\ held[token] + quantity \in 0 .. Supply
      /\ held' = [held EXCEPT ![token] = held[token] + quantity]
      /\ UNCHANGED <<controller, unbacked>>
  BY Constants DEF Receive, TokensInv
<1>2. TokensInv'
  BY <1>1 DEF TokensInv
<1>3. QED
  BY <1>1, <1>2, Constants DEF TokensInv

(* What is credited on the contract's own authority, likewise.             *)
LEMMA CreditInv ==
  ASSUME TokensInv, NEW token \in Tokens, NEW quantity \in Nat, Credit(token, quantity)
  PROVE  /\ TokensInv'
         /\ \A t \in Tokens :
              held'[t] + unbacked'[t] >=
                held[t] + unbacked[t] + (IF t = token THEN quantity ELSE 0)
<1>1. /\ unbacked[token] + quantity \in 0 .. MaxUnbacked
      /\ unbacked' = [unbacked EXCEPT ![token] = unbacked[token] + quantity]
      /\ UNCHANGED <<controller, held>>
  BY Constants DEF Credit, TokensInv
<1>2. TokensInv'
  BY <1>1 DEF TokensInv
<1>3. QED
  BY <1>1, <1>2, Constants DEF TokensInv

(* unstake pays out what its plan then needs no longer.                    *)
LEMMA UnstakeInv ==
  ASSUME StakeInv, NEW staker \in Accounts, NEW nft \in Nfts, NEW quantity \in Nat,
         Unstake(staker, nft, quantity)
  PROVE  StakeInv'
<1> DEFINE plan    == plans[nft]
           column  == positions[nft]
           after   == [plan EXCEPT !.total_staked = @ - quantity]
           changed == [column EXCEPT ![staker] = Decreased(plan, @, quantity)]
           token   == plan.stake_token
<1>1. /\ nft \in Planned
      /\ plan \in Plan /\ column \in Column /\ Sound(plan, column)
      /\ column[staker].staked >= quantity
      /\ token \in Tokens /\ held[token] >= quantity
  BY PlanFields DEF Unstake, CanUnstake, StakeInv, PlansInv
<1>2. /\ plans' = [plans EXCEPT ![nft] = after]
      /\ positions' = [positions EXCEPT ![nft] = changed]
      /\ held' = [held EXCEPT ![token] = held[token] - quantity]
      /\ UNCHANGED <<controller, unbacked>>
  BY DEF Unstake
<1> HIDE DEF plan, column
<1>3. /\ after \in Plan /\ changed \in Column
      /\ Sound(after, changed)
      /\ after.total_staked = plan.total_staked - quantity
      /\ after.total_reward = plan.total_reward
      /\ after.claimed_reward = plan.claimed_reward
      /\ after.stake_token = plan.stake_token
      /\ after.reward_token = plan.reward_token
  BY <1>1, UnstakeSound
<1> HIDE DEF after, changed
<1>4. TokensInv'
  <2>1. held[token] - quantity \in 0 .. Supply
    BY <1>1, Constants DEF StakeInv, TokensInv
  <2>2. QED
    BY <1>2, <2>1 DEF StakeInv, TokensInv
<1>5. \A t \in Tokens :
        Need(t, after) + held[t] + unbacked[t] <= Need(t, plan) + held'[t] + unbacked'[t]
  <2> TAKE t \in Tokens
  <2>1. held[t] \in Nat /\ unbacked[t] \in Nat
    BY Constants DEF TokensInv, StakeInv
  <2>2. Need(t, after) = Need(t, plan) - (IF t = token THEN quantity ELSE 0)
    BY <1>1, <1>3, PlanFields, Constants DEF Need, Amount
  <2>3. Need(t, plan) \in Nat
    BY <1>1, NeedType
  <2>4. held'[t] = held[t] - (IF t = token THEN quantity ELSE 0) /\ unbacked'[t] = unbacked[t]
    BY <1>2, <2>1 DEF StakeInv, TokensInv
  <2>5. QED
    BY <2>1, <2>2, <2>3, <2>4
<1>6. QED
  BY <1>1, <1>2, <1>3, <1>4, <1>5, CoveredStep DEF plan

(* claim pays out what its plan then needs no longer.                      *)
LEMMA ClaimInv ==
  ASSUME StakeInv, NEW staker \in Accounts, NEW nft \in Nfts, Claim(staker, nft)
  PROVE  StakeInv'
<1> DEFINE plan    == plans[nft]
           column  == positions[nft]
           amount  == Claimable(plan, column[staker])
           after   == [plan EXCEPT !.claimed_reward = @ + amount]
           changed == [column EXCEPT ![staker] = PaidOut(plan, @)]
           token   == plan.reward_token
<1>1. /\ nft \in Planned
      /\ plan \in Plan /\ column \in Column /\ Sound(plan, column)
      /\ InRange(plan.claimed_reward + amount)
      /\ token \in Tokens /\ held[token] >= amount
  BY PlanFields DEF Claim, CanClaim, StakeInv, PlansInv
<1>2. /\ plans' = [plans EXCEPT ![nft] = after]
      /\ positions' = [positions EXCEPT ![nft] = changed]
      /\ held' = [held EXCEPT ![token] = held[token] - amount]
      /\ UNCHANGED <<controller, unbacked>>
  BY DEF Claim
<1> HIDE DEF plan, column
<1>3. amount \in Nat
  BY <1>1, ClaimableBound, Constants DEF Amount
<1>4. /\ after \in Plan /\ changed \in Column
      /\ Sound(after, changed)
      /\ after.total_staked = plan.total_staked
      /\ after.total_reward = plan.total_reward
      /\ after.claimed_reward = plan.claimed_reward + amount
      /\ after.stake_token = plan.stake_token
      /\ after.reward_token = plan.reward_token
  BY <1>1, ClaimSound
<1> HIDE DEF after, changed, amount
<1>5. TokensInv'
  <2>1. held[token] - amount \in 0 .. Supply
    BY <1>1, <1>3, Constants DEF StakeInv, TokensInv
  <2>2. QED
    BY <1>2, <2>1 DEF StakeInv, TokensInv
<1>6. \A t \in Tokens :
        Need(t, after) + held[t] + unbacked[t] <= Need(t, plan) + held'[t] + unbacked'[t]
  <2> TAKE t \in Tokens
  <2>1. held[t] \in Nat /\ unbacked[t] \in Nat
    BY Constants DEF TokensInv, StakeInv
  <2>2. Need(t, after) = Need(t, plan) - (IF t = token THEN amount ELSE 0)
    BY <1>1, <1>3, <1>4, PlanFields, Constants DEF Need, Amount
  <2>3. Need(t, plan) \in Nat
    BY <1>1, NeedType
  <2>4. held'[t] = held[t] - (IF t = token THEN amount ELSE 0) /\ unbacked'[t] = unbacked[t]
    BY <1>2, <2>1 DEF StakeInv, TokensInv
  <2>5. QED
    BY <1>3, <2>1, <2>2, <2>3, <2>4
<1>7. QED
  BY <1>1, <1>2, <1>4, <1>5, <1>6, CoveredStep DEF plan

(* A transfer with any other memo: more is held, and no plan needs more.   *)
LEMMA TransferOtherInv ==
  ASSUME StakeInv, NEW token \in Tokens, NEW quantity \in Nat,
         TransferOther(token, quantity)
  PROVE  StakeInv'
<1>1. TokensInv' /\ \A t \in Tokens : held'[t] + unbacked'[t] >= held[t] + unbacked[t]
  <2>1. /\ TokensInv'
        /\ \A t \in Tokens :
             held'[t] + unbacked'[t] >=
               held[t] + unbacked[t] + (IF t = token THEN quantity ELSE 0)
    BY ReceiveInv DEF TransferOther, StakeInv
  <2>2. \A t \in Tokens : /\ held[t] \in Nat /\ unbacked[t] \in Nat
                          /\ held'[t] \in Nat /\ unbacked'[t] \in Nat
    BY <2>1, Constants DEF StakeInv, TokensInv
  <2>3. QED
    BY <2>1, <2>2
<1>2. UNCHANGED <<plans, positions>>
  BY DEF TransferOther
<1>3. PlansInv'
  BY <1>2 DEF StakeInv, PlansInv, Planned
<1>4. \A t \in Tokens : Total(Needs(t)') <= held'[t] + unbacked'[t]
  <2> TAKE t \in Tokens
  <2>1. Needs(t)' = Needs(t)
    BY <1>2 DEF Needs, Planned
  <2>2. Total(Needs(t)) <= held[t] + unbacked[t] /\ Total(Needs(t)) \in Nat
    BY BackedIsCover, NeedsType DEF StakeInv
  <2>3. /\ held[t] \in Nat /\ unbacked[t] \in Nat
        /\ held'[t] \in Nat /\ unbacked'[t] \in Nat
    BY <1>1, Constants DEF StakeInv, TokensInv
  <2>4. QED
    BY <1>1, <2>1, <2>2, <2>3
<1>5. QED
  BY <1>1, <1>3, <1>4 DEF StakeInv, Backed, Needs, Need

(* No action of the contract, of gnos.ntoken or of a token breaks the      *)
(* invariant.                                                              *)
LEMMA StakeInvStep ==
  ASSUME StakeInv, [Next]_vars
  PROVE  StakeInv'
<1>1. \A q \in 1 .. Supply : q \in Nat \ {0}
  BY Constants
<1>2. \A q \in 1 .. MaxUnbacked : q \in Nat \ {0}
  BY Constants
<1>3. \A q \in 1 .. MaxAmount : q \in Nat \ {0}
  BY Constants
<1>4. ASSUME NEW nft \in Nfts, NEW a \in Accounts, ChangeController(nft, a)
      PROVE  StakeInv'
  BY <1>4 DEF ChangeController, StakeInv, PlansInv, TokensInv, Backed, Planned
<1>5. ASSUME NEW nft \in Nfts, NEW st \in Tokens, NEW rt \in Tokens,
             Createplan(nft, st, rt)
      PROVE  StakeInv'
  BY <1>5, CreateplanInv
<1>6. ASSUME NEW a \in Accounts, NEW nft \in Nfts, NEW t \in Tokens,
             NEW q \in 1 .. Supply, TransferStake(a, nft, t, q)
      PROVE  StakeInv'
  <2>1. /\ nft \in Planned /\ t = plans[nft].stake_token
        /\ ApplyStake(a, nft, q) /\ Receive(t, q)
    BY <1>6 DEF TransferStake, IsTokenOf
  <2>2. /\ TokensInv'
        /\ \A u \in Tokens :
             held'[u] + unbacked'[u] >= held[u] + unbacked[u] + (IF u = t THEN q ELSE 0)
    BY <1>1, <2>1, ReceiveInv DEF StakeInv
  <2>3. QED
    BY <1>1, <2>1, <2>2, ApplyStakeInv
<1>7. ASSUME NEW a \in Accounts, NEW nft \in Nfts, NEW t \in Tokens,
             NEW q \in 1 .. Supply, TransferReward(a, nft, t, q)
      PROVE  StakeInv'
  <2>1. /\ nft \in Planned /\ t = plans[nft].reward_token
        /\ ApplyFundreward(nft, q) /\ Receive(t, q)
    BY <1>7 DEF TransferReward, IsTokenOf
  <2>2. /\ TokensInv'
        /\ \A u \in Tokens :
             held'[u] + unbacked'[u] >= held[u] + unbacked[u] + (IF u = t THEN q ELSE 0)
    BY <1>1, <2>1, ReceiveInv DEF StakeInv
  <2>3. QED
    BY <1>1, <2>1, <2>2, ApplyFundrewardInv
<1>8. ASSUME NEW t \in Tokens, NEW q \in 1 .. Supply, TransferOther(t, q)
      PROVE  StakeInv'
  BY <1>1, <1>8, TransferOtherInv
<1>9. ASSUME NEW a \in Accounts, NEW nft \in Nfts, NEW q \in 1 .. MaxUnbacked,
             Stake(a, nft, q)
      PROVE  StakeInv'
  <2>1. /\ nft \in Planned /\ plans[nft].stake_token \in Tokens
        /\ ApplyStake(a, nft, q) /\ Credit(plans[nft].stake_token, q)
    BY <1>9, PlanFields DEF Stake, StakeInv, PlansInv
  <2>2. /\ TokensInv'
        /\ \A u \in Tokens :
             held'[u] + unbacked'[u] >=
               held[u] + unbacked[u] + (IF u = plans[nft].stake_token THEN q ELSE 0)
    BY <1>2, <2>1, CreditInv DEF StakeInv
  <2>3. QED
    BY <1>2, <2>1, <2>2, ApplyStakeInv
<1>10. ASSUME NEW nft \in Nfts, NEW q \in 1 .. MaxUnbacked, Fundreward(nft, q)
       PROVE  StakeInv'
  <2>1. /\ nft \in Planned /\ plans[nft].reward_token \in Tokens
        /\ ApplyFundreward(nft, q) /\ Credit(plans[nft].reward_token, q)
    BY <1>10, PlanFields DEF Fundreward, StakeInv, PlansInv
  <2>2. /\ TokensInv'
        /\ \A u \in Tokens :
             held'[u] + unbacked'[u] >=
               held[u] + unbacked[u] + (IF u = plans[nft].reward_token THEN q ELSE 0)
    BY <1>2, <2>1, CreditInv DEF StakeInv
  <2>3. QED
    BY <1>2, <2>1, <2>2, ApplyFundrewardInv
<1>11. ASSUME NEW a \in Accounts, NEW nft \in Nfts, NEW q \in 1 .. MaxAmount,
              Unstake(a, nft, q)
       PROVE  StakeInv'
  BY <1>3, <1>11, UnstakeInv
<1>12. ASSUME NEW a \in Accounts, NEW nft \in Nfts, Claim(a, nft)
       PROVE  StakeInv'
  BY <1>12, ClaimInv
<1>13. CASE UNCHANGED vars
  BY <1>13 DEF vars, StakeInv, PlansInv, TokensInv, Backed, Planned
<1>14. QED
  BY <1>4, <1>5, <1>6, <1>7, <1>8, <1>9, <1>10, <1>11, <1>12, <1>13 DEF Next

(* The invariant holds in every reachable state.                           *)
LEMMA StakeInvHolds == Spec => []StakeInv
<1>1. Init => StakeInv
  BY NoPlansInv
<1>2. StakeInv /\ [Next]_vars => StakeInv'
  BY StakeInvStep
<1>3. QED
  BY <1>1, <1>2, PTL DEF Spec

-----------------------------------------------------------------------------
(* What the invariant gives.                                               *)

(* Every counter and every asset of gnos.stake stays within its width,     *)
(* whatever the precision and the width of an asset are.                   *)
THEOREM StakeIsTyped == Spec => []TypeOK
<1>1. StakeInv => TypeOK
  BY DEF StakeInv, PlansInv, TokensInv, TypeOK, Column
<1>2. QED
  BY <1>1, StakeInvHolds, PTL

(* The total by which apply_fundreward divides a reward is, in every plan, *)
(* the sum of what the stakers have staked.                                *)
THEOREM StakesAddUp == Spec => []StakedMatchesPositions
<1>1. StakeInv => StakedMatchesPositions
  <2>1. \A nft : StakedOf(nft) = Stakes(positions[nft])
    BY DEF StakedOf, Stakes
  <2>2. QED
    BY <2>1 DEF StakeInv, PlansInv, Sound, StakedMatchesPositions
<1>2. QED
  BY <1>1, StakeInvHolds, PTL

(* A reward is parked only while nobody stakes: apply_stake releases all   *)
(* of it with the first stake, and unstake parks nothing.                  *)
THEOREM RewardIsNeverIdle == Spec => []NoIdleReward
<1>1. StakeInv => NoIdleReward
  BY DEF StakeInv, PlansInv, Sound, NoIdleReward
<1>2. QED
  BY <1>1, StakeInvHolds, PTL

(* The claims on a sound plan do not exceed its funds together.            *)
LEMMA PlanIsSolvent ==
  ASSUME NEW plan \in Plan, NEW column \in Column, Sound(plan, column)
  PROVE  Total([a \in Accounts |-> Claimable(plan, column[a])]) <= Funds(plan)
<1> DEFINE claims == [a \in Accounts |-> Claimable(plan, column[a])]
           scaled == [a \in Accounts |-> Precision * claims[a]]
<1>1. \A a \in Accounts :
        /\ Claimable(plan, column[a]) \in Nat
        /\ Precision * Claimable(plan, column[a]) <= Weight(plan, column[a])
  BY ClaimableBound, Constants DEF ClaimWeight, Amount
<1>2. claims \in [Accounts -> Nat]
  BY <1>1
<1>3. scaled \in [Accounts -> Nat]
  <2> HIDE DEF claims
  <2>1. \A a \in Accounts : Precision * claims[a] \in Nat
    BY <1>2, Constants, ProductIsNat
  <2>2. QED
    BY <2>1
<1>4. \A a \in Accounts : scaled[a] <= Weights(plan, column)[a]
  BY <1>1 DEF Weights
<1> HIDE DEF claims
<1>5. Total(scaled) = Precision * Total(claims)
  BY <1>2, Constants, TotalScaled
<1> HIDE DEF scaled
<1>6. Total(scaled) <= Total(Weights(plan, column))
  BY <1>3, <1>4, ColumnTypes, Constants, TotalMonotone
<1>7. /\ Total(claims) \in Nat /\ Total(scaled) \in Nat
      /\ Total(Weights(plan, column)) \in Nat
      /\ Precision * Funds(plan) \in Int /\ Funds(plan) \in Int
  BY <1>2, <1>3, ColumnTypes, PlanFields, Constants, TotalType
<1>8. Precision * Total(claims) <= Precision * Funds(plan)
  BY <1>5, <1>6, <1>7 DEF Sound
<1>9. QED
  BY <1>7, <1>8, Constants, CancelFactor DEF claims

(* A plan never owes more than it was funded with, for any number of       *)
(* stakers, any precision, and wherever the uint64_t reward per share has  *)
(* wrapped.                                                                *)
THEOREM PlansAreSolvent == Spec => []RewardSolvency
<1>1. ASSUME StakeInv, NEW nft \in Planned
      PROVE  /\ \A a \in Accounts : Claimable(plans[nft], positions[nft][a]) >= 0
             /\ Total(ClaimableOf(nft)) + plans[nft].claimed_reward
                  + plans[nft].undistributed_reward <= plans[nft].total_reward
  <2>1. /\ plans[nft] \in Plan /\ positions[nft] \in Column
        /\ Sound(plans[nft], positions[nft])
    BY <1>1 DEF StakeInv, PlansInv
  <2>2. \A a \in Accounts : Claimable(plans[nft], positions[nft][a]) \in Nat
    BY <2>1, ClaimableBound, Constants DEF Amount
  <2>3. Total(ClaimableOf(nft)) <= Funds(plans[nft])
    BY <2>1, PlanIsSolvent DEF ClaimableOf
  <2>4. Total(ClaimableOf(nft)) \in Nat
    BY <2>2, Constants, TotalType DEF ClaimableOf
  <2>5. QED
    BY <2>1, <2>2, <2>3, <2>4, PlanFields, Constants DEF Funds, Amount
<1>2. StakeInv => RewardSolvency
  BY <1>1 DEF RewardSolvency
<1>3. QED
  BY <1>2, StakeInvHolds, PTL

(* The one balance that all plans share covers them all, up to what the    *)
(* contract's own authority credited by stake and fundreward.              *)
THEOREM PlansAreBacked == Spec => []Backed
<1>1. StakeInv => Backed
  BY DEF StakeInv
<1>2. QED
  BY <1>1, StakeInvHolds, PTL

(* Without unbacked credits the balance of a token covers each plan.       *)
LEMMA HeldCoversPlan ==
  ASSUME StakeInv, NEW t \in Tokens, unbacked[t] = 0, NEW nft \in Planned
  PROVE  held[t] >= Need(t, plans[nft])
<1>1. Needs(t)[nft] <= Total(Needs(t))
  BY NeedsType, TotalBoundsRow DEF StakeInv
<1>2. Total(Needs(t)) <= held[t] + unbacked[t]
  BY BackedIsCover DEF StakeInv
<1>3. Needs(t)[nft] = Need(t, plans[nft]) /\ Needs(t)[nft] \in Nat
  BY NeedsType DEF Needs, StakeInv
<1>4. held[t] \in Nat /\ Total(Needs(t)) \in Nat
  BY NeedsType, Constants DEF StakeInv, TokensInv
<1>5. QED
  BY <1>1, <1>2, <1>3, <1>4

(* No staker of any plan can be locked in, by rounding, by a range check   *)
(* or by what the other plans have paid out.                               *)
THEOREM NobodyIsLockedIn == Spec => []ExitAlwaysOpen
<1>1. ASSUME StakeInv, \A t \in Tokens : unbacked[t] = 0,
             NEW nft \in Planned, NEW a \in Accounts
      PROVE  /\ CanUnstake(a, nft, positions[nft][a].staked)
             /\ Claimable(plans[nft], positions[nft][a]) > 0 => CanClaim(a, nft)
  <2> DEFINE plan   == plans[nft]
             column == positions[nft]
             pos    == column[a]
             amount == Claimable(plan, pos)
  <2>1. plan \in Plan /\ column \in Column /\ Sound(plan, column)
    BY <1>1 DEF StakeInv, PlansInv
  <2>2. plan.stake_token \in Tokens /\ plan.reward_token \in Tokens
    BY <2>1, PlanFields
  <2>3. /\ held[plan.stake_token] >= Need(plan.stake_token, plan)
        /\ held[plan.reward_token] >= Need(plan.reward_token, plan)
    BY <1>1, <2>2, HeldCoversPlan
  <2>4. held[plan.stake_token] \in Nat /\ held[plan.reward_token] \in Nat
    BY <1>1, <2>2, Constants DEF StakeInv, TokensInv
  <2> HIDE DEF plan, column
  <2>5. pos.staked \in Nat /\ pos.staked <= plan.total_staked
    <3>1. Stakes(column)[a] <= Total(Stakes(column))
      BY <2>1, ColumnTypes, Constants, TotalBoundsRow
    <3>2. pos.staked \in Nat
      BY <2>1, PositionFields DEF Column
    <3>3. QED
      BY <2>1, <3>1, <3>2 DEF Sound, Stakes
  <2>6. amount \in Nat /\ amount <= Funds(plan) /\ CanSettle(plan, pos)
    BY <2>1, ClaimableBound, Constants DEF Amount
  <2>7. /\ plan.total_staked \in Nat /\ plan.claimed_reward \in Nat
        /\ plan.undistributed_reward \in Nat /\ plan.total_reward \in Amount
        /\ plan.claimed_reward <= plan.total_reward
    BY <2>1, PlanFields, SoundFunds, Constants DEF Amount
  <2>8. /\ Need(plan.stake_token, plan) >= plan.total_staked
        /\ Need(plan.reward_token, plan) >= plan.total_reward - plan.claimed_reward
    BY <2>7, Constants DEF Need, Amount
  <2>9. Need(plan.stake_token, plan) \in Nat /\ Need(plan.reward_token, plan) \in Nat
    BY <2>1, NeedType
  <2> HIDE DEF pos, amount
  <2>10. held[plan.stake_token] >= pos.staked
    BY <2>3, <2>4, <2>5, <2>7, <2>8, <2>9
  <2>11. /\ held[plan.reward_token] >= amount
         /\ InRange(plan.claimed_reward + amount)
    BY <2>3, <2>4, <2>6, <2>7, <2>8, <2>9, Constants DEF Funds, InRange, Amount
  <2>12. QED
    BY <2>5, <2>6, <2>10, <2>11 DEF CanUnstake, CanClaim, plan, column, pos, amount
<1>2. StakeInv => ExitAlwaysOpen
  BY <1>1 DEF ExitAlwaysOpen
<1>3. QED
  BY <1>2, StakeInvHolds, PTL

-----------------------------------------------------------------------------
(* Earnings.  As long as the precision times all the reward of a plan fits *)
(* 64 bits, its reward per share does not wrap: it is at most the          *)
(* precision times the reward that was spread.  So it only rises, and no   *)
(* position was settled at a higher one.                                   *)

Unwrapped(plan) == Precision * plan.total_reward < Uint64

Low(plan) ==
  plan.reward_per_share <= Precision * (plan.total_reward - plan.undistributed_reward)

Behind(plan, pos) == pos.reward_per_share_paid <= plan.reward_per_share

EarningsInv ==
  /\ StakeInv
  /\ \A nft \in Planned : Unwrapped(plans[nft]) =>
       /\ Low(plans[nft])
       /\ \A a \in Accounts : Behind(plans[nft], positions[nft][a])

(* What a step may do to a plan.                                           *)
Rises(old, new) ==
  /\ old.total_reward <= new.total_reward
  /\ Unwrapped(new) /\ Low(old) =>
       Low(new) /\ old.reward_per_share <= new.reward_per_share

(* A reward that is spread raises the reward per share by at most the      *)
(* precision times the reward.                                             *)
LEMMA SpreadRises ==
  ASSUME NEW plan \in Plan, NEW quantity \in Nat, NEW total \in Nat \ {0},
         plan.reward_per_share + Precision * quantity < Uint64
  PROVE  /\ plan.reward_per_share <=
              (plan.reward_per_share + Share(quantity, total)) % Uint64
         /\ (plan.reward_per_share + Share(quantity, total)) % Uint64 <=
              plan.reward_per_share + Precision * quantity
<1> DEFINE value == quantity * Precision
           whole == value \div total
           share == Share(quantity, total)
           sum   == plan.reward_per_share + share
<1>1. value \in Nat /\ value = Precision * quantity
  BY Constants
<1> HIDE DEF value
<1>2. whole \in Nat /\ total * whole <= value
  BY <1>1, DivOfNat
<1> HIDE DEF whole
<1>3. share = whole % Uint64
  BY DEF Share, value, whole
<1> HIDE DEF share
<1>4. share \in Nat /\ share <= whole
  <2>1. share \in 0 .. Uint64 - 1 /\ share <= whole
    BY <1>2, <1>3, Constants, ModOfNat
  <2>2. QED
    BY <2>1, Constants
<1>5. whole <= value
  <2>1. whole * 1 <= whole * total
    BY <1>2, ProductMonotone
  <2>2. whole * 1 = whole /\ whole * total = total * whole
    BY <1>2
  <2>3. total * whole \in Nat
    BY <1>2, ProductIsNat
  <2>4. QED
    BY <1>1, <1>2, <2>1, <2>2, <2>3
<1>6. plan.reward_per_share \in Nat
  BY PlanFields, Constants
<1>7. sum \in Int /\ 0 <= sum /\ sum < Uint64 /\ plan.reward_per_share <= sum
      /\ sum <= plan.reward_per_share + Precision * quantity
  BY <1>1, <1>2, <1>4, <1>5, <1>6, Constants
<1> HIDE DEF sum
<1>8. sum % Uint64 = sum
  BY <1>7, Constants, ModOfNear
<1>9. QED
  BY <1>7, <1>8 DEF sum, share

(* A plan that got a reward.                                               *)
LEMMA RewardRises ==
  ASSUME NEW plan \in Plan, NEW column \in Column, Sound(plan, column),
         NEW quantity \in Nat, InRange(plan.total_reward + quantity)
  PROVE  Rises(plan, AfterReward(plan, quantity))
<1> DEFINE after == AfterReward(plan, quantity)
           total == plan.total_staked
           funded == plan.total_reward + quantity
           risen == (plan.reward_per_share + Share(quantity, total)) % Uint64
           per_share == IF total > 0 THEN risen ELSE plan.reward_per_share
           parked    == IF total > 0 THEN plan.undistributed_reward
                                     ELSE plan.undistributed_reward + quantity
<1>1. /\ total \in Nat /\ plan.total_reward \in Nat /\ plan.undistributed_reward \in Nat
      /\ plan.reward_per_share \in Nat
  BY PlanFields, Constants DEF Amount
<1>2. /\ funded \in Amount /\ plan.undistributed_reward + quantity \in Amount
      /\ funded \in Nat /\ plan.total_reward <= funded
  BY <1>1, SoundFunds, PlanFields, Constants DEF InRange, Amount
<1>3. total > 0 => risen \in 0 .. Uint64 - 1
  BY <1>1, RisenType
<1>4. /\ per_share \in 0 .. Uint64 - 1 /\ parked \in Amount
      /\ after = Rewarded(plan, funded, per_share, parked)
  BY <1>2, <1>3, PlanFields DEF AfterReward, Rewarded
<1> HIDE DEF per_share, parked, funded, after, risen
<1>5. /\ after.total_reward = funded
      /\ after.undistributed_reward = parked
      /\ after.reward_per_share = per_share
  BY <1>2, <1>4, RewardedFields
<1>6. ASSUME Unwrapped(after), Low(plan)
      PROVE  Low(after) /\ plan.reward_per_share <= after.reward_per_share
  <2>1. CASE total > 0
    <3>1. /\ plan.undistributed_reward = 0 /\ parked = 0 /\ per_share = risen
      BY <2>1 DEF Sound, parked, per_share
    <3>2. Precision * funded = Precision * plan.total_reward + Precision * quantity
      BY <1>1, Constants DEF funded
    <3>3. plan.reward_per_share <= Precision * plan.total_reward
      BY <1>1, <1>6, <3>1 DEF Low
    <3>4. /\ Precision * plan.total_reward \in Nat /\ Precision * quantity \in Nat
      BY <1>1, Constants, ProductIsNat
    <3>5. plan.reward_per_share + Precision * quantity < Uint64
      BY <1>1, <1>5, <1>6, <3>2, <3>3, <3>4, Constants DEF Unwrapped
    <3>6. /\ plan.reward_per_share <= risen
          /\ risen <= plan.reward_per_share + Precision * quantity
      BY <1>1, <2>1, <3>5, SpreadRises DEF risen
    <3>7. risen \in Nat
      BY <1>3, <2>1, Constants
    <3>8. risen <= Precision * funded
      BY <1>1, <3>2, <3>3, <3>4, <3>6, <3>7
    <3>9. after.total_reward - after.undistributed_reward = funded
      BY <1>2, <1>5, <3>1
    <3>10. QED
      BY <1>5, <3>1, <3>6, <3>8, <3>9 DEF Low
  <2>2. CASE ~ (total > 0)
    <3>1. /\ per_share = plan.reward_per_share
          /\ parked = plan.undistributed_reward + quantity
      BY <2>2 DEF parked, per_share
    <3>2. after.total_reward - after.undistributed_reward =
            plan.total_reward - plan.undistributed_reward
      BY <1>1, <1>5, <3>1 DEF funded
    <3>3. QED
      BY <1>1, <1>5, <1>6, <3>1, <3>2 DEF Low
  <2>3. QED
    BY <2>1, <2>2
<1>7. QED
  BY <1>2, <1>5, <1>6 DEF Rises, after

(* A plan that somebody staked in: what was parked is spread.              *)
LEMMA StakeRises ==
  ASSUME NEW plan \in Plan, NEW column \in Column, Sound(plan, column),
         NEW quantity \in Nat \ {0}, InRange(plan.total_staked + quantity)
  PROVE  Rises(plan, AfterStake(plan, quantity))
<1> DEFINE after     == AfterStake(plan, quantity)
           total     == plan.total_staked + quantity
           parked    == plan.undistributed_reward
           releases  == plan.total_staked = 0 /\ parked > 0
           risen     == (plan.reward_per_share + Share(parked, total)) % Uint64
           per_share == IF releases THEN risen ELSE plan.reward_per_share
           left      == IF releases THEN 0 ELSE parked
<1>1. /\ plan.total_staked \in Nat /\ parked \in Nat /\ plan.total_reward \in Nat
      /\ plan.reward_per_share \in Nat
      /\ total \in Amount /\ total \in Nat \ {0} /\ 0 \in Amount
  BY PlanFields, Constants DEF InRange, Amount
<1>2. risen \in 0 .. Uint64 - 1
  BY <1>1, RisenType
<1>3. /\ per_share \in 0 .. Uint64 - 1 /\ left \in Amount
      /\ after = Restaked(plan, total, per_share, left)
  BY <1>1, <1>2, PlanFields DEF AfterStake, Restaked
<1> HIDE DEF per_share, left, after, risen, total
<1>4. /\ after.total_reward = plan.total_reward
      /\ after.undistributed_reward = left
      /\ after.reward_per_share = per_share
  BY <1>1, <1>3, RestakedFields
<1>5. ASSUME Unwrapped(after), Low(plan)
      PROVE  Low(after) /\ plan.reward_per_share <= after.reward_per_share
  <2>1. CASE releases
    <3>1. left = 0 /\ per_share = risen
      BY <2>1 DEF left, per_share
    <3>2. Precision * (plan.total_reward - parked) =
            Precision * plan.total_reward - Precision * parked
      BY <1>1, Constants
    <3>3. /\ Precision * plan.total_reward \in Nat /\ Precision * parked \in Nat
      BY <1>1, Constants, ProductIsNat
    <3>4. plan.reward_per_share + Precision * parked <= Precision * plan.total_reward
      BY <1>1, <1>5, <3>2, <3>3 DEF Low
    <3>5. plan.reward_per_share + Precision * parked < Uint64
      BY <1>1, <1>4, <1>5, <3>3, <3>4, Constants DEF Unwrapped
    <3>6. /\ plan.reward_per_share <= risen
          /\ risen <= plan.reward_per_share + Precision * parked
      BY <1>1, <3>5, SpreadRises DEF risen
    <3>7. risen \in Nat
      BY <1>2, Constants
    <3>8. risen <= Precision * plan.total_reward
      BY <1>1, <3>3, <3>4, <3>6, <3>7
    <3>9. after.total_reward - after.undistributed_reward = plan.total_reward
      BY <1>1, <1>4, <3>1
    <3>10. QED
      BY <1>4, <3>1, <3>6, <3>8, <3>9 DEF Low
  <2>2. CASE ~ releases
    <3>1. left = parked /\ per_share = plan.reward_per_share
      BY <2>2 DEF left, per_share
    <3>2. QED
      BY <1>1, <1>4, <1>5, <3>1 DEF Low
  <2>3. QED
    BY <2>1, <2>2
<1>6. QED
  BY <1>1, <1>4, <1>5 DEF Rises, after

(* Nothing else raises or lowers the reward per share.                     *)
LEMMA KeptRises ==
  ASSUME NEW plan \in Plan, NEW after,
         after.total_reward = plan.total_reward,
         after.undistributed_reward = plan.undistributed_reward,
         after.reward_per_share = plan.reward_per_share
  PROVE  Rises(plan, after)
<1>1. plan.total_reward \in Int /\ plan.reward_per_share \in Int
  BY PlanFields, Constants DEF Amount
<1>2. QED
  BY <1>1 DEF Rises, Low

(* What a step may do to a position: nothing, or settle it, or settle it   *)
(* and pay it.                                                             *)
PaidInFull(nft, a) ==
  LET earned == Claimable(plans[nft], positions[nft][a])
  IN  /\ Claimable(plans'[nft], positions'[nft][a]) = 0
      /\ plans'[nft].claimed_reward = plans[nft].claimed_reward + earned
      /\ held'[plans[nft].reward_token] = held[plans[nft].reward_token] - earned

SettledNow(nft, a) ==
  /\ positions'[nft][a].reward_per_share_paid = plans[nft].reward_per_share
  /\ \/ positions'[nft][a].pending_reward = Claimable(plans[nft], positions[nft][a])
     \/ PaidInFull(nft, a)

(* A plan that is new has got nothing yet, and nobody has a position in it.*)
IsBlank(nft) ==
  /\ plans'[nft].total_reward = 0 /\ plans'[nft].undistributed_reward = 0
  /\ plans'[nft].reward_per_share = 0
  /\ positions'[nft] = [a \in Accounts |-> NoPosition]

Rising ==
  /\ \A nft \in Planned :
       /\ nft \in Planned'
       /\ Rises(plans[nft], plans'[nft])
       /\ \A a \in Accounts :
            positions'[nft][a] = positions[nft][a] \/ SettledNow(nft, a)
  /\ \A nft \in Planned' \ Planned : IsBlank(nft)

(* A step that concerns one plan, and one position in it at most.          *)
LEMMA OnePlanRises ==
  ASSUME PlansInv, NEW nft \in Planned, NEW staker \in Accounts, NEW plan, NEW pos,
         plans' = [plans EXCEPT ![nft] = plan],
         \/ UNCHANGED positions
         \/ /\ positions' = [positions EXCEPT ![nft] = [@ EXCEPT ![staker] = pos]]
            /\ SettledNow(nft, staker),
         Rises(plans[nft], plan)
  PROVE  Rising
<1>1. /\ Planned' = Planned /\ nft \in Nfts /\ plans'[nft] = plan
      /\ \A n \in Planned \ {nft} : plans'[n] = plans[n]
  BY DEF PlansInv, Planned
<1>2. \A n \in Planned : plans[n] \in Plan
  BY DEF PlansInv
<1>3. \A n \in Planned : Rises(plans[n], plans'[n])
  BY <1>1, <1>2, KeptRises
<1>4. ASSUME NEW n \in Planned, NEW a \in Accounts
      PROVE  positions'[n][a] = positions[n][a] \/ SettledNow(n, a)
  <2>1. n \in Nfts /\ positions[nft] \in Column /\ positions \in [Nfts -> Column]
    BY <1>1 DEF PlansInv
  <2>2. CASE UNCHANGED positions
    BY <2>2
  <2>3. CASE positions' = [positions EXCEPT ![nft] = [@ EXCEPT ![staker] = pos]]
             /\ SettledNow(nft, staker)
    <3>1. CASE n = nft /\ a = staker
      BY <2>3, <3>1
    <3>2. CASE n # nft
      BY <2>1, <2>3, <3>2
    <3>3. CASE n = nft /\ a # staker
      BY <2>1, <2>3, <3>3 DEF Column
    <3>4. QED
      BY <3>1, <3>2, <3>3
  <2>4. QED
    BY <2>2, <2>3
<1>5. QED
  BY <1>1, <1>3, <1>4 DEF Rising

(* Staking, by transfer or by credit.                                      *)
LEMMA ApplyStakeRises ==
  ASSUME StakeInv, NEW staker \in Accounts, NEW nft \in Planned, NEW quantity \in Nat \ {0},
         ApplyStake(staker, nft, quantity)
  PROVE  Rising
<1> DEFINE plan  == plans[nft]
           after == AfterStake(plan, quantity)
           pos   == positions[nft][staker]
           new   == Increased(plan, pos, quantity)
<1>1. /\ plan \in Plan /\ positions[nft] \in Column /\ Sound(plan, positions[nft])
      /\ pos \in Position /\ nft \in Nfts /\ positions \in [Nfts -> Column]
  BY DEF StakeInv, PlansInv, Column
<1>2. /\ InRange(plan.total_staked + quantity)
      /\ plans' = [plans EXCEPT ![nft] = after]
      /\ positions' = [positions EXCEPT ![nft] = [@ EXCEPT ![staker] = new]]
  BY DEF ApplyStake
<1>3. Rises(plan, after)
  BY <1>1, <1>2, StakeRises
<1>4. /\ new.reward_per_share_paid = plan.reward_per_share
      /\ new.pending_reward = Claimable(plan, pos)
  BY <1>1 DEF Increased, Settled, Position
<1> HIDE DEF after, new
<1>5. SettledNow(nft, staker)
  <2>1. positions'[nft][staker] = new
    BY <1>1, <1>2 DEF Column
  <2>2. QED
    BY <1>4, <2>1 DEF SettledNow
<1>6. QED
  BY <1>2, <1>3, <1>5, OnePlanRises DEF StakeInv

(* Funding a reward, by transfer or by credit.                             *)
LEMMA ApplyFundrewardRises ==
  ASSUME StakeInv, NEW nft \in Planned, NEW quantity \in Nat, NEW staker \in Accounts,
         ApplyFundreward(nft, quantity)
  PROVE  Rising
<1>1. /\ plans[nft] \in Plan /\ positions[nft] \in Column
      /\ Sound(plans[nft], positions[nft])
  BY DEF StakeInv, PlansInv
<1>2. /\ InRange(plans[nft].total_reward + quantity)
      /\ plans' = [plans EXCEPT ![nft] = AfterReward(plans[nft], quantity)]
      /\ UNCHANGED positions
  BY DEF ApplyFundreward
<1>3. Rises(plans[nft], AfterReward(plans[nft], quantity))
  BY <1>1, <1>2, RewardRises
<1>4. QED
  BY <1>2, <1>3, OnePlanRises DEF StakeInv

(* Unstaking settles.                                                      *)
LEMMA UnstakeRises ==
  ASSUME StakeInv, NEW staker \in Accounts, NEW nft \in Nfts, NEW quantity \in Nat,
         Unstake(staker, nft, quantity)
  PROVE  Rising
<1> DEFINE plan  == plans[nft]
           after == [plan EXCEPT !.total_staked = @ - quantity]
           pos   == positions[nft][staker]
           new   == Decreased(plan, pos, quantity)
<1>1. /\ nft \in Planned /\ plan \in Plan /\ positions[nft] \in Column
      /\ pos \in Position /\ positions \in [Nfts -> Column]
  BY DEF Unstake, StakeInv, PlansInv, Column
<1>2. /\ plans' = [plans EXCEPT ![nft] = after]
      /\ positions' = [positions EXCEPT ![nft] = [@ EXCEPT ![staker] = new]]
  BY DEF Unstake
<1>3. Rises(plan, after)
  <2>1. /\ after.total_reward = plan.total_reward
        /\ after.undistributed_reward = plan.undistributed_reward
        /\ after.reward_per_share = plan.reward_per_share
    BY <1>1 DEF Plan
  <2> HIDE DEF after
  <2>2. QED
    BY <1>1, <2>1, KeptRises
<1>4. /\ new.reward_per_share_paid = plan.reward_per_share
      /\ new.pending_reward = Claimable(plan, pos)
  BY <1>1 DEF Decreased, Settled, Position
<1> HIDE DEF after, new
<1>5. SettledNow(nft, staker)
  <2>1. positions'[nft][staker] = new
    BY <1>1, <1>2 DEF Column
  <2>2. QED
    BY <1>4, <2>1 DEF SettledNow
<1>6. QED
  BY <1>1, <1>2, <1>3, <1>5, OnePlanRises DEF StakeInv

(* A position that is settled and paid has nothing to claim.               *)
LEMMA NothingLeft ==
  ASSUME NEW plan, NEW pos \in Position,
         plan.reward_per_share \in 0 .. Uint64 - 1,
         pos.reward_per_share_paid = plan.reward_per_share, pos.pending_reward = 0
  PROVE  Claimable(plan, pos) = 0
<1>1. (plan.reward_per_share - pos.reward_per_share_paid) % Uint64 = 0
  BY Constants
<1>2. pos.staked * 0 = 0 /\ 0 \div Precision = 0
  BY PositionFields, Constants DEF Amount
<1>3. Int64(0) = 0
  BY Constants DEF Int64
<1>4. Accrued(plan, pos) = 0
  BY <1>1, <1>2, <1>3 DEF Accrued
<1>5. QED
  BY <1>4 DEF Claimable

(* Claiming settles and pays all that was earned.                          *)
LEMMA ClaimRises ==
  ASSUME StakeInv, NEW staker \in Accounts, NEW nft \in Nfts, Claim(staker, nft)
  PROVE  Rising
<1> DEFINE plan  == plans[nft]
           pos   == positions[nft][staker]
           claim == Claimable(plan, pos)
           after == [plan EXCEPT !.claimed_reward = @ + claim]
           new   == PaidOut(plan, pos)
           token == plan.reward_token
<1>1. /\ nft \in Planned /\ plan \in Plan /\ positions[nft] \in Column
      /\ pos \in Position /\ positions \in [Nfts -> Column] /\ token \in Tokens
      /\ held \in [Tokens -> 0 .. Supply] /\ plans \in [Planned -> Plan]
  BY PlanFields DEF Claim, StakeInv, PlansInv, TokensInv, Column
<1>2. /\ plans' = [plans EXCEPT ![nft] = after]
      /\ positions' = [positions EXCEPT ![nft] = [@ EXCEPT ![staker] = new]]
      /\ held' = [held EXCEPT ![token] = @ - claim]
  BY DEF Claim
<1>3. /\ after.total_reward = plan.total_reward
      /\ after.undistributed_reward = plan.undistributed_reward
      /\ after.reward_per_share = plan.reward_per_share
      /\ after.claimed_reward = plan.claimed_reward + claim
  <2> HIDE DEF claim
  <2>1. QED
    BY <1>1 DEF Plan
<1>4. /\ new \in Position
      /\ new.reward_per_share_paid = plan.reward_per_share
      /\ new.pending_reward = 0
  <2>1. claim \in Amount
    BY <1>1, ClaimableBound DEF StakeInv, PlansInv
  <2>2. new = [pos EXCEPT !.pending_reward = claim,
                          !.reward_per_share_paid = plan.reward_per_share,
                          !.pending_reward = 0]
    BY DEF PaidOut, Settled
  <2> HIDE DEF new, claim, pos, plan
  <2>3. new = [staked |-> pos.staked,
               reward_per_share_paid |-> plan.reward_per_share, pending_reward |-> 0]
    BY <1>1, <2>2 DEF Position
  <2>4. pos.staked \in Amount /\ plan.reward_per_share \in 0 .. Uint64 - 1 /\ 0 \in Amount
    BY <1>1, PlanFields, PositionFields, Constants DEF Amount
  <2>5. QED
    BY <2>3, <2>4 DEF Position
<1> HIDE DEF after, new
<1>5. Rises(plan, after)
  BY <1>1, <1>3, KeptRises
<1>6. PaidInFull(nft, staker)
  <2>1. plans'[nft] = after /\ held'[token] = held[token] - claim
    BY <1>1, <1>2
  <2>2. positions'[nft][staker] = new
    BY <1>1, <1>2 DEF Column
  <2>3. Claimable(after, new) = 0
    BY <1>1, <1>3, <1>4, PlanFields, NothingLeft
  <2>4. QED
    BY <1>3, <2>1, <2>2, <2>3 DEF PaidInFull
<1>7. SettledNow(nft, staker)
  <2>1. positions'[nft][staker] = new
    BY <1>1, <1>2 DEF Column
  <2>2. QED
    BY <1>4, <1>6, <2>1 DEF SettledNow
<1>8. QED
  BY <1>1, <1>2, <1>5, <1>7, OnePlanRises DEF StakeInv

(* A step that concerns no plan there was.                                 *)
LEMMA NoPlanRises ==
  ASSUME PlansInv, Planned \subseteq Planned', UNCHANGED positions,
         \A nft \in Planned : plans'[nft] = plans[nft],
         \A nft \in Planned' \ Planned : IsBlank(nft)
  PROVE  Rising
<1>1. \A nft \in Planned : plans[nft] \in Plan
  BY DEF PlansInv
<1>2. QED
  BY <1>1, KeptRises DEF Rising

(* Every step lets earnings rise.                                          *)
LEMMA StepRises ==
  ASSUME StakeInv, [Next]_vars
  PROVE  Rising
<1>1. /\ \A q \in 1 .. Supply : q \in Nat \ {0}
      /\ \A q \in 1 .. MaxUnbacked : q \in Nat \ {0}
      /\ \A q \in 1 .. MaxAmount : q \in Nat \ {0}
      /\ Mart \in Accounts
  BY Constants, GnosStakeAssumption
<1>2. ASSUME NEW nft \in Nfts, NEW a \in Accounts, ChangeController(nft, a)
      PROVE  Rising
  BY <1>2, NoPlanRises DEF ChangeController, StakeInv, Planned
<1>3. ASSUME NEW nft \in Nfts, NEW st \in Tokens, NEW rt \in Tokens,
             Createplan(nft, st, rt)
      PROVE  Rising
  <2>1. /\ Planned' = Planned \cup {nft} /\ UNCHANGED positions
        /\ \A n \in Planned : plans'[n] = plans[n]
        /\ nft \notin Planned
    BY <1>3 DEF Createplan, Planned
  <2>2. IsBlank(nft)
    BY <1>3, <2>1 DEF Createplan, IsBlank, StakeInv, PlansInv
  <2>3. QED
    BY <2>1, <2>2, NoPlanRises DEF StakeInv
<1>4. ASSUME NEW a \in Accounts, NEW nft \in Nfts, NEW t \in Tokens,
             NEW q \in 1 .. Supply, TransferStake(a, nft, t, q)
      PROVE  Rising
  <2>1. nft \in Planned /\ ApplyStake(a, nft, q)
    BY <1>4 DEF TransferStake
  <2>2. QED
    BY <1>1, <2>1, ApplyStakeRises
<1>5. ASSUME NEW a \in Accounts, NEW nft \in Nfts, NEW t \in Tokens,
             NEW q \in 1 .. Supply, TransferReward(a, nft, t, q)
      PROVE  Rising
  <2>1. nft \in Planned /\ ApplyFundreward(nft, q)
    BY <1>5 DEF TransferReward
  <2>2. QED
    BY <1>1, <2>1, ApplyFundrewardRises
<1>6. ASSUME NEW t \in Tokens, NEW q \in 1 .. Supply, TransferOther(t, q)
      PROVE  Rising
  BY <1>6, NoPlanRises DEF TransferOther, StakeInv, Planned
<1>7. ASSUME NEW a \in Accounts, NEW nft \in Nfts, NEW q \in 1 .. MaxUnbacked,
             Stake(a, nft, q)
      PROVE  Rising
  <2>1. nft \in Planned /\ ApplyStake(a, nft, q)
    BY <1>7 DEF Stake
  <2>2. QED
    BY <1>1, <2>1, ApplyStakeRises
<1>8. ASSUME NEW nft \in Nfts, NEW q \in 1 .. MaxUnbacked, Fundreward(nft, q)
      PROVE  Rising
  <2>1. nft \in Planned /\ ApplyFundreward(nft, q)
    BY <1>8 DEF Fundreward
  <2>2. QED
    BY <1>1, <2>1, ApplyFundrewardRises
<1>9. ASSUME NEW a \in Accounts, NEW nft \in Nfts, NEW q \in 1 .. MaxAmount,
             Unstake(a, nft, q)
      PROVE  Rising
  BY <1>1, <1>9, UnstakeRises
<1>10. ASSUME NEW a \in Accounts, NEW nft \in Nfts, Claim(a, nft)
       PROVE  Rising
  BY <1>10, ClaimRises
<1>11. CASE UNCHANGED vars
  BY <1>11, NoPlanRises DEF vars, StakeInv, Planned
<1>12. QED
  BY <1>2, <1>3, <1>4, <1>5, <1>6, <1>7, <1>8, <1>9, <1>10, <1>11 DEF Next

(* The reward per share stays low, and no position ahead of it.            *)
LEMMA EarningsInvStep ==
  ASSUME EarningsInv, [Next]_vars
  PROVE  EarningsInv' /\ Rising
<1>1. StakeInv' /\ Rising
  BY StakeInvStep, StepRises DEF EarningsInv
<1>2. ASSUME NEW nft \in Planned', Unwrapped(plans'[nft])
      PROVE  /\ Low(plans'[nft])
             /\ \A a \in Accounts : Behind(plans'[nft], positions'[nft][a])
  <2> DEFINE new == plans'[nft]
  <2>1. new \in Plan /\ positions'[nft] \in Column
    BY <1>1 DEF StakeInv, PlansInv
  <2>2. CASE nft \in Planned
    <3> DEFINE old == plans[nft]
    <3>1. old \in Plan /\ positions[nft] \in Column
      BY <2>2 DEF EarningsInv, StakeInv, PlansInv
    <3>2. /\ Rises(old, new)
          /\ \A a \in Accounts :
               positions'[nft][a] = positions[nft][a] \/ SettledNow(nft, a)
      BY <1>1, <2>2 DEF Rising
    <3> HIDE DEF old, new
    <3>3. Unwrapped(old)
      <4>1. /\ old.total_reward \in Nat /\ new.total_reward \in Nat
            /\ old.total_reward <= new.total_reward
        BY <2>1, <3>1, <3>2, PlanFields, Constants DEF Amount, Rises
      <4>2. Precision * old.total_reward <= Precision * new.total_reward
        BY <4>1, Constants, ProductMonotone
      <4>3. Precision * old.total_reward \in Nat /\ Precision * new.total_reward \in Nat
        BY <4>1, Constants, ProductIsNat
      <4>4. QED
        BY <1>2, <4>2, <4>3, Constants DEF Unwrapped, new
    <3>4. Low(old) /\ \A a \in Accounts : Behind(old, positions[nft][a])
      BY <2>2, <3>3 DEF EarningsInv, old
    <3>5. Low(new) /\ old.reward_per_share <= new.reward_per_share
      BY <1>2, <3>2, <3>4 DEF Rises, new
    <3>6. ASSUME NEW a \in Accounts
          PROVE  Behind(new, positions'[nft][a])
      <4>1. positions[nft][a] \in Position
        BY <3>1 DEF Column
      <4>2. positions'[nft][a].reward_per_share_paid <= old.reward_per_share
        <5>1. CASE positions'[nft][a] = positions[nft][a]
          BY <3>4, <5>1 DEF Behind
        <5>2. CASE SettledNow(nft, a)
          BY <3>1, <5>2, PlanFields, Constants DEF SettledNow, old
        <5>3. QED
          BY <3>2, <5>1, <5>2
      <4>3. /\ old.reward_per_share \in Nat /\ new.reward_per_share \in Nat
            /\ positions'[nft][a].reward_per_share_paid \in Nat
        BY <2>1, <3>1, PlanFields, PositionFields, Constants DEF Column
      <4>4. QED
        BY <3>5, <4>2, <4>3 DEF Behind
    <3>7. QED
      BY <3>5, <3>6 DEF new
  <2>3. CASE nft \notin Planned
    <3>1. IsBlank(nft)
      BY <1>1, <2>3 DEF Rising
    <3>2. Precision * (0 - 0) = 0
      BY Constants
    <3>3. Low(plans'[nft])
      BY <3>1, <3>2 DEF IsBlank, Low
    <3>4. \A a \in Accounts : positions'[nft][a].reward_per_share_paid = 0
      BY <3>1 DEF IsBlank, NoPosition
    <3>5. QED
      BY <3>1, <3>3, <3>4 DEF IsBlank, Behind
  <2>4. QED
    BY <2>2, <2>3
<1>3. QED
  BY <1>1, <1>2 DEF EarningsInv

(* The invariant holds in every reachable state.                           *)
LEMMA EarningsInvHolds == Spec => []EarningsInv
<1>1. Init => EarningsInv
  BY NoPlansInv DEF EarningsInv, Init, NoPlans, Planned
<1>2. EarningsInv /\ [Next]_vars => EarningsInv'
  BY EarningsInvStep
<1>3. QED
  BY <1>1, <1>2, PTL DEF Spec

(* To a position that is not settled no less accrues than before.          *)
LEMMA WaitingEarns ==
  ASSUME NEW old \in Plan, NEW new \in Plan, NEW before \in Column, NEW after \in Column,
         Sound(old, before), Sound(new, after), NEW a \in Accounts,
         after[a] = before[a], Behind(old, before[a]),
         old.reward_per_share <= new.reward_per_share
  PROVE  Claimable(old, before[a]) <= Claimable(new, after[a])
<1> DEFINE pos   == before[a]
           least == Delta(old, pos)
           most  == Delta(new, pos)
<1>1. /\ pos \in Position /\ pos.staked \in Nat /\ pos.pending_reward \in Nat
      /\ pos.reward_per_share_paid \in Nat
  BY PositionFields, Constants DEF Column
<1>2. /\ old.reward_per_share \in Nat /\ old.reward_per_share < Uint64
      /\ new.reward_per_share \in Nat /\ new.reward_per_share < Uint64
  BY PlanFields, Constants
<1>3. /\ least = old.reward_per_share - pos.reward_per_share_paid
      /\ most = new.reward_per_share - pos.reward_per_share_paid
  <2> DEFINE lower  == old.reward_per_share - pos.reward_per_share_paid
             higher == new.reward_per_share - pos.reward_per_share_paid
  <2>1. /\ lower \in Int /\ 0 <= lower /\ lower < Uint64
        /\ higher \in Int /\ 0 <= higher /\ higher < Uint64
    BY <1>1, <1>2, Constants DEF Behind
  <2> HIDE DEF lower, higher
  <2>2. lower % Uint64 = lower /\ higher % Uint64 = higher
    BY <2>1, Constants, ModOfNear
  <2>3. QED
    BY <2>2 DEF Delta, lower, higher
<1>4. least \in Nat /\ most \in Nat /\ least <= most
  BY <1>1, <1>2, <1>3 DEF Behind
<1> HIDE DEF least, most
<1>5. /\ pos.staked * least <= pos.staked * most
      /\ pos.staked * least \in Nat /\ pos.staked * most \in Nat
  <2> DEFINE stake == pos.staked
  <2>1. stake \in Nat
    BY <1>1
  <2> HIDE DEF stake
  <2>2. /\ stake * least <= stake * most
        /\ stake * least \in Nat /\ stake * most \in Nat
    BY <1>4, <2>1, ProductMonotone, ProductIsNat
  <2>3. QED
    BY <2>2 DEF stake
<1> DEFINE small == pos.staked * least
           large == pos.staked * most
<1> HIDE DEF small, large
<1>6. /\ small \div Precision <= large \div Precision
      /\ small \div Precision \in Nat /\ large \div Precision \in Nat
  <2>1. small \in Nat /\ large \in Nat /\ small <= large
    BY <1>5 DEF small, large
  <2>2. QED
    BY <2>1, Constants, DivMonotone
<1>7. /\ Claimable(old, pos) = pos.pending_reward + small \div Precision
      /\ Claimable(new, pos) = pos.pending_reward + large \div Precision
  BY ClaimableBound DEF small, large, least, most
<1>8. QED
  BY <1>1, <1>6, <1>7

(* While the reward per share of a plan cannot have wrapped, no step of    *)
(* anybody takes from a staker what was earned: it stays claimable through *)
(* the stakes, rewards and withdrawals of all, and shrinks only when all   *)
(* of it is paid and nothing is left.  So apply_stake and unstake settle before they change    *)
(* the stake, and a reward is never divided among late-comers.             *)
THEOREM EarningsLast == Spec => EarningsArePermanent
<1> DEFINE Kept ==
             \A nft \in Planned, a \in Accounts :
               LET earned == Claimable(plans[nft], positions[nft][a])
               IN  NoWrap(nft)' =>
                     \/ Claimable(plans[nft], positions[nft][a])' >= earned
                     \/ /\ Claimable(plans[nft], positions[nft][a])' = 0
                        /\ plans'[nft].claimed_reward = plans[nft].claimed_reward + earned
                        /\ held'[plans[nft].reward_token] =
                             held[plans[nft].reward_token] - earned
<1>1. ASSUME EarningsInv, EarningsInv', Rising, NEW nft \in Planned, NEW a \in Accounts,
             Unwrapped(plans'[nft])
      PROVE  \/ Claimable(plans'[nft], positions'[nft][a]) >=
                  Claimable(plans[nft], positions[nft][a])
             \/ PaidInFull(nft, a)
  <2> DEFINE old    == plans[nft]
             new    == plans'[nft]
             before == positions[nft]
             after  == positions'[nft]
  <2>1. /\ old \in Plan /\ before \in Column /\ Sound(old, before)
        /\ nft \in Planned' /\ new \in Plan /\ after \in Column /\ Sound(new, after)
        /\ Rises(old, new)
        /\ after[a] = before[a] \/ SettledNow(nft, a)
    BY <1>1 DEF EarningsInv, StakeInv, PlansInv, Rising
  <2>2. Unwrapped(old)
    <3> HIDE DEF old, new
    <3>1. /\ old.total_reward \in Nat /\ new.total_reward \in Nat
          /\ old.total_reward <= new.total_reward
      BY <2>1, PlanFields, Constants DEF Amount, Rises
    <3>2. Precision * old.total_reward <= Precision * new.total_reward
      BY <3>1, Constants, ProductMonotone
    <3>3. Precision * old.total_reward \in Nat /\ Precision * new.total_reward \in Nat
      BY <3>1, Constants, ProductIsNat
    <3>4. QED
      BY <1>1, <3>2, <3>3, Constants DEF Unwrapped, new
  <2>3. Behind(old, before[a]) /\ old.reward_per_share <= new.reward_per_share
    BY <1>1, <2>1, <2>2 DEF EarningsInv, Rises
  <2>4. /\ Claimable(old, before[a]) \in Nat /\ Claimable(new, after[a]) \in Nat
        /\ Claimable(new, after[a]) >= after[a].pending_reward
    <3>1. /\ Claimable(old, before[a]) \in Nat /\ Claimable(new, after[a]) \in Nat
      BY <2>1, ClaimableBound, Constants DEF Amount
    <3> DEFINE product == after[a].staked * Delta(new, after[a])
    <3>2. Claimable(new, after[a]) = after[a].pending_reward + product \div Precision
      BY <2>1, ClaimableBound
    <3>3. product \in Nat /\ after[a].pending_reward \in Nat
      BY <2>1, WeightType, PositionFields DEF Column
    <3> HIDE DEF product
    <3>4. product \div Precision \in Nat
      BY <3>3, Constants, DivOfNat
    <3>5. QED
      BY <3>1, <3>2, <3>3, <3>4
  <2>5. CASE after[a] = before[a]
    BY <2>1, <2>3, <2>4, <2>5, WaitingEarns
  <2>6. CASE SettledNow(nft, a)
    BY <2>4, <2>6 DEF SettledNow
  <2>7. QED
    BY <2>1, <2>5, <2>6
<1>2. EarningsInv /\ EarningsInv' /\ Rising => Kept
  BY <1>1 DEF NoWrap, Unwrapped, PaidInFull
<1>3. EarningsInv /\ [Next]_vars => [Kept]_vars
  BY <1>2, EarningsInvStep
<1>4. QED
  BY <1>3, EarningsInvHolds, PTL DEF Spec, EarningsArePermanent

=============================================================================

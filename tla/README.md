# TLA+ verification of the GNOS contracts

The repository holds eight smart contracts for an EOSIO-like chain and one shared
library. This directory models them in TLA+, checks the models with TLC on small
instances and proves the most important results with TLAPS for all values of the
constants.

A contract action is atomic: a failed `check()` anywhere in it, in a notification it
triggers or in an inline action it sends rolls the whole transaction back. So an action
of a contract, *with* the notifications and inline actions it causes, is one TLA+ action,
all its checks are the guard, and interleaving happens between transactions of different
accounts. There are no timers, threads or lost messages. What makes the system hard is
that six contracts keep related state in tables of their own, read each other's, and
trust that a long sequence of individually legal calls by different accounts cannot make
them disagree.

## 1. Inventory

| Contract | State | Operations | Talks to |
|---|---|---|---|
| `gnos.ntoken` | `tokenstats` (supply, cap, URI, issuer, IP owner, notary), `accounts` (balances per owner), global sets `creators`, `notaries`, `whitelist` | create, issue, retire, transfer, notarize, setipowner, settokenuri, setnotary, addwhitelist, delwhitelist, setcreator | notifies sender and receiver of a transfer |
| `tba.reg` | `tbamaps`: root NFT, owner and status of each token bound account (TBA) | createtba, setstatus, setowner | reads balances of `gnos.ntoken`; setowner is for `nftv.mart` |
| `tba.account` | `tbaassets`: what each TBA contains, settlement mode, frozen flag; `manifests` | deposittoken, NFT deposit (notification), withdraw, setmode, freezeassets, genmanifest | reads `tba.reg` and balances; transfers tokens and NFTs inline |
| `nftv.mart` | `orders`, `manifests`, fee configuration, enabled payment tokens; escrowed NFTs in its `gnos.ntoken` balance | listnft, listbundle, cancel, buy, setfee, setpaytoken | reads `tba.reg`, `tba.account`, `gnos.ntoken`; inline freezeassets, setowner, NFT transfers, payments |
| `gnos.stake` | `plans`, `positions`; pooled token balances | createplan, stake/reward by transfer memo, stake, fundreward, unstake, claim | reads the NFT's controller in `gnos.ntoken`; pays by inline transfer |
| `song.reg` | `songs`, price and units per issue | regsong, setglobal, SONGCREATE and SONGBUY by transfer memo | inline create, issue, transfer on `gnos.ntoken` |
| `mv.reg` | `mvs` | createmv | reads `gnos.ntoken` |
| `gnos.vault` | admin, pause flag | init, setadmin, setpause, transfer notification | - |

`libs/base` has the amount type `nasset` (range checked at 2^62 - 1) and the rows of the
tables above. The flow tests under `tests/` are shell scripts against a live chain; they
are the source of the deployed access lists and of several statements about what the
contracts do.

What makes each part correct, and what is hard about it:

* **gnos.ntoken** - units are conserved through issue, retire and multi-asset transfers;
  a token's cap and issuer never change; the access lists mean what they say while they
  change. Hard: an empty list means "everyone", for transfers as well as for creation.
* **tba.reg / tba.account** - `tba.account` holds what its rows say, of NFTs exactly that; only the
  holder of the root NFT takes assets out; TBAs never contain each other in a ring. Hard:
  the owner *recorded* for a TBA and the account that *holds* its root NFT drift apart;
  deposits are checked after the balances have moved; asset ids are used again.
* **nftv.mart** - escrow covers all listed orders together; a listed bundle stays what its
  manifest says until it is cancelled or sold; a sale pays out exactly its price. Hard:
  the bundle's parts live in three other contracts that users keep calling.
* **gnos.stake** - the plan's total is the sum of the positions; a plan never owes more
  than it got; nobody can be locked in; earnings are not lost. Hard: fixed point
  arithmetic in wrapping 64 bit counters, parked rewards, one pooled balance per token.
* **song.reg / mv.reg** - a token of `song.reg` is a registered song with all its units;
  units leave its stock only against the price in force; a music video belongs to such a
  song. Hard: registration, creation and purchase are separate transactions, between which
  prices, creators and other people's tokens change, and units of songs and of foreign
  tokens may be sent back to `song.reg`; one payment creates, issues and transfers inline.
* **gnos.vault** - a flag and the guard that reads it. It keeps no books, and beyond its types
  nothing is stated of it.

`PROJECT.json` lists the hazards one by one with the line where each bites and the
properties that would catch it.

## 2. Modules

    NToken      extends Totals
    TbaAccount  extends Totals,     instance NT of NToken
    NftvMart    extends TbaAccount and FeeSplit,  instance C of Consignment (what it implements)
    MartStake   extends NftvMart,   instance GS of GnosStake
    GnosStake   extends Totals
    SongReg     extends Totals,     instance NT of NToken
    CisumFlows  extends SongReg,    instance GV of GnosVault

| Module | Models |
|---|---|
| `Totals` | The sum of a function, as the number of its units: a definition without recursion, so that it can be proved about. |
| `NToken` | `gnos.ntoken`, all actions. |
| `TbaAccount` | `tba.reg` and `tba.account` on an instance `NT` of `NToken`: every NFT movement is a `NT!Transfer`. |
| `FeeSplit` | The fee arithmetic of `nftv.mart`. |
| `NftvMart` | `nftv.mart` on top of `TbaAccount`: the behaviours of all four contracts together. |
| `Consignment` | The abstract specification of the market: goods left on consignment, alone or as the key of a box. |
| `GnosStake` | `gnos.stake` with its token balances. |
| `MartStake` | `NftvMart` with an instance `GS` of `GnosStake`: where the stake fee of a sale goes. |
| `SongReg` | `song.reg` and `mv.reg` on an instance `NT` of `NToken`. |
| `GnosVault` | `gnos.vault`. |
| `CisumFlows` | `SongReg` and an instance `GV` of `GnosVault`: the two contracts that are paid in CISUM, by the same users. |
| `MC*` | The same modules with symmetry sets, vectors and fee settings for TLC. |
| `*Theorems`, `*Proofs` | Theorems with proofs. |

Variables have the names of the tables, actions the names of the contract's actions.
The guard of an action consists of the checks of the code; what the code computes and
does not store is an operator (`OwnerInControl` is `require_tba_owner`, `Settled` is
`settle_position`, `Payouts` is `distribute_fees`). An operator `X_y` is `X` with a
plausible mistake `y`; it is not part of the model and shows that some property notices.

### Abstractions

* *Absent rows.* An absent balance row is a zero balance, an absent position is a zero
  position. The contracts treat them alike everywhere: every check on such a row is
  `amount > 0` and `balance >= amount`.
* *Vectors.* `NToken` sums the elements of a transfer that name the same nid. The code
  applies them one after the other; since all are positive, both accept the same vectors
  and end in the same balances. So `SupplyConserved` does not try repeated nids.
  `TbaAccount` keeps them apart, as each becomes a row, and `CustodyIsExact` does.
* *A TBA is named by its root nid*, which has at most one. Its numeric id is never reused.
* *Manifests* are kept inside the order. The contract stores one per order and changes
  none, and `buy` compares two copies of one hash.
* *Memos* are their parsed meaning. Anything `ontransfer` of `gnos.stake` does not parse is
  `TransferOther`.
* *Payments* are external: the buyer has the price, and a token contract refuses a
  transfer of nothing, to the sender itself, or to no account. Users have enough of the
  ordinary token they deposit.
* *Stray tokens.* `tba.account` is notified of transfers of `gnos.ntoken` only. An ordinary
  token sent to it directly (`SendCoins`) gets no row, and no action pays it out again. So
  `CustodyIsExact` is an equality for NFTs and says for the ordinary token that the balance
  covers the rows.
* *Authority.* Inline actions in the name of the seller or buyer need that account's
  permission for the contract's code; the model assumes it was given. Without it the
  transaction fails and nothing changes.
* *Left out*: the `paused` flags of `gnos.ntoken` and `active` of a plan (nothing changes
  them), timestamps, memos as text, RAM payers, and, of the table that `genmanifest` of
  `tba.account` appends to, all but the number of rows (no contract reads it).
* *Composition.* In `TbaAccount` and `NftvMart` the tokens exist and are issued to start
  with, and the whitelist is either empty or holds the two custodians. `tests/gnos.flow/1-init.sh`
  puts three names on it, `song.reg`, `nftv.mart` and `tba.account`; `song.reg` takes no part in
  these modules. Creation and list changes are explored in
  `NToken` alone. Users issue, retire and transfer freely. `SongReg` starts without tokens,
  with `song.reg` as the only creator, and has creation, issue, retire, transfer, setipowner and
  setcreator of `gnos.ntoken` as actions of others beside its own.
* *Song texts* other than the token URL (hashes, names) are left out: nothing depends on
  them. What the two memos of `song.reg` parse to, a positive count and a nid other than 0,
  is the domain of the actions.

## 3. Runs

| Run | Instance | Shows |
|---|---|---|
| `ntoken_ledger` | 3 accounts, one of which is put on lists, nids 0, 1 and 5, cap 2, `Uint32Max` 4 | types, `SupplyConserved`, `TermsAreFixed`, `WhitelistSeparatesOutsiders` |
| `ntoken_revoke` | 2 accounts | *violated:* `RevocationTakesEffect` |
| `stake_wrap` | 1 plan, 2 stakers, amounts to 3, precision 7, 16 values of `uint64_t`, 1 unbacked unit | solvency, open exits, parked rewards, across wrap-around; earnings are permanent while nothing can have wrapped |
| `tba_custody` | 2 NFTs of two units, one or two deposited at a time, 2 asset rows, 1 manifest | custody matches the rows, every asset of a TBA can be paid out, only the holder withdraws |
| `mart_bundle` | 1 NFT of one unit with a TBA, 2 tokens in it, 2 orders | a listed bundle stays intact, cancel works, the buyer gets the manifest, custody matches the rows; implements `Consignment` with boxes |
| `mart_orders` | 1 NFT of two units, 2 orders, every fee setting, two prices | escrow covers all orders; a sale pays out its price; implements `Consignment` for parts of an NFT |
| `mart_nested` | 2 NFTs of one unit whose TBAs may contain each other, 2 orders | no ring of TBAs, and only the holder withdraws, across four contracts |
| `mart_surplus_buy` | as `mart_bundle` with two units of the root | *violated:* `BuyerGetsManifest` |
| `mart_whole_fee` | fees of the whole price | *violated:* `ListedIsBuyable` |
| `cisum_sales` | nids 0 and 1, three units, prices 1 and 3, `MaxInt` 3, 6 CISUM | songs are created whole, units are sold at the price in force, music videos belong to songs; `gnos.vault` beside them |
| `song_blocked` | 2 songs, 2 URLs | *violated:* `RegisteredIsCreatable` |
| `mart_stake_fee` | 1 NFT with a plan in the payment token | *violated:* `StakeFeeIsReward` |

**Bounds.** Two users are enough for every exchange (seller and buyer, staker and staker,
creator of a song and creator of a token); `ntoken_ledger` has a third account so that both
a listed account and two unlisted ones exist. One nid shows what concerns one token, two
what concerns their interplay (nesting, transfers of several assets, equal URLs), and 0
is a nid that `gnos.ntoken` takes and `song.reg` does not. Two asset rows allow an id to be
freed and used again while another row lives, and two orders allow a second listing while
the first is open, closed or sold. `MaxAmount`, `Precision` and with them `Uint64` are scaled
down together: with 7 and 16 a plan can be funded with two units without wrapping and wraps
with three; shares do not divide evenly. At the real values (2^62 - 1, 2^64) wrapping takes
about 2^64 / precision reward units per staked unit. One plan is enough for `stake_wrap`:
that several plans share one balance is what `PlansAreBacked` proves for any number of
them. With prices to `MaxInt` the amount
of a payment to `song.reg` overflows for two units at price 3. The bounds that are no part of
the code (`MaxAssetId`, `MaxCoins`, `MaxManifests`, `MaxOrders`, `MaxMvs`, `MaxUnbacked`) are
guards of the actions that would exceed them. `tba_custody` has
`CHECK_DEADLOCK FALSE`: without the market's actions in the model, units sent to the
market never come back, and with all of them there nobody can act. Every other passing run checks
for deadlock.

**Fairness.** None is assumed and no liveness is claimed: nothing schedules the users of a
contract, and there are no deferred transactions. That something *can* be done is stated as
a state predicate instead: `CancelReturns`, `ExitAlwaysOpen`, `ListedIsBuyable`,
`AssetsArePayable` and `RegisteredIsCreatable` say that the action's guard holds.

### The market as consignment

`ImplementsConsignment` is the specification of `Consignment` under the mapping `C` in
`NftvMart`: an order is a deal (listed, cancelled and sold are open, returned and delivered),
the users' balances are the holdings, a TBA is a box (with the ids, amounts and modes of
its assets, not their frozen flags) and the owner `tba.reg` records its keeper. Every step of
the four contracts must be a consignment of units the seller has, their return to the seller,
their delivery to one buyer, or a step elsewhere that leaves all deals alone and all boxes
on offer shut. It covers in one property what a market must not do: sell
twice, return what was sold, move other units than those listed, change terms. The run
`mart_bundle` checks it with boxes, `mart_orders` with several partial orders for
one NFT. `MajoritySalesAreConsignment` (section 4) proves it for every instance as long as the listed
bundles have more than half of the units of their roots; with fewer it fails as
`BuyerGetsManifest` does (3 below).

### What the violated runs show

1. **Revoking the last creator** (`ntoken_revoke`). `creator_auth_check` reads an empty set
   as "everyone may create", and `setcreator` may empty the set: the account just revoked,
   and everybody else, can then create tokens. The guardrail test says creation is
   creator-whitelisted.
2. **A song that can never be created** (`song_blocked`). `regsong` checks that the nid is
   free but not that the URL is; the `create` that SONGCREATE sends checks both. Of two songs
   registered with one URL only one can be created, and nothing removes the other.
3. **A bundle is not what was listed** (`mart_surplus_buy`). `listbundle` escrows the amount
   of root units recorded for the TBA. A song NFT has a hundred units, and a seller who
   keeps some still passes `require_tba_owner`: he unfreezes the listed assets
   (`freezeassets` accepts the owner), withdraws them and may deposit others, which get the
   freed ids. `buy` compares only the stored hash with its copy, and succeeds once every id
   of the manifest has an asset again. While one is missing, `cancel` and `buy` both fail in
   `freezeassets`, and the escrowed NFT stays with the market until the seller deposits
   something under that id. `mart_bundle` shows that the surplus is needed: with a single unit of the root NFT
   the bundle is intact in every reachable state and `CancelReturns` holds.
4. **Whole fees** (`mart_whole_fee`). With fees of 10000 basis points, which `setfee` accepts,
   the seller's share is zero and is transferred all the same; token contracts refuse it,
   and no listed order can be bought.
5. **The stake fee reaches no plan** (`mart_stake_fee`). `distribute_fees` sends it with the
   memo `gnos stake fee`. The handler of `gnos.stake` has a branch for rewards that
   `nftv.mart` funds, under the memo `reward:<plan>`; anything else is ignored, so that the
   tokens stay with the contract, which has no action that pays them out.

Three more things, which are not runs:

* `create` refuses a URL that some token has, and `settokenuri` (of the contract's own
  account) writes any URL; two tokens may then share one. No document promises otherwise.
* When a reward is so large against the total stake that the added share exceeds 64 bits,
  the cast loses the excess for good. `RewardSolvency` and `ExitAlwaysOpen` hold in that case
  too, while `EarningsArePermanent` is stated, and holds, for a plan with `NoWrap` only.
* The tests disagree about the whitelist of `gnos.ntoken`. `1-init.sh:67-69` puts three names
  on it (by the names of the contracts, while it deploys them to accounts like `nftv1.mart` and
  `tba1.account`); with it in force a transfer between two people is refused, which is
  `WhitelistSeparatesOutsiders`. `2-happy-path.sh:42` asserts that it is empty, and
  `3-guardrails.sh:32` that a direct transfer succeeds. The models have both settings.

### Hazards without a property

Seven of the hazards in `PROJECT.json` have a note instead of a property: the empty whitelist
(meant as no restriction), the 32 bit argument of `notarize` (modelled, and no promise is
broken), URLs set by `settokenuri` (above), the status of a TBA, which `buy` does not look at
(no document says it should), the custodians' places on the whitelist while they hold
NFTs (the compositions leave the deployed list as it is), what `stake` and `fundreward` credit
without a transfer (`Backed` sets it aside, and `ExitAlwaysOpen` speaks of the time before), and
the pause of `gnos.vault`, which nobody can call before `init` and `init` ends (modelled; no
document says otherwise).

Of some others a property covers a part, which their notes say: receivers that refuse a payment
by its memo and IP owners that are no account are in no run, `MvsAreOfSongs` says nothing of
the IP owner after `createmv`, and `SalesArePaid` constrains the price of what `song.reg` sells and
not what it sells. That several plans draw on one balance is in no run, as each plan multiplies
the states; `PlansAreBacked` and `NobodyIsLockedIn` prove it for any number of plans.

## 4. Proofs

    TotalsTheorems    extends Totals
    NTokenProofs      extends NToken, TotalsTheorems
    TbaAccountProofs  extends TbaAccount, TotalsTheorems,  instance Ledger of NTokenProofs
    NftvMartProofs    extends NftvMart, TbaAccountProofs, FeeSplitProofs
    SongRegProofs     extends CisumFlows, TotalsTheorems,  instance Ledger of NTokenProofs
    GnosStakeProofs   extends GnosStake, TotalsTheorems
    FeeSplitProofs    extends FeeSplit
    ConsignmentProofs extends Consignment

Every property that a passing run checks is stated by one of these theorems:
the run shows it on a small instance, the theorem for all values of the constants.

| Theorem | Says |
|---|---|
| `NTokenProofs!LedgerIsTyped` | `Spec => []TypeOK` |
| `NTokenProofs!LedgerSafety` | `Spec => [](TypeOK /\ SupplyConserved)` |
| `NTokenProofs!TermsForever` | `Spec => TermsAreFixed` |
| `NTokenProofs!OutsidersStaySeparated` | `Spec => WhitelistSeparatesOutsiders` |
| `TbaAccountProofs!TbaIsTyped` | `Spec => []TypeOK` |
| `TbaAccountProofs!CustodyStaysExact` | `Spec => []CustodyIsExact` |
| `TbaAccountProofs!DepositsStayPayable` | `Spec => []AssetsArePayable` |
| `TbaAccountProofs!OnlyTheHolderIsPaid` | `Spec => OnlyHolderWithdraws` |
| `TbaAccountProofs!NoRingForms` | if `Supply = 1`: `Spec => []NoCustodyRing` |
| `NftvMartProofs!MartIsTyped` | `MartSpec => []MartTypeOK` |
| `NftvMartProofs!EscrowStaysCovered` | `MartSpec => []EscrowCovers` |
| `NftvMartProofs!MarketPaysOut` | `MartSpec => MarketKeepsNothing` |
| `NftvMartProofs!MarketKeepsCustodyExact` | `MartSpec => []CustodyIsExact` |
| `NftvMartProofs!MarketWithdrawsNothing` | `MartSpec => OnlyHolderWithdraws` |
| `NftvMartProofs!BundlesStayWhole` | every listed bundle with more than half of its root's units stays as its manifest says |
| `NftvMartProofs!UniqueBundlesAreIntact` | if `Supply = 1`: `MartSpec => []BundleIntact` |
| `NftvMartProofs!SellersGetBack` | orders of singles and such bundles can be cancelled in every state |
| `NftvMartProofs!UniqueOrdersCanBeCancelled` | if `Supply = 1`: `MartSpec => []CancelReturns` |
| `NftvMartProofs!MajorityBundlesAreDelivered` | `MartSpec /\ []MajorityBundles => BuyerGetsManifest` |
| `NftvMartProofs!NoRingIsTraded` | if `Supply = 1`: `MartSpec => []NoCustodyRing` |
| `NftvMartProofs!MajoritySalesAreConsignment` | `MartSpec /\ []MajorityBundles => ImplementsConsignment` |
| `SongRegProofs!FlowsAreTyped` | `FlowsSpec => []FlowsTypeOK` |
| `SongRegProofs!SongsStayWhole` | `FlowsSpec => []SongsAreWhole` |
| `SongRegProofs!VideosHaveSongs` | `FlowsSpec => []MvsAreOfSongs` |
| `SongRegProofs!EverySaleIsPaid` | `FlowsSpec => SalesArePaid` |
| `FeeSplitProofs!SettlementIsValid` | the seller's amount is in `0 .. price` and at least the seller's basis points of it |
| `GnosStakeProofs!StakeIsTyped` | `Spec => []TypeOK` |
| `GnosStakeProofs!StakesAddUp` | `Spec => []StakedMatchesPositions` |
| `GnosStakeProofs!RewardIsNeverIdle` | `Spec => []NoIdleReward` |
| `GnosStakeProofs!PlansAreSolvent` | `Spec => []RewardSolvency` |
| `GnosStakeProofs!PlansAreBacked` | `Spec => []Backed` |
| `GnosStakeProofs!NobodyIsLockedIn` | `Spec => []ExitAlwaysOpen` |
| `GnosStakeProofs!EarningsLast` | `Spec => EarningsArePermanent` |
| `ConsignmentProofs!DealsAreSettledForGood` | `Spec => DealsAreFinal`: terms never change, ended deals stay ended |

**Assumptions.** The named assumptions of the modules and nothing else: `NTokenAssumption`
(finitely many accounts, `NoName` is not one, nids are naturals, `MaxAmount` is positive),
`TbaAccountAssumption` (finitely many users and nids, the contracts and the two
names that are no account are different and are no users, supplies are positive, deposits are vectors
of them), `BasisPointsAssumption`, `NftvMartAssumption` (prices are naturals; the fee settings
are among those `setfee` accepts; receivers of fees are accounts),
`SongRegAssumption` and `CisumFlowsAssumption` (finitely many users, the contracts are none of
them, counts and prices are positive and fit), and `GnosStakeAssumption` (finitely many accounts and NFTs, the market
is an account, `MaxAmount` and `Precision` are positive, the supply of a token fits an asset).

**What some theorems suppose.** `Supply = 1` says that every NFT is unique.
`MajorityBundles` says of a state that every *listed bundle* holds more than half of the units of its
root; how many units NFTs have otherwise is free. It is true of every state where NFTs are unique, and where
there are no bundles. That a bundle is whole, can be cancelled and is delivered as listed needs it:
in `mart_surplus_buy` there are two units of the root and the bundle has one, half of them,
and TLC finds the sale in which the buyer does not get the manifest. `BundlesStayWhole` and
`SellersGetBack` need nothing of the other orders; they speak of each
order by itself. The theorems on rings suppose unique NFTs, as the run
`mart_nested` does: with several units of a root, one may lie in a TBA while another stays
with the owner.

*The ledger.* `TypeOK` is not inductive: `retire` lowers the recorded supply after checking
the issuer's balance, not the supply, so that the supply stays natural only because it is the
sum of all balances. `LedgerInv` is the conjunction of both, and is inductive. There is one
lemma per action that moves units (`IssueInv`, `RetireInv`, `TransferInv`, `CreateInv`) and one for the
actions that do not (`SettingsInv`). They rest on how a sum changes when one or two
entries change (`TotalUpdate`, `TotalMove` in `TotalsTheorems`). These are proved without
induction: `Total` counts the units of a function as a set of pairs, a change of one entry
replaces one row of that set by an interval, and the facts about cardinalities of disjoint unions and intervals in
`FiniteSetTheorems` do the rest.

*The action properties of the ledger.* `TermsStep` and `SeparationStep` show for a step from
`LedgerInv` what the properties say of every step.

*The ledger inside other contracts.* `TbaAccount` and `SongReg` contain an instance of
`NToken`. Their proof modules instantiate `NTokenProofs` in the same way as `Ledger`, show once
that the constants of the instance satisfy its assumption (`LedgerConstants`), and use
the lemmas `Ledger!TransferInv` and so on for every inline or foreign call of the ledger.

*Custody.* `TbaInv` is the ledger's invariant, the deployment (all tokens created, the
whitelist empty or the two custodians), the types of the TBAs and rows, and `CustodyIsExact`. The sum of
the rows of one thing is a `Total` over the asset ids. A deposit adds a row for each element of
the vector, in order, after the largest id in use; none of these ids is taken, so that
the sum grows by what the vector has of each thing, repeated nids included. A withdrawal takes one row and the balance down by the same
amount. Tokens that arrive unnoticed raise the balance alone (`CoinsGrow`). `AssetsArePayable`
follows: one row is at most the sum, the sum is at most custody's balance,
and two balances of a nid never exceed its supply.

*Rings.* Where NFTs are unique, a ring would be closed by a deposit into some
TBA that is in it. The depositor must be in control of that TBA *after* the balances have moved, so its root is with
the depositor; but in a ring every root is in custody, because custody's balance covers the
row that the root is. So none of the rows that close the ring is new, and the
ring was there before the step (`RowsGrow`, `NoNewRing`).

*The market.* `MartInv` is `TbaInv`, the types of orders and settings, and `EscrowCovers`. What
listed orders need of a nid is again a `Total`, over the orders: listing appends one entry and
moves the same units to the market, ending an order clears one entry and hands them out
(`EscrowPlaced`, `EscrowEnded`), and nothing else takes units from the market, which is no user of `TbaAccount`. Each
action of the market is reduced to one of three shapes (`Offered`, `Concluded`, `SettingNext`),
and the rest of the argument is about those. `MarketKeepsNothing` adds up the payouts:
the seller gets what is left of the price, and transfers that are left out are of nothing.

`BundleInv` adds that a listed bundle is listed at its TBA with the root amount that `tba.reg`
recorded, and that a majority bundle is *whole*: its TBA contains exactly the manifest,
frozen. It is inductive because of one fact (`NobodyElseHoldsHalf`): the market holds
more than half of the root, two balances together never exceed the supply, and so nobody else can hold the
root amount. Hence no deposit (which asks for control after it), no withdrawal,
change of mode, or unfreeze by an owner passes `require_tba_owner` for that TBA, and no second
bundle can be listed on it. Freezes by the market itself are those of other bundles, which are of other TBAs.
From a whole bundle, `buy` and `cancel` find every row they unfreeze (`CancelIsOpen`,
`SoldWhole`).

*Refinement.* `MajoritySalesAreConsignment` maps initial states to initial states and each
step from `BundleInv` to a step of `Consignment`: a listing to `Consign` (`ConsignStep`), a
cancellation to `Return` (`CancelReturnsDeal`), a sale to `Deliver` (`BuyDeliversDeal`), everything else
to `Elsewhere` (`ElsewhereStep`), which may do anything but touch deals and the boxes on offer.
The mapping is the named definitions `Deals`, `Holdings`, `Boxes`, `Keepers` of `NftvMart`.

*Songs.* `SongInv` is the ledger's invariant, the types, `SongsAreWhole` and `MvsAreOfSongs`. Whole
means that all of the cap is issued, so that nobody can issue more, and only the issuer, which is
`song.reg`, could retire. `SalesArePaid` needs that the guard before the multiplication is exact:
a quantity passes it just when the product does not exceed `MaxInt`.

*The fee split.* Each portion, times the basis points, is at most the price times its share;
three of them with shares that add up to at most the whole leave a non-negative rest.

*Solvency of gnos.stake.* `RewardSolvency` speaks of rounded amounts and is not inductive: a
settlement rounds down one staker at a time, and how much was lost by it before is not
in the rounded sum. The invariant speaks of *weights* instead, which are not rounded:

    Weight(plan, pos) = Precision * pending + staked * (rps - paid) mod 2^64
    Sound(plan, column) = the stakes add up, nothing is parked while somebody stakes, and
                          the weights add up to at most Precision * Funds(plan)
    Funds(plan) = total_reward - claimed_reward - undistributed_reward

`StakeInv` says that every plan is sound with its column of positions, that an NFT without a plan has no
positions, and `Backed`. It is inductive:

* A reward spread over `T` staked units adds `share = (q * Precision div T) mod 2^64` to the
  counter, and a counter that wraps raises no difference by more than `share`
  (`CounterRise`). So the weights rise by at most `share * T <= Precision * q`
  (`SpreadWeight`), and the funds by `q`. The cast and the wrap only ever lose weight.
* Settling replaces a weight by `Precision` times what is claimable, which is no more
  (`ClaimableBound`, `SettledWeight`), and a settled position has nothing accrued, so that
  its stake may change without changing its weight.
* A claim takes `Precision * claimable` off both sides (`PaidWeight`, `ClaimSound`).

`ClaimableBound` also shows that what a position can claim is at most the plan's funds, hence
an amount: neither the cast to `int64_t` nor the range checks of the assets in
`compute_claimable` can fail, which is half of `ExitAlwaysOpen`. The other half is
`Backed`: the plans' needs of a token (`Needs`) are a column of their own, of which a
step changes one entry (`OnePlanStep`) by no more than it changes what is held or credited
(`CoveredStep`). From weights back to amounts: `Precision` times the sum of all claims is the sum of their
multiples (`TotalScaled`), which is at most the sum of the weights.

`TotalScaled` is a fact about every natural factor. The library's induction theorems take
an operator as parameter, which the provers cannot instantiate, so it is proved by the
least-number principle (`WFMin` with `NatLessThanWellFounded`): a least factor for
which it fails is not 0, and the one before it, by `TotalSum`, makes it hold. `TotalSum` is
a bijection that renumbers the units of one column to follow those of the other.

*Earnings.* `EarningsArePermanent` is about plans with `NoWrap`. `EarningsInv` adds to `StakeInv` that
for such a plan the reward per share is at most the precision times the reward that was
spread (`Low`), and that no position was settled at a higher one (`Behind`). Then the counter only
rises, the two differences do not wrap, and what accrues to a position that is not settled
grows with the counter (`WaitingEarns`); a position that is settled has all of it as pending
reward (`SettledNow`), unless it was paid in full. `NoWrap` of the next state gives it
for this one, as the total reward of a plan never falls.

*Consignment.* Every deal is typed and keeps its terms in each action; an implementation
inherits `DealsAreFinal`.

**Only model-checked**: the five violated properties, which are false. **Beyond this
prover**: liveness (none is claimed), induction over data.

## 5. Plan

What is left, in this order:

1. The theorems on rings for NFTs of several units: a ring then is a set of TBAs of which nobody
   can ever be in control again, which the model would have to state first.
2. An abstract specification of custody, as `Consignment` is one of the market.

Not modelled: the flow tests and deployment scripts (shell scripts against a live chain),
and the structures of `gnos.protocol.hpp` that no contract uses.

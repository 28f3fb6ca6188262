----------------------------- MODULE TbaAccount -----------------------------
(***************************************************************************)
(* The contracts tba.reg and tba.account on top of gnos.ntoken.  tba.reg   *)
(* maps a root NFT to a token bound account (TBA) and its owner;           *)
(* tba.account keeps the assets deposited into TBAs and lets the owner     *)
(* manage them for as long as the owner holds the root NFT.                *)
(*                                                                         *)
(* Of gnos.ntoken the instance NT takes part with the actions that move    *)
(* balances, and with setipowner; all tokens are created and issued to     *)
(* start with.  A nasset vector is a sequence, since every element that is *)
(* deposited becomes an asset row of its own.                              *)
(*                                                                         *)
(* External: the ordinary tokens put into a TBA, as the balance coins of   *)
(* tba.account in one such token, of which users have enough.  They may    *)
(* also send it to tba.account directly, which is not notified then.       *)
(*                                                                         *)
(* A TBA is named by the nid of its root NFT, which has at most one.       *)
(*                                                                         *)
(* An operator named X_y, defined before X, is X with the plausible        *)
(* mistake y: a mutant, which some property of the module must refute.     *)
(***************************************************************************)
EXTENDS Integers, Sequences, FiniteSets, Totals

CONSTANTS
  Users,       \* the accounts of people
  Mart, Custody,  \* the accounts nftv.mart and tba.account
  NoName, Ghost,  \* the empty name; a name that is no account
  Nids,
  Supply,      \* units each NFT may have
  Vectors,     \* the nasset vectors users transfer
  ModeChoices,   \* the settlement modes users choose
  StatusChoices, \* the statuses tba.reg sets
  MaxAssetId,  \* bound on asset ids
  MaxCoins,    \* bound on the ordinary tokens in custody
  MaxManifests \* bound on the manifests stored

Modes == {"deliverable", "control_only", "excluded", "blocking"}
Statuses == {"active", "frozen", "closed"}

Accounts == Users \cup {Mart, Custody}
Names == Accounts \cup {NoName, Ghost}
Coin == 0   \* stands for the ordinary token where an asset is not a NFT

ASSUME TbaAccountAssumption ==
  /\ IsFiniteSet(Users) /\ Users # {}
  /\ Cardinality({Mart, Custody, NoName, Ghost}) = 4
  /\ Users \cap {Mart, Custody, NoName, Ghost} = {}
  /\ Nids \subseteq Nat \ {0} /\ IsFiniteSet(Nids)
  /\ Supply \in Nat \ {0}
  /\ Vectors \subseteq Seq([nid : Nids, amount : 1 .. Supply])
  /\ ModeChoices \subseteq Modes
  /\ StatusChoices \subseteq Statuses
  /\ MaxAssetId \in Nat
  /\ MaxCoins \in Nat
  /\ MaxManifests \in Nat

VARIABLES
  tokenstats, accounts, whitelist,  \* gnos.ntoken
  tbas,    \* tba.reg: the TBA of each root nid that has one
  assets,  \* tba.account: the asset rows by id
  coins,   \* balance of tba.account in the ordinary token (external)
  manifests \* tba.account: how many manifests it has stored

ntvars == <<tokenstats, accounts, whitelist>>
tbavars == <<tbas, assets, coins, manifests>>
vars == <<tokenstats, accounts, whitelist, tbas, assets, coins, manifests>>

NT == INSTANCE NToken WITH
        AdminNames <- Users \cup {NoName, Ghost}, Uris <- {"uri"},
        Uint32Max <- 0, MaxAmount <- Supply, creators <- {}, notaries <- {}

Tba == [owner : Users, root_amount : 1 .. Supply, status : Statuses]

Asset == [tba : Nids, what : Nids \cup {Coin}, amount : 1 .. Supply + MaxCoins,
          settlement_mode : Modes, frozen : BOOLEAN]

TypeOK ==
  /\ NT!TypeOK
  /\ DOMAIN tbas \subseteq Nids
  /\ tbas \in [DOMAIN tbas -> Tba]
  /\ DOMAIN assets \subseteq 1 .. MaxAssetId
  /\ assets \in [DOMAIN assets -> Asset]
  /\ coins \in 0 .. MaxCoins
  /\ manifests \in 0 .. MaxManifests

(* Every token is created and issued in full to some user.  The whitelist  *)
(* is empty, or holds the custodians: of the names that the deployment     *)
(* puts on it, the two that hold NFTs here.                                *)
Init ==
  /\ \E issuer \in [Nids -> Users] :
       /\ tokenstats = [nid \in Nids |->
            [supply |-> Supply, max_supply |-> Supply, token_uri |-> "uri",
             ipowner |-> NoName, notary |-> NoName, issuer |-> issuer[nid]]]
       /\ accounts = [a \in Accounts |-> [nid \in Nids |->
            IF a = issuer[nid] THEN Supply ELSE 0]]
  /\ whitelist \in {{}, {Mart, Custody}}
  /\ tbas = << >>
  /\ assets = << >>
  /\ coins = 0
  /\ manifests = 0

-----------------------------------------------------------------------------
(* A vector as gnos.ntoken sees it: how much of which nid.                 *)
Amounts(vector) ==
  [nid \in {vector[i].nid : i \in DOMAIN vector} |->
     Total([i \in {j \in DOMAIN vector : vector[j].nid = nid} |-> vector[i].amount])]

(* require_tba_owner: the TBA is active and its owner holds the root NFT,  *)
(* given the balances at the time of the check.                            *)
OwnerInControl_recorded(balances, tba) ==
  /\ tba \in DOMAIN tbas
  /\ tbas[tba].status = "active"

OwnerInControl(balances, tba) ==
  /\ tba \in DOMAIN tbas
  /\ tbas[tba].status = "active"
  /\ balances[tbas[tba].owner][tba] >= tbas[tba].root_amount

(* The primary key after the largest one in use: the ids of the last rows  *)
(* are used again once these are erased.                                   *)
NextAssetId_from_zero ==
  IF assets = << >> THEN 0
  ELSE 1 + CHOOSE i \in DOMAIN assets : \A j \in DOMAIN assets : j <= i

NextAssetId_by_count == 1 + Cardinality(DOMAIN assets)

NextAssetId == IF assets = << >> THEN 1
               ELSE 1 + CHOOSE i \in DOMAIN assets : \A j \in DOMAIN assets : j <= i

NewAsset(tba, what, amount) ==
  [tba |-> tba, what |-> what, amount |-> amount,
   settlement_mode |-> "deliverable", frozen |-> FALSE]

(* assets with one new row per element of rows.                            *)
Recorded(rows) ==
  LET base == NextAssetId
      new  == base .. base + Len(rows) - 1
  IN  [id \in DOMAIN assets \cup new |->
         IF id \in new THEN rows[id - base + 1] ELSE assets[id]]

RoomFor(n) == NextAssetId + n - 1 <= MaxAssetId

-----------------------------------------------------------------------------
(* tba.reg                                                                 *)

Createtba(owner, nid, amount) ==
  /\ accounts[owner][nid] >= amount
  /\ nid \notin DOMAIN tbas
  /\ tbas' = [n \in DOMAIN tbas \cup {nid} |->
       IF n = nid
       THEN [owner |-> owner, root_amount |-> amount, status |-> "active"]
       ELSE tbas[n]]
  /\ UNCHANGED <<ntvars, assets, coins, manifests>>

Setstatus(tba, status) ==
  /\ tba \in DOMAIN tbas
  /\ tbas' = [tbas EXCEPT ![tba].status = status]
  /\ UNCHANGED <<ntvars, assets, coins, manifests>>

-----------------------------------------------------------------------------
(* tba.account                                                             *)

Deposittoken(owner, tba, quantity) ==
  /\ OwnerInControl(accounts, tba)
  /\ owner = tbas[tba].owner
  /\ coins + quantity <= MaxCoins
  /\ RoomFor(1)
  /\ coins' = coins + quantity
  /\ assets' = Recorded(<<NewAsset(tba, Coin, quantity)>>)
  /\ UNCHANGED <<ntvars, tbas, manifests>>

(* onnfttransfer: a transfer to tba.account with memo "deposit:<tba>".     *)
(* The notification runs when the balances have already moved.             *)
DepositNft(from, tba, vector) ==
  LET amounts == Amounts(vector)
  IN  /\ NT!Transfer(from, Custody, amounts)
      /\ OwnerInControl(NT!Moved(from, Custody, amounts), tba)
      /\ from = tbas[tba].owner
      /\ RoomFor(Len(vector))
      /\ assets' = Recorded([i \in DOMAIN vector |->
                       NewAsset(tba, vector[i].nid, vector[i].amount)])
      /\ UNCHANGED <<tbas, coins, manifests>>

(* What withdraw hands to the owner: ordinary tokens or NFT units.         *)
CanPayOut(owner, asset) ==
  IF asset.what = Coin
  THEN coins >= asset.amount
  ELSE NT!CanTransfer(Custody, owner, [n \in {asset.what} |-> asset.amount])

PayOut(owner, asset) ==
  IF asset.what = Coin
  THEN coins' = coins - asset.amount /\ UNCHANGED ntvars
  ELSE /\ NT!Transfer(Custody, owner, [n \in {asset.what} |-> asset.amount])
       /\ UNCHANGED coins

Erased_kept(id) == assets

Erased(id) == [i \in DOMAIN assets \ {id} |-> assets[i]]

Withdraw(tba, id) ==
  /\ OwnerInControl(accounts, tba)
  /\ id \in DOMAIN assets
  /\ assets[id].tba = tba
  /\ ~assets[id].frozen
  /\ CanPayOut(tbas[tba].owner, assets[id])
  /\ PayOut(tbas[tba].owner, assets[id])
  /\ assets' = Erased(id)
  /\ UNCHANGED <<tbas, manifests>>

Setmode(id, mode) ==
  /\ id \in DOMAIN assets
  /\ ~assets[id].frozen
  /\ OwnerInControl(accounts, assets[id].tba)
  /\ assets' = [assets EXCEPT ![id].settlement_mode = mode]
  /\ UNCHANGED <<ntvars, tbas, coins, manifests>>

(* freezeassets, past the check of who calls it.                           *)
CanFreeze_only_unfrozen(tba, ids, frozen_state) ==
  \A id \in ids :
    id \in DOMAIN assets /\ assets[id].tba = tba /\ ~assets[id].frozen

CanFreeze(tba, ids, frozen_state) ==
  \A id \in ids :
    /\ id \in DOMAIN assets
    /\ assets[id].tba = tba
    /\ frozen_state => ~assets[id].frozen

Frozen(ids, frozen_state) ==
  [id \in DOMAIN assets |->
     IF id \in ids THEN [assets[id] EXCEPT !.frozen = frozen_state]
                   ELSE assets[id]]

(* freezeassets called by the TBA's owner.                                 *)
FreezeOwn(tba, ids, frozen_state) ==
  /\ OwnerInControl(accounts, tba)
  /\ CanFreeze(tba, ids, frozen_state)
  /\ assets' = Frozen(ids, frozen_state)
  /\ UNCHANGED <<ntvars, tbas, coins, manifests>>

AssetsOf(tba) == {id \in DOMAIN assets : assets[id].tba = tba}

Deliverables(tba) ==
  {id \in AssetsOf(tba) : assets[id].settlement_mode = "deliverable"}

(* build_manifest finds something to deliver, and nothing that forbids it. *)
HasManifest(tba) ==
  /\ \A id \in AssetsOf(tba) : assets[id].settlement_mode # "blocking"
  /\ Deliverables(tba) # {}

(* No contract reads the stored manifests: only their number is kept.      *)
Genmanifest(tba) ==
  /\ OwnerInControl(accounts, tba)
  /\ HasManifest(tba)
  /\ manifests < MaxManifests
  /\ manifests' = manifests + 1
  /\ UNCHANGED <<ntvars, tbas, assets, coins>>

-----------------------------------------------------------------------------
(* gnos.ntoken: users transfer to each other and, without a handler there  *)
(* to stop them, to the market.  Whatever else arrives at tba.account is   *)
(* refused by onnfttransfer.                                               *)

TransferNft(from, to, vector) ==
  /\ NT!Transfer(from, to, Amounts(vector))
  /\ UNCHANGED tbavars

IssueNft(nid, amount) == NT!Issue(nid, amount) /\ UNCHANGED tbavars

RetireNft(nid, amount) == NT!Retire(nid, amount) /\ UNCHANGED tbavars

(* External: a direct transfer of the ordinary token to tba.account, which *)
(* hears of transfers of gnos.ntoken only: no row records it.              *)
SendCoins(quantity) ==
  /\ coins + quantity <= MaxCoins
  /\ coins' = coins + quantity
  /\ UNCHANGED <<ntvars, tbas, assets, manifests>>

NTokenNext ==
  \/ \E from \in Users, to \in Users \cup {Mart}, v \in Vectors : TransferNft(from, to, v)
  \/ \E nid \in Nids, q \in 1 .. Supply : IssueNft(nid, q)
  \/ \E nid \in Nids, q \in 1 .. Supply : RetireNft(nid, q)

TbaNext ==
  \/ \E a \in Users, nid \in Nids, q \in 1 .. Supply : Createtba(a, nid, q)
  \/ \E tba \in Nids, status \in StatusChoices : Setstatus(tba, status)
  \/ \E a \in Users, tba \in Nids, q \in 1 .. MaxCoins : Deposittoken(a, tba, q)
  \/ \E q \in 1 .. MaxCoins : SendCoins(q)
  \/ \E a \in Users, tba \in Nids, v \in Vectors : DepositNft(a, tba, v)
  \/ \E tba \in Nids, id \in 1 .. MaxAssetId : Withdraw(tba, id)
  \/ \E id \in 1 .. MaxAssetId, mode \in ModeChoices : Setmode(id, mode)
  \/ \E tba \in Nids, ids \in SUBSET (1 .. MaxAssetId), state \in BOOLEAN :
       FreezeOwn(tba, ids, state)
  \/ \E tba \in Nids : Genmanifest(tba)

Next == NTokenNext \/ TbaNext

Spec == Init /\ [][Next]_vars

-----------------------------------------------------------------------------
(* Properties.                                                             *)

(* The recorded amounts of one kind of asset.                              *)
RecordedOf(what) ==
  Total([id \in {i \in DOMAIN assets : assets[i].what = what} |-> assets[id].amount])

(* tba.account holds what its asset rows say: of NFTs exactly that, as no  *)
(* unit that reaches it is left without a row or recorded twice, and of    *)
(* the ordinary token, which may arrive unnoticed, at least that.          *)
CustodyIsExact ==
  /\ RecordedOf(Coin) <= coins
  /\ \A nid \in Nids : RecordedOf(nid) = accounts[Custody][nid]

(* Nothing that was put into a TBA is stuck there: whoever is in control    *)
(* of the TBA can be paid every asset of it, freezes apart, whatever was   *)
(* deposited, withdrawn, traded or retired before.                         *)
AssetsArePayable ==
  \A id \in DOMAIN assets :
    OwnerInControl(accounts, assets[id].tba) =>
      CanPayOut(tbas[assets[id].tba].owner, assets[id])

(* The roots of which all units are inside a TBA.                          *)
InsideOf(tba) ==
  {nid \in DOMAIN tbas :
     \E id \in DOMAIN assets : assets[id].tba = tba /\ assets[id].what = nid}

(* No TBA contains its own root, directly or through other TBAs: such a    *)
(* ring could never be opened again.  A set closed under "some member has  *)
(* my root" would be one.                                                  *)
NoCustodyRing ==
  \A ring \in (SUBSET DOMAIN tbas) \ {{}} :
    \E tba \in ring : \A outer \in ring : tba \notin InsideOf(outer)

(* Every row stays with its TBA, thing and amount, or is paid out to the   *)
(* owner of the TBA, who holds the root NFT.                               *)
LeavesToHolder ==
  \A id \in DOMAIN assets :
    LET a == assets[id]
    IN  \/ /\ id \in DOMAIN assets'
           /\ assets'[id].tba = a.tba
           /\ assets'[id].what = a.what
           /\ assets'[id].amount = a.amount
        \/ /\ ~a.frozen
           /\ accounts[tbas[a.tba].owner][a.tba] >= tbas[a.tba].root_amount
           /\ a.what # Coin =>
                accounts'[tbas[a.tba].owner][a.what] =
                  accounts[tbas[a.tba].owner][a.what] + a.amount

(* An asset leaves a TBA only into the hands of the owner who holds the    *)
(* root NFT; it never changes TBA or amount on the way.                    *)
OnlyHolderWithdraws == [][LeavesToHolder]_vars

=============================================================================

--------------------------- MODULE SongRegProofs ---------------------------
(***************************************************************************)
(* Songs are whole and sales are paid, for any number of users, songs and  *)
(* videos, any prices and any order of payments.                           *)
(*                                                                         *)
(* The ledger beneath is the one of NTokenProofs: the instance Ledger      *)
(* brings its lemmas, and the bridge below says that its operators are     *)
(* those of the instance NT of the model.  Only setipowner may name more   *)
(* accounts in the model than setcreator, so that Ledger admits them all.  *)
(***************************************************************************)
EXTENDS CisumFlows, TotalsTheorems

Ledger == INSTANCE NTokenProofs WITH
            Names <- Accounts \cup {NoName}, AdminNames <- Accounts \cup {NoName},
            Uris <- Urls, Uint32Max <- 0, MaxAmount <- MaxUnits, notaries <- {}

-----------------------------------------------------------------------------
(* The bridge.                                                             *)

(* What the constants of song.reg are assumed to be.                       *)
LEMMA Constants ==
  /\ IsFiniteSet(Accounts) /\ Ledger!IsFiniteSet(Accounts)
  /\ SongRegistry \in Accounts /\ SongRegistry \notin Users /\ Users \subseteq Accounts
  /\ NoName \notin Accounts /\ Admitted \subseteq Accounts /\ Nids \subseteq Nat
  /\ MaxUnits \in Nat \ {0} /\ UnitsPerIssue \subseteq 1 .. MaxUnits
  /\ MaxInt \in Nat \ {0} /\ NftPrices \subseteq 1 .. MaxInt
  /\ CisumSupply \in Nat /\ MaxMvs \in Nat
<1>1. IsFiniteSet(Accounts)
  BY SongRegAssumption, FS_AddElement DEF Accounts
<1>2. Ledger!IsFiniteSet(Accounts)
  BY <1>1 DEF IsFiniteSet, Ledger!IsFiniteSet
<1>3. QED
  BY <1>1, <1>2, SongRegAssumption DEF Accounts

(* The assumptions that the lemmas of the ledger rest on.                  *)
LEMMA LedgerConstants ==
  /\ Ledger!IsFiniteSet(Accounts)
  /\ Accounts \subseteq Accounts \cup {NoName}
  /\ NoName \in (Accounts \cup {NoName}) \ Accounts
  /\ Accounts \cup {NoName} \subseteq Accounts \cup {NoName}
  /\ Nids \subseteq Nat
  /\ 0 \in Nat
  /\ MaxUnits \in Nat \ {0}
BY Constants

(* Totals are the same in both instances.                                  *)
LEMMA SameTotal == ASSUME NEW f PROVE Ledger!Total(f) = Total(f)
<1>1. \A S : Ledger!Cardinality(S) = Cardinality(S)
  BY DEF Ledger!Cardinality, Cardinality
<1>2. QED
  BY <1>1 DEF Ledger!Total, Total, Ledger!UnitsOf, UnitsOf

(* The invariant of the ledger gives the types of the model's instance.    *)
LEMMA SameTypes ==
  /\ Ledger!TypeOK <=> NT!TypeOK
  /\ Ledger!Created = NT!Created
BY DEF Ledger!TypeOK, NT!TypeOK, Ledger!Created, NT!Created, Ledger!Stat, NT!Stat

-----------------------------------------------------------------------------
(* The invariant.                                                          *)

SongTypeOK ==
  /\ DOMAIN songs \subseteq Nids \ {0}
  /\ songs \in [DOMAIN songs -> Song]
  /\ global \in Global \cup {Unset}
  /\ takings \in 0 .. CisumSupply
  /\ mvs \in Seq(Mv) /\ Len(mvs) <= MaxMvs

SongInv == Ledger!LedgerInv /\ SongTypeOK /\ SongsAreWhole /\ MvsAreOfSongs

(* What the ledger knows of one token, in the terms of the model.          *)
LEMMA TokenFacts ==
  ASSUME SongInv
  PROVE  /\ Ledger!TypeOK /\ Ledger!SupplyConserved /\ NT!TypeOK
         /\ NT!Created \subseteq Nids \ {0}
         /\ tokenstats \in [NT!Created -> NT!Stat]
         /\ \A a \in Accounts, nid \in Nids : accounts[a][nid] \in 0 .. MaxUnits
         /\ accounts \in [Accounts -> [Nids -> 0 .. MaxUnits]]
         /\ \A a \in Accounts, nid \in Nids \ NT!Created : accounts[a][nid] = 0
<1>1. Ledger!TypeOK /\ Ledger!SupplyConserved /\ NT!TypeOK
  BY SameTypes DEF SongInv, Ledger!LedgerInv
<1>2. /\ NT!Created \subseteq Nids \ {0}
      /\ tokenstats \in [NT!Created -> NT!Stat]
      /\ accounts \in [Accounts -> [Nids -> 0 .. MaxUnits]]
  BY <1>1 DEF NT!TypeOK
<1>3. \A a \in Accounts, nid \in Nids \ NT!Created : accounts[a][nid] = 0
  <2> TAKE a \in Accounts, nid \in Nids \ NT!Created
  <2>1. Ledger!Total(Ledger!HoldingsOf(nid)) = 0
    BY <1>1, SameTypes DEF Ledger!SupplyConserved
  <2>2. accounts[a][nid] <= Ledger!Total(Ledger!HoldingsOf(nid))
    BY <1>1, LedgerConstants, Ledger!Column
  <2>3. QED
    BY <1>2, <2>1, <2>2, Constants
<1>4. QED
  BY <1>1, <1>2, <1>3

(* The rest of the types are the model's too.                              *)
LEMMA SongInvTypes == SongInv => TypeOK
BY TokenFacts DEF SongInv, SongTypeOK, TypeOK

-----------------------------------------------------------------------------
(* The steps of gnos.ntoken.                                               *)

(* What no step may do to the tokens there are.                            *)
Kept ==
  /\ NT!Created \subseteq NT!Created'
  /\ \A nid \in NT!Created :
       /\ tokenstats'[nid].issuer = tokenstats[nid].issuer
       /\ tokenstats[nid].issuer = SongRegistry =>
            /\ tokenstats'[nid].supply = tokenstats[nid].supply
            /\ tokenstats'[nid].max_supply = tokenstats[nid].max_supply

(* New tokens of song.reg are songs of which every unit is issued.         *)
NewAreWhole ==
  \A nid \in NT!Created' \ NT!Created : tokenstats'[nid].issuer = SongRegistry =>
    /\ nid \in DOMAIN songs
    /\ tokenstats'[nid].supply = tokenstats'[nid].max_supply

NothingSold == \A nid \in Nids : ~Sold(nid)

(* Songs stay whole, and the songs of the videos stay.                     *)
LEMMA WholeStep ==
  ASSUME SongInv, Kept, NewAreWhole,
         DOMAIN songs \subseteq DOMAIN songs', mvs' = mvs
  PROVE  SongsAreWhole' /\ MvsAreOfSongs'
<1>1. SongsAreWhole'
  BY DEF SongInv, Kept, NewAreWhole, SongsAreWhole
<1>2. MvsAreOfSongs'
  BY DEF SongInv, Kept, MvsAreOfSongs
<1>3. QED
  BY <1>1, <1>2

(* A person creates a token: the person is the issuer, and song.reg holds  *)
(* none of it.                                                             *)
LEMMA PeopleCreate ==
  ASSUME SongInv, NEW a \in Users, NEW max \in 1 .. MaxUnits, NEW nid \in Nids,
         NEW url \in Urls, NEW ipowner \in Users \cup {NoName},
         NT!Create(a, max, nid, url, ipowner)
  PROVE  Ledger!LedgerInv' /\ Kept /\ NewAreWhole /\ NothingSold
<1> USE DEF NT!Created, Ledger!Created
<1>1. Ledger!Create(a, max, nid, url, ipowner)
  BY DEF Ledger!Create, NT!Create, Ledger!CanCreate, NT!CanCreate, Ledger!NewStat,
         NT!NewStat, Ledger!WithToken, NT!WithToken, Ledger!CreatorAuthorised,
         NT!CreatorAuthorised, Ledger!IdIsFree, NT!IdIsFree, Ledger!roles, NT!roles
<1>2. a \in Accounts /\ ipowner \in Accounts \cup {NoName} /\ a # SongRegistry
  BY Constants
<1>3. Ledger!LedgerInv'
  BY <1>1, <1>2, LedgerConstants, Ledger!CreateInv DEF SongInv
<1>4. /\ nid \notin DOMAIN tokenstats /\ UNCHANGED accounts
      /\ tokenstats' = [n \in DOMAIN tokenstats \cup {nid} |->
           IF n = nid THEN NT!NewStat(a, 0, max, url, ipowner) ELSE tokenstats[n]]
  BY DEF NT!Create, NT!CanCreate, NT!IdIsFree, NT!WithToken
<1>5. /\ NT!NewStat(a, 0, max, url, ipowner).issuer = a
      /\ NT!NewStat(a, 0, max, url, ipowner).supply = 0
  BY DEF NT!NewStat
<1>6. /\ DOMAIN tokenstats' = DOMAIN tokenstats \cup {nid}
      /\ \A n \in DOMAIN tokenstats : tokenstats'[n] = tokenstats[n]
      /\ tokenstats'[nid].issuer = a /\ tokenstats'[nid].supply = 0
  BY <1>4, <1>5
<1>7. Kept /\ NewAreWhole
  BY <1>2, <1>6 DEF Kept, NewAreWhole
<1>8. NothingSold
  <2> SUFFICES ASSUME NEW n \in Nids, n \in DOMAIN tokenstats'
               PROVE  ~(Outside(n)' > Outside(n))
    BY DEF NothingSold, Sold
  <2>1. accounts[SongRegistry][n] \in Nat
    BY TokenFacts, Constants
  <2>2. CASE n \in DOMAIN tokenstats
    <3>1. Outside(n)' = Outside(n) /\ Outside(n) \in Int
      <4>1. tokenstats[n].supply \in Nat
        BY <2>2, TokenFacts, Constants DEF NT!Stat
      <4>2. QED
        BY <1>4, <1>6, <2>1, <2>2, <4>1 DEF Outside
    <3>2. QED
      BY <3>1
  <2>3. CASE n = nid
    <3>1. accounts[SongRegistry][nid] = 0
      BY <1>4, TokenFacts, Constants
    <3>2. Outside(nid) = 0 /\ Outside(nid)' = 0
      BY <1>4, <1>6, <3>1 DEF Outside
    <3>3. QED
      BY <2>3, <3>2
  <2>4. QED
    BY <1>6, <2>2, <2>3
<1>9. QED
  BY <1>3, <1>7, <1>8

(* A person who issued a token issues more of it, or retires some: neither *)
(* the stock of song.reg nor any other token changes.                      *)
LEMMA PeopleIssue ==
  ASSUME SongInv, NEW nid \in NT!Created, NEW q \in 1 .. MaxUnits,
         tokenstats[nid].issuer \in Users,
         NT!Issue(nid, q) \/ NT!Retire(nid, q)
  PROVE  Ledger!LedgerInv' /\ Kept /\ NewAreWhole /\ NothingSold
<1> DEFINE issuer == tokenstats[nid].issuer
<1>1. Ledger!Issue(nid, q) \/ Ledger!Retire(nid, q)
  BY DEF Ledger!Issue, NT!Issue, Ledger!Retire, NT!Retire, Ledger!CanAdd, NT!CanAdd,
         Ledger!CanSub, NT!CanSub, Ledger!roles, NT!roles, NT!Created, Ledger!Created
<1>2. nid \in Nids /\ issuer \in Accounts /\ issuer # SongRegistry
  BY TokenFacts, Constants
<1>3. Ledger!LedgerInv'
  BY <1>1, <1>2, LedgerConstants, Ledger!IssueInv, Ledger!RetireInv DEF SongInv
<1>4. /\ tokenstats \in [DOMAIN tokenstats -> NT!Stat]
      /\ accounts \in [Accounts -> [Nids -> 0 .. MaxUnits]]
      /\ nid \in DOMAIN tokenstats
  BY TokenFacts DEF NT!Created
<1>5. PICK supply, b :
        /\ tokenstats' = [tokenstats EXCEPT ![nid].supply = supply]
        /\ accounts' = [accounts EXCEPT ![issuer][nid] = b]
  BY DEF NT!Issue, NT!Retire
<1>6. /\ DOMAIN tokenstats' = DOMAIN tokenstats
      /\ \A n \in DOMAIN tokenstats \ {nid} : tokenstats'[n] = tokenstats[n]
      /\ tokenstats'[nid].issuer = issuer
      /\ accounts'[SongRegistry] = accounts[SongRegistry]
  BY <1>2, <1>4, <1>5, Constants DEF NT!Stat
<1>7. Kept /\ NewAreWhole
  BY <1>2, <1>6 DEF Kept, NewAreWhole, NT!Created
<1>8. NothingSold
  <2> SUFFICES ASSUME NEW n \in Nids PROVE ~Sold(n)
    BY DEF NothingSold
  <2>1. accounts[SongRegistry][n] \in Nat
    BY TokenFacts, Constants
  <2>2. CASE n = nid
    BY <1>2, <1>6, <2>1, <2>2 DEF Sold
  <2>3. CASE n # nid
    <3>1. Outside(n)' = Outside(n) /\ Outside(n) \in Int
      BY <1>4, <1>6, <2>1, <2>3, Constants DEF Outside, NT!Created, NT!Stat
    <3>2. QED
      BY <3>1 DEF Sold
  <2>4. QED
    BY <2>2, <2>3
<1>9. QED
  BY <1>3, <1>7, <1>8

(* What a transfer of q units of nid does to the ledger.                   *)
Moved(from, to, nid, q) ==
  /\ Ledger!LedgerInv' /\ from # to /\ nid \in NT!Created
  /\ UNCHANGED <<tokenstats, creators, whitelist>>
  /\ accounts'[from][nid] = accounts[from][nid] - q
  /\ accounts'[to][nid] = accounts[to][nid] + q
  /\ \A n \in Nids \ {nid} : accounts'[from][n] = accounts[from][n]
  /\ \A n \in Nids \ {nid} : accounts'[to][n] = accounts[to][n]
  /\ \A a \in Accounts \ {from, to}, n \in Nids : accounts'[a][n] = accounts[a][n]

(* One token of the ledger moves from one account to another.              *)
LEMMA OneTransfer ==
  ASSUME SongInv, NEW from \in Accounts, NEW to \in Accounts, NEW nid \in Nids,
         NEW q \in 1 .. MaxUnits, NT!Transfer(from, to, [n \in {nid} |-> q])
  PROVE  Moved(from, to, nid, q)
<1> DEFINE assets == [n \in {nid} |-> q]
<1>1. Ledger!Transfer(from, to, assets)
  BY DEF Ledger!Transfer, NT!Transfer, Ledger!CanTransfer, NT!CanTransfer,
         Ledger!Moved, NT!Moved, Ledger!Quantity, NT!Quantity, Ledger!roles, NT!roles,
         Ledger!CanSub, NT!CanSub, Ledger!CanAdd, NT!CanAdd, Ledger!Created, NT!Created,
         Ledger!WhitelistAllows, NT!WhitelistAllows
<1>2. assets \in [{nid} -> 1 .. MaxUnits] /\ {nid} \in SUBSET Nids
  OBVIOUS
<1>3. assets \in Ledger!AssetVectors
  BY <1>2 DEF Ledger!AssetVectors
<1>4. /\ Ledger!Quantity(assets, nid) = q
      /\ \A n \in Nids \ {nid} : Ledger!Quantity(assets, n) = 0
  BY DEF Ledger!Quantity
<1>5. nid \in NT!Created /\ UNCHANGED <<tokenstats, creators, whitelist>>
  BY DEF NT!Transfer, NT!CanTransfer, NT!roles
<1> HIDE DEF assets
<1>6. Ledger!LedgerInv'
  BY <1>1, <1>3, LedgerConstants, Ledger!TransferInv DEF SongInv
<1>7. /\ from # to
      /\ \A n \in Nids :
           /\ accounts'[from][n] = accounts[from][n] - Ledger!Quantity(assets, n)
           /\ accounts'[to][n] = accounts[to][n] + Ledger!Quantity(assets, n)
           /\ \A a \in Accounts \ {from, to} : accounts'[a][n] = accounts[a][n]
  BY <1>1, <1>3, LedgerConstants, TokenFacts, Ledger!TransferEffect
<1>8. \A n \in Nids : accounts[from][n] \in Nat /\ accounts[to][n] \in Nat
  BY TokenFacts, Constants
<1>9. QED
  BY <1>4, <1>5, <1>6, <1>7, <1>8 DEF Moved

(* What a person transfers, to song.reg as well, brings nothing out of it. *)
LEMMA PeopleTransfer ==
  ASSUME SongInv, NEW from \in Users, NEW to \in Accounts, NEW nid \in Nids,
         NEW q \in 1 .. MaxUnits, NT!Transfer(from, to, [n \in {nid} |-> q])
  PROVE  Ledger!LedgerInv' /\ Kept /\ NewAreWhole /\ NothingSold
<1>1. from \in Accounts /\ from # SongRegistry
  BY Constants
<1>2. Moved(from, to, nid, q)
  BY <1>1, OneTransfer
<1>3. Kept /\ NewAreWhole
  BY <1>2 DEF Moved, Kept, NewAreWhole, NT!Created
<1>4. \A n \in Nids :
        /\ accounts[SongRegistry][n] \in Nat /\ accounts'[SongRegistry][n] \in Nat
        /\ accounts'[SongRegistry][n] >= accounts[SongRegistry][n]
  <2> TAKE n \in Nids
  <2>1. accounts[SongRegistry][n] \in Nat
    BY TokenFacts, Constants
  <2>2. CASE to = SongRegistry
    BY <1>2, <2>1, <2>2, Constants DEF Moved
  <2>3. CASE to # SongRegistry
    BY <1>1, <1>2, <2>1, <2>3, Constants DEF Moved
  <2>4. QED
    BY <2>2, <2>3
<1>5. NothingSold
  <2> SUFFICES ASSUME NEW n \in Nids PROVE ~(Outside(n)' > Outside(n))
    BY DEF NothingSold, Sold
  <2>1. n \in NT!Created => tokenstats[n].supply \in Nat
    BY TokenFacts, Constants DEF NT!Stat
  <2>2. QED
    BY <1>2, <1>4, <2>1 DEF Moved, Outside, NT!Created
<1>6. QED
  BY <1>2, <1>3, <1>5 DEF Moved

(* setipowner and setcreator change neither balances nor supplies.         *)
LEMMA LedgerSettings ==
  ASSUME SongInv,
         \/ \E nid \in Nids, a \in Users : NT!Setipowner(nid, a)
         \/ \E a \in Admitted, to_add \in BOOLEAN : NT!Setcreator(a, to_add)
  PROVE  Ledger!LedgerInv' /\ Kept /\ NewAreWhole /\ NothingSold
<1>1. \/ \E nid \in Nids, a \in Accounts \cup {NoName} : Ledger!Setipowner(nid, a)
      \/ \E a \in Accounts \cup {NoName}, to_add \in BOOLEAN : Ledger!Setcreator(a, to_add)
  BY Constants DEF Ledger!Setipowner, NT!Setipowner, Ledger!Setcreator, NT!Setcreator,
                   Ledger!Created, NT!Created, Ledger!roles, NT!roles
<1>2. Ledger!AdminNext
  BY <1>1 DEF Ledger!AdminNext
<1>3. Ledger!LedgerInv'
  BY <1>2, LedgerConstants, Ledger!SettingsInv DEF SongInv
<1>4. tokenstats \in [DOMAIN tokenstats -> NT!Stat]
  BY TokenFacts DEF NT!Created
<1>5. /\ UNCHANGED accounts /\ DOMAIN tokenstats' = DOMAIN tokenstats
      /\ \A n \in DOMAIN tokenstats :
           /\ tokenstats'[n].issuer = tokenstats[n].issuer
           /\ tokenstats'[n].supply = tokenstats[n].supply
           /\ tokenstats'[n].max_supply = tokenstats[n].max_supply
  BY <1>4 DEF NT!Setipowner, NT!Setcreator, NT!Stat, NT!roles
<1>6. Kept /\ NewAreWhole
  BY <1>5 DEF Kept, NewAreWhole, NT!Created
<1>7. NothingSold
  <2> SUFFICES ASSUME NEW n \in Nids PROVE ~(Outside(n)' > Outside(n))
    BY DEF NothingSold, Sold
  <2>1. accounts[SongRegistry][n] \in Nat
    BY TokenFacts, Constants
  <2>2. n \in DOMAIN tokenstats => tokenstats[n].supply \in Nat
    BY <1>4, Constants DEF NT!Stat
  <2>3. QED
    BY <1>5, <2>1, <2>2 DEF Outside, NT!Created
<1>8. QED
  BY <1>3, <1>6, <1>7

(* No action of gnos.ntoken on its own makes a song less than whole or     *)
(* takes units from song.reg.                                              *)
LEMMA NTokenStep ==
  ASSUME SongInv, NTokenNext
  PROVE  Ledger!LedgerInv' /\ Kept /\ NewAreWhole /\ NothingSold
BY PeopleCreate, PeopleIssue, PeopleTransfer, LedgerSettings DEF NTokenNext

-----------------------------------------------------------------------------
(* Payments.                                                               *)

(* The check before the multiplication rules out that it overflows.        *)
LEMMA FitsInt64 ==
  ASSUME NEW price \in Nat, NEW count \in Nat \ {0}, Fits(price, count)
  PROVE  PaymentAmount(price, count) = price * count /\ price * count \in Nat
<1> DEFINE cost == price * count
           half == MaxInt + 1
<1>1. MaxInt \in Nat \ {0}
  BY Constants
<1>2. (MaxInt \div count) \in Nat /\ count * (MaxInt \div count) <= MaxInt
  BY <1>1
<1>3. price <= MaxInt \div count
  BY DEF Fits
<1>4. \A m \in Nat : price <= m => price * count <= count * m
  OBVIOUS
<1>5. cost \in Nat
  OBVIOUS
<1>6. cost <= MaxInt
  <2>1. cost <= count * (MaxInt \div count)
    BY <1>2, <1>3, <1>4
  <2>2. count * (MaxInt \div count) \in Nat
    BY <1>2
  <2> HIDE DEF cost
  <2>3. QED
    BY <1>1, <1>2, <1>5, <2>1, <2>2
<1> HIDE DEF cost
<1>7. (cost + MaxInt + 1) % (2 * (MaxInt + 1)) = cost + MaxInt + 1
  <2>1. half \in Nat /\ cost + half \in Nat /\ cost + half < 2 * half
    BY <1>1, <1>5, <1>6
  <2>2. cost + MaxInt + 1 = cost + half
    BY <1>1, <1>5
  <2> HIDE DEF half
  <2>3. (cost + half) % (2 * half) = cost + half
    BY <2>1
  <2>4. QED
    BY <2>2, <2>3 DEF half
<1>8. Int64(cost) = cost
  BY <1>1, <1>5, <1>7 DEF Int64
<1>9. QED
  BY <1>5, <1>8 DEF PaymentAmount, cost

(* What a payment for count units brings song.reg.                         *)
LEMMA PayFacts ==
  ASSUME SongInv, NEW count \in Counts, Pay(count)
  PROVE  /\ global \in Global /\ global.nfts_per_issue \in 1 .. MaxUnits
         /\ global.nft_price \in Nat
         /\ takings' - takings = global.nft_price * count
         /\ takings' # takings
         /\ takings' \in 0 .. CisumSupply
<1>1. global \in Global /\ takings \in 0 .. CisumSupply
  BY DEF Pay, SongInv, SongTypeOK
<1>2. global.nfts_per_issue \in 1 .. MaxUnits /\ global.nft_price \in Nat
  <2>1. NftPrices \subseteq Nat /\ UnitsPerIssue \subseteq 1 .. MaxUnits
    BY Constants
  <2>2. global.nfts_per_issue \in UnitsPerIssue /\ global.nft_price \in NftPrices
    BY <1>1 DEF Global
  <2>3. QED
    BY <2>1, <2>2
<1>3. count \in Nat \ {0} /\ count \in Nat
  BY Constants DEF Counts
<1>4. /\ PaymentAmount(global.nft_price, count) = global.nft_price * count
      /\ global.nft_price * count \in Nat
  <2>1. Fits(global.nft_price, count)
    BY DEF Pay
  <2>2. QED
    BY <1>2, <1>3, <2>1, FitsInt64
<1> DEFINE amount == global.nft_price * count
<1>5. amount > 0 /\ takings + amount <= CisumSupply /\ takings' = takings + amount
  BY <1>4 DEF Pay
<1> HIDE DEF amount
<1>6. amount \in Nat
  BY <1>4 DEF amount
<1>7. /\ takings' - takings = amount /\ takings' # takings
      /\ takings' \in 0 .. CisumSupply
  BY <1>1, <1>5, <1>6, Constants
<1>8. QED
  BY <1>1, <1>2, <1>7 DEF amount

-----------------------------------------------------------------------------
(* A payment that creates the NFT of a song.                               *)

(* The row of the new token, and who holds it.                             *)
LEMMA SongCreateEffect ==
  ASSUME SongInv, NEW nid \in MemoNids, NEW count \in Counts, SongCreate(nid, count)
  PROVE  /\ nid \in Nids \ {0} /\ nid \notin NT!Created /\ nid \in DOMAIN songs
         /\ songs[nid].creator \in Users
         /\ global.nfts_per_issue \in 1 .. MaxUnits /\ count \in 1 .. global.nfts_per_issue
         /\ NT!Created' = NT!Created \cup {nid}
         /\ \A n \in NT!Created : tokenstats'[n] = tokenstats[n]
         /\ tokenstats'[nid] \in NT!Stat
         /\ tokenstats'[nid].issuer = SongRegistry
         /\ tokenstats'[nid].supply = global.nfts_per_issue
         /\ tokenstats'[nid].max_supply = global.nfts_per_issue
         /\ \A a \in Accounts, n \in Nids \ {nid} : accounts'[a][n] = accounts[a][n]
         /\ accounts'[SongRegistry][nid] = global.nfts_per_issue - count
         /\ accounts'[songs[nid].creator][nid] = count
         /\ \A a \in Accounts \ {SongRegistry, songs[nid].creator} :
              accounts'[a][nid] = accounts[a][nid]
         /\ accounts' \in [Accounts -> [Nids -> 0 .. MaxUnits]]
<1> DEFINE creator == songs[nid].creator
           total   == global.nfts_per_issue
           row     == NT!NewStat(SongRegistry, total, total, songs[nid].token_url, creator)
<1>1. /\ nid \in Nids \ {0} /\ nid \notin NT!Created /\ nid \in DOMAIN songs
      /\ count <= total
  BY DEF MemoNids, SongCreate, CanCreateSong, NT!CanCreate, NT!IdIsFree
<1>2. creator \in Users /\ songs[nid].token_url \in Urls
  BY <1>1 DEF SongInv, SongTypeOK, Song
<1>3. total \in 1 .. MaxUnits
  BY PayFacts DEF SongCreate
<1>4. count \in 1 .. total
  BY <1>1, <1>3, Constants DEF Counts
<1>5. /\ tokenstats' = [n \in NT!Created \cup {nid} |->
                          IF n = nid THEN row ELSE tokenstats[n]]
      /\ accounts' = [accounts EXCEPT ![SongRegistry][nid] = total - count,
                                      ![creator][nid] = count]
  BY DEF SongCreate, InitialIssue, NT!WithToken
<1>6. /\ row \in NT!Stat /\ row.issuer = SongRegistry
      /\ row.supply = total /\ row.max_supply = total
  <2>1. /\ SongRegistry \in Accounts /\ NoName \in Accounts \cup {NoName}
        /\ creator \in Accounts \cup {NoName} /\ total \in 0 .. MaxUnits
    BY <1>2, <1>3, Constants
  <2> HIDE DEF total, creator
  <2>2. QED
    BY <1>2, <1>3, <2>1 DEF NT!NewStat, NT!Stat
<1> HIDE DEF row
<1>7. /\ NT!Created' = NT!Created \cup {nid}
      /\ \A n \in NT!Created : tokenstats'[n] = tokenstats[n]
      /\ tokenstats'[nid] = row
  BY <1>1, <1>5 DEF NT!Created
<1>8. /\ accounts \in [Accounts -> [Nids -> 0 .. MaxUnits]]
      /\ creator \in Accounts /\ creator # SongRegistry /\ SongRegistry \in Accounts
  BY <1>2, TokenFacts, Constants
<1>9. total - count \in 0 .. MaxUnits /\ count \in 0 .. MaxUnits
  BY <1>3, <1>4, Constants
<1> HIDE DEF total, creator
<1>10. accounts' \in [Accounts -> [Nids -> 0 .. MaxUnits]]
  BY <1>1, <1>5, <1>8, <1>9
<1>11. /\ \A a \in Accounts, n \in Nids \ {nid} : accounts'[a][n] = accounts[a][n]
       /\ accounts'[SongRegistry][nid] = total - count
       /\ accounts'[creator][nid] = count
       /\ \A a \in Accounts \ {SongRegistry, creator} : accounts'[a][nid] = accounts[a][nid]
  BY <1>1, <1>5, <1>8
<1>12. QED
  BY <1>1, <1>2, <1>3, <1>4, <1>6, <1>7, <1>10, <1>11 DEF total, creator

(* All the units of the new token are in the hands of song.reg and of the  *)
(* creator of the song, and no other token changes.                        *)
LEMMA SongCreateLedger ==
  ASSUME SongInv, NEW nid \in MemoNids, NEW count \in Counts, SongCreate(nid, count)
  PROVE  Ledger!LedgerInv'
<1> DEFINE creator == songs[nid].creator
           total   == global.nfts_per_issue
           before(n) == [a \in Accounts |-> accounts[a][n]]
           after(n)  == [a \in Accounts |-> accounts'[a][n]]
           middle    == [before(nid) EXCEPT ![SongRegistry] = total - count]
<1>1. /\ nid \in Nids \ {0} /\ nid \notin NT!Created
      /\ creator \in Users /\ total \in 1 .. MaxUnits /\ count \in 1 .. total
      /\ NT!Created' = NT!Created \cup {nid}
      /\ \A n \in NT!Created : tokenstats'[n] = tokenstats[n]
      /\ tokenstats'[nid] \in NT!Stat
      /\ tokenstats'[nid].supply = total /\ tokenstats'[nid].max_supply = total
      /\ \A a \in Accounts, n \in Nids \ {nid} : accounts'[a][n] = accounts[a][n]
      /\ accounts'[SongRegistry][nid] = total - count
      /\ accounts'[creator][nid] = count
      /\ \A a \in Accounts \ {SongRegistry, creator} : accounts'[a][nid] = accounts[a][nid]
      /\ accounts' \in [Accounts -> [Nids -> 0 .. MaxUnits]]
  BY SongCreateEffect
<1>2. /\ NT!TypeOK /\ Ledger!SupplyConserved
      /\ \A a \in Accounts, n \in Nids : accounts[a][n] \in 0 .. MaxUnits
      /\ \A a \in Accounts : accounts[a][nid] = 0
  BY <1>1, TokenFacts
<1>3. NT!TypeOK'
  <2>1. tokenstats' \in [NT!Created' -> NT!Stat]
    <3>1. \A n \in NT!Created : tokenstats[n] \in NT!Stat
      BY <1>2 DEF NT!TypeOK
    <3>2. tokenstats' = [n \in NT!Created' |-> tokenstats'[n]]
      BY <1>1 DEF SongCreate, NT!WithToken
    <3>3. QED
      BY <1>1, <3>1, <3>2
  <2>2. NT!Created' \subseteq Nids \ {0}
    BY <1>1, <1>2 DEF NT!TypeOK
  <2>3. UNCHANGED <<creators, whitelist>>
    BY DEF SongCreate
  <2>4. QED
    BY <1>1, <1>2, <2>1, <2>2, <2>3 DEF NT!TypeOK
<1>4. Ledger!TypeOK' /\ Ledger!Created' = NT!Created' /\ Ledger!Created = NT!Created
  BY <1>3, SameTypes DEF Ledger!TypeOK, NT!TypeOK, Ledger!Created, NT!Created,
                         Ledger!Stat, NT!Stat
<1>5. creator \in Accounts /\ creator # SongRegistry /\ SongRegistry \in Accounts
  BY <1>1, Constants
<1>6. /\ \A n \in Nids : before(n) \in [Accounts -> Nat]
      /\ \A n \in Nids : after(n) \in [Accounts -> Nat]
      /\ middle \in [Accounts -> Nat]
  <2>1. \A a \in Accounts, n \in Nids : accounts[a][n] \in Nat /\ accounts'[a][n] \in Nat
    BY <1>1, <1>2, Constants
  <2>2. total - count \in Nat
    BY <1>1, Constants
  <2>3. QED
    BY <1>1, <1>5, <2>1, <2>2
<1>7. Total(after(nid)) = total
  <2>1. Total(before(nid)) = 0
    <3>1. /\ before(nid) \in [Accounts -> Nat]
          /\ \A a \in Accounts : before(nid)[a] = 0
      BY <1>1, <1>2, <1>6
    <3> HIDE DEF before
    <3>2. QED
      BY <3>1, TotalZero
  <2>2. Total(middle) = total - count
    <3>1. /\ before(nid) \in [Accounts -> Nat] /\ middle \in [Accounts -> Nat]
          /\ \A a \in Accounts \ {SongRegistry} : middle[a] = before(nid)[a]
          /\ before(nid)[SongRegistry] = 0 /\ middle[SongRegistry] = total - count
      BY <1>1, <1>2, <1>5, <1>6
    <3>2. Total(middle) \in Nat
      BY <1>6, Constants, TotalType
    <3> HIDE DEF before, middle
    <3>3. Total(middle) + before(nid)[SongRegistry] =
            Total(before(nid)) + middle[SongRegistry]
      BY <1>5, <3>1, Constants, TotalUpdate
    <3>4. total - count \in Nat
      BY <1>1, Constants
    <3> HIDE DEF total
    <3>5. QED
      BY <2>1, <3>1, <3>2, <3>3, <3>4
  <2>3. QED
    <3>1. /\ middle \in [Accounts -> Nat] /\ after(nid) \in [Accounts -> Nat]
          /\ \A a \in Accounts \ {creator} : after(nid)[a] = middle[a]
          /\ middle[creator] = 0 /\ after(nid)[creator] = count
      BY <1>1, <1>2, <1>5, <1>6
    <3>2. Total(after(nid)) \in Nat
      BY <1>1, <1>6, Constants, TotalType
    <3> HIDE DEF middle, after
    <3>3. Total(after(nid)) + middle[creator] = Total(middle) + after(nid)[creator]
      BY <1>5, <3>1, Constants, TotalUpdate
    <3>4. total \in Nat /\ count \in Nat
      BY <1>1, Constants
    <3> HIDE DEF total, creator
    <3>5. QED
      BY <2>2, <3>1, <3>2, <3>3, <3>4
<1>8. \A n \in Nids : /\ Ledger!Total(Ledger!HoldingsOf(n)) = Total(before(n))
                      /\ Ledger!Total(Ledger!HoldingsOf(n))' = Total(after(n))
  <2> TAKE n \in Nids
  <2>1. Ledger!HoldingsOf(n) = before(n)
    BY DEF Ledger!HoldingsOf
  <2>2. Ledger!Total(before(n)) = Total(before(n)) /\ Ledger!Total(after(n)) = Total(after(n))
    BY SameTotal
  <2>3. Ledger!Total(Ledger!HoldingsOf(n))' = Ledger!Total(after(n))
    BY DEF Ledger!HoldingsOf, Ledger!Total, Ledger!UnitsOf
  <2>4. QED
    BY <2>1, <2>2, <2>3
<1>9. \A n \in Nids \ {nid} : after(n) = before(n)
  BY <1>1
<1> HIDE DEF before, after
<1>10. Ledger!SupplyConserved'
  <2> SUFFICES ASSUME NEW n \in Nids
               PROVE  IF n \in NT!Created'
                      THEN /\ Total(after(n)) = tokenstats'[n].supply
                           /\ tokenstats'[n].supply <= tokenstats'[n].max_supply
                      ELSE Total(after(n)) = 0
    BY <1>4, <1>8 DEF Ledger!SupplyConserved
  <2>1. CASE n = nid
    BY <1>1, <1>7, <2>1, Constants
  <2>2. CASE n # nid
    <3>1. IF n \in NT!Created
          THEN /\ Total(before(n)) = tokenstats[n].supply
               /\ tokenstats[n].supply <= tokenstats[n].max_supply
          ELSE Total(before(n)) = 0
      BY <1>2, <1>4, <1>8 DEF Ledger!SupplyConserved
    <3>2. QED
      BY <1>1, <1>9, <2>2, <3>1
  <2>3. QED
    BY <2>1, <2>2
<1>11. QED
  BY <1>4, <1>10 DEF Ledger!LedgerInv

(* What SalesArePaid asks of a step.                                       *)
Paid ==
  /\ \A nid \in Nids : Sold(nid) =>
       takings' - takings = global.nft_price * (Outside(nid)' - Outside(nid))
  /\ takings' # takings => \E nid \in Nids : Sold(nid)

(* The first payment for a song: its units come into being, and those that *)
(* are paid leave song.reg.                                                *)
LEMMA SongCreateStep ==
  ASSUME SongInv, NEW nid \in MemoNids, NEW count \in Counts, SongCreate(nid, count)
  PROVE  Ledger!LedgerInv' /\ Kept /\ NewAreWhole /\ Paid
<1> DEFINE total == global.nfts_per_issue
<1>1. /\ nid \in Nids \ {0} /\ nid \notin NT!Created /\ nid \in DOMAIN songs
      /\ total \in 1 .. MaxUnits /\ count \in 1 .. total
      /\ NT!Created' = NT!Created \cup {nid}
      /\ \A n \in NT!Created : tokenstats'[n] = tokenstats[n]
      /\ tokenstats'[nid].issuer = SongRegistry
      /\ tokenstats'[nid].supply = total /\ tokenstats'[nid].max_supply = total
      /\ \A a \in Accounts, n \in Nids \ {nid} : accounts'[a][n] = accounts[a][n]
      /\ accounts'[SongRegistry][nid] = total - count
  BY SongCreateEffect
<1>2. Kept /\ NewAreWhole
  BY <1>1 DEF Kept, NewAreWhole
<1>3. \A n \in Nids \ {nid} : ~(Outside(n)' > Outside(n))
  <2> TAKE n \in Nids \ {nid}
  <2>1. accounts[SongRegistry][n] \in Nat
    BY TokenFacts, Constants
  <2>2. n \in NT!Created => tokenstats[n].supply \in Nat
    BY TokenFacts, Constants DEF NT!Stat
  <2>3. Outside(n)' = Outside(n) /\ Outside(n) \in Int
    <3>1. accounts'[SongRegistry][n] = accounts[SongRegistry][n]
      BY <1>1, Constants
    <3>2. QED
      BY <1>1, <2>1, <2>2, <3>1 DEF Outside
  <2>4. QED
    BY <2>3
<1>4. Outside(nid) = 0 /\ Outside(nid)' = count /\ Sold(nid)
  <2>1. Outside(nid) = 0
    BY <1>1 DEF Outside
  <2>2. Outside(nid)' = total - (total - count)
    BY <1>1 DEF Outside
  <2>3. QED
    BY <1>1, <2>1, <2>2, Constants DEF Sold
<1>5. takings' - takings = global.nft_price * count
  BY PayFacts DEF SongCreate
<1>6. Paid
  <2>1. Outside(nid)' - Outside(nid) = count
    BY <1>1, <1>4, Constants
  <2>2. QED
    BY <1>1, <1>3, <1>4, <1>5, <2>1 DEF Paid, Sold
<1>7. QED
  BY <1>2, <1>6, SongCreateLedger

(* A later payment: units leave the stock of song.reg.                     *)
LEMMA SongBuyStep ==
  ASSUME SongInv, NEW buyer \in Users, NEW nid \in MemoNids, NEW count \in Counts,
         SongBuy(buyer, nid, count)
  PROVE  Ledger!LedgerInv' /\ Kept /\ NewAreWhole /\ Paid
<1>1. /\ SongRegistry \in Accounts /\ buyer \in Accounts /\ nid \in Nids
      /\ count \in 1 .. MaxUnits
      /\ NT!Transfer(SongRegistry, buyer, [n \in {nid} |-> count])
  BY Constants DEF MemoNids, Counts, SongBuy
<1>2. Moved(SongRegistry, buyer, nid, count)
  BY <1>1, OneTransfer
<1>3. Kept /\ NewAreWhole
  BY <1>2 DEF Moved, Kept, NewAreWhole, NT!Created
<1>4. \A n \in Nids \ {nid} : ~(Outside(n)' > Outside(n))
  <2> TAKE n \in Nids \ {nid}
  <2>1. accounts[SongRegistry][n] \in Nat
    BY TokenFacts, Constants
  <2>2. n \in NT!Created => tokenstats[n].supply \in Nat
    BY TokenFacts, Constants DEF NT!Stat
  <2>3. QED
    BY <1>2, <2>1, <2>2 DEF Moved, Outside, NT!Created
<1>5. Outside(nid)' - Outside(nid) = count /\ Sold(nid)
  <2>1. accounts[SongRegistry][nid] \in Nat /\ count \in Nat /\ count > 0
    BY <1>1, TokenFacts, Constants
  <2>2. nid \in NT!Created /\ tokenstats[nid].supply \in Nat
    BY <1>2, TokenFacts, Constants DEF Moved, NT!Stat
  <2>3. QED
    BY <1>2, <2>1, <2>2 DEF Moved, Outside, Sold, NT!Created
<1>6. takings' - takings = global.nft_price * count
  BY PayFacts DEF SongBuy
<1>7. Paid
  BY <1>1, <1>4, <1>5, <1>6 DEF Paid, Sold
<1>8. QED
  BY <1>2, <1>3, <1>7 DEF Moved

-----------------------------------------------------------------------------
(* All steps.                                                              *)

(* A step that changes neither balances nor tokens sells nothing.          *)
LEMMA LedgerUnchanged ==
  ASSUME SongInv, UNCHANGED ntvars
  PROVE  Ledger!LedgerInv' /\ Kept /\ NewAreWhole /\ NothingSold
<1>1. tokenstats' = tokenstats /\ accounts' = accounts
      /\ creators' = creators /\ whitelist' = whitelist
  BY DEF ntvars
<1>2. Ledger!LedgerInv'
  <2>1. Ledger!vars' = Ledger!vars
    BY <1>1 DEF Ledger!vars
  <2>2. QED
    BY <2>1, LedgerConstants, Ledger!SettingsInv DEF SongInv
<1>3. Kept /\ NewAreWhole
  BY <1>1 DEF Kept, NewAreWhole, NT!Created
<1>4. NothingSold
  <2> SUFFICES ASSUME NEW n \in Nids PROVE ~(Outside(n)' > Outside(n))
    BY DEF NothingSold, Sold
  <2>1. accounts[SongRegistry][n] \in Nat
    BY TokenFacts, Constants
  <2>2. n \in NT!Created => tokenstats[n].supply \in Nat
    BY TokenFacts, Constants DEF NT!Stat
  <2>3. QED
    BY <1>1, <2>1, <2>2 DEF Outside, NT!Created
<1>5. QED
  BY <1>2, <1>3, <1>4

(* Without a payment to song.reg nothing need be sold.                     *)
LEMMA UnpaidIsPaid ==
  ASSUME NothingSold, takings' = takings
  PROVE  Paid
BY DEF NothingSold, Paid

(* The registration of a song.                                             *)
LEMMA RegsongStep ==
  ASSUME SongInv, NEW a \in Users, NEW nid \in Nids, NEW url \in Urls,
         Regsong(a, nid, url)
  PROVE  SongInv' /\ Paid
<1> DEFINE row == [creator |-> a, token_url |-> url]
<1>1. nid # 0 /\ UNCHANGED <<ntvars, global, takings, mvs>>
  BY DEF Regsong, IsFreeForSong
<1>2. songs' = [n \in DOMAIN songs \cup {nid} |-> IF n = nid THEN row ELSE songs[n]]
  BY DEF Regsong
<1>3. row \in Song
  BY DEF Song
<1> HIDE DEF row
<1>4. /\ DOMAIN songs' = DOMAIN songs \cup {nid}
      /\ songs' \in [DOMAIN songs' -> Song]
  BY <1>2, <1>3 DEF SongInv, SongTypeOK
<1>5. SongTypeOK'
  BY <1>1, <1>4 DEF SongInv, SongTypeOK
<1>6. Ledger!LedgerInv' /\ Kept /\ NewAreWhole /\ NothingSold
  BY <1>1, LedgerUnchanged
<1>7. SongsAreWhole' /\ MvsAreOfSongs'
  BY <1>1, <1>4, <1>6, WholeStep
<1>8. QED
  BY <1>1, <1>5, <1>6, <1>7, UnpaidIsPaid DEF SongInv

(* setglobal changes what the next payments must be.                       *)
LEMMA SetglobalStep ==
  ASSUME SongInv, NEW n \in UnitsPerIssue, NEW p \in NftPrices, Setglobal(n, p)
  PROVE  SongInv' /\ Paid
<1>1. UNCHANGED <<ntvars, songs, takings, mvs>> /\ global' \in Global
  BY DEF Setglobal, Global
<1>2. SongTypeOK'
  BY <1>1 DEF SongInv, SongTypeOK
<1>3. Ledger!LedgerInv' /\ Kept /\ NewAreWhole /\ NothingSold
  BY <1>1, LedgerUnchanged
<1>4. SongsAreWhole' /\ MvsAreOfSongs'
  BY <1>1, <1>3, WholeStep
<1>5. QED
  BY <1>1, <1>2, <1>3, <1>4, UnpaidIsPaid DEF SongInv

(* A new video: the token it names was issued by song.reg, which makes it  *)
(* a registered song.                                                      *)
LEMMA CreatemvStep ==
  ASSUME SongInv, NEW a \in Users, NEW nid \in Nids, NEW hash \in Hashes,
         Createmv(a, nid, hash)
  PROVE  SongInv' /\ Paid
<1> DEFINE row == [song_id |-> nid, creator |-> a, mv_hash |-> hash]
<1>1. /\ nid \in NT!Created /\ tokenstats[nid].issuer = SongRegistry
      /\ Len(mvs) < MaxMvs /\ mvs' = Append(mvs, row)
      /\ UNCHANGED <<ntvars, songs, global, takings>>
  BY DEF Createmv, MayReferTo, songvars
<1>2. row \in Mv /\ row.song_id = nid
  BY DEF Mv
<1> HIDE DEF row
<1>3. mvs \in Seq(Mv) /\ Len(mvs) \in Nat
  BY DEF SongInv, SongTypeOK
<1>4. /\ mvs' \in Seq(Mv) /\ Len(mvs') = Len(mvs) + 1
      /\ \A i \in DOMAIN mvs' : (i \in DOMAIN mvs /\ mvs'[i] = mvs[i]) \/ mvs'[i] = row
  BY <1>1, <1>2, <1>3
<1>5. SongTypeOK'
  BY <1>1, <1>3, <1>4, Constants DEF SongInv, SongTypeOK
<1>6. Ledger!LedgerInv' /\ Kept /\ NewAreWhole /\ NothingSold
  BY <1>1, LedgerUnchanged
<1>7. SongsAreWhole'
  BY <1>1, <1>6 DEF SongInv, Kept, NewAreWhole, SongsAreWhole
<1>8. nid \in DOMAIN songs
  BY <1>1 DEF SongInv, SongsAreWhole
<1>9. MvsAreOfSongs'
  <2> SUFFICES ASSUME NEW i \in DOMAIN mvs'
               PROVE  /\ mvs'[i].song_id \in DOMAIN songs
                      /\ mvs'[i].song_id \in NT!Created
                      /\ tokenstats[mvs'[i].song_id].issuer = SongRegistry
    BY <1>1 DEF MvsAreOfSongs, NT!Created, ntvars
  <2>1. CASE mvs'[i] = row
    BY <1>1, <1>2, <1>8, <2>1
  <2>2. CASE i \in DOMAIN mvs /\ mvs'[i] = mvs[i]
    BY <2>2 DEF SongInv, MvsAreOfSongs
  <2>3. QED
    BY <1>4, <2>1, <2>2
<1>10. QED
  BY <1>1, <1>5, <1>6, <1>7, <1>9, UnpaidIsPaid DEF SongInv

(* The payments, and what happens in gnos.ntoken.                          *)
LEMMA LedgerSteps ==
  ASSUME SongInv,
         \/ \E nid \in MemoNids, count \in Counts : SongCreate(nid, count)
         \/ \E a \in Users, nid \in MemoNids, count \in Counts : SongBuy(a, nid, count)
         \/ NTokenNext /\ UNCHANGED <<songvars, mvs>>
  PROVE  SongInv' /\ Paid
<1>1. Ledger!LedgerInv' /\ Kept /\ NewAreWhole /\ Paid
  BY SongCreateStep, SongBuyStep, NTokenStep, UnpaidIsPaid DEF songvars
<1>2. UNCHANGED <<songs, global, mvs>>
  BY DEF SongCreate, SongBuy, songvars
<1>3. takings' \in 0 .. CisumSupply
  <2>1. CASE \E nid \in MemoNids, count \in Counts : SongCreate(nid, count)
    BY <2>1, PayFacts DEF SongCreate
  <2>2. CASE \E a \in Users, nid \in MemoNids, count \in Counts : SongBuy(a, nid, count)
    BY <2>2, PayFacts DEF SongBuy
  <2>3. CASE UNCHANGED takings
    BY <2>3 DEF SongInv, SongTypeOK
  <2>4. QED
    BY <2>1, <2>2, <2>3 DEF songvars
<1>4. SongTypeOK'
  BY <1>2, <1>3 DEF SongInv, SongTypeOK
<1>5. SongsAreWhole' /\ MvsAreOfSongs'
  BY <1>1, <1>2, WholeStep
<1>6. QED
  BY <1>1, <1>4, <1>5 DEF SongInv

(* No action breaks the invariant or sells without payment.                *)
LEMMA SongStep ==
  ASSUME SongInv, [Next]_vars
  PROVE  SongInv' /\ Paid
<1>1. CASE Next
  BY <1>1, RegsongStep, SetglobalStep, CreatemvStep, LedgerSteps DEF Next, SongNext
<1>2. CASE UNCHANGED vars
  <2>1. UNCHANGED <<ntvars, songs, global, takings, mvs>>
    BY <1>2 DEF vars, ntvars
  <2>2. Ledger!LedgerInv' /\ Kept /\ NewAreWhole /\ NothingSold
    BY <2>1, LedgerUnchanged
  <2>3. SongTypeOK'
    BY <2>1 DEF SongInv, SongTypeOK
  <2>4. SongsAreWhole' /\ MvsAreOfSongs'
    BY <2>1, <2>2, WholeStep
  <2>5. QED
    BY <2>1, <2>2, <2>3, <2>4, UnpaidIsPaid DEF SongInv
<1>3. QED
  BY <1>1, <1>2

(* The contracts as deployed.                                              *)
LEMMA SongInit == Init => SongInv
<1> SUFFICES ASSUME Init PROVE SongInv
  OBVIOUS
<1>1. NT!Created = {} /\ Ledger!Created = {} /\ DOMAIN songs = {} /\ mvs = << >>
  BY DEF Init, NT!Created, Ledger!Created
<1>2. NT!TypeOK
  <2>1. accounts \in [Accounts -> [Nids -> 0 .. MaxUnits]]
    BY Constants DEF Init
  <2>2. QED
    BY <1>1, <2>1, Constants DEF Init, NT!TypeOK
<1>3. Ledger!SupplyConserved
  <2> SUFFICES ASSUME NEW nid \in Nids
               PROVE  Ledger!Total(Ledger!HoldingsOf(nid)) = 0
    BY <1>1 DEF Ledger!SupplyConserved
  <2>1. /\ Ledger!HoldingsOf(nid) \in [Accounts -> Nat]
        /\ \A a \in Accounts : Ledger!HoldingsOf(nid)[a] = 0
    BY DEF Init, Ledger!HoldingsOf
  <2>2. Total(Ledger!HoldingsOf(nid)) = 0
    BY <2>1, TotalZero
  <2>3. QED
    BY <2>2, SameTotal
<1>4. SongTypeOK
  BY <1>1, Constants DEF Init, SongTypeOK
<1>5. SongsAreWhole /\ MvsAreOfSongs
  BY <1>1 DEF SongsAreWhole, MvsAreOfSongs
<1>6. QED
  BY <1>2, <1>3, <1>4, <1>5, SameTypes DEF SongInv, Ledger!LedgerInv

-----------------------------------------------------------------------------
(* The contracts of CISUM together.                                        *)

FlowsInv == SongInv /\ GV!TypeOK

(* gnos.vault and the contracts around song.reg share no state.            *)
LEMMA FlowsInvHolds == FlowsSpec => []FlowsInv
<1>1. FlowsInit => FlowsInv
  <2> SUFFICES ASSUME FlowsInit PROVE FlowsInv
    OBVIOUS
  <2>1. SongInv
    BY SongInit DEF FlowsInit
  <2>2. admin = NoName /\ paused = FALSE /\ deposits = 0
    BY DEF FlowsInit, GV!Init
  <2>3. deposits \in Nat
    BY <2>2
  <2>4. QED
    BY <2>1, <2>2, <2>3, Zenon DEF FlowsInv, GV!TypeOK
<1>2. FlowsInv /\ [FlowsNext]_allvars => FlowsInv'
  <2> SUFFICES ASSUME FlowsInv, [FlowsNext]_allvars PROVE FlowsInv'
    OBVIOUS
  <2>1. [Next]_vars
    BY DEF FlowsNext, allvars
  <2>2. SongInv'
    BY <2>1, SongStep DEF FlowsInv
  <2>3. GV!TypeOK'
    <3>1. CASE VaultNext
      <4>1. deposits' \in Nat
        BY <3>1, Constants DEF VaultNext, FlowsInv, GV!TypeOK, GV!InitVault, GV!Setadmin,
                               GV!Setpause, GV!Deposit
      <4>2. admin' \in Admins \cup {Vault} \cup {NoName} /\ paused' \in BOOLEAN
        BY <3>1, Zenon DEF VaultNext, FlowsInv, GV!TypeOK, GV!InitVault, GV!Setadmin,
                           GV!Setpause, GV!Deposit
      <4>3. QED
        BY <4>1, <4>2, Zenon DEF GV!TypeOK
    <3>2. CASE UNCHANGED vaultvars
      BY <3>2 DEF vaultvars, FlowsInv, GV!TypeOK
    <3>3. QED
      BY <3>1, <3>2 DEF FlowsNext, allvars
  <2>4. QED
    BY <2>2, <2>3 DEF FlowsInv
<1>3. QED
  BY <1>1, <1>2, PTL DEF FlowsSpec

(* Every balance, price and payment of the contracts that CISUM is paid to *)
(* stays within its width, the products of prices and counts included.     *)
THEOREM FlowsAreTyped == FlowsSpec => []FlowsTypeOK
<1>1. FlowsInv => FlowsTypeOK
  BY SongInvTypes DEF FlowsInv, FlowsTypeOK
<1>2. QED
  BY <1>1, FlowsInvHolds, PTL

(* Whatever song.reg issued is a registered song with all its units: no    *)
(* sequence of payments, foreign creations, top-ups or retirements makes   *)
(* song.reg the issuer of anything else.                                   *)
THEOREM SongsStayWhole == FlowsSpec => []SongsAreWhole
<1>1. FlowsInv => SongsAreWhole
  BY DEF FlowsInv, SongInv
<1>2. QED
  BY <1>1, FlowsInvHolds, PTL

(* The song of a music video never goes away, although createmv asks       *)
(* gnos.ntoken and not song.reg for it.                                    *)
THEOREM VideosHaveSongs == FlowsSpec => []MvsAreOfSongs
<1>1. FlowsInv => MvsAreOfSongs
  BY DEF FlowsInv, SongInv
<1>2. QED
  BY <1>1, FlowsInvHolds, PTL

(* For any number of buyers and songs: no unit leaves song.reg unpaid, and *)
(* no payment for units is kept without handing them over.                 *)
THEOREM EverySaleIsPaid == FlowsSpec => SalesArePaid
<1>1. FlowsInv /\ [FlowsNext]_allvars =>
        [/\ \A nid \in Nids : Sold(nid) =>
              takings' - takings = global.nft_price * (Outside(nid)' - Outside(nid))
         /\ takings' # takings => \E nid \in Nids : Sold(nid)]_vars
  <2> SUFFICES ASSUME FlowsInv, [FlowsNext]_allvars PROVE Paid
    BY DEF Paid
  <2>1. [Next]_vars
    BY DEF FlowsNext, allvars
  <2>2. QED
    BY <2>1, SongStep DEF FlowsInv
<1>2. QED
  BY <1>1, FlowsInvHolds, PTL DEF FlowsSpec, SalesArePaid

=============================================================================

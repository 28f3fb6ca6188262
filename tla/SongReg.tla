------------------------------- MODULE SongReg -------------------------------
(***************************************************************************)
(* The contracts song.reg and mv.reg on top of gnos.ntoken.  A creator     *)
(* registers a song; the first payment of CISUM for it creates its NFT     *)
(* with all its units, hands the paid ones to the creator and leaves the   *)
(* rest in song.reg as stock, which later payments buy.  mv.reg lists the  *)
(* music videos of songs.                                                  *)
(*                                                                         *)
(* The instance NT is gnos.ntoken with the actions of its users, and with  *)
(* setcreator and setipowner.  The inline actions create, issue and        *)
(* transfer of a payment run in the payment's own transaction: one step.   *)
(*                                                                         *)
(* External: cisum.token, as the balance takings of song.reg; the CISUM    *)
(* song.reg does not hold is in the hands of users, who may spend it.      *)
(*                                                                         *)
(* An operator named X_y, defined before X, is X with the plausible        *)
(* mistake y: a mutant, which some property of the module must refute.     *)
(***************************************************************************)
EXTENDS Integers, Sequences, FiniteSets, Totals

CONSTANTS
  Users,        \* the accounts of people
  SongRegistry, \* the account song.reg
  NoName,
  Nids, Urls, Hashes,
  UnitsPerIssue,  \* the values of nfts_per_issue that setglobal is given
  NftPrices,      \* the values of nft_price that setglobal is given
  Admitted,       \* the accounts that setcreator is given
  MaxUnits,       \* nasset::max_amount
  MaxInt,         \* the largest int64_t
  CisumSupply,    \* units of CISUM in existence
  MaxMvs          \* bound on the number of music videos

Accounts == Users \cup {SongRegistry}
Unset == [nfts_per_issue |-> 0, nft_price |-> 0]   \* no row in the global table

ASSUME SongRegAssumption ==
  /\ IsFiniteSet(Users)
  /\ SongRegistry \notin Users
  /\ NoName \notin Accounts
  /\ Nids \subseteq Nat
  /\ Admitted \subseteq Accounts
  /\ MaxUnits \in Nat \ {0}
  /\ UnitsPerIssue \subseteq 1 .. MaxUnits
  /\ MaxInt \in Nat \ {0}
  /\ NftPrices \subseteq 1 .. MaxInt
  /\ CisumSupply \in Nat
  /\ MaxMvs \in Nat

VARIABLES
  tokenstats, accounts, creators, whitelist,  \* gnos.ntoken
  songs,    \* song.reg: the registered songs, by nid
  global,   \* song.reg: the settings, or Unset
  takings,  \* balance of song.reg in CISUM (external)
  mvs       \* mv.reg: the music videos, by id

ntvars == <<tokenstats, accounts, creators, whitelist>>
songvars == <<songs, global, takings>>
vars == <<tokenstats, accounts, creators, whitelist, songs, global, takings, mvs>>

NT == INSTANCE NToken WITH
        Names <- Accounts \cup {NoName}, AdminNames <- Admitted, Uris <- Urls,
        Uint32Max <- 0, MaxAmount <- MaxUnits, notaries <- {}

Song == [creator : Users, token_url : Urls]
Global == [nfts_per_issue : UnitsPerIssue, nft_price : NftPrices]
Mv == [song_id : Nids, creator : Users, mv_hash : Hashes]

TypeOK ==
  /\ NT!TypeOK
  /\ DOMAIN songs \subseteq Nids \ {0}
  /\ songs \in [DOMAIN songs -> Song]
  /\ global \in Global \cup {Unset}
  /\ takings \in 0 .. CisumSupply
  /\ mvs \in Seq(Mv) /\ Len(mvs) <= MaxMvs

(* As deployed: song.reg is the creator on the list, and is on the         *)
(* whitelist unless transfers are unrestricted.                            *)
Init ==
  /\ tokenstats = << >>
  /\ accounts = [a \in Accounts |-> [nid \in Nids |-> 0]]
  /\ creators = {SongRegistry}
  /\ whitelist \in {{}, {SongRegistry}}
  /\ songs = << >>
  /\ global = Unset
  /\ takings = 0
  /\ mvs = << >>

-----------------------------------------------------------------------------
(* song.reg                                                                *)

IsFreeForSong_zero(nid) == nid \notin NT!Created /\ nid \notin DOMAIN songs

IsFreeForSong(nid) == nid # 0 /\ nid \notin NT!Created /\ nid \notin DOMAIN songs

(* The URL is not checked to be unused.                                    *)
Regsong(creator, nid, token_url) ==
  /\ IsFreeForSong(nid)
  /\ songs' = [n \in DOMAIN songs \cup {nid} |->
       IF n = nid THEN [creator |-> creator, token_url |-> token_url] ELSE songs[n]]
  /\ UNCHANGED <<ntvars, global, takings, mvs>>

Setglobal(nfts_per_issue, nft_price) ==
  /\ global' = [nfts_per_issue |-> nfts_per_issue, nft_price |-> nft_price]
  /\ UNCHANGED <<ntvars, songs, takings, mvs>>

(* What the parsers of a memo let through: a positive count, and a nid     *)
(* other than 0.                                                           *)
Counts == 1 .. MaxUnits
MemoNids == Nids \ {0}

(* expected_payment_amount: a product of two int64_t, after a check that   *)
(* it is one.                                                              *)
Fits_unchecked(price, count) == TRUE

Fits(price, count) == price <= MaxInt \div count

Int64(n) == ((n + MaxInt + 1) % (2 * (MaxInt + 1))) - (MaxInt + 1)

PaymentAmount(price, count) == Int64(price * count)

(* A positive payment of what count units cost, to song.reg.               *)
Pay(count) ==
  LET amount == PaymentAmount(global.nft_price, count)
  IN  /\ global # Unset
      /\ Fits(global.nft_price, count)
      /\ amount > 0
      /\ takings + amount <= CisumSupply
      /\ takings' = takings + amount

(* What create_song_nft checks and the inline actions it sends check.  The *)
(* units are moved right after they were issued, so that song.reg has them.*)
CanCreateSong(nid, issue_count) ==
  /\ nid \in DOMAIN songs
  /\ issue_count <= global.nfts_per_issue
  /\ NT!CanCreate(SongRegistry, global.nfts_per_issue, nid,
                  songs[nid].token_url, songs[nid].creator)
  /\ NT!WhitelistAllows(SongRegistry, songs[nid].creator)

(* How much is issued to start with.                                       *)
InitialIssue_paid_units(issue_count) == issue_count

InitialIssue(issue_count) == global.nfts_per_issue

(* Memo "SONGCREATE:<issue_count>:<nid>", from anyone.                     *)
SongCreate(nid, issue_count) ==
  /\ Pay(issue_count)
  /\ CanCreateSong(nid, issue_count)
  /\ tokenstats' = NT!WithToken(nid,
       NT!NewStat(SongRegistry, InitialIssue(issue_count), global.nfts_per_issue,
                  songs[nid].token_url, songs[nid].creator))
  /\ accounts' = [accounts EXCEPT
       ![SongRegistry][nid]       = InitialIssue(issue_count) - issue_count,
       ![songs[nid].creator][nid] = issue_count]
  /\ UNCHANGED <<creators, whitelist, songs, global, mvs>>

(* Memo "SONGBUY:<buy_count>:<nid>".  Whether the nid is a song, and who   *)
(* issued it, is not checked: song.reg sells whatever it holds.            *)
SongBuy(buyer, nid, buy_count) ==
  /\ Pay(buy_count)
  /\ NT!Transfer(SongRegistry, buyer, [n \in {nid} |-> buy_count])
  /\ UNCHANGED <<songs, global, mvs>>

-----------------------------------------------------------------------------
(* mv.reg                                                                  *)

MayReferTo_any_issuer(creator, song_id) ==
  song_id \in NT!Created /\ tokenstats[song_id].ipowner = creator

MayReferTo(creator, song_id) ==
  /\ song_id \in NT!Created
  /\ tokenstats[song_id].issuer = SongRegistry
  /\ tokenstats[song_id].ipowner = creator

Createmv(creator, song_id, mv_hash) ==
  /\ MayReferTo(creator, song_id)
  /\ \A i \in DOMAIN mvs : mvs[i].mv_hash # mv_hash
  /\ Len(mvs) < MaxMvs
  /\ mvs' = Append(mvs, [song_id |-> song_id, creator |-> creator, mv_hash |-> mv_hash])
  /\ UNCHANGED <<ntvars, songvars>>

-----------------------------------------------------------------------------
(* gnos.ntoken: people create, issue, retire and transfer tokens, to       *)
(* song.reg as well, which does not hear of it; its own account sets who   *)
(* may create and who owns the IP.                                         *)

NTokenNext ==
  \/ \E a \in Users, max \in 1 .. MaxUnits, nid \in Nids, url \in Urls,
        ipowner \in Users \cup {NoName} : NT!Create(a, max, nid, url, ipowner)
  \/ \E nid \in NT!Created, q \in 1 .. MaxUnits :
       /\ tokenstats[nid].issuer \in Users
       /\ NT!Issue(nid, q) \/ NT!Retire(nid, q)
  \/ \E from \in Users, to \in Accounts, nid \in Nids, q \in 1 .. MaxUnits :
       NT!Transfer(from, to, [n \in {nid} |-> q])
  \/ \E nid \in Nids, a \in Users : NT!Setipowner(nid, a)
  \/ \E a \in Admitted, to_add \in BOOLEAN : NT!Setcreator(a, to_add)

SongNext ==
  \/ \E a \in Users, nid \in Nids, url \in Urls : Regsong(a, nid, url)
  \/ \E n \in UnitsPerIssue, p \in NftPrices : Setglobal(n, p)
  \/ \E nid \in MemoNids, count \in Counts : SongCreate(nid, count)
  \/ \E a \in Users, nid \in MemoNids, count \in Counts : SongBuy(a, nid, count)
  \/ \E a \in Users, nid \in Nids, hash \in Hashes : Createmv(a, nid, hash)

Next == SongNext \/ (NTokenNext /\ UNCHANGED <<songvars, mvs>>)

Spec == Init /\ [][Next]_vars

-----------------------------------------------------------------------------
(* Properties.                                                             *)

(* A token of which song.reg is the issuer is a registered song, and all   *)
(* its units exist: nobody gets song.reg to create anything else, to issue *)
(* more later or to retire its stock.                                      *)
SongsAreWhole ==
  \A nid \in NT!Created : tokenstats[nid].issuer = SongRegistry =>
    /\ nid \in DOMAIN songs
    /\ tokenstats[nid].supply = tokenstats[nid].max_supply

(* Units of nid outside song.reg.                                          *)
Outside(nid) ==
  IF nid \in NT!Created THEN tokenstats[nid].supply - accounts[SongRegistry][nid] ELSE 0

(* The units that a step brings out of song.reg: sold from its stock, or   *)
(* handed over when the NFT was created.                                   *)
Sold(nid) ==
  nid \in NT!Created' /\ Outside(nid)' > Outside(nid)
    /\ (tokenstats'[nid].issuer = SongRegistry
        \/ accounts'[SongRegistry][nid] < accounts[SongRegistry][nid])

(* Units leave song.reg only in the step that pays the price in force for  *)
(* each of them, and no payment is taken without units for it, however     *)
(* creations, purchases, price changes and returned units interleave.      *)
SalesArePaid ==
  [][/\ \A nid \in Nids : Sold(nid) =>
          takings' - takings = global.nft_price * (Outside(nid)' - Outside(nid))
     /\ takings' # takings => \E nid \in Nids : Sold(nid)]_vars

(* Every music video belongs to a song that was registered and created by  *)
(* way of song.reg, for ever.                                              *)
MvsAreOfSongs ==
  \A i \in DOMAIN mvs :
    /\ mvs[i].song_id \in DOMAIN songs
    /\ mvs[i].song_id \in NT!Created
    /\ tokenstats[mvs[i].song_id].issuer = SongRegistry

(* Registration comes before the creation of the NFT: a registered song of *)
(* which the NFT does not exist yet can be created with a payment.         *)
RegisteredIsCreatable ==
  \A nid \in DOMAIN songs \ NT!Created :
    global # Unset => CanCreateSong(nid, 1)

=============================================================================

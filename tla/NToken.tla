------------------------------- MODULE NToken -------------------------------
(***************************************************************************)
(* The contract gnos.ntoken: multi-unit NFTs with a capped supply, owner   *)
(* scoped balances, and three access lists.  A failed check() aborts the   *)
(* whole transaction, so that an action of the contract is one step and    *)
(* its checks are the guard of that step.                                  *)
(*                                                                         *)
(* A vector of nassets is the function from the nids it names to the       *)
(* amounts they add up to; an absent balance row is a balance of zero (the *)
(* contract never erases a row, and never sets a row's paused flag).       *)
(*                                                                         *)
(* An operator named X_y, defined before X, is X with the plausible        *)
(* mistake y: a mutant, which some property of the module must refute.     *)
(***************************************************************************)
EXTENDS Integers, FiniteSets, Totals

CONSTANTS
  Accounts,    \* the accounts of the chain
  Names,       \* every name an argument may hold, accounts or not
  NoName,      \* the empty name
  AdminNames,  \* the names the contract's own account puts in its settings
  Nids,        \* symbol ids, 0 included or not
  Uris,        \* token URIs
  Uint32Max,   \* the largest token id notarize can be given
  MaxAmount    \* nasset::max_amount

ASSUME NTokenAssumption ==
  /\ IsFiniteSet(Accounts)
  /\ Accounts \subseteq Names
  /\ NoName \in Names \ Accounts
  /\ AdminNames \subseteq Names
  /\ Nids \subseteq Nat
  /\ Uint32Max \in Nat
  /\ MaxAmount \in Nat \ {0}

VARIABLES
  tokenstats,  \* the created nids and their rows
  accounts,    \* accounts[a][nid]: the balance of account a
  creators, notaries, whitelist  \* the sets of the global singleton

vars == <<tokenstats, accounts, creators, notaries, whitelist>>
roles == <<creators, notaries, whitelist>>

Stat == [supply : 0 .. MaxAmount, max_supply : 1 .. MaxAmount,
         token_uri : Uris, ipowner : Names, notary : Names, issuer : Accounts]

Created == DOMAIN tokenstats

TypeOK ==
  /\ Created \subseteq Nids \ {0}
  /\ tokenstats \in [Created -> Stat]
  /\ accounts \in [Accounts -> [Nids -> 0 .. MaxAmount]]
  /\ creators \subseteq Names
  /\ notaries \subseteq Names
  /\ whitelist \subseteq Names

Init ==
  /\ tokenstats = << >>
  /\ accounts = [a \in Accounts |-> [nid \in Nids |-> 0]]
  /\ creators = {}
  /\ notaries = {}
  /\ whitelist = {}

-----------------------------------------------------------------------------
(* Balances and access checks.                                             *)

(* How much of nid a vector of assets moves.                               *)
Quantity(assets, nid) == IF nid \in DOMAIN assets THEN assets[nid] ELSE 0

CanSub_off_by_one(owner, nid, amount) == accounts[owner][nid] + 1 >= amount

CanSub(owner, nid, amount) == accounts[owner][nid] >= amount

CanAdd(owner, nid, amount) == accounts[owner][nid] + amount <= MaxAmount

IdIsFree_zero(nid) == nid \notin Created

IdIsFree_again(nid) == nid # 0

IdIsFree(nid) == nid \notin Created /\ nid # 0

CreatorAuthorised(a) == creators = {} \/ a \in creators

WhitelistAllows_not_asked(from, to) == TRUE

WhitelistAllows(from, to) ==
  whitelist # {} => from \in whitelist \/ to \in whitelist

CanTransfer(from, to, assets) ==
  /\ from # to
  /\ WhitelistAllows(from, to)
  /\ \A nid \in DOMAIN assets :
       /\ nid \in Created
       /\ assets[nid] > 0
       /\ CanSub(from, nid, assets[nid])
       /\ CanAdd(to, nid, assets[nid])

Moved(from, to, assets) ==
  [accounts EXCEPT
     ![from] = [nid \in Nids |-> @[nid] - Quantity(assets, nid)],
     ![to]   = [nid \in Nids |-> @[nid] + Quantity(assets, nid)]]

-----------------------------------------------------------------------------
(* Actions of token users.                                                 *)

CanCreate(issuer, maximum_supply, nid, token_uri, ipowner) ==
  /\ ipowner \in Accounts \cup {NoName}
  /\ maximum_supply \in 1 .. MaxAmount
  /\ CreatorAuthorised(issuer)
  /\ \A other \in Created : tokenstats[other].token_uri # token_uri
  /\ IdIsFree(nid)

NewStat(issuer, supply, maximum_supply, token_uri, ipowner) ==
  [supply |-> supply, max_supply |-> maximum_supply, token_uri |-> token_uri,
   ipowner |-> ipowner, notary |-> NoName, issuer |-> issuer]

WithToken(nid, stat) ==
  [n \in Created \cup {nid} |-> IF n = nid THEN stat ELSE tokenstats[n]]

Create(issuer, maximum_supply, nid, token_uri, ipowner) ==
  /\ CanCreate(issuer, maximum_supply, nid, token_uri, ipowner)
  /\ tokenstats' =
       WithToken(nid, NewStat(issuer, 0, maximum_supply, token_uri, ipowner))
  /\ UNCHANGED <<accounts, roles>>

(* Units are issued to the issuer only, who authorises it.                 *)
Issue(nid, amount) ==
  /\ nid \in Created
  /\ amount > 0
  /\ amount <= tokenstats[nid].max_supply - tokenstats[nid].supply
  /\ CanAdd(tokenstats[nid].issuer, nid, amount)
  /\ tokenstats' = [tokenstats EXCEPT ![nid].supply = @ + amount]
  /\ accounts' = [accounts EXCEPT ![tokenstats[nid].issuer][nid] = @ + amount]
  /\ UNCHANGED roles

(* The issuer retires units of its own balance.                            *)
Retire(nid, amount) ==
  /\ nid \in Created
  /\ amount > 0
  /\ CanSub(tokenstats[nid].issuer, nid, amount)
  /\ tokenstats' = [tokenstats EXCEPT ![nid].supply = @ - amount]
  /\ accounts' = [accounts EXCEPT ![tokenstats[nid].issuer][nid] = @ - amount]
  /\ UNCHANGED roles

Transfer(from, to, assets) ==
  /\ CanTransfer(from, to, assets)
  /\ accounts' = Moved(from, to, assets)
  /\ UNCHANGED <<tokenstats, roles>>

(* A notary stamps a token.  The id argument is a uint32_t although nids   *)
(* are uint64_t: a nid above Uint32Max cannot be passed.                   *)
Notarize(notary, token_id) ==
  /\ token_id <= Uint32Max
  /\ notary \in notaries
  /\ token_id \in Created
  /\ tokenstats' = [tokenstats EXCEPT ![token_id].notary = notary]
  /\ UNCHANGED <<accounts, roles>>

-----------------------------------------------------------------------------
(* Actions that need the contract's own authority.                         *)

(* The new owner is not checked to be an account.                          *)
Setipowner(nid, ip_owner) ==
  /\ nid \in Created
  /\ tokenstats' = [tokenstats EXCEPT ![nid].ipowner = ip_owner]
  /\ UNCHANGED <<accounts, roles>>

(* The new URI is not checked to be unused.                                *)
Settokenuri(nid, url) ==
  /\ nid \in Created
  /\ tokenstats' = [tokenstats EXCEPT ![nid].token_uri = url]
  /\ UNCHANGED <<accounts, roles>>

Setnotary(notary, to_add) ==
  /\ notaries' = IF to_add THEN notaries \cup {notary} ELSE notaries \ {notary}
  /\ UNCHANGED <<tokenstats, accounts, creators, whitelist>>

Addwhitelist(acct) ==
  /\ acct \in Accounts
  /\ acct \notin whitelist
  /\ whitelist' = whitelist \cup {acct}
  /\ UNCHANGED <<tokenstats, accounts, creators, notaries>>

Delwhitelist(acct) ==
  /\ acct \in whitelist
  /\ whitelist' = whitelist \ {acct}
  /\ UNCHANGED <<tokenstats, accounts, creators, notaries>>

Setcreator(creator, to_add) ==
  /\ creator \in Accounts
  /\ ~to_add => creator \in creators
  /\ creators' = IF to_add THEN creators \cup {creator} ELSE creators \ {creator}
  /\ UNCHANGED <<tokenstats, accounts, notaries, whitelist>>

-----------------------------------------------------------------------------
AssetVectors == UNION { [D -> 1 .. MaxAmount] : D \in SUBSET Nids }

UserNext ==
  \/ \E issuer \in Accounts, max \in 1 .. MaxAmount, nid \in Nids,
        uri \in Uris, ipowner \in Names : Create(issuer, max, nid, uri, ipowner)
  \/ \E nid \in Nids, amount \in 1 .. MaxAmount : Issue(nid, amount)
  \/ \E nid \in Nids, amount \in 1 .. MaxAmount : Retire(nid, amount)
  \/ \E from, to \in Accounts, assets \in AssetVectors : Transfer(from, to, assets)
  \/ \E notary \in Accounts, nid \in Nids : Notarize(notary, nid)

AdminNext ==
  \/ \E nid \in Nids, name \in AdminNames : Setipowner(nid, name)
  \/ \E nid \in Nids, uri \in Uris : Settokenuri(nid, uri)
  \/ \E name \in AdminNames, to_add \in BOOLEAN : Setnotary(name, to_add)
  \/ \E name \in AdminNames : Addwhitelist(name)
  \/ \E name \in AdminNames : Delwhitelist(name)
  \/ \E name \in AdminNames, to_add \in BOOLEAN : Setcreator(name, to_add)

Next == UserNext \/ AdminNext

Spec == Init /\ [][Next]_vars

-----------------------------------------------------------------------------
(* Properties.                                                             *)

HoldingsOf(nid) == [a \in Accounts |-> accounts[a][nid]]

(* Units are conserved: what all the accounts hold of a created token is   *)
(* exactly its recorded supply and within its cap, whatever sequence of    *)
(* issues, multi-asset transfers and retirements led there; nobody holds a *)
(* token that was never created.                                           *)
SupplyConserved ==
  \A nid \in Nids :
    IF nid \in Created
    THEN /\ Total(HoldingsOf(nid)) = tokenstats[nid].supply
         /\ tokenstats[nid].supply <= tokenstats[nid].max_supply
    ELSE Total(HoldingsOf(nid)) = 0

(* Every account whose balances this step changes, but for at most one, is *)
(* on the whitelist.                                                       *)
AtMostOneOutsider ==
  \A a, b \in Accounts \ whitelist :
    accounts'[a] # accounts[a] /\ accounts'[b] # accounts[b] => a = b

(* While the transfer whitelist is in force no step moves units between    *)
(* two accounts that are both outside it.                                  *)
WhitelistSeparatesOutsiders == [][whitelist # {} => AtMostOneOutsider]_vars

TermsKept ==
  \A nid \in Created :
    /\ nid \in Created'
    /\ tokenstats'[nid].max_supply = tokenstats[nid].max_supply
    /\ tokenstats'[nid].issuer = tokenstats[nid].issuer

(* The terms a token was created under hold for ever: nobody can recreate  *)
(* a nid, raise its cap or take over its issuing right.                    *)
TermsAreFixed == [][TermsKept]_vars

(* Creation is creator-whitelisted: an account that setcreator takes off   *)
(* the list may not create tokens.  Emptying the list breaks it.           *)
RevocationTakesEffect ==
  [][\A a \in creators \ creators' : ~ CreatorAuthorised(a)']_vars

=============================================================================

------------------------------ MODULE GnosVault ------------------------------
(***************************************************************************)
(* The contract gnos.vault: it takes deposits of CISUM, of which it keeps  *)
(* no books, and an admin may pause it.                                    *)
(*                                                                         *)
(* External: cisum.token, as the balance deposits of gnos.vault.           *)
(***************************************************************************)
EXTENDS Integers

CONSTANTS
  Accounts,   \* the accounts of the chain
  Vault,      \* the account gnos.vault
  NoName      \* the admin before one is set

VARIABLES admin, paused, deposits

TypeOK ==
  /\ admin \in Accounts \cup {NoName}
  /\ paused \in BOOLEAN
  /\ deposits \in Nat

Init ==
  /\ admin = NoName
  /\ paused = FALSE
  /\ deposits = 0

(* init may be called again, and ends a pause.                             *)
InitVault(a) ==
  /\ admin' = a
  /\ paused' = FALSE
  /\ UNCHANGED deposits

Setadmin(a) ==
  /\ admin' = a
  /\ UNCHANGED <<paused, deposits>>

(* Until there is an admin, not even the contract itself can pause.        *)
RequireAdmin(caller) == admin # NoName /\ caller \in {Vault, admin}

Setpause(caller, state) ==
  /\ RequireAdmin(caller)
  /\ paused' = state
  /\ UNCHANGED <<admin, deposits>>

(* A transfer of CISUM with memo "buytoken:<thread>".                      *)
Deposit(quantity) ==
  /\ ~paused
  /\ deposits' = deposits + quantity
  /\ UNCHANGED <<admin, paused>>

=============================================================================

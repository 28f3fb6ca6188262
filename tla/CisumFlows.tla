----------------------------- MODULE CisumFlows -----------------------------
(***************************************************************************)
(* The contracts that cisum.token notifies of a payment to them, song.reg  *)
(* and gnos.vault, and with song.reg those it works on.  Both are paid     *)
(* from the CISUM that is in the hands of users.  A payment with a memo    *)
(* that its receiver does not know fails, so that none can reach the wrong *)
(* one.                                                                    *)
(***************************************************************************)
EXTENDS SongReg

CONSTANTS
  Vault,    \* the account gnos.vault
  Admins    \* the accounts made admin of it

ASSUME CisumFlowsAssumption ==
  {Vault, NoName} \cap Admins = {} /\ Vault \notin Accounts \cup {NoName}

VARIABLES admin, paused, deposits   \* gnos.vault

vaultvars == <<admin, paused, deposits>>

GV == INSTANCE GnosVault WITH Accounts <- Admins \cup {Vault}

allvars == <<vars, vaultvars>>

FlowsTypeOK == TypeOK /\ GV!TypeOK

FlowsInit == Init /\ GV!Init

VaultNext ==
  \/ \E a \in Admins : GV!InitVault(a)
  \/ \E a \in Admins : GV!Setadmin(a)
  \/ \E caller \in Admins \cup {Vault}, state \in BOOLEAN : GV!Setpause(caller, state)
  \/ \E q \in 1 .. CisumSupply : GV!Deposit(q)

(* What users have paid is no more than there is.                          *)
InCirculation == takings' + deposits' <= CisumSupply

FlowsNext ==
  /\ \/ Next /\ UNCHANGED vaultvars
     \/ VaultNext /\ UNCHANGED vars
  /\ InCirculation

FlowsSpec == FlowsInit /\ [][FlowsNext]_allvars

=============================================================================

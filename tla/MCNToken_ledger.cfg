\* Two tokens, one of which notarize cannot name, and three accounts, one of which the
\* contract's account puts on its lists.
CONSTANTS
  Accounts = {alice, bob, carol}
  Names = {alice, bob, carol, none}
  NoName = none
  AdminNames = {alice}
  Nids = {0, 1, 5}
  Uris = {u1, u2}
  Uint32Max = 4
  MaxAmount = 2
SPECIFICATION Spec
SYMMETRY Symmetry
INVARIANTS TypeOK SupplyConserved
PROPERTIES TermsAreFixed WhitelistSeparatesOutsiders

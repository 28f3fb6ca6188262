\* Two accounts, one of which is made and unmade a creator.
CONSTANTS
  Accounts = {alice, bob}
  Names = {alice, bob, none}
  NoName = none
  AdminNames = {bob}
  Nids = {1, 2}
  Uris = {u1, u2}
  Uint32Max = 4
  MaxAmount = 1
SPECIFICATION Spec
PROPERTIES RevocationTakesEffect

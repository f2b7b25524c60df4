CONSTANTS
  bob = bob  Bob = Bob  ann = ann
  Tools = {t1, t2}
  Names = {bob, Bob, ann}
  Accounts = {bob, ann}
  Revisions = {0, 1}
  MaxUsers = 2
  MaxCycles = 5
  Fold <- MCFold
  Original <- MCOriginal
SPECIFICATION Spec
\* The operators come to an end.
CHECK_DEADLOCK FALSE
SYMMETRY Symmetry
INVARIANTS
  NamesUnique
  RevokedNotServed
PROPERTY
  SaveTouchesOnlyChosen

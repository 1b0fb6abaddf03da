SPECIFICATION Spec
CONSTANTS
  k1 = k1
  k2 = k2
  a1 = a1
  a2 = a2
  a3 = a3
  c1 = c1
  c2 = c2
  s1 = s1
  s2 = s2
  x = x
  Syncs = {s1, s2}
  Keys <- MCKeys
  Derivations <- MCDerivations
  Coins = {c1, c2}
  TxOf <- MCTxOf
  PaysTo <- MCPaysTo
  ChangeAddress = a3
  MaxChanges = 2
  None = None
SYMMETRY MCSymmetry
INVARIANT RowsSound
PROPERTY AloneIsFaithful
CHECK_DEADLOCK FALSE

SPECIFICATION Spec
CONSTANTS
  w1 = w1
  w2 = w2
  c1 = c1
  c2 = c2
  p1 = p1
  s1 = s1
  s2 = s2
  t1 = t1
  t2 = t2
  Wallets = {w1, w2}
  Coins = {c1, c2}
  Owner <- MCOwner
  Enrols <- MCEnrols
  MultisigWallets = {w2}
  PlanIds = {p1}
  Secrets = {s1, s2}
  Tasks = {t1, t2}
  TX_PLAN_TTL = 1
  PLAN_STORE_TTL = 2
  MaxTime = 2
  None = None
SYMMETRY TaskSymmetry
INVARIANTS
  TypeOK
  
  SignedAtMostOnce
PROPERTIES
  SpendsOwnCoins
  NeverSignedWhenLate
  GatedByOwnTotp
  
  PurgedOnlyExpired
CHECK_DEADLOCK FALSE

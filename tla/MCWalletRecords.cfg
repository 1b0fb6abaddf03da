SPECIFICATION Spec
CONSTANTS
  t1 = t1
  t2 = t2
  Tasks = {t1, t2}
  None = None
  s1 = s1
  s2 = s2
  Secrets = {s1, s2}
  MaxLists = 2
  NumCodes = 2
  MaxAccounts = 2
  MaxKeys = 4
  l1 = l1
  l2 = l2
  Labels = {l1, l2}
  MaxIds = 2
  MaxMade = 4
  Hashes = {"a", "b", "c"}
  Sizes = {1, 2, 4}
  Limits = {0, 3, 5}
  FlagSets <- SomeFlags
  Cosigners = {"x", "y", "z"}
  required_sigs = 2
  MaxCalls = 4
  Devices = {"d", "e"}
  Labelled = {"i", "j"}
  Texts = {"t"}
  Passphrases = {"p", "q"}
  MaxPushes = 2
  Payloads = {"m", "n"}
  MaxMessages = 4
SYMMETRY MCSymmetry
INVARIANTS
  OnlyByCode
  
  ContactsApart
  CacheKeeps
  SharedAsSent
PROPERTIES
  FactorStands
  CacheForgets
  KeptByTheInformed
CHECK_DEADLOCK FALSE

SPECIFICATION Spec
CONSTANTS
  Coins <- TwoKeys
  MaxCoins = 3
  Payments <- SomePayments
  Rates = {1, 2}
  Strategies <- EveryStrategy
  Word = 100000
  Keys = {"a", "b"}
  MaxKeys = 3
  Numbers <- Boundaries
  Vetted = {TRUE, FALSE}
  GAP_LIMIT = 2
  MAX_SCAN_ADDRESSES = 4
  Amounts = {150, 250, 900}
  MaxSwept = 2
  MaxUser = 1
  Blocks <- SomeBlocks
  Other = "x"
  MaxBranch = 2
  Calls = {"c1", "c2"}
  Byte = 3
  Width = 5
  MaxExponent = 6
  Data <- SomeData
  MaxPieces = 4
  TXID_LENGTH = 2
  Providers <- SixProviders
  Tickers = {"bitfinex", "coinpaprika", "coincap"}
  Currencies = {"USD", "EUR"}
  Dollar = "USD"
  FeeUnits <- SomeUnits
  TxSizes = {1, 226, 10000}
  Handles <- SomeHandles
INVARIANTS
  
  LargestIsBest
  MultisigSound
  SweepSound
  
  
  QuotesSound
PROPERTY FeeOnlyRises
\* Every part ends.
CHECK_DEADLOCK FALSE

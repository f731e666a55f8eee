SPECIFICATION FairSpec
CONSTANTS
  Unit = 1
  FeeNum = 2
  TaxNum = 1
  RateDen = 20
  LotSize = 1
  Jobs = {j1}
  Apis = {a1}
  Boots = {b1}
  Codes = {c1, c2}
  Prices <- MCPrices
  Sizings <- OneSizing
  Imports <- MCImports
  OpeningCash = 30
  ConfigMax = 2
  SettingsMax = 1
  WriteLock = TRUE
  NoQuote = NoQuote
  NoRow = NoRow
  Keep = Keep
INVARIANT LedgerBalanced
INVARIANT ValueConserved
INVARIANT EquityConsistent
INVARIANT NoOverdraft
INVARIANT RunsTellTheTruth
PROPERTY NoDoubleBuy
PROPERTY OpensWithinLimit
PROPERTY SaleCloses
PROPERTY LedgerSpec
PROPERTY SessionsEnd
CHECK_DEADLOCK FALSE

SPECIFICATION Spec
CONSTANTS
  Unit = 1
  FeeNum = 2
  TaxNum = 1
  RateDen = 20
  LotSize = 1
  Jobs = {j1, j2}
  Apis = {}
  Boots = {}
  Codes = {c1, c2}
  Prices <- MCPrices
  Sizings <- MCSizings
  Imports <- MCImports
  OpeningCash = 30
  ConfigMax = 1
  SettingsMax = 1
  WriteLock = FALSE
  NoQuote = NoQuote
  NoRow = NoRow
  Keep = Keep
SYMMETRY CodeSymmetry
INVARIANT AtMostConfigured
CHECK_DEADLOCK FALSE

CONSTANTS
  Unit = 1
  FeeNum = 1
  TaxNum = 1
  RateDen = 20
  LotSize = 1
  Codes = {1, 2}
  LastDate = 4
  StartDate = 2
  MinHistory = 2
  Markets <- MCMarkets
  NoBar = none
  Sizings <- MCSizings
  Limits = {1, 2}
  InitialCash = 40
SPECIFICATION Spec
CHECK_DEADLOCK FALSE
INVARIANTS TypeOK CashNeverNegative WithinLimit EquityExplained NoLookAhead SalesHonoured
PROPERTY MovesByTrades

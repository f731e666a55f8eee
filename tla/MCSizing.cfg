SPECIFICATION Spec
CONSTANTS
  Unit = 10
  FeeNum = 1
  TaxNum = 1
  RateDen = 20
  LotSize = 1000
  CashValues <- MCCash
  PriceValues <- MCPrices
  PctValues <- MCPcts
INVARIANT LargestAffordable
INVARIANT RaisesOnlyWhenNothingFits
PROPERTY Terminates
CHECK_DEADLOCK FALSE

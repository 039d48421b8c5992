CONSTANTS
  Symbol = {x}
  MinPrice = 1
  MaxPrice = 4
  MaxSize = 2
  MaxOrder = 3
  SeedPrice = {1, 2, 3}
  End = End
  NoOrder = NoOrder
SPECIFICATION FairSpec
INVARIANT TypeOK
INVARIANT Uncrossed
INVARIANT BestFirst
INVARIANT FillsWithinOrder
PROPERTY MatchEnds
PROPERTY ImplementsMarketBook

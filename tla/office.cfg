CONSTANTS
  Orders = {o1, o2}
  Releasers = {w1, w2}
  MaxRedemptions = 1
  CardCents = 3
  Worth = {2}
  Sales = {s1, s2}
  NoSale = NoSale
  TapAllow = {"outage", "crossed", "retry", "lapse"}
  Categories = {"adult", "child", "chair"}
  ListPrice <- MCListPrice
  TaxRate <- MCTaxRate
  Campaigns <- MCCampaigns
  Codes <- MCCodes
  Concession <- MCConcession
  FeePlans <- MCFeePlans
  Cards = {0, 50}
  MaxLines = 4
  MaxQuantity = 4
  Segments = {"left", "right"}
  RowOf <- MCRowOf
  FirstIndex <- MCFirstIndex
  SeatCount <- MCSeatCount
  MaxAsked = 4
  RelaxFrom = 70
SPECIFICATION MCSpec
INVARIANTS
  PromotionsAddUp ReducedIsRedeemed
  GuestPaysOnce CancelledIsUnpaid
  BillAddsUp OneReduction
  BestFound NeighboursFound
SYMMETRY Symmetric
CHECK_DEADLOCK FALSE

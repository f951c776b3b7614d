\* One checkout at two shops with two proposals, and its refunds and payouts
\* together with those of an earlier order.
SPECIFICATION MCSpec
SYMMETRY Ids
CONSTANTS
  l1 = l1
  l2 = l2
  l3 = l3
  c1 = c1
  sa = sa
  sb = sb
  DeliveryFee = 1
  ServiceFee = 1
  SmallFee = 1
  NoRevision = NoRevision
  Orders = {1, 2}
  Listings = {l1, l2, l3}
  SoldBy <- TwoShopsSoldBy
  Bought <- TwoShopsBought
  RateAtCheckout <- TwoShopsRate
  Rates <- BothRates
  Prices = {1}
  Threshold = 4
  MaxStock = 1
  Requests = {q1, q2}
  MaxChanges = 1
  ShopOrders = {1, 2, 3}
  Earlier = {3}
  Combined = {c1}
  AnchorOf <- CombinedAnchor
  Shops = {1, 2}
  ShopOf <- TwoShops
  Admins = {ad}
  Periods = {{1, 2, 3}}
  Refunds = {ra, rb}
  Amounts = {2, 5}
  Settlements = {sa, sb}
  NoSettlement = NoSettlement
  MaxWallet = 6
INVARIANTS OwesWhatWasAgreed PaysForWhatCame ShelfAddsUp NeverOverRefunded ApprovedStaysPayable BooksAgree PayoutExact
CHECK_DEADLOCK FALSE

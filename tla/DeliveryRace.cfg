\* Two worker slots race for the two files of one wallet order.
SPECIFICATION DeliverySpec
CONSTANTS
  None = None
  o1 = o1
  o2 = o2
  w1 = w1
  w2 = w2
  tele = tele
  Order = {o1}
  Buyer = {tele}
  WebBuyer = {}
  NumUnits = 2
  Price = 1
  MaxQuantity = 2
  MaxCode = 1
  Method = {"WALLET"}
  PreorderEnabled = FALSE
  PreorderLimit = 0
  TelegramInvoiceLimit = 5
  WebInvoiceLimit = 1
  OpeningBalance = 2
  CheckResult = {}
  Worker = {w1, w2}
  MaxAttempts = 2
  Outcome = {"ACCEPTED", "AMBIGUOUS", "TRANSIENT", "REJECTED"}
SYMMETRY SlotSymmetry
CONSTRAINT QuietInventory
VIEW ReadView
INVARIANTS
  DeliveryTypeOK
  DeliveredOnce
  SentIsTrue
CHECK_DEADLOCK FALSE

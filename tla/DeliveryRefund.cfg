\* Two worker slots that crash and refund, two orders and two files.
SPECIFICATION DeliverySpec
CONSTANTS
  None = None
  o1 = o1
  o2 = o2
  w1 = w1
  w2 = w2
  tele = tele
  Order = {o1, o2}
  Buyer = {tele}
  WebBuyer = {}
  NumUnits = 2
  Price = 1
  MaxQuantity = 1
  MaxCode = 1
  Method = {"WALLET"}
  PreorderEnabled = TRUE
  PreorderLimit = 1
  TelegramInvoiceLimit = 5
  WebInvoiceLimit = 1
  OpeningBalance = 2
  CheckResult = {}
  Worker = {w1, w2}
  MaxAttempts = 1
  Outcome = {"ACCEPTED", "AMBIGUOUS", "TRANSIENT", "REJECTED", "RECIPIENT_GONE"}
SYMMETRY SlotAndOrderSymmetry
CONSTRAINT QuietInventory
ACTION_CONSTRAINT Orderly
VIEW ReadView
INVARIANTS
  StockOwnership
  MoneyAccounted
  SentUnitsStayTaken
PROPERTIES
  KeepsPromise
CHECK_DEADLOCK FALSE

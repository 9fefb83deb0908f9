\* An accepted file whose answer cannot be read.
SPECIFICATION DeliverySpec
CONSTANTS
  None = None
  o1 = o1
  o2 = o2
  w1 = w1
  w2 = w2
  tele = tele
  Order = {o1}
  Buyer = {tele}
  WebBuyer = {}
  NumUnits = 1
  Price = 1
  MaxQuantity = 1
  MaxCode = 1
  Method = {"WALLET"}
  PreorderEnabled = FALSE
  PreorderLimit = 0
  TelegramInvoiceLimit = 5
  WebInvoiceLimit = 1
  OpeningBalance = 1
  CheckResult = {}
  Worker = {w1}
  MaxAttempts = 1
  Outcome = {"ACCEPTED", "REJECTED"}
SYMMETRY SlotAndOrderSymmetry
CONSTRAINT QuietInventory
INVARIANTS
  NeverDeliveredTwice
CHECK_DEADLOCK FALSE

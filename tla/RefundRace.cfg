\* A slot that outlived its lease reserves a receipt during a refund.
SPECIFICATION DeliverySpec
CONSTANTS
  None = None
  o1 = o1
  o2 = o2
  w1 = w1
  w2 = w2
  tele = tele
  Order = {o1}
  Buyer = {tele}
  WebBuyer = {}
  NumUnits = 2
  Price = 1
  MaxQuantity = 2
  MaxCode = 1
  Method = {"WALLET"}
  PreorderEnabled = TRUE
  PreorderLimit = 2
  TelegramInvoiceLimit = 5
  WebInvoiceLimit = 1
  OpeningBalance = 2
  CheckResult = {}
  Worker = {w1, w2}
  MaxAttempts = 1
  Outcome = {"ACCEPTED", "TRANSIENT", "AMBIGUOUS", "RECIPIENT_GONE"}
SYMMETRY SlotAndOrderSymmetry
CONSTRAINT QuietInventory
PROPERTIES
  RefundsRejectUncertain
CHECK_DEADLOCK FALSE

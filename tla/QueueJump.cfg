\* A preorder waits, a unit is uploaded, somebody else comes first.
SPECIFICATION Spec
CONSTANTS
  None = None
  o1 = o1
  o2 = o2
  o3 = o3
  tele = tele
  web = web
  Order = {o1, o2}
  Buyer = {tele, web}
  WebBuyer = {web}
  NumUnits = 2
  Price = 2
  MaxQuantity = 2
  MaxCode = 1
  Method = {"WALLET", "DANA_RELAY"}
  PreorderEnabled = TRUE
  PreorderLimit = 2
  TelegramInvoiceLimit = 5
  WebInvoiceLimit = 1
  OpeningBalance = 4
  CheckResult = {"HEALTHY", "HTTP_401"}
SYMMETRY OrderSymmetry
PROPERTIES
  NoQueueJump
CHECK_DEADLOCK FALSE

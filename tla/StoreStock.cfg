\* Wallet and transfer orders of a Telegram and a Web buyer for two units,
\* with every inventory operation.
SPECIFICATION Spec
CONSTANTS
  None = None
  o1 = o1
  o2 = o2
  o3 = o3
  tele = tele
  web = web
  Order = {o1, o2}
  Buyer = {tele, web}
  WebBuyer = {web}
  NumUnits = 2
  Price = 2
  MaxQuantity = 2
  MaxCode = 1
  Method = {"WALLET", "DANA_RELAY"}
  PreorderEnabled = TRUE
  PreorderLimit = 2
  TelegramInvoiceLimit = 1
  WebInvoiceLimit = 1
  OpeningBalance = 4
  CheckResult = {"HEALTHY", "HTTP_401"}
SYMMETRY OrderSymmetry
INVARIANTS
  TypeOK
  StockOwnership
  FulfilmentComplete
  PreorderQueueBounded
  InvoicesBounded
CHECK_DEADLOCK FALSE

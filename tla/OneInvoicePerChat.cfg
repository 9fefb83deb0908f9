\* Two orders of one Telegram chat, with the code's limit.
SPECIFICATION Spec
CONSTANTS
  None = None
  o1 = o1
  o2 = o2
  o3 = o3
  tele = tele
  web = web
  Order = {o1, o2}
  Buyer = {tele}
  WebBuyer = {}
  NumUnits = 1
  Price = 2
  MaxQuantity = 1
  MaxCode = 2
  Method = {"DANA_RELAY"}
  PreorderEnabled = FALSE
  PreorderLimit = 0
  TelegramInvoiceLimit = 5
  WebInvoiceLimit = 1
  OpeningBalance = 0
  CheckResult = {}
INVARIANTS
  OneInvoicePerChat
CHECK_DEADLOCK FALSE

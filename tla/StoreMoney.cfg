\* Two mixed, transfer or crypto invoices of a Web buyer with their deadlines,
\* verification and late money, racing for one unit, under the fairness of the
\* workers.
SPECIFICATION FairSpec
CONSTANTS
  None = None
  o1 = o1
  o2 = o2
  o3 = o3
  tele = tele
  web = web
  Order = {o1, o2}
  Buyer = {web}
  WebBuyer = {web}
  NumUnits = 1
  Price = 3
  MaxQuantity = 1
  MaxCode = 2
  Method = {"WALLET_QRIS", "JAGO_TRANSFER", "USDT_BEP20", "BINANCE_INTERNAL", "BINANCE_WEB"}
  PreorderEnabled = TRUE
  PreorderLimit = 1
  TelegramInvoiceLimit = 5
  WebInvoiceLimit = 2
  OpeningBalance = 1
  CheckResult = {}
INVARIANTS
  MoneyAccounted
  BilledAmountsDiffer
  VerifiedStaysPayable
PROPERTIES
  InvoicesSettle
CHECK_DEADLOCK FALSE

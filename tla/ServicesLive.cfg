\* Two transfers behind each other in the phone's queue, two of its requests and
\* no administrator, one number, and two stock files, under fairness.
SPECIFICATION ServicesFairSpec
CONSTANTS
  Nobody = Nobody
  w1 = w1
  w2 = w2
  x1 = x1
  x2 = x2
  p1 = p1
  q1 = q1
  e1 = e1
  a1 = a1
  OrderInvoice = {p1}
  TopupInvoice = {}
  Transfer = {x1, x2}
  Handler = {w1, w2}
  Admin = {}
  BilledAmount = {1}
  Provider = {"QRIS"}
  Life = 1
  Skew = 1
  LastMoment = 2
  PhoneLimit = 2
  Nothing = Nothing
  cron = cron
  Cron = cron
  SmsOrder = {x1}
  Task = {w1, w2, cron}
  Quote = 2
  ActualPrice = {1, 2, 3}
  Balance = 2
  NoUpdate = NoUpdate
  f1 = f1
  f2 = f2
  Update = {x1}
  Runner = {w1}
  File = {f1}
  Earlier = {f1}
  Tries = 2
  NoSuch = NoSuch
  s1 = s1
  WebSession = {s1}
  Poller = {w1}
  Source = {"BINANCE", "SHOPEE"}
  News = 1
  NoCommand = NoCommand
  Tab = {w1}
  Command = {x1}
  Points = 1
  BatchLimit = 1
  None = None
  k12 = k12
  text = text
  StockFile <- TwoFiles
  Content = {k12, text}
  Generic = {}
  Policy = {"BLOCKED"}
  HealthAnswer = {"HEALTHY", "HTTP_OTHER"}
  Checker = {"cron"}
  Restorer = {}
  RunSize = 1
  MaxArchives = 0
  RequireHealthy = TRUE
PROPERTIES
  PaidAsPromised
  QueuedIsDecided
  CodeReachesBuyer
  EveryFileIsChecked
CHECK_DEADLOCK FALSE

\* Two of what may race: requests of the phone, requests for numbers, updates and
\* their handlers, polls, tabs, requests that restore a file; one administrator.
SPECIFICATION ServicesSpec
CONSTANTS
  Nobody = Nobody
  w1 = w1
  w2 = w2
  x1 = x1
  x2 = x2
  p1 = p1
  q1 = q1
  e1 = e1
  a1 = a1
  OrderInvoice = {p1}
  TopupInvoice = {q1}
  Transfer = {e1}
  Handler = {w1, w2}
  Admin = {a1}
  BilledAmount = {1}
  Provider = {"JAGO", "QRIS"}
  Life = 1
  Skew = 1
  LastMoment = 2
  PhoneLimit = 1
  Nothing = Nothing
  cron = cron
  Cron = cron
  SmsOrder = {x1, x2}
  Task = {w1, w2, cron}
  Quote = 2
  ActualPrice = {1, 2, 3}
  Balance = 3
  NoUpdate = NoUpdate
  f1 = f1
  f2 = f2
  Update = {x1, x2}
  Runner = {w1, w2}
  File = {f1, f2}
  Earlier = {f1}
  Tries = 2
  NoSuch = NoSuch
  s1 = s1
  WebSession = {s1}
  Poller = {w1, w2}
  Source = {"BINANCE", "SHOPEE"}
  News = 2
  NoCommand = NoCommand
  Tab = {w1, w2}
  Command = {x1, x2}
  Points = 2
  BatchLimit = 2
  None = None
  k12 = k12
  text = text
  StockFile <- OneFile
  Content = {k12, text}
  Generic = {text}
  Policy = {"BLOCKED", "ALLOW_HTTP_401", "OWNER_APPROVAL"}
  HealthAnswer = {"HEALTHY", "HTTP_401", "HTTP_402", "NO_ANSWER"}
  Checker = {"admin"}
  Restorer = {w1, w2}
  RunSize = 1
  MaxArchives = 2
  RequireHealthy = TRUE
SYMMETRY ServicesSymmetry
VIEW ServiceView
INVARIANTS
  ServicesTypeOK
  CreditedOnce
  OneInvoicePerEvent
  EvidenceAgrees
  ConfirmedIsCredited
  ChargedForWhatWasGot
  OneRunPerLease
  RedeemSentOnce
  RedeemRecordTrue
  SavedUploadsKept
  RewardedOnce
  EvidenceIsOurs
  CartCommandOnce
  ToldMeansShown
  RefusedStaysRefused
  HeldAsClaimed
  OfferIsPermitted
  TakenOutStaysOut
PROPERTIES
  RevokedIsSilent
  PollsInOrder
CHECK_DEADLOCK FALSE

\* No administrator: what the phone's requests alone confirm.
SPECIFICATION IntakeSpec
CONSTANTS
  Nobody = Nobody
  p1 = p1
  q1 = q1
  e1 = e1
  h1 = h1
  a1 = a1
  OrderInvoice = {p1}
  TopupInvoice = {q1}
  Transfer = {e1}
  Handler = {h1}
  Admin = {}
  BilledAmount = {1}
  Provider = {"JAGO", "QRIS"}
  Life = 1
  Skew = 1
  LastMoment = 2
  PhoneLimit = 1
INVARIANTS
  LateMoneyStaysOut
CHECK_DEADLOCK FALSE

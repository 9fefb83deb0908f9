\* A cancellation and a refresh of one order at a time.
SPECIFICATION SmsSpec
CONSTANTS
  Nothing = Nothing
  k1 = k1
  k2 = k2
  t1 = t1
  t2 = t2
  cron = cron
  Cron = cron
  SmsOrder = {k1}
  Task = {t1, t2, cron}
  Quote = 2
  ActualPrice = {1, 2, 3}
  Balance = 2
SYMMETRY SmsSymmetry
INVARIANTS
  RefundedOnce
CHECK_DEADLOCK FALSE

SPECIFICATION ThrottleSpec
CONSTANTS
  l1 = l1
  l2 = l2
  Logins = {l1, l2}
  FREE_ATTEMPTS = 1
  MAX_DELAY = 4
  Width = 6
  MaxCount = 8
  MaxClock = 24
INVARIANTS
  GuessesTakeTime
  NeverLockedOut
PROPERTIES
  OnlySuccessForgives

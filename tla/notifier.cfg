SPECIFICATION Spec
CONSTANTS
  c1 = c1
  b1 = b1
  Horizon = 12
  Wall <- Zone
  DayLength = 6
  Week = 2
  Shift = 2
  Reminder = 3
  CardDue = 1
  DigestTime = 2
  DigestDay = 0
  Cards = {c1}
  Dues = {3, 8}
  Browsers = {b1}
  MaxEvents = 2
INVARIANTS
  NothingForgotten
PROPERTIES
  ReminderDeserved
  CardsChased

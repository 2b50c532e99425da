SPECIFICATION Spec
CONSTANTS
  t1 = t1
  t2 = t2
  Callers = {t1, t2}
  AddressStart = 6
  AddressEnd = 33
  HeaderSize = 4
  SYSTEM_ALIGNMENT = 2
  PAGE_SIZE = 8
  Sizes = {1, 4, 8}
  Irqls = {0, 2}
  MaximalIrql = 1
  MaxHeld = 2
SYMMETRY CallersAreAlike
INVARIANTS
  BlocksSound
  BlocksKeepTheirData
PROPERTIES
  FailuresAreDue
CHECK_DEADLOCK FALSE

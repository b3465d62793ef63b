\* Three threads miss in one slot: a torn entry is accepted.
CONSTANTS
  a = a  b = b  c = c
  t1 = t1  t2 = t2  t3 = t3
  shared = shared  alone = alone
  Thread = {t1, t2, t3}
  Site = {a, b}
  MemSite = {}
  Slot = {shared}
  SlotOf <- MCSlotOf
  NCells = 2
  Retries = 3
  MaxTraps = 4
  NoSite = NoSite
SPECIFICATION Spec
INVARIANT EveryTrapServedAsItself

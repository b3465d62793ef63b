\* Every interleaving of two threads, with evictions between a and b.
CONSTANTS
  a = a  b = b  c = c
  t1 = t1  t2 = t2  t3 = t3
  shared = shared  alone = alone
  Thread = {t1, t2}
  Site = {a, b, c}
  MemSite = {b}
  Slot = {shared, alone}
  SlotOf <- MCSlotOf
  NCells = 2
  Retries = 3
  MaxTraps = 3
  NoSite = NoSite
SPECIFICATION FairSpec
INVARIANTS
  TypeOK
  AcceptedCopyIsConsistent
  SlotAtRestIsReadable
  RereadIsOwnWhileSeqStands
  RegisterFormServedAsItself
PROPERTY EveryTrapReturns

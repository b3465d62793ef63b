\* Two sites that share an entry: every addressing form run by one thread, and
\* pairs of instructions run by two.
CONSTANTS
  t1 = t1
  t2 = t2
  here = here
  there = there
  none = none
  Thread <- MCThread
  Site <- MCSite
  SlotOf <- MCSlotOf
  Start <- MCStart
  Rel32 <- MCRel32
  Nothing = none
SPECIFICATION Spec
INVARIANTS
  TypeOK
  RegisterFormIsArchitected
  PathsAgreeOnMemory
  RepairSufficesButForR12

\* The memory operand that docs/session_log.md found in the host.
CONSTANTS
  t1 = t1
  t2 = t2
  here = here
  there = there
  none = none
  Thread <- MCThread
  Site <- MCSite
  SlotOf <- MCSlotOf
  Start <- HostStart
  Rel32 <- MCRel32
  Nothing = none
SPECIFICATION Spec
INVARIANTS
  MemoryFormIsHandled

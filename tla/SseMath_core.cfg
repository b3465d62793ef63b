\* The instructions' real width, on blocks that use every byte value and on
\* factors with terms at the ends of the halves.
CONSTANTS
  W = 64
  Reg <- MCReg
  Program <- MCProgram
  Data = 0
  Schedules <- MCSchedules
  Start <- MCStart
  none = none
  NoInst = none
SPECIFICATION Spec
INVARIANTS
  TypeOK
  AesResultIsDefined
  ClmulIsTheProduct
  DecryptionUndoesEncryption
\* The programs end.
CHECK_DEADLOCK FALSE

\* Every interleaving: but for spoilt slots and overrun readers the ring is a register.
CONSTANTS
  t1 = t1  t2 = t2  t3 = t3  h = h
  SigDfl = SigDfl  NoAct = NoAct
  Thread = {t1, t2, t3}
  Publisher = {t1, t2, t3}
  Reader = {t3}
  N = 3
  LastPart = 1
  Act = {SigDfl, h}
  MaxLog = 4
SPECIFICATION Spec
INVARIANTS TypeOK PublishedUnlessSpoilt OverrunTakesARound
PROPERTY RingIsADisposition
SYMMETRY MCSymmetry

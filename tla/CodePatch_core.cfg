\* Two threads run and patch three instructions; the stubs run out and the counter wraps.
CONSTANTS
  t1 = t1  t2 = t2  near = near  beyond = beyond  e1 = e1  e2 = e2  e3 = e3
  aesenc = aesenc  aesdec = aesdec  pclmul = pclmul  far = far
  NoSite = NoSite  NoPage = NoPage  NoStub = NoStub
  Original = Original  Astray = Astray
  Thread = {t1, t2}
  Site = {aesdec, pclmul, far}
  Length <- MCLength
  SlotOf <- MCSlotOf
  Region <- MCRegion
  PageOf <- MCPageOf
  Mapped <- MCMapped
  NStubs = 2
  HalfRange = 3
SPECIFICATION Spec
INVARIANTS
  TypeOK
  CodeIsWhole
  PatchedSiteIsCached
  PagesAtRestAreProtected
  LoneThreadIsSafe
SYMMETRY MCSymmetry

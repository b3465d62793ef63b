\* Two threads install, displace and trap while the watchdog runs.
CONSTANTS
  t1 = t1  t2 = t2  jvm = jvm  reporter = reporter
  Dfl = Dfl  Ign = Ign  Ours = Ours  None = None
  Thread = {t1, t2}
  Handler = {jvm, reporter}
  MaxIters = 2
  MaxPlain = 1
  MaxChain = 2
SPECIFICATION FairSpec
INVARIANTS
  TypeOK
  EffectiveIsLatest
  UnevadedTrapFallsBackOnce
PROPERTIES
  DisplacementIsRepaired
  DefaultKills

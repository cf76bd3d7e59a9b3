CONSTANTS
  Task = {main, t1, t2}
  main = main
  Addr = {a}
  Msg = {m1}
  None = None
  MaxCalls = 2
  MaxCuts = 1
SPECIFICATION FairSpec
INVARIANTS OwnStacks RingIsWhole MailIsDelivered
PROPERTIES SwitchIsTransparent EveryTaskRuns

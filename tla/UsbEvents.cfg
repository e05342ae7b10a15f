SPECIFICATION Spec
CONSTANTS
  t1 = t1
  t2 = t2
  None = None
  Thread <- MCThread
  Timeout <- MCTimeout
  Setups <- MCSetups
INVARIANTS
  EventSignalled
  FlyingInOrder
  TimerSet
  DataKept
  TimeoutReported
  CalledOnce
  HandlesOpen
  NoLostWakeup
PROPERTIES
  EveryoneReturns

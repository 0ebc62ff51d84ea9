SPECIFICATION FairSpec
CONSTANTS
  emu = emu
  mpu = mpu
  ich = ich
  irq5 = irq5
  irq6 = irq6
  None = None
  Devices <- Chips3
  Lines = {irq5, irq6}
  Hookable = {irq5, irq6}
  MaxShared = 2
  RmMayRefuse = {irq6}
  HookMayFail = {irq6}
  MaxRaises = 2
INVARIANTS
  TypeOK
  CountMatches
  HookedHasHandlers
  EoiSpent
  SuccessMeansServed
  NeverShutDown
PROPERTY
  EveryRequestServed
CHECK_DEADLOCK FALSE

SPECIFICATION Spec
CONSTANTS
  cmipci = cmipci
  cs4281 = cs4281
  intel8x0 = intel8x0
  joystick = joystick
  cm1 = cm1
  cm2 = cm2
  cs = cs
  ich = ich
  joy = joy
  None = None
  CardDrivers <- InOrder
  Companion <- Joysticks
  IdTable <- Tables
  Bars <- BarsOf
  Legacy <- Ports
  Shareable = {"irq"}
  PowerManaged = {cs4281, intel8x0}
  Layouts <- FirstOnBus
  Slots = 3
INVARIANTS ResourcesHeld CardsManaged
CHECK_DEADLOCK FALSE

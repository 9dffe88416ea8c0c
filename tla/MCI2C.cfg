CONSTANTS
  Bits = 2
  Registers = 2
  Ports = {"lego", "other"}
  LegoPorts = {"lego"}
  MaxCalls = 2
  I2C_PAUSE_LEN = 1
  ReadSize = 2
  Modes = {"read", "write"}
  Addresses = {1}
  Values = {3}
  Tasks = FALSE
  Stretching = {"other"}
  Reregistering = {"other"}
  Quick = TRUE
  Gap = FALSE
  Devices <- MCDevices
SPECIFICATION Spec
INVARIANTS OutcomeTrue LinesFree
PROPERTIES EveryCallReturns
CHECK_DEADLOCK FALSE

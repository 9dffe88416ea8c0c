CONSTANTS
  MotorPorts <- MCMotorPorts
  Speeds <- MCSpeeds
  Statuses <- MCStatuses
  Faults = {"nack", "corrupt"}
  Requests = {"AVR_POWER_OFF"}
  Bad <- MCBad
  NoByte = NoByte
  Hello = Hello
  Zero = Zero
SPECIFICATION Spec
PROPERTIES TransfersTrue LinkCycles LastCommandArrives
CHECK_DEADLOCK FALSE

------------------------------- MODULE MCI2C -------------------------------
(***************************************************************************)
(* Instances of I2C: bytes of two bits, so that there is a first and a     *)
(* last one, two registers, a lego port and a port of the other kind.      *)
(***************************************************************************)
EXTENDS I2C

MCRegs == [r \in 0 .. 1 |-> r + 1]
Ready == NewDevice(TRUE, MCRegs)
MCDevices ==
  [p \in {"lego", "other"} |->
     IF p = "lego" THEN {Ready, NewDevice(FALSE, MCRegs)} ELSE {Ready}]
=============================================================================

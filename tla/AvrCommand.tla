----------------------------- MODULE AvrCommand -----------------------------
(***************************************************************************)
(* The commands the ARM keeps for the AVR coprocessor: the static record   *)
(* to_avr of avr.c and the functions that write it.  Motors.tla writes it  *)
(* from a task and from the tachymeter interrupt, AvrLink.tla packs it     *)
(* from the tick.  nx__avr_set_motor is not one step: the speed is stored  *)
(* first, and the brake bits are loaded, changed and stored after it.      *)
(***************************************************************************)
EXTENDS Integers, Sequences

CONSTANTS
  MotorPorts,   \* 0 .. NXT_N_MOTORS - 1
  Speeds        \* the power percentages in use

ASSUME CommandAssumption ==
  /\ MotorPorts \subseteq Nat
  /\ Speeds \subseteq -100 .. 100
  /\ 0 \in Speeds

VARIABLE to_avr

PowerModes == {"AVR_RUN", "AVR_POWER_OFF", "AVR_RESET_MODE"}

Command ==
  [power : PowerModes, speed : [MotorPorts -> Speeds], brake : SUBSET MotorPorts]

\* All motors are off and set to coast.
IdleCommand ==
  [power |-> "AVR_RUN", speed |-> [m \in MotorPorts |-> 0], brake |-> {}]

SetSpeed(m, s) == to_avr' = [to_avr EXCEPT !.speed[m] = s]

\* The brake bits `loaded` with the bit of motor m set or cleared.
WithBrake(loaded, m, brake) == IF brake THEN loaded \union {m} ELSE loaded \ {m}

StoreBrake(bits) == to_avr' = [to_avr EXCEPT !.brake = bits]

\* nx__avr_power_down and nx__avr_firmware_update_mode store the same value
\* for ever: the first store is the one that counts.
SetPower(p) == to_avr' = [to_avr EXCEPT !.power = p]
=============================================================================

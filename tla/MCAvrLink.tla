----------------------------- MODULE MCAvrLink -----------------------------
(* Instances of AvrLink: one motor, two statuses. *)
EXTENDS AvrLink

MCMotorPorts == {0}
MCSpeeds == {0, 100}
MCBad == <<[buttons |-> 1024, last |-> 0], 0>>
MCStatuses ==
  {[buttons |-> 1023, last |-> 8192 + 1024 + 512], [buttons |-> 61, last |-> 32768 + 1023]}
=============================================================================

------------------------------- MODULE MCUsb -------------------------------
(***************************************************************************)
(* Usb with an answer of three packets, the last of them short, one of two *)
(* full packets, as the configuration is, and one of less than a packet.   *)
(***************************************************************************)
EXTENDS Usb

Sizes == [what \in {"device", "config", "status"} |->
             CASE what = "device" -> 5 [] what = "config" -> 4 [] what = "status" -> 1]

=============================================================================

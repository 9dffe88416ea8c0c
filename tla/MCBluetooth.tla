---------------------------- MODULE MCBluetooth ----------------------------
(***************************************************************************)
(* Bluetooth with two devices, so that half of one may be taken for half   *)
(* of the other, and all calls but the two whose packet has no head.       *)
(***************************************************************************)
EXTENDS Bluetooth

CONSTANTS d1, d2

Remotes == {d1, d2}
\* Who lists devices, who names the brick and opens ports, who is called.
Lists ==
    {{"nx_bt_begin_inquiry", "nx_bt_cancel_inquiry", "nx_bt_add_known_device",
      "nx_bt_remove_known_device"},
     {"nx_bt_begin_known_devices_dumping", "nx_bt_get_version", "nx_bt_get_friendly_name"},
     {"nx_bt_begin_inquiry", "nx_bt_begin_known_devices_dumping"}}
Ports ==
    {{"nx_bt_set_friendly_name", "nx_bt_set_discoverable", "nx_bt_open_port",
      "nx_bt_close_port"}}
Called == {{"nx_bt_accept_connection", "nx_bt_send_pin", "nx_bt_stream_open"}}

All == Lists \cup Ports \cup Called
Headed == {{"nx_bt_get_link_quality", "nx_bt_close_connection"}}

=============================================================================

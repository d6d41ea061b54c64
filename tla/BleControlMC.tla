---------------------------- MODULE BleControlMC ----------------------------
(***************************************************************************)
(* BleControl for TLC, with the two layouts of protocol.py as they are.    *)
(* The initial settings alternate on and off in the order of the report,   *)
(* so that a shift by one position shows, and give ac_frequency_hz a byte  *)
(* that is no flag.                                                        *)
(***************************************************************************)
EXTENDS BleControl

MCRecvFields ==
    <<"low_noise", "low_battery_warning", "usb", "dc", "ac_frequency_hz",
      "warning_voice", "ac_uturbo", "ac", "battery_health", "locking",
      "key_voice", "standby">>

MCSendFields ==
    <<"low_noise", "usb", "dc", "ac_frequency_hz", "warning_voice",
      "ac_uturbo", "ac", "battery_health", "locking", "key_voice", "standby">>

MCSettings ==
    [f \in {MCRecvFields[i] : i \in DOMAIN MCRecvFields} |->
        CASE f = "ac_frequency_hz" -> 60
          [] f \in {"low_noise", "battery_health", "key_voice", "warning_voice"} -> 1
          [] OTHER -> 0]
=============================================================================

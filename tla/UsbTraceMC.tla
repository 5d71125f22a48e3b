------------------------------ MODULE UsbTraceMC -------------------------------
(* Small instances of UsbTrace for TLC. *)
EXTENDS UsbTrace
===============================================================================

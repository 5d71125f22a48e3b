-------------------------- MODULE Trf797xInitiatorMC --------------------------
(* Small instances of Trf797xInitiator for TLC. *)
EXTENDS Trf797xInitiator

(* The shutdown arguments: what nfc_device_close passes, and what the      *)
(* interface of trf797x_initiator_stop accepts.                            *)
CloseOnly == {FALSE}
CloseOrShutdown == {TRUE, FALSE}
===============================================================================

----------------------------- MODULE Iso14443TclMC -----------------------------
(* Small instances of Iso14443Tcl for TLC. *)
EXTENDS Iso14443Tcl
===============================================================================

-------------------------------- MODULE PadRoles --------------------------------
(***************************************************************************)
(* What the GPIO driver promises about the role of a pad, the pair of its  *)
(* direction (input, output, alternate or analog) and, for an alternate    *)
(* pad, of the peripheral it is connected to: a pad goes from the role it  *)
(* has to the role asked for in one step, through no role in between, and  *)
(* no other pad changes role.                                              *)
(***************************************************************************)
EXTENDS Naturals

CONSTANTS
    Pins,       \* the pads of all ports
    Roles       \* pairs of a direction and a peripheral

VARIABLES
    role,       \* the role of each pad
    asked       \* the role last asked for each pad

vars == <<role, asked>>

Init == role \in [Pins -> Roles] /\ asked = role

(* A role is asked for some pads, when every pad has the one asked for. *)
Ask == /\ role = asked
       /\ asked' \in [Pins -> Roles]
       /\ \E r \in Roles : \A p \in Pins : asked'[p] \in {asked[p], r}
       /\ UNCHANGED role

Switch(p) == role' = [role EXCEPT ![p] = asked[p]] /\ UNCHANGED asked

Next == Ask \/ \E p \in Pins : Switch(p)

Spec == Init /\ [][Next]_vars
===============================================================================

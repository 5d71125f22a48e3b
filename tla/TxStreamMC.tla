------------------------------ MODULE TxStreamMC ------------------------------
(* Small instances of TxStream for TLC. *)
EXTENDS TxStream

(* Every split in at most 3 vectors of a frame that fits in a FIFO of 5    *)
(* bytes, whole or with a last byte of 7 bits, and the short frame WUPA.   *)
Vectors == UNION {[1 .. n -> {8, 16, 24, 32, 40}] : n \in 1 .. 3}
Broken(f) == [f EXCEPT ![Len(f)] = @ - 1]
FittingFrames ==
    {f \in Vectors : Bits(f) <= 40}
        \cup {Broken(f) : f \in {g \in Vectors : Bits(g) <= 40}}

(* A frame whose second vector begins where the FIFO ends. *)
LongFrames == {<<40, 16>>}
===============================================================================

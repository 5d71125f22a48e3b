------------------------------- MODULE TxStream -------------------------------
(***************************************************************************)
(* How a frame given as an array of vectors reaches the chip: the loop of  *)
(* trf797x_transmit that fills the FIFO, and the continuous transmit of    *)
(* trf797x_initiator_transceive that refills it (trf797x_lld.c,            *)
(* trf797x_initiator.c).  Byte i of vector v is <<v, i>>; the lengths of   *)
(* the vectors are in bits, and only the last may end in a broken byte.    *)
(***************************************************************************)
EXTENDS NfcTables, SequencesExt

CONSTANTS
    Frames,     \* frames to send: sequences of vector lengths in bits, not 0
    FifoSize,   \* TRF797X_FIFO_SIZE
    LowWater,   \* FIFO level at which the chip asks for more
    SizeT       \* size_t counts modulo SizeT

ASSUME FifoAssumption == /\ FifoSize \in Nat \ {0} /\ LowWater \in 1 .. FifoSize
                         /\ SizeT \in Nat /\ SizeT > FifoSize

VARIABLES
    frame,      \* the frame
    pc,         \* "fill", "wait" for an interrupt, "done"
    vec,        \* the index of *tx
    len,        \* txlen
    bits,       \* the local bits of transmit, not yet taken
    announced,  \* bytes of the frame as the chip reads TX_LENGTH
    filled,     \* the local fifo of transmit
    sent,       \* the local sent of transmit
    off,        \* the offset of tx_buf in its vector
    txBytes,    \* tx_bytes
    fifo,       \* the FIFO of the chip
    air,        \* the bytes it has sent
    status      \* IRQ_STATUS

vars == <<frame, pc, vec, len, bits, announced, filled, sent, off, txBytes,
          fifo, air, status>>

(* What lies outside the vectors. *)
Stray == <<0, 0>>

InBytes(n) == (n + 7) \div 8
Size(v) == InBytes(frame[v])
Byte(v, i) == IF v <= Len(frame) /\ i <= Size(v) THEN <<v, i>> ELSE Stray
Part(v, from, n) == [i \in 1 .. n |-> Byte(v, from + i)]
Whole == FlattenSeq([v \in 1 .. Len(frame) |->
                        [i \in 1 .. Size(v) |-> <<v, i>>]])

(* The bits of the first vectors of a frame, and of all of them. *)
Totals(f) == LET total[i \in 0 .. Len(f)] ==
                     IF i = 0 THEN 0 ELSE total[i - 1] + f[i]
             IN total
Bits(f) == Totals(f)[Len(f)]

(* The header of trf797x_transmit: the chip sends the complete bytes it    *)
(* announces, and the broken one if there is one.                          *)
Announced(n) ==
    LET l1 == TxLength1(n)
        l2 == TxLength2(n)
    IN AnnouncedBytes(l1, l2) + (IF AnnouncedBits(l1, l2) > 0 THEN 1 ELSE 0)

Init ==
    /\ frame \in Frames /\ pc = "fill"
    /\ vec = 1 /\ len = Len(frame) /\ bits = Bits(frame)
    /\ announced = Announced(bits)
    /\ filled = 0 /\ sent = 0 /\ off = 0 /\ txBytes = 0
    /\ fifo = <<>> /\ air = <<>> /\ status = {}

(* One turn of the loop of trf797x_transmit. *)
FillVector ==
    /\ pc = "fill" /\ bits > 0 /\ filled < FifoSize
    /\ sent' = Least(Size(vec), FifoSize - filled)
    /\ fifo' = fifo \o Part(vec, 0, sent')
    /\ bits' = bits - frame[vec]
    /\ filled' = filled + sent'
    /\ IF sent' = Size(vec)
         THEN /\ len' = len - 1
              /\ vec' = IF len' > 0 THEN vec + 1 ELSE vec
         ELSE UNCHANGED <<len, vec>>
    /\ UNCHANGED <<frame, pc, announced, off, txBytes, air, status>>

(* It returns sent, which the caller takes for an offset in *tx. *)
FillEnd ==
    /\ pc = "fill" /\ ~(bits > 0 /\ filled < FifoSize)
    /\ pc' = "wait" /\ off' = sent
    /\ txBytes' = (Size(vec) + SizeT - sent) % SizeT
    /\ UNCHANGED <<frame, vec, len, bits, announced, filled, sent, fifo, air,
                   status>>

(* trf797x_fifo_fill of n bytes from offset o of vector v. *)
Refill(v, o, n) ==
    LET k == Least(n, FifoSize - Len(fifo))
    IN /\ fifo' = fifo \o Part(v, o, k)
       /\ vec' = v /\ off' = o + k /\ txBytes' = n - k

(* Mutant: the next vector is taken even when none is left. *)
RefillOnFifoUnguarded ==
    IF txBytes = 0
      THEN \E n \in IF vec < Len(frame) THEN {Size(vec + 1)} ELSE 0 .. 1 :
              Refill(vec + 1, 0, n)
      ELSE Refill(vec, off, txBytes)

(* The next vector when the current one is used up; past the last one the  *)
(* length is whatever the memory holds.                                    *)
RefillOnFifo ==
    IF txBytes = 0 /\ len > 0
      THEN \E n \in IF vec < Len(frame) THEN {Size(vec + 1)} ELSE 0 .. 1 :
              Refill(vec + 1, 0, n)
      ELSE Refill(vec, off, txBytes)

Service ==
    /\ pc = "wait" /\ status # {} /\ status' = {}
    /\ pc' = IF status = {"TX"} THEN "done" ELSE "wait"
    /\ IF "FIFO" \in status THEN RefillOnFifo
                            ELSE UNCHANGED <<vec, off, txBytes, fifo>>
    /\ UNCHANGED <<frame, len, bits, announced, filled, sent, air>>

(* The chip (external) sends a byte; it asks for more at the low level and *)
(* reports the end after the length announced in the header.               *)
SendByte ==
    /\ fifo # <<>> /\ Len(air) < announced
    /\ air' = Append(air, Head(fifo)) /\ fifo' = Tail(fifo)
    /\ status' = status
          \cup (IF Len(fifo') = LowWater THEN {"FIFO"} ELSE {})
          \cup (IF Len(air') = announced THEN {"TX"} ELSE {})
    /\ UNCHANGED <<frame, pc, vec, len, bits, announced, filled, sent, off,
                   txBytes>>

Next == FillVector \/ FillEnd \/ Service \/ SendByte
Spec == Init /\ [][Next]_vars

(* What the chip has been given is the beginning of the caller's frame,    *)
(* each byte once and in order and none from outside the vectors; and when *)
(* the transmit loop ends the whole frame has been sent.                   *)
ContinuousTransmit ==
    /\ IsPrefix(air \o fifo, Whole)
    /\ pc = "done" => air = Whole
===============================================================================

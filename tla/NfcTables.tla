------------------------------- MODULE NfcTables -------------------------------
(***************************************************************************)
(* The pure functions of the stack and the driver: frame sizes and waiting *)
(* times from the codes of the ATS, the frame size code of the RATS, the   *)
(* time a transceive waits (libs/nfc), and the length of a frame as it is  *)
(* written to the chip (drivers/trf797x/trf797x_lld.c).                    *)
(***************************************************************************)
EXTENDS Naturals

(* fsci2fsc and fsd2fsdi use the same table, code 0 first. *)
FrameSizes == <<16, 24, 32, 40, 48, 64, 96, 128, 256>>
LastSize == 8

fsci2fsc(fsci) == FrameSizes[(IF fsci < LastSize THEN fsci ELSE LastSize) + 1]

(* The largest code whose size is at most fsd; 0 when there is none. *)
Holds(fsd) == {i \in 0 .. LastSize : FrameSizes[i + 1] <= fsd}
fsd2fsdi(fsd) ==
    IF Holds(fsd) = {} THEN 0
    ELSE CHOOSE i \in Holds(fsd) : \A j \in Holds(fsd) : j <= i

WaitingTimes == <<1, 1, 2, 3, 5, 10, 20, 40, 80, 160, 310, 620, 1240, 2480,
                  4950>>
LastTime == 14

(* Mutant: a reserved code is taken for a small one. *)
fwi2fwWrapped(fwi) == WaitingTimes[(fwi % (LastTime + 1)) + 1]

(* In milliseconds. *)
fwi2fw(fwi) == WaitingTimes[(IF fwi < LastTime THEN fwi ELSE LastTime) + 1]

(* TRF797X_FIFO_SIZE, which the device gives as the frame size. *)
FrameSize == 127

(* The block sizes of nfc_iso14443_transceive: buffer[MAX_FRAME_SIZE]. *)
MaxFrameSize == 256
Least(a, b) == IF a < b THEN a ELSE b
InfSize(fsd, fsc) == Least(fsd, Least(fsc, MaxFrameSize)) - 3

(* An extension of time: the wait is the frame's, times the 6 bits of the  *)
(* card's multiplier; MS2ST turns milliseconds into ticks.                 *)
TickHz == 10000
Extension(fwt, multiplier) == fwt * (multiplier % 64)
MS2STDividend(ms) == ms * TickHz + 999

(* The registers TX_LENGTH1 and TX_LENGTH2 of a frame of so many bits, as  *)
(* bytes; and how the chip reads them: complete bytes, then bits.          *)
TxLength1(bits) == (bits \div 128) % 256
TxLength2(bits) == ((2 * (bits % 256)) % 256) + (IF bits % 8 # 0 THEN 1 ELSE 0)
AnnouncedBytes(l1, l2) == 16 * l1 + (l2 \div 16)
AnnouncedBits(l1, l2) == IF l2 % 2 = 1 THEN (l2 \div 2) % 8 ELSE 0
===============================================================================

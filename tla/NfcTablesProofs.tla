---------------------------- MODULE NfcTablesProofs ----------------------------
(* Theorems about the tables of NfcTables. *)
EXTENDS NfcTables, TLAPS

(* The frame size that RATS announces is one the device takes: a card that *)
(* follows it never sends more than the FIFO of the chip, or a buffer of   *)
(* at least 16 bytes, can hold.                                            *)
THEOREM AnnouncedSizeFits ==
    ASSUME NEW fsd \in Nat, fsd >= 16
    PROVE  /\ fsd2fsdi(fsd) \in 0 .. LastSize
           /\ fsci2fsc(fsd2fsdi(fsd)) <= fsd
<1> DEFINE H == Holds(fsd)
<1>1. 0 \in H
  BY DEF Holds, FrameSizes, LastSize
<1>2. \E i \in H : \A j \in H : j <= i
  <2>1. CASE 8 \in H
    BY <2>1 DEF Holds, LastSize
  <2>2. CASE 8 \notin H /\ 7 \in H
    BY <2>2 DEF Holds, LastSize
  <2>3. CASE 8 \notin H /\ 7 \notin H /\ 6 \in H
    BY <2>3 DEF Holds, LastSize
  <2>4. CASE 8 \notin H /\ 7 \notin H /\ 6 \notin H
    <3>1. H \subseteq 0 .. 5
      BY <2>4 DEF Holds, LastSize
    <3>2. CASE 5 \in H
      BY <3>1, <3>2
    <3>3. CASE 5 \notin H /\ 4 \in H
      BY <3>1, <3>3
    <3>4. CASE 5 \notin H /\ 4 \notin H /\ 3 \in H
      BY <3>1, <3>4
    <3>5. CASE 5 \notin H /\ 4 \notin H /\ 3 \notin H
      <4>1. H \subseteq 0 .. 2
        BY <3>1, <3>5
      <4> QED BY <1>1, <4>1
    <3> QED BY <3>2, <3>3, <3>4, <3>5
  <2> QED BY <2>1, <2>2, <2>3, <2>4
<1>3. PICK k \in H : \A j \in H : j <= k
  BY <1>2
<1>4. fsd2fsdi(fsd) \in H
  BY <1>1, <1>3 DEF fsd2fsdi
<1> HIDE DEF H
<1>5. fsd2fsdi(fsd) \in 0 .. LastSize /\ FrameSizes[fsd2fsdi(fsd) + 1] <= fsd
  BY <1>4 DEF H, Holds
<1>6. fsci2fsc(fsd2fsdi(fsd)) = FrameSizes[fsd2fsdi(fsd) + 1]
  BY <1>5 DEF fsci2fsc, LastSize
<1> QED BY <1>5, <1>6

(* The frame waiting time taken for a code is not shorter than the one the *)
(* card is allowed, 4096 * 2^FWI periods of 13560 kHz, for every code that *)
(* is not reserved: the receive wait never ends before the card's time.     *)
THEOREM WaitsLongEnough ==
    ASSUME NEW power, power[0] = 1,
           \A n \in 0 .. LastTime - 1 : power[n + 1] = 2 * power[n],
           \A n \in 0 .. LastTime : power[n] \in Nat
    PROVE  \A fwi \in 0 .. LastTime : fwi2fw(fwi) * 13560 >= 4096 * power[fwi]
<1>1. /\ power[1] = 2 /\ power[2] = 4 /\ power[3] = 8 /\ power[4] = 16
      /\ power[5] = 32
  BY SMT DEF LastTime
<1>2. /\ power[6] = 64 /\ power[7] = 128 /\ power[8] = 256 /\ power[9] = 512
      /\ power[10] = 1024
  BY <1>1, SMT DEF LastTime
<1>3. power[11] = 2048 /\ power[12] = 4096 /\ power[13] = 8192 /\ power[14] = 16384
  BY <1>2, SMT DEF LastTime
<1>4. \A fwi \in 0 .. LastTime : fwi2fw(fwi) = WaitingTimes[fwi + 1]
  BY DEF fwi2fw, LastTime
<1>5. \A fwi \in 0 .. 7 : fwi2fw(fwi) * 13560 >= 4096 * power[fwi]
  BY <1>1, <1>2, <1>4, SMT DEF WaitingTimes, LastTime
<1>6. \A fwi \in 8 .. 14 : fwi2fw(fwi) * 13560 >= 4096 * power[fwi]
  BY <1>2, <1>3, <1>4, SMT DEF WaitingTimes, LastTime
<1> QED BY <1>5, <1>6 DEF LastTime

(* The longest wait a card can ask for does not wrap the 32 bit product of *)
(* MS2ST, whatever the card's code and multiplier.                         *)
THEOREM ExtensionFits ==
    ASSUME NEW fwi \in Nat, NEW multiplier \in Nat
    PROVE  MS2STDividend(Extension(fwi2fw(fwi), multiplier)) < 4294967296
<1> DEFINE code == IF fwi < LastTime THEN fwi ELSE LastTime
           t == fwi2fw(fwi)
           m == multiplier % 64
<1>1. t \in Nat /\ t <= 4950
  <2>1. \A k \in 0 .. LastTime : WaitingTimes[k + 1] \in Nat /\ WaitingTimes[k + 1] <= 4950
    BY SMT DEF WaitingTimes, LastTime
  <2>2. code \in 0 .. LastTime
    BY SMT DEF LastTime
  <2>3. t = WaitingTimes[code + 1]
    BY DEF fwi2fw
  <2> HIDE DEF code, t
  <2> QED BY <2>1, <2>2, <2>3
<1>2. m \in 0 .. 63
  BY SMT
<1> HIDE DEF t, m
<1>3. t * m \in Nat /\ t * m <= 4950 * m
  BY <1>1, <1>2, SMT
<1> DEFINE x == t * m
<1> HIDE DEF x
<1>5. x \in Nat /\ x <= 311850
  BY <1>2, <1>3, SMT DEF x
<1>6. x * TickHz + 999 < 4294967296
  BY <1>5, SMT DEF TickHz
<1>7. Extension(fwi2fw(fwi), multiplier) = x
  BY DEF Extension, x, t, m
<1> QED BY <1>6, <1>7, SMT DEF MS2STDividend

(* The chip reads from the length registers exactly the frame it is given, *)
(* complete bytes and bits of a broken one, up to the 4095 bytes and 7     *)
(* bits they can hold: a short frame of 7 bits is one broken byte.         *)
THEOREM LengthAnnounced ==
    ASSUME NEW bits \in Nat, bits < 32768
    PROVE  LET l1 == TxLength1(bits)
               l2 == TxLength2(bits)
           IN /\ AnnouncedBytes(l1, l2) = bits \div 8
              /\ AnnouncedBits(l1, l2) = bits % 8
<1> DEFINE hi == bits \div 128
           lo == bits % 128
           n == lo \div 8
           b == lo % 8
<1>1. hi \in 0 .. 255 /\ n \in 0 .. 15 /\ b \in 0 .. 7
  BY SMT
<1>2. bits = 128 * hi + 8 * n + b
  BY SMT
<1> HIDE DEF hi, lo, n, b
<1>3. bits \div 8 = 16 * hi + n /\ bits % 8 = b
  BY <1>1, <1>2, SMT
<1>4. bits \div 128 = hi /\ hi % 256 = hi
  BY <1>1, <1>2, SMT
<1>5. (2 * (bits % 256)) % 256 = 16 * n + 2 * b
  BY <1>1, <1>2, SMT
<1>6. CASE b = 0
  <2>1. TxLength2(bits) = 16 * n
    BY <1>1, <1>3, <1>5, <1>6, SMT DEF TxLength2
  <2>2. (16 * n) \div 16 = n /\ (16 * n) % 2 = 0
    BY <1>1, SMT
  <2> QED BY <1>3, <1>4, <1>6, <2>1, <2>2
          DEF TxLength1, AnnouncedBytes, AnnouncedBits
<1>7. CASE b # 0
  <2> DEFINE l2 == 16 * n + 2 * b + 1
  <2>1. TxLength2(bits) = l2
    BY <1>1, <1>3, <1>5, <1>7, SMT DEF TxLength2
  <2>2. l2 \div 16 = n /\ l2 % 2 = 1 /\ (l2 \div 2) % 8 = b
    BY <1>1, SMT
  <2> HIDE DEF l2
  <2> QED BY <1>3, <1>4, <2>1, <2>2
          DEF TxLength1, AnnouncedBytes, AnnouncedBits
<1> QED BY <1>6, <1>7

(* A block of the T=CL protocol, its prologue byte, its data and the 2     *)
(* bytes of the checksum that nfc_iso14443a_transceive adds, fits in the   *)
(* FIFO of the chip and in the buffer of nfc_iso14443_transceive, whatever *)
(* size the card announced: it never needs the continuous transmit.        *)
THEOREM BlocksFit ==
    ASSUME NEW fsci \in Nat
    PROVE  LET inf == InfSize(FrameSize, fsci2fsc(fsci))
           IN /\ inf \in Nat \ {0}
              /\ 1 + inf + 2 <= FrameSize
              /\ 1 + inf <= MaxFrameSize
<1>1. fsci2fsc(fsci) \in Nat /\ fsci2fsc(fsci) >= 16
  BY DEF fsci2fsc, LastSize, FrameSizes
<1> QED BY <1>1 DEF InfSize, Least, FrameSize, MaxFrameSize
===============================================================================

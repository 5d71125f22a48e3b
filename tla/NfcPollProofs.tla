----------------------------- MODULE NfcPollProofs -----------------------------
(* Theorems about NfcPoll, for any set of cards. *)
EXTENDS NfcPoll, SequenceTheorems, TLAPS

(* What the thread knows of the device at each place: the inductive form   *)
(* of FieldOffBetween.                                                     *)
DeviceInv ==
    /\ pc \in {"poll", "opened", "sleep"} \cup Exchanges
    /\ pc \in {"poll", "sleep"} => rf = FALSE /\ state = "POWER_OFF"
    /\ pc \in Exchanges => rf = TRUE /\ state = "IDLE"
    /\ pc = "opened" => state = "SELECTED"

LEMMA DeviceInvNext == DeviceInv /\ [Next]_vars => DeviceInv'
<1> SUFFICES ASSUME DeviceInv, [Next]_vars PROVE DeviceInv'
  OBVIOUS
<1> USE DEF DeviceInv, Exchanges
<1>1. CASE Open
  BY <1>1 DEF Open
<1>2. CASE OpenMissing
  BY <1>2 DEF OpenMissing, driverVars
<1>3. CASE OpenError
  BY <1>3 DEF OpenError
<1>4. CASE WakeUp
  BY <1>4 DEF WakeUp
<1>5. CASE Anticollision
  BY <1>5 DEF Anticollision, driverVars
<1>6. CASE Select
  <2>1. rf' = rf
    BY <1>6 DEF Select
  <2>2. \/ pc' = "anticoll" /\ state' = state
        \/ pc' = "rats" /\ state' = state
        \/ pc' = "opened" /\ state' = "SELECTED"
    BY <1>6 DEF Select, EndOfLevels, Selected
  <2>3. pc = "select"
    BY <1>6 DEF Select
  <2> QED BY <2>1, <2>2, <2>3
<1>7. CASE Rats
  BY <1>7 DEF Rats, Selected
<1>8. CASE Close
  BY <1>8 DEF Close
<1>9. CASE Wake
  BY <1>9 DEF Wake, driverVars
<1>10. CASE Swap
  BY <1>10 DEF Swap, driverVars
<1>11. CASE UNCHANGED vars
  BY <1>11 DEF vars, driverVars
<1> QED
  BY <1>1, <1>2, <1>3, <1>4, <1>5, <1>6, <1>7, <1>8, <1>9, <1>10, <1>11
  DEF Next, Activate

(* The field is off whenever the thread is between two cards, and each     *)
(* poll opens the device: no path of open, and none of its errors, leaves  *)
(* the field on or the state wrong.                                        *)
THEOREM FieldOffBetweenCards == Spec => []FieldOffBetween
<1>1. Init => DeviceInv
  BY DEF Init, DeviceInv, Exchanges
<1>2. DeviceInv => FieldOffBetween
  BY DEF DeviceInv, FieldOffBetween
<1> QED BY <1>1, <1>2, DeviceInvNext, PTL DEF Spec

-------------------------------------------------------------------------------
(* The bytes of an NFCID, level by level. *)

IdBytes == (STRING \X Nat) \cup {CT}

LEMMA UidType ==
    ASSUME NEW c \in Cards
    PROVE  /\ c.levels \in 1 .. 3
           /\ Uid(c) \in Seq(IdBytes)
           /\ Len(Uid(c)) = 3 * c.levels + 1
<1>1. c.levels \in 1 .. 3 /\ c.id \in STRING
  BY CardsAssumption DEF CardOf
<1> DEFINE n == 3 * c.levels + 1
<1>2. n \in Nat
  BY <1>1
<1> HIDE DEF n
<1>3. [i \in 1 .. n |-> <<c.id, i>>] \in [1 .. n -> IdBytes]
  BY <1>1, <1>2 DEF IdBytes
<1>4. Uid(c) = [i \in 1 .. n |-> <<c.id, i>>]
  BY DEF Uid, n
<1>5. Uid(c) \in Seq(IdBytes) /\ Len(Uid(c)) = n
  BY <1>2, <1>3, <1>4
<1> QED BY <1>1, <1>5 DEF n

(* A level that is not the last adds the next three bytes. *)
LEMMA CascadeLevel ==
    ASSUME NEW c \in Cards, NEW l \in 1 .. 3, l < c.levels
    PROVE  SubSeq(Uid(c), 1, 3 * (l - 1)) \o SubSeq(LevelBytes(c, l), 2, 4)
             = SubSeq(Uid(c), 1, 3 * l)
<1> DEFINE u == Uid(c)
           s == SubSeq(u, 3 * l - 2, 3 * l)
<1>1. u \in Seq(IdBytes) /\ Len(u) = 3 * c.levels + 1 /\ c.levels \in 1 .. 3
  BY UidType
<1>2. LevelBytes(c, l) = <<CT>> \o s
  BY <1>1 DEF LevelBytes
<1> HIDE DEF u
<1>3. s \in Seq(IdBytes) /\ Len(s) = 3
  <2>1. \A i \in 3 * l - 2 .. 3 * l : u[i] \in IdBytes
    BY <1>1
  <2> QED BY <2>1, SubSeqProperties
<1> HIDE DEF s
<1>4. <<CT>> \in Seq(IdBytes) /\ Len(<<CT>>) = 1
  BY DEF IdBytes
<1>5. SubSeq(<<CT>> \o s, 2, 4) = SubSeq(s, 1, 3)
  <2> DEFINE mark == <<CT>>
  <2>1. mark \in Seq(IdBytes) /\ Len(mark) = 1
    BY <1>4
  <2> HIDE DEF mark
  <2>2. /\ 2 \in Len(mark) + 1 .. Len(mark) + Len(s)
        /\ 4 \in Len(mark) + 1 .. Len(mark) + Len(s)
        /\ 2 - Len(mark) = 1 /\ 4 - Len(mark) = 3
    BY <1>3, <2>1
  <2>3. SubSeq(mark \o s, 2, 4) = SubSeq(s, 2 - Len(mark), 4 - Len(mark))
    BY <1>3, <2>1, <2>2, SubSeqOfConcat2
  <2> QED BY <2>2, <2>3 DEF mark
<1>6. SubSeq(s, 1, 3) = s
  BY <1>3, SubSeqFull
<1>7. SubSeq(u, 1, 3 * (l - 1)) \o SubSeq(u, 3 * (l - 1) + 1, 3 * l)
        = SubSeq(u, 1, 3 * l)
  <2> DEFINE k == 3 * (l - 1)
             n == 3 * l
  <2>1. k \in 0 .. Len(u) /\ n \in k .. Len(u) /\ 1 \in 1 .. Len(u) + 1
    BY <1>1
  <2> HIDE DEF k, n
  <2>2. SubSeq(u, 1, k) \o SubSeq(u, k + 1, n) = SubSeq(u, 1, n)
    BY <1>1, <2>1, ConcatAdjacentSubSeq
  <2> QED BY <2>2 DEF k, n
<1>8. 3 * (l - 1) + 1 = 3 * l - 2
  OBVIOUS
<1> QED BY <1>2, <1>5, <1>6, <1>7, <1>8 DEF u, s

(* The last level completes it. *)
LEMMA LastLevel ==
    ASSUME NEW c \in Cards
    PROVE  SubSeq(Uid(c), 1, 3 * (c.levels - 1)) \o LevelBytes(c, c.levels)
             = Uid(c)
<1> DEFINE u == Uid(c)
           k == 3 * (c.levels - 1)
           n == 3 * c.levels + 1
<1>1. u \in Seq(IdBytes) /\ Len(u) = n /\ c.levels \in 1 .. 3
  BY UidType
<1>2. LevelBytes(c, c.levels) = SubSeq(u, k + 1, n)
  <2>1. 3 * c.levels - 2 = k + 1
    BY <1>1
  <2> QED BY <2>1 DEF LevelBytes
<1>3. k \in 0 .. Len(u) /\ n \in k .. Len(u) /\ 1 \in 1 .. Len(u) + 1
  BY <1>1
<1> HIDE DEF u, k, n
<1>4. SubSeq(u, 1, k) \o SubSeq(u, k + 1, n) = SubSeq(u, 1, n)
  BY <1>1, <1>3, ConcatAdjacentSubSeq
<1>5. SubSeq(u, 1, n) = u
  BY <1>1, SubSeqFull
<1> QED BY <1>2, <1>4, <1>5 DEF u, k

-------------------------------------------------------------------------------
(* The inductive form of Identified: while levels are read, the NFCID is    *)
(* that of the levels done, and a card in the ready state is the one that   *)
(* was woken up.                                                            *)

SakOf(c) == IF c.tcl THEN "tcl" ELSE "plain"

Collecting ==
    /\ woken \in Cards
    /\ level \in 1 .. 3 /\ uidSize \in 1 .. 3
    /\ ~misled => /\ uidSize = woken.levels
                  /\ level <= uidSize
                  /\ nfcid = SubSeq(Uid(woken), 1, 3 * (level - 1))

IdentityInv ==
    /\ pc \in {"poll", "opened", "sleep"} \cup Exchanges
    /\ pc = "opened" => state = "SELECTED"
    /\ pc \in {"poll", "sleep"} => state = "POWER_OFF"
    /\ pc \in {"anticoll", "select"} => Collecting
    /\ pc \in {"anticoll", "select"} /\ cardAt = "ready" => card = woken
    /\ pc \in {"rats", "opened"} /\ ~misled =>
          nfcid = Uid(woken) /\ sak = SakOf(woken)

LEMMA IdentityWakeUp ==
    ASSUME IdentityInv, WakeUp, card \in Cards
    PROVE  IdentityInv'
<1>1. /\ pc' = "anticoll" /\ woken' = card /\ card' = card /\ level' = 1
      /\ nfcid' = <<>> /\ uidSize' \in 1 .. 3
      /\ misled' = (uidSize' # card.levels)
  BY DEF WakeUp
<1>2. SubSeq(Uid(card), 1, 3 * (1 - 1)) = <<>>
  BY SubSeqEmpty
<1>3. Collecting'
  <2>1. ASSUME ~misled'
        PROVE  /\ uidSize' = woken'.levels
               /\ level' <= uidSize'
               /\ nfcid' = SubSeq(Uid(woken'), 1, 3 * (level' - 1))
    <3>1. uidSize' = card.levels
      BY <1>1, <2>1, Zenon
    <3>2. woken' = card /\ level' = 1 /\ nfcid' = <<>> /\ uidSize' \in 1 .. 3
      BY <1>1
    <3> QED BY <1>2, <3>1, <3>2 DEF Uid
  <2> QED BY <1>1, <2>1 DEF Collecting, Uid
<1> QED BY <1>1, <1>3 DEF IdentityInv, Exchanges

LEMMA IdentitySelect ==
    ASSUME IdentityInv, Select
    PROVE  IdentityInv'
<1>1. /\ pc = "select" /\ cardAt = "ready" /\ buf = LevelBytes(card, level)
      /\ woken' = woken /\ uidSize' = uidSize /\ card' = card
  BY DEF Select
<1>2. Collecting /\ card = woken
  BY <1>1 DEF IdentityInv
<1>3. woken.levels \in 1 .. 3
  BY <1>2, UidType DEF Collecting
<1>4. PICK cascade \in BOOLEAN :
          /\ level < card.levels => cascade
          /\ KeepLevel(cascade)
          /\ misled' = (misled \/ (cascade /\ level = card.levels))
  BY DEF Select
<1>5. ASSUME ~misled'
      PROVE  ~misled /\ (cascade <=> level < woken.levels)
  <2>1. ~misled /\ ~(cascade /\ level = card.levels)
    BY <1>4, <1>5
  <2>2. level <= woken.levels /\ level \in 1 .. 3
    BY <1>2, <2>1 DEF Collecting
  <2> QED BY <1>2, <1>3, <1>4, <2>1, <2>2
<1>6. CASE level < uidSize
  <2>1. level' = level + 1 /\ pc' = "anticoll"
    BY <1>6 DEF Select
  <2>2. ASSUME ~misled'
        PROVE  /\ uidSize = woken.levels
               /\ level' <= uidSize'
               /\ nfcid' = SubSeq(Uid(woken), 1, 3 * (level' - 1))
    <3>1. ~misled /\ uidSize = woken.levels /\ level \in 1 .. 3
      BY <1>2, <1>5, <2>2 DEF Collecting
    <3>2. cascade
      BY <1>5, <1>6, <2>2, <3>1
    <3>3. nfcid' = nfcid \o SubSeq(buf, 2, 4)
      BY <1>4, <3>2 DEF KeepLevel
    <3>4. nfcid' = SubSeq(Uid(woken), 1, 3 * level)
      BY <1>1, <1>2, <1>6, <3>1, <3>3, CascadeLevel DEF Collecting
    <3>5. level' - 1 = level /\ level' <= uidSize'
      BY <1>1, <1>3, <1>6, <2>1, <3>1
    <3> QED BY <3>1, <3>4, <3>5
  <2>3. level' \in 1 .. 3
    <3>1. uidSize \in 1 .. 3
      BY <1>2 DEF Collecting
    <3> QED BY <1>2, <1>6, <2>1, <3>1 DEF Collecting
  <2>4. Collecting'
    BY <1>1, <1>2, <2>2, <2>3 DEF Collecting, Uid
  <2> QED BY <1>1, <1>2, <2>1, <2>4 DEF IdentityInv, Exchanges
<1>7. CASE ~(level < uidSize)
  <2>1. \/ pc' = "rats"
        \/ pc' = "opened" /\ state' = "SELECTED"
    BY <1>7 DEF Select, EndOfLevels, Selected
  <2>2. ASSUME ~misled'
        PROVE  nfcid' = Uid(woken) /\ sak' = SakOf(woken)
    <3>1. /\ ~misled /\ uidSize = woken.levels /\ level \in 1 .. 3
          /\ level <= uidSize
          /\ nfcid = SubSeq(Uid(woken), 1, 3 * (level - 1))
      BY <1>2, <1>5, <2>2 DEF Collecting
    <3>2. level = woken.levels
      BY <1>3, <1>7, <3>1
    <3>3. ~cascade
      BY <1>3, <1>5, <2>2, <3>2
    <3>4. nfcid' = nfcid \o buf /\ sak' = SakOf(card)
      BY <1>4, <3>3 DEF KeepLevel, SakOf
    <3>5. nfcid' = Uid(woken)
      BY <1>1, <1>2, <3>1, <3>2, <3>4, LastLevel DEF Collecting
    <3> QED BY <1>2, <3>4, <3>5
  <2> QED BY <1>1, <2>1, <2>2 DEF IdentityInv, Exchanges, SakOf, Uid
<1> QED BY <1>6, <1>7

LEMMA IdentityNext ==
    ASSUME IdentityInv, [Next]_vars, card \in Cards \cup {NoCard}
    PROVE  IdentityInv'
<1> USE DEF Exchanges
<1>1. CASE Open
  BY <1>1 DEF Open, IdentityInv, threadVars, cardVars
<1>2. CASE OpenMissing
  BY <1>2 DEF OpenMissing, IdentityInv, threadVars, cardVars, driverVars
<1>3. CASE OpenError
  BY <1>3 DEF OpenError, IdentityInv, threadVars
<1>4. CASE WakeUp
  BY <1>4, IdentityWakeUp DEF WakeUp
<1>5. CASE Anticollision
  <2>1. /\ pc = "anticoll" /\ pc' = "select" /\ UNCHANGED <<cardVars, woken>>
        /\ UNCHANGED <<driverVars, uidSize, level, misled>>
    BY <1>5 DEF Anticollision
  <2>2. Collecting'
    BY <2>1 DEF IdentityInv, Collecting, Uid, driverVars
  <2> QED BY <2>1, <2>2 DEF IdentityInv, cardVars, driverVars
<1>6. CASE Select
  BY <1>6, IdentitySelect
<1>7. CASE Rats
  BY <1>7 DEF Rats, Selected, IdentityInv, threadVars, Uid, SakOf
<1>8. CASE Close
  BY <1>8 DEF Close, IdentityInv
<1>9. CASE Wake
  BY <1>9 DEF Wake, IdentityInv, threadVars, cardVars, driverVars
<1>10. CASE Swap
  <2>1. /\ cardAt' = "idle"
        /\ UNCHANGED <<driverVars, pc, threadVars, woken, misled>>
    BY <1>10 DEF Swap
  <2>2. Collecting => Collecting'
    BY <2>1 DEF Collecting, driverVars, threadVars, Uid
  <2> QED BY <2>1, <2>2 DEF IdentityInv, driverVars, threadVars, Uid, SakOf
<1>11. CASE UNCHANGED vars
  <2>1. Collecting => Collecting'
    BY <1>11 DEF Collecting, vars, driverVars, threadVars, Uid
  <2> QED
    BY <1>11, <2>1 DEF IdentityInv, vars, driverVars, threadVars, cardVars,
       Uid, SakOf
<1> QED
  BY <1>1, <1>2, <1>3, <1>4, <1>5, <1>6, <1>7, <1>8, <1>9, <1>10, <1>11
  DEF Next, Activate

LEMMA CardInv ==
    card \in Cards \cup {NoCard} /\ [Next]_vars
      => card' \in Cards \cup {NoCard}
  BY DEF Next, Activate, Open, OpenMissing, OpenError, WakeUp, Anticollision,
     Select, Rats, Close, Wake, Swap, vars, cardVars

(* The NFCID reported is that of the one card that was woken up, byte for   *)
(* byte, and the SAK is its SAK, for any set of cards and whatever happened *)
(* before, unless an answer that nothing protects was corrupted.            *)
THEOREM ReportIdentifiesTheCard == Spec => []Identified
<1> DEFINE Inv == IdentityInv /\ card \in Cards \cup {NoCard}
<1>1. Init => Inv
  BY DEF Init, IdentityInv, Exchanges
<1>2. Inv /\ [Next]_vars => Inv'
  BY IdentityNext, CardInv
<1>3. Inv => Identified
  BY DEF IdentityInv, Identified, SakOf
<1> QED BY <1>1, <1>2, <1>3, PTL DEF Spec

-------------------------------------------------------------------------------
(* A card that has left the idle state is the one that was woken up, and    *)
(* RATS is sent only to one taken for T=CL.                                 *)
ActiveInv ==
    /\ pc \in {"poll", "sleep", "wupa"} => cardAt = "idle"
    /\ cardAt # "idle" => card = woken /\ card # NoCard
    /\ pc = "rats" => IsTcl(sak)

LEMMA ActiveInvNext == IdentityInv /\ ActiveInv /\ [Next]_vars => ActiveInv'
<1> SUFFICES ASSUME IdentityInv, ActiveInv, [Next]_vars PROVE ActiveInv'
  OBVIOUS
<1> USE DEF ActiveInv, Exchanges, IsTcl
<1>1. CASE Open
  BY <1>1 DEF Open, cardVars, IdentityInv
<1>2. CASE OpenMissing
  BY <1>2 DEF OpenMissing, cardVars, driverVars
<1>3. CASE OpenError
  BY <1>3 DEF OpenError
<1>4. CASE WakeUp
  BY <1>4 DEF WakeUp
<1>5. CASE Anticollision
  BY <1>5 DEF Anticollision, cardVars, driverVars
<1>6. CASE Select
  <2>1. pc' \in {"anticoll", "rats", "opened"} /\ (pc' = "rats" => IsTcl(sak'))
    BY <1>6 DEF Select, EndOfLevels, Selected
  <2>2. cardAt = "ready" /\ card' = card /\ woken' = woken
    BY <1>6 DEF Select
  <2> QED BY <2>1, <2>2
<1>7. CASE Rats
  BY <1>7 DEF Rats, Selected
<1>8. CASE Close
  BY <1>8 DEF Close
<1>9. CASE Wake
  BY <1>9 DEF Wake, cardVars, driverVars
<1>10. CASE Swap
  BY <1>10 DEF Swap, driverVars
<1>11. CASE UNCHANGED vars
  BY <1>11 DEF vars, cardVars, driverVars
<1> QED
  BY <1>1, <1>2, <1>3, <1>4, <1>5, <1>6, <1>7, <1>8, <1>9, <1>10, <1>11
  DEF Next, Activate

(* What the last steps of an activation establish. *)

LEMMA ReadySelect ==
    ASSUME IdentityInv, ActiveInv, Select, pc' = "opened"
    PROVE  Ready' /\ ~IsTcl(sak')
<1>1. /\ pc = "select" /\ cardAt = "ready" /\ woken' = woken /\ card' = card
      /\ ~(level < uidSize)
      /\ level = card.levels => cardAt' = "active"
  BY DEF Select
<1>2. ~IsTcl(sak')
  BY <1>1 DEF Select, EndOfLevels, Selected
<1>3. Collecting /\ card = woken
  BY <1>1 DEF IdentityInv
<1>4. ~misled' => ~misled
  <2>1. PICK cascade \in BOOLEAN :
            misled' = (misled \/ (cascade /\ level = card.levels))
    BY DEF Select
  <2> QED BY <2>1, Zenon
<1>5. ~misled' => cardAt' = "active"
  <2> SUFFICES ASSUME ~misled' PROVE cardAt' = "active"
    OBVIOUS
  <2>1. /\ uidSize = woken.levels /\ level <= uidSize
        /\ level \in 1 .. 3 /\ uidSize \in 1 .. 3
    BY <1>3, <1>4 DEF Collecting
  <2>2. level = card.levels
    BY <1>1, <1>3, <2>1
  <2> QED BY <1>1, <2>2
<1> QED BY <1>2, <1>5 DEF Ready

LEMMA TimesOfTable ==
    ASSUME NEW fwi \in 0 .. 15
    PROVE  fwi2fw(fwi) \in {WaitingTimes[i] : i \in 1 .. LastTime + 1}
<1> DEFINE i == (IF fwi < LastTime THEN fwi ELSE LastTime) + 1
<1>1. i \in 1 .. LastTime + 1
  BY DEF LastTime
<1>2. fwi2fw(fwi) = WaitingTimes[i]
  BY DEF fwi2fw
<1> HIDE DEF i
<1> QED BY <1>1, <1>2

LEMMA TimeOfCode ==
    ASSUME NEW fwi \in 0 .. 15
    PROVE  LongEnough(fwi2fw(fwi), fwi)
<1>1. CASE fwi \in 0 .. 7
  BY <1>1, SMT DEF LongEnough, fwi2fw, WaitingTimes, LastTime, Powers
<1>2. CASE fwi \in 8 .. 15
  BY <1>2, SMT DEF LongEnough, fwi2fw, WaitingTimes, LastTime, Powers
<1> QED BY <1>1, <1>2

LEMMA TimingRats ==
    ASSUME IdentityInv, ActiveInv, Rats, card \in Cards
    PROVE  TimingOfCard'
<1>1. /\ pc = "rats" /\ cardAt = "active" /\ card = woken /\ woken' = woken
  BY DEF Rats, ActiveInv
<1>2. PICK c \in Cards : ParseAts(c.ats) /\ misled' = (misled \/ c.ats # card.ats)
  BY DEF Rats
<1> DEFINE a == c.ats
           fwi == IF a.size > 1 /\ a.tb THEN a.bytes[IF a.ta THEN 2 ELSE 1]
                                        ELSE 8
<1>3. /\ a.bytes \in Seq(0 .. 15)
      /\ a.tb => Len(a.bytes) = IF a.ta THEN 2 ELSE 1
  BY CardsAssumption DEF CardOf, AtsOf
<1>4. fwi \in 0 .. 15
  BY <1>3
<1>5. fwt' = fwi2fw(fwi)
  BY <1>2 DEF ParseAts
<1>6. fwt' \in {WaitingTimes[i] : i \in 1 .. LastTime + 1}
  BY <1>4, <1>5, TimesOfTable
<1>7. ASSUME ~misled', woken'.ats.size > 1
      PROVE  /\ woken'.ats.tb =>
                   LongEnough(fwt', woken'.ats.bytes[Len(woken'.ats.bytes)])
             /\ fsc' = fsci2fsc(woken'.ats.fsci)
  <2>1. c.ats = card.ats
    BY <1>2, <1>7, Zenon
  <2>2. woken'.ats = a
    BY <1>1, <2>1
  <2>3. fsc' = fsci2fsc(a.fsci)
    BY <1>2, <1>7, <2>2 DEF ParseAts
  <2>4. ASSUME a.tb PROVE fwt' = fwi2fw(a.bytes[Len(a.bytes)])
    BY <1>3, <1>5, <1>7, <2>2, <2>4
  <2>5. ASSUME woken'.ats.tb
        PROVE  LongEnough(fwt', woken'.ats.bytes[Len(woken'.ats.bytes)])
    <3>1. fwt' = fwi2fw(a.bytes[Len(a.bytes)])
      BY <2>2, <2>4, <2>5
    <3>2. a.bytes[Len(a.bytes)] \in 0 .. 15
      BY <1>3, <2>2, <2>5
    <3> QED BY <2>2, <3>1, <3>2, TimeOfCode
  <2> QED BY <2>2, <2>3, <2>5
<1> QED BY <1>6, <1>7 DEF TimingOfCard, LongEnough, WaitingTimes, LastTime, fsci2fsc

LEMMA OpenedNext ==
    ASSUME IdentityInv, ActiveInv, Ready, TimingOfCard, [Next]_vars,
           card \in Cards \cup {NoCard}
    PROVE  Ready' /\ TimingOfCard'
<1>1. CASE Select
  <2>1. CASE pc' = "opened"
    BY <1>1, <2>1, ReadySelect DEF TimingOfCard
  <2>2. CASE pc' # "opened"
    BY <2>2 DEF Ready, TimingOfCard
  <2> QED BY <2>1, <2>2
<1>2. CASE Rats
  <2>1. cardAt' = "protocol" /\ IsTcl(sak') /\ card \in Cards
    <3>1. pc = "rats" /\ cardAt' = "protocol" /\ sak' = sak /\ card = woken
      BY <1>2 DEF Rats, ActiveInv
    <3>2. card \in Cards
      BY <1>2 DEF Rats, ActiveInv
    <3> QED BY <3>1, <3>2 DEF ActiveInv, IsTcl
  <2> QED BY <1>2, <2>1, TimingRats DEF Ready
<1>3. CASE Swap
  <2>1. cardAt' = "idle" /\ UNCHANGED <<driverVars, pc, woken, misled>>
    BY <1>3 DEF Swap
  <2> QED BY <2>1 DEF Ready, TimingOfCard, driverVars, IsTcl
<1>4. CASE UNCHANGED vars
  BY <1>4 DEF vars, driverVars, cardVars, Ready, TimingOfCard, IsTcl
<1>5. CASE Open \/ OpenMissing \/ OpenError \/ WakeUp \/ Anticollision
             \/ Close \/ Wake
  <2>1. pc' # "opened"
    BY <1>5 DEF Open, OpenMissing, OpenError, WakeUp, Anticollision, Close,
       Wake, IdentityInv
  <2> QED BY <2>1 DEF Ready, TimingOfCard
<1> QED BY <1>1, <1>2, <1>3, <1>4, <1>5 DEF Next, Activate

ActivationInv ==
    /\ card \in Cards \cup {NoCard}
    /\ IdentityInv /\ ActiveInv /\ Ready /\ TimingOfCard

LEMMA AlwaysActivation == Spec => []ActivationInv
<1>1. Init => ActivationInv
  BY DEF Init, ActivationInv, IdentityInv, ActiveInv, Ready, TimingOfCard,
     Exchanges
<1>2. ActivationInv /\ [Next]_vars => ActivationInv'
  BY IdentityNext, CardInv, ActiveInvNext, OpenedNext DEF ActivationInv
<1> QED BY <1>1, <1>2, PTL DEF Spec

(* A card reported as T=CL is in its block protocol if it is still there,   *)
(* for any set of cards and whatever was corrupted; a plain one is active   *)
(* as far as nothing was.                                                   *)
THEOREM OpenedCardIsReady == Spec => []Ready
<1>1. ActivationInv => Ready
  BY DEF ActivationInv
<1> QED BY <1>1, AlwaysActivation, PTL

(* The waiting time of an open T=CL card is at least the one it asked for   *)
(* and never one that is not of the table.                                  *)
THEOREM WaitsForTheCard == Spec => []TimingOfCard
<1>1. ActivationInv => TimingOfCard
  BY DEF ActivationInv
<1> QED BY <1>1, AlwaysActivation, PTL

-------------------------------------------------------------------------------
(* The bytes of u at the places 1 .. n, in order and none twice: s is made  *)
(* of such bytes only.                                                      *)
OrderedPart(s, u, n) ==
    \A i, j \in 1 .. Len(s) : i <= j =>
        \E k, l \in 1 .. n : /\ s[i] = u[k] /\ s[j] = u[l]
                             /\ i < j => k < l

(* The bytes at the places m + 1 .. m + Len(t) of u may follow a part that   *)
(* ends at m or before.                                                     *)
LEMMA PartGrows ==
    ASSUME NEW S, NEW s \in Seq(S), NEW t \in Seq(S), NEW u,
           NEW m \in Nat, NEW p \in Nat, m + Len(t) <= p,
           OrderedPart(s, u, m), \A i \in 1 .. Len(t) : t[i] = u[m + i]
    PROVE  s \o t \in Seq(S) /\ OrderedPart(s \o t, u, p)
<1> DEFINE w == s \o t
<1>1. /\ w \in Seq(S) /\ Len(w) = Len(s) + Len(t)
      /\ \A i \in 1 .. Len(s) : w[i] = s[i]
      /\ \A i \in 1 .. Len(t) : w[Len(s) + i] = t[i]
  OBVIOUS
<1>2. Len(s) \in Nat /\ Len(t) \in Nat
  OBVIOUS
<1> HIDE DEF w
<1>3. ASSUME NEW i \in 1 .. Len(w), NEW j \in 1 .. Len(w), i <= j
      PROVE  \E k, l \in 1 .. p : /\ w[i] = u[k] /\ w[j] = u[l]
                                  /\ i < j => k < l
  <2>1. CASE j <= Len(s)
    <3>1. i \in 1 .. Len(s) /\ j \in 1 .. Len(s)
      BY <1>1, <1>2, <1>3, <2>1
    <3>2. PICK k \in 1 .. m, l \in 1 .. m :
              s[i] = u[k] /\ s[j] = u[l] /\ (i < j => k < l)
      BY <1>3, <3>1 DEF OrderedPart
    <3>3. k \in 1 .. p /\ l \in 1 .. p
      BY <1>2
    <3> QED BY <1>1, <3>1, <3>2, <3>3
  <2>2. CASE i <= Len(s) /\ j > Len(s)
    <3>1. i \in 1 .. Len(s) /\ j - Len(s) \in 1 .. Len(t)
      BY <1>1, <1>2, <1>3, <2>2
    <3>2. PICK k \in 1 .. m : s[i] = u[k]
      BY <3>1 DEF OrderedPart
    <3> DEFINE l == m + (j - Len(s))
    <3>3. k \in 1 .. p /\ l \in 1 .. p /\ k < l
      BY <1>2, <3>1
    <3>4. w[j] = u[l]
      <4>1. w[Len(s) + (j - Len(s))] = t[j - Len(s)]
        BY <1>1, <3>1
      <4>2. Len(s) + (j - Len(s)) = j
        BY <1>2, <1>3
      <4> QED BY <3>1, <4>1, <4>2
    <3> HIDE DEF l
    <3> QED BY <1>1, <3>1, <3>2, <3>3, <3>4
  <2>3. CASE i > Len(s)
    <3>1. i - Len(s) \in 1 .. Len(t) /\ j - Len(s) \in 1 .. Len(t)
      BY <1>1, <1>2, <1>3, <2>3
    <3> DEFINE k == m + (i - Len(s))
               l == m + (j - Len(s))
    <3>2. k \in 1 .. p /\ l \in 1 .. p /\ (i < j => k < l)
      BY <1>2, <1>3, <3>1
    <3>3. w[i] = u[k] /\ w[j] = u[l]
      <4>1. /\ w[Len(s) + (i - Len(s))] = t[i - Len(s)]
            /\ w[Len(s) + (j - Len(s))] = t[j - Len(s)]
        BY <1>1, <3>1
      <4>2. Len(s) + (i - Len(s)) = i /\ Len(s) + (j - Len(s)) = j
        BY <1>2, <1>3
      <4> QED BY <3>1, <4>1, <4>2
    <3> HIDE DEF k, l
    <3> QED BY <3>2, <3>3
  <2> QED BY <1>1, <1>2, <1>3, <2>1, <2>2, <2>3
<1> QED BY <1>1, <1>3 DEF OrderedPart, w

LEMMA PartWider ==
    ASSUME NEW s, NEW u, NEW m \in Nat, NEW n \in Nat, m <= n,
           OrderedPart(s, u, m)
    PROVE  OrderedPart(s, u, n)
  BY DEF OrderedPart

(* The bytes of a level, whole and without the first. *)
LEMMA LevelPart ==
    ASSUME NEW c \in Cards, NEW l \in 1 .. 3, l <= c.levels
    PROVE  LET b == LevelBytes(c, l)
               t == SubSeq(b, 2, 4)
           IN /\ b \in Seq(IdBytes) /\ Len(b) = 4
              /\ t \in Seq(IdBytes) /\ Len(t) = 3
              /\ \A i \in 1 .. 3 :
                    t[i] = Uid(c)[(IF l = c.levels THEN 3 * l - 2
                                                   ELSE 3 * (l - 1)) + i]
              /\ l = c.levels =>
                    \A i \in 1 .. 4 : b[i] = Uid(c)[3 * (l - 1) + i]
<1> DEFINE u == Uid(c)
           b == LevelBytes(c, l)
           t == SubSeq(b, 2, 4)
<1>1. u \in Seq(IdBytes) /\ Len(u) = 3 * c.levels + 1 /\ c.levels \in 1 .. 3
  BY UidType
<1>2. CASE l = c.levels
  <2>1. b = SubSeq(u, 3 * l - 2, 3 * l + 1)
    BY <1>2 DEF LevelBytes
  <2> HIDE DEF u
  <2>2. /\ b \in Seq(IdBytes) /\ Len(b) = 4
        /\ \A i \in 1 .. 4 : b[i] = u[3 * l - 2 + i - 1]
    <3>1. \A i \in 3 * l - 2 .. 3 * l + 1 : u[i] \in IdBytes
      BY <1>1, <1>2
    <3> QED BY <2>1, <3>1, SubSeqProperties
  <2> HIDE DEF b
  <2>3. /\ t \in Seq(IdBytes) /\ Len(t) = 3
        /\ \A i \in 1 .. 3 : t[i] = b[i + 1]
    <3>1. \A i \in 2 .. 4 : b[i] \in IdBytes
      <4>1. \A i \in 2 .. 4 : i \in 1 .. Len(b)
        BY <2>2
      <4> QED BY <2>2, <4>1, ElementOfSeq
    <3>2. \A i \in 1 .. 3 : 2 + i - 1 = i + 1
      OBVIOUS
    <3> QED BY <3>1, <3>2, SubSeqProperties
  <2> HIDE DEF t
  <2>4. \A i \in 1 .. 3 : t[i] = u[3 * l - 2 + i]
    <3> TAKE i \in 1 .. 3
    <3>1. t[i] = b[i + 1] /\ i + 1 \in 1 .. 4
      BY <2>3
    <3>2. b[i + 1] = u[3 * l - 2 + (i + 1) - 1]
      BY <2>2, <3>1
    <3>3. 3 * l - 2 + (i + 1) - 1 = 3 * l - 2 + i
      OBVIOUS
    <3> QED BY <3>1, <3>2, <3>3
  <2>5. \A i \in 1 .. 4 : b[i] = u[3 * (l - 1) + i]
    <3> TAKE i \in 1 .. 4
    <3>1. 3 * l - 2 + i - 1 = 3 * (l - 1) + i
      OBVIOUS
    <3> QED BY <2>2, <3>1
  <2> QED BY <1>2, <2>2, <2>3, <2>4, <2>5 DEF u, b, t
<1>3. CASE l # c.levels
  <2> DEFINE v == SubSeq(u, 3 * l - 2, 3 * l)
  <2>1. b = <<CT>> \o v
    BY <1>3 DEF LevelBytes
  <2> HIDE DEF u
  <2>2. /\ v \in Seq(IdBytes) /\ Len(v) = 3
        /\ \A i \in 1 .. 3 : v[i] = u[3 * l - 2 + i - 1]
    BY <1>1, <1>3
  <2> HIDE DEF v
  <2>3. CT \in IdBytes
    BY DEF IdBytes
  <2>4. /\ b \in Seq(IdBytes) /\ Len(b) = 4
        /\ \A i \in 1 .. 3 : b[i + 1] = v[i]
    <3> DEFINE mark == <<CT>>
    <3>1. mark \in Seq(IdBytes) /\ Len(mark) = 1
      BY <2>3
    <3>2. b = mark \o v
      BY <2>1
    <3> HIDE DEF mark
    <3>3. /\ mark \o v \in Seq(IdBytes) /\ Len(mark \o v) = 4
          /\ \A i \in 1 .. 3 : (mark \o v)[i + 1] = v[i]
      <4> DEFINE w == mark \o v
      <4>1. /\ w \in Seq(IdBytes) /\ Len(w) = Len(mark) + Len(v)
            /\ \A i \in 1 .. Len(mark) + Len(v) :
                  w[i] = IF i <= Len(mark) THEN mark[i] ELSE v[i - Len(mark)]
        BY <2>2, <3>1, ConcatProperties
      <4> HIDE DEF w
      <4>2. \A i \in 1 .. 3 : i + 1 \in 1 .. 4 /\ ~(i + 1 <= 1) /\ i + 1 - 1 = i
        OBVIOUS
      <4>3. Len(w) = 4 /\ \A i \in 1 .. 3 : w[i + 1] = v[i]
        BY <2>2, <3>1, <4>1, <4>2
      <4> QED BY <4>1, <4>3 DEF w
    <3> QED BY <3>2, <3>3
  <2> HIDE DEF b
  <2>5. /\ t \in Seq(IdBytes) /\ Len(t) = 3
        /\ \A i \in 1 .. 3 : t[i] = b[i + 1]
    <3>1. \A i \in 2 .. 4 : b[i] \in IdBytes
      <4>1. \A i \in 2 .. 4 : i \in 1 .. Len(b)
        BY <2>4
      <4> QED BY <2>4, <4>1, ElementOfSeq
    <3>2. \A i \in 1 .. 3 : 2 + i - 1 = i + 1
      OBVIOUS
    <3> QED BY <3>1, <3>2, SubSeqProperties
  <2> HIDE DEF t
  <2>6. \A i \in 1 .. 3 : t[i] = u[3 * (l - 1) + i]
    <3> TAKE i \in 1 .. 3
    <3>1. t[i] = u[3 * l - 2 + i - 1]
      BY <2>2, <2>4, <2>5
    <3>2. 3 * l - 2 + i - 1 = 3 * (l - 1) + i
      OBVIOUS
    <3> QED BY <3>1, <3>2
  <2> QED BY <1>3, <2>4, <2>5, <2>6 DEF u, b, t
<1> QED BY <1>2, <1>3

(* The inductive form of OnlyItsOwnBytes: as long as a card is ready for    *)
(* the next level, the NFCID holds bytes of the levels before only.         *)
Reading == pc \in {"anticoll", "select"} /\ cardAt = "ready"
PartInv ==
    /\ nfcid \in Seq(IdBytes) /\ Len(nfcid) <= 10
    /\ pc \in {"anticoll", "select", "rats", "opened"} =>
          /\ woken \in Cards
          /\ OrderedPart(nfcid, Uid(woken), 3 * woken.levels + 1)
    /\ Reading => /\ level \in 1 .. 3 /\ level <= woken.levels
                  /\ Len(nfcid) <= 3 * (level - 1)
                  /\ OrderedPart(nfcid, Uid(woken), 3 * (level - 1))

LEMMA PartSelect ==
    ASSUME PartInv, ActiveInv, Select
    PROVE  PartInv'
<1>1. /\ pc = "select" /\ Reading /\ card = woken /\ woken \in Cards
      /\ buf = LevelBytes(woken, level) /\ woken' = woken
      /\ level \in 1 .. 3 /\ level <= woken.levels
  BY DEF Select, PartInv, ActiveInv, Reading
<1>2. /\ nfcid \in Seq(IdBytes) /\ Len(nfcid) <= 3 * (level - 1)
      /\ OrderedPart(nfcid, Uid(woken), 3 * (level - 1))
  BY <1>1 DEF PartInv
<1>3. woken.levels \in 1 .. 3
  BY <1>1, UidType
<1>4. PICK cascade \in BOOLEAN : (level < card.levels => cascade) /\ KeepLevel(cascade)
  BY DEF Select
<1> DEFINE u == Uid(woken)
           t == IF cascade THEN SubSeq(buf, 2, 4) ELSE buf
           m == IF cascade /\ level = woken.levels THEN 3 * level - 2
                                                   ELSE 3 * (level - 1)
<1>5. nfcid' = nfcid \o t
  BY <1>4 DEF KeepLevel
<1>6. /\ t \in Seq(IdBytes) /\ Len(t) <= 4
      /\ \A i \in 1 .. Len(t) : t[i] = u[m + i]
      /\ m + Len(t) <= 3 * woken.levels + 1
      /\ level < woken.levels => m + Len(t) <= 3 * level /\ Len(t) = 3
  <2>1. CASE cascade
    BY <1>1, <1>3, <2>1, LevelPart
  <2>2. CASE ~cascade
    <3>1. level = woken.levels /\ t = buf /\ m = 3 * (level - 1)
      BY <1>1, <1>3, <1>4, <2>2
    <3>2. /\ buf \in Seq(IdBytes) /\ Len(buf) = 4
          /\ \A i \in 1 .. 4 : buf[i] = u[3 * (level - 1) + i]
      BY <1>1, <3>1, LevelPart
    <3>3. 3 * (level - 1) + 4 <= 3 * woken.levels + 1
      BY <1>1, <1>3, <3>1
    <3>4. ~(level < woken.levels)
      BY <1>1, <1>3, <3>1
    <3> HIDE DEF t, m, u
    <3> QED BY <3>1, <3>2, <3>3, <3>4
  <2> QED BY <2>1, <2>2
<1>7. m \in Nat /\ 3 * (level - 1) <= m /\ 3 * (level - 1) \in Nat
  BY <1>1
<1> HIDE DEF t, m, u
<1>8. OrderedPart(nfcid, u, m)
  BY <1>2, <1>7, PartWider DEF u
<1>9. /\ nfcid' \in Seq(IdBytes)
      /\ OrderedPart(nfcid', u, 3 * woken.levels + 1)
      /\ level < woken.levels => OrderedPart(nfcid', u, 3 * level)
  BY <1>1, <1>2, <1>3, <1>5, <1>6, <1>7, <1>8, PartGrows
<1>10. /\ Len(nfcid') = Len(nfcid) + Len(t)
       /\ Len(nfcid') <= 10
       /\ level < woken.levels => Len(nfcid') <= 3 * level
  <2>1. Len(nfcid') = Len(nfcid) + Len(t)
    BY <1>2, <1>5, <1>6
  <2>2. Len(nfcid) \in Nat /\ Len(t) \in Nat
    BY <1>2, <1>6
  <2> QED BY <1>1, <1>2, <1>6, <2>1, <2>2
<1>11. ASSUME Reading'
       PROVE  level' = level + 1 /\ level < woken.levels
  <2>1. pc' = "anticoll" /\ cardAt' = "ready"
    BY <1>11 DEF Reading, Select, EndOfLevels, Selected
  <2>2. level' = level + 1
    BY <2>1 DEF Select, EndOfLevels, Selected
  <2>3. level # woken.levels
    BY <1>1, <2>1 DEF Select
  <2> QED BY <1>1, <1>3, <2>2, <2>3
<1>12. \/ level' \in 1 .. 3 /\ level' <= woken'.levels /\ level' - 1 = level
       \/ ~Reading'
  BY <1>1, <1>3, <1>11
<1> QED BY <1>1, <1>9, <1>10, <1>11, <1>12 DEF PartInv, u, Uid

LEMMA PartInvNext ==
    ASSUME PartInv, ActiveInv, IdentityInv, [Next]_vars,
           card \in Cards \cup {NoCard}
    PROVE  PartInv'
<1> USE DEF Exchanges
<1>1. CASE Open
  BY <1>1 DEF Open, PartInv, Reading, IdentityInv, threadVars, cardVars
<1>2. CASE OpenMissing
  BY <1>2 DEF OpenMissing, PartInv, Reading, threadVars, cardVars, driverVars
<1>3. CASE OpenError
  BY <1>3 DEF OpenError, PartInv, Reading
<1>4. CASE WakeUp
  <2>1. /\ pc' = "anticoll" /\ woken' = card /\ level' = 1 /\ nfcid' = <<>>
        /\ card \in Cards
    BY <1>4 DEF WakeUp
  <2>2. 1 <= card.levels
    BY <2>1, UidType
  <2>3. OrderedPart(<<>>, Uid(card), 3 * card.levels + 1) /\ OrderedPart(<<>>, Uid(card), 0)
    BY DEF OrderedPart
  <2>4. 3 * (1 - 1) = 0 /\ <<>> \in Seq(IdBytes) /\ Len(<<>>) = 0
    OBVIOUS
  <2> QED BY <2>1, <2>2, <2>3, <2>4 DEF PartInv, Reading, Uid
<1>5. CASE Anticollision
  BY <1>5 DEF Anticollision, PartInv, Reading, cardVars, driverVars, Uid
<1>6. CASE Select
  BY <1>6, PartSelect
<1>7. CASE Rats
  BY <1>7 DEF Rats, Selected, PartInv, Reading, Uid
<1>8. CASE Close
  BY <1>8 DEF Close, PartInv, Reading
<1>9. CASE Wake
  BY <1>9 DEF Wake, PartInv, Reading, driverVars
<1>10. CASE Swap
  BY <1>10 DEF Swap, PartInv, Reading, driverVars, Uid
<1>11. CASE UNCHANGED vars
  BY <1>11 DEF vars, PartInv, Reading, driverVars, threadVars, cardVars, Uid
<1> QED
  BY <1>1, <1>2, <1>3, <1>4, <1>5, <1>6, <1>7, <1>8, <1>9, <1>10, <1>11
  DEF Next, Activate

LEMMA AlwaysPart == Spec => []PartInv
<1>1. Init => PartInv
  BY DEF Init, PartInv, Reading
<1>2. ActivationInv /\ PartInv /\ [Next]_vars => PartInv'
  BY PartInvNext DEF ActivationInv
<1> QED BY <1>1, <1>2, AlwaysActivation, PTL DEF Spec

(* Every byte of a reported NFCID is one of the card that was woken up, in  *)
(* order and none twice, for any set of cards and whatever was corrupted.   *)
THEOREM NoForeignByte == Spec => []OnlyItsOwnBytes
<1>1. PartInv => OnlyItsOwnBytes
  <2> SUFFICES ASSUME PartInv, pc = "opened",
                      NEW i \in DOMAIN nfcid, NEW j \in DOMAIN nfcid, i <= j
               PROVE  \E k, l \in DOMAIN Uid(woken) :
                         /\ nfcid[i] = Uid(woken)[k]
                         /\ nfcid[j] = Uid(woken)[l]
                         /\ i < j => k < l
    BY DEF OnlyItsOwnBytes
  <2>1. /\ woken \in Cards /\ nfcid \in Seq(IdBytes)
        /\ OrderedPart(nfcid, Uid(woken), 3 * woken.levels + 1)
    BY DEF PartInv
  <2>2. i \in 1 .. Len(nfcid) /\ j \in 1 .. Len(nfcid)
    BY <2>1
  <2>3. DOMAIN Uid(woken) = 1 .. 3 * woken.levels + 1
    BY DEF Uid
  <2> QED BY <2>1, <2>2, <2>3 DEF OrderedPart
<1> QED BY <1>1, AlwaysPart, PTL

-------------------------------------------------------------------------------
(* Types.  The length of the NFCID is PartInv's. *)

LEMMA TypeNext ==
    ASSUME TypeOK, PartInv, ActivationInv, PartInv', [Next]_vars
    PROVE  TypeOK'
<1>1. Len(nfcid') <= 10
  BY DEF PartInv
<1> USE <1>1 DEF TypeOK, Exchanges
<1>2. CASE Open
  <2>1. /\ state' \in {"POWER_OFF", "IDLE", "SELECTED"}
        /\ pc' \in {"wupa", "opened"} /\ rf' \in BOOLEAN
    BY <1>2 DEF Open
  <2>2. UNCHANGED <<nfcid, sak, fsc, fwt, threadVars, cardVars, woken, misled>>
    BY <1>2 DEF Open
  <2> QED BY <2>1, <2>2 DEF threadVars, cardVars
<1>3. CASE OpenMissing
  <2>1. pc' = "sleep" /\ rf' = FALSE
    BY <1>3 DEF OpenMissing
  <2>2. /\ UNCHANGED <<state, nfcid, sak, fsc, fwt>>
        /\ UNCHANGED <<uidSize, level, buf, card, cardAt, cardLevel, woken>>
        /\ misled' = misled
    BY <1>3 DEF OpenMissing, driverVars, threadVars, cardVars
  <2>3. rf' \in BOOLEAN /\ misled' \in BOOLEAN
    BY <2>1, <2>2, Zenon
  <2> QED BY <2>1, <2>2, <2>3
<1>4. CASE OpenError
  BY <1>4 DEF OpenError, threadVars
<1>5. CASE WakeUp
  <2>1. misled' \in BOOLEAN
    BY <1>5, Zenon DEF WakeUp
  <2> QED BY <1>5, <2>1 DEF WakeUp
<1>6. CASE Anticollision
  <2>1. card \in Cards /\ level \in 1 .. 3 /\ level <= card.levels
    <3>1. Reading /\ card = woken
      BY <1>6 DEF Anticollision, Reading, ActivationInv, ActiveInv
    <3> QED BY <3>1 DEF PartInv, Reading
  <2>2. Len(LevelBytes(card, level)) = 4
    BY <2>1, LevelPart
  <2>3. Garbage = [i \in 1 .. 4 |-> Junk] /\ Len(Garbage) = 4
    BY DEF Garbage
  <2>4. Len(buf') = 4
    BY <1>6, <2>2, <2>3 DEF Anticollision
  <2> QED BY <1>6, <2>4 DEF Anticollision, driverVars, cardVars
<1>7. CASE Select
  <2>1. /\ card' = card /\ woken' = woken /\ rf' = rf /\ buf' = buf
        /\ uidSize' = uidSize /\ fsc' = fsc /\ fwt' = fwt
    BY <1>7 DEF Select
  <2>2. misled' \in BOOLEAN /\ sak' \in {"tcl", "plain"}
    <3>1. PICK cascade \in BOOLEAN :
             /\ KeepLevel(cascade)
             /\ misled' = (misled \/ (cascade /\ level = card.levels))
      BY <1>7 DEF Select
    <3>2. misled' \in BOOLEAN
      BY <3>1, Zenon
    <3>3. sak' \in {"tcl", "plain"}
      BY <3>1 DEF KeepLevel
    <3> QED BY <3>2, <3>3
  <2>3. /\ state' \in {"POWER_OFF", "IDLE", "SELECTED"}
        /\ pc' \in {"anticoll", "rats", "opened"} /\ level' \in 1 .. 3
    BY <1>7 DEF Select, EndOfLevels, Selected
  <2>4. cardAt' \in {"ready", "active"} /\ cardLevel' \in 1 .. 3
    <3>1. /\ woken \in Cards /\ card = woken /\ level \in 1 .. 3
          /\ level <= woken.levels /\ cardAt = "ready"
      BY <1>7 DEF Select, PartInv, Reading, ActivationInv, ActiveInv
    <3>2. woken.levels \in 1 .. 3
      BY <3>1, UidType
    <3> QED BY <1>7, <3>1, <3>2 DEF Select
  <2> QED BY <2>1, <2>2, <2>3, <2>4
<1>8. CASE Rats
  <2>1. misled' \in BOOLEAN
    BY <1>8, Zenon DEF Rats
  <2>2. PICK c \in Cards : ParseAts(c.ats)
    BY <1>8 DEF Rats
  <2>3. fsc' \in {Junk, 16, 24, 32, 40, 48, 64, 96, 128, 256}
    <3>1. c.ats.fsci \in 0 .. 15
      BY CardsAssumption DEF CardOf, AtsOf
    <3>2. fsci2fsc(c.ats.fsci) \in {16, 24, 32, 40, 48, 64, 96, 128, 256}
      <4>1. \A i \in 1 .. 9 :
               FrameSizes[i] \in {16, 24, 32, 40, 48, 64, 96, 128, 256}
        BY DEF FrameSizes
      <4>2. PICK i \in 1 .. 9 : fsci2fsc(c.ats.fsci) = FrameSizes[i]
        BY <3>1 DEF fsci2fsc, LastSize
      <4> QED BY <4>1, <4>2
    <3> QED BY <2>2, <3>2 DEF ParseAts
  <2>4. fwt' \in Nat
    <3>1. fwt' = fwi2fw(IF c.ats.size > 1 /\ c.ats.tb
                          THEN c.ats.bytes[IF c.ats.ta THEN 2 ELSE 1] ELSE 8)
      BY <2>2 DEF ParseAts
    <3>2. /\ c.ats.bytes \in Seq(0 .. 15)
          /\ c.ats.tb => Len(c.ats.bytes) = IF c.ats.ta THEN 2 ELSE 1
      BY CardsAssumption DEF CardOf, AtsOf
    <3> DEFINE fwi == IF c.ats.size > 1 /\ c.ats.tb
                        THEN c.ats.bytes[IF c.ats.ta THEN 2 ELSE 1] ELSE 8
    <3>3. fwi \in 0 .. 15 /\ fwt' = fwi2fw(fwi)
      BY <3>1, <3>2
    <3> HIDE DEF fwi
    <3>4. fwt' \in {WaitingTimes[i] : i \in 1 .. LastTime + 1}
      BY <3>3, TimesOfTable
    <3> QED BY <3>4 DEF WaitingTimes, LastTime
  <2> QED
    BY <1>8, <2>1, <2>3, <2>4 DEF Rats, Selected, threadVars
<1>9. CASE Close
  BY <1>9 DEF Close, threadVars
<1>10. CASE Wake
  BY <1>10 DEF Wake, driverVars, threadVars, cardVars
<1>11. CASE Swap
  BY <1>11 DEF Swap, driverVars, threadVars
<1>12. CASE UNCHANGED vars
  BY <1>12 DEF vars, driverVars, threadVars, cardVars
<1> QED
  BY <1>2, <1>3, <1>4, <1>5, <1>6, <1>7, <1>8, <1>9, <1>10, <1>11, <1>12
  DEF Next, Activate

(* The variables of the thread, the driver and the card keep their types:   *)
(* the NFCID never outgrows its 10 bytes, whatever was corrupted.           *)
THEOREM TypeCorrect == Spec => []TypeOK
<1>1. Init => TypeOK
  <2>1. Garbage = [i \in 1 .. 4 |-> Junk] /\ Len(Garbage) = 4
    BY DEF Garbage
  <2> SUFFICES ASSUME Init PROVE TypeOK
    OBVIOUS
  <2>2. Len(nfcid) <= 10 /\ Len(buf) = 4
    BY <2>1 DEF Init
  <2>3. /\ state \in {"POWER_OFF", "IDLE", "SELECTED"}
        /\ sak \in {"tcl", "plain"} /\ fsc \in {Junk} /\ fwt \in {Junk}
        /\ pc = "poll" /\ cardAt = "idle"
        /\ uidSize \in 1 .. 3 /\ level \in 1 .. 3 /\ cardLevel \in 1 .. 3
    BY DEF Init
  <2>4. /\ rf = FALSE /\ misled = FALSE
        /\ card \in Cards \cup {NoCard} /\ woken = NoCard
    BY DEF Init
  <2> QED BY <2>2, <2>3, <2>4 DEF TypeOK
<1>2. TypeOK /\ PartInv /\ ActivationInv /\ PartInv' /\ [Next]_vars => TypeOK'
  BY TypeNext
<1> QED BY <1>1, <1>2, AlwaysPart, AlwaysActivation, PTL DEF Spec
===============================================================================

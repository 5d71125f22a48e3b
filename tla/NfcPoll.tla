-------------------------------- MODULE NfcPoll --------------------------------
(***************************************************************************)
(* The NFC thread: it opens the first card it finds, reports its NFCID and *)
(* closes it, for ever (nfc.c), through the life cycle of                  *)
(* nfc_iso14443_open and nfc_iso14443_close (libs/nfc/iso14443.c) and the  *)
(* activation of nfc_iso14443a_open (libs/nfc/iso14443a.c).                *)
(*                                                                         *)
(* An exchange with the card is one step: it gives an answer, or an error  *)
(* of the device, a timeout, or a check that fails.  Cards come and go at  *)
(* any moment.                                                             *)
(***************************************************************************)
EXTENDS NfcTables, Sequences

CONSTANTS
    Cards,      \* records [id, levels, anticoll, tcl, ats]
    NoCard,     \* nothing in the field
    CT,         \* the byte that marks a level as not the last
    Junk        \* what memory that was never written holds

(* The interface bytes of an ATS, TA and TB as far as they are present,    *)
(* stand for their high nibble.                                            *)
AtsOf == [size : Nat, fsci : 0 .. 15, ta : BOOLEAN, tb : BOOLEAN,
          bytes : Seq(0 .. 15)]
CardOf == [id : STRING, levels : 1 .. 3, anticoll : BOOLEAN, tcl : BOOLEAN,
           ats : AtsOf]

ASSUME CardsAssumption == /\ \A c \in Cards : c \in CardOf
                          /\ \A c \in Cards : c.ats.tb =>
                                Len(c.ats.bytes) = IF c.ats.ta THEN 2 ELSE 1
                          /\ NoCard \notin Cards

VARIABLES
    (* nfc_iso14443a_driver_t *)
    state,      \* iso14443_state_t
    nfcid, sak, fsc, fwt,
    (* the thread *)
    pc,         \* "poll", an exchange of the activation, "opened", "sleep"
    uidSize,    \* levels announced by the ATQA
    level,      \* the level of the loop, from 1
    buf,        \* the 4 bytes of the level, from buf + 2
    (* the device *)
    rf,         \* the field is on
    (* the card in the field *)
    card,
    cardAt,     \* "idle", "ready", "active", "protocol"
    cardLevel,  \* the level it is ready at
    woken,      \* history: the card that answered the last WUPA
    misled      \* history: an answer without a checksum was corrupted

driverVars == <<state, nfcid, sak, fsc, fwt>>
threadVars == <<uidSize, level, buf>>
cardVars   == <<card, cardAt, cardLevel>>
vars == <<driverVars, pc, threadVars, rf, cardVars, woken, misled>>

Uid(c) == [i \in 1 .. 3 * c.levels + 1 |-> <<c.id, i>>]

(* What a card answers at a level: 4 bytes, or the mark and 3 of them. *)
LevelBytes(c, l) ==
    IF l = c.levels THEN SubSeq(Uid(c), 3 * l - 2, 3 * l + 1)
                    ELSE <<CT>> \o SubSeq(Uid(c), 3 * l - 2, 3 * l)

Exchanges == {"wupa", "anticoll", "select", "rats"}

TypeOK ==
    /\ state \in {"POWER_OFF", "IDLE", "SELECTED"}
    /\ Len(nfcid) <= 10
    /\ sak \in {"tcl", "plain"}
    /\ fsc \in {Junk, 16, 24, 32, 40, 48, 64, 96, 128, 256}
    /\ fwt \in Nat \cup {Junk}
    /\ pc \in {"poll", "opened", "sleep"} \cup Exchanges
    /\ uidSize \in 1 .. 3 /\ level \in 1 .. 3
    /\ Len(buf) = 4
    /\ rf \in BOOLEAN
    /\ card \in Cards \cup {NoCard} /\ woken \in Cards \cup {NoCard}
    /\ cardAt \in {"idle", "ready", "active", "protocol"}
    /\ cardLevel \in 1 .. 3
    /\ misled \in BOOLEAN

Garbage == [i \in 1 .. 4 |-> Junk]

(* The driver is a local variable of the thread: sak, fsc and fwt begin as *)
(* what the stack holds.                                                   *)
Init ==
    /\ state = "POWER_OFF" /\ nfcid = <<>>
    /\ sak \in {"tcl", "plain"} /\ fsc = Junk /\ fwt = Junk
    /\ pc = "poll" /\ uidSize = 1 /\ level = 1 /\ buf = Garbage
    /\ rf = FALSE
    /\ card \in Cards \cup {NoCard} /\ cardAt = "idle" /\ cardLevel = 1
    /\ woken = NoCard /\ misled = FALSE

-------------------------------------------------------------------------------
(* nfc_iso14443_open up to the activation.  The card has been without a    *)
(* field since the last close.                                             *)
Open ==
    /\ pc = "poll"
    /\ IF state = "POWER_OFF"
         THEN rf' = TRUE /\ state' = "IDLE" /\ pc' = "wupa"
         ELSE /\ pc' = IF state = "SELECTED" THEN "opened" ELSE "wupa"
              /\ UNCHANGED <<rf, state>>
    /\ UNCHANGED <<nfcid, sak, fsc, fwt, threadVars, cardVars, woken, misled>>

(* The device does not open; the driver's state stays. *)
OpenMissing ==
    /\ pc = "poll" /\ state = "POWER_OFF"
    /\ pc' = "sleep" /\ rf' = FALSE
    /\ UNCHANGED <<driverVars, threadVars, cardVars, woken, misled>>

(* Mutant: the error path leaves the device open. *)
OpenErrorNoClose ==
    /\ pc \in Exchanges
    /\ pc' = "sleep" /\ state' = "POWER_OFF"
    /\ cardAt' = "idle"
    /\ UNCHANGED <<nfcid, sak, fsc, fwt, threadVars, rf, card, cardLevel,
                   woken, misled>>

(* Mutant: an activation that failed begins again at once. *)
OpenErrorRetry ==
    /\ pc \in Exchanges
    /\ pc' = "wupa" /\ cardAt' = "idle"
    /\ UNCHANGED <<driverVars, threadVars, rf, card, cardLevel, woken, misled>>

(* An exchange of the activation fails: the device is closed. *)
OpenError ==
    /\ pc \in Exchanges
    /\ pc' = "sleep" /\ state' = "POWER_OFF"
    /\ rf' = FALSE /\ cardAt' = "idle"
    /\ UNCHANGED <<nfcid, sak, fsc, fwt, threadVars, card, cardLevel, woken,
                   misled>>

Selected == pc' = "opened" /\ state' = "SELECTED"

(* Mutant: the length of the NFCID is not reset. *)
WakeUpKeeping ==
    /\ pc = "wupa" /\ rf /\ card # NoCard /\ cardAt = "idle"
    /\ cardAt' = "ready" /\ cardLevel' = 1 /\ woken' = card
    /\ card.anticoll
    /\ uidSize' \in 1 .. 3 /\ misled' = (uidSize' # card.levels)
    /\ level' = 1 /\ pc' = "anticoll"
    /\ UNCHANGED <<driverVars, buf, rf, card>>

(* WUPA and ATQA.  The ATQA has no checksum: its size field may be wrong.  *)
(* One that announces no anticollision, or size 4, is refused: OpenError.  *)
WakeUp ==
    /\ pc = "wupa" /\ rf /\ card # NoCard /\ cardAt = "idle"
    /\ cardAt' = "ready" /\ cardLevel' = 1 /\ woken' = card
    /\ card.anticoll
    /\ uidSize' \in 1 .. 3 /\ misled' = (uidSize' # card.levels)
    /\ nfcid' = <<>>
    /\ level' = 1 /\ pc' = "anticoll"
    /\ UNCHANGED <<state, sak, fsc, fwt, buf, rf, card>>

(* The bytes of a level, or others that happen to have a right BCC. *)
Anticollision ==
    /\ pc = "anticoll" /\ pc' = "select"
    /\ rf /\ cardAt = "ready" /\ cardLevel = level
    /\ buf' \in {LevelBytes(card, level), Garbage}
    /\ UNCHANGED <<driverVars, uidSize, level, rf, cardVars, woken, misled>>

(* Mutant: the mark of a level is taken for a byte of the NFCID. *)
KeepLevelMarked(cascade) ==
    IF cascade THEN nfcid' = nfcid \o SubSeq(buf, 1, 3) /\ UNCHANGED sak
               ELSE /\ nfcid' = nfcid \o buf
                    /\ sak' = IF card.tcl THEN "tcl" ELSE "plain"

(* The end of a level: with the cascade bit the SAK's checksum is not      *)
(* looked at and the SAK is not kept.                                      *)
KeepLevel(cascade) ==
    IF cascade THEN nfcid' = nfcid \o SubSeq(buf, 2, 4) /\ UNCHANGED sak
               ELSE /\ nfcid' = nfcid \o buf
                    /\ sak' = IF card.tcl THEN "tcl" ELSE "plain"

(* is_tcl: the bit of the SAK that decides about RATS and the protocol. *)
IsTcl(s) == s = "tcl"

(* Mutant: the SAK of an earlier card decides about RATS. *)
EndOfLevelsStale == IF IsTcl(sak) THEN pc' = "rats" /\ UNCHANGED state
                                  ELSE Selected

EndOfLevels == IF IsTcl(sak') THEN pc' = "rats" /\ UNCHANGED state
                              ELSE Selected

(* SELECT with the bytes received; only the card that has them answers.    *)
(* Its SAK may arrive with a cascade bit it does not have; one that has    *)
(* lost its cascade bit fails the check of its CRC.                        *)
Select ==
    /\ pc = "select"
    /\ rf /\ cardAt = "ready" /\ cardLevel = level
    /\ buf = LevelBytes(card, level)
    /\ IF level = card.levels THEN cardAt' = "active" /\ UNCHANGED cardLevel
                              ELSE cardLevel' = level + 1 /\ UNCHANGED cardAt
    /\ \E cascade \in BOOLEAN :
          /\ level < card.levels => cascade
          /\ KeepLevel(cascade)
          /\ misled' = (misled \/ (cascade /\ level = card.levels))
    /\ IF level < uidSize
         THEN level' = level + 1 /\ pc' = "anticoll" /\ UNCHANGED state
         ELSE EndOfLevels /\ UNCHANGED level
    /\ UNCHANGED <<fsc, fwt, uidSize, buf, rf, card, woken>>

(* Mutant: the byte of the waiting time is looked for in one place only. *)
ParseAtsFixed(a) ==
    /\ fsc' = IF a.size > 1 THEN fsci2fsc(a.fsci) ELSE fsc
    /\ fwt' = fwi2fw(IF a.size > 1 /\ a.tb THEN a.bytes[1] ELSE 8)

ParseAts(a) ==
    /\ fsc' = IF a.size > 1 THEN fsci2fsc(a.fsci) ELSE fsc
    /\ fwt' = fwi2fw(IF a.size > 1 /\ a.tb
                       THEN a.bytes[IF a.ta THEN 2 ELSE 1] ELSE 8)

(* RATS: the card announces its frame size and waiting time in the ATS,    *)
(* whose checksum is not looked at: another one may be read.               *)
Rats ==
    /\ pc = "rats" /\ Selected
    /\ rf /\ cardAt = "active" /\ card.tcl /\ cardAt' = "protocol"
    /\ \E a \in {c.ats : c \in Cards} :
          ParseAts(a) /\ misled' = (misled \/ a # card.ats)
    /\ UNCHANGED <<nfcid, sak, threadVars, rf, card, cardLevel, woken>>

(* The NFCID is reported, and nfc_iso14443_close closes the device. *)
Close ==
    /\ pc = "opened" /\ pc' = "sleep"
    /\ state' = "POWER_OFF" /\ rf' = FALSE /\ cardAt' = "idle"
    /\ UNCHANGED <<nfcid, sak, fsc, fwt, threadVars, card, cardLevel, woken,
                   misled>>

Wake == /\ pc = "sleep" /\ pc' = "poll"
        /\ UNCHANGED <<driverVars, threadVars, rf, cardVars, woken, misled>>

(* Somebody changes the card (external): the new one has to be woken up. *)
Swap ==
    /\ card' \in (Cards \cup {NoCard}) \ {card}
    /\ cardAt' = "idle" /\ cardLevel' = 1
    /\ UNCHANGED <<driverVars, pc, threadVars, rf, woken, misled>>

Activate == WakeUp \/ Anticollision \/ Select \/ Rats

Next == \/ Open \/ OpenMissing \/ OpenError \/ Activate \/ Close \/ Wake
        \/ Swap

(* The thread runs and every exchange ends, with an answer or an error. *)
Fairness == WF_vars(Open \/ OpenMissing \/ OpenError \/ Activate \/ Close
                      \/ Wake)

Spec == Init /\ [][Next]_vars
FairSpec == Spec /\ Fairness

-------------------------------------------------------------------------------
(* Properties *)

(* The NFCID reported is that of one card, the one that was woken up, from *)
(* its first byte to its last, and the SAK is its SAK, whatever cards were *)
(* opened before, were exchanged meanwhile, or failed half way; unless an  *)
(* answer that nothing protects was corrupted.                             *)
Identified ==
    (pc = "opened" /\ ~misled) =>
        /\ nfcid = Uid(woken)
        /\ sak = IF woken.tcl THEN "tcl" ELSE "plain"

(* Whatever was corrupted, the NFCID reported holds bytes of the UID of    *)
(* the card that was woken up only, in their order and none twice: never a *)
(* byte of another card, of an earlier activation, or the mark of a level. *)
OnlyItsOwnBytes ==
    pc = "opened" => \A i, j \in DOMAIN nfcid : i <= j =>
        \E k, l \in DOMAIN Uid(woken) :
            /\ nfcid[i] = Uid(woken)[k] /\ nfcid[j] = Uid(woken)[l]
            /\ i < j => k < l

(* A card reported as open, if still there, is in the state in which it    *)
(* takes the commands that follow: the block protocol for one taken for    *)
(* T=CL, even when it was taken so by mistake; for a plain one as far as   *)
(* nothing was corrupted.                                                  *)
Ready ==
    (pc = "opened" /\ card = woken /\ cardAt # "idle") =>
        IF IsTcl(sak) THEN cardAt = "protocol"
                      ELSE ~misled => cardAt = "active"

(* Whenever the thread is not using a card the field is off and the driver *)
(* knows it: each poll begins by opening the device.                       *)
FieldOffBetween ==
    /\ pc \in {"poll", "sleep"} => ~rf /\ state = "POWER_OFF"
    /\ pc \in Exchanges => rf

(* 2^0 to 2^14. *)
Powers == <<1, 2, 4, 8, 16, 32, 64, 128, 256, 512, 1024, 2048, 4096, 8192,
            16384>>

(* What a card may take: 4096 * 2^FWI periods of 13560 kHz for the code    *)
(* FWI, and the longest there is for the reserved code.                    *)
LongEnough(t, fwi) ==
    IF fwi <= LastTime THEN t * 13560 >= 4096 * Powers[fwi + 1] ELSE t = 4950

(* The waiting time of an open T=CL card is not shorter than the card may  *)
(* take for an answer by the code in its ATS, wherever the optional bytes  *)
(* put it; its frame size is the card's when the card announces one.  Even *)
(* of a corrupted ATS the waiting time is one of the table.                *)
TimingOfCard ==
    (pc = "opened" /\ IsTcl(sak)) =>
        /\ fwt \in {WaitingTimes[i] : i \in 1 .. LastTime + 1}
        /\ ~misled /\ woken.ats.size > 1 =>
              LET a == woken.ats
              IN /\ a.tb => LongEnough(fwt, a.bytes[Len(a.bytes)])
                 /\ fsc = fsci2fsc(a.fsci)

(* FSC as the comment of nfc_iso14443_transceive means it: the size of the *)
(* blocks sent is that of the card, 32 when its ATS announces none.        *)
FscOfCard ==
    (pc = "opened" /\ ~misled /\ IsTcl(sak)) =>
        fsc = IF woken.ats.size > 1 THEN fsci2fsc(woken.ats.fsci) ELSE 32

(* The thread polls for ever: no failure of a card or of the device stops  *)
(* it.                                                                     *)
PollsForever == []<>(pc = "poll")
===============================================================================

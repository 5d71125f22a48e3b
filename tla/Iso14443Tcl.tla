------------------------------ MODULE Iso14443Tcl ------------------------------
(***************************************************************************)
(* nfc_iso14443_transceive on a T=CL card (libs/nfc/iso14443.c): the half  *)
(* duplex block protocol of the reader, a card that follows it, and a link *)
(* on which every frame may be lost.                                       *)
(*                                                                         *)
(* Data is counted in blocks: block i of the command, or of the answer, of *)
(* call c is <<c, i>>.  The answer of the link below (l3.transceive) is a  *)
(* frame, or Lost when it is an error or shorter than 3 bytes.             *)
(***************************************************************************)
EXTENDS Naturals, Sequences

CONSTANTS
    MaxCmd,     \* blocks in the longest command
    MaxResp,    \* blocks in the longest answer
    Rooms,      \* sizes of the caller's answer buffer, in blocks
    MaxCalls,   \* bound on the number of calls
    MaxWtx,     \* bound on extensions of time the card asks in a row
    Policies    \* the callers considered: the values of reopens

ASSUME CountsAssumption == /\ MaxCmd \in Nat \ {0} /\ MaxResp \in Nat \ {0}
                           /\ Rooms \subseteq Nat
                           /\ MaxCalls \in Nat /\ MaxWtx \in Nat
ASSUME PoliciesAssumption == Policies \subseteq BOOLEAN

VARIABLES
    (* nfc_iso14443_driver_t and the local variables of transceive *)
    open,       \* the driver's state is SELECTED
    block,      \* driver->block, of which only togglebit is used
    pc,         \* "idle", or the loop that waits for an answer
    sent,       \* blocks of the command acknowledged
    total,      \* blocks of the command
    left,       \* rxlen, in blocks
    rx,         \* the answer stored for the caller
    ret,        \* what the last call returned
    (* the caller *)
    cmd,        \* the number of the last call
    room,       \* the size of its buffer
    failed,     \* the last call on this selection returned an error
    reopens,    \* it closes the card after a failed call, once and for all
    (* the link *)
    down,       \* the frame on its way to the card
    up,         \* the frame on its way to the reader, or Lost
    (* the card *)
    cBit,       \* its block number
    cIn,        \* the blocks of the command received so far
    cOut,       \* the blocks of the answer not yet sent
    cLast,      \* the last block it sent
    cHold,      \* the block it will send when its extension is granted
    wtx,        \* extensions it will still ask for
    executed,   \* history: the commands executed since the selection
    answer      \* history: the blocks of the answer to the last of them

readerVars == <<open, block, pc, sent, total, left, rx, ret>>
callerVars == <<cmd, room, failed, reopens>>
cardVars   == <<cBit, cIn, cOut, cLast, cHold, wtx, executed, answer>>
vars == <<readerVars, callerVars, down, up, cardVars>>

None == [kind |-> "none"]
Lost == [kind |-> "lost"]
Wtx  == [kind |-> "wtx"]
I(b, more, d) == [kind |-> "I", bit |-> b, more |-> more, data |-> d]
Ack(b) == [kind |-> "ack", bit |-> b]
(* A frame that starts like an R-block and has the length of an I-block. *)
LongAck(b) == [kind |-> "longAck", bit |-> b]

Bits == {0, 1}
Toggled(b) == 1 - b
Data == (1 .. MaxCalls) \X (1 .. IF MaxCmd > MaxResp THEN MaxCmd ELSE MaxResp)
Frames == {None, Lost, Wtx}
            \cup {I(b, more, d) : b \in Bits, more \in BOOLEAN, d \in Data}
            \cup {Ack(b) : b \in Bits} \cup {LongAck(b) : b \in Bits}

TypeOK ==
    /\ open \in BOOLEAN /\ failed \in BOOLEAN /\ reopens \in BOOLEAN
    /\ block \in Bits /\ cBit \in Bits
    /\ pc \in {"idle", "chain", "last"}
    /\ sent \in Nat /\ total \in Nat /\ left \in Nat /\ room \in Nat
    /\ cmd \in 0 .. MaxCalls /\ wtx \in 0 .. MaxWtx
    /\ ret \in {"none", "OK", "EIO"}
    /\ rx \in Seq(Data) /\ cIn \in Seq(Data) /\ cOut \in Seq(Data)
    /\ down \in Frames /\ up \in Frames
    /\ cLast \in Frames /\ cHold \in Frames
    /\ executed \in Seq(Seq(Data)) /\ answer \in Nat

Init ==
    /\ open = FALSE /\ block = 0 /\ pc = "idle"
    /\ sent = 0 /\ total = 0 /\ left = 0 /\ rx = <<>> /\ ret = "none"
    /\ cmd = 0 /\ room = 0 /\ failed = FALSE /\ reopens \in Policies
    /\ down = None /\ up = None
    /\ cBit = 1 /\ cIn = <<>> /\ cOut = <<>> /\ cLast = None /\ cHold = None
    /\ wtx = 0 /\ executed = <<>> /\ answer = 0

-------------------------------------------------------------------------------
(* The reader *)

(* nfc_iso14443_open with success: the card is selected anew. *)
Open ==
    /\ pc = "idle" /\ ~open /\ open' = TRUE
    /\ block' = 0 /\ failed' = FALSE
    /\ cBit' = 1 /\ cIn' = <<>> /\ cOut' = <<>> /\ cLast' = None
    /\ cHold' = None /\ wtx' = 0 /\ executed' = <<>>
    /\ UNCHANGED <<pc, sent, total, left, rx, ret, cmd, room, reopens, down, up,
                   answer>>

Close ==
    /\ pc = "idle" /\ open /\ open' = FALSE
    /\ UNCHANGED <<block, pc, sent, total, left, rx, ret, callerVars, down, up,
                   cardVars>>

(* Mutant: the test of the chaining loop is off by one. *)
SendBlockMore(b, c, s, n) ==
    /\ down' = I(b, s < n, <<c, s + 1>>)
    /\ pc' = IF s < n THEN "chain" ELSE "last"

(* Send block s + 1 of n of command c: chained, or the last one. *)
SendBlock(b, c, s, n) ==
    /\ down' = I(b, s + 1 < n, <<c, s + 1>>)
    /\ pc' = IF s + 1 < n THEN "chain" ELSE "last"

(* Mutant: the answer of the call before is kept. *)
CallKeeping ==
    /\ pc = "idle" /\ open
    /\ reopens => ~failed
    /\ cmd < MaxCalls /\ cmd' = cmd + 1
    /\ total' \in 1 .. MaxCmd /\ sent' = 0
    /\ room' \in Rooms /\ left' = room' /\ ret' = "none"
    /\ SendBlock(block, cmd', 0, total')
    /\ UNCHANGED <<open, block, failed, reopens, rx, up, cardVars>>

Call ==
    /\ pc = "idle" /\ open
    /\ reopens => ~failed
    /\ cmd < MaxCalls /\ cmd' = cmd + 1
    /\ total' \in 1 .. MaxCmd /\ sent' = 0
    /\ room' \in Rooms /\ left' = room' /\ rx' = <<>> /\ ret' = "none"
    /\ SendBlock(block, cmd', 0, total')
    /\ UNCHANGED <<open, block, failed, reopens, up, cardVars>>

Return(r) == /\ pc' = "idle" /\ ret' = r
             /\ down' = None /\ failed' = (r = "EIO")

(* The chaining loop got the acknowledgement of its block. *)
ChainAck ==
    /\ pc = "chain" /\ up = Ack(block) /\ up' = None
    /\ sent' = sent + 1 /\ block' = Toggled(block)
    /\ SendBlock(block', cmd, sent', total)
    /\ UNCHANGED <<open, total, left, rx, ret, callerVars, cardVars>>

(* An acknowledgement with the other number: the loop sends its buffer     *)
(* again, which by now holds the acknowledgement it has just received.     *)
ChainAgain ==
    /\ pc = "chain" /\ up = Ack(Toggled(block)) /\ up' = None
    /\ down' = LongAck(up.bit)
    /\ UNCHANGED <<readerVars, callerVars, cardVars>>

(* More time requested: the request is sent back. *)
GrantTime ==
    /\ pc # "idle" /\ up = Wtx /\ up' = None
    /\ down' = Wtx
    /\ UNCHANGED <<readerVars, callerVars, cardVars>>

(* Mutant: a block that gets no answer is sent again without limit. *)
ChainErrorRetry ==
    /\ pc = "chain" /\ up.kind \in {"lost", "I"} /\ up' = None
    /\ SendBlock(block, cmd, sent, total)
    /\ UNCHANGED <<open, block, sent, total, left, rx, ret, callerVars,
                   cardVars>>

ChainError ==
    /\ pc = "chain" /\ up.kind \in {"lost", "I"} /\ up' = None
    /\ Return("EIO")
    /\ UNCHANGED <<open, block, sent, total, left, rx, cmd, room, reopens,
                   cardVars>>

LastError ==
    /\ pc = "last" /\ up.kind \in {"lost", "ack"} /\ up' = None
    /\ Return("EIO")
    /\ UNCHANGED <<open, block, sent, total, left, rx, cmd, room, reopens,
                   cardVars>>

(* Keep a block of the answer that has the current number and fits. *)
Keep == IF up.bit = block /\ left > 0
          THEN rx' = Append(rx, up.data) /\ left' = left - 1
          ELSE UNCHANGED <<rx, left>>

(* Mutant: the block number is not advanced at the end of the answer. *)
LastDataNoToggle ==
    /\ pc = "last" /\ up.kind = "I" /\ up' = None
    /\ Keep
    /\ block' = IF up.more THEN Toggled(block) ELSE block
    /\ IF up.more THEN down' = Ack(block') /\ UNCHANGED <<pc, ret, failed>>
                  ELSE Return("OK")
    /\ UNCHANGED <<open, sent, total, cmd, room, reopens, cardVars>>

(* Mutant: the acknowledgement carries the number before it is advanced. *)
LastDataOldAck ==
    /\ pc = "last" /\ up.kind = "I" /\ up' = None
    /\ Keep
    /\ block' = Toggled(block)
    /\ IF up.more THEN down' = Ack(block) /\ UNCHANGED <<pc, ret, failed>>
                  ELSE Return("OK")
    /\ UNCHANGED <<open, sent, total, cmd, room, reopens, cardVars>>

(* A block of the answer; the number advances whether or not it was kept. *)
LastData ==
    /\ pc = "last" /\ up.kind = "I" /\ up' = None
    /\ Keep
    /\ block' = Toggled(block)
    /\ IF up.more THEN down' = Ack(block') /\ UNCHANGED <<pc, ret, failed>>
                  ELSE Return("OK")
    /\ UNCHANGED <<open, sent, total, cmd, room, reopens, cardVars>>

Reader == \/ Open \/ Close \/ Call
          \/ ChainAck \/ ChainAgain \/ ChainError
          \/ GrantTime \/ LastData \/ LastError

-------------------------------------------------------------------------------
(* The card (external): the rules for a card that the reader relies on *)

(* Send f, at once or after some extensions of time. *)
Answer(f) ==
    /\ cLast' = f
    /\ \/ up' = f /\ cHold' = None /\ wtx' = 0
       \/ MaxWtx > 0 /\ up' = Wtx /\ cHold' = f /\ wtx' \in 0 .. MaxWtx - 1

(* An I-block: the card advances its number, whatever the block's. *)
CardBlock ==
    /\ down.kind = "I" /\ down' = None
    /\ cBit' = Toggled(cBit)
    /\ IF down.more
         THEN /\ cIn' = Append(cIn, down.data)
              /\ Answer(Ack(cBit'))
              /\ cOut' = <<>> /\ UNCHANGED <<executed, answer>>
         ELSE /\ cIn' = <<>> /\ executed' = Append(executed,
                                                   Append(cIn, down.data))
              /\ \E n \in 1 .. MaxResp :
                    /\ answer' = n
                    /\ Answer(I(cBit', n > 1, <<down.data[1], 1>>))
                    /\ cOut' = [i \in 1 .. n - 1 |-> <<down.data[1], i + 1>>]
    /\ UNCHANGED <<readerVars, callerVars>>

(* An acknowledgement with its own number asks for the last block again,   *)
(* with the other number for the next one.                                 *)
CardAck ==
    /\ down.kind = "ack" /\ down' = None
    /\ \/ /\ down.bit = cBit /\ Answer(cLast) /\ UNCHANGED <<cBit, cOut>>
       \/ /\ down.bit # cBit /\ cOut # <<>>
          /\ cBit' = Toggled(cBit) /\ cOut' = Tail(cOut)
          /\ Answer(I(cBit', Len(cOut) > 1, Head(cOut)))
       \/ /\ down.bit # cBit /\ cOut = <<>>
          /\ up' = Lost /\ UNCHANGED <<cBit, cOut, cLast, cHold, wtx>>
    /\ UNCHANGED <<readerVars, callerVars, cIn, executed, answer>>

CardGranted ==
    /\ down = Wtx /\ down' = None
    /\ IF wtx > 0 THEN up' = Wtx /\ wtx' = wtx - 1 /\ UNCHANGED cHold
                  ELSE up' = cHold /\ cHold' = None /\ UNCHANGED wtx
    /\ UNCHANGED <<readerVars, callerVars, cBit, cIn, cOut, cLast, executed,
                   answer>>

(* A frame lost on its way, or one the card has no rule for; then an       *)
(* answer lost on its way back.                                            *)
LoseDown == /\ down # None /\ down' = None /\ up' = Lost
            /\ UNCHANGED <<readerVars, callerVars, cardVars>>
LoseUp == /\ up.kind \in {"I", "ack", "wtx"} /\ up' = Lost
          /\ UNCHANGED <<readerVars, callerVars, down, cardVars>>

Card == CardBlock \/ CardAck \/ CardGranted

Next == Reader \/ Card \/ LoseDown \/ LoseUp

(* A call goes on, and a frame is answered or lost.  Nothing makes a       *)
(* caller call.                                                            *)
Fairness ==
    /\ WF_vars(ChainAck \/ ChainAgain \/ ChainError \/ GrantTime \/ LastData
                 \/ LastError)
    /\ WF_vars(Card \/ LoseDown)

Spec == Init /\ [][Next]_vars
FairSpec == Spec /\ Fairness

-------------------------------------------------------------------------------
(* Properties *)

(* Between calls of a caller that closes after an error, the reader and    *)
(* the card agree on the number of the next block, so that the answer to   *)
(* the next command will not be taken for an old one.                      *)
InStep == (reopens /\ pc = "idle" /\ open /\ ~failed) => block # cBit

(* A caller that closes after an error gets what TclExchange promises:     *)
(* each command executed at most once, whole, in order, and the answer to  *)
(* the command of the call, cut only by the size of the buffer.  Of the    *)
(* other caller nothing is shown: TclExchange then stays where it began.   *)
Seen(v, start) == IF reopens THEN v ELSE start
Exchange == INSTANCE TclExchange WITH
    open     <- Seen(open, FALSE),
    failed   <- Seen(failed, FALSE),
    busy     <- Seen(pc # "idle", FALSE),
    cmd      <- Seen(cmd, 0),
    total    <- Seen(total, 0),
    room     <- Seen(room, 0),
    executed <- Seen(executed, <<>>),
    answer   <- Seen(answer, 0),
    ret      <- Seen(ret, "none"),
    rx       <- Seen(IF ret = "OK" THEN rx ELSE <<>>, <<>>)
ImplementsExchange == Exchange!Spec

(* Even a caller that goes on after an error is never given a block of the *)
(* answer to another command, nor a block twice or out of order; what it   *)
(* may miss are blocks.                                                    *)
OwnAnswer ==
    ret = "OK" => /\ \A i \in 1 .. Len(rx) : rx[i][1] = cmd
                  /\ \A i, j \in 1 .. Len(rx) : i < j => rx[i][2] < rx[j][2]

(* Every call returns, however many frames are lost, as long as the card   *)
(* does not ask for more time for ever.                                    *)
CallReturns == pc # "idle" ~> pc = "idle"

(* How far a call is from its end: the blocks of the command that are not  *)
(* acknowledged; the blocks of the answer still to come, one more when the *)
(* card will repeat one; and the frames of the exchange under way.         *)
CommandLeft == total - sent
AnswerLeft ==
    CASE pc # "last" \/ up = Lost -> 0
      [] pc = "last" /\ down.kind = "I" -> MaxResp + 1
      [] pc = "last" /\ down.kind = "ack" ->
            Len(cOut) + (IF block = cBit THEN 1 ELSE 0)
      [] OTHER -> Len(cOut) + (IF block = cBit THEN 1 ELSE 2)
FramesLeft ==
    CASE up = Lost -> 0
      [] down.kind = "longAck" -> 1
      [] up.kind \in {"I", "ack"} -> 2
      [] down = Wtx -> 2 * wtx + 3
      [] up = Wtx -> 2 * wtx + 4
      [] OTHER -> 2 * MaxWtx + 3

(* No call goes on for ever, whatever is lost and however the numbers of   *)
(* the two ends differ: each step of a call brings it closer to its end,   *)
(* also the loops that grant time, that send the buffer again and that     *)
(* take a block the reader has no use for.                                 *)
CallStep ==
    (pc # "idle" /\ pc' # "idle") =>
        \/ CommandLeft' < CommandLeft
        \/ /\ CommandLeft' = CommandLeft
           /\ \/ AnswerLeft' < AnswerLeft
              \/ AnswerLeft' = AnswerLeft /\ FramesLeft' < FramesLeft
CallBounded == [][CallStep]_vars

(* Rule B as the comment names it: the block number advances only with a   *)
(* block of the answer that has the current number.                        *)
RuleBStep == (pc = "last" /\ block' # block) => up.bit = block
RuleB == [][RuleBStep]_vars

(* Rule 6 as the comment names it: an acknowledgement with the other       *)
(* number makes the reader send its last block again.                      *)
RuleSixStep ==
    (pc = "chain" /\ up = Ack(Toggled(block)) /\ up' = None) =>
        down' = I(block, TRUE, <<cmd, sent + 1>>)
RuleSix == [][RuleSixStep]_vars
===============================================================================

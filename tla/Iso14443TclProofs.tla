--------------------------- MODULE Iso14443TclProofs ---------------------------
(* Theorems about Iso14443Tcl, for commands, answers, calls and extensions  *)
(* of time without bound.                                                   *)
EXTENDS Iso14443Tcl, TLAPS

(* Where the frame in flight is and how it relates the two block numbers,  *)
(* on a selection without an error: the reader's number differs from the   *)
(* card's until the card has taken the block.                              *)
Agreed(b, f) == b = cBit /\ f.bit = cBit

ChainState ==
    \/ down.kind = "I" /\ down.more /\ up = None /\ block # cBit
    \/ down = None /\ up.kind = "ack" /\ Agreed(block, up)
    \/ down = Wtx /\ up = None /\ cHold.kind = "ack" /\ Agreed(block, cHold)
    \/ down = None /\ up = Wtx /\ cHold.kind = "ack" /\ Agreed(block, cHold)
    \/ down = None /\ up = Lost

LastState ==
    \/ down.kind = "I" /\ ~down.more /\ up = None /\ block # cBit
    \/ /\ down.kind = "ack" /\ up = None /\ block # cBit /\ down.bit = block
    \/ down = None /\ up.kind = "I" /\ Agreed(block, up)
    \/ down = Wtx /\ up = None /\ cHold.kind = "I" /\ Agreed(block, cHold)
    \/ down = None /\ up = Wtx /\ cHold.kind = "I" /\ Agreed(block, cHold)
    \/ down = None /\ up = Lost

StepInv ==
    /\ block \in Bits /\ cBit \in Bits
    /\ pc \in {"idle", "chain", "last"}
    /\ pc = "idle" => down = None /\ up = None
    /\ pc # "idle" => open /\ ~failed
    /\ (pc = "idle" /\ open /\ ~failed) => block # cBit
    /\ pc = "chain" => ChainState
    /\ pc = "last" => LastState

LEMMA StepInvInit == Init => StepInv
  BY DEF Init, StepInv, Bits, None, ChainState, LastState

LEMMA StepInvNext == reopens /\ StepInv /\ [Next]_vars => StepInv'
<1> SUFFICES ASSUME reopens, StepInv, [Next]_vars PROVE StepInv'
  OBVIOUS
<1> USE DEF StepInv, ChainState, LastState, Agreed, None, Lost, Wtx, I, Ack,
      LongAck, Bits, Toggled, readerVars, callerVars, cardVars
<1>1. CASE Open
  BY <1>1 DEF Open
<1>2. CASE Close
  BY <1>2 DEF Close
<1>3. CASE Call
  BY <1>3 DEF Call, SendBlock
<1>4. CASE ChainAck
  <2>1. /\ up' = None /\ block' = Toggled(block) /\ UNCHANGED <<cBit, open, failed>>
        /\ pc # "idle"
    BY <1>4 DEF ChainAck
  <2>2. block = cBit
    BY <1>4 DEF ChainAck
  <2>3. CASE sent' + 1 < total
    <3>1. pc' = "chain" /\ down'.kind = "I" /\ down'.more
      BY <1>4, <2>3 DEF ChainAck, SendBlock
    <3> QED BY <2>1, <2>2, <3>1
  <2>4. CASE ~(sent' + 1 < total)
    <3>1. pc' = "last" /\ down'.kind = "I" /\ ~down'.more
      BY <1>4, <2>4 DEF ChainAck, SendBlock
    <3> QED BY <2>1, <2>2, <3>1
  <2> QED BY <2>3, <2>4
<1>5. CASE ChainAgain
  BY <1>5 DEF ChainAgain
<1>6. CASE ChainError
  BY <1>6 DEF ChainError, Return
<1>7. CASE GrantTime
  BY <1>7 DEF GrantTime
<1>8. CASE LastData
  BY <1>8 DEF LastData, Keep, Return
<1>9. CASE LastError
  BY <1>9 DEF LastError, Return
<1>10. CASE CardBlock
  BY <1>10 DEF CardBlock, Answer
<1>11. CASE CardAck
  BY <1>11 DEF CardAck, Answer
<1>12. CASE CardGranted
  BY <1>12 DEF CardGranted
<1>13. CASE LoseDown
  BY <1>13 DEF LoseDown
<1>14. CASE LoseUp
  BY <1>14 DEF LoseUp
<1>15. CASE UNCHANGED vars
  BY <1>15 DEF vars
<1> QED
  BY <1>1, <1>2, <1>3, <1>4, <1>5, <1>6, <1>7, <1>8, <1>9, <1>10, <1>11,
     <1>12, <1>13, <1>14, <1>15 DEF Next, Reader, Card

(* A caller keeps its policy. *)
LEMMA PolicyKept == [Next]_vars => reopens' = reopens
  BY DEF Next, Reader, Card, vars, Open, Close, Call, ChainAck, ChainAgain,
     ChainError, GrantTime, LastData, LastError, CardBlock, CardAck,
     CardGranted, LoseDown, LoseUp, callerVars

(* The inductive invariant, of the caller that closes after an error. *)
Reopening == reopens => StepInv

LEMMA ReopeningNext == Reopening /\ [Next]_vars => Reopening'
  BY StepInvNext, PolicyKept DEF Reopening

LEMMA AlwaysReopening == Spec => []Reopening
<1>1. Init => Reopening
  BY StepInvInit DEF Reopening
<1> QED BY <1>1, ReopeningNext, PTL DEF Spec

(* A caller that closes the card after a failed call starts every call with *)
(* a block number the card will take for a new block.                       *)
THEOREM BlockNumbersInStep == Spec => []InStep
<1>1. Reopening => InStep
  BY DEF Reopening, StepInv, InStep
<1> QED BY <1>1, AlwaysReopening, PTL

(* For the same caller every block of the answer has the reader's number,   *)
(* so that the block number advances only as Rule B says.                   *)
THEOREM RuleBWhenReopened == Spec => [][reopens => RuleBStep]_vars
<1>1. Reopening /\ [Next]_vars => (reopens => RuleBStep)
  <2> SUFFICES ASSUME StepInv, [Next]_vars, pc = "last", block' # block
               PROVE  up.bit = block
    BY DEF RuleBStep, Reopening
  <2>1. CASE LastData
    BY <2>1 DEF LastData, StepInv, LastState, Agreed, None, Lost, Wtx
  <2>2. CASE ~LastData
    BY <2>2 DEF Next, Reader, Card, vars, Open, Close, Call, ChainAck,
       ChainAgain, ChainError, GrantTime, LastError, CardBlock, CardAck,
       CardGranted, LoseDown, LoseUp, readerVars
  <2> QED BY <2>1, <2>2
<1> QED BY <1>1, AlwaysReopening, PTL DEF Spec

(* For the same caller the retransmission loop of the chaining is never     *)
(* taken: no acknowledgement has the other number, so that the reader never *)
(* sends a buffer that an acknowledgement has overwritten.                  *)
THEOREM RuleSixWhenReopened == Spec => [][reopens => RuleSixStep]_vars
<1>1. StepInv => ~(pc = "chain" /\ up = Ack(Toggled(block)))
  BY DEF StepInv, ChainState, Agreed, Ack, Toggled, None, Lost, Wtx, Bits
<1>2. Reopening /\ [Next]_vars => (reopens => RuleSixStep)
  BY <1>1 DEF RuleSixStep, Reopening
<1> QED BY <1>2, AlwaysReopening, PTL DEF Spec

-------------------------------------------------------------------------------
(* Types *)

LEMMA FrameMade ==
    ASSUME NEW b \in Bits, NEW more \in BOOLEAN, NEW d \in Data
    PROVE  I(b, more, d) \in Frames /\ Ack(b) \in Frames /\ LongAck(b) \in Frames
  BY DEF Frames

LEMMA FrameRead ==
    ASSUME NEW f \in Frames
    PROVE  /\ f.kind \in {"none", "lost", "wtx", "I", "ack", "longAck"}
           /\ f.kind \in {"I", "ack", "longAck"} => f.bit \in Bits
           /\ f.kind = "I" => f.data \in Data /\ f.more \in BOOLEAN
  BY DEF Frames, I, Ack, LongAck, None, Lost, Wtx

LEMMA FrameConstants == None \in Frames /\ Lost \in Frames /\ Wtx \in Frames
  BY DEF Frames

LEMMA BitToggled == \A b \in Bits : Toggled(b) \in Bits
  BY DEF Bits, Toggled

LEMMA DataMade ==
    ASSUME NEW c \in 1 .. MaxCalls, NEW n \in Nat \ {0},
           n <= MaxCmd \/ n <= MaxResp
    PROVE  <<c, n>> \in Data
  BY CountsAssumption DEF Data

(* How far a call is; that of a call in progress there are blocks to send.  *)
CallInv ==
    /\ TypeOK
    /\ pc # "idle" => cmd \in 1 .. MaxCalls /\ sent < total /\ total <= MaxCmd
    /\ pc = "chain" => sent + 1 < total

LEMMA SendBlockTyped ==
    ASSUME NEW b \in Bits, NEW c \in 1 .. MaxCalls, NEW n \in Nat, NEW k \in Nat,
           k < n, n <= MaxCmd, SendBlock(b, c, k, n)
    PROVE  /\ down' \in Frames /\ pc' \in {"chain", "last"}
           /\ pc' = "chain" => k + 1 < n
<1>1. <<c, k + 1>> \in Data
  BY DataMade, CountsAssumption
<1>2. (k + 1 < n) \in BOOLEAN
  OBVIOUS
<1>3. down' \in Frames
  BY <1>1, <1>2, FrameMade DEF SendBlock
<1> QED BY <1>3 DEF SendBlock

LEMMA AnswerTyped ==
    ASSUME NEW f \in Frames, Answer(f), cLast \in Frames
    PROVE  /\ cLast' \in Frames /\ cHold' \in Frames /\ up' \in Frames
           /\ wtx' \in 0 .. MaxWtx
  BY FrameConstants, CountsAssumption DEF Answer

LEMMA CallInvReader == CallInv /\ Reader => CallInv'
<1> SUFFICES ASSUME CallInv, Reader PROVE CallInv'
  OBVIOUS
<1> USE DEF CallInv, TypeOK
<1>1. CASE Open
  <2>1. /\ <<>> \in Seq(Data) /\ <<>> \in Seq(Seq(Data))
        /\ 0 \in 0 .. MaxWtx /\ 0 \in Bits /\ 1 \in Bits
    BY CountsAssumption DEF Bits
  <2>2. /\ pc = "idle" /\ open' = TRUE /\ failed' = FALSE
        /\ block' = 0 /\ cBit' = 1 /\ cIn' = <<>> /\ cOut' = <<>>
        /\ cLast' = None /\ cHold' = None /\ wtx' = 0 /\ executed' = <<>>
        /\ UNCHANGED <<pc, sent, total, left, rx, ret, cmd, room, reopens,
                       down, up, answer>>
    BY <1>1 DEF Open
  <2> QED BY <2>1, <2>2, FrameConstants
<1>2. CASE Close
  BY <1>2 DEF Close, callerVars, cardVars
<1>3. CASE Call
  <2>1. /\ UNCHANGED <<open, block, failed, reopens, up, cardVars>>
        /\ rx' = <<>> /\ ret' = "none" /\ left' = room' /\ room' \in Rooms
        /\ sent' = 0 /\ total' \in 1 .. MaxCmd /\ cmd' = cmd + 1
        /\ cmd < MaxCalls
    BY <1>3 DEF Call
  <2>2. /\ cmd' \in 1 .. MaxCalls /\ total' \in Nat /\ 0 < total'
        /\ total' <= MaxCmd
    BY <2>1, CountsAssumption
  <2>3. /\ down' \in Frames /\ pc' \in {"chain", "last"}
        /\ pc' = "chain" => 0 + 1 < total'
    BY <1>3, <2>2, SendBlockTyped DEF Call
  <2>4. room' \in Nat
    BY <2>1, CountsAssumption
  <2> QED BY <2>1, <2>2, <2>3, <2>4 DEF cardVars
<1>4. CASE ChainAck
  <2>1. /\ pc = "chain" /\ up' = None /\ sent' = sent + 1
        /\ block' = Toggled(block)
        /\ UNCHANGED <<open, total, left, rx, ret, callerVars, cardVars>>
    BY <1>4 DEF ChainAck
  <2>2. sent' \in Nat /\ sent' < total /\ block' \in Bits
    BY <2>1, BitToggled
  <2>3. /\ down' \in Frames /\ pc' \in {"chain", "last"}
        /\ pc' = "chain" => sent' + 1 < total
    BY <1>4, <2>1, <2>2, SendBlockTyped DEF ChainAck
  <2> QED BY <2>1, <2>2, <2>3, FrameConstants DEF cardVars, callerVars
<1>5. CASE ChainAgain
  <2>1. down' \in Frames /\ up' = None
    <3>1. up.kind = "ack" /\ up.bit \in Bits
      BY <1>5, BitToggled DEF ChainAgain, Ack
    <3>2. LongAck(up.bit) \in Frames
      BY <3>1 DEF Frames
    <3> QED BY <1>5, <3>2 DEF ChainAgain
  <2> QED BY <1>5, <2>1, FrameConstants
          DEF ChainAgain, readerVars, callerVars, cardVars
<1>6. CASE ChainError
  BY <1>6, FrameConstants DEF ChainError, Return, cardVars
<1>7. CASE GrantTime
  BY <1>7, FrameConstants DEF GrantTime, readerVars, callerVars, cardVars
<1>8. CASE LastData
  <2>1. /\ pc = "last" /\ up.kind = "I" /\ up' = None
        /\ block' = Toggled(block)
        /\ UNCHANGED <<open, sent, total, cmd, room, reopens, cardVars>>
    BY <1>8 DEF LastData
  <2>2. block' \in Bits
    BY <2>1, BitToggled
  <2>3. rx' \in Seq(Data) /\ left' \in Nat
    <3>1. up.data \in Data
      BY <2>1, FrameRead
    <3>2. \/ rx' = Append(rx, up.data) /\ left > 0 /\ left' = left - 1
          \/ rx' = rx /\ left' = left
      BY <1>8 DEF LastData, Keep
    <3>3. rx \in Seq(Data) /\ left \in Nat
      BY DEF CallInv
    <3>4. Append(rx, up.data) \in Seq(Data)
      BY <3>1, <3>3
    <3>5. rx' \in Seq(Data)
      BY <3>2, <3>3, <3>4
    <3>6. left' \in Nat
      BY <3>2, <3>3
    <3> QED BY <3>5, <3>6
  <2>4. /\ down' \in Frames /\ pc' \in {"idle", "last"}
        /\ ret' \in {"none", "OK", "EIO"} /\ failed' \in BOOLEAN
    <3>1. CASE up.more
      <4>1. Ack(block') \in Frames
        BY <2>2 DEF Frames
      <4> QED BY <1>8, <2>1, <3>1, <4>1 DEF LastData
    <3>2. CASE ~up.more
      BY <1>8, <3>2, FrameConstants DEF LastData, Return
    <3> QED BY <3>1, <3>2
  <2> QED BY <2>1, <2>2, <2>3, <2>4, FrameConstants DEF cardVars
<1>9. CASE LastError
  BY <1>9, FrameConstants DEF LastError, Return, cardVars
<1> QED
  BY <1>1, <1>2, <1>3, <1>4, <1>5, <1>6, <1>7, <1>8, <1>9 DEF Reader

(* What the card sends is a frame. *)
LEMMA CallInvCard == CallInv /\ (Card \/ LoseDown \/ LoseUp) => CallInv'
<1> SUFFICES ASSUME CallInv, Card \/ LoseDown \/ LoseUp PROVE CallInv'
  OBVIOUS
<1> USE DEF CallInv, TypeOK
<1>1. CASE CardBlock
  <2>1. /\ down.kind = "I" /\ down' = None /\ cBit' = Toggled(cBit)
        /\ UNCHANGED <<readerVars, callerVars>>
    BY <1>1 DEF CardBlock
  <2>2. cBit' \in Bits /\ down.data \in Data /\ None \in Frames
    BY <2>1, BitToggled, FrameRead, FrameConstants
  <2>3. CASE down.more
    <3>1. /\ cIn' = Append(cIn, down.data) /\ Answer(Ack(cBit'))
          /\ cOut' = <<>> /\ UNCHANGED <<executed, answer>>
      BY <1>1, <2>3 DEF CardBlock
    <3>2. Ack(cBit') \in Frames
      BY <2>2 DEF Frames
    <3>3. /\ cLast' \in Frames /\ cHold' \in Frames /\ up' \in Frames
          /\ wtx' \in 0 .. MaxWtx
      BY <3>1, <3>2, AnswerTyped
    <3>4. cIn' \in Seq(Data) /\ cOut' \in Seq(Data)
      BY <2>2, <3>1
    <3> QED BY <2>1, <2>2, <3>1, <3>3, <3>4 DEF readerVars, callerVars
  <2>4. CASE ~down.more
    <3>1. /\ cIn' = <<>>
          /\ executed' = Append(executed, Append(cIn, down.data))
      BY <1>1, <2>4 DEF CardBlock
    <3>2. PICK n \in 1 .. MaxResp :
             /\ answer' = n
             /\ Answer(I(cBit', n > 1, <<down.data[1], 1>>))
             /\ cOut' = [i \in 1 .. n - 1 |-> <<down.data[1], i + 1>>]
      BY <1>1, <2>4 DEF CardBlock
    <3>3. down.data[1] \in 1 .. MaxCalls
      BY <2>2 DEF Data
    <3>4. <<down.data[1], 1>> \in Data
      BY <3>3, DataMade, CountsAssumption
    <3>5. I(cBit', n > 1, <<down.data[1], 1>>) \in Frames
      <4>1. (n > 1) \in BOOLEAN
        OBVIOUS
      <4> QED BY <2>2, <3>4, <4>1, FrameMade
    <3>6. /\ cLast' \in Frames /\ cHold' \in Frames /\ up' \in Frames
          /\ wtx' \in 0 .. MaxWtx
      BY <3>2, <3>5, AnswerTyped
    <3>7. cOut' \in Seq(Data)
      <4>1. \A i \in 1 .. n - 1 : <<down.data[1], i + 1>> \in Data
        <5> TAKE i \in 1 .. n - 1
        <5>1. i + 1 \in Nat \ {0} /\ i + 1 <= MaxResp
          BY CountsAssumption
        <5> QED BY <3>3, <5>1, DataMade
      <4>2. n - 1 \in Nat
        OBVIOUS
      <4> QED BY <3>2, <4>1, <4>2
    <3>8. cIn' \in Seq(Data) /\ executed' \in Seq(Seq(Data)) /\ answer' \in Nat
      <4>1. Append(cIn, down.data) \in Seq(Data)
        BY <2>2
      <4>2. answer' \in Nat
        BY <3>2, CountsAssumption
      <4> HIDE DEF TypeOK
      <4>3. executed \in Seq(Seq(Data))
        BY DEF TypeOK
      <4> QED BY <3>1, <4>1, <4>2, <4>3
    <3> QED BY <2>1, <2>2, <3>6, <3>7, <3>8 DEF readerVars, callerVars
  <2> QED BY <2>3, <2>4
<1>2. CASE CardAck
  <2>1. /\ down' = None
        /\ UNCHANGED <<readerVars, callerVars, cIn, executed, answer>>
    BY <1>2 DEF CardAck
  <2>2. /\ cLast' \in Frames /\ cHold' \in Frames /\ up' \in Frames
        /\ wtx' \in 0 .. MaxWtx /\ cBit' \in Bits /\ cOut' \in Seq(Data)
    <3>1. CASE Answer(cLast) /\ UNCHANGED <<cBit, cOut>>
      BY <3>1, AnswerTyped
    <3>2. CASE /\ cOut # <<>>
               /\ cBit' = Toggled(cBit) /\ cOut' = Tail(cOut)
               /\ Answer(I(cBit', Len(cOut) > 1, Head(cOut)))
      <4>1. Head(cOut) \in Data /\ Tail(cOut) \in Seq(Data)
        BY <3>2
      <4>2. cBit' \in Bits /\ (Len(cOut) > 1) \in BOOLEAN
        BY <3>2, BitToggled
      <4>3. I(cBit', Len(cOut) > 1, Head(cOut)) \in Frames
        BY <4>1, <4>2, FrameMade
      <4> QED BY <3>2, <4>1, <4>2, <4>3, AnswerTyped
    <3>3. CASE up' = Lost /\ UNCHANGED <<cBit, cOut, cLast, cHold, wtx>>
      BY <3>3, FrameConstants
    <3> QED BY <1>2, <3>1, <3>2, <3>3 DEF CardAck
  <2> QED BY <2>1, <2>2, FrameConstants DEF readerVars, callerVars
<1>3. CASE CardGranted
  <2>1. wtx' \in 0 .. MaxWtx
    BY <1>3, CountsAssumption DEF CardGranted
  <2> QED BY <1>3, <2>1, FrameConstants DEF CardGranted, readerVars, callerVars
<1>4. CASE LoseDown
  BY <1>4, FrameConstants DEF LoseDown, readerVars, callerVars, cardVars
<1>5. CASE LoseUp
  BY <1>5, FrameConstants DEF LoseUp, readerVars, callerVars, cardVars
<1> QED BY <1>1, <1>2, <1>3, <1>4, <1>5 DEF Card

LEMMA AlwaysCall == Spec => []CallInv
<1>1. Init => CallInv
  <2> SUFFICES ASSUME Init PROVE CallInv
    OBVIOUS
  <2>1. /\ <<>> \in Seq(Data) /\ <<>> \in Seq(Seq(Data))
        /\ 0 \in 0 .. MaxWtx /\ 0 \in Bits /\ 1 \in Bits /\ 0 \in 0 .. MaxCalls
    BY CountsAssumption DEF Bits
  <2>2. reopens \in BOOLEAN
    BY PoliciesAssumption DEF Init
  <2> QED BY <2>1, <2>2, FrameConstants DEF Init, CallInv, TypeOK
<1>2. CallInv /\ UNCHANGED vars => CallInv'
  BY DEF CallInv, TypeOK, vars, readerVars, callerVars, cardVars
<1>3. CallInv /\ [Next]_vars => CallInv'
  BY <1>2, CallInvReader, CallInvCard DEF Next
<1> QED BY <1>1, <1>3, PTL DEF Spec

(* The variables keep their types, for a caller of either kind: what is in  *)
(* flight is a frame, and what is stored are blocks.                        *)
THEOREM TypeCorrect == Spec => []TypeOK
<1>1. CallInv => TypeOK
  BY DEF CallInv
<1> QED BY <1>1, AlwaysCall, PTL
-------------------------------------------------------------------------------
(* The answer of a caller that goes on after errors *)

(* The answer on its way: the frame going up, or the one the card holds     *)
(* back while it asks for time.                                             *)
Pending == IF up = Wtx \/ down = Wtx THEN cHold ELSE up

(* The blocks stored are of the command of this call, in their order.       *)
Ordered ==
    /\ \A i \in 1 .. Len(rx) : rx[i][1] = cmd
    /\ \A i, j \in 1 .. Len(rx) : i < j => rx[i][2] < rx[j][2]

(* None of the blocks stored comes after block n of the answer.             *)
KeptUpTo(n) == \A i \in 1 .. Len(rx) : rx[i][2] <= n

(* What the card has still to send continues the block it sent last.        *)
CardOut ==
    /\ cLast.kind = "I" => cLast.bit = cBit
    /\ \A i \in 1 .. Len(cOut) :
          /\ cLast.kind = "I"
          /\ cOut[i] = <<cLast.data[1], cLast.data[2] + i>>

OneFrame == /\ pc = "idle" => up = None /\ down = None
            /\ up # None => down = None

Asked == down.kind = "I" => ~down.more /\ down.data[1] = cmd /\ rx = <<>>

(* An acknowledgement asks for the last block again only while nothing is   *)
(* stored, ...                                                              *)
AskedOn == down.kind = "ack" =>
    /\ down.bit = block /\ cLast.kind = "I" /\ cLast.data[1] = cmd
    /\ block = cBit => rx = <<>>
    /\ block # cBit => KeptUpTo(cLast.data[2])

(* ... and a block that carries the current number comes after those        *)
(* stored.                                                                  *)
Coming == Pending.kind = "I" =>
    /\ Pending = cLast /\ cLast.data[1] = cmd
    /\ block = cBit => KeptUpTo(cLast.data[2] - 1)
    /\ block # cBit => rx = <<>>

OwnInv ==
    /\ CardOut /\ OneFrame
    /\ pc # "idle" => ret = "none"
    /\ pc = "chain" => rx = <<>>
    /\ pc = "last" => Asked /\ AskedOn /\ Coming
    /\ (pc = "last" \/ ret = "OK") => Ordered

LEMMA SendBlockShape ==
    ASSUME NEW b, NEW c, NEW k, NEW n, SendBlock(b, c, k, n)
    PROVE  /\ down'.kind = "I" /\ down'.data[1] = c /\ down' # Wtx
           /\ pc' \in {"chain", "last"}
           /\ pc' = "last" => ~down'.more
<1>1. /\ down' = I(b, k + 1 < n, <<c, k + 1>>)
      /\ pc' = IF k + 1 < n THEN "chain" ELSE "last"
  BY DEF SendBlock
<1>2. down'.kind = "I" /\ down'.data[1] = c /\ Wtx.kind = "wtx"
  BY <1>1 DEF I, Wtx
<1>3. down'.more = (k + 1 < n)
  BY <1>1 DEF I
<1> QED BY <1>1, <1>2, <1>3

LEMMA OwnInvReader == CallInv /\ OwnInv /\ Reader => OwnInv'
<1> SUFFICES ASSUME CallInv, OwnInv, Reader PROVE OwnInv'
  OBVIOUS
<1>0. /\ up \in Frames /\ down \in Frames /\ cLast \in Frames
      /\ cHold \in Frames /\ block \in Bits /\ cBit \in Bits
      /\ rx \in Seq(Data) /\ left \in Nat /\ pc \in {"idle", "chain", "last"}
  BY DEF CallInv, TypeOK
<1> USE DEF OwnInv, CardOut, OneFrame, Asked, AskedOn, Coming, Ordered,
            KeptUpTo, Pending, None, Lost, Wtx, I, Ack, LongAck, readerVars,
            callerVars, cardVars
<1>1. CASE Open
  BY <1>1 DEF Open
<1>2. CASE Close
  BY <1>2 DEF Close
<1>3. CASE Call
  <2>1. /\ up' = None /\ rx' = <<>> /\ ret' = "none"
        /\ SendBlock(block, cmd', 0, total')
        /\ UNCHANGED <<cLast, cBit, cOut, cHold>>
    BY <1>3 DEF Call
  <2>2. /\ down'.kind = "I" /\ down'.data[1] = cmd' /\ down' # Wtx
        /\ pc' \in {"chain", "last"} /\ (pc' = "last" => ~down'.more)
    BY <2>1, SendBlockShape
  <2> QED BY <2>1, <2>2
<1>4. CASE ChainAck
  <2>1. /\ up' = None /\ rx' = <<>> /\ ret' = "none" /\ cmd' = cmd
        /\ SendBlock(block', cmd, sent', total)
        /\ UNCHANGED <<cLast, cBit, cOut, cHold>>
    BY <1>4 DEF ChainAck
  <2>2. /\ down'.kind = "I" /\ down'.data[1] = cmd' /\ down' # Wtx
        /\ pc' \in {"chain", "last"} /\ (pc' = "last" => ~down'.more)
    BY <2>1, SendBlockShape
  <2> QED BY <2>1, <2>2
<1>5. CASE ChainAgain
  BY <1>5 DEF ChainAgain
<1>6. CASE ChainError
  BY <1>6 DEF ChainError, Return
<1>7. CASE GrantTime
  BY <1>7 DEF GrantTime
<1>8. CASE LastData
  <2>1. /\ pc = "last" /\ up.kind = "I" /\ up' = None /\ down = None
        /\ block' = Toggled(block) /\ up = cLast /\ up.bit = cBit
        /\ cLast.data[1] = cmd
        /\ UNCHANGED <<cmd, cLast, cBit, cOut, cHold>>
    BY <1>8 DEF LastData
  <2>2. up.data \in Data /\ up.data[1] = cmd /\ up.data[2] \in Nat
    BY <1>0, <2>1, FrameRead DEF Data
  <2>3. /\ block = cBit => KeptUpTo(cLast.data[2] - 1)
        /\ block # cBit => rx = <<>>
        /\ Ordered
    BY <2>1
  <2>4. block' = cBit <=> block # cBit
    BY <1>0, <2>1 DEF Bits, Toggled
  <2>5. \A i \in 1 .. Len(rx) : rx[i][2] \in Nat
    BY <1>0 DEF Data
  <2>6. Ordered' /\ KeptUpTo(cLast.data[2])' /\ (block' = cBit => rx' = <<>>)
    <3>1. CASE rx' = rx
      BY <2>1, <2>2, <2>3, <2>4, <2>5, <3>1
    <3>2. CASE block = cBit /\ rx' = Append(rx, up.data)
      <4>1. /\ Len(rx') = Len(rx) + 1 /\ Len(rx) \in Nat
            /\ rx'[Len(rx) + 1] = up.data
            /\ \A i \in 1 .. Len(rx) : rx'[i] = rx[i]
        BY <1>0, <2>2, <3>2
      <4>2. \A i \in 1 .. Len(rx) : /\ rx[i][1] = cmd
                                    /\ rx[i][2] < up.data[2]
        BY <2>1, <2>2, <2>3, <2>5, <3>2
      <4>3. \A i \in 1 .. Len(rx') : i \in 1 .. Len(rx) \/ i = Len(rx) + 1
        BY <4>1
      <4>4. \A i \in 1 .. Len(rx') : rx'[i][1] = cmd
        BY <2>2, <4>1, <4>2, <4>3
      <4>5. \A i, j \in 1 .. Len(rx') : i < j => rx'[i][2] < rx'[j][2]
        <5> TAKE i, j \in 1 .. Len(rx')
        <5> HAVE i < j
        <5>1. i \in 1 .. Len(rx)
          BY <4>1
        <5>2. CASE j \in 1 .. Len(rx)
          BY <2>3, <4>1, <5>1, <5>2
        <5>3. CASE j = Len(rx) + 1
          BY <4>1, <4>2, <5>1, <5>3
        <5> QED BY <4>3, <5>2, <5>3
      <4>6. \A i \in 1 .. Len(rx') : rx'[i][2] <= up.data[2]
        BY <2>2, <2>5, <4>1, <4>2, <4>3
      <4> QED BY <2>1, <2>4, <3>2, <4>4, <4>5, <4>6
    <3>3. \/ rx' = rx
          \/ block = cBit /\ rx' = Append(rx, up.data)
      BY <1>8, <2>1 DEF LastData, Keep
    <3> QED BY <3>1, <3>2, <3>3
  <2>7. \/ down' = Ack(block') /\ pc' = "last" /\ ret' = ret
        \/ down' = None /\ pc' = "idle"
    BY <1>8, <2>1 DEF LastData, Return
  <2>8. Asked' /\ AskedOn' /\ Coming' /\ OneFrame' /\ CardOut'
    BY <2>1, <2>6, <2>7
  <2> QED BY <2>1, <2>6, <2>7, <2>8
<1>9. CASE LastError
  BY <1>9 DEF LastError, Return
<1> QED
  BY <1>1, <1>2, <1>3, <1>4, <1>5, <1>6, <1>7, <1>8, <1>9 DEF Reader

LEMMA OwnInvCard == CallInv /\ OwnInv /\ (Card \/ LoseDown \/ LoseUp) => OwnInv'
<1> SUFFICES ASSUME CallInv, OwnInv, Card \/ LoseDown \/ LoseUp
             PROVE  OwnInv'
  OBVIOUS
<1>0. /\ up \in Frames /\ down \in Frames /\ cLast \in Frames
      /\ cHold \in Frames /\ block \in Bits /\ cBit \in Bits
      /\ rx \in Seq(Data) /\ cOut \in Seq(Data)
      /\ pc \in {"idle", "chain", "last"}
  BY DEF CallInv, TypeOK
<1> USE DEF OwnInv, CardOut, OneFrame, Asked, AskedOn, Coming, Ordered,
            KeptUpTo, Pending, None, Lost, Wtx, I, Ack, LongAck, readerVars,
            callerVars, cardVars
<1>1. CASE CardBlock
  <2>1. /\ down.kind = "I" /\ down' = None /\ up = None
        /\ cBit' = Toggled(cBit) /\ pc # "idle"
        /\ UNCHANGED <<readerVars, callerVars>>
    BY <1>1 DEF CardBlock
  <2>2. CASE down.more
    <3>1. /\ cOut' = <<>> /\ cLast' = Ack(cBit')
          /\ \/ up' = Ack(cBit')
             \/ up' = Wtx /\ cHold' = Ack(cBit')
      BY <1>1, <2>2 DEF CardBlock, Answer
    <3>2. pc = "chain"
      BY <1>0, <2>1, <2>2
    <3> QED BY <2>1, <3>1, <3>2
  <2>3. CASE ~down.more
    <3>1. PICK n \in 1 .. MaxResp :
            /\ Answer(I(cBit', n > 1, <<down.data[1], 1>>))
            /\ cOut' = [i \in 1 .. n - 1 |-> <<down.data[1], i + 1>>]
      BY <1>1, <2>3 DEF CardBlock
    <3>2. /\ cLast' = I(cBit', n > 1, <<down.data[1], 1>>)
          /\ \/ up' = cLast'
             \/ up' = Wtx /\ cHold' = cLast'
      BY <3>1 DEF Answer
    <3>3. /\ cLast'.kind = "I" /\ cLast'.bit = cBit'
          /\ cLast'.data[1] = down.data[1] /\ cLast'.data[2] = 1
          /\ cLast' # Wtx
      BY <3>2
    <3>4. \A i \in 1 .. Len(cOut') :
             cOut'[i] = <<cLast'.data[1], cLast'.data[2] + i>>
      <4>1. Len(cOut') = n - 1
        BY <3>1, CountsAssumption
      <4> QED BY <3>1, <3>3, <4>1
    <3>5. pc = "last" => cLast'.data[1] = cmd /\ rx = <<>>
      BY <2>1, <3>3
    <3>6. CardOut' /\ OneFrame' /\ Asked' /\ AskedOn'
      BY <2>1, <3>2, <3>3, <3>4
    <3>7. pc = "last" => Coming'
      BY <2>1, <3>2, <3>3, <3>5
    <3> QED BY <2>1, <3>6, <3>7
  <2> QED BY <2>2, <2>3
<1>2. CASE CardAck
  <2>1. /\ down.kind = "ack" /\ down' = None /\ up = None /\ pc # "idle"
        /\ UNCHANGED <<readerVars, callerVars>>
    BY <1>2 DEF CardAck
  <2>2. CASE down.bit = cBit /\ Answer(cLast) /\ UNCHANGED <<cBit, cOut>>
    <3>1. /\ cLast' = cLast
          /\ \/ up' = cLast
             \/ up' = Wtx /\ cHold' = cLast
      BY <2>2 DEF Answer
    <3>2. pc = "last" => /\ block = cBit /\ cLast.kind = "I" /\ cLast # Wtx
                         /\ cLast.data[1] = cmd /\ rx = <<>>
      BY <2>1, <2>2
    <3>3. CardOut' /\ OneFrame' /\ Asked' /\ AskedOn'
      BY <2>1, <2>2, <3>1
    <3>4. pc = "last" => Coming'
      BY <2>1, <2>2, <3>1, <3>2
    <3> QED BY <2>1, <3>3, <3>4
  <2>3. CASE /\ down.bit # cBit /\ cOut # <<>>
             /\ cBit' = Toggled(cBit) /\ cOut' = Tail(cOut)
             /\ Answer(I(cBit', Len(cOut) > 1, Head(cOut)))
    <3>1. /\ cLast' = I(cBit', Len(cOut) > 1, Head(cOut))
          /\ \/ up' = cLast'
             \/ up' = Wtx /\ cHold' = cLast'
      BY <2>3 DEF Answer
    <3>2. /\ Len(cOut) >= 1 /\ Head(cOut) = cOut[1]
          /\ Len(cOut') = Len(cOut) - 1
          /\ \A i \in 1 .. Len(cOut') : cOut'[i] = cOut[i + 1]
      BY <1>0, <2>3
    <3>3. /\ cLast.kind = "I" /\ cLast.data[2] \in Nat
          /\ Head(cOut) = <<cLast.data[1], cLast.data[2] + 1>>
      <4>1. cLast.kind = "I"
        BY <3>2
      <4>2. cLast.data[2] \in Nat
        BY <1>0, <4>1, FrameRead DEF Data
      <4> QED BY <3>2, <4>1, <4>2
    <3>4. /\ cLast'.kind = "I" /\ cLast'.bit = cBit' /\ cLast' # Wtx
          /\ cLast'.data[1] = cLast.data[1]
          /\ cLast'.data[2] = cLast.data[2] + 1
      BY <3>1, <3>3
    <3>5. \A i \in 1 .. Len(cOut') :
             cOut'[i] = <<cLast'.data[1], cLast'.data[2] + i>>
      <4> TAKE i \in 1 .. Len(cOut')
      <4>1. cOut'[i] = cOut[i + 1] /\ i + 1 \in 1 .. Len(cOut)
        BY <1>0, <3>2
      <4>2. cOut[i + 1] = <<cLast.data[1], cLast.data[2] + (i + 1)>>
        BY <4>1
      <4>3. \A n, k \in Nat : n + (k + 1) = (n + 1) + k
        OBVIOUS
      <4>4. i \in Nat
        OBVIOUS
      <4>5. cLast.data[2] + (i + 1) = cLast'.data[2] + i
        BY <3>3, <3>4, <4>3, <4>4
      <4> QED BY <3>4, <4>1, <4>2, <4>5
    <3>6. pc = "last" => /\ block = cBit' /\ cLast'.data[1] = cmd
                         /\ KeptUpTo(cLast.data[2])
      BY <1>0, <2>1, <2>3, <3>4 DEF Bits, Toggled
    <3>7. CardOut' /\ OneFrame' /\ Asked' /\ AskedOn'
      BY <2>1, <3>1, <3>4, <3>5
    <3>8. cLast'.data[2] - 1 = cLast.data[2]
      BY <3>3, <3>4
    <3>9. pc = "last" => Coming'
      BY <2>1, <3>1, <3>4, <3>6, <3>8
    <3> QED BY <2>1, <3>7, <3>9
  <2>4. CASE up' = Lost /\ UNCHANGED <<cBit, cOut, cLast, cHold, wtx>>
    BY <2>1, <2>4
  <2> QED BY <1>2, <2>2, <2>3, <2>4 DEF CardAck
<1>3. CASE CardGranted
  BY <1>3 DEF CardGranted
<1>4. CASE LoseDown
  BY <1>4 DEF LoseDown
<1>5. CASE LoseUp
  BY <1>5 DEF LoseUp
<1> QED BY <1>1, <1>2, <1>3, <1>4, <1>5 DEF Card

LEMMA AlwaysOwn == Spec => []OwnInv
<1>1. Init => OwnInv
  BY DEF Init, OwnInv, CardOut, OneFrame, Ordered, None
<1>2. OwnInv /\ UNCHANGED vars => OwnInv'
  BY DEF OwnInv, CardOut, OneFrame, Asked, AskedOn, Coming, Ordered, KeptUpTo,
         Pending, vars, readerVars, callerVars, cardVars
<1>3. CallInv /\ OwnInv /\ [Next]_vars => OwnInv'
  BY <1>2, OwnInvReader, OwnInvCard DEF Next
<1> QED BY <1>1, <1>3, AlwaysCall, PTL DEF Spec

(* A caller of either kind, whatever is lost and however far out of step    *)
(* the numbers are, is given blocks of the answer to its own command only,  *)
(* in their order.                                                          *)
THEOREM AnswerIsItsOwn == Spec => []OwnAnswer
<1>1. OwnInv => OwnAnswer
  BY DEF OwnInv, Ordered, OwnAnswer
<1> QED BY <1>1, AlwaysOwn, PTL

-------------------------------------------------------------------------------
(* The end of a call, for a caller of either kind *)

(* A call in progress has a frame under way, and an extension is asked for  *)
(* only with a frame that it holds back.                                    *)
UnderWay ==
    /\ pc # "idle" => up # None \/ down # None
    /\ pc = "chain" => down.kind # "ack"
    /\ (up = Wtx \/ down = Wtx) => cHold.kind \in {"I", "ack"}

LEMMA UnderWayNext == CallInv /\ OwnInv /\ UnderWay /\ [Next]_vars => UnderWay'
<1> SUFFICES ASSUME CallInv, OwnInv, UnderWay, [Next]_vars PROVE UnderWay'
  OBVIOUS
<1>1. /\ pc \in {"idle", "chain", "last"}
      /\ pc = "idle" => up = None /\ down = None
      /\ up # None => down = None
      /\ (pc = "last" /\ down.kind = "ack") => cLast.kind = "I"
  BY DEF CallInv, TypeOK, OwnInv, OneFrame, AskedOn
<1>2. /\ None.kind = "none" /\ Lost.kind = "lost" /\ Wtx.kind = "wtx"
      /\ \A b : Ack(b).kind = "ack" /\ LongAck(b).kind = "longAck"
      /\ \A b, more, d : I(b, more, d).kind = "I"
  BY DEF None, Lost, Wtx, Ack, LongAck, I
<1>3. \A f : Answer(f) => \/ up' = f
                          \/ up' = Wtx /\ cHold' = f
  BY DEF Answer
<1> USE DEF UnderWay
<1>4. CASE Open \/ Close
  BY <1>1, <1>2, <1>4 DEF Open, Close, readerVars, cardVars
<1>5. CASE Call
  <2>1. down'.kind = "I" /\ up' = None
    BY <1>1, <1>2, <1>5 DEF Call, SendBlock
  <2> QED BY <1>2, <2>1
<1>6. CASE ChainAck
  <2>1. down'.kind = "I" /\ up' = None
    BY <1>2, <1>6 DEF ChainAck, SendBlock
  <2> QED BY <1>2, <2>1
<1>7. CASE ChainAgain
  BY <1>2, <1>7 DEF ChainAgain, readerVars, cardVars
<1>8. CASE GrantTime
  BY <1>2, <1>8 DEF GrantTime, readerVars, cardVars
<1>9. CASE ChainError \/ LastError
  BY <1>2, <1>9 DEF ChainError, LastError, Return, cardVars
<1>10. CASE LastData
  <2>1. CASE up.more
    <3>1. down'.kind = "ack" /\ up' = None /\ pc' = "last"
      BY <1>2, <1>10, <2>1 DEF LastData
    <3> QED BY <1>2, <3>1
  <2>2. CASE ~up.more
    <3>1. down' = None /\ up' = None /\ pc' = "idle"
      BY <1>10, <2>2 DEF LastData, Return
    <3> QED BY <1>2, <3>1
  <2> QED BY <2>1, <2>2
<1>11. CASE CardBlock
  <2>1. down' = None /\ pc' = pc
    BY <1>11 DEF CardBlock, readerVars
  <2>2. PICK f : f.kind \in {"I", "ack"} /\ Answer(f)
    BY <1>2, <1>11 DEF CardBlock
  <2> QED BY <1>2, <1>3, <2>1, <2>2
<1>12. CASE CardAck
  <2>1. down' = None /\ pc' = pc /\ down.kind = "ack"
    BY <1>12 DEF CardAck, readerVars
  <2>2. pc = "last"
    BY <1>1, <1>2, <2>1
  <2>3. \/ up' = Lost
        \/ \E f : f.kind \in {"I", "ack"} /\ Answer(f)
    BY <1>1, <1>2, <1>12, <2>2 DEF CardAck
  <2> QED BY <1>2, <1>3, <2>1, <2>3
<1>13. CASE CardGranted
  <2>1. CASE wtx > 0
    BY <1>2, <1>13, <2>1 DEF CardGranted, readerVars
  <2>2. CASE ~(wtx > 0)
    <3>1. up' = cHold /\ down' = None /\ cHold.kind \in {"I", "ack"}
      BY <1>13, <2>2 DEF CardGranted
    <3> QED BY <1>2, <3>1
  <2> QED BY <2>1, <2>2
<1>14. CASE LoseDown
  BY <1>2, <1>14 DEF LoseDown, readerVars, cardVars
<1>15. CASE LoseUp
  BY <1>1, <1>2, <1>15 DEF LoseUp, readerVars, cardVars
<1>16. CASE UNCHANGED vars
  BY <1>16 DEF vars, readerVars, cardVars
<1> QED BY <1>4, <1>5, <1>6, <1>7, <1>8, <1>9, <1>10, <1>11, <1>12, <1>13,
           <1>14, <1>15, <1>16 DEF Next, Reader, Card

LEMMA AlwaysUnderWay == Spec => []UnderWay
<1>1. Init => UnderWay
  BY DEF Init, UnderWay, None, Wtx
<1> QED BY <1>1, UnderWayNext, AlwaysCall, AlwaysOwn, PTL DEF Spec

(* What is left of the exchange under way, by the frame that is. *)
FramesLeftIs ==
    /\ (up = Lost /\ down = None) => FramesLeft = 0
    /\ (up = None /\ down.kind = "longAck") => FramesLeft = 1
    /\ (up.kind \in {"I", "ack"} /\ down = None) => FramesLeft = 2
    /\ (up = None /\ down = Wtx) => FramesLeft = 2 * wtx + 3
    /\ (up = Wtx /\ down = None) => FramesLeft = 2 * wtx + 4
    /\ (up = None /\ down.kind \in {"I", "ack"}) => FramesLeft = 2 * MaxWtx + 3

(* The blocks of the answer still to come. *)
AnswerLeftIs ==
    /\ pc # "last" => AnswerLeft = 0
    /\ (up = Lost /\ down = None) => AnswerLeft = 0
    /\ (pc = "last" /\ up = None /\ down.kind = "I") => AnswerLeft = MaxResp + 1
    /\ (pc = "last" /\ up = None /\ down.kind = "ack")
         => AnswerLeft = Len(cOut) + (IF block = cBit THEN 1 ELSE 0)
    /\ (pc = "last" /\ up # Lost /\ down.kind \in {"none", "wtx"})
         => AnswerLeft = Len(cOut) + (IF block = cBit THEN 1 ELSE 2)

LEMMA LeftIs == FramesLeftIs /\ AnswerLeftIs
<1>1. /\ None.kind = "none" /\ Lost.kind = "lost" /\ Wtx.kind = "wtx"
      /\ None # Lost /\ None # Wtx /\ Wtx # Lost
  BY DEF None, Lost, Wtx
<1>2. FramesLeftIs
  <2>1. ASSUME up = Lost, down = None PROVE FramesLeft = 0
    <3>1. /\ up # Wtx /\ down.kind # "longAck" /\ up.kind \notin {"I", "ack"}
          /\ down # Wtx
      BY <1>1, <2>1
    <3> QED BY <2>1, <3>1 DEF FramesLeft
  <2>2. ASSUME up = None, down.kind = "longAck" PROVE FramesLeft = 1
    <3>1. up # Lost /\ up.kind \notin {"I", "ack"} /\ up # Wtx /\ down # Wtx
      BY <1>1, <2>2
    <3> QED BY <2>2, <3>1 DEF FramesLeft
  <2>3. ASSUME up.kind \in {"I", "ack"}, down = None PROVE FramesLeft = 2
    <3>1. up # Lost /\ down.kind # "longAck" /\ up # Wtx /\ down # Wtx
      BY <1>1, <2>3
    <3> QED BY <2>3, <3>1 DEF FramesLeft
  <2>4. ASSUME up = None, down = Wtx PROVE FramesLeft = 2 * wtx + 3
    <3>1. /\ up # Lost /\ down.kind # "longAck" /\ up.kind \notin {"I", "ack"}
          /\ up # Wtx
      BY <1>1, <2>4
    <3> QED BY <2>4, <3>1 DEF FramesLeft
  <2>5. ASSUME up = Wtx, down = None PROVE FramesLeft = 2 * wtx + 4
    <3>1. /\ up # Lost /\ down.kind # "longAck" /\ up.kind \notin {"I", "ack"}
          /\ down # Wtx
      BY <1>1, <2>5
    <3> QED BY <2>5, <3>1 DEF FramesLeft
  <2>6. ASSUME up = None, down.kind \in {"I", "ack"}
        PROVE  FramesLeft = 2 * MaxWtx + 3
    <3>1. /\ up # Lost /\ down.kind # "longAck" /\ up.kind \notin {"I", "ack"}
          /\ down # Wtx /\ up # Wtx
      BY <1>1, <2>6
    <3> QED BY <3>1 DEF FramesLeft
  <2> QED BY <2>1, <2>2, <2>3, <2>4, <2>5, <2>6 DEF FramesLeftIs
<1>3. AnswerLeftIs
  <2>1. ASSUME pc # "last" \/ (up = Lost /\ down = None) PROVE AnswerLeft = 0
    <3>1. pc = "last" => down.kind \notin {"I", "ack"}
      BY <1>1, <2>1
    <3> QED BY <2>1, <3>1 DEF AnswerLeft
  <2>2. ASSUME pc = "last", up # Lost, down.kind = "I"
        PROVE  AnswerLeft = MaxResp + 1
    BY <2>2 DEF AnswerLeft
  <2>3. ASSUME pc = "last", up # Lost, down.kind = "ack"
        PROVE  AnswerLeft = Len(cOut) + (IF block = cBit THEN 1 ELSE 0)
    BY <2>3 DEF AnswerLeft
  <2>4. ASSUME pc = "last", up # Lost, down.kind \in {"none", "wtx"}
        PROVE  AnswerLeft = Len(cOut) + (IF block = cBit THEN 1 ELSE 2)
    BY <2>4 DEF AnswerLeft
  <2> QED BY <1>1, <2>1, <2>2, <2>3, <2>4 DEF AnswerLeftIs
<1> QED BY <1>2, <1>3

LEMMA LeftIsNext == FramesLeftIs' /\ AnswerLeftIs'
BY LeftIs, PTL

(* Each step of a call brings it closer to its end. *)
LEMMA CallStepTaken ==
    ASSUME CallInv, OwnInv, UnderWay, UnderWay', Next, pc # "idle", pc' # "idle"
    PROVE  CallStep
<1>1. /\ pc \in {"chain", "last"} /\ sent \in Nat /\ total \in Nat /\ sent < total
      /\ cOut \in Seq(Data) /\ Len(cOut) \in Nat /\ wtx \in Nat /\ MaxWtx \in Nat
      /\ MaxResp \in Nat \ {0} /\ wtx <= MaxWtx /\ block \in {0, 1} /\ cBit \in {0, 1}
      /\ up # None => down = None
      /\ up.kind \in {"none", "lost", "wtx", "I", "ack", "longAck"}
      /\ down.kind \in {"none", "lost", "wtx", "I", "ack", "longAck"}
  BY CountsAssumption, FrameRead DEF CallInv, TypeOK, OwnInv, OneFrame, Bits
<1>2. /\ None.kind = "none" /\ Lost.kind = "lost" /\ Wtx.kind = "wtx"
      /\ \A b : Ack(b).kind = "ack" /\ LongAck(b).kind = "longAck" /\ Ack(b).bit = b
      /\ \A b, more, d : I(b, more, d).kind = "I" /\ I(b, more, d).more = more
      /\ \A b : Toggled(b) = 1 - b
  BY DEF None, Lost, Wtx, Ack, LongAck, I, Toggled
<1>3. ASSUME UNCHANGED <<sent, total>>,
             \/ AnswerLeft' < AnswerLeft
             \/ AnswerLeft' = AnswerLeft /\ FramesLeft' < FramesLeft
      PROVE  CallStep
  BY <1>3 DEF CallStep, CommandLeft
<1>4. CASE ChainAck
  <2>1. sent' = sent + 1 /\ total' = total
    BY <1>4 DEF ChainAck
  <2> QED BY <1>1, <2>1 DEF CallStep, CommandLeft
<1>5. CASE ChainAgain
  <2>1. /\ up.kind = "ack" /\ down = None /\ up' = None /\ down'.kind = "longAck"
        /\ pc = "chain" /\ pc' = pc /\ UNCHANGED <<sent, total>>
    BY <1>1, <1>2, <1>5 DEF ChainAgain, readerVars
  <2>2. AnswerLeft = 0 /\ AnswerLeft' = 0 /\ FramesLeft = 2 /\ FramesLeft' = 1
    BY <2>1, LeftIs, LeftIsNext DEF FramesLeftIs, AnswerLeftIs
  <2> QED BY <1>3, <2>1, <2>2
<1>6. CASE GrantTime
  <2>1. /\ up = Wtx /\ down = None /\ up' = None /\ down' = Wtx
        /\ UNCHANGED <<sent, total, pc, cOut, block, cBit, wtx>>
    BY <1>1, <1>2, <1>6 DEF GrantTime, readerVars, cardVars
  <2>2. FramesLeft = 2 * wtx + 4 /\ FramesLeft' = 2 * wtx + 3
    BY <2>1, LeftIs, LeftIsNext DEF FramesLeftIs
  <2>3. AnswerLeft' = AnswerLeft
    BY <1>2, <2>1, LeftIs, LeftIsNext DEF AnswerLeftIs, Wtx, Lost, None
  <2> QED BY <1>1, <1>3, <2>1, <2>2, <2>3
<1>7. CASE LastData
  <2>1. /\ pc = "last" /\ up.kind = "I" /\ up # Lost /\ down = None /\ up' = None
        /\ block' = Toggled(block) /\ up.more /\ down' = Ack(block') /\ pc' = pc
        /\ UNCHANGED <<sent, total, cOut, cBit>>
    BY <1>1, <1>2, <1>7 DEF LastData, Return, cardVars
  <2>2. AnswerLeft = Len(cOut) + (IF block = cBit THEN 1 ELSE 2)
    BY <1>2, <2>1, LeftIs DEF AnswerLeftIs
  <2>3. AnswerLeft' = Len(cOut) + (IF block' = cBit THEN 1 ELSE 0)
    BY <1>2, <2>1, LeftIsNext DEF AnswerLeftIs
  <2>4. block' = 1 - block
    BY <1>2, <2>1
  <2> QED BY <1>1, <1>3, <2>1, <2>2, <2>3, <2>4
<1>8. CASE CardBlock
  <2>1. /\ down.kind = "I" /\ up = None /\ down' = None
        /\ UNCHANGED <<sent, total, pc, block>>
        /\ cBit' = Toggled(cBit)
    BY <1>1, <1>2, <1>8 DEF CardBlock, readerVars
  <2>2. /\ \/ up'.kind \in {"I", "ack"}
           \/ up' = Wtx /\ wtx' \in Nat /\ wtx' < MaxWtx
        /\ pc = "last" => Len(cOut') \in Nat /\ Len(cOut') < MaxResp
    <3>1. CASE down.more
      <4>1. pc = "chain"
        BY <1>1, <2>1, <3>1 DEF OwnInv, Asked
      <4>2. Answer(Ack(cBit'))
        BY <1>8, <3>1 DEF CardBlock
      <4> QED BY <1>1, <1>2, <4>1, <4>2 DEF Answer
    <3>2. CASE ~down.more
      <4>1. PICK n \in 1 .. MaxResp :
              /\ Answer(I(cBit', n > 1, <<down.data[1], 1>>))
              /\ cOut' = [i \in 1 .. n - 1 |-> <<down.data[1], i + 1>>]
        BY <1>8, <3>2 DEF CardBlock
      <4>2. n - 1 \in Nat /\ n - 1 < MaxResp
        BY <1>1, <4>1
      <4>3. Len(cOut') = n - 1
        BY <4>1, <4>2
      <4> QED BY <1>1, <1>2, <4>1, <4>2, <4>3 DEF Answer
    <3> QED BY <3>1, <3>2
  <2>3. FramesLeft = 2 * MaxWtx + 3 /\ FramesLeft' < FramesLeft
    <3>1. FramesLeft = 2 * MaxWtx + 3
      BY <2>1, LeftIs DEF FramesLeftIs
    <3>2. FramesLeft' = 2 \/ (FramesLeft' = 2 * wtx' + 4 /\ wtx' \in Nat /\ wtx' < MaxWtx)
      BY <1>2, <2>1, <2>2, LeftIsNext DEF FramesLeftIs
    <3> QED BY <1>1, <3>1, <3>2
  <2>4. CASE pc = "chain"
    <3>1. AnswerLeft = 0 /\ AnswerLeft' = 0
      BY <2>1, <2>4, LeftIs, LeftIsNext DEF AnswerLeftIs
    <3> QED BY <1>3, <2>1, <2>3, <3>1
  <2>5. CASE pc = "last"
    <3>1. AnswerLeft = MaxResp + 1
      BY <2>1, <2>5, LeftIs DEF AnswerLeftIs
    <3>2. AnswerLeft' = Len(cOut') + (IF block' = cBit' THEN 1 ELSE 2)
      BY <1>2, <2>1, <2>2, <2>5, LeftIsNext DEF AnswerLeftIs
    <3>3. AnswerLeft' <= AnswerLeft
      BY <1>1, <2>2, <2>5, <3>1, <3>2
    <3>4. AnswerLeft' \in Nat /\ AnswerLeft \in Nat
      BY <1>1, <2>2, <2>5, <3>1, <3>2
    <3> QED BY <1>3, <2>1, <2>3, <3>3, <3>4
  <2> QED BY <1>1, <2>4, <2>5
<1>9. CASE CardAck
  <2>1. /\ down.kind = "ack" /\ up = None /\ down' = None
        /\ UNCHANGED <<sent, total, pc, block>>
    BY <1>1, <1>2, <1>9 DEF CardAck, readerVars
  <2>2. pc = "last" /\ down.bit = block /\ cLast.kind = "I"
    BY <1>1, <2>1 DEF UnderWay, OwnInv, AskedOn
  <2>3. /\ FramesLeft = 2 * MaxWtx + 3
        /\ AnswerLeft = Len(cOut) + (IF block = cBit THEN 1 ELSE 0)
    BY <2>1, <2>2, LeftIs DEF FramesLeftIs, AnswerLeftIs
  <2>4. ASSUME NEW f, f.kind = "I", Answer(f)
        PROVE  /\ FramesLeft' < FramesLeft
               /\ AnswerLeft' = Len(cOut') + (IF block' = cBit' THEN 1 ELSE 2)
    <3>1. \/ up' = f
          \/ up' = Wtx /\ wtx' \in Nat /\ wtx' < MaxWtx
      BY <1>1, <2>4 DEF Answer
    <3>2. FramesLeft' = 2 \/ (FramesLeft' = 2 * wtx' + 4 /\ wtx' \in Nat /\ wtx' < MaxWtx)
      BY <1>2, <2>1, <2>4, <3>1, LeftIsNext DEF FramesLeftIs
    <3>3. AnswerLeft' = Len(cOut') + (IF block' = cBit' THEN 1 ELSE 2)
      BY <1>2, <2>1, <2>2, <2>4, <3>1, LeftIsNext DEF AnswerLeftIs
    <3> QED BY <1>1, <2>3, <3>2, <3>3
  <2>5. CASE down.bit = cBit /\ Answer(cLast) /\ UNCHANGED <<cBit, cOut>>
    <3>1. AnswerLeft' = AnswerLeft /\ FramesLeft' < FramesLeft
      BY <2>1, <2>2, <2>3, <2>4, <2>5
    <3> QED BY <1>3, <2>1, <3>1
  <2>6. CASE /\ down.bit # cBit /\ cOut # <<>>
             /\ cBit' = Toggled(cBit) /\ cOut' = Tail(cOut)
             /\ Answer(I(cBit', Len(cOut) > 1, Head(cOut)))
    <3>1. Len(cOut') = Len(cOut) - 1
      BY <1>1, <2>6
    <3>2. block' = cBit' /\ block # cBit
      BY <1>1, <1>2, <2>1, <2>2, <2>6
    <3>3. AnswerLeft' = AnswerLeft /\ FramesLeft' < FramesLeft
      BY <1>1, <1>2, <2>3, <2>4, <2>6, <3>1, <3>2
    <3> QED BY <1>3, <2>1, <3>3
  <2>7. CASE /\ down.bit # cBit /\ up' = Lost
             /\ UNCHANGED <<cBit, cOut, cLast, cHold, wtx>>
    <3>1. AnswerLeft' = 0 /\ FramesLeft' = 0
      BY <2>1, <2>7, LeftIsNext DEF FramesLeftIs, AnswerLeftIs
    <3> QED BY <1>1, <1>3, <2>1, <2>3, <3>1
  <2> QED BY <1>9, <2>5, <2>6, <2>7 DEF CardAck
<1>10. CASE CardGranted
  <2>1. /\ down = Wtx /\ up = None /\ down' = None
        /\ UNCHANGED <<sent, total, pc, block, cBit, cOut>>
        /\ \/ up' = Wtx /\ wtx' \in Nat /\ wtx' = wtx - 1
           \/ up'.kind \in {"I", "ack"}
    BY <1>1, <1>2, <1>10 DEF CardGranted, UnderWay, readerVars
  <2>2. FramesLeft = 2 * wtx + 3
    BY <2>1, LeftIs DEF FramesLeftIs
  <2>3. FramesLeft' = 2 \/ (FramesLeft' = 2 * wtx' + 4 /\ wtx' = wtx - 1)
    BY <1>2, <2>1, LeftIsNext DEF FramesLeftIs
  <2>4. AnswerLeft' = AnswerLeft
    BY <1>1, <1>2, <2>1, LeftIs, LeftIsNext DEF AnswerLeftIs, Wtx, Lost, None
  <2>5. FramesLeft' < FramesLeft
    BY <1>1, <2>1, <2>2, <2>3
  <2> QED BY <1>3, <2>1, <2>4, <2>5
<1>11. CASE LoseDown \/ LoseUp
  <2>1. up' = Lost /\ down' = None /\ UNCHANGED <<sent, total, pc>>
    BY <1>1, <1>2, <1>11 DEF LoseDown, LoseUp, readerVars
  <2>2. AnswerLeft' = 0 /\ FramesLeft' = 0
    BY <2>1, LeftIsNext DEF FramesLeftIs, AnswerLeftIs
  <2>3. AnswerLeft \in Nat
    <3>1. CASE pc = "chain"
      BY <3>1, LeftIs DEF AnswerLeftIs
    <3>2. CASE pc = "last"
      BY <1>1, <3>2 DEF AnswerLeft
    <3> QED BY <1>1, <3>1, <3>2
  <2>4. FramesLeft \in Nat /\ FramesLeft > 0
    <3>1. up # Lost
      BY <1>1, <1>2, <1>11 DEF LoseDown, LoseUp
    <3> QED BY <1>1, <3>1 DEF FramesLeft
  <2> QED BY <1>3, <2>1, <2>2, <2>3, <2>4
<1>12. ~(Open \/ Close \/ Call \/ ChainError \/ LastError)
  BY DEF Open, Close, Call, ChainError, LastError, Return
<1> QED BY <1>4, <1>5, <1>6, <1>7, <1>8, <1>9, <1>10, <1>11, <1>12
        DEF Next, Reader, Card

(* A call is over after a bounded number of steps, for any number of blocks *)
(* and extensions, any losses, and callers of either kind.                  *)
THEOREM CallsAreBounded == Spec => CallBounded
<1>1. CallInv /\ OwnInv /\ UnderWay /\ UnderWay' /\ [Next]_vars => [CallStep]_vars
  BY CallStepTaken DEF CallStep
<1> QED BY <1>1, AlwaysCall, AlwaysOwn, AlwaysUnderWay, PTL DEF Spec, CallBounded

-------------------------------------------------------------------------------
(* The refinement of TclExchange, for commands, answers, calls and          *)
(* extensions of time without bound, and for a caller of either kind. *)

Blocks(c, n) == [i \in 1 .. n |-> <<c, i>>]
Least(a, b) == IF a < b THEN a ELSE b

(* The commands executed are those of calls up to c. *)
Older(c) == \A i \in 1 .. Len(executed) :
              Len(executed[i]) > 0 /\ executed[i][1][1] <= c

(* What the caller has got after n blocks of the answer. *)
Stored(n) == rx = Blocks(cmd, Least(n, room)) /\ left = room - Least(n, room)

(* The card has taken as many blocks of the command as were acknowledged,   *)
(* or one more while the acknowledgement is on its way.                     *)
ChainSim ==
    /\ Older(cmd - 1) /\ Stored(0)
    /\ down.kind = "I" => down.data = <<cmd, sent + 1>> /\ cIn = Blocks(cmd, sent)
    /\ (down.kind # "I" /\ up # Lost) => cIn = Blocks(cmd, sent + 1)

(* The command is executed, and the card is in the middle of its answer. *)
Sending ==
    /\ cIn = <<>> /\ cLast.kind = "I"
    /\ \E i \in 1 .. Len(executed) : executed[i] = Blocks(cmd, total)
    /\ cLast.data[2] + Len(cOut) = answer
    /\ cLast.more = (Len(cOut) > 0)

LastSim ==
    /\ down.kind = "I" => /\ Older(cmd - 1) /\ Stored(0)
                          /\ sent + 1 = total
                          /\ down.data = <<cmd, sent + 1>>
                          /\ cIn = Blocks(cmd, sent)
    /\ (down.kind # "I" /\ up # Lost) => Sending
    /\ down.kind = "ack" => Stored(cLast.data[2]) /\ Len(cOut) > 0
    /\ Pending.kind = "I" => Stored(cLast.data[2] - 1)

SimInv ==
    /\ Older(cmd)
    /\ (pc = "idle" /\ open /\ ~failed) => cIn = <<>>
    /\ pc = "chain" => ChainSim
    /\ pc = "last" => LastSim

(* All that is known of a caller that closes after an error. *)
Known == reopens /\ StepInv /\ CallInv /\ OwnInv /\ SimInv

-------------------------------------------------------------------------------
LEMMA BlocksShape ==
    ASSUME NEW c, NEW n \in Nat
    PROVE  /\ Len(Blocks(c, n)) = n
           /\ \A i \in 1 .. n : Blocks(c, n)[i] = <<c, i>>
           /\ Append(Blocks(c, n), <<c, n + 1>>) = Blocks(c, n + 1)
  BY DEF Blocks

LEMMA NoBlocks == \A c : Blocks(c, 0) = <<>>
  BY DEF Blocks

(* The types as far as they are used below. *)
LEMMA KnownTypes ==
    ASSUME CallInv
    PROVE  /\ block \in Bits /\ cBit \in Bits /\ failed \in BOOLEAN
           /\ pc \in {"idle", "chain", "last"}
           /\ sent \in Nat /\ total \in Nat /\ left \in Nat /\ room \in Nat
           /\ cmd \in Nat /\ rx \in Seq(Data) /\ cOut \in Seq(Data)
           /\ executed \in Seq(Seq(Data)) /\ cIn \in Seq(Data)
           /\ up.kind \in {"none", "lost", "wtx", "I", "ack", "longAck"}
           /\ down.kind \in {"none", "lost", "wtx", "I", "ack", "longAck"}
           /\ cLast.kind = "I" => cLast.data \in Data /\ cLast.data[2] \in Nat \ {0}
<1>1. /\ up \in Frames /\ down \in Frames /\ cLast \in Frames
  BY DEF CallInv, TypeOK
<1>2. cLast.kind = "I" => cLast.data \in Data /\ cLast.data[2] \in Nat \ {0}
  BY <1>1, FrameRead, CountsAssumption DEF Data
<1>3. /\ up.kind \in {"none", "lost", "wtx", "I", "ack", "longAck"}
      /\ down.kind \in {"none", "lost", "wtx", "I", "ack", "longAck"}
  BY <1>1, FrameRead
<1>4. cmd \in Nat
  BY CountsAssumption DEF CallInv, TypeOK
<1> QED BY <1>2, <1>3, <1>4 DEF CallInv, TypeOK

LEMMA SendBlockData ==
    ASSUME NEW b, NEW c, NEW k, NEW n, SendBlock(b, c, k, n)
    PROVE  /\ down'.data = <<c, k + 1>>
           /\ pc' = "last" => ~(k + 1 < n)
  BY DEF SendBlock, I

(* The last block of the command makes the card execute it whole, for the   *)
(* first time.                                                              *)
LEMMA LastBlockExecutes ==
    ASSUME Known, CardBlock, pc = "last"
    PROVE  /\ cIn' = <<>> /\ down' = None /\ up = None
           /\ executed' = Append(executed, Blocks(cmd, total))
           /\ answer' \in 1 .. MaxResp
           /\ cLast'.kind = "I" /\ cLast' # Wtx /\ cLast'.data[2] = 1
           /\ Len(cOut') = answer' - 1 /\ cLast'.more = (answer' > 1)
           /\ up' = cLast' \/ (up' = Wtx /\ cHold' = cLast')
           /\ Older(cmd - 1) /\ Stored(0)
           /\ UNCHANGED <<readerVars, callerVars>>
<1>1. /\ down.kind = "I" /\ ~down.more /\ up = None /\ down' = None
      /\ UNCHANGED <<readerVars, callerVars>>
  BY DEF CardBlock, Known, StepInv, LastState, None, Lost, Wtx
<1>2. /\ Older(cmd - 1) /\ Stored(0) /\ sent + 1 = total
      /\ down.data = <<cmd, sent + 1>> /\ cIn = Blocks(cmd, sent)
  BY <1>1 DEF Known, SimInv, LastSim
<1>3. Append(cIn, down.data) = Blocks(cmd, total)
  BY <1>2, BlocksShape, KnownTypes DEF Known
<1>4. /\ cIn' = <<>> /\ executed' = Append(executed, Blocks(cmd, total))
  BY <1>1, <1>3 DEF CardBlock
<1>5. PICK n \in 1 .. MaxResp :
        /\ answer' = n
        /\ Answer(I(cBit', n > 1, <<down.data[1], 1>>))
        /\ cOut' = [i \in 1 .. n - 1 |-> <<down.data[1], i + 1>>]
  BY <1>1 DEF CardBlock
<1>6. /\ cLast' = I(cBit', n > 1, <<down.data[1], 1>>)
      /\ up' = cLast' \/ (up' = Wtx /\ cHold' = cLast')
  BY <1>5 DEF Answer
<1>7. /\ cLast'.kind = "I" /\ cLast'.data[2] = 1 /\ cLast'.more = (answer' > 1)
      /\ cLast' # Wtx
  BY <1>5, <1>6 DEF I, Wtx
<1>8. Len(cOut') = answer' - 1
  BY <1>5, CountsAssumption
<1> QED BY <1>1, <1>2, <1>4, <1>5, <1>6, <1>7, <1>8

(* The caller gets the next block of the answer, as far as it has room. *)
LEMMA BlockIsStored ==
    ASSUME Known, LastData
    PROVE  /\ up = cLast /\ down = None /\ Sending
           /\ Stored(cLast.data[2])'
           /\ UNCHANGED <<cardVars, cmd, room, total, open, sent, reopens>>
<1>1. /\ pc = "last" /\ up.kind = "I" /\ down = None /\ Keep
      /\ UNCHANGED <<cardVars, cmd, room, total, open, sent, reopens>>
  BY DEF LastData, Known, OwnInv, OneFrame, None
<1>2. up = cLast /\ cLast.data[1] = cmd
  BY <1>1 DEF Known, OwnInv, Coming, Pending, None, Wtx
<1>3. up.bit = block
  BY <1>1 DEF Known, StepInv, LastState, Agreed, None, Lost, Wtx
<1>4. Sending /\ Stored(cLast.data[2] - 1)
  BY <1>1 DEF Known, SimInv, LastSim, Pending, None, Lost, Wtx
<1> DEFINE k == cLast.data[2]
<1>5. k \in Nat \ {0} /\ cLast.data \in Data /\ room \in Nat
  BY <1>1, <1>2, KnownTypes DEF Known
<1>6. cLast.data = <<cmd, k>>
  BY <1>2, <1>5 DEF Data
<1>7. Stored(cLast.data[2])'
  <2>1. CASE room < k
    <3>1. left = 0 /\ Least(k - 1, room) = room /\ Least(k, room) = room
      BY <1>4, <1>5, <2>1 DEF Stored, Least
    <3>2. rx' = rx /\ left' = left
      BY <1>1, <3>1 DEF Keep
    <3> QED BY <1>1, <1>4, <3>1, <3>2 DEF Stored, cardVars
  <2>2. CASE ~(room < k)
    <3>1. /\ Least(k - 1, room) = k - 1 /\ Least(k, room) = k
      BY <1>5, <2>2 DEF Least
    <3>2. left = room - (k - 1) /\ rx = Blocks(cmd, k - 1)
      BY <1>4, <3>1 DEF Stored
    <3>3. left > 0 /\ left - 1 = room - k
      BY <1>5, <2>2, <3>2
    <3>4. rx' = Append(rx, <<cmd, k>>) /\ left' = room - k
      BY <1>1, <1>2, <1>3, <1>6, <3>3 DEF Keep
    <3>5. k - 1 \in Nat /\ (k - 1) + 1 = k
      BY <1>5
    <3>6. Append(Blocks(cmd, k - 1), <<cmd, (k - 1) + 1>>)
            = Blocks(cmd, (k - 1) + 1)
      BY <3>5, BlocksShape
    <3>7. rx' = Blocks(cmd, k)
      BY <3>2, <3>4, <3>5, <3>6
    <3> QED BY <1>1, <3>1, <3>4, <3>7 DEF Stored, cardVars
  <2> QED BY <2>1, <2>2
<1> QED BY <1>1, <1>2, <1>4, <1>7

(* The chaining loop never finds an acknowledgement with the other number. *)
LEMMA NoChainAgain == StepInv => ~ChainAgain
  BY DEF StepInv, ChainAgain, ChainState, Agreed, Ack, Toggled, None, Lost,
         Wtx, Bits

(* Every command executed begins with a block of a numbered call. *)
LEMMA CallsNumbered ==
    ASSUME CallInv
    PROVE  \A i \in 1 .. Len(executed) :
              Len(executed[i]) > 0 => executed[i][1][1] \in Nat
<1> TAKE i \in 1 .. Len(executed)
<1> HAVE Len(executed[i]) > 0
<1>1. executed[i] \in Seq(Data)
  BY KnownTypes
<1>2. executed[i][1] \in Data
  BY <1>1
<1> QED BY <1>2, CountsAssumption DEF Data

LEMMA SimInvInit == Init => SimInv
  BY DEF Init, SimInv, Older

(* The exchange of the call in progress, seen by the reader and its link. *)
LEMMA SimInvReader ==
    ASSUME Known, Reader \/ LoseDown \/ LoseUp
    PROVE  SimInv'
<1>0. /\ pc \in {"idle", "chain", "last"} /\ sent \in Nat /\ total \in Nat
      /\ cmd \in Nat /\ room \in Nat
  BY KnownTypes DEF Known
<1>00. SimInv /\ reopens
  BY DEF Known
<1>000. up # None => down = None
  BY DEF Known, OwnInv, OneFrame
<1> USE DEF SimInv, Older
<1>1. CASE Open
  BY <1>00, <1>1 DEF Open
<1>2. CASE Close
  BY <1>00, <1>2 DEF Close, callerVars, cardVars
<1>3. CASE Call
  <2>1. /\ open /\ ~failed /\ pc = "idle" /\ cIn = <<>>
        /\ cmd' = cmd + 1 /\ sent' = 0 /\ rx' = <<>> /\ left' = room'
        /\ total' \in 1 .. MaxCmd /\ room' \in Nat /\ up' = up
        /\ SendBlock(block, cmd', 0, total')
        /\ UNCHANGED cardVars
    BY <1>00, <1>3, CountsAssumption DEF Call
  <2>2. up' = None
    BY <2>1 DEF Known, OwnInv, OneFrame
  <2>3. Older(cmd)' /\ Older(cmd - 1)'
    <3>1. cmd' - 1 = cmd
      BY <1>0, <2>1
    <3>2. Older(cmd) /\ executed' = executed
      BY <1>00, <2>1 DEF cardVars
    <3> QED BY <1>0, <2>1, <3>1, <3>2, CallsNumbered DEF Known
  <2>4. /\ down'.kind = "I" /\ down' # Wtx
        /\ pc' \in {"chain", "last"}
        /\ down'.data = <<cmd', 0 + 1>> /\ (pc' = "last" => ~(0 + 1 < total'))
    BY <2>1, SendBlockShape, SendBlockData
  <2>5. Stored(0)'
    <3>1. \A r \in Nat : Least(0, r) = 0 /\ r - 0 = r
      BY DEF Least
    <3> QED BY <2>1, <3>1, NoBlocks DEF Stored
  <2>6. cIn' = Blocks(cmd', sent')
    BY <2>1, NoBlocks DEF cardVars
  <2>7. pc' = "last" => sent' + 1 = total'
    BY <2>1, <2>4, CountsAssumption
  <2>8. Pending' = None /\ None.kind = "none"
    BY <2>2, <2>4 DEF Pending, None, Wtx
  <2> QED BY <2>1, <2>3, <2>4, <2>5, <2>6, <2>7, <2>8 DEF ChainSim, LastSim
<1>4. CASE ChainAck
  <2>1. /\ pc = "chain" /\ up = Ack(block) /\ sent' = sent + 1
        /\ up' = None /\ SendBlock(block', cmd, sent', total)
        /\ UNCHANGED <<total, left, rx, callerVars, cardVars>>
    BY <1>4 DEF ChainAck
  <2>2. down = None /\ up # Lost /\ None.kind = "none"
    BY <1>000, <2>1 DEF Ack, None, Lost
  <2>3. cIn = Blocks(cmd, sent + 1) /\ Older(cmd - 1) /\ Stored(0)
    BY <1>00, <2>1, <2>2 DEF ChainSim
  <2>4. /\ down'.kind = "I" /\ down' # Wtx /\ pc' \in {"chain", "last"}
        /\ down'.data = <<cmd, sent' + 1>> /\ (pc' = "last" => ~(sent' + 1 < total))
    BY <2>1, SendBlockShape, SendBlockData
  <2>5. pc' = "last" => sent' + 1 = total
    <3>1. sent + 1 < total
      BY <2>1 DEF Known, CallInv
    <3> QED BY <1>0, <2>1, <2>4, <3>1
  <2>6. /\ cIn' = Blocks(cmd', sent') /\ Older(cmd - 1)' /\ Older(cmd)'
        /\ Stored(0)' /\ cmd' = cmd /\ total' = total
    BY <1>00, <2>1, <2>3 DEF Stored, callerVars, cardVars
  <2>7. Pending' = None
    BY <2>1, <2>4 DEF Pending, None, Wtx
  <2> QED BY <2>2, <2>4, <2>5, <2>6, <2>7 DEF ChainSim, LastSim
<1>5. CASE ChainAgain
  BY <1>5, NoChainAgain DEF Known
<1>6. CASE ChainError \/ LastError
  BY <1>00, <1>6 DEF ChainError, LastError, Return, cardVars
<1>7. CASE GrantTime
  <2>1. /\ pc \in {"chain", "last"} /\ up = Wtx /\ down' = Wtx /\ up' = None
        /\ UNCHANGED <<readerVars, callerVars, cardVars>>
    BY <1>0, <1>7 DEF GrantTime
  <2>2. /\ down = None /\ up # Lost /\ Wtx.kind = "wtx" /\ None.kind = "none"
    BY <1>000, <2>1 DEF Wtx, Lost, None
  <2>3. Pending' = Pending
    BY <2>1 DEF Pending, cardVars
  <2>4. Older(cmd)' /\ (Older(cmd - 1) => Older(cmd - 1)')
        /\ (Stored(0) => Stored(0)') /\ (Sending => Sending')
        /\ (Stored(cLast.data[2] - 1) => Stored(cLast.data[2] - 1)')
    BY <1>00, <2>1 DEF Stored, Sending, readerVars, callerVars, cardVars
  <2>5. CASE pc = "chain"
    BY <1>00, <2>1, <2>2, <2>4, <2>5
       DEF ChainSim, readerVars, callerVars, cardVars
  <2>6. CASE pc = "last"
    BY <1>00, <2>1, <2>2, <2>3, <2>4, <2>6
       DEF LastSim, readerVars, callerVars, cardVars
  <2> QED BY <2>1, <2>5, <2>6
<1>8. CASE LastData
  <2>1. /\ up = cLast /\ down = None /\ Sending /\ Stored(cLast.data[2])'
        /\ UNCHANGED <<cardVars, cmd, room, total, open, sent, reopens>>
    BY <1>8, BlockIsStored
  <2>2. Sending' /\ Older(cmd)'
    BY <1>00, <2>1 DEF Sending, cardVars
  <2>3. CASE up.more
    <3>1. down' = Ack(block') /\ up' = None /\ pc' = "last" /\ Len(cOut') > 0
      BY <1>8, <2>1, <2>3 DEF LastData, Sending, cardVars
    <3>2. /\ down'.kind = "ack" /\ Pending'.kind = "none"
      BY <3>1 DEF Pending, Ack, Wtx, None
    <3> QED BY <2>1, <2>2, <3>1, <3>2 DEF LastSim
  <2>4. CASE ~up.more
    BY <1>8, <2>1, <2>2, <2>4 DEF LastData, Return, Sending
  <2> QED BY <2>3, <2>4
<1>9. CASE LoseDown \/ LoseUp
  <2>1. /\ up' = Lost /\ down' = None
        /\ UNCHANGED <<readerVars, callerVars, cardVars>>
    BY <1>000, <1>9 DEF LoseDown, LoseUp, None
  <2>2. pc # "idle"
    BY <1>9 DEF LoseDown, LoseUp, Known, OwnInv, OneFrame, None
  <2>3. Older(cmd)' /\ (Older(cmd - 1) => Older(cmd - 1)')
        /\ (Stored(0) => Stored(0)')
    BY <1>00, <2>1 DEF Stored, readerVars, callerVars, cardVars
  <2>4. Pending' = Lost /\ Lost.kind = "lost" /\ None.kind = "none"
    BY <2>1 DEF Pending, Lost, Wtx, None
  <2>5. pc' = pc
    BY <2>1 DEF readerVars
  <2> QED BY <1>0, <1>00, <2>1, <2>2, <2>3, <2>4, <2>5 DEF ChainSim, LastSim
<1> QED
  BY <1>1, <1>2, <1>3, <1>4, <1>5, <1>6, <1>7, <1>8, <1>9 DEF Reader

(* ... and by the card. *)
LEMMA SimInvCard == ASSUME Known, Card PROVE SimInv'
<1>0. /\ pc \in {"idle", "chain", "last"} /\ sent \in Nat /\ total \in Nat
      /\ cmd \in Nat /\ room \in Nat /\ cOut \in Seq(Data)
      /\ executed \in Seq(Seq(Data))
      /\ cLast.kind = "I" => cLast.data[2] \in Nat
  BY KnownTypes DEF Known
<1>00. SimInv /\ (pc = "idle" => down = None) /\ None.kind = "none"
  BY DEF Known, OwnInv, OneFrame, None
<1> USE DEF SimInv, Older
<1>1. CASE CardBlock /\ pc = "chain"
  <2>1. /\ down.kind = "I" /\ down.more /\ down' = None
        /\ UNCHANGED <<readerVars, callerVars>>
    BY <1>1 DEF CardBlock, Known, StepInv, ChainState, None, Lost, Wtx
  <2>2. /\ cIn' = Append(cIn, down.data) /\ UNCHANGED <<executed, answer>>
    BY <1>1, <2>1 DEF CardBlock
  <2>3. /\ Older(cmd - 1) /\ Stored(0) /\ cIn = Blocks(cmd, sent)
        /\ down.data = <<cmd, sent + 1>>
    BY <1>00, <1>1, <2>1 DEF ChainSim
  <2>4. cIn' = Blocks(cmd, sent + 1)
    <3>1. cIn' = Append(Blocks(cmd, sent), <<cmd, sent + 1>>)
      BY <2>2, <2>3
    <3> QED BY <1>0, <3>1, BlocksShape
  <2>5. Older(cmd)' /\ Older(cmd - 1)' /\ Stored(0)' /\ pc' = "chain"
    BY <1>00, <1>1, <2>1, <2>2, <2>3 DEF Stored, readerVars, callerVars
  <2> QED BY <1>00, <2>1, <2>4, <2>5 DEF ChainSim, readerVars, callerVars
<1>2. CASE CardBlock /\ pc = "last"
  <2>1. /\ cIn' = <<>> /\ down' = None
        /\ executed' = Append(executed, Blocks(cmd, total))
        /\ answer' \in 1 .. MaxResp
        /\ cLast'.kind = "I" /\ cLast' # Wtx /\ cLast'.data[2] = 1
        /\ Len(cOut') = answer' - 1 /\ cLast'.more = (answer' > 1)
        /\ up' = cLast' \/ (up' = Wtx /\ cHold' = cLast')
        /\ Older(cmd - 1) /\ Stored(0)
        /\ UNCHANGED <<readerVars, callerVars>>
    BY <1>2, LastBlockExecutes
  <2>2. total >= 1
    BY <1>0, <1>2 DEF Known, CallInv
  <2>3. /\ Len(executed') = Len(executed) + 1 /\ Len(executed) \in Nat
        /\ executed'[Len(executed) + 1] = Blocks(cmd, total)
        /\ \A i \in 1 .. Len(executed) : executed'[i] = executed[i]
    BY <1>0, <2>1
  <2>4. Len(Blocks(cmd, total)) > 0 /\ Blocks(cmd, total)[1][1] = cmd
    <3>1. /\ Len(Blocks(cmd, total)) = total
          /\ \A i \in 1 .. total : Blocks(cmd, total)[i] = <<cmd, i>>
      BY <1>0, BlocksShape
    <3>2. 1 \in 1 .. total
      BY <1>0, <2>2
    <3> QED BY <2>2, <3>1, <3>2
  <2>5. cmd' = cmd /\ total' = total /\ pc' = "last" /\ rx' = rx
        /\ left' = left /\ room' = room
    BY <1>2, <2>1 DEF readerVars, callerVars
  <2>6. Older(cmd)'
    <3>1. \A i \in 1 .. Len(executed') :
             i \in 1 .. Len(executed) \/ i = Len(executed) + 1
      BY <2>3
    <3>2. \A i \in 1 .. Len(executed) :
             Len(executed[i]) > 0 /\ executed[i][1][1] <= cmd
      BY <1>00
    <3> QED BY <1>0, <2>3, <2>4, <2>5, <3>1, <3>2
  <2>7. Sending'
    <3>1. Len(executed) + 1 \in 1 .. Len(executed')
      BY <2>3
    <3>2. \E i \in 1 .. Len(executed') : executed'[i] = Blocks(cmd', total')
      BY <2>3, <2>5, <3>1
    <3>3. /\ cLast'.data[2] + Len(cOut') = answer'
          /\ (answer' > 1) = (Len(cOut') > 0)
      BY <2>1, CountsAssumption
    <3> QED BY <2>1, <3>2, <3>3 DEF Sending
  <2>8. Stored(cLast.data[2] - 1)'
    BY <2>1, <2>5 DEF Stored
  <2> QED BY <1>00, <2>1, <2>5, <2>6, <2>7, <2>8 DEF LastSim
<1>3. CASE CardAck
  <2>1. /\ pc = "last" /\ down.kind = "ack" /\ down' = None
        /\ down.bit # cBit /\ up = None
    BY <1>0, <1>00, <1>3
       DEF CardAck, Known, StepInv, ChainState, LastState, None, Lost, Wtx
  <2>2. /\ Sending /\ Stored(cLast.data[2]) /\ Len(cOut) > 0
    BY <1>00, <2>1 DEF LastSim, None, Lost
  <2>3. /\ cOut' = Tail(cOut)
        /\ Answer(I(cBit', Len(cOut) > 1, Head(cOut)))
        /\ UNCHANGED <<readerVars, callerVars, cIn, executed, answer>>
    BY <1>3, <2>1, <2>2 DEF CardAck
  <2>4. /\ cLast' = I(cBit', Len(cOut) > 1, Head(cOut))
        /\ up' = cLast' \/ (up' = Wtx /\ cHold' = cLast')
    BY <2>3 DEF Answer
  <2>5. Head(cOut) = <<cLast.data[1], cLast.data[2] + 1>>
    <3>1. cOut[1] = <<cLast.data[1], cLast.data[2] + 1>>
      BY <1>0, <2>2 DEF Known, OwnInv, CardOut
    <3> QED BY <1>0, <2>2, <3>1
  <2>6. /\ cLast'.kind = "I" /\ cLast' # Wtx
        /\ cLast'.data[2] = cLast.data[2] + 1
        /\ cLast'.more = (Len(cOut) > 1)
    BY <2>4, <2>5 DEF I, Wtx
  <2>7. Len(cOut') = Len(cOut) - 1 /\ Len(cOut) \in Nat
    BY <1>0, <2>2, <2>3
  <2>8. cLast.data[2] \in Nat /\ cLast'.data[2] - 1 = cLast.data[2]
    BY <1>0, <2>2, <2>6 DEF Sending
  <2>9. Sending'
    <3>1. \A k, n \in Nat : /\ (k + 1) + (n - 1) = k + n
                             /\ (n > 1) = (n - 1 > 0)
      OBVIOUS
    <3>2. cLast.data[2] + Len(cOut) = answer
      BY <2>2 DEF Sending
    <3>3. cLast'.data[2] + Len(cOut') = answer
      BY <2>6, <2>7, <2>8, <3>1, <3>2
    <3>4. (Len(cOut) > 1) = (Len(cOut') > 0)
      BY <2>7, <3>1
    <3> QED BY <2>2, <2>3, <2>6, <3>3, <3>4 DEF Sending, readerVars, callerVars
  <2>10. Stored(cLast.data[2] - 1)' /\ Older(cmd)' /\ pc' = "last"
    BY <1>00, <2>1, <2>2, <2>3, <2>8 DEF Stored, readerVars, callerVars
  <2> QED BY <1>00, <2>1, <2>6, <2>9, <2>10 DEF LastSim
<1>4. CASE CardGranted
  <2>1. /\ down = Wtx /\ down' = None /\ pc # "idle" /\ Wtx.kind = "wtx"
        /\ \/ up' = Wtx /\ cHold' = cHold
           \/ up' = cHold
        /\ UNCHANGED <<readerVars, callerVars, cBit, cIn, cOut, cLast, executed,
                       answer>>
    BY <1>00, <1>4 DEF CardGranted, Wtx, None
  <2>2. up # Lost
    BY <2>1 DEF Known, OwnInv, OneFrame, Lost, None, Wtx
  <2>3. Older(cmd)' /\ (Older(cmd - 1) => Older(cmd - 1)')
        /\ (Stored(0) => Stored(0)') /\ (Sending => Sending') /\ pc' = pc
        /\ (Stored(cLast.data[2] - 1) => Stored(cLast.data[2] - 1)')
    BY <1>00, <2>1 DEF Stored, Sending, readerVars, callerVars
  <2>4. CASE pc = "chain"
    BY <1>00, <2>1, <2>2, <2>3, <2>4 DEF ChainSim, readerVars, callerVars
  <2>5. CASE pc = "last"
    <3>1. cHold.kind = "I"
      BY <2>1, <2>5 DEF Known, StepInv, LastState, None, Wtx, Lost
    <3>2. Pending = cHold /\ Pending' = cHold
      BY <2>1, <3>1 DEF Pending, Wtx, None
    <3> QED BY <1>00, <2>1, <2>2, <2>3, <2>5, <3>2 DEF LastSim
  <2> QED BY <1>0, <2>1, <2>4, <2>5
<1>5. CardBlock => pc # "idle"
  BY <1>00 DEF CardBlock
<1> QED BY <1>0, <1>1, <1>2, <1>3, <1>4, <1>5 DEF Card

LEMMA AlwaysKnown == Spec => [](reopens => Known)
<1>1. Init => (reopens => SimInv)
  BY SimInvInit
<1>2. UNCHANGED vars /\ SimInv => SimInv'
  BY DEF SimInv, ChainSim, LastSim, Sending, Older, Stored, Pending, vars,
         readerVars, callerVars, cardVars
<1>3. /\ Reopening /\ CallInv /\ OwnInv /\ (reopens => SimInv)
      /\ [Next]_vars
      => (reopens => SimInv)'
  BY <1>2, SimInvReader, SimInvCard, PolicyKept DEF Next, Known, Reopening
<1>4. Reopening /\ CallInv /\ OwnInv /\ (reopens => SimInv)
        => (reopens => Known)
  BY DEF Known, Reopening
<1> QED
  BY <1>1, <1>3, <1>4, AlwaysReopening, AlwaysCall, AlwaysOwn, PTL DEF Spec

-------------------------------------------------------------------------------
(* The refinement *)

LEMMA InitMapped == Init => Exchange!Init
  BY DEF Init, Exchange!Init, Seen

(* Of the caller that goes on, the abstract state shows nothing. *)
LEMMA StepHidden ==
    ASSUME ~reopens, [Next]_vars PROVE UNCHANGED Exchange!vars
<1>1. ~reopens'
  BY PolicyKept
<1> QED BY <1>1 DEF Exchange!vars, Seen

(* Of the other one, it is the state of the call; what is stored for the    *)
(* caller shows when the call succeeds.                                     *)
LEMMA StepMapped ==
    ASSUME Known, reopens', [Next]_vars
    PROVE  [Exchange!Next]_(Exchange!vars)
<1>0. /\ reopens /\ pc \in {"idle", "chain", "last"} /\ failed \in BOOLEAN
      /\ pc # "idle" => ret = "none" /\ open /\ failed = FALSE
  BY KnownTypes DEF Known, StepInv, OwnInv
<1>1. CASE Open
  <2>1. Exchange!Open
    BY <1>0, <1>1 DEF Open, Exchange!Open, Seen
  <2> QED BY <2>1 DEF Exchange!Next
<1>2. CASE Close
  <2>1. Exchange!Close
    BY <1>0, <1>2 DEF Close, Exchange!Close, Seen, callerVars, cardVars
  <2> QED BY <2>1 DEF Exchange!Next
<1>3. CASE Call
  <2>1. SendBlock(block, cmd', 0, total')
    BY <1>3 DEF Call
  <2>2. pc' # "idle"
    BY <2>1, SendBlockShape
  <2>3. Exchange!Issue
    BY <1>0, <1>3, <2>2 DEF Call, Exchange!Issue, Seen, cardVars
  <2> QED BY <2>3 DEF Exchange!Next
<1>4. CASE ChainError \/ LastError
  <2>1. pc # "idle" /\ Exchange!Fail
    BY <1>0, <1>4
       DEF ChainError, LastError, Return, Exchange!Fail, Seen, cardVars
  <2> QED BY <2>1 DEF Exchange!Next
<1>5. CASE LastData /\ ~up.more
  <2>1. /\ up = cLast /\ Sending /\ Stored(cLast.data[2])'
        /\ UNCHANGED <<cardVars, cmd, room, total, open, sent, reopens>>
    BY <1>5, BlockIsStored
  <2>2. pc = "last" /\ pc' = "idle" /\ ret' = "OK" /\ failed' = FALSE
    BY <1>5 DEF LastData, Return
  <2>3. cLast.data[2] = answer
    <3>1. ~(Len(cOut) > 0) /\ cLast.data[2] + Len(cOut) = answer
      BY <1>5, <2>1 DEF Sending
    <3>2. Len(cOut) \in Nat /\ cLast.data[2] \in Nat
      BY <2>1, KnownTypes DEF Known, Sending
    <3> QED BY <3>1, <3>2
  <2>4. rx' = Blocks(cmd, Least(answer, room))
    BY <2>1, <2>3 DEF Stored, cardVars
  <2>5. \E i \in 1 .. Len(executed) : executed[i] = Blocks(cmd, total)
    BY <2>1 DEF Sending
  <2>6. Exchange!Succeed
    BY <1>0, <2>1, <2>2, <2>4, <2>5
       DEF Exchange!Succeed, Exchange!IsExecuted, Exchange!Blocks,
           Exchange!Least, Blocks, Least, Seen, cardVars
  <2> QED BY <2>6 DEF Exchange!Next
<1>6. CASE CardBlock /\ pc = "last"
  <2>1. /\ executed' = Append(executed, Blocks(cmd, total))
        /\ answer' \in 1 .. MaxResp /\ Older(cmd - 1)
        /\ UNCHANGED <<readerVars, callerVars>>
    BY <1>6, LastBlockExecutes
  <2>2. \A i \in 1 .. Len(executed) : executed[i] # Blocks(cmd, total)
    <3>1. cmd \in Nat /\ total \in Nat /\ total >= 1
      BY <1>6, KnownTypes DEF Known, CallInv
    <3>2. Blocks(cmd, total)[1] = <<cmd, 1>>
      BY <3>1, BlocksShape
    <3> QED BY <2>1, <3>1, <3>2 DEF Older
  <2>3. Exchange!Execute
    BY <1>0, <1>6, <2>1, <2>2
       DEF Exchange!Execute, Exchange!IsExecuted, Exchange!Blocks, Blocks,
           Seen, readerVars, callerVars
  <2> QED BY <2>3 DEF Exchange!Next
<1>7. CASE ChainAck
  <2>1. SendBlock(block', cmd, sent', total)
    BY <1>7 DEF ChainAck
  <2>2. pc' # "idle"
    BY <2>1, SendBlockShape
  <2> QED BY <1>0, <1>7, <2>2 DEF ChainAck, Exchange!vars, Seen, callerVars,
                                  cardVars
<1>8. CASE ChainAgain \/ GrantTime
  BY <1>0, <1>8 DEF ChainAgain, GrantTime, Exchange!vars, Seen, readerVars,
                    callerVars, cardVars
<1>9. CASE LastData /\ up.more
  BY <1>0, <1>9 DEF LastData, Exchange!vars, Seen, cardVars
<1>10. CASE CardBlock /\ pc = "chain"
  <2>1. down.more
    BY <1>10 DEF CardBlock, Known, StepInv, ChainState, None, Lost, Wtx
  <2> QED BY <1>0, <1>10, <2>1 DEF CardBlock, Exchange!vars, Seen, readerVars,
                                   callerVars
<1>11. CASE CardAck \/ CardGranted \/ LoseDown \/ LoseUp
  BY <1>0, <1>11 DEF CardAck, CardGranted, LoseDown, LoseUp, Exchange!vars,
                     Seen, readerVars, callerVars, cardVars
<1>12. CASE UNCHANGED vars
  BY <1>12 DEF vars, Exchange!vars, Seen, readerVars, callerVars, cardVars
<1>13. CardBlock => pc # "idle"
  BY DEF CardBlock, Known, OwnInv, OneFrame, None
<1> QED
  BY <1>0, <1>1, <1>2, <1>3, <1>4, <1>5, <1>6, <1>7, <1>8, <1>9, <1>10, <1>11,
     <1>12, <1>13 DEF Next, Reader, Card

(* The block protocol implements TclExchange: for a caller that closes the  *)
(* card after an error every command is executed at most once, whole and    *)
(* in order, and a call that succeeds returns the beginning of the answer   *)
(* to its own command, however many frames are lost.                        *)
THEOREM ExchangeImplemented == Spec => ImplementsExchange
<1>1. /\ reopens => Known
      /\ [Next]_vars
      => [Exchange!Next]_(Exchange!vars)
  BY StepHidden, StepMapped, PolicyKept
<1> QED
  BY <1>1, InitMapped, AlwaysKnown, PTL
     DEF Spec, ImplementsExchange, Exchange!Spec
===============================================================================

--------------------------- MODULE Trf797xInitiator ---------------------------
(***************************************************************************)
(* The TRF797x initiator driver (drivers/trf797x): one thread that starts, *)
(* exchanges frames on and stops the transceiver, threads that stop it     *)
(* from outside, the interrupt handler, and the transceiver chip.          *)
(*                                                                         *)
(* A label of pc is a place where another thread, the interrupt handler or *)
(* the chip may act: the code between two labels is one step.  All labels  *)
(* but "idle" and "broadcast" lie in the scope of ACQUIRE_FOR_SCOPE, the   *)
(* SPI bus mutex.                                                          *)
(***************************************************************************)
EXTENDS Naturals, Sequences

CONSTANTS
    nfc,            \* the thread that opens, uses and closes the device
    Cancellers,     \* other threads that call trf797x_initiator_stop
    NoThread,       \* the owner of a free SPI bus
    Shutdowns,      \* the values callers give to the shutdown parameter
    RxSizes,        \* sizes of the caller's receive buffer, in bytes
    MaxAnswer,      \* bound: bytes in the longest answer of a card
    FifoSize,       \* TRF797X_FIFO_SIZE
    HighWater,      \* FIFO level at which the chip raises the FIFO interrupt
    PromptService   \* TRUE: the status is read before the next cause occurs

Threads == {nfc} \cup Cancellers

ASSUME ThreadsAssumption == nfc \notin Cancellers /\ NoThread \notin Threads
ASSUME ShutdownsAssumption == Shutdowns \subseteq BOOLEAN
ASSUME SizesAssumption == /\ RxSizes \subseteq Nat
                          /\ MaxAnswer \in Nat /\ FifoSize \in Nat
                          /\ HighWater \in Nat
                          /\ MaxAnswer <= FifoSize
ASSUME PromptAssumption == PromptService \in BOOLEAN

VARIABLES
    (* Trf797xInitiatorDriver and the layer above it *)
    state,      \* enum trf797x_state
    config,     \* drv->config is not NULL
    opened,     \* the layer above holds the device open
    (* the ChibiOS event source, its only listener, the bus mutex *)
    linked,     \* number of times the listener is in the source's list
    flags,      \* flags of the listener
    pending,    \* the event bit of the listening thread
    bus,        \* the thread that owns the SPI bus
    exti,       \* an edge of the interrupt pin waits for the handler
    (* the threads *)
    pc,         \* where each thread is
    shutdown,   \* the argument of each thread's last stop
    irq,        \* the local irq of transceive
    room,       \* rx_bytes, what is left of the caller's buffer
    rxBuf,      \* the bytes stored in the caller's buffer
    ret,        \* what the last call of the nfc thread returned
    stopSince,  \* history: a stop was broadcast since transceive was called
    (* the chip *)
    power,      \* the EN pin
    rf,         \* the RF field is on
    air,        \* what goes on in the field
    txLong,     \* the frame being sent does not fit in the FIFO
    fifo,       \* the received bytes not yet read: i is byte i of the answer
    got,        \* bytes of the answer received so far
    status      \* the IRQ_STATUS register

driverVars == <<state, config, opened>>
eventVars  == <<linked, flags, pending>>
callVars   == <<irq, room, rxBuf, ret, stopSince>>
fieldVars  == <<power, rf, air, txLong, fifo, got>>
vars == <<driverVars, eventVars, bus, exti, pc, shutdown, callVars,
          fieldVars, status>>

Causes == {"TX", "SRX", "FIFO", "ERR"}
Garbage == 0

StartLabels == {"reset", "probe", "attach", "register", "configure"}
TxLabels == {"txWait", "txFlags", "txIrq"}
RxLabels == {"rxWait", "rxFlags", "rxIrq", "rxDrain"}
TransceiveLabels == {"clearIrq", "clearFlags", "transmit"}
                       \cup TxLabels \cup RxLabels
BusLabels == StartLabels \cup TransceiveLabels \cup {"rfOff"}
Labels == BusLabels \cup {"idle", "broadcast"}

Returns == {"none", "OK", "EINVAL", "ENODEV", "ECANCELED", "ETIMEDOUT", "ERR"}
Bytes == Garbage .. MaxAnswer

TypeOK ==
    /\ state \in {"PWR_OFF", "RF_OFF", "IDLE"}
    /\ config \in BOOLEAN /\ opened \in BOOLEAN
    /\ linked \in {0, 1}
    /\ flags \subseteq {"STOP", "IRQ"}
    /\ pending \in BOOLEAN /\ exti \in BOOLEAN
    /\ bus \in Threads \cup {NoThread}
    /\ pc \in [Threads -> Labels]
    /\ shutdown \in [Threads -> BOOLEAN]
    /\ irq \subseteq Causes
    /\ room \in Nat /\ rxBuf \in Seq(Bytes)
    /\ ret \in Returns /\ stopSince \in BOOLEAN
    /\ power \in BOOLEAN /\ rf \in BOOLEAN
    /\ air \in {"quiet", "tx", "listen", "rx"}
    /\ txLong \in BOOLEAN
    /\ fifo \in Seq(Bytes) /\ got \in 0 .. MaxAnswer
    /\ status \subseteq Causes

(* trf797x_nfc_device_init has run: the thread is about to poll. *)
Init ==
    /\ state = "PWR_OFF" /\ config = FALSE /\ opened = FALSE
    /\ linked = 0 /\ flags = {} /\ pending = FALSE
    /\ bus = NoThread /\ exti = FALSE
    /\ pc = [t \in Threads |-> "idle"]
    /\ shutdown = [t \in Threads |-> FALSE]
    /\ irq = {} /\ room = 0 /\ rxBuf = <<>> /\ ret = "none"
    /\ stopSince = FALSE
    /\ power = FALSE /\ rf = FALSE /\ air = "quiet" /\ txLong = FALSE
    /\ fifo = <<>> /\ got = 0 /\ status = {}

-------------------------------------------------------------------------------
(* The bus mutex.  ChibiOS hands a released mutex to a waiting thread. *)

Enter(t, l) == /\ pc' = [pc EXCEPT ![t] = l]
               /\ bus' = IF bus = NoThread THEN t ELSE bus

Waiting(t) == {u \in Threads \ {t} : pc[u] \in BusLabels}

(* Mutant: the owner returns without releasing the bus. *)
LeaveHolding(t) == pc' = [pc EXCEPT ![t] = "idle"] /\ UNCHANGED bus

Leave(t) ==
    /\ pc' = [pc EXCEPT ![t] = "idle"]
    /\ bus' \in IF Waiting(t) = {} THEN {NoThread} ELSE Waiting(t)

At(l) == pc[nfc] = l /\ bus = nfc
Goto(l) == pc' = [pc EXCEPT ![nfc] = l] /\ UNCHANGED bus
Return(r) == Leave(nfc) /\ ret' = r

(* Mutant: the dummy read that clears the register is left out. *)
ReadStatusOnly(v) == v = status /\ UNCHANGED status

(* A read of IRQ_STATUS clears it.  A chip without power answers with      *)
(* whatever level the data line has.                                       *)
ReadStatus(v) == /\ v \in IF power THEN {status} ELSE {{}, Causes}
                 /\ status' = {}

-------------------------------------------------------------------------------
(* trf797x_initiator_start *)

CallStart ==
    /\ pc[nfc] = "idle" /\ ~opened
    /\ ret' = "none"
    /\ Enter(nfc, "reset")
    /\ UNCHANGED <<driverVars, eventVars, exti, shutdown, irq, room, rxBuf,
                   stopSince, fieldVars, status>>

(* reset_hardware, only from PWR_OFF; it sleeps, so others may run before  *)
(* the chip is probed.                                                     *)
StartReset ==
    /\ At("reset") /\ Goto("probe")
    /\ IF state = "PWR_OFF"
         THEN /\ power' = TRUE /\ rf' = FALSE /\ air' = "quiet"
              /\ txLong' = FALSE /\ fifo' = <<>> /\ status' = {}
              /\ UNCHANGED got
         ELSE UNCHANGED <<fieldVars, status>>
    /\ UNCHANGED <<driverVars, eventVars, exti, shutdown, callVars>>

(* trf797x_initialize.  The software INIT command may or may not clear the *)
(* interrupt status; no chip may answer, and without power none does.      *)
Initialised ==
    /\ rf' = FALSE /\ air' = "quiet" /\ txLong' = FALSE /\ fifo' = <<>>
    /\ status' \in {status, {}}
    /\ UNCHANGED <<power, got>>

StartProbe ==
    /\ At("probe")
    /\ IF power THEN Initialised ELSE UNCHANGED <<fieldVars, status>>
    /\ \/ power /\ Goto("attach") /\ UNCHANGED ret
       \/ Return("ENODEV")
    /\ UNCHANGED <<driverVars, eventVars, exti, shutdown, irq, room, rxBuf,
                   stopSince>>

(* Mutant: the event source is initialised once, by driver_init only. *)
StartAttachLinked ==
    /\ At("attach") /\ Goto("register")
    /\ state' = "IDLE" /\ config' = TRUE
    /\ UNCHANGED <<opened, eventVars, exti, shutdown, callVars, fieldVars,
                   status>>

StartAttach ==
    /\ At("attach") /\ Goto("register")
    /\ state' = "IDLE" /\ config' = TRUE
    /\ linked' = 0
    /\ UNCHANGED <<opened, flags, pending, exti, shutdown, callVars,
                   fieldVars, status>>

StartRegister ==
    /\ At("register") /\ Goto("configure")
    /\ linked' = linked + 1 /\ flags' = {}
    /\ UNCHANGED <<driverVars, pending, exti, shutdown, callVars, fieldVars,
                   status>>

StartConfigure ==
    /\ At("configure") /\ Leave(nfc)
    /\ rf' = power /\ opened' = TRUE
    /\ UNCHANGED <<state, config, eventVars, exti, shutdown, callVars, power,
                   air, txLong, fifo, got, status>>

-------------------------------------------------------------------------------
(* trf797x_initiator_transceive *)

CallTransceive ==
    /\ pc[nfc] = "idle" /\ opened
    /\ room' \in RxSizes /\ rxBuf' = <<>> /\ ret' = "none"
    /\ stopSince' = FALSE
    /\ Enter(nfc, "clearIrq")
    /\ UNCHANGED <<driverVars, eventVars, exti, shutdown, irq, fieldVars,
                   status>>

CallTransceiveEmpty ==
    /\ pc[nfc] = "idle" /\ opened
    /\ ret' = "EINVAL"
    /\ UNCHANGED <<driverVars, eventVars, bus, exti, pc, shutdown, irq, room,
                   rxBuf, stopSince, fieldVars, status>>

ClearIrq ==
    /\ At("clearIrq") /\ Goto("clearFlags")
    /\ \E v \in SUBSET Causes : ReadStatus(v)
    /\ UNCHANGED <<driverVars, eventVars, exti, shutdown, callVars,
                   fieldVars>>

(* Mutant: the flags of an earlier event are kept. *)
ClearFlagsNot ==
    /\ At("clearFlags") /\ Goto("transmit")
    /\ UNCHANGED <<driverVars, eventVars, exti, shutdown, callVars,
                   fieldVars, status>>

(* chEvtGetAndClearFlags clears the listener's flags, not the event bit. *)
ClearFlags ==
    /\ At("clearFlags") /\ Goto("transmit")
    /\ flags' = {}
    /\ UNCHANGED <<driverVars, linked, pending, exti, shutdown, callVars,
                   fieldVars, status>>

(* Mutant: TRF797X_CMD_RESET_FIFO is missing from the header. *)
TransmitNoReset ==
    /\ At("transmit") /\ Goto("txWait")
    /\ IF power
         THEN air' = "tx" /\ txLong' \in BOOLEAN /\ got' = 0 /\ UNCHANGED fifo
         ELSE UNCHANGED <<air, txLong, got, fifo>>
    /\ UNCHANGED <<driverVars, eventVars, exti, shutdown, callVars, power, rf,
                   status>>

(* trf797x_transmit: reset the FIFO, fill it and send. *)
Transmit ==
    /\ At("transmit") /\ Goto("txWait")
    /\ IF power
         THEN air' = "tx" /\ txLong' \in BOOLEAN /\ fifo' = <<>> /\ got' = 0
         ELSE UNCHANGED <<air, txLong, fifo, got>>
    /\ UNCHANGED <<driverVars, eventVars, exti, shutdown, callVars, power, rf,
                   status>>

(* Wait for the event without a timeout. *)
TxWait ==
    /\ At("txWait") /\ pending /\ Goto("txFlags")
    /\ pending' = FALSE
    /\ UNCHANGED <<driverVars, linked, flags, exti, shutdown, callVars,
                   fieldVars, status>>

(* Take the flags: a stop ends the call, anything else goes on to l. *)
TakeFlags(l) ==
    /\ flags' = {}
    /\ IF "STOP" \in flags THEN Return("ECANCELED")
                           ELSE Goto(l) /\ UNCHANGED ret
    /\ UNCHANGED <<driverVars, linked, pending, exti, shutdown, irq, room,
                   rxBuf, stopSince, fieldVars, status>>

TxFlags == At("txFlags") /\ TakeFlags("txIrq")

(* Mutant: the loop condition reads the register once more. *)
TxIrqReread ==
    /\ At("txIrq") /\ Goto("txWait")
    /\ \E v \in SUBSET Causes : ReadStatus(v)
    /\ UNCHANGED <<driverVars, eventVars, exti, shutdown, callVars,
                   fieldVars>>

(* The loop ends on TX alone.  A FIFO cause refills the FIFO: TxLow. *)
TxIrq ==
    /\ At("txIrq")
    /\ \E v \in SUBSET Causes :
          /\ ReadStatus(v) /\ irq' = v
          /\ Goto(IF v = {"TX"} THEN "rxWait" ELSE "txWait")
    /\ UNCHANGED <<driverVars, eventVars, exti, shutdown, room, rxBuf, ret,
                   stopSince, fieldVars>>

RxWait ==
    /\ At("rxWait") /\ pending /\ Goto("rxFlags")
    /\ pending' = FALSE
    /\ UNCHANGED <<driverVars, linked, flags, exti, shutdown, callVars,
                   fieldVars, status>>

(* Mutant: a timeout is taken for an event, and the register read again. *)
RxTimeoutRetry ==
    /\ At("rxWait") /\ ~pending /\ Goto("rxFlags")
    /\ UNCHANGED <<driverVars, eventVars, exti, shutdown, callVars, fieldVars,
                   status>>

RxTimeout ==
    /\ At("rxWait") /\ ~pending /\ Return("ETIMEDOUT")
    /\ UNCHANGED <<driverVars, eventVars, exti, shutdown, irq, room, rxBuf,
                   stopSince, fieldVars, status>>

RxFlags == At("rxFlags") /\ TakeFlags("rxIrq")

RxIrq ==
    /\ At("rxIrq")
    /\ \E v \in SUBSET Causes :
          /\ ReadStatus(v) /\ irq' = v
          /\ IF "ERR" \in v
               THEN Return("ERR")
               ELSE /\ Goto(IF v \cap {"FIFO", "SRX"} # {} THEN "rxDrain"
                                                           ELSE "rxWait")
                    /\ UNCHANGED ret
    /\ UNCHANGED <<driverVars, eventVars, exti, shutdown, room, rxBuf,
                   stopSince, fieldVars>>

(* Mutant: a last drain that returns no byte is taken for a spurious one. *)
RxDrainNonEmpty ==
    /\ At("rxDrain")
    /\ LET n == IF room < Len(fifo) THEN room ELSE Len(fifo)
       IN /\ rxBuf' = rxBuf \o SubSeq(fifo, 1, n) /\ room' = room - n
          /\ IF irq = {"SRX"} /\ n > 0
               THEN Return("OK") ELSE Goto("rxWait") /\ UNCHANGED ret
    /\ fifo' = <<>>
    /\ UNCHANGED <<driverVars, eventVars, exti, shutdown, irq, stopSince,
                   power, rf, air, txLong, got, status>>

(* What FIFO_STATUS and the FIFO answer; without power, a level. *)
FifoAnswers == IF power THEN {fifo}
                        ELSE {<<>>, [i \in 1 .. FifoSize |-> Garbage]}

(* trf797x_fifo_drain: keep what the buffer has room for, discard the rest. *)
RxDrain ==
    /\ At("rxDrain")
    /\ \E f \in FifoAnswers :
          LET n == IF room < Len(f) THEN room ELSE Len(f)
          IN rxBuf' = rxBuf \o SubSeq(f, 1, n) /\ room' = room - n
    /\ fifo' = <<>>
    /\ IF irq = {"SRX"} THEN Return("OK") ELSE Goto("rxWait") /\ UNCHANGED ret
    /\ UNCHANGED <<driverVars, eventVars, exti, shutdown, irq, stopSince,
                   power, rf, air, txLong, got, status>>

-------------------------------------------------------------------------------
(* trf797x_initiator_stop *)

(* The layer above stops an open device once; others call when they like,  *)
(* but not before a first start: trf797x_stop reads through drv->config.   *)
(* With shutdown, EN and the state change without the bus.                 *)
CallStop(t) ==
    /\ pc[t] = "idle" /\ config
    /\ t = nfc => opened
    /\ opened' = (opened /\ t # nfc)
    /\ pc' = [pc EXCEPT ![t] = "broadcast"]
    /\ \E s \in Shutdowns :
          /\ shutdown' = [shutdown EXCEPT ![t] = s]
          /\ IF s THEN /\ state' = "PWR_OFF" /\ power' = FALSE /\ rf' = FALSE
                       /\ air' = "quiet" /\ txLong' = FALSE /\ fifo' = <<>>
                       /\ status' = {} /\ UNCHANGED got
                  ELSE UNCHANGED <<state, fieldVars, status>>
    /\ UNCHANGED <<config, eventVars, bus, exti, callVars>>

Broadcast(f) ==
    IF linked > 0 THEN flags' = flags \cup {f} /\ pending' = TRUE
                  ELSE UNCHANGED <<flags, pending>>

(* Mutant: the flag is set but the listening thread is not woken. *)
StopBroadcastFlagOnly(t) ==
    /\ pc[t] = "broadcast"
    /\ flags' = IF linked > 0 THEN flags \cup {"STOP"} ELSE flags
    /\ stopSince' = TRUE
    /\ IF shutdown[t] THEN pc' = [pc EXCEPT ![t] = "idle"] /\ UNCHANGED bus
                      ELSE Enter(t, "rfOff")
    /\ UNCHANGED <<driverVars, linked, pending, exti, shutdown, irq, room,
                   rxBuf, ret, fieldVars, status>>

StopBroadcast(t) ==
    /\ pc[t] = "broadcast"
    /\ Broadcast("STOP")
    /\ stopSince' = TRUE
    /\ IF shutdown[t] THEN pc' = [pc EXCEPT ![t] = "idle"] /\ UNCHANGED bus
                      ELSE Enter(t, "rfOff")
    /\ UNCHANGED <<driverVars, linked, exti, shutdown, irq, room, rxBuf, ret,
                   fieldVars, status>>

(* Mutant: the state still says that the field is on. *)
StopRfOffIdle(t) ==
    /\ pc[t] = "rfOff" /\ bus = t /\ Leave(t)
    /\ rf' = FALSE
    /\ air' = IF air = "tx" THEN air ELSE "quiet"
    /\ UNCHANGED <<driverVars, eventVars, exti, shutdown, callVars, power,
                   txLong, fifo, got, status>>

(* Mutant: the field is turned off without waiting for the bus. *)
StopRfOffUnlocked(t) ==
    /\ pc[t] = "rfOff" /\ pc' = [pc EXCEPT ![t] = "idle"]
    /\ bus' \in IF bus # t THEN {bus}
                ELSE IF Waiting(t) = {} THEN {NoThread} ELSE Waiting(t)
    /\ rf' = FALSE /\ state' = "RF_OFF"
    /\ air' = IF air = "tx" THEN air ELSE "quiet"
    /\ UNCHANGED <<config, opened, eventVars, exti, shutdown, callVars, power,
                   txLong, fifo, got, status>>

(* Without the field no answer goes on arriving. *)
StopRfOff(t) ==
    /\ pc[t] = "rfOff" /\ bus = t /\ Leave(t)
    /\ rf' = FALSE /\ state' = "RF_OFF"
    /\ air' = IF air = "tx" THEN air ELSE "quiet"
    /\ UNCHANGED <<config, opened, eventVars, exti, shutdown, callVars, power,
                   txLong, fifo, got, status>>

-------------------------------------------------------------------------------
(* The interrupt: trf797x_extcallback and tf797x_interrupt_hookI *)

Isr ==
    /\ exti /\ exti' = FALSE
    /\ Broadcast("IRQ")
    /\ UNCHANGED <<driverVars, linked, bus, pc, shutdown, callVars, fieldVars,
                   status>>

(* The chip.  The pin is high while the status is not empty, so the handler *)
(* sees an edge only when a cause arrives in an empty status.               *)

Raise(c) ==
    /\ power /\ (PromptService => status = {})
    /\ status' = status \cup c
    /\ exti' = IF status = {} THEN TRUE ELSE exti
    /\ UNCHANGED <<driverVars, eventVars, bus, pc, shutdown, callVars, power,
                   rf>>

(* The low level is reached while a long frame is sent. *)
TxLow == /\ air = "tx" /\ txLong /\ txLong' = FALSE
         /\ Raise({"FIFO"}) /\ UNCHANGED <<air, fifo, got>>

(* The frame is sent, whether or not the field is on. *)
TxDone == /\ air = "tx" /\ ~txLong /\ air' = "listen"
          /\ Raise({"TX"}) /\ UNCHANGED <<txLong, fifo, got>>

(* The next byte of the answer; the high level raises FIFO. *)
RxByte ==
    /\ air \in {"listen", "rx"} /\ air' = "rx"
    /\ rf /\ power /\ got < MaxAnswer /\ got' = got + 1
    /\ fifo' = Append(fifo, got')
    /\ UNCHANGED txLong
    /\ IF Len(fifo') = HighWater
         THEN Raise({"FIFO"})
         ELSE UNCHANGED <<driverVars, eventVars, bus, exti, pc, shutdown,
                          callVars, power, rf, status>>

(* The answer ends, well or not; or noise is taken for a broken answer. *)
RxEnd ==
    /\ rf /\ air' = "quiet"
    /\ \/ air = "rx" /\ \E c \in {{"SRX"}, {"ERR"}, {"SRX", "ERR"}} : Raise(c)
       \/ air = "listen" /\ Raise({"ERR"})
    /\ UNCHANGED <<txLong, fifo, got>>

-------------------------------------------------------------------------------
Start == \/ CallStart \/ StartReset \/ StartProbe \/ StartAttach
         \/ StartRegister \/ StartConfigure

Receive == RxWait \/ RxTimeout \/ RxFlags \/ RxIrq \/ RxDrain

Transceive == \/ CallTransceive \/ CallTransceiveEmpty
              \/ ClearIrq \/ ClearFlags \/ Transmit
              \/ TxWait \/ TxFlags \/ TxIrq
              \/ Receive

Stop(t) == CallStop(t) \/ StopBroadcast(t) \/ StopRfOff(t)

Chip == TxLow \/ TxDone \/ RxByte \/ RxEnd

Next == \/ Start \/ Transceive
        \/ \E t \in Threads : Stop(t)
        \/ Isr \/ Chip

(* A call begun goes on, the handler runs, a frame accepted is sent.  No   *)
(* call has to be made, and no card has to answer.                         *)
Fairness ==
    /\ WF_vars(Isr) /\ WF_vars(TxLow) /\ WF_vars(TxDone)
    /\ WF_vars(StartReset \/ StartProbe \/ StartAttach \/ StartRegister
                  \/ StartConfigure)
    /\ WF_vars(ClearIrq \/ ClearFlags \/ Transmit \/ TxWait \/ TxFlags
                  \/ TxIrq \/ Receive)
    /\ \A t \in Threads : WF_vars(StopBroadcast(t) \/ StopRfOff(t))

Spec == Init /\ [][Next]_vars
FairSpec == Spec /\ Fairness

-------------------------------------------------------------------------------
(* Properties *)

(* The SPI bus is owned exactly while a thread is in a scope that acquired *)
(* it: no return path of start, transceive or stop keeps the bus, and no   *)
(* thread waits for a bus that is free.                                    *)
BusDiscipline ==
    IF bus = NoThread THEN \A t \in Threads : pc[t] \notin BusLabels
                      ELSE pc[bus] \in BusLabels

(* While transceive waits for an interrupt, a cause the chip has latched   *)
(* has an edge that will still signal the thread: the status is read after *)
(* every wake up and the event bit is never dropped unread.                *)
NoLostWakeup ==
    (pc[nfc] \in {"txWait", "rxWait"} /\ status # {}) => (exti \/ pending)

(* What transceive returns as an answer is the answer to the frame it sent: *)
(* its bytes in order from the first, none of an earlier exchange, and cut  *)
(* short only by the size of the caller's buffer.                           *)
AnswerIntact ==
    (pc[nfc] = "idle" /\ ret = "OK") =>
        /\ rxBuf = [i \in 1 .. Len(rxBuf) |-> i]
        /\ IF room > 0 THEN Len(rxBuf) = got ELSE Len(rxBuf) <= got

(* transceive reports a cancellation only if a stop was requested after it *)
(* was called: the stop that closed an earlier session does not cancel it. *)
NoStaleCancel == ret = "ECANCELED" => stopSince

(* When nobody drives the chip, the recorded state says what the hardware  *)
(* does: the field is on exactly in IDLE, and unless the state asks start  *)
(* for a power up the chip is powered, so the next start can find it.      *)
FieldMatchesState ==
    /\ bus = NoThread => (rf <=> state = "IDLE")
    /\ state # "PWR_OFF" => power

(* The wait for the end of the transmission has nothing left to end it. *)
TxHang == /\ pc[nfc] \in TxLabels
          /\ ~power \/ (air # "tx" /\ "TX" \notin status)

(* That wait is entered in two ways only: the thread reads TX together with *)
(* another cause, or the chip loses power.  The loop of transceive tolerates *)
(* every other order of interrupts.                                         *)
HangStep ==
    (~TxHang /\ TxHang') =>
        ({"TX"} \subseteq status /\ status # {"TX"}) \/ ~power' \/ ~power
HangOnlyIfCoalesced == [][HangStep]_vars

(* With prompt service it is not entered at all: while transceive waits    *)
(* for the end of the transmission, the chip still sends, or what it has   *)
(* latched is TX, unread.                                                  *)
TransmitEnds == ~TxHang

(* How far a transceive is from its end: the steps before it sends; then   *)
(* whether a stop is already among its flags; and then, without one, what  *)
(* the chip can still signal, what it has signalled, and the place in the  *)
(* loop.                                                                   *)
Weight(b, n) == IF b THEN n ELSE 0
BeforeSend == CASE pc[nfc] = "clearIrq" -> 3 [] pc[nfc] = "clearFlags" -> 2
                [] pc[nfc] = "transmit" -> 1 [] OTHER -> 0
Unstopped == Weight("STOP" \notin flags, 1)
CausesLeft == CASE air = "quiet" -> 0
                [] air \in {"listen", "rx"} -> MaxAnswer - got + 1
                [] air = "tx" -> MaxAnswer + 2 + Weight(txLong, 1)
InLoop == CASE pc[nfc] \in {"txFlags", "rxFlags"} -> 3
            [] pc[nfc] \in {"txIrq", "rxIrq"} -> 2
            [] pc[nfc] = "rxDrain" -> 1
            [] OTHER -> 0
WakeupsLeft == 6 * CausesLeft + Weight(exti, 5) + Weight(pending, 4) + InLoop
StoppedLeft == CASE pc[nfc] \in {"txIrq", "rxIrq"} -> 3
                 [] pc[nfc] = "rxDrain" -> 2
                 [] pc[nfc] \in {"txFlags", "rxFlags"} -> 0
                 [] OTHER -> 1
LoopLeft == IF "STOP" \in flags THEN StoppedLeft ELSE WakeupsLeft

(* No transceive loops for ever: each of its steps brings it closer to its *)
(* end, and no interrupt, cause or stop of another thread takes it back,   *)
(* however they come.  What is left is that it does not wait in vain,      *)
(* which is TransmitEnds and NoLostWakeup.                                 *)
TransceiveStep ==
    (pc[nfc] \in TransceiveLabels /\ pc'[nfc] \in TransceiveLabels) =>
        \/ BeforeSend' < BeforeSend
        \/ /\ BeforeSend' = BeforeSend
           /\ \/ BeforeSend > 0 /\ pc'[nfc] = pc[nfc]
              \/ Unstopped' < Unstopped
              \/ /\ Unstopped' = Unstopped
                 /\ \/ LoopLeft' < LoopLeft
                    \/ LoopLeft' = LoopLeft /\ pc'[nfc] = pc[nfc]
TransceiveBounded == [][TransceiveStep]_vars

(* A complete answer is not reported as a timeout when the chip is served  *)
(* promptly: at a timeout the answer is still awaited or arriving, or its  *)
(* interrupt has not been served yet.                                      *)
TimeoutStep ==
    (pc[nfc] = "rxWait" /\ ret' = "ETIMEDOUT" /\ ret # ret') =>
        air # "quiet" \/ status # {}
TimeoutMeansUnanswered == [][TimeoutStep]_vars

(* Every transceive returns, although the wait for the end of transmission *)
(* has no timeout, whether or not a card answers.                          *)
TransceiveReturns == pc[nfc] \in TransceiveLabels ~> pc[nfc] = "idle"

(* Every stop gets the bus and returns, also while a transceive holds it. *)
StopReturns == \A t \in Threads : pc[t] = "broadcast" ~> pc[t] = "idle"

(* A stop seen by a transceive that waits ends the call, even when the     *)
(* chip has been shut down and will never raise another interrupt.         *)
StopUnblocks ==
    (pc[nfc] \in TxLabels \cup RxLabels /\ "STOP" \in flags)
        ~> pc[nfc] = "idle"

(* The driver keeps what NfcDevice promises the layers above: a frame is   *)
(* sent once per exchange, an answer holds bytes received after it, and    *)
(* the field neither goes on outside of a session nor off under an         *)
(* exchange, whoever calls stop.                                           *)
Phase == CASE pc[nfc] \in StartLabels -> "opening"
           [] pc[nfc] \in TransceiveLabels -> "exchange"
           [] pc[nfc] \in {"broadcast", "rfOff"} -> "closing"
           [] pc[nfc] = "idle" -> IF opened THEN "open" ELSE "closed"
Device == INSTANCE NfcDevice WITH
    phase     <- Phase,
    field     <- rf,
    sent      <- pc[nfc] \in TxLabels \cup RxLabels,
    cancelled <- stopSince,
    rx        <- IF ret = "OK" THEN rxBuf ELSE <<>>
ImplementsDevice == Device!Spec
===============================================================================

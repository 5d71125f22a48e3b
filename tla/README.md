# TLA+ models of nfcee-fw

nfcee-fw is the firmware of an NFC reader on an STM32F4 running ChibiOS. A
thread polls for ISO14443-A cards through a TRF797x transceiver on an SPI bus and
writes what it finds to a USB serial port. This directory models the parts in
which control, order and failure matter, checks them with TLC, and proves the
results that should hold for every size with TLAPS.

## The system

| Component | State it keeps | Operations | Talks to |
|---|---|---|---|
| TRF797x initiator driver (`src/drivers/trf797x/trf797x_initiator.c`, `trf797x.c`) | power and field state, the event source and its listener, the SPI bus mutex | start, transceive, stop, interrupt hook | the chip (SPI, EN, IRQ), the kernel's events, the layer above |
| Low-level transmit and receive (`trf797x_lld.c`) | walk over the caller's vectors, the chip's FIFO | register read and write, transmit, fill, drain | the chip |
| NFC device (`trf797x_device.c`) | protocol, function table | open, transceive, ioctl, close | the initiator, libs/nfc |
| ISO14443-A activation (`src/libs/nfc/iso14443a.c`) | NFCID, SAK, ATS, FSC, FWT | open (WUPA, cascade levels, RATS), transceive with CRC | the device |
| ISO14443-4 block protocol (`src/libs/nfc/iso14443.c`) | state, block number | open, transceive, close | l3 and the device |
| NFC thread (`src/nfc.c`) | the driver structure, on its stack | poll loop, external interrupt callback | libs/nfc, trace, EXT |
| Trace over USB (`src/libs/trace`, `src/usbcfg.c`) | USB state, output queue | trace, USB events, start-of-frame | every thread, the host |
| Blinker (`src/main.c`) | – | toggle a LED, trace | trace |
| GPIO driver (`src/drivers/gpio`) | the registers of the ports | set, clear, mode of the pads of a mask | the pads, and what is wired to them |
| Board (`src/board`), clocks (`src/config`) | the pad table, the SPI divider | `boardInit`, once | GPIO driver, SPI, EXT |
| newlib shim | – | sleep | the kernel |

A call goes down: `NfcThread` → `nfc_open`/`nfc_close` → `nfc_iso14443_*` →
`nfc_iso14443a_*` → device → initiator → low level → chip. The only thing that
comes up is the interrupt: pin → EXT callback → broadcast of the event source →
the thread that waits in transceive. `trf797x_initiator_stop` may come from any
thread: it broadcasts before it takes the bus, so that a running transceive ends
and gives the bus back.

What is hard: the interrupt line is level-like but the handler is edge
triggered, several causes share a status register that a read clears, the
transmit wait has no timeout, stop races with every line of transceive, frames
get lost in either direction while both ends count blocks modulo 2, buffers are
reused for sending and receiving, and a driver structure that lives for ever
carries values from one card to the next. Before all that, the chip samples its
interface pins when its enable pin rises, so that the order of single register
stores in the GPIO driver and of the lines of `boardInit` matters. `PROJECT.json` lists each place under
`hazards`.

## Modules

| Module | Models | Proofs |
|---|---|---|
| `NfcDevice` | abstract: what a `struct nfc_device` promises the protocol layers | – |
| `Trf797xInitiator` | the driver with its threads, the interrupt and the chip; implements `NfcDevice` | `Trf797xInitiatorProofs` |
| `TxStream` | the bytes of a frame from the vectors to the air | `TxStreamProofs`, on `NatRecursion` |
| `TclExchange` | abstract: what a T=CL transceive promises | – |
| `Iso14443Tcl` | the block protocol, a card, a lossy link; implements `TclExchange` | `Iso14443TclProofs` |
| `NfcTables` | tables and arithmetic as operators, used by `TxStream` and `NfcPoll` | `NfcTablesProofs` |
| `NfcPoll` | the NFC thread, opening and closing, the activation | `NfcPollProofs` |
| `UsbTrace` | three writers of the trace channel, the USB events and descriptors, the host | `UsbTraceProofs` |
| `PadRoles` | abstract: a pad goes from role to role without another between | – |
| `GpioLld` | the GPIO driver, register store by register store; implements `PadRoles` | `BoardBootProofs`, first part |
| `BoardBoot` | the start of the board and of the NFC thread, on `GpioLld` | `BoardBootProofs` |

`*MC` modules define the sets the configurations need. Operators commented
"Mutant" are wrong variants of the definition below them, named in
`PROJECT.json`; no specification uses them.

### Trf797xInitiator

`pc[t]` is where thread t is. Each label is a point where something else may act
(a mutex, a sleep, a wait, the gap between two SPI transfers); the code from one
label to the next is one action.

| Code | Actions |
|---|---|
| `trf797x_initiator_start`, `trf797x_start` | `CallStart`, `StartReset`, `StartProbe`, `StartAttach`, `StartRegister`, `StartConfigure` |
| `trf797x_initiator_transceive`, before the wait | `CallTransceive`, `CallTransceiveEmpty`, `ClearIrq`, `ClearFlags`, `Transmit` |
| its transmit loop | `TxWait`, `TxFlags`, `TxIrq` |
| its receive loop | `RxWait`, `RxTimeout`, `RxFlags`, `RxIrq`, `RxDrain` |
| `trf797x_initiator_stop`, `trf797x_stop` | `CallStop`, `StopBroadcast`, `StopRfOff` |
| `trf797x_extcallback` and the hook | `Isr` |
| the chip (external) | `TxLow`, `TxDone`, `RxByte`, `RxEnd` |

The ChibiOS objects are modelled as the code uses them: the event bit of the
thread (`pending`) and the flags of the listener (`flags`) are two things, which
is where the spurious wake-ups come from; a released mutex goes to a waiting
thread. Register values, the protocol choice and the SPI byte stream are left
out. A chip without power answers every read with the level of the line, all
zeros or all ones. `CallStop` asks for a start before it (`config`): `trf797x_stop`
reads the bus from `drv->config`, so that a stop before any start is not a call a
program can make. No caller in the repository stops with shutdown;
`initiator_shutdown` is about the interface, and the state that a stop without
shutdown leaves after one with it (`trf797x_initiator.c:151`) is not pursued.

`PromptService` says whether the thread reads IRQ_STATUS before the next cause
arises. The two passing families of runs separate what the driver guarantees
regardless (FALSE) from what it guarantees only if the service is fast enough
(TRUE). The NFC thread runs at HIGHPRIO and a card answers no sooner than some
86 us after the end of a frame, but no line of the code enforces this: it is an
assumption of `initiator_prompt`, and `PollsForever` rests on it through the
fact that every exchange ends.

### NfcDevice

One variable `phase` for the calls of the layer above, one for the field, and
the exchange: `Send` sends its frame once, `Receive` is a byte of the card, and
`Return` ends it with bytes received since (`Answered`) or with an error
(`Failed`), a cancellation only if a stop was requested since it began.
`FieldOff` is the stop of another thread: never between `Send` and `Return`.
`Found`, `NotFound`, `Close` and `Closed` are the ends of open and close.

The refinement mapping (end of `Trf797xInitiator`) reads `phase` off the label
of the thread: the labels of start are `opening`, those of transceive
`exchange`, those of its own stop `closing`; the frame is sent once transceive
waits. Everything about events, the status, the FIFO and the bus is hidden; each
action of the driver that is not one of `NfcDevice` is a stutter.

### TxStream

`frame` is the array of vectors, each a number of bits. `FillVector` is one turn
of the loop of `trf797x_transmit` and `FillEnd` its end; `Service` is one turn
of the transmit loop of the initiator with `RefillOnFifo`. `SendByte` is the
chip. Bytes carry their identity (`<<vector, index>>`), so that a byte sent
twice, left out or read outside of the vectors is seen. `announced` is what the
chip understands from the length registers.

### Iso14443Tcl and TclExchange

`pc` is the loop of `nfc_iso14443_transceive` that waits for a frame: `chain`
(lines 118-157) or `last` (162-222). One action per way on from the received
frame: `ChainAck`, `ChainAgain`, `ChainError`, `GrantTime`, `LastData`,
`LastError`. The card (`CardBlock`, `CardAck`, `CardGranted`) follows the rules
the standard sets for it; `LoseDown` and `LoseUp` lose frames, which is also how
every error of the layer below looks to this code. `reopens` is the one thing the
caller decides, once for all and among `Policies`: whether it closes the card
after a failed call.

`TclExchange` is the promise: each command is executed at most once, whole and
in order, and a call that succeeds returns the beginning of its own answer. The
refinement mapping takes a call in progress for `busy`, hides the buffer until the
call succeeds, and shows nothing of a caller that goes on after an error, to whom
the promise is not made; `OwnAnswer` is what that caller still gets.

### NfcPoll

`pc` is the exchange of the activation the thread is in, `opened`, `sleep` or
`poll`. An exchange is one step that succeeds or ends in `OpenError`.
`WakeUp`, `Anticollision`, `Select` and `Rats` are the exchanges of
`nfc_iso14443a_open`; `Open`, `OpenMissing`, `OpenError` and `Close` are
`nfc_iso14443_open` and `_close` with their error paths; `Swap` is a person with
cards. The code does not check every answer: the ATQA has no checksum, and the
CRCs of a SAK with the cascade bit and of the ATS are ignored. The model lets
such answers be wrong and records it in `misled`; the others are checked by the
code, and a wrong one is an error. `Identified` excuses a misled activation,
because the code cannot tell. What must hold even then is stated apart: the
bytes reported are this card's own (`OnlyItsOwnBytes`), a card taken for T=CL is
in its block protocol (`Ready`), its waiting time is one of the table
(`TimingOfCard`). That is all that can be said of a corrupted ATS: its length is
not checked, and bytes of an earlier frame may stand behind a short one. Of one
that is not corrupted, `TimingOfCard` compares the waiting time with the time the
standard gives the card for its code, not with `fwi2fw`. An activation level above the first announces fewer bytes (NVB)
than it sends (`iso14443a.c:86`); the model lets the card answer or not.

### NfcTables

`fsci2fsc`, `fsd2fsdi`, `fwi2fw`, the block size, the time arithmetic and the
length registers, as operators without state.

### UsbTrace

`pc[w]` says where a writer is: between rounds (`pause`), before the test of the
macro `trace` (`test`), in `chprintf` (`put`). `TraceInit` and `StartThreads` are
`main`; `BeginRound`, `TraceTest` and `Put` are each writer's, with `EndPiece` the
loop of `trace_nfcid`. `Reset`, `Address`, `Configured`, `Unconfigured`, `Suspend`
and `WakeUp` are the cases of `usb_event` together with what the USB driver does
before it calls it; `Sof` is `sof_handler`; `GetDescriptor` is the callback of the
same name. The host, the queue and the USB driver are external and as liberal as
the code allows: text may or may not start a transmission at once, the host may
take any part of what waits, and may reset, suspend or go away at any moment.
A suspend is not taken to wake a waiting writer.

The descriptors are records with the lengths and sizes that the code writes as
literals. Two disagreements are in them, and the properties are stated around
them:

- The interrupt endpoint is enabled with packets of 16 bytes (`usbcfg.c:251`)
  where the descriptor announces 8 (`usbcfg.c:107`), although the comment at
  `usbcfg.c:273` says that the endpoints "specified into the configuration" are
  enabled. `EndpointsReady` asks for the same pipes with packets not smaller than
  announced, which is what a host needs; equality is false.
- The length byte of the vendor string says 10 for 12 bytes (`usbcfg.c:153`), that
  of the device string 32 for 34 (`usbcfg.c:162`): a host that goes by them loses
  the last letter of each. `Enumerates` says only that the host is given as many
  bytes as it was told to wait for; that it gets every string whole is false.

### GpioLld and PadRoles

A register is the function from pads to the fields it holds. `SetPortMode` is the
call of `_gpio_lld_setportmode`, `Store` one of the five register stores for the
pad at hand in the order of `Order`, and `Shift` the step to the next bit of the
mask. `shifted` is how far each of the local variables that hold the new fields
has been shifted: a store clears the field of the pad at hand and ors the value
wherever its variable stands. `Slot` says where a field lies: the alternate number is in the low or the
high register. `SetPad` and `ClearPad` are the stores to BSRR. A store to a port
without a clock has no effect (`clocked`). `PadRoles` sees of a pad its direction
and, for an alternate pad, the peripheral: the comment of the loop, that the
order avoids glitches, as an abstract specification.

### BoardBoot

`Script` is the code of `boardInit`, of `NfcThread` up to `nfc_open`, of
`trf797x_acquire_bus`, with which `trf797x_initiator_start` begins, and of
`reset_hardware` as a sequence of calls, each an action: `PadCall`,
`ConfigurePad` (whose loop runs as the steps of `GpioLld`), `SpiStart`,
`ExtStart`, `ChannelEnable`, `DriverInit`, `AcquireBus`. The history variable
`held` says that the driver has taken the bus: taking it selects the chip, before
`reset_hardware` does. `Edge` is the chip, which can signal
only when powered, `Isr` the callback, `Blink` the other thread that writes to a
port meanwhile. The clocks follow `mcuconf.h`. Two things seen on the way: the
divider is computed from PCLK1, but SPI1 divides PCLK2, so that the bus runs at
1.5 MHz where `trfconf.h` asks for 1 MHz (`EnabledInSpiMode` asks only that it be
within what the chip takes, and so does not catch the factor); and a pad that board.h leaves unconnected is an
input with a pull-up, although `gpio_lld.c:91` speaks of push pull.

## Runs

| Run | Question | Result |
|---|---|---|
| `initiator_safety` | Causes may coalesce, another thread may stop at any moment. | The bus is always given back (`BusDiscipline`); a latched cause always has a wake-up on its way (`NoLostWakeup`); an answer is whole and of this frame (`AnswerIntact`); a cancellation was asked for (`NoStaleCancel`); the recorded state is that of the hardware (`FieldMatchesState`); the endless transmit wait has one cause, TX read together with another cause (`HangOnlyIfCoalesced`); no order of interrupts, causes and stops makes a transceive loop (`TransceiveBounded`); and the driver is the device the layers above use (`ImplementsDevice`). |
| `initiator_prompt` | The status is read before the next cause. | The wait for the end of the transmission is never in vain (`TransmitEnds`), every transceive and stop returns (`TransceiveReturns`, `StopReturns`), and a complete answer is not taken for a timeout (`TimeoutMeansUnanswered`). |
| `initiator_shutdown` | Stop may cut the power under a transceive. | A stop seen by a waiting transceive ends it (`StopUnblocks`). |
| `tcl_calls` | Frames get lost; a caller closes after an error, or goes on. | For the first the protocol implements `TclExchange` (`ImplementsExchange`), and both ends agree on the number between calls (`InStep`); the second is never given blocks of another answer or out of order (`OwnAnswer`); every call returns (`CallReturns`), each of its steps bringing it nearer to that (`CallBounded`). |
| `tcl_rule_b` | Is the comment "Rule B" true? | No, see below. |
| `tcl_rule_six` | Is the comment "Rule 6/7" true? | No, see below. |
| `tx_fitting` | Frames that fit in the FIFO, split in any way. | The chip sends exactly the caller's bytes (`ContinuousTransmit`). |
| `tx_continuous` | A longer frame. | Not always, see below. |
| `poll_cards` | Five kinds of card that come and go, errors at every exchange. | The reported NFCID and SAK are those of one card (`Identified`), and of no other whatever was corrupted (`OnlyItsOwnBytes`), the card is where the next command finds it (`Ready`), the field is off between cards (`FieldOffBetween`), the waiting time is what the card may take and the frame size is the card's (`TimingOfCard`), and the thread polls for ever (`PollsForever`). |
| `usb_trace` | Three writers, a queue that fills, a host that comes and goes. | The endpoints in use are those announced, with packets no smaller (`EndpointsReady`), the host is given as much of every descriptor as it is told to wait for (`Enumerates`), a trace can block without an active port only if the bus was lost after its test (`BlockedByOvertake`), and while the port is active every trace ends (`DrainsWhileActive`). |
| `board_boot` | Every register store from reset to the power up of the chip; and any calls of the GPIO driver. | Each pad gets its mode and no other pad changes (`ModeReached`, `PadsAsDeclared`), through no other role (`ImplementsRoles`); the chip is not selected before the driver holds a bus that runs (`SelectedByDriverOnly`), is enabled with its interface set and its bus within limits (`EnabledInSpiMode`), and no interrupt finds an event source of zeros (`EdgeFindsSource`). |
| `poll_fsc` | Is FSC always the frame size of the card? | No, see below. |

### What the violations say

- **Rule B** (`iso14443.c:210`). The number advances after every I-block,
  whether or not it has the current number. After a lost answer the two numbers
  differ; a caller that goes on gets success with no data on every later call.
  `tcl_calls` and the theorem `RuleBWhenReopened` show that a caller that closes
  after an error never meets this.
- **Rule 6/7** (`iso14443.c:150`). The retransmission loop receives into the
  buffer it sends from, so it sends the acknowledgement it just got, padded to
  the length of the block. `RuleSixWhenReopened` proves that it is never taken
  by a caller that closes after an error.
- **Continuous transmit** (`trf797x_initiator.c:84`). If the FIFO fills exactly at
  the end of a vector, the offset returned belongs to the vector before, and the
  count of what is left wraps. T=CL blocks never get there (theorem
  `BlocksFit`); commands passed as they are to a plain card can.
- **FSC** (`iso14443.c:123`). A card whose ATS announces no frame size gets that of
  an earlier card, or whatever the thread's stack held.

A second way to break `ContinuousTransmit` is not in that trace: `txlen` is not
counted down by the refill (`trf797x_initiator.c:98`), so that a frame of a single
vector longer than the FIFO steps over the end of the vectors. With the frame
`<<48>>` in `LongFrames` TLC shows it.

## Bounds, and why they suffice

- Initiator: one outside thread (two stops by different threads only queue on
  the bus; the proofs cover any number), answers of up to 3 bytes, a FIFO of 4
  and a high level of 2. An answer may then end below, at and above the high
  level, and caller buffers of 2 and 4 bytes truncate it or do not. The chip's
  low level is abstracted to one FIFO cause per long frame.
  `initiator_shutdown` uses sizes of 1: its property concerns flags and power.
- T=CL: 3 blocks each way give a first, a middle and a last block; 3 calls give
  an error, its aftermath, and a call after that; one extension per answer shows
  both loops that grant time; room for 1 and for 3 blocks covers truncation.
- TxStream: a FIFO of 5 bytes and 1 to 3 vectors of 1 to 5 bytes, each sum that
  fits, with and without a broken last byte. `SizeT` is 16, enough for the wrap
  to be distinguishable.
- NfcPoll: a card per shape the code tells apart (1, 2, 3 levels, T=CL or not,
  both places of the waiting time, no announcement, no anticollision), one in
  the field at a time. The number of polls is not bounded.
- BoardBoot: the real pad table, script and clocks. The GPIO driver alone is
  called with any of three modes (two peripherals, an open drain output) and four
  masks: both ends of the port, the two sides of the alternate registers, a hole,
  and no pad.
- UsbTrace: a queue of 2 units and traces of up to 3, so that one trace alone
  fills the queue; up to 2 traces for a card. The number of rounds, resets and
  suspends is not bounded.

## Fairness and deadlock

- Initiator: weak fairness of the thread inside a call (the scheduler runs it,
  and a receive timeout fires), of each stop, of the interrupt handler, and of
  the chip sending what it was given. Nothing makes a caller call, and no card
  has to answer. Without the chip's part no transceive returns, since the
  transmit wait has no timeout.
- T=CL: weak fairness of the call, and of the link giving a frame or an error;
  the latter is what `TransceiveReturns` provides below. `MaxWtx` bounds the
  extensions of time in a row: the code itself sets no limit, so a card that asks
  for ever keeps the call for ever.
- NfcPoll: weak fairness of the thread; an exchange ends with an answer or an
  error. Cards need not be present and may change for ever.
- UsbTrace: weak fairness of each thread, of the start of frame and of a host
  that reads while the port is active. `Put` is strongly fair: writers that wait
  for the queue are served in turn, and none is overtaken for ever by another
  that comes back. Nothing makes a host connect, resume or configure.
- Deadlock is checked in `initiator_prompt`, `poll_cards`, `usb_trace` and
  `board_boot`. It is not in
  `initiator_safety` and `initiator_shutdown`, which contain the endless transmit
  wait that `HangOnlyIfCoalesced` describes, nor in the T=CL and TxStream runs, in
  which the calls are bounded or the frame is sent once.

## Proofs

All theorems hold for every value of the constants that the modules' `ASSUME`s
allow, and under the further assumptions named here; the SMT, Zenon and PTL
backends check them. Every invariant and every action property of the passing
runs is a theorem.

- `Trf797xInitiatorProofs`. `TypeInv` adds to `TypeOK` where the listener is
  linked (`LinkedOnce`): without it, that a start never registers it twice does
  not follow. `BusDiscipline` is inductive given the types. `WakeupInv` extends
  `NoLostWakeup` from the waits to the labels before them, from the read that
  clears the status on: from there a latched cause has an edge or an event.
  `CancelInv` says that a STOP flag is fresh once the flags have been cleared;
  the clearing is the step that establishes it. `HangNeedsCoalescing` is an
  action property that follows from the types. `FieldInv` follows the power and
  state through start and stop, and `AnswerInv` relates the caller's buffer, the
  FIFO and what has been received at every point of the two loops. `ArrivalInv`
  says where the frame and then the answer are while transceive waits, when the
  status is read promptly; `TimeoutNotAnswered` and `TransmissionEnds` follow.
  These three invariants assume that stop is not called with shutdown, as in this
  firmware.
  `TransceivesAreBounded` needs neither assumption. Its rank is lexicographic: the
  steps before the frame is sent; whether a stop is among the flags; and then,
  without a stop, a weighted sum of what the chip can still signal, the edge and
  the event already given, and the place in the loop (an edge is worth less than
  the cause that makes it, an event less than the edge, and a turn of the loop
  less than an event). A step of somebody else may leave the rank as it is, one of
  the thread may not (`OthersStep`, `LoopStep`).
  `DeviceImplemented` is the refinement of `NfcDevice`, without shutdown.
  `SessionInv` adds who owns the bus at each label and that a session being closed
  is not open; then each action is shown to be one of `NfcDevice` or a stutter
  (`StepMapped`): a cancellation by `CancelInv`, an answer by `AnswerInv`, the
  field by `FieldInv` and the bus.
- `TxStreamProofs`. `FittingFrameIsSent` is `ContinuousTransmit` for every FIFO of
  at most 4095 bytes (the length registers hold 12 bits of byte count) and every
  set of frames that fit in it, however they are split in vectors; without
  the last condition the property is false (`tx_continuous`). `TxInv` says that
  what was written to the chip is the first vectors, as many as the loop has
  taken, and that `bits`, `filled` and `announced` are what the frame and that
  number give. The bits of a frame and its concatenation are recursive: their
  equations (`TotalsEquation`, `FlattenedEquation`, `FirstEquation`) come from
  `NatRecursion`.
- `NatRecursion` has no theorem about the firmware, only lemmas of the one above.
  `SetInduction` is induction over the natural numbers as a fact
  about a set, from the well-foundedness of <; `RecursionExists` builds from it a
  function with given first value and step. The library's forms of both take an
  operator as a parameter and cannot be used here.
- `Iso14443TclProofs`. `StepInv` says, for each place of a frame (on its way
  down, up, lost, waiting for an extension), how the two block numbers relate.
  `InStep` and the two rules for a caller that reopens are consequences.
  `CallInv` carries the types. `OwnInv`, for callers of both kinds, says which
  block of which answer each frame under way is, and where it comes with respect
  to those stored; `AnswerIsItsOwn` follows.
  `UnderWay` says that a call in progress always has a frame under way, and an
  extension only one that answers it when it ends. With it `CallsAreBounded`
  shows that each step lowers the blocks of the command still to send, then those
  of the answer still to come (a block repeated because the numbers differ is
  counted), then what is left of the exchange at hand, extensions included.
  `ExchangeImplemented` is the refinement of `TclExchange`. `SimInv` gives, for
  each frame under way, how much of the command the card has (`ChainSim`), whether
  it was executed, and how much of the answer was stored (`LastSim`); it needs
  `StepInv` to know which frames can be under way.
- `NfcPollProofs`. `DeviceInv` is `FieldOffBetween` with the states in between.
  `IdentityInv` says that, unless misled, the NFCID so far holds the bytes of the
  levels done, all of the card that was woken up, and at the end all its bytes.
  The lemmas `CascadeLevel` and `LastLevel` show how a level continues it.
  `ActiveInv` ties the state of the card to the place of the thread, for
  `OpenedCardIsReady` and `WaitsForTheCard`. `PartInv` is the weaker identity that
  survives corruption: the NFCID is an `OrderedPart` of the card's bytes, within
  the levels read; `PartGrows` shows that a level keeps it one.
- `UsbTraceProofs`. `BlockInv` adds to `BlockedByOvertake` that the bus is not
  connected before `main` has set it up; `EndpointInv` says which endpoints are
  enabled also during a suspend, which `EndpointsReady` leaves open;
  `AnnouncedEndpoints` reads the announced ones off the descriptor, and
  `PipesMatch` compares the two for `EndpointsFitAnnounced`. `RoundInv` adds to the types
  that a writer in a trace has units left to write. For `HostEnumerates`,
  `DescriptorAt` and `DescriptorWhole` walk the descriptor one element after the
  other to its total length, and `RequestsAnswered` goes through the requests the
  device descriptor leads to; it is a fact about constants of the code, which the
  run computes as well.
- `BoardBootProofs`. First the driver alone: `IInv` has, besides the types, four parts: pads the loop
  has passed, or that are not of the call, have their mode (`Passed`); the rest of
  the mask was asked for (`Pending`); the stores done for the pad at hand are in
  the registers (`Stored`); and every local has been shifted to that pad
  (`Aligned`), so that a store ors its value into the field it cleared
  (`StoreHere`). `EveryPadAsAsked` is its case of a call that has
  returned, and `NoGlitch`, the refinement of `PadRoles`, follows store by store:
  at most one of the stores for a pad changes its role.
  Then the start of the board: `BootInv` is `IInv` with, for each place in the
  script, which clocks, channels and sources are up and whether the bus is held
  (`StageInv`), which pads have
  been asked for their mode (`ModesInv`), and the level of the pads the chip
  samples or is selected by (`LevelsInv`). `ModesAsDeclared`,
  `ChipEnabledInSpiMode`, `NotSelectedEarly` and `EdgesFindSource` are read off it
  at the place they concern, and `StartReachesModes` and `StartNoGlitch` say that
  the calls of the whole start keep what the driver promises for any call. They
  hold for every contents of the registers at reset in which no pad is an output,
  the assumption `BoardAssumption`.
- `NfcTablesProofs`. `AnnouncedSizeFits`, `WaitsLongEnough`, `ExtensionFits`,
  `LengthAnnounced` and `BlocksFit`: the announced frame size, the waiting times
  and their products in 32 bits, the length registers, and T=CL blocks against
  the FIFO and the buffer. In `WaitsLongEnough` the powers of two are given by
  their defining equations.

Only model-checked: what needs fairness (`TransceiveReturns`, `StopReturns`,
`StopUnblocks`, `CallReturns`, `PollsForever`, `DrainsWhileActive`), which is out
of the prover's reach. For two of them the part that is not about fairness is
proved: a transceive returns because it cannot step for ever
(`TransceivesAreBounded`) and does not wait in vain (`TransmissionEnds`,
`WakeupNotLost`), a T=CL call because it cannot step for ever
(`CallsAreBounded`) and always has a frame under way (`UnderWay`). That the rest,
the scheduler, the timeout and the link, then does its part is what the fairness
of the runs says.

## Not modelled

- The arithmetic of `crca` (a checksum is right or wrong), the error codes of
  `irq2error` (one error), the value of the protocol register.
- `gpioReadPort`, `gpioWritePort` and the `pal` aliases, which nothing calls. The
  sleep shim, and the configuration headers beyond the clocks: constants that
  select features of ChibiOS, whose sources are not in the repository.
- The LEDs and the text of the trace. Units written by different threads
  may mix in a line, since a trace is written without a lock (`trace.h:15`); no
  document promises whole lines.
- More than one card in the field (the code has no collision handling); NFC-B,
  for which there is no l3 layer; `nfc_iso14443a_close`, which nothing calls.
- Bytes within T=CL blocks (CID, NAD, lengths): blocks are counted. Corrupted
  T=CL blocks whose checksum, kept in the buffer, is not tested: the link of
  `Iso14443Tcl` loses frames but does not change them.

## Plan

What is left, in order:

1. Corrupted T=CL blocks in `Iso14443Tcl`, and the length of the data of a block
   as the code computes it, in `NfcTables`.
2. `crca` against the definition of CRC_A.
3. `NfcPoll` over `NfcDevice` instead of its own variable for the field.

Composition follows the calls. `Trf797xInitiator` implements `NfcDevice`, and the
layers above count on what `NfcDevice` states: `NfcPoll` takes an exchange as one
step that ends (`TransceiveReturns`) with an answer to its frame or an error, and
a closed device as one without a field; `Iso14443Tcl` starts where `NfcPoll`
reports a T=CL card as open (`Ready`) and takes every error below as a lost
frame; `TclExchange` is what its own callers get. `BoardBoot` ends where
`Trf797xInitiator` begins, with the event source initialised and the chip
powered up by `StartReset`.

------------------------------- MODULE UsbTrace --------------------------------
(***************************************************************************)
(* The trace channel: three threads that write to a serial port over USB   *)
(* (main.c, nfc.c, libs/trace), the USB events and descriptors             *)
(* (usbcfg.c), and the host.  A trace tests the state of the bus and then  *)
(* writes without a timeout.                                               *)
(*                                                                         *)
(* Text is counted in units that go into a queue of QueueSize; the queue   *)
(* and the states of the bus are those of the ChibiOS serial USB driver.   *)
(***************************************************************************)
EXTENDS Naturals, Sequences, FiniteSets

CONSTANTS
    QueueSize,  \* units the output queue holds
    MaxUnits,   \* bound: units of one trace
    MaxPieces   \* bound: traces that report one card

ASSUME SizesAssumption == /\ QueueSize \in Nat \ {0} /\ MaxUnits \in Nat \ {0}
                          /\ MaxPieces \in Nat \ {0}

Writers == {"main", "blinker", "nfc"}

VARIABLES
    (* the bus *)
    usb,        \* state of the USB driver
    saved,      \* its state before the suspend
    eps,        \* endpoints enabled
    tx,         \* a packet of the data endpoint is being transmitted
    queued,     \* units in the output queue
    asked,      \* descriptors the host has asked for since the last reset
    refused,    \* history: the host got less than it was told to ask for
    (* the threads *)
    pc,         \* where each writer is
    pieces,     \* traces left in its round
    left,       \* units left of its trace
    overtaken   \* history: the bus was lost since it tested the state

hostVars   == <<asked, refused>>
busVars    == <<usb, saved, eps, tx>>
writerVars == <<pc, pieces, left, overtaken>>
vars == <<busVars, queued, hostVars, writerVars>>

UsbStates == {"stop", "ready", "selected", "active", "suspended"}
Labels == {"unborn", "boot", "pause", "test", "put", "done", "sleep"}

-------------------------------------------------------------------------------
(* The descriptors, as what a host does with them depends on. *)

(* An endpoint and its maximum packet size. *)
Endpoint(n, dir, type, size) ==
    [n |-> n, dir |-> dir, type |-> type, size |-> size]

DeviceLength == 18
DeviceDescriptor == [strings |-> <<1, 2, 3>>, configurations |-> 1]

(* vcom_configuration_descriptor_data, one record per descriptor in it. *)
Desc(kind, length) == [kind |-> kind, length |-> length]
Interface(n) == [kind |-> "interface", length |-> 9, endpoints |-> n]
EndpointDesc(e) == [kind |-> "endpoint", length |-> 7, endpoint |-> e]
TotalLength == 67
NumInterfaces == 2
ConfigurationDescriptor ==
    << Desc("configuration", 9),
       Interface(1),
       Desc("header", 5), Desc("call", 5), Desc("acm", 4), Desc("union", 5),
       EndpointDesc(Endpoint(2, "in", "interrupt", 8)),
       Interface(2),
       EndpointDesc(Endpoint(1, "out", "bulk", 64)),
       EndpointDesc(Endpoint(1, "in", "bulk", 64)) >>

(* A string descriptor: the length in its first byte, a literal, and the   *)
(* bytes there are.  Those of strings 1 and 2 differ by a character.       *)
String(bLength, size) == [bLength |-> bLength, size |-> size]

(* Mutant: the literals count the header twice. *)
vcom_stringsLong ==
    <<String(4, 4), String(14, 12), String(36, 34), String(8, 8)>>

vcom_strings == <<String(4, 4), String(10, 12), String(32, 34), String(8, 8)>>

(* Mutant: the bound leaves out the last string. *)
GetDescriptorShort(type, index) ==
    IF type = "device" THEN DeviceLength
    ELSE IF type = "configuration" THEN TotalLength
    ELSE IF type = "string" /\ index < 3 THEN vcom_strings[index + 1].size
    ELSE 0

(* The bytes that the descriptor answered with has, 0 without an answer.   *)
get_descriptor(type, index) ==
    IF type = "device" THEN DeviceLength
    ELSE IF type = "configuration" THEN TotalLength
    ELSE IF type = "string" /\ index < 4 THEN vcom_strings[index + 1].size
    ELSE 0

(* Mutant: the size of the other endpoint's packets. *)
Ep1Small == {Endpoint(1, "in", "bulk", 16), Endpoint(1, "out", "bulk", 64)}

(* ep1config and ep2config. *)
Ep1 == {Endpoint(1, "in", "bulk", 64), Endpoint(1, "out", "bulk", 64)}
Ep2 == {Endpoint(2, "in", "interrupt", 16)}

Announced == {ConfigurationDescriptor[i].endpoint :
                i \in {j \in DOMAIN ConfigurationDescriptor :
                         ConfigurationDescriptor[j].kind = "endpoint"}}

(* What the host asks for: the device, its configuration, the languages    *)
(* and the strings that the device descriptor names.                       *)
Requests == << <<"device", 0>>, <<"configuration", 0>>, <<"string", 0>> >>
              \o [i \in DOMAIN DeviceDescriptor.strings |->
                    <<"string", DeviceDescriptor.strings[i]>>]

(* The bytes it then waits for: what the descriptor's own length says.     *)
Expected(type, index) ==
    IF type = "device" THEN DeviceLength
    ELSE IF type = "configuration" THEN TotalLength
    ELSE vcom_strings[index + 1].bLength

TypeOK ==
    /\ usb \in UsbStates /\ saved \in UsbStates \ {"stop", "suspended"}
    /\ eps \subseteq Ep1 \cup Ep2
    /\ tx \in BOOLEAN /\ refused \in BOOLEAN
    /\ queued \in 0 .. QueueSize
    /\ asked \in 0 .. Len(Requests)
    /\ pc \in [Writers -> Labels]
    /\ pieces \in [Writers -> 0 .. MaxPieces]
    /\ left \in [Writers -> 0 .. MaxUnits]
    /\ overtaken \in [Writers -> BOOLEAN]

Init ==
    /\ usb = "stop" /\ saved = "ready" /\ eps = {} /\ tx = FALSE
    /\ queued = 0 /\ asked = 0 /\ refused = FALSE
    /\ pc = [w \in Writers |-> IF w = "main" THEN "boot" ELSE "unborn"]
    /\ pieces = [w \in Writers |-> 0] /\ left = [w \in Writers |-> 0]
    /\ overtaken = [w \in Writers |-> FALSE]

-------------------------------------------------------------------------------
(* The writers *)

Goto(w, l) == pc' = [pc EXCEPT ![w] = l]

(* trace_init: the bus is connected, then main writes its line. *)
TraceInit ==
    /\ pc["main"] = "boot" /\ Goto("main", "test")
    /\ usb' = "ready" /\ pieces' = [pieces EXCEPT !["main"] = 1]
    /\ UNCHANGED <<saved, eps, tx, queued, hostVars, left, overtaken>>

(* main creates the other threads once it has written, and sleeps. *)
StartThreads ==
    /\ pc["main"] = "done"
    /\ pc' = [w \in Writers |-> IF w = "main" THEN "sleep" ELSE "pause"]
    /\ UNCHANGED <<busVars, queued, hostVars, pieces, left, overtaken>>

(* The blinker writes a line, the NFC thread a trace per byte of an NFCID. *)
BeginRound(w) ==
    /\ pc[w] = "pause" /\ Goto(w, "test")
    /\ \E n \in IF w = "nfc" THEN 1 .. MaxPieces ELSE {1} :
          pieces' = [pieces EXCEPT ![w] = n]
    /\ UNCHANGED <<busVars, queued, hostVars, left, overtaken>>

(* Mutant: the loop over the traces is off by one. *)
EndPieceMore(w) ==
    /\ pieces' = [pieces EXCEPT ![w] = @ - 1]
    /\ Goto(w, IF pieces[w] >= 1 THEN "test"
               ELSE IF w = "main" THEN "done" ELSE "pause")

EndPiece(w) ==
    /\ pieces' = [pieces EXCEPT ![w] = @ - 1]
    /\ Goto(w, IF pieces[w] > 1 THEN "test"
               ELSE IF w = "main" THEN "done" ELSE "pause")

(* Mutant: a trace writes whatever the state of the bus. *)
TraceTestNot(w) ==
    /\ pc[w] = "test" /\ Goto(w, "put")
    /\ \E n \in 1 .. MaxUnits : left' = [left EXCEPT ![w] = n]
    /\ overtaken' = [overtaken EXCEPT ![w] = FALSE]
    /\ UNCHANGED <<busVars, queued, hostVars, pieces>>

(* The test of the macro trace. *)
TraceTest(w) ==
    /\ pc[w] = "test"
    /\ IF usb = "active"
         THEN /\ Goto(w, "put") /\ UNCHANGED pieces
              /\ \E n \in 1 .. MaxUnits : left' = [left EXCEPT ![w] = n]
         ELSE EndPiece(w) /\ UNCHANGED left
    /\ overtaken' = [overtaken EXCEPT ![w] = FALSE]
    /\ UNCHANGED <<busVars, queued, hostVars>>

(* chprintf writes a unit; it waits while the queue is full.  The queue    *)
(* may start a transmission at once.                                       *)
Put(w) ==
    /\ pc[w] = "put" /\ queued < QueueSize
    /\ queued' = queued + 1
    /\ tx' \in {tx, tx \/ usb = "active"}
    /\ left' = [left EXCEPT ![w] = @ - 1]
    /\ IF left[w] = 1 THEN EndPiece(w) ELSE UNCHANGED <<pc, pieces>>
    /\ UNCHANGED <<usb, saved, eps, hostVars, overtaken>>

Write(w) == BeginRound(w) \/ TraceTest(w) \/ Put(w)

-------------------------------------------------------------------------------
(* The USB events, and the host that causes them *)

Lose == overtaken' = [w \in Writers |-> TRUE]

(* usb_event does nothing on RESET; the driver disables the endpoints. *)
Reset ==
    /\ usb # "stop" /\ usb' = "ready"
    /\ eps' = {} /\ tx' = FALSE /\ asked' = 0 /\ Lose
    /\ UNCHANGED <<saved, queued, refused, pc, pieces, left>>

GetDescriptor ==
    /\ usb \in {"ready", "selected", "active"} /\ asked < Len(Requests)
    /\ asked' = asked + 1
    /\ LET r == Requests[asked']
       IN refused' = (refused \/ get_descriptor(r[1], r[2]) < Expected(r[1], r[2]))
    /\ UNCHANGED <<busVars, queued, writerVars>>

Address ==
    /\ usb = "ready" /\ usb' = "selected"
    /\ UNCHANGED <<saved, eps, tx, queued, hostVars, writerVars>>

(* Mutant: only the data endpoints are enabled. *)
ConfiguredDataOnly ==
    /\ usb \in {"selected", "active"} /\ usb' = "active"
    /\ eps' = Ep1 /\ tx' = FALSE /\ queued' = 0
    /\ UNCHANGED <<saved, hostVars, writerVars>>

(* CONFIGURED: the endpoints are enabled and the queues are reset. *)
Configured ==
    /\ usb \in {"selected", "active"} /\ usb' = "active"
    /\ eps' = Ep1 \cup Ep2 /\ tx' = FALSE /\ queued' = 0
    /\ UNCHANGED <<saved, hostVars, writerVars>>

Unconfigured ==
    /\ usb = "active" /\ usb' = "selected"
    /\ eps' = {} /\ tx' = FALSE /\ Lose
    /\ UNCHANGED <<saved, queued, hostVars, pc, pieces, left>>

(* SUSPEND tells whoever listens of the disconnection: nobody does here.   *)
(* The queue stays, and so does a packet not yet taken by the host.        *)
Suspend ==
    /\ usb \in {"ready", "selected", "active"}
    /\ saved' = usb /\ usb' = "suspended" /\ Lose
    /\ UNCHANGED <<eps, tx, queued, hostVars, pc, pieces, left>>

WakeUp ==
    /\ usb = "suspended" /\ usb' = saved
    /\ UNCHANGED <<saved, eps, tx, queued, hostVars, writerVars>>

(* Mutant: the start of frame does not look at the queue. *)
SofIdle ==
    /\ usb = "active" /\ ~tx /\ queued > 0
    /\ UNCHANGED vars

(* sof_handler, on each start of frame: what waits is sent. *)
Sof ==
    /\ usb = "active" /\ ~tx /\ queued > 0
    /\ tx' = TRUE
    /\ UNCHANGED <<usb, saved, eps, queued, hostVars, writerVars>>

(* The host takes a packet; the next one follows if something waits. *)
Transmitted ==
    /\ usb = "active" /\ tx
    /\ queued' \in IF queued = 0 THEN {0} ELSE 0 .. queued - 1
    /\ tx' = (queued' > 0)
    /\ UNCHANGED <<usb, saved, eps, hostVars, writerVars>>

Bus == \/ Reset \/ Address \/ Configured \/ Unconfigured
       \/ Suspend \/ WakeUp \/ Sof \/ Transmitted

Next == \/ TraceInit \/ StartThreads
        \/ \E w \in Writers : Write(w)
        \/ GetDescriptor \/ Bus

(* The threads run, and wait for the queue in turn; frames start, and a    *)
(* host that has the port active reads it.  Nothing makes a host connect,  *)
(* or resume a bus it has suspended.                                       *)
Fairness ==
    /\ WF_vars(TraceInit) /\ WF_vars(StartThreads)
    /\ WF_vars(Sof) /\ WF_vars(Transmitted)
    /\ \A w \in Writers : /\ WF_vars(BeginRound(w) \/ TraceTest(w))
                          /\ SF_vars(Put(w))

Spec == Init /\ [][Next]_vars
FairSpec == Spec /\ Fairness

-------------------------------------------------------------------------------
(* Properties *)

(* While the port is active the endpoints enabled are, by number,          *)
(* direction and type, those that the configuration descriptor announced   *)
(* to the host; each takes packets of the size announced, the data         *)
(* endpoints exactly these; and data is only transmitted on an endpoint    *)
(* that the host knows as it is.                                           *)
SamePipe(a, b) == a.n = b.n /\ a.dir = b.dir /\ a.type = b.type
EndpointsReady ==
    /\ usb = "active" =>
          /\ \A a \in Announced : \E e \in eps : SamePipe(a, e) /\ a.size <= e.size
          /\ \A e \in eps : \/ e \in Announced
                            \/ e.type # "bulk" /\ \E a \in Announced : SamePipe(a, e)
    /\ tx => \E e \in eps \cap Announced : e.type = "bulk" /\ e.dir = "in"

(* The host is never refused a descriptor that another one announced, nor  *)
(* bytes that the length of a descriptor promises; and the configuration   *)
(* it gets is whole: as long as it says, with as many interfaces as it     *)
(* says, and each of these with its endpoints behind it.  A string may     *)
(* have bytes its length leaves out.                                       *)
Offsets == LET offset[i \in 0 .. Len(ConfigurationDescriptor)] ==
                   IF i = 0 THEN 0
                   ELSE offset[i - 1] + ConfigurationDescriptor[i].length
           IN offset
OfKind(kind) == {i \in DOMAIN ConfigurationDescriptor :
                   ConfigurationDescriptor[i].kind = kind}
EndpointsOf(i) == {e \in OfKind("endpoint") :
                     e > i /\ \A j \in OfKind("interface") : j <= i \/ j > e}
Enumerates ==
    /\ ~refused
    /\ asked >= 2 =>
          /\ Offsets[Len(ConfigurationDescriptor)] = TotalLength
          /\ Cardinality(OfKind("interface")) = NumInterfaces
          /\ \A i \in OfKind("interface") :
                Cardinality(EndpointsOf(i))
                    = ConfigurationDescriptor[i].endpoints

(* A thread writes to a port that is not active, and may then wait for     *)
(* ever, only if the bus was lost between its test and its write: without  *)
(* a host no trace ever blocks.                                            *)
BlockedByOvertake ==
    \A w \in Writers : (pc[w] = "put" /\ usb # "active") => overtaken[w]

(* A trace ends, also when the queue is full, unless the bus is lost.      *)
DrainsWhileActive ==
    \A w \in Writers : pc[w] = "put" ~> (pc[w] # "put" \/ usb # "active")
===============================================================================

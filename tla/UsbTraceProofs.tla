---------------------------- MODULE UsbTraceProofs -----------------------------
(* Theorems about the trace channel of UsbTrace. *)
EXTENDS UsbTrace, FiniteSetTheorems, TLAPS

(* The parts of the state the arguments below need to know the types of. *)
WriterTypes ==
    /\ pc \in [Writers -> Labels]
    /\ overtaken \in [Writers -> BOOLEAN]

(* The bus is not connected before main has set it up. *)
BlockInv ==
    /\ WriterTypes /\ BlockedByOvertake
    /\ pc["main"] = "boot" => usb = "stop"

LEMMA BlockInvInit == Init => BlockInv
BY DEF Init, BlockInv, WriterTypes, BlockedByOvertake, Writers, Labels

(* A writer enters "put" only by its test, with the port active; all ways  *)
(* in which the port stops being active mark every writer.                 *)
LEMMA BlockInvNext == BlockInv /\ [Next]_vars => BlockInv'
<1> SUFFICES ASSUME BlockInv, [Next]_vars PROVE BlockInv'
  OBVIOUS
<1> USE DEF BlockInv, WriterTypes, BlockedByOvertake, Goto, EndPiece,
      busVars, hostVars, writerVars, Labels, Lose
<1>1. CASE TraceInit
  BY <1>1 DEF TraceInit, Writers
<1>2. CASE StartThreads
  BY <1>2 DEF StartThreads, Writers
<1>3. ASSUME NEW w \in Writers, BeginRound(w) PROVE BlockInv'
  BY <1>3 DEF BeginRound, Writers
<1>4. ASSUME NEW w \in Writers, TraceTest(w) PROVE BlockInv'
  <2>1. CASE usb = "active"
    BY <1>4, <2>1 DEF TraceTest, Writers
  <2>2. CASE usb # "active"
    BY <1>4, <2>2 DEF TraceTest, Writers
  <2> QED BY <2>1, <2>2
<1>5. ASSUME NEW w \in Writers, Put(w) PROVE BlockInv'
  BY <1>5 DEF Put, Writers
<1>6. CASE GetDescriptor
  BY <1>6 DEF GetDescriptor
<1>7. CASE Reset
  BY <1>7 DEF Reset
<1>8. CASE Address
  BY <1>8 DEF Address
<1>9. CASE Configured
  BY <1>9 DEF Configured
<1>10. CASE Unconfigured
  BY <1>10 DEF Unconfigured
<1>11. CASE Suspend
  BY <1>11 DEF Suspend
<1>12. CASE WakeUp
  BY <1>12 DEF WakeUp
<1>13. CASE Sof \/ Transmitted
  BY <1>13 DEF Sof, Transmitted
<1>14. CASE UNCHANGED vars
  BY <1>14 DEF vars
<1> QED
  BY <1>1, <1>2, <1>3, <1>4, <1>5, <1>6, <1>7, <1>8, <1>9, <1>10, <1>11,
     <1>12, <1>13, <1>14 DEF Next, Write, Bus

(* The test in trace limits what may block: for every queue and every      *)
(* length of trace, a thread writes to a port that is not active only if   *)
(* the bus was lost after its test.                                        *)
THEOREM BlocksOnlyWhenOvertaken == Spec => []BlockedByOvertake
<1>1. BlockInv => BlockedByOvertake
  BY DEF BlockInv
<1> QED BY BlockInvInit, BlockInvNext, <1>1, PTL DEF Spec

-------------------------------------------------------------------------------
(* The endpoint of each descriptor, found by its place. *)
LEMMA AnnouncedEndpoints ==
    Announced = Ep1 \cup {Endpoint(2, "in", "interrupt", 8)}
<1> DEFINE C == ConfigurationDescriptor
<1>1. DOMAIN C = 1 .. 10
  BY DEF ConfigurationDescriptor
<1>2. {j \in DOMAIN C : C[j].kind = "endpoint"} = {7, 9, 10}
  BY <1>1 DEF ConfigurationDescriptor, Desc, Interface, EndpointDesc
<1>3. /\ C[7].endpoint = Endpoint(2, "in", "interrupt", 8)
      /\ C[9].endpoint = Endpoint(1, "out", "bulk", 64)
      /\ C[10].endpoint = Endpoint(1, "in", "bulk", 64)
  BY DEF ConfigurationDescriptor, EndpointDesc
<1> QED BY <1>2, <1>3 DEF Announced, Ep1

(* The endpoints are enabled while the port is active or will be again     *)
(* after a suspend, and only data that the port took is being transmitted. *)
EndpointInv ==
    /\ saved \in UsbStates \ {"stop", "suspended"}
    /\ usb = "active" => eps = Ep1 \cup Ep2
    /\ (usb = "suspended" /\ saved = "active") => eps = Ep1 \cup Ep2
    /\ tx => eps = Ep1 \cup Ep2

LEMMA EndpointInvNext == EndpointInv /\ [Next]_vars => EndpointInv'
<1> SUFFICES ASSUME EndpointInv, [Next]_vars PROVE EndpointInv'
  OBVIOUS
<1> USE DEF EndpointInv, UsbStates, busVars, hostVars, writerVars
<1>1. CASE TraceInit
  BY <1>1 DEF TraceInit
<1>2. CASE StartThreads
  BY <1>2 DEF StartThreads
<1>3. ASSUME NEW w \in Writers, Write(w) PROVE EndpointInv'
  <2>1. CASE BeginRound(w) \/ TraceTest(w)
    BY <2>1 DEF BeginRound, TraceTest
  <2>2. CASE Put(w)
    BY <2>2 DEF Put
  <2> QED BY <1>3, <2>1, <2>2 DEF Write
<1>4. CASE GetDescriptor
  BY <1>4 DEF GetDescriptor
<1>5. CASE Reset
  BY <1>5 DEF Reset
<1>6. CASE Address \/ Sof \/ Transmitted
  BY <1>6 DEF Address, Sof, Transmitted
<1>7. CASE Configured
  BY <1>7 DEF Configured
<1>8. CASE Unconfigured
  BY <1>8 DEF Unconfigured
<1>9. CASE Suspend
  BY <1>9 DEF Suspend
<1>10. CASE WakeUp
  BY <1>10 DEF WakeUp
<1>11. CASE UNCHANGED vars
  BY <1>11 DEF vars
<1> QED
  BY <1>1, <1>2, <1>3, <1>4, <1>5, <1>6, <1>7, <1>8, <1>9, <1>10, <1>11
  DEF Next, Bus

(* Each pipe of the descriptor is enabled for packets as large as it says, *)
(* no other is, and those of the data have exactly the size announced.     *)
LEMMA PipesMatch ==
    /\ \A a \in Announced : \E e \in Ep1 \cup Ep2 : SamePipe(a, e) /\ a.size <= e.size
    /\ \A e \in Ep1 : e \in Announced
    /\ \A e \in Ep2 : e.type # "bulk" /\ \E a \in Announced : SamePipe(a, e)
    /\ Endpoint(1, "in", "bulk", 64) \in (Ep1 \cup Ep2) \cap Announced
<1> DEFINE announced == Endpoint(2, "in", "interrupt", 8)
           enabled == Endpoint(2, "in", "interrupt", 16)
<1>1. SamePipe(announced, enabled) /\ announced.size <= enabled.size
  BY DEF SamePipe, Endpoint
<1>2. \A e \in Ep1 : SamePipe(e, e) /\ e.size <= e.size
  BY DEF Ep1, SamePipe, Endpoint
<1>3. enabled.type # "bulk" /\ Endpoint(1, "in", "bulk", 64) \in Ep1
  BY DEF Endpoint, Ep1
<1> HIDE DEF announced, enabled
<1>4. Ep2 = {enabled} /\ Announced = Ep1 \cup {announced}
  BY AnnouncedEndpoints DEF Ep2, announced, enabled
<1> QED BY <1>1, <1>2, <1>3, <1>4

(* While the port is active the host finds each endpoint it was told of,   *)
(* fit for packets of the size it was told, no endpoint besides, and data  *)
(* on one of exactly the size it was told; whatever resets, suspends and   *)
(* configurations came before.                                             *)
THEOREM EndpointsFitAnnounced == Spec => []EndpointsReady
<1>1. Init => EndpointInv
  BY DEF Init, EndpointInv, UsbStates
<1>2. EndpointInv => EndpointsReady
  <2> SUFFICES ASSUME EndpointInv PROVE EndpointsReady
    OBVIOUS
  <2>1. usb = "active" =>
          /\ \A a \in Announced : \E e \in eps : SamePipe(a, e) /\ a.size <= e.size
          /\ \A e \in eps : \/ e \in Announced
                            \/ e.type # "bulk" /\ \E a \in Announced : SamePipe(a, e)
    BY PipesMatch DEF EndpointInv
  <2>2. tx => \E e \in eps \cap Announced : e.type = "bulk" /\ e.dir = "in"
    <3>1. Endpoint(1, "in", "bulk", 64).type = "bulk" /\ Endpoint(1, "in", "bulk", 64).dir = "in"
      BY DEF Endpoint
    <3> QED BY <3>1, PipesMatch DEF EndpointInv
  <2> QED BY <2>1, <2>2 DEF EndpointsReady
<1> QED BY <1>1, <1>2, EndpointInvNext, PTL DEF Spec

-------------------------------------------------------------------------------
(* Types *)

(* A writer in a trace has traces left in its round, and units left of it.  *)
RoundInv ==
    /\ TypeOK
    /\ \A w \in Writers :
          /\ pc[w] \in {"test", "put"} => pieces[w] > 0
          /\ pc[w] = "put" => left[w] > 0

LEMMA EndPieceTyped ==
    ASSUME RoundInv, NEW w \in Writers, pc[w] \in {"test", "put"}, EndPiece(w)
    PROVE  /\ pc' \in [Writers -> Labels]
           /\ pieces' \in [Writers -> 0 .. MaxPieces]
           /\ pc'[w] # "put" /\ (pc'[w] = "test" => pieces'[w] > 0)
           /\ \A v \in Writers \ {w} : pc'[v] = pc[v] /\ pieces'[v] = pieces[v]
<1>1. /\ pc \in [Writers -> Labels] /\ pieces \in [Writers -> 0 .. MaxPieces]
      /\ pieces[w] \in 1 .. MaxPieces
  BY SizesAssumption DEF RoundInv, TypeOK
<1>2. /\ pieces' = [pieces EXCEPT ![w] = @ - 1]
      /\ pc' = [pc EXCEPT ![w] = IF pieces[w] > 1 THEN "test"
                                 ELSE IF w = "main" THEN "done" ELSE "pause"]
  BY DEF EndPiece, Goto
<1>3. pieces[w] - 1 \in 0 .. MaxPieces /\ (pieces[w] > 1 => pieces[w] - 1 > 0)
  BY <1>1, SizesAssumption
<1>4. pieces' \in [Writers -> 0 .. MaxPieces] /\ pieces'[w] = pieces[w] - 1
  BY <1>1, <1>2, <1>3
<1>5. /\ pc' \in [Writers -> Labels] /\ pc'[w] # "put"
      /\ pc'[w] = "test" => pieces[w] > 1
  BY <1>1, <1>2 DEF Labels
<1>6. \A v \in Writers \ {w} : pc'[v] = pc[v] /\ pieces'[v] = pieces[v]
  BY <1>1, <1>2
<1> QED BY <1>3, <1>4, <1>5, <1>6

LEMMA RoundInvWriters ==
    ASSUME RoundInv, NEW w \in Writers, Write(w) PROVE RoundInv'
<1>1. /\ pc \in [Writers -> Labels] /\ pieces \in [Writers -> 0 .. MaxPieces]
      /\ left \in [Writers -> 0 .. MaxUnits] /\ overtaken \in [Writers -> BOOLEAN]
      /\ queued \in 0 .. QueueSize /\ tx \in BOOLEAN
      /\ MaxPieces \in Nat \ {0} /\ MaxUnits \in Nat \ {0} /\ QueueSize \in Nat \ {0}
  BY SizesAssumption DEF RoundInv, TypeOK
<1>2. CASE BeginRound(w)
  <2>1. PICK n \in 1 .. MaxPieces :
           /\ pieces' = [pieces EXCEPT ![w] = n]
           /\ pc' = [pc EXCEPT ![w] = "test"]
           /\ UNCHANGED <<busVars, queued, hostVars, left, overtaken>>
    <3>1. PICK n \in IF w = "nfc" THEN 1 .. MaxPieces ELSE {1} :
             pieces' = [pieces EXCEPT ![w] = n]
      BY <1>2 DEF BeginRound
    <3>2. n \in 1 .. MaxPieces
      BY <1>1
    <3> QED BY <1>2, <3>1, <3>2 DEF BeginRound, Goto
  <2>2. pieces' \in [Writers -> 0 .. MaxPieces] /\ pc' \in [Writers -> Labels]
    BY <1>1, <2>1 DEF Labels
  <2>3. \A v \in Writers : /\ pc'[v] \in {"test", "put"} => pieces'[v] > 0
                           /\ pc'[v] = "put" => left'[v] > 0
    BY <1>1, <2>1 DEF RoundInv
  <2>4. UNCHANGED <<usb, saved, eps, tx, queued, asked, refused, left, overtaken>>
    BY <2>1 DEF busVars, hostVars
  <2> QED BY <2>2, <2>3, <2>4 DEF RoundInv, TypeOK
<1>3. CASE TraceTest(w)
  <2>1. /\ pc[w] = "test" /\ overtaken' = [overtaken EXCEPT ![w] = FALSE]
        /\ UNCHANGED <<usb, saved, eps, tx, queued, asked, refused>>
    BY <1>3 DEF TraceTest, busVars, hostVars
  <2>2. overtaken' \in [Writers -> BOOLEAN]
    BY <1>1, <2>1
  <2>3. CASE usb = "active"
    <3>1. PICK n \in 1 .. MaxUnits :
             /\ left' = [left EXCEPT ![w] = n] /\ pieces' = pieces
             /\ pc' = [pc EXCEPT ![w] = "put"]
      BY <1>3, <2>3 DEF TraceTest, Goto
    <3>2. left' \in [Writers -> 0 .. MaxUnits] /\ pc' \in [Writers -> Labels]
      BY <1>1, <3>1 DEF Labels
    <3>3. \A v \in Writers : /\ pc'[v] \in {"test", "put"} => pieces'[v] > 0
                             /\ pc'[v] = "put" => left'[v] > 0
      BY <1>1, <2>1, <3>1 DEF RoundInv
    <3> QED BY <2>1, <2>2, <3>1, <3>2, <3>3 DEF RoundInv, TypeOK
  <2>4. CASE usb # "active"
    <3>1. EndPiece(w) /\ left' = left
      BY <1>3, <2>4 DEF TraceTest
    <3>2. /\ pc' \in [Writers -> Labels]
          /\ pieces' \in [Writers -> 0 .. MaxPieces]
          /\ pc'[w] # "put" /\ (pc'[w] = "test" => pieces'[w] > 0)
          /\ \A v \in Writers \ {w} : pc'[v] = pc[v] /\ pieces'[v] = pieces[v]
      BY <2>1, <3>1, EndPieceTyped
    <3>3. \A v \in Writers : /\ pc'[v] \in {"test", "put"} => pieces'[v] > 0
                             /\ pc'[v] = "put" => left'[v] > 0
      BY <3>1, <3>2 DEF RoundInv
    <3> QED BY <2>1, <2>2, <3>1, <3>2, <3>3 DEF RoundInv, TypeOK
  <2> QED BY <2>3, <2>4
<1>4. CASE Put(w)
  <2>1. /\ pc[w] = "put" /\ queued < QueueSize /\ queued' = queued + 1
        /\ tx' \in {tx, tx \/ usb = "active"}
        /\ left' = [left EXCEPT ![w] = @ - 1]
        /\ UNCHANGED <<usb, saved, eps, asked, refused, overtaken>>
    BY <1>4 DEF Put, hostVars
  <2>2. queued' \in 0 .. QueueSize
    BY <1>1, <2>1
  <2>3. tx' \in BOOLEAN
    BY <1>1, <2>1, Zenon
  <2>4. left[w] \in 1 .. MaxUnits
    BY <1>1, <2>1 DEF RoundInv
  <2>5. /\ left' \in [Writers -> 0 .. MaxUnits] /\ left'[w] = left[w] - 1
        /\ \A v \in Writers \ {w} : left'[v] = left[v]
    BY <1>1, <2>1, <2>4
  <2>6. CASE left[w] = 1
    <3>1. EndPiece(w)
      BY <1>4, <2>6 DEF Put
    <3>2. /\ pc' \in [Writers -> Labels]
          /\ pieces' \in [Writers -> 0 .. MaxPieces]
          /\ pc'[w] # "put" /\ (pc'[w] = "test" => pieces'[w] > 0)
          /\ \A v \in Writers \ {w} : pc'[v] = pc[v] /\ pieces'[v] = pieces[v]
      BY <2>1, <3>1, EndPieceTyped
    <3>3. \A v \in Writers : /\ pc'[v] \in {"test", "put"} => pieces'[v] > 0
                             /\ pc'[v] = "put" => left'[v] > 0
      BY <2>5, <3>2 DEF RoundInv
    <3> QED BY <2>1, <2>2, <2>3, <2>5, <3>2, <3>3 DEF RoundInv, TypeOK
  <2>7. CASE left[w] # 1
    <3>1. pc' = pc /\ pieces' = pieces
      BY <1>4, <2>7 DEF Put
    <3>2. left'[w] > 0
      BY <2>4, <2>5, <2>7
    <3>3. \A v \in Writers : /\ pc'[v] \in {"test", "put"} => pieces'[v] > 0
                             /\ pc'[v] = "put" => left'[v] > 0
      BY <2>5, <3>1, <3>2 DEF RoundInv
    <3> QED BY <2>1, <2>2, <2>3, <2>5, <3>1, <3>3 DEF RoundInv, TypeOK
  <2> QED BY <2>6, <2>7
<1> QED BY <1>2, <1>3, <1>4 DEF Write

LEMMA RoundInvOthers ==
    ASSUME RoundInv, TraceInit \/ StartThreads \/ GetDescriptor \/ Bus
    PROVE  RoundInv'
<1>1. /\ pc \in [Writers -> Labels] /\ pieces \in [Writers -> 0 .. MaxPieces]
      /\ MaxPieces \in Nat \ {0} /\ QueueSize \in Nat \ {0}
      /\ queued \in 0 .. QueueSize /\ usb \in UsbStates
      /\ saved \in UsbStates \ {"stop", "suspended"}
  BY SizesAssumption DEF RoundInv, TypeOK
<1> USE DEF RoundInv, TypeOK
<1>2. CASE TraceInit
  <2>1. /\ pieces' = [pieces EXCEPT !["main"] = 1]
        /\ pc' = [pc EXCEPT !["main"] = "test"] /\ usb' = "ready"
        /\ UNCHANGED <<saved, eps, tx, queued, asked, refused, left, overtaken>>
    BY <1>2 DEF TraceInit, Goto, hostVars
  <2>2. pieces' \in [Writers -> 0 .. MaxPieces] /\ pc' \in [Writers -> Labels]
    BY <1>1, <2>1 DEF Labels, Writers
  <2>3. \A v \in Writers : /\ pc'[v] \in {"test", "put"} => pieces'[v] > 0
                           /\ pc'[v] = "put" => left'[v] > 0
    BY <1>1, <2>1 DEF Writers
  <2> QED BY <2>1, <2>2, <2>3 DEF UsbStates
<1>3. CASE StartThreads
  <2>1. pc' \in [Writers -> Labels]
    BY <1>3 DEF StartThreads, Labels
  <2>2. \A v \in Writers : pc'[v] \notin {"test", "put"}
    BY <1>3 DEF StartThreads
  <2> QED BY <1>3, <2>1, <2>2 DEF StartThreads, busVars, hostVars
<1>4. CASE GetDescriptor
  <2>1. asked' \in 0 .. Len(Requests)
    BY <1>4 DEF GetDescriptor, Requests, DeviceDescriptor
  <2>2. refused' \in BOOLEAN
    <3>1. PICK short \in BOOLEAN : refused' = (refused \/ short)
      BY <1>4, Zenon DEF GetDescriptor
    <3> QED BY <3>1, Zenon
  <2> QED BY <1>4, <2>1, <2>2 DEF GetDescriptor, busVars, writerVars
<1>5. CASE Reset
  <2>1. 0 \in 0 .. Len(Requests)
    BY DEF Requests, DeviceDescriptor
  <2> QED BY <1>5, <2>1 DEF Reset, UsbStates, Lose
<1>6. CASE Address \/ WakeUp \/ Sof
  BY <1>1, <1>6 DEF Address, WakeUp, Sof, UsbStates, hostVars, writerVars
<1>7. CASE Configured
  <2>1. eps' \subseteq Ep1 \cup Ep2 /\ tx' \in BOOLEAN /\ usb' \in UsbStates
    BY <1>7 DEF Configured, UsbStates
  <2>2. queued' \in 0 .. QueueSize
    BY <1>1, <1>7 DEF Configured
  <2> QED BY <1>7, <2>1, <2>2 DEF Configured, hostVars, writerVars
<1>8. CASE Unconfigured
  BY <1>8 DEF Unconfigured, UsbStates, hostVars, Lose
<1>9. CASE Suspend
  BY <1>9 DEF Suspend, UsbStates, hostVars, Lose
<1>10. CASE Transmitted
  <2>1. queued' \in 0 .. QueueSize /\ tx' \in BOOLEAN
    BY <1>1, <1>10 DEF Transmitted
  <2> QED BY <1>10, <2>1 DEF Transmitted, hostVars, writerVars
<1> QED
  BY <1>2, <1>3, <1>4, <1>5, <1>6, <1>7, <1>8, <1>9, <1>10 DEF Bus

(* The queue never overflows, and no writer goes past the end of its line   *)
(* or writes a line more than its round has.                                *)
THEOREM TypeCorrect == Spec => []TypeOK
<1>1. Init => RoundInv
  <2> SUFFICES ASSUME Init PROVE RoundInv
    OBVIOUS
  <2>1. 0 \in 0 .. Len(Requests) /\ 0 \in 0 .. QueueSize /\ 0 \in 0 .. MaxPieces
        /\ 0 \in 0 .. MaxUnits
    BY SizesAssumption DEF Requests, DeviceDescriptor
  <2> QED BY <2>1 DEF Init, RoundInv, TypeOK, UsbStates, Labels
<1>2. RoundInv /\ UNCHANGED vars => RoundInv'
  BY DEF RoundInv, TypeOK, vars, busVars, hostVars, writerVars
<1>3. RoundInv /\ [Next]_vars => RoundInv'
  BY <1>2, RoundInvWriters, RoundInvOthers DEF Next
<1>4. RoundInv => TypeOK
  BY DEF RoundInv
<1> QED BY <1>1, <1>3, <1>4, PTL DEF Spec

-------------------------------------------------------------------------------
(* The configuration descriptor, by the places of the descriptors in it.   *)

LEMMA DescriptorAt ==
    /\ Len(ConfigurationDescriptor) = 10 /\ DOMAIN ConfigurationDescriptor = 1 .. 10
    /\ [i \in 1 .. 10 |-> ConfigurationDescriptor[i].length]
          = <<9, 9, 5, 5, 4, 5, 7, 9, 7, 7>>
    /\ \A i \in 1 .. 10 :
          /\ ConfigurationDescriptor[i].kind = "interface" <=> i \in {2, 8}
          /\ ConfigurationDescriptor[i].kind = "endpoint" <=> i \in {7, 9, 10}
    /\ ConfigurationDescriptor[2].endpoints = 1
    /\ ConfigurationDescriptor[8].endpoints = 2
<1> DEFINE C == ConfigurationDescriptor
<1> USE DEF ConfigurationDescriptor, Desc, Interface, EndpointDesc
<1>1. Len(C) = 10 /\ DOMAIN C = 1 .. 10
  OBVIOUS
<1>2. /\ C[1].length = 9 /\ C[2].length = 9 /\ C[3].length = 5 /\ C[4].length = 5
      /\ C[5].length = 4 /\ C[6].length = 5 /\ C[7].length = 7 /\ C[8].length = 9
      /\ C[9].length = 7 /\ C[10].length = 7
  OBVIOUS
<1>3. \A i \in 1 .. 10 : C[i].kind = "interface" <=> i \in {2, 8}
  OBVIOUS
<1>4. \A i \in 1 .. 10 : C[i].kind = "endpoint" <=> i \in {7, 9, 10}
  OBVIOUS
<1>5. C[2].endpoints = 1 /\ C[8].endpoints = 2
  OBVIOUS
<1>6. [i \in 1 .. 10 |-> C[i].length] = <<9, 9, 5, 5, 4, 5, 7, 9, 7, 7>>
  <2> HIDE DEF ConfigurationDescriptor
  <2> QED BY <1>2
<1> QED BY <1>1, <1>3, <1>4, <1>5, <1>6

(* The descriptor is as long as it says. *)
LEMMA DescriptorWhole == Offsets[10] = TotalLength
<1> DEFINE L == <<9, 9, 5, 5, 4, 5, 7, 9, 7, 7>>
           O == [i \in 0 .. 10 |-> <<0, 9, 18, 23, 28, 32, 37, 44, 53, 60, 67>>[i + 1]]
           Equation(o) == o = [i \in 0 .. 10 |-> IF i = 0 THEN 0 ELSE o[i - 1] + L[i]]
<1>1. Equation(O)
  <2>1. \A i \in 0 .. 10 : O[i] = IF i = 0 THEN 0 ELSE O[i - 1] + L[i]
    OBVIOUS
  <2> QED BY <2>1
<1>2. Offsets = CHOOSE o : Equation(o)
  <2>1. \A i \in 1 .. 10 : ConfigurationDescriptor[i].length = L[i]
    BY DescriptorAt
  <2>2. \A o : Equation(o) <=>
                 o = [i \in 0 .. 10 |-> IF i = 0 THEN 0
                                        ELSE o[i - 1] + ConfigurationDescriptor[i].length]
    BY <2>1
  <2> QED BY <2>2, DescriptorAt DEF Offsets
<1>3. Equation(Offsets)
  <2> HIDE DEF O, Equation
  <2> QED BY <1>1, <1>2, Zenon
<1>4. \A i \in 0 .. 10 : Offsets[i] = IF i = 0 THEN 0 ELSE Offsets[i - 1] + L[i]
  BY <1>3
<1> HIDE DEF L
<1>5. /\ L[1] = 9 /\ L[2] = 9 /\ L[3] = 5 /\ L[4] = 5 /\ L[5] = 4 /\ L[6] = 5
      /\ L[7] = 7 /\ L[8] = 9 /\ L[9] = 7 /\ L[10] = 7
  BY DEF L
<1>6. Offsets[0] = 0 /\ \A i \in 1 .. 10 : Offsets[i] = Offsets[i - 1] + L[i]
  BY <1>4
<1>7. /\ Offsets[1] = Offsets[0] + L[1] /\ Offsets[2] = Offsets[1] + L[2]
      /\ Offsets[3] = Offsets[2] + L[3] /\ Offsets[4] = Offsets[3] + L[4]
      /\ Offsets[5] = Offsets[4] + L[5] /\ Offsets[6] = Offsets[5] + L[6]
      /\ Offsets[7] = Offsets[6] + L[7] /\ Offsets[8] = Offsets[7] + L[8]
      /\ Offsets[9] = Offsets[8] + L[9] /\ Offsets[10] = Offsets[9] + L[10]
  BY <1>6
<1> QED BY <1>5, <1>6, <1>7 DEF TotalLength

(* Each interface has the endpoints it says behind it. *)
LEMMA InterfacesWhole ==
    /\ Cardinality(OfKind("interface")) = NumInterfaces
    /\ \A i \in OfKind("interface") :
          Cardinality(EndpointsOf(i)) = ConfigurationDescriptor[i].endpoints
<1>1. OfKind("interface") = {2, 8} /\ OfKind("endpoint") = {7, 9, 10}
  BY DescriptorAt DEF OfKind
<1>2. EndpointsOf(2) = {7} /\ EndpointsOf(8) = {9, 10}
  BY <1>1 DEF EndpointsOf
<1>3. \A a, b : a # b => Cardinality({a, b}) = 2
  <2> TAKE a, b
  <2>1. {a, b} = {a} \cup {b}
    OBVIOUS
  <2>2. IsFiniteSet({a}) /\ Cardinality({a}) = 1
    BY FS_Singleton, Zenon
  <2>3. Cardinality({a} \cup {b}) = IF b \in {a} THEN Cardinality({a}) ELSE Cardinality({a}) + 1
    BY <2>2, FS_AddElement, Zenon
  <2> QED BY <2>1, <2>2, <2>3
<1>4. Cardinality({7}) = 1
  BY FS_Singleton, Zenon
<1>5. Cardinality({2, 8}) = 2 /\ Cardinality({9, 10}) = 2
  <2>1. 2 # 8 /\ 9 # 10
    OBVIOUS
  <2> QED BY <1>3, <2>1, Zenon
<1>6. ConfigurationDescriptor[2].endpoints = 1 /\ ConfigurationDescriptor[8].endpoints = 2
  BY DescriptorAt
<1> QED BY <1>1, <1>2, <1>4, <1>5, <1>6 DEF NumInterfaces

(* What the host is led to ask for is answered, with no less than it then  *)
(* waits for.                                                              *)
Short(i) == get_descriptor(Requests[i][1], Requests[i][2])
                 < Expected(Requests[i][1], Requests[i][2])
LEMMA RequestsAnswered ==
    Len(Requests) = 6 /\ \A i \in 1 .. Len(Requests) : ~Short(i)
<1>1. /\ Len(Requests) = 6
      /\ Requests[1] = <<"device", 0>> /\ Requests[2] = <<"configuration", 0>>
      /\ \A i \in 0 .. 3 : Requests[i + 3] = <<"string", i>>
  BY DEF Requests, DeviceDescriptor
<1>2. ~Short(1) /\ ~Short(2)
  BY <1>1 DEF Short, get_descriptor, Expected, DeviceLength, TotalLength
<1>3. \A i \in 0 .. 3 : vcom_strings[i + 1].bLength <= vcom_strings[i + 1].size
                        /\ vcom_strings[i + 1].bLength \in Nat
                        /\ vcom_strings[i + 1].size \in Nat
  BY DEF vcom_strings, String
<1>4. \A i \in 0 .. 3 : ~Short(i + 3)
  BY <1>1, <1>3 DEF Short, get_descriptor, Expected
<1>5. \A i \in 3 .. 6 : i - 3 \in 0 .. 3 /\ (i - 3) + 3 = i
  OBVIOUS
<1>6. \A i \in 3 .. 6 : ~Short(i)
  BY <1>4, <1>5
<1> QED BY <1>1, <1>2, <1>6

(* A host is refused nothing it was told to ask for, gets no less of it    *)
(* than its length promises, and the configuration it gets is whole.       *)
THEOREM HostEnumerates == Spec => []Enumerates
<1> DEFINE AskInv == asked \in Nat /\ refused = FALSE
<1>1. Init => AskInv
  BY DEF Init
<1>2. ASSUME AskInv, [Next]_vars PROVE AskInv'
  <2>1. CASE GetDescriptor
    <3>1. asked' = asked + 1 /\ asked < Len(Requests)
      BY <2>1 DEF GetDescriptor
    <3>2. asked' \in 1 .. Len(Requests)
      BY <1>2, <3>1
    <3>3. refused' = (refused \/ Short(asked'))
      BY <2>1 DEF GetDescriptor, Short
    <3>4. ~Short(asked')
      BY <3>2, RequestsAnswered
    <3>5. refused' = FALSE
      BY <1>2, <3>3, <3>4, Zenon
    <3> QED BY <1>2, <3>1, <3>5
  <2>2. CASE ~GetDescriptor
    <3>1. asked' \in {asked, 0} /\ refused' = refused
      BY <1>2, <2>2 DEF Next, vars, hostVars, TraceInit, StartThreads, Write, BeginRound,
                TraceTest, Put, Bus, Reset, Address, Configured, Unconfigured, Suspend,
                WakeUp, Sof, Transmitted
    <3> QED BY <1>2, <3>1
  <2> QED BY <2>1, <2>2
<1>3. AskInv => Enumerates
  BY DescriptorAt, DescriptorWhole, InterfacesWhole DEF Enumerates
<1>4. AskInv /\ [Next]_vars => AskInv'
  BY <1>2
<1> QED BY <1>1, <1>3, <1>4, PTL DEF Spec
===============================================================================

------------------------ MODULE Trf797xInitiatorProofs ------------------------
(* Theorems about Trf797xInitiator, for every set of cancelling threads,    *)
(* every size of answers and buffers, and a chip served promptly or not.    *)
EXTENDS Trf797xInitiator, SequenceTheorems, TLAPS

(* The listener is registered exactly once while the device is open: the   *)
(* reason why chEvtObjectInit has to come before every chEvtRegister.      *)
LinkedOnce ==
    /\ pc[nfc] = "register" => linked = 0
    /\ pc[nfc] = "configure" => linked = 1
    /\ opened => linked = 1
    /\ pc[nfc] \in TransceiveLabels => opened
    /\ pc[nfc] \in StartLabels => ~opened

TypeInv == TypeOK /\ LinkedOnce

(* What a read of the FIFO answers is a sequence of bytes. *)
LEMMA FifoAnswersType ==
    ASSUME fifo \in Seq(Bytes), NEW f \in FifoAnswers
    PROVE  f \in Seq(Bytes)
<1>1. [i \in 1 .. FifoSize |-> Garbage] \in Seq(Bytes)
  BY SizesAssumption, IsASeq DEF Bytes, Garbage
<1>2. <<>> \in Seq(Bytes)
  OBVIOUS
<1> QED BY <1>1, <1>2 DEF FifoAnswers

(* The part of the type invariant that is about Boolean variables. *)
Booleans ==
    /\ config \in BOOLEAN /\ opened \in BOOLEAN /\ pending \in BOOLEAN
    /\ exti \in BOOLEAN /\ stopSince \in BOOLEAN /\ power \in BOOLEAN
    /\ rf \in BOOLEAN /\ txLong \in BOOLEAN
    /\ shutdown \in [Threads -> BOOLEAN]

LEMMA TypeInvInit == Init => TypeInv
<1> SUFFICES ASSUME Init PROVE TypeInv
  OBVIOUS
<1>1. nfc \in Threads
  BY DEF Threads
<1>B. Booleans
  BY DEF Init, Booleans
<1>2. TypeOK
  BY <1>1, <1>B, SizesAssumption DEF Booleans, Init, TypeOK, Threads, Labels, Returns,
              Bytes, Garbage
<1>3. LinkedOnce
  BY <1>1 DEF Init, LinkedOnce, TransceiveLabels, StartLabels, TxLabels,
              RxLabels
<1> QED BY <1>2, <1>3 DEF TypeInv

LEMMA BooleansStep == Booleans /\ [Next]_vars => Booleans'
<1> SUFFICES ASSUME Booleans, [Next]_vars PROVE Booleans'
  OBVIOUS
<1> USE DEF Booleans, driverVars, eventVars, callVars, fieldVars
<1>1. CASE CallStart
  BY <1>1 DEF CallStart
<1>2. CASE StartReset
  BY <1>2 DEF StartReset
<1>3. CASE StartProbe
  BY <1>3 DEF StartProbe, Initialised
<1>4. CASE StartAttach
  BY <1>4 DEF StartAttach
<1>5. CASE StartRegister
  BY <1>5 DEF StartRegister
<1>6. CASE StartConfigure
  BY <1>6 DEF StartConfigure
<1>7. CASE CallTransceive
  BY <1>7 DEF CallTransceive
<1>8. CASE CallTransceiveEmpty
  BY <1>8 DEF CallTransceiveEmpty
<1>9. CASE ClearIrq
  BY <1>9 DEF ClearIrq
<1>10. CASE ClearFlags
  BY <1>10 DEF ClearFlags
<1>11. CASE Transmit
  BY <1>11 DEF Transmit
<1>12. CASE TxWait
  BY <1>12 DEF TxWait
<1>13. CASE TxFlags
  BY <1>13 DEF TxFlags, TakeFlags
<1>14. CASE TxIrq
  BY <1>14 DEF TxIrq
<1>15. CASE RxWait
  BY <1>15 DEF RxWait
<1>16. CASE RxTimeout
  BY <1>16 DEF RxTimeout
<1>17. CASE RxFlags
  BY <1>17 DEF RxFlags, TakeFlags
<1>18. CASE RxIrq
  BY <1>18 DEF RxIrq
<1>19. CASE RxDrain
  BY <1>19 DEF RxDrain
<1>20. CASE Isr
  BY <1>20 DEF Isr, Broadcast
<1>21. CASE TxLow
  BY <1>21 DEF TxLow, Raise
<1>22. CASE TxDone
  BY <1>22 DEF TxDone, Raise
<1>23. CASE RxByte
  BY <1>23 DEF RxByte, Raise
<1>24. CASE RxEnd
  BY <1>24 DEF RxEnd, Raise
<1>25. ASSUME NEW t \in Threads, CallStop(t) PROVE Booleans'
  BY <1>25, ShutdownsAssumption DEF CallStop
<1>26. ASSUME NEW t \in Threads, StopBroadcast(t) PROVE Booleans'
  BY <1>26, ShutdownsAssumption DEF StopBroadcast, Broadcast
<1>27. ASSUME NEW t \in Threads, StopRfOff(t) PROVE Booleans'
  BY <1>27, ShutdownsAssumption DEF StopRfOff
<1>28. CASE UNCHANGED vars
  BY <1>28 DEF vars
<1> QED
  BY <1>1, <1>2, <1>3, <1>4, <1>5, <1>6, <1>7, <1>8, <1>9, <1>10, <1>11, <1>12, <1>13, <1>14, <1>15, <1>16, <1>17, <1>18, <1>19, <1>20, <1>21, <1>22, <1>23, <1>24, <1>25, <1>26, <1>27, <1>28
  DEF Next, Start, Transceive, Receive, Stop, Chip

LEMMA TypeInvStep == TypeInv /\ [Next]_vars => TypeInv'
<1> SUFFICES ASSUME TypeInv, [Next]_vars PROVE TypeInv'
  OBVIOUS
<1> USE ThreadsAssumption, ShutdownsAssumption, SizesAssumption
<1>0. nfc \in Threads
  BY DEF Threads
<1>B. Booleans'
  BY BooleansStep DEF TypeInv, TypeOK, Booleans
<1> USE <1>0, <1>B DEF TypeInv, Booleans, TypeOK, LinkedOnce, Labels, BusLabels, StartLabels,
      TransceiveLabels, TxLabels, RxLabels, Returns, driverVars, eventVars,
      callVars, fieldVars, Leave, Enter, Goto, At, Return, Waiting
<1>1. CASE CallStart
  BY <1>1 DEF CallStart
<1>2. CASE StartReset
  <2>1. CASE state = "PWR_OFF"
    BY <1>2, <2>1 DEF StartReset
  <2>2. CASE ~(state = "PWR_OFF")
    BY <1>2, <2>2 DEF StartReset
  <2> QED BY <2>1, <2>2
<1>3. CASE StartProbe
  <2>1. CASE power
    BY <1>3, <2>1 DEF StartProbe, Initialised
  <2>2. CASE ~(power)
    BY <1>3, <2>2 DEF StartProbe, Initialised
  <2> QED BY <2>1, <2>2
<1>4. CASE StartAttach
  BY <1>4 DEF StartAttach
<1>5. CASE StartRegister
  BY <1>5 DEF StartRegister
<1>6. CASE StartConfigure
  BY <1>6 DEF StartConfigure
<1>7. CASE CallTransceive
  BY <1>7 DEF CallTransceive
<1>8. CASE CallTransceiveEmpty
  BY <1>8 DEF CallTransceiveEmpty
<1>9. CASE ClearIrq
  BY <1>9 DEF ClearIrq, ReadStatus, Causes
<1>10. CASE ClearFlags
  BY <1>10 DEF ClearFlags
<1>11. CASE Transmit
  <2>1. CASE power
    BY <1>11, <2>1 DEF Transmit
  <2>2. CASE ~(power)
    BY <1>11, <2>2 DEF Transmit
  <2> QED BY <2>1, <2>2
<1>12. CASE TxWait
  BY <1>12 DEF TxWait
<1>13. CASE TxFlags
  BY <1>13 DEF TxFlags, TakeFlags
<1>14. CASE TxIrq
  BY <1>14 DEF TxIrq, ReadStatus, Causes
<1>15. CASE RxWait
  BY <1>15 DEF RxWait
<1>16. CASE RxTimeout
  BY <1>16 DEF RxTimeout
<1>17. CASE RxFlags
  BY <1>17 DEF RxFlags, TakeFlags
<1>18. CASE RxIrq
  BY <1>18 DEF RxIrq, ReadStatus, Causes
<1>19. CASE RxDrain
  <2>1. PICK f \in FifoAnswers :
          LET n == IF room < Len(f) THEN room ELSE Len(f)
          IN rxBuf' = rxBuf \o SubSeq(f, 1, n) /\ room' = room - n
    BY <1>19 DEF RxDrain
  <2> DEFINE n == IF room < Len(f) THEN room ELSE Len(f)
  <2>2. f \in Seq(Bytes)
    BY FifoAnswersType
  <2>3. n \in Nat /\ n <= Len(f) /\ n <= room
    BY <2>2
  <2>4. SubSeq(f, 1, n) \in Seq(Bytes)
    BY <2>2, <2>3, SubSeqProperties
  <2>5. rxBuf' \in Seq(Bytes) /\ room' \in Nat
    BY <2>1, <2>3, <2>4, ConcatProperties
  <2> HIDE DEF n
  <2> QED BY <1>19, <2>5 DEF RxDrain
<1>20. ASSUME NEW t \in Threads, CallStop(t) PROVE TypeInv'
  <2>1. PICK s \in Shutdowns :
          /\ shutdown' = [shutdown EXCEPT ![t] = s]
          /\ IF s THEN /\ state' = "PWR_OFF" /\ power' = FALSE /\ rf' = FALSE
                       /\ air' = "quiet" /\ txLong' = FALSE /\ fifo' = <<>>
                       /\ status' = {} /\ UNCHANGED got
                  ELSE UNCHANGED <<state, fieldVars, status>>
    BY <1>20 DEF CallStop
  <2>2. CASE s
    BY <1>20, <2>1, <2>2 DEF CallStop
  <2>3. CASE ~s
    BY <1>20, <2>1, <2>3 DEF CallStop
  <2> QED BY <2>2, <2>3
<1>21. ASSUME NEW t \in Threads, StopBroadcast(t) PROVE TypeInv'
  <2>1. flags' \subseteq {"STOP", "IRQ"}
    BY <1>21 DEF StopBroadcast, Broadcast
  <2>2. /\ pc' \in [Threads -> Labels]
        /\ bus' \in Threads \cup {NoThread}
        /\ pc'[nfc] = pc[nfc] \/ pc'[nfc] \in {"idle", "rfOff"}
    <3>1. CASE shutdown[t]
      BY <1>21, <3>1 DEF StopBroadcast
    <3>2. CASE ~shutdown[t]
      BY <1>21, <3>2 DEF StopBroadcast
    <3> QED BY <3>1, <3>2
  <2>3. UNCHANGED <<driverVars, linked, exti, shutdown, irq, room, rxBuf, ret,
                    fieldVars, status>>
    BY <1>21 DEF StopBroadcast
  <2> HIDE DEF Enter
  <2> QED BY <2>1, <2>2, <2>3
<1>22. ASSUME NEW t \in Threads, StopRfOff(t) PROVE TypeInv'
  BY <1>22 DEF StopRfOff
<1>23. CASE Isr
  <2>1. flags' \subseteq {"STOP", "IRQ"}
    BY <1>23 DEF Isr, Broadcast
  <2>2. UNCHANGED <<driverVars, linked, bus, pc, shutdown, callVars,
                    fieldVars, status>>
    BY <1>23 DEF Isr
  <2> QED BY <2>1, <2>2
<1>24. CASE TxLow
  BY <1>24 DEF TxLow, Raise, Causes
<1>25. CASE TxDone
  BY <1>25 DEF TxDone, Raise, Causes
<1>26. CASE RxByte
  <2>1. got' \in Bytes /\ got' \in 0 .. MaxAnswer
    BY <1>26 DEF RxByte, Bytes, Garbage
  <2>2. fifo' \in Seq(Bytes)
    BY <1>26, <2>1, AppendProperties DEF RxByte
  <2> QED BY <1>26, <2>1, <2>2 DEF RxByte, Raise, Causes
<1>27. CASE RxEnd
  <2>1. PICK c \in SUBSET Causes : Raise(c)
    BY <1>27 DEF RxEnd, Causes
  <2>2. status' \subseteq Causes
    BY <2>1 DEF Raise
  <2>3. UNCHANGED <<driverVars, eventVars, bus, pc, shutdown, callVars, power,
                    rf, txLong, fifo, got>> /\ air' = "quiet"
    BY <1>27, <2>1 DEF RxEnd, Raise
  <2> QED BY <2>2, <2>3
<1>28. CASE UNCHANGED vars
  BY <1>28 DEF vars
<1> QED
  BY <1>1, <1>2, <1>3, <1>4, <1>5, <1>6, <1>7, <1>8, <1>9, <1>10, <1>11,
     <1>12, <1>13, <1>14, <1>15, <1>16, <1>17, <1>18, <1>19, <1>20, <1>21,
     <1>22, <1>23, <1>24, <1>25, <1>26, <1>27, <1>28
  DEF Next, Start, Transceive, Receive, Stop, Chip

(* The driver's variables keep their types; in particular the listener is   *)
(* never linked into the event source twice.                                *)
THEOREM TypeCorrect == Spec => []TypeOK
<1>1. TypeInv => TypeOK
  BY DEF TypeInv
<1> QED BY <1>1, TypeInvInit, TypeInvStep, PTL DEF Spec

-------------------------------------------------------------------------------
(* No lost wake up *)

(* NoLostWakeup at every point where the thread is between two reads of the *)
(* status.  It holds from the first read on, which is why transceive reads  *)
(* the status before it sends: a cause left over keeps the pin high.        *)
WakeupInv ==
    (/\ pc[nfc] \in {"clearFlags", "transmit", "txWait", "rxWait", "rxDrain"}
     /\ status # {}) => (exti \/ pending)

LEMMA WakeupInvStep ==
    TypeInv /\ WakeupInv /\ [Next]_vars => WakeupInv'
<1> SUFFICES ASSUME TypeInv, WakeupInv, [Next]_vars PROVE WakeupInv'
  OBVIOUS
<1> USE ThreadsAssumption
<1>0. nfc \in Threads /\ pc \in [Threads -> Labels]
  BY DEF Threads, TypeInv, TypeOK
<1>L. pc[nfc] \in TransceiveLabels => linked > 0
  BY DEF TypeInv, LinkedOnce, TransceiveLabels, TxLabels, RxLabels
<1> USE <1>0, <1>L DEF WakeupInv, TransceiveLabels, TxLabels, RxLabels,
      driverVars, eventVars, callVars, fieldVars, Leave, Enter,
      Goto, At, Return, Waiting
<1>1. CASE CallStart
  BY <1>1 DEF CallStart
<1>2. CASE StartReset
  BY <1>2 DEF StartReset
<1>3. CASE StartProbe
  BY <1>3 DEF StartProbe, Initialised
<1>4. CASE StartAttach
  BY <1>4 DEF StartAttach
<1>5. CASE StartRegister
  BY <1>5 DEF StartRegister
<1>6. CASE StartConfigure
  BY <1>6 DEF StartConfigure
<1>7. CASE CallTransceive
  BY <1>7 DEF CallTransceive
<1>8. CASE CallTransceiveEmpty
  BY <1>8 DEF CallTransceiveEmpty
<1>9. CASE ClearIrq
  BY <1>9 DEF ClearIrq, ReadStatus
<1>10. CASE ClearFlags
  BY <1>10 DEF ClearFlags
<1>11. CASE Transmit
  BY <1>11 DEF Transmit
<1>12. CASE TxWait
  BY <1>12 DEF TxWait
<1>13. CASE TxFlags
  BY <1>13 DEF TxFlags, TakeFlags
<1>14. CASE TxIrq
  BY <1>14 DEF TxIrq, ReadStatus
<1>15. CASE RxWait
  BY <1>15 DEF RxWait
<1>16. CASE RxTimeout
  BY <1>16 DEF RxTimeout
<1>17. CASE RxFlags
  BY <1>17 DEF RxFlags, TakeFlags
<1>18. CASE RxIrq
  BY <1>18 DEF RxIrq, ReadStatus
<1>19. CASE RxDrain
  BY <1>19 DEF RxDrain
<1>20. CASE Isr
  BY <1>20 DEF Isr, Broadcast
<1>21. CASE TxLow
  BY <1>21 DEF TxLow, Raise
<1>22. CASE TxDone
  BY <1>22 DEF TxDone, Raise
<1>23. CASE RxByte
  BY <1>23 DEF RxByte, Raise
<1>24. CASE RxEnd
  <2>1. PICK c : Raise(c)
    BY <1>24 DEF RxEnd
  <2> QED BY <2>1 DEF Raise
<1>25. ASSUME NEW t \in Threads, CallStop(t) PROVE WakeupInv'
  BY <1>25 DEF CallStop
<1>26. ASSUME NEW t \in Threads, StopBroadcast(t) PROVE WakeupInv'
  BY <1>26 DEF StopBroadcast, Broadcast
<1>27. ASSUME NEW t \in Threads, StopRfOff(t) PROVE WakeupInv'
  BY <1>27 DEF StopRfOff
<1>28. CASE UNCHANGED vars
  BY <1>28 DEF vars
<1> QED
  BY <1>1, <1>2, <1>3, <1>4, <1>5, <1>6, <1>7, <1>8, <1>9, <1>10, <1>11,
     <1>12, <1>13, <1>14, <1>15, <1>16, <1>17, <1>18, <1>19, <1>20,
     <1>21, <1>22, <1>23, <1>24, <1>25, <1>26, <1>27, <1>28
  DEF Next, Start, Transceive, Receive, Stop, Chip

(* A cause latched while transceive waits has an edge or an event bit that *)
(* will wake the thread.                                                   *)
THEOREM WakeupNotLost == Spec => []NoLostWakeup
<1>1. Init => WakeupInv
  BY DEF Init, WakeupInv
<1>2. WakeupInv => NoLostWakeup
  BY DEF WakeupInv, NoLostWakeup
<1> QED BY <1>1, <1>2, TypeInvInit, TypeInvStep, WakeupInvStep, PTL DEF Spec

-------------------------------------------------------------------------------
(* The bus *)

LEMMA BusDisciplineStep ==
    TypeInv /\ BusDiscipline /\ [Next]_vars => BusDiscipline'
<1> SUFFICES ASSUME TypeInv, BusDiscipline, [Next]_vars
             PROVE  BusDiscipline'
  OBVIOUS
<1> USE ThreadsAssumption
<1>0. /\ nfc \in Threads /\ pc \in [Threads -> Labels]
      /\ bus \in Threads \cup {NoThread}
  BY DEF Threads, TypeInv, TypeOK
<1> USE <1>0 DEF BusDiscipline, Labels, BusLabels, StartLabels,
      TransceiveLabels, TxLabels, RxLabels, driverVars, eventVars, callVars, fieldVars,
      Leave, Enter, Goto, At, Return, Waiting
<1>1. CASE CallStart
  BY <1>1 DEF CallStart
<1>2. CASE StartReset
  BY <1>2 DEF StartReset
<1>3. CASE StartProbe
  BY <1>3 DEF StartProbe, Initialised
<1>4. CASE StartAttach
  BY <1>4 DEF StartAttach
<1>5. CASE StartRegister
  BY <1>5 DEF StartRegister
<1>6. CASE StartConfigure
  BY <1>6 DEF StartConfigure
<1>7. CASE CallTransceive
  BY <1>7 DEF CallTransceive
<1>8. CASE CallTransceiveEmpty
  BY <1>8 DEF CallTransceiveEmpty
<1>9. CASE ClearIrq
  BY <1>9 DEF ClearIrq, ReadStatus
<1>10. CASE ClearFlags
  BY <1>10 DEF ClearFlags
<1>11. CASE Transmit
  BY <1>11 DEF Transmit
<1>12. CASE TxWait
  BY <1>12 DEF TxWait
<1>13. CASE TxFlags
  BY <1>13 DEF TxFlags, TakeFlags
<1>14. CASE TxIrq
  BY <1>14 DEF TxIrq, ReadStatus
<1>15. CASE RxWait
  BY <1>15 DEF RxWait
<1>16. CASE RxTimeout
  BY <1>16 DEF RxTimeout
<1>17. CASE RxFlags
  BY <1>17 DEF RxFlags, TakeFlags
<1>18. CASE RxIrq
  BY <1>18 DEF RxIrq, ReadStatus
<1>19. CASE RxDrain
  BY <1>19 DEF RxDrain
<1>20. CASE Isr
  BY <1>20 DEF Isr, Broadcast
<1>21. CASE TxLow
  BY <1>21 DEF TxLow, Raise
<1>22. CASE TxDone
  BY <1>22 DEF TxDone, Raise
<1>23. CASE RxByte
  BY <1>23 DEF RxByte, Raise
<1>24. CASE RxEnd
  BY <1>24 DEF RxEnd, Raise
<1>25. ASSUME NEW t \in Threads, CallStop(t) PROVE BusDiscipline'
  BY <1>25 DEF CallStop
<1>26. ASSUME NEW t \in Threads, StopBroadcast(t) PROVE BusDiscipline'
  BY <1>26 DEF StopBroadcast, Broadcast
<1>27. ASSUME NEW t \in Threads, StopRfOff(t) PROVE BusDiscipline'
  BY <1>27 DEF StopRfOff
<1>28. CASE UNCHANGED vars
  BY <1>28 DEF vars
<1> QED
  BY <1>1, <1>2, <1>3, <1>4, <1>5, <1>6, <1>7, <1>8, <1>9, <1>10, <1>11,
     <1>12, <1>13, <1>14, <1>15, <1>16, <1>17, <1>18, <1>19, <1>20,
     <1>21, <1>22, <1>23, <1>24, <1>25, <1>26, <1>27, <1>28
  DEF Next, Start, Transceive, Receive, Stop, Chip

(* Every path of start, transceive and stop gives the bus back, to a waiting *)
(* thread if there is one.                                                   *)
THEOREM BusAlwaysReleased == Spec => []BusDiscipline
<1>1. Init => BusDiscipline
  BY DEF Init, BusDiscipline, BusLabels, StartLabels, TransceiveLabels,
         TxLabels, RxLabels
<1> QED BY <1>1, TypeInvInit, TypeInvStep, BusDisciplineStep, PTL DEF Spec

-------------------------------------------------------------------------------
(* Cancellation *)

(* A stop flag that transceive can still see was set after it was called,  *)
(* because it throws away the flags it finds at its beginning.             *)
CancelInv ==
    /\ NoStaleCancel
    /\ (pc[nfc] \in {"transmit"} \cup TxLabels \cup RxLabels
          /\ "STOP" \in flags) => stopSince

LEMMA CancelInvStep == TypeInv /\ CancelInv /\ [Next]_vars => CancelInv'
<1> SUFFICES ASSUME TypeInv, CancelInv, [Next]_vars PROVE CancelInv'
  OBVIOUS
<1> USE ThreadsAssumption
<1>0. nfc \in Threads /\ pc \in [Threads -> Labels]
  BY DEF Threads, TypeInv, TypeOK
<1> USE <1>0 DEF CancelInv, NoStaleCancel, TxLabels, RxLabels,
      driverVars, eventVars, callVars, fieldVars,
      Leave, Enter, Goto, At, Return, Waiting
<1>1. CASE CallStart
  BY <1>1 DEF CallStart
<1>2. CASE StartReset
  BY <1>2 DEF StartReset
<1>3. CASE StartProbe
  BY <1>3 DEF StartProbe, Initialised
<1>4. CASE StartAttach
  BY <1>4 DEF StartAttach
<1>5. CASE StartRegister
  BY <1>5 DEF StartRegister
<1>6. CASE StartConfigure
  BY <1>6 DEF StartConfigure
<1>7. CASE CallTransceive
  BY <1>7 DEF CallTransceive
<1>8. CASE CallTransceiveEmpty
  BY <1>8 DEF CallTransceiveEmpty
<1>9. CASE ClearIrq
  BY <1>9 DEF ClearIrq, ReadStatus
<1>10. CASE ClearFlags
  BY <1>10 DEF ClearFlags
<1>11. CASE Transmit
  BY <1>11 DEF Transmit
<1>12. CASE TxWait
  BY <1>12 DEF TxWait
<1>13. CASE TxFlags
  BY <1>13 DEF TxFlags, TakeFlags
<1>14. CASE TxIrq
  BY <1>14 DEF TxIrq, ReadStatus
<1>15. CASE RxWait
  BY <1>15 DEF RxWait
<1>16. CASE RxTimeout
  BY <1>16 DEF RxTimeout
<1>17. CASE RxFlags
  BY <1>17 DEF RxFlags, TakeFlags
<1>18. CASE RxIrq
  BY <1>18 DEF RxIrq, ReadStatus
<1>19. CASE RxDrain
  BY <1>19 DEF RxDrain
<1>20. CASE Isr
  BY <1>20 DEF Isr, Broadcast
<1>21. CASE TxLow
  BY <1>21 DEF TxLow, Raise
<1>22. CASE TxDone
  BY <1>22 DEF TxDone, Raise
<1>23. CASE RxByte
  BY <1>23 DEF RxByte, Raise
<1>24. CASE RxEnd
  <2>1. PICK c : Raise(c)
    BY <1>24 DEF RxEnd
  <2> QED BY <2>1 DEF Raise
<1>25. ASSUME NEW t \in Threads, CallStop(t) PROVE CancelInv'
  BY <1>25 DEF CallStop
<1>26. ASSUME NEW t \in Threads, StopBroadcast(t) PROVE CancelInv'
  BY <1>26 DEF StopBroadcast, Broadcast
<1>27. ASSUME NEW t \in Threads, StopRfOff(t) PROVE CancelInv'
  BY <1>27 DEF StopRfOff
<1>28. CASE UNCHANGED vars
  BY <1>28 DEF vars
<1> QED
  BY <1>1, <1>2, <1>3, <1>4, <1>5, <1>6, <1>7, <1>8, <1>9, <1>10, <1>11,
     <1>12, <1>13, <1>14, <1>15, <1>16, <1>17, <1>18, <1>19, <1>20,
     <1>21, <1>22, <1>23, <1>24, <1>25, <1>26, <1>27, <1>28
  DEF Next, Start, Transceive, Receive, Stop, Chip

(* transceive returns ECANCELED only for a stop requested after its call. *)
THEOREM CancelNotStale == Spec => []NoStaleCancel
<1>1. Init => CancelInv
  BY DEF Init, CancelInv, NoStaleCancel, TxLabels, RxLabels
<1>2. CancelInv => NoStaleCancel
  BY DEF CancelInv
<1> QED BY <1>1, <1>2, TypeInvInit, TypeInvStep, CancelInvStep, PTL DEF Spec

-------------------------------------------------------------------------------
(* The wait for the end of the transmission *)

LEMMA HangStepHolds == TypeInv /\ [Next]_vars => HangStep
<1> SUFFICES ASSUME TypeInv, [Next]_vars PROVE HangStep
  OBVIOUS
<1> USE ThreadsAssumption
<1>0. nfc \in Threads /\ pc \in [Threads -> Labels]
  BY DEF Threads, TypeInv, TypeOK
<1> USE <1>0 DEF HangStep, TxHang, TxLabels,
      driverVars, eventVars, callVars, fieldVars,
      Leave, Enter, Goto, At, Return, Waiting
<1>1. CASE CallStart
  BY <1>1 DEF CallStart
<1>2. CASE StartReset
  BY <1>2 DEF StartReset
<1>3. CASE StartProbe
  BY <1>3 DEF StartProbe, Initialised
<1>4. CASE StartAttach
  BY <1>4 DEF StartAttach
<1>5. CASE StartRegister
  BY <1>5 DEF StartRegister
<1>6. CASE StartConfigure
  BY <1>6 DEF StartConfigure
<1>7. CASE CallTransceive
  BY <1>7 DEF CallTransceive
<1>8. CASE CallTransceiveEmpty
  BY <1>8 DEF CallTransceiveEmpty
<1>9. CASE ClearIrq
  BY <1>9 DEF ClearIrq, ReadStatus
<1>10. CASE ClearFlags
  BY <1>10 DEF ClearFlags
<1>11. CASE Transmit
  BY <1>11 DEF Transmit
<1>12. CASE TxWait
  BY <1>12 DEF TxWait
<1>13. CASE TxFlags
  BY <1>13 DEF TxFlags, TakeFlags
<1>14. CASE TxIrq
  BY <1>14 DEF TxIrq, ReadStatus
<1>15. CASE RxWait
  BY <1>15 DEF RxWait
<1>16. CASE RxTimeout
  BY <1>16 DEF RxTimeout
<1>17. CASE RxFlags
  BY <1>17 DEF RxFlags, TakeFlags
<1>18. CASE RxIrq
  BY <1>18 DEF RxIrq, ReadStatus
<1>19. CASE RxDrain
  BY <1>19 DEF RxDrain
<1>20. CASE Isr
  BY <1>20 DEF Isr, Broadcast
<1>21. CASE TxLow
  BY <1>21 DEF TxLow, Raise
<1>22. CASE TxDone
  BY <1>22 DEF TxDone, Raise
<1>23. CASE RxByte
  BY <1>23 DEF RxByte, Raise
<1>24. CASE RxEnd
  BY <1>24 DEF RxEnd, Raise
<1>25. ASSUME NEW t \in Threads, CallStop(t) PROVE HangStep
  BY <1>25 DEF CallStop
<1>26. ASSUME NEW t \in Threads, StopBroadcast(t) PROVE HangStep
  BY <1>26 DEF StopBroadcast, Broadcast
<1>27. ASSUME NEW t \in Threads, StopRfOff(t) PROVE HangStep
  BY <1>27 DEF StopRfOff
<1>28. CASE UNCHANGED vars
  BY <1>28 DEF vars
<1> QED
  BY <1>1, <1>2, <1>3, <1>4, <1>5, <1>6, <1>7, <1>8, <1>9, <1>10, <1>11,
     <1>12, <1>13, <1>14, <1>15, <1>16, <1>17, <1>18, <1>19, <1>20,
     <1>21, <1>22, <1>23, <1>24, <1>25, <1>26, <1>27, <1>28
  DEF Next, Start, Transceive, Receive, Stop, Chip

(* The endless wait is reached only when TX is read together with another  *)
(* cause, or when the power is cut.                                        *)
THEOREM HangNeedsCoalescing == Spec => HangOnlyIfCoalesced
<1> QED BY TypeInvInit, TypeInvStep, HangStepHolds, PTL
        DEF Spec, HangOnlyIfCoalesced

-------------------------------------------------------------------------------
(* The state and the field, when every stop is the one that close makes *)

(* The recorded state and the field agree except while start, which holds   *)
(* the bus, has set the first and not yet the second.                       *)
FieldInv ==
    /\ pc[nfc] \notin {"register", "configure"} => (rf <=> state = "IDLE")
    /\ pc[nfc] \in {"register", "configure"} => state = "IDLE"
    /\ pc[nfc] \in {"attach", "register", "configure"} => bus = nfc /\ power
    /\ state # "PWR_OFF" => power
    /\ (pc[nfc] \in {"register", "configure"} \/ opened) => config
    /\ config => state # "PWR_OFF"
    /\ \A t \in Threads : pc[t] \in {"broadcast", "rfOff"} => config
    /\ (~opened /\ pc[nfc] \in {"idle", "reset", "probe", "attach"})
          => state # "IDLE"
    /\ \A t \in Threads : ~shutdown[t]

LEMMA FieldInvStep ==
    ASSUME Shutdowns \subseteq {FALSE}
    PROVE  TypeInv /\ BusDiscipline /\ FieldInv /\ [Next]_vars => FieldInv'
<1> SUFFICES ASSUME TypeInv, BusDiscipline, FieldInv, [Next]_vars
             PROVE  FieldInv'
  OBVIOUS
<1> USE ThreadsAssumption
<1>0. /\ nfc \in Threads /\ pc \in [Threads -> Labels]
      /\ shutdown \in [Threads -> BOOLEAN]
      /\ pc[nfc] \in StartLabels => ~opened
      /\ pc[nfc] \in TransceiveLabels => opened
  BY DEF Threads, TypeInv, TypeOK, LinkedOnce
<1> USE <1>0 DEF FieldInv, BusDiscipline, BusLabels, StartLabels,
      TransceiveLabels, TxLabels, RxLabels, driverVars, eventVars, callVars, fieldVars,
      Leave, Enter, Goto, At, Return, Waiting
<1>1. CASE CallStart
  BY <1>1 DEF CallStart
<1>2. CASE StartReset
  BY <1>2 DEF StartReset
<1>3. CASE StartProbe
  BY <1>3 DEF StartProbe, Initialised
<1>4. CASE StartAttach
  BY <1>4 DEF StartAttach
<1>5. CASE StartRegister
  BY <1>5 DEF StartRegister
<1>6. CASE StartConfigure
  BY <1>6 DEF StartConfigure
<1>7. CASE CallTransceive
  BY <1>7 DEF CallTransceive
<1>8. CASE CallTransceiveEmpty
  BY <1>8 DEF CallTransceiveEmpty
<1>9. CASE ClearIrq
  BY <1>9 DEF ClearIrq, ReadStatus
<1>10. CASE ClearFlags
  BY <1>10 DEF ClearFlags
<1>11. CASE Transmit
  BY <1>11 DEF Transmit
<1>12. CASE TxWait
  BY <1>12 DEF TxWait
<1>13. CASE TxFlags
  BY <1>13 DEF TxFlags, TakeFlags
<1>14. CASE TxIrq
  BY <1>14 DEF TxIrq, ReadStatus
<1>15. CASE RxWait
  BY <1>15 DEF RxWait
<1>16. CASE RxTimeout
  BY <1>16 DEF RxTimeout
<1>17. CASE RxFlags
  BY <1>17 DEF RxFlags, TakeFlags
<1>18. CASE RxIrq
  BY <1>18 DEF RxIrq, ReadStatus
<1>19. CASE RxDrain
  BY <1>19 DEF RxDrain
<1>20. CASE Isr
  BY <1>20 DEF Isr, Broadcast
<1>21. CASE TxLow
  BY <1>21 DEF TxLow, Raise
<1>22. CASE TxDone
  BY <1>22 DEF TxDone, Raise
<1>23. CASE RxByte
  BY <1>23 DEF RxByte, Raise
<1>24. CASE RxEnd
  <2>1. PICK c : Raise(c)
    BY <1>24 DEF RxEnd
  <2> QED BY <2>1 DEF Raise
<1>25. ASSUME NEW t \in Threads, CallStop(t) PROVE FieldInv'
  BY <1>25 DEF CallStop
<1>26. ASSUME NEW t \in Threads, StopBroadcast(t) PROVE FieldInv'
  BY <1>26 DEF StopBroadcast, Broadcast
<1>27. ASSUME NEW t \in Threads, StopRfOff(t) PROVE FieldInv'
  <2>1. rf' = FALSE /\ state' = "RF_OFF" /\ pc'[t] = "idle" /\ bus = t
    BY <1>27 DEF StopRfOff
  <2>2. UNCHANGED <<opened, config, shutdown, power>>
    BY <1>27 DEF StopRfOff
  <2>3. pc'[nfc] \notin {"attach", "register", "configure"}
    BY <1>27 DEF StopRfOff
  <2>4. power
    BY <1>27 DEF StopRfOff
  <2>5. \A u \in Threads : pc'[u] \in {"broadcast", "rfOff"} => config
    BY <1>27 DEF StopRfOff
  <2>6. pc'[nfc] \in {"register", "configure"} \/ opened => config
    BY <1>27, <2>3
  <2> HIDE DEF Leave
  <2> QED BY <2>1, <2>2, <2>3, <2>4, <2>5, <2>6
<1>28. CASE UNCHANGED vars
  BY <1>28 DEF vars
<1> QED
  BY <1>1, <1>2, <1>3, <1>4, <1>5, <1>6, <1>7, <1>8, <1>9, <1>10, <1>11,
     <1>12, <1>13, <1>14, <1>15, <1>16, <1>17, <1>18, <1>19, <1>20,
     <1>21, <1>22, <1>23, <1>24, <1>25, <1>26, <1>27, <1>28
  DEF Next, Start, Transceive, Receive, Stop, Chip

(* Without shutdown, whenever nobody holds the bus the field is on exactly *)
(* in IDLE, and outside PWR_OFF the chip has power: start can find it.     *)
THEOREM FieldFollowsState ==
    ASSUME Shutdowns \subseteq {FALSE}
    PROVE  Spec => []FieldMatchesState
<1>1. Init => FieldInv
  BY ThreadsAssumption DEF Init, FieldInv, Threads
<1>2. Init => BusDiscipline
  BY DEF Init, BusDiscipline, BusLabels, StartLabels, TransceiveLabels,
         TxLabels, RxLabels
<1>3. TypeInv /\ BusDiscipline /\ FieldInv => FieldMatchesState
  BY ThreadsAssumption
  DEF FieldInv, FieldMatchesState, BusDiscipline, BusLabels, StartLabels,
      Threads
<1>4. TypeInv /\ BusDiscipline /\ FieldInv /\ [Next]_vars => FieldInv'
  BY FieldInvStep
<1> QED BY <1>1, <1>2, <1>3, <1>4, TypeInvInit, TypeInvStep,
           BusDisciplineStep, PTL DEF Spec

-------------------------------------------------------------------------------
(* The answer *)

(* What the buffer and the FIFO hold is the answer received so far: the     *)
(* buffer its first bytes, the FIFO its last, with nothing between them as  *)
(* long as the buffer has room.                                             *)
Received ==
    /\ Len(rxBuf) + Len(fifo) <= got
    /\ room > 0 => Len(rxBuf) + Len(fifo) = got
    /\ \A i \in 1 .. Len(rxBuf) : rxBuf[i] = i
    /\ \A i \in 1 .. Len(fifo) : fifo[i] = (got - Len(fifo)) + i

(* The end of the answer has been seen: no byte will follow. *)
Ended ==
    /\ (pc[nfc] \in RxLabels /\ "SRX" \in status) => air = "quiet"
    /\ (pc[nfc] = "rxDrain" /\ "SRX" \in irq) => air = "quiet"

AnswerInv ==
    /\ pc[nfc] \in {"clearIrq", "clearFlags", "transmit"} => rxBuf = <<>>
    /\ pc[nfc] \in TxLabels \cup RxLabels => Received
    /\ Ended
    /\ ret = "OK" =>
          /\ pc[nfc] \in {"idle", "broadcast", "rfOff"}
          /\ air = "quiet"
          /\ Len(rxBuf) <= got
          /\ room > 0 => Len(rxBuf) = got
          /\ \A i \in 1 .. Len(rxBuf) : rxBuf[i] = i

LEMMA AnswerInvStep ==
    ASSUME Shutdowns \subseteq {FALSE}
    PROVE  TypeInv /\ FieldInv /\ AnswerInv /\ [Next]_vars => AnswerInv'
<1> SUFFICES ASSUME TypeInv, FieldInv, AnswerInv, [Next]_vars
             PROVE  AnswerInv'
  OBVIOUS
<1> USE ThreadsAssumption
<1>0. /\ nfc \in Threads /\ pc \in [Threads -> Labels]
      /\ pc[nfc] \in TransceiveLabels => power
      /\ fifo \in Seq(Bytes) /\ rxBuf \in Seq(Bytes)
      /\ room \in Nat /\ got \in Nat
  BY SizesAssumption DEF Threads, TypeInv, TypeOK, LinkedOnce, FieldInv
<1> USE <1>0 DEF AnswerInv, Received, Ended, TransceiveLabels, TxLabels,
      RxLabels, driverVars, eventVars, callVars, fieldVars,
      Leave, Enter, Goto, At, Return, Waiting
<1>1. CASE CallStart
  BY <1>1 DEF CallStart
<1>2. CASE StartReset
  BY <1>2 DEF StartReset
<1>3. CASE StartProbe
  BY <1>3 DEF StartProbe, Initialised
<1>4. CASE StartAttach
  BY <1>4 DEF StartAttach
<1>5. CASE StartRegister
  BY <1>5 DEF StartRegister
<1>6. CASE StartConfigure
  BY <1>6 DEF StartConfigure
<1>7. CASE CallTransceive
  BY <1>7 DEF CallTransceive
<1>8. CASE CallTransceiveEmpty
  BY <1>8 DEF CallTransceiveEmpty
<1>9. CASE ClearIrq
  BY <1>9 DEF ClearIrq, ReadStatus
<1>10. CASE ClearFlags
  BY <1>10 DEF ClearFlags
<1>11. CASE Transmit
  BY <1>11 DEF Transmit
<1>12. CASE TxWait
  BY <1>12 DEF TxWait
<1>13. CASE TxFlags
  BY <1>13 DEF TxFlags, TakeFlags
<1>14. CASE TxIrq
  BY <1>14 DEF TxIrq, ReadStatus
<1>15. CASE RxWait
  BY <1>15 DEF RxWait
<1>16. CASE RxTimeout
  BY <1>16 DEF RxTimeout
<1>17. CASE RxFlags
  BY <1>17 DEF RxFlags, TakeFlags
<1>18. CASE RxIrq
  BY <1>18 DEF RxIrq, ReadStatus
<1>19. CASE RxDrain
  <2> DEFINE n == IF room < Len(fifo) THEN room ELSE Len(fifo)
             part == SubSeq(fifo, 1, n)
  <2>1. rxBuf' = rxBuf \o part /\ room' = room - n
    BY <1>19 DEF RxDrain, FifoAnswers
  <2>2. n \in Nat /\ n <= Len(fifo) /\ n <= room /\ Len(fifo) \in Nat
        /\ (n < Len(fifo) => room = n)
    OBVIOUS
  <2>3. /\ part \in Seq(Bytes) /\ Len(part) = n
        /\ \A i \in 1 .. n : part[i] = fifo[i]
    BY <2>2, SubSeqProperties
  <2> HIDE DEF n, part
  <2>4. /\ Len(rxBuf \o part) = Len(rxBuf) + n
        /\ \A i \in 1 .. Len(rxBuf) + n : (rxBuf \o part)[i] =
              IF i <= Len(rxBuf) THEN rxBuf[i] ELSE part[i - Len(rxBuf)]
    <3>1. rxBuf \in Seq(Bytes)
      OBVIOUS
    <3> QED BY ONLY <2>3, <3>1, ConcatProperties
  <2>5. Received
    BY <1>19 DEF RxDrain
  <2>6. /\ Len(rxBuf') <= got
        /\ room' > 0 => Len(rxBuf') = got
    <3>1. Len(rxBuf) \in Nat /\ Len(rxBuf') = Len(rxBuf) + n
      BY <2>1, <2>4
    <3>2. /\ Len(rxBuf) + Len(fifo) <= got
          /\ room > 0 => Len(rxBuf) + Len(fifo) = got
      BY <2>5
    <3>3. room' > 0 => room > 0 /\ n = Len(fifo)
      BY <2>1, <2>2
    <3>4. room \in Nat /\ got \in Nat
      OBVIOUS
    <3> QED BY ONLY <2>2, <3>1, <3>2, <3>3, <3>4
  <2>7. ASSUME NEW i \in 1 .. Len(rxBuf') PROVE rxBuf'[i] = i
    <3>1. CASE i <= Len(rxBuf)
      BY <2>1, <2>4, <2>5, <3>1
    <3>2. CASE i > Len(rxBuf)
      <4>1. i - Len(rxBuf) \in 1 .. n /\ Len(rxBuf) \in Nat
        BY <2>1, <2>2, <2>4, <3>2
      <4>2. rxBuf'[i] = fifo[i - Len(rxBuf)]
        BY <2>1, <2>3, <2>4, <3>2, <4>1
      <4>3. fifo[i - Len(rxBuf)] = (got - Len(fifo)) + (i - Len(rxBuf))
        BY <2>2, <2>5, <4>1
      <4>4. got = Len(rxBuf) + Len(fifo)
        BY <2>2, <2>5, <4>1
      <4> QED BY <2>2, <4>1, <4>2, <4>3, <4>4
    <3> QED BY <2>1, <2>2, <2>4, <3>1, <3>2
  <2>8. fifo' = <<>> /\ UNCHANGED <<irq, air, got, status>>
    BY <1>19 DEF RxDrain
  <2>9. Received'
    BY <2>6, <2>7, <2>8
  <2>10. CASE irq = {"SRX"}
    <3>1. pc'[nfc] = "idle" /\ ret' = "OK" /\ air = "quiet"
      BY <1>19, <2>10 DEF RxDrain
    <3> QED BY <2>6, <2>7, <2>8, <3>1
  <2>11. CASE irq # {"SRX"}
    <3>1. pc'[nfc] = "rxWait" /\ ret' = ret /\ pc[nfc] = "rxDrain"
      BY <1>19, <2>11 DEF RxDrain
    <3> QED BY <2>8, <2>9, <3>1
  <2> QED BY <2>10, <2>11
<1>20. CASE Isr
  BY <1>20 DEF Isr, Broadcast
<1>21. CASE TxLow
  BY <1>21 DEF TxLow, Raise
<1>22. CASE TxDone
  BY <1>22 DEF TxDone, Raise
<1>23. CASE RxByte
  <2>1. /\ got' = got + 1 /\ fifo' = Append(fifo, got + 1)
        /\ air' = "rx" /\ air # "quiet"
        /\ UNCHANGED <<pc, rxBuf, room, ret, irq>>
    BY <1>23 DEF RxByte, Raise
  <2>2. status' \subseteq status \cup {"FIFO"}
    BY <1>23 DEF RxByte, Raise
  <2>3. /\ Len(fifo') = Len(fifo) + 1
        /\ \A i \in 1 .. Len(fifo) : fifo'[i] = fifo[i]
        /\ fifo'[Len(fifo) + 1] = got + 1
    BY <2>1
  <2>4. Len(fifo) \in Nat /\ Len(rxBuf) \in Nat
    OBVIOUS
  <2>5. ASSUME Received PROVE Received'
    <3>1. ASSUME NEW i \in 1 .. Len(fifo')
          PROVE  fifo'[i] = (got' - Len(fifo')) + i
      <4>1. CASE i = Len(fifo) + 1
        BY <2>1, <2>3, <2>4, <4>1
      <4>2. CASE i \in 1 .. Len(fifo)
        BY <2>1, <2>3, <2>4, <2>5, <4>2
      <4> QED BY <2>3, <2>4, <4>1, <4>2
    <3>2. /\ Len(rxBuf') + Len(fifo') <= got'
          /\ room' > 0 => Len(rxBuf') + Len(fifo') = got'
      <4>1. /\ Len(rxBuf) + Len(fifo) <= got
            /\ room > 0 => Len(rxBuf) + Len(fifo) = got
        BY <2>5
      <4>2. rxBuf' = rxBuf /\ room' = room /\ got \in Nat
        BY <2>1
      <4>3. got' = got + 1 /\ Len(fifo') = Len(fifo) + 1
        BY <2>1, <2>3
      <4> QED BY ONLY <2>4, <4>1, <4>2, <4>3
    <3>3. ASSUME NEW i \in 1 .. Len(rxBuf') PROVE rxBuf'[i] = i
      BY <2>1, <2>5
    <3> QED BY <3>1, <3>2, <3>3
  <2> HIDE DEF Received
  <2>6. Ended'
    BY <2>1, <2>2
  <2> QED BY <2>1, <2>5, <2>6
<1>24. CASE RxEnd
  <2>1. PICK c : Raise(c)
    BY <1>24 DEF RxEnd
  <2> QED BY <1>24, <2>1 DEF RxEnd, Raise
<1>25. ASSUME NEW t \in Threads, CallStop(t) PROVE AnswerInv'
  BY <1>25 DEF CallStop
<1>26. ASSUME NEW t \in Threads, StopBroadcast(t) PROVE AnswerInv'
  BY <1>26 DEF StopBroadcast, Broadcast
<1>27. ASSUME NEW t \in Threads, StopRfOff(t) PROVE AnswerInv'
  BY <1>27 DEF StopRfOff
<1>28. CASE UNCHANGED vars
  BY <1>28 DEF vars
<1> QED
  BY <1>1, <1>2, <1>3, <1>4, <1>5, <1>6, <1>7, <1>8, <1>9, <1>10, <1>11,
     <1>12, <1>13, <1>14, <1>15, <1>16, <1>17, <1>18, <1>19, <1>20,
     <1>21, <1>22, <1>23, <1>24, <1>25, <1>26, <1>27, <1>28
  DEF Next, Start, Transceive, Receive, Stop, Chip

(* Without shutdown, an answer that transceive returns is a prefix of what  *)
(* the card sent, and all of it unless the caller's buffer is full.         *)
THEOREM AnswerReturnedIntact ==
    ASSUME Shutdowns \subseteq {FALSE}
    PROVE  Spec => []AnswerIntact
<1>1. Init => FieldInv
  BY ThreadsAssumption DEF Init, FieldInv, Threads
<1>2. Init => BusDiscipline
  BY DEF Init, BusDiscipline, BusLabels, StartLabels, TransceiveLabels,
         TxLabels, RxLabels
<1>3. Init => AnswerInv
  BY DEF Init, AnswerInv, Ended, TxLabels, RxLabels, Threads
<1>4. TypeInv /\ BusDiscipline /\ FieldInv /\ [Next]_vars => FieldInv'
  BY FieldInvStep
<1>5. TypeInv /\ FieldInv /\ AnswerInv /\ [Next]_vars => AnswerInv'
  BY AnswerInvStep
<1>6. TypeInv /\ AnswerInv => AnswerIntact
  <2> SUFFICES ASSUME TypeInv, AnswerInv, ret = "OK" PROVE AnswerIntact
    BY DEF AnswerIntact
  <2>1. rxBuf \in Seq(Bytes)
    BY DEF TypeInv, TypeOK
  <2>2. rxBuf = [i \in 1 .. Len(rxBuf) |-> i]
    BY <2>1 DEF AnswerInv
  <2> QED BY <2>2 DEF AnswerInv, AnswerIntact
<1> QED BY <1>1, <1>2, <1>3, <1>4, <1>5, <1>6, TypeInvInit, TypeInvStep,
           BusDisciplineStep, PTL DEF Spec

-------------------------------------------------------------------------------
(* The timeout, when the chip is served promptly *)

(* The frame is on its way, or its end is the one cause latched; after that  *)
(* the answer is awaited or arriving, or its end is latched, or was just     *)
(* read.  Nobody else drives the chip meanwhile.                             *)
Endings == {{"SRX"}, {"ERR"}, {"SRX", "ERR"}}
ArrivalInv ==
    /\ pc[nfc] \in TxLabels \cup RxLabels => bus = nfc
    /\ pc[nfc] \in TxLabels =>
          air = "tx" \/ (air \in {"listen", "rx"} /\ status = {"TX"})
    /\ pc[nfc] \in RxLabels =>
          \/ air # "quiet" \/ status \in Endings
          \/ pc[nfc] = "rxDrain" /\ irq = {"SRX"}

LEMMA ArrivalInvStep ==
    ASSUME Shutdowns \subseteq {FALSE}, PromptService
    PROVE  TypeInv /\ FieldInv /\ ArrivalInv /\ [Next]_vars => ArrivalInv'
<1> SUFFICES ASSUME TypeInv, FieldInv, ArrivalInv, [Next]_vars
             PROVE  ArrivalInv'
  OBVIOUS
<1> USE ThreadsAssumption
<1>0. /\ nfc \in Threads /\ pc \in [Threads -> Labels]
      /\ pc[nfc] \in TransceiveLabels => power
      /\ status \subseteq Causes
  BY DEF Threads, TypeInv, TypeOK, LinkedOnce, FieldInv
<1> USE <1>0 DEF ArrivalInv, Endings, TransceiveLabels, TxLabels, RxLabels,
      driverVars, eventVars, callVars, fieldVars,
      Leave, Enter, Goto, At, Return, Waiting
<1>1. CASE CallStart
  BY <1>1 DEF CallStart
<1>2. CASE StartReset
  BY <1>2 DEF StartReset
<1>3. CASE StartProbe
  BY <1>3 DEF StartProbe, Initialised
<1>4. CASE StartAttach
  BY <1>4 DEF StartAttach
<1>5. CASE StartRegister
  BY <1>5 DEF StartRegister
<1>6. CASE StartConfigure
  BY <1>6 DEF StartConfigure
<1>7. CASE CallTransceive
  BY <1>7 DEF CallTransceive
<1>8. CASE CallTransceiveEmpty
  BY <1>8 DEF CallTransceiveEmpty
<1>9. CASE ClearIrq
  BY <1>9 DEF ClearIrq
<1>10. CASE ClearFlags
  BY <1>10 DEF ClearFlags
<1>11. CASE Transmit
  BY <1>11 DEF Transmit
<1>12. CASE TxWait
  BY <1>12 DEF TxWait
<1>13. CASE TxFlags
  BY <1>13 DEF TxFlags, TakeFlags
<1>14. CASE TxIrq
  BY <1>14 DEF TxIrq, ReadStatus
<1>15. CASE RxWait
  BY <1>15 DEF RxWait
<1>16. CASE RxTimeout
  BY <1>16 DEF RxTimeout
<1>17. CASE RxFlags
  BY <1>17 DEF RxFlags, TakeFlags
<1>18. CASE RxIrq
  BY <1>18 DEF RxIrq, ReadStatus
<1>19. CASE RxDrain
  BY <1>19 DEF RxDrain
<1>20. CASE Isr
  BY <1>20 DEF Isr
<1>21. CASE TxLow
  BY <1>21 DEF TxLow, Raise
<1>22. CASE TxDone
  BY <1>22 DEF TxDone, Raise
<1>23. CASE RxByte
  BY <1>23 DEF RxByte, Raise
<1>24. CASE RxEnd
  BY <1>24 DEF RxEnd, Raise
<1>25. ASSUME NEW t \in Threads, CallStop(t) PROVE ArrivalInv'
  BY <1>25 DEF CallStop
<1>26. ASSUME NEW t \in Threads, StopBroadcast(t) PROVE ArrivalInv'
  BY <1>26 DEF StopBroadcast
<1>27. ASSUME NEW t \in Threads, StopRfOff(t) PROVE ArrivalInv'
  BY <1>27 DEF StopRfOff
<1>28. CASE UNCHANGED vars
  BY <1>28 DEF vars
<1> QED
  BY <1>1, <1>2, <1>3, <1>4, <1>5, <1>6, <1>7, <1>8, <1>9, <1>10, <1>11,
     <1>12, <1>13, <1>14, <1>15, <1>16, <1>17, <1>18, <1>19, <1>20,
     <1>21, <1>22, <1>23, <1>24, <1>25, <1>26, <1>27, <1>28
  DEF Next, Start, Transceive, Receive, Stop, Chip

LEMMA TimeoutStepHolds ==
    TypeInv /\ ArrivalInv /\ [Next]_vars => TimeoutStep
  BY DEF ArrivalInv, TimeoutStep, RxLabels, Endings

LEMMA AlwaysArrival ==
    ASSUME Shutdowns \subseteq {FALSE}, PromptService
    PROVE  Spec => [](TypeInv /\ FieldInv /\ ArrivalInv)
<1>1. Init => FieldInv
  BY ThreadsAssumption DEF Init, FieldInv, Threads
<1>2. Init => BusDiscipline
  BY DEF Init, BusDiscipline, BusLabels, StartLabels, TransceiveLabels,
         TxLabels, RxLabels
<1>3. Init => ArrivalInv
  BY DEF Init, ArrivalInv, TxLabels, RxLabels, Threads
<1>4. TypeInv /\ BusDiscipline /\ FieldInv /\ [Next]_vars => FieldInv'
  BY FieldInvStep
<1>5. TypeInv /\ FieldInv /\ ArrivalInv /\ [Next]_vars => ArrivalInv'
  BY ArrivalInvStep
<1> QED BY <1>1, <1>2, <1>3, <1>4, <1>5, TypeInvInit, TypeInvStep,
           BusDisciplineStep, PTL DEF Spec

(* When the status is read before the next cause occurs, and nobody shuts   *)
(* the chip down, transceive never reports a timeout for an answer that is  *)
(* complete and whose interrupt it has served.                              *)
THEOREM TimeoutNotAnswered ==
    ASSUME Shutdowns \subseteq {FALSE}, PromptService
    PROVE  Spec => TimeoutMeansUnanswered
<1>1. Spec => [](TypeInv /\ FieldInv /\ ArrivalInv)
  BY AlwaysArrival
<1>2. TypeInv /\ ArrivalInv /\ [Next]_vars => [TimeoutStep]_vars
  BY TimeoutStepHolds
<1> QED BY <1>1, <1>2, PTL DEF Spec, TimeoutMeansUnanswered

(* Under the same assumptions the wait for the end of the transmission,     *)
(* which has no timeout, is never entered in vain: the chip still sends, or *)
(* the cause that ends the wait is latched and unread.                      *)
THEOREM TransmissionEnds ==
    ASSUME Shutdowns \subseteq {FALSE}, PromptService
    PROVE  Spec => []TransmitEnds
<1>1. Spec => [](TypeInv /\ FieldInv /\ ArrivalInv)
  BY AlwaysArrival
<1>2. TypeInv /\ FieldInv /\ ArrivalInv => TransmitEnds
  BY DEF TypeInv, LinkedOnce, FieldInv, ArrivalInv, TransmitEnds, TxHang,
         TransceiveLabels
<1> QED BY <1>1, <1>2, PTL

-------------------------------------------------------------------------------
(* The loops of transceive, with or without shutdown or prompt service *)

(* The rank, place by place. *)
PlaceRanks ==
    /\ pc[nfc] = "clearIrq" => BeforeSend = 3
    /\ pc[nfc] = "clearFlags" => BeforeSend = 2
    /\ pc[nfc] = "transmit" => BeforeSend = 1
    /\ pc[nfc] \in TxLabels \cup RxLabels => BeforeSend = 0
    /\ pc[nfc] \in {"txWait", "rxWait"} => (InLoop = 0 /\ StoppedLeft = 1)
    /\ pc[nfc] \in {"txFlags", "rxFlags"} => (InLoop = 3 /\ StoppedLeft = 0)
    /\ pc[nfc] \in {"txIrq", "rxIrq"} => (InLoop = 2 /\ StoppedLeft = 3)
    /\ pc[nfc] = "rxDrain" => (InLoop = 1 /\ StoppedLeft = 2)

LEMMA PlaceRanksHold == PlaceRanks
<1> USE DEF TxLabels, RxLabels
<1>1. /\ pc[nfc] = "clearIrq" => BeforeSend = 3
      /\ pc[nfc] = "clearFlags" => BeforeSend = 2
      /\ pc[nfc] = "transmit" => BeforeSend = 1
      /\ pc[nfc] \in TxLabels \cup RxLabels => BeforeSend = 0
  BY DEF BeforeSend
<1>2. /\ pc[nfc] \in {"txWait", "rxWait"} => InLoop = 0
      /\ pc[nfc] \in {"txFlags", "rxFlags"} => InLoop = 3
      /\ pc[nfc] \in {"txIrq", "rxIrq"} => InLoop = 2
      /\ pc[nfc] = "rxDrain" => InLoop = 1
  BY DEF InLoop
<1>3. /\ pc[nfc] \in {"txWait", "rxWait"} => StoppedLeft = 1
      /\ pc[nfc] \in {"txFlags", "rxFlags"} => StoppedLeft = 0
      /\ pc[nfc] \in {"txIrq", "rxIrq"} => StoppedLeft = 3
      /\ pc[nfc] = "rxDrain" => StoppedLeft = 2
  BY DEF StoppedLeft
<1> QED BY <1>1, <1>2, <1>3 DEF PlaceRanks

LEMMA PlaceRanksNext == PlaceRanks'
BY PlaceRanksHold, PTL

(* What the chip can still signal, by what goes on in the field. *)
CausesAre ==
    /\ air = "quiet" => CausesLeft = 0
    /\ air \in {"listen", "rx"} => CausesLeft = (MaxAnswer - got) + 1
    /\ (air = "tx" /\ txLong) => CausesLeft = MaxAnswer + 3
    /\ (air = "tx" /\ ~txLong) => CausesLeft = MaxAnswer + 2

LEMMA CausesHold == CausesAre
<1>1. air = "quiet" => CausesLeft = 0
  BY DEF CausesLeft
<1>2. air \in {"listen", "rx"} => CausesLeft = (MaxAnswer - got) + 1
  BY DEF CausesLeft
<1>3. air = "tx" => CausesLeft = MaxAnswer + 2 + Weight(txLong, 1)
  BY DEF CausesLeft
<1>4. /\ txLong => Weight(txLong, 1) = 1
      /\ ~txLong => Weight(txLong, 1) = 0
  BY DEF Weight
<1> QED BY <1>1, <1>2, <1>3, <1>4, SizesAssumption DEF CausesAre

LEMMA CausesNext == CausesAre'
BY CausesHold, PTL

(* What wakes the thread: the signals given and those the chip can give.    *)
Pin == Weight(exti, 5)
Event == Weight(pending, 4)
Signals == 6 * CausesLeft + Pin + Event

SignalsAre ==
    /\ CausesLeft \in Nat /\ Signals \in Nat
    /\ Pin \in {0, 5} /\ (exti => Pin = 5) /\ (~exti => Pin = 0)
    /\ Event \in {0, 4} /\ (pending => Event = 4) /\ (~pending => Event = 0)
    /\ Signals = 6 * CausesLeft + Pin + Event

LEMMA SignalsHold == TypeOK => SignalsAre
<1> SUFFICES ASSUME TypeOK PROVE SignalsAre
  OBVIOUS
<1>1. CausesLeft \in Nat
  <2>1. /\ got \in 0 .. MaxAnswer /\ MaxAnswer \in Nat
        /\ air \in {"quiet", "tx", "listen", "rx"}
    BY SizesAssumption DEF TypeOK
  <2> QED BY <2>1, CausesHold DEF CausesAre
<1>2. Pin \in {0, 5} /\ (exti => Pin = 5) /\ (~exti => Pin = 0)
  BY DEF Pin, Weight
<1>3. Event \in {0, 4} /\ (pending => Event = 4) /\ (~pending => Event = 0)
  BY DEF Event, Weight
<1>4. Signals = 6 * CausesLeft + Pin + Event /\ Signals \in Nat
  BY <1>1, <1>2, <1>3 DEF Signals
<1> QED BY <1>1, <1>2, <1>3, <1>4 DEF SignalsAre

LEMMA SignalsNext == TypeOK' => SignalsAre'
BY SignalsHold, PTL

(* Sums compared term by term. *)
LEMMA Sums ==
    /\ \A a, b, i \in Nat : a <= b => (a + i < b + i \/ a + i = b + i)
    /\ \A a, i, j \in Nat : i < j => a + i < a + j
  OBVIOUS

LEMMA SignalSums ==
    /\ \A c, d, p, e \in Nat : c <= d => 6 * c + p + e <= 6 * d + p + e
    /\ \A c, e, f \in Nat : f <= 4 => 6 * c + 0 + f <= 6 * c + 5 + e
    /\ \A c, d, p, q, e \in Nat : (d + 1 <= c /\ q <= p + 5) =>
                                  6 * d + q + e <= 6 * c + p + e
<1>1. \A c, d, p, e \in Nat : c <= d => 6 * c + p + e <= 6 * d + p + e
  OBVIOUS
<1>2. \A c, e, f \in Nat : f <= 4 => 6 * c + 0 + f <= 6 * c + 5 + e
  OBVIOUS
<1>3. \A c, d, p, q, e \in Nat : (d + 1 <= c /\ q <= p + 5) =>
                                  6 * d + q + e <= 6 * c + p + e
  OBVIOUS
<1> QED BY <1>1, <1>2, <1>3

(* A step of somebody else that leaves the flags, and gives no more signals *)
(* than it uses up.                                                         *)
LEMMA OthersStep ==
    ASSUME TypeInv, TypeInv', pc'[nfc] = pc[nfc],
           ("STOP" \in flags) <=> ("STOP" \in flags'), Signals' <= Signals
    PROVE  TransceiveStep
<1> SUFFICES ASSUME pc[nfc] \in TransceiveLabels PROVE TransceiveStep
  BY DEF TransceiveStep
<1>1. /\ BeforeSend' = BeforeSend /\ InLoop' = InLoop
      /\ StoppedLeft' = StoppedLeft
  BY DEF BeforeSend, InLoop, StoppedLeft
<1>2. Unstopped' = Unstopped
  BY DEF Unstopped, Weight
<1>3. CASE pc[nfc] \notin TxLabels \cup RxLabels
  BY <1>1, <1>3, PlaceRanksHold DEF TransceiveStep, PlaceRanks, TransceiveLabels
<1>4. CASE pc[nfc] \in TxLabels \cup RxLabels
  <2>1. InLoop \in Nat
    BY <1>4, PlaceRanksHold DEF PlaceRanks, TxLabels, RxLabels
  <2>2. Signals \in Nat /\ Signals' \in Nat
    BY SignalsHold, SignalsNext DEF SignalsAre, TypeInv
  <2>3. WakeupsLeft = Signals + InLoop /\ WakeupsLeft' = Signals' + InLoop'
    BY DEF WakeupsLeft, Signals, Pin, Event
  <2>4. LoopLeft' < LoopLeft \/ LoopLeft' = LoopLeft
    <3>1. CASE "STOP" \in flags
      BY <1>1, <3>1 DEF LoopLeft
    <3>2. CASE "STOP" \notin flags
      <4>1. LoopLeft = Signals + InLoop /\ LoopLeft' = Signals' + InLoop
        BY <1>1, <2>3, <3>2 DEF LoopLeft
      <4> QED BY <2>1, <2>2, <4>1, Sums
    <3> QED BY <3>1, <3>2
  <2> QED BY <1>1, <1>2, <2>4 DEF TransceiveStep
<1> QED BY <1>3, <1>4

(* A step of the thread in one of its two loops, which goes on to a place   *)
(* nearer to the end of the loop or uses up a signal.                       *)
LEMMA LoopStep ==
    ASSUME TypeInv, TypeInv',
           pc[nfc] \in TxLabels \cup RxLabels,
           pc'[nfc] \in TxLabels \cup RxLabels,
           ("STOP" \in flags) <=> ("STOP" \in flags'),
           StoppedLeft' < StoppedLeft,
           Signals' + InLoop' < Signals + InLoop
    PROVE  TransceiveStep
<1>1. BeforeSend = 0 /\ BeforeSend' = 0
  BY PlaceRanksHold, PlaceRanksNext DEF PlaceRanks
<1>2. Unstopped' = Unstopped
  BY DEF Unstopped, Weight
<1>3. WakeupsLeft = Signals + InLoop /\ WakeupsLeft' = Signals' + InLoop'
  BY DEF WakeupsLeft, Signals, Pin, Event
<1>4. LoopLeft' < LoopLeft
  <2>1. CASE "STOP" \in flags
    BY <2>1 DEF LoopLeft
  <2>2. CASE "STOP" \notin flags
    BY <1>3, <2>2 DEF LoopLeft
  <2> QED BY <2>1, <2>2
<1> QED BY <1>1, <1>2, <1>4 DEF TransceiveStep

LEMMA TransceiveStepHolds ==
    TypeInv /\ TypeInv' /\ [Next]_vars => TransceiveStep
<1> SUFFICES ASSUME TypeInv, TypeInv', [Next]_vars,
                    pc[nfc] \in TransceiveLabels, pc'[nfc] \in TransceiveLabels
             PROVE  TransceiveStep
  BY DEF TransceiveStep
<1>0. /\ nfc \in Threads /\ pc \in [Threads -> Labels] /\ linked > 0
      /\ MaxAnswer \in Nat /\ got \in 0 .. MaxAnswer
      /\ air \in {"quiet", "tx", "listen", "rx"}
  BY SizesAssumption
     DEF Threads, TypeInv, TypeOK, LinkedOnce
<1>S. SignalsAre /\ SignalsAre'
  BY SignalsHold, SignalsNext DEF TypeInv
<1>N. Signals \in Nat /\ Signals' \in Nat /\ CausesLeft \in Nat
  BY <1>S DEF SignalsAre
<1>C. UNCHANGED <<air, got, txLong>> => CausesLeft' = CausesLeft
  BY DEF CausesLeft
<1>K. UNCHANGED exti => Pin' = Pin
  BY DEF Pin
<1>L. UNCHANGED pending => Event' = Event
  BY DEF Event
<1>D. UNCHANGED <<air, got, txLong, exti, pending>> => Signals' = Signals
  BY <1>C, <1>K, <1>L DEF Signals
<1>F. (CausesLeft' <= CausesLeft /\ UNCHANGED <<exti, pending>>)
         => Signals' <= Signals
  <2> SUFFICES ASSUME CausesLeft' <= CausesLeft, Pin' = Pin, Event' = Event
               PROVE  Signals' <= Signals
    BY <1>K, <1>L
  <2>1. Pin \in Nat /\ Event \in Nat /\ CausesLeft' \in Nat
    BY <1>S DEF SignalsAre
  <2>2. /\ Signals = 6 * CausesLeft + Pin + Event
        /\ Signals' = 6 * CausesLeft' + Pin + Event
    BY <1>S DEF SignalsAre
  <2> QED BY <1>N, <2>1, <2>2, SignalSums
<1>E. UNCHANGED <<pc, flags, air, got, txLong, exti, pending>> => TransceiveStep
  <2> SUFFICES ASSUME UNCHANGED <<pc, flags, air, got, txLong, exti, pending>>
               PROVE  TransceiveStep
    OBVIOUS
  <2>1. Signals' <= Signals
    BY <1>D, <1>N
  <2> QED BY <2>1, OthersStep
<1> USE <1>0 DEF TransceiveLabels, TxLabels, RxLabels, driverVars, eventVars,
      callVars, fieldVars, Leave, Enter, Goto, At, Return, Waiting
<1>1. CASE Start
  BY <1>1 DEF Start, StartLabels, CallStart, StartReset, StartProbe,
              StartAttach, StartRegister, StartConfigure
<1>2. CASE CallTransceive \/ CallTransceiveEmpty
  BY <1>2 DEF CallTransceive, CallTransceiveEmpty
<1>3. CASE ClearIrq \/ ClearFlags \/ Transmit
  <2>1. \/ pc[nfc] = "clearIrq" /\ pc'[nfc] = "clearFlags"
        \/ pc[nfc] = "clearFlags" /\ pc'[nfc] = "transmit"
        \/ pc[nfc] = "transmit" /\ pc'[nfc] = "txWait"
    BY <1>3 DEF ClearIrq, ClearFlags, Transmit
  <2>2. BeforeSend' < BeforeSend
    BY <2>1, PlaceRanksHold, PlaceRanksNext DEF PlaceRanks
  <2> QED BY <2>2 DEF TransceiveStep
<1>4. CASE TxWait \/ RxWait
  <2>1. /\ pc[nfc] \in {"txWait", "rxWait"} /\ pc'[nfc] \in {"txFlags", "rxFlags"}
        /\ pending /\ pending' = FALSE
        /\ UNCHANGED <<flags, air, got, txLong, exti>>
    BY <1>4 DEF TxWait, RxWait
  <2>2. /\ InLoop = 0 /\ InLoop' = 3 /\ StoppedLeft = 1 /\ StoppedLeft' = 0
    BY <2>1, PlaceRanksHold, PlaceRanksNext DEF PlaceRanks
  <2>3. Signals' + InLoop' < Signals + InLoop
    <3>1. CausesLeft' = CausesLeft /\ Pin' = Pin /\ Event = 4 /\ Event' = 0
      BY <1>C, <1>K, <1>S, <2>1 DEF SignalsAre
    <3> QED BY <1>S, <2>2, <3>1 DEF SignalsAre
  <2> QED BY <2>1, <2>2, <2>3, LoopStep
<1>5. CASE TxFlags \/ RxFlags
  <2>1. /\ pc[nfc] \in {"txFlags", "rxFlags"}
        /\ UNCHANGED <<air, got, txLong, exti, pending>>
        /\ flags' = {} /\ "STOP" \notin flags /\ pc'[nfc] \in {"txIrq", "rxIrq"}
    BY <1>5 DEF TxFlags, RxFlags, TakeFlags
  <2>2. BeforeSend = 0 /\ BeforeSend' = 0 /\ InLoop = 3 /\ InLoop' = 2
    BY <2>1, PlaceRanksHold, PlaceRanksNext DEF PlaceRanks
  <2>3. Unstopped' = Unstopped
    BY <2>1 DEF Unstopped, Weight
  <2>4. LoopLeft = Signals + InLoop /\ LoopLeft' = Signals' + InLoop'
    BY <2>1 DEF LoopLeft, WakeupsLeft, Signals, Pin, Event
  <2>5. LoopLeft' < LoopLeft
    BY <1>D, <1>N, <2>1, <2>2, <2>4
  <2> QED BY <2>2, <2>3, <2>5 DEF TransceiveStep
<1>6. CASE TxIrq \/ RxIrq \/ RxDrain
  <2>1. /\ UNCHANGED <<flags, air, got, txLong, exti, pending>>
        /\ \/ /\ pc[nfc] \in {"txIrq", "rxIrq"}
              /\ pc'[nfc] \in {"txWait", "rxWait", "rxDrain"}
           \/ pc[nfc] = "rxDrain" /\ pc'[nfc] = "rxWait"
    BY <1>6 DEF TxIrq, RxIrq, RxDrain
  <2>2. InLoop' < InLoop /\ InLoop \in Nat /\ InLoop' \in Nat
        /\ StoppedLeft' < StoppedLeft
    BY <2>1, PlaceRanksHold, PlaceRanksNext DEF PlaceRanks
  <2>3. Signals' + InLoop' < Signals + InLoop
    BY <1>D, <1>N, <2>1, <2>2, Sums
  <2> QED BY <2>1, <2>2, <2>3, LoopStep
<1>7. CASE RxTimeout
  BY <1>7 DEF RxTimeout
<1>8. CASE Isr
  <2>1. /\ UNCHANGED <<pc, air, got, txLong>> /\ exti /\ exti' = FALSE
        /\ ("STOP" \in flags) <=> ("STOP" \in flags')
    BY <1>8 DEF Isr, Broadcast
  <2>2. Signals' <= Signals
    <3>1. CausesLeft' = CausesLeft /\ Pin = 5 /\ Pin' = 0
      BY <1>C, <1>S, <2>1 DEF SignalsAre
    <3>2. Event \in Nat /\ Event' \in Nat /\ Event' <= 4
      BY <1>S DEF SignalsAre
    <3>3. Signals = 6 * CausesLeft + 5 + Event
          /\ Signals' = 6 * CausesLeft + 0 + Event'
      BY <1>S, <3>1 DEF SignalsAre
    <3> QED BY <1>N, <3>2, <3>3, SignalSums
  <2> QED BY <2>1, <2>2, OthersStep
<1>9. CASE Chip
  <2>1. UNCHANGED <<pc, flags, pending>>
    BY <1>9 DEF Chip, TxLow, TxDone, RxByte, RxEnd, Raise
  <2>2. CausesLeft' + 1 <= CausesLeft
    <3>1. CASE TxLow
      <4>1. air = "tx" /\ air' = "tx" /\ txLong /\ ~txLong'
        BY <3>1 DEF TxLow
      <4> QED BY <4>1, CausesHold, CausesNext DEF CausesAre
    <3>2. CASE TxDone
      <4>1. air = "tx" /\ air' = "listen" /\ ~txLong /\ got' = got
        BY <3>2 DEF TxDone
      <4> QED BY <4>1, CausesHold, CausesNext DEF CausesAre
    <3>3. CASE RxByte
      <4>1. /\ air \in {"listen", "rx"} /\ air' = "rx" /\ got' = got + 1
            /\ got < MaxAnswer
        BY <3>3 DEF RxByte
      <4> QED BY <4>1, CausesHold, CausesNext DEF CausesAre
    <3>4. CASE RxEnd
      <4>1. air \in {"listen", "rx"} /\ air' = "quiet"
        BY <3>4 DEF RxEnd
      <4> QED BY <4>1, CausesHold, CausesNext DEF CausesAre
    <3> QED BY <1>9, <3>1, <3>2, <3>3, <3>4 DEF Chip
  <2>3. Signals' <= Signals
    <3>1. Event' = Event /\ Pin' <= Pin + 5
      BY <1>L, <1>S, <2>1 DEF SignalsAre
    <3>2. /\ Pin \in Nat /\ Pin' \in Nat /\ Event \in Nat
          /\ CausesLeft' \in Nat
      BY <1>S DEF SignalsAre
    <3>3. /\ Signals = 6 * CausesLeft + Pin + Event
          /\ Signals' = 6 * CausesLeft' + Pin' + Event
      BY <1>S, <3>1 DEF SignalsAre
    <3> QED BY <1>N, <2>2, <3>1, <3>2, <3>3, SignalSums
  <2> QED BY <2>1, <2>3, OthersStep
<1>10. ASSUME NEW t \in Threads, Stop(t) PROVE TransceiveStep
  <2>1. pc'[nfc] = pc[nfc]
    BY <1>10 DEF Stop, CallStop, StopBroadcast, StopRfOff
  <2>2. CASE CallStop(t)
    <3>1. UNCHANGED <<flags, exti, pending>>
          /\ (air' = "quiet" \/ UNCHANGED <<air, got, txLong>>)
      BY <2>2 DEF CallStop
    <3>2. CausesLeft' <= CausesLeft
      <4>1. CASE air' = "quiet"
        BY <1>N, <4>1, CausesNext DEF CausesAre
      <4>2. CASE UNCHANGED <<air, got, txLong>>
        BY <1>C, <1>N, <4>2
      <4> QED BY <3>1, <4>1, <4>2
    <3> QED BY <1>F, <2>1, <3>1, <3>2, OthersStep
  <2>3. CASE StopRfOff(t)
    <3>1. UNCHANGED <<flags, exti, pending>>
          /\ (air' = "quiet" \/ UNCHANGED <<air, got, txLong>>)
      BY <2>3 DEF StopRfOff
    <3>2. CausesLeft' <= CausesLeft
      <4>1. CASE air' = "quiet"
        BY <1>N, <4>1, CausesNext DEF CausesAre
      <4>2. CASE UNCHANGED <<air, got, txLong>>
        BY <1>C, <1>N, <4>2
      <4> QED BY <3>1, <4>1, <4>2
    <3> QED BY <1>F, <2>1, <3>1, <3>2, OthersStep
  <2>4. CASE StopBroadcast(t)
    <3>1. /\ "STOP" \in flags' /\ flags' = flags \cup {"STOP"}
          /\ BeforeSend' = BeforeSend
      BY <2>1, <2>4 DEF StopBroadcast, Broadcast, BeforeSend
    <3>2. CASE pc[nfc] \notin TxLabels \cup RxLabels
      BY <2>1, <3>1, <3>2, PlaceRanksHold DEF TransceiveStep, PlaceRanks
    <3>3. CASE "STOP" \notin flags
      BY <3>1, <3>3 DEF TransceiveStep, Unstopped, Weight
    <3>4. CASE "STOP" \in flags
      BY <2>1, <3>1, <3>4
         DEF TransceiveStep, Unstopped, Weight, LoopLeft, StoppedLeft
    <3> QED BY <3>3, <3>4
  <2> QED BY <1>10, <2>2, <2>3, <2>4 DEF Stop
<1>11. CASE UNCHANGED vars
  BY <1>11, <1>E DEF vars
<1> QED BY <1>1, <1>2, <1>3, <1>4, <1>5, <1>6, <1>7, <1>8, <1>9, <1>10, <1>11
        DEF Next, Transceive, Receive

(* No exchange goes on for ever: a transceive is over after a bounded      *)
(* number of its own steps and of causes the chip latches, however those    *)
(* interleave with the handler and with any number of threads that stop it, *)
(* served promptly or not, shut down or not.                                *)
THEOREM TransceivesAreBounded == Spec => TransceiveBounded
<1>1. TypeInv /\ TypeInv' /\ [Next]_vars => [TransceiveStep]_vars
  BY TransceiveStepHolds
<1> QED BY <1>1, TypeInvInit, TypeInvStep, PTL DEF Spec, TransceiveBounded

-------------------------------------------------------------------------------
(* The refinement of NfcDevice, for any number of threads that call stop,   *)
(* any buffer and any answer, without shutdown. *)

(* Past the places where it may wait for the bus a call owns it; the field  *)
(* is off until the end of start; and a session being closed is not open.   *)
SessionInv ==
    /\ pc[nfc] \in BusLabels \ {"reset", "clearIrq", "rfOff"} => bus = nfc
    /\ pc[nfc] \in {"register", "configure"} => rf = FALSE
    /\ pc[nfc] \in {"broadcast", "rfOff"} => ~opened

LEMMA SessionInvStep ==
    TypeInv /\ FieldInv /\ SessionInv /\ [Next]_vars => SessionInv'
<1> SUFFICES ASSUME TypeInv, FieldInv, SessionInv, [Next]_vars
             PROVE  SessionInv'
  OBVIOUS
<1> USE ThreadsAssumption
<1>0. /\ nfc \in Threads /\ pc \in [Threads -> Labels]
      /\ pc[nfc] \in StartLabels => ~opened
      /\ pc[nfc] = "attach" => rf = FALSE
  <2>1. nfc \in Threads /\ pc \in [Threads -> Labels]
    BY DEF Threads, TypeInv, TypeOK
  <2>2. pc[nfc] \in StartLabels => ~opened
    BY DEF TypeInv, LinkedOnce
  <2>3. pc[nfc] = "attach" => rf = FALSE
    <3>1. pc[nfc] = "attach" => ~rf
      BY <2>2 DEF FieldInv, StartLabels
    <3> QED BY <3>1 DEF TypeInv, TypeOK
  <2> QED BY <2>1, <2>2, <2>3
<1> USE <1>0 DEF SessionInv, BusLabels, StartLabels, TransceiveLabels,
      TxLabels, RxLabels, driverVars, eventVars, callVars, fieldVars,
      Leave, Enter, Goto, At, Return, Waiting
<1>1. CASE CallStart
  BY <1>1 DEF CallStart
<1>2. CASE StartReset
  BY <1>2 DEF StartReset
<1>3. CASE StartProbe
  BY <1>3 DEF StartProbe, Initialised
<1>4. CASE StartAttach
  BY <1>4 DEF StartAttach
<1>5. CASE StartRegister
  BY <1>5 DEF StartRegister
<1>6. CASE StartConfigure
  BY <1>6 DEF StartConfigure
<1>7. CASE CallTransceive
  BY <1>7 DEF CallTransceive
<1>8. CASE CallTransceiveEmpty
  BY <1>8 DEF CallTransceiveEmpty
<1>9. CASE ClearIrq
  BY <1>9 DEF ClearIrq
<1>10. CASE ClearFlags
  BY <1>10 DEF ClearFlags
<1>11. CASE Transmit
  BY <1>11 DEF Transmit
<1>12. CASE TxWait
  BY <1>12 DEF TxWait
<1>13. CASE TxFlags
  BY <1>13 DEF TxFlags, TakeFlags
<1>14. CASE TxIrq
  BY <1>14 DEF TxIrq
<1>15. CASE RxWait
  BY <1>15 DEF RxWait
<1>16. CASE RxTimeout
  BY <1>16 DEF RxTimeout
<1>17. CASE RxFlags
  BY <1>17 DEF RxFlags, TakeFlags
<1>18. CASE RxIrq
  BY <1>18 DEF RxIrq
<1>19. CASE RxDrain
  BY <1>19 DEF RxDrain
<1>20. CASE Isr
  BY <1>20 DEF Isr
<1>21. CASE TxLow
  BY <1>21 DEF TxLow, Raise
<1>22. CASE TxDone
  BY <1>22 DEF TxDone, Raise
<1>23. CASE RxByte
  BY <1>23 DEF RxByte, Raise
<1>24. CASE RxEnd
  <2>1. UNCHANGED <<pc, bus, rf, opened>>
    BY <1>24 DEF RxEnd, Raise
  <2> QED BY <2>1
<1>25. ASSUME NEW t \in Threads, CallStop(t) PROVE SessionInv'
  BY <1>25 DEF CallStop
<1>26. ASSUME NEW t \in Threads, StopBroadcast(t) PROVE SessionInv'
  BY <1>26 DEF StopBroadcast
<1>27. ASSUME NEW t \in Threads, StopRfOff(t) PROVE SessionInv'
  BY <1>27 DEF StopRfOff
<1>28. CASE UNCHANGED vars
  BY <1>28 DEF vars
<1> QED
  BY <1>1, <1>2, <1>3, <1>4, <1>5, <1>6, <1>7, <1>8, <1>9, <1>10, <1>11,
     <1>12, <1>13, <1>14, <1>15, <1>16, <1>17, <1>18, <1>19, <1>20,
     <1>21, <1>22, <1>23, <1>24, <1>25, <1>26, <1>27, <1>28
  DEF Next, Start, Transceive, Receive, Stop, Chip

(* All that is known of a driver that is never shut down. *)
Known == /\ TypeInv /\ BusDiscipline /\ FieldInv /\ AnswerInv /\ CancelInv
         /\ SessionInv

LEMMA AlwaysKnown ==
    ASSUME Shutdowns \subseteq {FALSE}
    PROVE  Spec => []Known
<1>1. Init => FieldInv
  BY ThreadsAssumption DEF Init, FieldInv, Threads
<1>2. Init => BusDiscipline
  BY DEF Init, BusDiscipline, BusLabels, StartLabels, TransceiveLabels,
         TxLabels, RxLabels
<1>3. Init => AnswerInv
  BY DEF Init, AnswerInv, Ended, TxLabels, RxLabels, Threads
<1>4. Init => CancelInv
  BY DEF Init, CancelInv, NoStaleCancel, TxLabels, RxLabels
<1>5. Init => SessionInv
  BY DEF Init, SessionInv, BusLabels, StartLabels, TransceiveLabels, TxLabels,
         RxLabels, Threads
<1>6. TypeInv /\ BusDiscipline /\ FieldInv /\ [Next]_vars => FieldInv'
  BY FieldInvStep
<1>7. TypeInv /\ FieldInv /\ AnswerInv /\ [Next]_vars => AnswerInv'
  BY AnswerInvStep
<1>8. Init => Known
  BY <1>1, <1>2, <1>3, <1>4, <1>5, TypeInvInit DEF Known
<1>9. Known /\ [Next]_vars => Known'
  BY <1>6, <1>7, TypeInvStep, BusDisciplineStep, CancelInvStep, SessionInvStep
     DEF Known
<1> QED BY <1>8, <1>9, PTL DEF Spec

-------------------------------------------------------------------------------
(* The refinement *)

LEMMA InitMapped == Init => Device!Init
<1> SUFFICES ASSUME Init PROVE Device!Init
  OBVIOUS
<1>1. pc[nfc] = "idle" /\ ~opened /\ ret = "none"
  BY DEF Init, Threads
<1>2. Phase = "closed"
  BY <1>1 DEF Phase, StartLabels, TransceiveLabels, TxLabels, RxLabels
<1> QED BY <1>1, <1>2 DEF Init, Device!Init, TxLabels, RxLabels

(* The abstract state at each place of the thread. *)
LEMMA PhaseAt ==
    /\ pc[nfc] \in StartLabels => Phase = "opening"
    /\ pc[nfc] \in TransceiveLabels => Phase = "exchange"
    /\ pc[nfc] \in {"broadcast", "rfOff"} => Phase = "closing"
    /\ (pc[nfc] = "idle" /\ opened) => Phase = "open"
    /\ (pc[nfc] = "idle" /\ ~opened) => Phase = "closed"
  BY DEF Phase, StartLabels, TransceiveLabels, TxLabels, RxLabels

LEMMA PhaseNext ==
    /\ pc'[nfc] \in StartLabels => Phase' = "opening"
    /\ pc'[nfc] \in TransceiveLabels => Phase' = "exchange"
    /\ pc'[nfc] \in {"broadcast", "rfOff"} => Phase' = "closing"
    /\ (pc'[nfc] = "idle" /\ opened') => Phase' = "open"
    /\ (pc'[nfc] = "idle" /\ ~opened') => Phase' = "closed"
  BY DEF Phase, StartLabels, TransceiveLabels, TxLabels, RxLabels

LEMMA SamePhase ==
    pc'[nfc] = pc[nfc] /\ opened' = opened => Phase' = Phase
  BY DEF Phase

(* A step that moves the thread inside a phase, before or after the frame   *)
(* is sent, and ends no call is not seen.                                   *)
LEMMA Unseen ==
    ASSUME Phase' = Phase,
           (pc'[nfc] \in TxLabels \cup RxLabels)
               = (pc[nfc] \in TxLabels \cup RxLabels),
           UNCHANGED <<rf, got, stopSince, ret>>,
           ret # "OK" \/ rxBuf' = rxBuf
    PROVE  [Device!Next]_(Device!vars)
  BY DEF Device!vars

(* The end of an exchange without an answer. *)
LEMMA FailureMapped ==
    ASSUME Phase = "exchange", Phase' = "open",
           pc[nfc] \in TxLabels \cup RxLabels,
           pc'[nfc] \notin TxLabels \cup RxLabels,
           UNCHANGED <<rf, got, stopSince>>, ret # "OK",
           \/ ret' \in {"ETIMEDOUT", "ERR"}
           \/ ret' = "ECANCELED" /\ stopSince
    PROVE  Device!Next
<1>1. Device!Failed
  BY DEF Device!Failed
<1> QED BY <1>1 DEF Device!Next, Device!Return

LEMMA StepMapped ==
    ASSUME Shutdowns \subseteq {FALSE}, Known, Known', [Next]_vars
    PROVE  [Device!Next]_(Device!vars)
<1>0. /\ nfc \in Threads /\ pc \in [Threads -> Labels]
      /\ pc[nfc] \in TransceiveLabels => opened
      /\ pc[nfc] \in StartLabels => ~opened
      /\ rf \in BOOLEAN /\ power \in BOOLEAN
      /\ got \in Nat /\ rxBuf \in Seq(Bytes)
      /\ ret = "OK" => pc[nfc] \in {"idle", "broadcast", "rfOff"}
  <2>1. /\ nfc \in Threads /\ pc \in [Threads -> Labels]
        /\ got \in Nat /\ rxBuf \in Seq(Bytes)
    BY SizesAssumption DEF Known, TypeInv, TypeOK, Threads
  <2>2. rf \in BOOLEAN /\ power \in BOOLEAN
    BY Zenon DEF Known, TypeInv, TypeOK
  <2>3. /\ pc[nfc] \in TransceiveLabels => opened
        /\ pc[nfc] \in StartLabels => ~opened
        /\ ret = "OK" => pc[nfc] \in {"idle", "broadcast", "rfOff"}
    BY DEF Known, TypeInv, LinkedOnce, AnswerInv
  <2> QED BY <2>1, <2>2, <2>3
<1>P. /\ pc[nfc] \in TransceiveLabels => power
      /\ pc[nfc] \in {"register", "configure"} => power
  BY <1>0 DEF Known, FieldInv
<1> USE <1>0 DEF At, Goto, Enter, Leave, Return, Waiting,
      StartLabels, TransceiveLabels, TxLabels, RxLabels, BusLabels,
      driverVars, eventVars, callVars, fieldVars
<1>1. CASE CallStart
  <2>1. /\ pc[nfc] = "idle" /\ ~opened /\ pc'[nfc] = "reset" /\ ret' = "none"
        /\ UNCHANGED <<rf, got, stopSince>>
    BY <1>1 DEF CallStart
  <2>2. Device!Open
    BY <2>1, PhaseAt, PhaseNext DEF Device!Open
  <2> QED BY <2>2 DEF Device!Next
<1>2. CASE StartReset
  <2>1. pc[nfc] = "reset" /\ pc'[nfc] = "probe" /\ UNCHANGED <<got, stopSince, ret>>
    BY <1>2 DEF StartReset
  <2>2. rf' = rf
    <3>1. ~rf
      BY <2>1 DEF Known, FieldInv
    <3>2. rf' = rf \/ rf' = FALSE
      BY <1>2 DEF StartReset
    <3> QED BY <3>1, <3>2
  <2> QED BY <2>1, <2>2, PhaseAt, PhaseNext, Unseen
<1>3. CASE StartProbe
  <2>1. pc[nfc] = "probe" /\ UNCHANGED <<got, stopSince, opened>>
    BY <1>3 DEF StartProbe, Initialised
  <2>2. rf' = rf
    <3>1. ~rf
      BY <2>1 DEF Known, FieldInv
    <3>2. rf' = rf \/ rf' = FALSE
      BY <1>3 DEF StartProbe, Initialised
    <3> QED BY <3>1, <3>2
  <2>3. CASE pc'[nfc] = "attach" /\ ret' = ret
    BY <2>1, <2>2, <2>3, PhaseAt, PhaseNext, Unseen
  <2>4. CASE pc'[nfc] = "idle" /\ ret' = "ENODEV"
    <3>1. Device!NotFound
      BY <2>1, <2>2, <2>4, PhaseAt, PhaseNext DEF Device!NotFound
    <3> QED BY <3>1 DEF Device!Next
  <2> QED BY <1>3, <2>3, <2>4 DEF StartProbe
<1>4. CASE StartAttach \/ StartRegister
  <2>1. /\ pc[nfc] \in StartLabels /\ pc'[nfc] \in StartLabels
        /\ UNCHANGED <<rf, got, stopSince, ret>>
    BY <1>4 DEF StartAttach, StartRegister
  <2> QED BY <2>1, PhaseAt, PhaseNext, Unseen
<1>5. CASE StartConfigure
  <2>1. /\ pc[nfc] = "configure" /\ pc'[nfc] = "idle" /\ opened' = TRUE
        /\ rf' = power /\ UNCHANGED <<got, stopSince, ret, rxBuf>>
    BY <1>5 DEF StartConfigure
  <2>2. power = TRUE
    BY <2>1, <1>P
  <2>3. Device!Found
    BY <2>1, <2>2, PhaseAt, PhaseNext DEF Device!Found
  <2> QED BY <2>3 DEF Device!Next
<1>6. CASE CallTransceive
  <2>1. /\ pc[nfc] = "idle" /\ opened /\ pc'[nfc] = "clearIrq" /\ ret' = "none"
        /\ stopSince' = FALSE /\ UNCHANGED <<rf, got>>
    BY <1>6 DEF CallTransceive
  <2>2. Device!Exchange
    BY <2>1, PhaseAt, PhaseNext DEF Device!Exchange
  <2> QED BY <2>2 DEF Device!Next
<1>7. CASE CallTransceiveEmpty
  <2>1. /\ pc[nfc] = "idle" /\ opened /\ ret' = "EINVAL"
        /\ UNCHANGED <<pc, opened, rf, got, stopSince>>
    BY <1>7 DEF CallTransceiveEmpty
  <2>2. Device!Refuse
    BY <2>1, PhaseAt, SamePhase DEF Device!Refuse
  <2> QED BY <2>2 DEF Device!Next
<1>8. CASE ClearIrq \/ ClearFlags
  <2>1. /\ pc[nfc] \in {"clearIrq", "clearFlags"}
        /\ pc'[nfc] \in {"clearFlags", "transmit"}
        /\ UNCHANGED <<rf, got, stopSince, ret>>
    BY <1>8 DEF ClearIrq, ClearFlags
  <2> QED BY <2>1, PhaseAt, PhaseNext, Unseen
<1>9. CASE Transmit
  <2>1. /\ pc[nfc] = "transmit" /\ pc'[nfc] = "txWait"
        /\ UNCHANGED <<rf, stopSince, ret>>
    BY <1>9 DEF Transmit
  <2>2. got' = 0
    BY <1>9, <2>1, <1>P DEF Transmit
  <2>3. Device!Send
    BY <2>1, <2>2, PhaseAt, PhaseNext DEF Device!Send
  <2> QED BY <2>3 DEF Device!Next
<1>10. CASE TxWait \/ TxIrq \/ RxWait
  <2>1. /\ pc[nfc] \in TxLabels \cup RxLabels /\ pc'[nfc] \in TxLabels \cup RxLabels
        /\ UNCHANGED <<rf, got, stopSince, ret>>
    BY <1>10 DEF TxWait, TxIrq, RxWait
  <2> QED BY <2>1, PhaseAt, PhaseNext, Unseen
<1>11. CASE TxFlags \/ RxFlags
  <2>1. /\ pc[nfc] \in {"txFlags", "rxFlags"} /\ ret # "OK" /\ opened /\ opened'
        /\ UNCHANGED <<rf, got, stopSince>>
    BY <1>11 DEF TxFlags, RxFlags, TakeFlags
  <2>2. CASE "STOP" \in flags
    <3>1. pc'[nfc] = "idle" /\ ret' = "ECANCELED"
      BY <1>11, <2>2 DEF TxFlags, RxFlags, TakeFlags
    <3>2. stopSince
      BY <2>1, <2>2 DEF Known, CancelInv
    <3> QED BY <2>1, <3>1, <3>2, PhaseAt, PhaseNext, FailureMapped
  <2>3. CASE "STOP" \notin flags
    <3>1. pc'[nfc] \in {"txIrq", "rxIrq"} /\ ret' = ret
      BY <1>11, <2>3 DEF TxFlags, RxFlags, TakeFlags
    <3> QED BY <2>1, <3>1, PhaseAt, PhaseNext, Unseen
  <2> QED BY <2>2, <2>3
<1>12. CASE RxTimeout
  <2>1. /\ pc[nfc] = "rxWait" /\ pc'[nfc] = "idle" /\ ret # "OK"
        /\ opened /\ opened' /\ ret' = "ETIMEDOUT"
        /\ UNCHANGED <<rf, got, stopSince>>
    BY <1>12 DEF RxTimeout
  <2> QED BY <2>1, PhaseAt, PhaseNext, FailureMapped
<1>13. CASE RxIrq
  <2>1. /\ pc[nfc] = "rxIrq" /\ ret # "OK" /\ opened /\ opened'
        /\ UNCHANGED <<rf, got, stopSince>>
    BY <1>13 DEF RxIrq
  <2>2. CASE pc'[nfc] = "idle" /\ ret' = "ERR"
    BY <2>1, <2>2, PhaseAt, PhaseNext, FailureMapped
  <2>3. CASE pc'[nfc] \in {"rxDrain", "rxWait"} /\ ret' = ret
    BY <2>1, <2>3, PhaseAt, PhaseNext, Unseen
  <2> QED BY <1>13, <2>2, <2>3 DEF RxIrq
<1>14. CASE RxDrain
  <2>1. /\ pc[nfc] = "rxDrain" /\ ret # "OK" /\ opened /\ opened'
        /\ UNCHANGED <<rf, got, stopSince>>
    BY <1>14 DEF RxDrain
  <2>2. CASE pc'[nfc] = "idle" /\ ret' = "OK"
    <3>1. /\ rxBuf' \in Seq(Bytes) /\ Len(rxBuf') <= got
          /\ \A i \in 1 .. Len(rxBuf') : rxBuf'[i] = i
      BY <2>1, <2>2 DEF Known, TypeInv, TypeOK, AnswerInv
    <3>2. Len(rxBuf') \in 0 .. got /\ rxBuf' = [i \in 1 .. Len(rxBuf') |-> i]
      BY <3>1
    <3>3. Device!Answered
      BY <2>2, <3>2 DEF Device!Answered
    <3>4. Device!Return
      BY <2>1, <2>2, <3>3, PhaseAt, PhaseNext DEF Device!Return
    <3> QED BY <3>4 DEF Device!Next
  <2>3. CASE pc'[nfc] = "rxWait" /\ ret' = ret
    BY <2>1, <2>3, PhaseAt, PhaseNext, Unseen
  <2> QED BY <1>14, <2>2, <2>3 DEF RxDrain
<1>15. ASSUME NEW t \in Threads, CallStop(t)
       PROVE  [Device!Next]_(Device!vars)
  <2>1. /\ pc' = [pc EXCEPT ![t] = "broadcast"] /\ pc[t] = "idle"
        /\ opened' = (opened /\ t # nfc) /\ (t = nfc => opened)
        /\ UNCHANGED <<rf, got, stopSince, ret, rxBuf>>
    BY <1>15 DEF CallStop
  <2>2. CASE t = nfc
    <3>1. Device!Close
      BY <2>1, <2>2, PhaseAt, PhaseNext DEF Device!Close
    <3> QED BY <3>1 DEF Device!Next
  <2>3. CASE t # nfc
    <3>1. pc'[nfc] = pc[nfc] /\ opened' = opened
      BY <2>1, <2>3 DEF Known, TypeInv, TypeOK
    <3> QED BY <2>1, <3>1, SamePhase, Unseen
  <2> QED BY <2>2, <2>3
<1>16. ASSUME NEW t \in Threads, StopBroadcast(t)
       PROVE  [Device!Next]_(Device!vars)
  <2>1. /\ pc[t] = "broadcast" /\ pc' = [pc EXCEPT ![t] = "rfOff"]
        /\ stopSince' = TRUE /\ UNCHANGED <<opened, rf, got, ret, rxBuf>>
    BY <1>16 DEF StopBroadcast, Known, FieldInv
  <2>2. /\ Phase' = Phase
        /\ (pc'[nfc] \in TxLabels \cup RxLabels)
             = (pc[nfc] \in TxLabels \cup RxLabels)
    BY <2>1, SamePhase, PhaseAt, PhaseNext
  <2>3. Device!RequestStop
    BY <2>1, <2>2 DEF Device!RequestStop
  <2> QED BY <2>3 DEF Device!Next
<1>17. ASSUME NEW t \in Threads, StopRfOff(t)
       PROVE  [Device!Next]_(Device!vars)
  <2>1. /\ pc[t] = "rfOff" /\ bus = t /\ pc' = [pc EXCEPT ![t] = "idle"]
        /\ rf' = FALSE /\ UNCHANGED <<opened, got, stopSince, ret, rxBuf>>
    BY <1>17 DEF StopRfOff
  <2>2. CASE t = nfc
    <3>1. ~opened
      BY <2>1, <2>2 DEF Known, SessionInv
    <3>2. Device!Closed
      BY <2>1, <2>2, <3>1, PhaseAt, PhaseNext DEF Device!Closed
    <3> QED BY <3>2 DEF Device!Next
  <2>3. CASE t # nfc
    <3>1. pc'[nfc] = pc[nfc]
      BY <2>1, <2>3
    <3>2. pc[nfc] \notin TxLabels \cup RxLabels
      BY <2>1, <2>3 DEF Known, SessionInv
    <3>3. Device!FieldOff
      BY <2>1, <3>1, <3>2, SamePhase DEF Device!FieldOff
    <3> QED BY <3>3 DEF Device!Next
  <2> QED BY <2>2, <2>3
<1>18. CASE Isr
  BY <1>18, SamePhase, Unseen DEF Isr
<1>19. CASE TxLow \/ TxDone
  BY <1>19, SamePhase, Unseen DEF TxLow, TxDone, Raise
<1>20. CASE RxByte
  <2>1. rf /\ got' = got + 1 /\ UNCHANGED <<pc, opened, rf, stopSince, ret, rxBuf>>
    BY <1>20 DEF RxByte, Raise
  <2>2. Phase \in {"open", "exchange", "closing"}
    <3>1. pc[nfc] \notin StartLabels /\ (pc[nfc] = "idle" => opened)
      BY <2>1 DEF Known, FieldInv, SessionInv
    <3>2. pc[nfc] \in Labels
      OBVIOUS
    <3> QED BY <3>1, <3>2, PhaseAt DEF Labels
  <2>3. Device!Receive
    BY <2>1, <2>2, SamePhase DEF Device!Receive
  <2> QED BY <2>3 DEF Device!Next
<1>21. CASE RxEnd
  <2>1. UNCHANGED <<pc, opened, rf, got, stopSince, ret, rxBuf>>
    BY <1>21 DEF RxEnd, Raise
  <2> QED BY <2>1, SamePhase, Unseen
<1>22. CASE UNCHANGED vars
  BY <1>22, SamePhase, Unseen DEF vars
<1> QED
  BY <1>1, <1>2, <1>3, <1>4, <1>5, <1>6, <1>7, <1>8, <1>9, <1>10, <1>11,
     <1>12, <1>13, <1>14, <1>15, <1>16, <1>17, <1>18, <1>19, <1>20, <1>21,
     <1>22
  DEF Next, Start, Transceive, Receive, Stop, Chip

(* The driver implements the device the protocol layers count on, for any   *)
(* number of threads that call stop, any buffer and any answer, as long as  *)
(* no stop shuts the chip down: every exchange sends its frame once and     *)
(* ends with bytes received after it or with an error, and the field is on  *)
(* only in a session and never goes off under an exchange.                  *)
THEOREM DeviceImplemented ==
    ASSUME Shutdowns \subseteq {FALSE}
    PROVE  Spec => ImplementsDevice
<1>1. Spec => []Known
  BY AlwaysKnown
<1>2. Known /\ Known' /\ [Next]_vars => [Device!Next]_(Device!vars)
  BY StepMapped
<1> QED BY <1>1, <1>2, InitMapped, PTL DEF Spec, ImplementsDevice, Device!Spec
===============================================================================

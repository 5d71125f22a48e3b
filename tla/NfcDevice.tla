------------------------------- MODULE NfcDevice -------------------------------
(***************************************************************************)
(* What a device promises the protocol layers (struct nfc_device): an      *)
(* exchange sends its frame once and ends with bytes the card sent after   *)
(* it, or with an error; the field is on only between open and close, and  *)
(* never goes off under an exchange whose frame was sent.                  *)
(***************************************************************************)
EXTENDS Naturals, Sequences

VARIABLES
    phase,      \* "closed", "opening", "open", "exchange" or "closing"
    field,      \* the RF field is on
    sent,       \* the frame of the exchange has been sent
    got,        \* bytes received since a frame was last sent
    cancelled,  \* a stop was requested since the exchange began
    ret,        \* what the last call returned
    rx          \* the answer it returned: i is byte i of the card's answer

vars == <<phase, field, sent, got, cancelled, ret, rx>>

Init == /\ phase = "closed" /\ field = FALSE /\ sent = FALSE /\ got = 0
        /\ cancelled = FALSE /\ ret = "none" /\ rx = <<>>

Open == /\ phase = "closed" /\ phase' = "opening"
        /\ ret' = "none" /\ rx' = <<>>
        /\ UNCHANGED <<field, sent, got, cancelled>>
Found == /\ phase = "opening" /\ phase' = "open"
         /\ field' = TRUE
         /\ UNCHANGED <<sent, got, cancelled, ret, rx>>
NotFound == /\ phase = "opening" /\ phase' = "closed"
            /\ ret' = "ENODEV"
            /\ UNCHANGED <<field, sent, got, cancelled, rx>>

Exchange == /\ phase = "open" /\ phase' = "exchange"
            /\ cancelled' = FALSE /\ ret' = "none" /\ rx' = <<>>
            /\ UNCHANGED <<field, sent, got>>
Refuse == /\ phase = "open" /\ ret' = "EINVAL" /\ rx' = <<>>
          /\ UNCHANGED <<phase, field, sent, got, cancelled>>
Send == /\ phase = "exchange" /\ ~sent /\ sent' = TRUE /\ got' = 0
        /\ UNCHANGED <<phase, field, cancelled, ret, rx>>

(* A byte of the answer: late ones may come after the exchange has ended.  *)
Receive == /\ field /\ phase \in {"open", "exchange", "closing"}
           /\ got' = got + 1
           /\ UNCHANGED <<phase, field, sent, cancelled, ret, rx>>

Answered == /\ ret' = "OK"
            /\ \E n \in 0 .. got : rx' = [i \in 1 .. n |-> i]
Failed == /\ ret' \in {"ETIMEDOUT", "ERR"} \cup IF cancelled THEN {"ECANCELED"}
                                                             ELSE {}
          /\ UNCHANGED rx
Return == /\ phase = "exchange" /\ sent /\ phase' = "open" /\ sent' = FALSE
          /\ Answered \/ Failed
          /\ UNCHANGED <<field, got, cancelled>>

(* Another thread stops the device: a request first, the field later. *)
RequestStop == /\ cancelled' = TRUE
               /\ UNCHANGED <<phase, field, sent, got, ret, rx>>
FieldOff == /\ ~sent /\ field' = FALSE
            /\ UNCHANGED <<phase, sent, got, cancelled, ret, rx>>

Close == /\ phase = "open" /\ phase' = "closing"
         /\ UNCHANGED <<field, sent, got, cancelled, ret, rx>>
Closed == /\ phase = "closing" /\ phase' = "closed" /\ field' = FALSE
          /\ UNCHANGED <<sent, got, cancelled, ret, rx>>

Next == \/ Open \/ Found \/ NotFound
        \/ Exchange \/ Refuse \/ Send \/ Receive \/ Return
        \/ RequestStop \/ FieldOff \/ Close \/ Closed
Spec == Init /\ [][Next]_vars
===============================================================================

------------------------------- MODULE NfcPollMC -------------------------------
(* Small instances of NfcPoll for TLC. *)
EXTENDS NfcPoll

Ats(size, fsci, ta, tb, bytes) ==
    [size |-> size, fsci |-> fsci, ta |-> ta, tb |-> tb, bytes |-> bytes]
NoAts == Ats(0, 0, FALSE, FALSE, <<>>)

(* A plain card of one level, T=CL cards of two and three levels with both *)
(* shapes of ATS, a T=CL card whose ATS announces nothing, and a card that *)
(* does not do anticollision.                                              *)
SomeCards ==
    {[id |-> "plain", levels |-> 1, anticoll |-> TRUE, tcl |-> FALSE,
      ats |-> NoAts],
     [id |-> "double", levels |-> 2, anticoll |-> TRUE, tcl |-> TRUE,
      ats |-> Ats(5, 5, TRUE, TRUE, <<8, 10>>)],
     [id |-> "triple", levels |-> 3, anticoll |-> TRUE, tcl |-> TRUE,
      ats |-> Ats(4, 12, FALSE, TRUE, <<15>>)],
     [id |-> "short", levels |-> 1, anticoll |-> TRUE, tcl |-> TRUE,
      ats |-> Ats(1, 0, FALSE, FALSE, <<>>)],
     [id |-> "old", levels |-> 1, anticoll |-> FALSE, tcl |-> FALSE,
      ats |-> NoAts]}
===============================================================================

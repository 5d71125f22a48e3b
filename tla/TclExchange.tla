------------------------------ MODULE TclExchange ------------------------------
(***************************************************************************)
(* What nfc_iso14443_transceive promises its caller on a T=CL card: the    *)
(* card executes each command at most once, whole and in order, and a call *)
(* that succeeds returns the beginning of the answer to its own command.   *)
(* A call may fail with the command executed or not.                       *)
(*                                                                         *)
(* A command is a sequence of blocks <<call, i>>, and so is its answer.    *)
(***************************************************************************)
EXTENDS Naturals, Sequences

CONSTANTS
    MaxCmd,     \* blocks in the longest command
    MaxResp,    \* blocks in the longest answer
    Rooms,      \* sizes of the caller's answer buffer, in blocks
    MaxCalls    \* bound on the number of calls

VARIABLES
    open,       \* the card is selected
    failed,     \* the last call on this selection returned an error
    busy,       \* a call is in progress
    cmd,        \* the number of the last call
    total,      \* the blocks of its command
    room,       \* the blocks its caller has room for
    executed,   \* the commands executed since the card was selected
    answer,     \* the blocks of the answer to the last command executed
    ret,        \* what the last call returned
    rx          \* the answer it returned

vars == <<open, failed, busy, cmd, total, room, executed, answer, ret, rx>>

Blocks(c, n) == [i \in 1 .. n |-> <<c, i>>]
Least(a, b) == IF a < b THEN a ELSE b

Init ==
    /\ open = FALSE /\ failed = FALSE /\ busy = FALSE
    /\ cmd = 0 /\ total = 0 /\ room = 0
    /\ executed = <<>> /\ answer = 0 /\ ret = "none" /\ rx = <<>>

Open == /\ ~busy /\ ~open /\ open' = TRUE /\ failed' = FALSE
        /\ executed' = <<>>
        /\ UNCHANGED <<busy, cmd, total, room, answer, ret, rx>>

Close == /\ ~busy /\ open /\ open' = FALSE
         /\ UNCHANGED <<failed, busy, cmd, total, room, executed, answer, ret,
                        rx>>

Issue == /\ ~busy /\ open /\ ~failed /\ busy' = TRUE
         /\ cmd < MaxCalls /\ cmd' = cmd + 1
         /\ total' \in 1 .. MaxCmd /\ room' \in Rooms
         /\ ret' = "none" /\ rx' = <<>>
         /\ UNCHANGED <<open, failed, executed, answer>>

IsExecuted == \E i \in 1 .. Len(executed) : executed[i] = Blocks(cmd, total)

Execute == /\ busy /\ ~IsExecuted
           /\ executed' = Append(executed, Blocks(cmd, total))
           /\ answer' \in 1 .. MaxResp
           /\ UNCHANGED <<open, failed, busy, cmd, total, room, ret, rx>>

Succeed == /\ busy /\ IsExecuted /\ busy' = FALSE
           /\ ret' = "OK" /\ rx' = Blocks(cmd, Least(answer, room))
           /\ UNCHANGED <<open, failed, cmd, total, room, executed, answer>>

Fail == /\ busy /\ busy' = FALSE /\ ret' = "EIO" /\ failed' = TRUE
        /\ UNCHANGED <<open, cmd, total, room, executed, answer, rx>>

Next == Open \/ Close \/ Issue \/ Execute \/ Succeed \/ Fail
Spec == Init /\ [][Next]_vars
===============================================================================

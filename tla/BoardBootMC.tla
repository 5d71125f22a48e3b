------------------------------ MODULE BoardBootMC ------------------------------
(* The board, with the ports and the reset values of its STM32F411: its     *)
(* start, and the GPIO driver alone, which any calls may use.               *)
EXTENDS BoardBoot

F411Ports == <<0, 1, 2, 3, 4, 7>>
F411Blocks == {0, 1, 2, 3, 4, 7}

(* All pads are inputs but those of the debug port, of alternate number 0. *)
JtagPin(q, p) == (q = 0 /\ p \in 13 .. 15) \/ (q = 1 /\ p \in 3 .. 4)
F411Reset == [q \in F411Blocks |->
                 [p \in Pads |-> IF JtagPin(q, p) THEN GPIO_MODE_ALTERNATE(0)
                                                  ELSE GPIO_MODE_INPUT]]
UsedModes == {BoardModes[name] : name \in Names}
                \cup {GPIO_MODE_ALTERNATE(0), GPIO_MODE_INPUT}

(* The ends of the port, the two sides of the alternate registers, a hole, *)
(* no pad at all; two peripherals, and an output that is open drain.       *)
SomeMasks == {{}, {0, 7, 8}, {8, 15}, {4, 7}}
SomeModes == {GPIO_MODE_ALTERNATE(5) + GPIO_STM32_OSPEED_HIGHEST,
              GPIO_MODE_ALTERNATE(10) + GPIO_MODE_INPUT_PULLUP,
              GPIO_MODE_OUTPUT_PUSHPULL + 4}
AllModes == UsedModes \cup SomeModes

DriverStart ==
    /\ Init
    /\ next = 0 /\ sck = 0
    /\ channel = FALSE /\ source = FALSE /\ held = FALSE /\ edge = FALSE
DriverCall ==
    /\ next = 0
    /\ \E m \in Masks, w \in SomeModes : SetPortMode(1, m, w)
    /\ UNCHANGED boardVars

MCSpec == (BoardStart \/ DriverStart) /\ [][BoardNext \/ DriverCall]_allVars
===============================================================================

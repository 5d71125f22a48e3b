------------------------------- MODULE BoardBoot -------------------------------
(***************************************************************************)
(* From reset to the first exchange with the transceiver: boardInit        *)
(* (board/board.c), the first steps of the NFC thread (nfc.c) and its      *)
(* reset_hardware (drivers/trf797x/trf797x.c), on the registers of GpioLld *)
(* and against what is wired to the pads.                                  *)
(*                                                                         *)
(* Each item of Script is a call of the code, in its order; a call that    *)
(* configures a pad takes the steps of GpioLld.                            *)
(***************************************************************************)
EXTENDS GpioLld

(* board.h: the pads, by port and number, and their modes. *)
BoardPads ==
    [UART_TX   |-> DECLARE_GPIO(0, 9),  UART_RX   |-> DECLARE_GPIO(0, 10),
     OTG_FS_DM |-> DECLARE_GPIO(0, 11), OTG_FS_DP |-> DECLARE_GPIO(0, 12),
     LED0      |-> DECLARE_GPIO(1, 6),  LED1      |-> DECLARE_GPIO(1, 7),
     BUTTON    |-> DECLARE_GPIO(1, 8),  MOD       |-> DECLARE_GPIO(0, 1),
     SPI1_SCK  |-> DECLARE_GPIO(0, 5),  EN2       |-> DECLARE_GPIO(1, 13),
     EN        |-> DECLARE_GPIO(1, 14), ASK_OOK   |-> DECLARE_GPIO(1, 15),
     IRQ       |-> DECLARE_GPIO(3, 2),  IO0       |-> DECLARE_GPIO(2, 11),
     IO1       |-> DECLARE_GPIO(2, 10), IO2       |-> DECLARE_GPIO(2, 9),
     IO3       |-> DECLARE_GPIO(0, 8),  IO4       |-> DECLARE_GPIO(0, 4),
     IO5       |-> DECLARE_GPIO(1, 12), IO6       |-> DECLARE_GPIO(1, 4),
     IO7       |-> DECLARE_GPIO(1, 5)]

Fast(w) == w + GPIO_STM32_OSPEED_HIGHEST

BoardModes ==
    [UART_TX   |-> Fast(GPIO_MODE_ALTERNATE(7)),
     UART_RX   |-> GPIO_MODE_ALTERNATE(7),
     OTG_FS_DM |-> Fast(GPIO_MODE_ALTERNATE(10)),
     OTG_FS_DP |-> Fast(GPIO_MODE_ALTERNATE(10)),
     LED0      |-> GPIO_MODE_OUTPUT_PUSHPULL,
     LED1      |-> GPIO_MODE_OUTPUT_PUSHPULL,
     BUTTON    |-> GPIO_MODE_INPUT,
     MOD       |-> GPIO_MODE_INPUT_PULLUP,
     SPI1_SCK  |-> Fast(GPIO_MODE_ALTERNATE(5)),
     EN2       |-> GPIO_MODE_OUTPUT_PUSHPULL,
     EN        |-> GPIO_MODE_OUTPUT_PUSHPULL,
     ASK_OOK   |-> GPIO_MODE_OUTPUT_PUSHPULL,
     IRQ       |-> GPIO_MODE_INPUT_PULLDOWN,
     IO0       |-> GPIO_MODE_OUTPUT_PUSHPULL,
     IO1       |-> GPIO_MODE_OUTPUT_PUSHPULL,
     IO2       |-> GPIO_MODE_OUTPUT_PUSHPULL,
     IO3       |-> GPIO_MODE_INPUT_PULLUP,
     IO4       |-> Fast(GPIO_MODE_OUTPUT_PUSHPULL),
     IO5       |-> GPIO_MODE_INPUT_PULLUP,
     IO6       |-> GPIO_MODE_ALTERNATE(5),
     IO7       |-> Fast(GPIO_MODE_ALTERNATE(5))]

Names == DOMAIN BoardPads

(* The chip has the ports of the board, and drives no pad out of reset.    *)
ASSUME BoardAssumption ==
    /\ 0 .. 3 \subseteq Ports
    /\ \A name \in Names : BoardModes[name] \in Modes
    /\ \A q \in Blocks, p \in Pads :
          Field(Reset[q][p], "MODER") # GPIO_STM32_MODE_OUTPUT

-------------------------------------------------------------------------------
(* The clocks of mcuconf.h, and the divider of board.c: the first of the   *)
(* powers of two that brings PCLK1 down to the clock configured.           *)

STM32_HSECLK == 8000000
STM32_SYSCLK == ((STM32_HSECLK \div 8) * 192) \div 2
STM32_PCLK1  == STM32_SYSCLK \div 4
STM32_PCLK2  == STM32_SYSCLK \div 2

TRF797X_CONF_SPI_CLOCK   == 1000000
TRF797X_SPI_CLK_FREQ_MAX == 10000000

Dividers == {2, 4, 8, 16, 32, 64, 128, 256}

(* Mutant: the comparison is the wrong way round. *)
SpiDividerAbove ==
    CHOOSE n \in Dividers :
        /\ STM32_PCLK1 \div n >= TRF797X_CONF_SPI_CLOCK
        /\ \A k \in Dividers :
              STM32_PCLK1 \div k >= TRF797X_CONF_SPI_CLOCK => n <= k

SpiDivider ==
    CHOOSE n \in Dividers :
        /\ STM32_PCLK1 \div n <= TRF797X_CONF_SPI_CLOCK
        /\ \A k \in Dividers :
              STM32_PCLK1 \div k <= TRF797X_CONF_SPI_CLOCK => n <= k

(* SPI1 of this chip divides the clock of its second peripheral bus. *)
SpiClockOf(n) == STM32_PCLK2 \div n

-------------------------------------------------------------------------------
VARIABLES
    next,       \* the next item of Script, 0 when the script is not run
    sck,        \* the clock of the SPI bus, 0 before spiStart
    channel,    \* the channel of the interrupt pin is enabled
    source,     \* the list of the event source is initialised
    held,       \* history: the driver has acquired the bus
    edge        \* an edge of the interrupt pin waits for the handler

boardVars == <<next, sck, channel, source, held, edge>>
allVars == <<vars, boardVars>>

Call(op, name) == <<op, name>>
Configure(names) == [i \in 1 .. Len(names) |-> Call("mode", names[i])]

(* Mutant: the levels are set after the pads have become outputs. *)
BoardInitLate ==
    <<Call("gpioInit", "-")>>
    \o Configure(<<"EN", "EN2", "IRQ", "MOD", "ASK_OOK", "IO0", "IO1", "IO2",
                   "IO3", "IO4", "IO5", "IO6", "IO7", "SPI1_SCK", "UART_TX",
                   "UART_RX", "OTG_FS_DM", "OTG_FS_DP", "LED0", "LED1",
                   "BUTTON">>)
    \o <<Call("clear", "EN"), Call("clear", "EN2"), Call("set", "IO4"),
         Call("spiStart", "-"), Call("extStart", "-")>>

(* Mutant: the pads are configured before their ports have clocks. *)
BoardInitUnclocked ==
    <<Call("clear", "EN"), Call("clear", "EN2"), Call("set", "IO4")>>
    \o Configure(<<"EN", "EN2">>)
    \o <<Call("gpioInit", "-"), Call("set", "IO4")>>
    \o Configure(<<"IRQ", "MOD", "ASK_OOK", "IO0", "IO1", "IO2", "IO3", "IO4",
                   "IO5", "IO6", "IO7", "SPI1_SCK", "UART_TX", "UART_RX",
                   "OTG_FS_DM", "OTG_FS_DP", "LED0", "LED1", "BUTTON">>)
    \o <<Call("spiStart", "-"), Call("extStart", "-")>>

BoardInit ==
    <<Call("gpioInit", "-"), Call("clear", "EN"), Call("clear", "EN2"),
      Call("set", "IO4")>>
    \o Configure(<<"EN", "EN2", "IRQ", "MOD", "ASK_OOK", "IO0", "IO1", "IO2",
                   "IO3", "IO4", "IO5", "IO6", "IO7", "SPI1_SCK", "UART_TX",
                   "UART_RX", "OTG_FS_DM", "OTG_FS_DP", "LED0", "LED1",
                   "BUTTON">>)
    \o <<Call("spiStart", "-"), Call("extStart", "-")>>

(* The NFC thread up to nfc_open. *)
NfcThread == <<Call("extChannelEnable", "-"), Call("driverInit", "-"),
               Call("set", "LED1")>>

(* Mutant: the chip is enabled before its interface is chosen. *)
ResetHardwareEarly ==
    <<Call("clear", "EN"), Call("clear", "IO0"), Call("set", "IO1"),
      Call("set", "IO4"), Call("clear", "IO4"), Call("set", "EN"),
      Call("set", "IO2")>>

(* IO0, IO1, IO2: "SPI with SS"; spiUnselect and spiSelect drive IO4. *)
ResetHardware ==
    <<Call("clear", "EN"), Call("clear", "IO0"), Call("set", "IO1"),
      Call("set", "IO2"), Call("set", "IO4"), Call("clear", "IO4"),
      Call("set", "EN")>>

(* Mutant: the chip is selected before the bus is acquired. *)
TakeBusLate == <<Call("clear", "IO4"), Call("acquireBus", "-")>>

(* trf797x_initiator_start: trf797x_acquire_bus takes the bus and selects. *)
TakeBus == <<Call("acquireBus", "-"), Call("clear", "IO4")>>

Script == BoardInit \o NfcThread \o TakeBus \o ResetHardware
Booted == next > Len(BoardInit)

(* The device is a static variable: its event list is all zeros. *)
BoardStart ==
    /\ clocked = FALSE
    /\ reg = [q \in Blocks |-> Programmed(Reset[q])]
    /\ odr = [q \in Blocks |-> {}]
    /\ port = 0 /\ mask = {} /\ mode = 0 /\ bit = 0 /\ shifted = Unshifted
    /\ store = 0 /\ want = Reset
    /\ next = 1 /\ sck = 0
    /\ channel = FALSE /\ source = FALSE /\ held = FALSE /\ edge = FALSE

(* An item starts when the call before it has returned. *)
At(op, name) == /\ store = 0 /\ next \in DOMAIN Script
                /\ Script[next] = Call(op, name) /\ next' = next + 1

GpioInit ==
    /\ At("gpioInit", "-") /\ clocked' = TRUE
    /\ UNCHANGED <<reg, odr, callVars, want, sck, channel, source, held, edge>>

PadCall ==
    /\ \E name \in Names :
          LET gpio == BoardPads[name]
          IN \/ At("set", name) /\ SetPad(gpio)
             \/ At("clear", name) /\ ClearPad(gpio)
    /\ UNCHANGED <<clocked, reg, callVars, want, sck, channel, source, held,
                   edge>>

(* Mutant: a pad keeps its mode when its number needs the high byte. *)
ConfigurePadLow ==
    /\ \E name \in Names :
          /\ At("mode", name)
          /\ SetPortMode(0, {GPIO_PAD(BoardPads[name])}, BoardModes[name])
    /\ UNCHANGED <<sck, channel, source, held, edge>>

ConfigurePad ==
    /\ \E name \in Names :
          LET gpio == BoardPads[name]
          IN /\ At("mode", name)
             /\ SetPortMode(GPIO_PORT(gpio), {GPIO_PAD(gpio)}, BoardModes[name])
    /\ UNCHANGED <<sck, channel, source, held, edge>>

PadStep == (Store \/ Shift) /\ UNCHANGED boardVars

SpiStart ==
    /\ At("spiStart", "-") /\ sck' = SpiClockOf(SpiDivider)
    /\ UNCHANGED <<vars, channel, source, held, edge>>

(* The only channel of extcfg has no autostart. *)
ExtStart ==
    /\ At("extStart", "-")
    /\ UNCHANGED <<vars, sck, channel, source, held, edge>>

ChannelEnable ==
    /\ At("extChannelEnable", "-") /\ channel' = TRUE
    /\ UNCHANGED <<vars, sck, source, held, edge>>

(* trf797x_driver_init. *)
DriverInit ==
    /\ At("driverInit", "-") /\ source' = TRUE
    /\ UNCHANGED <<vars, sck, channel, held, edge>>

AcquireBus ==
    /\ At("acquireBus", "-") /\ held' = TRUE
    /\ UNCHANGED <<vars, sck, channel, source, edge>>

-------------------------------------------------------------------------------
(* The wires *)

Is(name, f) == LET gpio == BoardPads[name]
               IN Setting(stm32_ports(GPIO_PORT(gpio)), GPIO_PAD(gpio), f)

Output(name) == /\ Is(name, "MODER") = GPIO_STM32_MODE_OUTPUT
                /\ Is(name, "OTYPER") = 0
Level(name) == LET gpio == BoardPads[name]
               IN GPIO_PAD(gpio) \in odr[stm32_ports(GPIO_PORT(gpio))]
High(name) == Output(name) /\ Level(name)
Low(name)  == Output(name) /\ ~Level(name)
OnSpi(name) == /\ Is(name, "MODER") = GPIO_STM32_MODE_ALTERNATE
               /\ Is(name, "AFR") = 5

(* The chip is powered unless EN is driven low, and then may interrupt; an *)
(* edge counts once the channel is enabled.                                *)
Edge == /\ channel /\ ~Low("EN") /\ edge' = TRUE
        /\ UNCHANGED <<vars, next, sck, channel, source, held>>

Isr == /\ edge /\ edge' = FALSE
       /\ UNCHANGED <<vars, next, sck, channel, source, held>>

(* The blinker writes a pad of the port that EN is on. *)
Blink ==
    /\ Booted
    /\ SetPad(BoardPads["LED0"]) \/ ClearPad(BoardPads["LED0"])
    /\ UNCHANGED <<clocked, reg, callVars, want, boardVars>>

BoardNext == \/ GpioInit \/ PadCall \/ ConfigurePad \/ PadStep
             \/ SpiStart \/ ExtStart \/ ChannelEnable \/ DriverInit
             \/ AcquireBus
             \/ Edge \/ Isr \/ Blink

BoardSpec == BoardStart /\ [][BoardNext]_allVars

-------------------------------------------------------------------------------
(* Properties *)

(* The handler finds an initialised event source, although nfc.c enables   *)
(* the channel first: boardInit holds the chip off, and an idle pin makes  *)
(* no edge.  With a source of zeros the handler would walk a null list.    *)
EdgeFindsSource == edge => source

(* The chip samples its interface pins when EN rises: at every moment EN   *)
(* is driven high they say "SPI with SS", the chip is selected, the lines  *)
(* of the bus belong to the SPI peripheral, and the bus has a clock within *)
(* what the chip takes, although the divider is computed from the clock of *)
(* the other peripheral bus.                                               *)
EnabledInSpiMode ==
    High("EN") => /\ Low("IO0") /\ High("IO1") /\ High("IO2")
                  /\ Low("IO4")
                  /\ OnSpi("SPI1_SCK") /\ OnSpi("IO6") /\ OnSpi("IO7")
                  /\ sck \in 1 .. TRF797X_SPI_CLK_FREQ_MAX

(* "unselect": the chip is not selected at any moment of the start, not    *)
(* even between two register stores, before the driver has acquired the    *)
(* bus; and then the bus runs on the pads it is wired to.  Out of reset    *)
(* the level of the line is low, and its pad is made an output before the  *)
(* pads of the bus belong to the SPI peripheral.                           *)
SelectedByDriverOnly ==
    Low("IO4") => /\ held /\ sck # 0
                  /\ OnSpi("SPI1_SCK") /\ OnSpi("IO6") /\ OnSpi("IO7")

(* After boardInit each pad has the mode board.h gives it: none was        *)
(* configured without a clock, and no other call touched it since.         *)
PadsAsDeclared ==
    Booted => \A name \in Names, f \in Fields :
                 Is(name, f) = Field(BoardModes[name], f)
===============================================================================

-------------------------------- MODULE GpioLld --------------------------------
(***************************************************************************)
(* The GPIO driver (drivers/gpio): the mode words, the packed pad names    *)
(* and _gpio_lld_setportmode, whose loop writes the registers of a port    *)
(* pad by pad.  A store to a register is a step: what is wired to the pads *)
(* sees every one of them.                                                 *)
(*                                                                         *)
(* A register is the function from pads to the fields it holds.  The loop  *)
(* clears the field of the pad at hand and ors the new value wherever its  *)
(* local variable has been shifted to.  A mask is the set of its bits.     *)
(***************************************************************************)
EXTENDS Naturals, Sequences

CONSTANTS
    PortTable,  \* __stm32_ports: the register blocks of the ports that exist
    Ports,      \* the port identifiers callers use
    Masks,      \* the masks callers pass
    Modes,      \* the mode words callers pass, or pads have out of reset
    Reset       \* the mode word of each pad of each block out of reset

Pads == 0 .. 15         \* ioportmask_t has 16 bits

(* A block is named by the identifier of its port.  The table leaves out   *)
(* the ports the chip does not have, the identifiers count them: only up   *)
(* to the first such port does an identifier find its own block.           *)
stm32_ports(q) == PortTable[q + 1]
Blocks == {PortTable[i] : i \in 1 .. Len(PortTable)}

ASSUME PortsAssumption == /\ Ports \subseteq Nat /\ PortTable \in Seq(Nat)
                          /\ \A q \in Ports : /\ q < Len(PortTable)
                                             /\ stm32_ports(q) = q
ASSUME MasksAssumption == Masks \subseteq SUBSET Pads
ASSUME ModesAssumption == Modes \subseteq Nat
ASSUME ResetAssumption == Reset \in [Blocks -> [Pads -> Modes]]

-------------------------------------------------------------------------------
(* Mode words.  The fields do not overlap: or-ing them adds them. *)

GPIO_STM32_MODE_INPUT     == 0
GPIO_STM32_MODE_OUTPUT    == 1
GPIO_STM32_MODE_ALTERNATE == 2
GPIO_STM32_OSPEED_HIGHEST == 24
GPIO_MODE_ALTERNATE(n)    == GPIO_STM32_MODE_ALTERNATE + 128 * n
GPIO_MODE_INPUT           == GPIO_STM32_MODE_INPUT
GPIO_MODE_INPUT_PULLUP    == GPIO_STM32_MODE_INPUT + 32
GPIO_MODE_INPUT_PULLDOWN  == GPIO_STM32_MODE_INPUT + 64
GPIO_MODE_OUTPUT_PUSHPULL == GPIO_STM32_MODE_OUTPUT

Fields == {"MODER", "OTYPER", "OSPEEDR", "PUPDR", "AFR"}

(* Each field at its offset, of its width. *)
Field(w, f) ==
    CASE f = "MODER"   -> w % 4
      [] f = "OTYPER"  -> (w \div 4) % 2
      [] f = "OSPEEDR" -> (w \div 8) % 4
      [] f = "PUPDR"   -> (w \div 32) % 4
      [] f = "AFR"     -> (w \div 128) % 16

(* The name of a pad: its port and its number, a byte each. *)
DECLARE_GPIO(q, p) == 256 * (q % 256) + (p % 256)
GPIO_PORT(gpio) == (gpio \div 256) % 256
GPIO_PAD(gpio)  == gpio % 256

-------------------------------------------------------------------------------
VARIABLES
    clocked,    \* the ports have their clocks: without, a store is lost
    reg,        \* the registers of each port
    odr,        \* the output data of each port: the set of pads set to 1
    (* the local variables of _gpio_lld_setportmode *)
    port, mask, mode, bit,
    shifted,    \* by how many pads each field of the mode has been shifted
    store,      \* the next store for the pad, 6 after the last, 0: returned
    want        \* history: the mode word last asked for each pad

callVars == <<port, mask, mode, bit, shifted, store>>
vars == <<clocked, reg, odr, callVars, want>>

(* The register and the place in it of a field of a pad. *)
Registers == {"MODER", "OTYPER", "OSPEEDR", "PUPDR", "AFRL", "AFRH"}
Slots == Registers \X Pads

(* Mutant: pad 8 is taken for one of the low register. *)
SlotOffByOne(f, p) ==
    IF f = "AFR" THEN <<IF p <= 8 THEN "AFRL" ELSE "AFRH", p % 8>> ELSE <<f, p>>

Slot(f, p) ==
    IF f = "AFR" THEN <<IF p < 8 THEN "AFRL" ELSE "AFRH", p % 8>> ELSE <<f, p>>

(* What a port is connected to when its pads have the mode words m. *)
SlotField(s) == IF s[1] \in {"AFRL", "AFRH"} THEN "AFR" ELSE s[1]
SlotPad(s) == IF s[1] = "AFRH" THEN (s[2] % 8) + 8
              ELSE IF s[1] = "AFRL" THEN s[2] % 8 ELSE s[2]
Programmed(m) == [s \in Slots |-> Field(m[SlotPad(s)], SlotField(s))]

(* otyper, ospeedr, pupdr, moder are shifted on from pad to pad; altrmask  *)
(* is shifted to the pad afresh.                                           *)
Shifted == Fields \ {"AFR"}
Unshifted == [f \in Shifted |-> 0]
Place(f) == IF f = "AFR" THEN bit ELSE shifted[f]

TypeOK ==
    /\ clocked \in BOOLEAN
    /\ reg \in [Blocks -> [Slots -> 0 .. 15]]
    /\ odr \in [Blocks -> SUBSET Pads]
    /\ store \in 0 .. 6
    /\ store # 0 => port \in Blocks /\ mode \in Modes
    /\ mask \subseteq Pads /\ bit \in Pads /\ shifted \in [Shifted -> Pads]
    /\ want \in [Blocks -> [Pads -> Modes]]

(* gpioInit has run. *)
Init ==
    /\ clocked = TRUE
    /\ reg = [q \in Blocks |-> Programmed(Reset[q])]
    /\ odr = [q \in Blocks |-> {}]
    /\ port = 0 /\ mask = {} /\ mode = 0 /\ bit = 0 /\ shifted = Unshifted
    /\ store = 0 /\ want = Reset

-------------------------------------------------------------------------------
(* gpioSetPad and gpioClearPad: a store to a half of BSRR, for one pad. *)

SetPad(gpio) ==
    odr' = IF clocked
             THEN [odr EXCEPT ![stm32_ports(GPIO_PORT(gpio))] =
                                     @ \cup {GPIO_PAD(gpio)}]
             ELSE odr

ClearPad(gpio) ==
    odr' = IF clocked
             THEN [odr EXCEPT ![stm32_ports(GPIO_PORT(gpio))] =
                                     @ \ {GPIO_PAD(gpio)}]
             ELSE odr

-------------------------------------------------------------------------------
(* _gpio_lld_setportmode *)

SetPortMode(q, m, w) ==
    /\ store = 0 /\ store' = 1
    /\ port' = stm32_ports(q) /\ mask' = m /\ mode' = w
    /\ bit' = 0 /\ shifted' = Unshifted
    /\ want' = [want EXCEPT ![q] =
                   [p \in Pads |-> IF p \in m THEN w ELSE @[p]]]
    /\ UNCHANGED <<clocked, reg, odr>>

(* Mutant: the alternate number is always set after the mode. *)
OrderFixed(w) == <<"OTYPER", "OSPEEDR", "PUPDR", "MODER", "AFR">>

(* "the alternate number is set before switching mode in order to avoid    *)
(* glitches", and after switching to another mode.                         *)
Order(w) ==
    IF Field(w, "MODER") = GPIO_STM32_MODE_ALTERNATE
      THEN <<"OTYPER", "OSPEEDR", "PUPDR", "AFR", "MODER">>
      ELSE <<"OTYPER", "OSPEEDR", "PUPDR", "MODER", "AFR">>

(* x | y, of four bits. *)
Or(x, y) == LET Bit(k) == IF (x \div k) % 2 = 1 \/ (y \div k) % 2 = 1
                            THEN k ELSE 0
            IN Bit(1) + Bit(2) + Bit(4) + Bit(8)

(* The next store for a pad of the mask. *)
Store ==
    /\ store \in 1 .. 5 /\ 0 \in mask
    /\ store' = store + 1
    /\ LET f == Order(mode)[store]
           cleared == [reg[port] EXCEPT ![Slot(f, bit)] = 0]
           stored == [cleared EXCEPT ![Slot(f, Place(f))] =
                                        Or(@, Field(mode, f))]
       IN reg' = IF clocked THEN [reg EXCEPT ![port] = stored] ELSE reg
    /\ UNCHANGED <<clocked, odr, port, mask, mode, bit, shifted, want>>

(* Mutant: the loop goes on to the last bit without a test of the mask. *)
ShiftUnmasked ==
    /\ store = 6 \/ (store = 1 /\ 0 \notin mask)
    /\ mask' = {b - 1 : b \in mask \ {0}}
    /\ store' = IF bit = 16 THEN 0 ELSE 1
    /\ bit' = IF bit = 16 THEN bit ELSE bit + 1
    /\ shifted' = IF bit = 16 THEN shifted
                  ELSE [f \in Shifted |-> shifted[f] + 1]
    /\ UNCHANGED <<clocked, reg, odr, port, mode, want>>

(* Mutant: the fields are shifted on only past the pads of the mask. *)
ShiftHoles ==
    /\ store = 6 \/ (store = 1 /\ 0 \notin mask)
    /\ mask' = {b - 1 : b \in mask \ {0}}
    /\ IF mask' = {}
         THEN store' = 0 /\ UNCHANGED <<bit, shifted>>
         ELSE /\ store' = 1 /\ bit' = bit + 1
              /\ shifted' = IF 0 \in mask
                              THEN [f \in Shifted |-> shifted[f] + 1]
                              ELSE shifted
    /\ UNCHANGED <<clocked, reg, odr, port, mode, want>>

(* mask >>= 1; return when nothing is left, else shift the fields.         *)
Shift ==
    /\ store = 6 \/ (store = 1 /\ 0 \notin mask)
    /\ mask' = {b - 1 : b \in mask \ {0}}
    /\ IF mask' = {}
         THEN store' = 0 /\ UNCHANGED <<bit, shifted>>
         ELSE /\ store' = 1 /\ bit' = bit + 1
              /\ shifted' = [f \in Shifted |-> shifted[f] + 1]
    /\ UNCHANGED <<clocked, reg, odr, port, mode, want>>

Next == \/ \E q \in Ports, m \in Masks, w \in Modes : SetPortMode(q, m, w)
        \/ Store \/ Shift

Spec == Init /\ [][Next]_vars

-------------------------------------------------------------------------------
(* Properties *)

Setting(q, p, f) == reg[q][Slot(f, p)]

(* When _gpio_lld_setportmode has returned, every field of every pad is    *)
(* the one of the mode last asked for that pad: the pads of the mask got   *)
(* it, wherever the mask has its holes, and no other pad lost its own.     *)
ModeReached ==
    store = 0 => \A q \in Blocks, p \in Pads, f \in Fields :
                    Setting(q, p, f) = Field(want[q][p], f)

(* The comments of the loop promise no glitches: no register store gives a *)
(* pad a role other than its old and its new one, and none at all to a pad *)
(* out of the mask.                                                        *)
RoleOf(m, af) == <<m, IF m = GPIO_STM32_MODE_ALTERNATE THEN af ELSE 0>>
Pins == Blocks \X Pads
Role == [pin \in Pins |-> RoleOf(Setting(pin[1], pin[2], "MODER"),
                                 Setting(pin[1], pin[2], "AFR"))]
Asked == [pin \in Pins |-> LET w == want[pin[1]][pin[2]]
                           IN RoleOf(Field(w, "MODER"), Field(w, "AFR"))]
Abstract == INSTANCE PadRoles WITH Roles <- (0 .. 3) \X (0 .. 15),
                                   role <- Role, asked <- Asked
ImplementsRoles == Abstract!Spec
===============================================================================

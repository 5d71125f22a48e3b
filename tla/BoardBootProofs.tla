---------------------------- MODULE BoardBootProofs ----------------------------
(* Theorems about the GPIO driver, for every port table, mask and mode: its *)
(* type, the mode a call leaves, and PadRoles; and about the start of the   *)
(* board, for every chip that has the ports it uses and whatever the mode   *)
(* of the other pads out of reset.                                          *)
EXTENDS BoardBoot, TLAPS

(* The pads of the call that the loop has not passed. *)
Remaining == {p \in Pads : p >= bit /\ p - bit \in mask}

Done(q, p) == \A f \in Fields : Setting(q, p, f) = Field(want[q][p], f)

(* A pad that is not in the rest of the call has the mode asked for it;    *)
(* the rest of the call was asked for; and the fields of the pad at hand   *)
(* that were stored already are those of the mode.                         *)
Passed == \A q \in Blocks, p \in Pads :
            (store = 0 \/ q # port \/ p \notin Remaining) => Done(q, p)
Pending == store # 0 => /\ \A b \in mask : bit + b \in Pads
                        /\ \A p \in Remaining : want[port][p] = mode
Stored == \A j \in 1 .. 5 :
            (store # 0 /\ j < store) =>
                /\ 0 \in mask
                /\ Setting(port, bit, Order(mode)[j])
                     = Field(mode, Order(mode)[j])

(* Every local variable has been shifted to the pad at hand. *)
Aligned == store # 0 => \A f \in Shifted : shifted[f] = bit

IInv == TypeOK /\ Passed /\ Pending /\ Stored /\ Aligned

-------------------------------------------------------------------------------
LEMMA FieldType == ASSUME NEW w \in Nat, NEW f \in Fields
                   PROVE  Field(w, f) \in 0 .. 15
  BY DEF Field, Fields

LEMMA SlotType == ASSUME NEW p \in Pads, NEW f \in Fields
                  PROVE  Slot(f, p) \in Slots
  BY SMT DEF Slot, Slots, Registers, Fields, Pads

LEMMA SlotInjective ==
    ASSUME NEW p \in Pads, NEW f \in Fields, NEW r \in Pads, NEW g \in Fields,
           Slot(f, p) = Slot(g, r)
    PROVE  f = g /\ p = r
  BY SMT DEF Slot, Fields, Pads

LEMMA SlotInverse == ASSUME NEW p \in Pads, NEW f \in Fields
                     PROVE  /\ SlotField(Slot(f, p)) = f
                            /\ SlotPad(Slot(f, p)) = p
  BY SMT DEF Slot, SlotField, SlotPad, Fields, Pads

LEMMA SlotBack == ASSUME NEW s \in Slots
                  PROVE  SlotField(s) \in Fields /\ SlotPad(s) \in Pads
  BY SMT DEF Slots, Registers, SlotField, SlotPad, Fields, Pads

(* The five stores are of the five fields, each once. *)
LEMMA OrderFields == ASSUME NEW w
                     PROVE  /\ Order(w) \in [1 .. 5 -> Fields]
                            /\ \A f \in Fields : \E j \in 1 .. 5 : Order(w)[j] = f
  BY SMT DEF Order, Fields

LEMMA BlockOfPort == ASSUME NEW q \in Ports
                     PROVE  stm32_ports(q) \in Blocks /\ stm32_ports(q) = q
  BY PortsAssumption, SMT DEF stm32_ports, Blocks

(* The state of the driver at its start, with the clocks on or not. *)
AtReset == /\ clocked \in BOOLEAN
           /\ reg = [q \in Blocks |-> Programmed(Reset[q])]
           /\ odr = [q \in Blocks |-> {}]
           /\ port = 0 /\ mask = {} /\ mode = 0 /\ bit = 0
           /\ shifted = Unshifted /\ store = 0 /\ want = Reset

LEMMA InitInv == AtReset => IInv
  <1> SUFFICES ASSUME AtReset PROVE IInv  OBVIOUS
  <1>1. \A q \in Blocks, p \in Pads, f \in Fields :
           Setting(q, p, f) = Field(want[q][p], f)
    BY SlotType, SlotInverse DEF AtReset, Setting, Programmed
  <1>2. reg \in [Blocks -> [Slots -> 0 .. 15]]
    <2> SUFFICES ASSUME NEW q \in Blocks, NEW s \in Slots
                 PROVE  Programmed(Reset[q])[s] \in 0 .. 15
      BY DEF AtReset, Programmed
    <2> QED BY SlotBack, FieldType, ResetAssumption, ModesAssumption
            DEF Programmed
  <1>3. TypeOK
    BY <1>2, ResetAssumption, SMT DEF TypeOK, AtReset, Pads, Unshifted
  <1> QED BY <1>1, <1>3, SMT DEF IInv, AtReset, Passed, Pending, Stored, Done, Aligned

LEMMA CallInv == ASSUME IInv, NEW q \in Ports, NEW m \in SUBSET Pads, NEW w \in Modes,
                        SetPortMode(q, m, w)
                 PROVE  IInv'
  <1> USE BlockOfPort
  <1>1. m \subseteq Pads
    OBVIOUS
  <1>2. TypeOK'
    BY <1>1, SMT DEF IInv, TypeOK, SetPortMode, Pads, Unshifted
  <1>3. Remaining' = m
    <2>1. \A p \in Pads : p >= 0 /\ p - 0 = p
      BY SMT DEF Pads
    <2> QED BY <1>1, <2>1 DEF Remaining, SetPortMode
  <1>4. Passed'
    <2> SUFFICES ASSUME NEW r \in Blocks, NEW p \in Pads,
                        r # q \/ p \notin m
                 PROVE  Done(r, p)'
      BY <1>3 DEF Passed, SetPortMode
    <2>1. Done(r, p)
      BY DEF IInv, Passed, SetPortMode
    <2>2. want'[r][p] = want[r][p]
      BY DEF IInv, TypeOK, SetPortMode
    <2> QED BY <2>1, <2>2 DEF Done, Setting, SetPortMode
  <1>5. Pending'
    BY <1>1, <1>3, SMT DEF Pending, SetPortMode, IInv, TypeOK, Pads
  <1>6. Stored'
    BY SMT DEF Stored, SetPortMode
  <1>7. Aligned'
    BY SMT DEF Aligned, SetPortMode, Unshifted
  <1> QED BY <1>2, <1>4, <1>5, <1>6, <1>7 DEF IInv, SetPortMode

LEMMA OrEmpty == ASSUME NEW v \in 0 .. 15 PROVE Or(0, v) = v
  BY SMT DEF Or

(* A store changes the field of the pad at hand and nothing else: the      *)
(* value has been shifted to where the field was cleared.                  *)
LEMMA StoreHere ==
    ASSUME IInv, clocked = TRUE, Store
    PROVE  reg' = [reg EXCEPT ![port][Slot(Order(mode)[store], bit)]
                                = Field(mode, Order(mode)[store])]
  <1> DEFINE f == Order(mode)[store]
             cleared == [reg[port] EXCEPT ![Slot(f, bit)] = 0]
             v == Field(mode, f)
  <1>1. f \in Fields
    BY OrderFields, Zenon DEF Store
  <1>2. mode \in Nat /\ port \in Blocks /\ bit \in Pads
    <2>1. store # 0
      BY SMT DEF Store
    <2> QED BY <2>1, ModesAssumption, Zenon DEF IInv, TypeOK
  <1>3. Place(f) = bit
    <2>1. store # 0
      BY SMT DEF Store
    <2> QED BY <1>1, <2>1, Zenon DEF IInv, Aligned, Place, Shifted
  <1>4. Slot(f, bit) \in Slots /\ reg[port] \in [Slots -> 0 .. 15]
    BY <1>1, <1>2, SlotType DEF IInv, TypeOK
  <1>5. Or(cleared[Slot(f, bit)], v) = v
    <2>1. cleared[Slot(f, bit)] = 0
      BY <1>4
    <2> QED BY <1>1, <1>2, <2>1, FieldType, OrEmpty
  <1>6. reg' = [reg EXCEPT ![port] =
                  [cleared EXCEPT ![Slot(f, bit)] = Or(cleared[Slot(f, bit)], v)]]
    BY <1>3 DEF Store
  <1>7. [cleared EXCEPT ![Slot(f, bit)] = v] = [reg[port] EXCEPT ![Slot(f, bit)] = v]
    BY <1>4
  <1> QED BY <1>5, <1>6, <1>7

LEMMA StoreInv == ASSUME IInv, clocked = TRUE, Store PROVE IInv'
  <1> DEFINE f == Order(mode)[store]
  <1>1. f \in Fields
    BY OrderFields, Zenon DEF Store
  <1>2. mode \in Nat /\ port \in Blocks /\ bit \in Pads
    <2>1. store # 0
      BY SMT DEF Store
    <2> QED BY <2>1, ModesAssumption, Zenon DEF IInv, TypeOK
  <1>3. reg' = [reg EXCEPT ![port][Slot(f, bit)] = Field(mode, f)]
    BY StoreHere
  <1>4. \A q \in Blocks, p \in Pads, g \in Fields :
          Setting(q, p, g)' = IF q = port /\ p = bit /\ g = f
                                THEN Field(mode, f) ELSE Setting(q, p, g)
    BY <1>1, <1>2, <1>3, SlotType, SlotInjective DEF Setting, IInv, TypeOK
  <1>5. TypeOK'
    <2>1. reg' \in [Blocks -> [Slots -> 0 .. 15]]
      BY <1>1, <1>2, <1>3, SlotType, FieldType DEF IInv, TypeOK
    <2> QED BY <2>1, SMT DEF IInv, TypeOK, Store
  <1>6. bit \in Remaining
    BY <1>2, SMT DEF Remaining, Store, Pads
  <1>7. Remaining' = Remaining
    BY DEF Remaining, Store
  <1>8. Passed'
    <2> SUFFICES ASSUME NEW q \in Blocks, NEW p \in Pads,
                        q # port \/ p \notin Remaining
                 PROVE  Done(q, p)'
      BY <1>7, SMT DEF Passed, Store
    <2> Done(q, p) /\ ~(q = port /\ p = bit)
      BY <1>6 DEF IInv, Passed
    <2> QED BY <1>4 DEF Done, Store
  <1>9. Pending'
    BY <1>7, SMT DEF Pending, Store, IInv
  <1>10. Stored'
    <2> SUFFICES ASSUME NEW j \in 1 .. 5, j < store'
                 PROVE  Setting(port, bit, Order(mode)[j])'
                          = Field(mode, Order(mode)[j])
      BY DEF Stored, Store
    <2>1. Order(mode)[j] \in Fields
      BY OrderFields, Zenon
    <2>2. CASE j = store
      <3>1. reg'[port][Slot(f, bit)] = Field(mode, f)
        BY <1>1, <1>2, <1>3, SlotType DEF IInv, TypeOK
      <3>2. port' = port /\ bit' = bit /\ mode' = mode
        BY DEF Store
      <3> QED BY <3>1, <3>2, <2>2 DEF Setting
    <2>3. CASE j < store
      BY <1>2, <1>4, <2>1, <2>3, SMT DEF IInv, Stored, Store
    <2> QED BY <2>2, <2>3, SMT DEF Store
  <1>11. Aligned'
    BY SMT DEF IInv, Aligned, Store
  <1> QED BY <1>5, <1>8, <1>9, <1>10, <1>11 DEF IInv, Store

LEMMA ShiftInv == ASSUME IInv, Shift PROVE IInv'
  <1>1. mode \in Nat /\ port \in Blocks /\ bit \in Pads /\ mask \subseteq Pads
    <2>1. store # 0
      BY SMT DEF Shift
    <2> QED BY <2>1, ModesAssumption, Zenon DEF IInv, TypeOK
  <1>2. mask' # {} => bit + 1 \in Pads
    BY <1>1, SMT DEF IInv, Pending, Shift, Pads
  <1>3. TypeOK'
    <2>1. mask' \subseteq Pads
      BY <1>1, SMT DEF Shift, Pads
    <2>2. bit' \in Pads /\ store' \in 0 .. 6
      BY <1>1, <1>2, SMT DEF Shift
    <2>4. shifted' \in [Shifted -> Pads]
      <3>1. CASE mask' = {}
        BY <3>1 DEF Shift, IInv, TypeOK
      <3>2. CASE mask' # {}
        <4>1. \A f \in Shifted : shifted[f] = bit
          BY SMT DEF Shift, IInv, Aligned
        <4>2. shifted' = [f \in Shifted |-> shifted[f] + 1]
          BY <3>2 DEF Shift
        <4> QED BY <1>2, <3>2, <4>1, <4>2
      <3> QED BY <3>1, <3>2
    <2>3. port' = port /\ mode' = mode /\ store # 0
      BY SMT DEF Shift
    <2> QED BY <2>1, <2>2, <2>3, <2>4, Zenon DEF IInv, TypeOK, Shift
  <1>4. \A p \in Remaining : p = bit \/ (mask' # {} /\ p \in Remaining')
    BY <1>1, SMT DEF Remaining, Shift, Pads
  <1>5. mask' # {} => Remaining' \subseteq Remaining
    BY <1>1, SMT DEF Remaining, Shift, Pads
  <1>6. bit \in Remaining => Done(port, bit)
    <2> SUFFICES ASSUME bit \in Remaining, NEW f \in Fields
                 PROVE  Setting(port, bit, f) = Field(want[port][bit], f)
      BY DEF Done
    <2>1. store = 6
      BY <1>1, SMT DEF Remaining, Shift, Pads
    <2>2. PICK j \in 1 .. 5 : Order(mode)[j] = f
      BY OrderFields, Zenon
    <2>3. Setting(port, bit, f) = Field(mode, f)
      BY <2>1, <2>2, SMT DEF IInv, Stored
    <2>4. want[port][bit] = mode
      BY <2>1, SMT DEF IInv, Pending
    <2> QED BY <2>3, <2>4
  <1>7. Passed'
    <2> SUFFICES ASSUME NEW q \in Blocks, NEW p \in Pads,
                        store' = 0 \/ q # port \/ p \notin Remaining'
                 PROVE  Done(q, p)
      BY DEF Passed, Shift, Done, Setting
    <2>1. CASE q # port \/ p \notin Remaining
      BY <2>1 DEF IInv, Passed
    <2>2. CASE q = port /\ p \in Remaining
      BY <2>2, <1>4, <1>6 DEF Shift
    <2> QED BY <2>1, <2>2
  <1>8. Pending'
    BY <1>1, <1>5, SMT DEF IInv, Pending, Shift, Pads
  <1>9. Stored'
    BY SMT DEF Stored, Shift
  <1>10. Aligned'
    BY SMT DEF IInv, Aligned, Shift
  <1> QED BY <1>3, <1>7, <1>8, <1>9, <1>10 DEF IInv, Shift

LEMMA SameInv == ASSUME IInv, UNCHANGED <<reg, callVars, want>>, clocked' \in BOOLEAN,
                         odr' \in [Blocks -> SUBSET Pads]
                  PROVE  IInv'
  <1>1. TypeOK'
    BY DEF IInv, TypeOK, callVars
  <1> QED BY <1>1 DEF callVars, IInv, Passed, Pending, Stored, Aligned, Done, Remaining,
                         Setting

LEMMA NextInv == IInv /\ clocked = TRUE /\ [Next]_vars => (IInv /\ clocked = TRUE)'
  <1> SUFFICES ASSUME IInv, clocked = TRUE, [Next]_vars
               PROVE  (IInv /\ clocked = TRUE)'
    OBVIOUS
  <1>1. CASE \E q \in Ports, m \in Masks, w \in Modes : SetPortMode(q, m, w)
    BY <1>1, CallInv, MasksAssumption DEF SetPortMode
  <1>2. CASE Store
    BY <1>2, StoreInv DEF Store
  <1>3. CASE Shift
    BY <1>3, ShiftInv DEF Shift
  <1>4. CASE UNCHANGED vars
    <2>1. odr' \in [Blocks -> SUBSET Pads]
      BY <1>4 DEF vars, IInv, TypeOK
    <2> QED BY <1>4, <2>1, SameInv DEF vars
  <1> QED BY <1>1, <1>2, <1>3, <1>4 DEF Next

LEMMA SpecInv == Spec => [](IInv /\ clocked = TRUE)
  <1>1. Init => IInv /\ clocked = TRUE
    BY InitInv DEF Init, AtReset
  <1> QED BY <1>1, NextInv, PTL DEF Spec

(* The registers, the mask and the cursor of the loop keep their types.    *)
THEOREM TypeCorrect == Spec => []TypeOK
  BY SpecInv, PTL DEF IInv

(* ModeReached, for every mask, mode and port table.                       *)
THEOREM EveryPadAsAsked == Spec => []ModeReached
  <1>1. IInv => ModeReached
    BY DEF IInv, Passed, Done, ModeReached
  <1> QED BY <1>1, SpecInv, PTL

-------------------------------------------------------------------------------
Roles == (0 .. 3) \X (0 .. 15)
AskedOf(w) == RoleOf(Field(w, "MODER"), Field(w, "AFR"))

LEMMA AskedType == ASSUME NEW w \in Nat PROVE AskedOf(w) \in Roles
  BY SMT DEF AskedOf, RoleOf, Field, Roles

LEMMA RolePins ==
    /\ \A q \in Blocks, p \in Pads :
          Role[<<q, p>>] = RoleOf(Setting(q, p, "MODER"), Setting(q, p, "AFR"))
    /\ \A q \in Blocks, p \in Pads : Asked[<<q, p>>] = AskedOf(want[q][p])
  BY DEF Role, Asked, Pins, AskedOf

(* Where a pad is as asked, so is its role. *)
LEMMA DoneRole == ASSUME NEW q \in Blocks, NEW p \in Pads, Done(q, p)
                  PROVE  Role[<<q, p>>] = Asked[<<q, p>>]
  BY RolePins DEF Done, AskedOf, Fields

LEMMA InitRoles == AtReset => Abstract!Init
  <1> SUFFICES ASSUME AtReset PROVE Abstract!Init  OBVIOUS
  <1>1. IInv
    BY InitInv
  <1>2. \A q \in Blocks, p \in Pads : Done(q, p)
    BY <1>1 DEF IInv, Passed, AtReset
  <1>3. Role = Asked
    BY <1>2, DoneRole, RolePins DEF Role, Asked, Pins
  <1>4. Asked \in [Pins -> Roles]
    BY <1>1, AskedType, ModesAssumption DEF IInv, TypeOK, Asked, AskedOf, Pins
  <1> QED BY <1>3, <1>4 DEF Abstract!Init, Roles

(* The call is asked for when every role is as asked. *)
LEMMA CallAsks == ASSUME IInv, IInv', NEW q \in Ports, NEW m \in SUBSET Pads,
                         NEW w \in Modes, SetPortMode(q, m, w)
                  PROVE  Abstract!Ask
  <1>1. Role' = Role
    BY DEF Role, Setting, SetPortMode
  <1>2. \A r \in Blocks, p \in Pads : Done(r, p)
    BY DEF IInv, Passed, SetPortMode
  <1>3. Role = Asked
    BY <1>2, DoneRole DEF Role, Asked, Pins
  <1>4. Asked' \in [Pins -> Roles]
    <2>1. \A pin \in Pins : want'[pin[1]][pin[2]] \in Nat
      BY ModesAssumption DEF IInv, TypeOK, Pins
    <2>2. \A pin \in Pins : AskedOf(want'[pin[1]][pin[2]]) \in Roles
      BY <2>1, AskedType
    <2>3. Asked' = [pin \in Pins |-> AskedOf(want'[pin[1]][pin[2]])]
      BY DEF Asked, AskedOf
    <2> QED BY <2>2, <2>3
  <1>5. AskedOf(w) \in Roles
    BY AskedType, ModesAssumption
  <1>6. \A pin \in Pins : Asked'[pin] \in {Asked[pin], AskedOf(w)}
    <2> SUFFICES ASSUME NEW pin \in Pins
                 PROVE  Asked'[pin] \in {Asked[pin], AskedOf(w)}
      OBVIOUS
    <2>1. want'[pin[1]][pin[2]] \in {want[pin[1]][pin[2]], w}
      BY BlockOfPort DEF Pins, IInv, TypeOK, SetPortMode
    <2>2. /\ Asked'[pin] = AskedOf(want'[pin[1]][pin[2]])
          /\ Asked[pin] = AskedOf(want[pin[1]][pin[2]])
      BY DEF Asked, AskedOf
    <2> QED BY <2>1, <2>2
  <1> QED BY <1>1, <1>3, <1>4, <1>5, <1>6 DEF Abstract!Ask, Roles

(* Only one store of the five changes the role of the pad, to the new one. *)
LEMMA StoreSwitches ==
    ASSUME IInv, clocked = TRUE, Store
    PROVE  \/ UNCHANGED <<Role, Asked>>
           \/ \E pin \in Pins : Abstract!Switch(pin)
  <1> DEFINE f == Order(mode)[store]
             here == <<port, bit>>
  <1>1. f \in Fields
    BY OrderFields, Zenon DEF Store
  <1>2. mode \in Nat /\ port \in Blocks /\ bit \in Pads
    <2>1. store # 0
      BY SMT DEF Store
    <2> QED BY <2>1, ModesAssumption, Zenon DEF IInv, TypeOK
  <1>3. reg' = [reg EXCEPT ![port][Slot(f, bit)] = Field(mode, f)]
    BY StoreHere
  <1>4. \A q \in Blocks, p \in Pads, g \in Fields :
          reg'[q][Slot(g, p)] = IF q = port /\ p = bit /\ g = f
                                  THEN Field(mode, f) ELSE Setting(q, p, g)
    BY <1>1, <1>2, <1>3, SlotType, SlotInjective DEF Setting, IInv, TypeOK
  <1>5. Asked' = Asked
    BY DEF Asked, Store
  <1>6. \A q \in Blocks, p \in Pads :
          Role'[<<q, p>>] = RoleOf(reg'[q][Slot("MODER", p)],
                                   reg'[q][Slot("AFR", p)])
    BY DEF Role, Setting, Pins
  <1>7. \A pin \in Pins : pin # here => Role'[pin] = Role[pin]
    BY <1>4, <1>6, RolePins DEF Pins, Fields
  <1>8. Role'[here] \in {Role[here], Asked[here]}
    <2> DEFINE m == Setting(port, bit, "MODER")
               a == Setting(port, bit, "AFR")
    <2>1. Asked[here] = AskedOf(mode)
      <3>1. bit \in Remaining
        BY <1>2, SMT DEF Remaining, Store, Pads
      <3>2. want[port][bit] = mode
        BY <3>1, SMT DEF IInv, Pending, Store
      <3> QED BY <1>2, <3>2, RolePins
    <2>2. Role[here] = RoleOf(m, a)
      BY <1>2, RolePins
    <2>3. CASE f = "MODER"
      <3>1. Role'[here] = RoleOf(Field(mode, "MODER"), a)
        BY <1>2, <1>4, <1>6, <2>3 DEF Fields
      <3>2. Field(mode, "MODER") = GPIO_STM32_MODE_ALTERNATE
              => a = Field(mode, "AFR")
        BY <2>3, SMT DEF IInv, Stored, Store, Order
      <3> QED BY <2>1, <3>1, <3>2 DEF AskedOf, RoleOf
    <2>4. CASE f = "AFR"
      <3>1. Role'[here] = RoleOf(m, Field(mode, "AFR"))
        BY <1>2, <1>4, <1>6, <2>4 DEF Fields
      <3>2. Field(mode, "MODER") # GPIO_STM32_MODE_ALTERNATE
              => m = Field(mode, "MODER")
        BY <2>4, SMT DEF IInv, Stored, Store, Order
      <3>3. m # GPIO_STM32_MODE_ALTERNATE => Role'[here] = Role[here]
        BY <2>2, <3>1 DEF RoleOf
      <3>4. m = GPIO_STM32_MODE_ALTERNATE => Role'[here] = Asked[here]
        BY <2>1, <3>1, <3>2 DEF RoleOf, AskedOf
      <3> QED BY <3>3, <3>4
    <2>5. CASE f # "MODER" /\ f # "AFR"
      BY <1>2, <1>4, <1>6, <2>2, <2>5 DEF Fields
    <2> QED BY <2>3, <2>4, <2>5
  <1>9. here \in Pins
    BY <1>2 DEF Pins
  <1>10. CASE Role'[here] = Role[here]
    <2> Role' = Role
      BY <1>7, <1>10 DEF Role
    <2> QED BY <1>5
  <1>11. CASE Role'[here] = Asked[here]
    <2> Role' = [Role EXCEPT ![here] = Asked[here]]
      BY <1>7, <1>9, <1>11 DEF Role
    <2> QED BY <1>5, <1>9 DEF Abstract!Switch
  <1> QED BY <1>8, <1>10, <1>11

LEMMA StepRoles ==
    IInv /\ IInv' /\ clocked = TRUE /\ [Next]_vars
        => [Abstract!Next]_(Abstract!vars)
  <1> SUFFICES ASSUME IInv, IInv', clocked = TRUE, [Next]_vars
               PROVE  [Abstract!Next]_(Abstract!vars)
    OBVIOUS
  <1>1. CASE \E q \in Ports, m \in Masks, w \in Modes : SetPortMode(q, m, w)
    BY <1>1, CallAsks, MasksAssumption DEF Abstract!Next
  <1>2. CASE Store
    BY <1>2, StoreSwitches DEF Abstract!Next, Abstract!vars
  <1>3. CASE Shift
    BY <1>3 DEF Shift, Role, Asked, Setting, Abstract!vars
  <1>4. CASE UNCHANGED vars
    BY <1>4 DEF vars, Role, Asked, Setting, Abstract!vars
  <1> QED BY <1>1, <1>2, <1>3, <1>4 DEF Next

(* The loop implements PadRoles: no store of a call, on any pad in any     *)
(* state of the port, shows a role that is neither the old nor the new.    *)
THEOREM NoGlitch == Spec => ImplementsRoles
  <1>1. Init => Abstract!Init
    BY InitRoles DEF Init, AtReset
  <1> QED BY <1>1, SpecInv, StepRoles, PTL
          DEF Spec, ImplementsRoles, Abstract!Spec

-------------------------------------------------------------------------------
(* The start of the board *)

Port(name) == GPIO_PORT(BoardPads[name])
Pad(name) == GPIO_PAD(BoardPads[name])

(* The pads in the order boardInit configures them: items 5 to 25.         *)
PadOrder == <<"EN", "EN2", "IRQ", "MOD", "ASK_OOK", "IO0", "IO1", "IO2", "IO3",
              "IO4", "IO5", "IO6", "IO7", "SPI1_SCK", "UART_TX", "UART_RX",
              "OTG_FS_DM", "OTG_FS_DP", "LED0", "LED1", "BUTTON">>

LEMMA NamePacked ==
    ASSUME NEW q \in 0 .. 3, NEW p \in 0 .. 15
    PROVE  /\ GPIO_PORT(DECLARE_GPIO(q, p)) = q /\ GPIO_PAD(DECLARE_GPIO(q, p)) = p
           /\ DECLARE_GPIO(q, p) = 256 * q + p
  BY SMT DEF GPIO_PORT, GPIO_PAD, DECLARE_GPIO

(* Each pad lies in a port of the chip, and no two in the same place.      *)
LEMMA PadsApart ==
    /\ \A a \in Names : Port(a) \in 0 .. 3 /\ Pad(a) \in Pads
    /\ \A a, b \in Names : Port(a) = Port(b) /\ Pad(a) = Pad(b) => a = b
    /\ \A a \in Names : Port(a) \in Ports /\ Port(a) \in Blocks
                        /\ stm32_ports(Port(a)) = Port(a)
<1>1. \A a \in Names : \E q \in 0 .. 3, p \in 0 .. 15 : BoardPads[a] = DECLARE_GPIO(q, p)
  BY DEF BoardPads, Names
<1>2. \A a, b \in Names : BoardPads[a] = BoardPads[b] => a = b
  BY SMT DEF BoardPads, Names, DECLARE_GPIO
<1>3. ASSUME NEW a \in Names
      PROVE  /\ Port(a) \in 0 .. 3 /\ Pad(a) \in Pads
             /\ BoardPads[a] = 256 * Port(a) + Pad(a)
  BY <1>1, NamePacked DEF Port, Pad, Pads
<1>4. ASSUME NEW a \in Names, NEW b \in Names, Port(a) = Port(b), Pad(a) = Pad(b)
      PROVE  a = b
  BY <1>2, <1>3, <1>4
<1>5. ASSUME NEW a \in Names
      PROVE  /\ Port(a) \in Ports /\ Port(a) \in Blocks
             /\ stm32_ports(Port(a)) = Port(a)
  BY <1>3, BlockOfPort, BoardAssumption
<1> QED BY <1>3, <1>4, <1>5

LEMMA ScriptItems ==
    /\ Len(BoardInit) = 27 /\ DOMAIN Script = 1 .. 39
    /\ Script[1] = Call("gpioInit", "-") /\ Script[2] = Call("clear", "EN")
    /\ Script[3] = Call("clear", "EN2") /\ Script[4] = Call("set", "IO4")
    /\ \A i \in 5 .. 25 : Script[i] = Call("mode", PadOrder[i - 4])
    /\ Script[26] = Call("spiStart", "-") /\ Script[27] = Call("extStart", "-")
    /\ Script[28] = Call("extChannelEnable", "-")
    /\ Script[29] = Call("driverInit", "-") /\ Script[30] = Call("set", "LED1")
    /\ Script[31] = Call("acquireBus", "-") /\ Script[32] = Call("clear", "IO4")
    /\ Script[33] = Call("clear", "EN") /\ Script[34] = Call("clear", "IO0")
    /\ Script[35] = Call("set", "IO1") /\ Script[36] = Call("set", "IO2")
    /\ Script[37] = Call("set", "IO4") /\ Script[38] = Call("clear", "IO4")
    /\ Script[39] = Call("set", "EN")
<1> USE DEF Script, BoardInit, NfcThread, TakeBus, ResetHardware, Configure, Call
<1>1. Len(BoardInit) = 27 /\ DOMAIN Script = 1 .. 39
  OBVIOUS
<1>2. /\ Script[1] = Call("gpioInit", "-") /\ Script[2] = Call("clear", "EN")
      /\ Script[3] = Call("clear", "EN2") /\ Script[4] = Call("set", "IO4")
      /\ Script[26] = Call("spiStart", "-") /\ Script[27] = Call("extStart", "-")
  OBVIOUS
<1>3. \A i \in 5 .. 25 : Script[i] = Call("mode", PadOrder[i - 4])
  BY DEF PadOrder
<1>4. /\ Script[28] = Call("extChannelEnable", "-")
      /\ Script[29] = Call("driverInit", "-") /\ Script[30] = Call("set", "LED1")
      /\ Script[31] = Call("acquireBus", "-") /\ Script[32] = Call("clear", "IO4")
    /\ Script[33] = Call("clear", "EN") /\ Script[34] = Call("clear", "IO0")
      /\ Script[35] = Call("set", "IO1") /\ Script[36] = Call("set", "IO2")
      /\ Script[37] = Call("set", "IO4") /\ Script[38] = Call("clear", "IO4")
      /\ Script[39] = Call("set", "EN")
  OBVIOUS
<1> QED BY <1>1, <1>2, <1>3, <1>4

(* Where an item of the script is found. *)
LEMMA ItemAt ==
    ASSUME NEW i \in 1 .. 39, NEW op, NEW name, Script[i] = Call(op, name)
    PROVE  /\ op = "gpioInit" <=> i = 1
           /\ op = "mode" <=> i \in 5 .. 25
           /\ op = "mode" => name = PadOrder[i - 4]
           /\ op = "spiStart" <=> i = 26
           /\ op = "extChannelEnable" <=> i = 28
           /\ op = "driverInit" <=> i = 29
           /\ op = "acquireBus" <=> i = 31
           /\ op = "set" => CASE i = 4 \/ i = 37 -> name = "IO4" [] i = 30 -> name = "LED1"
                              [] i = 35 -> name = "IO1" [] i = 36 -> name = "IO2"
                              [] i = 39 -> name = "EN" [] OTHER -> FALSE
           /\ op = "clear" => CASE i = 2 \/ i = 33 -> name = "EN" [] i = 3 -> name = "EN2"
                                [] i = 34 -> name = "IO0"
                                [] i = 32 \/ i = 38 -> name = "IO4"
                                [] OTHER -> FALSE
  BY ScriptItems, SMT DEF Call

(* Setting or clearing a pad changes its level and no other. *)
LEMMA LevelWritten ==
    ASSUME NEW a \in Names, clocked = TRUE, odr \in [Blocks -> SUBSET Pads]
    PROVE  /\ SetPad(BoardPads[a]) =>
                 /\ odr' \in [Blocks -> SUBSET Pads]
                 /\ \A b \in Names : Level(b)' <=> (Level(b) \/ b = a)
           /\ ClearPad(BoardPads[a]) =>
                 /\ odr' \in [Blocks -> SUBSET Pads]
                 /\ \A b \in Names : Level(b)' <=> (Level(b) /\ b # a)
<1>1. /\ \A b \in Names : Port(b) \in Blocks /\ Pad(b) \in Pads
      /\ \A b \in Names : Port(b) = Port(a) /\ Pad(b) = Pad(a) => b = a
      /\ \A b \in Names : Level(b) = (Pad(b) \in odr[Port(b)])
      /\ \A b \in Names : Level(b)' = (Pad(b) \in odr'[Port(b)])
  BY PadsApart DEF Level, Port, Pad
<1>2. ASSUME SetPad(BoardPads[a])
      PROVE  /\ odr' \in [Blocks -> SUBSET Pads]
             /\ \A b \in Names : Level(b)' <=> (Level(b) \/ b = a)
  <2>1. odr' = [odr EXCEPT ![Port(a)] = @ \cup {Pad(a)}]
    BY <1>2, PadsApart DEF SetPad, Port, Pad
  <2>2. odr' \in [Blocks -> SUBSET Pads]
    BY <1>1, <2>1
  <2>3. \A b \in Names : (Pad(b) \in odr'[Port(b)]) = (Pad(b) \in odr[Port(b)] \/ b = a)
    BY <1>1, <2>1
  <2> QED BY <1>1, <2>2, <2>3
<1>3. ASSUME ClearPad(BoardPads[a])
      PROVE  /\ odr' \in [Blocks -> SUBSET Pads]
             /\ \A b \in Names : Level(b)' <=> (Level(b) /\ b # a)
  <2>1. odr' = [odr EXCEPT ![Port(a)] = @ \ {Pad(a)}]
    BY <1>3, PadsApart DEF ClearPad, Port, Pad
  <2>2. odr' \in [Blocks -> SUBSET Pads]
    BY <1>1, <2>1
  <2>3. \A b \in Names : (Pad(b) \in odr'[Port(b)]) = (Pad(b) \in odr[Port(b)] /\ b # a)
    BY <1>1, <2>1
  <2> QED BY <1>1, <2>2, <2>3
<1> QED BY <1>2, <1>3

(* How far the start is: the items before next have been called, and the   *)
(* pads in their order have the modes asked for; the levels of the pads    *)
(* that choose and enable the chip are those of the last item that wrote   *)
(* them.                                                                   *)
LevelsInv ==
    /\ next < 40 => ~Level("EN")
    /\ next \in 5 .. 32 \/ next = 38 => Level("IO4")
    /\ next > 38 => ~Level("IO4")
    /\ next > 34 => ~Level("IO0")
    /\ next > 35 => Level("IO1")
    /\ next > 36 => Level("IO2")

ModesInv ==
    /\ next <= 5 => want = Reset
    /\ store # 0 => next \in 6 .. 26
    /\ \A i \in 5 .. 25 : i < next =>
          want[Port(PadOrder[i - 4])][Pad(PadOrder[i - 4])] = BoardModes[PadOrder[i - 4]]

StageInv ==
    /\ next \in 1 .. 40 /\ clocked = (next > 1)
    /\ sck = IF next > 26 THEN SpiClockOf(SpiDivider) ELSE 0
    /\ channel \in BOOLEAN /\ source \in BOOLEAN /\ edge \in BOOLEAN
    /\ channel => next > 28
    /\ source = (next > 29)
    /\ held \in BOOLEAN /\ held = (next > 31)

BootInv == IInv /\ StageInv /\ ModesInv /\ LevelsInv

LEMMA OrderNames ==
    /\ \A k \in 1 .. 21 : PadOrder[k] \in Names
    /\ \A k, l \in 1 .. 21 : PadOrder[k] = PadOrder[l] => k = l
    /\ \A name \in Names : \E k \in 1 .. 21 : name = PadOrder[k]
<1>1. \A k \in 1 .. 21 : PadOrder[k] \in Names
  BY DEF PadOrder, Names, BoardPads
<1>2. \A k, l \in 1 .. 21 : PadOrder[k] = PadOrder[l] => k = l
  BY DEF PadOrder
<1>3. \A name \in Names : \E k \in 1 .. 21 : name = PadOrder[k]
  BY DEF PadOrder, Names, BoardPads
<1> QED BY <1>1, <1>2, <1>3

(* The pads the properties name are pads of the board. *)
LEMMA SomeNames ==
    {"EN", "IO0", "IO1", "IO2", "IO4", "IO6", "IO7", "SPI1_SCK", "LED0"} \subseteq Names
BY DEF Names, BoardPads

LEMMA BootStarts == BoardStart => BootInv
<1> SUFFICES ASSUME BoardStart PROVE BootInv
  OBVIOUS
<1>1. IInv
  BY InitInv DEF BoardStart, AtReset
<1>2. StageInv
  <2>1. /\ next = 1 /\ clocked = FALSE /\ sck = 0
        /\ channel = FALSE /\ source = FALSE /\ held = FALSE /\ edge = FALSE
    BY DEF BoardStart
  <2>2. (1 > 31) = FALSE /\ (1 > 1) = FALSE /\ (1 > 29) = FALSE /\ (1 > 26) = FALSE /\ 1 \in 1 .. 40
    OBVIOUS
  <2> QED BY <2>1, <2>2, Zenon DEF StageInv
<1>4. ModesInv
  BY DEF BoardStart, ModesInv
<1>3. LevelsInv
  BY SomeNames, PadsApart DEF BoardStart, LevelsInv, Level, Port
<1> QED BY <1>1, <1>2, <1>3, <1>4 DEF BootInv

LEMMA ItemCalled ==
    ASSUME BootInv, NEW op, NEW name, At(op, name)
    PROVE  /\ next \in 1 .. 39 /\ next' = next + 1 /\ next' \in 2 .. 40
           /\ store = 0 /\ Script[next] = Call(op, name)
BY ScriptItems DEF At, BootInv, StageInv

(* A call that only moves the script on, or a step outside it. *)
LEMMA PadsUntouched ==
    ASSUME BootInv, UNCHANGED vars, next' \in next .. next + 1, store = 0,
           next' # next => next \in 26 .. 29 \/ next = 31
    PROVE  IInv' /\ ModesInv' /\ LevelsInv'
<1>1. IInv'
  <2>1. odr' \in [Blocks -> SUBSET Pads] /\ clocked' \in BOOLEAN
    BY DEF vars, BootInv, IInv, TypeOK
  <2> QED BY <2>1, SameInv DEF vars, BootInv
<1>2. ModesInv'
  <2>1. want' = want /\ store' = 0
    BY DEF vars, callVars
  <2>2. next \in 1 .. 40
    BY DEF BootInv, StageInv
  <2> QED BY <2>1, <2>2 DEF BootInv, ModesInv
<1>3. LevelsInv'
  <2>1. \A name : Level(name)' = Level(name)
    BY DEF Level, vars
  <2>2. next \in 1 .. 40
    BY DEF BootInv, StageInv
  <2> QED BY <2>1, <2>2 DEF BootInv, LevelsInv
<1> QED BY <1>1, <1>2, <1>3

LEMMA PadCallKeeps == ASSUME BootInv, PadCall PROVE BootInv'
<1>1. PICK name \in Names : \/ At("set", name) /\ SetPad(BoardPads[name])
                            \/ At("clear", name) /\ ClearPad(BoardPads[name])
  BY DEF PadCall
<1>2. PICK op \in {"set", "clear"} : At(op, name)
  BY <1>1
<1>3. /\ next \in 1 .. 39 /\ next' = next + 1 /\ store = 0
      /\ Script[next] = Call(op, name)
  BY <1>2, ItemCalled
<1>4. UNCHANGED <<clocked, reg, callVars, want, sck, channel, source, held, edge>>
  BY DEF PadCall
<1>5. next # 1 /\ next \notin 5 .. 25 /\ next # 26 /\ next # 28 /\ next # 29
      /\ next # 31
  BY <1>2, <1>3, ItemAt
<1>6. clocked = TRUE /\ odr \in [Blocks -> SUBSET Pads]
  <2>1. clocked = (next > 1) /\ (next > 1) = TRUE
    BY <1>3, <1>5 DEF BootInv, StageInv
  <2> QED BY <2>1 DEF BootInv, IInv, TypeOK
<1>7. IInv'
  <2>1. odr' \in [Blocks -> SUBSET Pads]
    BY <1>1, <1>6, LevelWritten
  <2> QED BY <1>4, <1>6, <2>1, SameInv DEF BootInv
<1>8. StageInv'
  <2>1. /\ (next' > 1) = TRUE /\ (next' > 26) = (next > 26)
        /\ (next' > 29) = (next > 29) /\ (next > 28 => next' > 28)
        /\ (next' > 31) = (next > 31) /\ next' \in 1 .. 40
    BY <1>3, <1>5
  <2> QED BY <1>4, <1>6, <2>1, Zenon DEF BootInv, StageInv
<1>9. ModesInv'
  <2>1. store' = 0 /\ want' = want
    BY <1>3, <1>4 DEF callVars
  <2>2. next' <= 5 => next <= 5
    BY <1>3
  <2>3. \A i \in 5 .. 25 : i < next' => i < next
    BY <1>3, <1>5
  <2> QED BY <2>1, <2>2, <2>3 DEF BootInv, ModesInv
<1>10. LevelsInv'
  <2>1. CASE At("set", name) /\ SetPad(BoardPads[name])
    <3>1. \A b \in Names : Level(b)' <=> (Level(b) \/ b = name)
      BY <1>6, <2>1, LevelWritten
    <3>2. /\ next \in 1 .. 39 /\ next' = next + 1
          /\ CASE next = 4 \/ next = 37 -> name = "IO4" [] next = 30 -> name = "LED1"
               [] next = 35 -> name = "IO1" [] next = 36 -> name = "IO2"
               [] next = 39 -> name = "EN" [] OTHER -> FALSE
      BY <2>1, <1>3, ItemCalled, ItemAt
    <3>3. /\ Level("EN")' <=> (Level("EN") \/ "EN" = name)
          /\ Level("IO0")' <=> (Level("IO0") \/ "IO0" = name)
          /\ Level("IO1")' <=> (Level("IO1") \/ "IO1" = name)
          /\ Level("IO2")' <=> (Level("IO2") \/ "IO2" = name)
          /\ Level("IO4")' <=> (Level("IO4") \/ "IO4" = name)
      BY <3>1, SomeNames
    <3>4. LevelsInv
      BY DEF BootInv
    <3> QED BY ONLY <3>2, <3>3, <3>4, SMT DEF LevelsInv
  <2>2. CASE At("clear", name) /\ ClearPad(BoardPads[name])
    <3>1. \A b \in Names : Level(b)' <=> (Level(b) /\ b # name)
      BY <1>6, <2>2, LevelWritten
    <3>2. /\ next \in 1 .. 39 /\ next' = next + 1
          /\ CASE next = 2 \/ next = 33 -> name = "EN" [] next = 3 -> name = "EN2"
               [] next = 34 -> name = "IO0"
               [] next = 32 \/ next = 38 -> name = "IO4" [] OTHER -> FALSE
      BY <2>2, <1>3, ItemCalled, ItemAt
    <3>3. /\ Level("EN")' <=> (Level("EN") /\ "EN" # name)
          /\ Level("IO0")' <=> (Level("IO0") /\ "IO0" # name)
          /\ Level("IO1")' <=> (Level("IO1") /\ "IO1" # name)
          /\ Level("IO2")' <=> (Level("IO2") /\ "IO2" # name)
          /\ Level("IO4")' <=> (Level("IO4") /\ "IO4" # name)
      BY <3>1, SomeNames
    <3>4. LevelsInv
      BY DEF BootInv
    <3> QED BY ONLY <3>2, <3>3, <3>4, SMT DEF LevelsInv
  <2> QED BY <1>1, <2>1, <2>2
<1> QED BY <1>7, <1>8, <1>9, <1>10 DEF BootInv

LEMMA ConfigureKeeps == ASSUME BootInv, ConfigurePad PROVE BootInv'
<1>1. PICK name \in Names :
         /\ At("mode", name)
         /\ SetPortMode(Port(name), {Pad(name)}, BoardModes[name])
  BY DEF ConfigurePad, Port, Pad
<1>2. /\ next \in 1 .. 39 /\ next' = next + 1 /\ store = 0
      /\ Script[next] = Call("mode", name)
  BY <1>1, ItemCalled
<1>3. next \in 5 .. 25 /\ name = PadOrder[next - 4]
  BY <1>2, ItemAt
<1>4. UNCHANGED <<sck, channel, source, held, edge, clocked, reg, odr>> /\ store' = 1
  BY <1>1 DEF ConfigurePad, SetPortMode
<1>5. /\ Port(name) \in Ports /\ Port(name) \in Blocks /\ Pad(name) \in Pads
      /\ {Pad(name)} \in SUBSET Pads /\ BoardModes[name] \in Modes
  BY PadsApart, BoardAssumption
<1>6. IInv'
  BY <1>1, <1>5, CallInv DEF BootInv
<1>7. StageInv'
  <2>1. /\ (next' > 1) = (next > 1) /\ (next' > 26) = (next > 26)
        /\ (next' > 29) = (next > 29) /\ (next > 28 => next' > 28)
        /\ (next' > 31) = (next > 31) /\ next' \in 1 .. 40
    BY <1>2, <1>3
  <2> QED BY <1>4, <2>1, Zenon DEF BootInv, StageInv
<1>8. ModesInv'
  <2>1. /\ want' = [want EXCEPT ![Port(name)] =
                      [p \in Pads |-> IF p \in {Pad(name)} THEN BoardModes[name] ELSE @[p]]]
        /\ want \in [Blocks -> [Pads -> Modes]]
    BY <1>1 DEF SetPortMode, BootInv, IInv, TypeOK
  <2>2. \A b \in Names : want'[Port(b)][Pad(b)] =
                           IF b = name THEN BoardModes[name] ELSE want[Port(b)][Pad(b)]
    BY <1>5, <2>1, PadsApart
  <2>3. ASSUME NEW i \in 5 .. 25, i < next'
        PROVE  want'[Port(PadOrder[i - 4])][Pad(PadOrder[i - 4])]
                 = BoardModes[PadOrder[i - 4]]
    <3>1. PadOrder[i - 4] \in Names
      BY OrderNames
    <3>2. CASE PadOrder[i - 4] = name
      BY <2>2, <3>1, <3>2
    <3>3. CASE PadOrder[i - 4] # name
      <4>1. i < next
        BY <1>2, <1>3, <2>3, <3>3
      <4> QED BY <2>2, <3>1, <3>3, <4>1 DEF BootInv, ModesInv
    <3> QED BY <3>2, <3>3
  <2> QED BY <1>2, <1>3, <1>4, <2>3 DEF ModesInv
<1>9. LevelsInv'
  <2>1. \A b : Level(b)' = Level(b)
    BY <1>4 DEF Level
  <2> QED BY <1>2, <1>3, <2>1 DEF BootInv, LevelsInv
<1> QED BY <1>6, <1>7, <1>8, <1>9 DEF BootInv

LEMMA PadStepKeeps == ASSUME BootInv, PadStep PROVE BootInv'
<1>1. /\ Store \/ Shift
      /\ next' = next /\ sck' = sck /\ channel' = channel /\ source' = source /\ held' = held
      /\ edge' = edge
      /\ clocked' = clocked /\ odr' = odr /\ want' = want
  BY DEF PadStep, boardVars, Store, Shift
<1>2. next \in 6 .. 26
  <2>1. store # 0
    BY <1>1 DEF Store, Shift
  <2> QED BY <2>1 DEF BootInv, ModesInv
<1>3. clocked = TRUE
  <2>1. (next > 1) = TRUE
    BY <1>2
  <2> QED BY <2>1 DEF BootInv, StageInv
<1>4. IInv'
  BY <1>1, <1>3, StoreInv, ShiftInv DEF BootInv
<1>5. StageInv'
  BY <1>1, Zenon DEF BootInv, StageInv
<1>6. ModesInv'
  BY <1>1, <1>2 DEF BootInv, ModesInv
<1>7. LevelsInv'
  <2>1. \A b : Level(b)' = Level(b)
    BY <1>1 DEF Level
  <2> QED BY <1>1, <2>1 DEF BootInv, LevelsInv
<1> QED BY <1>4, <1>5, <1>6, <1>7 DEF BootInv

LEMMA GpioInitKeeps == ASSUME BootInv, GpioInit PROVE BootInv'
<1>1. /\ next = 1 /\ next' = 2 /\ store = 0 /\ clocked' = TRUE
      /\ UNCHANGED <<reg, odr, callVars, want, sck, channel, source, held, edge>>
  BY ItemCalled, ItemAt DEF GpioInit
<1>2. IInv'
  <2>1. odr' \in [Blocks -> SUBSET Pads]
    BY <1>1 DEF BootInv, IInv, TypeOK
  <2> QED BY <1>1, <2>1, SameInv DEF BootInv
<1>3. StageInv'
  <2>1. /\ (2 > 1) = TRUE /\ (2 > 26) = (1 > 26) /\ (2 > 29) = (1 > 29) /\ (2 > 31) = (1 > 31)
        /\ ~(1 > 28) /\ 2 \in 1 .. 40
    OBVIOUS
  <2> QED BY <1>1, <2>1, Zenon DEF BootInv, StageInv
<1>4. ModesInv'
  BY <1>1 DEF BootInv, ModesInv, callVars
<1>5. LevelsInv'
  <2>1. \A b : Level(b)' = Level(b)
    BY <1>1 DEF Level
  <2> QED BY <1>1, <2>1 DEF BootInv, LevelsInv
<1> QED BY <1>2, <1>3, <1>4, <1>5 DEF BootInv

LEMMA OtherItemsKeep ==
    ASSUME BootInv, SpiStart \/ ExtStart \/ ChannelEnable \/ DriverInit \/ AcquireBus
    PROVE  BootInv'
<1>1. /\ next \in 26 .. 29 \/ next = 31
      /\ next' = next + 1 /\ store = 0 /\ UNCHANGED vars
      /\ next = 26 => /\ sck' = SpiClockOf(SpiDivider)
                      /\ UNCHANGED <<channel, source, held, edge>>
      /\ next = 27 => UNCHANGED <<sck, channel, source, held, edge>>
      /\ next = 28 => channel' = TRUE /\ UNCHANGED <<sck, source, held, edge>>
      /\ next = 29 => source' = TRUE /\ UNCHANGED <<sck, channel, held, edge>>
      /\ next = 31 => held' = TRUE /\ UNCHANGED <<sck, channel, source, edge>>
  <2>1. CASE SpiStart
    <3>1. next = 26 /\ next' = next + 1 /\ store = 0
      BY <2>1, ItemCalled, ItemAt DEF SpiStart
    <3> QED BY <2>1, <3>1 DEF SpiStart
  <2>2. CASE ExtStart
    <3>1. next = 27 /\ next' = next + 1 /\ store = 0
      <4>1. At("extStart", "-")
        BY <2>2 DEF ExtStart
      <4>2. /\ next \in 1 .. 39 /\ next' = next + 1 /\ store = 0
            /\ Script[next] = Call("extStart", "-")
        BY <4>1, ItemCalled
      <4>3. next = 27
        BY <4>2, ScriptItems, SMT DEF Call
      <4> QED BY <4>2, <4>3
    <3> QED BY <2>2, <3>1 DEF ExtStart
  <2>3. CASE ChannelEnable
    <3>1. next = 28 /\ next' = next + 1 /\ store = 0
      BY <2>3, ItemCalled, ItemAt DEF ChannelEnable
    <3> QED BY <2>3, <3>1 DEF ChannelEnable
  <2>4. CASE DriverInit
    <3>1. next = 29 /\ next' = next + 1 /\ store = 0
      BY <2>4, ItemCalled, ItemAt DEF DriverInit
    <3> QED BY <2>4, <3>1 DEF DriverInit
  <2>5. CASE AcquireBus
    <3>1. next = 31 /\ next' = next + 1 /\ store = 0
      BY <2>5, ItemCalled, ItemAt DEF AcquireBus
    <3> QED BY <2>5, <3>1 DEF AcquireBus
  <2> QED BY <2>1, <2>2, <2>3, <2>4, <2>5
<1>2. IInv' /\ ModesInv' /\ LevelsInv'
  <2>1. next' \in next .. next + 1
    BY <1>1
  <2> QED BY <1>1, <2>1, PadsUntouched
<1>3. StageInv'
  <2>1. /\ clocked' = clocked /\ clocked = (next > 1)
        /\ sck = IF next > 26 THEN SpiClockOf(SpiDivider) ELSE 0
        /\ channel \in BOOLEAN /\ source \in BOOLEAN /\ edge \in BOOLEAN
        /\ channel => next > 28
        /\ source = (next > 29) /\ held \in BOOLEAN /\ held = (next > 31)
    BY <1>1 DEF BootInv, StageInv, vars
  <2>2. next' \in 1 .. 40 /\ (next' > 1) = (next > 1)
    BY <1>1
  <2>3. sck' = IF next' > 26 THEN SpiClockOf(SpiDivider) ELSE 0
    BY <1>1, <2>1
  <2>4. channel' \in BOOLEAN /\ (channel' => next' > 28)
    <3>1. CASE next = 28
      <4>1. channel' = TRUE /\ next' > 28
        BY <1>1, <3>1
      <4> QED BY <4>1, Zenon
    <3>2. CASE next # 28
      <4>1. channel' = channel /\ (next > 28 => next' > 28)
        BY <1>1, <3>2
      <4> QED BY <2>1, <4>1, Zenon
    <3> QED BY <3>1, <3>2
  <2>5. source' \in BOOLEAN /\ source' = (next' > 29)
    <3>1. CASE next = 29
      <4>1. source' = TRUE /\ (next' > 29) = TRUE
        BY <1>1, <3>1
      <4> QED BY <4>1, Zenon
    <3>2. CASE next # 29
      <4>1. source' = source /\ (next > 29) = (next' > 29)
        BY <1>1, <3>2
      <4> QED BY <2>1, <4>1, Zenon
    <3> QED BY <3>1, <3>2
  <2>6. held' \in BOOLEAN /\ held' = (next' > 31)
    <3>1. CASE next = 31
      <4>1. held' = TRUE /\ (next' > 31) = TRUE
        BY <1>1, <3>1
      <4> QED BY <4>1, Zenon
    <3>2. CASE next # 31
      <4>1. held' = held /\ (next > 31) = (next' > 31)
        BY <1>1, <3>2
      <4> QED BY <2>1, <4>1, Zenon
    <3> QED BY <3>1, <3>2
  <2>7. edge' \in BOOLEAN
    BY <1>1, <2>1
  <2> QED BY <2>1, <2>2, <2>3, <2>4, <2>5, <2>6, <2>7, Zenon DEF StageInv
<1> QED BY <1>2, <1>3 DEF BootInv

LEMMA EdgesKeep ==
    ASSUME BootInv, Edge \/ Isr
    PROVE  BootInv'
<1>1. UNCHANGED <<vars, next, sck, channel, source, held>> /\ edge' \in BOOLEAN
  BY DEF Edge, Isr
<1>2. IInv'
  <2>1. odr' \in [Blocks -> SUBSET Pads] /\ clocked' \in BOOLEAN
    BY <1>1 DEF vars, BootInv, IInv, TypeOK
  <2> QED BY <1>1, <2>1, SameInv DEF vars, BootInv
<1>3. StageInv'
  BY <1>1, Zenon DEF vars, BootInv, StageInv
<1>4. ModesInv'
  BY <1>1 DEF vars, callVars, BootInv, ModesInv
<1>5. LevelsInv'
  <2>1. \A b : Level(b)' = Level(b)
    BY <1>1 DEF Level, vars
  <2> QED BY <1>1, <2>1 DEF BootInv, LevelsInv
<1> QED BY <1>2, <1>3, <1>4, <1>5 DEF BootInv

LEMMA BlinkKeeps == ASSUME BootInv, Blink PROVE BootInv'
<1>1. /\ next > 27 /\ UNCHANGED <<clocked, reg, callVars, want, boardVars>>
      /\ SetPad(BoardPads["LED0"]) \/ ClearPad(BoardPads["LED0"])
  BY ScriptItems DEF Blink, Booted
<1>2. clocked = TRUE /\ odr \in [Blocks -> SUBSET Pads]
  <2>1. (next > 1) = TRUE
    BY <1>1 DEF BootInv, StageInv
  <2> QED BY <2>1 DEF BootInv, StageInv, IInv, TypeOK
<1>3. IInv'
  <2>1. odr' \in [Blocks -> SUBSET Pads]
    BY <1>1, <1>2, LevelWritten, SomeNames
  <2> QED BY <1>1, <1>2, <2>1, SameInv DEF BootInv
<1>4. StageInv'
  BY <1>1, Zenon DEF boardVars, BootInv, StageInv
<1>5. ModesInv'
  BY <1>1 DEF boardVars, callVars, BootInv, ModesInv
<1>6. LevelsInv'
  <2>1. \A b \in Names : b # "LED0" => (Level(b)' <=> Level(b))
    BY <1>1, <1>2, LevelWritten, SomeNames
  <2>2. /\ (Level("EN")' <=> Level("EN")) /\ (Level("IO0")' <=> Level("IO0"))
        /\ (Level("IO1")' <=> Level("IO1")) /\ (Level("IO2")' <=> Level("IO2"))
        /\ (Level("IO4")' <=> Level("IO4"))
    BY <2>1, SomeNames
  <2> QED BY <1>1, <2>2 DEF boardVars, BootInv, LevelsInv
<1> QED BY <1>3, <1>4, <1>5, <1>6 DEF BootInv

LEMMA BootInvStep == BootInv /\ [BoardNext]_allVars => BootInv'
<1> SUFFICES ASSUME BootInv, [BoardNext]_allVars PROVE BootInv'
  OBVIOUS
<1>1. CASE GpioInit
  BY <1>1, GpioInitKeeps
<1>2. CASE PadCall
  BY <1>2, PadCallKeeps
<1>3. CASE ConfigurePad
  BY <1>3, ConfigureKeeps
<1>4. CASE PadStep
  BY <1>4, PadStepKeeps
<1>5. CASE SpiStart \/ ExtStart \/ ChannelEnable \/ DriverInit \/ AcquireBus
  BY <1>5, OtherItemsKeep
<1>6. CASE Edge \/ Isr
  BY <1>6, EdgesKeep
<1>7. CASE Blink
  BY <1>7, BlinkKeeps
<1>8. CASE UNCHANGED allVars
  <2>1. UNCHANGED <<vars, next, sck, channel, source, held, edge>>
    BY <1>8 DEF allVars, boardVars
  <2>2. IInv'
    <3>1. odr' \in [Blocks -> SUBSET Pads] /\ clocked' \in BOOLEAN
      BY <2>1 DEF vars, BootInv, IInv, TypeOK
    <3> QED BY <2>1, <3>1, SameInv DEF vars, BootInv
  <2>3. StageInv'
    BY <2>1, Zenon DEF vars, BootInv, StageInv
  <2>4. ModesInv'
    BY <2>1 DEF vars, callVars, BootInv, ModesInv
  <2>5. LevelsInv'
    <3>1. \A b : Level(b)' = Level(b)
      BY <2>1 DEF Level, vars
    <3> QED BY <2>1, <3>1 DEF BootInv, LevelsInv
  <2> QED BY <2>2, <2>3, <2>4, <2>5 DEF BootInv
<1> QED BY <1>1, <1>2, <1>3, <1>4, <1>5, <1>6, <1>7, <1>8 DEF BoardNext

LEMMA AlwaysBoot == BoardSpec => []BootInv
BY BootStarts, BootInvStep, PTL DEF BoardSpec

(* The mode and the level of the pads, once boardInit is over. *)
LEMMA AllConfigured ==
    ASSUME BootInv, next > 25, store = 0, NEW name \in Names
    PROVE  /\ want[Port(name)][Pad(name)] = BoardModes[name]
           /\ \A f \in Fields : Is(name, f) = Field(BoardModes[name], f)
<1>1. PICK k \in 1 .. 21 : name = PadOrder[k]
  BY OrderNames
<1>2. k + 4 \in 5 .. 25 /\ k + 4 < next /\ (k + 4) - 4 = k
  BY DEF BootInv, StageInv
<1>3. want[Port(name)][Pad(name)] = BoardModes[name]
  BY <1>1, <1>2 DEF BootInv, ModesInv
<1>4. Port(name) \in Blocks /\ Pad(name) \in Pads /\ stm32_ports(Port(name)) = Port(name)
  BY PadsApart
<1>5. Done(Port(name), Pad(name))
  BY <1>4 DEF BootInv, IInv, Passed
<1> QED BY <1>3, <1>4, <1>5 DEF Done, Is, Port, Pad

LEMMA DeclaredModes ==
    /\ \A name \in {"EN", "IO0", "IO1", "IO2", "IO4"} :
          Field(BoardModes[name], "MODER") = 1 /\ Field(BoardModes[name], "OTYPER") = 0
    /\ \A name \in {"SPI1_SCK", "IO6", "IO7"} :
          Field(BoardModes[name], "MODER") = 2 /\ Field(BoardModes[name], "AFR") = 5
BY SMT DEF BoardModes, Field, Fast, GPIO_MODE_OUTPUT_PUSHPULL, GPIO_STM32_MODE_OUTPUT,
           GPIO_STM32_OSPEED_HIGHEST, GPIO_MODE_ALTERNATE, GPIO_STM32_MODE_ALTERNATE

LEMMA RolesConfigured ==
    ASSUME BootInv, next > 26
    PROVE  /\ \A name \in {"EN", "IO0", "IO1", "IO2", "IO4"} : Output(name)
           /\ \A name \in {"SPI1_SCK", "IO6", "IO7"} : OnSpi(name)
<1>1. store = 0 /\ next > 25
  BY DEF BootInv, StageInv, ModesInv
<1>2. {"MODER", "OTYPER", "AFR"} \subseteq Fields
  BY DEF Fields
<1>3. ASSUME NEW name \in {"EN", "IO0", "IO1", "IO2", "IO4"} PROVE Output(name)
  BY <1>1, <1>2, AllConfigured, DeclaredModes, SomeNames
     DEF Output, GPIO_STM32_MODE_OUTPUT
<1>4. ASSUME NEW name \in {"SPI1_SCK", "IO6", "IO7"} PROVE OnSpi(name)
  BY <1>1, <1>2, AllConfigured, DeclaredModes, SomeNames
     DEF OnSpi, GPIO_STM32_MODE_ALTERNATE
<1> QED BY <1>3, <1>4

(* The divider is 32: 24 MHz to 750 kHz as board.c computes it, and 1.5    *)
(* MHz on the bus that SPI1 really divides.                                *)
LEMMA DividerIs == SpiDivider = 32 /\ SpiClockOf(SpiDivider) = 1500000
<1>1. STM32_PCLK1 = 24000000 /\ STM32_PCLK2 = 48000000
  BY SMT DEF STM32_PCLK1, STM32_PCLK2, STM32_SYSCLK, STM32_HSECLK
<1> DEFINE Slow(n) == STM32_PCLK1 \div n <= TRF797X_CONF_SPI_CLOCK
<1>2. \A n \in Dividers : Slow(n) <=> n \in {32, 64, 128, 256}
  BY <1>1, SMT DEF Dividers, TRF797X_CONF_SPI_CLOCK
<1>3. SpiDivider = CHOOSE n \in Dividers : Slow(n) /\ \A k \in Dividers : Slow(k) => n <= k
  BY DEF SpiDivider
<1> HIDE DEF Slow
<1>4. \A n \in Dividers : (Slow(n) /\ \A k \in Dividers : Slow(k) => n <= k) <=> n = 32
  <2>1. 32 \in Dividers /\ Slow(32) /\ \A k \in Dividers : Slow(k) => 32 <= k
    BY <1>2 DEF Dividers
  <2>2. \A n \in Dividers : n \in Nat
    BY DEF Dividers
  <2> QED BY <2>1, <2>2
<1>5. 32 \in Dividers
  BY DEF Dividers
<1>6. SpiDivider = 32
  BY <1>3, <1>4, <1>5, Zenon
<1> QED BY <1>1, <1>6, SMT DEF SpiClockOf

(* Every pad of board.h keeps the mode declared for it from the end of     *)
(* boardInit on.                                                           *)
THEOREM ModesAsDeclared == BoardSpec => []PadsAsDeclared
<1>1. ASSUME BootInv PROVE PadsAsDeclared
  <2>1. Booted => next > 25 /\ store = 0
    BY <1>1, ScriptItems DEF Booted, BootInv, StageInv, ModesInv
  <2> QED BY <1>1, <2>1, AllConfigured DEF PadsAsDeclared
<1> QED BY <1>1, AlwaysBoot, PTL

(* The chip is enabled only when its pins say SPI with slave select, it is *)
(* selected, and the bus is running, no faster than the chip takes: the    *)
(* comment of its clock says at most 1 MHz, it runs at 1.5, the chip takes *)
(* 10.                                                                     *)
THEOREM ChipEnabledInSpiMode == BoardSpec => []EnabledInSpiMode
<1>1. ASSUME BootInv, High("EN")
      PROVE  /\ Low("IO0") /\ High("IO1") /\ High("IO2") /\ Low("IO4")
             /\ OnSpi("SPI1_SCK") /\ OnSpi("IO6") /\ OnSpi("IO7")
             /\ sck \in 1 .. TRF797X_SPI_CLK_FREQ_MAX
  <2>1. next = 40
    BY <1>1 DEF BootInv, StageInv, LevelsInv, High
  <2>2. ~Level("IO0") /\ Level("IO1") /\ Level("IO2") /\ ~Level("IO4")
    BY <1>1, <2>1 DEF BootInv, LevelsInv
  <2>3. sck = 1500000
    BY <1>1, <2>1, DividerIs DEF BootInv, StageInv
  <2>S. sck \in 1 .. TRF797X_SPI_CLK_FREQ_MAX
    <3>1. sck \in Nat /\ 1 <= sck /\ sck <= TRF797X_SPI_CLK_FREQ_MAX
      BY <2>3, SMT DEF TRF797X_SPI_CLK_FREQ_MAX
    <3>2. TRF797X_SPI_CLK_FREQ_MAX \in Nat
      BY SMT DEF TRF797X_SPI_CLK_FREQ_MAX
    <3> QED BY <3>1, <3>2, SMT
  <2>4. /\ Output("IO0") /\ Output("IO1") /\ Output("IO2") /\ Output("IO4")
        /\ OnSpi("SPI1_SCK") /\ OnSpi("IO6") /\ OnSpi("IO7")
    BY <1>1, <2>1, RolesConfigured
  <2> QED BY <2>2, <2>S, <2>4 DEF Low, High
<1>2. BootInv => EnabledInSpiMode
  BY <1>1 DEF EnabledInSpiMode
<1> QED BY <1>2, AlwaysBoot, PTL

(* The chip is never selected, not between two register stores either,     *)
(* before the driver has acquired the bus, and then the bus runs: the      *)
(* level of its select line is set before its pad becomes an output.       *)
THEOREM NotSelectedEarly == BoardSpec => []SelectedByDriverOnly
<1>1. ASSUME BootInv, Low("IO4")
      PROVE  /\ held /\ sck # 0
             /\ OnSpi("SPI1_SCK") /\ OnSpi("IO6") /\ OnSpi("IO7")
  <2>1. Output("IO4") /\ ~Level("IO4")
    BY <1>1 DEF Low
  <2>2. next \in 1 .. 4 \/ next > 32
    BY <1>1, <2>1 DEF BootInv, StageInv, LevelsInv
  <2>3. CASE next > 32
    <3>1. held
      <4>1. (next > 31) = TRUE
        BY <1>1, <2>3 DEF BootInv, StageInv
      <4> QED BY <1>1, <4>1 DEF BootInv, StageInv
    <3>2. sck = 1500000
      BY <1>1, <2>3, DividerIs DEF BootInv, StageInv
    <3>3. sck # 0
      BY <3>2, SMT
    <3>4. next > 26
      BY <1>1, <2>3 DEF BootInv, StageInv
    <3> QED BY <1>1, <3>1, <3>3, <3>4, RolesConfigured
  <2>4. CASE next \in 1 .. 4
    <3>1. store = 0 /\ want = Reset
      BY <1>1, <2>4 DEF BootInv, ModesInv
    <3>2. Port("IO4") \in Blocks /\ Pad("IO4") \in Pads
          /\ stm32_ports(Port("IO4")) = Port("IO4")
      BY PadsApart, SomeNames
    <3>3. Done(Port("IO4"), Pad("IO4"))
      BY <1>1, <3>1, <3>2 DEF BootInv, IInv, Passed
    <3>4. Is("IO4", "MODER") = Field(Reset[Port("IO4")][Pad("IO4")], "MODER")
      BY <3>1, <3>2, <3>3 DEF Done, Is, Fields, Port, Pad
    <3> QED BY <2>1, <3>2, <3>4, BoardAssumption DEF Output
  <2> QED BY <2>2, <2>3, <2>4
<1>2. BootInv => SelectedByDriverOnly
  BY <1>1 DEF SelectedByDriverOnly
<1> QED BY <1>2, AlwaysBoot, PTL

(* An edge of the interrupt pin finds an initialised event source, because *)
(* the chip is held off between the enable of the channel and the          *)
(* initialisation of the driver.                                           *)
THEOREM EdgesFindSource == BoardSpec => []EdgeFindsSource
<1>1. BoardStart => EdgeFindsSource
  BY DEF BoardStart, EdgeFindsSource
<1>2. ASSUME BootInv, EdgeFindsSource, [BoardNext]_allVars, edge' PROVE source'
  <2>1. CASE Edge
    <3>1. channel /\ ~Low("EN") /\ source' = source
      BY <2>1 DEF Edge
    <3>2. next > 28 /\ next > 26 /\ next \in 1 .. 40
      BY <1>2, <3>1 DEF BootInv, StageInv
    <3>3. Output("EN")
      BY <1>2, <3>2, RolesConfigured
    <3>4. next = 40
      BY <1>2, <3>1, <3>2, <3>3 DEF BootInv, LevelsInv, Low
    <3>5. (next > 29) = TRUE
      BY <3>4
    <3> QED BY <1>2, <3>1, <3>5 DEF BootInv, StageInv
  <2>2. CASE ~Edge
    <3>1. edge' = edge \/ edge' = FALSE
      BY <1>2, <2>2 DEF BoardNext, allVars, boardVars, GpioInit, PadCall, ConfigurePad,
                        PadStep, SpiStart, ExtStart, ChannelEnable, DriverInit, AcquireBus, Isr, Blink
    <3>2. source' = source \/ source' = TRUE
      BY <1>2, <2>2 DEF BoardNext, allVars, boardVars, GpioInit, PadCall, ConfigurePad,
                        PadStep, SpiStart, ExtStart, ChannelEnable, DriverInit, AcquireBus, Isr, Blink
    <3>3. edge = TRUE
      BY <1>2, <3>1, Zenon DEF BootInv, StageInv
    <3>4. source = TRUE
      BY <1>2, <3>3, Zenon DEF EdgeFindsSource, BootInv, StageInv
    <3> QED BY <3>2, <3>4, Zenon
  <2> QED BY <2>1, <2>2
<1>3. BootInv /\ EdgeFindsSource /\ [BoardNext]_allVars => EdgeFindsSource'
  BY <1>2 DEF EdgeFindsSource
<1> QED BY <1>1, <1>3, AlwaysBoot, PTL DEF BoardSpec

(* The calls of the whole start find every pad as it was asked for, and no *)
(* store of any of them, between the writes of the other items and of the  *)
(* blinker, shows a role that is neither the old nor the new.              *)
THEOREM StartReachesModes == BoardSpec => []ModeReached
<1>1. BootInv => ModeReached
  BY DEF BootInv, IInv, Passed, Done, ModeReached
<1> QED BY <1>1, AlwaysBoot, PTL

THEOREM StartNoGlitch == BoardSpec => ImplementsRoles
<1>1. BoardStart => Abstract!Init
  BY InitRoles DEF BoardStart, AtReset
<1>2. ASSUME BootInv, BootInv', [BoardNext]_allVars
      PROVE  [Abstract!Next]_(Abstract!vars)
  <2>1. CASE ConfigurePad
    <3>1. PICK name \in Names :
            SetPortMode(Port(name), {Pad(name)}, BoardModes[name])
      BY <2>1 DEF ConfigurePad, Port, Pad
    <3>2. /\ Port(name) \in Ports /\ {Pad(name)} \in SUBSET Pads
          /\ BoardModes[name] \in Modes
      BY PadsApart, BoardAssumption
    <3> QED BY <1>2, <3>1, <3>2, CallAsks DEF Abstract!Next, BootInv
  <2>2. CASE PadStep
    <3>1. CASE Store
      <4>1. next > 1
        BY <1>2, <3>1 DEF BootInv, ModesInv, Store
      <4>2. clocked = TRUE
        BY <1>2, <4>1 DEF BootInv, StageInv
      <4> QED BY <1>2, <3>1, <4>2, StoreSwitches
              DEF BootInv, Abstract!Next, Abstract!vars
    <3>2. CASE Shift
      BY <3>2 DEF Shift, Role, Asked, Setting, Abstract!vars
    <3> QED BY <2>2, <3>1, <3>2 DEF PadStep
  <2>3. CASE ~ConfigurePad /\ ~PadStep
    <3>1. reg' = reg /\ want' = want
      BY <1>2, <2>3 DEF BoardNext, allVars, vars, GpioInit, PadCall, SpiStart,
                        ExtStart, ChannelEnable, DriverInit, AcquireBus, Edge, Isr, Blink
    <3> QED BY <3>1 DEF Role, Asked, Setting, Abstract!vars
  <2> QED BY <2>1, <2>2, <2>3
<1>3. BootInv /\ BootInv' /\ [BoardNext]_allVars => [Abstract!Next]_(Abstract!vars)
  BY <1>2
<1> QED BY <1>1, <1>3, AlwaysBoot, PTL
        DEF BoardSpec, ImplementsRoles, Abstract!Spec
===============================================================================

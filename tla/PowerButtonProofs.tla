-------------------------- MODULE PowerButtonProofs --------------------------
(****************************************************************************)
(* Proofs of the safety properties of PowerButton, for polls and inputs in  *)
(* any order and number.  Each invariant is inductive beside TypeOK.        *)
(****************************************************************************)
EXTENDS PowerButton, TLAPS

\* What the samples of a poll amount to are two bits again.
LEMMA SampledBits ==
  ASSUME NEW first \in Bit, NEW flag \in Bit, NEW second \in Bit, is_reboot \in Bit
  PROVE  /\ PwrState(first, second) \in Bit
         /\ RebootFlag(first, flag, second) \in Bit
BY DEF PwrState, RebootFlag, Bit

\* The part of a poll that looks after the 12 V input keeps its variables typed.
LEMMA MainsBackTyped ==
  ASSUME TypeOK, MainsBack
  PROVE  /\ flash_mode' \in Bit /\ confirm' \in (0..3) \cup {40}
         /\ led_state' \in 0..16 /\ led_en_pin' \in Bit
<1> DEFINE c == IF flash_mode = 1 THEN 0 ELSE confirm
<1>1. c \in (0..3) \cup {40}
  BY DEF TypeOK
<1>2. confirm' = IF c <= 2 THEN c + 1 ELSE c
  BY DEF MainsBack
<1>3. confirm' \in (0..3) \cup {40}
  BY <1>1, <1>2
<1> QED
  BY <1>3 DEF TypeOK, MainsBack, Bit

\* The blinking stays within its 16 phases.
LEMMA MainsGoneTyped ==
  ASSUME TypeOK, MainsGone
  PROVE  /\ flash_mode' \in Bit /\ confirm' \in (0..3) \cup {40}
         /\ led_state' \in 0..16 /\ int_led' \in Bit
<1> DEFINE c == IF flash_mode = 0 THEN 1 ELSE confirm
<1>1. c \in (0..3) \cup {40}
  BY DEF TypeOK
<1>2. confirm' = IF c <= 2 THEN c + 1 ELSE c
  BY DEF MainsGone
<1>3. confirm' \in (0..3) \cup {40}
  BY <1>1, <1>2
<1>4. led_state' \in {led_state, 0, 1}
      \/ (led_state % 16 # 0 /\ led_state' = led_state + 1)
  BY <1>1 DEF MainsGone
<1>5. led_state' \in 0..16
  <2>1. led_state \in 0..16
    BY DEF TypeOK
  <2>2. led_state % 16 # 0 => led_state # 16
    OBVIOUS
  <2> QED
    BY <1>4, <2>1, <2>2
<1>6. int_led' \in {0, 1, int_led}
  BY <1>1 DEF MainsGone
<1> QED
  BY <1>3, <1>5, <1>6 DEF TypeOK, MainsGone, Bit

\* The part of a poll that looks after the button and the Pi.
LEMMA ButtonTyped ==
  ASSUME TypeOK, NEW pwr \in Bit, NEW reboot \in Bit,
         \/ PiStops(pwr, reboot)
         \/ ButtonUp(pwr, reboot)
         \/ ButtonDown(pwr, reboot)
  PROVE  /\ is_reboot' \in Bit /\ counter' \in 0..40 /\ master_en' \in Bit
         /\ master_pin' \in Bit /\ int_led' \in Bit /\ halted' \in BOOLEAN
<1>1. CASE PiStops(pwr, reboot)
  BY <1>1 DEF TypeOK, PiStops, Bit
<1>2. CASE ButtonUp(pwr, reboot)
  BY <1>2 DEF TypeOK, ButtonUp, Bit
<1>3. CASE ButtonDown(pwr, reboot)
  <2>1. counter + 1 > 40 \/ counter + 1 \in 0..40
    BY DEF TypeOK
  <2>2. (counter + 1) % 2 \in Bit
    BY DEF TypeOK, Bit
  <2> QED
    BY <1>3, <2>1, <2>2 DEF TypeOK, ButtonDown, Bit
<1> QED
  BY <1>1, <1>2, <1>3

----------------------------------------------------------------------------
IInv == TypeOK /\ SupplyAgrees /\ DriverOnAsAsked

\* setup leaves the supply pin and the firmware's view of it alike.
LEMMA InitHolds == Init => IInv
<1>1. Init => TypeOK
  <2> SUFFICES ASSUME Init PROVE TypeOK
    OBVIOUS
  <2>1. halted \in BOOLEAN
    BY DEF Init
  <2>2. confirm \in (0..3) \cup {40} /\ led_state \in 0..16 /\ counter \in 0..40
    BY DEF Init
  <2> QED
    BY <2>1, <2>2 DEF Init, TypeOK, Bit
<1>2. Init => SupplyAgrees /\ DriverOnAsAsked
  BY DEF Init, SupplyAgrees, DriverOnAsAsked
<1> QED
  BY <1>1, <1>2 DEF IInv

\* A poll, a write of led_en and a stutter keep the invariant.
LEMMA NextHolds ==
  ASSUME IInv, [Next]_vars
  PROVE  IInv'
<1> USE DEF IInv
<1>1. CASE MainsGone
  <2>1. TypeOK'
    BY <1>1, MainsGoneTyped DEF MainsGone, TypeOK, supply
  <2>2. SupplyAgrees' /\ DriverOnAsAsked'
    BY <1>1 DEF MainsGone, supply, SupplyAgrees, DriverOnAsAsked
  <2> QED
    BY <2>1, <2>2
<1>2. ASSUME NEW btn \in Bit, MainsPoll(btn)
      PROVE  IInv'
  <2>1. PICK first \in Bit, flag \in Bit, second \in Bit :
          LET pwr == PwrState(first, second)
              reboot == RebootFlag(first, flag, second)
          IN
          /\ MainsBack
          /\ \/ PiStops(pwr, reboot)
             \/ btn = 1 /\ ButtonUp(pwr, reboot)
             \/ btn = 0 /\ ButtonDown(pwr, reboot)
          /\ pwr_last' = pwr
          /\ UNCHANGED led_en
    BY <1>2 DEF MainsPoll
  <2> DEFINE pwr == PwrState(first, second)
             reboot == RebootFlag(first, flag, second)
  <2>2. pwr \in Bit /\ reboot \in Bit
    BY SampledBits DEF TypeOK
  <2>3. \/ PiStops(pwr, reboot)
        \/ ButtonUp(pwr, reboot)
        \/ ButtonDown(pwr, reboot)
    BY <2>1
  <2> HIDE DEF pwr, reboot
  <2>4. TypeOK'
    <3>1. pwr_last' \in Bit /\ led_en' \in Bit
      BY <2>1, <2>2 DEF TypeOK, pwr
    <3> QED
      BY <2>1, <2>2, <2>3, <3>1, ButtonTyped, MainsBackTyped DEF TypeOK
  <2>5. SupplyAgrees'
    <3>1. CASE PiStops(pwr, reboot)
      BY <3>1, <2>2 DEF PiStops, SupplyAgrees, TypeOK, Bit
    <3>2. CASE ButtonUp(pwr, reboot)
      BY <3>2 DEF ButtonUp, SupplyAgrees
    <3>3. CASE ButtonDown(pwr, reboot)
      BY <3>3 DEF ButtonDown, SupplyAgrees
    <3> QED
      BY <2>3, <3>1, <3>2, <3>3
  <2>6. DriverOnAsAsked'
    BY <2>1 DEF MainsBack, DriverOnAsAsked
  <2> QED
    BY <2>4, <2>5, <2>6
<1>3. ASSUME NEW v \in Bit, SetLedEn(v)
      PROVE  IInv'
  BY <1>3 DEF SetLedEn, supply, TypeOK, SupplyAgrees, DriverOnAsAsked
<1>4. CASE UNCHANGED vars
  BY <1>4 DEF vars, mains, supply, TypeOK, SupplyAgrees, DriverOnAsAsked
<1> QED
  BY <1>1, <1>2, <1>3, <1>4 DEF Next

\* The inductive invariant holds of every poll of the firmware.
THEOREM Invariance == Spec => []IInv
BY InitHolds, NextHolds, PTL DEF Spec

\* Every variable of the power supply keeps its type: the count of a held
\* button stops at 40.
THEOREM TypeCorrect == Spec => []TypeOK
BY Invariance, PTL DEF IInv

\* pollingTimer's view of the supply and the pin differ only after a halt.
THEOREM SupplyAgreement == Spec => []SupplyAgrees
BY Invariance, PTL DEF IInv

\* Whatever pollingTimer and receiveI2c write, and in whatever order, the
\* light's driver is not on behind the back of led_en.
THEOREM DriverAgreement == Spec => []DriverOnAsAsked
BY Invariance, PTL DEF IInv

\* pollingTimer takes the supply from the Pi only under a long press or after a
\* halt, and gives it back only for a short press.
THEOREM SupplyCause == Spec => SupplyHasCause
<1> DEFINE Lost  == master_pin = 1 /\ master_pin' = 0
           Back  == master_pin = 0 /\ master_pin' = 1
           Cause == /\ Lost => counter = 40 \/ (halted /\ ~Pressed)
                    /\ Back => Pressed
<1>1. ASSUME IInv, [Next]_vars
      PROVE  [Cause]_vars
  <2> SUFFICES ASSUME Next, Lost \/ Back
               PROVE  Cause
    BY <1>1
  <2>1. ~MainsGone /\ \A v \in Bit : ~SetLedEn(v)
    BY DEF MainsGone, SetLedEn, supply
  <2>2. PICK pwr \in Bit, reboot \in Bit :
          \/ PiStops(pwr, reboot)
          \/ ButtonUp(pwr, reboot)
          \/ ButtonDown(pwr, reboot)
    BY <1>1, <2>1, SampledBits DEF Next, MainsPoll, IInv, TypeOK
  <2>3. CASE PiStops(pwr, reboot)
    BY <2>3 DEF PiStops
  <2>4. CASE ButtonUp(pwr, reboot)
    BY <2>4, <1>1 DEF ButtonUp, IInv, SupplyAgrees
  <2>5. CASE ButtonDown(pwr, reboot)
    <3>1. counter + 1 > 40 /\ Lost
      BY <2>5 DEF ButtonDown
    <3> QED
      BY <3>1, <1>1 DEF IInv, TypeOK
  <2> QED
    BY <2>2, <2>3, <2>4, <2>5
<1> QED
  BY <1>1, Invariance, PTL DEF Spec, SupplyHasCause
=============================================================================

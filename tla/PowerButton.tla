----------------------------- MODULE PowerButton -----------------------------
(****************************************************************************)
(* The power supply of the Raspberry Pi as the SuperIO firmware switches it *)
(* (src/arduino-code/atmega_com.ino): pollingTimer, run every 125 ms from   *)
(* loop(), samples the 12 V input, the power button and two lines from the  *)
(* Pi, and drives PIN_MASTER_EN (the Pi's supply) and the status LED.  The  *)
(* line GPIO_0 is low while the Pi runs; GPIO_1 tells a reboot from a halt. *)
(* Nothing is assumed of the inputs: they may change between two samples of *)
(* one poll.  The I2C interrupt switches the light's driver behind the      *)
(* poll's back.                                                             *)
(****************************************************************************)
EXTENDS Integers

VARIABLES
  flash_mode,   \* 1 while the 12 V input is gone
  confirm,      \* polls since it went or came back
  led_state,    \* phase of the blinking
  pwr_last,     \* what GPIO_0 said last
  is_reboot,    \* what GPIO_1 said when the Pi was last seen running
  counter,      \* polls the button has been held
  master_en,    \* what the firmware takes the supply to be
  master_pin,   \* PIN_MASTER_EN
  int_led,      \* PIN_INT_LED
  led_en,       \* SuperIO's register of the light's driver ...
  led_en_pin,   \* ... and PIN_LED_EN
  halted        \* history: the Pi has halted, and no press has answered it

mains == <<flash_mode, confirm, led_state, led_en_pin>>
supply == <<pwr_last, is_reboot, counter, master_en, master_pin, halted>>
vars == <<mains, supply, int_led, led_en>>

Bit == {0, 1}

----------------------------------------------------------------------------
(* The 12 V input.                                                          *)

\* Faulty: the third poll after the 12 V came back switches the driver on.
MainsBackLit ==
  LET c == IF flash_mode = 1 THEN 0 ELSE confirm IN
  /\ flash_mode' = 0
  /\ confirm' = IF c <= 2 THEN c + 1 ELSE c
  /\ led_state' = IF c = 2 THEN 0 ELSE led_state
  /\ led_en_pin' = IF c = 2 THEN 1 ELSE led_en_pin

\* The third poll after the 12 V came back switches the light's driver off,
\* whatever led_en says.
MainsBack ==
  LET c == IF flash_mode = 1 THEN 0 ELSE confirm IN
  /\ flash_mode' = 0
  /\ confirm' = IF c <= 2 THEN c + 1 ELSE c
  /\ led_state' = IF c = 2 THEN 0 ELSE led_state
  /\ led_en_pin' = IF c = 2 THEN 0 ELSE led_en_pin

\* No 12 V: the LED blinks, and nobody looks at the button or at the Pi.
MainsGone ==
  LET c == IF flash_mode = 0 THEN 1 ELSE confirm IN
  /\ flash_mode' = 1
  /\ confirm' = IF c <= 2 THEN c + 1 ELSE c
  /\ led_state' = CASE c < 2                          -> led_state
                    [] c = 2                          -> 0
                    [] c > 2 /\ led_state % 16 = 0    -> 1
                    [] OTHER                          -> led_state + 1
  /\ int_led' = CASE c = 2 \/ (c > 2 /\ led_state % 16 = 0) -> 1
                  [] c > 2 /\ led_state % 16 = 8            -> 0
                  [] OTHER                                  -> int_led
  /\ UNCHANGED <<led_en_pin, supply, led_en>>

----------------------------------------------------------------------------
(* The Pi and the button.  pwr is what the poll takes GPIO_0 to be; reboot, *)
(* what it takes the Pi to want.                                            *)

Stopping(pwr) == pwr = 1 /\ pwr_last = 0

\* Faulty: a reboot is taken for a halt.
PiStopsAlways(pwr, reboot) ==
  /\ Stopping(pwr)
  /\ master_en' = 0
  /\ halted' = (halted \/ reboot = 0)
  /\ is_reboot' = 0
  /\ UNCHANGED <<counter, master_pin, int_led>>

\* The Pi has stopped running.  The supply itself is not switched yet.
PiStops(pwr, reboot) ==
  /\ Stopping(pwr)
  /\ master_en' = IF reboot = 0 THEN 0 ELSE master_en
  /\ halted' = (halted \/ reboot = 0)
  /\ is_reboot' = 0
  /\ UNCHANGED <<counter, master_pin, int_led>>

Pressed == counter > 1 /\ counter < 40

\* Faulty: a press switches the supply off if it is on; the supply is only
\* switched by a press.
ButtonUpToggles(pwr, reboot) ==
  /\ ~Stopping(pwr)
  /\ master_en' = IF Pressed THEN 1 - master_pin ELSE master_en
  /\ master_pin' = master_en' /\ int_led' = master_en'
  /\ counter' = 0
  /\ halted' = (halted /\ ~Pressed)
  /\ is_reboot' = reboot

ButtonUpLazy(pwr, reboot) ==
  /\ ~Stopping(pwr)
  /\ IF Pressed THEN master_en' = 1 /\ master_pin' = 1 /\ int_led' = 1
                ELSE UNCHANGED <<master_en, master_pin, int_led>>
  /\ counter' = 0
  /\ halted' = (halted /\ ~Pressed)
  /\ is_reboot' = reboot

\* The button is up.  A press of 2 to 39 polls that ends here leaves the supply
\* on; without one, the supply becomes what master_en says.
ButtonUp(pwr, reboot) ==
  /\ ~Stopping(pwr)
  /\ master_en' = IF Pressed THEN 1 ELSE master_en
  /\ master_pin' = master_en' /\ int_led' = master_en'
  /\ counter' = 0
  /\ halted' = (halted /\ ~Pressed)
  /\ is_reboot' = reboot

\* Faulty: the count goes on.
ButtonDownCounting(pwr, reboot) ==
  /\ ~Stopping(pwr)
  /\ counter' = counter + 1
  /\ IF counter >= 40
     THEN master_en' = 0 /\ master_pin' = 0 /\ int_led' = 0
     ELSE UNCHANGED <<master_en, master_pin, int_led>>
  /\ is_reboot' = reboot
  /\ UNCHANGED halted

\* The button is down: from the 41st poll on the supply is off.
ButtonDown(pwr, reboot) ==
  LET held == counter + 1 IN
  /\ ~Stopping(pwr)
  /\ IF held > 40
     THEN /\ counter' = 40
          /\ master_en' = 0 /\ master_pin' = 0 /\ int_led' = 0
     ELSE /\ counter' = held
          /\ int_led' = IF held > 23 THEN held % 2 ELSE int_led
          /\ UNCHANGED <<master_en, master_pin>>
  /\ is_reboot' = reboot
  /\ UNCHANGED halted

\* GPIO_0, GPIO_1 and GPIO_0 again: the flag counts only if the Pi was running
\* before and after it was read.
PwrState(first, second) == IF first = 0 THEN second ELSE 1

RebootFlag(first, flag, second) ==
  IF first = 0 /\ second = 0 THEN flag ELSE is_reboot

----------------------------------------------------------------------------
\* A poll with the 12 V there.
MainsPoll(btn) ==
  \E first, flag, second \in Bit :
    LET pwr == PwrState(first, second)
        reboot == RebootFlag(first, flag, second)
    IN
    /\ MainsBack
    /\ \/ PiStops(pwr, reboot)
       \/ btn = 1 /\ ButtonUp(pwr, reboot)
       \/ btn = 0 /\ ButtonDown(pwr, reboot)
    /\ pwr_last' = pwr
    /\ UNCHANGED led_en

\* receiveI2c with an "SLEv": SuperIO's SetRegister.
SetLedEn(v) ==
  /\ led_en' = v
  /\ led_en_pin' = v
  /\ UNCHANGED <<flash_mode, confirm, led_state, supply, int_led>>

\* setup(): the supply follows GPIO_0, a first sample of it.
Init ==
  /\ flash_mode = 0 /\ confirm = 40 /\ led_state = 0
  /\ pwr_last = 1 /\ is_reboot = 0 /\ counter = 0
  /\ master_en \in Bit
  /\ master_pin = master_en /\ int_led = master_en
  /\ led_en = 0 /\ led_en_pin = 0
  /\ halted = FALSE

Next ==
  \/ MainsGone
  \/ \E btn \in Bit : MainsPoll(btn)
  \/ \E v \in Bit : SetLedEn(v)

Spec == Init /\ [][Next]_vars

\* loop() polls for ever; again and again it finds the 12 V there, the button
\* up and the Pi not just stopping.
FairSpec == Spec /\ SF_vars(MainsPoll(1) /\ ~Stopping(pwr_last'))

----------------------------------------------------------------------------
(* Properties.                                                              *)

\* Every variable keeps its type; counter stops at 40, confirm at 3 (or stays
\* at the 40 it starts with).
TypeOK ==
  /\ flash_mode \in Bit /\ confirm \in (0..3) \cup {40} /\ led_state \in 0..16
  /\ pwr_last \in Bit /\ is_reboot \in Bit
  /\ counter \in 0..40
  /\ master_en \in Bit /\ master_pin \in Bit
  /\ int_led \in Bit
  /\ led_en \in Bit /\ led_en_pin \in Bit
  /\ halted \in BOOLEAN

\* master_en and the supply pin it stands for differ only while a Pi that has
\* halted, and did not ask for a reboot, is waiting to lose its supply.
SupplyAgrees ==
  master_en # master_pin => master_en = 0 /\ master_pin = 1 /\ halted

\* The supply goes away only under a button held for more than 40 polls, or
\* because the Pi has halted: no press of 2 to 39 polls ever takes it, not even
\* one that the Pi halts under, and no reboot does.  It comes back only with
\* such a press, never with the release of a button held longer.
SupplyHasCause ==
  [][/\ master_pin = 1 /\ master_pin' = 0 =>
          counter = 40 \/ (halted /\ ~Pressed)
     /\ master_pin = 0 /\ master_pin' = 1 => Pressed]_vars

\* The light's driver is never on unless the register says so, although the
\* poll and the I2C interrupt both write its pin; after the 12 V came back it
\* may be off while the register says on.
DriverOnAsAsked == led_en_pin = 1 => led_en = 1

\* A Pi that has halted loses its supply, unless somebody presses the button.
HaltCutsSupply == halted ~> (master_pin = 0 \/ ~halted)
=============================================================================

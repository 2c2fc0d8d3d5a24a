---- MODULE AdvButton ----
(* One button in normal mode: the edge interrupt, the evaluation timer that
   debounces the pin and goes to sleep, and the timers that tell single, double,
   long and hold presses apart.  The callbacks all run in the timer task; the
   interrupt may come between any two steps of them.  The unit of time is one
   evaluation. *)
EXTENDS Integers

CONSTANTS MaxEval,    \* evaluations that confirm a new level (max_eval)
          Double,     \* DOUBLEPRESS_TIME
          Long,       \* LONGPRESS_TIME
          Hold,       \* HOLDPRESS_TIME
          Sleep,      \* button_evaluate_sleep_time
          MaxRefused  \* bound: steps that meet a full timer queue

AdvButtonAssumption ==
    /\ {MaxEval, Double, Long, Hold, Sleep} \subseteq Nat \ {0} /\ MaxRefused \in Nat
    /\ Double < Long /\ Long < Hold /\ Hold < Sleep

VARIABLE button

Off == -1       \* a one-shot timer that does not run; 0 is one that expires now
Disabled == 15  \* DISABLE_PRESS_COUNT

Buttons ==
    [double : BOOLEAN, holds : BOOLEAN, continuous : BOOLEAN,  \* callbacks and mode, fixed
     pin : BOOLEAN, state : BOOLEAN,     \* what the pin reads, what is confirmed (high: released)
     value : 0 .. MaxEval, count : {0, 1, Disabled},
     since : 0 .. Long + 1,              \* time since last_event_time
     press : Off .. Double, hold : Off .. Hold,  \* what press_timer and hold_timer have left
     running : BOOLEAN, sleep : 0 .. Sleep, intr : BOOLEAN,
     phase : {"idle", "due", "read"},    \* of the evaluation
     owed : Int,                         \* history: releases less presses reported
     read : 0 .. MaxEval,                \* history: evaluations that saw the present level
     missed : BOOLEAN,                   \* history: the last edge came too late, or to a full queue
     cut : BOOLEAN,                      \* history: a command to the one-shot timers was refused
     refused : 0 .. MaxRefused]

TypeOK == button \in Buttons

(* The button may be down when it is created: last_event_time is 0. *)
Init == \E d, h, c, p \in BOOLEAN :
    button = [double |-> d, holds |-> h, continuous |-> c, pin |-> p, state |-> p,
              value |-> IF p THEN MaxEval ELSE 0, count |-> 0, since |-> 0,
              press |-> Off, hold |-> Off, running |-> c, sleep |-> 0, intr |-> ~c,
              phase |-> "idle", owed |-> 0, read |-> MaxEval, missed |-> FALSE, cut |-> FALSE, refused |-> 0]

(* How many timer commands the queue takes in one step of the timer task. *)
Room(room) == room = 2 \/ button.refused < MaxRefused
Refuse(b, room) == [b EXCEPT !.refused = IF room = 2 THEN @ ELSE @ + 1]

----
(* The edge interrupt wakes the evaluation, and is off as long as that runs.
   When the start is refused it stays on for the next edge. *)
Edge == \E room \in {0, 2} :
    /\ Room(room) /\ (room = 0 => button.intr)
    /\ LET b == [button EXCEPT !.pin = ~@, !.read = 0] IN
       button' = IF ~button.intr THEN b
                 ELSE IF room = 0 THEN [Refuse(b, room) EXCEPT !.missed = TRUE]
                 ELSE [b EXCEPT !.running = TRUE, !.intr = FALSE, !.missed = FALSE]

(* Mutant: the interrupt stays off when the evaluation goes to sleep. *)
FallAsleepDeaf(b) ==
    [b EXCEPT !.phase = "read", !.running = FALSE, !.sleep = 0]

FallAsleep(b) ==
    [b EXCEPT !.phase = "read", !.running = FALSE, !.sleep = 0, !.intr = TRUE]

(* The first part of an evaluation: the countdown, and the stop of the timer,
   tried again when the queue refuses it. *)
CountDown == \E room \in {0, 2} :
    /\ button.phase = "due" /\ Room(room)
    /\ LET awake == [button EXCEPT !.phase = "read"] IN
       button' = CASE button.continuous -> awake
                   [] ~button.continuous /\ button.sleep < Sleep -> [awake EXCEPT !.sleep = @ + 1]
                   [] OTHER -> IF room = 2 THEN FallAsleep(button) ELSE Refuse(awake, room)

----
(* A press is confirmed. *)
PushDown(b, room) ==
    [b EXCEPT !.hold = IF b.holds /\ room > 0 THEN Hold ELSE @, !.since = 0]

(* A release is confirmed: nothing more after a hold; a long press; the first
   or the second press of a double one; or a single press.  press_timer is not
   stopped by a long press: it has expired before. *)
Release(b, room) ==
    CASE b.since > Long -> [b EXCEPT !.count = 0]
      [] b.since <= Long /\ b.double /\ b.count = 0 ->
            [b EXCEPT !.count = 1, !.owed = @ + 1, !.press = IF room = 2 THEN Double ELSE @]
      [] b.since <= Long /\ b.double /\ b.count = 1 ->
            [b EXCEPT !.count = 0, !.owed = @ - 1, !.press = IF room = 2 THEN Off ELSE @]
      [] OTHER -> b

PushUp(b, room) ==
    IF b.count = Disabled THEN [b EXCEPT !.count = 0, !.owed = @ + 1]
    ELSE Release([b EXCEPT !.hold = IF room > 0 THEN Off ELSE @], room)

(* The value counts the evaluations that see the other level; one that sees the
   confirmed level starts it again. *)
Debounce(b) ==
    LET v == CASE b.pin = b.state -> IF b.pin THEN MaxEval ELSE 0
               [] b.pin /\ ~b.state -> b.value + 1
               [] OTHER -> b.value - 1
    IN [b EXCEPT !.value = v, !.state = IF v = (IF b.pin THEN MaxEval ELSE 0) THEN b.pin ELSE @]

Confirm(b, room) ==
    LET c == [b EXCEPT !.sleep = 0] IN IF b.state THEN PushUp(c, room) ELSE PushDown(c, room)

(* The second part of an evaluation; an edge that was not seen often enough
   before the evaluation fell asleep is late. *)
Read == \E room \in 0 .. 2 :
    /\ button.phase = "read" /\ Room(room)
    /\ LET b == [Debounce(button) EXCEPT
                    !.phase = "idle",
                    !.read = IF @ = MaxEval THEN @ ELSE @ + 1,
                    !.missed = @ \/ (~button.running /\ button.read + 1 < MaxEval),
                    !.cut = @ \/ room < 2]
       IN /\ room < 2 => b.state # button.state
          /\ button' = IF b.state = button.state THEN b ELSE Refuse(Confirm(b, room), room)

----
(* Mutant: the count is kept when the single press is reported. *)
SinglePressKeepsCount ==
    /\ button.press = 0
    /\ button' = [button EXCEPT !.press = Off, !.owed = @ - 1]

(* press_timer: no second press came. *)
SinglePress ==
    /\ button.press = 0
    /\ button' = [button EXCEPT !.press = Off, !.count = 0, !.owed = @ - 1]

(* hold_timer: the release that ends the hold is not another press. *)
HoldPress ==
    /\ button.hold = 0
    /\ button' = [button EXCEPT !.hold = Off, !.count = Disabled, !.owed = @ - 1]

(* Time passes when nothing is due. *)
Tick ==
    /\ button.phase = "idle" /\ button.press # 0 /\ button.hold # 0
    /\ button' = [button EXCEPT
                     !.phase = IF button.running THEN "due" ELSE @,
                     !.since = IF @ > Long THEN @ ELSE @ + 1,
                     !.press = IF @ = Off THEN @ ELSE @ - 1,
                     !.hold = IF @ = Off THEN @ ELSE @ - 1]

TimerTask == CountDown \/ Read \/ SinglePress \/ HoldPress \/ Tick

Next == Edge \/ TimerTask

Spec == Init /\ [][Next]_button /\ WF_button(TimerTask)

----
(* Every press is reported exactly once, alone or as half of a double press,
   and nothing is reported that was not pressed: a release is owed only while
   press_timer waits for a second one, a hold is reported ahead of its release,
   and the timers run only for that (adv_button.c push_down, push_up). *)
PressesAccounted == ~button.cut =>
    /\ button.owed = CASE button.count = 1 -> 1 [] button.count = Disabled -> -1 [] OTHER -> 0
    /\ (button.count = 1) = (button.press # Off)
    /\ button.hold # Off => ~button.state /\ button.count # Disabled

Unconfirmed == button.pin # button.state

(* A level that differs from the confirmed one is confirmed, or it ends, unless
   the timer queue was full at its edge or the edge came just before the
   evaluation fell asleep (adv_button.c button_evaluate_fn). *)
EdgesSeen == Unconfirmed ~> (~Unconfirmed \/ button.missed)

====

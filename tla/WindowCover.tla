---- MODULE WindowCover ----
(* A window covering: the motor's position is estimated by a periodic worker,
   which stops it at its target; commands and buttons turn it round.  The worker
   and the buttons run in the timer task, one handler after the other; a
   controller's command runs in the server task and meets them between its
   three steps.  Positions are scaled to 0 .. Full, a worker period moves by 1. *)
EXTENDS Integers

CONSTANTS Full,         \* 100 in the code
          Corrections,  \* values of WINDOW_COVER_CORRECTION, in fiftieths
          Margins,      \* values of WINDOW_COVER_MARGIN_SYNC
          MaxInputs     \* bound: commands, buttons and refused timer stops

WindowCoverAssumption ==
    /\ Full \in Nat \ {0} /\ MaxInputs \in Nat
    /\ Corrections \subseteq Nat /\ Margins \subseteq Nat

VARIABLE cover

CLOSING == 0
OPENING == 1
STOP == 2
Positions == 0 .. Full
NoCall == [step |-> "none", dir |-> STOP]

Covers ==
    [correction : Corrections, margin : Margins,  \* configuration
     motor : Int, hk : Int,              \* MOTOR_POSITION, HOMEKIT_POSITION
     current : Positions, target : Positions, state : CLOSING .. STOP, obst : BOOLEAN,
     timer : BOOLEAN, must : BOOLEAN,    \* the worker runs; MUST_STOP
     vstop : 0 .. 2,                     \* VIRTUAL_STOP: 2 suspends it for one command
     stoppable : BOOLEAN, rearm : BOOLEAN,  \* STOP_ENABLE; timer2 runs
     call : [step : {"none", "starts", "ends"}, dir : CLOSING .. STOP],
     asked : Positions,                  \* history: the value of the last command
     cut : {"none", "target", "timer"},  \* history: where in a command the worker stopped
     inputs : 0 .. MaxInputs]

(* An estimate leaves the scale by the margin, and by one period for each time
   that the worker's stop was refused. *)
OnScale(c, p) ==
    LET slack == c.margin + MaxInputs - c.inputs IN p \in -slack .. Full + slack

TypeOK == cover \in Covers /\ OnScale(cover, cover.motor) /\ OnScale(cover, cover.hk)

Init ==
    \E c \in Corrections, m \in Margins, v \in 0 .. 1, p \in {0, Full} :
        cover = [correction |-> c, margin |-> m, motor |-> p, hk |-> p, current |-> p,
                 target |-> p, state |-> STOP, obst |-> FALSE, timer |-> FALSE, must |-> FALSE,
                 vstop |-> v, stoppable |-> FALSE, rearm |-> FALSE, call |-> NoCall,
                 asked |-> p, cut |-> "none", inputs |-> MaxInputs]

Moving(c) == c.state # STOP
Clamp(p) == IF p < 0 THEN 0 ELSE IF p > Full THEN Full ELSE p

(* _window_cover_homekit_position: what of the window is covered is not linear
   in the motor's way. *)
HomekitPosition(c, p) ==
    IF p <= 0 \/ p >= Full THEN p ELSE (Full * p) \div (Full + (Full - p) * c.correction)

Normalized(c) == [c EXCEPT !.motor = Clamp(@), !.hk = Clamp(@)]

----
(* The setter.  It ends with a virtual stop that is in force again. *)
Rearmed(c) == [c EXCEPT !.vstop = IF @ = 2 THEN 1 ELSE @]

Direction(c, v) ==
    CASE v < c.current -> CLOSING
      [] v > c.current -> OPENING
      [] OTHER -> STOP

(* A command all the way back is a stop when the configuration says so. *)
TurnsIntoStop(c, v) ==
    /\ c.vstop = 1 /\ Moving(c) /\ c.state # Direction(c, v)
    /\ v = IF Direction(c, v) = CLOSING THEN 0 ELSE Full

Starting(c, v) == Direction(c, v) # STOP /\ ~TurnsIntoStop(c, v)

(* Until the actions that start the motor, or to the end if there are none. *)
SetterBegins(c, v) ==
    LET d == [Normalized(c) EXCEPT !.target = v, !.asked = v]
        e == [d EXCEPT !.stoppable = FALSE, !.rearm = TRUE]
    IN CASE Direction(c, v) = STOP -> Rearmed([d EXCEPT !.must = TRUE])
         [] TurnsIntoStop(c, v) -> Rearmed([e EXCEPT !.must = TRUE, !.obst = FALSE])
         [] OTHER -> e

(* Mutant: the new state is assigned before the timer is started. *)
StartTimerLate(c, dir) == [c EXCEPT !.must = FALSE, !.state = dir]

(* _start_wc_timer: only a cover at rest starts the worker. *)
StartTimer(c, dir) ==
    [c EXCEPT !.must = FALSE, !.timer = @ \/ c.state = STOP]

SetterEnds(c, dir) == Rearmed([c EXCEPT !.state = dir, !.obst = FALSE])

Setter(c, v) ==
    IF Starting(c, v)
    THEN SetterEnds(StartTimer(SetterBegins(c, v), Direction(c, v)), Direction(c, v))
    ELSE SetterBegins(c, v)

----
(* The worker. *)

(* Mutant: the estimate never leaves the scale. *)
MovedOnScale(c) ==
    LET p == Clamp(CASE c.state = CLOSING -> c.motor - 1
               [] c.state = OPENING -> c.motor + 1
               [] OTHER -> c.motor)
        h == IF Moving(c) THEN HomekitPosition(c, p) ELSE c.hk
    IN [c EXCEPT !.motor = p, !.hk = h, !.current = IF Moving(c) THEN Clamp(h) ELSE @]

(* One period further; the estimates may leave the scale. *)
Moved(c) ==
    LET p == CASE c.state = CLOSING -> c.motor - 1
               [] c.state = OPENING -> c.motor + 1
               [] OTHER -> c.motor
        h == IF Moving(c) THEN HomekitPosition(c, p) ELSE c.hk
    IN [c EXCEPT !.motor = p, !.hk = h, !.current = IF Moving(c) THEN Clamp(h) ELSE @]

(* The ends of the scale are overrun by the margin. *)
Reached(c) ==
    LET margin == IF c.target \in {0, Full} THEN c.margin ELSE 0 IN
    CASE c.state = CLOSING -> c.target - margin >= c.hk
      [] c.state = OPENING -> c.target + margin <= c.hk
      [] OTHER -> TRUE

(* The cover stops where it is, whatever it was told. *)
Stopped(c) ==
    LET d == Normalized(c) IN
    Rearmed([d EXCEPT !.timer = FALSE, !.must = FALSE, !.state = STOP,
                      !.current = d.hk, !.target = d.hk,
                      !.cut = CASE c.call.step = "starts" -> "target"
                                [] c.call.step = "ends" -> "timer"
                                [] OTHER -> "none"])

WorkerFires ==
    /\ cover.timer
    /\ LET c == Moved(cover) IN
       IF Reached(c) \/ c.must THEN cover' = Stopped(c) ELSE cover' = c

(* The timer queue is full: the worker tries again in its next period. *)
StopRefused ==
    /\ cover.timer /\ cover.inputs > 0
    /\ LET c == Moved(cover) IN
       /\ Reached(c) \/ c.must
       /\ cover' = [c EXCEPT !.must = TRUE, !.inputs = @ - 1]

StopRearms ==
    /\ cover.rearm
    /\ cover' = [cover EXCEPT !.rearm = FALSE, !.stoppable = TRUE]

----
(* Commands and inputs. *)

Input == cover.inputs > 0
Spent(c) == [c EXCEPT !.inputs = @ - 1]

CommandBegins(v) ==
    /\ Input /\ cover.call = NoCall
    /\ LET c == Spent(SetterBegins(cover, v)) IN
       cover' = IF Starting(cover, v)
                THEN [c EXCEPT !.call = [step |-> "starts", dir |-> Direction(cover, v)]]
                ELSE c

CommandStarts ==
    /\ cover.call.step = "starts"
    /\ cover' = [StartTimer(cover, cover.call.dir) EXCEPT !.call.step = "ends"]

CommandEnds ==
    /\ cover.call.step = "ends"
    /\ cover' = [SetterEnds(cover, cover.call.dir) EXCEPT !.call = NoCall]

Suspended(c) == [c EXCEPT !.vstop = IF @ > 0 THEN 2 ELSE @]
End(dir) == IF dir = CLOSING THEN 0 ELSE Full

(* A button for one direction; one that stops when it is going there already. *)
DirectionButton(dir) ==
    /\ Input
    /\ LET c == Spent(cover) IN
       \/ cover' = Setter(Suspended(c), End(dir))
       \/ cover.state = dir /\ cover' = Setter(c, c.current)

SingleButton ==
    /\ Input
    /\ LET c == Spent(cover) IN
       cover' = CASE Moving(c) -> Setter(c, c.current)
                  [] ~Moving(c) /\ c.current = 0 -> Setter(c, Full)
                  [] OTHER -> Setter(c, 0)

(* A plain input goes through diginput: the virtual stop stays in force. *)
PlainButton ==
    /\ Input
    /\ \E v \in {0, Full} : cover' = Setter(Spent(cover), v)

(* A stop that comes too soon after a command is ignored. *)
StopButton ==
    /\ Input
    /\ LET c == Spent(cover) IN cover' = IF c.stoppable THEN Setter(c, c.current) ELSE c

ObstructionInput ==
    /\ Input
    /\ \E on \in BOOLEAN : cover' = Rearmed([Spent(cover) EXCEPT !.obst = on])

Step == WorkerFires \/ CommandStarts \/ CommandEnds

Environment ==
    \/ StopRefused \/ StopRearms \/ SingleButton \/ PlainButton \/ StopButton \/ ObstructionInput
    \/ \E v \in Positions : CommandBegins(v)
    \/ \E dir \in {CLOSING, OPENING} : DirectionButton(dir)

Next == Step \/ Environment

Spec == Init /\ [][Next]_cover
             /\ WF_cover(WorkerFires) /\ WF_cover(CommandStarts) /\ WF_cover(CommandEnds)

----
(* Between commands a cover that moves has its worker, which takes it where it
   was told last, and a cover at rest stays where its target says, whatever
   buttons and commands were mixed; but for a worker that stops inside a command
   (main.c hkc_window_cover_setter, window_cover_timer_worker). *)
CoverTimed == cover.call = NoCall =>
    /\ Moving(cover) /\ cover.cut # "timer" => cover.timer
    /\ Moving(cover) /\ ~cover.must /\ cover.cut = "none" => cover.target = cover.asked
    /\ ~Moving(cover) => ~cover.timer /\ cover.target = cover.current

(* It moves, and not because its worker stopped inside a command. *)
Driven == Moving(cover) /\ cover.cut # "timer"

(* Once it is left alone a moving cover stops, with the same exception. *)
CoverStops == Driven ~> ~Driven

====

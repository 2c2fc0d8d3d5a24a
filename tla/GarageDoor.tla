---- MODULE GarageDoor ----
(* A garage door: the state that HomeKit shows, the timer that stands in for
   missing sensors and watches those there are, and the commands and inputs that
   change both.  The setter runs in the server task and is modelled in two steps,
   around the actions it performs; everything else runs in the timer task, one
   handler after the other.  The unit of time is one call of the worker. *)
EXTENDS Integers

CONSTANTS Travel,    \* GARAGE_DOOR_WORKING_TIME without the margins
          Margins,   \* values of GARAGE_DOOR_TIME_MARGIN
          MaxInputs  \* bound: commands, inputs and restarts

GarageDoorAssumption ==
    Travel \in Nat \ {0} /\ Margins \subseteq Nat /\ MaxInputs \in Nat

VARIABLE door

OPENED == 0
CLOSED == 1
OPENING == 2
CLOSING == 3
STOPPED == 4
NoCall == -1

Doors ==
    [f2 : BOOLEAN, f3 : BOOLEAN, f4 : BOOLEAN, f5 : BOOLEAN,  \* the sensors there are: fully
                                          \* open, fully closed, opening, closing
     margin : Margins, vstop : BOOLEAN, autoclose : BOOLEAN,  \* configuration
     state : OPENED .. STOPPED, target : 0 .. 2, obst : BOOLEAN,
     worker : BOOLEAN, auto : BOOLEAN,    \* the worker and the auto-close timer run
     time : Nat,                          \* where the door is thought to be: 0 is closed
     call : {NoCall, OPENED, CLOSED},     \* the command the server task carries out
     saved : OPENED .. STOPPED,           \* the state kept over a restart
     stray : BOOLEAN,                     \* history: see Strays
     inputs : 0 .. MaxInputs]

Working(d) == Travel + 2 * d.margin

TypeOK == door \in Doors /\ door.time <= Working(door)

Moving(d) == d.state \in {OPENING, CLOSING}

(* The door is on its way, or has not done what it was told. *)
Underway(d) == Moving(d) \/ (d.state \in {OPENED, CLOSED} /\ d.target # d.state)

(* History: d got underway, or lost its obstruction, with no timer to watch it. *)
Strays(d) == [d EXCEPT !.stray = @ \/ (Underway(d) /\ ~d.worker /\ ~d.obst)]

----
(* Handlers, as functions from the door before to the door after. *)

Stop(d) == IF Moving(d) THEN [d EXCEPT !.state = STOPPED, !.worker = FALSE] ELSE d

Obstruction(d, on) == [d EXCEPT !.obst = on, !.auto = FALSE]

Sensor(d, type) ==
    LET moves == type \in {OPENING, CLOSING}
        e == [d EXCEPT !.time = IF type \in {OPENED, CLOSING} THEN Working(d) - d.margin ELSE d.margin,
                       !.state = type,
                       !.target = IF moves THEN type - 2 ELSE type,
                       !.worker = moves,
                       !.auto = @ /\ ~moves,
                       !.stray = FALSE]
    IN IF d.obst THEN Obstruction(e, FALSE) ELSE e

(* The setter until its actions: a stopped door counts as on its way again, a
   moving one is stopped when the configuration says so. *)
Prepared(d) ==
    CASE d.state = STOPPED -> [d EXCEPT !.state = d.target + 2]
      [] Moving(d) /\ d.vstop -> Stop(d)
      [] OTHER -> d

Shown(d) ==
    CASE d.state = STOPPED -> d.target
      [] Moving(d) /\ ~d.vstop -> d.state - 2
      [] OTHER -> d.state

Taken(d, v) ==
    \/ v # Shown(d) /\ Prepared(d).state # STOPPED
    \/ d.obst

SetterBegins(d, v) == IF Taken(d, v) THEN [Prepared(d) EXCEPT !.target = v] ELSE Prepared(d)

(* Mutant: the margin of a door at rest runs without the worker. *)
WaitsIdle(d, v, t) == [d EXCEPT !.time = t, !.target = v, !.auto = FALSE]

(* _run_margin_at_start: a door at rest is given the margin to leave its sensor. *)
Waits(d, v, t) == [d EXCEPT !.time = t, !.target = v, !.auto = FALSE, !.worker = TRUE]

(* The setter after its actions, on the state as it is then. *)
SetterEnds(d, v) ==
    LET opens == (v = OPENED /\ ~d.f4) \/ d.state = CLOSING
        closes == ~opens /\ ((v = CLOSED /\ ~d.f5) \/ d.state = OPENING)
        waits == ~opens /\ ~closes /\ d.margin > 0
    IN CASE opens -> Sensor(d, OPENING)
         [] closes -> Sensor(d, CLOSING)
         [] waits /\ v = OPENED /\ d.state = CLOSED -> Waits(d, v, 0)
         [] waits /\ v = CLOSED /\ d.state = OPENED -> Waits(d, v, Working(d))
         [] OTHER -> d

Setter(d, v) ==
    IF Taken(d, v) THEN SetterEnds(SetterBegins(d, v), v) ELSE SetterBegins(d, v)

(* _halt_timer *)
Halt(d, forced) ==
    LET e == [d EXCEPT !.worker = FALSE] IN
    IF forced \/ (d.margin > 0 /\ Moving(d)) THEN Obstruction(e, TRUE) ELSE e

(* Mutant: the worker waits for the sensor as long as it takes. *)
WorksOpeningOn(d) ==
    CASE d.time >= Working(d) - d.margin /\ ~d.f2 -> Sensor([d EXCEPT !.auto = d.autoclose], OPENED)
      [] d.time >= Working(d) /\ d.f2 -> [d EXCEPT !.time = Working(d)]
      [] OTHER -> d

WorksOpening(d) ==
    CASE d.time >= Working(d) - d.margin /\ ~d.f2 -> Sensor([d EXCEPT !.auto = d.autoclose], OPENED)
      [] d.time >= Working(d) /\ d.f2 -> Halt(d, FALSE)
      [] OTHER -> d

(* Mutant: a closing door is not stopped by the clock. *)
WorksClosingOn(d) == IF d.time <= d.margin /\ ~d.f3 THEN Sensor(d, CLOSED) ELSE d

WorksClosing(d) ==
    CASE d.time <= d.margin /\ ~d.f3 -> Sensor(d, CLOSED)
      [] d.time <= 0 /\ d.f3 -> Halt(d, FALSE)
      [] OTHER -> d

(* The worker takes the place of a sensor that is missing, and reports an
   obstruction when one that is there stays silent. *)
Worker(d) ==
    LET up == [d EXCEPT !.time = @ + 1]
        down == [d EXCEPT !.time = @ - 1]
    IN CASE d.state = OPENING -> WorksOpening(up)
         [] d.state = CLOSING -> WorksClosing(down)
         [] d.margin > 0 /\ d.state = CLOSED /\ d.target = OPENED /\ d.f4 ->
              IF up.time > d.margin THEN Halt(up, TRUE) ELSE up
         [] d.margin > 0 /\ d.state = OPENED /\ d.target = CLOSED /\ d.f5 ->
              IF down.time < Working(d) - d.margin THEN Halt(down, TRUE) ELSE down
         [] OTHER -> [d EXCEPT !.worker = FALSE]

----
(* Start: the saved state, then the sensor that is active, and the obstruction. *)
Fresh(d, s) ==
    [d EXCEPT !.state = s, !.target = IF s > 1 THEN s - 2 ELSE s,
              !.obst = FALSE, !.worker = FALSE, !.auto = FALSE,
              !.time = IF s = OPENED THEN Working(d) - d.margin ELSE 0,
              !.call = NoCall, !.stray = FALSE]

Starts(d) ==
    LET d0 == Fresh(d, d.saved)
        sensed == {d0}
                  \cup (IF d.f2 \/ d.f4 THEN {Sensor(d0, OPENED)} ELSE {})
                  \cup (IF d.f3 \/ d.f5 THEN {Sensor(d0, CLOSED)} ELSE {})
    IN {Strays(e) : e \in sensed \cup {Obstruction(e, TRUE) : e \in sensed}}

Init ==
    \E f2, f3, f4, f5, vstop, autoclose \in BOOLEAN, margin \in Margins, s \in {OPENED, CLOSED} :
        door \in Starts(
            [f2 |-> f2, f3 |-> f3, f4 |-> f4, f5 |-> f5, margin |-> margin, vstop |-> vstop,
             autoclose |-> autoclose, state |-> s, target |-> s, obst |-> FALSE, worker |-> FALSE,
             auto |-> FALSE, time |-> 0, call |-> NoCall, saved |-> s, stray |-> FALSE,
             inputs |-> MaxInputs])

Input == door.inputs > 0
Spent(d) == [d EXCEPT !.inputs = @ - 1]

Restart ==
    /\ Input
    /\ door' \in Starts(Spent(door))

(* Any accessory that saves its state saves all. *)
SaveStates ==
    /\ door.saved # door.state
    /\ door' = [door EXCEPT !.saved = door.state]

(* A controller's command, in the server task. *)
CommandBegins(v) ==
    /\ Input /\ door.call = NoCall
    /\ LET d == Spent(SetterBegins(door, v)) IN
       door' = IF Taken(door, v) THEN [d EXCEPT !.call = v] ELSE Strays(d)

CommandEnds ==
    /\ door.call # NoCall
    /\ door' = [SetterEnds(door, door.call) EXCEPT !.call = NoCall]

(* A button or an action, in the timer task: open, close, toggle, stop, or begin
   the wait for the auto-close of an open door. *)
Button ==
    /\ Input
    /\ \/ \E v \in {OPENED, CLOSED, IF door.target = OPENED THEN CLOSED ELSE OPENED} :
             door' = Strays(Setter(Spent(door), v))
       \/ Moving(door) /\ door' = Stop(Spent(door))
       \/ door.state = OPENED /\ door' = [Spent(door) EXCEPT !.auto = door.autoclose]

(* A sensor's input: an action or a ping reports also what no sensor is there for. *)
SensorInput(type) ==
    /\ Input
    /\ door' = Sensor(Spent(door), type)

ObstructionInput(on) ==
    /\ Input
    /\ door' = Strays(Obstruction(Spent(door), on))

WorkerFires ==
    /\ door.worker
    /\ door' = Worker(door)

AutoClose ==
    /\ door.auto
    /\ door' = Strays(Setter([door EXCEPT !.auto = FALSE], CLOSED))

Step == CommandEnds \/ WorkerFires \/ AutoClose

Environment ==
    \/ Restart \/ SaveStates \/ Button
    \/ \E v \in {OPENED, CLOSED} : CommandBegins(v)
    \/ \E type \in OPENED .. CLOSING : SensorInput(type)
    \/ \E on \in BOOLEAN : ObstructionInput(on)

Next == Step \/ Environment

Spec == Init /\ [][Next]_door /\ WF_door(WorkerFires) /\ WF_door(CommandEnds)

----
(* With a margin, a door that is on its way or that does not follow its command
   is watched by the worker or shown as obstructed (main.c
   garage_door_timer_worker), but for what Strays records: a stopped door told
   to do what it was doing, an obstruction cleared by hand, and a restart. *)
DoorWatched ==
    door.margin > 0 /\ door.call = NoCall /\ Underway(door) /\ ~door.stray =>
        door.worker \/ door.obst

(* Once it is left alone the worker always comes to an end, whatever sensors
   there are and whatever they did. *)
DoorSettles == door.worker ~> ~door.worker

====

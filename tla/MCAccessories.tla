---- MODULE MCAccessories ----
(* The timer-driven machines of HAAMAIN for model checking: a button, a garage
   door, a window covering and the WiFi connection.  They share no state, so each
   behaviour runs one of them, which Init chooses. *)
EXTENDS Integers

CONSTANTS MaxEval, Double, Long, Hold, Sleep, MaxRefused,         \* AdvButton.tla
          Travel, DoorMargins, DoorInputs,                        \* GarageDoor.tla
          Full, Corrections, CoverMargins, CoverInputs,           \* WindowCover.tla
          Setups, Retry, LongTime, PingMax, RoamPeriod, MaxTasks, MaxUser  \* Wifi.tla

VARIABLES which, machine

vars == <<which, machine>>

Button == INSTANCE AdvButton WITH button <- machine

Door == INSTANCE GarageDoor WITH
    door <- machine, Margins <- DoorMargins, MaxInputs <- DoorInputs

Cover == INSTANCE WindowCover WITH
    cover <- machine, Margins <- CoverMargins, MaxInputs <- CoverInputs

Connection == INSTANCE Wifi WITH wifi <- machine

ASSUME AccessoriesAssumption ==
    /\ Button!AdvButtonAssumption /\ Door!GarageDoorAssumption
    /\ Cover!WindowCoverAssumption /\ Connection!WifiAssumption

Init ==
    \/ which = "button" /\ Button!Init
    \/ which = "door" /\ Door!Init
    \/ which = "cover" /\ Cover!Init
    \/ which = "wifi" /\ Connection!Init

ButtonNext == which = "button" /\ Button!Next /\ UNCHANGED which
DoorNext == which = "door" /\ Door!Next /\ UNCHANGED which
CoverNext == which = "cover" /\ Cover!Next /\ UNCHANGED which
WifiNext == which = "wifi" /\ Connection!Next /\ UNCHANGED which

Next == ButtonNext \/ DoorNext \/ CoverNext \/ WifiNext

(* The fairness of each machine's own specification. *)
ButtonFairness == WF_vars(which = "button" /\ Button!TimerTask /\ UNCHANGED which)

DoorFairness ==
    /\ WF_vars(which = "door" /\ Door!WorkerFires /\ UNCHANGED which)
    /\ WF_vars(which = "door" /\ Door!CommandEnds /\ UNCHANGED which)

CoverFairness ==
    /\ WF_vars(which = "cover" /\ Cover!WorkerFires /\ UNCHANGED which)
    /\ WF_vars(which = "cover" /\ Cover!CommandStarts /\ UNCHANGED which)
    /\ WF_vars(which = "cover" /\ Cover!CommandEnds /\ UNCHANGED which)

WifiFairness ==
    /\ WF_vars(which = "wifi" /\ Connection!Watchdog /\ UNCHANGED which)
    /\ WF_vars(which = "wifi" /\ Connection!ScanDone /\ UNCHANGED which)
    /\ WF_vars(which = "wifi" /\ Connection!PingDone /\ UNCHANGED which)
    /\ WF_vars(which = "wifi" /\ Connection!Associate /\ UNCHANGED which)
    /\ \A t \in Connection!Tasks : WF_vars(which = "wifi" /\ Connection!Task(t) /\ UNCHANGED which)

Spec ==
    /\ Init /\ [][Next]_vars
    /\ ButtonFairness /\ DoorFairness /\ CoverFairness /\ WifiFairness

----
(* Each machine's variable keeps the type its module gives it. *)
TypeOK ==
    CASE which = "button" -> Button!TypeOK
      [] which = "door" -> Door!TypeOK
      [] which = "cover" -> Cover!TypeOK
      [] which = "wifi" -> Connection!TypeOK

(* Every press of a button is reported exactly once: AdvButton.tla. *)
PressesAccounted == which = "button" => Button!PressesAccounted

(* A change of a button's level is not overlooked: AdvButton.tla. *)
EdgesSeen ==
    (which = "button" /\ Button!Unconfirmed) ~>
        (which = "button" => ~Button!Unconfirmed \/ machine.missed)

(* A door underway is watched or shown as obstructed: GarageDoor.tla. *)
DoorWatched == which = "door" => Door!DoorWatched

(* A door's worker comes to an end: GarageDoor.tla. *)
DoorSettles ==
    (which = "door" /\ machine.worker) ~> (which = "door" => ~machine.worker)

(* A moving cover has its worker and follows its last command: WindowCover.tla. *)
CoverTimed == which = "cover" => Cover!CoverTimed

(* A moving cover stops: WindowCover.tla. *)
CoverStops ==
    (which = "cover" /\ Cover!Driven) ~> (which = "cover" => ~Cover!Driven)

(* The WiFi connection always has a watchdog or a task: Wifi.tla. *)
Watched == which = "wifi" => Connection!Watched

(* The WiFi connection comes back: Wifi.tla. *)
Reconnects ==
    <>[](which = "wifi" => ~Connection!Duel) =>
        ((which = "wifi" /\ machine.calm) ~>
            (which = "wifi" => machine.released \/ Connection!Online))

====

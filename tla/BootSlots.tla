---- MODULE BootSlots ----
(* What the two application slots promise while the firmware updates itself:
   a program is only ever replaced by the installer that runs from the other
   slot, it is there as a whole or not at all, and the installers cover for
   each other.  Installer implements this module. *)
EXTENDS Integers

VARIABLES holds,  \* the program each slot can start, or "none"
          runs    \* the slot whose program runs, -1 when none does

vars == <<holds, runs>>

Slots == {0, 1}

(* Who writes slot s, and what. *)
Writer(s) == IF s = 0 THEN "ota" ELSE "boot"
Payload(s) == IF s = 0 THEN {"main", "boot"} ELSE {"ota"}

Init ==
    /\ runs = -1
    /\ \/ holds = [s \in Slots |-> IF s = 0 THEN "main" ELSE "ota"]
       \/ holds = [s \in Slots |-> IF s = 0 THEN "boot" ELSE "none"]

Start(s) ==
    /\ runs = -1 /\ holds[s] # "none"
    /\ runs' = s
    /\ UNCHANGED holds

Stop ==
    /\ runs # -1
    /\ runs' = -1
    /\ UNCHANGED holds

(* The installer in the other slot takes the program away, or completes one. *)
Replace(s) ==
    /\ runs = 1 - s /\ holds[1 - s] = Writer(s)
    /\ \E k \in IF holds[s] = "none" THEN Payload(s) ELSE {"none"} : holds' = [holds EXCEPT ![s] = k]
    /\ UNCHANGED runs

Next == Stop \/ \E s \in Slots : Start(s) \/ Replace(s)

Spec == Init /\ [][Next]_vars
====

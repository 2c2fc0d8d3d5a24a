---- MODULE Accessories_proofs ----
(* Machine-checked facts about the timer-driven machines of HAAMAIN, for every
   value of their periods, limits and bounds. *)
EXTENDS MCAccessories, TLAPS

----
(* The WiFi connection: Wifi.tla. *)

(* The periods, by the module's assumption. *)
LEMMA WifiConstants ==
    /\ LongTime \in Nat /\ RoamPeriod \in Nat /\ RoamPeriod > 0 /\ MaxUser \in Nat
    /\ PingMax \in Nat /\ MaxTasks \in Nat
BY AccessoriesAssumption DEF Connection!WifiAssumption

(* The helpers keep a device well formed and leave the reconnection tasks and
   the watchdog alone. *)
LEMMA WifiHelpers ==
    ASSUME NEW w \in Connection!Devices
    PROVE  /\ Connection!Disconnect(w) \in Connection!Devices
           /\ Connection!Disconnect(w).pc = w.pc /\ Connection!Disconnect(w).armed = w.armed
           /\ Connection!Disconnect(w).released = w.released
           /\ Connection!Connect(w) \in Connection!Devices
           /\ Connection!Connect(w).pc = w.pc /\ Connection!Connect(w).armed = w.armed
           /\ Connection!Connect(w).released = w.released
<1>1. Connection!NoLink \in Connection!Links /\ FALSE \in BOOLEAN /\ w.aimed \in BOOLEAN
  BY DEF Connection!NoLink, Connection!Links, Connection!Devices
<1>2. /\ Connection!Disconnect(w) \in Connection!Devices
      /\ Connection!Disconnect(w).pc = w.pc /\ Connection!Disconnect(w).armed = w.armed
      /\ Connection!Disconnect(w).released = w.released
  BY <1>1 DEF Connection!Devices, Connection!Disconnect
<1>3. /\ Connection!Connect(w) \in Connection!Devices
      /\ Connection!Connect(w).pc = w.pc /\ Connection!Connect(w).armed = w.armed
      /\ Connection!Connect(w).released = w.released
  BY <1>1 DEF Connection!Devices, Connection!Connect
<1> QED BY <1>2, <1>3

(* The values the handlers assign are values of the fields. *)
LEMMA WifiValues ==
    /\ Connection!LONG_DISCONNECTED \in Connection!LONG_DISCONNECTED .. Connection!CONNECTED
    /\ Connection!DISCONNECTED \in Connection!LONG_DISCONNECTED .. Connection!CONNECTED
    /\ Connection!CONNECTING \in Connection!LONG_DISCONNECTED .. Connection!CONNECTED
    /\ Connection!CONNECTED \in Connection!LONG_DISCONNECTED .. Connection!CONNECTED
    /\ Connection!NoLink \in Connection!Links
    /\ 0 \in 0 .. LongTime + 1 /\ 0 \in 0 .. RoamPeriod
    /\ \A u \in 0 .. MaxUser : u > 0 => u - 1 \in 0 .. MaxUser
    /\ \A e \in 0 .. LongTime + 1 : e <= LongTime => e + 1 \in 0 .. LongTime + 1
    /\ \A r \in 0 .. RoamPeriod : r # RoamPeriod => r + 1 \in 0 .. RoamPeriod
    /\ \A l \in Connection!Links : l # Connection!NoLink => 3 - l \in Connection!Links
<1> USE WifiConstants
<1>1. /\ Connection!LONG_DISCONNECTED \in Connection!LONG_DISCONNECTED .. Connection!CONNECTED
      /\ Connection!DISCONNECTED \in Connection!LONG_DISCONNECTED .. Connection!CONNECTED
      /\ Connection!CONNECTING \in Connection!LONG_DISCONNECTED .. Connection!CONNECTED
      /\ Connection!CONNECTED \in Connection!LONG_DISCONNECTED .. Connection!CONNECTED
  BY DEF Connection!LONG_DISCONNECTED, Connection!DISCONNECTED, Connection!CONNECTING,
     Connection!CONNECTED
<1>2. Connection!NoLink \in Connection!Links /\ \A l \in Connection!Links : l # Connection!NoLink => 3 - l \in Connection!Links
  BY DEF Connection!NoLink, Connection!Links
<1>3. /\ 0 \in 0 .. LongTime + 1 /\ 0 \in 0 .. RoamPeriod
      /\ \A u \in 0 .. MaxUser : u > 0 => u - 1 \in 0 .. MaxUser
      /\ \A e \in 0 .. LongTime + 1 : e <= LongTime => e + 1 \in 0 .. LongTime + 1
      /\ \A r \in 0 .. RoamPeriod : r # RoamPeriod => r + 1 \in 0 .. RoamPeriod
  OBVIOUS
<1> QED BY <1>1, <1>2, <1>3

(* A device is well formed and has its watchdog or a reconnection task, or was
   told to stay disconnected. *)
WellWatched(w) ==
    /\ w \in Connection!Devices
    /\ w.armed \/ w.released \/ \E t \in Connection!Tasks : w.pc[t] # "none"

(* What leaves the watchdog and the tasks alone. *)
SameWatch(v, w) ==
    /\ v \in Connection!Devices
    /\ v.armed = w.armed /\ v.released = w.released /\ v.pc = w.pc

(* That keeps a device watched. *)
LEMMA SameWatchKeeps ==
    ASSUME NEW w, WellWatched(w), NEW v, SameWatch(v, w)
    PROVE  WellWatched(v)
BY DEF WellWatched, SameWatch

(* wifi_config_smart_connect leaves the watchdog and the tasks alone. *)
LEMMA SmartConnectKeeps ==
    ASSUME NEW w \in Connection!Devices, NEW scans \in BOOLEAN
    PROVE  SameWatch(Connection!SmartConnect(w, scans), w)
<1>1. CASE scans
  BY <1>1 DEF Connection!SmartConnect, SameWatch, Connection!Devices
<1>2. CASE ~scans
  BY <1>2, WifiHelpers DEF Connection!SmartConnect, SameWatch
<1> QED BY <1>1, <1>2

(* The station, the access point and the timer of the pings. *)
LEMMA NetworkWatched ==
    ASSUME WellWatched(machine),
           Connection!LinkLost \/ Connection!LinkChanges \/ Connection!Calms \/ Connection!Network
    PROVE  WellWatched(machine')
<1> USE WifiValues
<1>0. machine \in Connection!Devices
  BY DEF WellWatched
<1> SUFFICES SameWatch(machine', machine)
  BY SameWatchKeeps
<1>1. CASE Connection!Associate
  BY <1>0, <1>1 DEF Connection!Associate, SameWatch, Connection!Devices
<1>2. CASE Connection!LinkLost
  <2>1. PICK again \in BOOLEAN : machine' = [machine EXCEPT !.link = Connection!NoLink, !.asked = again]
    BY <1>2 DEF Connection!LinkLost
  <2> QED BY <1>0, <2>1 DEF SameWatch, Connection!Devices
<1>3. CASE Connection!LinkChanges
  <2>1. machine.link \in Connection!Links /\ machine.link # Connection!NoLink
    BY <1>0, <1>3 DEF Connection!LinkChanges, Connection!Devices
  <2>2. 3 - machine.link \in Connection!Links
    BY <2>1
  <2> QED BY <1>0, <1>3, <2>2 DEF Connection!LinkChanges, SameWatch, Connection!Devices
<1>4. CASE Connection!Calms
  BY <1>0, <1>4 DEF Connection!Calms, SameWatch, Connection!Devices
<1>5. CASE Connection!ScanDone
  <2> DEFINE w == [machine EXCEPT !.scan = FALSE]
             v == [Connection!Disconnect(w) EXCEPT !.status = Connection!CONNECTING, !.aimed = TRUE]
  <2>1. SameWatch(w, machine) /\ w \in Connection!Devices
    BY <1>0 DEF SameWatch, Connection!Devices
  <2>2. machine' = Connection!Connect(v) \/ machine' = Connection!Connect(w) \/ machine' = w
    BY <1>5 DEF Connection!ScanDone
  <2> HIDE DEF w
  <2>3. SameWatch(Connection!Disconnect(w), machine) /\ Connection!Disconnect(w) \in Connection!Devices
    BY <2>1, WifiHelpers DEF SameWatch
  <2>4. SameWatch(v, machine) /\ v \in Connection!Devices
    BY <2>3 DEF SameWatch, Connection!Devices
  <2> HIDE DEF v
  <2> QED BY <2>1, <2>2, <2>4, WifiHelpers DEF SameWatch
<1>6. CASE Connection!PingDone
  <2>1. machine.errors <= LongTime => machine.errors + 1 \in 0 .. LongTime + 1
    BY <1>0 DEF Connection!Devices
  <2>2. \/ /\ machine.errors + 1 \in 0 .. LongTime + 1
           /\ machine' = [machine EXCEPT !.ping = FALSE, !.errors = machine.errors + 1]
        \/ machine' = [machine EXCEPT !.ping = FALSE, !.errors = 0]
        \/ machine' = [machine EXCEPT !.ping = FALSE]
    BY <1>6, <2>1 DEF Connection!PingDone
  <2> DEFINE e == machine.errors + 1
  <2>3. CASE e \in 0 .. LongTime + 1 /\ machine' = [machine EXCEPT !.ping = FALSE, !.errors = e]
    <3> HIDE DEF e
    <3> QED BY <1>0, <2>3 DEF SameWatch, Connection!Devices
  <2>4. CASE machine' = [machine EXCEPT !.ping = FALSE, !.errors = 0]
    BY <1>0, <2>4 DEF SameWatch, Connection!Devices
  <2>5. CASE machine' = [machine EXCEPT !.ping = FALSE]
    BY <1>0, <2>5 DEF SameWatch, Connection!Devices
  <2> QED BY <2>2, <2>3, <2>4, <2>5
<1> QED BY <1>1, <1>2, <1>3, <1>4, <1>5, <1>6 DEF Connection!Network

(* The commands of the user: the one that stops the watchdog says so. *)
LEMMA UserWatched ==
    ASSUME WellWatched(machine), Connection!User
    PROVE  WellWatched(machine')
<1> USE WifiValues
<1>0. machine \in Connection!Devices /\ machine.status \in Connection!LONG_DISCONNECTED .. Connection!CONNECTED
  BY DEF WellWatched, Connection!Devices
<1>1. Connection!Disconnect(machine) \in Connection!Devices /\ SameWatch(Connection!Disconnect(machine), machine)
  BY <1>0, WifiHelpers DEF SameWatch
<1>2. machine.user > 0 /\ Connection!Disconnect(machine).user = machine.user
  BY <1>0 DEF Connection!User, Connection!SetupReconnection, Connection!ActionReconnection,
     Connection!ActionDisconnection, Connection!Disconnect, Connection!Devices
<1>3. machine.user - 1 \in 0 .. MaxUser
  BY <1>0, <1>2 DEF Connection!Devices
<1> DEFINE d == Connection!Disconnect(machine)
           n == machine.user - 1
<1>4. d \in Connection!Devices /\ SameWatch(d, machine) /\ d.user - 1 = n /\ n \in 0 .. MaxUser
  BY <1>1, <1>2, <1>3
<1>5. CASE Connection!SetupReconnection
  <2>1. \/ machine' = [machine EXCEPT !.user = n, !.status = Connection!DISCONNECTED]
        \/ machine' = [d EXCEPT !.user = n, !.aimed = FALSE]
    BY <1>4, <1>5 DEF Connection!SetupReconnection
  <2> HIDE DEF d, n
  <2>2. CASE machine' = [machine EXCEPT !.user = n, !.status = Connection!DISCONNECTED]
    <3>1. SameWatch(machine', machine)
      BY <1>0, <1>4, <2>2 DEF SameWatch, Connection!Devices
    <3> QED BY <3>1, SameWatchKeeps
  <2>3. CASE machine' = [d EXCEPT !.user = n, !.aimed = FALSE]
    <3>1. SameWatch(machine', machine)
      BY <1>4, <2>3 DEF SameWatch, Connection!Devices
    <3> QED BY <3>1, SameWatchKeeps
  <2> QED BY <2>1, <2>2, <2>3
<1>6. CASE Connection!ActionReconnection
  <2>1. PICK v \in Connection!LONG_DISCONNECTED .. Connection!CONNECTED :
           machine' = [d EXCEPT !.user = n, !.status = v, !.armed = TRUE, !.released = FALSE]
    BY <1>0, <1>4, <1>6 DEF Connection!ActionReconnection
  <2> HIDE DEF d, n
  <2> QED BY <1>4, <2>1 DEF WellWatched, Connection!Devices
<1>7. CASE Connection!ActionDisconnection
  <2>1. machine' = [d EXCEPT !.user = n, !.status = Connection!DISCONNECTED, !.armed = FALSE, !.released = TRUE]
    BY <1>4, <1>7 DEF Connection!ActionDisconnection
  <2> HIDE DEF d, n
  <2> QED BY <1>4, <2>1 DEF WellWatched, Connection!Devices
<1> QED BY <1>5, <1>6, <1>7 DEF Connection!User

(* A task may be created, and nothing else happens. *)
LEMMA SpawnWatched ==
    ASSUME NEW w, WellWatched(w), NEW v \in Connection!Spawn(w)
    PROVE  WellWatched(v)
<1>1. CASE v = w
  BY <1>1
<1>2. CASE v # w
  <2>1. PICK t \in Connection!Tasks : v = [w EXCEPT !.pc[t] = "created"]
    BY <1>2 DEF Connection!Spawn
  <2>2. v \in Connection!Devices /\ v.armed = w.armed /\ v.released = w.released
        /\ v.pc = [w.pc EXCEPT ![t] = "created"]
    BY <2>1 DEF WellWatched, Connection!Devices
  <2>3. v.pc[t] = "created"
    BY <2>2 DEF WellWatched, Connection!Devices
  <2> QED BY <2>2, <2>3 DEF WellWatched
<1> QED BY <1>1, <1>2

(* The watchdog does not stop itself. *)
LEMMA WatchdogWatched ==
    ASSUME WellWatched(machine), Connection!Watchdog
    PROVE  WellWatched(machine')
<1> USE WifiValues
<1>0. machine \in Connection!Devices /\ machine.status \in Connection!LONG_DISCONNECTED .. Connection!CONNECTED /\ machine.calm \in BOOLEAN
  BY DEF WellWatched, Connection!Devices
<1>1. CASE Connection!WatchdogRoams
  <2> DEFINE w == [machine EXCEPT !.roam = 0]
  <2>1. PICK scans \in {TRUE, machine.calm} : machine' = Connection!SmartConnect(w, scans)
    BY <1>1 DEF Connection!WatchdogRoams
  <2>2. w \in Connection!Devices /\ SameWatch(w, machine) /\ scans \in BOOLEAN
    BY <1>0 DEF SameWatch, Connection!Devices
  <2> HIDE DEF w
  <2>3. SameWatch(machine', w)
    BY <2>1, <2>2, SmartConnectKeeps
  <2>4. WellWatched(w)
    BY <2>2, SameWatchKeeps
  <2> QED BY <2>3, <2>4, SameWatchKeeps
<1>2. CASE Connection!WatchdogChecks
  <2> DEFINE roams == machine.roaming /\ ~Connection!Wrong(machine)
             r == IF roams THEN machine.roam + 1 ELSE machine.roam
             p == machine.ping \/ (~Connection!Wrong(machine) /\ machine.pings)
             w == [machine EXCEPT !.roam = r, !.ping = p]
             v == [w EXCEPT !.status = Connection!Blames(machine), !.errors = 0]
  <2>1. machine' \in Connection!Spawn(v) \/ machine' = w
    BY <1>2 DEF Connection!WatchdogChecks
  <2>2. r \in 0 .. RoamPeriod
    <3>1. machine.roam \in 0 .. RoamPeriod
      BY <1>0 DEF Connection!Devices
    <3>2. ~(roams /\ machine.roam = RoamPeriod)
      BY <1>2 DEF Connection!WatchdogChecks
    <3> QED BY <3>1, <3>2
  <2>3. p \in BOOLEAN
    BY <1>0 DEF Connection!Devices
  <2> HIDE DEF r, p
  <2>4. w \in Connection!Devices /\ SameWatch(w, machine)
    BY <1>0, <2>2, <2>3 DEF SameWatch, Connection!Devices
  <2>5. Connection!Blames(machine) \in Connection!LONG_DISCONNECTED .. Connection!CONNECTED
    BY <1>0 DEF Connection!Blames
  <2> HIDE DEF w
  <2>6. v \in Connection!Devices /\ SameWatch(v, w)
    BY <2>4, <2>5 DEF SameWatch, Connection!Devices
  <2> HIDE DEF v
  <2> QED BY <2>1, <2>4, <2>6, SameWatchKeeps, SpawnWatched
<1> QED BY <1>1, <1>2 DEF Connection!Watchdog

(* A task that stops the watchdog is there itself; one that ends has started
   the watchdog again. *)
LEMMA TaskWatched ==
    ASSUME WellWatched(machine), NEW t \in Connection!Tasks, Connection!Task(t)
    PROVE  WellWatched(machine')
<1> USE WifiValues
<1>0. machine \in Connection!Devices
  BY DEF WellWatched
<1>a. ASSUME NEW w \in Connection!Devices, NEW l \in {"poll", "connect", "settle", "arm", "none"}
      PROVE  /\ Connection!Goes(w, t, l) \in Connection!Devices
             /\ Connection!Goes(w, t, l).pc[t] = l
             /\ Connection!Goes(w, t, l).armed = w.armed
  <2>1. Connection!Goes(w, t, l) \in Connection!Devices /\ Connection!Goes(w, t, l).pc = [w.pc EXCEPT ![t] = l]
        /\ Connection!Goes(w, t, l).armed = w.armed
    BY DEF Connection!Goes, Connection!Devices
  <2>2. [w.pc EXCEPT ![t] = l][t] = l
    BY DEF Connection!Devices
  <2> QED BY <2>1, <2>2
<1>b. ASSUME NEW w \in Connection!Devices, w.pc[t] # "none" PROVE WellWatched(w)
  BY <1>b DEF WellWatched
<1>c. ASSUME NEW w \in Connection!Devices, NEW l \in {"poll", "connect", "settle", "arm"}
      PROVE  WellWatched(Connection!Goes(w, t, l))
  BY <1>a, <1>b
<1>1. CASE Connection!TaskStarts(t)
  <2> DEFINE v == [machine EXCEPT !.armed = FALSE]
             w == Connection!Goes(v, t, "poll")
             u == [Connection!Disconnect(w) EXCEPT !.status = Connection!CONNECTING]
  <2>1. machine' = w \/ machine' = Connection!Connect(u)
    BY <1>1 DEF Connection!TaskStarts
  <2>2. v \in Connection!Devices
    BY <1>0 DEF Connection!Devices
  <2> HIDE DEF v
  <2>3. w \in Connection!Devices /\ w.pc[t] = "poll"
    BY <1>a, <2>2
  <2> HIDE DEF w
  <2>4. Connection!Disconnect(w) \in Connection!Devices /\ Connection!Disconnect(w).pc = w.pc
    BY <2>3, WifiHelpers
  <2>5. u \in Connection!Devices /\ u.pc = w.pc
    BY <2>4 DEF Connection!Devices
  <2> HIDE DEF u
  <2>6. Connection!Connect(u) \in Connection!Devices /\ Connection!Connect(u).pc = w.pc
    BY <2>5, WifiHelpers
  <2> QED BY <1>b, <2>1, <2>3, <2>6
<1>2. CASE Connection!TaskPolls(t)
  <2>1. machine.pc[t] = "poll"
    BY <1>2 DEF Connection!TaskPolls, Connection!At
  <2> DEFINE u == [Connection!Disconnect(machine) EXCEPT !.status = Connection!CONNECTING, !.aimed = FALSE]
             v == [machine EXCEPT !.seen[t] = machine.link]
  <2>2. machine' \in {Connection!Goes(u, t, "connect"), Connection!Goes(v, t, "settle"), Connection!Counted(machine)}
    BY <1>2 DEF Connection!TaskPolls
  <2>3. Connection!Disconnect(machine) \in Connection!Devices
    BY <1>0, WifiHelpers
  <2>4. u \in Connection!Devices
    BY <2>3 DEF Connection!Devices
  <2>5. v \in Connection!Devices
    BY <1>0 DEF Connection!Devices
  <2>6. Connection!Counted(machine) \in Connection!Devices /\ Connection!Counted(machine).pc = machine.pc
    <3> DEFINE e == machine.errors + 1
    <3>1. machine.errors \in 0 .. LongTime + 1 /\ (e <= LongTime => e \in 0 .. LongTime + 1)
      BY <1>0, WifiConstants DEF Connection!Devices
    <3>2. \/ Connection!Counted(machine) = [machine EXCEPT !.errors = 0, !.status = Connection!LONG_DISCONNECTED]
          \/ e <= LongTime /\ Connection!Counted(machine) = [machine EXCEPT !.errors = e, !.status = Connection!DISCONNECTED]
          \/ e <= LongTime /\ Connection!Counted(machine) = [machine EXCEPT !.errors = e]
      <4>1. CASE e > LongTime
        BY <4>1 DEF Connection!Counted
      <4>2. CASE e <= LongTime /\ e % Retry = 0
        BY <4>2, <3>1, WifiConstants DEF Connection!Counted
      <4>3. CASE e <= LongTime /\ ~(e % Retry = 0)
        BY <4>3, <3>1, WifiConstants DEF Connection!Counted
      <4> QED BY <3>1, <4>1, <4>2, <4>3, WifiConstants
    <3> HIDE DEF e, u, v
    <3>3. CASE Connection!Counted(machine) = [machine EXCEPT !.errors = 0, !.status = Connection!LONG_DISCONNECTED]
      BY <1>0, <3>1, <3>3 DEF Connection!Devices
    <3>4. CASE e <= LongTime /\ Connection!Counted(machine) = [machine EXCEPT !.errors = e, !.status = Connection!DISCONNECTED]
      BY <1>0, <3>1, <3>4 DEF Connection!Devices
    <3>5. CASE e <= LongTime /\ Connection!Counted(machine) = [machine EXCEPT !.errors = e]
      BY <1>0, <3>1, <3>5 DEF Connection!Devices
    <3> QED BY <3>2, <3>3, <3>4, <3>5
  <2> HIDE DEF u, v
  <2> QED BY <1>b, <1>c, <2>1, <2>2, <2>4, <2>5, <2>6
<1>3. CASE Connection!TaskConnects(t)
  <2> DEFINE u == [Connection!Disconnect(machine) EXCEPT !.aimed = TRUE]
             w == Connection!Goes(u, t, "poll")
  <2>1. (\E scans \in {TRUE, machine.calm} : machine' = Connection!SmartConnect(w, scans)) \/ machine' = Connection!Connect(w)
    BY <1>3 DEF Connection!TaskConnects
  <2>2. Connection!Disconnect(machine) \in Connection!Devices /\ machine.calm \in BOOLEAN
    BY <1>0, WifiHelpers DEF Connection!Devices
  <2>3. u \in Connection!Devices
    BY <2>2 DEF Connection!Devices
  <2> HIDE DEF u
  <2>4. w \in Connection!Devices /\ w.pc[t] = "poll"
    BY <1>a, <2>3
  <2> HIDE DEF w
  <2>5. \A scans \in BOOLEAN : SameWatch(Connection!SmartConnect(w, scans), w)
    BY <2>4, SmartConnectKeeps
  <2>6. SameWatch(Connection!Connect(w), w)
    BY <2>4, WifiHelpers DEF SameWatch
  <2>7. SameWatch(machine', w)
    BY <2>1, <2>2, <2>5, <2>6
  <2> QED BY <1>b, <2>4, <2>7 DEF SameWatch
<1>4. CASE Connection!TaskSettles(t)
  <2> DEFINE w == [machine EXCEPT !.seen[t] = Connection!NoLink]
             k == machine.seen[t]
             u == [w EXCEPT !.status = Connection!CONNECTED, !.errors = 0, !.known = k]
  <2>1. machine' \in {Connection!Goes(w, t, "poll"), Connection!Goes(u, t, "arm")}
    BY <1>4 DEF Connection!TaskSettles
  <2>2. w \in Connection!Devices /\ k \in Connection!Links
    BY <1>0 DEF Connection!Devices
  <2> HIDE DEF w, k
  <2>3. u \in Connection!Devices
    BY <2>2 DEF Connection!Devices
  <2> HIDE DEF u
  <2> QED BY <1>c, <2>1, <2>2, <2>3
<1>5. CASE Connection!TaskEnds(t)
  <2> DEFINE w == Connection!Goes(machine, t, "none")
  <2>1. machine' = [w EXCEPT !.armed = TRUE]
    BY <1>5 DEF Connection!TaskEnds
  <2>2. w \in Connection!Devices
    BY <1>0, <1>a
  <2> HIDE DEF w
  <2> QED BY <2>1, <2>2 DEF WellWatched, Connection!Devices
<1> QED BY <1>1, <1>2, <1>3, <1>4, <1>5 DEF Connection!Task

(* Every step of the connection keeps it watched, and it begins so. *)
LEMMA WifiStep ==
    ASSUME WellWatched(machine), Connection!Next
    PROVE  WellWatched(machine')
BY NetworkWatched, UserWatched, WatchdogWatched, TaskWatched DEF Connection!Next

(* It begins with its watchdog. *)
LEMMA WifiInit == Connection!Init => WellWatched(machine)
<1> SUFFICES ASSUME Connection!Init PROVE WellWatched(machine)
  OBVIOUS
<1> USE WifiValues
<1>1. 1 \in Connection!Links /\ 0 \in 0 .. RoamPeriod /\ MaxUser \in 0 .. MaxUser
  BY WifiConstants DEF Connection!Links
<1>2. [t \in Connection!Tasks |-> "none"] \in [Connection!Tasks -> {"none", "created", "poll", "connect", "settle", "arm"}]
  OBVIOUS
<1>3. [t \in Connection!Tasks |-> Connection!NoLink] \in [Connection!Tasks -> Connection!Links]
  OBVIOUS
<1>4. machine \in Connection!Devices
  BY <1>1, <1>2, <1>3 DEF Connection!Init, Connection!Devices
<1>5. machine.armed = TRUE
  BY DEF Connection!Init
<1> QED BY <1>4, <1>5 DEF WellWatched

----
(* The garage door: GarageDoor.tla. *)

(* The travel time, by the module's assumption. *)
LEMMA DoorConstants == Travel \in Nat /\ Travel > 0 /\ DoorInputs \in Nat /\ DoorMargins \subseteq Nat
BY AccessoriesAssumption DEF Door!GarageDoorAssumption

(* While the worker runs the time is on its way to the limit that stops it, and
   a door at rest has the sensor that it waits for.  Only a stopped door has no
   target. *)
Timed(d) ==
    /\ d \in Door!Doors /\ d.time <= Door!Working(d)
    /\ d.target = 2 => d.state = Door!STOPPED
    /\ d.worker => d.state # Door!STOPPED
    /\ d.worker /\ d.state = Door!OPENING => d.time < Door!Working(d)
    /\ d.worker /\ d.state = Door!CLOSING => d.time > 0
    /\ d.worker /\ d.state = Door!CLOSED => d.f4 /\ d.time <= d.margin
    /\ d.worker /\ d.state = Door!OPENED => d.f5 /\ d.time >= Door!Working(d) - d.margin

(* What the inputs leave alone. *)
SameDoor(e, d) ==
    /\ e.f2 = d.f2 /\ e.f3 = d.f3 /\ e.f4 = d.f4 /\ e.f5 = d.f5
    /\ e.margin = d.margin /\ e.call = d.call

(* A door underway with no worker is obstructed, or the command that is being
   carried out will start one. *)
Watch(d) ==
    d.margin > 0 /\ Door!Underway(d) /\ ~d.stray =>
        \/ d.worker \/ d.obst
        \/ d.call # Door!NoCall /\ (Door!Moving(d) \/ d.target = d.call)

(* The times of a door are numbers, and the margins do not meet. *)
LEMMA DoorBounds ==
    ASSUME NEW d \in Door!Doors
    PROVE  /\ d.margin \in Nat /\ d.time \in Nat /\ Door!Working(d) \in Nat
           /\ Door!Working(d) - d.margin \in Nat /\ d.margin < Door!Working(d) - d.margin
           /\ Door!Working(d) = Travel + 2 * d.margin
<1>1. d.margin \in DoorMargins /\ d.time \in Nat
  BY DEF Door!Doors
<1>2. d.margin \in Nat
  BY <1>1, DoorConstants
<1> QED BY <1>1, <1>2, DoorConstants DEF Door!Working

(* What a sensor's report makes of the door. *)
LEMMA SensorDoes ==
    ASSUME NEW d \in Door!Doors, NEW type \in Door!OPENED .. Door!CLOSING
    PROVE  /\ Door!Sensor(d, type) \in Door!Doors
           /\ SameDoor(Door!Sensor(d, type), d)
           /\ Door!Sensor(d, type).state = type
           /\ Door!Sensor(d, type).target \in {0, 1} /\ Door!Sensor(d, type).target # 2
           /\ type \in {Door!OPENED, Door!CLOSED} => Door!Sensor(d, type).target = type
           /\ Door!Sensor(d, type).worker <=> (type \in {Door!OPENING, Door!CLOSING})
           /\ Door!Sensor(d, type).obst = FALSE
           /\ Door!Sensor(d, type).stray = FALSE
           /\ Door!Sensor(d, type).time = IF type \in {Door!OPENED, Door!CLOSING}
                                          THEN Door!Working(d) - d.margin ELSE d.margin
<1> DEFINE moves == type \in {Door!OPENING, Door!CLOSING}
           t == IF type \in {Door!OPENED, Door!CLOSING} THEN Door!Working(d) - d.margin ELSE d.margin
           g == IF moves THEN type - 2 ELSE type
           a == d.auto /\ ~moves
           e == [d EXCEPT !.time = t, !.state = type, !.target = g, !.worker = moves,
                          !.auto = a, !.stray = FALSE]
<1>1. Door!Sensor(d, type) = IF d.obst THEN [e EXCEPT !.obst = FALSE, !.auto = FALSE] ELSE e
  BY DEF Door!Sensor, Door!Obstruction
<1>2. t \in Nat
  BY DoorBounds
<1>3. g \in 0 .. 2 /\ g \in {0, 1} /\ g # 2 /\ (type \in {Door!OPENED, Door!CLOSED} => g = type)
  BY DEF Door!OPENED, Door!CLOSED, Door!OPENING, Door!CLOSING
<1>4. moves \in BOOLEAN /\ a \in BOOLEAN /\ type \in Door!OPENED .. Door!STOPPED /\ d.obst \in BOOLEAN
  BY DEF Door!OPENED, Door!STOPPED, Door!CLOSING, Door!Doors
<1> HIDE DEF t, g, a, moves
<1>5. e \in Door!Doors
  BY <1>2, <1>3, <1>4 DEF Door!Doors
<1>6. SameDoor(e, d) /\ e.state = type /\ e.target = g /\ e.worker = moves /\ e.obst = d.obst
      /\ e.stray = FALSE /\ e.time = t
  BY DEF Door!Doors, SameDoor
<1> HIDE DEF e
<1>7. CASE d.obst
  <2>1. Door!Sensor(d, type) = [e EXCEPT !.obst = FALSE, !.auto = FALSE]
    BY <1>1, <1>7
  <2>2. Door!Sensor(d, type) \in Door!Doors
    BY <1>5, <2>1 DEF Door!Doors
  <2>3. /\ SameDoor(Door!Sensor(d, type), e)
        /\ Door!Sensor(d, type).state = e.state /\ Door!Sensor(d, type).target = e.target
        /\ Door!Sensor(d, type).worker = e.worker /\ Door!Sensor(d, type).obst = FALSE
        /\ Door!Sensor(d, type).stray = e.stray /\ Door!Sensor(d, type).time = e.time
    BY <1>5, <2>1 DEF Door!Doors, SameDoor
  <2> QED BY <1>3, <1>6, <2>2, <2>3 DEF SameDoor, t, moves
<1>8. CASE ~d.obst
  <2>1. Door!Sensor(d, type) = e /\ d.obst = FALSE
    BY <1>1, <1>4, <1>8
  <2> QED BY <1>3, <1>5, <1>6, <2>1 DEF t, moves
<1> QED BY <1>4, <1>7, <1>8

(* A sensor's report leaves the worker the time that it needs. *)
LEMMA SensorTimed ==
    ASSUME NEW d \in Door!Doors, NEW type \in Door!OPENED .. Door!CLOSING
    PROVE  Timed(Door!Sensor(d, type))
<1> DEFINE e == Door!Sensor(d, type)
<1>1. /\ e \in Door!Doors /\ SameDoor(e, d) /\ e.state = type
      /\ (e.worker <=> (type \in {Door!OPENING, Door!CLOSING})) /\ e.target # 2
      /\ e.time = IF type \in {Door!OPENED, Door!CLOSING} THEN Door!Working(d) - d.margin ELSE d.margin
  BY SensorDoes
<1>2. e.margin = d.margin /\ Door!Working(e) = Door!Working(d)
  BY <1>1 DEF SameDoor, Door!Working
<1> HIDE DEF e
<1>3. /\ d.margin \in Nat /\ Door!Working(d) \in Nat
      /\ Door!Working(d) - d.margin \in Nat /\ d.margin < Door!Working(d) - d.margin
  BY DoorBounds
<1> USE DEF Door!OPENED, Door!CLOSED, Door!OPENING, Door!CLOSING, Door!STOPPED
<1>5. e.time <= Door!Working(e)
  BY <1>1, <1>2, <1>3
<1>6. e.worker => type \in {2, 3} /\ type # 4
  BY <1>1
<1>7. type = 2 => e.time < Door!Working(e)
  BY <1>1, <1>2, <1>3
<1>8. type = 3 => e.time > 0
  BY <1>1, <1>2, <1>3
<1>4. Timed(e)
  BY <1>1, <1>5, <1>6, <1>7, <1>8 DEF Timed
<1> QED BY <1>4 DEF e

(* The states, as the code numbers them. *)
LEMMA DoorValues ==
    /\ Door!OPENED = 0 /\ Door!CLOSED = 1 /\ Door!OPENING = 2 /\ Door!CLOSING = 3 /\ Door!STOPPED = 4 /\ Door!NoCall = -1
    /\ Door!OPENED .. Door!STOPPED = 0 .. 4 /\ Door!OPENED .. Door!CLOSING = 0 .. 3
BY DEF Door!OPENED, Door!CLOSED, Door!OPENING, Door!CLOSING, Door!STOPPED, Door!NoCall

(* A sensor that sees the door move starts the worker. *)
LEMMA SensorStarts ==
    ASSUME NEW d \in Door!Doors
    PROVE  Door!Sensor(d, Door!OPENING).worker /\ Door!Sensor(d, Door!CLOSING).worker
<1>1. /\ Door!OPENING \in Door!OPENED .. Door!CLOSING
      /\ Door!CLOSING \in Door!OPENED .. Door!CLOSING
  BY DoorValues
<1>2. ASSUME NEW type \in Door!OPENED .. Door!CLOSING, type \in {Door!OPENING, Door!CLOSING}
      PROVE  Door!Sensor(d, type).worker
  BY <1>2, SensorDoes
<1> QED BY <1>1, <1>2

(* What stops or leaves the worker, and moves nothing, keeps the times. *)
LEMMA TimedSame ==
    ASSUME NEW d, Timed(d), NEW e \in Door!Doors, SameDoor(e, d), e.time = d.time,
           e.worker => d.worker /\ e.state = d.state,
           e.target = 2 => e.state = Door!STOPPED
    PROVE  Timed(e)
BY DEF Timed, SameDoor, Door!Working

(* History only: nothing the door does depends on it. *)
LEMMA StraysTimed ==
    ASSUME NEW d, Timed(d)
    PROVE  Timed(Door!Strays(d)) /\ Watch(Door!Strays(d))
<1> DEFINE s == d.stray \/ (Door!Underway(d) /\ ~d.worker /\ ~d.obst)
           e == [d EXCEPT !.stray = s]
<1>1. Door!Strays(d) = e /\ s \in BOOLEAN
  BY DEF Door!Strays, Timed, Door!Doors
<1> HIDE DEF s
<1>2. e \in Door!Doors /\ SameDoor(e, d) /\ e.time = d.time /\ e.worker = d.worker /\ e.state = d.state
      /\ e.target = d.target /\ e.obst = d.obst /\ e.stray = s
  BY <1>1 DEF Timed, Door!Doors, SameDoor
<1> HIDE DEF e
<1>3. Timed(e)
  <2>1. e.target = 2 => e.state = Door!STOPPED
    BY <1>2 DEF Timed
  <2> QED BY <1>2, <2>1, TimedSame
<1>4. Door!Underway(e) <=> Door!Underway(d)
  BY <1>2 DEF Door!Underway, Door!Moving
<1>5. Watch(e)
  BY <1>2, <1>4 DEF Watch, s
<1> QED BY <1>1, <1>3, <1>5

(* One more input. *)
LEMMA SpentTimed ==
    ASSUME NEW d, Timed(d), d.inputs > 0
    PROVE  /\ Timed(Door!Spent(d))
           /\ \A f \in {"call", "state", "target", "worker", "obst", "stray", "margin"} :
                  Door!Spent(d)[f] = d[f]
<1> DEFINE n == d.inputs - 1
           e == [d EXCEPT !.inputs = n]
<1>1. Door!Spent(d) = e
  BY DEF Door!Spent
<1>2. n \in 0 .. DoorInputs
  BY DoorConstants DEF Timed, Door!Doors
<1> HIDE DEF n
<1>3. e \in Door!Doors /\ SameDoor(e, d) /\ e.time = d.time /\ e.worker = d.worker /\ e.state = d.state
      /\ \A f \in {"call", "state", "target", "worker", "obst", "stray", "margin"} : e[f] = d[f]
  BY <1>2 DEF Timed, Door!Doors, SameDoor
<1> HIDE DEF e
<1>4. e.target = 2 => e.state = Door!STOPPED
  BY <1>3 DEF Timed
<1> QED BY <1>1, <1>3, <1>4, TimedSame

(* A command stops a moving door, or says that a stopped one is on its way. *)
LEMMA PreparedTimed ==
    ASSUME NEW d, Timed(d)
    PROVE  /\ Timed(Door!Prepared(d)) /\ SameDoor(Door!Prepared(d), d)
           /\ Door!Prepared(d).inputs = d.inputs /\ Door!Prepared(d).obst = d.obst
<1>1. CASE d.state = Door!STOPPED
  <2> DEFINE g == d.target + 2
             e == [d EXCEPT !.state = g]
  <2>1. Door!Prepared(d) = e
    <3>1. Door!Prepared(d) = CASE TRUE -> e
                               [] Door!Moving(d) /\ d.vstop -> Door!Stop(d)
                               [] OTHER -> d
      BY <1>1, Zenon DEF Door!Prepared
    <3>2. d.state = 4
      BY <1>1, DoorValues
    <3>3. ~Door!Moving(d)
      BY <3>2, DoorValues DEF Door!Moving
    <3> HIDE DEF e
    <3> QED BY <3>1, <3>3
  <2>2. g \in Door!OPENED .. Door!STOPPED /\ ~d.worker /\ (d.target = 2 => g = Door!STOPPED)
    BY <1>1, DoorValues DEF Timed, Door!Doors
  <2> HIDE DEF g
  <2>3. e \in Door!Doors /\ SameDoor(e, d) /\ e.time = d.time /\ e.worker = d.worker
        /\ e.inputs = d.inputs /\ e.obst = d.obst /\ e.target = d.target /\ e.state = g
    BY <2>2 DEF Timed, Door!Doors, SameDoor
  <2> HIDE DEF e
  <2>4. e.worker => d.worker /\ e.state = d.state
    BY <2>2, <2>3
  <2>5. Timed(e)
    BY <2>2, <2>3, <2>4, TimedSame
  <2> QED BY <2>1, <2>3, <2>5
<1>2. CASE d.state # Door!STOPPED /\ Door!Moving(d) /\ d.vstop
  <2> DEFINE e == [d EXCEPT !.state = Door!STOPPED, !.worker = FALSE]
  <2>1. Door!Prepared(d) = e
    BY <1>2 DEF Door!Prepared, Door!Stop
  <2>2. Door!STOPPED \in Door!OPENED .. Door!STOPPED
    BY DoorValues
  <2>3. e \in Door!Doors /\ SameDoor(e, d) /\ e.time = d.time /\ e.worker = FALSE
        /\ e.inputs = d.inputs /\ e.obst = d.obst /\ e.state = Door!STOPPED
    BY <2>2 DEF Timed, Door!Doors, SameDoor
  <2> HIDE DEF e
  <2> QED BY <2>1, <2>3, TimedSame
<1>3. CASE d.state # Door!STOPPED /\ ~(Door!Moving(d) /\ d.vstop)
  BY <1>3 DEF Door!Prepared, SameDoor
<1> QED BY <1>1, <1>2, <1>3

(* A new target. *)
LEMMA SetterBeginsTimed ==
    ASSUME NEW d, Timed(d), NEW v \in {Door!OPENED, Door!CLOSED}
    PROVE  /\ Timed(Door!SetterBegins(d, v)) /\ SameDoor(Door!SetterBegins(d, v), d)
           /\ Door!SetterBegins(d, v).inputs = d.inputs
           /\ Door!Taken(d, v) => Door!SetterBegins(d, v).target = v
<1> USE DoorValues
<1> DEFINE p == Door!Prepared(d)
           e == [p EXCEPT !.target = v]
<1>1. Timed(p) /\ SameDoor(p, d) /\ p.inputs = d.inputs
  BY PreparedTimed
<1>2. Door!SetterBegins(d, v) = IF Door!Taken(d, v) THEN e ELSE p
  BY DEF Door!SetterBegins
<1> HIDE DEF p
<1>3. v \in 0 .. 2
  OBVIOUS
<1>4. e \in Door!Doors /\ SameDoor(e, p) /\ e.time = p.time /\ e.worker = p.worker /\ e.state = p.state
      /\ e.inputs = p.inputs /\ e.target = v /\ v # 2
  BY <1>1, <1>3 DEF Timed, Door!Doors, SameDoor
<1> HIDE DEF e
<1>5. Timed(e)
  BY <1>1, <1>4, TimedSame
<1> QED BY <1>1, <1>2, <1>4, <1>5 DEF SameDoor

(* The dispatch of the setter: the worker runs, or there is nothing to do. *)
LEMMA SetterEndsTimed ==
    ASSUME NEW d, Timed(d), NEW v \in {Door!OPENED, Door!CLOSED}
    PROVE  /\ Timed(Door!SetterEnds(d, v)) /\ SameDoor(Door!SetterEnds(d, v), d)
           /\ \/ Door!SetterEnds(d, v).worker
              \/ /\ Door!SetterEnds(d, v) = d /\ ~Door!Moving(d)
                 /\ d.margin > 0 => d.state \notin {Door!OPENED, Door!CLOSED} \ {v}
<1> USE DoorValues
<1> DEFINE opens == (v = Door!OPENED /\ ~d.f4) \/ d.state = Door!CLOSING
           closes == ~opens /\ ((v = Door!CLOSED /\ ~d.f5) \/ d.state = Door!OPENING)
           waits == ~opens /\ ~closes /\ d.margin > 0
           R == Door!SetterEnds(d, v)
<1>0. d \in Door!Doors
  BY DEF Timed
<1>b. /\ d.margin \in Nat /\ Door!Working(d) \in Nat /\ d.margin < Door!Working(d)
  BY <1>0, DoorBounds
<1>1. CASE opens
  <2>1. R = Door!Sensor(d, Door!OPENING) /\ Door!OPENING \in Door!OPENED .. Door!CLOSING
    BY <1>1 DEF Door!SetterEnds
  <2> HIDE DEF R, opens, closes, waits
  <2>2. Timed(R) /\ SameDoor(R, d)
    BY <1>0, <2>1, SensorDoes, SensorTimed
  <2>3. R.worker
    <3>1. Door!Sensor(d, Door!OPENING).worker
      BY <1>0, SensorStarts
    <3> QED BY <2>1, <3>1
  <2> QED BY <2>2, <2>3 DEF R
<1>2. CASE closes
  <2>1. R = Door!Sensor(d, Door!CLOSING) /\ Door!CLOSING \in Door!OPENED .. Door!CLOSING
    BY <1>2 DEF Door!SetterEnds
  <2> HIDE DEF R, opens, closes, waits
  <2>2. Timed(R) /\ SameDoor(R, d)
    BY <1>0, <2>1, SensorDoes, SensorTimed
  <2>3. R.worker
    <3>1. Door!Sensor(d, Door!CLOSING).worker
      BY <1>0, SensorStarts
    <3> QED BY <2>1, <3>1
  <2> QED BY <2>2, <2>3 DEF R
<1>3. ASSUME NEW t \in Nat, R = Door!Waits(d, v, t), t <= Door!Working(d),
             \/ d.state = Door!CLOSED /\ d.f4 /\ t <= d.margin
             \/ d.state = Door!OPENED /\ d.f5 /\ t >= Door!Working(d) - d.margin
      PROVE  Timed(R) /\ SameDoor(R, d) /\ R.worker
  <2> DEFINE e == [d EXCEPT !.time = t, !.target = v, !.auto = FALSE, !.worker = TRUE]
  <2>1. R = e /\ v \in 0 .. 2
    BY <1>3 DEF Door!Waits
  <2>0. e \in Door!Doors
    BY <1>0, <2>1 DEF Door!Doors
  <2>2. SameDoor(e, d) /\ e.time = t /\ e.worker = TRUE /\ e.state = d.state
        /\ e.target = v /\ v # 2
    BY <1>0 DEF Door!Doors, SameDoor
  <2> HIDE DEF e
  <2>3. Door!Working(e) = Door!Working(d) /\ e.margin = d.margin
    BY <2>2 DEF SameDoor, Door!Working
  <2>4. Timed(e)
    BY <1>3, <2>0, <2>2, <2>3 DEF Timed, SameDoor
  <2> QED BY <2>1, <2>2, <2>4
<1>4. CASE waits /\ v = Door!OPENED /\ d.state = Door!CLOSED
  <2>1. R = Door!Waits(d, v, 0) /\ d.f4
    BY <1>0, <1>4 DEF Door!SetterEnds, Door!Doors
  <2> QED BY <1>3, <1>4, <1>b, <2>1
<1>5. CASE waits /\ v = Door!CLOSED /\ d.state = Door!OPENED
  <2>1. R = Door!Waits(d, v, Door!Working(d)) /\ d.f5
    BY <1>0, <1>5 DEF Door!SetterEnds, Door!Doors
  <2>2. Door!Working(d) >= Door!Working(d) - d.margin
    BY <1>b
  <2> QED BY <1>3, <1>5, <1>b, <2>1, <2>2
<1>6. CASE ~opens /\ ~closes /\ ~(waits /\ v = Door!OPENED /\ d.state = Door!CLOSED)
           /\ ~(waits /\ v = Door!CLOSED /\ d.state = Door!OPENED)
  <2>1. R = d
    BY <1>6 DEF Door!SetterEnds
  <2>2. ~Door!Moving(d)
    BY <1>6 DEF Door!Moving
  <2>3. d.margin > 0 => d.state \notin {Door!OPENED, Door!CLOSED} \ {v}
    BY <1>6
  <2> QED BY <2>1, <2>2, <2>3 DEF SameDoor
<1> QED BY <1>1, <1>2, <1>4, <1>5, <1>6

(* The setter in the timer task, where nothing comes between its halves. *)
LEMMA SetterTimed ==
    ASSUME NEW d, Timed(d), NEW v \in {Door!OPENED, Door!CLOSED}
    PROVE  Timed(Door!Setter(d, v)) /\ SameDoor(Door!Setter(d, v), d)
<1>1. Timed(Door!SetterBegins(d, v)) /\ SameDoor(Door!SetterBegins(d, v), d)
  BY SetterBeginsTimed
<1> DEFINE e == Door!SetterBegins(d, v)
<1>2. Timed(Door!SetterEnds(e, v)) /\ SameDoor(Door!SetterEnds(e, v), e)
  <2> HIDE DEF e
  <2>1. Timed(e)
    BY <1>1 DEF e
  <2> QED BY <2>1, SetterEndsTimed
<1> QED BY <1>1, <1>2 DEF Door!Setter, SameDoor

(* The time alone. *)
LEMMA TimeMoved ==
    ASSUME NEW d, Timed(d), NEW t \in Nat, t <= Door!Working(d)
    PROVE  LET e == [d EXCEPT !.time = t] IN
           /\ e \in Door!Doors /\ SameDoor(e, d) /\ e.time = t /\ e.state = d.state
           /\ e.target = d.target /\ e.worker = d.worker /\ e.obst = d.obst /\ e.stray = d.stray
           /\ e.autoclose = d.autoclose /\ e.time <= Door!Working(e)
           /\ (e.target = 2 => e.state = Door!STOPPED)
<1> DEFINE e == [d EXCEPT !.time = t]
<1>1. e \in Door!Doors
  BY DEF Timed, Door!Doors
<1>2. /\ SameDoor(e, d) /\ e.time = t /\ e.state = d.state /\ e.autoclose = d.autoclose
      /\ e.target = d.target /\ e.worker = d.worker /\ e.obst = d.obst /\ e.stray = d.stray
  BY DEF Timed, Door!Doors, SameDoor
<1> HIDE DEF e
<1>3. e.time <= Door!Working(e)
  BY <1>2 DEF SameDoor, Door!Working
<1>4. e.target = 2 => e.state = Door!STOPPED
  BY <1>2 DEF Timed
<1> QED BY <1>1, <1>2, <1>3, <1>4 DEF e

(* A sensor's report starts the worker, or shows a door at rest. *)
LEMMA SensorWatch ==
    ASSUME NEW d \in Door!Doors, NEW type \in Door!OPENED .. Door!CLOSING
    PROVE  Watch(Door!Sensor(d, type))
<1> DEFINE e == Door!Sensor(d, type)
<1>1. /\ e.state = type /\ (e.worker <=> (type \in {Door!OPENING, Door!CLOSING}))
      /\ (type \in {Door!OPENED, Door!CLOSED} => e.target = type)
  BY SensorDoes
<1> HIDE DEF e
<1>2. type \in {0, 1, 2, 3}
  BY DoorValues
<1>3. ASSUME type \in {2, 3} PROVE Watch(e)
  BY <1>1, <1>3, DoorValues DEF Watch
<1>4. ASSUME type \in {0, 1} PROVE Watch(e)
  <2>1. ~Door!Underway(e)
    BY <1>1, <1>4, DoorValues DEF Door!Underway, Door!Moving
  <2> QED BY <2>1 DEF Watch
<1>5. Watch(e)
  BY <1>2, <1>3, <1>4
<1> QED BY <1>5 DEF e

(* An obstruction leaves the times alone. *)
LEMMA ObstructionDoes ==
    ASSUME NEW d \in Door!Doors, NEW on \in BOOLEAN
    PROVE  LET e == Door!Obstruction(d, on) IN
           /\ e \in Door!Doors /\ SameDoor(e, d) /\ e.time = d.time /\ e.state = d.state
           /\ e.target = d.target /\ e.worker = d.worker /\ e.obst = on /\ e.stray = d.stray
<1> DEFINE e == [d EXCEPT !.obst = on, !.auto = FALSE]
<1>1. Door!Obstruction(d, on) = e
  BY DEF Door!Obstruction
<1>2. e \in Door!Doors
  BY DEF Door!Doors
<1>3. /\ SameDoor(e, d) /\ e.time = d.time /\ e.state = d.state
      /\ e.target = d.target /\ e.worker = d.worker /\ e.obst = on /\ e.stray = d.stray
  BY DEF Door!Doors, SameDoor
<1> HIDE DEF e
<1> QED BY <1>1, <1>2, <1>3

(* _halt_timer: the worker stops, and the door that was to move is obstructed. *)
LEMMA HaltTimed ==
    ASSUME NEW d \in Door!Doors, NEW forced \in BOOLEAN, d.time <= Door!Working(d),
           d.target = 2 => d.state = Door!STOPPED, forced \/ Door!Moving(d)
    PROVE  Timed(Door!Halt(d, forced)) /\ Watch(Door!Halt(d, forced))
<1> DEFINE e == [d EXCEPT !.worker = FALSE]
           H == Door!Halt(d, forced)
<1>1. H = IF forced \/ (d.margin > 0 /\ Door!Moving(d)) THEN Door!Obstruction(e, TRUE) ELSE e
  BY DEF Door!Halt
<1>2. e \in Door!Doors
  BY DEF Door!Doors
<1>3. /\ SameDoor(e, d) /\ e.time = d.time /\ e.state = d.state
      /\ e.target = d.target /\ e.worker = FALSE
  BY DEF Door!Doors, SameDoor
<1> HIDE DEF e
<1>4. Timed(e)
  BY <1>2, <1>3 DEF Timed, SameDoor, Door!Working
<1>5. CASE forced \/ (d.margin > 0 /\ Door!Moving(d))
  <2>1. H = Door!Obstruction(e, TRUE)
    BY <1>1, <1>5
  <2> HIDE DEF H
  <2>2. /\ H \in Door!Doors /\ SameDoor(H, e) /\ H.time = e.time /\ H.state = e.state
        /\ H.target = e.target /\ H.worker = e.worker /\ H.obst = TRUE
    BY <1>2, <2>1, ObstructionDoes
  <2>3. Timed(H)
    BY <1>4, <2>2 DEF Timed, SameDoor, Door!Working
  <2>4. Watch(H)
    BY <2>2 DEF Watch
  <2> QED BY <2>3, <2>4 DEF H
<1>6. CASE ~forced /\ ~(d.margin > 0 /\ Door!Moving(d))
  <2>1. H = e
    BY <1>1, <1>6
  <2> HIDE DEF H
  <2>2. ~(e.margin > 0)
    BY <1>3, <1>6 DEF SameDoor
  <2>3. Watch(H)
    BY <2>1, <2>2 DEF Watch
  <2> QED BY <1>4, <2>1, <2>3 DEF H
<1> QED BY <1>5, <1>6

(* The worker of an opening door. *)
LEMMA OpeningTimed ==
    ASSUME NEW d, Timed(d), d.worker, d.state = Door!OPENING
    PROVE  LET w == Door!WorksOpening([d EXCEPT !.time = @ + 1]) IN Timed(w) /\ Watch(w)
<1> DEFINE t == d.time + 1
           u == [d EXCEPT !.time = t]
           w == Door!WorksOpening(u)
           c == [u EXCEPT !.auto = u.autoclose]
<1>1. d \in Door!Doors /\ d.time < Door!Working(d)
  BY DEF Timed
<1>2. d.time \in Nat /\ Door!Working(d) \in Nat /\ d.margin \in Nat
  BY <1>1, DoorBounds
<1>3. t \in Nat /\ t <= Door!Working(d)
  BY <1>1, <1>2
<1>4. [d EXCEPT !.time = @ + 1] = u
  BY <1>1, <1>2 DEF Door!Doors
<1> HIDE DEF t
<1>5. /\ u \in Door!Doors /\ SameDoor(u, d) /\ u.time = t /\ u.state = Door!OPENING
      /\ u.worker /\ u.time <= Door!Working(u) /\ (u.target = 2 => u.state = Door!STOPPED)
  BY <1>3, TimeMoved
<1>6. Door!Working(u) = Door!Working(d) /\ u.margin = d.margin
  BY <1>5 DEF SameDoor, Door!Working
<1> HIDE DEF u
<1>7. c \in Door!Doors
  BY <1>5 DEF Door!Doors
<1>8. ASSUME u.time >= Door!Working(u) - u.margin, ~u.f2
      PROVE  Timed(w) /\ Watch(w)
  <2>1. w = Door!Sensor(c, Door!OPENED)
    BY <1>8 DEF Door!WorksOpening
  <2>2. Door!OPENED \in Door!OPENED .. Door!CLOSING
    BY DoorValues
  <2> HIDE DEF w, c
  <2>3. Timed(w) /\ Watch(w)
    BY <1>7, <2>1, <2>2, SensorTimed, SensorWatch
  <2> QED BY <2>3
<1>9. ASSUME ~(u.time >= Door!Working(u) - u.margin /\ ~u.f2), u.time >= Door!Working(u), u.f2
      PROVE  Timed(w) /\ Watch(w)
  <2>1. w = Door!Halt(u, FALSE) /\ FALSE \in BOOLEAN
    BY <1>9 DEF Door!WorksOpening
  <2>2. Door!Moving(u)
    BY <1>5 DEF Door!Moving
  <2> HIDE DEF w
  <2>3. Timed(w) /\ Watch(w)
    BY <1>5, <2>1, <2>2, HaltTimed
  <2> QED BY <2>3
<1>10. ASSUME ~(u.time >= Door!Working(u) - u.margin /\ ~u.f2),
              ~(u.time >= Door!Working(u) /\ u.f2)
       PROVE  Timed(w) /\ Watch(w)
  <2>1. w = u
    BY <1>10 DEF Door!WorksOpening
  <2> HIDE DEF w
  <2>2. u.time < Door!Working(u)
    BY <1>2, <1>3, <1>5, <1>6, <1>10
  <2>3. Timed(u)
    BY <1>5, <2>2, DoorValues DEF Timed
  <2>4. Watch(u)
    BY <1>5 DEF Watch
  <2>5. Timed(w) /\ Watch(w)
    BY <2>1, <2>3, <2>4
  <2> QED BY <2>5
<1> HIDE DEF w
<1>11. Timed(w) /\ Watch(w)
  BY <1>8, <1>9, <1>10
<1> QED BY <1>4, <1>11 DEF w

(* The worker of a closing door. *)
LEMMA ClosingTimed ==
    ASSUME NEW d, Timed(d), d.worker, d.state = Door!CLOSING
    PROVE  LET w == Door!WorksClosing([d EXCEPT !.time = @ - 1]) IN Timed(w) /\ Watch(w)
<1> DEFINE t == d.time - 1
           u == [d EXCEPT !.time = t]
           w == Door!WorksClosing(u)
<1>1. d \in Door!Doors /\ d.time > 0
  BY DEF Timed
<1>2. d.time \in Nat /\ Door!Working(d) \in Nat /\ d.margin \in Nat /\ d.time <= Door!Working(d)
  BY <1>1, DoorBounds DEF Timed
<1>3. t \in Nat /\ t <= Door!Working(d)
  BY <1>1, <1>2
<1>4. [d EXCEPT !.time = @ - 1] = u
  BY <1>1, <1>2 DEF Door!Doors
<1> HIDE DEF t
<1>5. /\ u \in Door!Doors /\ SameDoor(u, d) /\ u.time = t /\ u.state = Door!CLOSING
      /\ u.worker /\ u.time <= Door!Working(u) /\ (u.target = 2 => u.state = Door!STOPPED)
  BY <1>3, TimeMoved
<1> HIDE DEF u
<1>8. ASSUME u.time <= u.margin, ~u.f3
      PROVE  Timed(w) /\ Watch(w)
  <2>1. w = Door!Sensor(u, Door!CLOSED)
    BY <1>8 DEF Door!WorksClosing
  <2>2. Door!CLOSED \in Door!OPENED .. Door!CLOSING
    BY DoorValues
  <2> HIDE DEF w
  <2> QED BY <1>5, <2>1, <2>2, SensorTimed, SensorWatch
<1>9. ASSUME ~(u.time <= u.margin /\ ~u.f3), u.time <= 0, u.f3
      PROVE  Timed(w) /\ Watch(w)
  <2>1. w = Door!Halt(u, FALSE) /\ FALSE \in BOOLEAN
    BY <1>9 DEF Door!WorksClosing
  <2>2. Door!Moving(u)
    BY <1>5 DEF Door!Moving
  <2> HIDE DEF w
  <2> QED BY <1>5, <2>1, <2>2, HaltTimed
<1>10. ASSUME ~(u.time <= u.margin /\ ~u.f3), ~(u.time <= 0 /\ u.f3)
       PROVE  Timed(w) /\ Watch(w)
  <2>1. w = u
    BY <1>10 DEF Door!WorksClosing
  <2> HIDE DEF w
  <2>6. u.margin = d.margin
    BY <1>5 DEF SameDoor
  <2>2. u.time > 0
    BY <1>2, <1>3, <1>5, <1>10, <2>6
  <2>3. Timed(u)
    BY <1>5, <2>2, DoorValues DEF Timed
  <2>4. Watch(u)
    BY <1>5 DEF Watch
  <2> QED BY <2>1, <2>3, <2>4
<1> HIDE DEF w
<1>11. Timed(w) /\ Watch(w)
  BY <1>8, <1>9, <1>10
<1> QED BY <1>4, <1>11 DEF w

(* The worker of a door at rest, until the sensor that it is to leave reports. *)
LEMMA RestTimed ==
    ASSUME NEW d, Timed(d), d.worker, NEW t \in Nat, t <= Door!Working(d), NEW late \in BOOLEAN,
           d.state \in {Door!OPENED, Door!CLOSED},
           ~late /\ d.state = Door!CLOSED => t <= d.margin,
           ~late /\ d.state = Door!OPENED => t >= Door!Working(d) - d.margin
    PROVE  LET u == [d EXCEPT !.time = t]
               w == IF late THEN Door!Halt(u, TRUE) ELSE u
           IN  Timed(w) /\ Watch(w)
<1> DEFINE u == [d EXCEPT !.time = t]
           w == IF late THEN Door!Halt(u, TRUE) ELSE u
<1>1. /\ u \in Door!Doors /\ SameDoor(u, d) /\ u.time = t /\ u.state = d.state
      /\ u.worker /\ u.time <= Door!Working(u) /\ (u.target = 2 => u.state = Door!STOPPED)
  BY TimeMoved
<1> HIDE DEF u
<1>2. u.margin = d.margin /\ Door!Working(u) = Door!Working(d) /\ u.f4 = d.f4 /\ u.f5 = d.f5
  BY <1>1 DEF SameDoor, Door!Working
<1>3. ASSUME late PROVE Timed(w) /\ Watch(w)
  <2>1. w = Door!Halt(u, TRUE) /\ TRUE \in BOOLEAN
    BY <1>3
  <2> HIDE DEF w
  <2> QED BY <1>1, <2>1, HaltTimed
<1>4. ASSUME ~late PROVE Timed(w) /\ Watch(w)
  <2>1. w = u
    BY <1>4
  <2> HIDE DEF w
  <2>2. u.state \in {0, 1}
    BY <1>1, DoorValues
  <2>3. u.state = Door!CLOSED => u.f4 /\ u.time <= u.margin
    BY <1>1, <1>2, <1>4 DEF Timed
  <2>4. u.state = Door!OPENED => u.f5 /\ u.time >= Door!Working(u) - u.margin
    BY <1>1, <1>2, <1>4 DEF Timed
  <2>5. Timed(u)
    BY <1>1, <2>2, <2>3, <2>4, DoorValues DEF Timed
  <2>6. Watch(u)
    BY <1>1 DEF Watch
  <2> QED BY <2>1, <2>5, <2>6
<1> HIDE DEF w
<1>5. Timed(w) /\ Watch(w)
  BY <1>3, <1>4
<1> QED BY <1>5 DEF w, u

(* The worker (garage_door_timer_worker). *)
LEMMA WorkerTimed ==
    ASSUME NEW d, Timed(d), d.worker
    PROVE  Timed(Door!Worker(d)) /\ Watch(Door!Worker(d))
<1> DEFINE W == Door!Worker(d)
           waitsUp == d.margin > 0 /\ d.state = Door!CLOSED /\ d.target = Door!OPENED /\ d.f4
           waitsDown == d.margin > 0 /\ d.state = Door!OPENED /\ d.target = Door!CLOSED /\ d.f5
           up == [d EXCEPT !.time = @ + 1]
           down == [d EXCEPT !.time = @ - 1]
           rest == [d EXCEPT !.worker = FALSE]
<1>0. W = CASE d.state = Door!OPENING -> Door!WorksOpening(up)
            [] d.state = Door!CLOSING -> Door!WorksClosing(down)
            [] waitsUp -> IF up.time > d.margin THEN Door!Halt(up, TRUE) ELSE up
            [] waitsDown -> IF down.time < Door!Working(d) - d.margin THEN Door!Halt(down, TRUE) ELSE down
            [] OTHER -> rest
  BY Zenon DEF Door!Worker
<1> HIDE DEF W, up, down, rest
<1>1. d \in Door!Doors
  BY DEF Timed
<1>2. /\ d.time \in Nat /\ Door!Working(d) \in Nat /\ d.margin \in Nat /\ d.time <= Door!Working(d)
      /\ d.margin < Door!Working(d) - d.margin
  BY <1>1, DoorBounds DEF Timed
<1>3. d.state \in {0, 1, 2, 3, 4} /\ d.state # 4 /\ d.target \in {0, 1, 2} /\ d.target # 2
  BY <1>1, DoorValues DEF Timed, Door!Doors
<1>4. ASSUME d.state = Door!OPENING PROVE Timed(W) /\ Watch(W)
  <2>1. W = Door!WorksOpening(up)
    BY <1>0, <1>4, DoorValues
  <2> QED BY <1>4, <2>1, OpeningTimed DEF up
<1>5. ASSUME d.state = Door!CLOSING PROVE Timed(W) /\ Watch(W)
  <2>1. W = Door!WorksClosing(down)
    BY <1>0, <1>5, DoorValues
  <2> QED BY <1>5, <2>1, ClosingTimed DEF down
<1>6. ASSUME waitsUp PROVE Timed(W) /\ Watch(W)
  <2> DEFINE t == d.time + 1
             u == [d EXCEPT !.time = t]
             late == t > d.margin
  <2>1. d.f4 /\ d.time <= d.margin
    BY <1>6 DEF Timed
  <2>2. t \in Nat /\ t <= Door!Working(d) /\ late \in BOOLEAN
    BY <1>2, <2>1
  <2>3. ~late => t <= d.margin
    BY <1>2, <2>2
  <2>4. W = IF late THEN Door!Halt(u, TRUE) ELSE u
    <3>1. up = u /\ u.time = t
      BY <1>1, <1>2 DEF Door!Doors, up
    <3> HIDE DEF u, t
    <3>2. W = IF up.time > d.margin THEN Door!Halt(up, TRUE) ELSE up
      <4>1. d.state # Door!OPENING /\ d.state # Door!CLOSING /\ waitsUp /\ ~waitsDown
        BY <1>6, DoorValues
      <4> HIDE DEF waitsUp, waitsDown
      <4> QED BY <1>0, <4>1, Zenon
    <3> QED BY <3>1, <3>2
  <2> HIDE DEF t, late
  <2>5. d.state = 1 /\ d.state \in {Door!OPENED, Door!CLOSED} /\ d.state # Door!OPENED
    BY <1>6, DoorValues
  <2> QED BY <2>2, <2>3, <2>4, <2>5, RestTimed
<1>7. ASSUME waitsDown PROVE Timed(W) /\ Watch(W)
  <2> DEFINE t == d.time - 1
             u == [d EXCEPT !.time = t]
             late == t < Door!Working(d) - d.margin
  <2>1. d.f5 /\ d.time >= Door!Working(d) - d.margin
    BY <1>7 DEF Timed
  <2>2. t \in Nat /\ t <= Door!Working(d) /\ late \in BOOLEAN
    BY <1>2, <2>1
  <2>3. ~late => t >= Door!Working(d) - d.margin
    BY <1>2, <2>2
  <2>4. W = IF late THEN Door!Halt(u, TRUE) ELSE u
    <3>1. down = u /\ u.time = t
      BY <1>1, <1>2 DEF Door!Doors, down
    <3> HIDE DEF u, t
    <3>2. W = IF down.time < Door!Working(d) - d.margin THEN Door!Halt(down, TRUE) ELSE down
      <4>1. d.state # Door!OPENING /\ d.state # Door!CLOSING /\ waitsDown /\ ~waitsUp
        BY <1>7, DoorValues
      <4> HIDE DEF waitsUp, waitsDown
      <4> QED BY <1>0, <4>1, Zenon
    <3> QED BY <3>1, <3>2
  <2> HIDE DEF t, late
  <2>5. d.state = 0 /\ d.state \in {Door!OPENED, Door!CLOSED} /\ d.state # Door!CLOSED
    BY <1>7, DoorValues
  <2> QED BY <2>2, <2>3, <2>4, <2>5, RestTimed
<1>8. ASSUME d.state # Door!OPENING, d.state # Door!CLOSING, ~waitsUp, ~waitsDown
      PROVE  Timed(W) /\ Watch(W)
  <2> DEFINE e == [d EXCEPT !.worker = FALSE]
  <2>1. W = e
    BY <1>0, <1>8 DEF rest
  <2>2. e \in Door!Doors
    BY <1>1 DEF Door!Doors
  <2>3. /\ SameDoor(e, d) /\ e.time = d.time /\ e.state = d.state /\ e.target = d.target
        /\ e.worker = FALSE
    BY <1>1 DEF Door!Doors, SameDoor
  <2> HIDE DEF e
  <2>4. Timed(e)
    BY <2>2, <2>3 DEF Timed, SameDoor, Door!Working
  <2>5. d.state \in {0, 1} /\ d.target \in {0, 1}
    BY <1>3, <1>8, DoorValues
  <2>6. d.f4 \/ d.state = 0
    BY <2>5, DoorValues DEF Timed
  <2>7. d.f5 \/ d.state = 1
    BY <2>5, DoorValues DEF Timed
  <2>8. d.margin > 0 => d.target = d.state
    BY <1>8, <2>5, <2>6, <2>7, DoorValues
  <2>9. e.margin > 0 => ~Door!Underway(e)
    BY <2>3, <2>5, <2>8, DoorValues DEF Door!Underway, Door!Moving, SameDoor
  <2>10. Watch(e)
    BY <2>9 DEF Watch
  <2> QED BY <2>1, <2>4, <2>10
<1>9. Timed(W) /\ Watch(W)
  BY <1>4, <1>5, <1>6, <1>7, <1>8
<1> QED BY <1>9 DEF W

(* A start: the state that was saved, and nothing runs. *)
LEMMA FreshTimed ==
    ASSUME NEW d \in Door!Doors, NEW s \in Door!OPENED .. Door!STOPPED
    PROVE  Timed(Door!Fresh(d, s))
<1> DEFINE g == IF s > 1 THEN s - 2 ELSE s
           t == IF s = Door!OPENED THEN Door!Working(d) - d.margin ELSE 0
           n == Door!NoCall
           e == [d EXCEPT !.state = s, !.target = g, !.obst = FALSE, !.worker = FALSE,
                          !.auto = FALSE, !.time = t, !.call = n, !.stray = FALSE]
<1>1. Door!Fresh(d, s) = e
  BY DEF Door!Fresh
<1>2. g \in 0 .. 2 /\ (g = 2 => s = Door!STOPPED)
  BY DoorValues
<1>3. t \in Nat /\ t <= Door!Working(d)
  BY DoorBounds
<1>4. n \in {Door!NoCall, Door!OPENED, Door!CLOSED}
  OBVIOUS
<1> HIDE DEF g, t, n
<1>5. e \in Door!Doors
  BY <1>2, <1>3, <1>4 DEF Door!Doors
<1>6. e.margin = d.margin /\ e.time = t /\ e.state = s /\ e.target = g /\ e.worker = FALSE
  BY DEF Door!Doors
<1> HIDE DEF e
<1>7. e.time <= Door!Working(e)
  BY <1>3, <1>6 DEF Door!Working
<1>8. Timed(e)
  BY <1>2, <1>5, <1>6, <1>7 DEF Timed
<1> QED BY <1>1, <1>8

(* Then the sensors and the obstruction as they are found. *)
LEMMA StartsTimed ==
    ASSUME NEW d \in Door!Doors, NEW e \in Door!Starts(d)
    PROVE  Timed(e) /\ Watch(e)
<1> DEFINE d0 == Door!Fresh(d, d.saved)
           sensed == {d0} \cup (IF d.f2 \/ d.f4 THEN {Door!Sensor(d0, Door!OPENED)} ELSE {})
                          \cup (IF d.f3 \/ d.f5 THEN {Door!Sensor(d0, Door!CLOSED)} ELSE {})
<1>1. Timed(d0)
  <2>1. d.saved \in Door!OPENED .. Door!STOPPED
    BY DEF Door!Doors
  <2> QED BY <2>1, FreshTimed
<1>2. \E x \in sensed \cup {Door!Obstruction(y, TRUE) : y \in sensed} : e = Door!Strays(x)
  BY DEF Door!Starts
<1> HIDE DEF d0
<1>3. ASSUME NEW x \in sensed PROVE Timed(x)
  <2>1. d0 \in Door!Doors
    BY <1>1 DEF Timed
  <2>2. Door!OPENED \in Door!OPENED .. Door!CLOSING /\ Door!CLOSED \in Door!OPENED .. Door!CLOSING
    BY DoorValues
  <2>3. Timed(Door!Sensor(d0, Door!OPENED)) /\ Timed(Door!Sensor(d0, Door!CLOSED))
    BY <2>1, <2>2, SensorTimed
  <2>4. x = d0 \/ x = Door!Sensor(d0, Door!OPENED) \/ x = Door!Sensor(d0, Door!CLOSED)
    OBVIOUS
  <2> QED BY <1>1, <2>3, <2>4
<1> HIDE DEF sensed
<1>4. ASSUME NEW y \in sensed PROVE Timed(Door!Obstruction(y, TRUE))
  <2>1. Timed(y) /\ y \in Door!Doors
    BY <1>3 DEF Timed
  <2> DEFINE x == Door!Obstruction(y, TRUE)
  <2>2. /\ x \in Door!Doors /\ SameDoor(x, y) /\ x.time = y.time /\ x.state = y.state
        /\ x.target = y.target /\ x.worker = y.worker
    BY <2>1, ObstructionDoes
  <2> HIDE DEF x
  <2>3. x.target = 2 => x.state = Door!STOPPED
    BY <2>1, <2>2 DEF Timed
  <2>4. Timed(x)
    BY <2>1, <2>2, <2>3, TimedSame
  <2> QED BY <2>4 DEF x
<1>5. PICK x : Timed(x) /\ e = Door!Strays(x)
  BY <1>2, <1>3, <1>4
<1> QED BY <1>5, StraysTimed

(* It starts so, too. *)
LEMMA DoorInit == Door!Init => Timed(machine) /\ Watch(machine)
<1> SUFFICES ASSUME Door!Init PROVE Timed(machine) /\ Watch(machine)
  OBVIOUS
<1>1. PICK f2, f3, f4, f5, vstop, autoclose \in BOOLEAN, margin \in DoorMargins,
           s \in {Door!OPENED, Door!CLOSED} :
        machine \in Door!Starts(
            [f2 |-> f2, f3 |-> f3, f4 |-> f4, f5 |-> f5, margin |-> margin, vstop |-> vstop,
             autoclose |-> autoclose, state |-> s, target |-> s, obst |-> FALSE, worker |-> FALSE,
             auto |-> FALSE, time |-> 0, call |-> Door!NoCall, saved |-> s, stray |-> FALSE,
             inputs |-> DoorInputs])
  BY DEF Door!Init
<1> DEFINE d == [f2 |-> f2, f3 |-> f3, f4 |-> f4, f5 |-> f5, margin |-> margin, vstop |-> vstop,
             autoclose |-> autoclose, state |-> s, target |-> s, obst |-> FALSE, worker |-> FALSE,
             auto |-> FALSE, time |-> 0, call |-> Door!NoCall, saved |-> s, stray |-> FALSE,
             inputs |-> DoorInputs]
<1>2. s \in Door!OPENED .. Door!STOPPED /\ s \in 0 .. 2
  BY DoorValues
<1>3. DoorInputs \in 0 .. DoorInputs /\ 0 \in Nat
  BY DoorConstants
<1>4. d \in Door!Doors
  BY <1>2, <1>3 DEF Door!Doors
<1> HIDE DEF d
<1>5. machine \in Door!Starts(d)
  BY <1>1 DEF d
<1> QED BY <1>4, <1>5, StartsTimed

(* The saved state and the auto-close timer: nothing above depends on them. *)
LEMMA AsideTimed ==
    ASSUME NEW d, Timed(d), Watch(d), NEW e \in Door!Doors, SameDoor(e, d), e.time = d.time,
           e.worker = d.worker, e.state = d.state, e.target = d.target, e.obst = d.obst,
           e.stray = d.stray
    PROVE  Timed(e) /\ Watch(e)
<1>1. e.target = 2 => e.state = Door!STOPPED
  BY DEF Timed
<1>2. Timed(e)
  BY <1>1, TimedSame
<1>3. Watch(e)
  BY DEF Watch, SameDoor, Door!Underway, Door!Moving
<1> QED BY <1>2, <1>3

(* SaveStates *)
LEMMA SaveTimed ==
    ASSUME Timed(machine), Watch(machine), Door!SaveStates
    PROVE  Timed(machine') /\ Watch(machine')
<1> DEFINE s == machine.state
           e == [machine EXCEPT !.saved = s]
<1>1. machine' = e /\ s \in Door!OPENED .. Door!STOPPED /\ machine \in Door!Doors
  BY DEF Door!SaveStates, Timed, Door!Doors
<1> HIDE DEF s
<1>2. /\ e \in Door!Doors /\ SameDoor(e, machine) /\ e.time = machine.time
      /\ e.worker = machine.worker /\ e.state = machine.state /\ e.target = machine.target
      /\ e.obst = machine.obst /\ e.stray = machine.stray
  BY <1>1 DEF Door!Doors, SameDoor
<1> HIDE DEF e
<1> QED BY <1>1, <1>2, AsideTimed

(* One input less. *)
LEMMA SpentWatch ==
    ASSUME NEW d, Timed(d), Watch(d), d.inputs > 0
    PROVE  Timed(Door!Spent(d)) /\ Watch(Door!Spent(d)) /\ Door!Spent(d) \in Door!Doors
<1> DEFINE e == Door!Spent(d)
<1>1. Timed(e) /\ \A f \in {"call", "state", "target", "worker", "obst", "stray", "margin"} : e[f] = d[f]
  BY SpentTimed
<1> HIDE DEF e
<1>2. /\ e.call = d.call /\ e.state = d.state /\ e.target = d.target /\ e.worker = d.worker
      /\ e.obst = d.obst /\ e.stray = d.stray /\ e.margin = d.margin
  BY <1>1
<1>3. Watch(e)
  BY <1>2 DEF Watch, Door!Underway, Door!Moving
<1> QED BY <1>1, <1>3 DEF Timed, e

(* What the server task is busy with is no matter for the times. *)
LEMMA CallTimed ==
    ASSUME NEW d, Timed(d), NEW c \in {Door!NoCall, Door!OPENED, Door!CLOSED}
    PROVE  LET e == [d EXCEPT !.call = c] IN
           /\ Timed(e) /\ e.call = c /\ e.state = d.state /\ e.target = d.target
           /\ e.worker = d.worker /\ e.obst = d.obst /\ e.stray = d.stray /\ e.margin = d.margin
<1> DEFINE e == [d EXCEPT !.call = c]
<1>1. e \in Door!Doors
  BY DEF Timed, Door!Doors
<1>2. /\ e.call = c /\ e.state = d.state /\ e.target = d.target /\ e.time = d.time
      /\ e.worker = d.worker /\ e.obst = d.obst /\ e.stray = d.stray /\ e.margin = d.margin
      /\ e.f4 = d.f4 /\ e.f5 = d.f5
  BY DEF Timed, Door!Doors
<1> HIDE DEF e
<1>3. Timed(e)
  BY <1>1, <1>2 DEF Timed, Door!Working
<1> QED BY <1>2, <1>3 DEF e

(* CommandBegins: the command is noted, or there is nothing to carry out. *)
LEMMA CommandBeginsTimed ==
    ASSUME Timed(machine), Watch(machine), NEW v \in {Door!OPENED, Door!CLOSED},
           Door!CommandBegins(v)
    PROVE  Timed(machine') /\ Watch(machine')
<1> DEFINE b == Door!SetterBegins(machine, v)
           d == Door!Spent(b)
           e == [d EXCEPT !.call = v]
<1>1. Timed(b) /\ b.inputs = machine.inputs /\ (Door!Taken(machine, v) => b.target = v)
  BY SetterBeginsTimed
<1>2. machine.inputs > 0
  BY DEF Door!CommandBegins, Door!Input
<1>3. machine' = IF Door!Taken(machine, v) THEN e ELSE Door!Strays(d)
  BY DEF Door!CommandBegins
<1> HIDE DEF b
<1>4. Timed(d) /\ d.target = b.target
  BY <1>1, <1>2, SpentTimed
<1> HIDE DEF d
<1>5. ASSUME Door!Taken(machine, v)
      PROVE  Timed(machine') /\ Watch(machine')
  <2>1. v \in {Door!NoCall, Door!OPENED, Door!CLOSED} /\ v # Door!NoCall
    BY DoorValues
  <2>2. Timed(e) /\ e.call = v /\ e.target = d.target
    BY <1>4, <2>1, CallTimed
  <2>3. machine' = e
    BY <1>3, <1>5
  <2> HIDE DEF e
  <2>4. e.target = v
    BY <1>1, <1>4, <1>5, <2>2
  <2>5. Watch(e)
    BY <2>1, <2>2, <2>4 DEF Watch
  <2> QED BY <2>2, <2>3, <2>5
<1>6. ASSUME ~Door!Taken(machine, v)
      PROVE  Timed(machine') /\ Watch(machine')
  BY <1>3, <1>4, <1>6, StraysTimed
<1> QED BY <1>5, <1>6

(* CommandEnds: the worker runs, or the door does what it was told. *)
LEMMA CommandEndsTimed ==
    ASSUME Timed(machine), Watch(machine), Door!CommandEnds
    PROVE  Timed(machine') /\ Watch(machine')
<1> DEFINE v == machine.call
           r == Door!SetterEnds(machine, v)
           n == Door!NoCall
           e == [r EXCEPT !.call = n]
<1>1. v \in {Door!OPENED, Door!CLOSED} /\ v # Door!NoCall
  BY DEF Timed, Door!Doors, Door!CommandEnds
<1>2. machine' = e /\ n \in {Door!NoCall, Door!OPENED, Door!CLOSED}
  BY DEF Door!CommandEnds
<1>3. /\ Timed(r)
      /\ \/ r.worker
         \/ /\ r = machine /\ ~Door!Moving(machine)
            /\ machine.margin > 0 => machine.state \notin {Door!OPENED, Door!CLOSED} \ {v}
  <2> HIDE DEF v
  <2> QED BY <1>1, SetterEndsTimed
<1> HIDE DEF r, n
<1>4. /\ Timed(e) /\ e.state = r.state /\ e.target = r.target /\ e.margin = r.margin
      /\ e.worker = r.worker /\ e.obst = r.obst /\ e.stray = r.stray
  BY <1>2, <1>3, CallTimed
<1> HIDE DEF e
<1>5. ASSUME r.worker PROVE Watch(e)
  BY <1>4, <1>5 DEF Watch
<1>6. ASSUME r = machine, ~Door!Moving(machine),
             machine.margin > 0 => machine.state \notin {Door!OPENED, Door!CLOSED} \ {v}
      PROVE  Watch(e)
  <2>1. SUFFICES ASSUME e.margin > 0, Door!Underway(e), ~e.stray PROVE e.worker \/ e.obst
    BY DEF Watch
  <2>2. machine.margin > 0 /\ Door!Underway(machine) /\ ~machine.stray
    BY <1>4, <1>6, <2>1 DEF Door!Underway, Door!Moving
  <2>3. machine.state = v /\ machine.target # v
    BY <1>6, <2>2 DEF Door!Underway
  <2>4. machine.worker \/ machine.obst
    BY <1>6, <2>2, <2>3 DEF Watch
  <2> QED BY <1>4, <1>6, <2>4
<1>7. Watch(e)
  BY <1>3, <1>5, <1>6
<1> QED BY <1>2, <1>4, <1>7

(* Button *)
LEMMA ButtonTimed ==
    ASSUME Timed(machine), Watch(machine), Door!Button
    PROVE  Timed(machine') /\ Watch(machine')
<1> DEFINE d == Door!Spent(machine)
           a == machine.autoclose
           e == [d EXCEPT !.auto = a]
           x == [d EXCEPT !.state = Door!STOPPED, !.worker = FALSE]
<1>1. machine.inputs > 0
  BY DEF Door!Button, Door!Input
<1>2. Timed(d) /\ Watch(d) /\ d \in Door!Doors /\ d.state = machine.state
  BY <1>1, SpentWatch, SpentTimed
<1>3. \/ \E v \in {Door!OPENED, Door!CLOSED, IF machine.target = Door!OPENED THEN Door!CLOSED ELSE Door!OPENED} :
              machine' = Door!Strays(Door!Setter(d, v))
      \/ Door!Moving(machine) /\ machine' = Door!Stop(d)
      \/ machine' = e
  BY DEF Door!Button
<1> HIDE DEF d
<1>4. ASSUME NEW v \in {Door!OPENED, Door!CLOSED, IF machine.target = Door!OPENED THEN Door!CLOSED ELSE Door!OPENED},
             machine' = Door!Strays(Door!Setter(d, v))
      PROVE  Timed(machine') /\ Watch(machine')
  <2>1. v \in {Door!OPENED, Door!CLOSED}
    OBVIOUS
  <2>2. Timed(Door!Setter(d, v))
    BY <1>2, <2>1, SetterTimed
  <2> QED BY <1>4, <2>2, StraysTimed
<1>5. ASSUME Door!Moving(machine), machine' = Door!Stop(d)
      PROVE  Timed(machine') /\ Watch(machine')
  <2>1. machine' = x /\ Door!STOPPED \in Door!OPENED .. Door!STOPPED
    BY <1>2, <1>5, DoorValues DEF Door!Stop, Door!Moving
  <2>2. x \in Door!Doors
    BY <1>2, <2>1 DEF Door!Doors
  <2>3. SameDoor(x, d) /\ x.time = d.time /\ x.state = Door!STOPPED /\ x.worker = FALSE
    BY <1>2 DEF Door!Doors, SameDoor
  <2> HIDE DEF x
  <2>4. Timed(x)
    BY <1>2, <2>2, <2>3, TimedSame
  <2>5. ~Door!Underway(x)
    BY <2>3, DoorValues DEF Door!Underway, Door!Moving
  <2> QED BY <2>1, <2>4, <2>5 DEF Watch
<1>6. ASSUME machine' = e
      PROVE  Timed(machine') /\ Watch(machine')
  <2>1. a \in BOOLEAN
    BY DEF Timed, Door!Doors
  <2> HIDE DEF a
  <2>2. e \in Door!Doors
    BY <1>2, <2>1 DEF Door!Doors
  <2>3. /\ SameDoor(e, d) /\ e.time = d.time /\ e.worker = d.worker /\ e.state = d.state
        /\ e.target = d.target /\ e.obst = d.obst /\ e.stray = d.stray
    BY <1>2 DEF Door!Doors, SameDoor
  <2> HIDE DEF e
  <2> QED BY <1>2, <1>6, <2>2, <2>3, AsideTimed
<1> QED BY <1>3, <1>4, <1>5, <1>6

(* ObstructionInput *)
LEMMA ObstructionTimed ==
    ASSUME Timed(machine), Watch(machine), NEW on \in BOOLEAN, Door!ObstructionInput(on)
    PROVE  Timed(machine') /\ Watch(machine')
<1> DEFINE d == Door!Spent(machine)
           e == Door!Obstruction(d, on)
<1>1. machine.inputs > 0 /\ machine' = Door!Strays(e)
  BY DEF Door!ObstructionInput, Door!Input
<1>2. Timed(d) /\ d \in Door!Doors
  BY <1>1, SpentWatch
<1> HIDE DEF d
<1>3. /\ e \in Door!Doors /\ SameDoor(e, d) /\ e.time = d.time /\ e.state = d.state
      /\ e.target = d.target /\ e.worker = d.worker
  BY <1>2, ObstructionDoes
<1> HIDE DEF e
<1>4. e.target = 2 => e.state = Door!STOPPED
  BY <1>2, <1>3 DEF Timed
<1>5. Timed(e)
  BY <1>2, <1>3, <1>4, TimedSame
<1> QED BY <1>1, <1>5, StraysTimed

(* AutoClose *)
LEMMA AutoCloseTimed ==
    ASSUME Timed(machine), Watch(machine), Door!AutoClose
    PROVE  Timed(machine') /\ Watch(machine')
<1> DEFINE d == [machine EXCEPT !.auto = FALSE]
<1>1. machine' = Door!Strays(Door!Setter(d, Door!CLOSED)) /\ machine \in Door!Doors
  BY DEF Door!AutoClose, Timed
<1>2. d \in Door!Doors
  BY <1>1 DEF Door!Doors
<1>3. /\ SameDoor(d, machine) /\ d.time = machine.time /\ d.worker = machine.worker
      /\ d.state = machine.state /\ d.target = machine.target
  BY <1>1 DEF Door!Doors, SameDoor
<1> HIDE DEF d
<1>4. d.target = 2 => d.state = Door!STOPPED
  BY <1>3 DEF Timed
<1>5. Timed(d)
  BY <1>2, <1>3, <1>4, TimedSame
<1>6. Door!CLOSED \in {Door!OPENED, Door!CLOSED}
  OBVIOUS
<1>7. Timed(Door!Setter(d, Door!CLOSED))
  BY <1>5, <1>6, SetterTimed
<1> QED BY <1>1, <1>7, StraysTimed

(* Every step of the door. *)
LEMMA DoorStep ==
    ASSUME Timed(machine), Watch(machine), Door!Next
    PROVE  Timed(machine') /\ Watch(machine')
<1>1. CASE Door!CommandEnds
  BY <1>1, CommandEndsTimed
<1>2. CASE Door!WorkerFires
  BY <1>2, WorkerTimed DEF Door!WorkerFires
<1>3. CASE Door!AutoClose
  BY <1>3, AutoCloseTimed
<1>4. CASE Door!Restart
  <2>1. Door!Spent(machine) \in Door!Doors
    BY <1>4, SpentWatch DEF Door!Restart, Door!Input
  <2> QED BY <1>4, <2>1, StartsTimed DEF Door!Restart
<1>5. CASE Door!SaveStates
  BY <1>5, SaveTimed
<1>6. CASE Door!Button
  BY <1>6, ButtonTimed
<1>7. CASE \E v \in {Door!OPENED, Door!CLOSED} : Door!CommandBegins(v)
  BY <1>7, CommandBeginsTimed
<1>8. CASE \E type \in Door!OPENED .. Door!CLOSING : Door!SensorInput(type)
  <2>1. PICK type \in Door!OPENED .. Door!CLOSING : Door!SensorInput(type)
    BY <1>8
  <2>2. Door!Spent(machine) \in Door!Doors
    BY <2>1, SpentWatch DEF Door!SensorInput, Door!Input
  <2> QED BY <2>1, <2>2, SensorTimed, SensorWatch DEF Door!SensorInput
<1>9. CASE \E on \in BOOLEAN : Door!ObstructionInput(on)
  BY <1>9, ObstructionTimed
<1> QED BY <1>1, <1>2, <1>3, <1>4, <1>5, <1>6, <1>7, <1>8, <1>9
     DEF Door!Next, Door!Step, Door!Environment

----
(* The window covering: WindowCover.tla. *)

(* The scale, by the module's assumption. *)
LEMMA CoverConstants ==
    /\ Full \in Nat /\ Full > 0 /\ CoverInputs \in Nat
    /\ Corrections \subseteq Nat /\ CoverMargins \subseteq Nat
BY AccessoriesAssumption DEF Cover!WindowCoverAssumption

(* The directions, as the code numbers them. *)
LEMMA CoverValues ==
    /\ Cover!CLOSING = 0 /\ Cover!OPENING = 1 /\ Cover!STOP = 2
    /\ Cover!CLOSING .. Cover!STOP = 0 .. 2 /\ Cover!Positions = 0 .. Full
BY DEF Cover!CLOSING, Cover!OPENING, Cover!STOP, Cover!Positions

(* The estimates: outside the scale HomeKit is shown the motor's position, and
   neither leaves the scale further than OnScale says. *)
Scaled(c) ==
    /\ c.motor <= 0 \/ c.motor >= Full => c.hk = c.motor
    /\ Cover!OnScale(c, c.motor) /\ Cover!OnScale(c, c.hk)

(* The worker, in each part of a command: it runs while the cover moves; the
   motor is about to be told, and the worker has begun; or a worker came to its
   end inside the command. *)
Powered(c) ==
    /\ Cover!Moving(c) /\ c.cut # "timer" /\ c.call.step # "ends" => c.timer
    /\ c.call.step = "ends" /\ c.cut # "timer" => c.timer
    /\ ~Cover!Moving(c) /\ c.call.step # "ends" => ~c.timer
    /\ ~Cover!Moving(c) /\ c.call.step = "none" => c.target = c.current

(* Where it goes is what it was told last. *)
Obeys(c) ==
    (Cover!Moving(c) \/ c.call.step # "none") /\ c.cut = "none" => c.target = c.asked

(* A command that is carried out has a direction. *)
Called(c) == IF c.call.step = "none" THEN c.call = Cover!NoCall ELSE c.call.dir # Cover!STOP

CoverInv(c) == c \in Cover!Covers /\ Scaled(c) /\ Powered(c) /\ Obeys(c) /\ Called(c)

(* A product of two numbers is one. *)
LEMMA Product == ASSUME NEW a \in Nat, NEW b \in Nat PROVE a * b \in Nat
OBVIOUS

(* So is what HomeKit is shown between the ends, and not above the scale. *)
LEMMA QuotientBelow ==
    ASSUME NEW p \in Nat, NEW f \in Nat, NEW e \in Nat, p < f
    PROVE  (f * p) \div (f + e) \in 0 .. f
<1> DEFINE x == f * p
           b == f + e
           q == x \div b
<1>1. x \in Nat /\ b \in Nat /\ b > 0
  BY Product
<1>2. q \in Nat
  <2> HIDE DEF x, b
  <2> QED BY <1>1
<1>3. b * q <= x
  <2> HIDE DEF x, b
  <2> QED BY <1>1
<1>4. SUFFICES ASSUME q > f PROVE FALSE
  BY <1>2
<1>5. b * q >= f * q
  <2> HIDE DEF q
  <2>1. b * q = f * q + e * q
    BY <1>2
  <2> QED BY <1>2, <2>1, Product
<1>6. f * q >= f * (p + 1)
  <2> HIDE DEF q
  <2> QED BY <1>2, <1>4
<1>7. f * (p + 1) = x + f
  OBVIOUS
<1> HIDE DEF x, b, q
<1> QED BY <1>1, <1>2, <1>3, <1>5, <1>6, <1>7

(* What a cover's fields are. *)
LEMMA CoverTypes ==
    ASSUME NEW c \in Cover!Covers
    PROVE  /\ c.margin \in Nat /\ c.correction \in Nat /\ c.inputs \in Nat /\ c.inputs <= CoverInputs
           /\ c.motor \in Int /\ c.hk \in Int /\ c.current \in Cover!Positions
           /\ c.target \in Cover!Positions /\ c.state \in {0, 1, 2} /\ c.timer \in BOOLEAN
<1>1. /\ c.margin \in CoverMargins /\ c.correction \in Corrections /\ c.inputs \in 0 .. CoverInputs
      /\ c.motor \in Int /\ c.hk \in Int /\ c.current \in Cover!Positions
      /\ c.target \in Cover!Positions /\ c.timer \in BOOLEAN
  BY DEF Cover!Covers
<1>2. c.state \in Cover!CLOSING .. Cover!STOP
  BY DEF Cover!Covers
<1>3. c.state \in 0 .. 2
  BY <1>2 DEF Cover!CLOSING, Cover!STOP
<1>4. c.margin \in Nat /\ c.correction \in Nat
  BY <1>1, CoverConstants
<1>5. c.inputs \in Nat /\ c.inputs <= CoverInputs
  BY <1>1, CoverConstants
<1> QED BY <1>1, <1>3, <1>4, <1>5

(* HomeKit is shown the motor's position, but between the ends. *)
LEMMA HomekitDoes ==
    ASSUME NEW c \in Cover!Covers, NEW p \in Int
    PROVE  /\ Cover!HomekitPosition(c, p) \in Int
           /\ p <= 0 \/ p >= Full => Cover!HomekitPosition(c, p) = p
           /\ p > 0 /\ p < Full => Cover!HomekitPosition(c, p) \in 0 .. Full
<1>1. CASE p <= 0 \/ p >= Full
  BY <1>1, CoverConstants DEF Cover!HomekitPosition
<1>2. CASE p > 0 /\ p < Full
  <2> DEFINE e == (Full - p) * c.correction
  <2>1. Full \in Nat /\ p \in Nat /\ Full - p \in Nat /\ c.correction \in Nat
    BY <1>2, CoverConstants, CoverTypes
  <2>2. e \in Nat
    BY <2>1, Product
  <2>3. Cover!HomekitPosition(c, p) = (Full * p) \div (Full + e)
    BY <1>2, CoverConstants DEF Cover!HomekitPosition
  <2> HIDE DEF e
  <2>4. Cover!HomekitPosition(c, p) \in 0 .. Full
    BY <1>2, <2>1, <2>2, <2>3, QuotientBelow
  <2> QED BY <1>2, <2>1, <2>4
<1> QED BY <1>1, <1>2, CoverConstants

(* Back on the scale. *)
LEMMA ClampDoes ==
    ASSUME NEW p \in Int
    PROVE  /\ Cover!Clamp(p) \in Cover!Positions /\ Cover!Clamp(p) \in Int
           /\ p <= 0 => Cover!Clamp(p) = 0
           /\ p >= Full => Cover!Clamp(p) = Full
           /\ p \in 0 .. Full => Cover!Clamp(p) = p
BY CoverConstants, CoverValues DEF Cover!Clamp

(* Everything on the scale is within OnScale's bounds. *)
LEMMA ScaleHolds ==
    ASSUME NEW c \in Cover!Covers, NEW p \in Cover!Positions
    PROVE  Cover!OnScale(c, p)
BY CoverTypes, CoverConstants, CoverValues DEF Cover!OnScale

(* What Scaled speaks of, and what the rest of CoverInv does. *)
SameScale(e, d) ==
    e.motor = d.motor /\ e.hk = d.hk /\ e.margin = d.margin /\ e.inputs = d.inputs

SameWay(e, d) ==
    /\ e.state = d.state /\ e.timer = d.timer /\ e.cut = d.cut /\ e.call = d.call
    /\ e.target = d.target /\ e.current = d.current /\ e.asked = d.asked

(* A cover whose estimates are the same is as much on the scale. *)
LEMMA CoverSame ==
    ASSUME NEW d, NEW e, SameScale(e, d), Scaled(d) PROVE Scaled(e)
BY DEF SameScale, Scaled, Cover!OnScale

(* A cover that goes the same way does what it was told as before. *)
LEMMA WaySame ==
    ASSUME NEW d, NEW e, SameWay(e, d), Powered(d), Obeys(d), Called(d)
    PROVE  Powered(e) /\ Obeys(e) /\ Called(e)
BY DEF SameWay, Powered, Obeys, Called, Cover!Moving

(* One input less gives the estimates more room. *)
LEMMA CoverSpent ==
    ASSUME NEW c \in Cover!Covers, c.inputs > 0
    PROVE  /\ Cover!Spent(c) \in Cover!Covers /\ SameWay(Cover!Spent(c), c)
           /\ Cover!Spent(c).vstop = c.vstop /\ Cover!Spent(c).inputs = c.inputs - 1
           /\ Scaled(c) => Scaled(Cover!Spent(c))
<1> DEFINE n == c.inputs - 1
           e == [c EXCEPT !.inputs = n]
<1>1. Cover!Spent(c) = e
  BY DEF Cover!Spent
<1>2. n \in 0 .. CoverInputs /\ n \in Int /\ n < c.inputs
  BY CoverTypes, CoverConstants
<1>n. n = c.inputs - 1
  OBVIOUS
<1> HIDE DEF n
<1>3. e \in Cover!Covers
  BY <1>2 DEF Cover!Covers
<1>4. /\ SameWay(e, c) /\ e.vstop = c.vstop /\ e.inputs = n /\ e.motor = c.motor /\ e.hk = c.hk
      /\ e.margin = c.margin
  BY DEF Cover!Covers, SameWay
<1> HIDE DEF e
<1>5. ASSUME NEW p \in Int, Cover!OnScale(c, p) PROVE Cover!OnScale(e, p)
  BY <1>2, <1>4, <1>5, CoverTypes, CoverConstants DEF Cover!OnScale
<1>6. c.motor \in Int /\ c.hk \in Int
  BY CoverTypes
<1>7. Scaled(c) => Scaled(e)
  BY <1>4, <1>5, <1>6 DEF Scaled
<1> QED BY <1>1, <1>3, <1>4, <1>7, <1>n

(* A virtual stop that is in force again. *)
LEMMA RearmedDoes ==
    ASSUME NEW c \in Cover!Covers
    PROVE  /\ Cover!Rearmed(c) \in Cover!Covers /\ SameWay(Cover!Rearmed(c), c)
           /\ SameScale(Cover!Rearmed(c), c) /\ Cover!Rearmed(c).must = c.must
<1> DEFINE n == IF c.vstop = 2 THEN 1 ELSE c.vstop
           e == [c EXCEPT !.vstop = n]
<1>1. Cover!Rearmed(c) = e
  BY DEF Cover!Rearmed
<1>2. n \in 0 .. 2
  BY DEF Cover!Covers
<1> HIDE DEF n
<1>3. e \in Cover!Covers
  BY <1>2 DEF Cover!Covers
<1>4. SameWay(e, c) /\ SameScale(e, c) /\ e.must = c.must
  BY DEF Cover!Covers, SameWay, SameScale
<1> HIDE DEF e
<1> QED BY <1>1, <1>3, <1>4

(* The estimates are put back on the scale. *)
LEMMA NormalizedDoes ==
    ASSUME NEW c \in Cover!Covers, c.motor <= 0 \/ c.motor >= Full => c.hk = c.motor
    PROVE  LET e == Cover!Normalized(c) IN
           /\ e \in Cover!Covers /\ SameWay(e, c) /\ e.margin = c.margin /\ e.inputs = c.inputs
           /\ e.vstop = c.vstop /\ Scaled(e) /\ e.hk \in Cover!Positions
<1> DEFINE m == Cover!Clamp(c.motor)
           h == Cover!Clamp(c.hk)
           e == [c EXCEPT !.motor = m, !.hk = h]
<1>1. Cover!Normalized(c) = e
  BY DEF Cover!Normalized
<1>2. c.motor \in Int /\ c.hk \in Int
  BY CoverTypes
<1>3. m \in Cover!Positions /\ h \in Cover!Positions /\ m \in Int /\ h \in Int
  BY <1>2, ClampDoes
<1>4. m <= 0 \/ m >= Full => h = m
  <2>1. CASE c.motor <= 0
    BY <1>2, <2>1, ClampDoes
  <2>2. CASE c.motor >= Full
    BY <1>2, <2>2, ClampDoes
  <2>3. CASE c.motor > 0 /\ c.motor < Full
    <3>1. m = c.motor
      BY <1>2, <2>3, ClampDoes, CoverConstants
    <3> HIDE DEF m, h
    <3> QED BY <1>2, <2>3, <3>1, CoverConstants
  <2> QED BY <1>2, <2>1, <2>2, <2>3, CoverConstants
<1> HIDE DEF m, h
<1>5. e \in Cover!Covers
  BY <1>3 DEF Cover!Covers
<1>6. /\ SameWay(e, c) /\ e.margin = c.margin /\ e.inputs = c.inputs /\ e.vstop = c.vstop
      /\ e.motor = m /\ e.hk = h
  BY DEF Cover!Covers, SameWay
<1> HIDE DEF e
<1>7. Scaled(e)
  BY <1>3, <1>4, <1>5, <1>6, ScaleHolds DEF Scaled
<1> QED BY <1>1, <1>3, <1>5, <1>6, <1>7

(* The setter until the motor is started: the target is the command's, and the
   rest is as it was. *)
LEMMA CoverBegins ==
    ASSUME NEW c, c \in Cover!Covers, Scaled(c), NEW v \in Cover!Positions
    PROVE  LET e == Cover!SetterBegins(c, v) IN
           /\ e \in Cover!Covers /\ Scaled(e) /\ e.target = v /\ e.asked = v
           /\ e.state = c.state /\ e.timer = c.timer /\ e.cut = c.cut /\ e.call = c.call
           /\ e.current = c.current /\ e.inputs = c.inputs
<1> DEFINE n == Cover!Normalized(c)
           d == [n EXCEPT !.target = v, !.asked = v]
           e == [d EXCEPT !.stoppable = FALSE, !.rearm = TRUE]
           s1 == [d EXCEPT !.must = TRUE]
           s2 == [e EXCEPT !.must = TRUE, !.obst = FALSE]
           Good(x) == /\ x \in Cover!Covers /\ Scaled(x) /\ x.target = v /\ x.asked = v
                      /\ x.state = c.state /\ x.timer = c.timer /\ x.cut = c.cut /\ x.call = c.call
                      /\ x.current = c.current /\ x.inputs = c.inputs
           S == Cover!SetterBegins(c, v)
<1>0. S = CASE Cover!Direction(c, v) = Cover!STOP -> Cover!Rearmed(s1)
            [] Cover!TurnsIntoStop(c, v) -> Cover!Rearmed(s2)
            [] OTHER -> e
  BY Zenon DEF Cover!SetterBegins
<1>1. \/ S = e \/ S = Cover!Rearmed(s1) \/ S = Cover!Rearmed(s2)
  <2> HIDE DEF S, e, s1, s2
  <2> QED BY <1>0
<1>2. /\ n \in Cover!Covers /\ SameWay(n, c) /\ n.margin = c.margin /\ n.inputs = c.inputs /\ Scaled(n)
  BY NormalizedDoes DEF Scaled
<1> HIDE DEF n, S
<1>3. d \in Cover!Covers
  BY <1>2 DEF Cover!Covers
<1>4. Good(d)
  <2>1. /\ d.target = v /\ d.asked = v /\ SameScale(d, n)
        /\ d.state = n.state /\ d.timer = n.timer /\ d.cut = n.cut /\ d.call = n.call
        /\ d.current = n.current /\ d.inputs = n.inputs
    BY <1>2 DEF Cover!Covers, SameScale
  <2> HIDE DEF d
  <2>2. Scaled(d)
    BY <1>2, <2>1, CoverSame
  <2> QED BY <1>2, <1>3, <2>1, <2>2 DEF SameWay
<1> HIDE DEF d
<1>5. ASSUME NEW x \in Cover!Covers, SameScale(x, d), SameWay(x, d) PROVE Good(x)
  <2>1. Scaled(x)
    BY <1>4, <1>5, CoverSame
  <2> QED BY <1>4, <1>5, <2>1 DEF SameScale, SameWay
<1>6. e \in Cover!Covers /\ s1 \in Cover!Covers
  BY <1>3 DEF Cover!Covers
<1>7. SameScale(e, d) /\ SameWay(e, d) /\ SameScale(s1, d) /\ SameWay(s1, d)
  BY <1>3 DEF Cover!Covers, SameScale, SameWay
<1>8. s2 \in Cover!Covers /\ SameScale(s2, d) /\ SameWay(s2, d)
  <2> HIDE DEF e
  <2>1. s2 \in Cover!Covers
    BY <1>6 DEF Cover!Covers
  <2>2. SameScale(s2, e) /\ SameWay(s2, e)
    BY <1>6 DEF Cover!Covers, SameScale, SameWay
  <2> QED BY <1>7, <2>1, <2>2 DEF SameScale, SameWay
<1> HIDE DEF e, s1, s2
<1>9. ASSUME NEW x \in Cover!Covers, SameScale(x, d), SameWay(x, d) PROVE Good(Cover!Rearmed(x))
  <2>1. /\ Cover!Rearmed(x) \in Cover!Covers /\ SameScale(Cover!Rearmed(x), d)
        /\ SameWay(Cover!Rearmed(x), d)
    BY <1>9, RearmedDoes DEF SameScale, SameWay
  <2> QED BY <1>5, <2>1
<1>10. Good(e) /\ Good(Cover!Rearmed(s1)) /\ Good(Cover!Rearmed(s2))
  BY <1>5, <1>6, <1>7, <1>8, <1>9
<1>11. Good(S)
  BY <1>1, <1>10
<1> QED BY <1>11 DEF S

(* A command that starts nothing leaves a cover that keeps its promises. *)
LEMMA CoverNotStarting ==
    ASSUME NEW c, CoverInv(c), NEW v \in Cover!Positions, ~Cover!Starting(c, v)
    PROVE  CoverInv(Cover!SetterBegins(c, v))
<1> DEFINE e == Cover!SetterBegins(c, v)
<1>1. /\ e \in Cover!Covers /\ Scaled(e) /\ e.target = v /\ e.asked = v
      /\ e.state = c.state /\ e.timer = c.timer /\ e.cut = c.cut /\ e.call = c.call
      /\ e.current = c.current
  BY CoverBegins DEF CoverInv
<1> HIDE DEF e
<1>2. ~Cover!Moving(c) => v = c.current
  <2>1. SUFFICES ASSUME ~Cover!Moving(c) PROVE v = c.current
    OBVIOUS
  <2>2. Cover!Direction(c, v) = Cover!STOP
    BY <2>1 DEF Cover!Starting, Cover!TurnsIntoStop
  <2>3. v \in 0 .. Full /\ c.current \in 0 .. Full
    BY CoverTypes, CoverValues DEF CoverInv
  <2>4. ~(v < c.current) /\ ~(v > c.current)
    BY <2>2, <2>3, CoverValues DEF Cover!Direction
  <2> QED BY <2>3, <2>4, CoverConstants
<1>3. Powered(e) /\ Obeys(e) /\ Called(e)
  BY <1>1, <1>2 DEF CoverInv, Powered, Obeys, Called, Cover!Moving
<1>4. CoverInv(e)
  BY <1>1, <1>3 DEF CoverInv
<1> QED BY <1>4 DEF e

(* _start_wc_timer *)
LEMMA CoverStarts ==
    ASSUME NEW c \in Cover!Covers, NEW dir
    PROVE  LET e == Cover!StartTimer(c, dir) IN
           /\ e \in Cover!Covers /\ SameScale(e, c)
           /\ e.state = c.state /\ e.cut = c.cut /\ e.call = c.call /\ e.target = c.target
           /\ e.current = c.current /\ e.asked = c.asked
           /\ (e.timer <=> c.timer \/ ~Cover!Moving(c))
<1> DEFINE t == c.timer \/ c.state = Cover!STOP
           e == [c EXCEPT !.must = FALSE, !.timer = t]
<1>1. Cover!StartTimer(c, dir) = e /\ t \in BOOLEAN
  BY DEF Cover!StartTimer, Cover!Covers
<1>2. t <=> c.timer \/ ~Cover!Moving(c)
  BY DEF Cover!Moving
<1> HIDE DEF t
<1>3. e \in Cover!Covers
  BY <1>1 DEF Cover!Covers
<1>4. /\ SameScale(e, c) /\ e.state = c.state /\ e.cut = c.cut /\ e.call = c.call
      /\ e.target = c.target /\ e.current = c.current /\ e.asked = c.asked /\ e.timer = t
  BY DEF Cover!Covers, SameScale
<1> HIDE DEF e
<1> QED BY <1>1, <1>2, <1>3, <1>4

(* The end of the setter. *)
LEMMA CoverEnds ==
    ASSUME NEW c \in Cover!Covers, NEW dir \in Cover!CLOSING .. Cover!STOP
    PROVE  LET e == Cover!SetterEnds(c, dir) IN
           /\ e \in Cover!Covers /\ SameScale(e, c)
           /\ e.state = dir /\ e.cut = c.cut /\ e.call = c.call /\ e.target = c.target
           /\ e.current = c.current /\ e.asked = c.asked /\ e.timer = c.timer
<1> DEFINE x == [c EXCEPT !.state = dir, !.obst = FALSE]
           e == Cover!Rearmed(x)
<1>1. Cover!SetterEnds(c, dir) = e
  BY DEF Cover!SetterEnds
<1>2. x \in Cover!Covers
  BY DEF Cover!Covers
<1>3. /\ SameScale(x, c) /\ x.state = dir /\ x.cut = c.cut /\ x.call = c.call
      /\ x.target = c.target /\ x.current = c.current /\ x.asked = c.asked /\ x.timer = c.timer
  BY DEF Cover!Covers, SameScale
<1> HIDE DEF x
<1>4. e \in Cover!Covers /\ SameWay(e, x) /\ SameScale(e, x)
  BY <1>2, RearmedDoes
<1> HIDE DEF e
<1> QED BY <1>1, <1>3, <1>4 DEF SameWay, SameScale

(* The setter in the timer task. *)
LEMMA CoverSetter ==
    ASSUME NEW c, CoverInv(c), NEW v \in Cover!Positions
    PROVE  CoverInv(Cover!Setter(c, v))
<1> DEFINE b == Cover!SetterBegins(c, v)
           dir == Cover!Direction(c, v)
           s == Cover!StartTimer(b, dir)
           e == Cover!SetterEnds(s, dir)
<1>1. CASE ~Cover!Starting(c, v)
  BY <1>1, CoverNotStarting DEF Cover!Setter
<1>2. CASE Cover!Starting(c, v)
  <2>1. Cover!Setter(c, v) = e
    BY <1>2 DEF Cover!Setter
  <2>2. /\ b \in Cover!Covers /\ Scaled(b) /\ b.target = v /\ b.asked = v
        /\ b.state = c.state /\ b.timer = c.timer /\ b.cut = c.cut /\ b.call = c.call
    BY CoverBegins DEF CoverInv
  <2>3. dir \in Cover!CLOSING .. Cover!STOP /\ dir # Cover!STOP
    BY <1>2, CoverValues DEF Cover!Starting, Cover!Direction
  <2> HIDE DEF b, dir
  <2>4. /\ s \in Cover!Covers /\ SameScale(s, b) /\ s.cut = b.cut /\ s.call = b.call
        /\ s.target = b.target /\ s.asked = b.asked
        /\ (s.timer <=> b.timer \/ ~Cover!Moving(b))
    BY <2>2, CoverStarts
  <2> HIDE DEF s
  <2>5. /\ e \in Cover!Covers /\ SameScale(e, s) /\ e.state = dir /\ e.cut = s.cut
        /\ e.call = s.call /\ e.target = s.target /\ e.asked = s.asked /\ e.timer = s.timer
    BY <2>3, <2>4, CoverEnds
  <2> HIDE DEF e
  <2>6. Scaled(e)
    BY <2>2, <2>4, <2>5, CoverSame
  <2>7. Powered(e)
    BY <2>2, <2>3, <2>4, <2>5 DEF CoverInv, Powered, Cover!Moving
  <2>8. Obeys(e) /\ Called(e)
    BY <2>2, <2>4, <2>5 DEF CoverInv, Obeys, Called
  <2> QED BY <2>1, <2>5, <2>6, <2>7, <2>8 DEF CoverInv
<1> QED BY <1>1, <1>2

(* One period of the motor. *)
LEMMA MovedDoes ==
    ASSUME NEW c, c \in Cover!Covers, Scaled(c)
    PROVE  LET e == Cover!Moved(c) IN
           /\ e \in Cover!Covers
           /\ e.state = c.state /\ e.timer = c.timer /\ e.cut = c.cut /\ e.call = c.call
           /\ e.target = c.target /\ e.asked = c.asked /\ e.margin = c.margin
           /\ e.inputs = c.inputs /\ e.must = c.must
           /\ ~Cover!Moving(c) => e.current = c.current /\ e.motor = c.motor /\ e.hk = c.hk
           /\ c.state = Cover!CLOSING => e.motor = c.motor - 1
           /\ c.state = Cover!OPENING => e.motor = c.motor + 1
           /\ e.motor <= 0 \/ e.motor >= Full => e.hk = e.motor
           /\ Cover!Moving(c) /\ e.motor > 0 /\ e.motor < Full => e.hk \in 0 .. Full
<1> DEFINE p == CASE c.state = Cover!CLOSING -> c.motor - 1
                  [] c.state = Cover!OPENING -> c.motor + 1
                  [] OTHER -> c.motor
           h == IF Cover!Moving(c) THEN Cover!HomekitPosition(c, p) ELSE c.hk
           k == IF Cover!Moving(c) THEN Cover!Clamp(h) ELSE c.current
           e == [c EXCEPT !.motor = p, !.hk = h, !.current = k]
<1>1. Cover!Moved(c) = e
  BY Zenon DEF Cover!Moved
<1>2. c.motor \in Int /\ c.hk \in Int /\ c.current \in Cover!Positions
  BY CoverTypes
<1>3. /\ p \in Int
      /\ c.state = Cover!CLOSING => p = c.motor - 1
      /\ c.state = Cover!OPENING => p = c.motor + 1
      /\ ~Cover!Moving(c) => p = c.motor
  BY <1>2, CoverValues DEF Cover!Moving
<1> HIDE DEF p
<1>4. /\ h \in Int
      /\ Cover!Moving(c) => /\ p <= 0 \/ p >= Full => h = p
                            /\ p > 0 /\ p < Full => h \in 0 .. Full
      /\ ~Cover!Moving(c) => h = c.hk
  BY <1>2, <1>3, HomekitDoes
<1> HIDE DEF h
<1>5. k \in Cover!Positions /\ (~Cover!Moving(c) => k = c.current)
  BY <1>2, <1>4, ClampDoes
<1> HIDE DEF k
<1>6. e \in Cover!Covers
  BY <1>3, <1>4, <1>5 DEF Cover!Covers
<1>7. /\ e.state = c.state /\ e.timer = c.timer /\ e.cut = c.cut /\ e.call = c.call
      /\ e.target = c.target /\ e.asked = c.asked /\ e.margin = c.margin
      /\ e.inputs = c.inputs /\ e.must = c.must
      /\ e.motor = p /\ e.hk = h /\ e.current = k
  BY DEF Cover!Covers
<1> HIDE DEF e
<1>8. e.motor <= 0 \/ e.motor >= Full => e.hk = e.motor
  <2>1. CASE Cover!Moving(c)
    BY <1>4, <1>7, <2>1
  <2>2. CASE ~Cover!Moving(c)
    BY <1>3, <1>4, <1>7, <2>2 DEF Scaled
  <2> QED BY <2>1, <2>2
<1> QED BY <1>1, <1>3, <1>4, <1>5, <1>6, <1>7, <1>8

(* The estimates after a period, with what it adds to the slack. *)
LEMMA MovedScaled ==
    ASSUME NEW c, c \in Cover!Covers, Scaled(c), NEW e, e \in Cover!Covers,
           e.motor <= 0 \/ e.motor >= Full => e.hk = e.motor,
           e.motor > 0 /\ e.motor < Full => e.hk \in 0 .. Full,
           Cover!OnScale(e, e.motor)
    PROVE  Scaled(e)
<1>1. e.motor \in Int /\ e.hk \in Int
  BY CoverTypes
<1>2. CASE e.motor <= 0 \/ e.motor >= Full
  BY <1>2 DEF Scaled
<1>3. CASE e.motor > 0 /\ e.motor < Full
  <2>1. e.hk \in Cover!Positions
    BY <1>3 DEF Cover!Positions
  <2>2. Cover!OnScale(e, e.hk)
    BY <2>1, ScaleHolds
  <2> QED BY <1>3, <2>2 DEF Scaled
<1> QED BY <1>1, <1>2, <1>3, CoverConstants

(* The worker's end: the cover is where its target is. *)
LEMMA StoppedKeeps ==
    ASSUME NEW c, c \in Cover!Covers, Called(c), c.motor <= 0 \/ c.motor >= Full => c.hk = c.motor
    PROVE  CoverInv(Cover!Stopped(c))
<1> DEFINE d == Cover!Normalized(c)
           k == d.hk
           u == CASE c.call.step = "starts" -> "target"
                  [] c.call.step = "ends" -> "timer"
                  [] OTHER -> "none"
           s == Cover!STOP
           x == [d EXCEPT !.timer = FALSE, !.must = FALSE, !.state = s, !.current = k,
                          !.target = k, !.cut = u]
           e == Cover!Rearmed(x)
<1>1. Cover!Stopped(c) = e
  BY Zenon DEF Cover!Stopped
<1>2. /\ d \in Cover!Covers /\ SameWay(d, c) /\ Scaled(d) /\ k \in Cover!Positions
  BY NormalizedDoes
<1>3. /\ u \in {"none", "target", "timer"} /\ (c.call.step = "ends" => u = "timer")
      /\ (c.call.step = "starts" => u = "target")
  OBVIOUS
<1>4. s \in Cover!CLOSING .. Cover!STOP
  BY CoverValues
<1> HIDE DEF d, k, u, s
<1>5. x \in Cover!Covers
  BY <1>2, <1>3, <1>4 DEF Cover!Covers
<1>6. /\ SameScale(x, d) /\ x.timer = FALSE /\ x.state = s /\ x.current = k /\ x.target = k
      /\ x.cut = u /\ x.call = d.call
  BY <1>2 DEF Cover!Covers, SameScale
<1> HIDE DEF x
<1>7. e \in Cover!Covers /\ SameWay(e, x) /\ SameScale(e, x)
  BY <1>5, RearmedDoes
<1> HIDE DEF e
<1>8. Scaled(e)
  BY <1>2, <1>6, <1>7, CoverSame
<1>9. /\ e.timer = FALSE /\ ~Cover!Moving(e) /\ e.current = k /\ e.target = k /\ e.cut = u
      /\ e.call = c.call
  BY <1>2, <1>6, <1>7 DEF SameWay, Cover!Moving, s
<1>10. c.call.step \in {"none", "starts", "ends"}
  BY DEF Cover!Covers
<1>11. Powered(e) /\ Obeys(e) /\ Called(e)
  BY <1>3, <1>9, <1>10 DEF Powered, Obeys, Called
<1> QED BY <1>1, <1>7, <1>8, <1>11 DEF CoverInv

(* A moving cover that has not reached its end is within the margin. *)
LEMMA NotReached ==
    ASSUME NEW c, CoverInv(c), NEW e, e = Cover!Moved(c), ~Cover!Reached(e)
    PROVE  CoverInv(e)
<1>1. /\ e \in Cover!Covers
      /\ e.state = c.state /\ e.timer = c.timer /\ e.cut = c.cut /\ e.call = c.call
      /\ e.target = c.target /\ e.asked = c.asked /\ e.margin = c.margin
      /\ e.inputs = c.inputs
      /\ c.state = Cover!CLOSING => e.motor = c.motor - 1
      /\ c.state = Cover!OPENING => e.motor = c.motor + 1
      /\ e.motor <= 0 \/ e.motor >= Full => e.hk = e.motor
      /\ Cover!Moving(c) /\ e.motor > 0 /\ e.motor < Full => e.hk \in 0 .. Full
  BY MovedDoes DEF CoverInv
<1>2. /\ e.margin \in Nat /\ e.inputs \in Nat /\ e.inputs <= CoverInputs
      /\ e.motor \in Int /\ e.hk \in Int /\ e.target \in Int /\ e.target >= 0 /\ e.target <= Full
      /\ c.motor \in Int /\ c.state \in {0, 1, 2}
  BY <1>1, CoverTypes, CoverConstants DEF CoverInv, Cover!Positions
<1> DEFINE m == IF e.target \in {0, Full} THEN e.margin ELSE 0
<1>3. m \in Int /\ m >= 0 /\ m <= e.margin
  BY <1>2
<1>4. Cover!Reached(e) = CASE e.state = Cover!CLOSING -> e.target - m >= e.hk
                           [] e.state = Cover!OPENING -> e.target + m <= e.hk
                           [] OTHER -> TRUE
  BY DEF Cover!Reached
<1> HIDE DEF m
<1>5. \/ c.state = 0 /\ e.target - m < e.hk
      \/ c.state = 1 /\ e.target + m > e.hk
  <2>1. e.state = c.state
    BY <1>1
  <2>2. Cover!Reached(e) <=> CASE c.state = 0 -> e.target - m >= e.hk
                               [] c.state = 1 -> e.target + m <= e.hk
                               [] OTHER -> TRUE
    BY <1>4, <2>1 DEF Cover!CLOSING, Cover!OPENING
  <2>3. CASE c.state = 0
    BY <1>2, <1>3, <2>2, <2>3
  <2>4. CASE c.state = 1
    BY <1>2, <1>3, <2>2, <2>4
  <2>5. CASE c.state = 2
    BY <2>2, <2>5
  <2> QED BY <1>2, <2>3, <2>4, <2>5
<1>6. Cover!Moving(c) /\ Cover!Moving(e)
  BY <1>1, <1>5, CoverValues DEF Cover!Moving
<1>7. LET slack == e.margin + CoverInputs - e.inputs IN c.motor >= -slack /\ c.motor <= Full + slack
  BY <1>1, <1>2, CoverConstants DEF CoverInv, Scaled, Cover!OnScale
<1>8. Cover!OnScale(e, e.motor)
  <2>1. CASE c.state = 0 /\ e.target - m < e.hk
    <3>1. e.motor = c.motor - 1 /\ (e.motor <= 0 => e.motor > -e.margin)
      BY <1>1, <1>2, <1>3, <2>1, CoverValues
    <3> QED BY <1>2, <1>7, <3>1, CoverConstants DEF Cover!OnScale
  <2>2. CASE c.state = 1 /\ e.target + m > e.hk
    <3>1. e.motor = c.motor + 1 /\ (e.motor >= Full => e.motor < Full + e.margin)
      BY <1>1, <1>2, <1>3, <2>2, CoverValues, CoverConstants
    <3> QED BY <1>2, <1>7, <3>1, CoverConstants DEF Cover!OnScale
  <2> QED BY <1>5, <2>1, <2>2
<1>9. Scaled(e)
  BY <1>1, <1>6, <1>8, MovedScaled DEF CoverInv
<1>10. Powered(e) /\ Obeys(e) /\ Called(e)
  BY <1>1, <1>6 DEF CoverInv, Powered, Obeys, Called
<1> QED BY <1>1, <1>9, <1>10 DEF CoverInv

(* WorkerFires *)
LEMMA WorkerKeeps ==
    ASSUME CoverInv(machine), Cover!WorkerFires PROVE CoverInv(machine')
<1> DEFINE c == Cover!Moved(machine)
<1>1. machine' = IF Cover!Reached(c) \/ c.must THEN Cover!Stopped(c) ELSE c
  BY DEF Cover!WorkerFires
<1>2. c \in Cover!Covers /\ c.call = machine.call /\ (c.motor <= 0 \/ c.motor >= Full => c.hk = c.motor)
  BY MovedDoes DEF CoverInv
<1>3. CASE Cover!Reached(c) \/ c.must
  <2>1. Called(c)
    BY <1>2 DEF CoverInv, Called
  <2> HIDE DEF c
  <2> QED BY <1>1, <1>2, <1>3, <2>1, StoppedKeeps
<1>4. CASE ~(Cover!Reached(c) \/ c.must)
  BY <1>1, <1>4, NotReached
<1> QED BY <1>3, <1>4

(* StopRefused: the estimates go on for one more period. *)
LEMMA StopRefusedKeeps ==
    ASSUME CoverInv(machine), Cover!StopRefused PROVE CoverInv(machine')
<1> DEFINE c == Cover!Moved(machine)
           n == c.inputs - 1
           e == [c EXCEPT !.must = TRUE, !.inputs = n]
<1>1. machine' = e /\ machine.inputs > 0
  BY Zenon DEF Cover!StopRefused
<1>2. /\ c \in Cover!Covers
      /\ c.state = machine.state /\ c.timer = machine.timer /\ c.cut = machine.cut
      /\ c.call = machine.call /\ c.target = machine.target /\ c.asked = machine.asked
      /\ c.margin = machine.margin /\ c.inputs = machine.inputs
      /\ (~Cover!Moving(machine) => /\ c.current = machine.current /\ c.motor = machine.motor
                                    /\ c.hk = machine.hk)
      /\ (machine.state = Cover!CLOSING => c.motor = machine.motor - 1)
      /\ (machine.state = Cover!OPENING => c.motor = machine.motor + 1)
      /\ (c.motor <= 0 \/ c.motor >= Full => c.hk = c.motor)
      /\ (Cover!Moving(machine) /\ c.motor > 0 /\ c.motor < Full => c.hk \in 0 .. Full)
  BY MovedDoes DEF CoverInv
<1> HIDE DEF c
<1>3. n \in 0 .. CoverInputs /\ n = machine.inputs - 1 /\ n \in Int
  BY <1>1, <1>2, CoverTypes, CoverConstants
<1> HIDE DEF n
<1>4. e \in Cover!Covers
  BY <1>2, <1>3 DEF Cover!Covers
<1>5. /\ e.state = c.state /\ e.timer = c.timer /\ e.cut = c.cut /\ e.call = c.call
      /\ e.target = c.target /\ e.asked = c.asked /\ e.current = c.current
      /\ e.motor = c.motor /\ e.hk = c.hk /\ e.margin = c.margin /\ e.inputs = n
  BY <1>2 DEF Cover!Covers
<1> HIDE DEF e
<1>6. /\ machine.margin \in Nat /\ machine.inputs \in Int /\ machine.inputs <= CoverInputs
      /\ machine.motor \in Int /\ machine.hk \in Int /\ machine.state \in {0, 1, 2}
  BY CoverTypes DEF CoverInv
<1>7. Scaled(machine)
  BY DEF CoverInv
<1>8. c.motor \in {machine.motor - 1, machine.motor, machine.motor + 1}
  <2>1. CASE machine.state = 2
    BY <1>2, <2>1, CoverValues DEF Cover!Moving
  <2> QED BY <1>2, <1>6, <2>1, CoverValues
<1>9. Cover!OnScale(e, e.motor)
  BY <1>3, <1>5, <1>2, <1>6, <1>7, <1>8, CoverConstants DEF Scaled, Cover!OnScale
<1>10. Scaled(e)
  <2>1. CASE Cover!Moving(machine)
    <3>1. e.motor <= 0 \/ e.motor >= Full => e.hk = e.motor
      BY <1>2, <1>5
    <3>2. e.motor > 0 /\ e.motor < Full => e.hk \in 0 .. Full
      BY <1>2, <1>5, <2>1
    <3>3. machine \in Cover!Covers
      BY DEF CoverInv
    <3> QED BY <1>4, <1>7, <1>9, <3>1, <3>2, <3>3, MovedScaled
  <2>2. CASE ~Cover!Moving(machine)
    <3>1. Cover!OnScale(e, e.hk)
      BY <1>2, <1>3, <1>5, <1>6, <1>7, <2>2, CoverConstants DEF Scaled, Cover!OnScale
    <3> QED BY <1>2, <1>5, <1>9, <3>1 DEF Scaled
  <2> QED BY <2>1, <2>2
<1>11. Powered(e) /\ Obeys(e) /\ Called(e)
  BY <1>2, <1>5 DEF CoverInv, Powered, Obeys, Called, Cover!Moving
<1> QED BY <1>1, <1>4, <1>10, <1>11 DEF CoverInv

(* What CoverInv does not speak of. *)
LEMMA CoverAside ==
    ASSUME NEW d, CoverInv(d), NEW e \in Cover!Covers, SameWay(e, d), SameScale(e, d)
    PROVE  CoverInv(e)
BY CoverSame, WaySame DEF CoverInv

(* One input less. *)
LEMMA CoverSpends ==
    ASSUME NEW c, CoverInv(c), c.inputs > 0 PROVE CoverInv(Cover!Spent(c))
BY CoverSpent, WaySame DEF CoverInv

(* CommandBegins *)
LEMMA CommandBeginsKeeps ==
    ASSUME CoverInv(machine), NEW v \in Cover!Positions, Cover!CommandBegins(v)
    PROVE  CoverInv(machine')
<1> DEFINE b == Cover!SetterBegins(machine, v)
           c == Cover!Spent(b)
           dir == Cover!Direction(machine, v)
           l == [step |-> "starts", dir |-> dir]
           e == [c EXCEPT !.call = l]
<1>1. /\ machine' = IF Cover!Starting(machine, v) THEN e ELSE c
      /\ machine.inputs > 0 /\ machine.call = Cover!NoCall
  BY DEF Cover!CommandBegins, Cover!Input
<1>2. /\ b \in Cover!Covers /\ Scaled(b) /\ b.target = v /\ b.asked = v
      /\ b.state = machine.state /\ b.timer = machine.timer /\ b.cut = machine.cut
      /\ b.inputs = machine.inputs
  BY CoverBegins DEF CoverInv
<1>3. CASE ~Cover!Starting(machine, v)
  <2>1. CoverInv(b)
    BY <1>3, CoverNotStarting
  <2> HIDE DEF b
  <2>2. CoverInv(c)
    BY <1>1, <1>2, <2>1, CoverSpends
  <2> QED BY <1>1, <1>3, <2>2
<1>4. CASE Cover!Starting(machine, v)
  <2> HIDE DEF b
  <2>1. c \in Cover!Covers /\ SameWay(c, b) /\ Scaled(c)
    BY <1>1, <1>2, CoverSpent
  <2>2. dir \in Cover!CLOSING .. Cover!STOP /\ dir # Cover!STOP
    BY <1>4, CoverValues DEF Cover!Starting, Cover!Direction
  <2> HIDE DEF c, dir
  <2>3. l \in [step : {"none", "starts", "ends"}, dir : Cover!CLOSING .. Cover!STOP]
        /\ l.step = "starts" /\ l.dir = dir
    BY <2>2
  <2> HIDE DEF l
  <2>4. e \in Cover!Covers
    BY <2>1, <2>3 DEF Cover!Covers
  <2>5. /\ e.call = l /\ SameScale(e, c) /\ e.target = c.target /\ e.asked = c.asked
        /\ e.state = c.state /\ e.timer = c.timer /\ e.cut = c.cut
    BY <2>1 DEF Cover!Covers, SameScale
  <2> HIDE DEF e
  <2>6. Scaled(e)
    BY <2>1, <2>5, CoverSame
  <2>7. /\ e.target = v /\ e.asked = v /\ e.state = machine.state /\ e.timer = machine.timer
        /\ e.cut = machine.cut /\ e.call.step = "starts" /\ e.call.dir # Cover!STOP
        /\ machine.call.step = "none"
    BY <1>1, <1>2, <2>1, <2>2, <2>3, <2>5 DEF SameWay, Cover!NoCall
  <2>8. Powered(e) /\ Obeys(e) /\ Called(e)
    BY <2>7 DEF CoverInv, Powered, Obeys, Called, Cover!Moving
  <2> QED BY <1>1, <1>4, <2>4, <2>6, <2>8 DEF CoverInv
<1> QED BY <1>3, <1>4

(* CommandStarts *)
LEMMA CommandStartsKeeps ==
    ASSUME CoverInv(machine), Cover!CommandStarts PROVE CoverInv(machine')
<1> DEFINE s == Cover!StartTimer(machine, machine.call.dir)
           l == [s.call EXCEPT !.step = "ends"]
           e == [s EXCEPT !.call = l]
<1>1. machine.call.step = "starts" /\ machine' = [s EXCEPT !.call.step = "ends"]
  BY DEF Cover!CommandStarts
<1>2. /\ s \in Cover!Covers /\ SameScale(s, machine)
      /\ s.state = machine.state /\ s.cut = machine.cut /\ s.call = machine.call
      /\ s.target = machine.target /\ s.current = machine.current /\ s.asked = machine.asked
      /\ (s.timer <=> machine.timer \/ ~Cover!Moving(machine))
  BY CoverStarts DEF CoverInv
<1> HIDE DEF s
<1>3. s.call \in [step : {"none", "starts", "ends"}, dir : Cover!CLOSING .. Cover!STOP]
  BY <1>2 DEF Cover!Covers
<1>4. /\ l \in [step : {"none", "starts", "ends"}, dir : Cover!CLOSING .. Cover!STOP]
      /\ l.step = "ends" /\ l.dir = s.call.dir
  BY <1>3
<1>5. machine' = e
  BY <1>1, Zenon
<1> HIDE DEF l
<1>6. e \in Cover!Covers
  BY <1>2, <1>4 DEF Cover!Covers
<1>7. /\ SameScale(e, s) /\ e.call = l /\ e.state = s.state /\ e.cut = s.cut
      /\ e.target = s.target /\ e.asked = s.asked /\ e.timer = s.timer
  BY <1>2 DEF Cover!Covers, SameScale
<1> HIDE DEF e
<1>8. Scaled(e)
  BY <1>2, <1>7, CoverSame DEF CoverInv
<1>9. Powered(e)
  BY <1>1, <1>2, <1>4, <1>7 DEF CoverInv, Powered, Cover!Moving
<1>10. Obeys(e) /\ Called(e)
  BY <1>1, <1>2, <1>4, <1>7 DEF CoverInv, Obeys, Called
<1> QED BY <1>5, <1>6, <1>8, <1>9, <1>10 DEF CoverInv

(* CommandEnds *)
LEMMA CommandEndsKeeps ==
    ASSUME CoverInv(machine), Cover!CommandEnds PROVE CoverInv(machine')
<1> DEFINE dir == machine.call.dir
           s == Cover!SetterEnds(machine, dir)
           n == Cover!NoCall
           e == [s EXCEPT !.call = n]
<1>1. machine.call.step = "ends" /\ machine' = e
  BY DEF Cover!CommandEnds
<1>2. dir \in Cover!CLOSING .. Cover!STOP /\ dir # Cover!STOP
  BY <1>1 DEF CoverInv, Called, Cover!Covers
<1> HIDE DEF dir
<1>3. /\ s \in Cover!Covers /\ SameScale(s, machine)
      /\ s.state = dir /\ s.cut = machine.cut /\ s.target = machine.target
      /\ s.asked = machine.asked /\ s.timer = machine.timer
  BY <1>2, CoverEnds DEF CoverInv
<1>4. /\ n \in [step : {"none", "starts", "ends"}, dir : Cover!CLOSING .. Cover!STOP]
      /\ n.step = "none" /\ n = Cover!NoCall
  BY CoverValues DEF Cover!NoCall
<1> HIDE DEF s, n
<1>5. e \in Cover!Covers
  BY <1>3, <1>4 DEF Cover!Covers
<1>6. /\ SameScale(e, s) /\ e.call = n /\ e.state = s.state /\ e.cut = s.cut
      /\ e.target = s.target /\ e.asked = s.asked /\ e.timer = s.timer
  BY <1>3 DEF Cover!Covers, SameScale
<1> HIDE DEF e
<1>7. Scaled(e)
  BY <1>3, <1>6, CoverSame DEF CoverInv
<1>8. Powered(e)
  BY <1>1, <1>2, <1>3, <1>4, <1>6 DEF CoverInv, Powered, Cover!Moving
<1>9. Obeys(e) /\ Called(e)
  BY <1>1, <1>3, <1>4, <1>6 DEF CoverInv, Obeys, Called
<1> QED BY <1>1, <1>5, <1>7, <1>8, <1>9 DEF CoverInv

(* The buttons: a setter, after one input. *)
LEMMA CoverButtons ==
    ASSUME CoverInv(machine),
           \/ \E dir \in {Cover!CLOSING, Cover!OPENING} : Cover!DirectionButton(dir)
           \/ Cover!SingleButton \/ Cover!PlainButton \/ Cover!StopButton
    PROVE  CoverInv(machine')
<1> DEFINE c == Cover!Spent(machine)
           n == IF c.vstop > 0 THEN 2 ELSE c.vstop
           s == [c EXCEPT !.vstop = n]
<1>1. machine.inputs > 0
  BY DEF Cover!DirectionButton, Cover!SingleButton, Cover!PlainButton, Cover!StopButton, Cover!Input
<1>2. CoverInv(c)
  BY <1>1, CoverSpends
<1>3. Cover!Suspended(c) = s
  BY DEF Cover!Suspended
<1> HIDE DEF c
<1>4. n \in 0 .. 2
  BY <1>2 DEF CoverInv, Cover!Covers
<1> HIDE DEF n
<1>5. s \in Cover!Covers /\ SameWay(s, c) /\ SameScale(s, c)
  <2>1. s \in Cover!Covers
    BY <1>2, <1>4 DEF CoverInv, Cover!Covers
  <2>2. SameWay(s, c) /\ SameScale(s, c)
    BY <1>2 DEF CoverInv, Cover!Covers, SameWay, SameScale
  <2> QED BY <2>1, <2>2
<1> HIDE DEF s
<1>6. CoverInv(s)
  BY <1>2, <1>5, CoverAside
<1>7. 0 \in Cover!Positions /\ Full \in Cover!Positions /\ c.current \in Cover!Positions
  BY <1>2, CoverConstants, CoverTypes DEF CoverInv, Cover!Positions
<1>8. CASE \E dir \in {Cover!CLOSING, Cover!OPENING} : Cover!DirectionButton(dir)
  <2>1. PICK dir \in {Cover!CLOSING, Cover!OPENING} : Cover!DirectionButton(dir)
    BY <1>8
  <2>2. machine' = Cover!Setter(s, Cover!End(dir)) \/ machine' = Cover!Setter(c, c.current)
    BY <1>3, <2>1 DEF Cover!DirectionButton, c
  <2>3. Cover!End(dir) \in Cover!Positions
    BY <1>7 DEF Cover!End
  <2> QED BY <1>2, <1>6, <1>7, <2>2, <2>3, CoverSetter
<1>9. CASE Cover!SingleButton
  <2>1. machine' = CASE Cover!Moving(c) -> Cover!Setter(c, c.current)
                     [] ~Cover!Moving(c) /\ c.current = 0 -> Cover!Setter(c, Full)
                     [] OTHER -> Cover!Setter(c, 0)
    BY <1>9, Zenon DEF Cover!SingleButton, c
  <2>2. \E v \in Cover!Positions : machine' = Cover!Setter(c, v)
    BY <1>7, <2>1
  <2> QED BY <1>2, <2>2, CoverSetter
<1>10. CASE Cover!PlainButton
  BY <1>2, <1>7, <1>10, CoverSetter DEF Cover!PlainButton, c
<1>11. CASE Cover!StopButton
  <2>1. machine' = IF c.stoppable THEN Cover!Setter(c, c.current) ELSE c
    BY <1>11, Zenon DEF Cover!StopButton, c
  <2> QED BY <1>2, <1>7, <2>1, CoverSetter
<1> QED BY <1>8, <1>9, <1>10, <1>11

(* An obstruction, and the delay of the stop button. *)
LEMMA CoverInputsKeep ==
    ASSUME CoverInv(machine), Cover!ObstructionInput \/ Cover!StopRearms
    PROVE  CoverInv(machine')
<1>1. CASE Cover!ObstructionInput
  <2> DEFINE c == Cover!Spent(machine)
  <2>1. PICK on \in BOOLEAN : machine' = Cover!Rearmed([c EXCEPT !.obst = on])
    BY <1>1 DEF Cover!ObstructionInput
  <2> DEFINE e == [c EXCEPT !.obst = on]
  <2>2. CoverInv(c)
    BY <1>1, CoverSpends DEF Cover!ObstructionInput, Cover!Input
  <2> HIDE DEF c
  <2>3. e \in Cover!Covers
    BY <2>2 DEF CoverInv, Cover!Covers
  <2>4. SameWay(e, c) /\ SameScale(e, c)
    BY <2>2 DEF CoverInv, Cover!Covers, SameWay, SameScale
  <2> HIDE DEF e
  <2>5. CoverInv(e)
    BY <2>2, <2>3, <2>4, CoverAside
  <2>6. CoverInv(Cover!Rearmed(e))
    BY <2>3, <2>5, RearmedDoes, CoverAside
  <2> QED BY <2>1, <2>6 DEF e
<1>2. CASE Cover!StopRearms
  <2> DEFINE e == [machine EXCEPT !.rearm = FALSE, !.stoppable = TRUE]
  <2>1. machine' = e
    BY <1>2 DEF Cover!StopRearms
  <2>2. e \in Cover!Covers
    BY DEF CoverInv, Cover!Covers
  <2>3. SameWay(e, machine) /\ SameScale(e, machine)
    BY DEF CoverInv, Cover!Covers, SameWay, SameScale
  <2> HIDE DEF e
  <2> QED BY <2>1, <2>2, <2>3, CoverAside
<1> QED BY <1>1, <1>2

(* It begins at rest at one end. *)
LEMMA CoverInit == Cover!Init => CoverInv(machine)
<1> SUFFICES ASSUME Cover!Init PROVE CoverInv(machine)
  OBVIOUS
<1>1. PICK c \in Corrections, m \in CoverMargins, v \in 0 .. 1, p \in {0, Full} :
        machine = [correction |-> c, margin |-> m, motor |-> p, hk |-> p, current |-> p,
                 target |-> p, state |-> Cover!STOP, obst |-> FALSE, timer |-> FALSE, must |-> FALSE,
                 vstop |-> v, stoppable |-> FALSE, rearm |-> FALSE, call |-> Cover!NoCall,
                 asked |-> p, cut |-> "none", inputs |-> CoverInputs]
  BY DEF Cover!Init
<1>2. p \in Int /\ p \in Cover!Positions /\ v \in 0 .. 2 /\ CoverInputs \in 0 .. CoverInputs
  BY CoverConstants DEF Cover!Positions
<1>3. /\ Cover!STOP \in Cover!CLOSING .. Cover!STOP /\ Cover!NoCall.step = "none"
      /\ Cover!NoCall \in [step : {"none", "starts", "ends"}, dir : Cover!CLOSING .. Cover!STOP]
  BY CoverValues DEF Cover!NoCall
<1>4. machine \in Cover!Covers
  BY <1>1, <1>2, <1>3 DEF Cover!Covers
<1>5. /\ machine.motor = p /\ machine.hk = p /\ machine.current = p /\ machine.target = p
      /\ machine.state = Cover!STOP /\ machine.timer = FALSE /\ machine.call = Cover!NoCall
  BY <1>1
<1>6. Scaled(machine)
  BY <1>2, <1>4, <1>5, ScaleHolds DEF Scaled
<1>7. Powered(machine) /\ Obeys(machine) /\ Called(machine)
  BY <1>3, <1>5 DEF Powered, Obeys, Called, Cover!Moving
<1> QED BY <1>4, <1>6, <1>7 DEF CoverInv

(* Every step of the cover. *)
LEMMA CoverStep ==
    ASSUME CoverInv(machine), Cover!Next PROVE CoverInv(machine')
BY WorkerKeeps, StopRefusedKeeps, CommandBeginsKeeps, CommandStartsKeeps, CommandEndsKeeps,
   CoverButtons, CoverInputsKeep
   DEF Cover!Next, Cover!Step, Cover!Environment

(* What the run checks of it. *)
LEMMA CoverKept == CoverInv(machine) => Cover!CoverTimed /\ Cover!TypeOK
BY DEF CoverInv, Scaled, Powered, Obeys, Called, Cover!CoverTimed, Cover!TypeOK, Cover!NoCall

----
(* The button: AdvButton.tla. *)

(* The periods, by the module's assumption. *)
LEMMA ButtonConstants ==
    /\ MaxEval \in Nat /\ MaxEval > 0 /\ Double \in Nat /\ Double > 0 /\ Long \in Nat
    /\ Hold \in Nat /\ Sleep \in Nat /\ MaxRefused \in Nat
    /\ Double < Long /\ Long < Hold /\ Hold < Sleep
BY AccessoriesAssumption DEF Button!AdvButtonAssumption

(* The marks, as the code numbers them. *)
LEMMA ButtonValues == Button!Off = -1 /\ Button!Disabled = 15
BY DEF Button!Off, Button!Disabled

(* The count of evaluations stays short of the level that is not confirmed. *)
Counts(b) == (b.state => b.value > 0) /\ (~b.state => b.value < MaxEval)

(* What is owed, and the timers that stand for it. *)
Accounted(b) ==
    /\ b.owed = (CASE b.count = 1 -> 1 [] b.count = Button!Disabled -> -1 [] OTHER -> 0)
    /\ b.count = 1 <=> b.press # Button!Off
    /\ b.hold # Button!Off => ~b.state /\ b.count # Button!Disabled

(* A hold is reported ahead of a release, so the button is down; while it is down
   press_timer comes to its end before the press is a long one, and hold_timer
   after that. *)
InTime(b) ==
    /\ b.count = Button!Disabled => ~b.state
    /\ b.press # Button!Off /\ ~b.state => b.press + b.since <= Double
    /\ b.hold # Button!Off => b.since > Long \/ b.hold + b.since >= Hold

ButtonInv(b) == b \in Button!Buttons /\ Counts(b) /\ (~b.cut => Accounted(b) /\ InTime(b))

(* What a button's fields are. *)
LEMMA ButtonTypes ==
    ASSUME NEW b \in Button!Buttons
    PROVE  /\ b.press \in Int /\ b.press >= -1 /\ b.press <= Double
           /\ b.hold \in Int /\ b.hold >= -1 /\ b.hold <= Hold
           /\ b.since \in Int /\ b.since >= 0 /\ b.since <= Long + 1
           /\ b.value \in Int /\ b.value >= 0 /\ b.value <= MaxEval
           /\ b.count \in {0, 1, 15} /\ b.owed \in Int
           /\ b.pin \in BOOLEAN /\ b.state \in BOOLEAN
           /\ b.refused \in Int /\ b.refused >= 0 /\ b.refused <= MaxRefused
           /\ b.sleep \in Int /\ b.sleep >= 0 /\ b.sleep <= Sleep
           /\ b.read \in Int /\ b.read >= 0 /\ b.read <= MaxEval
<1> USE ButtonConstants
<1>1. b.press \in Button!Off .. Double /\ b.hold \in Button!Off .. Hold /\ b.since \in 0 .. Long + 1
  BY DEF Button!Buttons
<1>2. b.value \in 0 .. MaxEval /\ b.count \in {0, 1, Button!Disabled} /\ b.owed \in Int
  BY DEF Button!Buttons
<1>3. b.pin \in BOOLEAN /\ b.state \in BOOLEAN /\ b.refused \in 0 .. MaxRefused
  BY DEF Button!Buttons
<1>4. b.sleep \in 0 .. Sleep /\ b.read \in 0 .. MaxEval
  BY DEF Button!Buttons
<1>5. b.press \in Int /\ b.press >= -1 /\ b.press <= Double
  BY <1>1, ButtonValues
<1>6. b.hold \in Int /\ b.hold >= -1 /\ b.hold <= Hold
  BY <1>1, ButtonValues
<1>7. b.since \in Int /\ b.since >= 0 /\ b.since <= Long + 1
  BY <1>1
<1>8. b.value \in Int /\ b.value >= 0 /\ b.value <= MaxEval
  BY <1>2
<1>9. b.count \in {0, 1, 15}
  BY <1>2, ButtonValues
<1>10. b.refused \in Int /\ b.refused >= 0 /\ b.refused <= MaxRefused
  BY <1>3
<1>11. /\ b.sleep \in Int /\ b.sleep >= 0 /\ b.sleep <= Sleep
       /\ b.read \in Int /\ b.read >= 0 /\ b.read <= MaxEval
  BY <1>4
<1> QED BY <1>2, <1>3, <1>5, <1>6, <1>7, <1>8, <1>9, <1>10, <1>11

(* What the invariant speaks of. *)
SameButton(e, d) ==
    /\ e.state = d.state /\ e.value = d.value /\ e.cut = d.cut /\ e.owed = d.owed
    /\ e.count = d.count /\ e.press = d.press /\ e.hold = d.hold /\ e.since = d.since

(* What the invariant does not speak of does not matter. *)
LEMMA ButtonAside ==
    ASSUME NEW d, ButtonInv(d), NEW e \in Button!Buttons, SameButton(e, d)
    PROVE  ButtonInv(e)
BY DEF ButtonInv, SameButton, Counts, Accounted, InTime

(* A refused command is counted. *)
LEMMA RefuseDoes ==
    ASSUME NEW b \in Button!Buttons, NEW room, room = 2 \/ b.refused < MaxRefused
    PROVE  LET e == Button!Refuse(b, room) IN
           /\ e \in Button!Buttons /\ SameButton(e, b)
<1> DEFINE n == IF room = 2 THEN b.refused ELSE b.refused + 1
           e == [b EXCEPT !.refused = n]
<1>1. n \in 0 .. MaxRefused
  BY ButtonTypes, ButtonConstants
<1>2. Button!Refuse(b, room) = e
  <2>1. e = [b EXCEPT !.refused = IF room = 2 THEN b.refused ELSE b.refused + 1]
    OBVIOUS
  <2> HIDE DEF n
  <2> QED BY <2>1, Zenon DEF Button!Refuse
<1> HIDE DEF n
<1>3. e \in Button!Buttons
  BY <1>1 DEF Button!Buttons
<1>4. SameButton(e, b)
  BY DEF Button!Buttons, SameButton
<1> HIDE DEF e
<1> QED BY <1>2, <1>3, <1>4

(* The edge interrupt. *)
LEMMA EdgeKeeps ==
    ASSUME ButtonInv(machine), Button!Edge PROVE ButtonInv(machine')
<1> DEFINE p == ~machine.pin
           b == [machine EXCEPT !.pin = p, !.read = 0]
<1>1. PICK room \in {0, 2} :
        /\ Button!Room(room)
        /\ machine' = IF ~machine.intr THEN b
                      ELSE IF room = 0 THEN [Button!Refuse(b, room) EXCEPT !.missed = TRUE]
                      ELSE [b EXCEPT !.running = TRUE, !.intr = FALSE, !.missed = FALSE]
  BY Zenon DEF Button!Edge
<1>2. p \in BOOLEAN /\ 0 \in 0 .. MaxEval
  BY ButtonConstants
<1> HIDE DEF p
<1>3. b \in Button!Buttons
  BY <1>2 DEF ButtonInv, Button!Buttons
<1>4. SameButton(b, machine) /\ b.refused = machine.refused
  BY DEF ButtonInv, Button!Buttons, SameButton
<1> HIDE DEF b
<1>5. room = 2 \/ b.refused < MaxRefused
  BY <1>1, <1>4 DEF Button!Room
<1> DEFINE r == Button!Refuse(b, room)
           e0 == [r EXCEPT !.missed = TRUE]
           e1 == [b EXCEPT !.running = TRUE, !.intr = FALSE, !.missed = FALSE]
<1>6. r \in Button!Buttons /\ SameButton(r, b)
  BY <1>3, <1>5, RefuseDoes
<1> HIDE DEF r
<1>7. e0 \in Button!Buttons /\ e1 \in Button!Buttons
  BY <1>3, <1>6 DEF Button!Buttons
<1>8. SameButton(e0, r) /\ SameButton(e1, b)
  BY <1>3, <1>6 DEF Button!Buttons, SameButton
<1>9. machine' = b \/ machine' = e0 \/ machine' = e1
  BY <1>1 DEF r
<1> HIDE DEF e0, e1
<1>10. machine' \in Button!Buttons /\ SameButton(machine', machine)
  BY <1>3, <1>4, <1>6, <1>7, <1>8, <1>9 DEF SameButton
<1> QED BY <1>10, ButtonAside

(* The countdown of an evaluation. *)
LEMMA CountDownKeeps ==
    ASSUME ButtonInv(machine), Button!CountDown PROVE ButtonInv(machine')
<1> DEFINE a == [machine EXCEPT !.phase = "read"]
           n == machine.sleep + 1
           s == [a EXCEPT !.sleep = n]
           f == Button!FallAsleep(machine)
<1>1. PICK room \in {0, 2} :
        /\ Button!Room(room)
        /\ machine' = CASE machine.continuous -> a
                        [] ~machine.continuous /\ machine.sleep < Sleep -> [a EXCEPT !.sleep = @ + 1]
                        [] OTHER -> IF room = 2 THEN f ELSE Button!Refuse(a, room)
  BY Zenon DEF Button!CountDown
<1>2. machine \in Button!Buttons
  BY DEF ButtonInv
<1>3. a \in Button!Buttons
  BY <1>2 DEF Button!Buttons
<1>4. SameButton(a, machine) /\ a.refused = machine.refused /\ a.sleep = machine.sleep
  BY <1>2 DEF Button!Buttons, SameButton
<1>5. f \in Button!Buttons
  <2>1. 0 \in 0 .. Sleep
    BY ButtonConstants
  <2> QED BY <1>2, <2>1 DEF Button!FallAsleep, Button!Buttons
<1>6. SameButton(f, machine)
  BY <1>2 DEF Button!FallAsleep, Button!Buttons, SameButton
<1> HIDE DEF a, f
<1>7. Button!Refuse(a, room) \in Button!Buttons /\ SameButton(Button!Refuse(a, room), a)
  BY <1>1, <1>3, <1>4, RefuseDoes DEF Button!Room
<1>8. ASSUME machine.sleep < Sleep, machine' = [a EXCEPT !.sleep = @ + 1]
      PROVE  machine' \in Button!Buttons /\ SameButton(machine', machine)
  <2>1. n \in 0 .. Sleep /\ n = a.sleep + 1
    BY <1>2, <1>4, <1>8, ButtonTypes, ButtonConstants
  <2>2. [a EXCEPT !.sleep = @ + 1] = s
    BY <1>3, <1>4, <1>2, ButtonTypes DEF Button!Buttons
  <2> HIDE DEF n
  <2>3. s \in Button!Buttons
    BY <1>3, <2>1 DEF Button!Buttons
  <2>4. SameButton(s, a)
    BY <1>3 DEF Button!Buttons, SameButton
  <2> HIDE DEF s
  <2> QED BY <1>4, <1>8, <2>2, <2>3, <2>4 DEF SameButton
<1>9. machine' \in Button!Buttons /\ SameButton(machine', machine)
  <2>1. CASE machine.continuous
    BY <1>1, <1>3, <1>4, <2>1
  <2>2. CASE ~machine.continuous /\ machine.sleep < Sleep
    <3>1. machine' = [a EXCEPT !.sleep = @ + 1]
      BY <1>1, <2>2, Zenon
    <3> QED BY <1>8, <2>2, <3>1
  <2>3. CASE ~machine.continuous /\ ~(machine.sleep < Sleep)
    <3>1. machine' = f \/ machine' = Button!Refuse(a, room)
      BY <1>1, <2>3, Zenon
    <3> QED BY <1>4, <1>5, <1>6, <1>7, <3>1 DEF SameButton
  <2> QED BY <2>1, <2>2, <2>3
<1> QED BY <1>9, ButtonAside

(* An evaluation: a level is confirmed when it was counted to the end. *)
LEMMA DebounceDoes ==
    ASSUME NEW b, ButtonInv(b)
    PROVE  LET e == Button!Debounce(b) IN
           /\ e \in Button!Buttons /\ Counts(e) /\ e.cut = b.cut /\ e.owed = b.owed
           /\ e.count = b.count /\ e.press = b.press /\ e.hold = b.hold /\ e.since = b.since
           /\ e.refused = b.refused
<1> DEFINE v == CASE b.pin = b.state -> IF b.pin THEN MaxEval ELSE 0
                  [] b.pin /\ ~b.state -> b.value + 1
                  [] OTHER -> b.value - 1
           s == IF v = (IF b.pin THEN MaxEval ELSE 0) THEN b.pin ELSE b.state
           e == [b EXCEPT !.value = v, !.state = s]
<1>1. Button!Debounce(b) = e
  BY Zenon DEF Button!Debounce
<1>2. b \in Button!Buttons /\ Counts(b)
  BY DEF ButtonInv
<1>3. b.pin \in BOOLEAN /\ b.state \in BOOLEAN /\ b.value \in Int /\ b.value >= 0 /\ b.value <= MaxEval
  BY <1>2, ButtonTypes
<1>4. v \in 0 .. MaxEval /\ v \in Int /\ s \in BOOLEAN /\ (s => v > 0) /\ (~s => v < MaxEval)
  <2>1. CASE b.pin /\ b.state
    BY <1>3, <2>1, ButtonConstants
  <2>2. CASE b.pin /\ ~b.state
    <3>1. b.pin = TRUE /\ b.state = FALSE
      BY <1>3, <2>2
    <3>2. v = b.value + 1
      BY <3>1
    <3> HIDE DEF v
    <3>3. s = IF v = MaxEval THEN TRUE ELSE FALSE
      BY <3>1
    <3> HIDE DEF s
    <3>4. b.value < MaxEval
      BY <1>2, <3>1 DEF Counts
    <3> QED BY <1>3, <3>2, <3>3, <3>4, ButtonConstants
  <2>3. CASE ~b.pin /\ b.state
    <3>1. b.pin = FALSE /\ b.state = TRUE
      BY <1>3, <2>3
    <3>2. v = b.value - 1
      BY <3>1
    <3> HIDE DEF v
    <3>3. s = IF v = 0 THEN FALSE ELSE TRUE
      BY <3>1
    <3> HIDE DEF s
    <3>4. b.value > 0
      BY <1>2, <3>1 DEF Counts
    <3> QED BY <1>3, <3>2, <3>3, <3>4, ButtonConstants
  <2>4. CASE ~b.pin /\ ~b.state
    BY <1>3, <2>4, ButtonConstants
  <2> QED BY <1>3, <2>1, <2>2, <2>3, <2>4
<1> HIDE DEF v, s
<1>5. e \in Button!Buttons
  BY <1>2, <1>4 DEF Button!Buttons
<1>6. /\ e.value = v /\ e.state = s /\ e.cut = b.cut /\ e.owed = b.owed /\ e.count = b.count
      /\ e.press = b.press /\ e.hold = b.hold /\ e.since = b.since /\ e.refused = b.refused
  BY <1>2 DEF Button!Buttons
<1> HIDE DEF e
<1>7. Counts(e)
  BY <1>4, <1>6 DEF Counts
<1> QED BY <1>1, <1>5, <1>6, <1>7

(* What a confirmed level finds: the button as it was before, but for the level,
   and a queue that takes every command unless one was cut. *)
Turned(c, m, room) ==
    /\ c \in Button!Buttons /\ Counts(c) /\ ButtonInv(m) /\ room \in 0 .. 2
    /\ c.count = m.count /\ c.press = m.press /\ c.hold = m.hold /\ c.owed = m.owed
    /\ c.since = m.since /\ c.state # m.state
    /\ ~c.cut => ~m.cut /\ room = 2

(* push_down *)
LEMMA PushDownKeeps ==
    ASSUME NEW c, NEW m, NEW room, Turned(c, m, room), ~c.state
    PROVE  ButtonInv(Button!PushDown(c, room)) /\ Button!PushDown(c, room).refused = c.refused
<1> DEFINE h == IF c.holds /\ room > 0 THEN Hold ELSE c.hold
           e == [c EXCEPT !.hold = h, !.since = 0]
<1>1. Button!PushDown(c, room) = e
  BY Zenon DEF Button!PushDown
<1>2. c \in Button!Buttons /\ Counts(c) /\ c.state # m.state /\ m \in Button!Buttons
  BY DEF Turned, ButtonInv
<1>3. m.state = TRUE
  BY <1>2, ButtonTypes
<1>4. h \in Button!Off .. Hold /\ (h = Hold \/ h = c.hold) /\ 0 \in 0 .. Long + 1
  BY <1>2, ButtonConstants, ButtonValues DEF Button!Buttons
<1> HIDE DEF h
<1>5. e \in Button!Buttons
  BY <1>2, <1>4 DEF Button!Buttons
<1>6. /\ e.state = c.state /\ e.value = c.value /\ e.cut = c.cut /\ e.owed = c.owed
      /\ e.count = c.count /\ e.press = c.press /\ e.hold = h /\ e.since = 0
      /\ e.refused = c.refused
  BY <1>2 DEF Button!Buttons
<1> HIDE DEF e
<1>7. ASSUME ~e.cut PROVE Accounted(e) /\ InTime(e)
  <2>1. Accounted(m) /\ InTime(m)
    BY <1>6, <1>7 DEF Turned, ButtonInv
  <2>2. /\ e.owed = m.owed /\ e.count = m.count /\ e.press = m.press
        /\ e.count # Button!Disabled /\ m.hold = Button!Off
    BY <1>3, <1>6, <2>1 DEF Turned, Accounted, InTime
  <2>3. Accounted(e)
    BY <1>6, <2>1, <2>2 DEF Accounted
  <2>4. e.hold = Hold \/ e.hold = Button!Off
    BY <1>4, <1>6, <2>2 DEF Turned
  <2>5. e.press <= Double /\ e.press \in Int
    BY <1>5, ButtonTypes
  <2>6. InTime(e)
    BY <1>6, <2>2, <2>4, <2>5, ButtonConstants DEF InTime
  <2> QED BY <2>3, <2>6
<1>8. Counts(e)
  BY <1>2, <1>6 DEF Counts
<1>9. ButtonInv(e)
  BY <1>5, <1>7, <1>8 DEF ButtonInv
<1> QED BY <1>1, <1>6, <1>9

(* push_up *)
LEMMA PushUpKeeps ==
    ASSUME NEW c, NEW m, NEW room, Turned(c, m, room), c.state
    PROVE  ButtonInv(Button!PushUp(c, room)) /\ Button!PushUp(c, room).refused = c.refused
<1> DEFINE P == Button!PushUp(c, room)
           Good(x) == /\ x \in Button!Buttons /\ x.state = c.state /\ x.value = c.value
                      /\ x.cut = c.cut /\ x.refused = c.refused
<1>1. /\ c \in Button!Buttons /\ Counts(c) /\ c.state # m.state /\ m \in Button!Buttons
      /\ room \in 0 .. 2
  BY DEF Turned, ButtonInv
<1>2. m.state = FALSE /\ c.state = TRUE
  BY <1>1, ButtonTypes
<1>3. ~c.cut => Accounted(m) /\ InTime(m) /\ room = 2
  BY DEF Turned, ButtonInv
<1>4. ASSUME NEW x, Good(x), ~x.cut => Accounted(x) /\ InTime(x)
      PROVE  ButtonInv(x) /\ x.refused = c.refused
  BY <1>1, <1>4 DEF ButtonInv, Counts
<1>5. ASSUME NEW x, Good(x), x.hold = Button!Off, x.count # Button!Disabled
      PROVE  InTime(x)
  BY <1>2, <1>5 DEF InTime
<1>6. ASSUME c.count = Button!Disabled
      PROVE  ButtonInv(P) /\ P.refused = c.refused
  <2> DEFINE n == c.owed + 1
             e == [c EXCEPT !.count = 0, !.owed = n]
  <2>1. P = e
    <3>1. P = [c EXCEPT !.count = 0, !.owed = @ + 1]
      BY <1>6, Zenon DEF Button!PushUp
    <3> QED BY <1>1, <3>1, ButtonTypes DEF Button!Buttons
  <2>2. n \in Int /\ 0 \in {0, 1, Button!Disabled}
    BY <1>1, ButtonTypes
  <2>n. n = c.owed + 1
    OBVIOUS
  <2> HIDE DEF n
  <2>3. e \in Button!Buttons
    BY <1>1, <2>2 DEF Button!Buttons
  <2>4. /\ e.state = c.state /\ e.value = c.value /\ e.cut = c.cut /\ e.refused = c.refused
        /\ e.count = 0 /\ e.owed = n /\ e.press = c.press /\ e.hold = c.hold
    BY <1>1 DEF Button!Buttons
  <2> HIDE DEF e, P
  <2>5. ASSUME ~e.cut PROVE Accounted(e) /\ InTime(e)
    <3>1. Accounted(m) /\ c.count = m.count /\ c.press = m.press /\ c.hold = m.hold /\ c.owed = m.owed
      BY <1>3, <2>4, <2>5 DEF Turned
    <3>2. c.owed = -1 /\ c.press = Button!Off /\ c.hold = Button!Off
      <4>1. c.count = 15
        BY <1>6, ButtonValues
      <4>2. m.owed = -1
        BY <3>1, <4>1, ButtonValues DEF Accounted
      <4>3. m.press = Button!Off /\ m.hold = Button!Off
        BY <1>6, <3>1, <4>1 DEF Accounted
      <4> QED BY <3>1, <4>2, <4>3
    <3>3. e.owed = 0 /\ e.press = Button!Off /\ e.hold = Button!Off /\ e.count # Button!Disabled
      BY <2>4, <2>n, <3>2, ButtonValues
    <3>4. Accounted(e)
      BY <2>4, <3>3, ButtonValues DEF Accounted
    <3> QED BY <1>5, <2>3, <2>4, <3>3, <3>4
  <2> QED BY <1>4, <2>1, <2>3, <2>4, <2>5
<1>7. ASSUME c.count # Button!Disabled
      PROVE  ButtonInv(P) /\ P.refused = c.refused
  <2> DEFINE h == IF room > 0 THEN Button!Off ELSE c.hold
             d == [c EXCEPT !.hold = h]
  <2>1. P = Button!Release(d, room)
    BY <1>7, Zenon DEF Button!PushUp
  <2>2. h \in Button!Off .. Hold /\ (~c.cut => h = Button!Off)
    BY <1>1, <1>3, ButtonConstants, ButtonValues DEF Button!Buttons
  <2> HIDE DEF h
  <2>3. d \in Button!Buttons
    BY <1>1, <2>2 DEF Button!Buttons
  <2>4. /\ d.state = c.state /\ d.value = c.value /\ d.cut = c.cut /\ d.refused = c.refused
        /\ d.count = c.count /\ d.owed = c.owed /\ d.press = c.press /\ d.hold = h
        /\ d.since = c.since
    BY <1>1 DEF Button!Buttons
  <2> HIDE DEF d
  <2>5. d.count \in {0, 1} /\ d.owed \in Int /\ d.since \in Int
    BY <1>7, <2>3, <2>4, ButtonTypes, ButtonValues
  <2>6. ASSUME ~d.cut
        PROVE  /\ d.hold = Button!Off /\ (d.count = 1 <=> d.press # Button!Off)
               /\ d.owed = IF d.count = 1 THEN 1 ELSE 0
               /\ d.since > Long => d.count = 0
    <3>1. Accounted(m) /\ InTime(m) /\ c.count = m.count /\ c.press = m.press /\ c.owed = m.owed
          /\ c.since = m.since
      BY <1>3, <2>4, <2>6 DEF Turned
    <3>2. d.hold = Button!Off
      BY <2>2, <2>4, <2>6
    <3>3. d.count = 1 <=> d.press # Button!Off
      BY <2>4, <3>1 DEF Accounted
    <3>4. d.owed = IF d.count = 1 THEN 1 ELSE 0
      BY <2>4, <2>5, <3>1, ButtonValues DEF Accounted
    <3>5. m.press # Button!Off => m.press + m.since <= Double
      BY <1>2, <3>1 DEF InTime
    <3>6. d.press # Button!Off => d.press >= 0
      BY <2>3, ButtonTypes, ButtonValues
    <3>7. d.press \in Int
      BY <2>3, ButtonTypes
    <3>8. d.since > Long => d.press = Button!Off
      BY <2>4, <2>5, <3>1, <3>5, <3>6, <3>7, ButtonConstants
    <3> QED BY <2>5, <3>2, <3>3, <3>4, <3>8
  <2> DEFINE o1 == d.owed + 1
             o2 == d.owed - 1
             p1 == IF room = 2 THEN Double ELSE d.press
             p2 == IF room = 2 THEN Button!Off ELSE d.press
             e0 == [d EXCEPT !.count = 0]
             e1 == [d EXCEPT !.count = 1, !.owed = o1, !.press = p1]
             e2 == [d EXCEPT !.count = 0, !.owed = o2, !.press = p2]
  <2>7. /\ o1 \in Int /\ o2 \in Int /\ p1 \in Button!Off .. Double /\ p2 \in Button!Off .. Double
        /\ 0 \in {0, 1, Button!Disabled} /\ 1 \in {0, 1, Button!Disabled}
        /\ o1 = d.owed + 1 /\ o2 = d.owed - 1
        /\ (room = 2 => p1 = Double /\ p2 = Button!Off)
    BY <2>3, <2>5, ButtonConstants, ButtonValues DEF Button!Buttons
  <2>8. \/ P = e0 /\ d.since > Long
        \/ P = e1 /\ d.count = 0
        \/ P = e2 /\ d.count = 1
        \/ P = d
    <3>1. P = CASE d.since > Long -> [d EXCEPT !.count = 0]
                [] d.since <= Long /\ d.double /\ d.count = 0 ->
                    [d EXCEPT !.count = 1, !.owed = @ + 1, !.press = IF room = 2 THEN Double ELSE @]
                [] d.since <= Long /\ d.double /\ d.count = 1 ->
                    [d EXCEPT !.count = 0, !.owed = @ - 1, !.press = IF room = 2 THEN Button!Off ELSE @]
                [] OTHER -> d
      BY <2>1, Zenon DEF Button!Release
    <3>2. [d EXCEPT !.count = 1, !.owed = @ + 1, !.press = IF room = 2 THEN Double ELSE @] = e1
      BY <2>3, <2>5 DEF Button!Buttons
    <3>3. [d EXCEPT !.count = 0, !.owed = @ - 1, !.press = IF room = 2 THEN Button!Off ELSE @] = e2
      BY <2>3, <2>5 DEF Button!Buttons
    <3> HIDE DEF e1, e2, P
    <3>4. P = CASE d.since > Long -> e0
                [] d.since <= Long /\ d.double /\ d.count = 0 -> e1
                [] d.since <= Long /\ d.double /\ d.count = 1 -> e2
                [] OTHER -> d
      BY <3>1, <3>2, <3>3, Zenon
    <3> HIDE DEF e0
    <3> QED BY <3>4
  <2> HIDE DEF o1, o2, p1, p2, P
  <2>9. e0 \in Button!Buttons /\ e1 \in Button!Buttons /\ e2 \in Button!Buttons
    BY <2>3, <2>7 DEF Button!Buttons
  <2>10. /\ e0.state = c.state /\ e0.value = c.value /\ e0.cut = c.cut /\ e0.refused = c.refused
         /\ e0.count = 0 /\ e0.owed = d.owed /\ e0.press = d.press /\ e0.hold = d.hold
    BY <2>3, <2>4 DEF Button!Buttons
  <2>11. /\ e1.state = c.state /\ e1.value = c.value /\ e1.cut = c.cut /\ e1.refused = c.refused
         /\ e1.count = 1 /\ e1.owed = o1 /\ e1.press = p1 /\ e1.hold = d.hold
    BY <2>3, <2>4 DEF Button!Buttons
  <2>12. /\ e2.state = c.state /\ e2.value = c.value /\ e2.cut = c.cut /\ e2.refused = c.refused
         /\ e2.count = 0 /\ e2.owed = o2 /\ e2.press = p2 /\ e2.hold = d.hold
    BY <2>3, <2>4 DEF Button!Buttons
  <2> HIDE DEF e0, e1, e2
  <2>13. ASSUME NEW x, Good(x), x.count \in {0, 1}, x.hold = d.hold,
                ~d.cut => /\ x.count = 1 <=> x.press # Button!Off
                          /\ x.owed = IF x.count = 1 THEN 1 ELSE 0
         PROVE  ButtonInv(x) /\ x.refused = c.refused
    <3>1. ASSUME ~x.cut PROVE Accounted(x) /\ InTime(x)
      <4>1. x.hold = Button!Off /\ x.count # Button!Disabled
        BY <2>4, <2>6, <2>13, <3>1, ButtonValues
      <4>2. (x.count = 1 <=> x.press # Button!Off) /\ x.owed = IF x.count = 1 THEN 1 ELSE 0
        BY <2>4, <2>13, <3>1
      <4>3. Accounted(x)
        BY <2>13, <4>1, <4>2, ButtonValues DEF Accounted
      <4> QED BY <1>5, <2>13, <4>1, <4>3
    <3> QED BY <1>4, <2>13, <3>1
  <2>14. CASE P = e0 /\ d.since > Long
    BY <2>6, <2>9, <2>10, <2>13, <2>14
  <2>15. CASE P = e1 /\ d.count = 0
    <3>1. ~d.cut => (e1.count = 1 <=> e1.press # Button!Off) /\ e1.owed = 1
      <4>1. SUFFICES ASSUME ~d.cut PROVE (e1.count = 1 <=> e1.press # Button!Off) /\ e1.owed = 1
        OBVIOUS
      <4>2. room = 2
        BY <1>3, <2>4, <4>1
      <4> QED BY <2>6, <2>7, <2>11, <2>15, <4>1, <4>2, ButtonConstants, ButtonValues
    <3> QED BY <2>9, <2>11, <2>13, <2>15, <3>1
  <2>16. CASE P = e2 /\ d.count = 1
    <3>1. ~d.cut => (e2.count = 1 <=> e2.press # Button!Off) /\ e2.owed = 0
      <4>1. SUFFICES ASSUME ~d.cut PROVE (e2.count = 1 <=> e2.press # Button!Off) /\ e2.owed = 0
        OBVIOUS
      <4>2. room = 2
        BY <1>3, <2>4, <4>1
      <4> QED BY <2>6, <2>7, <2>12, <2>16, <4>1, <4>2, ButtonConstants, ButtonValues
    <3> QED BY <2>9, <2>12, <2>13, <2>16, <3>1
  <2>17. CASE P = d
    BY <2>3, <2>4, <2>5, <2>6, <2>13, <2>17
  <2> QED BY <2>8, <2>14, <2>15, <2>16, <2>17
<1>8. ButtonInv(P) /\ P.refused = c.refused
  BY <1>6, <1>7
<1> QED BY <1>8

(* The second part of an evaluation. *)
LEMMA ReadKeeps ==
    ASSUME ButtonInv(machine), Button!Read PROVE ButtonInv(machine')
<1>1. PICK room \in 0 .. 2 :
        /\ Button!Room(room)
        /\ LET b == [Button!Debounce(machine) EXCEPT
                        !.phase = "idle",
                        !.read = IF @ = MaxEval THEN @ ELSE @ + 1,
                        !.missed = @ \/ (~machine.running /\ machine.read + 1 < MaxEval),
                        !.cut = @ \/ room < 2]
           IN machine' = IF b.state = machine.state THEN b ELSE Button!Refuse(Button!Confirm(b, room), room)
  BY Zenon DEF Button!Read
<1> DEFINE d == Button!Debounce(machine)
           n == IF d.read = MaxEval THEN d.read ELSE d.read + 1
           s == d.missed \/ (~machine.running /\ machine.read + 1 < MaxEval)
           u == d.cut \/ room < 2
           b == [d EXCEPT !.phase = "idle", !.read = n, !.missed = s, !.cut = u]
           c == [b EXCEPT !.sleep = 0]
           C == Button!Confirm(b, room)
<1>2. /\ d \in Button!Buttons /\ Counts(d) /\ d.cut = machine.cut /\ d.owed = machine.owed
      /\ d.count = machine.count /\ d.press = machine.press /\ d.hold = machine.hold
      /\ d.since = machine.since /\ d.refused = machine.refused
  BY DebounceDoes
<1> HIDE DEF d
<1>3. d.read \in Int /\ d.read >= 0 /\ d.read <= MaxEval /\ d.missed \in BOOLEAN /\ d.cut \in BOOLEAN
  BY <1>2, ButtonTypes DEF Button!Buttons
<1>4. n \in 0 .. MaxEval /\ s \in BOOLEAN /\ u \in BOOLEAN /\ 0 \in 0 .. Sleep
  BY <1>3, ButtonConstants
<1>5. machine' = IF b.state = machine.state THEN b ELSE Button!Refuse(C, room)
  <2>1. b = [d EXCEPT !.phase = "idle",
                      !.read = IF @ = MaxEval THEN @ ELSE @ + 1,
                      !.missed = @ \/ (~machine.running /\ machine.read + 1 < MaxEval),
                      !.cut = @ \/ room < 2]
    BY <1>2, <1>3 DEF Button!Buttons
  <2> HIDE DEF b
  <2> QED BY <1>1, <2>1, Zenon DEF d
<1>u. ~u => ~d.cut /\ room = 2
  BY <1>3
<1> HIDE DEF n, s, u
<1>6. b \in Button!Buttons
  BY <1>2, <1>4 DEF Button!Buttons
<1>7. /\ b.state = d.state /\ b.value = d.value /\ b.cut = u /\ b.owed = d.owed
      /\ b.count = d.count /\ b.press = d.press /\ b.hold = d.hold /\ b.since = d.since
      /\ b.refused = d.refused
  BY <1>2 DEF Button!Buttons
<1> HIDE DEF b
<1>8. CASE b.state = machine.state
  <2>1. Counts(b)
    BY <1>2, <1>7 DEF Counts
  <2>2. ~b.cut => Accounted(b) /\ InTime(b)
    BY <1>2, <1>7, <1>8, <1>u DEF ButtonInv, Accounted, InTime
  <2> QED BY <1>5, <1>6, <1>8, <2>1, <2>2 DEF ButtonInv
<1>9. CASE b.state # machine.state
  <2>1. c \in Button!Buttons
    BY <1>4, <1>6 DEF Button!Buttons
  <2>2. /\ c.state = b.state /\ c.value = b.value /\ c.cut = u /\ c.owed = b.owed
        /\ c.count = b.count /\ c.press = b.press /\ c.hold = b.hold /\ c.since = b.since
        /\ c.refused = b.refused
    BY <1>6, <1>7 DEF Button!Buttons
  <2>3. C = IF b.state THEN Button!PushUp(c, room) ELSE Button!PushDown(c, room)
    BY Zenon DEF Button!Confirm
  <2> HIDE DEF c, C
  <2>4. Turned(c, machine, room)
    BY <1>1, <1>2, <1>7, <1>9, <1>u, <2>1, <2>2 DEF Turned, Counts
  <2>5. ButtonInv(C) /\ C.refused = machine.refused
    BY <1>2, <1>7, <2>2, <2>3, <2>4, PushUpKeeps, PushDownKeeps
  <2>6. room = 2 \/ C.refused < MaxRefused
    BY <1>1, <2>5 DEF Button!Room
  <2>7. Button!Refuse(C, room) \in Button!Buttons /\ SameButton(Button!Refuse(C, room), C)
    BY <2>5, <2>6, RefuseDoes DEF ButtonInv
  <2> QED BY <1>5, <1>9, <2>5, <2>7, ButtonAside
<1> QED BY <1>8, <1>9

(* press_timer *)
LEMMA SinglePressKeeps ==
    ASSUME ButtonInv(machine), Button!SinglePress PROVE ButtonInv(machine')
<1> DEFINE n == machine.owed - 1
           o == Button!Off
           e == [machine EXCEPT !.press = o, !.count = 0, !.owed = n]
<1>1. machine \in Button!Buttons /\ machine.press = 0
  BY DEF ButtonInv, Button!SinglePress
<1>2. machine' = e
  BY <1>1, ButtonTypes DEF Button!SinglePress, Button!Buttons
<1>3. n \in Int /\ o \in Button!Off .. Double /\ 0 \in {0, 1, Button!Disabled} /\ n = machine.owed - 1
  BY <1>1, ButtonTypes, ButtonConstants, ButtonValues
<1>o. o = Button!Off
  OBVIOUS
<1> HIDE DEF n, o
<1>4. e \in Button!Buttons
  <2> DEFINE f == [machine EXCEPT !.press = o]
             g == [f EXCEPT !.count = 0]
  <2>1. f \in Button!Buttons
    BY <1>1, <1>3 DEF Button!Buttons
  <2> HIDE DEF f
  <2>2. g \in Button!Buttons
    BY <1>3, <2>1 DEF Button!Buttons
  <2> HIDE DEF g
  <2>3. [g EXCEPT !.owed = n] \in Button!Buttons
    BY <1>3, <2>2 DEF Button!Buttons
  <2> QED BY <2>3 DEF e, f, g
<1>5. /\ e.state = machine.state /\ e.value = machine.value /\ e.cut = machine.cut /\ e.owed = n
      /\ e.count = 0 /\ e.press = o /\ e.hold = machine.hold /\ e.since = machine.since
  BY <1>1 DEF Button!Buttons
<1> HIDE DEF e
<1>6. ASSUME ~e.cut PROVE Accounted(e) /\ InTime(e)
  <2>1. Accounted(machine) /\ InTime(machine)
    BY <1>5, <1>6 DEF ButtonInv
  <2>2. machine.count = 1
    BY <1>1, <2>1, ButtonValues DEF Accounted
  <2>3. machine.owed = 1
    BY <2>1, <2>2, ButtonValues DEF Accounted
  <2>4. e.owed = 0
    BY <1>3, <1>5, <2>3
  <2>5. e.hold # Button!Off => ~e.state /\ e.count # Button!Disabled
    BY <1>5, <2>1, ButtonValues DEF Accounted
  <2>6. Accounted(e)
    BY <1>5, <1>o, <2>4, <2>5, ButtonValues DEF Accounted
  <2>7. InTime(e)
    BY <1>5, <1>o, <2>1, ButtonValues DEF InTime
  <2> QED BY <2>6, <2>7
<1>7. Counts(e)
  BY <1>5 DEF ButtonInv, Counts
<1> QED BY <1>2, <1>4, <1>6, <1>7 DEF ButtonInv

(* hold_timer: press_timer has ended before. *)
LEMMA HoldPressKeeps ==
    ASSUME ButtonInv(machine), Button!HoldPress PROVE ButtonInv(machine')
<1> DEFINE n == machine.owed - 1
           o == Button!Off
           k == Button!Disabled
           e == [machine EXCEPT !.hold = o, !.count = k, !.owed = n]
<1>1. machine \in Button!Buttons /\ machine.hold = 0
  BY DEF ButtonInv, Button!HoldPress
<1>2. machine' = e
  BY <1>1, ButtonTypes DEF Button!HoldPress, Button!Buttons
<1>3. n \in Int /\ o \in Button!Off .. Hold /\ k \in {0, 1, Button!Disabled} /\ n = machine.owed - 1
      /\ o = Button!Off /\ k = Button!Disabled
  BY <1>1, ButtonTypes, ButtonConstants, ButtonValues
<1> HIDE DEF n, o, k
<1>4. e \in Button!Buttons
  <2> DEFINE f == [machine EXCEPT !.hold = o]
             g == [f EXCEPT !.count = k]
  <2>1. f \in Button!Buttons
    BY <1>1, <1>3 DEF Button!Buttons
  <2> HIDE DEF f
  <2>2. g \in Button!Buttons
    BY <1>3, <2>1 DEF Button!Buttons
  <2> HIDE DEF g
  <2>3. [g EXCEPT !.owed = n] \in Button!Buttons
    BY <1>3, <2>2 DEF Button!Buttons
  <2> QED BY <2>3 DEF e, f, g
<1>5. /\ e.state = machine.state /\ e.value = machine.value /\ e.cut = machine.cut /\ e.owed = n
      /\ e.count = k /\ e.press = machine.press /\ e.hold = o /\ e.since = machine.since
  BY <1>1 DEF Button!Buttons
<1> HIDE DEF e
<1>6. ASSUME ~e.cut PROVE Accounted(e) /\ InTime(e)
  <2>1. Accounted(machine) /\ InTime(machine)
    BY <1>5, <1>6 DEF ButtonInv
  <2>2. ~machine.state /\ machine.count # Button!Disabled /\ machine.since > Long
    <3>1. machine.hold # Button!Off
      BY <1>1, ButtonValues
    <3>2. machine.since > Long \/ machine.hold + machine.since >= Hold
      BY <2>1, <3>1 DEF InTime
    <3>3. machine.since > Long
      BY <1>1, <3>2, ButtonTypes, ButtonConstants
    <3> QED BY <2>1, <3>1, <3>3 DEF Accounted
  <2>3. machine.press = Button!Off
    <3>1. machine.press # Button!Off => machine.press + machine.since <= Double
      BY <2>1, <2>2 DEF InTime
    <3> QED BY <1>1, <2>2, <3>1, ButtonTypes, ButtonConstants, ButtonValues
  <2>4. machine.count = 0 /\ machine.owed = 0
    <3>1. machine.count # 1
      BY <2>1, <2>3 DEF Accounted
    <3>2. machine.count = 0
      BY <1>1, <2>2, <3>1, ButtonTypes, ButtonValues
    <3> QED BY <2>1, <3>2, ButtonValues DEF Accounted
  <2>5. e.owed = -1 /\ e.count = 15 /\ e.press = Button!Off /\ e.hold = Button!Off /\ ~e.state
    BY <1>3, <1>5, <2>2, <2>3, <2>4, ButtonValues
  <2>6. Accounted(e)
    BY <2>5, ButtonValues DEF Accounted
  <2>7. InTime(e)
    BY <2>5 DEF InTime
  <2> QED BY <2>6, <2>7
<1>7. Counts(e)
  BY <1>5 DEF ButtonInv, Counts
<1> QED BY <1>2, <1>4, <1>6, <1>7 DEF ButtonInv

(* The timers run on together. *)
LEMMA TickKeeps ==
    ASSUME ButtonInv(machine), Button!Tick PROVE ButtonInv(machine')
<1> DEFINE f == IF machine.running THEN "due" ELSE machine.phase
           s == IF machine.since > Long THEN machine.since ELSE machine.since + 1
           p == IF machine.press = Button!Off THEN machine.press ELSE machine.press - 1
           h == IF machine.hold = Button!Off THEN machine.hold ELSE machine.hold - 1
           e == [machine EXCEPT !.phase = f, !.since = s, !.press = p, !.hold = h]
<1>1. machine \in Button!Buttons /\ machine.press # 0 /\ machine.hold # 0
  BY DEF ButtonInv, Button!Tick
<1>2. machine' = e
  BY <1>1, ButtonTypes DEF Button!Tick, Button!Buttons
<1>3. /\ machine.press \in Int /\ machine.press >= -1 /\ machine.press <= Double
      /\ machine.hold \in Int /\ machine.hold >= -1 /\ machine.hold <= Hold
      /\ machine.since \in Int /\ machine.since >= 0 /\ machine.since <= Long + 1
  BY <1>1, ButtonTypes
<1>4. f \in {"idle", "due", "read"}
  BY <1>1 DEF Button!Buttons
<1>5. s \in 0 .. Long + 1 /\ (machine.since > Long => s = machine.since)
      /\ (machine.since <= Long => s = machine.since + 1)
  BY <1>3, ButtonConstants
<1>6. /\ p \in Button!Off .. Double /\ (p = Button!Off <=> machine.press = Button!Off)
      /\ (machine.press # Button!Off => p = machine.press - 1)
  BY <1>1, <1>3, ButtonConstants, ButtonValues
<1>7. /\ h \in Button!Off .. Hold /\ (h = Button!Off <=> machine.hold = Button!Off)
      /\ (machine.hold # Button!Off => h = machine.hold - 1)
  BY <1>1, <1>3, ButtonConstants, ButtonValues
<1> HIDE DEF f, s, p, h
<1>8. e \in Button!Buttons
  BY <1>1, <1>4, <1>5, <1>6, <1>7 DEF Button!Buttons
<1>9. /\ e.state = machine.state /\ e.value = machine.value /\ e.cut = machine.cut
      /\ e.owed = machine.owed /\ e.count = machine.count /\ e.press = p /\ e.hold = h
      /\ e.since = s
  BY <1>1 DEF Button!Buttons
<1> HIDE DEF e
<1>10. ASSUME ~e.cut PROVE Accounted(e) /\ InTime(e)
  <2>1. Accounted(machine) /\ InTime(machine)
    BY <1>9, <1>10 DEF ButtonInv
  <2>2. Accounted(e)
    BY <1>6, <1>7, <1>9, <2>1 DEF Accounted
  <2>3. e.count = Button!Disabled => ~e.state
    BY <1>9, <2>1 DEF InTime
  <2>4. e.press # Button!Off /\ ~e.state => e.press + e.since <= Double
    <3>1. SUFFICES ASSUME e.press # Button!Off, ~e.state PROVE p + s <= Double
      BY <1>9
    <3>2. machine.press + machine.since <= Double /\ p = machine.press - 1 /\ machine.press >= 0
      BY <1>3, <1>6, <1>9, <2>1, <3>1, ButtonValues DEF InTime
    <3>3. s = machine.since + 1
      BY <1>3, <1>5, <3>2, ButtonConstants
    <3> QED BY <1>3, <3>2, <3>3, ButtonConstants
  <2>5. e.hold # Button!Off => e.since > Long \/ e.hold + e.since >= Hold
    <3>1. SUFFICES ASSUME e.hold # Button!Off PROVE s > Long \/ h + s >= Hold
      BY <1>9
    <3>2. (machine.since > Long \/ machine.hold + machine.since >= Hold) /\ h = machine.hold - 1
      BY <1>7, <1>9, <2>1, <3>1 DEF InTime
    <3> QED BY <1>3, <1>5, <3>2, ButtonConstants
  <2>6. InTime(e)
    BY <2>3, <2>4, <2>5 DEF InTime
  <2> QED BY <2>2, <2>6
<1>11. Counts(e)
  BY <1>9 DEF ButtonInv, Counts
<1> QED BY <1>2, <1>8, <1>10, <1>11 DEF ButtonInv

(* It begins with nothing pressed, or down. *)
LEMMA ButtonInit == Button!Init => ButtonInv(machine)
<1> SUFFICES ASSUME Button!Init PROVE ButtonInv(machine)
  OBVIOUS
<1>1. PICK d, h, c, p \in BOOLEAN :
    machine = [double |-> d, holds |-> h, continuous |-> c, pin |-> p, state |-> p,
              value |-> IF p THEN MaxEval ELSE 0, count |-> 0, since |-> 0,
              press |-> Button!Off, hold |-> Button!Off, running |-> c, sleep |-> 0, intr |-> ~c,
              phase |-> "idle", owed |-> 0, read |-> MaxEval, missed |-> FALSE, cut |-> FALSE,
              refused |-> 0]
  BY DEF Button!Init
<1> DEFINE v == IF p THEN MaxEval ELSE 0
           n == ~c
<1>2. /\ v \in 0 .. MaxEval /\ n \in BOOLEAN /\ 0 \in {0, 1, Button!Disabled} /\ 0 \in 0 .. Long + 1
      /\ Button!Off \in Button!Off .. Double /\ Button!Off \in Button!Off .. Hold
      /\ 0 \in 0 .. Sleep /\ 0 \in Int /\ MaxEval \in 0 .. MaxEval /\ 0 \in 0 .. MaxRefused
      /\ (p => v > 0) /\ (~p => v < MaxEval)
  BY ButtonConstants, ButtonValues
<1>3. /\ machine.value = v /\ machine.state = p /\ machine.count = 0 /\ machine.owed = 0
      /\ machine.press = Button!Off /\ machine.hold = Button!Off
  BY <1>1
<1> HIDE DEF v, n
<1>4. machine \in Button!Buttons
  BY <1>1, <1>2 DEF Button!Buttons, v, n
<1>5. Counts(machine)
  BY <1>2, <1>3 DEF Counts
<1>6. Accounted(machine) /\ InTime(machine)
  BY <1>3, ButtonValues DEF Accounted, InTime
<1> QED BY <1>4, <1>5, <1>6 DEF ButtonInv

(* Every step of the button. *)
LEMMA ButtonStep ==
    ASSUME ButtonInv(machine), Button!Next PROVE ButtonInv(machine')
BY EdgeKeeps, CountDownKeeps, ReadKeeps, SinglePressKeeps, HoldPressKeeps, TickKeeps
   DEF Button!Next, Button!TimerTask

(* What the run checks of it. *)
LEMMA ButtonKept == ButtonInv(machine) => Button!PressesAccounted /\ Button!TypeOK
<1>1. (machine.count = 1 <=> machine.press # Button!Off) =>
          (machine.count = 1) = (machine.press # Button!Off)
  OBVIOUS
<1> QED BY <1>1 DEF ButtonInv, Accounted, Button!PressesAccounted, Button!TypeOK

----
(* The accessories together: each machine's own invariant. *)
AccInv ==
    /\ which \in {"button", "door", "cover", "wifi"}
    /\ which = "button" => ButtonInv(machine)
    /\ which = "door" => Timed(machine) /\ Watch(machine)
    /\ which = "cover" => CoverInv(machine)
    /\ which = "wifi" => WellWatched(machine)

(* Every reachable state satisfies AccInv. *)
THEOREM AccInvAlways == Spec => []AccInv
<1>1. Init => AccInv
  BY ButtonInit, DoorInit, CoverInit, WifiInit DEF Init, AccInv
<1>2. AccInv /\ [Next]_vars => AccInv'
  <2> SUFFICES ASSUME AccInv, [Next]_vars PROVE AccInv'
    OBVIOUS
  <2>1. CASE ButtonNext
    BY <2>1, ButtonStep DEF AccInv, ButtonNext
  <2>2. CASE DoorNext
    BY <2>2, DoorStep DEF AccInv, DoorNext
  <2>3. CASE CoverNext
    BY <2>3, CoverStep DEF AccInv, CoverNext
  <2>4. CASE WifiNext
    BY <2>4, WifiStep DEF AccInv, WifiNext
  <2>5. CASE UNCHANGED vars
    <3>1. which' = which /\ machine' = machine
      BY <2>5 DEF vars
    <3>2. ASSUME ButtonInv(machine) PROVE ButtonInv(machine')
      BY <3>1, <3>2
    <3> QED BY <3>1 DEF AccInv
  <2> QED BY <2>1, <2>2, <2>3, <2>4, <2>5 DEF Next
<1> QED BY <1>1, <1>2, PTL DEF Spec

(* Each machine's variable keeps its type: the door's time stays within its way,
   and the cover's estimates leave the scale no further than the margin and the
   refused stops allow. *)
THEOREM TypeCorrect == Spec => []TypeOK
<1>1. AccInv => TypeOK
  BY ButtonKept, CoverKept DEF AccInv, TypeOK, Timed, WellWatched, Door!TypeOK, Connection!TypeOK
<1> QED BY <1>1, AccInvAlways, PTL

(* Every press of a button is reported exactly once. *)
THEOREM PressesReportedOnce == Spec => []PressesAccounted
<1>1. AccInv => PressesAccounted
  BY ButtonKept DEF AccInv, PressesAccounted
<1> QED BY <1>1, AccInvAlways, PTL

(* A garage door that is underway has its worker or shows an obstruction. *)
THEOREM DoorIsWatched == Spec => []DoorWatched
<1>1. AccInv => DoorWatched
  BY DEF AccInv, Watch, DoorWatched, Door!DoorWatched
<1> QED BY <1>1, AccInvAlways, PTL

(* Between commands a moving cover has its worker and goes where it was told. *)
THEOREM CoverIsDriven == Spec => []CoverTimed
<1>1. AccInv => CoverTimed
  BY CoverKept DEF AccInv, CoverTimed
<1> QED BY <1>1, AccInvAlways, PTL

(* The WiFi connection is never left without a watchdog or a task. *)
THEOREM WifiIsWatched == Spec => []Watched
<1>1. AccInv => Watched
  BY DEF AccInv, WellWatched, Watched, Connection!Watched
<1> QED BY <1>1, AccInvAlways, PTL
====

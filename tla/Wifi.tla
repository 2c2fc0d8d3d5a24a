---- MODULE Wifi ----
(* How HAAMAIN keeps its WiFi connection: the watchdog timer, which starts a
   reconnection task when something is wrong, that task, which stops the
   watchdog and starts it again when it has a connection, the task that pings
   the gateway, and the commands of the user.  There may be several reconnection
   tasks at a time.  The station and the access point are external. *)
EXTENDS Integers

CONSTANTS Setups,      \* {"plain", "pings", "roaming"}: gateway pings, or WiFi mode 3
          Retry,       \* polls after which the reconnection tries again (30 in the code)
          LongTime,    \* WIFI_DISCONNECTED_LONG_TIME
          PingMax,     \* wifi_ping_max_errors
          RoamPeriod,  \* WIFI_WATCHDOG_ROAMING_PERIOD
          MaxTasks,    \* bound: reconnection tasks at a time
          MaxUser      \* bound: commands of the user

WifiAssumption ==
    /\ Setups \subseteq {"plain", "pings", "roaming"}
    /\ Retry \in Nat \ {0} /\ LongTime \in Nat /\ Retry < LongTime
    /\ PingMax \in Nat /\ RoamPeriod \in Nat \ {0} /\ MaxUser \in Nat /\ MaxTasks \in Nat \ {0}

VARIABLE wifi

LONG_DISCONNECTED == 0
DISCONNECTED == 1
CONNECTING == 2
CONNECTED == 3
Tasks == 1 .. MaxTasks
NoLink == 0      \* no address; else the address and channel
Links == 0 .. 2

Devices ==
    [roaming : BOOLEAN, pings : BOOLEAN,  \* configuration
     status : LONG_DISCONNECTED .. CONNECTED, known : Links, errors : 0 .. LongTime + 1,
     armed : BOOLEAN,                     \* the watchdog timer runs
     pc : [Tasks -> {"none", "created", "poll", "connect", "settle", "arm"}],
     seen : [Tasks -> Links],             \* new_ip
     ping : BOOLEAN, scan : BOOLEAN,      \* the ping task and the scan are under way
     roam : 0 .. RoamPeriod,
     link : Links, asked : BOOLEAN,       \* the station: its address; tries to connect
     aimed : BOOLEAN,                     \* it is configured for the user's network
     calm : BOOLEAN,                      \* network and memory make no more trouble
     released : BOOLEAN,                  \* history: the user asked for a disconnection
     user : 0 .. MaxUser]

TypeOK == wifi \in Devices

Init == \E setup \in Setups :
    wifi = [roaming |-> setup = "roaming", pings |-> setup = "pings", status |-> CONNECTED, known |-> 1, errors |-> 0,
            armed |-> TRUE, pc |-> [t \in Tasks |-> "none"], seen |-> [t \in Tasks |-> NoLink],
            ping |-> FALSE, scan |-> FALSE, roam |-> 0, link |-> 1, asked |-> TRUE, aimed |-> TRUE,
            calm |-> FALSE, released |-> FALSE, user |-> MaxUser]

----
(* The station, as main.c and setup.c use it. *)

Disconnect(w) == [w EXCEPT !.link = NoLink, !.asked = FALSE]
Connect(w) == [w EXCEPT !.asked = w.aimed]

Associate ==
    /\ wifi.asked /\ wifi.link = NoLink
    /\ \E l \in Links \ {NoLink} : wifi' = [wifi EXCEPT !.link = l]

(* It may go on trying by itself, or not. *)
LinkLost ==
    /\ ~wifi.calm /\ wifi.link # NoLink
    /\ \E again \in BOOLEAN : wifi' = [wifi EXCEPT !.link = NoLink, !.asked = again]

LinkChanges ==
    /\ ~wifi.calm /\ wifi.link # NoLink
    /\ wifi' = [wifi EXCEPT !.link = 3 - @]

Calms ==
    /\ ~wifi.calm
    /\ wifi' = [wifi EXCEPT !.calm = TRUE]

(* wifi_config_smart_connect: without memory for the scan just connect. *)
SmartConnect(w, scans) ==
    IF scans THEN [w EXCEPT !.scan = TRUE]
    ELSE IF w.link = NoLink THEN Connect(w) ELSE w

(* wifi_scan_sc_done: a better access point, the one there is, or none at all;
   on an ESP32 a scan that does not start is forgotten. *)
ScanDone ==
    /\ wifi.scan
    /\ LET w == [wifi EXCEPT !.scan = FALSE] IN
       \/ /\ ~w.calm \/ w.link = NoLink
          /\ wifi' = Connect([Disconnect(w) EXCEPT !.status = CONNECTING, !.aimed = TRUE])
       \/ wifi' = IF w.link = NoLink THEN Connect(w) ELSE w
       \/ ~wifi.calm /\ wifi' = w

----
(* wifi_watchdog, in the timer task. *)

Wrong(w) == w.status # CONNECTED \/ w.link = NoLink \/ w.errors > PingMax

(* What is wrong decides how the reconnection begins. *)
Blames(w) ==
    CASE w.errors > PingMax \/ (w.status = CONNECTED /\ w.link = NoLink /\ w.roaming) -> DISCONNECTED
      [] w.errors <= PingMax /\ w.status = CONNECTED /\ w.link # NoLink -> CONNECTING
      [] OTHER -> w.status

(* A task is created, unless there is no memory. *)
Spawn(w) ==
    {[w EXCEPT !.pc[t] = "created"] :
        t \in {t \in Tasks : w.pc[t] = "none" /\ \A u \in Tasks : u < t => w.pc[u] # "none"}}
    \cup IF w.calm THEN {} ELSE {w}

(* Without trouble a task starts before any delay ends. *)
Prompt(w) == w.calm => \A t \in Tasks : w.pc[t] # "created"

WatchdogRoams ==
    /\ wifi.armed /\ Prompt(wifi) /\ ~Wrong(wifi) /\ wifi.roaming /\ wifi.roam = RoamPeriod
    /\ \E scans \in {TRUE, wifi.calm} : wifi' = SmartConnect([wifi EXCEPT !.roam = 0], scans)

WatchdogChecks ==
    /\ wifi.armed /\ Prompt(wifi) /\ ~(wifi.roaming /\ wifi.roam = RoamPeriod /\ ~Wrong(wifi))
    /\ LET roams == wifi.roaming /\ ~Wrong(wifi)
           w == [wifi EXCEPT !.roam = IF roams THEN @ + 1 ELSE @,
                             !.ping = @ \/ (~Wrong(wifi) /\ wifi.pings)]
       IN IF Wrong(wifi) \/ wifi.link # wifi.known
          THEN wifi' \in Spawn([w EXCEPT !.status = Blames(wifi), !.errors = 0])
          ELSE wifi' = w

(* wifi_ping_gw_task: no answer, an answer, or the network is busy. *)
PingDone ==
    /\ wifi.ping
    /\ \/ /\ ~wifi.calm \/ wifi.link = NoLink
          /\ wifi.errors <= LongTime
          /\ wifi' = [wifi EXCEPT !.ping = FALSE, !.errors = @ + 1]
       \/ wifi' = [wifi EXCEPT !.ping = FALSE, !.errors = 0]
       \/ wifi' = [wifi EXCEPT !.ping = FALSE]

----
(* wifi_reconnection_task *)

At(t, label) == wifi.pc[t] = label
Goes(w, t, label) == [w EXCEPT !.pc[t] = label]

TaskStarts(t) ==
    /\ At(t, "created")
    /\ LET w == Goes([wifi EXCEPT !.armed = FALSE], t, "poll") IN
       wifi' = IF wifi.status = CONNECTED
               THEN Connect([Disconnect(w) EXCEPT !.status = CONNECTING]) ELSE w

(* One more poll without an address; now and then the connection is tried again. *)
Counted(w) ==
    CASE w.errors + 1 > LongTime -> [w EXCEPT !.errors = 0, !.status = LONG_DISCONNECTED]
      [] w.errors + 1 <= LongTime /\ (w.errors + 1) % Retry = 0 ->
            [w EXCEPT !.errors = @ + 1, !.status = DISCONNECTED]
      [] OTHER -> [w EXCEPT !.errors = @ + 1]

(* Without trouble a connection is set up before it is tried again. *)
Answering(w) ==
    w.calm /\ w.link = NoLink /\ (w.asked \/ w.scan \/ \E t \in Tasks : w.pc[t] = "connect")

TaskPolls(t) ==
    /\ At(t, "poll") /\ Prompt(wifi)
    /\ Answering(wifi) => wifi.status <= DISCONNECTED \/ Counted(wifi).status = wifi.status
    /\ wifi' = CASE wifi.status <= DISCONNECTED ->
                      Goes([Disconnect(wifi) EXCEPT !.status = CONNECTING, !.aimed = FALSE], t, "connect")
                 [] wifi.status > DISCONNECTED /\ wifi.link # NoLink ->
                      Goes([wifi EXCEPT !.seen[t] = wifi.link], t, "settle")
                 [] OTHER -> Counted(wifi)

(* The second half of wifi_config_connect, seconds later. *)
TaskConnects(t) ==
    /\ At(t, "connect") /\ Prompt(wifi)
    /\ LET w == Goes([Disconnect(wifi) EXCEPT !.aimed = TRUE], t, "poll") IN
       IF wifi.roaming THEN \E scans \in {TRUE, wifi.calm} : wifi' = SmartConnect(w, scans)
       ELSE wifi' = Connect(w)

(* Mutant: the new address is not remembered. *)
TaskSettlesForgets(t) ==
    /\ At(t, "settle") /\ Prompt(wifi)
    /\ LET w == [wifi EXCEPT !.seen[t] = NoLink] IN
       wifi' = IF wifi.link = NoLink THEN Goes(w, t, "poll")
               ELSE Goes([w EXCEPT !.status = CONNECTED, !.errors = 0], t, "arm")

TaskSettles(t) ==
    /\ At(t, "settle") /\ Prompt(wifi)
    /\ LET w == [wifi EXCEPT !.seen[t] = NoLink] IN
       wifi' = IF wifi.link = NoLink THEN Goes(w, t, "poll")
               ELSE Goes([w EXCEPT !.status = CONNECTED, !.errors = 0, !.known = wifi.seen[t]], t, "arm")

(* Mutant: the task ends without the watchdog. *)
TaskEndsUnarmed(t) ==
    /\ At(t, "arm")
    /\ wifi' = Goes(wifi, t, "none")

TaskEnds(t) ==
    /\ At(t, "arm")
    /\ wifi' = [Goes(wifi, t, "none") EXCEPT !.armed = TRUE]

----
(* The user's commands.  A new connection: the setup command on an ESP32 and
   on an ESP8266, and two system actions. *)
SetupReconnection ==
    /\ wifi.user > 0
    /\ \/ wifi' = [wifi EXCEPT !.user = @ - 1, !.status = DISCONNECTED]
       \/ wifi' = [Disconnect(wifi) EXCEPT !.user = @ - 1, !.aimed = FALSE]

ActionReconnection ==
    /\ wifi.user > 0
    /\ \E s \in {wifi.status, DISCONNECTED} :
          wifi' = [Disconnect(wifi) EXCEPT !.user = @ - 1, !.status = s, !.armed = TRUE, !.released = FALSE]

ActionDisconnection ==
    /\ wifi.user > 0
    /\ wifi' = [Disconnect(wifi) EXCEPT !.user = @ - 1, !.status = DISCONNECTED,
                                        !.armed = FALSE, !.released = TRUE]

Watchdog == WatchdogRoams \/ WatchdogChecks

Task(t) == TaskStarts(t) \/ TaskPolls(t) \/ TaskConnects(t) \/ TaskSettles(t) \/ TaskEnds(t)

Network == ScanDone \/ PingDone \/ Associate

User == SetupReconnection \/ ActionReconnection \/ ActionDisconnection

Next ==
    \/ Watchdog \/ Network \/ User
    \/ \E t \in Tasks : Task(t)
    \/ LinkLost \/ LinkChanges \/ Calms

Spec ==
    /\ Init /\ [][Next]_wifi
    /\ WF_wifi(Watchdog) /\ WF_wifi(ScanDone) /\ WF_wifi(PingDone) /\ WF_wifi(Associate)
    /\ \A t \in Tasks : WF_wifi(Task(t))

----
(* However many reconnection tasks there are and whenever each of them stops
   and starts the watchdog, the connection is never left without one of them,
   unless the user asked for that (main.c wifi_reconnection_task). *)
Watched == wifi.armed \/ wifi.released \/ \E t \in Tasks : wifi.pc[t] # "none"

(* Two reconnection tasks at a time. *)
Duel == \E t, u \in Tasks : t # u /\ wifi.pc[t] # "none" /\ wifi.pc[u] # "none"

Online == wifi.status = CONNECTED /\ wifi.link # NoLink /\ wifi.link = wifi.known /\ wifi.armed

(* Once the network makes no more trouble the device gets its connection back
   and knows it, whatever was under way, unless again and again two tasks take
   the connection from each other (main.c wifi_watchdog, wifi_reconnection_task). *)
Reconnects == <>[]~Duel => (wifi.calm ~> (wifi.released \/ Online))

====

---- MODULE HapServer ----
(* The HomeKit server task of server.c: the select loop, the list of clients,
   pair setup, pair verify, the pairings endpoint and the subscriptions.  One
   action is one step of the task between two points where another task can
   run: a client accepted, one client's request served, one client closed.
   Meanwhile any other task may call homekit_remove_oldest_client.  The pairing
   table is PairingFlash's; what a power loss does inside a storage call is
   PairingStorage's subject. *)
EXTENDS PairingFlash, Sequences

CONSTANTS Conns,           \* connections (client contexts, sockets)
          Chars,           \* characteristics that can notify
          Requested,       \* the max_clients that was configured
          CountBits,       \* width of client_count and max_clients, 5
          MinClients,      \* HOMEKIT_MIN_CLIENTS, 2
          Insecure,        \* config flags, BOOLEAN
          NoPairingErase,
          RePair,
          Traffic          \* the kinds of requests the controllers make

ASSUME ServerAssumption ==
    /\ Requested \in Nat /\ MinClients \in Nat
    /\ 2^CountBits \in Nat /\ MinClients + 1 < 2^CountBits
    /\ None \notin Ids \cup Conns
    /\ {Insecure, NoPairingErase, RePair} \subseteq BOOLEAN

VARIABLES clients,      \* homekit_server->clients, newest first
          sess,         \* the client contexts
          subs,         \* the subscriptions of each characteristic
          setup,        \* pairing_context, None without one
          slots,        \* the pairing table in flash
          paired, count, pendingClose,
          phase,        \* where the server task is
          ready,        \* triggered sockets that are still to be read
          kept,         \* close_clients: how many clients it has passed
          headGone,     \* close_clients: it has freed the head of the list
          stray         \* history: what has gone astray since boot

walk == <<kept, headGone>>

flags == <<paired, count, pendingClose>>

vars == <<clients, sess, subs, setup, slots, flags, phase, ready, walk, stray>>

Max2(a, b) == IF a >= b THEN a ELSE b

Wrap(n) == n % 2^CountBits

MaxClients == Wrap(Requested)

Listed == {clients[i] : i \in 1 .. Len(clients)}

(* talk is the answer the controller got last; "lost" is history: the M3 of
   another client has come into the setup this one is in.  who is the controller
   the session was verified for. *)
Talks == {"none", "m2", "m4", "lost", "v2"}

Session == [disc : BOOLEAN, talk : Talks, pid : Slots \cup {NoSlot},
            admin : BOOLEAN, who : Ids \cup {None}]

NewSession == [disc |-> FALSE, talk |-> "none", pid |-> NoSlot, admin |-> FALSE, who |-> None]

(* The one pair setup context: the client of the M1 that made it; the public key
   that waits for M3, from that M1 or from a repeated one, which sets up only half
   of the SRP state anew, so that no proof is right any more; and whether the client
   and the server agree on a session key. *)
Context == [client : Conns, offer : {"none", "first", "repeated"}, agreed : BOOLEAN]

ASSUME ContextAssumption == None \notin Context

Phases == {"select", "accept", "serve", "close", "closing", "restart"}

Strays == {"slots", "demoted", "late"}

TypeOK ==
    /\ clients \in Seq(Conns)
    /\ sess \in [Conns -> Session]
    /\ subs \in [Chars -> SUBSET Conns]
    /\ setup \in Context \cup {None}
    /\ slots \in Table
    /\ paired \in BOOLEAN /\ pendingClose \in BOOLEAN
    /\ count \in 0 .. 2^CountBits - 1
    /\ phase \in Phases
    /\ ready \subseteq Conns
    /\ kept \in Nat /\ headGone \in BOOLEAN
    /\ stray \subseteq Strays

Init ==
    /\ clients = <<>>
    /\ sess = [c \in Conns |-> NewSession]
    /\ subs = [ch \in Chars |-> {}]
    /\ setup = None
    /\ slots = BlankTable
    /\ paired = FALSE /\ count = 0 /\ pendingClose = FALSE
    /\ phase = "select" /\ ready = {} /\ kept = 0 /\ headGone = FALSE
    /\ stray = {}

----
(* Eviction. *)

Marked(S) == [c \in Conns |-> IF c \in S THEN [sess[c] EXCEPT !.disc = TRUE] ELSE sess[c]]

(* Mutant: the mark without the flag that makes close_clients look for it. *)
RemoveOldestClientUnannounced(list, n) ==
    /\ sess' = IF n > MinClients THEN Marked({list[Len(list)]}) ELSE sess
    /\ UNCHANGED pendingClose

RemoveOldestClient(list, n) ==
    IF n > MinClients
    THEN sess' = Marked({list[Len(list)]}) /\ pendingClose' = TRUE
    ELSE UNCHANGED <<sess, pendingClose>>

(* Another task, short of memory, at any time.  Once close_clients has freed
   the head of the list the walk to its end starts in freed memory: if that is
   no longer intact, nobody is marked (or the device crashes: PowerCycle). *)
OtherTaskEvicts ==
    /\ phase # "restart"
    /\ count > MinClients
    /\ \/ RemoveOldestClient(clients, count)
       \/ headGone /\ pendingClose' = TRUE /\ UNCHANGED sess
    /\ UNCHANGED <<clients, subs, setup, slots, paired, count, phase, ready, walk, stray>>

----
(* The select loop. *)

Select ==
    /\ phase = "select"
    /\ \E R \in SUBSET Listed, listen \in BOOLEAN :
          /\ R # {} \/ listen
          /\ ready' = R
          /\ phase' = IF listen THEN "accept" ELSE "serve"
    /\ UNCHANGED <<clients, sess, subs, setup, slots, flags, walk, stray>>

(* Mutant: eviction starts one client too late. *)
OverFull(n) == n > MaxClients

Full(n) == n >= MaxClients

(* A client is accepted; or there is no memory for its context; or accept or
   getpeername fails. *)
Accept ==
    /\ phase = "accept"
    /\ phase' = "serve"
    /\ \/ \E c \in Conns \ Listed :
             /\ clients' = <<c>> \o clients
             /\ count' = Wrap(count + 1)
             /\ IF Full(count') THEN RemoveOldestClient(clients', count')
                ELSE UNCHANGED <<sess, pendingClose>>
       \/ UNCHANGED <<clients, count>> /\ RemoveOldestClient(clients, count)
       \/ UNCHANGED <<clients, sess, count, pendingClose>>
    /\ UNCHANGED <<subs, setup, slots, paired, ready, walk, stray>>

(* The triggered clients are served in the order of the list. *)
Turn(c) ==
    /\ phase = "serve"
    /\ c \in ready
    /\ \E i \in 1 .. Len(clients) :
          clients[i] = c /\ \A j \in 1 .. i - 1 : clients[j] \notin ready

Serving(c) ==
    /\ Turn(c)
    /\ ready' = ready \ {c}
    /\ UNCHANGED <<clients, count, walk>>

Encrypted(c) == sess[c].who # None

Allowed(c) == Encrypted(c) \/ Insecure

(* read returns 0, or an error other than EAGAIN. *)
Eof(c) ==
    /\ Serving(c)
    /\ sess' = Marked({c})
    /\ pendingClose' = TRUE
    /\ UNCHANGED <<subs, setup, slots, paired, phase, stray>>

(* A frame that does not decrypt, a part of a request, a request that changes
   nothing here or that the session may not make. *)
NoEffect(c) ==
    /\ Serving(c)
    /\ UNCHANGED <<sess, subs, setup, slots, paired, pendingClose, phase, stray>>

Talk(c, t) == sess' = [sess EXCEPT ![c].talk = t]

----
(* Pair setup. *)

(* Mutant: a second controller takes the context over. *)
FreeToSetUp(c) == ~paired

MaySetUp(c) == ~paired /\ (setup # None => setup.client = c)

(* Already paired, or busy with another client; or the SRP key is made, or
   cannot be. *)
SetupM1(c) ==
    /\ "setup" \in Traffic
    /\ Serving(c)
    /\ \/ ~MaySetUp(c) /\ Talk(c, "none") /\ UNCHANGED setup
       \/ /\ MaySetUp(c)
          /\ setup' = [client |-> c, offer |-> IF setup = None THEN "first" ELSE "repeated",
                       agreed |-> setup # None /\ setup.agreed]
          /\ Talk(c, "m2")
       \/ MaySetUp(c) /\ Talk(c, "none") /\ setup' = None
    /\ UNCHANGED <<subs, slots, paired, pendingClose, phase, stray>>

(* M3 and M5 of any client use the context there is. *)
UsesContext(c) == "setup" \in Traffic /\ setup # None /\ Serving(c)

(* The M3 of c fails, and the setup of another client with it. *)
Disturbs(c) ==
    sess' = [sess EXCEPT ![setup.client].talk = IF @ \in {"m2", "m4"} THEN "lost" ELSE @,
                         ![c].talk = "none"]

(* The key cannot be computed, as when there is no public key: the context is
   freed.  Or it can, which uses the public key up, and the proof is wrong; or it is
   right, which takes what M2 told. *)
SetupM3(c) ==
    /\ UsesContext(c)
    /\ \/ setup' = None /\ Disturbs(c)
       \/ /\ setup.offer # "none"
          /\ setup' = [setup EXCEPT !.offer = "none", !.agreed = FALSE]
          /\ Disturbs(c)
       \/ /\ setup.offer = "first" /\ setup.client = c
          /\ setup' = [setup EXCEPT !.offer = "none", !.agreed = TRUE]
          /\ Talk(c, "m4")
    /\ UNCHANGED <<subs, slots, paired, pendingClose, phase, stray>>

(* A payload that is not of the session key, a wrong signature, an id that is
   paired already, a full table. *)
SetupM5Fails(c) ==
    /\ UsesContext(c)
    /\ Talk(c, "none")
    /\ UNCHANGED <<subs, setup, slots, paired, pendingClose, phase, stray>>

(* Did a record move to another slot, so that sessions hold a stale slot
   number? *)
Moves(t, u) ==
    \E id \in Ids : /\ FindSlot(t, id) # NoSlot
                    /\ FindSlot(u, id) \notin {NoSlot, FindSlot(t, id)}

Flagged(cond, name) == IF cond THEN {name} ELSE {}

History(t) ==
    stray \cup Flagged(Moves(slots, t), "slots")
          \cup Flagged(HasAdmin(slots) /\ ~HasAdmin(t), "demoted")

(* Mutant: id and key in each other's place. *)
PairingSwapped(id, key, admin) == [id |-> key, key |-> id, admin |-> admin]

Pairing(id, key, admin) == [id |-> id, key |-> key, admin |-> admin]

Stores(c, id, key, admin) ==
    /\ Serving(c)
    /\ FindPairing(slots, id) = None /\ CanAddPairing(slots)
    /\ slots' = Added(slots, Pairing(id, key, admin))

(* Mutant: the accessory goes on taking pairings. *)
SetupStaysOpen == UNCHANGED paired

SetupCloses == paired' = TRUE

HasSetupKey(c) == setup # None /\ setup.client = c /\ setup.agreed

SetupM5(c, id, key) ==
    /\ HasSetupKey(c)
    /\ Stores(c, id, key, TRUE)
    /\ Talk(c, "none") /\ setup' = None
    /\ SetupCloses
    /\ stray' = History(slots')
    /\ UNCHANGED <<subs, pendingClose, phase>>

(* The answer cannot be made after the pairing was stored (no memory): the
   error leaves the pairing, the context, and paired as it was. *)
SetupM5FailsLate(c, id, key) ==
    /\ HasSetupKey(c)
    /\ Stores(c, id, key, TRUE)
    /\ Talk(c, "none")
    /\ stray' = History(slots') \cup {"late"}
    /\ UNCHANGED <<subs, setup, paired, pendingClose, phase>>

----
(* Pair verify. *)

VerifyM1(c) ==
    /\ "verify" \in Traffic
    /\ Serving(c)
    /\ Talk(c, "v2")
    /\ UNCHANGED <<subs, setup, slots, paired, pendingClose, phase, stray>>

(* The signature is checked against the stored key of the controller. *)
VerifyM3(c, id) ==
    /\ sess[c].talk = "v2"
    /\ Serving(c)
    /\ FindPairing(slots, id) # None
    /\ sess' = [sess EXCEPT ![c] =
                   [@ EXCEPT !.talk = "none", !.pid = FindSlot(slots, id),
                             !.admin = FindPairing(slots, id).admin, !.who = id]]
    /\ UNCHANGED <<subs, setup, slots, paired, pendingClose, phase, stray>>

(* No pairing, or a signature that is not right: an earlier session stays. *)
VerifyM3Fails(c) ==
    /\ sess[c].talk = "v2"
    /\ Serving(c)
    /\ Talk(c, "none")
    /\ UNCHANGED <<subs, setup, slots, paired, pendingClose, phase, stray>>

----
(* The pairings endpoint.  Permissions are those of the moment of the verify. *)

Administers(c) == "pairings" \in Traffic /\ sess[c].admin

AddPairing(c, id, key, admin) ==
    /\ Administers(c)
    /\ Stores(c, id, key, admin)
    /\ stray' = History(slots')
    /\ UNCHANGED <<sess, subs, setup, paired, pendingClose, phase>>

(* After the answer to a key that is not the stored one there is no break: the
   update goes on with the freed id and the freed key.  If they are intact the
   pairing gets the new permission and the new key; otherwise no pairing is
   found under that id. *)
UpdatePairing(c, id, key, admin) ==
    LET new == Updated(slots, Pairing(id, key, admin))
    IN  /\ Administers(c)
        /\ Serving(c)
        /\ FindPairing(slots, id) # None /\ ~NoPairingErase
        /\ slots' \in IF FindPairing(slots, id).key = key THEN {new} ELSE {slots, new}
        /\ stray' = History(slots')
        /\ UNCHANGED <<sess, subs, setup, paired, pendingClose, phase>>

(* The sessions of the removed pairing are looked for with pairing->id read
   after pairing_free: the slot, or what the heap has put there, a pointer or
   a null. *)
Garbage == -2

FreedId(i) == {i, 0, Garbage}

(* Mutant: the sessions of the removed controller are left open. *)
NoHolders(p) == {}

Holders(p) == {c \in Listed : sess[c].pid = p}

(* Without an admin the storage is reset, and after 2.6 s the device restarts. *)
RemovePairing(c, id) ==
    /\ Administers(c)
    /\ Serving(c)
    /\ FindPairing(slots, id) # None /\ ~NoPairingErase
    /\ \E p \in FreedId(FindSlot(slots, id)) :
          /\ sess' = Marked(Holders(p))
          /\ pendingClose' = (pendingClose \/ Holders(p) # {})
          /\ stray' = stray \cup Flagged(p # FindSlot(slots, id), "slots")
    /\ IF FindPairing(slots, id).admin /\ ~HasAdmin(Removed(slots, id))
       THEN slots' = BlankTable /\ phase' = "restart"
       ELSE slots' = Removed(slots, id) /\ UNCHANGED phase
    /\ UNCHANGED <<subs, setup, paired>>

----
(* PUT /characteristics with "ev". *)

Subscribe(c, ch) ==
    /\ "events" \in Traffic
    /\ Allowed(c)
    /\ Serving(c)
    /\ subs' = [subs EXCEPT ![ch] = @ \cup {c}]
    /\ UNCHANGED <<sess, setup, slots, paired, pendingClose, phase, stray>>

Unsubscribe(c, ch) ==
    /\ "events" \in Traffic
    /\ Allowed(c)
    /\ Serving(c)
    /\ subs' = [subs EXCEPT ![ch] = @ \ {c}]
    /\ UNCHANGED <<sess, setup, slots, paired, pendingClose, phase, stray>>

----
(* The end of a pass: low memory evicts, then the marked clients are closed. *)

CheckMemory ==
    /\ phase = "serve" /\ ready = {}
    /\ phase' = "close"
    /\ RemoveOldestClient(clients, count) \/ UNCHANGED <<sess, pendingClose>>
    /\ UNCHANGED <<clients, subs, setup, slots, paired, count, ready, walk, stray>>

StartClosing ==
    /\ phase = "close"
    /\ phase' = IF pendingClose THEN "closing" ELSE "select"
    /\ pendingClose' = FALSE
    /\ UNCHANGED <<clients, sess, subs, setup, slots, paired, count, ready, walk, stray>>

(* The clients without the one at place i. *)
Without(i) == SubSeq(clients, 1, i - 1) \o SubSeq(clients, i + 1, Len(clients))

(* Mutant: the subscriptions of the client stay in the lists. *)
SubsKept(c) == subs

SubsWithout(c) == [ch \in Chars |-> subs[ch] \ {c}]

(* Mutant: the client still counts. *)
SameCount == count

OneFewer == Max2(count - 1, 0)

CloseClient ==
    /\ phase = "closing" /\ kept < Len(clients)
    /\ LET c == clients[kept + 1]
       IN  /\ sess[c].disc
           /\ clients' = Without(kept + 1)
           /\ count' = OneFewer
           /\ setup' = IF setup # None /\ setup.client = c THEN None ELSE setup
           /\ subs' = SubsWithout(c)
           /\ sess' = [sess EXCEPT ![c] = NewSession]
    /\ headGone' = (headGone \/ kept = 0)
    /\ UNCHANGED <<slots, paired, pendingClose, phase, ready, kept, stray>>

PassClient ==
    /\ phase = "closing" /\ kept < Len(clients) /\ ~sess[clients[kept + 1]].disc
    /\ kept' = kept + 1
    /\ UNCHANGED <<clients, sess, subs, setup, slots, flags, phase, ready, headGone, stray>>

(* Mutant: pending_close is cleared when the walk has ended. *)
EndClosingClears ==
    /\ phase = "closing" /\ kept = Len(clients)
    /\ phase' = "select" /\ kept' = 0 /\ headGone' = FALSE
    /\ pendingClose' = FALSE
    /\ UNCHANGED <<clients, sess, subs, setup, slots, paired, count, ready, stray>>

EndClosing ==
    /\ phase = "closing" /\ kept = Len(clients)
    /\ phase' = "select" /\ kept' = 0 /\ headGone' = FALSE
    /\ UNCHANGED <<clients, sess, subs, setup, slots, flags, ready, stray>>

----
(* A restart, after the last admin has left or at any time: homekit_server_init
   finds what the flash still holds. *)
Restart ==
    /\ clients' = <<>>
    /\ sess' = [c \in Conns |-> NewSession]
    /\ subs' = [ch \in Chars |-> {}]
    /\ setup' = None
    /\ paired' = (~RePair /\ HasAdmin(slots))
    /\ count' = 0 /\ pendingClose' = FALSE
    /\ phase' = "select" /\ ready' = {} /\ kept' = 0 /\ headGone' = FALSE
    /\ stray' = {}
    /\ UNCHANGED slots

Reboot == phase = "restart" /\ Restart

PowerCycle == phase # "restart" /\ Restart

(* M3 or M5 of any client without a context reads through a null pointer. *)
SetupWithoutContext(c) == "setup" \in Traffic /\ setup = None /\ Turn(c) /\ Restart

Serve(c) ==
    \/ Eof(c) \/ NoEffect(c)
    \/ SetupM1(c) \/ SetupM3(c) \/ SetupM5Fails(c) \/ SetupWithoutContext(c)
    \/ VerifyM1(c) \/ VerifyM3Fails(c)
    \/ \E id \in Ids :
          VerifyM3(c, id) \/ RemovePairing(c, id)
    \/ \E id \in Ids, key \in Keys :
          \/ SetupM5(c, id, key) \/ SetupM5FailsLate(c, id, key)
          \/ \E admin \in BOOLEAN :
                AddPairing(c, id, key, admin) \/ UpdatePairing(c, id, key, admin)
    \/ \E ch \in Chars : Subscribe(c, ch) \/ Unsubscribe(c, ch)

ServerStep ==
    \/ Accept
    \/ \E c \in Conns : Serve(c)
    \/ CheckMemory \/ StartClosing \/ CloseClient \/ PassClient \/ EndClosing
    \/ Reboot

Next == ServerStep \/ Select \/ OtherTaskEvicts \/ PowerCycle

(* The server task runs; whether a socket ever triggers is up to the network. *)
Spec == Init /\ [][Next]_vars /\ WF_vars(ServerStep)

----
(* Properties. *)

(* The counter that decides about evictions counts the clients of the list, also
   in the middle of close_clients and whatever is evicted meanwhile; it never
   wraps, and no context is listed twice. *)
CountIsExact ==
    count = Len(clients) /\ \A i, j \in 1 .. Len(clients) : clients[i] = clients[j] => i = j

(* No characteristic keeps the context of a client that was freed: the next
   client can get the same memory, and the next notification would be written to
   it.  The pair setup context never belongs to a freed client either. *)
NoDanglingClients ==
    /\ \A ch \in Chars : subs[ch] \subseteq Listed
    /\ setup # None => setup.client \in Listed

(* Pair setup is not taken over: what a controller was answered last still holds
   when it goes on, M2 that the context is its own and offers a public key, M4 that
   it is its own and they agree on a session key.  The code refuses the M1 of
   another client but not its M3, which frees the context or uses it up; a
   setup disturbed like that stores no pairing until its client begins again. *)
SetupContextKept ==
    \A c \in Conns :
        LET own == setup # None /\ setup.client = c
        IN  /\ sess[c].talk = "m2" => own /\ setup.offer # "none"
            /\ sess[c].talk = "m4" => own /\ setup.agreed
            /\ sess[c].talk = "lost" /\ own => setup.offer = "none" /\ ~setup.agreed

(* A marked client is never forgotten: pending_close is set, or the walk of
   close_clients has yet to come to it. *)
MarkedIsPending ==
    \A i \in 1 .. Len(clients) :
        sess[clients[i]].disc => pendingClose \/ (phase = "closing" /\ i > kept)

(* Between two passes there is room for one more client than are connected, or
   only MinClients are. *)
RoomForNext ==
    phase = "select"
        => Len(clients) <= Max2(MaxClients - 1, MinClients)

(* An open session belongs to a controller that is still paired, in the slot the
   session remembers: removing a pairing closes all its sessions.  Not so once
   records have moved (a compaction, an update) or the freed id was overwritten. *)
OpenSessionIsPaired ==
    "slots" \notin stray /\ phase # "restart" =>
        \A c \in Conns :
            Encrypted(c) /\ ~sess[c].disc => FindSlot(slots, sess[c].who) = sess[c].pid

(* The accessory takes pairings exactly while it has no admin, unless the
   last admin was demoted or a setup failed after its pairing was stored; with
   RePair it may take more. *)
PairedMeansAdmin ==
    phase # "restart" =>
        /\ paired => HasAdmin(slots) \/ "demoted" \in stray
        /\ HasAdmin(slots) => paired \/ RePair \/ "late" \in stray

(* A marked client is closed, if only passes of the select loop go on. *)
MarkedIsClosed ==
    \A c \in Conns :
        []<>(phase = "close") => ((c \in Listed /\ sess[c].disc) ~> (c \notin Listed))

(* homekit.h: "(max 32)": a newcomer costs the oldest client its connection only
   when the configured number is reached. *)
EvictedOnlyWhenFull ==
    [][phase = "accept" /\ Len(clients') > Len(clients) /\ sess' # sess
        => Len(clients') >= Requested]_vars

(* server.c: "No admins left, enable pairing again". *)
PairedHasAdmin == paired /\ phase # "restart" => HasAdmin(slots)
====

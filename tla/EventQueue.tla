---- MODULE EventQueue ----
(* The list of changed characteristics between homekit_characteristic_notify,
   which any task calls, the server task included while it serves a request, and
   homekit_server_process_notifications in the server task.  No lock protects it:
   the list is modelled pointer by pointer, one action per access.  Memory that was
   freed keeps its content until it is allocated again, which is the kindest
   outcome the heap can produce. *)
EXTENDS Integers, Sequences

CONSTANTS Chars,
          Watches,     \* the subscriptions of the connected clients, newest first
          Tasks,       \* the tasks that notify and can be interrupted
          Server,      \* the server task, where the setters notify
          TaskKinds,   \* may the tasks outrank the server and each other? SUBSET BOOLEAN
          Nodes, Nil,  \* notification_t objects, NULL
          TaskNodes    \* bound: those that may be allocated where they can be lost

ASSUME QueueAssumption ==
    /\ Chars # {} /\ Watches \in Seq(SUBSET Chars)
    /\ TaskKinds \subseteq BOOLEAN
    /\ Nil \notin Nodes /\ Server \notin Tasks
    /\ TaskNodes \subseteq Nodes

VARIABLES head,    \* homekit_server->notifications
          next, ch,  \* the fields of the nodes
          heap,    \* nodes allocated
          pc, taken, client, cur,  \* the server task and its locals
          sent,    \* history: nodes whose value went out in this round
          owed,    \* history: changes each client has yet to be told
          lost,    \* history: changes that were overwritten in the list
          leaked,  \* history: nodes that were overwritten in the list
          at,      \* each notifying task: where it is in the list, and for what
          atOnce   \* a notifying task outranks the server and the other tasks

list == <<head, next, ch, heap>>
server == <<pc, taken, client, cur>>
fate == <<lost, leaked>>
vars == <<list, server, sent, owed, fate, at, atOnce>>

Clients == 1 .. Len(Watches)
Ptr == Nodes \cup {Nil}
Callers == Tasks \cup {Server}
Idle == <<"idle", Nil, Nil>>

TypeOK ==
    /\ head \in Ptr /\ next \in [Nodes -> Ptr] /\ ch \in [Nodes -> Chars]
    /\ heap \subseteq Nodes
    /\ pc \in {"loop", "take", "scan", "send", "free"}
    /\ taken \in Ptr /\ cur \in Ptr /\ client \in 1 .. Len(Watches) + 1
    /\ sent \subseteq Nodes /\ owed \in [Clients -> SUBSET Chars]
    /\ lost \subseteq Chars /\ leaked \subseteq Nodes
    /\ at \in [Callers -> {Idle} \cup {"walk"} \X Nodes \X Chars \cup {"link"} \X Ptr \X Chars]
    /\ atOnce \in TaskKinds

Init ==
    /\ head = Nil /\ next = [n \in Nodes |-> Nil] /\ heap = {}
    /\ ch \in [Nodes -> {CHOOSE c \in Chars : TRUE}]
    /\ pc = "loop" /\ taken = Nil /\ client = 1 /\ cur = Nil
    /\ sent = {} /\ owed = [c \in Clients |-> {}]
    /\ lost = {} /\ leaked = {}
    /\ at = [t \in Callers |-> Idle]
    /\ atOnce \in TaskKinds

----
(* The list as a value. *)

(* Whoever follows the pointers from a node of S stays in S. *)
Closed(S) == \A n \in S : next[n] \in S \cup {Nil}

(* The nodes from p on: what every closed set that p points into contains. *)
In(p) == {n \in Nodes :
              \A S \in SUBSET Nodes : p \in S \cup {Nil} /\ Closed(S) => n \in S}

(* Where a walk along the list from p on ends. *)
Last(p) == IF p = Nil THEN {Nil} ELSE {n \in In(p) : next[n] = Nil}

----
(* homekit_characteristic_notify. *)

(* History, kept when the others are callbacks. *)
Owes(k) == [c \in Clients |->
                IF atOnce /\ k \in Watches[c] THEN owed[c] \cup {k} ELSE owed[c]]

(* The value of k has changed; the caller reads the head of the list.  The server
   task notifies while it serves a request, before it looks at the list. *)
Begin(t, k) ==
    /\ IF t = Server THEN pc = "loop" ELSE ~atOnce
    /\ at[t] = Idle
    /\ owed' = Owes(k) /\ lost' = lost \ {k}
    /\ at' = [at EXCEPT ![t] = <<IF head = Nil THEN "link" ELSE "walk", head, k>>]
    /\ UNCHANGED <<list, server, sent, leaked, atOnce>>

(* Mutant: the walk does not stop at the last node. *)
WalkOffTheEnd(t) ==
    LET p == at[t][2]
        k == at[t][3]
    IN  /\ at[t][1] = "walk"
        /\ at' = [at EXCEPT ![t] = IF ch[p] = k THEN Idle ELSE <<"walk", next[p], k>>]
        /\ UNCHANGED <<list, server, sent, owed, fate, atOnce>>

(* One node of the walk: k is there already; or on to the next one. *)
Walk(t) ==
    LET p == at[t][2]
        k == at[t][3]
    IN  /\ at[t][1] = "walk"
        /\ at' = [at EXCEPT ![t] = CASE ch[p] = k -> Idle
                                     [] ch[p] # k /\ next[p] # Nil -> <<"walk", next[p], k>>
                                     [] OTHER -> <<"link", p, k>>]
        /\ UNCHANGED <<list, server, sent, owed, fate, atOnce>>

LinkAfter(p, k, pool) ==
    \E n \in pool \ heap :
        /\ heap' = heap \cup {n}
        /\ ch' = [ch EXCEPT ![n] = k]
        /\ IF p = Nil
           THEN head' = n /\ next' = [next EXCEPT ![n] = Nil]
           ELSE next' = [next EXCEPT ![n] = Nil, ![p] = n] /\ UNCHANGED head

(* What has come behind p, or into the empty list, since the caller found nothing
   there: its own link overwrites it. *)
Cut(p) == IF p = Nil THEN In(head) ELSE In(next[p])

(* What a link of the server cuts off is recorded when the others are callbacks. *)
Link(t) ==
    LET p == at[t][2]
        k == at[t][3]
    IN  /\ at[t][1] = "link"
        /\ LinkAfter(p, k, IF atOnce THEN Nodes ELSE TaskNodes)
        /\ IF atOnce
           THEN /\ leaked' = leaked \cup Cut(p)
                /\ lost' = (lost \cup {ch[n] : n \in Cut(p)}) \ {k}
           ELSE UNCHANGED fate
        /\ at' = [at EXCEPT ![t] = Idle]
        /\ UNCHANGED <<server, sent, owed, atOnce>>

(* Mutant: a change is merged into any node of the heap that names it. *)
MergesWithTaken(k) == \E n \in heap : ch[n] = k

(* Mutant: only the first node is compared. *)
MergesWithFirst(k) == head # Nil /\ ch[head] = k

Merges(k) == \E n \in In(head) : ch[n] = k

(* The whole call, by a timer callback, which nothing interrupts: at any time, in
   the middle of the server's own call too. *)
NotifyAtOnce(k) ==
    /\ atOnce
    /\ owed' = Owes(k) /\ lost' = lost \ {k}
    /\ IF Merges(k) THEN UNCHANGED list
       ELSE \E p \in Last(head) :
               LinkAfter(p, k, IF at[Server][1] = "link" THEN TaskNodes ELSE Nodes)
    /\ UNCHANGED <<server, sent, leaked, at, atOnce>>

----
(* The server task. *)

Look ==
    /\ pc = "loop" /\ head # Nil /\ at[Server] = Idle
    /\ taken' = head /\ pc' = "take"
    /\ UNCHANGED <<list, client, cur, sent, owed, fate, at, atOnce>>

Take ==
    /\ pc = "take"
    /\ head' = Nil
    /\ pc' = "scan" /\ client' = 1 /\ cur' = taken
    /\ UNCHANGED <<next, ch, heap, taken, sent, owed, fate, at, atOnce>>

(* Does the client watch one of the characteristics?  If it does it is sent all
   of them. *)
Scan ==
    /\ pc = "scan" /\ client \in Clients /\ cur # Nil
    /\ IF ch[cur] \in Watches[client]
       THEN pc' = "send" /\ cur' = taken
       ELSE cur' = next[cur] /\ UNCHANGED pc
    /\ UNCHANGED <<list, taken, client, sent, owed, fate, at, atOnce>>

Send ==
    /\ pc = "send" /\ cur # Nil
    /\ sent' = sent \cup {cur}
    /\ owed' = [owed EXCEPT ![client] = @ \ {ch[cur]}]
    /\ cur' = next[cur]
    /\ UNCHANGED <<list, pc, taken, client, fate, at, atOnce>>

(* Mutant: the next client goes on where the list has ended. *)
NextClientAtEnd ==
    /\ pc \in {"scan", "send"} /\ client \in Clients /\ cur = Nil
    /\ client' = client + 1 /\ pc' = "scan"
    /\ UNCHANGED <<list, taken, cur, sent, owed, fate, at, atOnce>>

NextClient ==
    /\ pc \in {"scan", "send"} /\ client \in Clients /\ cur = Nil
    /\ client' = client + 1 /\ pc' = "scan" /\ cur' = taken
    /\ UNCHANGED <<list, taken, sent, owed, fate, at, atOnce>>

AllServed ==
    /\ pc = "scan" /\ client \notin Clients
    /\ pc' = "free"
    /\ UNCHANGED <<list, taken, client, cur, sent, owed, fate, at, atOnce>>

(* Mutant: the node is freed before the next one is looked up. *)
FreeNodeStays ==
    /\ pc = "free" /\ taken # Nil
    /\ heap' = heap \ {taken}
    /\ UNCHANGED <<head, next, ch, pc, taken, client, cur, sent, owed, fate, at, atOnce>>

FreeNode ==
    /\ pc = "free" /\ taken # Nil
    /\ heap' = heap \ {taken}
    /\ taken' = next[taken]
    /\ UNCHANGED <<head, next, ch, pc, client, cur, sent, owed, fate, at, atOnce>>

Freed ==
    /\ pc = "free" /\ taken = Nil
    /\ pc' = "loop" /\ client' = 1 /\ cur' = Nil /\ sent' = {}
    /\ UNCHANGED <<list, taken, owed, fate, at, atOnce>>

ServerStep ==
    \/ Look \/ Take \/ Scan \/ Send \/ NextClient \/ AllServed \/ FreeNode \/ Freed
    \/ Walk(Server) \/ Link(Server)

Next ==
    \/ ServerStep
    \/ \E k \in Chars : NotifyAtOnce(k) \/ \E t \in Callers : Begin(t, k)
    \/ \E t \in Tasks : Walk(t) \/ Link(t)

(* The server task runs, its sends return.  Requests may come in every pass of
   its loop, but each pass ends with a look at the list. *)
Spec == Init /\ [][Next]_vars /\ WF_vars(ServerStep) /\ SF_vars(Look)

----
(* Properties. *)

(* What the server has yet to go through for client c. *)
Left(c) == IF pc = "take" \/ client < c THEN In(taken)
           ELSE IF client = c /\ pc = "scan" THEN In(taken)
           ELSE IF client = c /\ pc = "send" THEN In(cur) ELSE {}

(* The server's own call is under way for k. *)
Carries(k) == at[Server] # Idle /\ at[Server][3] = k

(* Notified by timer callbacks and by the server's own setters, a change is lost
   in one place only: a callback that comes between the last test and the link of
   a call of the server has its node overwritten.  Any other change a client is
   owed is in the list, in the part of the taken list that the server has yet to
   send to it, or in the server's own call. *)
OwedIsQueued ==
    atOnce =>
    \A c \in Clients : \A k \in owed[c] \ lost :
        Carries(k) \/ \E n \in In(head) \cup Left(c) : ch[n] = k

(* A characteristic that they notify waits in the list once at most, so that the
   list is bounded by the number of characteristics, and the server frees every
   node it took: no node leaks but those that were overwritten like that. *)
NoDuplicates ==
    atOnce =>
    /\ \A m, n \in In(head) : ch[m] = ch[n] => m = n
    /\ heap = In(head) \cup In(taken) \cup leaked

(* Every subscriber hears of every change they notify, but for those overwritten. *)
ChangesArrive ==
    \A k \in Chars : \A c \in Clients :
        (atOnce /\ k \in owed[c] \ lost) ~> (k \notin owed[c] \/ k \in lost)

(* The server never follows a pointer to a node that it has freed, nor frees one
   twice, whoever notifies and is interrupted wherever: a node is linked once, when
   it is new.  (An interrupted task may hold on to a node that is freed.) *)
NodesLive ==
    /\ taken \in heap \cup {Nil}
    /\ pc \in {"scan", "send"} => cur \in heap \cup {Nil}

(* A round of the server ends, whoever changes the list meanwhile: no
   interleaving of the tasks ties it into a ring. *)
RoundsEnd == (pc # "loop") ~> (pc = "loop")

(* server.c: "Remove sent notifications": with every client subscribed to
   everything, what is removed has been sent. *)
RemovedWereSent == [][pc = "free" /\ taken # Nil => taken \in sent]_vars
====

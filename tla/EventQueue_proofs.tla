---- MODULE EventQueue_proofs ----
(* Machine-checked facts about the notification queue, for every number of
   characteristics, clients, subscriptions, tasks and nodes. *)
EXTENDS EventQueue, TLAPS

----
(* Chains of pointers. *)

(* In, as a function of the pointers: a step changes them. *)
Reach(nx, p) ==
    {n \in Nodes :
        \A S \in SUBSET Nodes :
            p \in S \cup {Nil} /\ (\A m \in S : nx[m] \in S \cup {Nil}) => n \in S}

Links == [Nodes -> Ptr]

(* In is Reach with the pointers of the state. *)
LEMMA InIs == ASSUME NEW p PROVE In(p) = Reach(next, p)
BY DEF In, Reach, Closed

(* A chain contains its first node, and the successor of each of its nodes. *)
LEMMA ReachClosed ==
    ASSUME NEW nx \in Links, NEW p \in Ptr
    PROVE  /\ Reach(nx, p) \in SUBSET Nodes /\ p \in Reach(nx, p) \cup {Nil}
           /\ \A m \in Reach(nx, p) : nx[m] \in Reach(nx, p) \cup {Nil}
<1>1. ASSUME NEW m \in Reach(nx, p), nx[m] # Nil PROVE nx[m] \in Reach(nx, p)
  <2>1. m \in Nodes /\ nx[m] \in Nodes
    BY <1>1 DEF Reach, Links, Ptr
  <2>2. ASSUME NEW S \in SUBSET Nodes, p \in S \cup {Nil}, \A n \in S : nx[n] \in S \cup {Nil}
        PROVE  nx[m] \in S
    <3>1. m \in S
      BY <1>1, <2>2 DEF Reach
    <3> QED BY <1>1, <2>2, <3>1
  <2> QED BY <2>1, <2>2 DEF Reach
<1>2. Reach(nx, p) \in SUBSET Nodes
  BY DEF Reach
<1>3. p # Nil => p \in Reach(nx, p)
  BY DEF Reach, Ptr
<1> QED BY <1>1, <1>2, <1>3

(* It is the least set that does. *)
LEMMA ReachLeast ==
    ASSUME NEW nx, NEW p, NEW S \in SUBSET Nodes, p \in S \cup {Nil},
           \A m \in S : nx[m] \in S \cup {Nil}
    PROVE  Reach(nx, p) \subseteq S
BY DEF Reach

(* Nothing is reached from NULL. *)
LEMMA ReachNil == ASSUME NEW nx PROVE Reach(nx, Nil) = {}
<1>1. {} \in SUBSET Nodes /\ Nil \in {} \cup {Nil} /\ \A m \in {} : nx[m] \in {} \cup {Nil}
  OBVIOUS
<1> DEFINE none == {}
<1>2. none \in SUBSET Nodes /\ Nil \in none \cup {Nil} /\ \A m \in none : nx[m] \in none \cup {Nil}
  BY <1>1
<1> HIDE DEF none
<1>3. Reach(nx, Nil) \subseteq none
  BY <1>2, ReachLeast
<1> QED BY <1>3 DEF none

(* A chain is its first node and the chain of the next one. *)
LEMMA ReachStep ==
    ASSUME NEW nx \in Links, NEW p \in Nodes
    PROVE  Reach(nx, p) = {p} \cup Reach(nx, nx[p])
<1>1. nx[p] \in Ptr /\ p \in Ptr
  BY DEF Links, Ptr
<1>2. p \in Reach(nx, p)
  BY <1>1, ReachClosed, QueueAssumption
<1>3. Reach(nx, nx[p]) \subseteq Reach(nx, p)
  BY <1>1, <1>2, ReachClosed, ReachLeast
<1>4. Reach(nx, p) \subseteq {p} \cup Reach(nx, nx[p])
  <2> DEFINE S == {p} \cup Reach(nx, nx[p])
  <2>1. /\ Reach(nx, nx[p]) \in SUBSET Nodes /\ nx[p] \in Reach(nx, nx[p]) \cup {Nil}
        /\ \A m \in Reach(nx, nx[p]) : nx[m] \in Reach(nx, nx[p]) \cup {Nil}
    BY <1>1, ReachClosed
  <2>2. S \in SUBSET Nodes /\ p \in S \cup {Nil} /\ \A m \in S : nx[m] \in S \cup {Nil}
    BY <2>1
  <2> HIDE DEF S
  <2>3. Reach(nx, p) \subseteq S
    BY <2>2, ReachLeast
  <2> QED BY <2>3 DEF S
<1> QED BY <1>2, <1>3, <1>4

(* A chain contains the chain of each of its nodes. *)
LEMMA ReachWithin ==
    ASSUME NEW nx \in Links, NEW p \in Ptr, NEW n \in Reach(nx, p) \cup {Nil}
    PROVE  Reach(nx, n) \subseteq Reach(nx, p)
<1>1. /\ Reach(nx, p) \in SUBSET Nodes
      /\ \A m \in Reach(nx, p) : nx[m] \in Reach(nx, p) \cup {Nil}
  BY ReachClosed
<1> QED BY <1>1, ReachLeast

(* Pointers that differ outside a chain only leave the chain as it is. *)
LEMMA ReachSame ==
    ASSUME NEW nx \in Links, NEW ny \in Links, NEW p \in Ptr,
           \A m \in Reach(nx, p) : ny[m] = nx[m]
    PROVE  Reach(ny, p) = Reach(nx, p)
<1>1. /\ Reach(nx, p) \in SUBSET Nodes /\ p \in Reach(nx, p) \cup {Nil}
      /\ \A m \in Reach(nx, p) : ny[m] \in Reach(nx, p) \cup {Nil}
  BY ReachClosed
<1>2. Reach(ny, p) \subseteq Reach(nx, p)
  BY <1>1, ReachLeast
<1>3. /\ Reach(ny, p) \in SUBSET Nodes /\ p \in Reach(ny, p) \cup {Nil}
      /\ \A m \in Reach(ny, p) : nx[m] \in Reach(ny, p) \cup {Nil}
  BY <1>2, ReachClosed
<1>4. Reach(nx, p) \subseteq Reach(ny, p)
  BY <1>3, ReachLeast
<1> QED BY <1>2, <1>4

(* A node linked after the end of a chain belongs to it from now on. *)
LEMMA ReachLinked ==
    ASSUME NEW nx \in Links, NEW p \in Ptr, NEW m \in Reach(nx, p), nx[m] = Nil,
           NEW x \in Nodes, x \notin Reach(nx, p),
           NEW ny \in Links, ny[m] = x, ny[x] = Nil,
           \A n \in Nodes : n # m /\ n # x => ny[n] = nx[n]
    PROVE  Reach(ny, p) = Reach(nx, p) \cup {x}
<1> DEFINE S == Reach(nx, p) \cup {x}
<1>1. /\ Reach(nx, p) \in SUBSET Nodes /\ p \in Reach(nx, p) \cup {Nil}
      /\ \A n \in Reach(nx, p) : nx[n] \in Reach(nx, p) \cup {Nil}
  BY ReachClosed
<1>2. S \in SUBSET Nodes /\ p \in S \cup {Nil} /\ \A n \in S : ny[n] \in S \cup {Nil}
  BY <1>1
<1>3. Reach(ny, p) \subseteq S
  <2> HIDE DEF S
  <2> QED BY <1>2, ReachLeast
<1> DEFINE T == Reach(ny, p)
<1>4. T \in SUBSET Nodes /\ p \in T \cup {Nil} /\ \A n \in T : ny[n] \in T \cup {Nil}
  BY ReachClosed
<1> HIDE DEF T
<1>5. ASSUME NEW n \in T PROVE nx[n] \in (T \ {x}) \cup {Nil} \/ n = x
  <2>1. n \in Nodes /\ n \in S
    BY <1>3, <1>4 DEF T
  <2>2. CASE n # x /\ n # m
    <3>1. nx[n] = ny[n] /\ n \in Reach(nx, p)
      BY <2>1, <2>2
    <3>2. nx[n] # x
      BY <1>1, <3>1, QueueAssumption
    <3> QED BY <1>4, <3>1, <3>2
  <2> QED BY <2>2
<1>6. T \ {x} \in SUBSET Nodes /\ p \in (T \ {x}) \cup {Nil}
  BY <1>1, <1>4, QueueAssumption
<1>7. \A n \in T \ {x} : nx[n] \in (T \ {x}) \cup {Nil}
  BY <1>5
<1>8. Reach(nx, p) \subseteq T
  <2>1. Reach(nx, p) \subseteq T \ {x}
    BY <1>6, <1>7, ReachLeast
  <2> QED BY <2>1
<1>9. x \in T
  BY <1>4, <1>8, QueueAssumption
<1> QED BY <1>3, <1>8, <1>9 DEF T

(* Of two nodes of a chain one comes after the other. *)
LEMMA ReachLinear ==
    ASSUME NEW nx \in Links, NEW h \in Ptr, NEW a \in Reach(nx, h), NEW b \in Reach(nx, h)
    PROVE  a \in Reach(nx, b) \/ b \in Reach(nx, a)
<1> DEFINE R == Reach(nx, h)
           S == {y \in R : \A z \in R : z \in Reach(nx, y) \/ y \in Reach(nx, z)}
<1>1. R \in SUBSET Nodes /\ h \in R \cup {Nil} /\ \A m \in R : nx[m] \in R \cup {Nil}
  BY ReachClosed
<1>2. S \in SUBSET Nodes /\ h \in S \cup {Nil}
  BY <1>1
<1>3. ASSUME NEW y \in S, nx[y] # Nil PROVE nx[y] \in S
  <2>1. y \in Nodes /\ y \in R /\ nx[y] \in R /\ nx[y] \in Ptr
    BY <1>1, <1>3 DEF Links
  <2>2. Reach(nx, y) = {y} \cup Reach(nx, nx[y])
    BY <2>1, ReachStep
  <2>3. ASSUME NEW z \in R PROVE z \in Reach(nx, nx[y]) \/ nx[y] \in Reach(nx, z)
    <3>1. z \in Ptr /\ z \in Nodes
      BY <1>1 DEF Ptr
    <3>2. CASE z \in Reach(nx, y)
      <4>1. nx[y] \in Reach(nx, y)
        BY <1>3, <2>1, <2>2, ReachClosed
      <4> QED BY <2>2, <3>2, <4>1
    <3>3. CASE y \in Reach(nx, z)
      BY <1>3, <3>1, <3>3, ReachClosed
    <3> QED BY <1>3, <3>2, <3>3
  <2> QED BY <2>1, <2>3
<1>4. \A y \in S : nx[y] \in S \cup {Nil}
  BY <1>3
<1>5. R \subseteq S
  <2> HIDE DEF S
  <2> QED BY <1>2, <1>4, ReachLeast DEF R
<1> QED BY <1>5

(* A node linked behind one in the middle of a chain: what came behind it is cut
   off. *)
LEMMA ReachCut ==
    ASSUME NEW nx \in Links, NEW h \in Ptr, NEW p \in Reach(nx, h),
           p \notin Reach(nx, nx[p]), NEW x \in Nodes, x \notin Reach(nx, h),
           NEW ny \in Links, ny[p] = x, ny[x] = Nil,
           \A n \in Nodes : n # p /\ n # x => ny[n] = nx[n]
    PROVE  Reach(ny, h) = (Reach(nx, h) \ Reach(nx, nx[p])) \cup {x}
<1> DEFINE R == Reach(nx, h)
           C == Reach(nx, nx[p])
           S == (R \ C) \cup {x}
<1>1. R \in SUBSET Nodes /\ h \in R \cup {Nil} /\ \A m \in R : nx[m] \in R \cup {Nil}
  BY ReachClosed
<1>2. p \in Nodes /\ p \in R /\ nx[p] \in Ptr /\ nx[p] \in R \cup {Nil} /\ x # Nil /\ p # Nil
  BY <1>1, QueueAssumption DEF Links
<1>3. C \in SUBSET Nodes /\ nx[p] \in C \cup {Nil} /\ \A m \in C : nx[m] \in C \cup {Nil}
  BY <1>2, ReachClosed
<1>4. Reach(nx, p) = {p} \cup C
  BY <1>2, ReachStep
<1>5. C \subseteq R
  BY <1>2, ReachWithin
<1>6. h \in R \ C
  <2>1. h \in R
    BY <1>1, <1>2, ReachNil
  <2>2. h \in C => R \subseteq C
    BY <1>2, ReachWithin
  <2> QED BY <1>2, <2>1, <2>2
<1>7. ASSUME NEW n \in R \ C, n # p PROVE nx[n] \in (R \ C) \cup {Nil}
  <2>1. n \in Nodes /\ nx[n] \in R \cup {Nil} /\ nx[n] \in Ptr
    BY <1>1 DEF Links
  <2>2. p \in Reach(nx, n)
    BY <1>2, <1>4, <1>7, ReachLinear
  <2>3. p \in Reach(nx, nx[n])
    BY <1>7, <2>1, <2>2, ReachStep
  <2>4. nx[n] \in C => Reach(nx, nx[n]) \subseteq C
    BY <1>2, ReachWithin
  <2> QED BY <2>1, <2>3, <2>4
<1>8. S \in SUBSET Nodes /\ h \in S \cup {Nil} /\ \A n \in S : ny[n] \in S \cup {Nil}
  <2>1. ASSUME NEW n \in S PROVE ny[n] \in S \cup {Nil}
    BY <1>1, <1>7
  <2> QED BY <1>1, <1>6, <2>1
<1>9. Reach(ny, h) \subseteq S
  <2> HIDE DEF S
  <2> QED BY <1>8, ReachLeast
<1> DEFINE Q == Reach(ny, h)
           T == (Q \ {x}) \cup C
<1>10. Q \in SUBSET Nodes /\ h \in Q \cup {Nil} /\ \A n \in Q : ny[n] \in Q \cup {Nil}
  BY ReachClosed
<1> HIDE DEF Q
<1>11. T \in SUBSET Nodes /\ h \in T \cup {Nil}
  BY <1>1, <1>3, <1>6, <1>10
<1>12. ASSUME NEW n \in T PROVE nx[n] \in T \cup {Nil}
  <2>1. CASE n \in C \/ n = p
    BY <1>3, <2>1
  <2>2. CASE n \notin C /\ n # p
    <3>1. n \in Q /\ n # x /\ n \in R
      BY <1>9, <2>2 DEF Q
    <3>2. ny[n] = nx[n] /\ nx[n] # x
      BY <1>1, <1>2, <2>2, <3>1
    <3> QED BY <1>10, <3>1, <3>2
  <2> QED BY <2>1, <2>2
<1>13. R \subseteq T
  <2> HIDE DEF T
  <2> QED BY <1>11, <1>12, ReachLeast DEF R
<1>14. p \in Q
  BY <1>2, <1>13
<1>15. x \in Q
  BY <1>2, <1>10, <1>14
<1> QED BY <1>9, <1>13, <1>15 DEF Q

(* With a node linked anywhere, a chain has no new node but that one. *)
LEMMA ReachMore ==
    ASSUME NEW nx \in Links, NEW q \in Ptr, NEW p, NEW x \in Nodes, NEW ny \in Links,
           ny[x] = Nil, \A n \in Nodes : n # p /\ n # x => ny[n] = nx[n],
           p \in Nodes => ny[p] = x
    PROVE  Reach(ny, q) \subseteq Reach(nx, q) \cup {x}
<1> DEFINE S == Reach(nx, q) \cup {x}
<1>1. /\ Reach(nx, q) \in SUBSET Nodes /\ q \in Reach(nx, q) \cup {Nil}
      /\ \A m \in Reach(nx, q) : nx[m] \in Reach(nx, q) \cup {Nil}
  BY ReachClosed
<1>2. S \in SUBSET Nodes /\ q \in S \cup {Nil} /\ \A n \in S : ny[n] \in S \cup {Nil}
  BY <1>1
<1> HIDE DEF S
<1>3. Reach(ny, q) \subseteq S
  BY <1>2, ReachLeast
<1> QED BY <1>3 DEF S

----
(* The inductive invariants. *)

(* Whoever runs: what is linked is allocated, each node is linked from one place
   at most, and what the server has taken is not in the list. *)
Live ==
    /\ head \in heap \cup {Nil} /\ taken \in heap \cup {Nil}
    /\ \A m \in heap : next[m] \in heap \cup {Nil}
    /\ \A m, n \in heap : next[m] = next[n] /\ next[m] # Nil => m = n
    /\ \A m \in heap : next[m] # Nil => next[m] # head /\ next[m] # taken
    /\ head = taken /\ head # Nil => pc = "take"
    /\ pc \in {"scan", "send"} => cur \in heap \cup {Nil}
    /\ pc = "loop" => taken = Nil

(* The nodes in use are those of the list, those the server has taken, and the
   leaked ones, which lead to leaked ones only; no node comes back to itself, and
   the list has one end. *)
Chained ==
    /\ heap = In(head) \cup In(taken) \cup leaked
    /\ leaked \cap (In(head) \cup In(taken)) = {}
    /\ \A n \in leaked : next[n] \in leaked \cup {Nil}
    /\ \A n \in heap : n \notin In(next[n])
    /\ head # Nil => \E n \in In(head) : next[n] = Nil
    /\ \A m, n \in In(head) : next[m] = Nil /\ next[n] = Nil => m = n

(* The list is empty when the server has taken it, and new nodes are not the
   server's. *)
Owned ==
    /\ pc = "loop" => taken = Nil
    /\ pc = "take" => taken = head /\ head # Nil
    /\ pc \notin {"loop", "take"} => In(head) \cap In(taken) = {}
    /\ pc \in {"scan", "send"} => cur \in In(taken) \cup {Nil}
    /\ pc = "send" => client \in Clients
    /\ pc = "free" => client \notin Clients

(* What the server has passed on its way to the first characteristic the client
   watches, the client does not watch. *)
Passed ==
    pc = "scan" /\ client \in Clients =>
        \A n \in In(taken) : n \in In(cur) \/ ch[n] \notin Watches[client]

(* The server's own call: what it has passed does not name the characteristic. *)
Walks(p, k) == p \in In(head) /\ \A n \in In(head) : n \in In(p) \/ ch[n] # k

Appends(p, k) ==
    p \in In(head) \cup {Nil} /\ \A n \in In(head) : n \in Cut(p) \/ ch[n] # k

OwnCall ==
    at[Server] # Idle =>
        /\ pc = "loop"
        /\ at[Server][1] = "walk" => Walks(at[Server][2], at[Server][3])
        /\ at[Server][1] = "link" => Appends(at[Server][2], at[Server][3])

Distinct == \A m, n \in In(head) : ch[m] = ch[n] => m = n

OwesWatched == \A c \in Clients : owed[c] \subseteq Watches[c]

Queued ==
    \A c \in Clients : \A k \in owed[c] \ lost :
        Carries(k) \/ \E n \in In(head) \cup Left(c) : ch[n] = k

(* Of what timer callbacks and the server's own setters notify: no other task is
   in the middle of a call. *)
Calm == /\ \A t \in Tasks : at[t] = Idle
        /\ Chained /\ Owned /\ Passed /\ OwnCall /\ Distinct /\ OwesWatched /\ Queued

Inv == TypeOK /\ Live /\ (atOnce => Calm)

----
(* Every variable stays in the set of its declaration, whoever runs. *)
LEMMA TypeStep == ASSUME TypeOK, [Next]_vars PROVE TypeOK'
<1> USE DEF TypeOK, list, server, fate
<1>1. ASSUME NEW t \in Callers, NEW k \in Chars, Begin(t, k) PROVE TypeOK'
  <2> DEFINE new == <<IF head = Nil THEN "link" ELSE "walk", head, k>>
  <2>1. new \in {Idle} \cup {"walk"} \X Nodes \X Chars \cup {"link"} \X Ptr \X Chars
    BY DEF Ptr
  <2>2. at' = [at EXCEPT ![t] = new] /\ owed' = Owes(k)
        /\ UNCHANGED <<head, next, ch, heap, pc, taken, client, cur, sent, leaked, atOnce>>
        /\ lost' = lost \ {k}
    BY <1>1 DEF Begin
  <2> HIDE DEF new
  <2>3. owed' \in [Clients -> SUBSET Chars]
    BY <2>2 DEF Owes
  <2> QED BY <2>1, <2>2, <2>3
<1>2. ASSUME NEW p \in Ptr, NEW k \in Chars, NEW pool \in SUBSET Nodes,
             LinkAfter(p, k, pool)
      PROVE  /\ head' \in Ptr /\ next' \in [Nodes -> Ptr] /\ ch' \in [Nodes -> Chars]
             /\ heap' \subseteq Nodes
  <2>1. PICK n \in Nodes : /\ heap' = heap \cup {n} /\ ch' = [ch EXCEPT ![n] = k]
                           /\ IF p = Nil
                              THEN head' = n /\ next' = [next EXCEPT ![n] = Nil]
                              ELSE next' = [next EXCEPT ![n] = Nil, ![p] = n] /\ UNCHANGED head
    BY <1>2, QueueAssumption DEF LinkAfter
  <2> QED BY <2>1 DEF Ptr
<1>3. ASSUME NEW t \in Callers, at[t][1] = "walk"
      PROVE  at[t][2] \in Nodes /\ at[t][3] \in Chars
  BY <1>3 DEF Idle
<1>4. ASSUME NEW t \in Callers, at[t][1] = "link"
      PROVE  at[t][2] \in Ptr /\ at[t][3] \in Chars
  BY <1>4 DEF Idle
<1>5. ASSUME NEW t \in Callers, Walk(t) PROVE TypeOK'
  <2> DEFINE p == at[t][2]
             k == at[t][3]
             new == CASE ch[p] = k -> Idle
                      [] ch[p] # k /\ next[p] # Nil -> <<"walk", next[p], k>>
                      [] OTHER -> <<"link", p, k>>
  <2>1. p \in Nodes /\ k \in Chars
    BY <1>3, <1>5 DEF Walk
  <2>2. at' = [at EXCEPT ![t] = new]
        /\ UNCHANGED <<head, next, ch, heap, pc, taken, client, cur, sent, owed, lost, leaked,
                       atOnce>>
    BY <1>5 DEF Walk
  <2> HIDE DEF p, k
  <2>3. new \in {Idle} \cup {"walk"} \X Nodes \X Chars \cup {"link"} \X Ptr \X Chars
    <3>1. CASE ch[p] = k
      BY <3>1
    <3>2. CASE ch[p] # k /\ next[p] # Nil
      <4>1. next[p] \in Nodes /\ new = <<"walk", next[p], k>>
        BY <2>1, <3>2 DEF Ptr
      <4> QED BY <2>1, <4>1
    <3>3. CASE ch[p] # k /\ next[p] = Nil
      <4>1. new = <<"link", p, k>> /\ p \in Ptr
        BY <2>1, <3>3 DEF Ptr
      <4> QED BY <2>1, <4>1
    <3> QED BY <3>1, <3>2, <3>3
  <2> HIDE DEF new
  <2> QED BY <2>2, <2>3
<1>6. ASSUME NEW t \in Callers, Link(t) PROVE TypeOK'
  <2>1. /\ at[t][2] \in Ptr /\ at[t][3] \in Chars
        /\ \E pool \in SUBSET Nodes : LinkAfter(at[t][2], at[t][3], pool)
    BY <1>4, <1>6, QueueAssumption DEF Link
  <2>2. at' = [at EXCEPT ![t] = Idle] /\ UNCHANGED <<pc, taken, client, cur, sent, owed, atOnce>>
    BY <1>6 DEF Link
  <2>3. at' \in [Callers -> {Idle} \cup {"walk"} \X Nodes \X Chars \cup {"link"} \X Ptr \X Chars]
    BY <2>2
  <2>4. /\ head' \in Ptr /\ next' \in [Nodes -> Ptr] /\ ch' \in [Nodes -> Chars]
        /\ heap' \subseteq Nodes
    BY <1>2, <2>1
  <2>5. Cut(at[t][2]) \subseteq Nodes
    BY DEF Cut, In
  <2>6. {ch[n] : n \in Cut(at[t][2])} \subseteq Chars
    BY <2>5
  <2>7. lost' \subseteq Chars /\ leaked' \subseteq Nodes
    BY <1>6, <2>5, <2>6 DEF Link
  <2> QED BY <2>2, <2>3, <2>4, <2>7
<1>7. ASSUME NEW k \in Chars, NotifyAtOnce(k) PROVE TypeOK'
  <2>1. owed' \in [Clients -> SUBSET Chars]
    BY <1>7 DEF NotifyAtOnce, Owes
  <2>2. UNCHANGED <<pc, taken, client, cur, sent, leaked, at, atOnce>> /\ lost' \subseteq Chars
    BY <1>7 DEF NotifyAtOnce
  <2>3. CASE UNCHANGED list
    BY <2>1, <2>2, <2>3
  <2>4. CASE \E p \in Last(head) : \E pool \in SUBSET Nodes : LinkAfter(p, k, pool)
    <3>1. PICK p \in Ptr, pool \in SUBSET Nodes : LinkAfter(p, k, pool)
      BY <2>4 DEF Last, In, Ptr
    <3>2. /\ head' \in Ptr /\ next' \in [Nodes -> Ptr] /\ ch' \in [Nodes -> Chars]
          /\ heap' \subseteq Nodes
      BY <1>2, <3>1
    <3> QED BY <2>1, <2>2, <3>2
  <2> QED BY <1>7, <2>3, <2>4, QueueAssumption DEF NotifyAtOnce
<1>8. Len(Watches) \in Nat
  BY QueueAssumption
<1>9. CASE Look \/ Take
  <2>1. 1 \in 1 .. Len(Watches) + 1
    BY <1>8
  <2>2. client' \in 1 .. Len(Watches) + 1
    BY <1>9, <2>1 DEF Look, Take
  <2>3. Nil \in Ptr /\ head' \in Ptr /\ taken' \in Ptr /\ cur' \in Ptr
    BY <1>9 DEF Look, Take, Ptr
  <2> QED BY <1>9, <2>2, <2>3 DEF Look, Take
<1>10. CASE Scan
  BY <1>10 DEF Scan, Ptr
<1>11. CASE Send
  <2>1. owed' \in [Clients -> SUBSET Chars]
    BY <1>11 DEF Send
  <2>2. cur \in Nodes
    BY <1>11 DEF Send, Ptr
  <2> QED BY <1>11, <2>1, <2>2 DEF Send
<1>12. CASE NextClient
  <2>1. client' = client + 1 /\ client \in 1 .. Len(Watches)
    BY <1>12 DEF NextClient, Clients
  <2>2. client' \in 1 .. Len(Watches) + 1
    BY <1>8, <2>1
  <2> QED BY <1>12, <2>2 DEF NextClient
<1>13. CASE AllServed
  BY <1>13 DEF AllServed
<1>14. CASE FreeNode
  <2>1. taken \in Nodes
    BY <1>14 DEF FreeNode, Ptr
  <2> QED BY <1>14, <2>1 DEF FreeNode
<1>15. CASE Freed
  <2>1. 1 \in 1 .. Len(Watches) + 1 /\ Nil \in Ptr
    BY <1>8 DEF Ptr
  <2> QED BY <1>15, <2>1 DEF Freed
<1>16. CASE UNCHANGED vars
  BY <1>16 DEF vars
<1> QED BY <1>1, <1>5, <1>6, <1>7, <1>9, <1>10, <1>11, <1>12, <1>13, <1>14, <1>15, <1>16
    DEF Next, ServerStep, Callers

----
(* The same in the next state. *)
LEMMA InPrimed ==
    /\ In(head)' = Reach(next', head') /\ In(taken)' = Reach(next', taken')
    /\ In(cur)' = Reach(next', cur')
    /\ \A n \in Nodes : In(next[n])' = Reach(next', next'[n])
BY DEF In, Reach, Closed

(* A step that leaves the pointers and the nodes in use alone. *)
LEMMA StillChained ==
    ASSUME TypeOK, Chained, UNCHANGED <<next, heap, leaked>>,
           \/ head' = head
           \/ head' = Nil,
           In(head)' \cup In(taken)' = In(head) \cup In(taken)
    PROVE  Chained'
<1>1. /\ heap' = In(head)' \cup In(taken)' \cup leaked'
      /\ leaked' \cap (In(head)' \cup In(taken)') = {}
      /\ \A n \in leaked' : next'[n] \in leaked' \cup {Nil}
  BY DEF Chained
<1>2. \A n \in heap' : n \notin In(next[n])'
  BY InIs, InPrimed DEF Chained, TypeOK
<1>3. head' # Nil => \E n \in In(head)' : next'[n] = Nil
  BY InIs, InPrimed DEF Chained
<1>4. In(head)' \subseteq In(head)
  BY InIs, InPrimed, ReachNil
<1>5. \A m, n \in In(head)' : next'[m] = Nil /\ next'[n] = Nil => m = n
  BY <1>4 DEF Chained
<1> QED BY <1>1, <1>2, <1>3, <1>5 DEF Chained

(* The server looks at the list. *)
LEMMA LookCalm == ASSUME TypeOK, Calm, Look PROVE Calm'
<1> USE DEF Calm
<1>1. /\ UNCHANGED <<head, next, ch, heap, client, cur, sent, owed, lost, leaked, at>>
      /\ pc = "loop" /\ pc' = "take" /\ head # Nil /\ taken' = head /\ taken = Nil
      /\ at[Server] = Idle
  BY DEF Look, list, fate, Owned
<1>2. In(head)' = In(head) /\ In(taken)' = In(head) /\ In(taken) = {}
  BY <1>1, InIs, InPrimed, ReachNil
<1>3. Chained'
  BY <1>1, <1>2, StillChained
<1>4. Owned' /\ Passed' /\ OwesWatched' /\ OwnCall' /\ \A t \in Tasks : at'[t] = Idle
  BY <1>1 DEF Owned, Passed, OwesWatched, OwnCall
<1>5. Distinct'
  BY <1>1, <1>2 DEF Distinct
<1>6. \A c \in Clients : Left(c) = {}
  BY <1>1, <1>2 DEF Left
<1>7. Queued'
  BY <1>1, <1>2, <1>6 DEF Queued, Carries
<1> QED BY <1>3, <1>4, <1>5, <1>7

(* The server takes the whole list: what was in it is what it has left to send. *)
LEMMA TakeCalm == ASSUME TypeOK, Calm, Take PROVE Calm'
<1> USE DEF Calm
<1>1. /\ UNCHANGED <<next, ch, heap, taken, sent, owed, lost, leaked, at>>
      /\ pc = "take" /\ pc' = "scan" /\ head' = Nil /\ client' = 1 /\ cur' = taken /\ taken = head
  BY DEF Take, fate, Owned
<1>2. In(head)' = {} /\ In(taken)' = In(taken) /\ In(cur)' = In(taken) /\ In(head) = In(taken)
  BY <1>1, InIs, InPrimed, ReachNil
<1>3. Chained'
  BY <1>1, <1>2, StillChained
<1>4. taken \in In(taken) \cup {Nil}
  BY InIs, ReachClosed DEF TypeOK, Links
<1>5. Owned'
  BY <1>1, <1>2, <1>4 DEF Owned
<1>6. Passed' /\ OwesWatched' /\ Distinct' /\ OwnCall' /\ \A t \in Tasks : at'[t] = Idle
  BY <1>1, <1>2 DEF Passed, OwesWatched, Distinct, OwnCall
<1>7. \A c \in Clients : Left(c)' = In(taken)
  <2>1. \A c \in Clients : c \in Nat /\ (client' < c \/ client' = c)
    BY <1>1, QueueAssumption DEF Clients
  <2> QED BY <1>1, <1>2, <2>1 DEF Left
<1>8. \A c \in Clients : In(head) \cup Left(c) \subseteq In(taken)
  <2>1. \A c \in Clients : Left(c) = In(taken)
    BY <1>1 DEF Left
  <2> QED BY <1>2, <2>1
<1>9. Queued'
  BY <1>1, <1>7, <1>8 DEF Queued, Carries
<1> QED BY <1>3, <1>5, <1>6, <1>9

(* The server looks for a characteristic the client watches. *)
LEMMA ScanCalm == ASSUME TypeOK, Calm, Scan PROVE Calm'
<1> USE DEF Calm
<1>1. /\ UNCHANGED <<head, next, ch, heap, taken, client, sent, owed, lost, leaked, at>>
      /\ pc = "scan" /\ client \in Clients /\ cur \in Nodes
      /\ \/ ch[cur] \in Watches[client] /\ pc' = "send" /\ cur' = taken
         \/ ch[cur] \notin Watches[client] /\ pc' = "scan" /\ cur' = next[cur]
  BY DEF Scan, list, fate, TypeOK, Ptr
<1>2. In(head)' = In(head) /\ In(taken)' = In(taken)
  BY <1>1, InIs, InPrimed
<1>3. Chained'
  BY <1>1, <1>2, StillChained
<1>4. /\ next \in Links /\ taken \in Ptr /\ taken \in In(taken) \cup {Nil}
      /\ cur \in In(taken) \cup {Nil}
  BY <1>1, InIs, ReachClosed DEF TypeOK, Links, Owned
<1>5. next[cur] \in In(taken) \cup {Nil}
  BY <1>1, <1>4, InIs, ReachClosed, QueueAssumption
<1>6. Owned'
  BY <1>1, <1>2, <1>4, <1>5 DEF Owned
<1>7. Passed'
  <2>1. CASE pc' = "scan"
    <3>1. In(cur) = {cur} \cup In(cur)'
      BY <1>1, <1>4, <2>1, InIs, InPrimed, ReachStep
    <3> QED BY <1>1, <1>2, <2>1, <3>1 DEF Passed
  <2> QED BY <2>1 DEF Passed
<1>8. OwesWatched' /\ Distinct' /\ OwnCall' /\ \A t \in Tasks : at'[t] = Idle
  BY <1>1, <1>2 DEF OwesWatched, Distinct, OwnCall
<1>9. \A c \in Clients : Left(c)' = Left(c)
  <2>1. pc' = "send" => In(cur)' = In(taken)
    BY <1>1, <1>4, InIs, InPrimed, QueueAssumption
  <2> QED BY <1>1, <1>2, <2>1 DEF Left
<1>10. Queued'
  BY <1>1, <1>2, <1>9 DEF Queued, Carries
<1> QED BY <1>3, <1>6, <1>7, <1>8, <1>10

(* A value is sent: the client is owed it no longer, and the rest is ahead. *)
LEMMA SendCalm == ASSUME TypeOK, Calm, Send PROVE Calm'
<1> USE DEF Calm
<1>1. /\ UNCHANGED <<head, next, ch, heap, pc, taken, client, lost, leaked, at>>
      /\ pc = "send" /\ cur \in Nodes /\ cur' = next[cur] /\ client \in Clients
      /\ owed' = [owed EXCEPT ![client] = owed[client] \ {ch[cur]}]
  BY DEF Send, list, fate, TypeOK, Ptr, Owned
<1>2. In(head)' = In(head) /\ In(taken)' = In(taken)
  BY <1>1, InIs, InPrimed
<1>3. Chained'
  BY <1>1, <1>2, StillChained
<1>4. next \in Links /\ taken \in Ptr /\ cur \in In(taken)
  BY <1>1, QueueAssumption DEF TypeOK, Links, Owned
<1>5. next[cur] \in In(taken) \cup {Nil}
  BY <1>4, InIs, ReachClosed
<1>6. Owned' /\ Passed'
  BY <1>1, <1>2, <1>5 DEF Owned, Passed
<1>7. owed \in [Clients -> SUBSET Chars]
  BY DEF TypeOK
<1>8. /\ owed'[client] = owed[client] \ {ch[cur]}
      /\ \A c \in Clients : c # client => owed'[c] = owed[c]
  BY <1>1, <1>7
<1>9. OwesWatched' /\ Distinct' /\ OwnCall' /\ \A t \in Tasks : at'[t] = Idle
  BY <1>1, <1>2, <1>8 DEF OwesWatched, Distinct, OwnCall
<1>10. In(cur) = {cur} \cup In(cur)'
  BY <1>1, <1>4, InIs, InPrimed, ReachStep
<1>11. Queued'
  <2>1. ASSUME NEW c \in Clients, NEW k \in owed'[c] \ lost'
        PROVE  \E n \in In(head)' \cup Left(c)' : ch'[n] = k
    <3>1. k \in owed[c] \ lost /\ (c = client => k # ch[cur]) /\ ~Carries(k)
      BY <1>1, <1>8, <2>1 DEF OwnCall, Carries
    <3>2. PICK n \in In(head) \cup Left(c) : ch[n] = k
      BY <3>1 DEF Queued
    <3>3. CASE c = client
      <4>1. Left(c) = In(cur) /\ Left(c)' = In(cur)'
        <5>1. ~(client < c)
          BY <3>3, QueueAssumption DEF Clients
        <5> QED BY <1>1, <3>3, <5>1 DEF Left
      <4> QED BY <1>1, <1>2, <1>10, <3>1, <3>2, <3>3, <4>1
    <3>4. CASE c # client
      <4>1. Left(c)' = Left(c)
        BY <1>1, <1>2, <3>4 DEF Left
      <4> QED BY <1>1, <1>2, <3>2, <4>1
    <3> QED BY <3>3, <3>4
  <2> QED BY <2>1 DEF Queued, Carries
<1> QED BY <1>3, <1>6, <1>9, <1>11

(* The client is done: it was sent everything, or watches none of it. *)
LEMMA NextClientCalm == ASSUME TypeOK, Calm, NextClient PROVE Calm'
<1> USE DEF Calm
<1>1. /\ UNCHANGED <<head, next, ch, heap, taken, owed, lost, leaked, at>>
      /\ pc \in {"scan", "send"} /\ pc' = "scan" /\ client \in Clients /\ client' = client + 1
      /\ cur = Nil /\ cur' = taken
  BY DEF NextClient, list, fate
<1>2. In(head)' = In(head) /\ In(taken)' = In(taken) /\ In(cur)' = In(taken) /\ In(cur) = {}
  BY <1>1, InIs, InPrimed, ReachNil
<1>3. Chained'
  BY <1>1, <1>2, StillChained
<1>4. taken \in In(taken) \cup {Nil}
  BY InIs, ReachClosed DEF TypeOK, Links
<1>5. Owned' /\ Passed' /\ OwesWatched' /\ Distinct' /\ OwnCall' /\ \A t \in Tasks : at'[t] = Idle
  BY <1>1, <1>2, <1>4 DEF Owned, Passed, OwesWatched, Distinct, OwnCall
<1>6. ASSUME NEW c \in Clients, NEW k \in owed[c] \ lost
      PROVE  \E n \in In(head) \cup Left(c)' : ch[n] = k
  <2>1. PICK n \in In(head) \cup Left(c) : ch[n] = k
    BY <1>1 DEF Queued, Carries, OwnCall
  <2>2. k \in Watches[c]
    BY DEF OwesWatched
  <2>3. client \in Nat /\ c \in Nat
    BY <1>1, QueueAssumption DEF Clients
  <2>4. CASE client < c
    <3>1. Left(c) = In(taken) /\ Left(c)' = In(taken)
      <4>1. client' < c \/ client' = c
        BY <1>1, <2>3, <2>4
      <4> QED BY <1>1, <1>2, <2>4, <4>1 DEF Left
    <3> QED BY <2>1, <3>1
  <2>5. CASE ~(client < c)
    <3>1. n \notin Left(c)
      <4>1. CASE client = c /\ pc = "scan"
        BY <1>1, <1>2, <2>1, <2>2, <2>5, <4>1 DEF Left, Passed
      <4>2. CASE ~(client = c /\ pc = "scan")
        BY <1>1, <1>2, <2>5, <4>2 DEF Left
      <4> QED BY <4>1, <4>2
    <3> QED BY <2>1, <3>1
  <2> QED BY <2>4, <2>5
<1>7. Queued'
  BY <1>1, <1>2, <1>6 DEF Queued, Carries
<1> QED BY <1>3, <1>5, <1>7

(* Every client is done. *)
LEMMA AllServedCalm == ASSUME TypeOK, Calm, AllServed PROVE Calm'
<1> USE DEF Calm
<1>1. /\ UNCHANGED <<head, next, ch, heap, taken, client, cur, owed, lost, leaked, at>>
      /\ pc = "scan" /\ pc' = "free" /\ client \notin Clients
  BY DEF AllServed, list, fate
<1>2. In(head)' = In(head) /\ In(taken)' = In(taken)
  BY <1>1, InIs, InPrimed
<1>3. Chained'
  BY <1>1, <1>2, StillChained
<1>4. Owned' /\ Passed' /\ OwesWatched' /\ Distinct' /\ OwnCall' /\ \A t \in Tasks : at'[t] = Idle
  BY <1>1, <1>2 DEF Owned, Passed, OwesWatched, Distinct, OwnCall
<1>5. \A c \in Clients : Left(c)' = Left(c)
  BY <1>1, <1>2 DEF Left
<1>6. Queued'
  BY <1>1, <1>2, <1>5 DEF Queued, Carries
<1> QED BY <1>3, <1>4, <1>6

(* The clients are the first places of the list of clients. *)
LEMMA BehindAll ==
    ASSUME TypeOK, client \notin Clients, NEW c \in Clients
    PROVE  ~(client < c) /\ client # c
<1>1. Len(Watches) \in Nat /\ client \in 1 .. Len(Watches) + 1 /\ c \in 1 .. Len(Watches)
  BY QueueAssumption DEF TypeOK, Clients
<1>2. client = Len(Watches) + 1
  BY <1>1 DEF Clients
<1> QED BY <1>1, <1>2

(* The first of the taken nodes is freed: the others do not lead back to it. *)
LEMMA FreeNodeCalm == ASSUME TypeOK, Calm, FreeNode PROVE Calm'
<1> USE DEF Calm
<1>1. /\ UNCHANGED <<head, next, ch, pc, client, cur, owed, lost, leaked, at>>
      /\ pc = "free" /\ client \notin Clients /\ taken \in Nodes /\ next \in Links
      /\ heap' = heap \ {taken} /\ taken' = next[taken] /\ head \in Ptr
  BY DEF FreeNode, fate, TypeOK, Links, Ptr, Owned
<1>2. In(head)' = In(head) /\ In(taken) = {taken} \cup In(taken)' /\ taken \notin In(taken)'
  <2>1. Reach(next, taken) = {taken} \cup Reach(next, next[taken])
    BY <1>1, ReachStep
  <2>2. taken \in heap
    BY <2>1, InIs DEF Chained
  <2>3. taken \notin Reach(next, next[taken])
    BY <2>2, InIs DEF Chained
  <2> QED BY <1>1, <2>1, <2>3, InIs, InPrimed
<1>3. In(head) \cap In(taken) = {}
  BY <1>1 DEF Owned
<1>4. Chained'
  <2>1. /\ heap' = In(head)' \cup In(taken)' \cup leaked'
        /\ leaked' \cap (In(head)' \cup In(taken)') = {}
        /\ \A n \in leaked' : next'[n] \in leaked' \cup {Nil}
    BY <1>1, <1>2, <1>3 DEF Chained
  <2>2. \A n \in heap' : n \notin In(next[n])'
    BY <1>1, InIs, InPrimed DEF Chained, TypeOK
  <2> QED BY <1>1, <1>2, <2>1, <2>2 DEF Chained
<1>5. Owned' /\ Passed' /\ OwesWatched' /\ Distinct' /\ OwnCall' /\ \A t \in Tasks : at'[t] = Idle
  BY <1>1, <1>2, <1>3 DEF Owned, Passed, OwesWatched, Distinct, OwnCall
<1>6. \A c \in Clients : Left(c) = {} /\ Left(c)' = {}
  BY <1>1, BehindAll DEF Left
<1>7. Queued'
  BY <1>1, <1>2, <1>6 DEF Queued, Carries
<1> QED BY <1>4, <1>5, <1>7

(* The round ends. *)
LEMMA FreedCalm == ASSUME TypeOK, Calm, Freed PROVE Calm'
<1> USE DEF Calm
<1>1. /\ UNCHANGED <<head, next, ch, heap, taken, owed, lost, leaked, at>>
      /\ pc = "free" /\ pc' = "loop" /\ taken = Nil /\ client \notin Clients
  BY DEF Freed, list, fate, Owned
<1>2. In(head)' = In(head) /\ In(taken)' = {} /\ In(taken) = {}
  BY <1>1, InIs, InPrimed, ReachNil
<1>3. Chained'
  BY <1>1, <1>2, StillChained
<1>4. Owned' /\ Passed' /\ OwesWatched' /\ Distinct' /\ OwnCall' /\ \A t \in Tasks : at'[t] = Idle
  BY <1>1, <1>2 DEF Owned, Passed, OwesWatched, Distinct, OwnCall
<1>5. \A c \in Clients : Left(c) = {}
  BY <1>1, BehindAll DEF Left
<1>6. Queued'
  BY <1>1, <1>2, <1>5 DEF Queued, Carries
<1> QED BY <1>3, <1>4, <1>6

(* The nodes in use lead to nodes in use only. *)
LEMMA HeapClosed ==
    ASSUME TypeOK, Chained
    PROVE  /\ next \in Links /\ head \in Ptr /\ taken \in Ptr /\ heap \in SUBSET Nodes
           /\ Reach(next, head) \subseteq heap /\ Reach(next, taken) \subseteq heap
           /\ \A n \in heap : next[n] \in Ptr /\ Reach(next, next[n]) \subseteq heap
<1>1. next \in Links /\ head \in Ptr /\ taken \in Ptr /\ heap \in SUBSET Nodes
  BY DEF TypeOK, Links
<1>2. /\ heap = Reach(next, head) \cup Reach(next, taken) \cup leaked
      /\ \A n \in leaked : next[n] \in leaked \cup {Nil}
  BY InIs DEF Chained
<1>3. /\ \A n \in Reach(next, head) : next[n] \in Reach(next, head) \cup {Nil}
      /\ \A n \in Reach(next, taken) : next[n] \in Reach(next, taken) \cup {Nil}
  BY <1>1, ReachClosed
<1>4. \A n \in heap : next[n] \in heap \cup {Nil}
  BY <1>2, <1>3
<1>5. ASSUME NEW n \in heap PROVE Reach(next, next[n]) \subseteq heap
  BY <1>1, <1>4, ReachLeast
<1> QED BY <1>1, <1>2, <1>4, <1>5 DEF Ptr

(* A node put at the end of the list: the list has it, what the server holds and
   the other chains do not, unless the list is what the server is about to take. *)
LEMMA LinkedChains ==
    ASSUME TypeOK, Calm, NEW x \in Nodes \ heap, NEW p \in Last(head),
           next' \in Links,
           IF p = Nil THEN head' = x /\ next' = [next EXCEPT ![x] = Nil]
           ELSE next' = [next EXCEPT ![x] = Nil, ![p] = x] /\ head' = head,
           UNCHANGED <<taken, cur, pc>>
    PROVE  /\ In(head)' = In(head) \cup {x}
           /\ In(taken)' = IF pc = "take" THEN In(taken) \cup {x} ELSE In(taken)
           /\ pc \in {"scan", "send"} => In(cur)' = In(cur)
           /\ \A n \in heap \cup {x} : n \notin In(next[n])'
           /\ next'[x] = Nil /\ \A n \in heap : next'[n] = Nil <=> next[n] = Nil /\ n # p
           /\ \A n \in heap : n # p => next'[n] = next[n]
           /\ \A q \in In(head) : In(q)' = In(q) \cup {x} /\ Cut(q)' = Cut(q) \cup {x}
<1> USE DEF Calm
<1>1. /\ next \in Links /\ head \in Ptr /\ taken \in Ptr /\ heap \in SUBSET Nodes
      /\ Reach(next, head) \subseteq heap /\ Reach(next, taken) \subseteq heap
      /\ \A n \in heap : next[n] \in Ptr /\ Reach(next, next[n]) \subseteq heap
  BY HeapClosed
<1>2. x \in Nodes /\ x \notin heap /\ x # Nil
  BY QueueAssumption
<1>3. \A n \in heap : n \notin Reach(next, next[n])
  BY InIs DEF Chained
<1>4. CASE p = Nil
  <2>1. head = Nil /\ pc # "take" /\ head' = x
    BY <1>4, InIs, QueueAssumption DEF Last, Owned, In
  <2>2. next'[x] = Nil /\ \A n \in Nodes : n # x => next'[n] = next[n]
    BY <1>1, <1>2, <1>4 DEF Links
  <2>3. ASSUME NEW q \in Ptr, Reach(next, q) \subseteq heap PROVE Reach(next', q) = Reach(next, q)
    BY <1>1, <1>2, <2>2, <2>3, ReachSame
  <2>4. Reach(next', x) = {x}
    <3>1. Reach(next', x) = {x} \cup Reach(next', Nil)
      BY <1>2, <2>2, ReachStep
    <3> QED BY <3>1, ReachNil
  <2>5. In(head)' = In(head) \cup {x}
    BY <2>1, <2>4, InIs, InPrimed, ReachNil
  <2>6. In(taken)' = In(taken)
    BY <1>1, <2>3, InIs, InPrimed
  <2>7. ASSUME pc \in {"scan", "send"} PROVE In(cur)' = In(cur)
    <3>1. cur \in In(taken) \cup {Nil} /\ cur \in Ptr
      BY <2>7 DEF Owned, TypeOK
    <3>2. Reach(next, cur) \subseteq heap
      BY <1>1, <3>1, InIs, ReachWithin
    <3> QED BY <2>3, <3>1, <3>2, InIs, InPrimed
  <2>8. ASSUME NEW n \in heap \cup {x} PROVE n \notin In(next[n])'
    <3>1. CASE n = x
      BY <1>2, <2>2, <3>1, InPrimed, ReachNil
    <3>2. CASE n # x
      <4>1. n \in heap /\ next'[n] = next[n] /\ next[n] \in Ptr
        BY <1>1, <2>2, <3>2
      <4>2. In(next[n])' = Reach(next, next[n])
        BY <1>1, <2>3, <4>1, InPrimed
      <4> QED BY <1>3, <4>1, <4>2
    <3> QED BY <3>1, <3>2
  <2>9. \A n \in heap : /\ (next'[n] = Nil <=> next[n] = Nil /\ n # p)
                        /\ (n # p => next'[n] = next[n])
    BY <1>1, <1>2, <1>4, <2>2, QueueAssumption
  <2>10. In(head) = {}
    BY <2>1, InIs, ReachNil
  <2>11. \A q \in In(head) : In(q)' = In(q) \cup {x} /\ Cut(q)' = Cut(q) \cup {x}
    BY <2>10
  <2>12. next'[x] = Nil /\ \A n \in heap : next'[n] = Nil <=> next[n] = Nil /\ n # p
    BY <2>2, <2>9
  <2>13. \A n \in heap : n # p => next'[n] = next[n]
    BY <2>9
  <2>14. In(taken)' = IF pc = "take" THEN In(taken) \cup {x} ELSE In(taken)
    BY <2>1, <2>6
  <2>15. \A n \in heap \cup {x} : n \notin In(next[n])'
    BY <2>8
  <2> QED BY <2>5, <2>7, <2>11, <2>12, <2>13, <2>14, <2>15
<1>5. CASE p # Nil
  <2>1. head # Nil /\ p \in Reach(next, head) /\ next[p] = Nil /\ head' = head
    BY <1>5, InIs DEF Last
  <2>2. p \in heap /\ p \in Nodes /\ p # x
    BY <1>1, <1>2, <2>1
  <2>3. /\ next'[x] = Nil /\ next'[p] = x
        /\ \A n \in Nodes : n # p /\ n # x => next'[n] = next[n]
    BY <1>1, <1>2, <1>5, <2>2 DEF Links
  <2>4. ASSUME NEW q \in Ptr, Reach(next, q) \subseteq heap, p \notin Reach(next, q)
        PROVE  Reach(next', q) = Reach(next, q)
    <3>1. \A n \in Reach(next, q) : next'[n] = next[n]
      BY <1>1, <1>2, <2>3, <2>4
    <3> QED BY <1>1, <2>4, <3>1, ReachSame
  <2>5. ASSUME NEW q \in Ptr, Reach(next, q) \subseteq heap, p \in Reach(next, q)
        PROVE  Reach(next', q) = Reach(next, q) \cup {x}
    BY <1>1, <1>2, <2>1, <2>3, <2>5, ReachLinked
  <2>6. In(head)' = In(head) \cup {x}
    BY <1>1, <2>1, <2>5, InIs, InPrimed
  <2>7. pc # "take" => p \notin Reach(next, taken)
    BY <2>1, InIs, ReachNil DEF Owned
  <2>8. pc = "take" => p \in Reach(next, taken)
    BY <2>1 DEF Owned
  <2>9. In(taken)' = IF pc = "take" THEN In(taken) \cup {x} ELSE In(taken)
    BY <1>1, <2>4, <2>5, <2>7, <2>8, InIs, InPrimed
  <2>10. ASSUME pc \in {"scan", "send"} PROVE In(cur)' = In(cur)
    <3>1. cur \in Reach(next, taken) \cup {Nil} /\ cur \in Ptr
      BY <2>10, InIs DEF Owned, TypeOK
    <3>2. Reach(next, cur) \subseteq Reach(next, taken)
      BY <1>1, <3>1, ReachWithin
    <3>3. Reach(next', cur) = Reach(next, cur)
      BY <1>1, <2>4, <2>7, <2>10, <3>1, <3>2
    <3> QED BY <3>3, InIs, InPrimed
  <2>11. ASSUME NEW n \in heap \cup {x} PROVE n \notin In(next[n])'
    <3>1. CASE n = x
      BY <1>2, <2>3, <3>1, InPrimed, ReachNil
    <3>2. CASE n = p
      <4>1. Reach(next', x) = {x} \cup Reach(next', Nil)
        BY <1>2, <2>3, ReachStep
      <4> QED BY <2>2, <2>3, <3>2, <4>1, InPrimed, ReachNil
    <3>3. CASE n # x /\ n # p
      <4>1. n \in heap /\ n \in Nodes /\ next'[n] = next[n] /\ next[n] \in Ptr
        BY <1>1, <2>3, <3>3
      <4>2. Reach(next', next[n]) \subseteq Reach(next, next[n]) \cup {x}
        BY <1>1, <2>4, <2>5, <4>1
      <4> QED BY <1>3, <3>3, <4>1, <4>2, InPrimed
    <3> QED BY <3>1, <3>2, <3>3
  <2>12. \A n \in heap : /\ (next'[n] = Nil <=> next[n] = Nil /\ n # p)
                         /\ (n # p => next'[n] = next[n])
    BY <1>1, <1>2, <2>2, <2>3
  <2>13. ASSUME NEW q \in In(head)
         PROVE  In(q)' = In(q) \cup {x} /\ Cut(q)' = Cut(q) \cup {x}
    <3>1. q \in Reach(next, head) /\ q \in heap /\ q \in Nodes /\ q \in Ptr /\ q # Nil
      BY <1>1, InIs, QueueAssumption DEF Ptr
    <3>2. Reach(next, q) \subseteq heap /\ next[q] \in Ptr /\ Reach(next, next[q]) \subseteq heap
      BY <1>1, <3>1, ReachWithin
    <3>3. Reach(next, q) = {q} \cup Reach(next, next[q])
      BY <1>1, <3>1, ReachStep
    <3>4. Reach(next, p) = {p}
      BY <1>1, <2>1, <2>2, ReachStep, ReachNil
    <3>5. p \in Reach(next, q)
      BY <1>1, <2>1, <3>1, <3>3, <3>4, ReachLinear
    <3>6. In(q)' = In(q) \cup {x}
      <4>1. In(q)' = Reach(next', q)
        BY DEF In, Reach, Closed
      <4> QED BY <2>5, <3>1, <3>2, <3>5, <4>1, InIs
    <3>7. Cut(q)' = Reach(next', next'[q]) /\ Cut(q) = Reach(next, next[q])
      BY <3>1, InIs, InPrimed DEF Cut
    <3>8. Cut(q)' = Cut(q) \cup {x}
      <4>1. CASE q = p
        <5>1. Reach(next', x) = {x} \cup Reach(next', Nil)
          BY <1>2, <2>3, ReachStep
        <5> QED BY <2>1, <2>3, <3>7, <4>1, <5>1, ReachNil
      <4>2. CASE q # p
        <5>1. next'[q] = next[q] /\ p \in Reach(next, next[q])
          BY <1>2, <2>3, <3>1, <3>3, <3>5, <4>2
        <5> QED BY <2>5, <3>2, <3>7, <5>1
      <4> QED BY <4>1, <4>2
    <3> QED BY <3>6, <3>8
  <2>14. \A q \in In(head) : In(q)' = In(q) \cup {x} /\ Cut(q)' = Cut(q) \cup {x}
    BY <2>13
  <2>15. next'[x] = Nil /\ \A n \in heap : next'[n] = Nil <=> next[n] = Nil /\ n # p
    BY <2>3, <2>12
  <2>16. \A n \in heap : n # p => next'[n] = next[n]
    BY <2>12
  <2>17. \A n \in heap \cup {x} : n \notin In(next[n])'
    BY <2>11
  <2> QED BY <2>6, <2>9, <2>10, <2>14, <2>15, <2>16, <2>17
<1> QED BY <1>4, <1>5

(* A change is merged into the list, or linked after its end. *)
LEMMA NotifyCalm == ASSUME TypeOK, Calm, NEW k \in Chars, NotifyAtOnce(k) PROVE Calm'
<1> USE DEF Calm
<1>1. /\ owed' = Owes(k) /\ lost' = lost \ {k} /\ atOnce
      /\ UNCHANGED <<pc, taken, client, cur, sent, leaked, at>>
  BY DEF NotifyAtOnce, server
<1>2. \A c \in Clients : /\ k \in Watches[c] => owed'[c] = owed[c] \cup {k}
                         /\ k \notin Watches[c] => owed'[c] = owed[c]
  BY <1>1 DEF Owes
<1>3. OwesWatched'
  BY <1>2 DEF OwesWatched
<1>4. CASE Merges(k) /\ UNCHANGED list
  <2>1. UNCHANGED <<head, next, ch, heap>>
    BY <1>4 DEF list
  <2>2. In(head)' = In(head) /\ In(taken)' = In(taken) /\ In(cur)' = In(cur)
    BY <1>1, <2>1, InIs, InPrimed
  <2>3. Chained'
    BY <1>1, <2>1, <2>2, StillChained
  <2>4. Owned' /\ Passed' /\ Distinct'
    BY <1>1, <2>1, <2>2 DEF Owned, Passed, Distinct
  <2>5. \A c \in Clients : Left(c)' = Left(c)
    BY <1>1, <2>2 DEF Left
  <2>6. Queued'
    BY <1>2, <1>4, <2>1, <1>1, <2>2, <2>5 DEF Queued, Merges, Carries
  <2>7. OwnCall'
    <3>1. \A q : In(q)' = In(q) /\ Cut(q)' = Cut(q)
      BY <2>1 DEF Cut, In, Closed
    <3> QED BY <1>1, <2>1, <2>2, <3>1 DEF OwnCall, Walks, Appends
  <2> QED BY <1>1, <1>3, <2>3, <2>4, <2>6, <2>7
<1>5. CASE ~Merges(k) /\ \E p \in Last(head), pool \in SUBSET Nodes : LinkAfter(p, k, pool)
  <2>1. PICK p \in Last(head), pool \in SUBSET Nodes : LinkAfter(p, k, pool)
    BY <1>5
  <2>2. PICK x \in Nodes \ heap :
            /\ heap' = heap \cup {x} /\ ch' = [ch EXCEPT ![x] = k]
            /\ IF p = Nil THEN head' = x /\ next' = [next EXCEPT ![x] = Nil]
               ELSE next' = [next EXCEPT ![x] = Nil, ![p] = x] /\ UNCHANGED head
    BY <2>1, QueueAssumption DEF LinkAfter
  <2>3. next' \in Links
    BY <2>2 DEF TypeOK, Links, Ptr
  <2>4. /\ In(head)' = In(head) \cup {x}
        /\ In(taken)' = IF pc = "take" THEN In(taken) \cup {x} ELSE In(taken)
        /\ pc \in {"scan", "send"} => In(cur)' = In(cur)
        /\ \A n \in heap \cup {x} : n \notin In(next[n])'
        /\ next'[x] = Nil /\ \A n \in heap : next'[n] = Nil <=> next[n] = Nil /\ n # p
        /\ \A n \in heap : n # p => next'[n] = next[n]
        /\ \A q \in In(head) : In(q)' = In(q) \cup {x} /\ Cut(q)' = Cut(q) \cup {x}
    BY <1>1, <2>2, <2>3, LinkedChains
  <2>5. In(head) \subseteq heap /\ In(taken) \subseteq heap /\ x \notin heap /\ x # Nil
    BY HeapClosed, InIs, QueueAssumption
  <2>6. /\ ch'[x] = k /\ \A n \in heap : ch'[n] = ch[n]
    BY <2>2, <2>5 DEF TypeOK
  <2>7. head' # Nil
    BY <2>2, <2>5 DEF Last
  <2>8. Chained'
    <3>1. /\ heap' = In(head)' \cup In(taken)' \cup leaked'
          /\ leaked' \cap (In(head)' \cup In(taken)') = {}
      BY <1>1, <2>2, <2>4, <2>5 DEF Chained
    <3>5. \A n \in leaked' : next'[n] \in leaked' \cup {Nil}
      <4>1. p \notin leaked
        BY HeapClosed, QueueAssumption DEF Chained, Last
      <4> QED BY <1>1, <2>4, <4>1 DEF Chained
    <3>2. \E n \in In(head)' : next'[n] = Nil
      BY <2>4
    <3>3. \A m \in In(head) : next[m] = Nil => m = p
      BY InIs, ReachNil DEF Chained, Last
    <3>4. \A m, n \in In(head)' : next'[m] = Nil /\ next'[n] = Nil => m = n
      BY <2>4, <2>5, <3>3
    <3> QED BY <2>2, <2>4, <3>1, <3>2, <3>4, <3>5 DEF Chained
  <2>9. Owned'
    <3>1. pc = "take" => head' = head
      BY <2>2, QueueAssumption DEF Owned, Last, In
    <3> QED BY <1>1, <2>4, <2>5, <2>7, <3>1 DEF Owned
  <2>10. Passed'
    BY <1>1, <2>4, <2>5, <2>6 DEF Passed
  <2>11. Distinct'
    <3>1. \A n \in In(head) : ch[n] # k
      BY <1>5 DEF Merges
    <3> QED BY <2>4, <2>5, <2>6, <3>1 DEF Distinct
  <2>12. \A c \in Clients : Left(c) \subseteq Left(c)' /\ Left(c) \subseteq heap
    <3>1. pc = "send" => In(cur) \subseteq heap
      <4>1. ASSUME pc = "send" PROVE In(cur) \subseteq In(taken)
        <5>1. cur \in Reach(next, taken) \cup {Nil} /\ next \in Links /\ taken \in Ptr
          BY <4>1, InIs DEF Owned, TypeOK, Links
        <5> QED BY <5>1, InIs, ReachWithin
      <4> QED BY <2>5, <4>1
    <3> QED BY <1>1, <2>4, <2>5, <3>1 DEF Left
  <2>13. Queued'
    <3>1. ASSUME NEW c \in Clients, NEW j \in owed'[c] \ lost'
          PROVE  Carries(j)' \/ \E n \in In(head)' \cup Left(c)' : ch'[n] = j
      <4>1. CASE j = k
        BY <2>4, <2>6, <4>1
      <4>2. CASE j # k
        <5>1. j \in owed[c] \ lost
          BY <1>1, <1>2, <3>1, <4>2
        <5>2. CASE Carries(j)
          BY <1>1, <5>2 DEF Carries
        <5>3. CASE ~Carries(j)
          <6>1. PICK n \in In(head) \cup Left(c) : ch[n] = j
            BY <5>1, <5>3 DEF Queued
          <6> QED BY <2>4, <2>5, <2>6, <2>12, <6>1
        <5> QED BY <5>2, <5>3
      <4> QED BY <4>1, <4>2
    <3> QED BY <3>1 DEF Queued
  <2>14. OwnCall'
    <3>1. ASSUME NEW q, NEW j, Walks(q, j) PROVE Walks(q, j)'
      <4>1. /\ q \in In(head) /\ \A n \in In(head) : n \in In(q) \/ ch[n] # j
            /\ In(q)' = In(q) \cup {x}
        BY <2>4, <3>1 DEF Walks
      <4> QED BY <2>4, <2>5, <2>6, <4>1 DEF Walks
    <3>2. ASSUME NEW q, NEW j, Appends(q, j) PROVE Appends(q, j)'
      <4>1. q \in In(head) \cup {Nil} /\ \A n \in In(head) : n \in Cut(q) \/ ch[n] # j
        BY <3>2 DEF Appends
      <4>2. CASE q \in In(head)
        <5>1. Cut(q)' = Cut(q) \cup {x}
          BY <2>4, <4>2
        <5> QED BY <2>4, <2>5, <2>6, <4>1, <4>2, <5>1 DEF Appends
      <4>3. CASE q = Nil
        BY <4>3 DEF Appends, Cut
      <4> QED BY <4>1, <4>2, <4>3
    <3> QED BY <1>1, <3>1, <3>2 DEF OwnCall
  <2> QED BY <1>1, <1>3, <2>8, <2>9, <2>10, <2>11, <2>13, <2>14
<1> QED BY <1>4, <1>5, QueueAssumption DEF NotifyAtOnce

(* A step of the server's own call that leaves the list alone. *)
LEMMA StillCalm ==
    ASSUME TypeOK, Calm, UNCHANGED <<list, server, leaked>>, OwnCall', OwesWatched', Queued',
           \A t \in Tasks : at'[t] = Idle
    PROVE  Calm'
<1> USE DEF Calm
<1>1. UNCHANGED <<head, next, ch, heap, pc, taken, client, cur>>
  BY DEF list, server
<1>2. In(head)' = In(head) /\ In(taken)' = In(taken) /\ In(cur)' = In(cur)
  BY <1>1, InIs, InPrimed
<1>3. Chained'
  BY <1>1, <1>2, StillChained
<1>4. Owned' /\ Passed' /\ Distinct'
  BY <1>1, <1>2 DEF Owned, Passed, Distinct
<1> QED BY <1>3, <1>4

(* The list and what is left of it, when nothing moves. *)
LEMMA SameLists ==
    ASSUME UNCHANGED <<list, server>>
    PROVE  /\ In(head)' = In(head) /\ \A c \in Clients : Left(c)' = Left(c)
           /\ \A q : In(q)' = In(q) /\ Cut(q)' = Cut(q)
<1>1. UNCHANGED <<head, next, ch, heap, pc, taken, client, cur>>
  BY DEF list, server
<1>2. In(head)' = In(head) /\ In(taken)' = In(taken) /\ In(cur)' = In(cur)
  BY <1>1, InIs, InPrimed
<1>3. \A c \in Clients : Left(c)' = Left(c)
  BY <1>1, <1>2 DEF Left
<1>4. \A q : In(q)' = In(q) /\ Cut(q)' = Cut(q)
  BY <1>1 DEF In, Closed, Cut
<1> QED BY <1>2, <1>3, <1>4

(* A setter of the server begins to notify: it has passed nothing yet. *)
LEMMA BeginCalm ==
    ASSUME TypeOK, Calm, atOnce, NEW k \in Chars, Begin(Server, k) PROVE Calm'
<1> USE DEF Calm
<1>1. /\ UNCHANGED <<list, server, leaked>> /\ pc = "loop" /\ at[Server] = Idle
      /\ owed' = Owes(k) /\ lost' = lost \ {k}
      /\ at' = [at EXCEPT ![Server] = <<IF head = Nil THEN "link" ELSE "walk", head, k>>]
  BY DEF Begin
<1>2. UNCHANGED <<head, next, ch, heap, pc, taken, client, cur>>
  BY <1>1 DEF list, server
<1>3. /\ at'[Server] = <<IF head = Nil THEN "link" ELSE "walk", head, k>>
      /\ \A t \in Tasks : at'[t] = Idle
  BY <1>1, QueueAssumption DEF TypeOK, Callers
<1>4. /\ In(head)' = In(head) /\ \A c \in Clients : Left(c)' = Left(c)
      /\ \A q : In(q)' = In(q) /\ Cut(q)' = Cut(q)
  BY <1>1, SameLists
<1>5. \A c \in Clients : /\ k \in Watches[c] => owed'[c] = owed[c] \cup {k}
                         /\ k \notin Watches[c] => owed'[c] = owed[c]
  BY <1>1 DEF Owes
<1>6. OwesWatched'
  BY <1>5 DEF OwesWatched
<1>7. OwnCall'
  <2>1. CASE head = Nil
    <3>1. at'[Server] = <<"link", Nil, k>> /\ pc' = "loop"
      BY <1>1, <1>2, <1>3, <2>1
    <3>2. Appends(at[Server][2], at[Server][3])'
      BY <1>2, <2>1, <3>1 DEF Appends, Cut
    <3> QED BY <3>1, <3>2 DEF OwnCall
  <2>2. CASE head # Nil
    <3>1. at'[Server] = <<"walk", head, k>> /\ pc' = "loop"
      BY <1>1, <1>2, <1>3, <2>2
    <3>2. head \in In(head)
      BY <2>2, InIs, ReachClosed DEF TypeOK, Links
    <3>3. Walks(at[Server][2], at[Server][3])'
      BY <1>2, <1>4, <3>1, <3>2 DEF Walks
    <3> QED BY <3>1, <3>3 DEF OwnCall
  <2> QED BY <2>1, <2>2
<1>8. Carries(k)'
  BY <1>3 DEF Carries, Idle
<1>9. Queued'
  <2>1. ASSUME NEW c \in Clients, NEW j \in owed'[c] \ lost', j # k
        PROVE  \E n \in In(head)' \cup Left(c)' : ch'[n] = j
    <3>1. j \in owed[c] \ lost /\ ~Carries(j)
      BY <1>1, <1>5, <2>1 DEF Carries
    <3> QED BY <1>2, <1>4, <3>1 DEF Queued
  <2> QED BY <1>8, <2>1 DEF Queued
<1> QED BY <1>1, <1>3, <1>6, <1>7, <1>9, StillCalm

(* It finds the characteristic in the list, or goes on to the next node. *)
LEMMA WalkCalm == ASSUME TypeOK, Calm, Walk(Server) PROVE Calm'
<1> USE DEF Calm
<1> DEFINE p == at[Server][2]
           k == at[Server][3]
           new == CASE ch[p] = k -> Idle
                    [] ch[p] # k /\ next[p] # Nil -> <<"walk", next[p], k>>
                    [] OTHER -> <<"link", p, k>>
<1>1. /\ UNCHANGED <<list, server, owed, lost, leaked>> /\ at[Server][1] = "walk"
      /\ at' = [at EXCEPT ![Server] = new]
  BY DEF Walk, fate
<1>2. UNCHANGED <<head, next, ch, heap, pc, taken, client, cur>>
  BY <1>1 DEF list, server
<1>3. at'[Server] = new /\ \A t \in Tasks : at'[t] = Idle
  BY <1>1, QueueAssumption DEF TypeOK, Callers
<1> HIDE DEF new
<1>4. /\ In(head)' = In(head) /\ \A c \in Clients : Left(c)' = Left(c)
      /\ \A q : In(q)' = In(q) /\ Cut(q)' = Cut(q)
  BY <1>1, SameLists
<1>5. at[Server] # Idle
  BY <1>1 DEF Idle
<1>6. pc = "loop" /\ Walks(p, k)
  BY <1>1, <1>5 DEF OwnCall
<1>7. p \in In(head) /\ \A n \in In(head) : n \in In(p) \/ ch[n] # k
  BY <1>6 DEF Walks
<1> HIDE DEF p, k
<1>8. next \in Links /\ head \in Ptr /\ p \in Nodes /\ p \in Reach(next, head) /\ p # Nil
  BY <1>7, InIs, QueueAssumption DEF TypeOK, Links, In
<1>9. next[p] \in In(head) \cup {Nil} /\ In(p) = {p} \cup In(next[p])
  BY <1>8, InIs, ReachClosed, ReachStep
<1>10. OwesWatched'
  BY <1>1 DEF OwesWatched
<1>11. CASE ch[p] = k
  <2>1. at'[Server] = Idle
    BY <1>3, <1>11 DEF new
  <2>2. OwnCall'
    BY <2>1 DEF OwnCall
  <2>3. Queued'
    <3>1. \A j : Carries(j) => j = k
      BY DEF Carries, k
    <3> QED BY <1>1, <1>2, <1>4, <1>7, <1>11, <3>1 DEF Queued
  <2> QED BY <1>1, <1>3, <1>10, <2>2, <2>3, StillCalm
<1>12. CASE ch[p] # k
  <2>1. \/ at'[Server] = <<"walk", next[p], k>> /\ next[p] # Nil
        \/ at'[Server] = <<"link", p, k>> /\ next[p] = Nil
    BY <1>3, <1>12 DEF new
  <2>2. OwnCall'
    <3>1. CASE at'[Server] = <<"walk", next[p], k>> /\ next[p] # Nil
      <4>1. next[p] \in In(head) /\ \A n \in In(head) : n \in In(next[p]) \/ ch[n] # k
        BY <1>7, <1>9, <1>12, <3>1
      <4>2. Walks(at[Server][2], at[Server][3])'
        BY <1>2, <1>4, <3>1, <4>1 DEF Walks
      <4> QED BY <1>2, <1>6, <3>1, <4>2 DEF OwnCall
    <3>2. CASE at'[Server] = <<"link", p, k>> /\ next[p] = Nil
      <4>1. \A n \in In(head) : ch[n] # k
        BY <1>7, <1>9, <1>12, <3>2, InIs, ReachNil
      <4>2. Appends(at[Server][2], at[Server][3])'
        BY <1>2, <1>4, <1>7, <3>2, <4>1 DEF Appends
      <4> QED BY <1>2, <1>6, <3>2, <4>2 DEF OwnCall
    <3> QED BY <2>1, <3>1, <3>2
  <2>3. at'[Server] # Idle /\ at'[Server][3] = k
    BY <2>1 DEF Idle
  <2>4. \A j : Carries(j)' = Carries(j)
    BY <1>5, <2>3 DEF Carries, k
  <2>5. Queued'
    BY <1>1, <1>2, <1>4, <2>4 DEF Queued
  <2> QED BY <1>1, <1>3, <1>10, <2>2, <2>5, StillCalm
<1> QED BY <1>11, <1>12

(* The list after the server's link: what came behind the node it found last is
   cut off and leaks, the new node is the end. *)
LEMMA LinkedCut ==
    ASSUME TypeOK, Calm, NEW x \in Nodes \ heap, NEW p \in In(head) \cup {Nil},
           pc = "loop", next' \in Links,
           IF p = Nil THEN head' = x /\ next' = [next EXCEPT ![x] = Nil]
           ELSE next' = [next EXCEPT ![x] = Nil, ![p] = x] /\ head' = head,
           heap' = heap \cup {x}, leaked' = leaked \cup Cut(p), UNCHANGED <<taken, pc>>
    PROVE  /\ In(head)' = (In(head) \ Cut(p)) \cup {x}
           /\ In(taken) = {} /\ In(taken)' = {} /\ Chained'
<1> USE DEF Calm
<1>1. /\ next \in Links /\ head \in Ptr /\ taken \in Ptr /\ heap \in SUBSET Nodes
      /\ Reach(next, head) \subseteq heap /\ Reach(next, taken) \subseteq heap
      /\ \A n \in heap : next[n] \in Ptr /\ Reach(next, next[n]) \subseteq heap
  BY HeapClosed
<1>2. x \in Nodes /\ x \notin heap /\ x # Nil
  BY QueueAssumption
<1>3. In(taken) = {} /\ In(taken)' = {}
  BY InIs, InPrimed, ReachNil DEF Owned
<1>4. heap = In(head) \cup leaked /\ leaked \cap In(head) = {}
  BY <1>3 DEF Chained
<1>5. /\ next'[x] = Nil
      /\ p \in Nodes => next'[p] = x
      /\ \A n \in Nodes : n # p /\ n # x => next'[n] = next[n]
  BY <1>1, <1>2, InIs, QueueAssumption DEF Links
<1>6. /\ In(head)' = (In(head) \ Cut(p)) \cup {x}
      /\ Cut(p) \subseteq In(head) /\ p \notin Cut(p)
      /\ \A n \in Cut(p) : next[n] \in Cut(p) \cup {Nil}
      /\ p # Nil => \A m \in In(head) : next[m] = Nil => m = p \/ m \in Cut(p)
  <2>1. CASE p = Nil
    <3>1. head' = x /\ Reach(next', x) = {x} \cup Reach(next', Nil)
      BY <1>2, <1>5, <2>1, ReachStep
    <3>2. In(head)' = {x} /\ Cut(p) = In(head)
      BY <2>1, <3>1, InPrimed, ReachNil DEF Cut
    <3> QED BY <1>1, <2>1, <3>2, InIs, ReachClosed, QueueAssumption
  <2>2. CASE p # Nil
    <3>1. p \in Reach(next, head) /\ p \in heap /\ p \in Nodes /\ next[p] \in Ptr /\ head' = head
      BY <1>1, <2>2, InIs
    <3>2. Cut(p) = Reach(next, next[p]) /\ p \notin Reach(next, next[p])
      BY <2>2, <3>1, InIs DEF Cut, Chained
    <3>3. Reach(next', head) = (Reach(next, head) \ Reach(next, next[p])) \cup {x}
      BY <1>1, <1>2, <1>5, <3>1, <3>2, ReachCut
    <3>4. next[p] \in Reach(next, head) \cup {Nil}
      BY <1>1, <3>1, ReachClosed
    <3>5. /\ Reach(next, next[p]) \subseteq Reach(next, head)
          /\ \A n \in Reach(next, next[p]) : next[n] \in Reach(next, next[p]) \cup {Nil}
      BY <1>1, <3>1, <3>4, ReachWithin, ReachClosed
    <3>6. ASSUME NEW m \in In(head), next[m] = Nil PROVE m = p \/ m \in Cut(p)
      <4>1. m \in Reach(next, head) /\ m \in Nodes
        BY <1>1, InIs
      <4>2. Reach(next, m) = {m} \cup Reach(next, Nil)
        BY <1>1, <3>6, <4>1, ReachStep
      <4>3. Reach(next, p) = {p} \cup Reach(next, next[p])
        BY <1>1, <3>1, ReachStep
      <4>4. p \in Reach(next, m) \/ m \in Reach(next, p)
        BY <1>1, <3>1, <4>1, ReachLinear
      <4> QED BY <3>2, <4>2, <4>3, <4>4, ReachNil
    <3> QED BY <3>1, <3>2, <3>3, <3>5, <3>6, InIs, InPrimed
  <2> QED BY <2>1, <2>2
<1>7. /\ heap' = In(head)' \cup In(taken)' \cup leaked'
      /\ leaked' \cap (In(head)' \cup In(taken)') = {}
  BY <1>2, <1>3, <1>4, <1>6
<1>8. \A n \in leaked' : next'[n] \in leaked' \cup {Nil}
  <2>1. ASSUME NEW n \in leaked' PROVE next'[n] \in leaked' \cup {Nil}
    <3>1. n \in leaked \cup Cut(p) /\ n \in heap /\ n # p /\ n # x /\ n \in Nodes
      BY <1>1, <1>2, <1>4, <1>6, QueueAssumption
    <3>2. next'[n] = next[n]
      BY <1>5, <3>1
    <3> QED BY <1>6, <3>1, <3>2 DEF Chained
  <2> QED BY <2>1
<1>9. ASSUME NEW n \in heap' PROVE n \notin In(next[n])'
  <2>1. In(next[n])' = Reach(next', next'[n])
    BY <1>1, <1>2, InPrimed
  <2>2. CASE n = x
    BY <1>5, <2>1, <2>2, ReachNil
  <2>3. CASE n # x /\ n = p
    <3>1. next'[n] = x /\ Reach(next', x) = {x} \cup Reach(next', Nil)
      BY <1>1, <1>2, <1>5, <2>3, ReachStep
    <3> QED BY <2>1, <2>3, <3>1, ReachNil
  <2>4. CASE n # x /\ n # p
    <3>1. n \in heap /\ n \in Nodes /\ next'[n] = next[n] /\ next[n] \in Ptr
      BY <1>1, <1>5, <2>4
    <3>2. Reach(next', next[n]) \subseteq Reach(next, next[n]) \cup {x}
      BY <1>1, <1>2, <1>5, <3>1, ReachMore
    <3>3. n \notin Reach(next, next[n])
      BY <3>1, InIs DEF Chained
    <3> QED BY <2>1, <2>4, <3>1, <3>2, <3>3
  <2> QED BY <2>2, <2>3, <2>4
<1>10. \E n \in In(head)' : next'[n] = Nil
  BY <1>5, <1>6
<1>11. ASSUME NEW m \in In(head)', NEW n \in In(head)', next'[m] = Nil, next'[n] = Nil
       PROVE  m = n
  <2>1. ASSUME NEW y \in In(head)', next'[y] = Nil PROVE y = x
    <3>1. CASE p = Nil
      BY <1>6, <3>1 DEF Cut
    <3>2. CASE p # Nil
      <4>1. p \in Nodes
        BY <1>1, <3>2, InIs
      <4>2. y # p
        BY <1>2, <1>5, <2>1, <4>1
      <4>3. SUFFICES ASSUME y # x PROVE FALSE
        OBVIOUS
      <4>4. y \in In(head) /\ y \notin Cut(p) /\ y \in Nodes
        BY <1>1, <1>6, <2>1, <4>3, InIs
      <4>5. next[y] = Nil
        BY <1>5, <2>1, <4>2, <4>3, <4>4
      <4> QED BY <1>6, <3>2, <4>2, <4>4, <4>5
    <3> QED BY <3>1, <3>2
  <2> QED BY <1>11, <2>1
<1> QED BY <1>3, <1>6, <1>7, <1>8, <1>9, <1>10, <1>11 DEF Chained

(* The server links its own node. *)
LEMMA LinkCalm == ASSUME TypeOK, Calm, atOnce, Link(Server) PROVE Calm'
<1> USE DEF Calm
<1> DEFINE p == at[Server][2]
           k == at[Server][3]
<1>1. /\ UNCHANGED <<pc, taken, client, cur, owed>> /\ at[Server][1] = "link"
      /\ at' = [at EXCEPT ![Server] = Idle] /\ LinkAfter(p, k, Nodes)
      /\ leaked' = leaked \cup Cut(p) /\ lost' = (lost \cup {ch[n] : n \in Cut(p)}) \ {k}
  BY DEF Link, server
<1>2. at[Server] # Idle
  BY <1>1 DEF Idle
<1>3. pc = "loop" /\ Appends(p, k)
  BY <1>1, <1>2 DEF OwnCall
<1>4. \A j : Carries(j) => j = k
  BY DEF Carries
<1> HIDE DEF p, k
<1>5. p \in In(head) \cup {Nil} /\ \A n \in In(head) : n \in Cut(p) \/ ch[n] # k
  BY <1>3 DEF Appends
<1>6. PICK x \in Nodes \ heap :
          /\ heap' = heap \cup {x} /\ ch' = [ch EXCEPT ![x] = k]
          /\ IF p = Nil THEN head' = x /\ next' = [next EXCEPT ![x] = Nil]
             ELSE next' = [next EXCEPT ![x] = Nil, ![p] = x] /\ UNCHANGED head
  BY <1>1 DEF LinkAfter
<1>7. next' \in Links
  BY <1>5, <1>6 DEF TypeOK, Links, Ptr
<1>8. /\ In(head)' = (In(head) \ Cut(p)) \cup {x}
      /\ In(taken) = {} /\ In(taken)' = {} /\ Chained'
  BY <1>1, <1>3, <1>5, <1>6, <1>7, LinkedCut
<1>9. In(head) \subseteq heap /\ x \notin heap
  BY HeapClosed, InIs
<1>10. ch'[x] = k /\ \A n \in heap : ch'[n] = ch[n]
  BY <1>6, <1>9 DEF TypeOK
<1>11. Distinct'
  BY <1>5, <1>8, <1>9, <1>10 DEF Distinct
<1>12. Owned' /\ Passed' /\ OwesWatched'
  BY <1>1, <1>3 DEF Owned, Passed, OwesWatched
<1>13. at'[Server] = Idle /\ \A t \in Tasks : at'[t] = Idle
  BY <1>1, QueueAssumption DEF TypeOK, Callers
<1>14. OwnCall'
  BY <1>13 DEF OwnCall
<1>15. Queued'
  <2>1. ASSUME NEW c \in Clients, NEW j \in owed'[c] \ lost'
        PROVE  \E n \in In(head)' : ch'[n] = j
    <3>1. CASE j = k
      BY <1>8, <1>10, <3>1
    <3>2. CASE j # k
      <4>1. j \in owed[c] \ lost /\ ~Carries(j) /\ j \notin {ch[n] : n \in Cut(p)}
        BY <1>1, <1>4, <2>1, <3>2
      <4>2. Left(c) = {}
        BY <1>3, <1>8 DEF Left
      <4>3. PICK n \in In(head) : ch[n] = j
        BY <4>1, <4>2 DEF Queued
      <4>4. n \notin Cut(p)
        BY <4>1, <4>3
      <4> QED BY <1>8, <1>9, <1>10, <4>3, <4>4
    <3> QED BY <3>1, <3>2
  <2> QED BY <2>1 DEF Queued
<1> QED BY <1>8, <1>11, <1>12, <1>13, <1>14, <1>15

----
(* Whoever links a node, and whatever has become of the node it found last: the
   new node is linked from there only, and nothing that is linked is freed. *)
LEMMA LinkLive ==
    ASSUME TypeOK, Live, NEW p \in Ptr, NEW k, NEW pool \in SUBSET Nodes,
           LinkAfter(p, k, pool), UNCHANGED <<pc, taken, cur>>
    PROVE  Live'
<1>1. PICK x \in Nodes \ heap :
          /\ heap' = heap \cup {x}
          /\ IF p = Nil THEN head' = x /\ next' = [next EXCEPT ![x] = Nil]
             ELSE next' = [next EXCEPT ![x] = Nil, ![p] = x] /\ UNCHANGED head
  BY DEF LinkAfter
<1>2. x # Nil /\ x # head /\ x # taken /\ \A m \in heap : next[m] # x
  BY QueueAssumption DEF Live
<1>3. /\ next'[x] = (IF p = x THEN x ELSE Nil)
      /\ p \in heap => next'[p] = x
      /\ \A m \in heap : m # p => next'[m] = next[m]
  BY <1>1, QueueAssumption DEF TypeOK, Ptr
<1>4. head' \in heap' \cup {Nil} /\ taken' \in heap' \cup {Nil}
  BY <1>1 DEF Live
<1>5. \A m \in heap' : next'[m] \in heap' \cup {Nil}
  BY <1>1, <1>3 DEF Live
<1>6. \A m, n \in heap' : next'[m] = next'[n] /\ next'[m] # Nil => m = n
  BY <1>1, <1>2, <1>3 DEF Live
<1>7. \A m \in heap' : next'[m] # Nil => next'[m] # head' /\ next'[m] # taken'
  <2>1. CASE p = Nil
    BY <1>1, <1>2, <1>3, <2>1, QueueAssumption DEF Live, TypeOK
  <2>2. CASE p # Nil
    BY <1>1, <1>2, <1>3, <2>2 DEF Live
  <2> QED BY <2>1, <2>2
<1>8. head' = taken' /\ head' # Nil => pc' = "take"
  BY <1>1, <1>2 DEF Live
<1>9. pc' \in {"scan", "send"} => cur' \in heap' \cup {Nil}
  BY <1>1 DEF Live
<1> QED BY <1>4, <1>5, <1>6, <1>7, <1>8, <1>9 DEF Live

(* No step of anybody breaks it. *)
LEMMA LiveStep == ASSUME TypeOK, Live, [Next]_vars PROVE Live'
<1> USE DEF Live
<1>1. ASSUME UNCHANGED <<head, next, heap, pc, taken, cur>> PROVE Live'
  BY <1>1
<1>2. CASE UNCHANGED vars
  BY <1>1, <1>2 DEF vars, list, server
<1>3. ASSUME NEW t \in Callers, NEW k \in Chars, Begin(t, k) PROVE Live'
  BY <1>1, <1>3 DEF Begin, list, server
<1>4. ASSUME NEW t \in Callers, Walk(t) PROVE Live'
  BY <1>1, <1>4 DEF Walk, list, server
<1>5. ASSUME NEW t \in Callers, Link(t) PROVE Live'
  <2>1. at[t][1] = "link" => at[t][2] \in Ptr
    BY DEF TypeOK, Idle
  <2>2. at[t][2] \in Ptr /\ \E pool \in SUBSET Nodes : LinkAfter(at[t][2], at[t][3], pool)
    BY <1>5, <2>1, QueueAssumption DEF Link
  <2>3. UNCHANGED <<pc, taken, cur>>
    BY <1>5 DEF Link, server
  <2> HIDE DEF Live
  <2> QED BY <2>2, <2>3, LinkLive
<1>6. ASSUME NEW k \in Chars, NotifyAtOnce(k) PROVE Live'
  <2>1. UNCHANGED <<pc, taken, cur>>
    BY <1>6 DEF NotifyAtOnce, server
  <2>2. CASE UNCHANGED list
    BY <1>1, <2>1, <2>2 DEF list
  <2>3. CASE \E p \in Last(head) : \E pool \in SUBSET Nodes : LinkAfter(p, k, pool)
    <3>1. PICK p \in Ptr, pool \in SUBSET Nodes : LinkAfter(p, k, pool)
      BY <2>3 DEF Last, In, Ptr
    <3> HIDE DEF Live
    <3> QED BY <2>1, <3>1, LinkLive
  <2> QED BY <1>6, <2>2, <2>3, QueueAssumption DEF NotifyAtOnce
<1>7. CASE Look \/ Take \/ Scan \/ Send \/ NextClient \/ AllServed \/ Freed
  BY <1>7 DEF Look, Take, Scan, Send, NextClient, AllServed, Freed, list
<1>8. CASE FreeNode
  <2>1. /\ pc = "free" /\ taken \in heap /\ taken # Nil /\ head # taken
        /\ heap' = heap \ {taken} /\ taken' = next[taken]
        /\ UNCHANGED <<head, next, pc, cur>>
    BY <1>8 DEF FreeNode
  <2> QED BY <2>1
<1> QED BY <1>2, <1>3, <1>4, <1>5, <1>6, <1>7, <1>8 DEF Next, ServerStep, Callers

----
(* The invariant the theorems follow from. *)
LEMMA InvAlways == Spec => []Inv
<1>1. Init => Inv
  <2> SUFFICES ASSUME Init PROVE Inv
    OBVIOUS
  <2>1. Len(Watches) \in Nat /\ \A c \in Clients : c \in 1 .. Len(Watches)
    BY QueueAssumption DEF Clients
  <2>2. TypeOK
    <3>1. (CHOOSE c \in Chars : TRUE) \in Chars
      BY QueueAssumption
    <3>2. ch \in [Nodes -> Chars]
      BY <3>1 DEF Init
    <3>3. 1 \in 1 .. Len(Watches) + 1
      BY <2>1
    <3>4. at \in [Callers -> {Idle} \cup {"walk"} \X Nodes \X Chars \cup {"link"} \X Ptr \X Chars]
      BY DEF Init
    <3>5. owed \in [Clients -> SUBSET Chars] /\ next \in [Nodes -> Ptr]
      BY DEF Init, Ptr
    <3> QED BY <3>2, <3>3, <3>4, <3>5 DEF Init, TypeOK, Ptr
  <2>3. In(head) = {} /\ In(taken) = {}
    BY InIs, ReachNil DEF Init
  <2>4. at[Server] = Idle /\ \A t \in Tasks : at[t] = Idle
    BY DEF Init, Callers
  <2>5. \A c \in Clients : owed[c] = {}
    BY DEF Init
  <2>6. Calm
    BY <2>3, <2>4, <2>5
       DEF Init, Calm, Chained, Owned, Passed, OwnCall, Distinct, OwesWatched, Queued
  <2>7. Live
    BY DEF Init, Live
  <2> QED BY <2>2, <2>6, <2>7 DEF Inv
<1>2. Inv /\ [Next]_vars => Inv'
  <2> SUFFICES ASSUME Inv, [Next]_vars PROVE Inv'
    OBVIOUS
  <2>1. TypeOK /\ TypeOK' /\ Live'
    BY TypeStep, LiveStep DEF Inv
  <2>2. atOnce' = atOnce
    BY DEF Next, ServerStep, NotifyAtOnce, Begin, Walk, Link, Look, Take, Scan, Send, NextClient,
       AllServed, FreeNode, Freed, vars
  <2>3. ASSUME atOnce PROVE Calm'
    <3>1. Calm
      BY <2>3 DEF Inv
    <3>2. ASSUME NEW t \in Tasks PROVE ~Walk(t) /\ ~Link(t)
      BY <3>1 DEF Calm, Walk, Link, Idle
    <3>3. ASSUME NEW t \in Callers, NEW k \in Chars, Begin(t, k) PROVE t = Server
      BY <2>3, <3>3 DEF Begin
    <3>4. CASE UNCHANGED vars
      <4>1. /\ UNCHANGED <<list, server, leaked>>
            /\ UNCHANGED <<head, next, ch, pc, owed, lost, at>>
        BY <3>4 DEF vars, list, server, fate
      <4>2. /\ In(head)' = In(head) /\ \A c \in Clients : Left(c)' = Left(c)
            /\ \A q : In(q)' = In(q) /\ Cut(q)' = Cut(q)
        BY <4>1, SameLists
      <4>3. OwnCall' /\ OwesWatched' /\ Queued' /\ \A t \in Tasks : at'[t] = Idle
        BY <3>1, <4>1, <4>2
           DEF Calm, OwnCall, Walks, Appends, OwesWatched, Queued, Carries
      <4> QED BY <2>1, <3>1, <4>1, <4>3, StillCalm
    <3> QED BY <2>1, <2>3, <3>1, <3>2, <3>3, <3>4, LookCalm, TakeCalm, ScanCalm, SendCalm,
               NextClientCalm, AllServedCalm, FreeNodeCalm, FreedCalm, NotifyCalm, BeginCalm,
               WalkCalm, LinkCalm DEF Next, ServerStep, Callers
  <2> QED BY <2>1, <2>2, <2>3 DEF Inv
<1> QED BY <1>1, <1>2, PTL DEF Spec

(* The pointers stay pointers to nodes or NULL, whoever changes the list
   between two accesses of whom. *)
THEOREM TypeCorrect == Spec => []TypeOK
<1>1. Inv => TypeOK
  BY DEF Inv
<1> QED BY <1>1, InvAlways, PTL

(* The server never follows a pointer to a node it has freed, nor frees one
   twice: whichever tasks notify, its own setters among them, and wherever they are
   interrupted. *)
THEOREM NoUseAfterFree == Spec => []NodesLive
<1>1. Inv => NodesLive
  BY DEF Inv, Live, NodesLive
<1> QED BY <1>1, InvAlways, PTL

(* When timer callbacks and the server's own setters notify, a change is lost to a
   client only where a callback came between the last test and the link of a
   setter's call. *)
THEOREM NothingElseIsLost == Spec => []OwedIsQueued
<1>1. Inv => OwedIsQueued
  BY DEF Inv, Calm, Queued, OwedIsQueued
<1> QED BY <1>1, InvAlways, PTL

(* A characteristic they notify waits once, and a node that is neither in the list
   nor with the server was overwritten there. *)
THEOREM QueuedOnce == Spec => []NoDuplicates
<1>1. Inv => NoDuplicates
  BY DEF Inv, Calm, Chained, Distinct, NoDuplicates
<1> QED BY <1>1, InvAlways, PTL
====

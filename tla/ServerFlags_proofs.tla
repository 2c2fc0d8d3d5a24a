---- MODULE ServerFlags_proofs ----
(* Machine-checked facts about the flags byte, for every number of connections
   and every configured maximum that its five bits can hold. *)
EXTENDS ServerFlags, SequenceTheorems, TLAPS

(* The most clients there can be between two passes. *)
Limit == IF Requested - 1 >= MinClients THEN Requested - 1 ELSE MinClients

(* The server task has loaded the byte for a change that is still to be made,
   and it walks the list only in close_clients. *)
Steps == /\ reg # NoByte => pc \in Changes
         /\ pc \notin {"walk", "dec"} => kept = 0

(* What the count lags behind the list, or is ahead of it, by: a client is
   counted after it was linked, and discounted after it was unlinked. *)
Lag == IF pc = "inc" THEN 1 ELSE IF pc = "dec" THEN -1 ELSE 0

(* The count is changed by the server alone, and nobody changes it between the
   server's load and its store. *)
Counted ==
    preempt => /\ caller = NoByte
               /\ byte.count + Lag = Len(list)
               /\ reg # NoByte => reg.count = byte.count

(* One client too many is there only until the walk comes to a marked one. *)
Crowded ==
    preempt => \/ Len(list) <= Limit
               \/ /\ Len(list) = Limit + 1
                  /\ \/ pc \in {"inc", "full"}
                     \/ /\ pc \in {"evict", "close", "clear", "walk"}
                        /\ MarkedAhead # {}
                        /\ pc = "close" => byte.pending

Inv == TypeOK /\ Steps /\ Counted /\ Crowded

----
(* The list without the client at place i. *)
LEMMA WithoutFits ==
    ASSUME list \in Seq(Conns), NEW i \in 1 .. Len(list)
    PROVE  /\ SubSeq(list, 1, i - 1) \o SubSeq(list, i + 1, Len(list)) \in Seq(Conns)
           /\ Len(SubSeq(list, 1, i - 1) \o SubSeq(list, i + 1, Len(list))) = Len(list) - 1
<1> DEFINE n == Len(list)
           a == SubSeq(list, 1, i - 1)
           b == SubSeq(list, i + 1, n)
<1>1. n \in Nat /\ i \in 1 .. n /\ \A j \in 1 .. n : list[j] \in Conns
  OBVIOUS
<1>2. a \in Seq(Conns) /\ Len(a) = i - 1
  <2>1. \A j \in 1 .. i - 1 : list[j] \in Conns
    BY <1>1
  <2> QED BY <1>1, <2>1, SubSeqProperties
<1>3. b \in Seq(Conns) /\ Len(b) = n - i
  <2>1. \A j \in i + 1 .. n : list[j] \in Conns
    BY <1>1
  <2> QED BY <1>1, <2>1, SubSeqProperties
<1> HIDE DEF a, b, n
<1>4. a \o b \in Seq(Conns) /\ Len(a \o b) = Len(a) + Len(b)
  BY <1>2, <1>3, ConcatProperties
<1>5. Len(a) + Len(b) = n - 1
  BY <1>1, <1>2, <1>3
<1> QED BY <1>4, <1>5 DEF a, b, n

(* A new client in front of the list. *)
LEMMA LinkedFits ==
    ASSUME list \in Seq(Conns), NEW c \in Conns
    PROVE  <<c>> \o list \in Seq(Conns) /\ Len(<<c>> \o list) = Len(list) + 1
<1>1. <<c>> \in Seq(Conns) /\ Len(<<c>>) = 1
  OBVIOUS
<1> QED BY <1>1, ConcatProperties

(* What a store makes of the byte it has loaded. *)
LEMMA ChangedFits ==
    ASSUME NEW b \in Byte, pc \in Changes
    PROVE  /\ Changed(b) \in Byte
           /\ pc = "inc" => Changed(b).count = (b.count + 1) % 32
           /\ pc = "dec" => Changed(b).count = IF b.count > 0 THEN b.count - 1 ELSE 0
           /\ pc \in {"evict", "eof", "clear"} => Changed(b).count = b.count
           /\ pc \in {"evict", "eof"} => Changed(b).pending
<1>1. b.count \in 0 .. 31 /\ b.pending \in BOOLEAN
  BY DEF Byte
<1>2. CASE pc = "inc"
  <2>1. Changed(b) = [b EXCEPT !.count = (b.count + 1) % 32]
    BY <1>2 DEF Changed
  <2>2. (b.count + 1) % 32 \in 0 .. 31
    BY <1>1
  <2> QED BY <1>2, <2>1, <2>2 DEF Byte
<1>3. CASE pc \in {"evict", "eof"}
  <2>1. Changed(b) = [b EXCEPT !.pending = TRUE]
    BY <1>3 DEF Changed
  <2> QED BY <1>3, <2>1 DEF Byte
<1>4. CASE pc = "clear"
  <2>1. Changed(b) = [b EXCEPT !.pending = FALSE]
    BY <1>4 DEF Changed
  <2> QED BY <1>4, <2>1 DEF Byte
<1>5. CASE pc = "dec"
  <2> DEFINE m == IF b.count > 0 THEN b.count - 1 ELSE 0
  <2>1. Changed(b) = [b EXCEPT !.count = m]
    BY <1>5 DEF Changed
  <2>2. m \in 0 .. 31
    BY <1>1
  <2> QED BY <1>5, <2>1, <2>2 DEF Byte
<1> QED BY <1>2, <1>3, <1>4, <1>5 DEF Changes

(* The oldest client is marked, if there is one; nobody loses a mark. *)
LEMMA OldestFits ==
    ASSUME TypeOK, MarkOldest
    PROVE  /\ marked' \subseteq Conns /\ marked \subseteq marked'
           /\ Len(list) > 0 => list[Len(list)] \in marked'
BY DEF TypeOK, MarkOldest

(* The parts of the state, as the proofs use them. *)
LEMMA Parts ==
    ASSUME TypeOK
    PROVE  /\ list \in Seq(Conns) /\ Len(list) \in Nat /\ kept \in 0 .. Len(list)
           /\ byte \in Byte /\ byte.count \in Nat /\ byte.count <= 31
           /\ reg # NoByte => reg \in Byte /\ reg.count \in Nat /\ reg.count <= 31
<1>1. list \in Seq(Conns) /\ kept \in 0 .. Len(list) /\ byte \in Byte
      /\ (reg # NoByte => reg \in Byte)
  BY DEF TypeOK
<1>2. \A b \in Byte : b.count \in Nat /\ b.count <= 31
  BY DEF Byte
<1>3. Len(list) \in Nat
  BY <1>1
<1> QED BY <1>1, <1>2, <1>3

(* More marks, and a byte with the count it had, disturb nothing. *)
LEMMA MarksKeep ==
    ASSUME Inv, UNCHANGED <<list, pc, reg, kept, preempt>>,
           marked \subseteq marked', marked' \subseteq Conns,
           byte' \in Byte, byte'.count = byte.count \/ ~preempt, byte.pending => byte'.pending,
           caller' \in Byte \cup {NoByte}, preempt => caller' = NoByte
    PROVE  Inv'
<1>1. TypeOK'
  BY DEF Inv, TypeOK
<1>2. Steps'
  BY DEF Inv, Steps
<1>3. Counted'
  BY DEF Inv, Counted, Lag
<1>4. MarkedAhead # {} => MarkedAhead' # {}
  BY DEF MarkedAhead
<1>5. Crowded'
  BY <1>4 DEF Inv, Crowded
<1> QED BY <1>1, <1>2, <1>3, <1>5 DEF Inv

(* An eviction by another task, at once or in two accesses. *)
LEMMA CallsKeep == ASSUME Inv, CallAtOnce \/ CallLoads \/ CallStores PROVE Inv'
<1>1. TypeOK /\ byte \in Byte /\ byte.count \in 0 .. 31 /\ marked \subseteq Conns
  BY DEF Inv, TypeOK, Byte
<1>2. CASE CallAtOnce
  <2>1. marked' \subseteq Conns /\ marked \subseteq marked'
    BY <1>1, <1>2, OldestFits DEF CallAtOnce
  <2>2. byte' = [byte EXCEPT !.pending = TRUE]
    BY <1>2 DEF CallAtOnce
  <2>3. byte' \in Byte /\ byte'.count = byte.count /\ byte'.pending
    BY <1>1, <2>2 DEF Byte
  <2>4. /\ UNCHANGED <<list, pc, reg, kept, caller, preempt>>
        /\ caller \in Byte \cup {NoByte} /\ (preempt => caller = NoByte)
    BY <1>2 DEF CallAtOnce, Inv, TypeOK, Counted
  <2> QED BY <2>1, <2>3, <2>4, MarksKeep
<1>3. CASE CallLoads
  <2>1. marked' \subseteq Conns /\ marked \subseteq marked'
    BY <1>1, <1>3, OldestFits DEF CallLoads
  <2>2. UNCHANGED <<list, byte, pc, reg, kept, preempt>> /\ ~preempt /\ caller' = byte
    BY <1>3 DEF CallLoads
  <2> QED BY <1>1, <2>1, <2>2, MarksKeep
<1>4. CASE CallStores
  <2>1. /\ UNCHANGED <<list, marked, pc, reg, kept, preempt>> /\ caller \in Byte
        /\ caller' = NoByte /\ byte' = [caller EXCEPT !.pending = TRUE]
    BY <1>4 DEF CallStores, Inv, TypeOK
  <2>2. byte' \in Byte /\ byte'.pending
    BY <2>1 DEF Byte
  <2>3. ~preempt
    BY <1>4 DEF CallStores, Inv, Counted
  <2> QED BY <1>1, <2>1, <2>2, <2>3, MarksKeep
<1> QED BY <1>2, <1>3, <1>4

(* A client is linked before it is counted: there was room for one. *)
LEMMA LinkClientKeeps == ASSUME Inv, LinkClient PROVE Inv'
<1>1. PICK c \in Conns : list' = <<c>> \o list
  BY DEF LinkClient
<1>2. /\ pc = "select" /\ pc' = "inc" /\ UNCHANGED <<marked, byte, reg, kept, caller, preempt>>
  BY DEF LinkClient
<1>3. list \in Seq(Conns) /\ Len(list) \in Nat /\ kept = 0 /\ reg = NoByte
  BY <1>2 DEF Inv, TypeOK, Steps, Changes
<1>4. list' \in Seq(Conns) /\ Len(list') = Len(list) + 1
  BY <1>1, <1>3, LinkedFits
<1>5. TypeOK'
  BY <1>2, <1>3, <1>4 DEF Inv, TypeOK, Changes
<1>6. Steps'
  BY <1>2, <1>3 DEF Steps
<1>7. byte.count \in Int
  BY Parts DEF Inv
<1>8. Counted'
  BY <1>2, <1>3, <1>4, <1>7 DEF Inv, Counted, Lag
<1>9. Limit \in Int
  BY FlagsAssumption DEF Limit
<1>10. Crowded'
  <2>1. preempt => Len(list) <= Limit
    BY <1>2 DEF Inv, Crowded
  <2>2. preempt => Len(list') <= Limit \/ Len(list') = Limit + 1
    BY <1>3, <1>4, <1>9, <2>1
  <2> QED BY <1>2, <2>2 DEF Crowded
<1> QED BY <1>5, <1>6, <1>8, <1>10 DEF Inv

(* A connection ends, or other sockets trigger. *)
LEMMA IdleKeeps == ASSUME Inv, ClientLeaves \/ OtherTraffic PROVE Inv'
<1>1. /\ UNCHANGED <<list, byte, reg, kept, caller, preempt>> /\ pc = "select"
      /\ pc' \in {"eof", "close"} /\ marked' \subseteq Conns
  BY DEF Inv, TypeOK, ClientLeaves, OtherTraffic, Listed
<1>2. TypeOK'
  BY <1>1 DEF Inv, TypeOK, Changes
<1>3. Steps' /\ Counted'
  BY <1>1 DEF Inv, Steps, Counted, Lag, Changes
<1>4. Crowded'
  BY <1>1 DEF Inv, Crowded
<1> QED BY <1>2, <1>3, <1>4 DEF Inv

(* The server loads the byte for its next change. *)
LEMMA LoadKeeps == ASSUME Inv, Load PROVE Inv'
<1>1. UNCHANGED <<list, marked, byte, pc, kept, caller, preempt>> /\ pc \in Changes /\ reg' = byte
  BY DEF Load
<1>2. TypeOK'
  BY <1>1 DEF Inv, TypeOK
<1>3. Steps' /\ Counted'
  BY <1>1 DEF Inv, Steps, Counted, Lag
<1>4. Crowded'
  BY <1>1 DEF Inv, Crowded, MarkedAhead
<1> QED BY <1>2, <1>3, <1>4 DEF Inv

(* The store: the count it has loaded is the one in memory still. *)
LEMMA StoreKeeps == ASSUME Inv, Store PROVE Inv'
<1>1. /\ UNCHANGED <<list, marked, kept, caller, preempt>> /\ reg' = NoByte /\ reg \in Byte
      /\ byte' = Changed(reg) /\ pc \in Changes /\ Len(list) \in Nat
      /\ byte.count \in Nat /\ reg.count \in Nat /\ byte.count <= 31 /\ reg.count <= 31
  <2>1. TypeOK /\ Steps /\ reg # NoByte
    BY DEF Inv, Store
  <2> QED BY <2>1, Parts DEF Steps, Store
<1>2. /\ pc = "inc" => pc' = "full"
      /\ pc \in {"evict", "eof"} => pc' = "close"
      /\ pc \in {"clear", "dec"} => pc' = "walk"
  BY DEF Store
<1>3. /\ byte' \in Byte
      /\ pc = "inc" => byte'.count = (reg.count + 1) % 32
      /\ pc = "dec" => byte'.count = IF reg.count > 0 THEN reg.count - 1 ELSE 0
      /\ pc \in {"evict", "eof", "clear"} => byte'.count = reg.count
      /\ pc \in {"evict", "eof"} => byte'.pending
  BY <1>1, ChangedFits
<1>4. TypeOK'
  BY <1>1, <1>2, <1>3 DEF Inv, TypeOK, Changes
<1>5. Steps'
  BY <1>1, <1>2 DEF Inv, Steps, Changes
<1>6. preempt => Len(list) <= 31
  BY <1>1, FlagsAssumption DEF Inv, Crowded, Limit
<1>7. preempt => byte'.count = Len(list)
  <2> SUFFICES ASSUME preempt PROVE byte'.count = Len(list)
    OBVIOUS
  <2>1. reg.count = byte.count /\ byte.count + Lag = Len(list)
    BY <1>1, FlagsAssumption DEF Inv, Counted, Store
  <2>2. CASE pc = "inc"
    <3>1. reg.count + 1 = Len(list) /\ Len(list) <= 31
      BY <1>6, <2>1, <2>2 DEF Lag
    <3>2. (reg.count + 1) % 32 = reg.count + 1
      BY <1>1, <3>1
    <3> QED BY <1>3, <2>2, <3>1, <3>2
  <2>3. CASE pc = "dec"
    <3>1. reg.count - 1 = Len(list)
      BY <1>1, <2>1, <2>3 DEF Lag
    <3> QED BY <1>1, <1>3, <2>3, <3>1
  <2>4. CASE pc \in {"evict", "eof", "clear"}
    <3>1. reg.count = Len(list)
      BY <1>1, <2>1, <2>4 DEF Lag
    <3> QED BY <1>3, <2>4, <3>1
  <2> QED BY <1>1, <2>2, <2>3, <2>4 DEF Changes
<1>8. Counted'
  <2>1. Lag' = 0
    BY <1>1, <1>2 DEF Lag, Changes
  <2>2. byte'.count \in Int
    BY <1>3 DEF Byte
  <2> QED BY <1>1, <1>7, <2>1, <2>2 DEF Inv, Counted
<1>9. Crowded'
  BY <1>1, <1>2, <1>3 DEF Inv, Crowded, MarkedAhead, Changes
<1> QED BY <1>4, <1>5, <1>8, <1>9 DEF Inv

(* One client too many: the oldest is marked. *)
LEMMA TestFullKeeps == ASSUME Inv, TestFull PROVE Inv'
<1>1. /\ UNCHANGED <<list, byte, reg, kept, caller, preempt>> /\ pc = "full"
      /\ pc' \in {"evict", "close"} /\ Len(list) \in Nat /\ byte.count \in Nat /\ byte.count <= 31
  BY Parts DEF Inv, TestFull
<1>2. marked' \subseteq Conns
  BY OldestFits DEF Inv, TypeOK, TestFull
<1>3. TypeOK'
  BY <1>1, <1>2 DEF Inv, TypeOK, Changes
<1>4. Steps' /\ Counted'
  BY <1>1 DEF Inv, Steps, Counted, Lag, Changes
<1>5. Crowded'
  <2> SUFFICES ASSUME preempt, Len(list) = Limit + 1
               PROVE  pc' = "evict" /\ MarkedAhead' # {}
    BY <1>1 DEF Inv, Crowded
  <2>1. byte.count = Len(list) /\ kept = 0
    BY <1>1 DEF Inv, Steps, Counted, Lag
  <2>2. byte.count >= Requested /\ byte.count > MinClients /\ Len(list) > 0
    BY <2>1, FlagsAssumption DEF Limit
  <2>3. pc' = "evict" /\ MarkOldest
    BY <2>2 DEF TestFull
  <2>4. list[Len(list)] \in marked'
    BY <2>2, <2>3, OldestFits DEF Inv
  <2> QED BY <1>1, <2>1, <2>2, <2>3, <2>4 DEF MarkedAhead
<1> QED BY <1>3, <1>4, <1>5 DEF Inv

(* The walk is entered if the byte says so. *)
LEMMA TestPendingKeeps == ASSUME Inv, TestPending PROVE Inv'
<1>1. /\ UNCHANGED <<list, marked, byte, reg, kept, caller, preempt>> /\ pc = "close"
      /\ pc' = IF byte.pending THEN "clear" ELSE "select"
  BY DEF TestPending
<1>2. TypeOK'
  BY <1>1 DEF Inv, TypeOK, Changes
<1>3. Steps' /\ Counted'
  BY <1>1 DEF Inv, Steps, Counted, Lag, Changes
<1>4. Crowded'
  BY <1>1 DEF Inv, Crowded, MarkedAhead
<1> QED BY <1>2, <1>3, <1>4 DEF Inv

(* The walk unlinks a marked client, to be discounted next. *)
LEMMA CloseMarkedKeeps == ASSUME Inv, CloseMarked PROVE Inv'
<1>1. PICK i \in MarkedAhead :
          /\ list' = SubSeq(list, 1, i - 1) \o SubSeq(list, i + 1, Len(list))
          /\ marked' = marked \ {list[i]} /\ kept' = i - 1
  BY DEF CloseMarked
<1>2. /\ list \in Seq(Conns) /\ Len(list) \in Nat /\ kept \in 0 .. Len(list)
      /\ pc = "walk" /\ pc' = "dec" /\ UNCHANGED <<byte, reg, caller, preempt>> /\ reg = NoByte
      /\ byte.count \in Nat /\ byte.count <= 31
  BY Parts DEF Inv, CloseMarked, Steps, Changes
<1>3. i \in 1 .. Len(list)
  BY <1>2 DEF MarkedAhead
<1>4. list' \in Seq(Conns) /\ Len(list') = Len(list) - 1
  BY <1>1, <1>2, <1>3, WithoutFits
<1>5. kept' \in 0 .. Len(list')
  <2>1. i \in Int /\ 1 <= i /\ i <= Len(list)
    BY <1>2, <1>3
  <2>2. i - 1 \in 0 .. Len(list) - 1
    BY <1>2, <2>1
  <2> QED BY <1>1, <1>4, <2>2
<1>6. TypeOK'
  BY <1>1, <1>2, <1>4, <1>5 DEF Inv, TypeOK, Changes
<1>7. Steps'
  BY <1>2 DEF Steps, Inv
<1>8. Counted'
  BY <1>2, <1>4 DEF Inv, Counted, Lag
<1>9. Limit \in Int
  BY FlagsAssumption DEF Limit
<1>10. Crowded'
  BY <1>2, <1>4, <1>9 DEF Inv, Crowded
<1> QED BY <1>6, <1>7, <1>8, <1>10 DEF Inv

(* Nobody is marked behind the walk: only as many clients are left as there may be. *)
LEMMA EndWalkKeeps == ASSUME Inv, EndWalk PROVE Inv'
<1>1. /\ UNCHANGED <<list, marked, byte, reg, caller, preempt>> /\ pc = "walk"
      /\ pc' = "select" /\ kept' = 0 /\ MarkedAhead = {}
  BY DEF EndWalk
<1>2. TypeOK'
  BY <1>1 DEF Inv, TypeOK
<1>3. Steps' /\ Counted'
  BY <1>1 DEF Inv, Steps, Counted, Lag, Changes
<1>4. Crowded'
  BY <1>1 DEF Inv, Crowded
<1> QED BY <1>2, <1>3, <1>4 DEF Inv

(* The invariant both theorems follow from. *)
LEMMA InvAlways == Spec => []Inv
<1>1. Init => Inv
  <2> SUFFICES ASSUME Init PROVE Inv
    OBVIOUS
  <2>1. byte \in Byte /\ byte.count = 0 /\ list = <<>> /\ Len(list) = 0
    BY DEF Init, Byte
  <2>2. TypeOK
    BY <2>1, FlagsAssumption DEF Init, TypeOK
  <2>3. Steps /\ Counted
    BY <2>1 DEF Init, Steps, Counted, Lag
  <2>4. Crowded
    BY <2>1, FlagsAssumption DEF Crowded, Limit
  <2> QED BY <2>2, <2>3, <2>4 DEF Inv
<1>2. Inv /\ [Next]_vars => Inv'
  <2> SUFFICES ASSUME Inv, [Next]_vars PROVE Inv'
    OBVIOUS
  <2>1. CASE Next
    BY <2>1, LinkClientKeeps, IdleKeeps, LoadKeeps, StoreKeeps, TestFullKeeps, TestPendingKeeps,
       CloseMarkedKeeps, EndWalkKeeps, CallsKeep DEF Next, ServerStep
  <2>2. CASE UNCHANGED vars
    BY <2>2 DEF vars, Inv, TypeOK, Steps, Counted, Lag, Crowded, MarkedAhead
  <2> QED BY <2>1, <2>2
<1> QED BY <1>1, <1>2, PTL DEF Spec

----
(* The byte is well formed whoever stores it, and the walk is within the list. *)
THEOREM TypeCorrect == Spec => []TypeOK
<1>1. Inv => TypeOK
  BY DEF Inv
<1> QED BY <1>1, InvAlways, PTL

(* Interrupted by the timer task anywhere, the counter agrees with the list at
   every pass, and never wraps. *)
THEOREM CountSurvives == Spec => []CountIsExact
<1>1. Inv => CountIsExact
  <2> SUFFICES ASSUME Inv, preempt, pc = "select" PROVE byte.count = Len(list)
    BY DEF CountIsExact
  <2>1. byte.count \in Nat /\ byte.count + 0 = Len(list)
    BY Parts DEF Inv, Counted, Lag
  <2> QED BY <2>1
<1> QED BY <1>1, InvAlways, PTL
====

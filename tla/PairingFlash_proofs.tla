---- MODULE PairingFlash_proofs ----
(* Machine-checked facts about the functions of storage.c on a pairing table,
   for every number of slots, controllers and keys.  The proofs about the
   storage and about the server rest on them. *)
EXTENDS PairingFlash, FiniteSetTheorems, TLAPS

(* The markers of a slot are no records. *)
LEMMA MarkersNotRecords == Empty \notin Record /\ Erased \notin Record /\ None \notin Record
BY MarkerAssumption

(* First finds an element, the least one, of every non-empty set of slots.
   (The initial segments of its elements are finite sets, and inclusion is well
   founded on those.) *)
LEMMA FirstIsMember ==
    ASSUME NEW S \in SUBSET Slots, S # {}
    PROVE  First(S) \in S /\ \A j \in S : First(S) <= j
<1> DEFINE T == {0 .. j : j \in S}
<1>1. S \subseteq Nat
  BY TableAssumption DEF Slots
<1>2. T \subseteq FiniteSubsetsOf(Nat) /\ T # {}
  <2>1. \A j \in S : 0 .. j \in SUBSET Nat /\ IsFiniteSet(0 .. j)
    BY <1>1, FS_Interval
  <2> QED BY <2>1 DEF FiniteSubsetsOf
<1>3. IsWellFoundedOn(StrictSubsetOrdering(Nat), FiniteSubsetsOf(Nat))
  BY FS_StrictSubsetOrderingWellFounded
<1>4. PICK x \in T : \A y \in T : ~ (<<y, x>> \in StrictSubsetOrdering(Nat))
  <2> HIDE DEF T
  <2> QED BY <1>2, <1>3, WFMin
<1>5. PICK i \in S : x = 0 .. i
  OBVIOUS
<1>6. \A j \in S : i <= j
  <2> SUFFICES ASSUME NEW j \in S, j < i PROVE FALSE
    BY <1>1
  <2>1. 0 .. j \in T /\ 0 .. j \in SUBSET Nat /\ 0 .. i \in SUBSET Nat
    BY <1>1
  <2>2. 0 .. j \subseteq 0 .. i /\ i \in 0 .. i /\ i \notin 0 .. j
    BY <1>1
  <2>3. <<0 .. j, 0 .. i>> \in StrictSubsetOrdering(Nat)
    BY <2>1, <2>2 DEF StrictSubsetOrdering
  <2> QED BY <1>4, <1>5, <2>1, <2>3
<1> QED BY <1>6 DEF First

----
(* No two records of the table carry one id; no record carries this one. *)

Unique(t) ==
    \A i, j \in ValidSlots(t) : t[i].id = t[j].id /\ t[i].id # Torn => i = j

Free(t, id) == \A i \in ValidSlots(t) : t[i].id # id

----
(* The table functions. *)

(* A blank table is a table without records. *)
LEMMA BlankIsValid == BlankTable \in Table /\ ValidSlots(BlankTable) = {}
BY MarkersNotRecords DEF BlankTable, Table, ValidSlots

(* find_pairing finds nothing only if no record has the id. *)
LEMMA FindNoneIsFree ==
    ASSUME NEW t \in Table, NEW id, FindPairing(t, id) = None
    PROVE  Free(t, id)
<1> DEFINE S == {i \in ValidSlots(t) : t[i].id = id}
<1>1. S \in SUBSET Slots
  BY DEF ValidSlots
<1>2. SUFFICES ASSUME S # {} PROVE FALSE
  BY DEF Free
<1>3. First(S) \in S
  BY <1>1, <1>2, FirstIsMember
<1>4. FindSlot(t, id) = First(S) /\ First(S) # NoSlot
  BY <1>1, <1>3, TableAssumption DEF FindSlot, Slots, NoSlot
<1>5. t[First(S)] \in Record
  BY <1>3 DEF ValidSlots
<1> QED BY <1>4, <1>5, MarkersNotRecords DEF FindPairing

(* The slot find_pairing stops at holds a record with the id. *)
LEMMA FoundIsValid ==
    ASSUME NEW t \in Table, NEW id, FindPairing(t, id) # None
    PROVE  /\ FindSlot(t, id) # NoSlot
           /\ FindSlot(t, id) \in ValidSlots(t)
           /\ t[FindSlot(t, id)].id = id
<1> DEFINE S == {i \in ValidSlots(t) : t[i].id = id}
<1>1. FindSlot(t, id) # NoSlot
  BY DEF FindPairing
<1>2. S # {} /\ S \in SUBSET Slots
  BY <1>1 DEF FindSlot, First, ValidSlots
<1>3. First(S) \in S
  BY <1>2, FirstIsMember
<1> QED BY <1>1, <1>3 DEF FindSlot

(* find_empty_block finds a blank slot if there is one. *)
LEMMA EmptyIsFound ==
    ASSUME NEW t \in Table, EmptySlots(t) # {}
    PROVE  FindEmpty(t) \in Slots
<1>1. EmptySlots(t) \in SUBSET Slots
  BY DEF EmptySlots
<1> QED BY <1>1, FirstIsMember DEF FindEmpty

(* Overwriting one slot with a marker, or with a record whose id is new. *)
LEMMA PutKeepsUnique ==
    ASSUME NEW t \in Table, Unique(t), NEW k,
           NEW r \in Record \cup {Empty, Erased},
           r \in Record => r.id = Torn \/ Free(t, r.id)
    PROVE  [t EXCEPT ![k] = r] \in Table /\ Unique([t EXCEPT ![k] = r])
<1> DEFINE u == [t EXCEPT ![k] = r]
<1>1. u \in Table
  BY DEF Table
<1>2. ASSUME NEW i \in ValidSlots(u), NEW j \in ValidSlots(u),
             u[i].id = u[j].id, u[i].id # Torn
      PROVE  i = j
  <2>1. CASE i = k /\ j # k
    BY <1>2, <2>1 DEF Table, ValidSlots, Free
  <2>2. CASE i # k /\ j = k
    BY <1>2, <2>2 DEF Table, ValidSlots, Free
  <2>3. CASE i # k /\ j # k
    BY <1>2, <2>3 DEF Table, ValidSlots, Unique
  <2> QED BY <2>1, <2>2, <2>3
<1> QED BY <1>1, <1>2 DEF Unique

(* Zeroing a slot cannot make ids collide. *)
LEMMA EraseKeepsUnique ==
    ASSUME NEW t \in Table, Unique(t), NEW k
    PROVE  [t EXCEPT ![k] = Erased] \in Table /\ Unique([t EXCEPT ![k] = Erased])
<1>1. Erased \in Record \cup {Empty, Erased} /\ ~(Erased \in Record)
  BY MarkersNotRecords
<1> QED BY <1>1, PutKeepsUnique

(* While ids are unique remove_pairing leaves no record with the id. *)
LEMMA RemovedIsFree ==
    ASSUME NEW t \in Table, Unique(t), NEW id \in Ids, FindPairing(t, id) # None
    PROVE  /\ Removed(t, id) \in Table
           /\ Unique(Removed(t, id))
           /\ Free(Removed(t, id), id)
           /\ ValidSlots(Removed(t, id)) \subseteq ValidSlots(t)
<1> DEFINE k == FindSlot(t, id)
<1>1. k # NoSlot /\ k \in ValidSlots(t) /\ t[k].id = id
  BY FoundIsValid
<1>2. Removed(t, id) = [t EXCEPT ![k] = Erased]
  BY <1>1 DEF Removed
<1>3. Removed(t, id) \in Table /\ Unique(Removed(t, id))
  <2> HIDE DEF k
  <2> QED BY <1>2, EraseKeepsUnique
<1>4. ValidSlots(Removed(t, id)) = ValidSlots(t) \ {k}
  BY <1>1, <1>2, MarkersNotRecords DEF ValidSlots, Table
<1>5. id # Torn
  BY MarkerAssumption
<1>6. ASSUME NEW i \in ValidSlots(t) \ {k} PROVE t[i].id # id
  BY <1>1, <1>5, <1>6 DEF Unique
<1> QED BY <1>1, <1>2, <1>3, <1>4, <1>6 DEF Free, ValidSlots, Table

(* Every record of the packed table is a record of the table it was made from,
   and records from different slots stay in different slots. *)
LEMMA PackedFrom ==
    ASSUME NEW t \in Table, NEW k \in ValidSlots(Packed(t))
    PROVE  \E i \in ValidSlots(t) : Rank(t, i) = k /\ Packed(t)[k] = t[i]
<1>1. k \in Slots /\ Packed(t)[k] \in Record
  BY DEF ValidSlots
<1>2. \E i \in ValidSlots(t) : Rank(t, i) = k
  BY <1>1, MarkersNotRecords DEF Packed
<1> DEFINE c == CHOOSE i \in ValidSlots(t) : Rank(t, i) = k
<1>3. c \in ValidSlots(t) /\ Rank(t, c) = k
  BY <1>2
<1>4. Packed(t)[k] = t[c]
  BY <1>1, <1>2 DEF Packed
<1> QED BY <1>3, <1>4

(* The packed table is a table, and its ids are unique if they were. *)
LEMMA PackedKeeps ==
    ASSUME NEW t \in Table
    PROVE  /\ Packed(t) \in Table
           /\ Unique(t) => Unique(Packed(t))
           /\ \A id : Free(t, id) => Free(Packed(t), id)
<1>1. Packed(t) \in Table
  <2>1. ASSUME NEW k \in Slots, NEW i \in ValidSlots(t), Rank(t, i) = k
        PROVE  t[CHOOSE j \in ValidSlots(t) : Rank(t, j) = k] \in Record
    BY <2>1 DEF ValidSlots
  <2> QED BY <2>1 DEF Packed, Table
<1>2. ASSUME Unique(t), NEW k \in ValidSlots(Packed(t)), NEW l \in ValidSlots(Packed(t)),
             Packed(t)[k].id = Packed(t)[l].id, Packed(t)[k].id # Torn
      PROVE  k = l
  <2>1. PICK i \in ValidSlots(t) : Rank(t, i) = k /\ Packed(t)[k] = t[i]
    BY PackedFrom
  <2>2. PICK j \in ValidSlots(t) : Rank(t, j) = l /\ Packed(t)[l] = t[j]
    BY PackedFrom
  <2>3. i = j
    BY <1>2, <2>1, <2>2 DEF Unique
  <2> QED BY <2>1, <2>2, <2>3
<1>3. ASSUME NEW id, Free(t, id) PROVE Free(Packed(t), id)
  BY <1>3, PackedFrom DEF Free
<1> QED BY <1>1, <1>2, <1>3 DEF Unique

----
(* What a table holds, whatever the slots: the compaction moves records, and
   keeps every one. *)

Records(t) == {t[i] : i \in ValidSlots(t)}

(* A record is found in the only slot that has its id. *)
LEMMA FindIs ==
    ASSUME NEW t \in Table, Unique(t), NEW i \in ValidSlots(t), t[i].id \in Ids
    PROVE  FindSlot(t, t[i].id) = i /\ FindPairing(t, t[i].id) = t[i]
<1>1. t[i].id # Torn /\ i \in Slots
  BY MarkerAssumption DEF ValidSlots
<1> DEFINE S == {j \in ValidSlots(t) : t[j].id = t[i].id}
<1>2. S = {i}
  BY <1>1 DEF Unique
<1>3. First(S) = i
  <2>1. S \in SUBSET Slots /\ S # {}
    BY <1>1, <1>2
  <2>2. First(S) \in S
    BY <2>1, FirstIsMember
  <2> QED BY <1>2, <2>2
<1>4. i # NoSlot
  BY <1>1, TableAssumption DEF Slots, NoSlot
<1> QED BY <1>3, <1>4 DEF FindSlot, FindPairing

(* A pairing is found exactly if the table holds a record of that controller. *)
LEMMA FoundIsHeld ==
    ASSUME NEW t \in Table, NEW id
    PROVE  /\ FindPairing(t, id) # None <=> FindSlot(t, id) # NoSlot
           /\ FindPairing(t, id) # None <=> \E r \in Records(t) : r.id = id
           /\ FindSlot(t, id) \in Slots \cup {NoSlot}
           /\ FindPairing(t, id) # None => FindPairing(t, id) \in Records(t)
<1>1. CASE FindPairing(t, id) = None
  <2>1. Free(t, id)
    BY <1>1, FindNoneIsFree
  <2>2. {i \in ValidSlots(t) : t[i].id = id} = {}
    BY <2>1 DEF Free
  <2>3. FindSlot(t, id) = NoSlot
    BY <2>2 DEF FindSlot, First
  <2> QED BY <1>1, <2>1, <2>3 DEF Free, Records
<1>2. CASE FindPairing(t, id) # None
  <2>1. FindSlot(t, id) # NoSlot /\ FindSlot(t, id) \in ValidSlots(t) /\ t[FindSlot(t, id)].id = id
    BY <1>2, FoundIsValid
  <2>2. FindPairing(t, id) = t[FindSlot(t, id)]
    BY <2>1 DEF FindPairing
  <2> QED BY <1>2, <2>1, <2>2 DEF Records, ValidSlots
<1> QED BY <1>1, <1>2

(* The number of records before a slot is finite and grows with the slot. *)
LEMMA RankBounds ==
    ASSUME NEW t, NEW i \in ValidSlots(t)
    PROVE  /\ IsFiniteSet({j \in ValidSlots(t) : j < i})
           /\ Rank(t, i) \in 0 .. i /\ Rank(t, i) \in Slots
           /\ Rank(t, i) = i => {j \in ValidSlots(t) : j < i} = 0 .. i - 1
<1> DEFINE S == {j \in ValidSlots(t) : j < i}
<1>1. i \in Nat /\ i < MaxPairings /\ i - 1 \in Int
  BY TableAssumption DEF ValidSlots, Slots
<1>2. S \in SUBSET (0 .. i - 1)
  BY TableAssumption DEF ValidSlots, Slots
<1>3. IsFiniteSet(0 .. i - 1) /\ Cardinality(0 .. i - 1) = i
  BY <1>1, FS_Interval
<1> HIDE DEF S
<1>4. /\ IsFiniteSet(S) /\ Cardinality(S) <= i /\ Cardinality(S) \in Nat
      /\ Cardinality(S) = i => S = 0 .. i - 1
  BY <1>2, <1>3, FS_Subset, FS_CardinalityType
<1>5. Rank(t, i) = Cardinality(S)
  BY DEF Rank, S
<1>6. Rank(t, i) \in 0 .. i /\ Rank(t, i) \in Slots
  BY <1>1, <1>4, <1>5, TableAssumption DEF Slots
<1> QED BY <1>4, <1>5, <1>6 DEF S

(* Two records keep their order when the table is packed. *)
LEMMA RankOrders ==
    ASSUME NEW t, NEW i \in ValidSlots(t), NEW j \in ValidSlots(t), i < j
    PROVE  Rank(t, i) < Rank(t, j)
<1> DEFINE S == {k \in ValidSlots(t) : k < i}
           T == {k \in ValidSlots(t) : k < j}
<1>1. ValidSlots(t) \subseteq Int /\ i \in Int /\ j \in Int
  BY TableAssumption DEF ValidSlots, Slots
<1>2. S \cup {i} \in SUBSET T /\ i \notin S
  BY <1>1
<1>3. IsFiniteSet(S) /\ IsFiniteSet(T)
  BY RankBounds
<1>4. Rank(t, i) = Cardinality(S) /\ Rank(t, j) = Cardinality(T)
  BY DEF Rank
<1>5. Cardinality(S) \in Nat /\ Cardinality(T) \in Nat
  BY <1>3, FS_CardinalityType
<1> HIDE DEF S, T
<1>6. Cardinality(S \cup {i}) = Cardinality(S) + 1
  BY <1>2, <1>3, FS_AddElement
<1>7. Cardinality(S \cup {i}) <= Cardinality(T)
  BY <1>2, <1>3, FS_Subset
<1> QED BY <1>4, <1>5, <1>6, <1>7

(* compact_data puts every record where its rank says. *)
LEMMA PackedHolds ==
    ASSUME NEW t \in Table, NEW i \in ValidSlots(t)
    PROVE  Rank(t, i) \in ValidSlots(Packed(t)) /\ Packed(t)[Rank(t, i)] = t[i]
<1>1. Rank(t, i) \in Slots
  BY RankBounds
<1> DEFINE c == CHOOSE j \in ValidSlots(t) : Rank(t, j) = Rank(t, i)
<1>2. c \in ValidSlots(t) /\ Rank(t, c) = Rank(t, i)
  OBVIOUS
<1>3. Rank(t, c) \in Int /\ Rank(t, i) \in Int /\ c \in Int /\ i \in Int
  BY <1>1, <1>2, TableAssumption DEF ValidSlots, Slots
<1> HIDE DEF c
<1>4. c = i
  <2>1. ~(c < i)
    BY <1>2, <1>3, RankOrders
  <2>2. ~(i < c)
    BY <1>2, <1>3, RankOrders
  <2> QED BY <1>3, <2>1, <2>2
<1>5. Packed(t)[Rank(t, i)] = t[c]
  BY <1>1, <1>2 DEF Packed, c
<1> QED BY <1>1, <1>4, <1>5 DEF ValidSlots

(* The compaction neither loses nor invents a record. *)
THEOREM PackedLosesNothing ==
    ASSUME NEW t \in Table
    PROVE  Records(Packed(t)) = Records(t)
<1>1. Records(t) \subseteq Records(Packed(t))
  <2> SUFFICES ASSUME NEW i \in ValidSlots(t) PROVE t[i] \in Records(Packed(t))
    BY DEF Records
  <2> QED BY PackedHolds DEF Records
<1>2. Records(Packed(t)) \subseteq Records(t)
  BY PackedFrom DEF Records
<1> QED BY <1>1, <1>2

(* It leaves a blank slot unless all slots hold records. *)
LEMMA PackedMakesRoom ==
    ASSUME NEW t \in Table, CanAddPairing(t)
    PROVE  EmptySlots(Packed(t)) # {}
<1> DEFINE last == MaxPairings - 1
<1>1. last \in Slots /\ last \in Nat
  BY TableAssumption DEF Slots
<1>2. ASSUME NEW i \in ValidSlots(t), Rank(t, i) = last PROVE FALSE
  <2>1. i \in 0 .. last
    BY TableAssumption DEF ValidSlots, Slots
  <2>2. Rank(t, i) \in 0 .. i
    BY RankBounds
  <2>3. i = last
    BY <1>1, <1>2, <2>1, <2>2
  <2>4. {j \in ValidSlots(t) : j < i} = 0 .. i - 1
    BY <1>2, <2>3, RankBounds
  <2>5. Slots = (0 .. last - 1) \cup {last}
    BY TableAssumption DEF Slots
  <2>6. ValidSlots(t) = Slots
    BY <2>3, <2>4, <2>5 DEF ValidSlots
  <2> QED BY <2>6 DEF CanAddPairing
<1> HIDE DEF last
<1>3. Packed(t)[last] = Empty
  BY <1>1, <1>2 DEF Packed
<1> QED BY <1>1, <1>3 DEF EmptySlots

(* Where add_pairing will put the record: the same records, and a blank slot. *)
LEMMA RoomKeeps ==
    ASSUME NEW t \in Table, Unique(t), CanAddPairing(t)
    PROVE  /\ Room(t) \in Table /\ Unique(Room(t)) /\ Records(Room(t)) = Records(t)
           /\ FindEmpty(Room(t)) \in EmptySlots(Room(t))
           /\ \A id : Free(t, id) => Free(Room(t), id)
<1>1. /\ Room(t) \in Table /\ Unique(Room(t)) /\ Records(Room(t)) = Records(t)
      /\ \A id : Free(t, id) => Free(Room(t), id)
  BY PackedKeeps, PackedLosesNothing DEF Room
<1>2. EmptySlots(Room(t)) # {}
  BY PackedMakesRoom DEF Room
<1>4. EmptySlots(Room(t)) \in SUBSET Slots
  BY DEF EmptySlots
<1>3. FindEmpty(Room(t)) \in EmptySlots(Room(t))
  BY <1>2, <1>4, FirstIsMember DEF FindEmpty
<1> QED BY <1>1, <1>3

(* add_pairing adds the one record, and every other one stays. *)
THEOREM AddedHolds ==
    ASSUME NEW t \in Table, Unique(t), CanAddPairing(t), NEW r \in Record, Free(t, r.id)
    PROVE  /\ Added(t, r) \in Table /\ Unique(Added(t, r))
           /\ Records(Added(t, r)) = Records(t) \cup {r}
<1> DEFINE u == Room(t)
           k == FindEmpty(Room(t))
<1>1. /\ u \in Table /\ Unique(u) /\ Records(u) = Records(t) /\ k \in EmptySlots(u)
      /\ \A id : Free(t, id) => Free(u, id)
  BY RoomKeeps
<1> HIDE DEF u, k
<1>2. k \in Slots /\ u[k] = Empty /\ k # NoSlot
  BY <1>1, TableAssumption DEF EmptySlots, Slots, NoSlot
<1>3. Added(t, r) = [u EXCEPT ![k] = r]
  BY <1>2 DEF Added, u, k
<1>4. Added(t, r) \in Table /\ Unique(Added(t, r))
  <2>1. Free(u, r.id) /\ r \in Record \cup {Empty, Erased}
    BY <1>1
  <2>2. [u EXCEPT ![k] = r] \in Table /\ Unique([u EXCEPT ![k] = r])
    BY <1>1, <2>1, PutKeepsUnique
  <2> QED BY <1>3, <2>2
<1>5. ValidSlots(Added(t, r)) = ValidSlots(u) \cup {k} /\ k \notin ValidSlots(u)
  BY <1>1, <1>2, <1>3, MarkersNotRecords DEF ValidSlots, Table
<1>6. /\ Added(t, r)[k] = r
      /\ \A i \in ValidSlots(u) : Added(t, r)[i] = u[i]
  BY <1>1, <1>2, <1>3, <1>5 DEF ValidSlots, Table
<1>7. Records(Added(t, r)) = Records(u) \cup {r}
  BY <1>5, <1>6 DEF Records
<1> QED BY <1>1, <1>4, <1>7

(* remove_pairing takes the one record away, and there is room again. *)
THEOREM RemovedHolds ==
    ASSUME NEW t \in Table, Unique(t), NEW id \in Ids, FindPairing(t, id) # None
    PROVE  /\ Removed(t, id) \in Table /\ Unique(Removed(t, id)) /\ Free(Removed(t, id), id)
           /\ Records(Removed(t, id)) = Records(t) \ {FindPairing(t, id)}
           /\ CanAddPairing(Removed(t, id))
           /\ \A d : d # id => FindSlot(Removed(t, id), d) = FindSlot(t, d)
<1> DEFINE k == FindSlot(t, id)
           u == Removed(t, id)
<1>1. k # NoSlot /\ k \in ValidSlots(t) /\ t[k].id = id /\ FindPairing(t, id) = t[k]
  BY FoundIsValid DEF FindPairing
<1>2. u = [t EXCEPT ![k] = Erased]
  BY <1>1 DEF Removed
<1>3. u \in Table /\ Unique(u) /\ Free(u, id)
  BY RemovedIsFree
<1> HIDE DEF k, u
<1>4. /\ ValidSlots(u) = ValidSlots(t) \ {k}
      /\ \A i \in ValidSlots(u) : u[i] = t[i]
  BY <1>1, <1>2, MarkersNotRecords DEF ValidSlots, Table
<1>5. Records(u) = Records(t) \ {t[k]}
  <2>1. \A i \in ValidSlots(t) : t[i] = t[k] => i = k
    BY <1>1, MarkerAssumption DEF Unique
  <2> QED BY <1>1, <1>4, <2>1 DEF Records
<1>6. CanAddPairing(u)
  BY <1>1, <1>4 DEF CanAddPairing, ValidSlots
<1>7. ASSUME NEW d, d # id PROVE FindSlot(u, d) = FindSlot(t, d)
  <2>1. {i \in ValidSlots(u) : u[i].id = d} = {i \in ValidSlots(t) : t[i].id = d}
    BY <1>1, <1>4, <1>7
  <2> QED BY <2>1 DEF FindSlot
<1> QED BY <1>1, <1>3, <1>5, <1>6, <1>7 DEF u

(* update_pairing replaces the record of the controller, if anything changes. *)
THEOREM UpdatedHolds ==
    ASSUME NEW t \in Table, Unique(t), NEW r \in Record, r.id \in Ids,
           FindPairing(t, r.id) # None
    PROVE  /\ Updated(t, r) \in Table /\ Unique(Updated(t, r))
           /\ \/ Updated(t, r) = t
              \/ Records(Updated(t, r)) = (Records(t) \ {FindPairing(t, r.id)}) \cup {r}
<1>1. CASE FindPairing(t, r.id).admin = r.admin
  BY <1>1 DEF Updated
<1>2. CASE FindPairing(t, r.id).admin # r.admin
  <2>1. Updated(t, r) = Added(Removed(t, r.id), r)
    BY <1>2 DEF Updated
  <2> DEFINE u == Removed(t, r.id)
  <2>2. /\ u \in Table /\ Unique(u) /\ Free(u, r.id) /\ CanAddPairing(u)
        /\ Records(u) = Records(t) \ {FindPairing(t, r.id)}
    BY RemovedHolds
  <2> HIDE DEF u
  <2>3. /\ Added(u, r) \in Table /\ Unique(Added(u, r))
        /\ Records(Added(u, r)) = Records(u) \cup {r}
    BY <2>2, AddedHolds
  <2> QED BY <2>1, <2>2, <2>3 DEF u
<1> QED BY <1>1, <1>2
====

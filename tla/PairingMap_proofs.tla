---- MODULE PairingMap_proofs ----
(* Machine-checked facts about what the pairing storage promises its callers:
   no pairing is refused while there is room, remove_extra_pairing keeps the
   oldest ones, and the flash machine implements the map of PairingMap. *)
EXTENDS PairingStorage_proofs

----
(* What find_pairing answers, by the records of the table. *)

Entry(r) == [key |-> r.key, admin |-> r.admin]

(* The pairing of a controller is the record that carries its id. *)
LEMMA MapIs ==
    ASSUME NEW t \in Table, Unique(t), NEW i \in ValidSlots(t), t[i].id \in Ids
    PROVE  MapOf(t)[t[i].id] = Entry(t[i])
<1>1. FindPairing(t, t[i].id) = t[i]
  BY FindIs
<1>2. t[i] # None
  BY MarkersNotRecords DEF ValidSlots
<1> QED BY <1>1, <1>2 DEF MapOf, Entry

(* A controller without a record has no pairing, and the other way round. *)
LEMMA MapNone ==
    ASSUME NEW t \in Table, NEW id \in Ids
    PROVE  /\ Free(t, id) <=> MapOf(t)[id] = None
           /\ FindPairing(t, id) = None <=> MapOf(t)[id] = None
<1>1. FindPairing(t, id) = None <=> MapOf(t)[id] = None
  <2>1. CASE FindPairing(t, id) = None
    BY <2>1 DEF MapOf
  <2>2. CASE FindPairing(t, id) # None
    <3>1. FindPairing(t, id) \in Records(t)
      BY <2>2, FoundIsHeld
    <3>2. FindPairing(t, id) \in Record
      BY <3>1 DEF Records, ValidSlots
    <3>3. Entry(FindPairing(t, id)) \in [key : Keys \cup {Torn}, admin : BOOLEAN]
      BY <3>2 DEF Record, Entry
    <3>4. Entry(FindPairing(t, id)) # None
      BY <3>3, StorageAssumption
    <3> QED BY <2>2, <3>4 DEF MapOf, Entry
  <2> QED BY <2>1, <2>2
<1>2. Free(t, id) <=> FindPairing(t, id) = None
  <2>1. FindPairing(t, id) # None <=> \E r \in Records(t) : r.id = id
    BY FoundIsHeld
  <2> QED BY <2>1 DEF Free, Records
<1> QED BY <1>1, <1>2

(* Nobody is paired with a blank table. *)
LEMMA BlankMap == Unique(BlankTable) /\ Records(BlankTable) = {} /\ MapOf(BlankTable) = Map!Nothing
<1>1. BlankTable \in Table /\ ValidSlots(BlankTable) = {}
  BY BlankIsValid
<1>2. \A id \in Ids : MapOf(BlankTable)[id] = None
  BY <1>1, MapNone DEF Free
<1>3. MapOf(BlankTable) = [id \in Ids |-> MapOf(BlankTable)[id]]
  BY DEF MapOf
<1> QED BY <1>1, <1>2, <1>3 DEF Unique, Records, Map!Nothing

(* A table with some of the records, perhaps with their keys cut, and with no
   other record a controller could be recognised by. *)
Remnant(u, t) ==
    \A i \in ValidSlots(u) :
        \/ u[i].id \notin Ids
        \/ \E j \in ValidSlots(t) :
              /\ t[j].id = u[i].id /\ t[j].admin = u[i].admin
              /\ u[i].key \in {t[j].key, Torn}

(* One controller after records were lost or cut. *)
LEMMA RemnantOf ==
    ASSUME NEW t \in Table, Unique(t), NEW u \in Table, Unique(u), Remnant(u, t),
           NEW id \in Ids
    PROVE  \/ MapOf(u)[id] \in {MapOf(t)[id], None}
           \/ MapOf(t)[id] # None /\ MapOf(u)[id] = [key |-> Torn, admin |-> MapOf(t)[id].admin]
<1>1. CASE Free(u, id)
  BY <1>1, MapNone
<1>2. CASE ~Free(u, id)
  <2>1. PICK i \in ValidSlots(u) : u[i].id = id
    BY <1>2 DEF Free
  <2>2. PICK j \in ValidSlots(t) : /\ t[j].id = id /\ t[j].admin = u[i].admin
                                   /\ u[i].key \in {t[j].key, Torn}
    BY <2>1 DEF Remnant
  <2>3. MapOf(u)[id] = Entry(u[i])
    BY <2>1, MapIs
  <2>4. MapOf(t)[id] = Entry(t[j])
    BY <2>2, MapIs
  <2>5. ~Free(t, id)
    BY <2>2 DEF Free
  <2>6. MapOf(t)[id] # None
    BY <2>5, MapNone
  <2> QED BY <2>2, <2>3, <2>4, <2>6 DEF Entry
<1> QED BY <1>1, <1>2

(* Records were lost or cut: a map PairingMap allows after a power loss. *)
LEMMA RemnantIsMangled ==
    ASSUME NEW t \in Table, Unique(t), NEW u \in Table, Unique(u), Remnant(u, t)
    PROVE  MapOf(u) \in Map!Mangled(MapOf(t))
<1> DEFINE m == MapOf(t)
           n == MapOf(u)
<1>1. \A id \in Ids : \/ n[id] \in {m[id], None}
                      \/ m[id] # None /\ n[id] = [key |-> Torn, admin |-> m[id].admin]
  BY RemnantOf
<1>2. \A id \in Ids : m[id] # None => m[id].admin \in BOOLEAN
  <2> SUFFICES ASSUME NEW id \in Ids, m[id] # None PROVE m[id].admin \in BOOLEAN
    OBVIOUS
  <2>1. ~Free(t, id)
    BY MapNone
  <2>2. PICK i \in ValidSlots(t) : t[i].id = id
    BY <2>1 DEF Free
  <2>3. m[id] = Entry(t[i]) /\ t[i] \in Record
    BY <2>2, MapIs DEF ValidSlots
  <2> QED BY <2>3 DEF Entry, Record
<1>3. n = [id \in Ids |-> n[id]]
  BY DEF MapOf
<1> HIDE DEF m, n
<1>4. \A id \in Ids :
         n[id] \in {m[d] : d \in Ids} \cup {None} \cup [key : {Torn}, admin : BOOLEAN]
  <2> SUFFICES ASSUME NEW id \in Ids
               PROVE  n[id] \in {m[d] : d \in Ids} \cup {None} \cup [key : {Torn}, admin : BOOLEAN]
    OBVIOUS
  <2>1. CASE n[id] \in {m[id], None}
    BY <2>1
  <2>2. CASE m[id] # None /\ n[id] = [key |-> Torn, admin |-> m[id].admin]
    <3>1. m[id].admin \in BOOLEAN
      BY <1>2, <2>2
    <3>2. n[id] \in [key : {Torn}, admin : BOOLEAN]
      BY <2>2, <3>1
    <3> QED BY <3>2
  <2> QED BY <1>1, <2>1, <2>2
<1>5. n \in [Ids -> {m[d] : d \in Ids} \cup {None} \cup [key : {Torn}, admin : BOOLEAN]]
  BY <1>3, <1>4
<1>6. n \in Map!Mangled(m)
  BY <1>1, <1>5 DEF Map!Mangled
<1> QED BY <1>6 DEF m, n

(* Whole records were lost: a map PairingMap allows remove_extra_pairing. *)
LEMMA FewerIsSubmap ==
    ASSUME NEW t \in Table, Unique(t), NEW u \in Table, Unique(u),
           Records(u) \subseteq Records(t)
    PROVE  MapOf(u) \in Map!Submaps(MapOf(t))
<1> DEFINE m == MapOf(t)
           n == MapOf(u)
<1>1. \A id \in Ids : n[id] \in {m[id], None}
  <2> SUFFICES ASSUME NEW id \in Ids, n[id] # None PROVE n[id] = m[id]
    OBVIOUS
  <2>1. ~Free(u, id)
    BY MapNone
  <2>2. PICK i \in ValidSlots(u) : u[i].id = id
    BY <2>1 DEF Free
  <2>3. PICK j \in ValidSlots(t) : t[j] = u[i]
    BY DEF Records
  <2>4. n[id] = Entry(u[i])
    BY <2>2, MapIs
  <2>5. m[id] = Entry(t[j])
    BY <2>2, <2>3, MapIs
  <2> QED BY <2>3, <2>4, <2>5
<1>2. n = [id \in Ids |-> n[id]]
  BY DEF MapOf
<1> HIDE DEF m, n
<1> QED BY <1>1, <1>2 DEF Map!Submaps, m, n

(* Moving records about changes no pairing. *)
LEMMA SameRecordsSameMap ==
    ASSUME NEW t \in Table, Unique(t), NEW u \in Table, Unique(u), Records(u) = Records(t)
    PROVE  MapOf(u) = MapOf(t)
<1>1. ASSUME NEW id \in Ids PROVE MapOf(u)[id] = MapOf(t)[id]
  <2>1. CASE Free(t, id)
    <3>1. Free(u, id)
      BY <2>1 DEF Free, Records
    <3> QED BY <2>1, <3>1, MapNone
  <2>2. CASE ~Free(t, id)
    <3>1. PICK j \in ValidSlots(t) : t[j].id = id
      BY <2>2 DEF Free
    <3>2. PICK i \in ValidSlots(u) : u[i] = t[j]
      BY DEF Records
    <3>3. MapOf(t)[id] = Entry(t[j])
      BY <3>1, MapIs
    <3>4. MapOf(u)[id] = Entry(u[i])
      BY <3>1, <3>2, MapIs
    <3> QED BY <3>2, <3>3, <3>4
  <2> QED BY <2>1, <2>2
<1> QED BY <1>1 DEF MapOf

(* remove_pairing, and the first half of update_pairing. *)
LEMMA RemovedMap ==
    ASSUME NEW t \in Table, Unique(t), NEW id \in Ids
    PROVE  MapOf(Removed(t, id)) = [MapOf(t) EXCEPT ![id] = None]
<1> DEFINE u == Removed(t, id)
<1>1. CASE FindPairing(t, id) = None
  <2>1. u = t
    BY <1>1, FoundIsHeld DEF Removed
  <2>2. MapOf(t)[id] = None
    BY <1>1, MapNone
  <2> QED BY <2>1, <2>2 DEF MapOf
<1>2. CASE FindPairing(t, id) # None
  <2>1. /\ u \in Table /\ Unique(u) /\ Free(u, id)
        /\ Records(u) = Records(t) \ {FindPairing(t, id)}
    BY <1>2, RemovedHolds
  <2>2. MapOf(u)[id] = None
    BY <2>1, MapNone
  <2>3. ASSUME NEW d \in Ids, d # id PROVE MapOf(u)[d] = MapOf(t)[d]
    <3>1. FindPairing(t, id).id = id
      BY <1>2, FoundIsValid DEF FindPairing
    <3> HIDE DEF u
    <3>2. CASE Free(t, d)
      <4>1. Free(u, d)
        BY <2>1, <3>2 DEF Free, Records
      <4> QED BY <2>1, <3>2, <4>1, MapNone
    <3>3. CASE ~Free(t, d)
      <4>1. PICK j \in ValidSlots(t) : t[j].id = d
        BY <3>3 DEF Free
      <4>2. t[j] \in Records(u)
        BY <2>1, <2>3, <3>1, <4>1 DEF Records
      <4>3. PICK i \in ValidSlots(u) : u[i] = t[j]
        BY <4>2 DEF Records
      <4>4. MapOf(t)[d] = Entry(t[j])
        BY <4>1, MapIs
      <4>5. MapOf(u)[d] = Entry(u[i])
        BY <2>1, <4>1, <4>3, MapIs
      <4> QED BY <4>3, <4>4, <4>5
    <3> QED BY <3>2, <3>3
  <2> QED BY <2>2, <2>3 DEF MapOf
<1> QED BY <1>1, <1>2

(* A record for an id the table did not hold, in one of its blank slots. *)
LEMMA WrittenMap ==
    ASSUME NEW t \in Table, Unique(t), NEW k \in EmptySlots(t),
           NEW r \in Record, r.id \in Ids, Free(t, r.id)
    PROVE  MapOf([t EXCEPT ![k] = r]) = [MapOf(t) EXCEPT ![r.id] = Entry(r)]
<1> DEFINE u == [t EXCEPT ![k] = r]
<1>1. u \in Table /\ Unique(u)
  BY PutKeepsUnique
<1>2. k \in Slots /\ k \notin ValidSlots(t)
  BY MarkersNotRecords DEF EmptySlots, ValidSlots
<1>3. ValidSlots(u) = ValidSlots(t) \cup {k} /\ u[k] = r /\ \A i \in ValidSlots(t) : u[i] = t[i]
  BY <1>2 DEF ValidSlots, Table
<1> HIDE DEF u
<1>4. MapOf(u)[r.id] = Entry(r)
  BY <1>1, <1>3, MapIs
<1>5. ASSUME NEW d \in Ids, d # r.id PROVE MapOf(u)[d] = MapOf(t)[d]
  <2>1. CASE Free(t, d)
    <3>1. Free(u, d)
      BY <1>3, <1>5, <2>1 DEF Free
    <3> QED BY <1>1, <2>1, <3>1, MapNone
  <2>2. CASE ~Free(t, d)
    <3>1. PICK j \in ValidSlots(t) : t[j].id = d
      BY <2>2 DEF Free
    <3>2. MapOf(t)[d] = Entry(t[j])
      BY <3>1, MapIs
    <3>3. j \in ValidSlots(u) /\ u[j] = t[j]
      BY <1>3
    <3>4. MapOf(u)[d] = Entry(u[j])
      BY <1>1, <3>1, <3>3, MapIs
    <3> QED BY <3>2, <3>3, <3>4
  <2> QED BY <2>1, <2>2
<1>6. MapOf(u) = [MapOf(t) EXCEPT ![r.id] = Entry(r)]
  BY <1>4, <1>5 DEF MapOf
<1> QED BY <1>6 DEF u

(* Zeroing slots, or marking blank ones, loses records and no more. *)
LEMMA MarkedMap ==
    ASSUME NEW t \in Table, Unique(t), NEW k, NEW x \in {Empty, Erased}
    PROVE  /\ [t EXCEPT ![k] = x] \in Table /\ Unique([t EXCEPT ![k] = x])
           /\ Records([t EXCEPT ![k] = x]) \subseteq Records(t)
           /\ t[k] \notin Record => Records([t EXCEPT ![k] = x]) = Records(t)
<1> DEFINE u == [t EXCEPT ![k] = x]
<1>1. x \notin Record /\ x \in Record \cup {Empty, Erased}
  BY MarkersNotRecords
<1>2. u \in Table /\ Unique(u)
  BY <1>1, PutKeepsUnique
<1>3. ValidSlots(u) = ValidSlots(t) \ {k}
  BY <1>1 DEF ValidSlots, Table
<1>4. \A i \in ValidSlots(u) : u[i] = t[i]
  BY <1>3 DEF ValidSlots, Table
<1>5. t[k] \notin Record => ValidSlots(u) = ValidSlots(t)
  BY <1>3 DEF ValidSlots
<1> HIDE DEF u
<1>6. Records(u) \subseteq Records(t)
  BY <1>3, <1>4 DEF Records
<1>7. t[k] \notin Record => Records(u) = Records(t)
  BY <1>4, <1>5 DEF Records
<1> QED BY <1>2, <1>6, <1>7 DEF u
----
(* What the refinement needs to know besides the invariant of PairingStorage:
   the call and the copy of each stage, ... *)
Served ==
    /\ pc \in {"off", "idle"} => call = NoCall
    /\ pc \in {"load", "newid", "newkey"} => call.op = "boot"
    /\ pc = "old" => call.op = "update"
    /\ (pc \in {"off", "old"} \/ call \in Removal \cup Trimming \cup Others) => ram = None

(* ... the sector while homekit_storage_reset rewrites it: what the copy holds
   is what the sector held, and the rest is blank ... *)
Rewritten ==
    /\ pc = "erase" /\ call.op = "boot" => ~magic
    /\ pc = "magic" => ~magic
    /\ pc \in {"magic", "back"} => slots = BlankTable
    /\ pc = "erase" /\ call \in NewPairing => Records(ram.slots) = Records(slots)

(* ... and that a compaction makes room. *)
Roomy ==
    /\ Rewriting => EmptySlots(ram.slots) # {}
    /\ pc = "write" => EmptySlots(slots) # {}
    /\ pc = "find" /\ ram # None /\ ~FlashFaults => EmptySlots(slots) # {}

MapInv ==
    /\ Inv
    /\ Served
    /\ Rewritten
    /\ Roomy

(* No call is NoCall, and calls of different kinds differ. *)
LEMMA CallsDiffer ==
    /\ NoCall \notin NewPairing \cup Removal \cup Trimming \cup Others
    /\ None \notin Copy
    /\ \A c \in NewPairing : c \notin Removal \cup Trimming \cup Others
    /\ [op : {"reset"}] \subseteq Others
<1>1. \A c \in NewPairing : c \notin Removal \cup Trimming \cup Others
  BY CallKinds
<1> QED BY <1>1, StorageAssumption DEF Others

(* What a call writes down before its first flash access. *)
LEMMA CallStarts ==
    ASSUME NEW c, Call(c)
    PROVE  /\ call' = c /\ ram' = None /\ UNCHANGED flash /\ pc = "idle"
           /\ pc' \in {"find", "old", "zero", "trim", "erase"}
           /\ pc' = "find" => c.op = "add"
           /\ pc' = "old" => c.op = "update"
           /\ pc' = "erase" => c.op \in {"extra", "reset"}
BY DEF Call, StartAdd, StartUpdate, StartRemove, StartExtra, StartReset

(* The stages keep their calls. *)
LEMMA ServedStep == ASSUME MapInv, [Next]_vars PROVE Served'
<1> USE CallsDiffer, CallKinds
<1>0. StageCall /\ Served /\ TypeOK
  BY DEF MapInv, Inv
<1>1. CASE PowerOn
  BY <1>1, <1>0 DEF PowerOn, Served, StageCall, Resume, Compacting, Return, flash
<1>2. CASE LoadIdentity
  BY <1>2, <1>0 DEF LoadIdentity, Served, StageCall, Resume, Compacting, Return, flash
<1>3. CASE SaveId
  BY <1>3, <1>0 DEF SaveId, Served, StageCall, Resume, Compacting, Return, flash
<1>4. CASE SaveKey
  BY <1>4, <1>0 DEF SaveKey, Served, StageCall, Resume, Compacting, Return, flash
<1>5. CASE EraseSector
  BY <1>5, <1>0 DEF EraseSector, Served, StageCall, Resume, Compacting, Return, flash
<1>6. CASE WriteMagic
  BY <1>6, <1>0 DEF WriteMagic, Served, StageCall, Resume, Compacting, Return, flash
<1>7. CASE ZeroOld
  BY <1>7, <1>0 DEF ZeroOld, Served, StageCall, Resume, Compacting, Return, flash
<1>8. CASE FindBlock
  BY <1>8, <1>0 DEF FindBlock, Served, StageCall, Resume, Compacting, Return, flash
<1>9. CASE WriteBack
  BY <1>9, <1>0 DEF WriteBack, Served, StageCall, Resume, Compacting, Return, flash
<1>10. CASE WritePairing
  BY <1>10, <1>0 DEF WritePairing, Served, StageCall, Resume, Compacting, Return, flash
<1>11. CASE ZeroPairing
  BY <1>11, <1>0 DEF ZeroPairing, Served, StageCall, Resume, Compacting, Return, flash
<1>12. CASE TrimNext
  BY <1>12, <1>0 DEF TrimNext, Served, StageCall, Resume, Compacting, Return, flash
<1>13. CASE Fault
  BY <1>13, <1>0 DEF Fault, Served, StageCall, Resume, Compacting, Return, flash
<1>14. CASE PowerLoss
  BY <1>14, <1>0 DEF PowerLoss, Served, StageCall, Resume, Compacting, Return, flash
<1>15. CASE \E c \in NewPairing \cup Removal \cup Trimming \cup [op : {"reset"}] : Call(c)
  <2>1. PICK c \in NewPairing \cup Removal \cup Trimming \cup [op : {"reset"}] : Call(c)
    BY <1>15
  <2>2. call' = c /\ ram' = None /\ pc' \in {"find", "old", "zero", "trim", "erase"}
    BY <2>1, CallStarts
  <2>3. pc' = "old" => c.op = "update"
    BY <2>1, CallStarts
  <2> QED BY <2>2, <2>3 DEF Served
<1>16. CASE UNCHANGED vars
  BY <1>0, <1>16 DEF vars, Served
<1> QED
  BY <1>1, <1>2, <1>3, <1>4, <1>5, <1>6, <1>7, <1>8, <1>9, <1>10, <1>11, <1>12, <1>13, <1>14, <1>15,
     <1>16 DEF Next, Step

(* The sector holds what the copy holds until the erase, and nothing between
   the erase and the write-back. *)
LEMMA RewrittenStep == ASSUME MapInv, [Next]_vars PROVE Rewritten'
<1> USE CallsDiffer, CallKinds
<1>0. StageCall /\ Served /\ Rewritten /\ TypeOK /\ CopyKept
  BY DEF MapInv, Inv
<1>1. CASE PowerOn
  BY <1>1, <1>0 DEF PowerOn, Rewritten, Served, StageCall, Return, flash
<1>2. CASE LoadIdentity
  BY <1>2, <1>0 DEF LoadIdentity, Rewritten, Served, StageCall, Return, flash
<1>3. CASE SaveId
  BY <1>3, <1>0 DEF SaveId, Rewritten, Served, StageCall, Return, flash
<1>4. CASE SaveKey
  BY <1>4, <1>0 DEF SaveKey, Rewritten, Served, StageCall, Return, flash
<1>5. CASE EraseSector
  BY <1>5, <1>0 DEF EraseSector, Rewritten, Served, StageCall, Return, flash
<1>6. CASE WriteMagic
  BY <1>6, <1>0 DEF WriteMagic, Rewritten, Resume, Compacting, StageCall
<1>7. CASE ZeroOld
  BY <1>7, <1>0 DEF ZeroOld, Rewritten, Served, StageCall, Return, flash
<1>8. CASE FindBlock
  <2>1. CASE pc' # "erase"
    BY <1>8, <2>1 DEF FindBlock, Rewritten, Return
  <2>2. CASE pc' = "erase"
    <3>1. ram'.slots = Packed(slots) /\ slots' = slots /\ call' = call /\ call \in NewPairing
      BY <1>8, <1>0, <2>2 DEF FindBlock, Return, StageCall, flash
    <3>2. Records(ram'.slots) = Records(slots')
      BY <1>0, <3>1, PackedLosesNothing DEF TypeOK
    <3> QED BY <2>2, <3>1, <3>2 DEF Rewritten
  <2> QED BY <2>1, <2>2
<1>9. CASE WriteBack
  BY <1>9, <1>0 DEF WriteBack, Rewritten, Served, StageCall, Return, flash
<1>10. CASE WritePairing
  BY <1>10, <1>0 DEF WritePairing, Rewritten, Served, StageCall, Return, flash
<1>11. CASE ZeroPairing
  BY <1>11, <1>0 DEF ZeroPairing, Rewritten, Served, StageCall, Return, flash
<1>12. CASE TrimNext
  BY <1>12, <1>0 DEF TrimNext, Rewritten, Served, StageCall, Return, flash
<1>13. CASE Fault
  BY <1>13, <1>0 DEF Fault, Rewritten, Served, StageCall, Return, flash
<1>14. CASE PowerLoss
  BY <1>14, <1>0 DEF PowerLoss, Rewritten, Served, StageCall, Return, flash
<1>15. CASE \E c \in NewPairing \cup Removal \cup Trimming \cup [op : {"reset"}] : Call(c)
  <2>1. PICK c \in NewPairing \cup Removal \cup Trimming \cup [op : {"reset"}] : Call(c)
    BY <1>15
  <2> QED BY <2>1, CallStarts DEF Rewritten
<1>16. CASE UNCHANGED vars
  BY <1>0, <1>16 DEF vars, flash, Rewritten, Records, ValidSlots
<1> QED
  BY <1>1, <1>2, <1>3, <1>4, <1>5, <1>6, <1>7, <1>8, <1>9, <1>10, <1>11, <1>12, <1>13, <1>14, <1>15,
     <1>16 DEF Next, Step

(* A compaction is only begun when it makes room, so the write it serves finds
   a blank slot. *)
LEMMA RoomyStep == ASSUME MapInv, [Next]_vars PROVE Roomy'
<1> USE CallsDiffer, CallKinds
<1>0. StageCall /\ Served /\ Roomy /\ TypeOK /\ CopyKept
  BY DEF MapInv, Inv
<1>1. CASE PowerOn
  BY <1>1, <1>0 DEF PowerOn, Roomy, Rewriting, Served, StageCall, Return, EmptySlots, flash
<1>2. CASE LoadIdentity
  BY <1>2, <1>0 DEF LoadIdentity, Roomy, Rewriting, Served, StageCall, Return, EmptySlots, flash
<1>3. CASE SaveId
  BY <1>3, <1>0 DEF SaveId, Roomy, Rewriting, Served, StageCall, Return, EmptySlots, flash
<1>4. CASE SaveKey
  BY <1>4, <1>0 DEF SaveKey, Roomy, Rewriting, Served, StageCall, Return, EmptySlots, flash
<1>5. CASE EraseSector
  BY <1>5, <1>0 DEF EraseSector, Roomy, Rewriting, Served, StageCall, Return, EmptySlots, flash
<1>6. CASE WriteMagic
  <2>1. pc' # "erase" /\ pc' # "magic" /\ pc' # "write" /\ pc' # "find" /\ ram' = ram
    BY <1>6, <1>0 DEF WriteMagic, Resume, Compacting, StageCall
  <2>2. Rewriting' => Rewriting
    BY <1>6, <1>0, <2>1 DEF WriteMagic, Resume, Compacting, StageCall, Rewriting
  <2> QED BY <1>0, <2>1, <2>2 DEF Roomy, EmptySlots
<1>7. CASE ZeroOld
  BY <1>7, <1>0 DEF ZeroOld, Roomy, Rewriting, Served, StageCall, Return, EmptySlots, flash
<1>8. CASE FindBlock
  <2>1. CASE pc' = "erase"
    <3>1. ram'.slots = Packed(slots) /\ CanAddPairing(slots)
      BY <1>8, <2>1 DEF FindBlock, Return
    <3>2. EmptySlots(ram'.slots) # {}
      BY <1>0, <3>1, PackedMakesRoom DEF TypeOK
    <3> QED BY <2>1, <3>2 DEF Roomy, EmptySlots
  <2>2. CASE pc' # "erase"
    <3>1. pc' = "idle" \/ (pc' = "write" /\ EmptySlots(slots') # {})
      BY <1>8, <2>2 DEF FindBlock, Return, flash, EmptySlots
    <3>2. ~Rewriting'
      BY <3>1 DEF Rewriting
    <3> QED BY <3>1, <3>2 DEF Roomy
  <2> QED BY <2>1, <2>2
<1>9. CASE WriteBack
  BY <1>9, <1>0 DEF WriteBack, Roomy, Rewriting, Served, StageCall, Return, EmptySlots, flash
<1>10. CASE WritePairing
  BY <1>10, <1>0 DEF WritePairing, Roomy, Rewriting, Served, StageCall, Return, EmptySlots, flash
<1>11. CASE ZeroPairing
  BY <1>11, <1>0 DEF ZeroPairing, Roomy, Rewriting, Served, StageCall, Return, EmptySlots, flash
<1>12. CASE TrimNext
  BY <1>12, <1>0 DEF TrimNext, Roomy, Rewriting, Served, StageCall, Return, EmptySlots, flash
<1>13. CASE Fault
  BY <1>13, <1>0 DEF Fault, Roomy, Rewriting, Served, StageCall, Return, EmptySlots, flash
<1>14. CASE PowerLoss
  BY <1>14, <1>0 DEF PowerLoss, Roomy, Rewriting, Served, StageCall, Return, EmptySlots, flash
<1>15. CASE \E c \in NewPairing \cup Removal \cup Trimming \cup [op : {"reset"}] : Call(c)
  <2>1. PICK c \in NewPairing \cup Removal \cup Trimming \cup [op : {"reset"}] : Call(c)
    BY <1>15
  <2>2. call' = c /\ ram' = None /\ pc' \in {"find", "old", "zero", "trim", "erase"}
    BY <2>1, CallStarts
  <2>3. ~Rewriting'
    BY <2>1, <2>2, CallStarts DEF Rewriting
  <2> QED BY <2>2, <2>3 DEF Roomy
<1>16. CASE UNCHANGED vars
  BY <1>0, <1>16 DEF vars, flash, Roomy, Rewriting, EmptySlots
<1> QED
  BY <1>1, <1>2, <1>3, <1>4, <1>5, <1>6, <1>7, <1>8, <1>9, <1>10, <1>11, <1>12, <1>13, <1>14, <1>15,
     <1>16 DEF Next, Step

(* The strengthened invariant holds. *)
THEOREM MapInvAlways == Spec => []MapInv
<1>1. Init => MapInv
  <2> SUFFICES ASSUME Init PROVE MapInv
    OBVIOUS
  <2>1. Inv
    BY InitInv
  <2>2. Served /\ Rewritten /\ Roomy
    BY CallsDiffer DEF Init, Served, Rewritten, Roomy, Rewriting
  <2> QED BY <2>1, <2>2 DEF MapInv
<1>2. MapInv /\ [Next]_vars => MapInv'
  BY NextInv, ServedStep, RewrittenStep, RoomyStep DEF MapInv
<1> QED BY <1>1, <1>2, PTL DEF Spec

----
(* What find_empty_block and remove_extra_pairing decide. *)

(* Only find_empty_block and a power loss leave the search for a slot. *)
LEMMA FindSteps == ASSUME MapInv, [Next]_vars, pc = "find", pc' = "idle" PROVE FindBlock
<1>1. ~(pc' = pc)
  OBVIOUS
<1>2. \A c : ~Call(c)
  BY DEF Call
<1> QED BY <1>1, <1>2 DEF Next, Step, vars, PowerOn, LoadIdentity, SaveId, SaveKey, EraseSector,
           WriteMagic, ZeroOld, WriteBack, WritePairing, ZeroPairing, TrimNext, Fault, PowerLoss

(* With a flash that works a pairing is refused only when every slot holds a
   record: whatever was zeroed is reclaimed first. *)
THEOREM RefusedForRoom == Spec => RefusedOnlyWhenFull
<1>1. MapInv /\ [Next]_vars
        => [pc = "find" /\ pc' = "idle" => ~CanAddPairing(slots) \/ FlashFaults]_vars
  <2> SUFFICES ASSUME MapInv, [Next]_vars, pc = "find", pc' = "idle", CanAddPairing(slots), ~FlashFaults
               PROVE  FALSE
    OBVIOUS
  <2>1. FindBlock
    BY FindSteps
  <2>2. EmptySlots(slots) = {} /\ ram # None
    BY <2>1 DEF FindBlock, Return
  <2> QED BY <2>2 DEF MapInv, Roomy
<1> QED BY <1>1, MapInvAlways, PTL DEF Spec, RefusedOnlyWhenFull

(* Zeroing the first record that is not to be kept keeps the others where they
   are in the order, and brings none of the later ones into the first n. *)
LEMMA ExtraErased ==
    ASSUME NEW t \in Table, NEW n \in Nat, ValidSlots(t) \ KeptSlots(t, n) # {}
    PROVE  KeptSlots([t EXCEPT ![First(ValidSlots(t) \ KeptSlots(t, n))] = Erased], n) = KeptSlots(t, n)
<1> DEFINE X == ValidSlots(t) \ KeptSlots(t, n)
           k == First(X)
           u == [t EXCEPT ![k] = Erased]
<1>1. ValidSlots(t) \in SUBSET Slots /\ \A i \in Slots : i \in Int
  BY TableAssumption DEF ValidSlots, Slots
<1>2. k \in X /\ \A i \in X : k <= i
  BY <1>1, FirstIsMember
<1> HIDE DEF X, k
<1>3. k \in ValidSlots(t) /\ k \notin KeptSlots(t, n)
  BY <1>2 DEF X
<1>4. ValidSlots(u) = ValidSlots(t) \ {k}
  BY MarkersNotRecords DEF ValidSlots, Table
<1> HIDE DEF u
<1>5. \A i \in ValidSlots(t) : Rank(t, i) \in Int
  <2> SUFFICES ASSUME NEW i \in ValidSlots(t) PROVE Rank(t, i) \in Int
    OBVIOUS
  <2> QED BY <1>1, RankBounds
<1>6. Rank(t, k) >= n
  BY <1>3, <1>5 DEF KeptSlots
<1>7. ASSUME NEW i \in KeptSlots(t, n) PROVE i \in KeptSlots(u, n)
  <2>1. i \in ValidSlots(t) /\ Rank(t, i) < n /\ i # k
    BY <1>3, <1>7 DEF KeptSlots
  <2>2. i < k
    <3> SUFFICES ASSUME k < i PROVE FALSE
      BY <1>1, <1>3, <2>1
    <3>1. Rank(t, k) < Rank(t, i)
      BY <1>3, <2>1, RankOrders
    <3> QED BY <1>3, <1>5, <1>6, <2>1, <3>1
  <2>3. {j \in ValidSlots(u) : j < i} = {j \in ValidSlots(t) : j < i}
    BY <1>1, <1>3, <1>4, <2>1, <2>2
  <2>4. Rank(u, i) = Rank(t, i)
    BY <2>3 DEF Rank
  <2> QED BY <1>4, <2>1, <2>4 DEF KeptSlots
<1>8. ASSUME NEW i \in ValidSlots(u), i \notin KeptSlots(t, n) PROVE i \notin KeptSlots(u, n)
  <2>1. i \in ValidSlots(t) /\ i # k /\ i \in X
    BY <1>4, <1>8 DEF X
  <2>2. k < i
    BY <1>1, <1>2, <1>3, <2>1
  <2> DEFINE S == {j \in ValidSlots(t) : j < k}
             T == {j \in ValidSlots(u) : j < i}
  <2>3. S \in SUBSET T
    BY <1>1, <1>3, <1>4, <2>1, <2>2
  <2>4. IsFiniteSet(T) /\ IsFiniteSet(S)
    BY <1>3, RankBounds
  <2>5. Rank(t, k) = Cardinality(S) /\ Rank(u, i) = Cardinality(T)
    BY DEF Rank
  <2> HIDE DEF S, T
  <2>6. Cardinality(S) <= Cardinality(T) /\ Cardinality(S) \in Nat /\ Cardinality(T) \in Nat
    BY <2>3, <2>4, FS_Subset, FS_CardinalityType
  <2> QED BY <1>6, <2>5, <2>6 DEF KeptSlots
<1>9. KeptSlots(u, n) \subseteq ValidSlots(u)
  BY DEF KeptSlots
<1> QED BY <1>7, <1>8, <1>9 DEF u, k, X

(* remove_extra_pairing never touches a record it is to keep, and returns only
   when no other is left. *)
THEOREM TrimKeeps == Spec => TrimKeepsOldest
<1>1. MapInv /\ [Next]_vars
        => [pc = "trim" =>
              /\ KeptSlots(slots', call.keep) = KeptSlots(slots, call.keep)
              /\ pc' = "idle" /\ ~FlashFaults =>
                     ValidSlots(slots') = KeptSlots(slots, call.keep)]_vars
  <2> SUFFICES ASSUME MapInv, [Next]_vars, pc = "trim", ~(UNCHANGED vars)
               PROVE  /\ KeptSlots(slots', call.keep) = KeptSlots(slots, call.keep)
                      /\ pc' = "idle" /\ ~FlashFaults =>
                             ValidSlots(slots') = KeptSlots(slots, call.keep)
    OBVIOUS
  <2>1. slots \in Table /\ call.keep \in Nat
    BY CallKinds DEF MapInv, Inv, TypeOK, StageCall
  <2>2. CASE TrimNext /\ ExtraSlots = {}
    <3>1. slots' = slots
      BY <2>2 DEF TrimNext
    <3>2. ValidSlots(slots) = KeptSlots(slots, call.keep)
      BY <2>2 DEF ExtraSlots, KeptSlots
    <3> QED BY <3>1, <3>2
  <2>3. CASE TrimNext /\ ExtraSlots # {}
    <3>1. slots' = [slots EXCEPT ![First(ExtraSlots)] = Erased] /\ pc' = "trim"
      BY <2>3 DEF TrimNext
    <3>2. KeptSlots(slots', call.keep) = KeptSlots(slots, call.keep)
      BY <2>1, <2>3, <3>1, ExtraErased DEF ExtraSlots
    <3> QED BY <3>1, <3>2
  <2>4. CASE Fault
    BY <2>4 DEF Fault, flash
  <2>5. CASE PowerLoss
    BY <2>5 DEF PowerLoss, flash
  <2>6. \A c : ~Call(c)
    BY DEF Call
  <2> QED BY <2>2, <2>3, <2>4, <2>5, <2>6 DEF Next, Step, PowerOn, LoadIdentity, SaveId, SaveKey,
             EraseSector, WriteMagic, ZeroOld, FindBlock, WriteBack, WritePairing, ZeroPairing
<1> QED BY <1>1, MapInvAlways, PTL DEF Spec, TrimKeepsOldest

----
(* The blank slot find_empty_block returns is blank. *)
LEMMA FoundEmpty ==
    ASSUME NEW t \in Table, EmptySlots(t) # {}
    PROVE  FindEmpty(t) \in EmptySlots(t)
<1>1. EmptySlots(t) \in SUBSET Slots
  BY DEF EmptySlots
<1> QED BY <1>1, FirstIsMember DEF FindEmpty

(* The flash machine implements the map: what a caller would see before and
   after each step is a step of PairingMap, or the same. *)

Seen == /\ VisibleMap' = VisibleMap
        /\ VisibleCall' = VisibleCall

(* The table a caller would see is the sector, the copy, or blank. *)
TableIs ==
    /\ pc \in {"magic", "back"} /\ ram # None => VisibleTable = ram.slots
    /\ ~magic /\ (pc = "off" \/ (pc = "erase" /\ call.op = "boot")) => VisibleTable = BlankTable
    /\ pc \notin {"magic", "back", "off", "erase"} => VisibleTable = slots
    /\ pc \in {"magic", "back"} /\ ram = None => VisibleTable = slots
    /\ magic /\ pc \in {"off", "erase"} => VisibleTable = slots
    /\ pc = "erase" /\ call.op # "boot" => VisibleTable = slots

(* The call a caller has in progress. *)
CallIs ==
    /\ call = NoCall => VisibleCall = NoCall
    /\ call \in NewPairing \cup Removal => VisibleCall = call
    /\ call \in Trimming => VisibleCall = [op |-> "extra"]
    /\ call \in Others /\ call.op = "boot" => VisibleCall = NoCall
    /\ call \in Others /\ call.op = "reset" /\ pc = "magic" => VisibleCall = NoCall
    /\ call \in Others /\ call.op = "reset" /\ pc # "magic" => VisibleCall = call

(* Which arm of VisibleTable applies, before a step and after it. *)
LEMMA TableSeen == TableIs /\ TableIs'
BY DEF TableIs, VisibleTable

(* Which arm of VisibleCall applies, before a step and after it. *)
LEMMA CallSeen == CallIs /\ CallIs'
<1> USE CallsDiffer, CallKinds
<1>1. CallIs
  BY DEF CallIs, VisibleCall
<1>2. CallIs'
  BY DEF CallIs, VisibleCall
<1> QED BY <1>1, <1>2

(* It begins as an empty map. *)
LEMMA InitSeen == Init => Map!Init
<1> SUFFICES ASSUME Init PROVE Map!Init
  OBVIOUS
<1>1. VisibleTable = BlankTable
  BY TableSeen DEF Init, TableIs
<1>2. VisibleCall = NoCall
  BY CallSeen DEF Init, CallIs
<1> QED BY <1>1, <1>2, BlankMap DEF Map!Init, VisibleMap

(* The boot shows nothing and changes nothing that is seen. *)
LEMMA BootSeen == ASSUME MapInv, PowerOn \/ LoadIdentity \/ SaveId \/ SaveKey PROVE Seen
<1> USE CallsDiffer, CallKinds
<1>0. StageCall /\ Served
  BY DEF MapInv, Inv
<1>1. slots' = slots /\ ram' = ram
  BY DEF PowerOn, LoadIdentity, SaveId, SaveKey, flash
<1>2. CASE PowerOn
  <2>1. pc = "off" /\ pc' \in {"load", "erase"} /\ (pc' = "load" <=> magic) /\ magic' = magic
    BY <1>2 DEF PowerOn, flash
  <2>2. call = NoCall /\ call' = [op |-> "boot"] /\ call' \in Others /\ call'.op = "boot"
    BY <1>0, <1>2, <2>1 DEF PowerOn, Served, Others
  <2>3. VisibleCall = NoCall /\ VisibleCall' = NoCall
    BY <2>2, CallSeen DEF CallIs
  <2>4. VisibleTable' = VisibleTable
    BY <1>1, <2>1, <2>2, TableSeen DEF TableIs
  <2> QED BY <2>3, <2>4 DEF Seen, VisibleMap
<1>3. CASE LoadIdentity \/ SaveId \/ SaveKey
  <2>1. pc \in {"load", "newid", "newkey"} /\ pc' \in {"idle", "newid", "newkey"}
    BY <1>3 DEF LoadIdentity, SaveId, SaveKey
  <2>2. call \in Others /\ call.op = "boot" /\ call' \in {call, NoCall}
    BY <1>0, <1>3, <2>1 DEF Served, StageCall, LoadIdentity, SaveId, SaveKey
  <2>3. VisibleCall = NoCall
    BY <2>2, CallSeen DEF CallIs
  <2>4. VisibleCall' = NoCall
    BY <2>2, CallSeen DEF CallIs
  <2>5. VisibleTable = slots /\ VisibleTable' = slots'
    BY <2>1, TableSeen DEF TableIs
  <2> QED BY <1>1, <2>3, <2>4, <2>5 DEF Seen, VisibleMap
<1> QED BY <1>2, <1>3

(* The erase and the new magic, for each call they serve: a compaction and the
   boot show nothing, a reset is done, and remove_extra_pairing on a sector
   without a magic loses what the sector held. *)
LEMMA ResetSeen == ASSUME MapInv, EraseSector \/ WriteMagic PROVE [Map!Next]_(Map!vars)
<1> USE CallsDiffer, CallKinds
<1>0. StageCall /\ Served /\ Rewritten /\ CopyKept /\ TypeOK /\ Unique(slots)
  BY DEF MapInv, Inv
<1>1. call \in NewPairing \cup Trimming \cup Others
  BY <1>0 DEF StageCall, EraseSector, WriteMagic
<1>2. BlankTable \in Table /\ Unique(BlankTable) /\ Records(BlankTable) = {}
  BY BlankIsValid, BlankMap
<1>3. CASE EraseSector
  <2>1. pc = "erase" /\ pc' = "magic" /\ slots' = BlankTable /\ call' = call /\ ram' = ram
    BY <1>3 DEF EraseSector
  <2>2. CASE call \in NewPairing
    <3>1. ram \in Copy /\ ram # None /\ Unique(ram.slots) /\ ram.slots \in Table
      BY <1>0, <2>1, <2>2 DEF CopyKept, Rewriting, Copy
    <3>2. VisibleTable = slots /\ VisibleTable' = ram.slots
      BY <2>1, <2>2, <3>1, TableSeen DEF TableIs
    <3>3. Records(ram.slots) = Records(slots)
      BY <1>0, <2>1, <2>2 DEF Rewritten
    <3>4. MapOf(ram.slots) = MapOf(slots)
      BY <1>0, <3>1, <3>3, SameRecordsSameMap DEF TypeOK
    <3>5. VisibleCall' = VisibleCall
      BY <2>1, <2>2, CallSeen DEF CallIs
    <3> QED BY <3>2, <3>4, <3>5 DEF VisibleMap, Map!vars
  <2>3. CASE call \in Trimming
    <3>1. ram = None /\ ram' = None
      BY <1>0, <2>1, <2>3 DEF Served
    <3>2. VisibleTable = slots /\ VisibleTable' = BlankTable
      BY <2>1, <2>3, <3>1, TableSeen DEF TableIs
    <3>3. VisibleCall = [op |-> "extra"] /\ VisibleCall' = VisibleCall
      BY <2>1, <2>3, CallSeen DEF CallIs
    <3>4. MapOf(BlankTable) \in Map!Submaps(MapOf(slots))
      BY <1>0, <1>2, FewerIsSubmap DEF TypeOK
    <3>5. VisibleCall # NoCall /\ VisibleCall.op = "extra"
      BY <3>3, StorageAssumption
    <3> QED BY <3>2, <3>3, <3>4, <3>5 DEF VisibleMap, Map!Next, Map!Drop
  <2>4. CASE call \in Others /\ call.op = "boot"
    <3>1. ram = None /\ ram' = None /\ ~magic
      BY <1>0, <2>1, <2>4 DEF Served, Rewritten
    <3>2. VisibleTable = BlankTable /\ VisibleTable' = BlankTable
      BY <2>1, <2>4, <3>1, TableSeen DEF TableIs
    <3>3. VisibleCall = NoCall /\ VisibleCall' = NoCall
      BY <2>1, <2>4, CallSeen DEF CallIs
    <3> QED BY <3>2, <3>3 DEF VisibleMap, Map!vars
  <2>5. CASE call \in Others /\ call.op = "reset"
    <3>1. ram = None /\ ram' = None
      BY <1>0, <2>1, <2>5 DEF Served
    <3>2. VisibleTable' = BlankTable
      BY <2>1, <2>5, <3>1, TableSeen DEF TableIs
    <3>3. VisibleCall = call /\ VisibleCall' = NoCall /\ call # NoCall
      BY <2>1, <2>5, CallSeen DEF CallIs
    <3>4. VisibleMap' = Map!Effect(VisibleCall, VisibleMap)
      BY <2>5, <3>2, <3>3, BlankMap DEF Map!Effect, VisibleMap
    <3> QED BY <3>3, <3>4 DEF Map!Next, Map!Done
  <2> QED BY <1>1, <2>2, <2>3, <2>4, <2>5
<1>4. CASE WriteMagic
  <2>1. pc = "magic" /\ magic' = TRUE /\ slots' = slots /\ ram' = ram
    BY <1>4 DEF WriteMagic
  <2>2. CASE call \in NewPairing
    <3>1. pc' = "back" /\ call' = call
      BY <1>4, <2>2 DEF WriteMagic, Resume, Compacting
    <3>2. ram \in Copy /\ ram # None
      BY <1>0, <2>1, <2>2 DEF CopyKept, Rewriting
    <3>3. VisibleTable = ram.slots /\ VisibleTable' = ram.slots
      BY <2>1, <3>1, <3>2, TableSeen DEF TableIs
    <3>4. VisibleCall' = VisibleCall
      BY <2>2, <3>1, CallSeen DEF CallIs
    <3> QED BY <3>3, <3>4 DEF VisibleMap, Map!vars
  <2>3. CASE call \in Trimming \cup Others
    <3>1. ram = None
      BY <1>0, <2>3 DEF Served
    <3>2. /\ pc' \in {"trim", "load", "off"} /\ call' = IF pc' = "off" THEN NoCall ELSE call
          /\ pc' = "off" <=> call.op = "reset"
      BY <1>4, <2>3 DEF WriteMagic, Resume, Compacting
    <3>3. VisibleTable = slots /\ VisibleTable' = slots'
      BY <2>1, <3>1, <3>2, TableSeen DEF TableIs
    <3>4. VisibleCall' = VisibleCall
      BY <2>1, <2>3, <3>2, CallSeen DEF CallIs
    <3> QED BY <2>1, <3>3, <3>4 DEF VisibleMap, Map!vars
  <2> QED BY <1>1, <2>2, <2>3
<1> QED BY <1>3, <1>4

(* A call begins as the same call of the map. *)
LEMMA CallMaps == ASSUME MapInv, NEW c, Call(c),
                         c \in NewPairing \cup Removal \cup Trimming \cup [op : {"reset"}]
                  PROVE  Map!Next
<1> USE CallsDiffer, CallKinds
<1>0. Served /\ TypeOK
  BY DEF MapInv, Inv
<1>1. /\ pc = "idle" /\ call' = c /\ slots' = slots /\ call = NoCall
      /\ pc' \in {"find", "old", "zero", "trim", "erase"}
      /\ pc' = "erase" => c.op # "boot"
  BY <1>0, CallStarts DEF flash, Served
<1>2. VisibleTable = slots /\ VisibleTable' = slots
  BY <1>1, TableSeen DEF TableIs
<1>3. VisibleCall = NoCall
  BY <1>1, CallSeen DEF CallIs
<1>4. VisibleCall' \in Map!Calls /\ VisibleCall'.op = c.op /\ (c \in NewPairing => VisibleCall' = c)
  <2>1. CASE c \in NewPairing
    BY <1>1, <2>1, CallSeen DEF Map!Calls, NewPairing, CallIs
  <2>2. CASE c \in Removal
    BY <1>1, <2>2, CallSeen DEF Map!Calls, Removal, CallIs
  <2>3. CASE c \in Trimming
    BY <1>1, <2>3, CallSeen DEF Map!Calls, CallIs
  <2>4. CASE c \in [op : {"reset"}]
    BY <1>1, <2>4, CallSeen DEF Map!Calls, CallIs
  <2> QED BY <2>1, <2>2, <2>3, <2>4
<1>5. ASSUME c.op = "add" PROVE VisibleMap[c.id] = None
  <2>1. c \in NewPairing /\ c.id \in Ids /\ FindPairing(slots, c.id) = None
    BY <1>5 DEF Call, StartAdd, StartUpdate, StartRemove, StartExtra, StartReset
  <2> QED BY <1>0, <1>2, <2>1, MapNone DEF VisibleMap, TypeOK
<1>6. ASSUME c.op = "update" PROVE VisibleMap[c.id] # None
  <2>1. c \in NewPairing /\ c.id \in Ids /\ FindPairing(slots, c.id) # None
    BY <1>6 DEF Call, StartAdd, StartUpdate, StartRemove, StartExtra, StartReset
  <2> QED BY <1>0, <1>2, <2>1, MapNone DEF VisibleMap, TypeOK
<1>7. Map!Call(VisibleCall')
  <2>1. c.op \in {"add", "update"} => c \in NewPairing
    OBVIOUS
  <2> QED BY <1>2, <1>3, <1>4, <1>5, <1>6, <2>1 DEF Map!Call, VisibleMap
<1> QED BY <1>4, <1>7 DEF Map!Next

(* update_pairing: nothing to do, or the pairing is withdrawn before it comes
   back with the new permissions. *)
LEMMA ZeroOldMaps == ASSUME MapInv, ZeroOld PROVE Map!Next
<1>0. StageCall /\ TypeOK /\ Unique(slots)
  BY DEF MapInv, Inv
<1>1. pc = "old" /\ call \in NewPairing /\ call # NoCall /\ pc' \in {"idle", "find"}
  BY <1>0, CallsDiffer DEF ZeroOld, StageCall, Return
<1>2. VisibleTable = slots /\ VisibleTable' = slots'
  BY <1>1, TableSeen DEF TableIs
<1>3. VisibleCall = call
  BY <1>1, CallSeen DEF CallIs
<1>4. CASE Return /\ slots' = slots
  <2>1. VisibleCall' = NoCall
    BY <1>4, CallSeen DEF Return, CallIs
  <2> QED BY <1>1, <1>2, <1>3, <1>4, <2>1 DEF Map!Next, Map!Refused, VisibleMap
<1>5. CASE slots' = Removed(slots, call.id) /\ call' = call /\ FindPairing(slots, call.id).admin # call.admin
  <2>1. VisibleCall' = call
    BY <1>1, <1>5, CallSeen DEF CallIs
  <2>2. VisibleMap' = [VisibleMap EXCEPT ![call.id] = None]
    BY <1>0, <1>1, <1>2, <1>5, RemovedMap, CallKinds DEF VisibleMap, TypeOK
  <2>3. call.op = "update"
    BY <1>1 DEF MapInv, Served
  <2> QED BY <1>1, <1>3, <2>1, <2>2, <2>3 DEF Map!Next, Map!Withdraw
<1> QED BY <1>4, <1>5 DEF ZeroOld

(* The search for a slot shows nothing, unless there is none. *)
LEMMA FindBlockMaps == ASSUME MapInv, FindBlock PROVE [Map!Next]_(Map!vars)
<1>0. StageCall
  BY DEF MapInv, Inv
<1>1. /\ pc = "find" /\ call \in NewPairing /\ call # NoCall /\ slots' = slots
      /\ call.op # "boot"
  BY <1>0, CallsDiffer, CallKinds DEF FindBlock, StageCall, flash
<1>2. VisibleTable = slots /\ VisibleCall = call
  BY <1>1, TableSeen, CallSeen DEF TableIs, CallIs
<1>3. CASE Return
  <2>1. VisibleTable' = slots /\ VisibleCall' = NoCall
    BY <1>1, <1>3, TableSeen, CallSeen DEF Return, TableIs, CallIs
  <2> QED BY <1>1, <1>2, <2>1 DEF Map!Next, Map!Refused, VisibleMap
<1>4. CASE pc' \in {"write", "erase"} /\ call' = call
  <2>1. VisibleTable' = slots /\ VisibleCall' = call
    BY <1>1, <1>4, TableSeen, CallSeen DEF TableIs, CallIs
  <2> QED BY <1>2, <2>1 DEF VisibleMap, Map!vars
<1> QED BY <1>3, <1>4 DEF FindBlock

(* The write-back puts into the sector what was seen all along. *)
LEMMA WriteBackSeen == ASSUME MapInv, WriteBack PROVE Seen
<1>0. StageCall /\ CopyKept
  BY DEF MapInv, Inv
<1>1. pc = "back" /\ call \in NewPairing /\ slots' = ram.slots /\ pc' = "find" /\ call' = call
  BY <1>0 DEF WriteBack, StageCall
<1>2. ram # None
  BY <1>0, <1>1, CallsDiffer DEF CopyKept, Rewriting
<1>3. VisibleTable = ram.slots /\ VisibleTable' = ram.slots /\ VisibleCall' = VisibleCall
  BY <1>1, <1>2, TableSeen, CallSeen DEF TableIs, CallIs
<1> QED BY <1>3 DEF Seen, VisibleMap

(* The record is in its slot: the pairing is there, and the call is done. *)
LEMMA WritePairingMaps == ASSUME MapInv, WritePairing PROVE Map!Next
<1>0. StageCall /\ TypeOK /\ Unique(slots) /\ RoomForId /\ Roomy
  BY DEF MapInv, Inv
<1>1. /\ pc = "write" /\ call \in NewPairing /\ call # NoCall /\ pc' = "idle" /\ call' = NoCall
      /\ slots' = [slots EXCEPT ![FindEmpty(slots)] = NewRecord]
  BY <1>0, CallsDiffer DEF WritePairing, StageCall, Return
<1>2. VisibleTable = slots /\ VisibleTable' = slots' /\ VisibleCall = call /\ VisibleCall' = NoCall
  BY <1>1, TableSeen, CallSeen DEF TableIs, CallIs
<1>3. NewRecord \in Record /\ NewRecord.id = call.id /\ call.id \in Ids
      /\ Entry(NewRecord) = [key |-> call.key, admin |-> call.admin]
  BY <1>1, CallKinds DEF NewRecord, NewRecordOf, Entry
<1>4. FindEmpty(slots) \in EmptySlots(slots)
  BY <1>0, <1>1, FoundEmpty DEF Roomy, TypeOK
<1>5. Free(slots, call.id)
  BY <1>0, <1>1 DEF RoomForId
<1>6. MapOf(slots') = [MapOf(slots) EXCEPT ![call.id] = Entry(NewRecord)]
  <2> DEFINE r == NewRecord
             k == FindEmpty(slots)
  <2>1. r \in Record /\ r.id = call.id /\ call.id \in Ids /\ k \in EmptySlots(slots)
    BY <1>3, <1>4
  <2>2. slots' = [slots EXCEPT ![k] = r]
    BY <1>1
  <2> HIDE DEF r, k
  <2>3. MapOf([slots EXCEPT ![k] = r]) = [MapOf(slots) EXCEPT ![r.id] = Entry(r)]
    BY <1>0, <1>5, <2>1, WrittenMap DEF TypeOK
  <2> QED BY <2>1, <2>2, <2>3 DEF r
<1>7. VisibleMap' = Map!Effect(call, VisibleMap)
  BY <1>1, <1>2, <1>3, <1>6, CallKinds DEF Map!Effect, Map!Put, VisibleMap
<1> QED BY <1>1, <1>2, <1>7 DEF Map!Next, Map!Done

(* The record is zeroed: the pairing is gone, and the call is done. *)
LEMMA ZeroPairingMaps == ASSUME MapInv, ZeroPairing PROVE Map!Next
<1>0. StageCall /\ TypeOK /\ Unique(slots)
  BY DEF MapInv, Inv
<1>1. /\ pc = "zero" /\ call \in Removal /\ call # NoCall /\ pc' = "idle" /\ call' = NoCall
      /\ slots' = Removed(slots, call.id)
  BY <1>0, CallsDiffer DEF ZeroPairing, StageCall, Return
<1>2. VisibleTable = slots /\ VisibleTable' = slots' /\ VisibleCall = call /\ VisibleCall' = NoCall
  BY <1>1, TableSeen, CallSeen DEF TableIs, CallIs
<1>3. MapOf(slots') = [MapOf(slots) EXCEPT ![call.id] = None]
  BY <1>0, <1>1, RemovedMap, CallKinds DEF TypeOK
<1>4. VisibleMap' = Map!Effect(call, VisibleMap)
  BY <1>1, <1>2, <1>3, CallKinds DEF Map!Effect, VisibleMap
<1> QED BY <1>1, <1>2, <1>4 DEF Map!Next, Map!Done

(* remove_extra_pairing drops one record at a time. *)
LEMMA TrimMaps == ASSUME MapInv, TrimNext PROVE Map!Next
<1>0. StageCall /\ TypeOK /\ Unique(slots)
  BY DEF MapInv, Inv
<1>1. pc = "trim" /\ call \in Trimming
  BY <1>0 DEF TrimNext, StageCall
<1>2. VisibleTable = slots /\ VisibleCall = [op |-> "extra"]
  BY <1>1, TableSeen, CallSeen DEF TableIs, CallIs
<1>3. [op |-> "extra"] # NoCall /\ [op |-> "extra"].op = "extra"
  BY StorageAssumption
<1>4. CASE Return /\ slots' = slots
  <2>1. VisibleTable' = slots /\ VisibleCall' = NoCall
    BY <1>4, TableSeen, CallSeen DEF Return, TableIs, CallIs
  <2> QED BY <1>2, <1>3, <2>1 DEF Map!Next, Map!Refused, VisibleMap
<1>5. CASE UNCHANGED <<pc, call>> /\ slots' = [slots EXCEPT ![First(ExtraSlots)] = Erased]
  <2>1. VisibleTable' = slots' /\ VisibleCall' = VisibleCall
    BY <1>1, <1>5, TableSeen, CallSeen DEF TableIs, CallIs
  <2> DEFINE k == First(ExtraSlots)
  <2>2. slots' = [slots EXCEPT ![k] = Erased] /\ Erased \in {Empty, Erased}
    BY <1>5
  <2> HIDE DEF k
  <2>3. slots' \in Table /\ Unique(slots') /\ Records(slots') \subseteq Records(slots)
    BY <1>0, <2>2, MarkedMap DEF TypeOK
  <2>4. MapOf(slots') \in Map!Submaps(MapOf(slots))
    BY <1>0, <2>3, FewerIsSubmap DEF TypeOK
  <2> QED BY <1>2, <1>3, <2>1, <2>4 DEF Map!Next, Map!Drop, VisibleMap
<1> QED BY <1>4, <1>5 DEF TrimNext

(* An access that fails: the call ends with nothing done, or a compaction that
   had erased the sector goes on without its copy. *)
LEMMA FaultMaps == ASSUME MapInv, Fault PROVE [Map!Next]_(Map!vars)
<1> USE CallsDiffer, CallKinds
<1>0. StageCall /\ Served /\ Rewritten /\ CopyKept /\ TypeOK /\ Unique(slots)
  BY DEF MapInv, Inv
<1>1. FlashFaults /\ slots' = slots /\ ram' = ram /\ magic' = magic
  BY DEF Fault, flash
<1>2. CASE pc \in {"old", "write", "zero", "trim"} /\ Return
  <2>1. VisibleTable = slots /\ VisibleTable' = slots /\ VisibleCall' = NoCall
    BY <1>1, <1>2, TableSeen, CallSeen DEF Return, TableIs, CallIs
  <2>2. call \in NewPairing \cup Removal \cup Trimming
    BY <1>0, <1>2 DEF StageCall
  <2>3. VisibleCall # NoCall
    <3>1. CASE call \in NewPairing \cup Removal
      BY <3>1, CallSeen DEF CallIs
    <3>2. CASE call \in Trimming
      BY <3>2, CallSeen, StorageAssumption DEF CallIs
    <3> QED BY <2>2, <3>1, <3>2
  <2> QED BY <2>1, <2>3 DEF Map!Next, Map!Refused, VisibleMap
<1>3. CASE pc' = "find" /\ call' = call /\ call \in NewPairing /\ pc \in {"erase", "magic", "back"}
  <2>1. VisibleTable' = slots /\ VisibleCall = call /\ VisibleCall' = call /\ call # NoCall
    BY <1>1, <1>3, TableSeen, CallSeen DEF TableIs, CallIs
  <2>2. CASE pc = "erase"
    <3>1. VisibleTable = slots
      BY <1>3, <2>2, TableSeen DEF TableIs
    <3> QED BY <2>1, <3>1 DEF VisibleMap, Map!vars
  <2>3. CASE pc \in {"magic", "back"}
    <3>1. ram \in Copy /\ ram # None /\ Unique(ram.slots) /\ ram.slots \in Table
      BY <1>0, <1>3, <2>3 DEF CopyKept, Rewriting, Copy
    <3>2. VisibleTable = ram.slots
      BY <2>3, <3>1, TableSeen DEF TableIs
    <3>3. slots = BlankTable
      BY <1>0, <2>3 DEF Rewritten
    <3>4. BlankTable \in Table /\ Unique(BlankTable) /\ Records(BlankTable) \subseteq Records(ram.slots)
      BY BlankIsValid, BlankMap
    <3>5. MapOf(BlankTable) \in Map!Submaps(MapOf(ram.slots))
      BY <3>1, <3>4, FewerIsSubmap
    <3>6. Map!Stores(call)
      BY <1>3, <2>1 DEF Map!Stores
    <3> QED BY <1>1, <2>1, <3>2, <3>3, <3>5, <3>6 DEF Map!Next, Map!Drop, VisibleMap
  <2> QED BY <1>3, <2>2, <2>3
<1>4. CASE pc \in {"erase", "magic"} /\ call.op = "reset" /\ pc' = "off" /\ call' = NoCall
  <2>1. call \in Others /\ ram = None
    BY <1>0, <1>4 DEF StageCall, Served
  <2>2. VisibleCall' = NoCall
    BY <1>4, CallSeen DEF CallIs
  <2>3. CASE pc = "erase"
    <3>1. VisibleCall = call /\ VisibleTable = slots /\ call # NoCall
      BY <1>4, <2>1, <2>3, CallSeen, TableSeen DEF TableIs, CallIs
    <3>2. CASE magic
      <4>1. VisibleTable' = slots
        BY <1>1, <1>4, <3>2, TableSeen DEF TableIs
      <4> QED BY <2>2, <3>1, <4>1 DEF Map!Next, Map!Refused, VisibleMap
    <3>3. CASE ~magic
      <4>1. VisibleTable' = BlankTable
        BY <1>1, <1>4, <3>3, TableSeen DEF TableIs
      <4>2. VisibleMap' = Map!Effect(call, VisibleMap)
        BY <1>4, <4>1, BlankMap DEF Map!Effect, VisibleMap
      <4> QED BY <2>2, <3>1, <4>2 DEF Map!Next, Map!Done
    <3> QED BY <3>2, <3>3
  <2>4. CASE pc = "magic"
    <3>1. slots = BlankTable /\ ~magic
      BY <1>0, <2>4 DEF Rewritten
    <3>2. VisibleTable = BlankTable /\ VisibleTable' = BlankTable
      BY <1>1, <1>4, <2>1, <2>4, <3>1, TableSeen DEF TableIs
    <3>3. VisibleCall = NoCall
      BY <1>4, <2>1, <2>4, CallSeen DEF CallIs
    <3> QED BY <2>2, <3>2, <3>3 DEF VisibleMap, Map!vars
  <2> QED BY <1>4, <2>3, <2>4
<1> QED BY <1>0, <1>2, <1>3, <1>4 DEF Fault, Compacting, StageCall

(* A cut write-back leaves some of the copied records, the last perhaps with a
   part of its key. *)
LEMMA CutBackRemnant ==
    ASSUME NEW t \in Table, ram.slots = t, NEW n \in ValidSlots(t), NEW r \in PartOf(t[n])
    PROVE  Remnant(CutBack(n, r), t)
<1> DEFINE u == CutBack(n, r)
<1>1. t[n] \in Record /\ n \in Slots /\ n \in Int
  BY TableAssumption DEF ValidSlots, Slots
<1>2. SUFFICES ASSUME NEW i \in ValidSlots(u), u[i].id \in Ids
               PROVE  \E j \in ValidSlots(t) : /\ t[j].id = u[i].id /\ t[j].admin = u[i].admin
                                               /\ u[i].key \in {t[j].key, Torn}
  BY DEF Remnant
<1>3. i \in Slots /\ i \in Int /\ u[i] \in Record
  BY TableAssumption DEF ValidSlots, Slots
<1>4. CASE i < n
  <2>1. u[i] = t[i]
    BY <1>3, <1>4 DEF CutBack
  <2> QED BY <1>3, <2>1 DEF ValidSlots
<1>5. CASE i = n
  <2>1. u[i] = r
    BY <1>1, <1>3, <1>5 DEF CutBack
  <2>2. r \in {t[n]} \cup [id : {t[n].id, Torn}, key : {Torn}, admin : {t[n].admin}]
    BY <1>3, <2>1, MarkersNotRecords DEF PartOf
  <2>3. r.id # Torn
    BY <1>2, <2>1, MarkerAssumption
  <2>4. r.id = t[n].id /\ r.admin = t[n].admin /\ r.key \in {t[n].key, Torn}
    BY <2>2, <2>3
  <2> QED BY <2>1, <2>4
<1>6. CASE i > n
  <2>1. u[i] = Empty
    BY <1>1, <1>3, <1>6 DEF CutBack
  <2> QED BY <1>3, <2>1, MarkersNotRecords
<1> QED BY <1>1, <1>3, <1>4, <1>5, <1>6

(* After a cut write of a new record: nothing, the record, or the record with a
   part of its key. *)
LEMMA CutWriteMap ==
    ASSUME NEW t \in Table, Unique(t), NEW k \in EmptySlots(t),
           NEW c \in NewPairing, Free(t, c.id), NEW r \in PartOf(NewRecordOf(c))
    PROVE  \/ MapOf([t EXCEPT ![k] = r]) = MapOf(t)
           \/ \E x \in {Torn, c.key} : MapOf([t EXCEPT ![k] = r]) = Map!Put(MapOf(t), c, x)
<1> DEFINE u == [t EXCEPT ![k] = r]
<1>1. c.id \in Ids /\ NewRecordOf(c) \in Record
  BY CallKinds
<1>2. k \in Slots /\ t[k] \notin Record
  BY MarkersNotRecords DEF EmptySlots
<1>3. CASE r \in {Empty, Erased}
  <2>1. u \in Table /\ Unique(u) /\ Records(u) = Records(t)
    BY <1>2, <1>3, MarkedMap
  <2> QED BY <2>1, SameRecordsSameMap
<1>4. CASE r \in Record /\ r.id = c.id /\ r.admin = c.admin /\ r.key \in {Torn, c.key}
  <2>1. MapOf(u) = [MapOf(t) EXCEPT ![r.id] = Entry(r)]
    BY <1>1, <1>4, WrittenMap
  <2>2. MapOf(u) = Map!Put(MapOf(t), c, r.key)
    BY <1>4, <2>1 DEF Map!Put, Entry
  <2> QED BY <1>4, <2>2
<1>5. CASE r \in Record /\ r.id = Torn
  <2>1. u \in Table /\ Unique(u)
    BY <1>5, PutKeepsUnique
  <2>2. ValidSlots(u) = ValidSlots(t) \cup {k} /\ u[k] = r /\ \A i \in ValidSlots(t) : u[i] = t[i]
    BY <1>2, <1>5 DEF ValidSlots, Table
  <2> HIDE DEF u
  <2>3. ASSUME NEW d \in Ids PROVE MapOf(u)[d] = MapOf(t)[d]
    <3>0. d # Torn
      BY MarkerAssumption
    <3>1. CASE Free(t, d)
      <4>1. Free(u, d)
        BY <1>5, <2>2, <3>0, <3>1 DEF Free
      <4> QED BY <2>1, <3>1, <4>1, MapNone
    <3>2. CASE ~Free(t, d)
      <4>1. PICK j \in ValidSlots(t) : t[j].id = d
        BY <3>2 DEF Free
      <4>2. MapOf(t)[d] = Entry(t[j])
        BY <4>1, MapIs
      <4>3. j \in ValidSlots(u) /\ u[j] = t[j]
        BY <2>2
      <4>4. MapOf(u)[d] = Entry(u[j])
        BY <2>1, <4>1, <4>3, MapIs
      <4> QED BY <4>2, <4>3, <4>4
    <3> QED BY <3>1, <3>2
  <2>4. MapOf(u) = MapOf(t)
    BY <2>3 DEF MapOf
  <2> QED BY <2>4 DEF u
<1>6. \/ r \in {Empty, Erased}
      \/ (r \in Record /\ r.admin = c.admin /\ r.key \in {Torn, c.key} /\ r.id \in {c.id, Torn})
  BY <1>1 DEF PartOf, NewRecordOf, Record
<1> QED BY <1>3, <1>4, <1>5, <1>6

(* The blank sector of a device that restarts without a magic is a map
   PairingMap allows after a power loss. *)
LEMMA LostIsMangled ==
    ASSUME NEW t \in Table, Unique(t)
    PROVE  MapOf(BlankTable) \in Map!Mangled(MapOf(t))
<1>1. BlankTable \in Table /\ Unique(BlankTable) /\ Remnant(BlankTable, t)
  BY BlankIsValid, BlankMap DEF Remnant
<1> QED BY <1>1, RemnantIsMangled

(* The power goes: between two accesses, or within one of the two writes. *)
LEMMA PowerLossMaps == ASSUME MapInv, PowerLoss PROVE Map!Next
<1> USE CallsDiffer, CallKinds
<1>0. StageCall /\ Served /\ Rewritten /\ CopyKept /\ TypeOK /\ Unique(slots) /\ IdentityFirst
      /\ RoomForId /\ Roomy
  BY DEF MapInv, Inv
<1>1. pc # "off" /\ pc' = "off" /\ call' = NoCall /\ magic' = magic
  BY DEF PowerLoss, flash
<1>2. VisibleCall' = NoCall
  BY <1>1, CallSeen DEF CallIs
<1>3. /\ magic => VisibleTable' = slots'
      /\ ~magic => VisibleTable' = BlankTable
  BY <1>1, TableSeen DEF TableIs
<1> SUFFICES Map!PowerLoss
  BY DEF Map!Next
<1>4. CASE call \in NewPairing /\ pc \in {"magic", "back"}
  <2>1. ram \in Copy /\ ram # None /\ Unique(ram.slots) /\ ram.slots \in Table
    BY <1>0, <1>4 DEF CopyKept, Rewriting, Copy
  <2>2. VisibleTable = ram.slots
    BY <1>4, <2>1, TableSeen DEF TableIs
  <2>3. Map!Stores(VisibleCall)
    BY <1>4, CallSeen DEF Map!Stores, CallIs
  <2>4. VisibleTable' = BlankTable \/ \E n \in ValidSlots(ram.slots) : \E r \in PartOf(ram.slots[n]) :
                                        VisibleTable' = CutBack(n, r)
    BY <1>0, <1>3, <1>4 DEF PowerLoss, Rewritten, flash
  <2>5. MapOf(VisibleTable') \in Map!Mangled(MapOf(ram.slots))
    <3>1. CASE VisibleTable' = BlankTable
      BY <2>1, <3>1, LostIsMangled
    <3>2. CASE \E n \in ValidSlots(ram.slots) : \E r \in PartOf(ram.slots[n]) :
                  VisibleTable' = CutBack(n, r)
      <4>0. PICK n \in ValidSlots(ram.slots) : \E r \in PartOf(ram.slots[n]) : VisibleTable' = CutBack(n, r)
        BY <3>2
      <4>1. PICK r \in PartOf(ram.slots[n]) : VisibleTable' = CutBack(n, r)
        BY <4>0
      <4>2. CutBack(n, r) \in Table /\ Unique(CutBack(n, r)) /\ Remnant(CutBack(n, r), ram.slots)
        BY <2>1, CutBackKeeps, CutBackRemnant
      <4> QED BY <2>1, <4>1, <4>2, RemnantIsMangled
    <3> QED BY <2>4, <3>1, <3>2
  <2> QED BY <1>2, <2>2, <2>3, <2>5 DEF Map!PowerLoss, VisibleMap
<1>5. CASE ~(call \in NewPairing /\ pc \in {"magic", "back"})
  <2>0. pc # "back"
    BY <1>0, <1>5 DEF StageCall
  <2>1. VisibleTable = IF pc = "erase" /\ call.op = "boot" THEN BlankTable ELSE slots
    <3>1. CASE pc = "magic"
      <4>1. ram = None
        BY <1>0, <1>5, <3>1 DEF StageCall, Served
      <4> QED BY <3>1, <4>1, TableSeen DEF TableIs
    <3>2. CASE pc = "erase"
      <4>1. call.op = "boot" => ~magic
        BY <1>0, <3>2 DEF Rewritten
      <4> QED BY <3>2, <4>1, TableSeen DEF TableIs
    <3>3. CASE pc \notin {"magic", "erase"}
      BY <1>1, <2>0, <3>3, TableSeen DEF TableIs
    <3> QED BY <3>1, <3>2, <3>3
  <2>2. CASE UNCHANGED flash /\ magic
    <3>1. ~(pc = "erase" /\ call.op = "boot")
      BY <1>0, <2>2 DEF Rewritten
    <3>2. VisibleTable' = VisibleTable
      BY <1>3, <2>1, <2>2, <3>1 DEF flash
    <3> QED BY <1>2, <3>2 DEF Map!PowerLoss, VisibleMap
  <2>3. CASE ~magic
    <3>1. VisibleTable' = BlankTable
      BY <1>3, <2>3
    <3>2. VisibleTable \in Table /\ Unique(VisibleTable)
      BY <1>0, <2>1, BlankIsValid, BlankMap DEF TypeOK
    <3>3. MapOf(BlankTable) \in Map!Mangled(MapOf(VisibleTable))
      BY <3>2, LostIsMangled
    <3>4. CASE FlashFaults
      BY <1>2, <3>1, <3>3, <3>4 DEF Map!PowerLoss, VisibleMap
    <3>5. CASE ~FlashFaults
      <4>1. pc \in {"erase", "magic"}
        BY <1>0, <1>1, <2>3, <3>5 DEF IdentityFirst
      <4>2. call \in NewPairing \cup Others
        BY <1>0, <3>5, <4>1 DEF StageCall, IdentityFirst
      <4>3. CASE call \in NewPairing
        <5>1. Map!Stores(VisibleCall)
          BY <4>3, CallSeen DEF Map!Stores, CallIs
        <5> QED BY <1>2, <3>1, <3>3, <5>1 DEF Map!PowerLoss, VisibleMap
      <4>4. CASE call \in Others /\ pc = "magic"
        <5>1. slots = BlankTable
          BY <1>0, <4>4 DEF Rewritten
        <5>2. VisibleTable' = VisibleTable
          BY <2>1, <3>1, <4>4, <5>1
        <5> QED BY <1>2, <5>2 DEF Map!PowerLoss, VisibleMap
      <4>5. CASE call \in Others /\ call.op = "boot"  /\ pc = "erase"
        <5>1. VisibleTable' = VisibleTable
          BY <2>1, <3>1, <4>5
        <5> QED BY <1>2, <5>1 DEF Map!PowerLoss, VisibleMap
      <4>6. CASE call \in Others /\ call.op = "reset" /\ pc = "erase"
        <5>1. VisibleCall = call /\ call # NoCall /\ ~Map!Stores(call)
          BY <4>6, CallSeen DEF Map!Stores, CallIs
        <5>2. VisibleMap' = Map!Effect(call, VisibleMap)
          BY <3>1, <4>6, BlankMap DEF Map!Effect, VisibleMap
        <5> QED BY <1>2, <5>1, <5>2 DEF Map!PowerLoss
      <4> QED BY <4>1, <4>2, <4>3, <4>4, <4>5, <4>6
    <3> QED BY <3>4, <3>5
  <2>4. CASE /\ magic /\ pc = "write"
             /\ \E r \in PartOf(NewRecord) : slots' = [slots EXCEPT ![FindEmpty(slots)] = r]
    <3>1. PICK r \in PartOf(NewRecord) : slots' = [slots EXCEPT ![FindEmpty(slots)] = r]
      BY <2>4
    <3>2. call \in NewPairing /\ NewRecord = NewRecordOf(call) /\ Free(slots, call.id)
      BY <1>0, <2>4 DEF StageCall, NewRecord, NewRecordOf, RoomForId
    <3>3. FindEmpty(slots) \in EmptySlots(slots)
      BY <1>0, <2>4, FoundEmpty DEF Roomy, TypeOK
    <3>4. \/ MapOf(slots') = MapOf(slots)
          \/ \E x \in {Torn, call.key} : MapOf(slots') = Map!Put(MapOf(slots), call, x)
      <4> DEFINE k == FindEmpty(slots)
      <4>1. k \in EmptySlots(slots) /\ slots' = [slots EXCEPT ![k] = r]
        BY <3>1, <3>3
      <4>2. r \in PartOf(NewRecordOf(call))
        BY <3>2
      <4> HIDE DEF k
      <4>3. \/ MapOf([slots EXCEPT ![k] = r]) = MapOf(slots)
            \/ \E x \in {Torn, call.key} : MapOf([slots EXCEPT ![k] = r]) = Map!Put(MapOf(slots), call, x)
        <5>1. slots \in Table /\ Unique(slots) /\ call \in NewPairing /\ Free(slots, call.id)
          BY <1>0, <3>2 DEF TypeOK
        <5> HIDE CallsDiffer, CallKinds
        <5> QED BY <4>1, <4>2, <5>1, CutWriteMap
      <4> QED BY <4>1, <4>3
    <3>5. VisibleTable = slots /\ VisibleTable' = slots' /\ VisibleCall = call /\ Map!Stores(call)
      BY <1>3, <2>1, <2>4, <3>2, CallSeen DEF Map!Stores, CallIs
    <3> QED BY <1>2, <3>4, <3>5 DEF Map!PowerLoss, VisibleMap
  <2> QED BY <2>0, <2>2, <2>3, <2>4 DEF PowerLoss
<1> QED BY <1>4, <1>5

(* Each step of the flash machine is a step of the map, or is not seen. *)
LEMMA StepMaps == ASSUME MapInv, [Next]_vars PROVE [Map!Next]_(Map!vars)
<1>1. CASE PowerOn \/ LoadIdentity \/ SaveId \/ SaveKey
  BY <1>1, BootSeen DEF Seen, Map!vars
<1>2. CASE EraseSector \/ WriteMagic
  BY <1>2, ResetSeen
<1>3. CASE \E c \in NewPairing \cup Removal \cup Trimming \cup [op : {"reset"}] : Call(c)
  BY <1>3, CallMaps
<1>4. CASE ZeroOld \/ ZeroPairing \/ WritePairing \/ TrimNext
  BY <1>4, ZeroOldMaps, ZeroPairingMaps, WritePairingMaps, TrimMaps
<1>5. CASE FindBlock
  BY <1>5, FindBlockMaps
<1>6. CASE WriteBack
  BY <1>6, WriteBackSeen DEF Seen, Map!vars
<1>7. CASE Fault
  BY <1>7, FaultMaps
<1>8. CASE PowerLoss
  BY <1>8, PowerLossMaps
<1>9. CASE UNCHANGED vars
  BY <1>9 DEF vars, flash, Map!vars, VisibleMap, VisibleTable, VisibleCall
<1> QED BY <1>1, <1>2, <1>3, <1>4, <1>5, <1>6, <1>7, <1>8, <1>9 DEF Next, Step

(* The flash machine implements the map of PairingMap, for every number of slots,
   controllers and keys and whether or not flash accesses can fail: no pairing is
   lost or altered but in the calls and the power losses that map allows. *)
THEOREM KeepsTheMap == Spec => ImplementsMap
<1>1. MapInv /\ [Next]_vars => [Map!Next]_(Map!vars)
  BY StepMaps
<1>2. Init => Map!Init
  BY InitSeen
<1> QED BY MapInvAlways, <1>1, <1>2, PTL DEF Spec, ImplementsMap, Map!Spec
====

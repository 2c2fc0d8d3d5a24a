---- MODULE PairingStorage_proofs ----
(* Machine-checked facts about the pairing storage, for every number of slots,
   controllers and keys. *)
EXTENDS PairingStorage, PairingFlash_proofs

----
(* The inductive invariant.  Type correctness needs to know which call each
   stage serves; that ids stay unique needs two more things: the copy of the
   sector that compact_data will write back is as good as the table it was
   taken from, and no record carries the id that is about to be added. *)

StageCall ==
    /\ pc \in {"old", "find", "back", "write"} => call \in NewPairing
    /\ pc = "zero" => call \in Removal
    /\ pc = "trim" => call \in Trimming
    /\ pc \in {"load", "newid", "newkey"} => call \in Others
    /\ pc \in {"erase", "magic"} => call \in NewPairing \cup Trimming \cup Others

Rewriting == call \in NewPairing /\ pc \in {"erase", "magic", "back"}

CopyKept ==
    Rewriting =>
        /\ ram \in Copy
        /\ Unique(ram.slots)
        /\ Free(ram.slots, call.id)

NewRecordOf(c) == [id |-> c.id, key |-> c.key, admin |-> c.admin]

RoomForId ==
    call \in NewPairing /\ pc \in {"find", "write", "erase", "magic", "back"}
        => Free(slots, call.id)

IdentityFirst ==
    ~FlashFaults =>
        /\ pc \notin {"off", "erase", "magic"} => magic
        /\ pc \notin {"off", "erase", "magic", "load", "newid", "back"} => accId
        /\ ~accId => ValidSlots(slots) = {}
        /\ Rewriting => ram.accId
        /\ pc \in {"erase", "magic"} => call \notin Trimming

Inv ==
    /\ TypeOK
    /\ StageCall
    /\ Unique(slots)
    /\ CopyKept
    /\ RoomForId
    /\ IdentityFirst
----
(* The flash accesses of a call. *)

(* A write-back cut short: a prefix of the table and a part of one record. *)
LEMMA CutBackKeeps ==
    ASSUME NEW t \in Table, Unique(t), ram.slots = t,
           NEW n \in ValidSlots(t), NEW r \in PartOf(t[n])
    PROVE  CutBack(n, r) \in Table /\ Unique(CutBack(n, r))
<1>1. t[n] \in Record
  BY DEF ValidSlots
<1>2. r \in Record \cup {Empty, Erased} /\ (r \in Record => r.id \in {t[n].id, Torn})
  BY <1>1, MarkersNotRecords DEF PartOf, Record
<1> DEFINE u == CutBack(n, r)
<1>3. u \in Table
  BY <1>2 DEF CutBack, Table
<1>4. ASSUME NEW i \in ValidSlots(u)
      PROVE  /\ u[i].id \in {t[i].id, Torn} /\ i \in ValidSlots(t)
  <2>1. i \in Slots /\ n \in Slots /\ i \in Nat /\ n \in Nat
    BY TableAssumption DEF ValidSlots, Slots
  <2>2. CASE i < n
    BY <2>1, <2>2 DEF CutBack, ValidSlots
  <2>3. CASE i = n
    BY <1>2, <2>1, <2>3 DEF CutBack, ValidSlots
  <2>4. CASE i > n
    BY <2>1, <2>4, MarkersNotRecords DEF CutBack, ValidSlots
  <2> QED BY <2>1, <2>2, <2>3, <2>4
<1> QED BY <1>3, <1>4 DEF Unique

(* Which call a set of calls means. *)
LEMMA CallKinds ==
    /\ \A c \in NewPairing : c.op \in {"add", "update"} /\ c.id \in Ids
                             /\ NewRecordOf(c) \in Record
    /\ \A c \in Removal : c.op = "remove" /\ c.id \in Ids
    /\ \A c \in Trimming : c.op = "extra" /\ c.keep \in 0 .. MaxPairings
    /\ \A c \in Others : c.op \in {"boot", "reset"}
BY DEF NewPairing, Removal, Trimming, Others, Record, NewRecordOf

----
(* The invariant holds. *)

(* The invariant holds of a factory-fresh sector. *)
THEOREM InitInv == Init => Inv
<1> SUFFICES ASSUME Init PROVE Inv
  OBVIOUS
<1> USE DEF Init
<1>1. BlankTable \in Table /\ ValidSlots(BlankTable) = {}
  BY BlankIsValid
<1>2. TypeOK
  BY <1>1 DEF TypeOK, Stages
<1>3. StageCall /\ Rewriting = FALSE
  BY DEF StageCall, Rewriting
<1>4. Unique(slots)
  BY <1>1 DEF Unique
<1>5. RoomForId /\ IdentityFirst
  BY <1>1, <1>3 DEF RoomForId, IdentityFirst
<1> QED BY <1>2, <1>3, <1>4, <1>5 DEF Inv, CopyKept

(* The boot accesses: they touch the identity, never the table. *)
LEMMA BootPreserves ==
    ASSUME Inv, PowerOn \/ LoadIdentity \/ SaveId \/ SaveKey PROVE Inv'
<1> USE DEF Inv
<1> USE CallKinds
<1>1. [op |-> "boot"] \in Others
  BY DEF Others
<1>2. Others \cap NewPairing = {}
  BY CallKinds
<1>3. slots' = slots /\ ram' = ram /\ ValidSlots(slots') = ValidSlots(slots)
  BY DEF PowerOn, LoadIdentity, SaveId, SaveKey, flash
<1>4. call' \notin NewPairing \/ pc' = "idle"
  BY <1>1, <1>2 DEF PowerOn, LoadIdentity, SaveId, SaveKey, StageCall, TypeOK
<1>5. TypeOK'
  BY <1>1 DEF PowerOn, LoadIdentity, SaveId, SaveKey, TypeOK, Stages, flash
<1>6. StageCall'
  BY <1>1 DEF PowerOn, LoadIdentity, SaveId, SaveKey, StageCall, flash
<1>7. (Unique(slots) /\ CopyKept /\ RoomForId)'
  BY <1>3, <1>4 DEF CopyKept, Rewriting, RoomForId
<1>8. IdentityFirst'
  BY <1>1, <1>2, <1>3, <1>4
     DEF PowerOn, LoadIdentity, SaveId, SaveKey, IdentityFirst, StageCall, Rewriting, flash
<1> QED BY <1>5, <1>6, <1>7, <1>8

(* homekit_storage_reset, inside a compaction or as a call of its own. *)
LEMMA ResetPreserves == ASSUME Inv, EraseSector \/ WriteMagic PROVE Inv'
<1> USE DEF Inv
<1> USE CallKinds
<1>1. CASE EraseSector
  <2> USE <1>1 DEF EraseSector
  <2>1. slots' \in Table /\ ValidSlots(slots') = {}
    BY BlankIsValid
  <2>2. TypeOK' /\ StageCall'
    BY <2>1 DEF TypeOK, Stages, StageCall
  <2>3. Unique(slots)' /\ CopyKept' /\ RoomForId'
    BY <2>1 DEF Unique, Free, CopyKept, RoomForId, Rewriting
  <2>4. IdentityFirst'
    BY <2>1 DEF IdentityFirst, Rewriting
  <2> QED BY <2>2, <2>3, <2>4
<1>2. CASE WriteMagic
  <2> USE <1>2 DEF WriteMagic
  <2>1. call \in NewPairing \cup Trimming \cup Others
    BY DEF StageCall
  <2>2. CASE call \in NewPairing
    <3>1. pc' = "back" /\ call' = call
      BY <2>2 DEF Resume, Compacting
    <3>2. TypeOK' /\ StageCall'
      BY <2>2, <3>1 DEF TypeOK, Stages, StageCall
    <3>3. Unique(slots)' /\ CopyKept' /\ RoomForId'
      BY <2>2, <3>1 DEF CopyKept, RoomForId, Rewriting
    <3>4. IdentityFirst'
      BY <2>2, <3>1 DEF IdentityFirst, Rewriting
    <3> QED BY <3>2, <3>3, <3>4
  <2>3. CASE call \in Trimming
    <3>1. pc' = "trim" /\ call' = call /\ call \notin NewPairing
      BY <2>3 DEF Resume, Compacting
    <3>2. TypeOK' /\ StageCall'
      BY <2>3, <3>1 DEF TypeOK, Stages, StageCall
    <3>3. Unique(slots)' /\ CopyKept' /\ RoomForId'
      BY <2>3, <3>1 DEF CopyKept, RoomForId, Rewriting
    <3>4. IdentityFirst'
      BY <2>3, <3>1 DEF IdentityFirst, Rewriting
    <3> QED BY <3>2, <3>3, <3>4
  <2>4. CASE call \in Others
    <3>1. /\ pc' \in {"load", "off"} /\ call' \in {call, NoCall} /\ call \notin NewPairing
          /\ pc' = "load" => call' = call
      BY <2>4 DEF Resume, Compacting
    <3>2. TypeOK' /\ StageCall'
      BY <2>4, <3>1 DEF TypeOK, Stages, StageCall
    <3>3. Unique(slots)' /\ CopyKept' /\ RoomForId'
      BY <2>4, <3>1 DEF CopyKept, RoomForId, Rewriting
    <3>4. IdentityFirst'
      BY <2>4, <3>1 DEF IdentityFirst, Rewriting
    <3> QED BY <3>2, <3>3, <3>4
  <2> QED BY <2>1, <2>2, <2>3, <2>4
<1> QED BY <1>1, <1>2

(* Adding an id the table does not hold, or one update_pairing will zero. *)
LEMMA CallPreserves == ASSUME Inv, NEW c, Call(c),
                              c \in NewPairing \cup Removal \cup Trimming \cup [op : {"reset"}]
                       PROVE  Inv'
<1> USE DEF Inv
<1> USE CallKinds
<1>0. [op : {"reset"}] \subseteq Others
  BY DEF Others
<1>1. pc = "idle" /\ call' = c /\ ram' = None /\ UNCHANGED flash /\ slots' = slots
  BY DEF Call, flash
<1>2. \/ c.op = "add" /\ c \in NewPairing /\ FindPairing(slots, c.id) = None /\ pc' = "find"
      \/ c.op = "update" /\ c \in NewPairing /\ pc' = "old"
      \/ c.op = "remove" /\ c \in Removal /\ pc' = "zero"
      \/ c.op = "extra" /\ c \in Trimming /\ pc' = IF magic THEN "trim" ELSE "erase"
      \/ c.op = "reset" /\ c \in Others /\ pc' = "erase"
  BY <1>0 DEF Call, StartAdd, StartUpdate, StartRemove, StartExtra, StartReset
<1>3. TypeOK'
  BY <1>0, <1>1, <1>2 DEF TypeOK, Stages, flash
<1>4. StageCall'
  BY <1>1, <1>2 DEF StageCall
<1>5. ~Rewriting'
  BY <1>1, <1>2 DEF Rewriting
<1>6. RoomForId'
  <2>1. CASE c.op = "add"
    <3>1. Free(slots, c.id)
      BY <1>2, <2>1, FindNoneIsFree DEF TypeOK
    <3> QED BY <3>1, <1>1 DEF RoomForId
  <2>2. CASE c.op # "add"
    BY <1>1, <1>2, <2>2 DEF RoomForId
  <2> QED BY <2>1, <2>2
<1>7. IdentityFirst'
  BY <1>1, <1>2, <1>5 DEF IdentityFirst, flash
<1> QED BY <1>1, <1>3, <1>4, <1>5, <1>6, <1>7 DEF CopyKept

(* The end of a call that leaves the sector as the step before made it. *)
LEMMA ReturnKeeps ==
    ASSUME Inv, Return, pc \notin {"off", "erase", "magic", "load", "newid", "back"},
           UNCHANGED <<magic, accId, accKey, ram>>,
           slots' \in Table, Unique(slots'),
           accId \/ FlashFaults \/ ValidSlots(slots') = {}
    PROVE  Inv'
<1> USE DEF Inv, Return
<1>1. TypeOK'
  BY DEF TypeOK, Stages
<1>2. StageCall' /\ ~Rewriting' /\ RoomForId'
  BY DEF StageCall, Rewriting, RoomForId
<1>3. IdentityFirst'
  BY <1>2 DEF IdentityFirst
<1> QED BY <1>1, <1>2, <1>3 DEF CopyKept

(* update_pairing: the old record goes before the new one comes. *)
LEMMA ZeroOldPreserves == ASSUME Inv, ZeroOld PROVE Inv'
<1> USE DEF Inv
<1> USE CallKinds
<1>1. call \in NewPairing /\ pc = "old"
  BY DEF StageCall, ZeroOld
<1>2. slots \in Table /\ Unique(slots)
  BY DEF TypeOK
<1>3. CASE FindPairing(slots, call.id).admin = call.admin
  <2>1. Return /\ UNCHANGED <<magic, accId, accKey, ram, slots>>
    BY <1>3 DEF ZeroOld
  <2>2. accId \/ FlashFaults
    BY <1>1, StorageAssumption DEF IdentityFirst
  <2> QED BY <1>1, <1>2, <2>1, <2>2, ReturnKeeps
<1>4. CASE FindPairing(slots, call.id).admin # call.admin
  <2>1. /\ slots' = Removed(slots, call.id) /\ pc' = "find"
        /\ UNCHANGED <<magic, accId, accKey, ram, call>>
    BY <1>4 DEF ZeroOld
  <2>2. /\ Removed(slots, call.id) \in Table
        /\ Unique(Removed(slots, call.id))
        /\ Free(Removed(slots, call.id), call.id)
        /\ ValidSlots(Removed(slots, call.id)) \subseteq ValidSlots(slots)
    <3>1. CASE FindPairing(slots, call.id) = None
      <4>1. Removed(slots, call.id) = slots
        <5>1. CASE FindSlot(slots, call.id) = NoSlot
          BY <5>1 DEF Removed
        <5>2. CASE FindSlot(slots, call.id) # NoSlot
          <6> DEFINE S == {i \in ValidSlots(slots) : slots[i].id = call.id}
          <6>1. S \in SUBSET Slots /\ S # {}
            BY <5>2 DEF FindSlot, First, ValidSlots
          <6>2. FindSlot(slots, call.id) \in S
            BY <6>1, FirstIsMember DEF FindSlot
          <6>3. slots[FindSlot(slots, call.id)] \in Record
            BY <6>2 DEF ValidSlots
          <6> QED BY <3>1, <5>2, <6>3, MarkersNotRecords DEF FindPairing
        <5> QED BY <5>1, <5>2
      <4>2. Free(slots, call.id)
        BY <1>2, <3>1, FindNoneIsFree
      <4> QED BY <1>2, <4>1, <4>2
    <3>2. CASE FindPairing(slots, call.id) # None
      BY <1>1, <1>2, <3>2, RemovedIsFree
    <3> QED BY <3>1, <3>2
  <2>3. TypeOK'
    BY <2>1, <2>2 DEF TypeOK, Stages
  <2>4. StageCall' /\ ~Rewriting'
    BY <1>1, <2>1 DEF StageCall, Rewriting
  <2>5. Unique(slots)' /\ RoomForId'
    BY <2>1, <2>2 DEF RoomForId
  <2>6. IdentityFirst'
    BY <1>1, <2>1, <2>2, <2>4 DEF IdentityFirst
  <2> QED BY <2>3, <2>4, <2>5, <2>6 DEF CopyKept
<1> QED BY <1>3, <1>4

(* A blank slot, no room, or the copy of a compaction. *)
LEMMA FindBlockPreserves == ASSUME Inv, FindBlock PROVE Inv'
<1> USE DEF Inv
<1> USE CallKinds
<1>1. call \in NewPairing /\ pc = "find" /\ UNCHANGED flash
  BY DEF StageCall, FindBlock
<1>2. slots \in Table /\ Unique(slots) /\ Free(slots, call.id)
  BY <1>1 DEF TypeOK, RoomForId
<1>3. CASE Return /\ UNCHANGED ram
  <2>1. accId \/ FlashFaults
    BY <1>1, StorageAssumption DEF IdentityFirst
  <2> QED BY <1>1, <1>2, <1>3, <2>1, ReturnKeeps DEF flash
<1>4. CASE EmptySlots(slots) # {} /\ pc' = "write" /\ UNCHANGED <<call, ram>>
  <2>1. TypeOK' /\ StageCall' /\ ~Rewriting'
    BY <1>1, <1>4 DEF TypeOK, Stages, StageCall, Rewriting, flash
  <2>2. Unique(slots)' /\ RoomForId'
    BY <1>1, <1>2, <1>4 DEF RoomForId, flash
  <2>3. IdentityFirst'
    BY <1>1, <1>4, <2>1 DEF IdentityFirst, flash
  <2> QED BY <2>1, <2>2, <2>3 DEF CopyKept
<1>5. CASE /\ pc' = "erase" /\ UNCHANGED call
           /\ ram' = [accId |-> accId, accKey |-> accKey, slots |-> Packed(slots)]
  <2>1. Packed(slots) \in Table /\ Unique(Packed(slots)) /\ Free(Packed(slots), call.id)
    BY <1>2, PackedKeeps
  <2>2. ram' \in Copy /\ ram'.slots = Packed(slots) /\ ram'.accId = accId
    BY <1>5, <2>1 DEF Copy, TypeOK
  <2>3. TypeOK' /\ StageCall'
    BY <1>1, <1>5, <2>2 DEF TypeOK, Stages, StageCall, flash
  <2>4. Unique(slots)' /\ RoomForId' /\ CopyKept'
    BY <1>1, <1>2, <1>5, <2>1, <2>2 DEF RoomForId, CopyKept, flash
  <2>5. call \notin Trimming
    BY <1>1
  <2>6. IdentityFirst'
    BY <1>1, <1>5, <2>2, <2>5 DEF IdentityFirst, flash
  <2> QED BY <2>3, <2>4, <2>6
<1> QED BY <1>3, <1>4, <1>5 DEF FindBlock

(* The two writes: the packed copy, and the new record. *)
LEMMA WritesPreserve == ASSUME Inv, WriteBack \/ WritePairing PROVE Inv'
<1> USE DEF Inv
<1> USE CallKinds
<1>1. CASE WriteBack
  <2> USE <1>1 DEF WriteBack
  <2>1. call \in NewPairing /\ Rewriting
    BY DEF StageCall, Rewriting
  <2>2. ram \in Copy /\ ram.slots \in Table /\ Unique(ram.slots) /\ Free(ram.slots, call.id)
    BY <2>1 DEF CopyKept, Copy
  <2>3. TypeOK' /\ StageCall' /\ ~Rewriting'
    BY <2>1, <2>2 DEF TypeOK, Stages, StageCall, Copy, Rewriting
  <2>4. Unique(slots)' /\ RoomForId'
    BY <2>2 DEF RoomForId
  <2>5. IdentityFirst'
    BY <2>1, <2>3 DEF IdentityFirst
  <2> QED BY <2>3, <2>4, <2>5 DEF CopyKept
<1>2. CASE WritePairing
  <2>1. call \in NewPairing /\ pc = "write"
    BY <1>2 DEF StageCall, WritePairing
  <2>2. slots \in Table /\ Unique(slots) /\ Free(slots, call.id)
    BY <2>1 DEF TypeOK, RoomForId
  <2>3. NewRecord \in Record /\ NewRecord.id = call.id
    BY <2>1 DEF NewRecord, NewRecordOf, Record
  <2>4. NewRecord \in Record \cup {Empty, Erased}
    BY <2>3
  <2>5. slots' \in Table /\ Unique(slots')
    <3> HIDE DEF NewRecord
    <3>1. /\ [slots EXCEPT ![FindEmpty(slots)] = NewRecord] \in Table
          /\ Unique([slots EXCEPT ![FindEmpty(slots)] = NewRecord])
      BY <2>2, <2>3, <2>4, PutKeepsUnique
    <3> QED BY <1>2, <3>1 DEF WritePairing
  <2>6. accId \/ FlashFaults
    BY <2>1, StorageAssumption DEF IdentityFirst
  <2> QED BY <1>2, <2>1, <2>5, <2>6, ReturnKeeps DEF WritePairing
<1> QED BY <1>1, <1>2

(* remove_pairing and remove_extra_pairing only zero records. *)
LEMMA ZeroingPreserves == ASSUME Inv, ZeroPairing \/ TrimNext PROVE Inv'
<1> USE DEF Inv
<1> USE CallKinds
<1>1. slots \in Table /\ Unique(slots)
  BY DEF TypeOK
<1>2. pc \in {"zero", "trim"}
  BY DEF ZeroPairing, TrimNext
<1>3. UNCHANGED <<magic, accId, accKey, ram>>
  BY DEF ZeroPairing, TrimNext
<1>4. slots' = slots \/ \E k : slots' = [slots EXCEPT ![k] = Erased]
  BY DEF ZeroPairing, TrimNext, Removed
<1>5. slots' \in Table /\ Unique(slots')
  BY <1>1, <1>4, EraseKeepsUnique
<1>6. accId \/ FlashFaults
  BY <1>2, StorageAssumption DEF IdentityFirst
<1>7. CASE Return
  BY <1>2, <1>3, <1>5, <1>6, <1>7, ReturnKeeps
<1>8. CASE UNCHANGED <<pc, call>> /\ TrimNext
  <2>1. call \in Trimming /\ pc = "trim" /\ call \notin NewPairing
    BY <1>8 DEF TrimNext, StageCall
  <2>2. TypeOK' /\ StageCall' /\ ~Rewriting' /\ RoomForId'
    BY <1>3, <1>5, <1>8, <2>1 DEF TypeOK, Stages, StageCall, Rewriting, RoomForId
  <2>3. IdentityFirst'
    BY <1>3, <1>6, <1>8, <2>1, <2>2 DEF IdentityFirst
  <2> QED BY <1>5, <2>2, <2>3 DEF CopyKept
<1> QED BY <1>7, <1>8 DEF ZeroPairing, TrimNext

(* A failed access changes nothing but the stage. *)
LEMMA FaultPreserves == ASSUME Inv, Fault PROVE Inv'
<1> USE DEF Inv
<1> USE CallKinds
<1>1. FlashFaults /\ UNCHANGED <<flash, ram>> /\ slots' = slots
  BY DEF Fault, flash
<1>2. slots' \in Table /\ Unique(slots')
  BY <1>1 DEF TypeOK
<1>3. IdentityFirst'
  BY <1>1 DEF IdentityFirst
<1>4. CASE pc \in {"old", "write", "zero", "trim"} /\ Return
  BY <1>1, <1>2, <1>4, ReturnKeeps DEF flash
<1>5. CASE pc' = "find" /\ UNCHANGED call /\ call \in NewPairing /\ pc \in {"erase", "magic", "back"}
  <2>1. TypeOK' /\ StageCall' /\ ~Rewriting'
    BY <1>1, <1>5 DEF TypeOK, Stages, StageCall, Rewriting, flash
  <2>2. RoomForId'
    BY <1>1, <1>5 DEF RoomForId
  <2> QED BY <1>2, <1>3, <2>1, <2>2 DEF CopyKept
<1>6. CASE pc' = "off" /\ call' = NoCall
  <2>1. TypeOK' /\ StageCall' /\ ~Rewriting' /\ RoomForId'
    BY <1>1, <1>6 DEF TypeOK, Stages, StageCall, Rewriting, RoomForId, flash
  <2> QED BY <1>2, <1>3, <2>1 DEF CopyKept
<1> QED BY <1>4, <1>5, <1>6 DEF Fault, Compacting, StageCall

(* A power loss, also one that cuts a write. *)
LEMMA PowerLossPreserves == ASSUME Inv, PowerLoss PROVE Inv'
<1> USE DEF Inv
<1> USE CallKinds
<1>1. pc' = "off" /\ call' = NoCall /\ ram' = None
  BY DEF PowerLoss
<1>2. StageCall' /\ ~Rewriting' /\ RoomForId'
  BY <1>1 DEF StageCall, Rewriting, RoomForId
<1>3. SUFFICES /\ magic' \in BOOLEAN /\ accId' \in BOOLEAN
               /\ accKey' \in {"blank", "torn", "good"}
               /\ slots' \in Table /\ Unique(slots')
               /\ ~FlashFaults => accId' \/ ValidSlots(slots') = {}
  BY <1>1, <1>2 DEF TypeOK, Stages, CopyKept, IdentityFirst
<1>4. CASE UNCHANGED flash
  BY <1>4 DEF TypeOK, IdentityFirst, flash
<1>5. CASE /\ pc = "write" /\ UNCHANGED <<magic, accId, accKey>>
           /\ \E r \in PartOf(NewRecord) : slots' = [slots EXCEPT ![FindEmpty(slots)] = r]
  <2>1. call \in NewPairing
    BY <1>5 DEF StageCall
  <2>2. slots \in Table /\ Unique(slots) /\ Free(slots, call.id)
    BY <1>5, <2>1 DEF TypeOK, RoomForId
  <2>3. NewRecord \in Record /\ NewRecord.id = call.id
    BY <2>1 DEF NewRecord, NewRecordOf, Record
  <2>4. PICK r \in PartOf(NewRecord) : slots' = [slots EXCEPT ![FindEmpty(slots)] = r]
    BY <1>5
  <2>5. r \in Record \cup {Empty, Erased} /\ (r \in Record => r.id = Torn \/ Free(slots, r.id))
    <3> HIDE DEF NewRecord
    <3> QED BY <2>2, <2>3, MarkersNotRecords DEF PartOf, Record
  <2>6. slots' \in Table /\ Unique(slots')
    BY <2>2, <2>4, <2>5, PutKeepsUnique
  <2> QED BY <1>5, <2>6 DEF TypeOK, IdentityFirst
<1>6. CASE /\ pc = "back"
           /\ accId' = ram.accId /\ accKey' \in {"blank", "torn"}
           /\ UNCHANGED <<magic, slots>>
  <2>1. Rewriting
    BY <1>6 DEF StageCall, Rewriting
  <2>2. ram \in Copy
    BY <2>1 DEF CopyKept
  <2> QED BY <1>6, <2>1, <2>2 DEF TypeOK, IdentityFirst, Copy
<1>7. CASE /\ pc = "back"
           /\ accId' = ram.accId /\ accKey' = ram.accKey /\ UNCHANGED magic
           /\ \E n \in ValidSlots(ram.slots) :
                 \E r \in PartOf(ram.slots[n]) : slots' = CutBack(n, r)
  <2>1. Rewriting
    BY <1>7 DEF StageCall, Rewriting
  <2>2. ram \in Copy /\ ram.slots \in Table /\ Unique(ram.slots)
    BY <2>1 DEF CopyKept, Copy
  <2>3. slots' \in Table /\ Unique(slots')
    BY <1>7, <2>2, CutBackKeeps
  <2> QED BY <1>7, <2>1, <2>2, <2>3 DEF TypeOK, IdentityFirst, Copy
<1> QED BY <1>4, <1>5, <1>6, <1>7 DEF PowerLoss

(* Every flash access, every call and every power loss keeps the invariant. *)
THEOREM NextInv == Inv /\ [Next]_vars => Inv'
<1> SUFFICES ASSUME Inv, [Next]_vars PROVE Inv'
  OBVIOUS
<1>1. CASE PowerOn \/ LoadIdentity \/ SaveId \/ SaveKey
  BY <1>1, BootPreserves
<1>2. CASE EraseSector \/ WriteMagic
  BY <1>2, ResetPreserves
<1>3. CASE \E c \in NewPairing \cup Removal \cup Trimming \cup [op : {"reset"}] : Call(c)
  BY <1>3, CallPreserves
<1>4. CASE ZeroOld
  BY <1>4, ZeroOldPreserves
<1>5. CASE FindBlock
  BY <1>5, FindBlockPreserves
<1>6. CASE WriteBack \/ WritePairing
  BY <1>6, WritesPreserve
<1>7. CASE ZeroPairing \/ TrimNext
  BY <1>7, ZeroingPreserves
<1>8. CASE Fault
  BY <1>8, FaultPreserves
<1>9. CASE PowerLoss
  BY <1>9, PowerLossPreserves
<1>10. CASE UNCHANGED vars
  BY <1>10 DEF vars, flash, Inv, TypeOK, StageCall, Unique, CopyKept, Rewriting, RoomForId,
               IdentityFirst, Free
<1> QED BY <1>1, <1>2, <1>3, <1>4, <1>5, <1>6, <1>7, <1>8, <1>9, <1>10 DEF Next, Step

(* The inductive invariant of storage.c holds in every reachable state. *)
THEOREM InvAlways == Spec => []Inv
BY InitInv, NextInv, PTL DEF Spec

(* The state of the sector, of the call in progress and of compact_data's copy
   stays well formed: no call is ever at a stage of another. *)
THEOREM TypeCorrect == Spec => []TypeOK
<1>1. Inv => TypeOK
  BY DEF Inv
<1> QED BY <1>1, InvAlways, PTL

(* No two records ever carry one device id, so that the first match find_pairing
   stops at is the only one. *)
THEOREM IdsAreUnique == Spec => []UniqueIds
<1>1. Inv => UniqueIds
  BY DEF Inv, Unique, UniqueIds
<1> QED BY <1>1, InvAlways, PTL

(* Pairings never outlive the accessory id they were made with while every
   flash access succeeds. *)
THEOREM IdentityKept == Spec => []PairingsHaveIdentity
<1>1. Inv => PairingsHaveIdentity
  BY StorageAssumption DEF Inv, IdentityFirst, PairingsHaveIdentity
<1> QED BY <1>1, InvAlways, PTL
====

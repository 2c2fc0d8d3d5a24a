---- MODULE PairingStorage ----
(* storage.c as a machine: one action per access to the flash sector that
   holds the accessory identity and the pairings, so that the power can go, or
   the access fail, between any two of them.  The calls come from one task at a
   time (the HomeKit task, or the setup page while no HomeKit task runs). *)
EXTENDS PairingFlash

CONSTANTS FlashFaults,  \* BOOLEAN: whether spiflash_* may return false
          NoCall        \* no call in progress

NewPairing == [op : {"add", "update"}, id : Ids, key : Keys, admin : BOOLEAN]
Removal    == [op : {"remove"}, id : Ids]
Trimming   == [op : {"extra"}, keep : 0 .. MaxPairings]
Others     == [op : {"boot", "reset"}]

(* The sector as compact_data reads it. *)
Copy == [accId : BOOLEAN, accKey : {"blank", "torn", "good"}, slots : Table]

ASSUME StorageAssumption ==
    /\ FlashFaults \in BOOLEAN
    /\ NoCall \notin NewPairing \cup Removal \cup Trimming \cup Others \cup [op : {"extra"}]
    /\ None \notin Copy \cup [key : Keys \cup {Torn}, admin : BOOLEAN]

VARIABLES magic,   \* the sector begins with the magic
          accId,   \* it holds an accessory id
          accKey,  \* the accessory key: "blank", "torn" or "good"
          slots,   \* the pairing table
          pc,      \* the flash access that comes next
          call,    \* the call in progress
          ram      \* compact_data's copy of the sector; None before the first try

flash == <<magic, accId, accKey, slots>>

vars == <<flash, pc, call, ram>>

Stages == {"off", "erase", "magic", "load", "newid", "newkey", "idle",
           "old", "find", "back", "write", "zero", "trim"}

TypeOK ==
    /\ magic \in BOOLEAN
    /\ accId \in BOOLEAN
    /\ accKey \in {"blank", "torn", "good"}
    /\ slots \in Table
    /\ pc \in Stages
    /\ call \in NewPairing \cup Removal \cup Trimming \cup Others \cup {NoCall}
    /\ ram \in Copy \cup {None}

(* A factory-fresh sector. *)
Init ==
    /\ magic = FALSE /\ accId = FALSE /\ accKey = "blank"
    /\ slots = BlankTable
    /\ pc = "off" /\ call = NoCall /\ ram = None

----
(* Boot: homekit_server_init up to the loaded or generated identity. *)

PowerOn ==
    /\ pc = "off"
    /\ call' = [op |-> "boot"]
    /\ pc' = IF magic THEN "load" ELSE "erase"
    /\ UNCHANGED <<flash, ram>>

LoadIdentity ==
    /\ pc = "load"
    /\ IF accId THEN pc' = "idle" /\ call' = NoCall
                ELSE pc' = "newid" /\ UNCHANGED call
    /\ UNCHANGED <<flash, ram>>

SaveId ==
    /\ pc = "newid"
    /\ accId' = TRUE
    /\ pc' = "newkey"
    /\ UNCHANGED <<magic, accKey, slots, call, ram>>

(* Bits of a flash cell that is not blank cannot be set again. *)
SaveKey ==
    /\ pc = "newkey"
    /\ accKey' = IF accKey = "blank" THEN "good" ELSE "torn"
    /\ pc' = "idle" /\ call' = NoCall
    /\ UNCHANGED <<magic, accId, slots, ram>>

----
(* homekit_storage_reset, whoever called it. *)

Compacting == call.op \in {"add", "update"}

EraseSector ==
    /\ pc = "erase"
    /\ magic' = FALSE /\ accId' = FALSE /\ accKey' = "blank"
    /\ slots' = BlankTable
    /\ pc' = "magic"
    /\ UNCHANGED <<call, ram>>

(* Afterwards a reset by the last admin restarts the device. *)
Resume ==
    CASE Compacting          -> "back"
      [] call.op = "boot"    -> "load"
      [] call.op = "extra"   -> "trim"
      [] call.op = "reset"   -> "off"

WriteMagic ==
    /\ pc = "magic"
    /\ magic' = TRUE
    /\ pc' = Resume
    /\ call' = IF pc' = "off" THEN NoCall ELSE call
    /\ UNCHANGED <<accId, accKey, slots, ram>>

----
(* The calls.  add_pairing is only called for an id find_pairing did not find,
   update_pairing and remove_pairing only for one it found. *)

StartAdd(c) ==
    /\ c.op = "add"
    /\ FindPairing(slots, c.id) = None
    /\ pc' = "find"

StartUpdate(c) ==
    /\ c.op = "update"
    /\ FindPairing(slots, c.id) # None
    /\ pc' = "old"

StartRemove(c) ==
    /\ c.op = "remove"
    /\ FindPairing(slots, c.id) # None
    /\ pc' = "zero"

(* remove_extra_pairing runs homekit_storage_init first. *)
StartExtra(c) ==
    /\ c.op = "extra"
    /\ pc' = IF magic THEN "trim" ELSE "erase"

StartReset(c) ==
    /\ c.op = "reset"
    /\ pc' = "erase"

Call(c) ==
    /\ pc = "idle"
    /\ \/ StartAdd(c)
       \/ StartUpdate(c)
       \/ StartRemove(c)
       \/ StartExtra(c)
       \/ StartReset(c)
    /\ call' = c
    /\ ram' = None
    /\ UNCHANGED flash

Return == pc' = "idle" /\ call' = NoCall

(* Mutant: the new record is added beside the old one. *)
ZeroOldKeepsOld ==
    /\ pc = "old"
    /\ IF FindPairing(slots, call.id).admin = call.admin THEN Return
       ELSE pc' = "find" /\ UNCHANGED call
    /\ UNCHANGED <<flash, ram>>

(* update_pairing: an unchanged permission is a success without a write. *)
ZeroOld ==
    /\ pc = "old"
    /\ IF FindPairing(slots, call.id).admin = call.admin
       THEN Return /\ UNCHANGED slots
       ELSE /\ slots' = Removed(slots, call.id)
            /\ pc' = "find"
            /\ UNCHANGED call
    /\ UNCHANGED <<magic, accId, accKey, ram>>

(* Mutant: a table without a blank slot is full. *)
FindBlockNoCompaction ==
    /\ pc = "find"
    /\ UNCHANGED <<flash, ram>>
    /\ IF EmptySlots(slots) = {} THEN Return ELSE pc' = "write" /\ UNCHANGED call

(* Mutant: compact_data rewrites the sector even when nothing can be gained,
   and is tried until a slot is blank. *)
FindBlockRetries ==
    /\ pc = "find"
    /\ UNCHANGED flash
    /\ IF EmptySlots(slots) # {}
       THEN pc' = "write" /\ UNCHANGED <<call, ram>>
       ELSE /\ ram' = [accId |-> accId, accKey |-> accKey, slots |-> Packed(slots)]
            /\ pc' = "erase"
            /\ UNCHANGED call

(* find_empty_block, compact_data's read, and find_empty_block again. *)
FindBlock ==
    /\ pc = "find"
    /\ UNCHANGED flash
    /\ \/ /\ EmptySlots(slots) # {}
          /\ pc' = "write"
          /\ UNCHANGED <<call, ram>>
       \/ /\ EmptySlots(slots) = {}
          /\ ram # None \/ ~CanAddPairing(slots)
          /\ Return
          /\ UNCHANGED ram
       \/ /\ EmptySlots(slots) = {}
          /\ ram = None /\ CanAddPairing(slots)
          /\ ram' = [accId |-> accId, accKey |-> accKey, slots |-> Packed(slots)]
          /\ pc' = "erase"
          /\ UNCHANGED call

(* Mutant: only the pairings are written back, not the header before them. *)
WriteBackPairingsOnly ==
    /\ pc = "back"
    /\ slots' = ram.slots
    /\ pc' = "find"
    /\ UNCHANGED <<magic, accId, accKey, call, ram>>

WriteBack ==
    /\ pc = "back"
    /\ accId' = ram.accId /\ accKey' = ram.accKey
    /\ slots' = ram.slots
    /\ pc' = "find"
    /\ UNCHANGED <<magic, call, ram>>

(* Mutant: id and key land in each other's field. *)
NewRecordSwapped == [id |-> call.key, key |-> call.id, admin |-> call.admin]

NewRecord == [id |-> call.id, key |-> call.key, admin |-> call.admin]

WritePairing ==
    /\ pc = "write"
    /\ slots' = [slots EXCEPT ![FindEmpty(slots)] = NewRecord]
    /\ Return
    /\ UNCHANGED <<magic, accId, accKey, ram>>

ZeroPairing ==
    /\ pc = "zero"
    /\ slots' = Removed(slots, call.id)
    /\ Return
    /\ UNCHANGED <<magic, accId, accKey, ram>>

(* Mutant: slots are counted, zeroed ones included, instead of records. *)
ExtraSlotsByIndex == {i \in ValidSlots(slots) : i >= call.keep}

ExtraSlots == ValidSlots(slots) \ KeptSlots(slots, call.keep)

TrimNext ==
    /\ pc = "trim"
    /\ IF ExtraSlots = {} THEN Return /\ UNCHANGED slots
       ELSE /\ slots' = [slots EXCEPT ![First(ExtraSlots)] = Erased]
            /\ UNCHANGED <<pc, call>>
    /\ UNCHANGED <<magic, accId, accKey, ram>>

----
(* A flash access returns false: nothing was written, the caller goes on.
   Faults of the very first boot are left out. *)
Fault ==
    /\ FlashFaults
    /\ UNCHANGED <<flash, ram>>
    /\ \/ /\ pc \in {"erase", "magic"} /\ Compacting
          /\ pc' = "find" /\ UNCHANGED call
       \/ pc = "back" /\ pc' = "find" /\ UNCHANGED call
       \/ pc \in {"erase", "magic"} /\ call.op = "reset" /\ pc' = "off" /\ call' = NoCall
       \/ pc \in {"old", "write", "zero", "trim"} /\ Return

(* The record being programmed when the power goes: the flash takes at most 64
   bytes at a time and a page boundary can split the rest, so the id or only
   the key may be cut. *)
PartOf(r) ==
    {Empty, Erased, r} \cup [id : {r.id, Torn}, key : {Torn}, admin : {r.admin}]

CutBack(n, last) ==
    [k \in Slots |-> IF k < n THEN ram.slots[k] ELSE IF k = n THEN last ELSE Empty]

PowerLoss ==
    /\ pc # "off"
    /\ pc' = "off" /\ call' = NoCall /\ ram' = None
    /\ \/ UNCHANGED flash
       \/ /\ pc = "write"
          /\ \E r \in PartOf(NewRecord) :
                slots' = [slots EXCEPT ![FindEmpty(slots)] = r]
          /\ UNCHANGED <<magic, accId, accKey>>
       \/ /\ pc = "back"
          /\ accId' = ram.accId /\ accKey' \in {"blank", "torn"}
          /\ UNCHANGED <<magic, slots>>
       \/ /\ pc = "back"
          /\ accId' = ram.accId /\ accKey' = ram.accKey
          /\ \E n \in ValidSlots(ram.slots) :
                \E r \in PartOf(ram.slots[n]) : slots' = CutBack(n, r)
          /\ UNCHANGED magic

Step ==
    \/ PowerOn \/ LoadIdentity \/ SaveId \/ SaveKey
    \/ EraseSector \/ WriteMagic
    \/ ZeroOld \/ FindBlock \/ WriteBack \/ WritePairing \/ ZeroPairing
    \/ TrimNext
    \/ Fault

Next ==
    \/ Step
    \/ \E c \in NewPairing \cup Removal \cup Trimming \cup [op : {"reset"}] : Call(c)
    \/ PowerLoss

(* A call runs to its end unless the power goes. *)
Spec == Init /\ [][Next]_vars /\ WF_vars(Step)

----
(* Properties. *)

(* Two records never carry the same device id, whatever was cut by a power
   loss: find, update and remove stop at the first match and would leave the
   other one behind.  (update_pairing zeroes the old record before it adds the
   new one; compact_data copies records onto slots that are blank again.) *)
UniqueIds ==
    \A i, j \in ValidSlots(slots) :
        slots[i].id = slots[j].id /\ slots[i].id # Torn => i = j

(* A sector that holds pairings holds the accessory id they were made with.
   Otherwise homekit_server_init would generate another id next to them and no
   paired controller would find its accessory again.  Only a sector whose magic
   could not be written escapes. *)
PairingsHaveIdentity == ValidSlots(slots) # {} => accId \/ FlashFaults

(* A pairing is refused for want of room only when every slot holds a record:
   what was removed, and the record an update has just zeroed, is reclaimed by
   the compaction (find_empty_block, compact_data, find_empty_block again). *)
RefusedOnlyWhenFull ==
    [][pc = "find" /\ pc' = "idle" => ~CanAddPairing(slots) \/ FlashFaults]_vars

(* remove_extra_pairing(n) leaves exactly the n oldest records, however many
   zeroed slots lie between them: the ones to keep are never touched, and when
   it returns nothing else is left. *)
TrimKeepsOldest ==
    [][pc = "trim" =>
        /\ KeptSlots(slots', call.keep) = KeptSlots(slots, call.keep)
        /\ pc' = "idle" /\ ~FlashFaults =>
               ValidSlots(slots') = KeptSlots(slots, call.keep)]_vars

(* Every boot and every call ends, or the power goes; the second look for a
   blank slot never starts a second compaction. *)
CallsEnd == (pc \notin {"off", "idle"}) ~> (pc \in {"off", "idle"})

(* The table a caller would see if the power went now and the call in progress
   were finished from memory. *)
VisibleTable ==
    CASE pc \in {"magic", "back"} /\ ram # None -> ram.slots
      [] ~magic /\ (pc = "off" \/ (pc = "erase" /\ call.op = "boot")) -> BlankTable
      [] OTHER -> slots

(* What find_pairing answers for every controller. *)
MapOf(t) ==
    [id \in Ids |->
        LET r == FindPairing(t, id)
        IN  IF r = None THEN None ELSE [key |-> r.key, admin |-> r.admin]]

VisibleMap == MapOf(VisibleTable)

VisibleCall ==
    CASE call = NoCall -> NoCall
      [] call # NoCall /\ call.op = "boot" -> NoCall
      [] call # NoCall /\ call.op = "reset" /\ pc = "magic" -> NoCall
      [] call # NoCall /\ call.op = "extra" -> [op |-> "extra"]
      [] OTHER -> call

Map == INSTANCE PairingMap WITH map <- VisibleMap, call <- VisibleCall

(* The flash machine implements the map: no pairing is lost or altered but in
   the calls and the power losses PairingMap allows. *)
ImplementsMap == Map!Spec
====

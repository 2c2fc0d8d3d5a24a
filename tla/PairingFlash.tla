---- MODULE PairingFlash ----
(* The pairing table of the HomeKit flash sector as a value, and the
   functions of storage.c that read or rewrite it.  A table is a function
   from slot numbers to slots; a slot is still blank (80 bytes of 0xff), or
   holds a record that begins with the magic "HAP", or holds anything else,
   which is what zeroing a record leaves behind.  The module has no state:
   PairingStorage runs these functions one flash access at a time, HapServer
   uses their end results. *)
EXTENDS Integers, FiniteSets

CONSTANTS Ids,          \* device ids of the controllers
          Keys,         \* their public keys
          MaxPairings,  \* MAX_PAIRINGS, 40 in the code
          Empty,        \* a blank slot
          Erased,       \* a slot that is neither blank nor marked with the magic
          Torn,         \* a field whose bytes were only partly programmed
          None          \* "no pairing", a NULL result

ASSUME TableAssumption == MaxPairings \in Nat \ {0}

Slots == 0 .. MaxPairings - 1

NoSlot == -1

Record == [id : Ids \cup {Torn}, key : Keys \cup {Torn}, admin : BOOLEAN]

(* Model values of the slot markers differ from every record. *)
ASSUME MarkerAssumption == /\ Empty # Erased
                           /\ {Empty, Erased, None} \cap Record = {}
                           /\ Torn \notin Ids \cup Keys

Table == [Slots -> Record \cup {Empty, Erased}]

BlankTable == [i \in Slots |-> Empty]

(* strncmp(data.magic, magic1, sizeof(magic1)) == 0 *)
ValidSlots(t) == {i \in Slots : t[i] \in Record}

EmptySlots(t) == {i \in Slots : t[i] = Empty}

First(S) == IF S = {} THEN NoSlot ELSE CHOOSE i \in S : \A j \in S : i <= j

FindEmpty(t) == First(EmptySlots(t))

(* The slot that find_pairing, update_pairing and remove_pairing stop at: the
   first record with this device id. *)
FindSlot(t, id) == First({i \in ValidSlots(t) : t[i].id = id})

FindPairing(t, id) ==
    IF FindSlot(t, id) = NoSlot THEN None ELSE t[FindSlot(t, id)]

CanAddPairing(t) == ValidSlots(t) # Slots

HasAdmin(t) == \E i \in ValidSlots(t) : t[i].admin

(* How many records precede slot i: its slot number once the table is packed. *)
Rank(t, i) == Cardinality({j \in ValidSlots(t) : j < i})

(* Mutant: the packing loses the record that should come first. *)
PackedSkipsFirst(t) ==
    [k \in Slots |->
        IF \E i \in ValidSlots(t) : Rank(t, i) = k + 1
        THEN t[CHOOSE i \in ValidSlots(t) : Rank(t, i) = k + 1]
        ELSE Empty]

(* What compact_data leaves: the records moved to the front in the order they
   had, every other slot blank again. *)
Packed(t) ==
    [k \in Slots |->
        IF \E i \in ValidSlots(t) : Rank(t, i) = k
        THEN t[CHOOSE i \in ValidSlots(t) : Rank(t, i) = k]
        ELSE Empty]

(* The records remove_extra_pairing(keep) leaves alone. *)
KeptSlots(t, keep) == {i \in ValidSlots(t) : Rank(t, i) < keep}

(* add_pairing when every flash access succeeds: the table, compacted first if
   it has no blank slot, with the record in its first blank slot. *)
Room(t) == IF EmptySlots(t) = {} THEN Packed(t) ELSE t

Added(t, r) ==
    IF FindEmpty(Room(t)) = NoSlot THEN t
    ELSE [Room(t) EXCEPT ![FindEmpty(Room(t))] = r]

Removed(t, id) ==
    IF FindSlot(t, id) = NoSlot THEN t ELSE [t EXCEPT ![FindSlot(t, id)] = Erased]

(* update_pairing: nothing is written unless the permissions change; then the
   old record is zeroed and a new one added. *)
Updated(t, r) ==
    IF \/ FindPairing(t, r.id) = None
       \/ FindPairing(t, r.id).admin = r.admin
    THEN t
    ELSE Added(Removed(t, r.id), r)
====

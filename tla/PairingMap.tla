---- MODULE PairingMap ----
(* What the pairing storage promises its callers: a partial map from device
   ids to pairings, changed by one call at a time.  A pairing is never altered
   but by the call that names it, and none disappears but
     - the one being removed, or all of them in a reset;
     - the extra ones remove_extra_pairing was asked to drop;
     - the one being updated, which is missing until the update has ended;
     - any of them, when the power or the flash fails during an add or an
       update, because either may have to rewrite the whole sector. *)
CONSTANTS Ids, Keys,
          Torn,       \* a key of which only a part reached the flash
          None,       \* no pairing under this id
          NoCall,     \* no call in progress
          FlashFaults \* whether a flash access may fail

VARIABLES map, call

vars == <<map, call>>

Pairing == [key : Keys \cup {Torn}, admin : BOOLEAN]

Calls ==
    [op : {"add", "update"}, id : Ids, key : Keys, admin : BOOLEAN]
        \cup [op : {"remove"}, id : Ids]
        \cup [op : {"extra", "reset"}]

Nothing == [id \in Ids |-> None]

(* The maps that hold some of the pairings of m and no other. *)
Submaps(m) ==
    {n \in [Ids -> {m[id] : id \in Ids} \cup {None}] :
        \A id \in Ids : n[id] \in {m[id], None}}

(* The same, with keys of which only a part was written back. *)
Mangled(m) ==
    {n \in [Ids -> {m[id] : id \in Ids} \cup {None} \cup [key : {Torn}, admin : BOOLEAN]] :
        \A id \in Ids :
            \/ n[id] \in {m[id], None}
            \/ m[id] # None /\ n[id] = [key |-> Torn, admin |-> m[id].admin]}

Put(m, c, k) == [m EXCEPT ![c.id] = [key |-> k, admin |-> c.admin]]

Stores(c) == c # NoCall /\ c.op \in {"add", "update"}

(* What a call leaves when it succeeds. *)
Effect(c, m) ==
    CASE c.op \in {"add", "update"} -> Put(m, c, c.key)
      [] c.op = "remove" -> [m EXCEPT ![c.id] = None]
      [] c.op = "reset"  -> Nothing
      [] OTHER -> m

Init == map = Nothing /\ call = NoCall

Call(c) ==
    /\ call = NoCall
    /\ c.op = "add" => map[c.id] = None
    /\ c.op = "update" => map[c.id] # None
    /\ call' = c
    /\ UNCHANGED map

Done ==
    /\ call # NoCall
    /\ map' = Effect(call, map)
    /\ call' = NoCall

(* The table is full, the permissions are already the stored ones, or a flash
   access failed before anything was written. *)
Refused ==
    /\ call # NoCall
    /\ call' = NoCall
    /\ UNCHANGED map

Withdraw ==
    /\ call # NoCall
    /\ call.op = "update"
    /\ map' = [map EXCEPT ![call.id] = None]
    /\ UNCHANGED call

Drop ==
    /\ call # NoCall
    /\ call.op = "extra" \/ (Stores(call) /\ FlashFaults)
    /\ map' \in Submaps(map)
    /\ UNCHANGED call

(* The device restarts.  A pairing being stored may be found again with a key
   that was only partly written. *)
PowerLoss ==
    /\ call' = NoCall
    /\ \/ UNCHANGED map
       \/ FlashFaults /\ map' \in Mangled(map)
       \/ call # NoCall /\ ~Stores(call) /\ map' = Effect(call, map)
       \/ Stores(call) /\ map' \in Mangled(map)
       \/ Stores(call) /\ \E k \in {Torn, call.key} : map' = Put(map, call, k)

Next ==
    \/ \E c \in Calls : Call(c)
    \/ Done
    \/ Refused
    \/ Withdraw
    \/ Drop
    \/ PowerLoss

Spec == Init /\ [][Next]_vars
====

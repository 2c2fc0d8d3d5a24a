---- MODULE ServerFlags ----
(* client_count and pending_close of homekit_server_t are bit fields of one
   byte: every change loads the byte, and stores it with the other bits as they
   were.  The server task does so at its own pace while other tasks call
   homekit_remove_oldest_client.  HapServer takes each change for one step;
   this module is about what happens when it is not. *)
EXTENDS Integers, Sequences

CONSTANTS Conns,
          Requested,       \* max_clients, a field of 5 bits
          MinClients,      \* HOMEKIT_MIN_CLIENTS
          CallerKinds,     \* may the callers outrank the server task? SUBSET BOOLEAN
          NoByte           \* no byte loaded

Byte == [count : 0 .. 31, pending : BOOLEAN]

ASSUME FlagsAssumption == /\ Requested \in 0 .. 31 /\ MinClients \in 0 .. 30
                          /\ CallerKinds \subseteq BOOLEAN
                          /\ NoByte \notin Byte

VARIABLES list,    \* the connected clients, newest first
          marked,  \* those with disconnect set
          byte,    \* the flags in memory
          pc,      \* the server task: the change of the byte that comes next
          reg,     \* the byte it has loaded for that change
          kept,    \* close_clients: how many clients it has passed
          caller,  \* the byte another task has loaded for pending_close = true
          preempt  \* the callers all outrank the server task (the timer task)

vars == <<list, marked, byte, pc, reg, kept, caller, preempt>>

Listed == {list[i] : i \in 1 .. Len(list)}

Changes == {"inc", "evict", "eof", "clear", "dec"}

TypeOK ==
    /\ list \in Seq(Conns) /\ marked \subseteq Conns
    /\ byte \in Byte
    /\ pc \in Changes \cup {"select", "full", "close", "walk"}
    /\ reg \in Byte \cup {NoByte} /\ caller \in Byte \cup {NoByte}
    /\ kept \in 0 .. Len(list)
    /\ preempt \in CallerKinds

Init ==
    /\ list = <<>> /\ marked = {}
    /\ byte = [count |-> 0, pending |-> FALSE]
    /\ pc = "select" /\ reg = NoByte /\ kept = 0
    /\ caller = NoByte
    /\ preempt \in CallerKinds

----
(* One pass of the select loop; what a pass does beyond this is HapServer's. *)

LinkClient ==
    /\ pc = "select"
    /\ \E c \in Conns \ Listed : list' = <<c>> \o list
    /\ pc' = "inc"
    /\ UNCHANGED <<marked, byte, reg, kept, caller, preempt>>

ClientLeaves ==
    /\ pc = "select"
    /\ \E c \in Listed : marked' = marked \cup {c}
    /\ pc' = "eof"
    /\ UNCHANGED <<list, byte, reg, kept, caller, preempt>>

OtherTraffic ==
    /\ pc = "select"
    /\ pc' = "close"
    /\ UNCHANGED <<list, marked, byte, reg, kept, caller, preempt>>

Load ==
    /\ pc \in Changes /\ reg = NoByte
    /\ reg' = byte
    /\ UNCHANGED <<list, marked, byte, pc, kept, caller, preempt>>

(* Mutant: the decrement is forgotten. *)
ChangedWithoutDec(b) ==
    CASE pc = "inc" -> [b EXCEPT !.count = (@ + 1) % 32]
      [] pc \in {"evict", "eof"} -> [b EXCEPT !.pending = TRUE]
      [] pc = "clear" -> [b EXCEPT !.pending = FALSE]
      [] pc = "dec" -> b

(* Mutant: a decrement without the test for zero. *)
ChangedUnguarded(b) ==
    CASE pc = "inc" -> [b EXCEPT !.count = (@ + 1) % 32]
      [] pc \in {"evict", "eof"} -> [b EXCEPT !.pending = TRUE]
      [] pc = "clear" -> [b EXCEPT !.pending = FALSE]
      [] pc = "dec" -> [b EXCEPT !.count = @ - 1]

(* Mutant: the end of a connection is not announced. *)
ChangedWithoutEof(b) ==
    CASE pc = "inc" -> [b EXCEPT !.count = (@ + 1) % 32]
      [] pc = "evict" -> [b EXCEPT !.pending = TRUE]
      [] pc = "eof" -> b
      [] pc = "clear" -> [b EXCEPT !.pending = FALSE]
      [] pc = "dec" -> [b EXCEPT !.count = IF @ > 0 THEN @ - 1 ELSE 0]

Changed(b) ==
    CASE pc = "inc" -> [b EXCEPT !.count = (@ + 1) % 32]
      [] pc \in {"evict", "eof"} -> [b EXCEPT !.pending = TRUE]
      [] pc = "clear" -> [b EXCEPT !.pending = FALSE]
      [] pc = "dec" -> [b EXCEPT !.count = IF @ > 0 THEN @ - 1 ELSE 0]

Store ==
    /\ reg # NoByte
    /\ byte' = Changed(reg)
    /\ reg' = NoByte
    /\ pc' = CASE pc = "inc" -> "full"
               [] pc \in {"evict", "eof"} -> "close"
               [] pc \in {"clear", "dec"} -> "walk"
    /\ UNCHANGED <<list, marked, kept, caller, preempt>>

MarkOldest ==
    marked' = IF list = <<>> THEN marked ELSE marked \cup {list[Len(list)]}

TestFull ==
    /\ pc = "full"
    /\ IF byte.count >= Requested /\ byte.count > MinClients
       THEN MarkOldest /\ pc' = "evict"
       ELSE pc' = "close" /\ UNCHANGED marked
    /\ UNCHANGED <<list, byte, reg, kept, caller, preempt>>

TestPending ==
    /\ pc = "close"
    /\ pc' = IF byte.pending THEN "clear" ELSE "select"
    /\ UNCHANGED <<list, marked, byte, reg, kept, caller, preempt>>

MarkedAhead == {i \in kept + 1 .. Len(list) : list[i] \in marked}

CloseMarked ==
    /\ pc = "walk"
    /\ \E i \in MarkedAhead :
          /\ \A j \in MarkedAhead : i <= j
          /\ list' = SubSeq(list, 1, i - 1) \o SubSeq(list, i + 1, Len(list))
          /\ marked' = marked \ {list[i]}
          /\ kept' = i - 1
    /\ pc' = "dec"
    /\ UNCHANGED <<byte, reg, caller, preempt>>

EndWalk ==
    /\ pc = "walk" /\ MarkedAhead = {}
    /\ pc' = "select" /\ kept' = 0
    /\ UNCHANGED <<list, marked, byte, reg, caller, preempt>>

----
(* homekit_remove_oldest_client in another task. *)

(* A task that outranks the server runs to the end between two of its steps. *)
CallAtOnce ==
    /\ preempt
    /\ byte.count > MinClients
    /\ MarkOldest
    /\ byte' = [byte EXCEPT !.pending = TRUE]
    /\ UNCHANGED <<list, pc, reg, kept, caller, preempt>>

CallLoads ==
    /\ ~preempt
    /\ caller = NoByte
    /\ byte.count > MinClients
    /\ MarkOldest
    /\ caller' = byte
    /\ UNCHANGED <<list, byte, pc, reg, kept, preempt>>

CallStores ==
    /\ caller # NoByte
    /\ byte' = [caller EXCEPT !.pending = TRUE]
    /\ caller' = NoByte
    /\ UNCHANGED <<list, marked, pc, reg, kept, preempt>>

ServerStep ==
    \/ Load \/ Store
    \/ TestFull \/ TestPending \/ CloseMarked \/ EndWalk

Next ==
    \/ ServerStep
    \/ LinkClient \/ ClientLeaves \/ OtherTraffic
    \/ CallAtOnce \/ CallLoads \/ CallStores

Spec == Init /\ [][Next]_vars /\ WF_vars(ServerStep) /\ WF_vars(CallStores)

----
(* Properties. *)

(* Whatever the timer task interrupts, the counter is the length of the list
   whenever the server looks at its sockets again: it is the server alone that
   changes the count, and an interrupting store keeps the count it found. *)
CountIsExact == preempt /\ pc = "select" => byte.count = Len(list)

(* However the tasks interleave, a mark is lost only until the next client
   leaves: that pass closes every marked client. *)
LostMarkIsFound ==
    \A c \in Conns : []<>(pc = "eof") => ((c \in marked) ~> (c \notin Listed))

(* homekit.h: "Remove oldest client to free some DRAM": the client that was
   marked is closed, if only passes of the select loop go on. *)
MarkedIsClosed ==
    \A c \in Conns : []<>(pc = "close") => ((c \in marked) ~> (c \notin Listed))
====

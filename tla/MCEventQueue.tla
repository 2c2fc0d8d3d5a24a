---- MODULE MCEventQueue ----
(* EventQueue for TLC: who is subscribed to what. *)
EXTENDS EventQueue

CONSTANTS h1, h2

(* The newest client watches one characteristic, the other both. *)
TwoClients == <<{h1}, {h1, h2}>>

OneClient == <<{h1, h2}>>

OneWatcher == <<{h1}>>
====

---- MODULE HapServer_proofs ----
(* Machine-checked facts about the server task, for every number of clients,
   characteristics, pairings and controllers, and every configured maximum. *)
EXTENDS HapServer, PairingFlash_proofs, SequenceTheorems

(* The most clients there can be between two passes. *)
Limit == Max2(MaxClients - 1, MinClients)

(* A context that is not in the list is unused. *)
UnlistedIsNew == \A c \in Conns \ Listed : sess[c] = NewSession

WalkFits == (phase # "closing" => kept = 0) /\ kept <= Len(clients)

(* The walk of close_clients has still to come to a marked client. *)
MarkedAhead == \E i \in 1 .. Len(clients) : i > kept /\ sess[clients[i]].disc

(* One client too many is there only while another one is about to be closed. *)
Crowded ==
    \/ Len(clients) <= Limit
    \/ /\ Len(clients) = Limit + 1 /\ phase \notin {"select", "accept"}
       /\ phase = "restart" \/ MarkedAhead

ListInv == CountIsExact /\ UnlistedIsNew /\ WalkFits /\ MarkedIsPending /\ Crowded

(* A verified session remembers the slot of a pairing. *)
VerifiedHasSlot == \A c \in Conns : sess[c].who # None => sess[c].pid # NoSlot

(* Nobody is an administrator while the accessory takes pairings, but for the
   same reasons as in PairedMeansAdmin. *)
AdminsFit ==
    phase # "restart" /\ (\E c \in Conns : sess[c].admin)
        => paired \/ RePair \/ "late" \in stray

PairingInv ==
    Unique(slots) /\ OpenSessionIsPaired /\ VerifiedHasSlot /\ PairedMeansAdmin /\ AdminsFit

Inv == TypeOK /\ ListInv /\ NoDanglingClients /\ SetupContextKept /\ PairingInv

----
(* The list of clients and the bounds. *)

(* The counters are as wide as the assumption says, and never at their end. *)
LEMMA LimitFits ==
    /\ MaxClients \in Nat /\ Limit \in Nat /\ MinClients \in Nat
    /\ MaxClients <= Limit + 1 /\ MinClients <= Limit /\ Limit + 1 < 2^CountBits
    /\ \A n \in Nat : n <= Limit + 1 => Wrap(n) = n
<1> DEFINE R == 2^CountBits
<1>1. R \in Nat /\ MinClients + 1 < R /\ Requested \in Nat /\ MinClients \in Nat
  BY ServerAssumption
<1>2. MaxClients = Requested % R /\ \A n : Wrap(n) = n % R
  BY DEF MaxClients, Wrap
<1> HIDE DEF R
<1>3. MaxClients \in Nat /\ MaxClients < R
  BY <1>1, <1>2
<1>4. Limit = IF MaxClients - 1 >= MinClients THEN MaxClients - 1 ELSE MinClients
  BY DEF Limit, Max2
<1>5. Limit \in Nat /\ Limit + 1 < R /\ MaxClients <= Limit + 1 /\ MinClients <= Limit
  BY <1>1, <1>3, <1>4
<1>6. \A n \in Nat : n < R => n % R = n
  BY <1>1
<1> QED BY <1>1, <1>2, <1>3, <1>5, <1>6 DEF R

(* The list without the client at place i. *)
LEMMA WithoutIs ==
    ASSUME clients \in Seq(Conns), NEW i \in 1 .. Len(clients)
    PROVE  /\ Without(i) \in Seq(Conns) /\ Len(Without(i)) = Len(clients) - 1
           /\ \A j \in 1 .. Len(clients) - 1 :
                  Without(i)[j] = clients[IF j < i THEN j ELSE j + 1]
<1> DEFINE n == Len(clients)
           a == SubSeq(clients, 1, i - 1)
           b == SubSeq(clients, i + 1, n)
<1>1. n \in Nat /\ i \in 1 .. n /\ \A j \in 1 .. n : clients[j] \in Conns
  OBVIOUS
<1>2. a \in Seq(Conns) /\ Len(a) = i - 1 /\ \A j \in 1 .. i - 1 : a[j] = clients[j]
  <2>1. \A j \in 1 .. i - 1 : clients[j] \in Conns
    BY <1>1
  <2> QED BY <1>1, <2>1, SubSeqProperties
<1>3. b \in Seq(Conns) /\ Len(b) = n - i /\ \A j \in 1 .. n - i : b[j] = clients[i + j]
  <2>1. \A j \in i + 1 .. n : clients[j] \in Conns
    BY <1>1
  <2> QED BY <1>1, <2>1, SubSeqProperties
<1>4. Without(i) = a \o b
  BY DEF Without
<1> HIDE DEF a, b, n
<1>5. /\ a \o b \in Seq(Conns) /\ Len(a \o b) = n - 1
      /\ \A j \in 1 .. n - 1 : (a \o b)[j] = IF j <= i - 1 THEN a[j] ELSE b[j - (i - 1)]
  <2>1. /\ a \o b \in Seq(Conns) /\ Len(a \o b) = Len(a) + Len(b)
        /\ \A j \in 1 .. Len(a) + Len(b) :
               (a \o b)[j] = IF j <= Len(a) THEN a[j] ELSE b[j - Len(a)]
    BY <1>2, <1>3, ConcatProperties
  <2>2. Len(a) + Len(b) = n - 1 /\ Len(a) = i - 1
    BY <1>1, <1>2, <1>3
  <2> HIDE <1>2, <1>3
  <2> QED BY <2>1, <2>2
<1>6. ASSUME NEW j \in 1 .. n - 1
      PROVE  (a \o b)[j] = clients[IF j < i THEN j ELSE j + 1]
  <2>1. CASE j < i
    <3>1. j \in 1 .. i - 1 /\ (a \o b)[j] = a[j]
      BY <1>1, <1>5, <2>1
    <3> QED BY <1>2, <2>1, <3>1
  <2>2. CASE ~(j < i)
    <3>1. /\ j - (i - 1) \in 1 .. n - i /\ i + (j - (i - 1)) = j + 1
          /\ (a \o b)[j] = b[j - (i - 1)]
      BY <1>1, <1>5, <2>2
    <3> QED BY <1>3, <2>2, <3>1
  <2> QED BY <2>1, <2>2
<1> QED BY <1>4, <1>5, <1>6 DEF n

(* A new client is put in front of the list. *)
LEMMA PrependIs ==
    ASSUME clients \in Seq(Conns), NEW c \in Conns
    PROVE  /\ <<c>> \o clients \in Seq(Conns) /\ Len(<<c>> \o clients) = Len(clients) + 1
           /\ (<<c>> \o clients)[1] = c
           /\ \A j \in 1 .. Len(clients) : (<<c>> \o clients)[j + 1] = clients[j]
<1>1. <<c>> \in Seq(Conns) /\ Len(<<c>>) = 1
  OBVIOUS
<1>2. \A j \in 1 .. 1 + Len(clients) :
          (<<c>> \o clients)[j] = IF j <= 1 THEN <<c>>[j] ELSE clients[j - 1]
  BY <1>1, ConcatProperties
<1>3. \A j \in 1 .. Len(clients) : (<<c>> \o clients)[j + 1] = clients[j]
  BY <1>2
<1> QED BY <1>1, <1>2, <1>3, ConcatProperties

----
(* What the steps do to the client contexts. *)

(* A context that is as it was, but for an answer. *)
LEMMA TalkEffect ==
    ASSUME TypeOK, NEW c \in Conns, NEW t \in Talks, Talk(c, t)
    PROVE  /\ sess' \in [Conns -> Session] /\ sess'[c].talk = t
           /\ \A d \in Conns : /\ d # c => sess'[d] = sess[d]
                               /\ sess'[d].disc = sess[d].disc /\ sess'[d].pid = sess[d].pid
                               /\ sess'[d].admin = sess[d].admin /\ sess'[d].who = sess[d].who
<1>1. sess \in [Conns -> Session] /\ sess' = [sess EXCEPT ![c] = [sess[c] EXCEPT !.talk = t]]
  BY DEF TypeOK, Talk
<1>2. sess[c] \in Session
  BY <1>1
<1> DEFINE new == [sess[c] EXCEPT !.talk = t]
<1>3. /\ new \in Session /\ new.talk = t /\ new.disc = sess[c].disc /\ new.pid = sess[c].pid
      /\ new.admin = sess[c].admin /\ new.who = sess[c].who
  BY <1>2 DEF Session
<1> HIDE DEF new
<1>4. sess' = [sess EXCEPT ![c] = new]
  BY <1>1 DEF new
<1> QED BY <1>1, <1>3, <1>4

(* Contexts marked for the end, and otherwise as they were. *)
LEMMA MarkEffect ==
    ASSUME TypeOK, NEW S, sess' = Marked(S)
    PROVE  /\ sess' \in [Conns -> Session]
           /\ \A d \in Conns : /\ d \notin S => sess'[d] = sess[d]
                               /\ sess'[d].disc <=> sess[d].disc \/ d \in S
                               /\ sess'[d].talk = sess[d].talk /\ sess'[d].pid = sess[d].pid
                               /\ sess'[d].admin = sess[d].admin /\ sess'[d].who = sess[d].who
<1>1. sess \in [Conns -> Session]
  BY DEF TypeOK
<1>2. ASSUME NEW d \in Conns
      PROVE  /\ sess'[d] \in Session
             /\ d \notin S => sess'[d] = sess[d]
             /\ sess'[d].disc <=> sess[d].disc \/ d \in S
             /\ sess'[d].talk = sess[d].talk /\ sess'[d].pid = sess[d].pid
             /\ sess'[d].admin = sess[d].admin /\ sess'[d].who = sess[d].who
  <2>1. sess[d] \in Session
    BY <1>1
  <2>2. CASE d \in S
    <3>1. sess'[d] = [sess[d] EXCEPT !.disc = TRUE]
      BY <2>2 DEF Marked
    <3> QED BY <2>1, <2>2, <3>1 DEF Session
  <2>3. CASE d \notin S
    <3>1. sess'[d] = sess[d]
      BY <2>3 DEF Marked
    <3> QED BY <2>1, <2>3, <3>1
  <2> QED BY <2>2, <2>3
<1>3. sess' = [d \in Conns |-> sess'[d]]
  BY DEF Marked
<1> QED BY <1>2, <1>3

(* The oldest client is marked, or none. *)
LEMMA EvictEffect ==
    ASSUME TypeOK, NEW list \in Seq(Conns), NEW n \in Nat, n <= Len(list),
           RemoveOldestClient(list, n)
    PROVE  /\ sess' \in [Conns -> Session] /\ pendingClose' \in BOOLEAN
           /\ pendingClose => pendingClose'
           /\ n > MinClients => sess'[list[Len(list)]].disc /\ pendingClose'
           /\ \A d \in Conns :
                  /\ sess[d].disc => sess'[d].disc
                  /\ sess'[d].disc /\ ~sess[d].disc => pendingClose'
                  /\ (\A j \in 1 .. Len(list) : list[j] # d) => sess'[d] = sess[d]
                  /\ sess'[d].talk = sess[d].talk /\ sess'[d].pid = sess[d].pid
                  /\ sess'[d].admin = sess[d].admin /\ sess'[d].who = sess[d].who
<1>1. CASE n > MinClients
  <2>1. Len(list) \in 1 .. Len(list) /\ list[Len(list)] \in Conns
    BY <1>1, ServerAssumption
  <2>2. sess' = Marked({list[Len(list)]}) /\ pendingClose' = TRUE
    BY <1>1 DEF RemoveOldestClient
  <2>3. /\ sess' \in [Conns -> Session]
        /\ \A d \in Conns :
               /\ d # list[Len(list)] => sess'[d] = sess[d]
               /\ sess'[d].disc <=> sess[d].disc \/ d = list[Len(list)]
               /\ sess'[d].talk = sess[d].talk /\ sess'[d].pid = sess[d].pid
               /\ sess'[d].admin = sess[d].admin /\ sess'[d].who = sess[d].who
    <3> DEFINE S == {list[Len(list)]}
    <3>1. sess' = Marked(S) /\ \A d : d \in S <=> d = list[Len(list)]
      BY <2>2
    <3> HIDE DEF S
    <3> QED BY <3>1, MarkEffect
  <2>4. sess'[list[Len(list)]].disc
    BY <2>1, <2>3
  <2>5. \A d \in Conns : (\A j \in 1 .. Len(list) : list[j] # d) => sess'[d] = sess[d]
    BY <2>1, <2>3
  <2>6. \A d \in Conns : sess[d].disc => sess'[d].disc
    BY <2>3
  <2> QED BY <2>2, <2>3, <2>4, <2>5, <2>6
<1>2. CASE ~(n > MinClients)
  <2>1. sess' = sess /\ pendingClose' = pendingClose
    BY <1>2 DEF RemoveOldestClient
  <2> QED BY <1>2, <2>1 DEF TypeOK
<1> QED BY <1>1, <1>2

----
(* The list of clients, its counter and the marks. *)

(* A step that leaves the list alone and marks clients with notice. *)
LEMMA MarksKeepList ==
    ASSUME TypeOK, ListInv, UNCHANGED <<clients, count, kept>>,
           \A d \in Conns : sess[d].disc => sess'[d].disc,
           \A d \in Conns : sess'[d].disc /\ ~sess[d].disc => pendingClose',
           \A d \in Conns \ Listed : sess'[d] = sess[d],
           pendingClose => pendingClose',
           phase' = phase \/ (phase = "serve" /\ phase' \in {"close", "restart"})
    PROVE  ListInv'
<1> USE DEF ListInv
<1>1. \A i \in 1 .. Len(clients) : clients[i] \in Conns
  BY DEF TypeOK
<1>2. CountIsExact'
  BY DEF CountIsExact
<1>3. UnlistedIsNew'
  BY DEF UnlistedIsNew, Listed
<1>4. WalkFits'
  BY DEF WalkFits
<1>5. MarkedIsPending'
  BY <1>1 DEF MarkedIsPending
<1>6. Crowded'
  BY <1>1 DEF Crowded, MarkedAhead
<1> QED BY <1>2, <1>3, <1>4, <1>5, <1>6

(* A client is accepted, refused for lack of memory, or lost. *)
LEMMA AcceptKeepsList == ASSUME TypeOK, ListInv, Accept PROVE ListInv'
<1> USE DEF ListInv
<1>1. /\ clients \in Seq(Conns) /\ Len(clients) \in Nat /\ count = Len(clients)
      /\ Len(clients) <= Limit /\ kept = 0 /\ kept' = 0 /\ phase = "accept" /\ phase' = "serve"
      /\ \A i \in 1 .. Len(clients) : clients[i] \in Conns /\ clients[i] \in Listed
  BY DEF Accept, TypeOK, CountIsExact, Crowded, WalkFits, walk, Listed
<1>2. CASE UNCHANGED <<clients, sess, count, pendingClose>>
  BY <1>1, <1>2 DEF CountIsExact, UnlistedIsNew, Listed, WalkFits, MarkedIsPending, Crowded
<1>3. CASE UNCHANGED <<clients, count>> /\ RemoveOldestClient(clients, count)
  <2>1. /\ pendingClose => pendingClose'
        /\ \A d \in Conns :
                  /\ sess'[d].disc /\ ~sess[d].disc => pendingClose'
                  /\ (\A j \in 1 .. Len(clients) : clients[j] # d) => sess'[d] = sess[d]
    BY <1>1, <1>3, EvictEffect
  <2>2. UnlistedIsNew'
    BY <1>3, <2>1 DEF UnlistedIsNew, Listed
  <2>3. MarkedIsPending'
    BY <1>1, <1>3, <2>1 DEF MarkedIsPending
  <2> QED BY <1>1, <1>3, <2>2, <2>3 DEF CountIsExact, WalkFits, Crowded
<1>4. ASSUME NEW c \in Conns \ Listed, clients' = <<c>> \o clients, count' = Wrap(count + 1),
             IF Full(count') THEN RemoveOldestClient(clients', count')
             ELSE UNCHANGED <<sess, pendingClose>>
      PROVE  ListInv'
  <2>1. /\ clients' \in Seq(Conns) /\ Len(clients') = Len(clients) + 1 /\ clients'[1] = c
        /\ \A j \in 1 .. Len(clients) : clients'[j + 1] = clients[j]
    BY <1>1, <1>4, PrependIs
  <2>2. count' = Len(clients')
    BY <1>1, <1>4, <2>1, LimitFits
  <2>3. /\ pendingClose => pendingClose'
        /\ Full(count') /\ count' > MinClients =>
               sess'[clients'[Len(clients')]].disc
        /\ \A d \in Conns :
               /\ sess'[d].disc /\ ~sess[d].disc => pendingClose'
               /\ (\A j \in 1 .. Len(clients') : clients'[j] # d) => sess'[d] = sess[d]
    <3>1. CASE Full(count')
      <4>1. RemoveOldestClient(clients', Len(clients'))
        BY <1>4, <2>2, <3>1
      <4>2. PICK l \in Seq(Conns) : l = clients'
        BY <2>1
      <4>3. RemoveOldestClient(l, Len(l))
        BY <4>1, <4>2
      <4> QED BY <2>2, <4>2, <4>3, EvictEffect
    <3>2. CASE ~Full(count')
      BY <1>4, <3>2
    <3> QED BY <3>1, <3>2
  <2>4. CountIsExact'
    <3>1. ASSUME NEW i \in 1 .. Len(clients'), NEW j \in 1 .. Len(clients'), clients'[i] = clients'[j]
          PROVE  i = j
      <4>1. \A k \in 1 .. Len(clients') : k # 1 => /\ k - 1 \in 1 .. Len(clients)
                                                   /\ clients'[k] = clients[k - 1]
        BY <1>1, <2>1
      <4>2. \A k \in 1 .. Len(clients') : k # 1 => clients'[k] # c
        BY <1>1, <1>4, <4>1
      <4>3. CASE i = 1 \/ j = 1
        BY <2>1, <3>1, <4>2, <4>3
      <4>4. CASE i # 1 /\ j # 1
        <5>1. i - 1 = j - 1
          BY <3>1, <4>1, <4>4 DEF CountIsExact
        <5> QED BY <5>1
      <4> QED BY <4>3, <4>4
    <3> QED BY <2>2, <3>1 DEF CountIsExact
  <2>5. \A k \in 1 .. Len(clients') : k # 1 => /\ k - 1 \in 1 .. Len(clients)
                                               /\ clients'[k] = clients[k - 1]
    BY <1>1, <2>1
  <2>6. UnlistedIsNew'
    <3>1. ASSUME NEW d \in Conns, \A j \in 1 .. Len(clients') : clients'[j] # d
          PROVE  sess'[d] = NewSession
      <4>1. \A j \in 1 .. Len(clients) : clients[j] # d
        <5>1. \A j \in 1 .. Len(clients) : j + 1 \in 1 .. Len(clients')
          BY <1>1, <2>1
        <5> QED BY <2>1, <3>1, <5>1
      <4> QED BY <2>3, <3>1, <4>1 DEF UnlistedIsNew, Listed
    <3> QED BY <3>1 DEF UnlistedIsNew, Listed
  <2>7. MarkedIsPending'
    <3>1. sess[c].disc = FALSE
      BY <1>4 DEF UnlistedIsNew, NewSession
    <3>2. ASSUME NEW i \in 1 .. Len(clients'), sess'[clients'[i]].disc PROVE pendingClose'
      <4>1. clients'[i] \in Conns
        BY <2>1
      <4>2. sess[clients'[i]].disc => pendingClose
        BY <1>1, <2>1, <2>5, <3>1 DEF MarkedIsPending
      <4> QED BY <2>3, <3>2, <4>1, <4>2
    <3> QED BY <3>2 DEF MarkedIsPending
  <2>8. Crowded'
    <3>1. CASE Len(clients') = Limit + 1
      <4>1. Full(count') /\ count' > MinClients
        BY <2>2, <3>1, LimitFits DEF Full
      <4>2. Len(clients') \in 1 .. Len(clients')
        BY <1>1, <2>1
      <4>3. MarkedAhead'
        BY <1>1, <2>3, <4>1, <4>2 DEF MarkedAhead
      <4> QED BY <1>1, <3>1, <4>3 DEF Crowded
    <3>2. CASE Len(clients') # Limit + 1
      BY <1>1, <2>1, <3>2, LimitFits DEF Crowded
    <3> QED BY <3>1, <3>2
  <2> QED BY <1>1, <2>1, <2>4, <2>6, <2>7, <2>8 DEF WalkFits
<1> QED BY <1>2, <1>3, <1>4 DEF Accept

(* pending_close is taken back before the walk begins. *)
LEMMA StartKeepsList == ASSUME TypeOK, ListInv, StartClosing PROVE ListInv'
<1> USE DEF ListInv
<1>1. /\ UNCHANGED <<clients, sess, count, kept>> /\ phase = "close" /\ pendingClose' = FALSE
      /\ kept = 0 /\ Len(clients) \in Nat
      /\ pendingClose => phase' = "closing"
      /\ ~pendingClose => phase' = "select"
  BY DEF StartClosing, WalkFits, walk, TypeOK
<1>2. MarkedIsPending'
  BY <1>1 DEF MarkedIsPending
<1>3. Crowded'
  <2>1. CASE pendingClose
    BY <1>1, <2>1 DEF Crowded, MarkedAhead
  <2>2. CASE ~pendingClose
    <3>1. ~MarkedAhead
      BY <1>1, <2>2 DEF MarkedAhead, MarkedIsPending
    <3> QED BY <1>1, <2>2, <3>1 DEF Crowded
  <2> QED BY <2>1, <2>2
<1>4. CountIsExact' /\ UnlistedIsNew' /\ WalkFits'
  BY <1>1 DEF CountIsExact, UnlistedIsNew, Listed, WalkFits
<1> QED BY <1>2, <1>3, <1>4

(* The walk passes a client that is not marked. *)
LEMMA PassKeepsList == ASSUME TypeOK, ListInv, PassClient PROVE ListInv'
<1> USE DEF ListInv
<1>1. /\ UNCHANGED <<clients, sess, count, pendingClose, phase>> /\ phase = "closing"
      /\ kept' = kept + 1 /\ kept < Len(clients) /\ ~sess[clients[kept + 1]].disc
      /\ kept \in Nat /\ Len(clients) \in Nat
  BY DEF PassClient, TypeOK, flags
<1>2. \A i \in 1 .. Len(clients) : i > kept /\ sess[clients[i]].disc => i > kept'
  BY <1>1
<1>3. MarkedIsPending'
  BY <1>1, <1>2 DEF MarkedIsPending
<1>4. Crowded'
  BY <1>1, <1>2 DEF Crowded, MarkedAhead
<1>5. CountIsExact' /\ UnlistedIsNew' /\ WalkFits'
  BY <1>1 DEF CountIsExact, UnlistedIsNew, Listed, WalkFits
<1> QED BY <1>3, <1>4, <1>5

(* The walk closes a marked client. *)
LEMMA CloseKeepsList == ASSUME TypeOK, ListInv, CloseClient PROVE ListInv'
<1> USE DEF ListInv
<1> DEFINE c == clients[kept + 1]
           n == Len(clients)
<1>1. /\ phase = "closing" /\ kept < n /\ kept \in Nat /\ n \in Nat /\ kept + 1 \in 1 .. n
      /\ clients \in Seq(Conns) /\ c \in Conns /\ sess \in [Conns -> Session]
      /\ UNCHANGED <<pendingClose, phase, kept>>
  BY DEF CloseClient, TypeOK
<1>2. clients' = Without(kept + 1) /\ count' = OneFewer /\ sess' = [sess EXCEPT ![c] = NewSession]
  BY DEF CloseClient
<1>3. /\ Len(clients') = n - 1
      /\ \A j \in 1 .. n - 1 : clients'[j] = clients[IF j < kept + 1 THEN j ELSE j + 1]
  BY <1>1, <1>2, WithoutIs
<1>4. count' = n - 1
  BY <1>1, <1>2 DEF OneFewer, Max2, CountIsExact
<1>5. sess'[c] = NewSession /\ \A d \in Conns : d # c => sess'[d] = sess[d]
  BY <1>1, <1>2
<1>6. \A i, j \in 1 .. n : clients[i] = clients[j] => i = j
  BY DEF CountIsExact
<1> HIDE DEF c
<1>7. CountIsExact'
  <2>1. ASSUME NEW i \in 1 .. n - 1, NEW j \in 1 .. n - 1, clients'[i] = clients'[j] PROVE i = j
    <3> DEFINE p(k) == IF k < kept + 1 THEN k ELSE k + 1
    <3>1. p(i) \in 1 .. n /\ p(j) \in 1 .. n /\ clients[p(i)] = clients[p(j)]
      BY <1>1, <1>3, <2>1
    <3>2. p(i) = p(j)
      BY <1>6, <3>1
    <3> QED BY <1>1, <3>2
  <2> QED BY <1>3, <1>4, <2>1 DEF CountIsExact
<1>8. UnlistedIsNew'
  <2>1. ASSUME NEW d \in Conns, \A j \in 1 .. n - 1 : clients'[j] # d PROVE sess'[d] = NewSession
    <3>1. CASE d = c
      BY <1>5, <3>1
    <3>2. CASE d # c
      <4>1. ASSUME NEW j \in 1 .. n, clients[j] = d PROVE FALSE
        <5>1. j # kept + 1
          BY <3>2, <4>1 DEF c
        <5>2. CASE j < kept + 1
          <6>1. j \in 1 .. n - 1 /\ clients'[j] = clients[j]
            BY <1>1, <1>3, <5>2
          <6> QED BY <2>1, <4>1, <6>1
        <5>3. CASE j > kept + 1
          <6>1. j - 1 \in 1 .. n - 1 /\ ~(j - 1 < kept + 1) /\ (j - 1) + 1 = j
            BY <1>1, <5>3
          <6>2. clients'[j - 1] = clients[j]
            BY <1>3, <6>1
          <6> QED BY <2>1, <4>1, <6>1, <6>2
        <5> QED BY <1>1, <5>1, <5>2, <5>3
      <4>2. sess[d] = NewSession
        BY <4>1 DEF UnlistedIsNew, Listed
      <4> QED BY <1>5, <3>2, <4>2
    <3> QED BY <3>1, <3>2
  <2> QED BY <1>3, <2>1 DEF UnlistedIsNew, Listed
<1>9. ASSUME NEW j \in 1 .. n - 1
      PROVE  /\ clients'[j] # c => sess'[clients'[j]] = sess[clients'[j]]
             /\ j > kept <=> (IF j < kept + 1 THEN j ELSE j + 1) > kept
             /\ sess'[clients'[j]].disc => sess[clients'[j]].disc /\ clients'[j] # c
  <2>1. clients'[j] \in Conns
    BY <1>1, <1>3
  <2> QED BY <1>1, <1>5, <2>1 DEF NewSession
<1>10. MarkedIsPending'
  <2>1. ASSUME NEW j \in 1 .. n - 1, sess'[clients'[j]].disc PROVE pendingClose \/ j > kept
    <3> DEFINE k == IF j < kept + 1 THEN j ELSE j + 1
    <3>1. k \in 1 .. n /\ clients'[j] = clients[k] /\ (j > kept <=> k > kept)
      BY <1>1, <1>3
    <3>2. sess[clients[k]].disc
      BY <1>9, <2>1, <3>1
    <3> QED BY <3>1, <3>2 DEF MarkedIsPending
  <2> QED BY <1>1, <1>3, <2>1 DEF MarkedIsPending
<1>11. Crowded'
  BY <1>1, <1>3, LimitFits DEF Crowded
<1>12. WalkFits'
  BY <1>1, <1>3 DEF WalkFits
<1> QED BY <1>7, <1>8, <1>10, <1>11, <1>12

(* The walk has come to the end: whoever is marked now was marked meanwhile. *)
LEMMA EndKeepsList == ASSUME TypeOK, ListInv, EndClosing PROVE ListInv'
<1> USE DEF ListInv
<1>1. /\ UNCHANGED <<clients, sess, count, pendingClose>> /\ phase = "closing" /\ phase' = "select"
      /\ kept' = 0 /\ kept = Len(clients) /\ Len(clients) \in Nat
  BY DEF EndClosing, TypeOK, flags
<1>2. MarkedIsPending'
  BY <1>1 DEF MarkedIsPending
<1>3. Crowded'
  BY <1>1 DEF Crowded, MarkedAhead
<1>4. CountIsExact' /\ UnlistedIsNew' /\ WalkFits'
  BY <1>1 DEF CountIsExact, UnlistedIsNew, Listed, WalkFits
<1> QED BY <1>2, <1>3, <1>4

(* A restart begins with an empty list. *)
LEMMA EmptyList ==
    ASSUME clients = <<>>, sess = [c \in Conns |-> NewSession], count = 0, kept = 0
    PROVE  ListInv
BY LimitFits DEF ListInv, CountIsExact, UnlistedIsNew, WalkFits, MarkedIsPending, Crowded

----
(* Sessions, pairings and the flags that remember them. *)

(* A step that keeps the pairings and what is known of them. *)
LEMMA QuietKeepsPairing ==
    ASSUME TypeOK, PairingInv, UNCHANGED <<slots, paired, stray>>,
           phase # "restart", phase' # "restart",
           \A d \in Conns :
               \/ sess'[d] = NewSession
               \/ /\ sess[d].disc => sess'[d].disc
                  /\ sess'[d].pid = sess[d].pid /\ sess'[d].admin = sess[d].admin
                  /\ sess'[d].who = sess[d].who
    PROVE  PairingInv'
<1> USE DEF PairingInv
<1>1. NewSession.who = None /\ NewSession.admin = FALSE
  BY DEF NewSession
<1>2. Unique(slots)'
  BY DEF Unique, ValidSlots
<1>3. OpenSessionIsPaired'
  BY <1>1 DEF OpenSessionIsPaired, Encrypted
<1>4. VerifiedHasSlot'
  BY <1>1 DEF VerifiedHasSlot
<1>5. HasAdmin(slots)' <=> HasAdmin(slots)
  BY DEF HasAdmin, ValidSlots
<1>6. PairedMeansAdmin'
  BY <1>5 DEF PairedMeansAdmin
<1>7. AdminsFit'
  BY <1>1 DEF AdminsFit
<1> QED BY <1>2, <1>3, <1>4, <1>6, <1>7

(* The sessions stay as they are while records come or change. *)
LEMMA TableKeepsPairing ==
    ASSUME TypeOK, PairingInv, phase = "serve", phase' = "serve",
           slots' \in Table, Unique(slots'),
           \A id : FindPairing(slots, id) # None => FindPairing(slots', id) # None,
           History(slots') \subseteq stray',
           paired => paired',
           paired' => paired \/ HasAdmin(slots'),
           HasAdmin(slots') => paired' \/ RePair \/ "late" \in stray',
           \A d \in Conns :
               /\ sess[d].disc => sess'[d].disc
               /\ sess'[d].pid = sess[d].pid /\ sess'[d].admin = sess[d].admin
               /\ sess'[d].who = sess[d].who
    PROVE  PairingInv'
<1> USE DEF PairingInv
<1>1. /\ stray \subseteq stray'
      /\ Moves(slots, slots') => "slots" \in stray'
      /\ HasAdmin(slots) /\ ~HasAdmin(slots') => "demoted" \in stray'
  BY DEF History, Flagged
<1>2. Unique(slots)' /\ (HasAdmin(slots)' <=> HasAdmin(slots'))
  BY DEF Unique, ValidSlots, HasAdmin
<1>3. OpenSessionIsPaired'
  <2>1. SUFFICES ASSUME "slots" \notin stray', NEW d \in Conns,
                        sess'[d].who # None, ~sess'[d].disc
                 PROVE  FindSlot(slots', sess'[d].who) = sess'[d].pid
    BY DEF OpenSessionIsPaired, Encrypted, FindSlot, ValidSlots
  <2> DEFINE id == sess[d].who
  <2>2. sess[d] \in Session
    BY DEF TypeOK
  <2>3. id \in Ids /\ id # None
    BY <2>1, <2>2 DEF Session
  <2>4. FindSlot(slots, id) = sess[d].pid /\ sess[d].pid # NoSlot
    BY <1>1, <2>1, <2>3 DEF OpenSessionIsPaired, Encrypted, VerifiedHasSlot
  <2>5. slots \in Table
    BY DEF TypeOK
  <2> HIDE DEF id
  <2>6. FindPairing(slots, id) # None
    BY <2>4, <2>5, FoundIsHeld
  <2>7. FindSlot(slots', id) # NoSlot
    BY <2>6, FoundIsHeld
  <2>8. FindSlot(slots', id) \in {NoSlot, FindSlot(slots, id)}
    BY <1>1, <2>1, <2>3, <2>4 DEF Moves
  <2> QED BY <2>4, <2>7, <2>8 DEF id
<1>4. VerifiedHasSlot'
  BY DEF VerifiedHasSlot
<1>5. PairedMeansAdmin'
  BY <1>1, <1>2 DEF PairedMeansAdmin
<1>6. AdminsFit'
  BY <1>1 DEF AdminsFit
<1> QED BY <1>2, <1>3, <1>4, <1>5, <1>6

(* An administrator's record makes an administrator, in whatever slot. *)
LEMMA AdminIsHeld ==
    ASSUME NEW t PROVE HasAdmin(t) <=> \E r \in Records(t) : r.admin
BY DEF HasAdmin, Records

(* A pairing is stored. *)
LEMMA StoresHolds ==
    ASSUME TypeOK, PairingInv, NEW c \in Conns, NEW id \in Ids, NEW key \in Keys,
           NEW admin \in BOOLEAN, Stores(c, id, key, admin)
    PROVE  /\ slots' \in Table /\ Unique(slots')
           /\ \A d : FindPairing(slots, d) # None => FindPairing(slots', d) # None
           /\ HasAdmin(slots') <=> HasAdmin(slots) \/ admin
<1> DEFINE r == Pairing(id, key, admin)
<1>1. r \in Record /\ r.id = id /\ r.admin = admin
  BY DEF Pairing, Record
<1>2. slots \in Table /\ Unique(slots)
  BY DEF TypeOK, PairingInv
<1>3. Free(slots, id)
  BY <1>2, FindNoneIsFree DEF Stores
<1>4. CanAddPairing(slots) /\ slots' = Added(slots, r)
  BY DEF Stores
<1> HIDE DEF r
<1>5. Added(slots, r) \in Table /\ Unique(Added(slots, r))
      /\ Records(Added(slots, r)) = Records(slots) \cup {r}
  BY <1>1, <1>2, <1>3, <1>4, AddedHolds
<1>6. PICK t \in Table : t = slots'
  BY <1>4, <1>5
<1>7. Unique(t) /\ Records(t) = Records(slots) \cup {r}
  BY <1>4, <1>5, <1>6
<1>8. \A d : FindPairing(slots, d) # None => FindPairing(t, d) # None
  BY <1>2, <1>7, FoundIsHeld
<1>9. HasAdmin(t) <=> HasAdmin(slots) \/ admin
  BY <1>1, <1>7, AdminIsHeld
<1> QED BY <1>6, <1>7, <1>8, <1>9

----
(* The steps of the server task. *)

(* What serving a client needs to keep: the marks come with notice, the other
   contexts and the subscriptions of others stay, and so does the exchange of
   whoever owns the pair setup context. *)
LEMMA ServedKeeps ==
    ASSUME Inv, NEW c \in Conns, Serving(c),
           sess' \in [Conns -> Session],
           \A d \in Conns : sess[d].disc => sess'[d].disc,
           \A d \in Conns : sess'[d].disc /\ ~sess[d].disc => pendingClose',
           \A d \in Conns \ Listed : sess'[d] = sess[d],
           pendingClose => pendingClose', pendingClose' \in BOOLEAN,
           phase' \in {"serve", "restart"},
           subs' \in [Chars -> SUBSET Conns],
           \A ch \in Chars : subs'[ch] \subseteq subs[ch] \cup {c},
           setup' \in Context \cup {None}, setup' # None => setup'.client \in Listed,
           SetupContextKept',
           slots' \in Table, paired' \in BOOLEAN, stray' \subseteq Strays,
           PairingInv'
    PROVE  Inv'
<1>1. /\ UNCHANGED <<clients, count, kept, headGone>> /\ phase = "serve"
      /\ ready' \subseteq ready /\ c \in Listed
  BY DEF Serving, Turn, walk, Listed
<1>2. TypeOK'
  BY <1>1 DEF Inv, TypeOK, Phases
<1>3. ListInv'
  BY <1>1, MarksKeepList DEF Inv
<1>4. NoDanglingClients'
  BY <1>1 DEF Inv, NoDanglingClients, Listed
<1> QED BY <1>2, <1>3, <1>4 DEF Inv

(* The context there is has a type, and its client is in the list. *)
LEMMA SetupIsListed ==
    ASSUME Inv
    PROVE  setup \in Context \cup {None} /\ (setup # None => setup.client \in Listed)
BY DEF Inv, TypeOK, NoDanglingClients

(* What was answered goes on to hold while the context stays as it is and nobody
   is answered M2 or M4. *)
LEMMA SameContextFits ==
    ASSUME SetupContextKept, UNCHANGED setup,
           \A d \in Conns : sess'[d].talk = sess[d].talk \/ sess'[d].talk \in {"none", "v2"}
    PROVE  SetupContextKept'
BY DEF SetupContextKept

(* Without a context it holds when nobody is in the middle of a setup. *)
LEMMA NoContextFits ==
    ASSUME setup' = None, \A d \in Conns : sess'[d].talk \notin {"m2", "m4"}
    PROVE  SetupContextKept'
BY DEF SetupContextKept

(* The client that is served, while it is not marked for the end. *)
LEMMA TalkKeeps ==
    ASSUME Inv, NEW c \in Conns, Serving(c), NEW t \in Talks, Talk(c, t),
           UNCHANGED <<subs, pendingClose>>,
           setup' \in Context \cup {None}, setup' # None => setup'.client \in Listed,
           SetupContextKept',
           phase' = "serve",
           slots' \in Table, paired' \in BOOLEAN, stray' \subseteq Strays,
           PairingInv'
    PROVE  Inv'
<1>1. TypeOK
  BY DEF Inv
<1>2. /\ sess' \in [Conns -> Session]
      /\ \A d \in Conns : (d # c => sess'[d] = sess[d]) /\ sess'[d].disc = sess[d].disc
  BY <1>1, TalkEffect
<1>3. \A d \in Conns : (sess[d].disc => sess'[d].disc) /\ ~(sess'[d].disc /\ ~sess[d].disc)
  BY <1>2
<1>4. c \in Listed
  BY DEF Serving, Turn, Listed
<1>5. \A d \in Conns \ Listed : sess'[d] = sess[d]
  BY <1>2, <1>4
<1>6. pendingClose \in BOOLEAN /\ pendingClose' = pendingClose
  BY <1>1 DEF TypeOK
<1>7. subs \in [Chars -> SUBSET Conns] /\ subs' = subs
  BY <1>1 DEF TypeOK
<1> QED BY <1>2, <1>3, <1>5, <1>6, <1>7, ServedKeeps

(* An answer leaves the sessions and the pairings what they were. *)
LEMMA AnswerKeepsPairing ==
    ASSUME Inv, NEW c \in Conns, Serving(c), NEW t \in Talks, Talk(c, t),
           UNCHANGED <<slots, paired, phase, stray>>
    PROVE  /\ PairingInv' /\ phase' = "serve"
           /\ slots' \in Table /\ paired' \in BOOLEAN /\ stray' \subseteq Strays
<1>1. TypeOK /\ PairingInv /\ phase = "serve"
  BY DEF Inv, Serving, Turn
<1>2. \A d \in Conns : /\ sess[d].disc => sess'[d].disc
                       /\ sess'[d].pid = sess[d].pid /\ sess'[d].admin = sess[d].admin
                       /\ sess'[d].who = sess[d].who
  BY <1>1, TalkEffect
<1>3. PairingInv'
  BY <1>1, <1>2, QuietKeepsPairing
<1> QED BY <1>1, <1>3 DEF TypeOK

(* A step that only answers the client, outside a setup. *)
LEMMA AnswerKeeps ==
    ASSUME Inv, NEW c \in Conns, Serving(c), NEW t \in {"none", "v2"}, Talk(c, t),
           UNCHANGED <<subs, setup, slots, paired, pendingClose, phase, stray>>
    PROVE  Inv'
<1>1. t \in Talks /\ TypeOK /\ SetupContextKept
  BY DEF Talks, Inv
<1>2. \A d \in Conns : sess'[d].talk = sess[d].talk \/ sess'[d].talk \in {"none", "v2"}
  BY <1>1, TalkEffect
<1>3. SetupContextKept'
  BY <1>1, <1>2, SameContextFits
<1> QED BY <1>1, <1>3, AnswerKeepsPairing, SetupIsListed, TalkKeeps

(* Only the client the setup context belongs to is in the middle of a setup. *)
LEMMA OthersAreOut ==
    ASSUME Inv, NEW c, setup # None => setup.client = c
    PROVE  \A d \in Conns : d # c => sess[d].talk \notin {"m2", "m4"}
BY DEF Inv, SetupContextKept

(* M1: the context is the client's, or nobody's, or it goes on being another's. *)
LEMMA SetupM1Keeps == ASSUME Inv, NEW c \in Conns, SetupM1(c) PROVE Inv'
<1>1. /\ Serving(c) /\ UNCHANGED <<subs, slots, paired, pendingClose, phase, stray>>
      /\ TypeOK /\ SetupContextKept /\ c \in Listed
  BY DEF SetupM1, Inv, Serving, Turn, Listed
<1>2. CASE Talk(c, "none") /\ UNCHANGED setup
  BY <1>1, <1>2, AnswerKeeps
<1>3. CASE /\ MaySetUp(c) /\ Talk(c, "m2")
           /\ setup' = [client |-> c, offer |-> IF setup = None THEN "first" ELSE "repeated",
                        agreed |-> setup # None /\ setup.agreed]
  <2>1. \A d \in Conns : d # c => sess[d].talk \notin {"m2", "m4"}
    BY <1>3, OthersAreOut DEF MaySetUp
  <2>2. "m2" \in Talks
    BY DEF Talks
  <2>3. sess'[c].talk = "m2" /\ \A d \in Conns : d # c => sess'[d].talk = sess[d].talk
    BY <1>1, <1>3, <2>2, TalkEffect
  <2>4. setup' \in Context /\ setup'.client = c /\ setup'.offer # "none"
    <3>1. (setup # None /\ setup.agreed \in BOOLEAN) \/ setup = None
      BY <1>1 DEF TypeOK, Context
    <3> QED BY <1>3, <3>1 DEF Context
  <2>5. setup' # None
    BY <2>4, ContextAssumption
  <2>6. SetupContextKept'
    BY <2>1, <2>3, <2>4, <2>5 DEF SetupContextKept
  <2> QED BY <1>1, <1>3, <2>2, <2>4, <2>6, AnswerKeepsPairing, TalkKeeps
<1>4. CASE MaySetUp(c) /\ Talk(c, "none") /\ setup' = None
  <2>1. \A d \in Conns : d # c => sess[d].talk \notin {"m2", "m4"}
    BY <1>4, OthersAreOut DEF MaySetUp
  <2>2. "none" \in Talks
    BY DEF Talks
  <2>3. sess'[c].talk = "none" /\ \A d \in Conns : d # c => sess'[d].talk = sess[d].talk
    BY <1>1, <1>4, <2>2, TalkEffect
  <2>4. SetupContextKept'
    BY <1>4, <2>1, <2>3, NoContextFits
  <2> QED BY <1>1, <1>4, <2>2, <2>4, AnswerKeepsPairing, TalkKeeps
<1> QED BY <1>2, <1>3, <1>4 DEF SetupM1

(* What a failing M3 does to the sessions: the setup of the context is over. *)
LEMMA DisturbsEffect ==
    ASSUME TypeOK, setup # None, NEW c \in Conns, Disturbs(c)
    PROVE  /\ setup.client \in Conns
           /\ sess' \in [Conns -> Session]
           /\ sess'[setup.client].talk \notin {"m2", "m4"} /\ sess'[c].talk = "none"
           /\ \A d \in Conns : /\ d \notin {setup.client, c} => sess'[d] = sess[d]
                               /\ sess'[d].disc = sess[d].disc /\ sess'[d].pid = sess[d].pid
                               /\ sess'[d].admin = sess[d].admin /\ sess'[d].who = sess[d].who
<1> DEFINE o == setup.client
           t == IF sess[o].talk \in {"m2", "m4"} THEN "lost" ELSE sess[o].talk
           f == [sess EXCEPT ![o] = [sess[o] EXCEPT !.talk = t]]
<1>1. o \in Conns /\ sess \in [Conns -> Session]
  BY DEF TypeOK, Context
<1>2. sess' = [f EXCEPT ![c] = [f[c] EXCEPT !.talk = "none"]]
  BY DEF Disturbs
<1>3. t \in Talks /\ t \notin {"m2", "m4"}
  BY <1>1 DEF Talks, Session
<1> HIDE DEF o, t
<1>4. ASSUME NEW v \in Session, NEW u \in Talks
      PROVE  LET w == [v EXCEPT !.talk = u]
             IN  /\ w \in Session /\ w.talk = u /\ w.disc = v.disc /\ w.pid = v.pid
                 /\ w.admin = v.admin /\ w.who = v.who
  BY DEF Session
<1>5. /\ f \in [Conns -> Session] /\ f[o].talk = t
      /\ \A d \in Conns : /\ d # o => f[d] = sess[d]
                          /\ f[d].disc = sess[d].disc /\ f[d].pid = sess[d].pid
                          /\ f[d].admin = sess[d].admin /\ f[d].who = sess[d].who
  BY <1>1, <1>3, <1>4
<1> HIDE DEF f
<1>6. "none" \in Talks
  BY DEF Talks
<1>7. /\ sess' \in [Conns -> Session] /\ sess'[c].talk = "none"
      /\ \A d \in Conns : /\ d # c => sess'[d] = f[d]
                          /\ sess'[d].disc = f[d].disc /\ sess'[d].pid = f[d].pid
                          /\ sess'[d].admin = f[d].admin /\ sess'[d].who = f[d].who
  BY <1>2, <1>4, <1>5, <1>6
<1>8. sess'[o].talk \notin {"m2", "m4"}
  BY <1>1, <1>3, <1>5, <1>7
<1> QED BY <1>1, <1>5, <1>7, <1>8 DEF o

(* M3 of whatever client: a right proof makes the client's own context agree with
   it; any other M3 ends the setup the context is for. *)
LEMMA SetupM3Keeps == ASSUME Inv, NEW c \in Conns, SetupM3(c) PROVE Inv'
<1>1. /\ Serving(c) /\ UNCHANGED <<subs, slots, paired, pendingClose, phase, stray>>
      /\ setup # None /\ setup \in Context /\ setup.client \in Listed
      /\ TypeOK /\ PairingInv /\ SetupContextKept /\ c \in Listed /\ phase = "serve"
  BY DEF SetupM3, UsesContext, Inv, TypeOK, NoDanglingClients, Serving, Turn, Listed
<1>2. ASSUME NEW off \in {"none"}, NEW agr \in BOOLEAN,
             setup' = [setup EXCEPT !.offer = off, !.agreed = agr]
      PROVE  /\ setup' \in Context /\ setup'.client = setup.client
             /\ setup'.offer = off /\ setup'.agreed = agr
  BY <1>1, <1>2 DEF Context
<1>3. CASE Disturbs(c) /\ (setup' = None \/ setup' = [setup EXCEPT !.offer = "none", !.agreed = FALSE])
  <2>1. /\ sess' \in [Conns -> Session]
        /\ sess'[setup.client].talk \notin {"m2", "m4"} /\ sess'[c].talk = "none"
        /\ \A d \in Conns : /\ d \notin {setup.client, c} => sess'[d] = sess[d]
                            /\ sess'[d].disc = sess[d].disc /\ sess'[d].pid = sess[d].pid
                            /\ sess'[d].admin = sess[d].admin /\ sess'[d].who = sess[d].who
    BY <1>1, <1>3, DisturbsEffect
  <2>2. \A d \in Conns : sess'[d].talk \notin {"m2", "m4"}
    <3>1. \A d \in Conns : d # setup.client => sess[d].talk \notin {"m2", "m4"}
      BY OthersAreOut
    <3> QED BY <2>1, <3>1
  <2>3. SetupContextKept'
    <3>1. CASE setup' = None
      BY <2>2, <3>1, NoContextFits
    <3>2. CASE setup' = [setup EXCEPT !.offer = "none", !.agreed = FALSE]
      <4>1. setup'.offer = "none" /\ ~setup'.agreed
        BY <1>2, <3>2
      <4> QED BY <2>2, <4>1 DEF SetupContextKept
    <3> QED BY <1>3, <3>1, <3>2
  <2>4. setup' \in Context \cup {None} /\ (setup' # None => setup'.client \in Listed)
    BY <1>1, <1>2, <1>3
  <2>5. PairingInv'
    BY <1>1, <2>1, QuietKeepsPairing
  <2>6. \A d \in Conns \ Listed : sess'[d] = sess[d]
    BY <1>1, <2>1
  <2>7. \A d \in Conns : (sess[d].disc => sess'[d].disc) /\ ~(sess'[d].disc /\ ~sess[d].disc)
    BY <2>1
  <2>8. /\ subs' \in [Chars -> SUBSET Conns] /\ subs' = subs
        /\ pendingClose' \in BOOLEAN /\ pendingClose' = pendingClose
        /\ slots' \in Table /\ paired' \in BOOLEAN /\ stray' \subseteq Strays
        /\ phase' = "serve"
    BY <1>1 DEF TypeOK
  <2> QED BY <1>1, <2>1, <2>3, <2>4, <2>5, <2>6, <2>7, <2>8, ServedKeeps
<1>4. CASE /\ setup.client = c /\ Talk(c, "m4")
           /\ setup' = [setup EXCEPT !.offer = "none", !.agreed = TRUE]
  <2>1. \A d \in Conns : d # c => sess[d].talk \notin {"m2", "m4"}
    BY <1>4, OthersAreOut
  <2>2. "m4" \in Talks
    BY DEF Talks
  <2>3. sess'[c].talk = "m4" /\ \A d \in Conns : d # c => sess'[d].talk = sess[d].talk
    BY <1>1, <1>4, <2>2, TalkEffect
  <2>4. setup' \in Context /\ setup'.client = c /\ setup'.agreed
    BY <1>2, <1>4
  <2>5. setup' # None
    BY <2>4, ContextAssumption
  <2>6. SetupContextKept'
    BY <2>1, <2>3, <2>4, <2>5 DEF SetupContextKept
  <2> QED BY <1>1, <1>4, <2>2, <2>4, <2>6, AnswerKeepsPairing, TalkKeeps
<1> QED BY <1>3, <1>4 DEF SetupM3

(* A refused M5 ends the exchange, and the context stays with its client. *)
LEMMA SetupM5FailsKeeps == ASSUME Inv, NEW c \in Conns, SetupM5Fails(c) PROVE Inv'
BY AnswerKeeps DEF SetupM5Fails, UsesContext

(* The first step of a verify: the session that may be open goes on. *)
LEMMA VerifyM1Keeps == ASSUME Inv, NEW c \in Conns, VerifyM1(c) PROVE Inv'
BY AnswerKeeps DEF VerifyM1

(* A verify that fails leaves the session that was open. *)
LEMMA VerifyM3FailsKeeps == ASSUME Inv, NEW c \in Conns, VerifyM3Fails(c) PROVE Inv'
BY AnswerKeeps DEF VerifyM3Fails

(* A step that leaves the contexts alone. *)
LEMMA SameSessKeeps ==
    ASSUME Inv, NEW c \in Conns, Serving(c),
           UNCHANGED <<sess, setup, pendingClose, phase>>,
           subs' \in [Chars -> SUBSET Conns],
           \A ch \in Chars : subs'[ch] \subseteq subs[ch] \cup {c},
           slots' \in Table, paired' \in BOOLEAN, stray' \subseteq Strays,
           PairingInv'
    PROVE  Inv'
<1>1. TypeOK /\ phase = "serve"
  BY DEF Inv, Serving, Turn
<1>2. /\ sess' \in [Conns -> Session] /\ sess' = sess
      /\ pendingClose' \in BOOLEAN /\ pendingClose' = pendingClose
      /\ setup' = setup /\ phase' = "serve" /\ SetupContextKept
  BY <1>1 DEF TypeOK, Inv
<1>3. \A d \in Conns : (sess[d].disc => sess'[d].disc) /\ ~(sess'[d].disc /\ ~sess[d].disc)
  BY <1>2
<1>4. SetupContextKept'
  BY <1>2, SameContextFits
<1> QED BY <1>2, <1>3, <1>4, SetupIsListed, ServedKeeps

(* A request without an effect only takes the client off the triggered ones. *)
LEMMA NoEffectKeeps == ASSUME Inv, NEW c \in Conns, NoEffect(c) PROVE Inv'
<1>1. TypeOK /\ PairingInv /\ phase = "serve" /\ Serving(c)
  BY DEF Inv, NoEffect, Serving, Turn
<1>2. UNCHANGED <<sess, subs, setup, slots, paired, pendingClose, phase, stray>>
  BY DEF NoEffect
<1>3. PairingInv'
  BY <1>1, <1>2, QuietKeepsPairing
<1>4. /\ subs' \in [Chars -> SUBSET Conns] /\ slots' \in Table
      /\ paired' \in BOOLEAN /\ stray' \subseteq Strays
  BY <1>1, <1>2 DEF TypeOK
<1>5. \A ch \in Chars : subs'[ch] \subseteq subs[ch] \cup {c}
  BY <1>2
<1> QED BY <1>1, <1>2, <1>3, <1>4, <1>5, SameSessKeeps

(* The client that subscribes is in the list. *)
LEMMA SubscriptionKeeps ==
    ASSUME Inv, NEW c \in Conns, NEW ch \in Chars, Subscribe(c, ch) \/ Unsubscribe(c, ch)
    PROVE  Inv'
<1>1. TypeOK /\ PairingInv /\ phase = "serve" /\ Serving(c)
  BY DEF Inv, Subscribe, Unsubscribe, Serving, Turn
<1>2. UNCHANGED <<sess, setup, slots, paired, pendingClose, phase, stray>>
  BY DEF Subscribe, Unsubscribe
<1>3. PairingInv'
  BY <1>1, <1>2, QuietKeepsPairing
<1>4. slots' \in Table /\ paired' \in BOOLEAN /\ stray' \subseteq Strays
  BY <1>1, <1>2 DEF TypeOK
<1>5. PICK S \in SUBSET Conns : S \subseteq subs[ch] \cup {c} /\ subs' = [subs EXCEPT ![ch] = S]
  BY <1>1 DEF TypeOK, Subscribe, Unsubscribe
<1>6. subs \in [Chars -> SUBSET Conns]
  BY <1>1 DEF TypeOK
<1>7. /\ subs' \in [Chars -> SUBSET Conns]
      /\ \A d \in Chars : subs'[d] \subseteq subs[d] \cup {c}
  BY <1>5, <1>6
<1> QED BY <1>1, <1>2, <1>3, <1>4, <1>7, SameSessKeeps

(* The contexts a step marks: it says so to close_clients. *)
LEMMA MarkKeeps ==
    ASSUME Inv, NEW c \in Conns, Serving(c), NEW S \in SUBSET Listed, sess' = Marked(S),
           pendingClose' = (pendingClose \/ S # {}),
           UNCHANGED <<subs, setup>>, phase' \in {"serve", "restart"},
           slots' \in Table, paired' \in BOOLEAN, stray' \subseteq Strays,
           PairingInv'
    PROVE  Inv'
<1>1. TypeOK /\ SetupContextKept
  BY DEF Inv
<1>2. sess' \in [Conns -> Session]
  BY <1>1, MarkEffect
<1>3. \A d \in Conns : d \notin S => sess'[d] = sess[d]
  BY <1>1, MarkEffect
<1>4. \A d \in Conns : sess'[d].disc <=> sess[d].disc \/ d \in S
  BY <1>1, MarkEffect
<1>5. \A d \in Conns : sess'[d].talk = sess[d].talk
  BY <1>1, MarkEffect
<1>6. SetupContextKept'
  BY <1>1, <1>5, SameContextFits
<1>7. /\ pendingClose => pendingClose'
      /\ pendingClose' \in BOOLEAN
      /\ S # {} => pendingClose'
  BY <1>1 DEF TypeOK
<1>8. \A d \in Conns : sess[d].disc => sess'[d].disc
  BY <1>4
<1>9. \A d \in Conns : sess'[d].disc /\ ~sess[d].disc => pendingClose'
  BY <1>4, <1>7
<1>10. \A d \in Conns \ Listed : sess'[d] = sess[d]
  BY <1>3
<1>11. subs' \in [Chars -> SUBSET Conns] /\ \A ch \in Chars : subs'[ch] \subseteq subs[ch] \cup {c}
  BY <1>1 DEF TypeOK
<1> QED BY <1>2, <1>6, <1>7, <1>8, <1>9, <1>10, <1>11, SetupIsListed,
           ServedKeeps

(* A connection that has ended is marked, with notice. *)
LEMMA EofKeeps == ASSUME Inv, NEW c \in Conns, Eof(c) PROVE Inv'
<1>1. TypeOK /\ PairingInv /\ phase = "serve" /\ Serving(c)
  BY DEF Inv, Eof, Serving, Turn
<1>2. /\ sess' = Marked({c}) /\ pendingClose' = TRUE
      /\ UNCHANGED <<subs, setup, slots, paired, phase, stray>>
  BY DEF Eof
<1>3. PairingInv'
  <2>1. \A d \in Conns : /\ sess[d].disc => sess'[d].disc
                         /\ sess'[d].pid = sess[d].pid /\ sess'[d].admin = sess[d].admin
                         /\ sess'[d].who = sess[d].who
    BY <1>1, <1>2, MarkEffect
  <2> QED BY <1>1, <1>2, <2>1, QuietKeepsPairing
<1>4. slots' \in Table /\ paired' \in BOOLEAN /\ stray' \subseteq Strays
  BY <1>1, <1>2 DEF TypeOK
<1>5. {c} \in SUBSET Listed /\ pendingClose' = (pendingClose \/ {c} # {})
  BY <1>1, <1>2 DEF Serving, Turn, Listed
<1> QED BY <1>1, <1>2, <1>3, <1>4, <1>5, MarkKeeps

(* The session of a controller whose pairing is in the table. *)
LEMMA VerifyM3Keeps == ASSUME Inv, NEW c \in Conns, NEW id \in Ids, VerifyM3(c, id) PROVE Inv'
<1>1. TypeOK /\ PairingInv /\ phase = "serve" /\ Serving(c) /\ sess[c] \in Session
      /\ slots \in Table /\ SetupContextKept
  BY DEF Inv, VerifyM3, Serving, Turn, TypeOK
<1> DEFINE k == FindSlot(slots, id)
           r == FindPairing(slots, id)
<1>2. /\ sess' = [sess EXCEPT ![c] = [sess[c] EXCEPT !.talk = "none", !.pid = k,
                                                     !.admin = r.admin, !.who = id]]
      /\ UNCHANGED <<subs, setup, slots, paired, pendingClose, phase, stray>>
      /\ r # None
  BY DEF VerifyM3
<1>3. r \in Records(slots) /\ k \in Slots \cup {NoSlot} /\ k # NoSlot
  BY <1>1, <1>2, FoundIsHeld
<1>4. r \in Record
  BY <1>3 DEF Records, ValidSlots
<1>5. r.admin \in BOOLEAN
  BY <1>4 DEF Record
<1>6. r.admin => HasAdmin(slots)
  BY <1>3, AdminIsHeld
<1> DEFINE new == [sess[c] EXCEPT !.talk = "none", !.pid = k, !.admin = r.admin, !.who = id]
<1> HIDE DEF k, r
<1>7. /\ new \in Session /\ new.talk = "none" /\ new.disc = sess[c].disc
      /\ new.pid = k /\ new.admin = r.admin /\ new.who = id
  BY <1>1, <1>3, <1>5 DEF Session, Talks
<1>8. sess' = [sess EXCEPT ![c] = new]
  BY <1>2
<1> HIDE DEF new
<1>9. sess \in [Conns -> Session]
  BY <1>1 DEF TypeOK
<1>10. sess' \in [Conns -> Session] /\ sess'[c] = new /\ \A d \in Conns : d # c => sess'[d] = sess[d]
  BY <1>7, <1>8, <1>9
<1>11. \A d \in Conns : sess'[d].disc = sess[d].disc
  BY <1>7, <1>10
<1>12. PairingInv'
  <2>1. Unique(slots)'
    BY <1>1, <1>2 DEF PairingInv, Unique, ValidSlots
  <2>2. OpenSessionIsPaired'
    BY <1>1, <1>2, <1>7, <1>10, <1>11 DEF PairingInv, OpenSessionIsPaired, Encrypted, k
  <2>3. VerifiedHasSlot'
    BY <1>1, <1>3, <1>7, <1>10 DEF PairingInv, VerifiedHasSlot
  <2>4. HasAdmin(slots)' <=> HasAdmin(slots)
    BY <1>2 DEF HasAdmin, ValidSlots
  <2>5. PairedMeansAdmin'
    BY <1>1, <1>2, <2>4 DEF PairingInv, PairedMeansAdmin
  <2>6. (\E d \in Conns : sess'[d].admin) => paired \/ RePair \/ "late" \in stray
    BY <1>1, <1>6, <1>7, <1>10 DEF PairingInv, PairedMeansAdmin, AdminsFit
  <2>7. AdminsFit'
    BY <1>2, <2>6 DEF AdminsFit
  <2> QED BY <2>1, <2>2, <2>3, <2>5, <2>7 DEF PairingInv
<1>13. /\ slots' \in Table /\ paired' \in BOOLEAN /\ stray' \subseteq Strays
       /\ pendingClose' \in BOOLEAN /\ (pendingClose => pendingClose')
       /\ subs' \in [Chars -> SUBSET Conns] /\ phase' = "serve" /\ setup' = setup
       /\ \A ch \in Chars : subs'[ch] \subseteq subs[ch] \cup {c}
  BY <1>1, <1>2 DEF TypeOK
<1>14. SetupContextKept'
  BY <1>1, <1>7, <1>10, <1>13, SameContextFits
<1>15. c \in Listed
  BY <1>1 DEF Serving, Turn, Listed
<1>16. \A d \in Conns \ Listed : sess'[d] = sess[d]
  BY <1>10, <1>15
<1>17. \A d \in Conns : sess[d].disc => sess'[d].disc
  BY <1>11
<1>18. \A d \in Conns : sess'[d].disc /\ ~sess[d].disc => pendingClose'
  BY <1>11
<1> QED BY <1>1, <1>10, <1>12, <1>13, <1>14, <1>16, <1>17, <1>18, SetupIsListed,
           ServedKeeps

(* What the history may say. *)
LEMMA HistoryFits == ASSUME TypeOK, NEW t PROVE History(t) \subseteq Strays /\ stray \subseteq History(t)
BY DEF History, Flagged, Strays, TypeOK

(* M5: the pairing is an administrator's, and setup is closed. *)
LEMMA SetupM5Keeps ==
    ASSUME Inv, NEW c \in Conns, NEW id \in Ids, NEW key \in Keys, SetupM5(c, id, key)
    PROVE  Inv'
<1>1. TypeOK /\ PairingInv /\ SetupContextKept
  BY DEF Inv
<1>2. /\ Stores(c, id, key, TRUE) /\ Serving(c) /\ Talk(c, "none") /\ setup' = None
      /\ paired' = TRUE /\ stray' = History(slots') /\ UNCHANGED <<subs, pendingClose, phase>>
      /\ setup # None /\ setup.client = c /\ phase = "serve" /\ phase' = "serve"
      /\ "none" \in Talks
  BY DEF SetupM5, HasSetupKey, Stores, SetupCloses, Serving, Turn, Talks
<1>3. /\ slots' \in Table /\ Unique(slots') /\ HasAdmin(slots')
      /\ \A d : FindPairing(slots, d) # None => FindPairing(slots', d) # None
  BY <1>1, <1>2, StoresHolds
<1>4. \A d \in Conns : /\ sess[d].disc => sess'[d].disc
                       /\ sess'[d].pid = sess[d].pid /\ sess'[d].admin = sess[d].admin
                       /\ sess'[d].who = sess[d].who
  BY <1>1, <1>2, TalkEffect
<1>5. PairingInv'
  BY <1>1, <1>2, <1>3, <1>4, TableKeepsPairing
<1>6. stray' \subseteq Strays /\ paired' \in BOOLEAN
  BY <1>1, <1>2, HistoryFits
<1>7. \A d \in Conns : d # c => sess[d].talk \notin {"m2", "m4"}
  BY <1>2, OthersAreOut
<1>8. sess'[c].talk = "none" /\ \A d \in Conns : d # c => sess'[d].talk = sess[d].talk
  BY <1>1, <1>2, TalkEffect
<1>9. SetupContextKept'
  BY <1>2, <1>7, <1>8, NoContextFits
<1> QED BY <1>2, <1>3, <1>5, <1>6, <1>9, TalkKeeps

(* The same without the flag: the history says so. *)
LEMMA SetupM5FailsLateKeeps ==
    ASSUME Inv, NEW c \in Conns, NEW id \in Ids, NEW key \in Keys, SetupM5FailsLate(c, id, key)
    PROVE  Inv'
<1>1. TypeOK /\ PairingInv
  BY DEF Inv
<1>2. /\ Stores(c, id, key, TRUE) /\ Serving(c) /\ Talk(c, "none")
      /\ stray' = History(slots') \cup {"late"}
      /\ UNCHANGED <<subs, setup, paired, pendingClose, phase>>
      /\ phase = "serve" /\ phase' = "serve" /\ "none" \in Talks
  BY DEF SetupM5FailsLate, Stores, Serving, Turn, Talks
<1>3. /\ slots' \in Table /\ Unique(slots')
      /\ \A d : FindPairing(slots, d) # None => FindPairing(slots', d) # None
  BY <1>1, <1>2, StoresHolds
<1>4. \A d \in Conns : /\ sess[d].disc => sess'[d].disc
                       /\ sess'[d].pid = sess[d].pid /\ sess'[d].admin = sess[d].admin
                       /\ sess'[d].who = sess[d].who
  BY <1>1, <1>2, TalkEffect
<1>5. History(slots') \subseteq stray' /\ "late" \in stray'
  BY <1>2
<1>6. PairingInv'
  BY <1>1, <1>2, <1>3, <1>4, <1>5, TableKeepsPairing
<1>7. stray' \subseteq Strays
  BY <1>1, <1>2, HistoryFits DEF Strays
<1>8. paired' \in BOOLEAN
  BY <1>1, <1>2 DEF TypeOK
<1>9. sess'[c].talk = "none" /\ \A d \in Conns : d # c => sess'[d].talk = sess[d].talk
  BY <1>1, <1>2, TalkEffect
<1>10. SetupContextKept'
  BY <1>2, <1>9, SameContextFits DEF Inv
<1> QED BY <1>2, <1>3, <1>6, <1>7, <1>8, <1>10, SetupIsListed, TalkKeeps

(* Whoever adds a pairing is an administrator, so that setup is closed already. *)
LEMMA AddPairingKeeps ==
    ASSUME Inv, NEW c \in Conns, NEW id \in Ids, NEW key \in Keys, NEW admin \in BOOLEAN,
           AddPairing(c, id, key, admin)
    PROVE  Inv'
<1>1. TypeOK /\ PairingInv
  BY DEF Inv
<1>2. /\ Stores(c, id, key, admin) /\ Serving(c) /\ stray' = History(slots')
      /\ UNCHANGED <<sess, subs, setup, paired, pendingClose, phase>>
      /\ phase = "serve" /\ phase' = "serve" /\ sess[c].admin
  BY DEF AddPairing, Stores, Serving, Turn, Administers
<1>3. /\ slots' \in Table /\ Unique(slots')
      /\ \A d : FindPairing(slots, d) # None => FindPairing(slots', d) # None
  BY <1>1, <1>2, StoresHolds
<1>4. paired \/ RePair \/ "late" \in stray
  BY <1>1, <1>2 DEF PairingInv, AdminsFit
<1>5. stray \subseteq stray' /\ stray' \subseteq Strays
  BY <1>1, <1>2, HistoryFits
<1>6. PairingInv'
  BY <1>1, <1>2, <1>3, <1>4, <1>5, TableKeepsPairing
<1>7. /\ subs' \in [Chars -> SUBSET Conns] /\ paired' \in BOOLEAN
      /\ \A ch \in Chars : subs'[ch] \subseteq subs[ch] \cup {c}
  BY <1>1, <1>2 DEF TypeOK
<1> QED BY <1>2, <1>3, <1>5, <1>6, <1>7, SameSessKeeps

(* An update keeps the id in the table; a move or a demotion is in the history. *)
LEMMA UpdatePairingKeeps ==
    ASSUME Inv, NEW c \in Conns, NEW id \in Ids, NEW key \in Keys, NEW admin \in BOOLEAN,
           UpdatePairing(c, id, key, admin)
    PROVE  Inv'
<1> DEFINE r == Pairing(id, key, admin)
<1>1. TypeOK /\ PairingInv /\ slots \in Table /\ Unique(slots)
  BY DEF Inv, TypeOK, PairingInv
<1>2. /\ Serving(c) /\ stray' = History(slots')
      /\ UNCHANGED <<sess, subs, setup, paired, pendingClose, phase>>
      /\ phase = "serve" /\ phase' = "serve" /\ sess[c].admin
      /\ FindPairing(slots, id) # None /\ slots' \in {slots, Updated(slots, r)}
  BY DEF UpdatePairing, Serving, Turn, Administers
<1>3. r \in Record /\ r.id = id
  BY DEF Pairing, Record
<1> HIDE DEF r
<1>4. PICK t : t = slots'
  OBVIOUS
<1>5. /\ t \in Table /\ Unique(t)
      /\ t = slots \/ Records(t) = (Records(slots) \ {FindPairing(slots, id)}) \cup {r}
  <2>1. /\ Updated(slots, r) \in Table /\ Unique(Updated(slots, r))
        /\ \/ Updated(slots, r) = slots
           \/ Records(Updated(slots, r)) = (Records(slots) \ {FindPairing(slots, id)}) \cup {r}
    BY <1>1, <1>2, <1>3, UpdatedHolds
  <2> QED BY <1>1, <1>2, <1>4, <2>1
<1>6. \A d : FindPairing(slots, d) # None => FindPairing(t, d) # None
  <2>1. CASE t = slots
    BY <2>1
  <2>2. CASE Records(t) = (Records(slots) \ {FindPairing(slots, id)}) \cup {r}
    <3>1. FindPairing(slots, id).id = id
      BY <1>1, <1>2, FoundIsValid DEF FindPairing
    <3>2. ASSUME NEW d, NEW s \in Records(slots), s.id = d PROVE \E u \in Records(t) : u.id = d
      BY <1>3, <2>2, <3>1, <3>2
    <3> QED BY <1>1, <1>5, <3>2, FoundIsHeld
  <2> QED BY <1>5, <2>1, <2>2
<1>7. paired \/ RePair \/ "late" \in stray
  BY <1>1, <1>2 DEF PairingInv, AdminsFit
<1>8. stray \subseteq stray' /\ stray' \subseteq Strays
  BY <1>1, <1>2, HistoryFits
<1>9. PairingInv'
  BY <1>1, <1>2, <1>4, <1>5, <1>6, <1>7, <1>8, TableKeepsPairing
<1>10. /\ subs' \in [Chars -> SUBSET Conns] /\ paired' \in BOOLEAN
      /\ \A ch \in Chars : subs'[ch] \subseteq subs[ch] \cup {c}
  BY <1>1, <1>2 DEF TypeOK
<1> QED BY <1>2, <1>4, <1>5, <1>8, <1>9, <1>10, SameSessKeeps

(* With the pairing go the sessions that remember its slot. *)
LEMMA RemovePairingKeeps ==
    ASSUME Inv, NEW c \in Conns, NEW id \in Ids, RemovePairing(c, id) PROVE Inv'
<1>1. /\ TypeOK /\ PairingInv /\ UnlistedIsNew /\ slots \in Table /\ Unique(slots)
      /\ stray \subseteq Strays
  BY DEF Inv, TypeOK, PairingInv, ListInv
<1>2. /\ Serving(c) /\ UNCHANGED <<subs, setup, paired>> /\ phase = "serve"
      /\ FindPairing(slots, id) # None
  BY DEF RemovePairing, Serving, Turn
<1> DEFINE k == FindSlot(slots, id)
           r == FindPairing(slots, id)
           u == Removed(slots, id)
<1>3. PICK p : /\ sess' = Marked(Holders(p))
               /\ pendingClose' = (pendingClose \/ Holders(p) # {})
               /\ stray' = stray \cup Flagged(p # k, "slots")
  BY DEF RemovePairing
<1>4. /\ u \in Table /\ Unique(u) /\ Records(u) = Records(slots) \ {r}
      /\ \A d : d # id => FindSlot(u, d) = FindSlot(slots, d)
  BY <1>1, <1>2, RemovedHolds
<1>5. \/ slots' = BlankTable /\ phase' = "restart"
      \/ slots' = u /\ phase' = "serve" /\ (r.admin => HasAdmin(u))
  BY <1>2 DEF RemovePairing
<1>6. Holders(p) \in SUBSET Listed /\ \A d \in Listed : sess[d].pid = p => d \in Holders(p)
  BY DEF Holders
<1>7. r \in Records(slots)
  BY <1>1, <1>2, FoundIsHeld
<1> HIDE DEF k, r, u
<1>8. \A d \in Conns : /\ sess'[d].disc <=> sess[d].disc \/ d \in Holders(p)
                       /\ sess'[d].pid = sess[d].pid /\ sess'[d].admin = sess[d].admin
                       /\ sess'[d].who = sess[d].who
  BY <1>1, <1>3, MarkEffect
<1>9. /\ stray \subseteq stray' /\ stray' \subseteq Strays
      /\ "slots" \notin stray' => "slots" \notin stray /\ p = k
  BY <1>1, <1>3 DEF Flagged, Strays
<1>10. slots' \in Table /\ Unique(slots)'
  <2>1. CASE slots' = u
    BY <1>4, <2>1 DEF Unique, ValidSlots
  <2>2. CASE slots' = BlankTable
    BY <2>2, BlankIsValid DEF Unique, ValidSlots
  <2> QED BY <1>5, <2>1, <2>2
<1>11. VerifiedHasSlot'
  BY <1>1, <1>8 DEF PairingInv, VerifiedHasSlot
<1>12. PairingInv'
  <2>1. CASE phase' = "restart"
    BY <1>10, <1>11, <2>1 DEF PairingInv, OpenSessionIsPaired, PairedMeansAdmin, AdminsFit
  <2>2. CASE slots' = u /\ phase' = "serve" /\ (r.admin => HasAdmin(u))
    <3>1. OpenSessionIsPaired'
      <4>1. SUFFICES ASSUME "slots" \notin stray', NEW d \in Conns,
                            sess'[d].who # None, ~sess'[d].disc
                     PROVE  FindSlot(u, sess'[d].who) = sess'[d].pid
        BY <2>2 DEF OpenSessionIsPaired, Encrypted, FindSlot, ValidSlots
      <4>2. FindSlot(slots, sess[d].who) = sess[d].pid
        BY <1>1, <1>2, <1>8, <1>9, <4>1 DEF PairingInv, OpenSessionIsPaired, Encrypted
      <4>3. d \in Listed
        BY <1>1, <1>8, <4>1 DEF UnlistedIsNew, NewSession
      <4>4. sess[d].who # id
        BY <1>6, <1>8, <1>9, <4>1, <4>2, <4>3 DEF k
      <4> QED BY <1>4, <1>8, <4>2, <4>4
    <3>2. HasAdmin(u) => HasAdmin(slots)
      BY <1>4, AdminIsHeld
    <3>3. HasAdmin(slots) => HasAdmin(u)
      BY <1>4, <2>2, AdminIsHeld
    <3>4. HasAdmin(slots)' <=> HasAdmin(slots)
      BY <2>2, <3>2, <3>3 DEF HasAdmin, ValidSlots
    <3>5. PairedMeansAdmin'
      BY <1>1, <1>2, <1>9, <2>2, <3>4 DEF PairingInv, PairedMeansAdmin
    <3>6. AdminsFit'
      BY <1>1, <1>2, <1>8, <1>9 DEF PairingInv, AdminsFit
    <3> QED BY <1>10, <1>11, <3>1, <3>5, <3>6 DEF PairingInv
  <2> QED BY <1>5, <2>1, <2>2
<1>13. paired' \in BOOLEAN /\ phase' \in {"serve", "restart"}
  BY <1>1, <1>2, <1>5 DEF TypeOK
<1> QED BY <1>2, <1>3, <1>6, <1>9, <1>10, <1>12, <1>13, MarkKeeps

----
(* The steps of the select loop and of other tasks. *)

(* Waiting for the sockets changes nothing but where the task is. *)
LEMMA SelectKeeps == ASSUME Inv, Select PROVE Inv'
<1>1. /\ UNCHANGED <<clients, sess, subs, setup, slots, paired, count, pendingClose,
                     kept, headGone, stray>>
      /\ phase = "select" /\ phase' \in {"accept", "serve"}
      /\ ready' \subseteq Listed
  BY DEF Select, flags, walk
<1>2. TypeOK /\ ListInv /\ PairingInv
  BY DEF Inv
<1>3. Listed \subseteq Conns
  BY <1>2 DEF TypeOK, Listed
<1>4. TypeOK'
  BY <1>1, <1>2, <1>3 DEF TypeOK, Phases
<1>5. ListInv'
  BY <1>1, <1>2 DEF ListInv, CountIsExact, UnlistedIsNew, Listed, WalkFits, MarkedIsPending, Crowded
<1>6. PairingInv'
  BY <1>1, <1>2, QuietKeepsPairing
<1>7. NoDanglingClients' /\ SetupContextKept'
  BY <1>1 DEF Inv, NoDanglingClients, SetupContextKept, Listed
<1> QED BY <1>4, <1>5, <1>6, <1>7 DEF Inv

(* A step that marks listed clients, of whatever task. *)
LEMMA EvictionKeeps ==
    ASSUME Inv, UNCHANGED <<clients, subs, setup, slots, paired, count, ready, walk, stray>>,
           phase # "restart", phase' \in Phases \ {"restart"},
           phase' = phase \/ (phase = "serve" /\ phase' = "close"),
           pendingClose' \in BOOLEAN, pendingClose => pendingClose',
           sess' \in [Conns -> Session],
           \A d \in Conns : sess[d].disc => sess'[d].disc,
           \A d \in Conns : sess'[d].disc /\ ~sess[d].disc => pendingClose',
           \A d \in Conns \ Listed : sess'[d] = sess[d],
           \A d \in Conns : /\ sess'[d].talk = sess[d].talk /\ sess'[d].pid = sess[d].pid
                            /\ sess'[d].admin = sess[d].admin /\ sess'[d].who = sess[d].who
    PROVE  Inv'
<1>1. TypeOK /\ ListInv /\ PairingInv /\ UNCHANGED <<kept, headGone>>
  BY DEF Inv, walk
<1>2. TypeOK'
  BY <1>1 DEF TypeOK
<1>3. ListInv'
  BY <1>1, MarksKeepList
<1>4. PairingInv'
  BY <1>1, QuietKeepsPairing
<1>5. NoDanglingClients' /\ SetupContextKept'
  BY DEF Inv, NoDanglingClients, SetupContextKept, Listed
<1> QED BY <1>2, <1>3, <1>4, <1>5 DEF Inv

(* The client at the end of the list is marked, or nobody. *)
LEMMA EvictsKeeps ==
    ASSUME Inv, UNCHANGED <<clients, subs, setup, slots, paired, count, ready, walk, stray>>,
           phase # "restart", phase' \in Phases \ {"restart"},
           phase' = phase \/ (phase = "serve" /\ phase' = "close"),
           \/ RemoveOldestClient(clients, count)
           \/ UNCHANGED sess /\ (pendingClose' = TRUE \/ UNCHANGED pendingClose)
    PROVE  Inv'
<1>1. /\ TypeOK /\ clients \in Seq(Conns) /\ count \in Nat /\ count <= Len(clients)
      /\ pendingClose \in BOOLEAN
  BY DEF Inv, ListInv, TypeOK, CountIsExact
<1>2. CASE RemoveOldestClient(clients, count)
  <2>1. /\ sess' \in [Conns -> Session] /\ pendingClose' \in BOOLEAN
        /\ pendingClose => pendingClose'
        /\ \A d \in Conns :
                  /\ sess[d].disc => sess'[d].disc
                  /\ sess'[d].disc /\ ~sess[d].disc => pendingClose'
                  /\ (\A j \in 1 .. Len(clients) : clients[j] # d) => sess'[d] = sess[d]
                  /\ sess'[d].talk = sess[d].talk /\ sess'[d].pid = sess[d].pid
                  /\ sess'[d].admin = sess[d].admin /\ sess'[d].who = sess[d].who
    BY <1>1, <1>2, EvictEffect
  <2>2. \A d \in Conns \ Listed : sess'[d] = sess[d]
    BY <2>1 DEF Listed
  <2> QED BY <2>1, <2>2, EvictionKeeps
<1>3. CASE UNCHANGED sess /\ (pendingClose' = TRUE \/ UNCHANGED pendingClose)
  <2>1. sess' \in [Conns -> Session] /\ pendingClose' \in BOOLEAN /\ (pendingClose => pendingClose')
    BY <1>1, <1>3 DEF TypeOK
  <2> QED BY <1>3, <2>1, EvictionKeeps
<1> QED BY <1>2, <1>3

(* The eviction by another task, at any point of the walk of close_clients. *)
LEMMA OtherTaskEvictsKeeps == ASSUME Inv, OtherTaskEvicts PROVE Inv'
<1>1. phase \in Phases
  BY DEF Inv, TypeOK
<1> QED BY <1>1, EvictsKeeps DEF OtherTaskEvicts

(* The eviction at the end of a pass. *)
LEMMA CheckMemoryKeeps == ASSUME Inv, CheckMemory PROVE Inv'
BY EvictsKeeps DEF CheckMemory, Phases

(* The newcomer's context is unused: it is not in any list either. *)
LEMMA AcceptKeeps == ASSUME Inv, Accept PROVE Inv'
<1>1. /\ TypeOK /\ ListInv /\ PairingInv /\ clients \in Seq(Conns) /\ Len(clients) \in Nat
      /\ count = Len(clients) /\ sess \in [Conns -> Session] /\ pendingClose \in BOOLEAN
  BY DEF Inv, ListInv, TypeOK, CountIsExact
<1>2. /\ UNCHANGED <<subs, setup, slots, paired, ready, kept, headGone, stray>>
      /\ phase = "accept" /\ phase' = "serve"
  BY DEF Accept, walk
<1>3. ListInv'
  BY <1>1, AcceptKeepsList
<1> DEFINE Same == \A d \in Conns :
             /\ sess[d].disc => sess'[d].disc
             /\ sess'[d].talk = sess[d].talk /\ sess'[d].pid = sess[d].pid
             /\ sess'[d].admin = sess[d].admin /\ sess'[d].who = sess[d].who
           Fits == /\ clients' \in Seq(Conns) /\ Listed \subseteq Listed'
                   /\ sess' \in [Conns -> Session] /\ pendingClose' \in BOOLEAN
<1>4. Fits /\ Same
  <2>1. CASE UNCHANGED <<clients, sess, count, pendingClose>>
    BY <1>1, <2>1 DEF Listed
  <2>2. CASE UNCHANGED <<clients, count>> /\ RemoveOldestClient(clients, count)
    <3>1. Len(clients) <= Len(clients)
      BY <1>1
    <3> QED BY <1>1, <2>2, <3>1, EvictEffect DEF Listed
  <2>3. ASSUME NEW c \in Conns \ Listed, clients' = <<c>> \o clients, count' = Wrap(count + 1),
               IF Full(count') THEN RemoveOldestClient(clients', count')
               ELSE UNCHANGED <<sess, pendingClose>>
        PROVE  Fits /\ Same
    <3>1. PICK l \in Seq(Conns) : l = clients'
      BY <1>1, <2>3, PrependIs
    <3>2. /\ Len(l) = Len(clients) + 1
          /\ \A j \in 1 .. Len(clients) : l[j + 1] = clients[j]
      BY <1>1, <2>3, <3>1, PrependIs
    <3>3. count' = Len(l)
      BY <1>3, <3>1 DEF ListInv, CountIsExact
    <3>4. Listed \subseteq Listed'
      <4>1. \A j \in 1 .. Len(clients) : j + 1 \in 1 .. Len(l)
        BY <1>1, <3>2
      <4> QED BY <3>1, <3>2, <4>1 DEF Listed
    <3>5. CASE Full(count')
      <4>1. RemoveOldestClient(l, Len(l)) /\ Len(l) \in Nat /\ Len(l) <= Len(l)
        BY <2>3, <3>1, <3>3, <3>5
      <4> QED BY <1>1, <3>1, <3>4, <4>1, EvictEffect
    <3>6. CASE ~Full(count')
      <4>1. UNCHANGED <<sess, pendingClose>>
        BY <2>3, <3>6
      <4> QED BY <1>1, <3>1, <3>4, <4>1
    <3> QED BY <3>5, <3>6
  <2> QED BY <2>1, <2>2, <2>3 DEF Accept
<1>5. count' \in 0 .. 2^CountBits - 1
  <2>1. 2^CountBits \in Nat
    BY ServerAssumption
  <2> DEFINE R == 2^CountBits
  <2>2. Len(clients') \in Nat /\ count' = Len(clients')
    BY <1>3, <1>4 DEF ListInv, CountIsExact
  <2>3. Len(clients') <= Limit + 1
    BY <1>3, <2>2, LimitFits DEF ListInv, Crowded
  <2>4. Limit + 1 < R /\ R \in Nat /\ Limit \in Nat
    BY <2>1, LimitFits
  <2> HIDE DEF R
  <2>5. count' \in 0 .. R - 1
    BY <2>2, <2>3, <2>4
  <2> QED BY <2>5 DEF R
<1>6. TypeOK'
  BY <1>1, <1>2, <1>4, <1>5 DEF TypeOK, Phases
<1>7. PairingInv'
  BY <1>1, <1>2, <1>4, QuietKeepsPairing
<1>8. NoDanglingClients' /\ SetupContextKept'
  BY <1>2, <1>4 DEF Inv, NoDanglingClients, SetupContextKept
<1> QED BY <1>3, <1>6, <1>7, <1>8 DEF Inv

(* The walk begins: the flag is taken back, the marks are all ahead. *)
LEMMA StartClosingKeeps == ASSUME Inv, StartClosing PROVE Inv'
<1>1. /\ UNCHANGED <<clients, sess, subs, setup, slots, paired, count, ready, kept, headGone, stray>>
      /\ phase = "close" /\ phase' \in {"closing", "select"} /\ pendingClose' = FALSE
  BY DEF StartClosing, walk
<1>2. TypeOK /\ ListInv /\ PairingInv
  BY DEF Inv
<1>3. TypeOK'
  BY <1>1, <1>2 DEF TypeOK, Phases
<1>4. ListInv'
  BY <1>2, StartKeepsList
<1>5. PairingInv'
  BY <1>1, <1>2, QuietKeepsPairing
<1>6. NoDanglingClients' /\ SetupContextKept'
  BY <1>1 DEF Inv, NoDanglingClients, SetupContextKept, Listed
<1> QED BY <1>3, <1>4, <1>5, <1>6 DEF Inv

(* The walk passes a client. *)
LEMMA PassClientKeeps == ASSUME Inv, PassClient PROVE Inv'
<1>1. /\ UNCHANGED <<clients, sess, subs, setup, slots, paired, count, pendingClose, phase,
                     ready, headGone, stray>>
      /\ phase = "closing" /\ kept' = kept + 1
  BY DEF PassClient, flags
<1>2. TypeOK /\ ListInv /\ PairingInv
  BY DEF Inv
<1>3. TypeOK'
  BY <1>1, <1>2 DEF TypeOK
<1>4. ListInv'
  BY <1>2, PassKeepsList
<1>5. PairingInv'
  BY <1>1, <1>2, QuietKeepsPairing
<1>6. NoDanglingClients' /\ SetupContextKept'
  BY <1>1 DEF Inv, NoDanglingClients, SetupContextKept, Listed
<1> QED BY <1>3, <1>4, <1>5, <1>6 DEF Inv

(* The walk ends. *)
LEMMA EndClosingKeeps == ASSUME Inv, EndClosing PROVE Inv'
<1>1. /\ UNCHANGED <<clients, sess, subs, setup, slots, paired, count, pendingClose, ready, stray>>
      /\ phase = "closing" /\ phase' = "select" /\ kept' = 0 /\ headGone' = FALSE
  BY DEF EndClosing, flags
<1>2. TypeOK /\ ListInv /\ PairingInv
  BY DEF Inv
<1>3. TypeOK'
  BY <1>1, <1>2 DEF TypeOK, Phases
<1>4. ListInv'
  BY <1>2, EndKeepsList
<1>5. PairingInv'
  BY <1>1, <1>2, QuietKeepsPairing
<1>6. NoDanglingClients' /\ SetupContextKept'
  BY <1>1 DEF Inv, NoDanglingClients, SetupContextKept, Listed
<1> QED BY <1>3, <1>4, <1>5, <1>6 DEF Inv

(* A client that is closed leaves nothing behind. *)
LEMMA CloseClientKeeps == ASSUME Inv, CloseClient PROVE Inv'
<1> DEFINE c == clients[kept + 1]
<1>1. /\ TypeOK /\ ListInv /\ PairingInv /\ clients \in Seq(Conns) /\ Len(clients) \in Nat
      /\ kept \in Nat /\ count = Len(clients) /\ count \in 0 .. 2^CountBits - 1
  BY DEF Inv, ListInv, TypeOK, CountIsExact
<1>2. /\ kept < Len(clients) /\ phase = "closing" /\ clients' = Without(kept + 1)
      /\ setup' = (IF setup # None /\ setup.client = c THEN None ELSE setup)
      /\ subs' = SubsWithout(c) /\ sess' = [sess EXCEPT ![c] = NewSession]
      /\ headGone' = (headGone \/ kept = 0)
      /\ UNCHANGED <<slots, paired, pendingClose, phase, ready, kept, stray>>
  BY DEF CloseClient
<1>3. kept + 1 \in 1 .. Len(clients) /\ c \in Conns
  BY <1>1, <1>2
<1>4. /\ clients' \in Seq(Conns) /\ Len(clients') = Len(clients) - 1
      /\ \A j \in 1 .. Len(clients) - 1 :
             clients'[j] = clients[IF j < kept + 1 THEN j ELSE j + 1]
  BY <1>1, <1>2, <1>3, WithoutIs
<1>5. ListInv'
  BY <1>1, CloseKeepsList
<1>6. NewSession \in Session /\ NewSession.talk = "none"
  BY DEF NewSession, Session, Talks
<1>7. ASSUME NEW d \in Listed, d # c PROVE d \in Listed'
  <2>1. PICK j \in 1 .. Len(clients) : clients[j] = d
    BY <1>7 DEF Listed
  <2>2. j # kept + 1
    BY <1>7, <2>1
  <2>3. CASE j < kept + 1
    <3>1. j \in 1 .. Len(clients) - 1
      BY <1>1, <1>2, <2>3
    <3>2. clients'[j] = clients[j]
      BY <1>4, <2>3, <3>1
    <3>3. j \in 1 .. Len(clients')
      BY <1>4, <3>1
    <3> QED BY <2>1, <3>2, <3>3 DEF Listed
  <2>4. CASE j > kept + 1
    <3>1. j - 1 \in 1 .. Len(clients') /\ ~(j - 1 < kept + 1) /\ (j - 1) + 1 = j
      BY <1>1, <1>2, <1>4, <2>4
    <3>2. clients'[j - 1] = clients[j]
      BY <1>4, <3>1
    <3> QED BY <2>1, <3>1, <3>2 DEF Listed
  <2> QED BY <1>1, <2>2, <2>3, <2>4
<1> HIDE DEF c
<1>8. sess \in [Conns -> Session] /\ subs \in [Chars -> SUBSET Conns] 
      /\ setup \in Context \cup {None}
  BY <1>1 DEF TypeOK
<1>9. /\ sess' \in [Conns -> Session] /\ sess'[c] = NewSession
      /\ \A d \in Conns : d # c => sess'[d] = sess[d]
  BY <1>2, <1>3, <1>6, <1>8
<1>10. PairingInv'
  BY <1>1, <1>2, <1>9, QuietKeepsPairing
<1>11. SetupContextKept'
  BY <1>2, <1>6, <1>9 DEF Inv, SetupContextKept
<1>12. /\ subs' \in [Chars -> SUBSET Conns]
       /\ \A ch \in Chars : subs'[ch] = subs[ch] \ {c}
  BY <1>2, <1>8 DEF SubsWithout
<1>13. NoDanglingClients'
  <2>1. \A ch \in Chars : subs'[ch] \subseteq Listed'
    BY <1>7, <1>12 DEF Inv, NoDanglingClients
  <2>2. setup' # None => setup'.client \in Listed'
    BY <1>2, <1>7 DEF Inv, NoDanglingClients
  <2> QED BY <2>1, <2>2 DEF NoDanglingClients
<1>14. count' \in 0 .. 2^CountBits - 1
  <2> DEFINE R == 2^CountBits
  <2>1. R \in Nat /\ count \in 0 .. R - 1
    BY <1>1, ServerAssumption
  <2>2. count' = count - 1 /\ count' \in Nat
    BY <1>1, <1>2, <1>4, <1>5 DEF ListInv, CountIsExact
  <2> HIDE DEF R
  <2>3. count' \in 0 .. R - 1
    BY <2>1, <2>2
  <2> QED BY <2>3 DEF R
<1>15. setup' \in Context \cup {None}
  BY <1>2, <1>8
<1>16. headGone' \in BOOLEAN
  BY <1>2
<1>17. TypeOK'
  BY <1>1, <1>2, <1>4, <1>9, <1>12, <1>14, <1>15, <1>16 DEF TypeOK
<1> QED BY <1>5, <1>10, <1>11, <1>13, <1>17 DEF Inv

(* After a restart only the flash is as it was. *)
LEMMA RestartKeeps == ASSUME Inv, Restart PROVE Inv'
<1>1. /\ clients' = <<>> /\ sess' = [c \in Conns |-> NewSession]
      /\ subs' = [ch \in Chars |-> {}] /\ setup' = None
      /\ paired' = (~RePair /\ HasAdmin(slots)) /\ count' = 0 /\ pendingClose' = FALSE
      /\ phase' = "select" /\ ready' = {} /\ kept' = 0 /\ headGone' = FALSE
      /\ stray' = {} /\ slots' = slots
  BY DEF Restart
<1>2. NewSession \in Session /\ NewSession.talk = "none" /\ NewSession.who = None
      /\ NewSession.admin = FALSE
  BY DEF NewSession, Session, Talks
<1>3. TypeOK'
  <2>1. 0 \in 0 .. 2^CountBits - 1
    BY ServerAssumption
  <2>2. clients' \in Seq(Conns) /\ sess' \in [Conns -> Session] /\ subs' \in [Chars -> SUBSET Conns]
    BY <1>1, <1>2
  <2> QED BY <1>1, <2>1, <2>2 DEF Inv, TypeOK, Phases
<1>4. ListInv'
  <2>1. Len(clients') = 0
    BY <1>1
  <2> QED BY <1>1, <2>1, LimitFits DEF ListInv, CountIsExact, UnlistedIsNew, WalkFits,
             MarkedIsPending, Crowded
<1>5. \A c \in Conns : sess'[c] = NewSession
  BY <1>1
<1>6. PairingInv'
  <2>1. Unique(slots)' /\ (HasAdmin(slots)' <=> HasAdmin(slots))
    BY <1>1 DEF Inv, PairingInv, Unique, ValidSlots, HasAdmin
  <2>2. OpenSessionIsPaired' /\ VerifiedHasSlot' /\ AdminsFit'
    BY <1>2, <1>5 DEF OpenSessionIsPaired, Encrypted, VerifiedHasSlot, AdminsFit
  <2>3. PairedMeansAdmin'
    BY <1>1, <2>1 DEF PairedMeansAdmin
  <2> QED BY <2>1, <2>2, <2>3 DEF PairingInv
<1>7. NoDanglingClients' /\ SetupContextKept'
  BY <1>1, <1>2, <1>5 DEF NoDanglingClients, SetupContextKept
<1> QED BY <1>3, <1>4, <1>6, <1>7 DEF Inv

(* The invariant holds of a device whose flash is blank. *)
LEMMA InitInv == ASSUME Init PROVE Inv
<1>1. /\ clients = <<>> /\ sess = [c \in Conns |-> NewSession]
      /\ subs = [ch \in Chars |-> {}] /\ setup = None /\ slots = BlankTable
      /\ paired = FALSE /\ count = 0 /\ pendingClose = FALSE
      /\ phase = "select" /\ ready = {} /\ kept = 0 /\ headGone = FALSE /\ stray = {}
  BY DEF Init
<1>2. NewSession \in Session /\ NewSession.talk = "none" /\ NewSession.who = None
      /\ NewSession.admin = FALSE
  BY DEF NewSession, Session, Talks
<1>3. BlankTable \in Table /\ ValidSlots(BlankTable) = {}
  BY BlankIsValid
<1>4. TypeOK
  <2>1. 0 \in 0 .. 2^CountBits - 1
    BY ServerAssumption
  <2>2. clients \in Seq(Conns) /\ sess \in [Conns -> Session] /\ subs \in [Chars -> SUBSET Conns]
    BY <1>1, <1>2
  <2> QED BY <1>1, <1>3, <2>1, <2>2 DEF TypeOK, Phases
<1>5. ListInv
  BY <1>1, EmptyList
<1>6. \A c \in Conns : sess[c] = NewSession
  BY <1>1
<1>7. PairingInv
  BY <1>1, <1>2, <1>3, <1>6 DEF PairingInv, Unique, OpenSessionIsPaired, Encrypted, VerifiedHasSlot,
     AdminsFit, PairedMeansAdmin, HasAdmin
<1>8. NoDanglingClients /\ SetupContextKept
  BY <1>1, <1>2, <1>6 DEF NoDanglingClients, SetupContextKept
<1> QED BY <1>4, <1>5, <1>7, <1>8 DEF Inv

----
(* Every step of the server, of another task and of the power supply keeps it. *)
LEMMA NextInv == ASSUME Inv, [Next]_vars PROVE Inv'
<1>1. ASSUME NEW c \in Conns, Serve(c) PROVE Inv'
  <2>1. ASSUME NEW id \in Ids, VerifyM3(c, id) \/ RemovePairing(c, id) PROVE Inv'
    BY <2>1, VerifyM3Keeps, RemovePairingKeeps
  <2>2. ASSUME NEW id \in Ids, NEW key \in Keys, SetupM5(c, id, key) \/ SetupM5FailsLate(c, id, key)
        PROVE  Inv'
    BY <2>2, SetupM5Keeps, SetupM5FailsLateKeeps
  <2>3. ASSUME NEW id \in Ids, NEW key \in Keys, NEW admin \in BOOLEAN,
               AddPairing(c, id, key, admin) \/ UpdatePairing(c, id, key, admin)
        PROVE  Inv'
    BY <2>3, AddPairingKeeps, UpdatePairingKeeps
  <2>4. ASSUME NEW ch \in Chars, Subscribe(c, ch) \/ Unsubscribe(c, ch) PROVE Inv'
    BY <2>4, SubscriptionKeeps
  <2> QED BY <1>1, <2>1, <2>2, <2>3, <2>4, EofKeeps, NoEffectKeeps, SetupM1Keeps, SetupM3Keeps,
             SetupM5FailsKeeps, VerifyM1Keeps, VerifyM3FailsKeeps, RestartKeeps
     DEF Serve, SetupWithoutContext
<1>2. CASE Restart
  BY <1>2, RestartKeeps
<1>3. CASE Next
  BY <1>1, <1>2, <1>3, AcceptKeeps, CheckMemoryKeeps, StartClosingKeeps, CloseClientKeeps,
     PassClientKeeps, EndClosingKeeps, SelectKeeps, OtherTaskEvictsKeeps
  DEF Next, ServerStep, Reboot, PowerCycle
<1>4. CASE UNCHANGED vars
  BY <1>4 DEF vars, flags, walk, Inv, TypeOK, ListInv, CountIsExact, UnlistedIsNew, Listed,
     WalkFits, MarkedIsPending, Crowded, MarkedAhead, NoDanglingClients, SetupContextKept,
     PairingInv, Unique, ValidSlots, OpenSessionIsPaired, Encrypted, FindSlot, VerifiedHasSlot,
     PairedMeansAdmin, HasAdmin, AdminsFit
<1> QED BY <1>3, <1>4

(* The invariant all theorems below follow from. *)
LEMMA InvAlways == Spec => []Inv
<1>1. Init => Inv
  BY InitInv
<1>2. Inv /\ [Next]_vars => Inv'
  BY NextInv
<1> QED BY <1>1, <1>2, PTL DEF Spec

(* Every variable stays in the set its declaration in server.c gives it: the
   counter in its five bits, the setup context with a connection or without. *)
THEOREM TypeCorrect == Spec => []TypeOK
<1>1. Inv => TypeOK
  BY DEF Inv
<1> QED BY <1>1, InvAlways, PTL

(* client_count is the length of the client list, whatever is accepted, evicted
   and closed, by whatever task, and no context is in the list twice. *)
THEOREM CounterIsExact == Spec => []CountIsExact
<1>1. Inv => CountIsExact
  BY DEF Inv, ListInv
<1> QED BY <1>1, InvAlways, PTL

(* No characteristic and no pair setup context refers to a freed client. *)
THEOREM NothingDangles == Spec => []NoDanglingClients
<1>1. Inv => NoDanglingClients
  BY DEF Inv
<1> QED BY <1>1, InvAlways, PTL

(* What M2 and M4 told a controller holds when it goes on, unless the M3 of another
   client, which the code does not refuse, has ended its setup: then no M5 is
   served for it until it begins again. *)
THEOREM SetupHolds == Spec => []SetupContextKept
<1>1. Inv => SetupContextKept
  BY DEF Inv
<1> QED BY <1>1, InvAlways, PTL

(* A client marked for the end, at whatever point of close_clients, is still to
   be looked for: by this walk or by the next one. *)
THEOREM MarksAreNotLost == Spec => []MarkedIsPending
<1>1. Inv => MarkedIsPending
  BY DEF Inv, ListInv
<1> QED BY <1>1, InvAlways, PTL

(* Every pass ends with room for one client more, or only MinClients are left. *)
THEOREM PassMakesRoom == Spec => []RoomForNext
<1>1. Inv => RoomForNext
  <2>1. CASE phase = "select"
    BY <2>1 DEF Inv, ListInv, Crowded, Limit, RoomForNext
  <2> QED BY <2>1 DEF RoomForNext
<1> QED BY <1>1, InvAlways, PTL

(* While no record has moved, an open session is that of a controller that is
   still paired, in the slot the session remembers. *)
THEOREM OpenSessionsArePaired == Spec => []OpenSessionIsPaired
<1>1. Inv => OpenSessionIsPaired
  BY DEF Inv, PairingInv
<1> QED BY <1>1, InvAlways, PTL

(* The flag that closes pair setup agrees with the table in flash. *)
THEOREM PairedFlagFits == Spec => []PairedMeansAdmin
<1>1. Inv => PairedMeansAdmin
  BY DEF Inv, PairingInv
<1> QED BY <1>1, InvAlways, PTL
====

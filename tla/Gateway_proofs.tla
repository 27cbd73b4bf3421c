--------------------------- MODULE Gateway_proofs ---------------------------
(***************************************************************************)
(* Theorems about Gateway, for any finite set of devices and any bounds:   *)
(* on a socket, the events of a session tell its changes in turn, and the  *)
(* last of them agrees with the hub's snapshot.                            *)
(***************************************************************************)
EXTENDS Gateway, SequenceTheorems, FiniteSetTheorems, TLAPS

Rows == [gen : Nat, online : BOOLEAN]
EventSet == [dev : Devices, gen : Nat \ {0}, online : BOOLEAN]

GatewayType ==
    /\ table \in [Devices -> Rows]
    /\ last \in [Devices -> Rows]
    /\ current \in [Devices -> Rows]
    /\ polling \in {"seeding", "waiting", "read"}
    /\ socket \in {"opening", "open", "closed"}
    /\ events \in Seq(EventSet)

\* Sessions only get newer: from the last snapshot to the one under way to the table.
Monotone ==
    /\ \A d \in Devices : last[d].gen <= table[d].gen
    /\ polling = "read" =>
          \A d \in Devices : last[d].gen <= current[d].gen /\ current[d].gen <= table[d].gen

\* No event is about a session newer than the last snapshot knows; there are none before
\* the first snapshot, or without a socket.
EventsKnown ==
    /\ \A i \in 1..Len(events) : events[i].gen <= last[events[i].dev].gen
    /\ polling = "seeding" \/ socket # "open" => events = <<>>

(***************************************************************************)
(* EventsTellChanges of any sequence of events and any snapshot.           *)
(***************************************************************************)
Same(q, i, j) == q[i].dev = q[j].dev /\ q[i].gen = q[j].gen

Alternates(q) ==
    \A i \in 1..Len(q) : \A j \in (i + 1)..Len(q) :
        Same(q, i, j) /\ (\A k \in (i + 1)..(j - 1) : ~Same(q, i, k)) => q[i].online # q[j].online

EndsWith(q, snapshot) ==
    \A i \in 1..Len(q) :
        (\A j \in (i + 1)..Len(q) : ~Same(q, i, j)) /\ snapshot[q[i].dev].gen = q[i].gen =>
            q[i].online = snapshot[q[i].dev].online

\* EventsTellChanges is about the events on the socket and the last snapshot.
LEMMA TellsMeans ==
    ASSUME events \in Seq(EventSet)
    PROVE  EventsTellChanges <=> Alternates(events) /\ EndsWith(events, last)
<1>1. DOMAIN events = 1..Len(events)
  BY LenProperties
<1>. QED  BY <1>1 DEF EventsTellChanges, LastOfSession, SameSession, Same, Alternates, EndsWith

LEMMA TellsMeansNext ==
    ASSUME events' \in Seq(EventSet)
    PROVE  EventsTellChanges' <=> Alternates(events') /\ EndsWith(events', last')
<1>1. DOMAIN events' = 1..Len(events')
  BY LenProperties
<1>. QED  BY <1>1 DEF EventsTellChanges, LastOfSession, SameSession, Same, Alternates, EndsWith

\* The page takes the oldest event.
LEMMA TailTells ==
    ASSUME NEW q \in Seq(EventSet), q # <<>>, NEW l, Alternates(q), EndsWith(q, l)
    PROVE  Alternates(Tail(q)) /\ EndsWith(Tail(q), l)
<1>. DEFINE t == Tail(q)
            n == Len(t)
<1>1. n \in Nat /\ Len(q) = n + 1 /\ \A i \in 1..n : t[i] = q[i + 1]
  BY HeadTailProperties, LenProperties
<1>. HIDE DEF t, n
<1>2. \A i \in 1..n : i + 1 \in 1..Len(q) /\ \A j \in (i + 1)..n : j + 1 \in ((i + 1) + 1)..Len(q)
  BY <1>1
<1>3. \A i, j \in 1..n : Same(t, i, j) <=> Same(q, i + 1, j + 1)
  BY <1>1 DEF Same
<1>4. ASSUME NEW i \in 1..n, NEW j \in (i + 1)..n, Same(t, i, j),
             \A k \in (i + 1)..(j - 1) : ~Same(t, i, k)
      PROVE  t[i].online # t[j].online
  <2>1. j \in 1..n /\ Same(q, i + 1, j + 1)
    BY <1>1, <1>3, <1>4
  <2>2. \A k \in ((i + 1) + 1)..((j + 1) - 1) : ~Same(q, i + 1, k)
    <3>. SUFFICES ASSUME NEW k \in ((i + 1) + 1)..((j + 1) - 1) PROVE ~Same(q, i + 1, k)
      OBVIOUS
    <3>1. k - 1 \in (i + 1)..(j - 1) /\ k - 1 \in 1..n /\ (k - 1) + 1 = k
      BY <1>1
    <3>. QED  BY <1>3, <1>4, <3>1
  <2>3. q[i + 1].online # q[j + 1].online
    BY <1>2, <2>1, <2>2 DEF Alternates
  <2>. QED  BY <1>1, <2>1, <2>3
<1>5. ASSUME NEW i \in 1..n, \A j \in (i + 1)..n : ~Same(t, i, j), l[t[i].dev].gen = t[i].gen
      PROVE  t[i].online = l[t[i].dev].online
  <2>1. \A j \in ((i + 1) + 1)..Len(q) : ~Same(q, i + 1, j)
    <3>. SUFFICES ASSUME NEW j \in ((i + 1) + 1)..Len(q) PROVE ~Same(q, i + 1, j)
      OBVIOUS
    <3>1. j - 1 \in (i + 1)..n /\ j - 1 \in 1..n /\ (j - 1) + 1 = j
      BY <1>1
    <3>. QED  BY <1>3, <1>5, <3>1
  <2>2. t[i] = q[i + 1] /\ i + 1 \in 1..Len(q)
    BY <1>1, <1>2
  <2>. QED  BY <1>5, <2>1, <2>2 DEF EndsWith
<1>6. Alternates(t) /\ EndsWith(t, l)
  BY <1>4, <1>5 DEF Alternates, EndsWith, n
<1>. QED  BY <1>6 DEF t

\* A poll appends an event for every session that both snapshots know in different states.
LEMMA AppendTells ==
    ASSUME NEW q \in Seq(EventSet), NEW new \in Seq(EventSet),
           NEW l \in [Devices -> Rows], NEW c \in [Devices -> Rows],
           Alternates(q), EndsWith(q, l),
           \A d \in Devices : l[d].gen <= c[d].gen,
           \A i \in 1..Len(q) : q[i].gen <= l[q[i].dev].gen,
           \A i, j \in 1..Len(new) : i # j => new[i].dev # new[j].dev,
           \A i \in 1..Len(new) : /\ new[i].gen = c[new[i].dev].gen
                                  /\ new[i].gen = l[new[i].dev].gen
                                  /\ new[i].online = c[new[i].dev].online
                                  /\ new[i].online # l[new[i].dev].online,
           \A d \in Devices : c[d].gen # 0 /\ c[d].gen = l[d].gen /\ c[d].online # l[d].online
               => \E i \in 1..Len(new) : new[i].dev = d
    PROVE  Alternates(q \o new) /\ EndsWith(q \o new, c)
<1>. DEFINE r == q \o new
            m == Len(q)
            n == Len(new)
<1>1. /\ r \in Seq(EventSet) /\ m \in Nat /\ n \in Nat /\ Len(r) = m + n
      /\ \A i \in 1..m : r[i] = q[i]
      /\ \A i \in 1..n : r[m + i] = new[i]
  <2>1. /\ r \in Seq(EventSet) /\ m \in Nat /\ n \in Nat /\ Len(r) = m + n
        /\ \A i \in 1..m + n : r[i] = IF i <= m THEN q[i] ELSE new[i - m]
    BY ConcatProperties, LenProperties
  <2>. HIDE DEF r, m, n
  <2>2. /\ \A i \in 1..m : i \in 1..m + n /\ i <= m
        /\ \A i \in 1..n : m + i \in 1..m + n /\ ~(m + i <= m) /\ (m + i) - m = i
    BY <2>1
  <2>. QED  BY <2>1, <2>2
<1>2. /\ \A i \in 1..m : q[i] \in EventSet
      /\ \A i \in 1..n : new[i] \in EventSet
  BY ElementOfSeq
<1>. HIDE DEF r, m, n
<1>3. \A i \in 1..m + n : i \in 1..m \/ (i - m \in 1..n /\ r[i] = new[i - m])
  <2>1. \A i \in 1..m + n : i \in 1..m \/ (i - m \in 1..n /\ m + (i - m) = i)
    BY <1>1
  <2>. QED  BY <1>1, <2>1
<1>4. \A i, j \in 1..m : Same(r, i, j) <=> Same(q, i, j)
  BY <1>1 DEF Same
<1>5. ASSUME NEW i \in 1..m + n, i \notin 1..m, NEW j \in (i + 1)..m + n PROVE ~Same(r, i, j)
  <2>1. j \in 1..m + n /\ j \notin 1..m /\ i - m # j - m
    BY <1>1, <1>5
  <2>2. i - m \in 1..n /\ j - m \in 1..n /\ r[i] = new[i - m] /\ r[j] = new[j - m]
    BY <1>3, <1>5, <2>1
  <2>3. new[i - m].dev # new[j - m].dev
    BY <2>1, <2>2 DEF n
  <2>. QED  BY <2>2, <2>3 DEF Same
<1>6. ASSUME NEW i \in 1..m, NEW j \in 1..n, Same(r, i, m + j),
             \A k \in (i + 1)..m : ~Same(q, i, k)
      PROVE  q[i].online # new[j].online
  <2>1. q[i].dev = new[j].dev /\ q[i].gen = new[j].gen
    BY <1>1, <1>6 DEF Same
  <2>2. l[q[i].dev].gen = q[i].gen /\ new[j].online # l[q[i].dev].online
    BY <2>1 DEF n
  <2>3. q[i].online = l[q[i].dev].online
    BY <1>6, <2>2 DEF EndsWith, m
  <2>. QED  BY <2>2, <2>3
<1>7. ASSUME NEW i \in 1..m + n, NEW j \in (i + 1)..m + n, Same(r, i, j),
             \A k \in (i + 1)..(j - 1) : ~Same(r, i, k)
      PROVE  r[i].online # r[j].online
  <2>1. i \in 1..m
    BY <1>5, <1>7
  <2>2. CASE j \in 1..m
    <3>1. /\ j \in (i + 1)..m
          /\ \A k \in (i + 1)..(j - 1) : k \in 1..m
      BY <1>1, <2>1, <2>2
    <3>2. \A k \in (i + 1)..(j - 1) : ~Same(q, i, k)
      BY <1>4, <1>7, <2>1, <3>1
    <3>3. q[i].online # q[j].online
      BY <1>4, <1>7, <2>1, <2>2, <3>1, <3>2 DEF Alternates, m
    <3>. QED  BY <1>1, <2>1, <2>2, <3>3
  <2>3. CASE j \notin 1..m
    <3>1. j \in 1..m + n /\ j - m \in 1..n /\ m + (j - m) = j
          /\ \A k \in (i + 1)..m : k \in (i + 1)..(j - 1) /\ k \in 1..m
      BY <1>1, <2>1, <2>3
    <3>2. \A k \in (i + 1)..m : ~Same(q, i, k)
      BY <1>4, <1>7, <2>1, <3>1
    <3>3. q[i].online # new[j - m].online
      BY <1>6, <1>7, <2>1, <3>1, <3>2
    <3>4. r[i] = q[i] /\ r[j] = new[j - m]
      BY <1>1, <1>3, <2>1, <2>3, <3>1
    <3>. QED  BY <3>3, <3>4
  <2>. QED  BY <2>2, <2>3
<1>8. ASSUME NEW i \in 1..m + n, \A j \in (i + 1)..m + n : ~Same(r, i, j), c[r[i].dev].gen = r[i].gen
      PROVE  r[i].online = c[r[i].dev].online
  <2>1. CASE i \in 1..m
    <3>1. r[i] = q[i] /\ q[i] \in EventSet
      BY <1>1, <1>2, <2>1
    <3>2. q[i].dev \in Devices /\ q[i].gen \in Nat \ {0}
      BY <3>1 DEF EventSet
    <3>3. q[i].gen <= l[q[i].dev].gen /\ l[q[i].dev].gen <= c[q[i].dev].gen
      BY <2>1, <3>2 DEF m
    <3>4. l[q[i].dev].gen = q[i].gen
      BY <1>8, <3>1, <3>2, <3>3 DEF Rows
    <3>5. \A j \in (i + 1)..m : j \in (i + 1)..m + n /\ j \in 1..m
      BY <1>1, <2>1
    <3>6. \A j \in (i + 1)..m : ~Same(q, i, j)
      BY <1>4, <1>8, <2>1, <3>5
    <3>7. q[i].online = l[q[i].dev].online
      BY <2>1, <3>4, <3>6 DEF EndsWith, m
    <3>8. ASSUME c[q[i].dev].online # l[q[i].dev].online PROVE FALSE
      <4>1. PICK k \in 1..n : new[k].dev = q[i].dev
        BY <1>8, <3>1, <3>2, <3>4, <3>8 DEF n
      <4>2. new[k].gen = q[i].gen
        BY <3>4, <4>1 DEF n
      <4>3. m + k \in (i + 1)..m + n
        BY <1>1, <2>1
      <4>4. r[m + k] = new[k]
        BY <1>1
      <4>5. Same(r, i, m + k)
        BY <3>1, <4>1, <4>2, <4>4 DEF Same
      <4>. QED  BY <1>8, <4>3, <4>5
    <3>. QED  BY <3>1, <3>7, <3>8
  <2>2. CASE i \notin 1..m
    <3>1. i - m \in 1..n /\ r[i] = new[i - m]
      BY <1>3, <2>2
    <3>. QED  BY <3>1 DEF n
  <2>. QED  BY <2>1, <2>2
<1>9. Alternates(r) /\ EndsWith(r, c)
  BY <1>1, <1>7, <1>8 DEF Alternates, EndsWith
<1>. QED  BY <1>9 DEF r

\* A sequence of SetToSeqs lists every element of a finite set, each once.
LEMMA ListsAll ==
    ASSUME NEW S, IsFiniteSet(S), NEW order \in SetToSeqs(S)
    PROVE  /\ order \in Seq(S)
           /\ \A i, j \in DOMAIN order : i # j => order[i] # order[j]
           /\ \A x \in S : \E i \in DOMAIN order : order[i] = x
<1>. DEFINE D == 1..Cardinality(S)
<1>1. Cardinality(S) \in Nat
  BY FS_CardinalityType
<1>2. order \in [D -> S] /\ \A i, j \in D : i # j => order[i] # order[j]
  BY DEF SetToSeqs
<1>3. order \in Injection(D, S)
  BY <1>2 DEF Injection, IsInjective
<1>4. Cardinality(D) = Cardinality(S)
  <2>1. 1 \in Int /\ Cardinality(S) \in Int
    BY <1>1
  <2>2. Cardinality(D) = IF 1 > Cardinality(S) THEN 0 ELSE Cardinality(S) - 1 + 1
    BY <2>1, FS_Interval
  <2>. QED  BY <1>1, <2>2
<1>5. order \in Surjection(D, S)
  BY <1>3, <1>4, FS_Injection
<1>6. order \in Seq(S)
  BY <1>1, <1>2
<1>. QED  BY <1>2, <1>5, <1>6 DEF Surjection

(***************************************************************************)
(* The invariant.                                                          *)
(***************************************************************************)
GatewayInv == GatewayType /\ Monotone /\ EventsKnown /\ EventsTellChanges

\* The gateway starts with no snapshot and no events.
LEMMA InitGatewayInv == Init => GatewayInv
<1>. SUFFICES ASSUME Init PROVE GatewayInv
  OBVIOUS
<1>1. events = <<>> /\ events \in Seq(EventSet) /\ Len(events) = 0
  BY DEF Init
<1>2. GatewayType
  <2>1. Empty \in [Devices -> Rows]
    BY DEF Empty, Rows
  <2>2. {[gen |-> 0, online |-> FALSE], [gen |-> 1, online |-> FALSE], [gen |-> 1, online |-> TRUE]}
           \subseteq Rows
    BY DEF Rows
  <2>3. table \in [Devices -> Rows]
    BY <2>2 DEF Init
  <2>. QED  BY <1>1, <2>1, <2>3 DEF Init, GatewayType
<1>3. Monotone
  BY <1>2 DEF Init, Monotone, GatewayType, Rows, Empty
<1>4. EventsKnown
  BY <1>1 DEF EventsKnown
<1>5. Alternates(events) /\ EndsWith(events, last)
  BY <1>1 DEF Alternates, EndsWith
<1>. QED  BY <1>1, <1>2, <1>3, <1>4, <1>5, TellsMeans DEF GatewayInv

\* The fields of the rows of the table and of the snapshots.
LEMMA RowType ==
    ASSUME GatewayType, NEW d \in Devices
    PROVE  /\ table[d].gen \in Nat /\ table[d].online \in BOOLEAN
           /\ last[d].gen \in Nat /\ last[d].online \in BOOLEAN
           /\ current[d].gen \in Nat /\ current[d].online \in BOOLEAN
BY DEF GatewayType, Rows

\* The events of a poll.
LEMMA BroadcastInv ==
    ASSUME GatewayInv, PollBroadcast
    PROVE  GatewayInv'
<1>1. GatewayType /\ Monotone /\ EventsKnown /\ EventsTellChanges
  BY DEF GatewayInv
<1>2. /\ polling = "read" /\ polling' = "waiting" /\ last' = current
      /\ UNCHANGED <<table, current, socket>>
  BY DEF PollBroadcast, Rebase, tableVars
<1>3. Monotone'
  BY <1>1, <1>2 DEF Monotone
<1>4. \A d \in Devices : last[d].gen <= current[d].gen
  BY <1>1, <1>2 DEF Monotone
<1>5. events \in Seq(EventSet) /\ Alternates(events) /\ EndsWith(events, last)
  BY <1>1, TellsMeans DEF GatewayType
<1>6. ASSUME NEW i \in 1..Len(events)
      PROVE  /\ events[i].dev \in Devices /\ events[i].gen \in Nat \ {0}
             /\ events[i].gen <= last[events[i].dev].gen
  <2>1. events[i] \in EventSet
    BY <1>5, ElementOfSeq
  <2>. QED  BY <1>1, <2>1 DEF EventsKnown, EventSet
<1>7. CASE socket # "open"
  <2>1. events' = events /\ events = <<>>
    BY <1>1, <1>7 DEF PollBroadcast, InConns, EventsKnown
  <2>2. GatewayType'
    BY <1>1, <1>2, <2>1 DEF GatewayType
  <2>3. Len(events') = 0
    BY <2>1
  <2>4. EventsKnown'
    BY <2>1, <2>3 DEF EventsKnown
  <2>5. Alternates(events') /\ EndsWith(events', last')
    BY <2>3 DEF Alternates, EndsWith
  <2>6. EventsTellChanges'
    BY <2>2, <2>5, TellsMeansNext DEF GatewayType
  <2>. QED  BY <1>3, <2>2, <2>4, <2>6 DEF GatewayInv
<1>8. CASE socket = "open"
  <2>1. PICK order \in SetToSeqs(Changed) :
            events' = events \o
                   [i \in DOMAIN order |->
                       [dev |-> order[i], gen |-> current[order[i]].gen, online |-> current[order[i]].online]]
    BY <1>8 DEF PollBroadcast, InConns
  <2>. DEFINE new == [i \in DOMAIN order |->
                       [dev |-> order[i], gen |-> current[order[i]].gen, online |-> current[order[i]].online]]
  <2>2. /\ Changed \subseteq Devices
        /\ \A d \in Changed : /\ current[d].gen # 0 /\ current[d].gen = last[d].gen
                              /\ current[d].online # last[d].online
    BY DEF Changed
  <2>3. /\ order \in Seq(Changed)
        /\ \A i, j \in DOMAIN order : i # j => order[i] # order[j]
        /\ \A d \in Changed : \E i \in DOMAIN order : order[i] = d
    <3>1. IsFiniteSet(Changed)
      BY <2>2, FS_Subset, DevicesAssumption
    <3>. QED  BY <3>1, ListsAll
  <2>4. /\ Len(order) \in Nat /\ DOMAIN order = 1..Len(order)
        /\ \A i \in 1..Len(order) : order[i] \in Changed
    BY <2>3, LenProperties, ElementOfSeq
  <2>5. \A i \in 1..Len(order) :
           /\ new[i] = [dev |-> order[i], gen |-> current[order[i]].gen, online |-> current[order[i]].online]
           /\ new[i].dev = order[i] /\ new[i].gen = current[order[i]].gen
           /\ new[i].online = current[order[i]].online
    BY <2>4
  <2>6. \A i \in 1..Len(order) : new[i] \in EventSet
    <3>. SUFFICES ASSUME NEW i \in 1..Len(order) PROVE new[i] \in EventSet
      OBVIOUS
    <3>1. order[i] \in Devices /\ current[order[i]].gen # 0
      BY <2>2, <2>4
    <3>2. current[order[i]].gen \in Nat \ {0} /\ current[order[i]].online \in BOOLEAN
      BY <1>1, <3>1, RowType
    <3>. QED  BY <2>5, <3>1, <3>2 DEF EventSet
  <2>7. new \in Seq(EventSet) /\ Len(new) = Len(order)
    <3>1. new \in [1..Len(order) -> EventSet]
      BY <2>4, <2>6
    <3>. QED  BY <2>4, <3>1, LenProperties
  <2>8. events' = events \o new
    BY <2>1
  <2>. HIDE DEF new
  <2>9. events' \in Seq(EventSet)
    BY <1>5, <2>7, <2>8, ConcatProperties
  <2>10. 1..Len(new) = DOMAIN order
    BY <2>4, <2>7
  <2>11. ASSUME NEW i \in 1..Len(new)
         PROVE  /\ new[i].dev = order[i] /\ order[i] \in Changed /\ order[i] \in Devices
                /\ new[i].gen = current[order[i]].gen /\ new[i].gen = last[order[i]].gen
                /\ new[i].online = current[order[i]].online /\ new[i].online # last[order[i]].online
    <3>1. i \in 1..Len(order)
      BY <2>7
    <3>2. new[i].dev = order[i] /\ new[i].gen = current[order[i]].gen /\ new[i].online = current[order[i]].online
      BY <2>5, <3>1
    <3>3. order[i] \in Changed
      BY <2>4, <3>1
    <3>. QED  BY <2>2, <3>2, <3>3
  <2>12. Alternates(events') /\ EndsWith(events', last')
    <3>1. last \in [Devices -> Rows] /\ current \in [Devices -> Rows]
      BY <1>1 DEF GatewayType
    <3>2. \A i, j \in 1..Len(new) : i # j => new[i].dev # new[j].dev
      BY <2>3, <2>10, <2>11
    <3>3. \A i \in 1..Len(new) : /\ new[i].gen = current[new[i].dev].gen
                                 /\ new[i].gen = last[new[i].dev].gen
                                 /\ new[i].online = current[new[i].dev].online
                                 /\ new[i].online # last[new[i].dev].online
      BY <2>11
    <3>4. ASSUME NEW d \in Devices, current[d].gen # 0, current[d].gen = last[d].gen,
                 current[d].online # last[d].online
          PROVE  \E i \in 1..Len(new) : new[i].dev = d
      <4>1. d \in Changed
        BY <3>4 DEF Changed
      <4>2. PICK i \in DOMAIN order : order[i] = d
        BY <2>3, <4>1
      <4>. QED  BY <2>10, <2>11, <4>2
    <3>5. \A i \in 1..Len(events) : events[i].gen <= last[events[i].dev].gen
      BY <1>6
    <3>6. \A d \in Devices : current[d].gen # 0 /\ current[d].gen = last[d].gen
                             /\ current[d].online # last[d].online => \E i \in 1..Len(new) : new[i].dev = d
      BY <3>4
    <3>7. new \in Seq(EventSet)
      BY <2>7
    <3>8. Alternates(events \o new) /\ EndsWith(events \o new, current)
      BY <1>4, <1>5, <3>1, <3>2, <3>3, <3>5, <3>6, <3>7, AppendTells, ZenonT(60)
    <3>. QED  BY <1>2, <2>8, <3>8
  <2>13. GatewayType'
    BY <1>1, <1>2, <2>9 DEF GatewayType
  <2>14. EventsTellChanges'
    BY <2>9, <2>12, TellsMeansNext
  <2>15. EventsKnown'
    <3>1. \A i \in 1..Len(events) + Len(new) :
             events'[i] = IF i <= Len(events) THEN events[i] ELSE new[i - Len(events)]
      BY <1>5, <2>7, <2>8, ConcatProperties
    <3>2. /\ Len(events') = Len(events) + Len(new) /\ Len(events) \in Nat /\ Len(new) \in Nat
      BY <1>5, <2>7, <2>8, ConcatProperties, LenProperties
    <3>3. ASSUME NEW i \in 1..Len(events') PROVE events'[i].gen <= current[events'[i].dev].gen
      <4>1. CASE i <= Len(events)
        <5>1. events'[i] = events[i] /\ i \in 1..Len(events)
          BY <3>1, <3>2, <3>3, <4>1
        <5>2. events[i].dev \in Devices /\ events[i].gen <= last[events[i].dev].gen /\ events[i].gen \in Nat
          BY <1>6, <5>1
        <5>3. /\ last[events[i].dev].gen <= current[events[i].dev].gen
              /\ last[events[i].dev].gen \in Nat /\ current[events[i].dev].gen \in Nat
          BY <1>1, <1>4, <5>2, RowType
        <5>4. events[i].gen <= current[events[i].dev].gen
          BY <5>2, <5>3
        <5>. QED  BY <5>1, <5>4
      <4>2. CASE ~(i <= Len(events))
        <5>1. i - Len(events) \in 1..Len(new) /\ events'[i] = new[i - Len(events)]
          BY <3>1, <3>2, <3>3, <4>2
        <5>2. /\ events'[i].gen = current[events'[i].dev].gen
              /\ events'[i].dev = order[i - Len(events)] /\ order[i - Len(events)] \in Devices
          BY <2>11, <5>1
        <5>3. current[events'[i].dev].gen \in Nat
          BY <1>1, <5>2, RowType
        <5>. QED  BY <5>2, <5>3
      <4>. QED  BY <4>1, <4>2
    <3>. QED  BY <1>2, <1>8, <3>3 DEF EventsKnown
  <2>. QED  BY <1>3, <2>13, <2>14, <2>15 DEF GatewayInv
<1>. QED  BY <1>1, <1>7, <1>8 DEF GatewayType

\* Every step keeps the invariant.
LEMMA NextGatewayInv == GatewayInv /\ [Next]_vars => GatewayInv'
<1>. SUFFICES ASSUME GatewayInv, [Next]_vars PROVE GatewayInv'
  OBVIOUS
<1>. USE DEF tableVars, hubVars, pageVars, historyVars
<1>1. GatewayType /\ Monotone /\ EventsKnown /\ EventsTellChanges
  BY DEF GatewayInv
<1>2. events \in Seq(EventSet) /\ Alternates(events) /\ EndsWith(events, last)
  BY <1>1, TellsMeans DEF GatewayType
<1>3. ASSUME GatewayType', Monotone', EventsKnown', UNCHANGED <<last, events>> PROVE GatewayInv'
  <2>1. EventsTellChanges'
    BY <1>2, <1>3, TellsMeansNext
  <2>. QED  BY <1>3, <2>1 DEF GatewayInv
<1>4. ASSUME NEW d \in Devices, Registers(d) \/ Flips(d) PROVE GatewayInv'
  <2>1. UNCHANGED <<last, current, polling, socket, events>>
    BY <1>4 DEF Registers, Flips
  <2>2. table[d].gen \in Nat /\ table[d].online \in BOOLEAN /\ table[d] \in Rows
    BY <1>1, RowType DEF GatewayType
  <2>3. /\ table' \in [Devices -> Rows]
        /\ \A e \in Devices : table[e].gen <= table'[e].gen
    <3>1. \A e \in Devices : table[e].gen \in Nat
      BY <1>1, RowType
    <3>2. CASE Registers(d)
      <4>1. table' = [table EXCEPT ![d] = [gen |-> table[d].gen + 1, online |-> FALSE]]
        BY <3>2 DEF Registers
      <4>2. [gen |-> table[d].gen + 1, online |-> FALSE] \in Rows
        BY <2>2 DEF Rows
      <4>3. \A e \in Devices : table'[e] = IF e = d THEN [gen |-> table[d].gen + 1, online |-> FALSE]
                                             ELSE table[e]
        BY <1>1, <4>1 DEF GatewayType
      <4>. QED  BY <1>1, <3>1, <4>1, <4>2, <4>3 DEF GatewayType
    <3>3. CASE Flips(d)
      <4>1. table' = [table EXCEPT ![d].online = ~@]
        BY <3>3 DEF Flips
      <4>2. table' \in [Devices -> Rows]
        BY <1>1, <4>1 DEF GatewayType, Rows
      <4>3. \A e \in Devices : table'[e].gen = table[e].gen
        BY <1>1, <4>1 DEF GatewayType, Rows
      <4>. QED  BY <3>1, <4>2, <4>3
    <3>. QED  BY <1>4, <3>2, <3>3
  <2>4. GatewayType'
    BY <1>1, <2>1, <2>3 DEF GatewayType
  <2>5. ASSUME NEW e \in Devices PROVE table[e].gen <= table'[e].gen /\ table'[e].gen \in Nat
    BY <2>3 DEF Rows
  <2>6. \A e \in Devices : table[e].gen \in Nat /\ last[e].gen \in Nat /\ current[e].gen \in Nat
    BY <1>1, RowType
  <2>7. Monotone'
    BY <1>1, <2>1, <2>5, <2>6 DEF Monotone
  <2>8. EventsKnown'
    BY <1>1, <2>1 DEF EventsKnown
  <2>. QED  BY <1>3, <2>1, <2>4, <2>7, <2>8
<1>5. CASE PollRead
  <2>1. UNCHANGED <<table, socket, events>>
    BY <1>5 DEF PollRead
  <2>2. CASE polling = "seeding"
    <3>1. last' = table /\ polling' = "waiting" /\ current' = current /\ events = <<>>
      BY <1>1, <1>5, <2>2 DEF PollRead, EventsKnown
    <3>2. GatewayType'
      BY <1>1, <2>1, <3>1 DEF GatewayType
    <3>3. Monotone'
      <4>1. \A d \in Devices : table[d].gen \in Nat
        BY <1>1, RowType
      <4>. QED  BY <2>1, <3>1, <4>1 DEF Monotone
    <3>4. events' = <<>> /\ Len(events') = 0
      BY <2>1, <3>1
    <3>5. EventsKnown'
      BY <3>4 DEF EventsKnown
    <3>6. Alternates(events') /\ EndsWith(events', last')
      BY <3>4 DEF Alternates, EndsWith
    <3>7. EventsTellChanges'
      BY <3>2, <3>6, TellsMeansNext DEF GatewayType
    <3>. QED  BY <3>2, <3>3, <3>5, <3>7 DEF GatewayInv
  <2>3. CASE polling # "seeding"
    <3>1. last' = last /\ polling' = "read" /\ current' = table
      BY <1>5, <2>3 DEF PollRead
    <3>2. GatewayType'
      BY <1>1, <2>1, <3>1 DEF GatewayType
    <3>3. Monotone'
      <4>1. \A d \in Devices : table[d].gen \in Nat /\ last[d].gen <= table[d].gen
        BY <1>1, RowType DEF Monotone
      <4>. QED  BY <2>1, <3>1, <4>1 DEF Monotone
    <3>4. EventsKnown'
      BY <1>1, <2>1, <2>3, <3>1 DEF EventsKnown
    <3>. QED  BY <1>3, <2>1, <3>1, <3>2, <3>3, <3>4
  <2>. QED  BY <2>2, <2>3
<1>6. CASE PollBroadcast
  BY <1>6, BroadcastInv
<1>7. ASSUME UNCHANGED <<table, last, current, polling, events>>, socket' \in {"opening", "open", "closed"},
             socket' # "open" => socket = socket'
      PROVE  GatewayInv'
  <2>1. GatewayType' /\ Monotone'
    BY <1>1, <1>7 DEF GatewayType, Monotone
  <2>2. EventsKnown'
    BY <1>1, <1>7 DEF EventsKnown
  <2>. QED  BY <1>3, <1>7, <2>1, <2>2
<1>8. CASE Refresh \/ ListTerminals \/ LoadFails \/ Arrives \/ SocketOpens
  <2>1. UNCHANGED <<table, last, current, polling, events>> /\ (socket' = socket \/ socket' = "open")
    BY <1>8 DEF Refresh, ListTerminals, LoadFails, Arrives, SocketOpens
  <2>. QED  BY <1>1, <1>7, <2>1 DEF GatewayType
<1>9. CASE SocketCloses
  <2>1. UNCHANGED <<table, last, current, polling>> /\ socket' = "closed" /\ events' = <<>>
    BY <1>9 DEF SocketCloses
  <2>2. events' \in Seq(EventSet) /\ Len(events') = 0
    BY <2>1
  <2>3. GatewayType' /\ Monotone' /\ EventsKnown'
    BY <1>1, <2>1, <2>2 DEF GatewayType, Monotone, EventsKnown
  <2>4. Alternates(events') /\ EndsWith(events', last')
    BY <2>2 DEF Alternates, EndsWith
  <2>5. EventsTellChanges'
    BY <2>2, <2>4, TellsMeansNext
  <2>. QED  BY <2>3, <2>5 DEF GatewayInv
<1>10. CASE HandleWsEvent
  <2>1. /\ UNCHANGED <<table, last, current, polling, socket>>
        /\ events # <<>> /\ events' = Tail(events)
    BY <1>10 DEF HandleWsEvent
  <2>2. /\ events' \in Seq(EventSet) /\ Len(events) \in Nat /\ Len(events') = Len(events) - 1
        /\ \A i \in 1..Len(events') : events'[i] = events[i + 1]
    BY <1>2, <2>1, HeadTailProperties, LenProperties
  <2>3. Alternates(events') /\ EndsWith(events', last')
    BY <1>2, <2>1, TailTells
  <2>4. EventsTellChanges'
    BY <2>2, <2>3, TellsMeansNext
  <2>5. GatewayType' /\ Monotone'
    BY <1>1, <2>1, <2>2 DEF GatewayType, Monotone
  <2>6. EventsKnown'
    <3>1. \A i \in 1..Len(events') : i + 1 \in 1..Len(events)
      BY <2>2
    <3>2. socket = "open" /\ polling # "seeding"
      BY <1>1, <2>1 DEF EventsKnown
    <3>. QED  BY <1>1, <2>1, <2>2, <3>1, <3>2 DEF EventsKnown
  <2>. QED  BY <2>4, <2>5, <2>6 DEF GatewayInv
<1>11. CASE UNCHANGED vars
  <2>1. UNCHANGED <<table, last, current, polling, events, socket>>
    BY <1>11 DEF vars
  <2>. QED  BY <1>1, <1>7, <2>1 DEF GatewayType
<1>. QED  BY <1>4, <1>5, <1>6, <1>8, <1>9, <1>10, <1>11 DEF Next

LEMMA GatewayInvariant == Spec => []GatewayInv
BY InitGatewayInv, NextGatewayInv, PTL DEF Spec

\* Of every session, the events on the page's socket tell online and offline in turn, and
\* the last of them agrees with the snapshot the hub compares with next, whatever order
\* the hub's map yields the changes in and whenever the socket opens or closes.
THEOREM GatewayEventsTellChanges == Spec => []EventsTellChanges
<1>1. GatewayInv => EventsTellChanges
  BY DEF GatewayInv
<1>. QED  BY <1>1, GatewayInvariant, PTL
=============================================================================

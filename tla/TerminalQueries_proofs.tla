----------------------- MODULE TerminalQueries_proofs -----------------------
(***************************************************************************)
(* Proofs about TerminalQueries, for any number of devices, rows, pages    *)
(* and any page size: what a walk over the pages shows, what registrations *)
(* between its pages cannot make it skip, and what the summary counts.     *)
(*                                                                         *)
(* The argument goes by rank: the rank of a wanted row is the number of    *)
(* wanted rows that are newer.  A page shows the rows whose ranks begin    *)
(* at its offset; a registration can only raise the rank of a row of       *)
(* another device, so that a row not yet shown stays ahead of the reader.  *)
(***************************************************************************)
EXTENDS TerminalQueries, SequenceTheorems, FiniteSetTheorems, WellFoundedInduction, TLAPS

Row == [dev : Devices, first : Nat, seen : Nat, online : BOOLEAN]

QueriesType ==
    /\ rows \in Seq(Row)
    /\ now \in Nat
    /\ filter \in {"all", "online", "offline"}
    /\ size \in 0..MaxSize /\ page \in Nat
    /\ stage \in {"idle", "asked", "counted", "done"}
    /\ shown \in Seq(DOMAIN rows)
    /\ moved \subseteq Devices /\ before \subseteq Known
    /\ flipped \in BOOLEAN /\ torn \in BOOLEAN

\* Rows are in the order of their times.
Ordered ==
    /\ \A i \in DOMAIN rows : rows[i].seen = rows[i].first /\ rows[i].first <= now
    /\ \A i, j \in DOMAIN rows : i <= j => rows[i].first <= rows[j].first

Unbegun == stage = "idle" => shown = <<>> /\ moved = {} /\ ~flipped /\ ~torn

\* A walk counts its pages from 1 and names a size; the hub does neither.
Numbered == stage # "idle" => ((size = 0 /\ page = 0) \/ (size >= 1 /\ page >= 1))

\* The rows that the list is made of, and the place of a row among them.
Wanted == {i \in DOMAIN rows : Newest(i) /\ (filter = "all" \/ rows[i].online = (filter = "online"))}
Rank(i) == Cardinality({j \in Wanted : j > i})

Off == Offset(page, PageSize(size))

Still == moved = {} /\ ~flipped

\* The count is that of the wanted rows.
CountRight ==
    (stage = "counted" /\ Apart(DOMAIN rows) /\ (Still \/ (filter = "all" /\ ~torn))) =>
        total = Cardinality(Wanted)

\* What is shown are the wanted rows of the first ranks, up to the offset.
Prefix ==
    (stage \in {"asked", "counted"} /\ Apart(DOMAIN rows) /\ Still) =>
        /\ Len(shown) = Off /\ Off <= Cardinality(Wanted)
        /\ \A k \in DOMAIN shown : shown[k] \in Wanted /\ Rank(shown[k]) = k - 1

ShownDevices == {rows[shown[k]].dev : k \in DOMAIN shown}

\* A device that has not moved has been shown, or is still ahead.
Ahead ==
    (stage \in {"asked", "counted"} /\ Apart(DOMAIN rows) /\ filter = "all" /\ ~torn) =>
        \A i \in Wanted :
            rows[i].dev \in before \ moved => rows[i].dev \in ShownDevices \/ Rank(i) >= Off

QueriesInv ==
    /\ QueriesType /\ Ordered /\ Unbegun /\ Numbered
    /\ CountRight /\ Prefix /\ Ahead
    /\ WalkComplete /\ WalkSkipsNone /\ SummaryCounts

-----------------------------------------------------------------------------
(* Sets of positions, ranks, pages *)

\* A nonempty set of positions has a last one: from a smallest of the sets of positions
\* that begin at one of them.
LEMMA Greatest ==
  ASSUME NEW n \in Nat, NEW T \in SUBSET (1..n), T # {}
  PROVE  \E i \in T : \A j \in T : j <= i
<1>. DEFINE From(i) == {j \in T : j >= i}
            F == {From(i) : i \in T}
<1>0. T \subseteq Int
  OBVIOUS
<1>1. IsFiniteSet(T)
  <2>1. IsFiniteSet(1..n)
    BY FS_Interval
  <2>. QED BY <2>1, FS_Subset
<1>2. F \subseteq FiniteSubsetsOf(T) /\ F # {}
  <2>1. ASSUME NEW i \in T PROVE From(i) \in FiniteSubsetsOf(T)
    <3>1. From(i) \subseteq T
      OBVIOUS
    <3>. QED BY <3>1, <1>1, FS_Subset DEF FiniteSubsetsOf
  <2>. QED BY <2>1
<1>3. IsWellFoundedOn(StrictSubsetOrdering(T), FiniteSubsetsOf(T))
  BY FS_StrictSubsetOrderingWellFounded
<1>4. PICK X \in F : \A Y \in F : <<Y, X>> \notin StrictSubsetOrdering(T)
  <2>. HIDE DEF F
  <2>. QED BY <1>2, <1>3, WFMin
<1>5. PICK i \in T : X = From(i)
  BY <1>4
<1>6. ASSUME NEW j \in T, ~(j <= i) PROVE FALSE
  <2>1. From(j) \subseteq From(i) /\ From(j) # From(i)
    <3>1. i \in Int /\ j \in Int /\ i < j
      BY <1>0, <1>6
    <3>2. i \in From(i) /\ i \notin From(j)
      BY <3>1
    <3>3. ASSUME NEW k \in From(j) PROVE k \in From(i)
      <4>1. k \in T /\ k \in Int /\ j <= k
        BY <1>0
      <4>. QED BY <3>1, <4>1
    <3>. QED BY <3>2, <3>3
  <2>2. <<From(j), From(i)>> \in StrictSubsetOrdering(T)
    BY <2>1 DEF StrictSubsetOrdering
  <2>. QED BY <2>2, <1>4, <1>5
<1>. QED BY <1>6

Above(T, i) == {j \in T : j > i}

\* The rank in a finite set of numbers: it is less than the size of the set, and the
\* greater of two members has the smaller one.
LEMMA Ranks ==
  ASSUME NEW T \in SUBSET Nat, IsFiniteSet(T)
  PROVE  /\ \A i \in T : Cardinality(Above(T, i)) \in Nat
         /\ \A i \in T : Cardinality(Above(T, i)) < Cardinality(T)
         /\ \A i, j \in T : i < j => Cardinality(Above(T, j)) < Cardinality(Above(T, i))
<1>1. ASSUME NEW S \in SUBSET T, NEW U \in SUBSET S, U # S
      PROVE  Cardinality(U) \in Nat /\ Cardinality(U) < Cardinality(S)
  <2>1. IsFiniteSet(S)
    BY FS_Subset
  <2>2. /\ IsFiniteSet(U)
        /\ Cardinality(U) <= Cardinality(S) /\ Cardinality(U) # Cardinality(S)
    BY <1>1, <2>1, FS_Subset
  <2>. QED BY <2>1, <2>2, FS_CardinalityType
<1>2. ASSUME NEW i \in T PROVE Above(T, i) \in SUBSET T /\ Above(T, i) # T
  BY <1>2 DEF Above
<1>3. ASSUME NEW i \in T, NEW j \in T, i < j
      PROVE  Above(T, j) \in SUBSET Above(T, i) /\ Above(T, j) # Above(T, i)
  <2>1. i \in Nat /\ j \in Nat
    OBVIOUS
  <2>2. j \in Above(T, i) /\ j \notin Above(T, j)
    BY <1>3, <2>1 DEF Above
  <2>3. ASSUME NEW k \in Above(T, j) PROVE k \in Above(T, i)
    <3>1. k \in T /\ k \in Nat /\ k > j
      BY DEF Above
    <3>2. k > i
      BY <1>3, <2>1, <3>1
    <3>. QED BY <3>1, <3>2 DEF Above
  <2>. QED BY <2>2, <2>3
<1>. QED BY <1>1, <1>2, <1>3

\* A sequence of SetToSeqs lists every element of a finite set, each once.
LEMMA ListsAll ==
  ASSUME NEW S, IsFiniteSet(S), NEW s \in SetToSeqs(S)
  PROVE  /\ Cardinality(S) \in Nat
         /\ s \in Seq(S) /\ Len(s) = Cardinality(S)
         /\ \A i, j \in DOMAIN s : i # j => s[i] # s[j]
         /\ \A x \in S : \E i \in DOMAIN s : s[i] = x
<1>. DEFINE D == 1..Cardinality(S)
<1>1. Cardinality(S) \in Nat
  BY FS_CardinalityType
<1>2. s \in [D -> S] /\ \A i, j \in D : i # j => s[i] # s[j]
  BY DEF SetToSeqs
<1>3. s \in Injection(D, S)
  BY <1>2 DEF Injection, IsInjective
<1>4. Cardinality(D) = Cardinality(S)
  <2>1. Cardinality(D) = IF 1 > Cardinality(S) THEN 0 ELSE Cardinality(S) - 1 + 1
    BY <1>1, FS_Interval
  <2>. QED BY <1>1, <2>1
<1>5. s \in Surjection(D, S)
  BY <1>3, <1>4, FS_Injection
<1>6. s \in Seq(S) /\ Len(s) = Cardinality(S)
  BY <1>1, <1>2
<1>. QED BY <1>1, <1>2, <1>5, <1>6 DEF Surjection

\* In a descending list of a set, the rank of an element is its position.
LEMMA RankIsPosition ==
  ASSUME NEW T \in SUBSET Nat, IsFiniteSet(T), NEW s \in SetToSeqs(T),
         \A a, b \in DOMAIN s : a < b => s[a] > s[b],
         NEW k \in DOMAIN s
  PROVE  Cardinality(Above(T, s[k])) = k - 1
<1>1. /\ s \in Seq(T)
      /\ \A i, j \in DOMAIN s : i # j => s[i] # s[j]
      /\ \A x \in T : \E i \in DOMAIN s : s[i] = x
  BY ListsAll
<1>2. k \in 1..Len(s) /\ k - 1 \in Nat /\ DOMAIN s = 1..Len(s)
  BY <1>1
<1>. DEFINE f == [i \in 1..(k - 1) |-> s[i]]
<1>3. f \in [1..(k - 1) -> Above(T, s[k])]
  <2>1. ASSUME NEW i \in 1..(k - 1) PROVE s[i] \in Above(T, s[k])
    BY <1>1, <1>2 DEF Above
  <2>. QED BY <2>1
<1>4. \A i, j \in 1..(k - 1) : i # j => f[i] # f[j]
  BY <1>1, <1>2
<1>5. ASSUME NEW x \in Above(T, s[k]) PROVE \E i \in 1..(k - 1) : f[i] = x
  <2>0. s[k] \in T
    BY <1>1, <1>2
  <2>1. x \in T /\ x \in Nat /\ s[k] \in Nat /\ x > s[k]
    BY <2>0 DEF Above
  <2>2. PICK i \in DOMAIN s : s[i] = x
    BY <1>1, <2>1
  <2>3. ~(k < i)
    BY <1>2, <2>1, <2>2
  <2>4. i # k
    BY <2>1, <2>2
  <2>5. i \in 1..(k - 1)
    BY <1>2, <2>2, <2>3, <2>4
  <2>. QED BY <2>2, <2>5
<1>6. ExistsBijection(1..(k - 1), Above(T, s[k]))
  <2>. HIDE DEF f
  <2>1. f \in Bijection(1..(k - 1), Above(T, s[k]))
    BY <1>3, <1>4, <1>5 DEF Bijection, Injection, IsInjective, Surjection
  <2>. QED BY <2>1 DEF ExistsBijection
<1>. QED BY <1>2, <1>6, FS_CountingElements

\* A page has the elements from its offset on, as many as its size unless the list ends.
LEMMA PageHas ==
  ASSUME NEW S, NEW s \in Seq(S), NEW asked \in Int, NEW n \in Nat,
         NEW o \in Nat, o = Offset(asked, n)
  PROVE  LET p == PageOf(s, asked, n)
             end == IF Len(s) < o + n THEN Len(s) ELSE o + n
         IN  /\ p \in Seq(S)
             /\ Len(p) = IF o <= end THEN end - o ELSE 0
             /\ \A k \in 1..Len(p) : o + k \in 1..Len(s) /\ p[k] = s[o + k]
<1>. DEFINE p == PageOf(s, asked, n)
            end == IF Len(s) < o + n THEN Len(s) ELSE o + n
<1>1. p = SubSeq(s, o + 1, end) /\ o + 1 \in Int /\ end \in Int
  BY DEF PageOf
<1>2. \A i \in (o + 1)..end : s[i] \in S
  OBVIOUS
<1>3. /\ p \in Seq(S)
      /\ Len(p) = IF o + 1 <= end THEN end - (o + 1) + 1 ELSE 0
      /\ \A i \in 1..(end - (o + 1) + 1) : p[i] = s[o + 1 + i - 1]
  <2>. HIDE DEF p, end
  <2>. QED BY <1>1, <1>2, SubSeqProperties
<1>. HIDE DEF p
<1>4. Len(p) = IF o <= end THEN end - o ELSE 0
  BY <1>3
<1>5. ASSUME NEW k \in 1..Len(p) PROVE o + k \in 1..Len(s) /\ p[k] = s[o + k]
  <2>1. Len(s) \in Nat /\ end \in Int /\ end <= Len(s)
    OBVIOUS
  <2>. HIDE DEF end
  <2>2. o <= end /\ k \in Nat /\ 1 <= k /\ k <= end - o
    BY <1>4, <2>1
  <2>3. o + k \in 1..Len(s)
    BY <2>1, <2>2
  <2>4. k \in 1..(end - (o + 1) + 1) /\ o + 1 + k - 1 = o + k
    BY <2>1, <2>2
  <2>. QED BY <1>3, <2>3, <2>4
<1>. QED BY <1>3, <1>4, <1>5 DEF p

-----------------------------------------------------------------------------
(* The queries *)

LEMMA RowFields ==
  ASSUME QueriesType
  PROVE  /\ Len(rows) \in Nat /\ DOMAIN rows = 1..Len(rows) /\ DOMAIN rows \subseteq Nat
         /\ \A i \in DOMAIN rows :
               rows[i].dev \in Devices /\ rows[i].first \in Nat /\ rows[i].online \in BOOLEAN
<1>1. Len(rows) \in Nat /\ DOMAIN rows = 1..Len(rows)
  BY DEF QueriesType
<1>2. ASSUME NEW i \in DOMAIN rows
      PROVE  rows[i].dev \in Devices /\ rows[i].first \in Nat /\ rows[i].online \in BOOLEAN
  <2>1. rows[i] \in Row
    BY DEF QueriesType
  <2>. QED BY <2>1 DEF Row
<1>. QED BY <1>1, <1>2

LEMMA WantedFinite ==
  ASSUME QueriesType
  PROVE  Wanted \in SUBSET Nat /\ IsFiniteSet(Wanted) /\ Cardinality(Wanted) \in Nat
<1>1. Len(rows) \in Nat /\ DOMAIN rows = 1..Len(rows)
  BY DEF QueriesType
<1>2. Wanted \in SUBSET (1..Len(rows))
  BY <1>1 DEF Wanted
<1>3. IsFiniteSet(1..Len(rows))
  BY <1>1, FS_Interval
<1>4. IsFiniteSet(Wanted)
  BY <1>2, <1>3, FS_Subset
<1>. QED BY <1>1, <1>2, <1>4, FS_CardinalityType

\* There are no more wanted rows than devices.
LEMMA WantedFewer ==
  ASSUME QueriesType
  PROVE  IsFiniteSet(Known) /\ Cardinality(Wanted) <= Cardinality(Known)
<1>1. Len(rows) \in Nat /\ DOMAIN rows = 1..Len(rows)
  BY DEF QueriesType
<1>2. IsFiniteSet(Known)
  <2>. DEFINE g == [i \in DOMAIN rows |-> rows[i].dev]
  <2>1. g \in Surjection(DOMAIN rows, Known)
    BY DEF Known, Surjection
  <2>2. IsFiniteSet(DOMAIN rows)
    BY <1>1, FS_Interval
  <2>. QED BY <2>1, <2>2, FS_Surjection
<1>. DEFINE f == [i \in Wanted |-> rows[i].dev]
<1>3. f \in [Wanted -> Known]
  BY DEF Wanted, Known
<1>4. ASSUME NEW i \in Wanted, NEW j \in Wanted, f[i] = f[j] PROVE i = j
  <2>1. i \in Nat /\ j \in Nat /\ i \in DOMAIN rows /\ j \in DOMAIN rows
    BY <1>1 DEF Wanted
  <2>2. rows[i].dev = rows[j].dev
    BY <1>4
  <2>3. i <= j /\ j <= i
    BY <2>1, <2>2 DEF Wanted, Newest, RowsOf
  <2>. QED BY <2>1, <2>3
<1>5. f \in Injection(Wanted, Known)
  <2>. HIDE DEF f
  <2>. QED BY <1>3, <1>4 DEF Injection, IsInjective
<1>. QED BY <1>2, <1>5, FS_Injection

\* When no two rows are of one second, the query that partitions by device picks the
\* newest row of every device.
LEMMA HeadsAreNewest ==
  ASSUME QueriesType, Ordered, Apart(DOMAIN rows), NEW S \in Heads
  PROVE  S = {i \in DOMAIN rows : Newest(i)} /\ Matching(S) = Wanted
<1>1. DOMAIN rows \subseteq Nat /\ \A i \in DOMAIN rows : rows[i].first \in Nat
  BY RowFields
<1>2. ASSUME NEW i \in DOMAIN rows, NEW j \in DOMAIN rows, j <= i
      PROVE  rows[j].seen <= rows[i].seen
  BY <1>2 DEF Ordered
<1>3. ASSUME NEW i \in DOMAIN rows, NEW j \in DOMAIN rows, rows[j].seen <= rows[i].seen
      PROVE  j <= i
  <2>1. SUFFICES ASSUME ~(j <= i) PROVE FALSE
    OBVIOUS
  <2>2. i \in Nat /\ j \in Nat /\ i <= j /\ i # j
    BY <1>1, <2>1
  <2>3. rows[i].first <= rows[j].first /\ rows[j].first <= rows[i].first
    BY <1>3, <2>2 DEF Ordered
  <2>. QED BY <1>1, <2>2, <2>3 DEF Apart
<1>4. \A i \in DOMAIN rows : IsLatest(i) <=> Newest(i)
  BY <1>2, <1>3 DEF IsLatest, Newest, RowsOf
<1>5. ASSUME NEW i \in S PROVE i \in DOMAIN rows /\ Newest(i)
  BY <1>4 DEF Heads
<1>6. ASSUME NEW i \in DOMAIN rows, Newest(i) PROVE i \in S
  <2>1. PICK h \in S : S \cap GetTerminalByDevice(rows[i].dev) = {h}
    BY DEF Heads, Known
  <2>2. h \in DOMAIN rows /\ rows[h].dev = rows[i].dev /\ Newest(h)
    BY <1>5, <2>1 DEF GetTerminalByDevice
  <2>3. h <= i /\ i <= h
    BY <1>6, <2>2 DEF Newest, RowsOf
  <2>4. h = i
    BY <1>1, <2>2, <2>3
  <2>. QED BY <2>1, <2>4
<1>7. S = {i \in DOMAIN rows : Newest(i)}
  BY <1>5, <1>6
<1>. QED BY <1>7 DEF Matching, Wanted

\* ... and lists the wanted rows by descending number, so that the rank of a row is its
\* place in the list.
LEMMA OrdersByRank ==
  ASSUME QueriesType, Ordered, Apart(DOMAIN rows), NEW s \in Orders(Wanted)
  PROVE  /\ s \in Seq(Wanted) /\ Len(s) = Cardinality(Wanted)
         /\ \A x \in Wanted : \E k \in DOMAIN s : s[k] = x
         /\ \A k \in DOMAIN s : Rank(s[k]) = k - 1
<1>1. Wanted \in SUBSET Nat /\ IsFiniteSet(Wanted)
  BY WantedFinite
<1>2. s \in SetToSeqs(Wanted)
  BY DEF Orders
<1>3. /\ s \in Seq(Wanted) /\ Len(s) = Cardinality(Wanted)
      /\ \A i, j \in DOMAIN s : i # j => s[i] # s[j]
      /\ \A x \in Wanted : \E k \in DOMAIN s : s[k] = x
  BY <1>1, <1>2, ListsAll
<1>4. ASSUME NEW a \in DOMAIN s, NEW b \in DOMAIN s, a < b
      PROVE  s[a] > s[b]
  <2>1. s[a] \in Wanted /\ s[b] \in Wanted
    BY <1>3
  <2>2. s[a] \in DOMAIN rows /\ s[b] \in DOMAIN rows /\ s[a] \in Nat /\ s[b] \in Nat
    BY <1>1, <2>1 DEF Wanted
  <2>3. s[a] # s[b]
    BY <1>3, <1>4
  <2>4. rows[s[a]].first >= rows[s[b]].first
    BY <1>4, <2>2 DEF Orders, Ordered
  <2>5. SUFFICES ASSUME s[a] <= s[b] PROVE FALSE
    BY <2>2
  <2>6. rows[s[a]].first <= rows[s[b]].first
    BY <2>2, <2>5 DEF Ordered
  <2>7. rows[s[a]].first \in Nat /\ rows[s[b]].first \in Nat
    BY <2>2, RowFields
  <2>8. rows[s[a]].first = rows[s[b]].first
    BY <2>4, <2>6, <2>7
  <2>. QED BY <2>2, <2>3, <2>8 DEF Apart
<1>5. ASSUME NEW k \in DOMAIN s PROVE Rank(s[k]) = k - 1
  <2>1. Cardinality(Above(Wanted, s[k])) = k - 1
    BY <1>1, <1>2, <1>4, RankIsPosition
  <2>. QED BY <2>1 DEF Rank, Above
<1>. QED BY <1>3, <1>5

LEMMA RankFacts ==
  ASSUME QueriesType
  PROVE  /\ \A i \in Wanted : Rank(i) \in Nat /\ Rank(i) < Cardinality(Wanted)
         /\ \A i, j \in Wanted : i < j => Rank(j) < Rank(i)
  BY WantedFinite, Ranks DEF Rank, Above

LEMMA SeqWidens ==
  ASSUME NEW S, NEW T, S \subseteq T, NEW s \in Seq(S)
  PROVE  s \in Seq(T)
OBVIOUS

LEMMA Joined ==
  ASSUME NEW S, NEW s \in Seq(S), NEW t \in Seq(S)
  PROVE  /\ s \o t \in Seq(S)
         /\ Len(s \o t) = Len(s) + Len(t)
         /\ \A k \in 1..Len(s) : (s \o t)[k] = s[k]
         /\ \A k \in 1..Len(t) : (s \o t)[Len(s) + k] = t[k]
OBVIOUS

\* A device has a newest row.
LEMMA HasNewest ==
  ASSUME QueriesType, NEW d \in Known
  PROVE  \E i \in DOMAIN rows : rows[i].dev = d /\ Newest(i)
<1>1. Len(rows) \in Nat /\ DOMAIN rows = 1..Len(rows)
  BY DEF QueriesType
<1>2. RowsOf(d) \in SUBSET (1..Len(rows)) /\ RowsOf(d) # {}
  BY <1>1 DEF RowsOf, Known
<1>3. PICK i \in RowsOf(d) : \A j \in RowsOf(d) : j <= i
  BY <1>1, <1>2, Greatest
<1>. QED BY <1>3 DEF RowsOf, Newest

-----------------------------------------------------------------------------
(* The initial states and the steps of the table *)

LEMMA InitInv == Init => QueriesInv
<1>. SUFFICES ASSUME Init PROVE QueriesInv
  OBVIOUS
<1>1. rows = <<>> /\ shown = <<>> /\ stage = "idle"
  BY DEF Init
<1>2. DOMAIN rows = {}
  BY <1>1
<1>3. QueriesType
  <2>1. rows \in Seq(Row) /\ shown \in Seq(DOMAIN rows)
    BY <1>1
  <2>2. size \in 0..MaxSize
    BY SizesAssumption DEF Init
  <2>. QED BY <2>1, <2>2 DEF Init, QueriesType
<1>4. Ordered
  BY <1>2 DEF Ordered
<1>5. Unbegun
  BY DEF Init, Unbegun
<1>. QED BY <1>1, <1>3, <1>4, <1>5
     DEF QueriesInv, Numbered, CountRight, Prefix, Ahead, WalkComplete, WalkSkipsNone,
         SummaryCounts

\* A device registers, before the walk or during it.
LEMMA RegisterStep ==
  ASSUME QueriesInv, NEW d \in Devices, Register(d)
  PROVE  QueriesInv'
<1>. DEFINE r == [dev |-> d, first |-> now, seen |-> now, online |-> FALSE]
<1>0. PICK L \in Nat : L = Len(rows)
  BY RowFields DEF QueriesInv
<1>1. /\ QueriesType /\ Ordered /\ Unbegun /\ Numbered /\ Ahead
      /\ L \in Nat /\ DOMAIN rows = 1..L
      /\ \A i \in DOMAIN rows : rows[i].first \in Nat
  BY <1>0, RowFields DEF QueriesInv
<1>2. /\ rows' = Append(rows, r)
      /\ moved' = IF stage = "idle" THEN {} ELSE moved \cup {d}
      /\ torn' = (torn \/ stage = "counted")
      /\ stage # "done"
      /\ UNCHANGED <<now, filter, size, page, stage, shown, before, flipped>>
  BY DEF Register, Watched, walkVars
<1>3. r \in Row /\ rows \in Seq(Row) /\ now \in Nat
  BY <1>1 DEF QueriesType, Row
<1>4. /\ rows' \in Seq(Row) /\ DOMAIN rows' = 1..(L + 1)
      /\ \A i \in 1..L : rows'[i] = rows[i]
      /\ rows'[L + 1] = r
  <2>. HIDE DEF r
  <2>. QED BY <1>0, <1>1, <1>2, <1>3
<1>5. /\ r.dev = d /\ r.first = now /\ r.seen = now
  OBVIOUS
<1>. HIDE DEF r
<1>6. QueriesType'
  <2>1. shown' \in Seq(DOMAIN rows')
    <3>1. shown \in Seq(1..L) /\ 1..L \subseteq 1..(L + 1)
      BY <1>1 DEF QueriesType
    <3>2. shown \in Seq(1..(L + 1))
      BY <3>1, SeqWidens
    <3>. QED BY <1>2, <1>4, <3>2
  <2>2. before' \subseteq Known'
    <3>1. ASSUME NEW b \in Known PROVE b \in Known'
      <4>1. PICK i \in 1..L : b = rows[i].dev
        BY <1>1 DEF Known
      <4>2. i \in 1..(L + 1)
        BY <1>1
      <4>. QED BY <1>4, <4>1, <4>2 DEF Known
    <3>. QED BY <1>1, <1>2, <3>1 DEF QueriesType
  <2>3. moved' \subseteq Devices /\ torn' \in BOOLEAN
    BY <1>1, <1>2 DEF QueriesType
  <2>. QED BY <1>1, <1>2, <1>4, <2>1, <2>2, <2>3 DEF QueriesType
<1>7. Ordered'
  <2>1. ASSUME NEW i \in DOMAIN rows' PROVE i \in 1..L \/ i = L + 1
    BY <1>1, <1>4
  <2>2. ASSUME NEW i \in DOMAIN rows'
        PROVE  rows'[i].seen = rows'[i].first /\ rows'[i].first <= now'
    BY <1>1, <1>2, <1>3, <1>4, <1>5, <2>1 DEF Ordered
  <2>3. ASSUME NEW i \in DOMAIN rows', NEW j \in DOMAIN rows', i <= j
        PROVE  rows'[i].first <= rows'[j].first
    <3>1. CASE j \in 1..L
      <4>1. i \in 1..L
        BY <1>1, <1>4, <2>3, <3>1
      <4>. QED BY <1>1, <1>4, <2>3, <3>1, <4>1 DEF Ordered
    <3>2. CASE j = L + 1
      BY <1>2, <1>4, <1>5, <2>2, <3>2
    <3>. QED BY <2>1, <3>1, <3>2
  <2>. QED BY <2>2, <2>3 DEF Ordered
<1>8. Unbegun' /\ Numbered'
  BY <1>1, <1>2 DEF Unbegun, Numbered
<1>9. stage # "idle" => ~Still' /\ (stage = "counted" => torn')
  BY <1>2 DEF Still
<1>10. CountRight' /\ Prefix'
  BY <1>2, <1>9 DEF CountRight, Prefix
<1>11. Ahead'
  <2>1. SUFFICES ASSUME stage = "asked", Apart(DOMAIN rows)', filter = "all", ~torn,
                        NEW i \in Wanted', rows'[i].dev \in before \ moved'
                 PROVE  rows'[i].dev \in ShownDevices' \/ Rank(i)' >= Off
    BY <1>2, <1>9 DEF Ahead, Off
  <2>2. Apart(DOMAIN rows)
    BY <1>1, <1>4, <2>1 DEF Apart
  <2>3. d \in moved' /\ moved \subseteq moved'
    BY <1>2, <2>1
  <2>4. i \in 1..L /\ rows'[i] = rows[i]
    <3>1. i \in 1..(L + 1)
      BY <1>4 DEF Wanted
    <3>2. i # L + 1
      BY <1>4, <1>5, <2>1, <2>3
    <3>. QED BY <1>1, <1>4, <3>1, <3>2
  <2>5. ASSUME NEW j \in 1..L, Newest(j)' PROVE Newest(j)
    BY <1>1, <1>4, <2>5 DEF Newest, RowsOf
  <2>6. i \in Wanted
    BY <1>1, <2>1, <2>4, <2>5 DEF Wanted
  <2>7. CASE rows[i].dev \in ShownDevices
    <3>1. PICK k \in DOMAIN shown : rows[i].dev = rows[shown[k]].dev
      BY <2>7 DEF ShownDevices
    <3>2. shown[k] \in 1..L
      BY <1>1 DEF QueriesType
    <3>. QED BY <1>2, <1>4, <2>4, <3>1, <3>2 DEF ShownDevices
  <2>8. CASE Rank(i) >= Off
    <3>. DEFINE A == {j \in Wanted : j > i}
                B == {j \in Wanted' : j > i}
    <3>1. IsFiniteSet(A) /\ Cardinality(A) \in Nat /\ A \subseteq 1..L
      <4>1. A \in SUBSET Wanted /\ IsFiniteSet(Wanted)
        BY <1>1, WantedFinite
      <4>2. IsFiniteSet(A)
        BY <4>1, FS_Subset
      <4>3. A \subseteq 1..L
        BY <1>1 DEF Wanted
      <4>. QED BY <4>2, <4>3, FS_CardinalityType
    <3>2. IsFiniteSet(B) /\ Cardinality(B) \in Nat
      <4>1. B \in SUBSET (1..(L + 1))
        BY <1>4 DEF Wanted
      <4>2. IsFiniteSet(1..(L + 1))
        BY <1>1, FS_Interval
      <4>3. IsFiniteSet(B)
        BY <4>1, <4>2, FS_Subset
      <4>. QED BY <4>3, FS_CardinalityType
    <3>3. L + 1 \in B
      <4>1. Newest(L + 1)'
        <5>1. \A j \in DOMAIN rows' : j <= L + 1
          BY <1>1, <1>4
        <5>. QED BY <5>1 DEF Newest, RowsOf
      <4>2. L + 1 \in Wanted'
        <5>1. L + 1 \in DOMAIN rows' /\ filter' = "all"
          BY <1>1, <1>2, <1>4, <2>1
        <5>. QED BY <4>1, <5>1 DEF Wanted
      <4>. QED BY <1>1, <2>4, <4>2
    <3>4. ASSUME NEW j \in A, rows[j].dev # d PROVE j \in B
      <4>1. j \in 1..L /\ Newest(j) /\ j > i
        BY <1>1 DEF Wanted
      <4>2. Newest(j)'
        <5>1. SUFFICES ASSUME NEW m \in 1..(L + 1), rows'[m].dev = rows'[j].dev
                       PROVE  m <= j
          BY <1>4 DEF Newest, RowsOf
        <5>2. m \in 1..L
          BY <1>1, <1>4, <1>5, <3>4, <4>1, <5>1
        <5>. QED BY <1>1, <1>4, <4>1, <5>1, <5>2 DEF Newest, RowsOf
      <4>3. j \in Wanted'
        BY <1>1, <1>2, <1>4, <2>1, <4>1, <4>2 DEF Wanted
      <4>. QED BY <4>1, <4>3
    <3>5. ASSUME NEW j \in A, NEW k \in A, rows[j].dev = d, rows[k].dev = d PROVE j = k
      <4>1. j \in 1..L /\ k \in 1..L /\ Newest(j) /\ Newest(k)
        BY <1>1 DEF Wanted
      <4>2. j <= k /\ k <= j
        BY <1>1, <3>5, <4>1 DEF Newest, RowsOf
      <4>. QED BY <4>1, <4>2
    <3>6. \E o : A \ {o} \subseteq B /\ o # L + 1
      <4>1. CASE \E o \in A : rows[o].dev = d
        <5>1. PICK o \in A : rows[o].dev = d
          BY <4>1
        <5>2. o # L + 1
          BY <1>1, <3>1
        <5>. QED BY <3>4, <3>5, <5>1, <5>2
      <4>2. CASE ~ \E o \in A : rows[o].dev = d
        <5>1. A \ {0} \subseteq B /\ 0 # L + 1
          BY <1>1, <3>4, <4>2
        <5>. QED BY <5>1
      <4>. QED BY <4>1, <4>2
    <3>7. PICK o : A \ {o} \subseteq B /\ o # L + 1
      BY <3>6
    <3>. DEFINE C == (A \ {o}) \cup {L + 1}
    <3>8. L + 1 \notin A
      BY <1>1, <3>1
    <3>. HIDE DEF A, B
    <3>9. Cardinality(C) >= Cardinality(A)
      <4>1. /\ IsFiniteSet(A \ {o})
            /\ Cardinality(A \ {o}) = IF o \in A THEN Cardinality(A) - 1 ELSE Cardinality(A)
        BY <3>1, FS_RemoveElement
      <4>2. Cardinality(C) = Cardinality(A \ {o}) + 1
        BY <3>8, <4>1, FS_AddElement
      <4>. QED BY <3>1, <4>1, <4>2
    <3>10. Cardinality(C) <= Cardinality(B)
      <4>1. C \in SUBSET B
        BY <3>3, <3>7
      <4>. QED BY <3>2, <4>1, FS_Subset
    <3>11. IsFiniteSet(C) /\ Cardinality(C) \in Nat
      <4>1. C \in SUBSET B
        BY <3>3, <3>7
      <4>2. IsFiniteSet(C)
        BY <3>2, <4>1, FS_Subset
      <4>. QED BY <4>2, FS_CardinalityType
    <3>12. Rank(i) = Cardinality(A) /\ Rank(i)' = Cardinality(B)
      BY DEF Rank, A, B
    <3>13. Off \in Int
      BY <1>1, SizesAssumption DEF Off, Offset, PageNumber, PageSize, QueriesType
    <3>. HIDE DEF C
    <3>. QED BY <2>8, <3>1, <3>2, <3>9, <3>10, <3>11, <3>12, <3>13
  <2>. QED BY <1>1, <2>1, <2>2, <2>3, <2>4, <2>6, <2>7, <2>8 DEF Ahead
<1>12. WalkComplete' /\ WalkSkipsNone' /\ SummaryCounts'
  BY <1>2 DEF WalkComplete, WalkSkipsNone, SummaryCounts
<1>. QED BY <1>6, <1>7, <1>8, <1>10, <1>11, <1>12 DEF QueriesInv

\* An online column changes, which an unfiltered walk does not notice.
LEMMA FlipStep ==
  ASSUME QueriesInv, NEW f \in DOMAIN rows, Flip(f)
  PROVE  QueriesInv'
<1>1. /\ QueriesType /\ Ordered /\ Unbegun /\ Numbered /\ Ahead /\ CountRight
  BY DEF QueriesInv
<1>2. /\ stage # "done"
      /\ flipped' = (stage # "idle")
      /\ UNCHANGED <<now, filter, size, page, stage, total, shown, before, moved, torn>>
  BY DEF Flip, Watched, walkVars
<1>3. PICK b \in BOOLEAN : rows' = [rows EXCEPT ![f].online = b]
  BY DEF Flip, MarkOffline, UpdateHeartbeat
<1>4. /\ rows' \in Seq(Row)
      /\ DOMAIN rows' = DOMAIN rows
      /\ \A i \in DOMAIN rows : /\ rows'[i].dev = rows[i].dev
                                /\ rows'[i].first = rows[i].first
                                /\ rows'[i].seen = rows[i].seen
  <2>1. rows \in Seq(Row) /\ DOMAIN rows' = DOMAIN rows
    BY <1>1, <1>3 DEF QueriesType
  <2>2. \A i \in DOMAIN rows : rows[i] \in Row
    BY <1>1 DEF QueriesType
  <2>3. ASSUME NEW i \in DOMAIN rows
        PROVE  /\ rows'[i].dev = rows[i].dev
               /\ rows'[i].first = rows[i].first
               /\ rows'[i].seen = rows[i].seen
               /\ rows'[i] \in Row
    <3>1. CASE i = f
      <4>1. rows'[i] = [rows[i] EXCEPT !.online = b]
        BY <1>3, <2>1, <3>1
      <4>. QED BY <2>2, <4>1 DEF Row
    <3>2. CASE i # f
      BY <1>3, <2>1, <2>2, <3>2
    <3>. QED BY <3>1, <3>2
  <2>. QED BY <1>3, <2>1, <2>3
<1>5. Known' = Known
  BY <1>4 DEF Known
<1>6. QueriesType'
  BY <1>1, <1>2, <1>4, <1>5 DEF QueriesType
<1>7. Ordered'
  BY <1>1, <1>2, <1>4 DEF Ordered
<1>8. Unbegun' /\ Numbered'
  BY <1>1, <1>2 DEF Unbegun, Numbered
<1>9. stage # "idle" => ~Still'
  BY <1>2 DEF Still
<1>10. Prefix'
  BY <1>2, <1>9 DEF Prefix
<1>11. filter = "all" => Wanted' = Wanted
  BY <1>2, <1>4 DEF Wanted, Newest, RowsOf
<1>12. Apart(DOMAIN rows)' <=> Apart(DOMAIN rows)
  BY <1>4 DEF Apart
<1>13. CountRight'
  BY <1>1, <1>2, <1>9, <1>11, <1>12 DEF CountRight
<1>14. Ahead'
  <2>1. SUFFICES ASSUME stage \in {"asked", "counted"}, Apart(DOMAIN rows), filter = "all", ~torn,
                        NEW i \in Wanted, rows'[i].dev \in before \ moved
                 PROVE  rows'[i].dev \in ShownDevices' \/ Rank(i)' >= Off
    BY <1>2, <1>11, <1>12 DEF Ahead, Off
  <2>2. ShownDevices' = ShownDevices
    <3>1. \A k \in DOMAIN shown : shown[k] \in DOMAIN rows
      BY <1>1 DEF QueriesType
    <3>. QED BY <1>2, <1>4, <3>1 DEF ShownDevices
  <2>3. Rank(i)' = Rank(i) /\ rows'[i].dev = rows[i].dev
    BY <1>4, <1>11, <2>1 DEF Rank, Wanted
  <2>. QED BY <1>1, <2>1, <2>2, <2>3 DEF Ahead
<1>15. WalkComplete' /\ WalkSkipsNone' /\ SummaryCounts'
  BY <1>2 DEF WalkComplete, WalkSkipsNone, SummaryCounts
<1>. QED BY <1>6, <1>7, <1>8, <1>10, <1>13, <1>14, <1>15 DEF QueriesInv

LEMMA TickStep ==
  ASSUME QueriesInv, Tick
  PROVE  QueriesInv'
<1>1. UNCHANGED <<rows, flips, walkVars, historyVars>> /\ now' = now + 1 /\ now \in Nat
  BY DEF Tick, QueriesInv, QueriesType
<1>2. QueriesType' /\ Ordered'
  <2>1. Ordered'
    <3>1. \A i \in DOMAIN rows : rows[i].first \in Nat
      BY RowFields DEF QueriesInv
    <3>. QED BY <1>1, <3>1 DEF Ordered, QueriesInv
  <2>. QED BY <1>1, <2>1 DEF QueriesInv, QueriesType, Known, walkVars, historyVars
<1>3. (Unbegun /\ Numbered /\ CountRight /\ Prefix /\ Ahead)'
  BY <1>1
  DEF QueriesInv, Unbegun, Numbered, CountRight, Prefix, Ahead, ShownDevices, Wanted, Rank,
      Off, Still, Newest, RowsOf, Apart, Offset, PageSize, PageNumber, walkVars, historyVars
<1>4. (WalkComplete /\ WalkSkipsNone /\ SummaryCounts)'
  BY <1>1 DEF QueriesInv, WalkComplete, WalkSkipsNone, SummaryCounts, Tick, Watched, walkVars
<1>. QED BY <1>2, <1>3, <1>4 DEF QueriesInv

-----------------------------------------------------------------------------
(* The steps of the reader *)

\* The page size in force, and the offsets of the first page and of the next.
LEMMA Offsets ==
  ASSUME QueriesType, Numbered, stage # "idle"
  PROVE  /\ PageSize(size) \in Nat \ {0}
         /\ Off \in Nat
         /\ size = 0 => PageSize(size) = DefaultSize /\ Off = 0
         /\ size # 0 => /\ PageSize(size) = size
                        /\ Off + size = page * size
                        /\ Offset(page + 1, size) = page * size
         /\ page = 1 => Off = 0
<1>1. /\ DefaultSize \in Nat \ {0} /\ MaxSize \in Nat
      /\ size \in 0..MaxSize /\ page \in Nat
      /\ (size = 0 /\ page = 0) \/ (size >= 1 /\ page >= 1)
  BY SizesAssumption DEF QueriesType, Numbered
<1>2. CASE size = 0 /\ page = 0
  BY <1>1, <1>2 DEF PageSize, Off, Offset, PageNumber
<1>3. CASE size >= 1 /\ page >= 1
  <2>1. PageSize(size) = size /\ PageNumber(page) = page /\ PageNumber(page + 1) = page + 1
    BY <1>1, <1>3 DEF PageSize, PageNumber
  <2>2. Off = (page - 1) * size /\ Offset(page + 1, size) = (page + 1 - 1) * size
    <3>1. /\ Off = (PageNumber(page) - 1) * PageSize(size)
          /\ Offset(page + 1, size) = (PageNumber(page + 1) - 1) * size
      BY DEF Off, Offset
    <3>2. PageNumber(page) - 1 = page - 1 /\ PageNumber(page + 1) - 1 = page + 1 - 1
      BY <1>1, <2>1
    <3>. QED BY <2>1, <3>1, <3>2
  <2>3. page - 1 \in Nat /\ size \in Nat
    BY <1>1, <1>3
  <2>4. ASSUME NEW p \in Nat, NEW n \in Nat
        PROVE  p * n \in Nat /\ (p + 1) * n = p * n + n
    OBVIOUS
  <2>5. (page - 1) * size \in Nat /\ (page - 1 + 1) * size = (page - 1) * size + size
    BY <2>3, <2>4
  <2>6. page - 1 + 1 = page /\ page + 1 - 1 = page
    BY <1>1
  <2>7. Off \in Nat /\ Off + size = page * size
    BY <2>2, <2>5, <2>6
  <2>8. Offset(page + 1, size) = page * size
    BY <2>2, <2>6
  <2>9. page = 1 => Off = 0
    BY <2>2, <2>3
  <2>. QED BY <1>3, <2>1, <2>3, <2>7, <2>8, <2>9
<1>. QED BY <1>1, <1>2, <1>3

LEMMA BeginStep ==
  ASSUME QueriesInv,
         Poll \/ \E g \in {"all", "online", "offline"}, n \in 1..MaxSize : StartWalk(g, n)
  PROVE  QueriesInv'
<1>1. /\ stage = "idle" /\ stage' = "asked"
      /\ before' = Known
      /\ UNCHANGED <<tableVars, total, shown, summary, moved, flipped, torn>>
  BY DEF Poll, StartWalk
<1>2. /\ filter' \in {"all", "online", "offline"}
      /\ \/ size' = 0 /\ page' = 0
         \/ size' \in 1..MaxSize /\ page' = 1
  BY DEF Poll, StartWalk
<1>3. QueriesType /\ shown = <<>> /\ MaxSize \in Nat
  BY <1>1, SizesAssumption DEF QueriesInv, Unbegun
<1>4. QueriesType'
  BY <1>1, <1>2, <1>3 DEF QueriesType, tableVars, Known
<1>5. Ordered'
  BY <1>1 DEF QueriesInv, Ordered, tableVars
<1>6. Unbegun' /\ Numbered'
  BY <1>1, <1>2, <1>3 DEF Unbegun, Numbered
<1>7. Off' = 0
  BY <1>2, <1>3, SizesAssumption DEF Off, Offset, PageNumber, PageSize
<1>8. IsFiniteSet(Wanted') /\ Wanted' \subseteq DOMAIN rows
  <2>1. Wanted' \in SUBSET DOMAIN rows
    BY <1>1 DEF Wanted, tableVars
  <2>2. IsFiniteSet(DOMAIN rows)
    BY <1>3, RowFields, FS_Interval
  <2>. QED BY <2>1, <2>2, FS_Subset
<1>9. Prefix'
  <2>1. Cardinality(Wanted') \in Nat
    BY <1>8, FS_CardinalityType
  <2>2. Len(shown') = 0 /\ DOMAIN shown' = {}
    BY <1>1, <1>3
  <2>. QED BY <1>7, <2>1, <2>2 DEF Prefix
<1>10. Ahead'
  <2>1. ASSUME NEW i \in Wanted' PROVE Rank(i)' \in Nat
    <3>1. {j \in Wanted' : j > i} \in SUBSET Wanted'
      OBVIOUS
    <3>2. Cardinality({j \in Wanted' : j > i}) \in Nat
      BY <1>8, <3>1, FS_Subset, FS_CardinalityType
    <3>. QED BY <3>2 DEF Rank
  <2>. QED BY <1>7, <2>1 DEF Ahead
<1>11. CountRight' /\ WalkComplete' /\ WalkSkipsNone' /\ SummaryCounts'
  BY <1>1 DEF CountRight, WalkComplete, WalkSkipsNone, SummaryCounts
<1>. QED BY <1>4, <1>5, <1>6, <1>9, <1>10, <1>11 DEF QueriesInv

LEMMA CountQueryStep ==
  ASSUME QueriesInv, CountQuery
  PROVE  QueriesInv'
<1>1. /\ stage = "asked" /\ stage' = "counted"
      /\ UNCHANGED <<tableVars, filter, size, page, shown, summary, historyVars>>
  BY DEF CountQuery
<1>2. QueriesType' /\ Ordered' /\ Unbegun' /\ Numbered'
  BY <1>1
  DEF QueriesInv, QueriesType, Known, Ordered, Unbegun, Numbered, tableVars, historyVars
<1>3. Wanted' = Wanted /\ Off' = Off /\ (Apart(DOMAIN rows)' <=> Apart(DOMAIN rows))
  BY <1>1 DEF Wanted, Newest, RowsOf, Off, Apart, tableVars
<1>4. CountRight'
  <2>1. ASSUME Apart(DOMAIN rows) PROVE total' = Cardinality(Wanted)
    <3>1. PICK S \in Heads : total' = Count(S)
      BY DEF CountQuery
    <3>2. Matching(S) = Wanted
      BY <2>1, HeadsAreNewest DEF QueriesInv
    <3>. QED BY <3>1, <3>2 DEF Count
  <2>. QED BY <1>3, <2>1 DEF CountRight
<1>5. Prefix'
  BY <1>1, <1>3 DEF QueriesInv, Prefix, Rank, Still, historyVars
<1>6. Ahead'
  BY <1>1, <1>3 DEF QueriesInv, Ahead, ShownDevices, Rank, tableVars, historyVars
<1>7. WalkComplete' /\ WalkSkipsNone' /\ SummaryCounts'
  BY <1>1 DEF WalkComplete, WalkSkipsNone, SummaryCounts
<1>. QED BY <1>2, <1>4, <1>5, <1>6, <1>7 DEF QueriesInv

\* A page is read: it holds the wanted rows whose ranks follow those shown before.
LEMMA PageQueryStep ==
  ASSUME QueriesInv, PageQuery
  PROVE  QueriesInv'
<1>0. /\ QueriesType /\ Ordered /\ Unbegun /\ Numbered
      /\ stage = "counted" /\ stage # "idle"
      /\ UNCHANGED <<tableVars, filter, size, total, historyVars>>
  BY DEF QueriesInv, PageQuery
<1>1. PICK n \in Nat \ {0} : n = PageSize(size)
  BY <1>0, Offsets
<1>2. PICK o \in Nat : o = Off
  BY <1>0, Offsets
<1>3. PICK S \in Heads : \E s \in Orders(Matching(S)) :
         /\ shown' = shown \o PageOf(s, page, PageSize(size))
         /\ summary' = Summary(PageOf(s, page, PageSize(size)))
  BY DEF PageQuery
<1>4. PICK s \in Orders(Matching(S)) :
         /\ shown' = shown \o PageOf(s, page, PageSize(size))
         /\ summary' = Summary(PageOf(s, page, PageSize(size)))
  BY <1>3
<1>5. PICK t : t = PageOf(s, page, n)
  OBVIOUS
<1>6. shown' = shown \o t /\ summary' = Summary(t)
  BY <1>1, <1>4, <1>5
<1>7. \/ size = 0 /\ stage' = "done" /\ page' = page
      \/ size # 0 /\ page * size >= total /\ stage' = "done" /\ page' = page
      \/ size # 0 /\ ~(page * size >= total) /\ stage' = "asked" /\ page' = page + 1
  BY DEF PageQuery
<1>8. /\ s \in Seq(DOMAIN rows)
      /\ t \in Seq(DOMAIN rows)
      /\ Len(t) = LET end == IF Len(s) < o + n THEN Len(s) ELSE o + n
                  IN  IF o <= end THEN end - o ELSE 0
      /\ \A k \in 1..Len(t) : o + k \in 1..Len(s) /\ t[k] = s[o + k]
  <2>1. Matching(S) \in SUBSET DOMAIN rows
    BY DEF Matching, Heads
  <2>2. IsFiniteSet(DOMAIN rows)
    BY <1>0, RowFields, FS_Interval
  <2>3. IsFiniteSet(Matching(S)) /\ s \in SetToSeqs(Matching(S))
    BY <2>1, <2>2, FS_Subset DEF Orders
  <2>4. s \in Seq(Matching(S))
    BY <2>3, ListsAll
  <2>5. s \in Seq(DOMAIN rows)
    BY <2>1, <2>4, SeqWidens
  <2>6. o = Offset(page, n) /\ page \in Int /\ n \in Nat
    BY <1>0, <1>1, <1>2 DEF Off, QueriesType
  <2>. QED BY <1>5, <2>5, <2>6, PageHas
<1>9. /\ shown \in Seq(DOMAIN rows) /\ shown' \in Seq(DOMAIN rows)
      /\ Len(shown') = Len(shown) + Len(t)
      /\ \A k \in 1..Len(shown) : shown'[k] = shown[k]
      /\ \A k \in 1..Len(t) : shown'[Len(shown) + k] = t[k]
  <2>1. shown \in Seq(DOMAIN rows)
    BY <1>0 DEF QueriesType
  <2>2. /\ shown \o t \in Seq(DOMAIN rows)
        /\ Len(shown \o t) = Len(shown) + Len(t)
        /\ \A k \in 1..Len(shown) : (shown \o t)[k] = shown[k]
        /\ \A k \in 1..Len(t) : (shown \o t)[Len(shown) + k] = t[k]
    <3>1. t \in Seq(DOMAIN rows)
      BY <1>8
    <3>. QED BY <2>1, <3>1, Joined
  <2>. QED BY <1>6, <2>1, <2>2
<1>10. Len(shown) \in Nat /\ Len(t) \in Nat /\ Len(s) \in Nat /\ Len(shown') \in Nat
  BY <1>8, <1>9
<1>11. QueriesType' /\ Ordered' /\ Unbegun' /\ Numbered'
  <2>1. page' \in Nat /\ stage' \in {"asked", "done"} /\ (size # 0 => page' >= 1)
    BY <1>0, <1>7 DEF QueriesType, Numbered
  <2>2. DOMAIN rows' = DOMAIN rows /\ Known' = Known
    BY <1>0 DEF Known, tableVars
  <2>3. QueriesType'
    BY <1>0, <1>9, <2>1, <2>2 DEF QueriesType, tableVars, historyVars
  <2>4. Numbered'
    BY <1>0, <1>7, <2>1 DEF Numbered, QueriesType
  <2>. QED BY <1>0, <2>1, <2>3, <2>4 DEF Ordered, Unbegun, tableVars
<1>12. /\ Wanted' = Wanted /\ (Apart(DOMAIN rows)' <=> Apart(DOMAIN rows))
       /\ (Still' <=> Still)
       /\ \A i : Rank(i)' = Rank(i)
  BY <1>0 DEF Wanted, Newest, RowsOf, Apart, Still, Rank, tableVars, historyVars
<1>13. PICK w \in Nat : w = Cardinality(Wanted)
  BY <1>0, WantedFinite
<1>14. ASSUME Apart(DOMAIN rows)
       PROVE  /\ s \in Seq(Wanted) /\ Len(s) = w /\ DOMAIN s = 1..w
              /\ \A x \in Wanted : \E k \in 1..w : s[k] = x
              /\ \A k \in 1..w : s[k] \in Wanted /\ Rank(s[k]) = k - 1
  <2>1. s \in Orders(Wanted)
    BY <1>0, <1>14, HeadsAreNewest
  <2>2. /\ s \in Seq(Wanted) /\ Len(s) = w
        /\ \A x \in Wanted : \E k \in DOMAIN s : s[k] = x
        /\ \A k \in DOMAIN s : Rank(s[k]) = k - 1
    BY <1>0, <1>13, <1>14, <2>1, OrdersByRank
  <2>3. DOMAIN s = 1..w
    BY <1>8, <2>2
  <2>4. \A k \in 1..w : s[k] \in Wanted
    BY <2>2, <2>3
  <2>. QED BY <2>2, <2>3, <2>4
<1>15. ASSUME Apart(DOMAIN rows), Still
       PROVE  /\ total = w /\ Len(shown) = o /\ o <= w
              /\ Len(shown') = IF w < o + n THEN w ELSE o + n
              /\ \A k \in 1..Len(shown') : shown'[k] \in Wanted /\ Rank(shown'[k]) = k - 1
  <2>1. total = w
    BY <1>0, <1>13, <1>15 DEF QueriesInv, CountRight
  <2>2. /\ Len(shown) = o /\ o <= w
        /\ \A k \in DOMAIN shown : shown[k] \in Wanted /\ Rank(shown[k]) = k - 1
    BY <1>0, <1>2, <1>13, <1>15 DEF QueriesInv, Prefix
  <2>3. Len(shown') = IF w < o + n THEN w ELSE o + n
    BY <1>8, <1>9, <1>14, <1>15, <2>2
  <2>4. ASSUME NEW k \in 1..Len(shown')
        PROVE  shown'[k] \in Wanted /\ Rank(shown'[k]) = k - 1
    <3>1. CASE k <= Len(shown)
      <4>1. k \in 1..Len(shown) /\ DOMAIN shown = 1..Len(shown)
        BY <1>9, <1>10, <3>1
      <4>. QED BY <1>9, <2>2, <4>1
    <3>2. CASE ~(k <= Len(shown))
      <4>1. PICK m \in 1..Len(t) : k = o + m
        <5>1. k - o \in 1..Len(t) /\ k = o + (k - o)
          BY <1>9, <1>10, <2>2, <3>2
        <5>. QED BY <5>1
      <4>2. shown'[k] = s[k] /\ k \in 1..w
        BY <1>8, <1>9, <1>14, <1>15, <2>2, <4>1
      <4>. QED BY <1>14, <1>15, <4>2
    <3>. QED BY <3>1, <3>2
  <2>. QED BY <2>1, <2>2, <2>3, <2>4
<1>16. ASSUME Apart(DOMAIN rows), filter = "all", ~torn,
              NEW i \in Wanted, rows[i].dev \in before \ moved
       PROVE  /\ total = w /\ Rank(i) \in Nat /\ Rank(i) < w
              /\ rows[i].dev \in ShownDevices' \/ Rank(i) >= o + n
  <2>1. total = w
    BY <1>0, <1>13, <1>16 DEF QueriesInv, CountRight
  <2>2. Rank(i) \in Nat /\ Rank(i) < w
    BY <1>0, <1>13, RankFacts
  <2>3. ASSUME NEW k \in 1..Len(shown'), rows[shown'[k]].dev = rows[i].dev
        PROVE  rows[i].dev \in ShownDevices'
    <3>1. DOMAIN shown' = 1..Len(shown') /\ rows' = rows
      BY <1>0, <1>9 DEF tableVars
    <3>. QED BY <2>3, <3>1 DEF ShownDevices
  <2>4. CASE rows[i].dev \in ShownDevices
    <3>1. PICK k \in 1..Len(shown) : rows[i].dev = rows[shown[k]].dev
      BY <1>9, <2>4 DEF ShownDevices
    <3>2. k \in 1..Len(shown') /\ shown'[k] = shown[k]
      BY <1>9, <1>10
    <3>. QED BY <2>1, <2>2, <2>3, <3>1, <3>2
  <2>5. CASE Rank(i) >= o /\ Rank(i) < o + n
    <3>1. PICK k \in 1..w : s[k] = i
      BY <1>14, <1>16
    <3>2. Rank(i) = k - 1
      BY <1>14, <1>16, <3>1
    <3>3. PICK m \in 1..Len(t) : k = o + m
      <4>1. k - o \in 1..Len(t) /\ k = o + (k - o)
        BY <1>8, <1>14, <1>16, <2>5, <3>2
      <4>. QED BY <4>1
    <3>4. t[m] = i
      BY <1>8, <3>1, <3>3
    <3>5. Len(shown) + m \in 1..Len(shown') /\ shown'[Len(shown) + m] = i
      BY <1>9, <1>10, <3>4
    <3>. QED BY <2>1, <2>2, <2>3, <3>5
  <2>6. rows[i].dev \in ShownDevices \/ Rank(i) >= o
    BY <1>0, <1>2, <1>16 DEF QueriesInv, Ahead
  <2>. QED BY <2>1, <2>2, <2>4, <2>5, <2>6
<1>17. /\ size = 0 => n = DefaultSize /\ o = 0
       /\ size # 0 => n = size /\ o + n = page * size /\ Offset(page + 1, size) = o + n
       /\ page = 1 => o = 0
  BY <1>0, <1>1, <1>2, Offsets
<1>18. stage' = "asked" => Off' = o + n
  BY <1>0, <1>1, <1>7, <1>17 DEF Off
<1>19. CountRight'
  BY <1>7 DEF CountRight
<1>20. Prefix'
  <2>1. ASSUME stage' = "asked", Apart(DOMAIN rows), Still
        PROVE  Len(shown') = o + n /\ o + n <= w
    <3>1. o + n < w
      BY <1>7, <1>15, <1>17, <2>1
    <3>. QED BY <1>15, <2>1, <3>1
  <2>2. stage' # "counted" /\ DOMAIN shown' = 1..Len(shown')
    BY <1>7, <1>9
  <2>. QED BY <1>12, <1>13, <1>15, <1>18, <2>1, <2>2 DEF Prefix
<1>21. Ahead'
  BY <1>0, <1>7, <1>12, <1>16, <1>18 DEF Ahead, tableVars, historyVars
<1>22. ASSUME stage' = "done", size # 0 \/ Cardinality(Known) <= DefaultSize, total = w
       PROVE  w <= o + n
  <2>1. CASE size # 0
    BY <1>7, <1>17, <1>22, <2>1
  <2>2. CASE size = 0
    <3>1. w <= Cardinality(Known) /\ Cardinality(Known) \in Nat /\ DefaultSize \in Nat
      BY <1>0, <1>13, WantedFewer, FS_CardinalityType, SizesAssumption
    <3>. QED BY <1>17, <1>22, <2>2, <3>1
  <2>. QED BY <2>1, <2>2
<1>23. Covers' <=> (size # 0 \/ Cardinality(Known) <= DefaultSize)
  BY <1>0 DEF Covers, Known, tableVars
<1>24. WalkComplete'
  <2>1. SUFFICES ASSUME stage' = "done", Covers', Still, Apart(DOMAIN rows)
                 PROVE  /\ {shown'[k] : k \in DOMAIN shown'} = Wanted
                        /\ \A a, b \in DOMAIN shown' :
                              a < b => rows[shown'[a]].first > rows[shown'[b]].first
    BY <1>0, <1>12 DEF WalkComplete, Wanted, Still, tableVars, historyVars, Newest, RowsOf
  <2>2. DOMAIN shown' = 1..w
    BY <1>9, <1>15, <1>22, <1>23, <2>1
  <2>3. \A k \in 1..w : shown'[k] \in Wanted /\ Rank(shown'[k]) = k - 1
    BY <1>9, <1>15, <2>1, <2>2
  <2>4. ASSUME NEW i \in Wanted PROVE \E k \in 1..w : shown'[k] = i
    <3>1. Rank(i) \in Nat /\ Rank(i) < w
      BY <1>0, <1>13, RankFacts
    <3>2. Rank(i) + 1 \in 1..w
      BY <3>1
    <3>3. shown'[Rank(i) + 1] \in Wanted /\ Rank(shown'[Rank(i) + 1]) = Rank(i)
      BY <2>3, <3>1, <3>2
    <3>4. \A j \in Wanted : Rank(j) \in Nat /\ j \in Nat
      BY <1>0, RankFacts, WantedFinite
    <3>5. \A j \in Wanted : Rank(j) = Rank(i) => i = j
      BY <1>0, <3>4, RankFacts
    <3>. QED BY <3>2, <3>3, <3>5
  <2>5. ASSUME NEW a \in 1..w, NEW b \in 1..w, a < b
        PROVE  rows[shown'[a]].first > rows[shown'[b]].first
    <3>1. PICK x \in Wanted : x = shown'[a] /\ Rank(x) = a - 1
      BY <2>3
    <3>2. PICK y \in Wanted : y = shown'[b] /\ Rank(y) = b - 1
      BY <2>3
    <3>3. x \in Nat /\ y \in Nat /\ x \in DOMAIN rows /\ y \in DOMAIN rows
      BY <1>0, WantedFinite DEF Wanted
    <3>4. ~(x < y)
      BY <1>0, <2>5, <3>1, <3>2, RankFacts
    <3>5. x # y
      BY <2>5, <3>1, <3>2
    <3>6. y <= x
      BY <3>3, <3>4
    <3>7. rows[y].first <= rows[x].first /\ rows[y].first # rows[x].first
      BY <1>0, <2>1, <3>3, <3>5, <3>6 DEF Ordered, Apart
    <3>8. rows[y].first \in Nat /\ rows[x].first \in Nat
      BY <1>0, <3>3, RowFields
    <3>. QED BY <3>1, <3>2, <3>7, <3>8
  <2>. QED BY <2>2, <2>3, <2>4, <2>5
<1>25. WalkSkipsNone'
  <2>1. SUFFICES ASSUME stage' = "done", Covers', filter = "all", ~torn, Apart(DOMAIN rows),
                        NEW d \in before \ moved
                 PROVE  d \in ShownDevices'
    BY <1>0, <1>12 DEF WalkSkipsNone, ShownDevices, tableVars, historyVars
  <2>2. PICK i \in DOMAIN rows : rows[i].dev = d /\ Newest(i)
    BY <1>0, HasNewest DEF QueriesType
  <2>3. i \in Wanted
    BY <2>1, <2>2 DEF Wanted
  <2>4. /\ total = w /\ Rank(i) \in Nat /\ Rank(i) < w
        /\ d \in ShownDevices' \/ Rank(i) >= o + n
    BY <1>16, <2>1, <2>2, <2>3
  <2>5. w <= o + n
    BY <1>22, <1>23, <2>1, <2>4
  <2>. QED BY <2>4, <2>5
<1>26. SummaryCounts'
  <2>1. SUFFICES ASSUME stage' = "done", page' = 1, Still, Apart(DOMAIN rows)
                 PROVE  LET Latest(isOnline, unless) ==
                              IF filter = unless THEN {}
                              ELSE {i \in DOMAIN rows : Newest(i) /\ rows[i].online = isOnline}
                        IN  /\ summary'.online = Cardinality(Latest(TRUE, "offline"))
                            /\ summary'.offline = Cardinality(Latest(FALSE, "online"))
    BY <1>0, <1>12 DEF SummaryCounts, Still, tableVars, historyVars, Newest, RowsOf
  <2>2. page = 1 /\ size # 0
    BY <1>0, <1>7, <2>1 DEF Numbered, QueriesType
  <2>3. o = 0 /\ w <= n /\ total = w
    BY <1>15, <1>17, <1>22, <2>1, <2>2
  <2>4. Len(t) = w /\ \A k \in 1..w : t[k] = s[k]
    <3>1. Len(s) = w
      BY <1>14, <2>1
    <3>2. Len(t) = w
      BY <1>8, <2>3, <3>1
    <3>3. ASSUME NEW k \in 1..w PROVE t[k] = s[k]
      BY <1>8, <2>3, <3>2
    <3>. QED BY <3>2, <3>3
  <2>5. ToSet(t) = Wanted
    <3>1. DOMAIN t = 1..w
      BY <1>8, <2>4
    <3>2. ToSet(t) = {s[k] : k \in 1..w}
      BY <2>4, <3>1 DEF ToSet
    <3>. QED BY <1>14, <2>1, <3>2
  <2>. DEFINE on == {i \in Wanted : rows[i].online}
  <2>6. summary'.online = Cardinality(on) /\ summary'.offline = w - Cardinality(on)
    BY <1>6, <2>3, <2>5 DEF Summary
  <2>7. w - Cardinality(on) = Cardinality(Wanted \ on)
    <3>1. IsFiniteSet(Wanted)
      BY <1>0, WantedFinite
    <3>2. Cardinality(Wanted \ on) = Cardinality(Wanted) - Cardinality(Wanted \cap on)
      BY <3>1, FS_Difference
    <3>3. Wanted \cap on = on
      OBVIOUS
    <3>. QED BY <1>13, <3>2, <3>3
  <2>8. \A i \in DOMAIN rows : rows[i].online \in BOOLEAN
    BY <1>0, RowFields
  <2>9. on = IF filter = "offline" THEN {} ELSE {i \in DOMAIN rows : Newest(i) /\ rows[i].online = TRUE}
    BY <1>0, <2>8 DEF Wanted, QueriesType
  <2>10. Wanted \ on = IF filter = "online" THEN {}
                       ELSE {i \in DOMAIN rows : Newest(i) /\ rows[i].online = FALSE}
    BY <1>0, <2>8 DEF Wanted, QueriesType
  <2>. HIDE DEF on
  <2>. QED BY <2>6, <2>7, <2>9, <2>10
<1>. QED BY <1>11, <1>19, <1>20, <1>21, <1>24, <1>25, <1>26 DEF QueriesInv

-----------------------------------------------------------------------------
(* The theorems *)

LEMMA NextInv == QueriesInv /\ [Next]_vars => QueriesInv'
<1>. SUFFICES ASSUME QueriesInv, [Next]_vars PROVE QueriesInv'
  OBVIOUS
<1>1. CASE UNCHANGED vars
  <2>. USE <1>1 DEF vars, tableVars, walkVars, historyVars, QueriesInv
  <2>1. Known' = Known /\ Wanted' = Wanted /\ \A i : Rank(i)' = Rank(i)
    BY DEF Known, Wanted, Rank, Newest, RowsOf
  <2>2. QueriesType' /\ Ordered' /\ Unbegun' /\ Numbered'
    BY <2>1 DEF QueriesType, Ordered, Unbegun, Numbered
  <2>3. CountRight' /\ Prefix' /\ Ahead'
    BY <2>1 DEF CountRight, Prefix, Ahead, ShownDevices, Off, Still, Apart
  <2>4. WalkComplete' /\ WalkSkipsNone' /\ SummaryCounts'
    BY <2>1 DEF WalkComplete, WalkSkipsNone, SummaryCounts, Covers, Newest, RowsOf, Apart
  <2>. QED BY <2>2, <2>3, <2>4
<1>2. CASE \E d \in Devices : Register(d)
  BY <1>2, RegisterStep
<1>3. CASE \E i \in DOMAIN rows : Flip(i)
  BY <1>3, FlipStep
<1>4. CASE Tick
  BY <1>4, TickStep
<1>5. CASE Poll \/ \E f \in {"all", "online", "offline"}, n \in 1..MaxSize : StartWalk(f, n)
  BY <1>5, BeginStep
<1>6. CASE CountQuery
  BY <1>6, CountQueryStep
<1>7. CASE PageQuery
  BY <1>7, PageQueryStep
<1>. QED BY <1>1, <1>2, <1>3, <1>4, <1>5, <1>6, <1>7 DEF Next

THEOREM QueriesInvariant == Spec => []QueriesInv
  BY InitInv, NextInv, PTL DEF Spec

\* ListTerminals: a walk over the pages while nothing changes shows every device that the
\* filter asks for once, newest first, whatever the size of the pages.
THEOREM WalkShowsAll == Spec => []WalkComplete
<1>1. QueriesInv => WalkComplete
  BY DEF QueriesInv
<1>. QED BY <1>1, QueriesInvariant, PTL

\* ListTerminals: registrations between the pages make a walk skip no other device.
THEOREM WalkDoesNotSkip == Spec => []WalkSkipsNone
<1>1. QueriesInv => WalkSkipsNone
  BY DEF QueriesInv
<1>. QED BY <1>1, QueriesInvariant, PTL

\* printTerminalTable: the summary of a list that fits on one page counts its devices.
THEOREM SummaryIsRight == Spec => []SummaryCounts
<1>1. QueriesInv => SummaryCounts
  BY DEF QueriesInv
<1>. QED BY <1>1, QueriesInvariant, PTL
=============================================================================

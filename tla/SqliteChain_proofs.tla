------------------------- MODULE SqliteChain_proofs -------------------------
(***************************************************************************)
(* Proofs about SqliteStore, continued: the hash chain.  A file that was    *)
(* not edited verifies whatever order its positions were taken in and       *)
(* whichever processes wrote, migrated or died, and the chain of a run goes  *)
(* on passing through every head it had.                                    *)
(***************************************************************************)
EXTENDS SqliteStore_proofs, FiniteSetTheorems, SequenceTheorems

Cells == Run \X Seqs \X Event

\* The rows of r are what was appended to it, in the order it was appended, and
\* each carries the hashes of the chain up to it.
Chained(d, r) ==
  LET all == d.appended[r] IN
  /\ all \in Seq(Cells)
  /\ d.head[r] = [len |-> Len(all), hash |-> all]
  /\ \A s \in RowsOf(d, r) :
       LET row == d.rows[r][s] IN
       /\ row.idx \in 0..(Len(all) - 1)
       /\ row.prev = SubSeq(all, 1, row.idx)
       /\ row.hash = SubSeq(all, 1, row.idx + 1)
       /\ all[row.idx + 1] = Cell(r, s, row.event)
  /\ \A i \in 1..Len(all) : \E s \in RowsOf(d, r) : d.rows[r][s].idx = i - 1

----------------------------------------------------------------------------
(* A chained run verifies.                                                  *)

\* Where a row stands in the chain.
Place(d, r) == [s \in RowsOf(d, r) |-> d.rows[r][s].idx]

\* The same of a chain with names for its parts.
LEMMA ChainedParts ==
  ASSUME NEW d, NEW r \in Run, Chained(d, r), NEW all, all = d.appended[r],
         NEW n, n = Len(all), NEW place, place = Place(d, r)
  PROVE  /\ all \in Seq(Cells) /\ n \in Nat
         /\ d.head[r].len = n /\ d.head[r].hash = all
         /\ place \in [RowsOf(d, r) -> 0..(n - 1)]
         /\ \A s \in RowsOf(d, r) :
              /\ d.rows[r][s].idx = place[s]
              /\ d.rows[r][s].prev = SubSeq(all, 1, place[s])
              /\ d.rows[r][s].hash = SubSeq(all, 1, place[s] + 1)
              /\ all[place[s] + 1] = Cell(r, s, d.rows[r][s].event)
         /\ \A i \in 1..n : \E s \in RowsOf(d, r) : place[s] = i - 1
         /\ \A s, t \in RowsOf(d, r) : place[s] = place[t] => s = t
  <1>1. all \in Seq(Cells) /\ n \in Nat
    BY LenProperties DEF Chained
  <1>2. d.head[r].len = n /\ d.head[r].hash = all
    BY DEF Chained
  <1>3. \A s \in RowsOf(d, r) : /\ place[s] = d.rows[r][s].idx
                                /\ d.rows[r][s].idx \in 0..(n - 1)
    BY DEF Place, Chained
  <1>4. place \in [RowsOf(d, r) -> 0..(n - 1)]
    BY <1>3 DEF Place
  <1>5. \A s \in RowsOf(d, r) :
              /\ d.rows[r][s].prev = SubSeq(all, 1, place[s])
              /\ d.rows[r][s].hash = SubSeq(all, 1, place[s] + 1)
              /\ all[place[s] + 1] = Cell(r, s, d.rows[r][s].event)
    BY <1>3 DEF Chained
  <1>6. \A i \in 1..n : \E s \in RowsOf(d, r) : place[s] = i - 1
    BY <1>3 DEF Chained
  <1>7. \A s, t \in RowsOf(d, r) : place[s] = place[t] => s = t
    <2> SUFFICES ASSUME NEW s \in RowsOf(d, r), NEW t \in RowsOf(d, r), place[s] = place[t]
                 PROVE  s = t
      OBVIOUS
    <2>1. Cell(r, s, d.rows[r][s].event) = Cell(r, t, d.rows[r][t].event)
      BY <1>5
    <2> QED
      BY <2>1 DEF Cell
  <1> QED
    BY <1>1, <1>2, <1>3, <1>4, <1>5, <1>6, <1>7

\* A prefix of a chain, one row longer.
LEMMA PrefixGrows ==
  ASSUME NEW S, NEW all \in Seq(S), NEW i \in 0..(Len(all) - 1)
  PROVE  SubSeq(all, 1, i + 1) = Append(SubSeq(all, 1, i), all[i + 1])
  <1>1. Len(all) \in Nat /\ all \in [1..Len(all) -> S]
    BY LenProperties
  <1>2. SubSeq(all, 1, i + 1) = SubSeq(all, 1, i) \o <<all[i + 1]>>
    BY <1>1, SubSeqRecursiveSecond
  <1>3. SubSeq(all, 1, i) \in Seq(S) /\ all[i + 1] \in S
    BY <1>1, SubSeqProperties
  <1> QED
    BY <1>2, <1>3, AppendIsConcat

LEMMA ChainedLinksHold ==
  ASSUME NEW d, NEW r \in Run, Chained(d, r)
  PROVE  LinksHold(d, r)
  <1> DEFINE all == d.appended[r]
             n == Len(all)
             place == Place(d, r)
             R == RowsOf(d, r)
  <1>a. all = d.appended[r] /\ n = Len(all) /\ place = Place(d, r) /\ R = RowsOf(d, r)
    OBVIOUS
  <1> HIDE DEF all, n, place, R
  <1>1. /\ all \in Seq(Cells) /\ n \in Nat
        /\ place \in [R -> 0..(n - 1)]
        /\ \A s \in R :
             /\ d.rows[r][s].idx = place[s]
             /\ d.rows[r][s].prev = SubSeq(all, 1, place[s])
             /\ d.rows[r][s].hash = SubSeq(all, 1, place[s] + 1)
             /\ all[place[s] + 1] = Cell(r, s, d.rows[r][s].event)
        /\ \A i \in 1..n : \E s \in R : place[s] = i - 1
        /\ \A s, t \in R : place[s] = place[t] => s = t
    BY <1>a, ChainedParts
  <1>0. /\ \A s \in R : Earlier(d, r, s) = {t \in R : place[t] < place[s]}
        /\ \A i \in 0..(n - 1) : SubSeq(all, 1, i + 1) = Append(SubSeq(all, 1, i), all[i + 1])
    <2>1. \A i \in 0..(n - 1) : SubSeq(all, 1, i + 1) = Append(SubSeq(all, 1, i), all[i + 1])
      <3>1. ASSUME NEW i \in 0..(Len(all) - 1)
            PROVE  SubSeq(all, 1, i + 1) = Append(SubSeq(all, 1, i), all[i + 1])
        BY <1>1, PrefixGrows
      <3> QED
        BY <1>a, <3>1
    <2> QED
      BY <1>a, <1>1, <2>1 DEF Earlier
  <1> SUFFICES ASSUME NEW s \in R
               PROVE  /\ Running(d, r, Earlier(d, r, s), d.rows[r][s].prev)
                      /\ d.rows[r][s].hash = RowHash(d.rows[r][s].prev, r, s, d.rows[r][s].event)
                      /\ \A t \in R \ {s} : d.rows[r][t].idx # d.rows[r][s].idx
    BY <1>a DEF LinksHold
  <1>2. \A t \in R \ {s} : d.rows[r][t].idx # d.rows[r][s].idx
    BY <1>1
  <1>3. d.rows[r][s].hash = RowHash(d.rows[r][s].prev, r, s, d.rows[r][s].event)
    <2>1. place[s] \in 0..(n - 1)
      BY <1>1
    <2>2. SubSeq(all, 1, place[s] + 1) = Append(SubSeq(all, 1, place[s]), all[place[s] + 1])
      BY <1>0, <2>1
    <2> QED
      BY <1>1, <2>2 DEF RowHash
  <1>4. CASE place[s] = 0
    <2>1. Earlier(d, r, s) = {}
      BY <1>0, <1>1, <1>4
    <2>2. d.rows[r][s].prev = Genesis
      <3>1. SubSeq(all, 1, 0) = <<>>
        BY SubSeqEmpty
      <3> QED
        BY <1>1, <1>4, <3>1 DEF Genesis
    <2> QED
      BY <1>2, <1>3, <2>1, <2>2 DEF Running
  <1>5. CASE place[s] # 0
    <2>1. PICK t \in R : place[t] = place[s] - 1
      BY <1>1, <1>5
    <2>2. IsLatest(d, r, t, Earlier(d, r, s))
      BY <1>0, <1>1, <2>1 DEF IsLatest
    <2>3. d.rows[r][s].prev = d.rows[r][t].hash
      <3>1. place[t] + 1 = place[s]
        BY <1>1, <2>1
      <3>2. d.rows[r][s].prev = SubSeq(all, 1, place[s])
        BY <1>1
      <3>3. d.rows[r][t].hash = SubSeq(all, 1, place[t] + 1)
        BY <1>1
      <3> QED
        BY <3>1, <3>2, <3>3
    <2>4. t \in Earlier(d, r, s)
      BY <2>2 DEF IsLatest
    <2> QED
      BY <1>2, <1>3, <2>2, <2>3, <2>4 DEF Running
  <1> QED
    BY <1>4, <1>5

LEMMA ChainedHeadHolds ==
  ASSUME NEW d, NEW r \in Run, Chained(d, r)
  PROVE  HeadHolds(d, r)
  <1> DEFINE all == d.appended[r]
             n == Len(all)
             place == Place(d, r)
             R == RowsOf(d, r)
  <1>a. all = d.appended[r] /\ n = Len(all) /\ place = Place(d, r) /\ R = RowsOf(d, r)
    OBVIOUS
  <1> HIDE DEF all, n, place, R
  <1>1. /\ all \in Seq(Cells) /\ n \in Nat
        /\ place \in [R -> 0..(n - 1)]
        /\ \A s \in R : /\ d.rows[r][s].idx = place[s]
                        /\ d.rows[r][s].hash = SubSeq(all, 1, place[s] + 1)
        /\ \A i \in 1..n : \E s \in R : place[s] = i - 1
        /\ \A s, t \in R : place[s] = place[t] => s = t
        /\ d.head[r].len = n /\ d.head[r].hash = all
    BY <1>a, ChainedParts
  <1>0. SubSeq(all, 1, n) = all /\ (n = 0 => all = <<>>)
    BY <1>a, <1>1, SubSeqFull, EmptySeq
  <1> SUFFICES Running(d, r, R, all) /\ Cardinality(R) = n
    BY <1>a, <1>1 DEF HeadHolds
  <1>2. Cardinality(R) = n
    <2> DEFINE f == [i \in 1..n |-> CHOOSE s \in R : place[s] = i - 1]
    <2>1. \A i \in 1..n : f[i] \in R /\ place[f[i]] = i - 1
      BY <1>1
    <2>2. f \in [1..n -> R] /\ \A i, j \in 1..n : f[i] = f[j] => i = j
      BY <1>1, <2>1
    <2>3. \A s \in R : \E i \in 1..n : f[i] = s
      <3> TAKE s \in R
      <3>1. place[s] + 1 \in 1..n
        BY <1>1
      <3>2. f[place[s] + 1] \in R /\ place[f[place[s] + 1]] = place[s]
        BY <1>1, <2>1, <3>1
      <3> HIDE DEF f
      <3>3. f[place[s] + 1] = s
        BY <1>1, <3>2
      <3> QED
        BY <3>1, <3>3
    <2> HIDE DEF f
    <2>4. f \in Bijection(1..n, R)
      BY <2>2, <2>3 DEF Bijection, Injection, Surjection, IsInjective
    <2> QED
      BY <1>1, <2>4, FS_CountingElements DEF ExistsBijection
  <1>3. Running(d, r, R, all)
    <2>1. CASE n = 0
      <3>1. R = {}
        BY <1>1, <2>1
      <3> QED
        BY <1>0, <2>1, <3>1 DEF Running, Genesis
    <2>2. CASE n # 0
      <3>1. PICK t \in R : place[t] = n - 1
        <4>1. n \in 1..n
          BY <1>1, <2>2
        <4> QED
          BY <1>1, <4>1
      <3>2. IsLatest(d, r, t, R)
        BY <1>1, <3>1 DEF IsLatest
      <3>3. d.rows[r][t].hash = all
        <4>1. place[t] + 1 = n
          BY <1>1, <3>1
        <4> QED
          BY <1>0, <1>1, <4>1
      <3> QED
        BY <3>2, <3>3 DEF Running
    <2> QED
      BY <2>1, <2>2
  <1> QED
    BY <1>2, <1>3

LEMMA ChainedVerifies ==
  ASSUME NEW d, NEW r \in Run, Chained(d, r)
  PROVE  Verifies(d, r)
  BY ChainedLinksHold, ChainedHeadHolds DEF Verifies

----------------------------------------------------------------------------
(* The chain a migration writes over the rows it finds.                     *)

\* The ranks of the rows below a position are the numbers below its own rank,
\* each once.
LEMMA Ranks ==
  ASSUME NEW d, NEW r \in Run, NEW top \in Nat
  PROVE  /\ Rank(d, r, top) \in Nat
         /\ \A s \in RowsOf(d, r) : s < top => Rank(d, r, s) \in 0..(Rank(d, r, top) - 1)
         /\ \A s, t \in RowsOf(d, r) : Rank(d, r, s) = Rank(d, r, t) => s = t
         /\ \A i \in 1..Rank(d, r, top) :
              \E s \in RowsOf(d, r) : s < top /\ Rank(d, r, s) = i - 1
  <1> DEFINE Below(s) == {t \in RowsOf(d, r) : t < s}
             below == Below(top)
  <1>1. RowsOf(d, r) \subseteq Nat /\ IsFiniteSet(RowsOf(d, r))
    <2>1. Seqs \subseteq Nat /\ RowsOf(d, r) \subseteq Seqs /\ MaxSeq \in Int
      BY SqliteAssumption DEF RowsOf, Seqs
    <2>2. IsFiniteSet(Seqs)
      BY <2>1, FS_Interval DEF Seqs
    <2> QED
      BY <2>1, <2>2, FS_Subset
  <1>2. \A s : IsFiniteSet(Below(s)) /\ Cardinality(Below(s)) \in Nat
    BY <1>1, FS_Subset, FS_CardinalityType
  <1>3. \A s, t \in RowsOf(d, r) \cup {top} :
          s \in RowsOf(d, r) /\ s < t => Cardinality(Below(s)) < Cardinality(Below(t))
    <2> SUFFICES ASSUME NEW s \in RowsOf(d, r), NEW t \in RowsOf(d, r) \cup {top}, s < t
                 PROVE  Cardinality(Below(s)) < Cardinality(Below(t))
      OBVIOUS
    <2>1. Below(s) \subseteq Below(t) /\ s \in Below(t) /\ s \notin Below(s)
      BY <1>1
    <2>2. Cardinality(Below(s)) <= Cardinality(Below(t))
      BY <1>2, <2>1, FS_Subset
    <2>3. Cardinality(Below(s)) # Cardinality(Below(t))
      BY <1>2, <2>1, FS_Subset
    <2> HIDE DEF Below
    <2> QED
      BY <1>2, <2>2, <2>3
  <1>4. \A s : Rank(d, r, s) = Cardinality(Below(s))
    BY DEF Rank
  <1> HIDE DEF Below
  <1>5. Rank(d, r, top) \in Nat /\ \A s : Rank(d, r, s) \in Nat
    BY <1>2, <1>4
  <1>6. \A s \in below : s \in RowsOf(d, r) /\ Rank(d, r, s) \in 0..(Rank(d, r, top) - 1)
    <2>1. \A s \in below : s \in RowsOf(d, r) /\ s < top
      BY DEF Below
    <2> QED
      BY <1>3, <1>4, <1>5, <2>1
  <1>7. \A s, t \in RowsOf(d, r) : Rank(d, r, s) = Rank(d, r, t) => s = t
    <2> SUFFICES ASSUME NEW s \in RowsOf(d, r), NEW t \in RowsOf(d, r), s # t
                 PROVE  Rank(d, r, s) # Rank(d, r, t)
      OBVIOUS
    <2>1. s < t \/ t < s
      BY <1>1
    <2> QED
      BY <1>3, <1>4, <1>5, <2>1
  <1>8. \A i \in 1..Rank(d, r, top) : \E s \in below : Rank(d, r, s) = i - 1
    <2> DEFINE n == Rank(d, r, top)
               f == [s \in below |-> Rank(d, r, s)]
    <2>1. f \in [below -> 0..(n - 1)] /\ \A s, t \in below : f[s] = f[t] => s = t
      BY <1>6, <1>7
    <2>2. IsFiniteSet(0..(n - 1)) /\ Cardinality(0..(n - 1)) = n /\ Cardinality(below) = n
      <3>1. n \in Nat /\ n - 1 \in Int
        BY <1>5
      <3>2. \A b \in Int : /\ IsFiniteSet(0..b)
                           /\ Cardinality(0..b) = IF 0 > b THEN 0 ELSE b - 0 + 1
        BY FS_Interval
      <3>3. Cardinality(below) = n
        BY <1>4
      <3> HIDE DEF n, below
      <3> QED
        BY <3>1, <3>2, <3>3
    <2> HIDE DEF f
    <2>3. f \in Injection(below, 0..(n - 1))
      BY <2>1 DEF Injection, IsInjective
    <2>4. f \in Surjection(below, 0..(n - 1))
      BY <2>2, <2>3, FS_Injection
    <2> SUFFICES ASSUME NEW i \in 1..n PROVE \E s \in below : Rank(d, r, s) = i - 1
      OBVIOUS
    <2>5. i - 1 \in 0..(n - 1)
      BY <1>5
    <2>6. PICK s \in below : f[s] = i - 1
      BY <2>4, <2>5 DEF Surjection
    <2> QED
      BY <2>6 DEF f
  <1> QED
    BY <1>5, <1>6, <1>7, <1>8 DEF Below

LEMMA ChainIsSequence ==
  ASSUME NEW d, NEW r \in Run, NEW top \in Nat,
         \A s \in RowsOf(d, r) : d.rows[r][s].event \in Event
  PROVE  /\ ChainBelow(d, r, top) \in Seq(Cells)
         /\ Len(ChainBelow(d, r, top)) = Rank(d, r, top)
         /\ \A s \in RowsOf(d, r) : s < top =>
              /\ ChainBelow(d, r, top)[Rank(d, r, s) + 1] = Cell(r, s, d.rows[r][s].event)
              /\ ChainBelow(d, r, s) = SubSeq(ChainBelow(d, r, top), 1, Rank(d, r, s))
  <1> DEFINE n == Rank(d, r, top)
             at(i) == CHOOSE t \in RowsOf(d, r) : Rank(d, r, t) = i - 1
             cell(i) == Cell(r, at(i), d.rows[r][at(i)].event)
             all == ChainBelow(d, r, top)
  <1>1. n \in Nat /\ \A i \in 1..n : at(i) \in RowsOf(d, r) /\ Rank(d, r, at(i)) = i - 1
    <2>1. n \in Nat
      BY Ranks
    <2>2. \A i \in 1..n : \E s \in RowsOf(d, r) : s < top /\ Rank(d, r, s) = i - 1
      BY Ranks
    <2> HIDE DEF n
    <2>3. \A i \in 1..n : \E s \in RowsOf(d, r) : Rank(d, r, s) = i - 1
      BY <2>2
    <2> QED
      BY <2>1, <2>3
  <1>2. \A i \in 1..n : cell(i) \in Cells
    BY <1>1 DEF Cell, Cells, RowsOf
  <1>3. \A s : ChainBelow(d, r, s) = [i \in 1..Rank(d, r, s) |-> cell(i)]
    BY DEF ChainBelow
  <1>4. \A s \in RowsOf(d, r) : s < top => Rank(d, r, s) \in 0..(n - 1)
    BY Ranks
  <1>5. \A s, t \in RowsOf(d, r) : Rank(d, r, s) = Rank(d, r, t) => s = t
    BY Ranks
  <1>6. \A s \in RowsOf(d, r) : s < top =>
          cell(Rank(d, r, s) + 1) = Cell(r, s, d.rows[r][s].event)
    <2> SUFFICES ASSUME NEW s \in RowsOf(d, r), s < top
                 PROVE  at(Rank(d, r, s) + 1) = s
      OBVIOUS
    <2>1. Rank(d, r, s) \in 0..(n - 1)
      BY <1>4
    <2>2. \A m \in Nat : \A i \in 0..(m - 1) : i + 1 \in 1..m /\ i + 1 - 1 = i
      OBVIOUS
    <2>3. s \in RowsOf(d, r)
      OBVIOUS
    <2> HIDE DEF at, n
    <2>4. PICK j : j = Rank(d, r, s) + 1 /\ j \in 1..n /\ j - 1 = Rank(d, r, s)
      BY <1>1, <2>1, <2>2
    <2>5. at(j) \in RowsOf(d, r) /\ Rank(d, r, at(j)) = j - 1
      BY <1>1, <2>4
    <2>6. Rank(d, r, at(j)) = Rank(d, r, s)
      BY <2>4, <2>5
    <2>7. at(j) = s
      BY <1>5, <2>3, <2>5, <2>6
    <2> QED
      BY <2>4, <2>7
  <1> HIDE DEF n, cell, all
  <1>7. all = [i \in 1..n |-> cell(i)]
    BY <1>3 DEF all, n
  <1>8. all \in [1..n -> Cells]
    BY <1>2, <1>7
  <1>9. all \in Seq(Cells) /\ Len(all) = n
    <2>1. all \in Seq(Cells)
      <3> HIDE DEF all
      <3> QED
        BY <1>1, <1>8, SeqDef
    <2>2. Len(all) \in Nat /\ DOMAIN all = 1..Len(all)
      BY <2>1, LenProperties
    <2>3. DOMAIN all = 1..n /\ n \in Nat
      BY <1>1, <1>7
    <2>4. \A a, b \in Nat : 1..a = 1..b => a = b
      OBVIOUS
    <2> HIDE DEF all
    <2> QED
      BY <2>1, <2>2, <2>3, <2>4
  <1>10. ASSUME NEW s \in RowsOf(d, r), s < top
         PROVE  ChainBelow(d, r, s) = SubSeq(all, 1, Rank(d, r, s))
    <2> DEFINE m == Rank(d, r, s)
               low == ChainBelow(d, r, s)
               pre == SubSeq(all, 1, m)
    <2>1. m \in 0..(n - 1)
      BY <1>4, <1>10
    <2>2. low = [i \in 1..m |-> cell(i)]
      BY <1>3
    <2> HIDE DEF m, low
    <2>3. low \in [1..m -> Cells] /\ m \in Nat
      BY <1>1, <1>2, <2>1, <2>2
    <2>4. low \in Seq(Cells)
      BY <2>3, SeqDef
    <2>5. Len(low) = m
      <3>1. Len(low) \in Nat /\ DOMAIN low = 1..Len(low)
        BY <2>4, LenProperties
      <3> QED
        BY <2>2, <2>3, <3>1
    <2>6. \A i \in 1..m : all[i] = cell(i) /\ all[i] \in Cells
      BY <1>1, <1>2, <1>7, <2>1
    <2>7. /\ pre \in Seq(Cells) /\ Len(pre) = m
          /\ \A i \in 1..m : pre[i] = all[i]
      <3>1. /\ pre \in Seq(Cells)
            /\ Len(pre) = IF 1 <= m THEN m - 1 + 1 ELSE 0
            /\ \A i \in 1..(m - 1 + 1) : pre[i] = all[1 + i - 1]
        BY <2>3, <2>6, SubSeqProperties
      <3> HIDE DEF pre
      <3> QED
        BY <2>3, <3>1
    <2> HIDE DEF pre
    <2>8. \A i \in 1..Len(low) : low[i] = pre[i]
      BY <2>2, <2>5, <2>6, <2>7
    <2>9. low = pre
      BY <2>4, <2>5, <2>7, <2>8, SeqEqual
    <2> QED
      BY <2>9 DEF low, pre, m
  <1>11. ASSUME NEW s \in RowsOf(d, r), s < top
         PROVE  all[Rank(d, r, s) + 1] = Cell(r, s, d.rows[r][s].event)
    <2>1. Rank(d, r, s) + 1 \in 1..n
      BY <1>1, <1>4, <1>11
    <2> QED
      BY <1>6, <1>7, <1>11, <2>1
  <1> QED
    BY <1>9, <1>10, <1>11 DEF all, n

----------------------------------------------------------------------------
(* Files nobody edited.                                                     *)

\* A file from before the chain.
Unchained(d, r) ==
  /\ d.appended[r] = ChainBelow(d, r, MaxSeq + 1)
  /\ d.head[r] = NoHead
  /\ \A s \in RowsOf(d, r) : d.rows[r][s].event \in Event

SoundFile(d) ==
  /\ FileShape(d)
  /\ d.head = [r \in Run |-> d.head[r]]
  /\ d.appended = [r \in Run |-> d.appended[r]]
  /\ \A r \in Run : IF d.format = "legacy" THEN Unchained(d, r) ELSE Chained(d, r)

\* What was appended to d was appended to v, in the same order.
ContinuedBy(d, v) ==
  \A r \in Run :
    /\ Len(d.appended[r]) <= Len(v.appended[r])
    /\ SubSeq(v.appended[r], 1, Len(d.appended[r])) = d.appended[r]

\* The migration of a legacy file chains it.
LEMMA BackfillChains ==
  ASSUME NEW d, SoundFile(d), d.format = "legacy"
  PROVE  /\ SoundFile(Backfill(d)) /\ Backfill(d).format = "chained"
         /\ Backfill(d).appended = d.appended
  <1> DEFINE v == Backfill(d)
             row(r, s) == LET prev == ChainBelow(d, r, s)
                              e == d.rows[r][s].event
                          IN [event |-> e, idx |-> Len(prev), prev |-> prev,
                              hash |-> RowHash(prev, r, s, e)]
             top(r) == ChainBelow(d, r, MaxSeq + 1)
             rows == [r \in Run |-> [s \in Seqs |->
                        IF ~Taken(d, r, s) THEN NoRow ELSE row(r, s)]]
             head == [r \in Run |-> [len |-> Len(top(r)), hash |-> top(r)]]
  <1>0. d = [format |-> d.format, rows |-> d.rows, head |-> d.head, held |-> d.held,
             appended |-> d.appended]
    BY DEF SoundFile, FileShape
  <1>1. v = [d EXCEPT !.format = "chained", !.rows = rows, !.head = head]
    BY DEF Backfill
  <1>2. FileShape(v)
    BY BackfillKeepsLogs DEF SoundFile
  <1> HIDE DEF v, rows, head
  <1>3. v = [format |-> "chained", rows |-> rows, head |-> head, held |-> d.held,
             appended |-> d.appended]
    BY <1>0, <1>1
  <1>4. /\ v.format = "chained" /\ v.appended = d.appended
        /\ \A r \in Run : v.head[r] = [len |-> Len(top(r)), hash |-> top(r)]
        /\ v.head = [r \in Run |-> v.head[r]]
        /\ \A r \in Run, s \in Seqs :
             v.rows[r][s] = IF ~Taken(d, r, s) THEN NoRow ELSE row(r, s)
    BY <1>3 DEF head, rows
  <1>5. ASSUME NEW r \in Run PROVE Chained(v, r)
    <2>1. /\ d.appended[r] = top(r)
          /\ \A s \in RowsOf(d, r) : d.rows[r][s].event \in Event
      BY DEF SoundFile, Unchained
    <2>2. MaxSeq + 1 \in Nat /\ \A s \in Seqs : s \in Nat /\ s < MaxSeq + 1
      BY SqliteAssumption DEF Seqs
    <2>3. RowsOf(v, r) = RowsOf(d, r)
      <3>1. \A s \in Seqs : Taken(v, r, s) <=> Taken(d, r, s)
        <4>1. \A s \in Seqs : /\ Taken(v, r, s) <=> v.rows[r][s].event # NoEvent
                              /\ Taken(d, r, s) <=> d.rows[r][s].event # NoEvent
          BY <1>2 DEF SoundFile, FileShape
        <4>2. \A s \in Seqs : v.rows[r][s].event
                = IF ~Taken(d, r, s) THEN NoEvent ELSE d.rows[r][s].event
          <5>1. NoRow.event = NoEvent /\ \A s \in Seqs : row(r, s).event = d.rows[r][s].event
            BY DEF NoRow
          <5> HIDE DEF row
          <5> QED
            BY <1>4, <5>1
        <4> QED
          BY <4>1, <4>2
      <3> QED
        BY <3>1 DEF RowsOf
    <2>4. /\ top(r) \in Seq(Cells) /\ Len(top(r)) = Rank(d, r, MaxSeq + 1)
          /\ \A s \in RowsOf(d, r) :
               /\ top(r)[Rank(d, r, s) + 1] = Cell(r, s, d.rows[r][s].event)
               /\ ChainBelow(d, r, s) = SubSeq(top(r), 1, Rank(d, r, s))
      <3>1. RowsOf(d, r) \subseteq Seqs
        BY DEF RowsOf
      <3> QED
        BY <2>1, <2>2, <3>1, ChainIsSequence
    <2>5. \A s \in RowsOf(d, r) : s \in Seqs /\ Len(ChainBelow(d, r, s)) = Rank(d, r, s)
      <3>1. RowsOf(d, r) \subseteq Seqs
        BY DEF RowsOf
      <3> QED
        BY <2>1, <2>2, <3>1, ChainIsSequence
    <2>6. /\ \A s \in RowsOf(d, r) : Rank(d, r, s) \in 0..(Len(top(r)) - 1)
          /\ \A i \in 1..Len(top(r)) : \E s \in RowsOf(d, r) : Rank(d, r, s) = i - 1
      <3>1. \A s \in RowsOf(d, r) : s < MaxSeq + 1
        BY <2>2 DEF RowsOf
      <3> QED
        BY <2>2, <2>4, <3>1, Ranks
    <2>7. \A s \in RowsOf(d, r) :
            /\ v.rows[r][s].event = d.rows[r][s].event
            /\ v.rows[r][s].idx = Rank(d, r, s)
            /\ v.rows[r][s].prev = SubSeq(top(r), 1, Rank(d, r, s))
            /\ v.rows[r][s].hash = SubSeq(top(r), 1, Rank(d, r, s) + 1)
      <3> SUFFICES ASSUME NEW s \in RowsOf(d, r)
                   PROVE  /\ v.rows[r][s].event = d.rows[r][s].event
                          /\ v.rows[r][s].idx = Rank(d, r, s)
                          /\ v.rows[r][s].prev = SubSeq(top(r), 1, Rank(d, r, s))
                          /\ v.rows[r][s].hash = SubSeq(top(r), 1, Rank(d, r, s) + 1)
        OBVIOUS
      <3>1. v.rows[r][s] = row(r, s)
        BY <1>4, <2>5 DEF RowsOf
      <3>2. SubSeq(top(r), 1, Rank(d, r, s) + 1)
              = Append(SubSeq(top(r), 1, Rank(d, r, s)), top(r)[Rank(d, r, s) + 1])
        BY <2>4, <2>6, PrefixGrows
      <3> HIDE DEF top
      <3>3. SubSeq(top(r), 1, Rank(d, r, s) + 1)
              = RowHash(ChainBelow(d, r, s), r, s, d.rows[r][s].event)
        BY <2>4, <3>2 DEF RowHash
      <3> QED
        BY <2>4, <2>5, <3>1, <3>3
    <2> DEFINE all == top(r)
    <2> HIDE DEF top, row
    <2>8. v.appended[r] = all /\ all \in Seq(Cells) /\ v.head[r] = [len |-> Len(all), hash |-> all]
      BY <1>4, <2>1, <2>4
    <2>9. \A s \in RowsOf(v, r) :
            /\ v.rows[r][s].idx \in 0..(Len(all) - 1)
            /\ v.rows[r][s].prev = SubSeq(all, 1, v.rows[r][s].idx)
            /\ v.rows[r][s].hash = SubSeq(all, 1, v.rows[r][s].idx + 1)
            /\ all[v.rows[r][s].idx + 1] = Cell(r, s, v.rows[r][s].event)
      BY <2>3, <2>4, <2>6, <2>7
    <2>10. \A i \in 1..Len(all) : \E s \in RowsOf(v, r) : v.rows[r][s].idx = i - 1
      BY <2>3, <2>6, <2>7
    <2> HIDE DEF all
    <2> QED
      BY <2>8, <2>9, <2>10 DEF Chained
  <1> QED
    BY <1>2, <1>4, <1>5 DEF SoundFile, v

\* What is appended leaves the prefixes of a chain as they were.
LEMMA PrefixOfAppend ==
  ASSUME NEW S, NEW all \in Seq(S), NEW x \in S, NEW i \in 0..Len(all)
  PROVE  SubSeq(Append(all, x), 1, i) = SubSeq(all, 1, i)
  <1> DEFINE n == Len(all)
             more == Append(all, x)
             a == SubSeq(more, 1, i)
             b == SubSeq(all, 1, i)
  <1>1. n \in Nat /\ i \in Nat /\ \A j \in 1..i : j \in 1..n /\ 1 + j - 1 = j
    BY LenProperties
  <1>2. (\A j \in 1..n : more[j] = all[j]) /\ \A j \in 1..n : all[j] \in S
    BY AppendProperties, ElementOfSeq
  <1> HIDE DEF n, more
  <1>3. (\A j \in 1..i : more[j] \in S) /\ \A j \in 1..i : all[j] \in S
    BY <1>1, <1>2
  <1>4. /\ a \in Seq(S) /\ Len(a) = IF 1 <= i THEN i - 1 + 1 ELSE 0
        /\ \A j \in 1..(i - 1 + 1) : a[j] = more[1 + j - 1]
    BY <1>1, <1>3, SubSeqProperties
  <1>5. /\ b \in Seq(S) /\ Len(b) = IF 1 <= i THEN i - 1 + 1 ELSE 0
        /\ \A j \in 1..(i - 1 + 1) : b[j] = all[1 + j - 1]
    BY <1>1, <1>3, SubSeqProperties
  <1> HIDE DEF a, b
  <1>6. Len(a) = i /\ Len(b) = i /\ \A j \in 1..i : a[j] = b[j]
    BY <1>1, <1>2, <1>4, <1>5
  <1>7. a = b
    BY <1>4, <1>5, <1>6, SeqEqual
  <1> QED
    BY <1>7 DEF a, b, more

\* An append to a chained file chains the row it adds, whatever its position.
LEMMA AppendChains ==
  ASSUME NEW d, SoundFile(d), d.format # "legacy",
         NEW r \in Run, NEW s \in Seqs, NEW e \in Event, ~Taken(d, r, s)
  PROVE  /\ SoundFile(AppendRow(d, r, s, e))
         /\ AppendRow(d, r, s, e).format = d.format
         /\ ContinuedBy(d, AppendRow(d, r, s, e))
  <1> DEFINE v == AppendRow(d, r, s, e)
             all == d.appended[r]
             n == Len(all)
             cell == Cell(r, s, e)
             more == Append(all, cell)
             row == [event |-> e, idx |-> n, prev |-> all, hash |-> more]
             rows == [d.rows EXCEPT ![r][s] = row]
             top == [len |-> n + 1, hash |-> more]
             head == [d.head EXCEPT ![r] = top]
             appended == [d.appended EXCEPT ![r] = more]
  <1>a. all = d.appended[r] /\ n = Len(all) /\ cell = Cell(r, s, e) /\ more = Append(all, cell)
    OBVIOUS
  <1>1. Chained(d, r) /\ FileShape(d) /\ (\A q \in Run : Chained(d, q))
    BY DEF SoundFile
  <1>2. d.head[r].len = n /\ d.head[r].hash = all /\ all \in Seq(Cells) /\ n \in Nat
    BY <1>1, LenProperties DEF Chained
  <1>3. v = [format |-> d.format, rows |-> rows, head |-> head, held |-> d.held,
             appended |-> appended]
    <2>1. v = [d EXCEPT !.rows = rows, !.head = head, !.appended = appended]
      BY <1>2 DEF AppendRow, RowHash
    <2>2. d = [format |-> d.format, rows |-> d.rows, head |-> d.head, held |-> d.held,
               appended |-> d.appended]
      BY <1>1 DEF FileShape
    <2> HIDE DEF v, rows, head, appended
    <2> QED
      BY <2>1, <2>2
  <1>4. FileShape(v)
    BY <1>1, AppendRowAppends
  <1>5. /\ row.event = e /\ row.idx = n /\ row.prev = all /\ row.hash = more
        /\ row # NoRow
    BY SqliteAssumption DEF NoRow
  <1> HIDE DEF v, all, n, cell, more, row
  <1>6. \A q \in Run, t \in Seqs :
          v.rows[q][t] = IF q = r /\ t = s THEN row ELSE d.rows[q][t]
    <2>1. d.rows = [q \in Run |-> [t \in Seqs |-> d.rows[q][t]]]
      BY <1>1 DEF FileShape
    <2>2. rows = [q \in Run |-> [t \in Seqs |-> IF q = r /\ t = s THEN row ELSE d.rows[q][t]]]
      BY <2>1, CellChange
    <2> HIDE DEF rows
    <2> QED
      BY <1>3, <2>2
  <1>7. /\ v.appended = appended /\ v.head = head /\ v.format = d.format
        /\ v.appended = [q \in Run |-> v.appended[q]] /\ v.head = [q \in Run |-> v.head[q]]
        /\ v.appended[r] = more /\ v.head[r] = top
        /\ \A q \in Run \ {r} : v.appended[q] = d.appended[q] /\ v.head[q] = d.head[q]
    <2>1. d.head = [q \in Run |-> d.head[q]] /\ d.appended = [q \in Run |-> d.appended[q]]
      BY DEF SoundFile
    <2>2. /\ appended = [q \in Run |-> IF q = r THEN more ELSE d.appended[q]]
          /\ head = [q \in Run |-> IF q = r THEN top ELSE d.head[q]]
      BY <2>1
    <2> HIDE DEF appended, head, top
    <2> QED
      BY <1>3, <2>2
  <1>8. /\ RowsOf(v, r) = RowsOf(d, r) \cup {s} /\ s \notin RowsOf(d, r)
        /\ \A q \in Run \ {r} : RowsOf(v, q) = RowsOf(d, q)
    BY <1>5, <1>6 DEF RowsOf, Taken
  <1>9. ASSUME NEW q \in Run \ {r} PROVE Chained(v, q)
    <2>1. Chained(d, q) /\ RowsOf(v, q) = RowsOf(d, q) /\ RowsOf(d, q) \subseteq Seqs
      BY <1>1, <1>8, <1>9 DEF RowsOf
    <2>2. \A t \in RowsOf(d, q) : v.rows[q][t] = d.rows[q][t]
      BY <1>6, <1>9, <2>1
    <2>3. v.appended[q] = d.appended[q] /\ v.head[q] = d.head[q]
      BY <1>7, <1>9
    <2> QED
      BY <2>1, <2>2, <2>3 DEF Chained
  <1>10. /\ more \in Seq(Cells) /\ Len(more) = n + 1 /\ more[n + 1] = cell
         /\ \A i \in 1..n : more[i] = all[i]
         /\ SubSeq(more, 1, n + 1) = more /\ SubSeq(more, 1, n) = all
         /\ \A i \in 0..n : SubSeq(more, 1, i) = SubSeq(all, 1, i)
    <2>1. cell \in Cells
      BY DEF cell, Cell, Cells
    <2>2. /\ more \in Seq(Cells) /\ Len(more) = Len(all) + 1 /\ more[Len(all) + 1] = cell
          /\ \A i \in 1..Len(all) : more[i] = all[i]
      BY <1>2, <2>1, AppendProperties DEF more
    <2>3. SubSeq(more, 1, Len(more)) = more
      BY <2>2, SubSeqFull
    <2>4. \A i \in 0..Len(all) : SubSeq(more, 1, i) = SubSeq(all, 1, i)
      BY <1>2, <2>1, PrefixOfAppend DEF more
    <2>5. SubSeq(all, 1, Len(all)) = all
      BY <1>2, SubSeqFull
    <2>6. n \in 0..n
      BY <1>2
    <2>7. n = Len(all)
      BY <1>a
    <2> QED
      BY <2>2, <2>3, <2>4, <2>5, <2>6, <2>7
  <1>11. Chained(v, r)
    <2>1. /\ \A t \in RowsOf(d, r) :
               /\ d.rows[r][t].idx \in 0..(n - 1)
               /\ d.rows[r][t].prev = SubSeq(all, 1, d.rows[r][t].idx)
               /\ d.rows[r][t].hash = SubSeq(all, 1, d.rows[r][t].idx + 1)
               /\ all[d.rows[r][t].idx + 1] = Cell(r, t, d.rows[r][t].event)
          /\ \A i \in 1..n : \E t \in RowsOf(d, r) : d.rows[r][t].idx = i - 1
      BY <1>1 DEF Chained, all, n
    <2>2. \A t \in RowsOf(d, r) : v.rows[r][t] = d.rows[r][t]
      BY <1>6, <1>8 DEF RowsOf
    <2>3. v.rows[r][s] = row
      BY <1>6
    <2>4. ASSUME NEW t \in RowsOf(v, r)
          PROVE  /\ v.rows[r][t].idx \in 0..(Len(more) - 1)
                 /\ v.rows[r][t].prev = SubSeq(more, 1, v.rows[r][t].idx)
                 /\ v.rows[r][t].hash = SubSeq(more, 1, v.rows[r][t].idx + 1)
                 /\ more[v.rows[r][t].idx + 1] = Cell(r, t, v.rows[r][t].event)
      <3>1. CASE t = s
        BY <1>2, <1>5, <1>10, <2>3, <3>1 DEF cell
      <3>2. CASE t \in RowsOf(d, r)
        <4>1. PICK i \in 0..(n - 1) : i = d.rows[r][t].idx
          BY <2>1, <3>2
        <4>2. i \in 0..n /\ i + 1 \in 0..n /\ i + 1 \in 1..n /\ i \in 0..(Len(more) - 1)
          BY <1>2, <1>10
        <4>3. /\ SubSeq(more, 1, i) = SubSeq(all, 1, i)
              /\ SubSeq(more, 1, i + 1) = SubSeq(all, 1, i + 1)
              /\ more[i + 1] = all[i + 1]
          BY <1>10, <4>2
        <4> QED
          BY <2>1, <2>2, <3>2, <4>1, <4>2, <4>3
      <3> QED
        BY <1>8, <3>1, <3>2
    <2>5. ASSUME NEW i \in 1..Len(more)
          PROVE  \E t \in RowsOf(v, r) : v.rows[r][t].idx = i - 1
      <3>1. CASE i = n + 1
        BY <1>2, <1>5, <1>8, <2>3, <3>1
      <3>2. CASE i # n + 1
        <4>1. i \in 1..n
          BY <1>2, <1>10, <3>2
        <4> QED
          BY <1>8, <2>1, <2>2, <4>1
      <3> QED
        BY <3>1, <3>2
    <2>6. v.head[r] = [len |-> Len(more), hash |-> more]
      BY <1>7, <1>10
    <2> QED
      BY <1>7, <1>10, <2>4, <2>5, <2>6 DEF Chained
  <1>12. ContinuedBy(d, v)
    <2>1. ASSUME NEW q \in Run \ {r}
          PROVE  /\ Len(d.appended[q]) <= Len(v.appended[q])
                 /\ SubSeq(v.appended[q], 1, Len(d.appended[q])) = d.appended[q]
      <3>1. d.appended[q] \in Seq(Cells) /\ v.appended[q] = d.appended[q]
        BY <1>1, <1>7, <2>1 DEF Chained
      <3>2. Len(d.appended[q]) \in Nat /\ SubSeq(d.appended[q], 1, Len(d.appended[q])) = d.appended[q]
        BY <3>1, LenProperties, SubSeqFull
      <3> QED
        BY <3>1, <3>2
    <2>2. /\ Len(d.appended[r]) <= Len(v.appended[r])
          /\ SubSeq(v.appended[r], 1, Len(d.appended[r])) = d.appended[r]
      BY <1>a, <1>2, <1>7, <1>10
    <2> QED
      BY <2>1, <2>2 DEF ContinuedBy
  <1>13. SoundFile(v)
    <2>1. \A q \in Run : Chained(v, q)
      BY <1>9, <1>11
    <2> QED
      BY <1>4, <1>7, <2>1 DEF SoundFile
  <1> QED
    BY <1>7, <1>12, <1>13 DEF v

\* The chain over the rows of a run is a matter of those rows.
LEMMA SameRows ==
  ASSUME NEW d, NEW w, NEW r \in Run, w.rows[r] = d.rows[r], NEW top \in Nat
  PROVE  RowsOf(w, r) = RowsOf(d, r) /\ ChainBelow(w, r, top) = ChainBelow(d, r, top)
  <1>1. RowsOf(w, r) = RowsOf(d, r)
    BY DEF RowsOf, Taken
  <1>2. \A s : Rank(w, r, s) = Rank(d, r, s)
    BY <1>1 DEF Rank
  <1> DEFINE n == Rank(d, r, top)
             at(x, i) == CHOOSE t \in RowsOf(x, r) : Rank(x, r, t) = i - 1
  <1>3. \A i \in 1..n : at(w, i) = at(d, i)
    <2>0. \A i \in 1..n : \E t \in RowsOf(d, r) : t < top /\ Rank(d, r, t) = i - 1
      BY Ranks
    <2>1. /\ \A i \in 1..n : \E t \in RowsOf(d, r) : Rank(d, r, t) = i - 1
          /\ \A s, t \in RowsOf(d, r) : Rank(d, r, s) = Rank(d, r, t) => s = t
      <3> HIDE DEF at
      <3>1. \A s, t \in RowsOf(d, r) : Rank(d, r, s) = Rank(d, r, t) => s = t
        BY Ranks
      <3> HIDE DEF n
      <3> QED
        BY <2>0, <3>1
    <2> SUFFICES ASSUME NEW i \in 1..n PROVE at(w, i) = at(d, i)
      OBVIOUS
    <2>2. at(d, i) \in RowsOf(d, r) /\ Rank(d, r, at(d, i)) = i - 1
      BY <2>1
    <2>3. at(w, i) \in RowsOf(w, r) /\ Rank(w, r, at(w, i)) = i - 1
      <3>1. \E t \in RowsOf(w, r) : Rank(w, r, t) = i - 1
        BY <1>1, <1>2, <2>1
      <3> QED
        BY <3>1
    <2> HIDE DEF at
    <2> QED
      BY <1>1, <1>2, <2>1, <2>2, <2>3
  <1>4. /\ ChainBelow(d, r, top) = [i \in 1..n |-> Cell(r, at(d, i), d.rows[r][at(d, i)].event)]
        /\ ChainBelow(w, r, top) = [i \in 1..n |-> Cell(r, at(w, i), w.rows[r][at(w, i)].event)]
    BY <1>2 DEF ChainBelow
  <1> HIDE DEF at
  <1> QED
    BY <1>1, <1>3, <1>4

\* Neither the commitments nor the format, short of legacy, is part of a chain.
LEMMA SameChains ==
  ASSUME NEW d, SoundFile(d), NEW w, FileShape(w),
         w.rows = d.rows, w.head = d.head, w.appended = d.appended,
         w.format = "legacy" <=> d.format = "legacy"
  PROVE  SoundFile(w)
  <1>1. MaxSeq + 1 \in Nat
    BY SqliteAssumption
  <1>2. \A r \in Run : /\ RowsOf(w, r) = RowsOf(d, r)
                       /\ ChainBelow(w, r, MaxSeq + 1) = ChainBelow(d, r, MaxSeq + 1)
    BY <1>1, SameRows
  <1>3. \A r \in Run : IF w.format = "legacy" THEN Unchained(w, r) ELSE Chained(w, r)
    <2> SUFFICES ASSUME NEW r \in Run
                 PROVE  IF w.format = "legacy" THEN Unchained(w, r) ELSE Chained(w, r)
      OBVIOUS
    <2>1. CASE d.format = "legacy"
      BY <1>2, <2>1 DEF SoundFile, Unchained
    <2>2. CASE d.format # "legacy"
      BY <1>2, <2>2 DEF SoundFile, Chained
    <2> QED
      BY <2>1, <2>2
  <1> QED
    BY <1>3 DEF SoundFile

LEMMA HistoryIsSequence ==
  ASSUME NEW d, SoundFile(d), NEW r \in Run
  PROVE  d.appended[r] \in Seq(Cells)
  <1>1. CASE d.format = "legacy"
    <2>1. Unchained(d, r)
      BY <1>1 DEF SoundFile
    <2>2. MaxSeq + 1 \in Nat
      BY SqliteAssumption
    <2> QED
      BY <2>1, <2>2, ChainIsSequence DEF Unchained
  <1>2. CASE d.format # "legacy"
    BY <1>2 DEF SoundFile, Chained
  <1> QED
    BY <1>1, <1>2

LEMMA ContinuesItself ==
  ASSUME NEW d, SoundFile(d), NEW v, v.appended = d.appended
  PROVE  ContinuedBy(d, v)
  <1> SUFFICES ASSUME NEW r \in Run
               PROVE  /\ Len(d.appended[r]) <= Len(d.appended[r])
                      /\ SubSeq(d.appended[r], 1, Len(d.appended[r])) = d.appended[r]
    BY DEF ContinuedBy
  <1>1. d.appended[r] \in Seq(Cells)
    BY HistoryIsSequence
  <1> QED
    BY <1>1, LenProperties, SubSeqFull

\* The heads of a file are passed through by the chains of what continues it.
LEMMA HeadsArePassed ==
  ASSUME NEW d, SoundFile(d), NEW v, SoundFile(v), ContinuedBy(d, v),
         d.format # "legacy" => v.format # "legacy", NEW r \in Run
  PROVE  PassesThrough(v, r, d.head[r]) /\ v.head[r].len >= d.head[r].len
  <1>1. v.head[r].len \in Nat
    <2>1. CASE v.format = "legacy"
      BY <2>1 DEF SoundFile, Unchained, NoHead
    <2>2. CASE v.format # "legacy"
      <3>1. v.appended[r] \in Seq(Cells) /\ v.head[r].len = Len(v.appended[r])
        <4>1. Chained(v, r)
          BY <2>2 DEF SoundFile
        <4> QED
          BY <4>1 DEF Chained
      <3> QED
        BY <3>1, LenProperties
    <2> QED
      BY <2>1, <2>2
  <1>2. CASE d.format = "legacy"
    <2>1. d.head[r].len = 0
      BY <1>2 DEF SoundFile, Unchained, NoHead
    <2> QED
      BY <1>1, <2>1 DEF PassesThrough
  <1>3. CASE d.format # "legacy"
    <2> DEFINE all == d.appended[r]
               more == v.appended[r]
               n == Len(all)
               m == Len(more)
    <2>0. Chained(d, r) /\ Chained(v, r)
      BY <1>3 DEF SoundFile
    <2>1. /\ d.head[r].len = n /\ d.head[r].hash = all
          /\ all \in Seq(Cells) /\ n \in Nat
      BY <2>0, LenProperties DEF Chained
    <2>2. /\ v.head[r].len = m /\ more \in Seq(Cells) /\ m \in Nat
          /\ \A i \in 1..m : \E s \in RowsOf(v, r) : v.rows[r][s].idx = i - 1
          /\ \A s \in RowsOf(v, r) : v.rows[r][s].hash = SubSeq(more, 1, v.rows[r][s].idx + 1)
      BY <2>0, LenProperties DEF Chained
    <2>3. n <= m /\ SubSeq(more, 1, n) = all
      BY DEF ContinuedBy
    <2> HIDE DEF all, more, n, m
    <2>4. ASSUME n > 0
          PROVE  \E s \in RowsOf(v, r) : v.rows[r][s].idx = n - 1 /\ v.rows[r][s].hash = all
      <3>1. n \in 1..m /\ n - 1 + 1 = n
        BY <2>1, <2>2, <2>3, <2>4
      <3>2. PICK s \in RowsOf(v, r) : v.rows[r][s].idx = n - 1
        BY <2>2, <3>1
      <3>3. v.rows[r][s].hash = SubSeq(more, 1, n)
        BY <2>2, <3>1, <3>2
      <3> QED
        BY <2>3, <3>2, <3>3
    <2> QED
      BY <2>1, <2>2, <2>3, <2>4 DEF PassesThrough
  <1> QED
    BY <1>2, <1>3

----------------------------------------------------------------------------
(* The connections of a file nobody edited.                                 *)

\* A connection past its opening found, or made, the file one that keeps the
\* chain; what a writer is about to publish and what a reader is about to check
\* are sound.
HonestIn(me, d) ==
  /\ me.pc = "found" /\ ~me.legacy => d.format # "legacy"
  /\ me.pc \in {"create", "ready", "write", "settle", "claim", "head", "served"} =>
       d.format # "legacy"
  /\ me.pc \in {"settle", "commit", "head"} =>
       SoundFile(me.view) /\ me.view.format # "legacy"
  /\ me.pc \in {"settle", "commit"} => ContinuedBy(d, me.view)
  /\ me.pc = "head" => me.call.run \in Run
  /\ me.pc # "refused"

Honest == SoundFile(db) /\ \A c \in Conn : HonestIn(conn[c], db)

ChainInv == /\ StoreInv
            /\ edits \in Nat
            /\ edits = 0 => Honest

LEMMA InitIsHonest == Init => ChainInv
  <1> SUFFICES ASSUME Init PROVE Honest
    BY InitIsSound DEF ChainInv, Init
  <1> DEFINE rows == [r \in Run |-> [s \in Seqs |-> [NoRow EXCEPT !.event = Inherited[r][s]]]]
             old == [rows |-> rows]
  <1>1. /\ db.rows = rows /\ db.head = [r \in Run |-> NoHead]
        /\ db.appended = [r \in Run |-> ChainBelow(old, r, MaxSeq + 1)]
        /\ db.format \in {"legacy", "empty"}
        /\ db.format = "empty" => \A r \in Run, s \in Seqs : Inherited[r][s] = NoEvent
    BY DEF Init
  <1>2. /\ old.rows = rows
        /\ \A r \in Run, s \in Seqs : /\ rows[r][s].event = Inherited[r][s]
                                      /\ Inherited[r][s] = NoEvent => rows[r][s] = NoRow
                                      /\ Inherited[r][s] \in Event \cup {NoEvent}
    BY SqliteAssumption DEF NoRow
  <1> HIDE DEF rows, old
  <1>3. \A r \in Run : db.appended[r] = ChainBelow(db, r, MaxSeq + 1) /\ db.head[r] = NoHead
    <2>1. \A r \in Run : ChainBelow(old, r, MaxSeq + 1) = ChainBelow(db, r, MaxSeq + 1)
      <3>1. MaxSeq + 1 \in Nat /\ \A r \in Run : old.rows[r] = db.rows[r]
        BY <1>1, <1>2, SqliteAssumption
      <3> QED
        BY <3>1, SameRows
    <2> QED
      BY <1>1, <2>1
  <1>4. ASSUME NEW r \in Run PROVE \A s \in RowsOf(db, r) : db.rows[r][s].event \in Event
    BY <1>1, <1>2 DEF RowsOf, Taken
  <1>5. ASSUME NEW r \in Run, db.format = "empty" PROVE Chained(db, r)
    <2>1. RowsOf(db, r) = {}
      BY <1>1, <1>2, <1>5 DEF RowsOf, Taken
    <2>2. Rank(db, r, MaxSeq + 1) = 0
      <3>1. {t \in RowsOf(db, r) : t < MaxSeq + 1} = {}
        BY <2>1
      <3> QED
        BY <3>1, FS_EmptySet DEF Rank
    <2>3. /\ ChainBelow(db, r, MaxSeq + 1) \in Seq(Cells)
          /\ Len(ChainBelow(db, r, MaxSeq + 1)) = 0
      <3>1. MaxSeq + 1 \in Nat
        BY SqliteAssumption
      <3> QED
        BY <1>4, <2>2, <3>1, ChainIsSequence
    <2>4. db.appended[r] = <<>> /\ <<>> \in Seq(Cells) /\ Len(<<>>) = 0
      BY <1>3, <2>3, EmptySeq
    <2> QED
      BY <1>3, <2>1, <2>4 DEF Chained, NoHead, Genesis
  <1>6. SoundFile(db)
    <2>1. FileShape(db)
      BY InitIsSound DEF StoreInv
    <2>2. db.head = [r \in Run |-> db.head[r]] /\ db.appended = [r \in Run |-> db.appended[r]]
      BY <1>1
    <2>3. ASSUME NEW r \in Run PROVE Unchained(db, r)
      BY <1>3, <1>4 DEF Unchained
    <2> QED
      BY <1>1, <1>5, <2>1, <2>2, <2>3 DEF SoundFile
  <1>7. \A c \in Conn : conn[c].pc = "closed"
    BY DEF Init, Closed
  <1> QED
    BY <1>6, <1>7 DEF Honest, HonestIn

\* One connection moves and the file does not.
LEMMA HonestMoves ==
  ASSUME StoreInv, Honest, NEW c \in Conn, NEW me, Become(c, me), db' = db, HonestIn(me, db)
  PROVE  Honest'
  <1>1. conn' = [conn EXCEPT ![c] = me] /\ conn = [a \in Conn |-> conn[a]]
    BY DEF Become, StoreInv
  <1>2. conn'[c] = me /\ \A a \in Conn \ {c} : conn'[a] = conn[a]
    BY <1>1
  <1>3. SoundFile(db') /\ \A a \in Conn : HonestIn(conn'[a], db')
    BY <1>2 DEF Honest
  <1> QED
    BY <1>3 DEF Honest

\* What is known of one connection, and of the file.
LEMMA ConnIsHonest ==
  ASSUME StoreInv, Honest, NEW c \in Conn
  PROVE  /\ SoundFile(db) /\ HonestIn(conn[c], db)
         /\ FileShape(db) /\ ConnShape(conn[c]) /\ CurrentIn(conn[c], db)
         /\ conn[c].pc \in WriteStages <=> writer = c
  BY ConnIsSound DEF Honest

\* A statement of a writing transaction leaves a view that may be published.
LEMMA WorksHonestly ==
  ASSUME StoreInv, Honest, NEW c \in Conn, NEW pc \in {"settle", "commit"}, NEW v,
         Within(c, pc, v), SoundFile(v), v.format # "legacy", ContinuedBy(db, v),
         pc = "settle" => db.format # "legacy"
  PROVE  Honest'
  <1> DEFINE me == InTransaction(pc, conn[c].call, v)
  <1>1. me.pc = pc /\ me.view = v /\ Become(c, me) /\ db' = db
    BY DEF InTransaction, Within
  <1> HIDE DEF me
  <1>2. HonestIn(me, db)
    BY <1>1 DEF HonestIn
  <1> QED
    BY <1>1, <1>2, HonestMoves

\* A transaction begins, at its first statement.
LEMMA BeginsHonestly ==
  ASSUME StoreInv, Honest, NEW c \in Conn, NEW call,
         NEW pc \in {"create", "upgrade", "write", "claim"}, Begin(c, pc, call),
         pc # "upgrade" => db.format # "legacy"
  PROVE  Honest'
  <1> DEFINE me == InTransaction(pc, call, db)
  <1>1. me.pc = pc /\ Become(c, me) /\ db' = db
    BY DEF InTransaction, Begin
  <1> HIDE DEF me
  <1>2. HonestIn(me, db)
    BY <1>1 DEF HonestIn
  <1> QED
    BY <1>1, <1>2, HonestMoves

\* A connection is left outside any transaction.
LEMMA LeavesHonestly ==
  ASSUME StoreInv, Honest, NEW c \in Conn, NEW me, Become(c, me), db' = db,
         me.pc \in {"closed", "refusedOpen", "ready"}, me.pc = "ready" => db.format # "legacy"
  PROVE  Honest'
  <1>1. HonestIn(me, db)
    BY DEF HonestIn
  <1> QED
    BY <1>1, HonestMoves

LEMMA OpeningIsHonest ==
  ASSUME StoreInv, Honest, NEW c \in Conn,
         \/ Open(c) \/ BeginMigration(c) \/ CreateTables(c) \/ Upgrade(c) \/ GiveUpOpening(c)
  PROVE  Honest'
  <1>1. CASE Open(c)
    <2> DEFINE me == [Closed EXCEPT !.pc = "found", !.legacy = (db.format = "legacy")]
    <2>1. me.pc = "found" /\ (~me.legacy => db.format # "legacy") /\ Become(c, me) /\ db' = db
      BY <1>1 DEF Open, Closed
    <2> HIDE DEF me
    <2>2. HonestIn(me, db)
      BY <2>1 DEF HonestIn
    <2> QED
      BY <2>1, <2>2, HonestMoves
  <1>2. CASE BeginMigration(c)
    <2>1. conn[c].pc = "found" /\ (~conn[c].legacy => db.format # "legacy")
      BY <1>2, ConnIsHonest DEF BeginMigration, HonestIn
    <2>2. CASE conn[c].legacy
      BY <1>2, <2>2, BeginsHonestly DEF BeginMigration
    <2>3. CASE ~conn[c].legacy
      BY <1>2, <2>1, <2>3, BeginsHonestly DEF BeginMigration
    <2> QED
      BY <2>2, <2>3
  <1>3. CASE CreateTables(c)
    <2> DEFINE v == [db EXCEPT !.format = "chained"]
    <2>1. conn[c].view = db /\ db.format # "legacy" /\ SoundFile(db) /\ FileShape(db)
      BY <1>3, ConnIsHonest DEF CreateTables, CurrentIn, HonestIn
    <2>2. v = [format |-> "chained", rows |-> db.rows, head |-> db.head, held |-> db.held,
               appended |-> db.appended]
      <3>1. ASSUME NEW x, NEW a, NEW b, NEW h, NEW k, NEW l,
                   x = [format |-> a, rows |-> b, head |-> h, held |-> k, appended |-> l]
            PROVE  [x EXCEPT !.format = "chained"]
                     = [format |-> "chained", rows |-> b, head |-> h, held |-> k, appended |-> l]
        BY <3>1
      <3> QED
        BY <2>1, <3>1 DEF FileShape
    <2>3. Within(c, "commit", v)
      BY <1>3, <2>1 DEF CreateTables
    <2> HIDE DEF v
    <2>4. FileShape(v)
      BY <2>1, <2>2 DEF FileShape, Taken
    <2>5. v.rows = db.rows /\ v.head = db.head /\ v.appended = db.appended /\ v.format = "chained"
      BY <2>2
    <2>6. SoundFile(v) /\ ContinuedBy(db, v)
      BY <2>1, <2>4, <2>5, SameChains, ContinuesItself
    <2> QED
      BY <2>3, <2>5, <2>6, WorksHonestly
  <1>4. CASE Upgrade(c)
    <2>1. conn[c].view = db /\ SoundFile(db)
      BY <1>4, ConnIsHonest DEF Upgrade, CurrentIn
    <2>2. CASE db.format = "legacy"
      <3>1. Within(c, "commit", Backfill(db))
        BY <1>4, <2>1, <2>2 DEF Upgrade
      <3>2. /\ SoundFile(Backfill(db)) /\ Backfill(db).format = "chained"
            /\ ContinuedBy(db, Backfill(db))
        BY <2>1, <2>2, BackfillChains, ContinuesItself
      <3> QED
        BY <3>1, <3>2, WorksHonestly
    <2>3. CASE db.format # "legacy"
      <3> DEFINE me == [Closed EXCEPT !.pc = "refusedOpen"]
      <3>1. Become(c, me) /\ db' = db /\ me.pc = "refusedOpen"
        BY <1>4, <2>1, <2>3 DEF Upgrade, RollBack, Closed
      <3> HIDE DEF me
      <3> QED
        BY <3>1, LeavesHonestly
    <2> QED
      BY <2>2, <2>3
  <1>5. CASE GiveUpOpening(c)
    <2>1. Become(c, Closed) /\ db' = db /\ Closed.pc = "closed"
      BY <1>5 DEF GiveUpOpening, Closed
    <2> QED
      BY <2>1, LeavesHonestly
  <1> QED
    BY <1>1, <1>2, <1>3, <1>4, <1>5

LEMMA WritingIsHonest ==
  ASSUME StoreInv, Honest, NEW c \in Conn,
         \/ \E r \in Run, s \in Seqs, e \in Event :
              \/ BeginAppend(c, r, s, e)
              \/ \E k \in Ident, i \in Seqs : BeginSettlingAppend(c, r, s, e, k, i)
         \/ \E k \in Ident, r \in Run, i \in Seqs : BeginClaim(c, k, r, i)
         \/ WriteRow(c) \/ Settle(c) \/ InsertClaim(c)
  PROVE  Honest'
  <1>0. Ready.pc = "ready"
    BY DEF Ready, Closed
  <1>1. CASE \/ \E r \in Run, s \in Seqs, e \in Event :
                  \/ BeginAppend(c, r, s, e)
                  \/ \E k \in Ident, i \in Seqs : BeginSettlingAppend(c, r, s, e, k, i)
             \/ \E k \in Ident, r \in Run, i \in Seqs : BeginClaim(c, k, r, i)
    <2>1. conn[c].pc = "ready" /\ \E pc \in {"write", "claim"} : \E call : Begin(c, pc, call)
      BY <1>1 DEF BeginAppend, BeginSettlingAppend, BeginClaim
    <2>2. db.format # "legacy"
      BY <2>1, ConnIsHonest DEF HonestIn
    <2> QED
      BY <2>1, <2>2, BeginsHonestly
  <1>2. CASE WriteRow(c)
    <2> DEFINE call == conn[c].call
               v == AppendRow(db, call.run, call.seq, call.event)
    <2>1. /\ conn[c].view = db /\ SoundFile(db) /\ db.format # "legacy" /\ KnowsRow(call)
      BY <1>2, ConnIsHonest DEF WriteRow, CurrentIn, ConnShape, HonestIn
    <2>2. CASE Taken(db, call.run, call.seq)
      BY <1>0, <1>2, <2>1, <2>2, LeavesHonestly DEF WriteRow, RollBack
    <2>3. CASE ~Taken(db, call.run, call.seq)
      <3>1. SoundFile(v) /\ v.format = db.format /\ ContinuedBy(db, v)
        BY <2>1, <2>3, AppendChains DEF KnowsRow
      <3>2. \E pc \in {"settle", "commit"} : Within(c, pc, v)
        BY <1>2, <2>1, <2>3 DEF WriteRow
      <3> HIDE DEF v
      <3> QED
        BY <2>1, <3>1, <3>2, WorksHonestly
    <2> QED
      BY <2>2, <2>3
  <1>3. ASSUME NEW d, SoundFile(d), d.format # "legacy", ContinuedBy(db, d),
               NEW k \in Ident, NEW x, Within(c, "commit", [d EXCEPT !.held = [d.held EXCEPT ![k] = x]])
        PROVE  Honest'
    <2> DEFINE held == [d.held EXCEPT ![k] = x]
               v == [d EXCEPT !.held = held]
    <2>1. FileShape(v)
      BY <1>3, HeldChanges DEF SoundFile
    <2>2. d = [format |-> d.format, rows |-> d.rows, head |-> d.head, held |-> d.held,
               appended |-> d.appended]
      BY <1>3 DEF SoundFile, FileShape
    <2> HIDE DEF held
    <2>3. /\ v.rows = d.rows /\ v.head = d.head /\ v.appended = d.appended
          /\ v.format = d.format
      BY <2>2
    <2>4. Within(c, "commit", v)
      BY <1>3 DEF held
    <2> HIDE DEF v
    <2>5. SoundFile(v)
      BY <1>3, <2>1, <2>3, SameChains
    <2>6. ContinuedBy(db, v)
      BY <1>3, <2>3 DEF ContinuedBy
    <2> QED
      BY <1>3, <2>3, <2>4, <2>5, <2>6, WorksHonestly
  <1>4. CASE Settle(c)
    <2> DEFINE call == conn[c].call
               view == conn[c].view
               k == call.claim[1]
               x == [view.held[k] EXCEPT !.done = call.seq]
    <2>1. /\ SoundFile(view) /\ view.format # "legacy" /\ ContinuedBy(db, view)
          /\ k \in Ident /\ db.format # "legacy"
      BY <1>4, ConnIsHonest DEF Settle, HonestIn, ConnShape, KnowsClaim
    <2>2. CASE view.held[k] = [run |-> call.run, intent |-> call.claim[2], done |-> Null]
      <3>1. Within(c, "commit", [view EXCEPT !.held = [view.held EXCEPT ![k] = x]])
        BY <1>4, <2>2 DEF Settle
      <3> HIDE DEF x, view, k
      <3> QED
        BY <1>3, <2>1, <3>1
    <2>3. CASE view.held[k] # [run |-> call.run, intent |-> call.claim[2], done |-> Null]
      BY <1>0, <1>4, <2>1, <2>3, LeavesHonestly DEF Settle, RollBack
    <2> QED
      BY <2>2, <2>3
  <1>5. CASE InsertClaim(c)
    <2> DEFINE call == conn[c].call
               k == call.claim[1]
               x == [run |-> call.run, intent |-> call.claim[2], done |-> Null]
    <2>1. /\ conn[c].view = db /\ SoundFile(db) /\ db.format # "legacy" /\ ContinuedBy(db, db)
          /\ k \in Ident
      BY <1>5, ConnIsHonest, ContinuesItself
         DEF InsertClaim, CurrentIn, ConnShape, HonestIn, KnowsClaim
    <2>2. CASE db.held[k] = Unclaimed
      <3>1. Within(c, "commit", [db EXCEPT !.held = [db.held EXCEPT ![k] = x]])
        BY <1>5, <2>1, <2>2 DEF InsertClaim
      <3> HIDE DEF x, k
      <3> QED
        BY <1>3, <2>1, <3>1
    <2>3. CASE db.held[k] # Unclaimed
      <3>1. Within(c, "commit", db)
        BY <1>5, <2>1, <2>3 DEF InsertClaim
      <3> QED
        BY <2>1, <3>1, WorksHonestly
    <2> QED
      BY <2>2, <2>3
  <1> QED
    BY <1>1, <1>2, <1>4, <1>5

LEMMA ReadingIsHonest ==
  ASSUME StoreInv, Honest, NEW c \in Conn,
         (\E r \in Run : ReadRows(c, r)) \/ ReadHead(c) \/ Answer(c)
  PROVE  Honest'
  <1>1. ASSUME NEW r \in Run, ReadRows(c, r) PROVE Honest'
    <2> DEFINE me == InTransaction("head", [NoCall EXCEPT !.run = r], db)
    <2>1. me.pc = "head" /\ me.view = db /\ me.call.run = r /\ Become(c, me) /\ db' = db
      BY <1>1 DEF ReadRows, InTransaction, NoCall
    <2> HIDE DEF me
    <2>2. SoundFile(db) /\ db.format # "legacy"
      BY <1>1, ConnIsHonest DEF ReadRows, HonestIn
    <2>3. HonestIn(me, db)
      BY <2>1, <2>2 DEF HonestIn
    <2> QED
      BY <2>1, <2>3, HonestMoves
  <1>2. CASE ReadHead(c)
    <2> DEFINE r == conn[c].call.run
    <2>1. /\ SoundFile(conn[c].view) /\ conn[c].view.format # "legacy" /\ r \in Run
          /\ db.format # "legacy" /\ conn[c] = InTransaction("head", conn[c].call, conn[c].view)
      BY <1>2, ConnIsHonest DEF ReadHead, HonestIn, ConnShape
    <2>2. Verifies(conn[c].view, r)
      BY <2>1, ChainedVerifies DEF SoundFile
    <2> DEFINE me == [conn[c] EXCEPT !.pc = "served"]
    <2>3. Become(c, me) /\ db' = db
      BY <1>2, <2>2 DEF ReadHead
    <2>4. me.pc = "served"
      BY <2>1 DEF InTransaction
    <2> HIDE DEF me
    <2>5. HonestIn(me, db)
      BY <2>1, <2>4 DEF HonestIn
    <2> QED
      BY <2>3, <2>5, HonestMoves
  <1>3. CASE Answer(c)
    <2>1. db.format # "legacy"
      BY <1>3, ConnIsHonest DEF Answer, HonestIn
    <2>2. Become(c, Ready) /\ db' = db /\ Ready.pc = "ready"
      BY <1>3 DEF Answer, Ready, Closed
    <2> QED
      BY <2>1, <2>2, LeavesHonestly
  <1> QED
    BY <1>1, <1>2, <1>3

\* No other connection is inside a writing transaction when one commits.
LEMMA CommitIsHonest ==
  ASSUME StoreInv, Honest, NEW c \in Conn, Commit(c)
  PROVE  /\ Honest' /\ ContinuedBy(db, db')
         /\ db.format # "legacy" => db'.format # "legacy"
  <1>1. /\ conn[c].pc = "commit" /\ db' = conn[c].view /\ writer = c
        /\ conn' = [conn EXCEPT ![c] = Ready] /\ conn = [a \in Conn |-> conn[a]]
    BY ConnIsHonest DEF Commit, Become, StoreInv, WriteStages
  <1>2. SoundFile(db') /\ db'.format # "legacy" /\ ContinuedBy(db, db')
    BY <1>1, ConnIsHonest DEF HonestIn
  <1>3. conn'[c] = Ready /\ Ready.pc = "ready" /\ \A a \in Conn \ {c} : conn'[a] = conn[a]
    BY <1>1 DEF Ready, Closed
  <1>4. HonestIn(conn'[c], db')
    BY <1>2, <1>3 DEF HonestIn
  <1>5. ASSUME NEW a \in Conn \ {c} PROVE HonestIn(conn'[a], db')
    <2>1. HonestIn(conn[a], db) /\ conn[a].pc \notin WriteStages
      BY <1>1, ConnIsHonest
    <2> QED
      BY <1>2, <1>3, <2>1 DEF HonestIn, WriteStages
  <1>6. SoundFile(db') /\ \A a \in Conn : HonestIn(conn'[a], db')
    BY <1>2, <1>4, <1>5
  <1> QED
    BY <1>2, <1>6 DEF Honest

\* While nobody edits the file, every step keeps it sound and goes on from it.
LEMMA StepIsHonest ==
  ASSUME StoreInv, Honest, NEW c \in Conn, Serve(c) \/ Crash(c)
  PROVE  /\ Honest' /\ ContinuedBy(db, db') /\ UNCHANGED edits
         /\ db.format # "legacy" => db'.format # "legacy"
  <1>1. UNCHANGED edits
    BY DEF Serve, Crash, Open, BeginMigration, CreateTables, Upgrade,
         GiveUpOpening, BeginAppend, BeginSettlingAppend, WriteRow, Settle, BeginClaim,
         InsertClaim, Commit, ReadRows, ReadHead, Answer, Begin, Within, RollBack
  <1>2. CASE Commit(c)
    BY <1>1, <1>2, CommitIsHonest
  <1>3. CASE ~Commit(c)
    <2>1. db' = db
      BY <1>3 DEF Serve, Crash, Open, BeginMigration, CreateTables, Upgrade,
         GiveUpOpening, BeginAppend, BeginSettlingAppend, WriteRow, Settle, BeginClaim,
         InsertClaim, ReadRows, ReadHead, Answer, Begin, Within, RollBack
    <2>2. ContinuedBy(db, db)
      BY ContinuesItself DEF Honest
    <2>3. CASE Crash(c)
      <3>1. Become(c, Closed) /\ Closed.pc = "closed"
        BY <2>3 DEF Crash, Closed
      <3>2. Honest'
        BY <2>1, <3>1, LeavesHonestly
      <3> QED
        BY <1>1, <2>1, <2>2, <3>2
    <2>4. CASE Serve(c)
      <3>1. Honest'
        BY <1>3, <2>4, OpeningIsHonest, WritingIsHonest, ReadingIsHonest DEF Serve
      <3> QED
        BY <1>1, <2>1, <2>2, <3>1
    <2> QED
      BY <2>3, <2>4
  <1> QED
    BY <1>2, <1>3

----------------------------------------------------------------------------
(* The theorems.                                                            *)

LEMMA ChainIsKept ==
  ASSUME ChainInv, [Next]_vars
  PROVE  /\ ChainInv'
         /\ edits' = 0 => /\ SoundFile(db) /\ SoundFile(db') /\ ContinuedBy(db, db')
                          /\ db.format # "legacy" => db'.format # "legacy"
  <1>0. StoreInv /\ StoreInv' /\ edits \in Nat
    BY StepIsSound DEF ChainInv
  <1>1. ASSUME NEW c \in Conn, Serve(c) \/ Crash(c)
        PROVE  UNCHANGED edits
    BY <1>1 DEF Serve, Crash, Open, BeginMigration, CreateTables, Upgrade,
         GiveUpOpening, BeginAppend, BeginSettlingAppend, WriteRow, Settle, BeginClaim,
         InsertClaim, Commit, ReadRows, ReadHead, Answer, Begin, Within, RollBack
  <1>2. CASE \E c \in Conn : Serve(c) \/ Crash(c)
    BY <1>0, <1>1, <1>2, StepIsHonest DEF ChainInv, Honest
  <1>3. CASE \E r \in Run : RemoveHead(r) \/ \E s \in Seqs : EditRow(r, s)
    <2>1. edits' = edits + 1
      <3>1. \A d : Edit(d) => edits' = edits + 1
        BY DEF Edit
      <3> QED
        BY <1>3, <3>1 DEF RemoveHead, EditRow
    <2> QED
      BY <1>0, <2>1 DEF ChainInv
  <1>4. CASE UNCHANGED vars
    <2>1. db' = db /\ conn' = conn /\ edits' = edits
      BY <1>4 DEF vars
    <2>2. Honest => Honest' /\ ContinuedBy(db, db') /\ SoundFile(db) /\ SoundFile(db')
      BY <2>1, ContinuesItself DEF Honest
    <2> QED
      BY <1>0, <2>1, <2>2 DEF ChainInv
  <1> QED
    BY <1>2, <1>3, <1>4 DEF Next

\* read_log reports no log of a file that was never edited, for any number of
\* processes that append, settle, claim, migrate, read and die, and whatever
\* order positions are taken in.
THEOREM NeverAFalseAlarm == Spec => []NoFalseAlarm
  <1>1. ChainInv /\ [Next]_vars => ChainInv'
    BY ChainIsKept
  <1>2. ChainInv => NoFalseAlarm
    BY DEF ChainInv, Honest, HonestIn, NoFalseAlarm
  <1> QED
    BY InitIsHonest, <1>1, <1>2, PTL DEF Spec

\* An anchor taken of a chain holds at every later moment at which the file has
\* not been edited, a migration in between included.
THEOREM AnchorsAlwaysHold == Spec => AnchorsHold
  <1> DEFINE Passed == \A r \in Run : edits' = 0 => /\ PassesThrough(db', r, db.head[r])
                                                    /\ db'.head[r].len >= db.head[r].len
  <1>1. ChainInv /\ [Next]_vars => ChainInv' /\ Passed
    BY ChainIsKept, HeadsArePassed
  <1>2. ChainInv /\ [Next]_vars => ChainInv' /\ [Passed]_vars
    BY <1>1
  <1> QED
    BY InitIsHonest, <1>2, PTL DEF Spec, AnchorsHold

=============================================================================

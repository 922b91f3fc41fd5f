--------------------------- MODULE MemoryStore_proofs ---------------------------
(***************************************************************************)
(* Theorems about MemoryStore, for every finite set of sources and any     *)
(* callers, words, trusts and limits.                                      *)
(***************************************************************************)
EXTENDS MemoryStore, FiniteSetTheorems, SequenceTheorems, WellFoundedInduction, TLAPS

-----------------------------------------------------------------------------
(***************************************************************************)
(* The loop that keeps some of the rows.                                   *)
(***************************************************************************)

\* A set of naturals that is not empty has a least member: what an induction
\* below takes the least counterexample by.
LEMMA LeastMember ==
  ASSUME NEW S \in SUBSET Nat, S # {}
  PROVE  \E n \in S : \A m \in S : n <= m
<1> DEFINE Less == OpToRel(<, Nat)
<1>1. \A m, n \in Nat : m < n => <<m, n>> \in Less
  BY DEF OpToRel
<1>2. \E n \in S : \A m \in S : <<m, n>> \notin Less
  BY NatLessThanWellFounded, WFMin
<1> HIDE DEF Less
<1>3. PICK n \in S : \A m \in S : <<m, n>> \notin Less
  BY <1>2
<1>4. ASSUME NEW m \in S PROVE n <= m
  <2>1. ~ (m < n)
    BY <1>1, <1>3
  <2>2. QED
    BY <2>1
<1>5. QED
  BY <1>4

\* There is a function that satisfies the recursion of Kept, so that it is one.
LEMMA KeptIsDefined ==
  ASSUME NEW docs, NEW set, Len(docs) \in Nat
  PROVE  \E f : f = [n \in 0 .. Len(docs) |->
                       IF n = 0 THEN <<>>
                       ELSE IF docs[n] \in set THEN Append(f[n - 1], docs[n]) ELSE f[n - 1]]
<1> DEFINE Step(f, n) == IF n = 0 THEN <<>>
                         ELSE IF docs[n] \in set THEN Append(f[n - 1], docs[n]) ELSE f[n - 1]
           Defined(k) == \E f : f = [n \in 0 .. k |-> Step(f, n)]
           Missing == {k \in Nat : ~ Defined(k)}
<1> HIDE DEF Step
<1>1. Defined(0)
  <2> DEFINE f == [n \in 0 .. 0 |-> <<>>]
  <2>1. f = [n \in 0 .. 0 |-> Step(f, n)]
    BY DEF Step
  <2>2. QED
    BY <2>1
<1>2. ASSUME NEW k \in Nat, Defined(k) PROVE Defined(k + 1)
  <2> PICK f : f = [n \in 0 .. k |-> Step(f, n)]
    BY <1>2
  <2> DEFINE g == [n \in 0 .. k + 1 |-> IF n = k + 1 THEN Step(f, k + 1) ELSE f[n]]
  <2>1. \A n \in 0 .. k : g[n] = Step(f, n)
    OBVIOUS
  <2>2. \A n \in 0 .. k + 1 : Step(g, n) = Step(f, n)
    BY DEF Step
  <2>3. g = [n \in 0 .. k + 1 |-> Step(g, n)]
    BY <2>1, <2>2
  <2>4. QED
    BY <2>3
<1>3. Missing = {}
  <2> SUFFICES ASSUME Missing # {} PROVE FALSE
    OBVIOUS
  <2>1. PICK k \in Missing : \A m \in Missing : k <= m
    BY LeastMember
  <2> HIDE DEF Defined
  <2>2. k # 0
    BY <1>1
  <2>3. Defined(k - 1)
    BY <2>1, <2>2
  <2>4. Defined(k)
    BY <1>2, <2>2, <2>3
  <2>5. QED
    BY <2>4
<1>4. Defined(Len(docs))
  BY <1>3
<1>5. QED
  BY <1>4 DEF Step

\* Kept returns the rows that are in the set, and no others, and repeats none that
\* it was not given twice.
LEMMA KeptRows ==
  ASSUME NEW T, NEW docs \in Seq(T), NEW set
  PROVE  /\ Kept(docs, set) \in Seq(T)
         /\ Range(Kept(docs, set)) = Range(docs) \cap set
         /\ IsInjective(docs) => IsInjective(Kept(docs, set))
<1> DEFINE f == CHOOSE f : f = [n \in 0 .. Len(docs) |->
                       IF n = 0 THEN <<>>
                       ELSE IF docs[n] \in set THEN Append(f[n - 1], docs[n]) ELSE f[n - 1]]
           First(n) == {docs[i] : i \in 1 .. n} \cap set
           Right(n) == /\ f[n] \in Seq(T) /\ Range(f[n]) = First(n)
                       /\ IsInjective(docs) => IsInjective(f[n])
           Wrong == {n \in 0 .. Len(docs) : ~ Right(n)}
<1>1. \A n \in 0 .. Len(docs) :
        f[n] = IF n = 0 THEN <<>>
               ELSE IF docs[n] \in set THEN Append(f[n - 1], docs[n]) ELSE f[n - 1]
  <2>1. \E g : g = [n \in 0 .. Len(docs) |->
                      IF n = 0 THEN <<>>
                      ELSE IF docs[n] \in set THEN Append(g[n - 1], docs[n]) ELSE g[n - 1]]
    <3>1. Len(docs) \in Nat
      OBVIOUS
    <3>2. QED
      BY <3>1, KeptIsDefined, Zenon
  <2>2. f = [n \in 0 .. Len(docs) |->
               IF n = 0 THEN <<>>
               ELSE IF docs[n] \in set THEN Append(f[n - 1], docs[n]) ELSE f[n - 1]]
    BY <2>1
  <2> HIDE DEF f
  <2>3. QED
    BY <2>2
<1>2. Kept(docs, set) = f[Len(docs)]
  BY DEF Kept
<1> HIDE DEF f
<1>3. 0 \notin Wrong
  <2>1. f[0] = <<>>
    BY <1>1
  <2>2. <<>> \in Seq(T) /\ Range(<<>>) = {}
    BY DEF Range
  <2>3. First(0) = {}
    OBVIOUS
  <2>4. IsInjective(<<>>)
    BY DEF IsInjective
  <2>5. Right(0)
    BY <2>1, <2>2, <2>3, <2>4
  <2>6. QED
    BY <2>5
<1>4. ASSUME NEW n \in 1 .. Len(docs), n - 1 \notin Wrong PROVE n \notin Wrong
  <2>1. /\ f[n - 1] \in Seq(T) /\ Range(f[n - 1]) = First(n - 1) /\ docs[n] \in T
        /\ IsInjective(docs) => IsInjective(f[n - 1])
    BY <1>4
  <2>2. First(n) = First(n - 1) \cup ({docs[n]} \cap set)
    OBVIOUS
  <2>3. CASE docs[n] \in set
    <3>1. f[n] = Append(f[n - 1], docs[n])
      BY <1>1, <2>3, n \in 0 .. Len(docs), n # 0
    <3>2. \A s \in Seq(T), row \in T :
            /\ Append(s, row) \in Seq(T) /\ Range(Append(s, row)) = Range(s) \cup {row}
            /\ IsInjective(s) /\ row \notin Range(s) => IsInjective(Append(s, row))
      <4> TAKE s \in Seq(T), row \in T
      <4> DEFINE t == Append(s, row)
      <4>1. t \in Seq(T) /\ Len(t) = Len(s) + 1 /\ t[Len(t)] = row
        OBVIOUS
      <4>2. \A i \in 1 .. Len(s) : t[i] = s[i]
        OBVIOUS
      <4>3. DOMAIN t = DOMAIN s \cup {Len(t)} /\ DOMAIN s = 1 .. Len(s)
        BY <4>1
      <4> HIDE DEF t
      <4>4. Range(t) = Range(s) \cup {row}
        BY <4>1, <4>2, <4>3 DEF Range
      <4>5. IsInjective(s) /\ row \notin Range(s) => IsInjective(t)
        BY <4>1, <4>2, <4>3 DEF IsInjective, Range
      <4>6. QED
        BY <4>1, <4>4, <4>5 DEF t
    <3>3. f[n] \in Seq(T) /\ Range(f[n]) = Range(f[n - 1]) \cup {docs[n]}
      BY <2>1, <3>1, <3>2
    <3>4. Range(f[n]) = First(n)
      BY <2>1, <2>2, <2>3, <3>3
    <3>5. IsInjective(docs) => docs[n] \notin First(n - 1)
      BY DEF IsInjective
    <3>6. IsInjective(docs) => IsInjective(f[n])
      BY <2>1, <3>1, <3>2, <3>5
    <3>7. QED
      BY <3>3, <3>4, <3>6
  <2>4. CASE docs[n] \notin set
    BY <1>1, <2>1, <2>2, <2>4
  <2>5. QED
    BY <2>3, <2>4
<1>5. Wrong = {}
  <2> SUFFICES ASSUME Wrong # {} PROVE FALSE
    OBVIOUS
  <2>1. PICK n \in Wrong : \A m \in Wrong : n <= m
    BY LeastMember, Wrong \in SUBSET Nat
  <2> HIDE DEF Wrong
  <2>2. n \in 1 .. Len(docs) /\ n - 1 \in 0 .. Len(docs)
    BY <1>3 DEF Wrong
  <2>3. QED
    BY <1>4, <2>1, <2>2
<1>6. Range(docs) = {docs[i] : i \in 1 .. Len(docs)}
  BY DEF Range
<1>7. Right(Len(docs))
  <2> HIDE DEF Right
  <2>1. Len(docs) \in 0 .. Len(docs)
    OBVIOUS
  <2>2. QED
    BY <1>5, <2>1
<1>8. QED
  BY <1>2, <1>6, <1>7

-----------------------------------------------------------------------------
(***************************************************************************)
(* Recorders and ingestion.                                                *)
(***************************************************************************)

\* What a recorder persists stands under its source.
LEMMA EntrySources ==
  ASSUME NEW source \in Sources, NEW row \in Entries(source)
  PROVE  row.source = source /\ row \in Rows
<1>1. \/ \E goal, notes, trust : row = Episode(source, goal, notes, trust)
      \/ \E fault, action, trust : row = FaultEpisode(source, fault, action, trust)
  BY DEF Entries
<1>2. /\ \A goal, notes, trust : Episode(source, goal, notes, trust).source = source
      /\ \A fault, action, trust : FaultEpisode(source, fault, action, trust).source = source
  BY DEF Episode, FaultEpisode
<1>3. row.source = source
  BY <1>1, <1>2
<1>4. row \in Rows
  BY DEF Rows
<1>5. QED
  BY <1>3, <1>4

LEMMA AsksChangeCalls ==
  ASSUME NEW c \in Callers, NEW k \in TopKs, Ask(c, k)
  PROVE  \E kind \in Kinds : \E pattern : Search(c, kind, k, pattern)
BY DEF Ask, Retrieve, RetrieveProcedure, RetrieveFaultMemory, LookupSimilar, Recall,
       RetrieveDocuments, Kinds

\* What a search that matched some rows and may read some of them reads, once each.
Reads(docs, matching, kind, k) ==
  /\ IsFiniteSet(matching)
  /\ IsInjective(docs) /\ docs \in Seq(matching)
  /\ Len(docs) = IF Cardinality(matching) < Limit(kind, k) THEN Cardinality(matching)
                 ELSE Limit(kind, k)

\* What a search reads are rows of the table that match.
LEMMA SearchReads ==
  ASSUME TypeOK, NEW c \in Callers, NEW kind \in Kinds, NEW k \in TopKs, NEW pattern,
         Search(c, kind, k, pattern)
  PROVE  \E matching \in SUBSET Rows : \E docs :
           /\ Reads(docs, matching, kind, k)
           /\ call' = [call EXCEPT ![c] = [kind |-> kind, k |-> k, docs |-> docs,
                                          matching |-> matching]]
<1> DEFINE matching == {row \in Range(rows) : row # NoRow /\ Matches(row.text, pattern)}
           count == IF Cardinality(matching) < Limit(kind, k) THEN Cardinality(matching)
                    ELSE Limit(kind, k)
<1>1. IsFiniteSet(Range(rows))
  <2>1. rows \in Surjection(Sources, Range(rows))
    BY DEF TypeOK, Surjection, Range
  <2>2. QED
    BY <2>1, FS_Surjection, MemoryAssumption DEF MemoryAssumption
<1>2. IsFiniteSet(matching) /\ matching \in SUBSET Rows
  <2>1. matching \in SUBSET Range(rows) /\ Range(rows) \subseteq Rows \cup {NoRow}
    BY DEF TypeOK, Range
  <2>2. QED
    BY <1>1, <2>1, FS_Subset
<1>3. count \in Nat
  BY <1>2, FS_CardinalityType, MemoryAssumption DEF MemoryAssumption, Limit
<1>4. PICK docs \in [1 .. count -> matching] :
        /\ IsInjective(docs)
        /\ call' = [call EXCEPT ![c] = [kind |-> kind, k |-> k, docs |-> docs,
                                       matching |-> matching]]
  BY DEF Search
<1> HIDE DEF count, matching
<1>5. docs \in Seq(matching) /\ Len(docs) = count
  BY <1>3
<1>6. Reads(docs, matching, kind, k)
  BY <1>2, <1>4, <1>5 DEF Reads, count
<1>7. QED
  BY <1>2, <1>4, <1>6

\* Every reachable state of the memory is well typed.
THEOREM TypeCorrect == Spec => []TypeOK
<1> USE MemoryAssumption DEF MemoryAssumption
<1>1. Init => TypeOK
  BY DEF Init, TypeOK
<1>2. TypeOK /\ [Next]_vars => TypeOK'
  <2> SUFFICES ASSUME TypeOK, [Next]_vars PROVE TypeOK'
    OBVIOUS
  <2>1. CASE Record
    BY <2>1, EntrySources DEF TypeOK, Record, Insert
  <2>2. CASE Ingest
    <3>1. \A source \in Sources : Documents(source) \subseteq Rows
      BY DEF Rows
    <3>2. QED
      BY <2>2, <3>1 DEF TypeOK, Ingest
  <2>3. ASSUME NEW c \in Callers, NEW k \in TopKs, Ask(c, k) PROVE TypeOK'
    <3> PICK kind \in Kinds : \E pattern : Search(c, kind, k, pattern)
      BY <2>3, AsksChangeCalls
    <3>1. PICK pattern : Search(c, kind, k, pattern)
      OBVIOUS
    <3>2. \E matching \in SUBSET Rows : \E docs \in Seq(matching) :
            call' = [call EXCEPT ![c] = [kind |-> kind, k |-> k, docs |-> docs,
                                         matching |-> matching]]
      BY <3>1, SearchReads DEF Reads
    <3>3. \A matching \in SUBSET Rows : Seq(matching) \subseteq Seq(Rows)
      OBVIOUS
    <3>4. UNCHANGED <<rows, recorded>>
      BY <3>1 DEF Search
    <3>5. QED
      BY <3>2, <3>3, <3>4 DEF TypeOK
  <2>4. ASSUME NEW c \in Callers, Return(c) PROVE TypeOK'
    BY <2>4 DEF TypeOK, Return
  <2>5. CASE UNCHANGED vars
    BY <2>5 DEF TypeOK, vars
  <2>6. QED
    BY <2>1, <2>2, <2>3, <2>4, <2>5 DEF Next
<1>3. QED
  BY <1>1, <1>2, PTL DEF Spec

\* What a recorder reported as persisted stays as reported until something is
\* ingested under its source: the unique source keeps any other recorder out.
THEOREM EntriesSurvive == Spec => []RecordedEntriesSurvive
<1>1. Init => RecordedEntriesSurvive
  BY DEF Init, RecordedEntriesSurvive
<1>2. TypeOK /\ RecordedEntriesSurvive /\ [Next]_vars => RecordedEntriesSurvive'
  <2> SUFFICES ASSUME TypeOK, RecordedEntriesSurvive, [Next]_vars,
                      NEW s \in Sources, recorded'[s] # NoRow
               PROVE  rows'[s] = recorded'[s]
    BY DEF RecordedEntriesSurvive
  <2>1. rows \in [Sources -> Rows \cup {NoRow}] /\ recorded \in [Sources -> Rows \cup {NoRow}]
    BY DEF TypeOK
  <2>2. recorded[s] # NoRow => rows[s] = recorded[s]
    BY DEF RecordedEntriesSurvive
  <2>3. CASE Record
    <3> PICK source \in Sources : \E row \in Entries(source) :
            /\ Insert(row)
            /\ \/ recorded[source] = NoRow /\ recorded' = [recorded EXCEPT ![source] = row]
               \/ UNCHANGED recorded
      BY <2>3 DEF Record
    <3>1. PICK row \in Entries(source) :
            /\ Insert(row)
            /\ \/ recorded[source] = NoRow /\ recorded' = [recorded EXCEPT ![source] = row]
               \/ UNCHANGED recorded
      OBVIOUS
    <3>2. rows[source] = NoRow /\ rows' = [rows EXCEPT ![source] = row]
      BY <3>1, EntrySources DEF Insert
    <3>3. QED
      BY <2>1, <2>2, <3>1, <3>2
  <2>4. CASE Ingest
    BY <2>1, <2>2, <2>4 DEF Ingest
  <2>5. ASSUME NEW c \in Callers, Return(c) \/ \E k \in TopKs : Ask(c, k)
        PROVE  UNCHANGED <<rows, recorded>>
    BY <2>5, AsksChangeCalls DEF Search, Return
  <2>6. CASE UNCHANGED vars
    BY <2>2, <2>6 DEF vars
  <2>7. QED
    BY <2>2, <2>3, <2>4, <2>5, <2>6 DEF Next
<1>3. QED
  BY <1>1, <1>2, TypeCorrect, PTL DEF Spec

-----------------------------------------------------------------------------
(***************************************************************************)
(* Searches.                                                               *)
(***************************************************************************)

\* A list that repeats nothing has as many members as places.
LEMMA RangeOnce ==
  ASSUME NEW T, NEW docs \in Seq(T), IsInjective(docs)
  PROVE  IsFiniteSet(Range(docs)) /\ Cardinality(Range(docs)) = Len(docs)
<1>1. DOMAIN docs = 1 .. Len(docs) /\ Len(docs) \in Nat
  OBVIOUS
<1>2. docs \in Surjection(1 .. Len(docs), Range(docs))
  BY <1>1 DEF Surjection, Range
<1>3. docs \in Injection(1 .. Len(docs), Range(docs))
  BY <1>1 DEF Injection, Range
<1>4. IsFiniteSet(1 .. Len(docs)) /\ Cardinality(1 .. Len(docs)) = Len(docs)
  BY <1>1, FS_Interval
<1>5. QED
  BY <1>2, <1>3, <1>4, FS_Surjection

\* What a search reads leaves no more of the rows that match than its limit makes it.
LEMMA ReadsAreOK ==
  ASSUME NEW docs, NEW matching, NEW kind, NEW k \in TopKs, Reads(docs, matching, kind, k)
  PROVE  SearchOK([kind |-> kind, k |-> k, docs |-> docs, matching |-> matching])
<1> DEFINE a == [kind |-> kind, k |-> k, docs |-> docs, matching |-> matching]
           n == Cardinality(matching)
           m == Limit(kind, k)
<1>1. docs \in Seq(matching) /\ IsInjective(docs) /\ IsFiniteSet(matching)
  BY DEF Reads
<1>2. Range(docs) \subseteq matching
  BY <1>1 DEF Range
<1>3. Cardinality(Range(docs)) = Len(docs)
  BY <1>1, RangeOnce
<1>4. Cardinality(matching \ Range(docs)) = n - Len(docs)
  <2>1. matching \cap Range(docs) = Range(docs)
    BY <1>2
  <2>2. Cardinality(matching \cap Range(docs)) = Len(docs)
    BY <1>3, <2>1
  <2>3. Cardinality(matching \ Range(docs)) =
          Cardinality(matching) - Cardinality(matching \cap Range(docs))
    BY <1>1, FS_Difference
  <2>4. QED
    BY <2>2, <2>3
<1>5. n \in Nat /\ m \in Nat
  BY <1>1, FS_CardinalityType, MemoryAssumption DEF MemoryAssumption, Limit
<1>6. Len(docs) = IF n < m THEN n ELSE m
  BY DEF Reads
<1>7. Unread(a) = IF n > m THEN n - m ELSE 0
  BY DEF Unread, Limit
<1> HIDE DEF n, m
<1>8. Cardinality(matching \ Range(docs)) <= Unread(a)
  BY <1>4, <1>5, <1>6, <1>7
<1>9. QED
  BY <1>1, <1>2, <1>8 DEF SearchOK

\* Every search in progress has read what its limit allows.
LEMMA CompleteInvariant == Spec => []SearchesComplete
<1>1. Init => SearchesComplete
  BY DEF Init, SearchesComplete
<1>2. TypeOK /\ SearchesComplete /\ [Next]_vars => SearchesComplete'
  <2> SUFFICES ASSUME TypeOK, SearchesComplete, [Next]_vars,
                      NEW other \in Callers, call'[other] # Idle
               PROVE  SearchOK(call'[other])
    BY DEF SearchesComplete, SearchOK, Unread
  <2>1. call[other] # Idle => SearchOK(call[other])
    BY DEF SearchesComplete
  <2>2. CASE Record \/ Ingest
    BY <2>1, <2>2 DEF Record, Ingest
  <2>3. ASSUME NEW c \in Callers, NEW k \in TopKs, Ask(c, k) PROVE SearchOK(call'[other])
    <3> PICK kind \in Kinds : \E pattern : Search(c, kind, k, pattern)
      BY <2>3, AsksChangeCalls
    <3> PICK pattern : Search(c, kind, k, pattern)
      OBVIOUS
    <3>1. PICK matching \in SUBSET Rows : \E docs :
            /\ Reads(docs, matching, kind, k)
            /\ call' = [call EXCEPT ![c] = [kind |-> kind, k |-> k, docs |-> docs,
                                           matching |-> matching]]
      BY SearchReads
    <3>2. PICK docs :
            /\ Reads(docs, matching, kind, k)
            /\ call' = [call EXCEPT ![c] = [kind |-> kind, k |-> k, docs |-> docs,
                                           matching |-> matching]]
      BY <3>1
    <3>3. call'[other] = IF other = c
                         THEN [kind |-> kind, k |-> k, docs |-> docs, matching |-> matching]
                         ELSE call[other]
      BY <3>2 DEF TypeOK
    <3>4. SearchOK([kind |-> kind, k |-> k, docs |-> docs, matching |-> matching])
      BY <3>2, ReadsAreOK
    <3>5. QED
      BY <2>1, <3>3, <3>4
  <2>4. ASSUME NEW c \in Callers, Return(c) PROVE SearchOK(call'[other])
    BY <2>1, <2>4 DEF Return, TypeOK
  <2>5. CASE UNCHANGED vars
    BY <2>1, <2>5 DEF vars
  <2>6. QED
    BY <2>2, <2>3, <2>4, <2>5 DEF Next
<1>3. QED
  BY <1>1, <1>2, TypeCorrect, PTL DEF Spec

LEMMA RankBounds == \A row : RankOf(row) \in 1 .. 5
BY DEF RankOf, Rank

\* The first k rows, and where a row that is not among them stands.
LEMMA FirstKRows ==
  ASSUME NEW T, NEW docs \in Seq(T), NEW k \in Nat \ {0}
  PROVE  /\ FirstK(docs, k) \in Seq(T)
         /\ Range(FirstK(docs, k)) \subseteq Range(docs)
         /\ \A i \in DOMAIN FirstK(docs, k) :
              i <= k /\ i \in DOMAIN docs /\ FirstK(docs, k)[i] = docs[i]
         /\ \A row \in Range(docs) \ Range(FirstK(docs, k)) :
              /\ Len(FirstK(docs, k)) = k
              /\ \E j \in DOMAIN docs : j > k /\ docs[j] = row
         /\ docs # <<>> => FirstK(docs, k) # <<>>
         /\ IsInjective(docs) => IsInjective(FirstK(docs, k))
<1> DEFINE n == IF Len(docs) < k THEN Len(docs) ELSE k
           first == FirstK(docs, k)
<1>1. n \in 0 .. Len(docs) /\ n <= k
  OBVIOUS
<1>2. /\ first \in Seq(T) /\ Len(first) = n
      /\ \A i \in 1 .. n : first[i] = docs[i]
  BY <1>1 DEF FirstK
<1> HIDE DEF first
<1>3. DOMAIN first = 1 .. n /\ DOMAIN docs = 1 .. Len(docs)
  BY <1>2
<1>4. \A i \in DOMAIN first : i <= k /\ i \in DOMAIN docs /\ first[i] = docs[i]
  BY <1>1, <1>2, <1>3
<1>5. Range(first) \subseteq Range(docs)
  BY <1>4 DEF Range
<1>6. ASSUME NEW row \in Range(docs) \ Range(first)
      PROVE  Len(first) = k /\ \E j \in DOMAIN docs : j > k /\ docs[j] = row
  <2>1. PICK j \in DOMAIN docs : docs[j] = row
    BY <1>6 DEF Range
  <2>2. j \notin 1 .. n
    BY <1>2, <1>3, <1>6, <2>1 DEF Range
  <2>3. j > n /\ n = k
    <3>1. n = k \/ n = Len(docs)
      OBVIOUS
    <3>2. j \in 1 .. Len(docs) /\ Len(docs) \in Nat
      BY <1>3, <2>1
    <3> HIDE DEF n
    <3>3. QED
      BY <1>1, <2>2, <3>1, <3>2
  <2>4. QED
    BY <1>2, <2>1, <2>3
<1>7. docs # <<>> => first # <<>>
  BY <1>1, <1>2
<1>8. IsInjective(docs) => IsInjective(first)
  BY <1>4 DEF IsInjective
<1>9. QED
  BY <1>2, <1>4, <1>5, <1>6, <1>7, <1>8 DEF first

\* A list of rows by falling rank, none below the bound.
Falling(docs, T, bound) ==
  /\ docs \in Seq(T)
  /\ \A i, j \in DOMAIN docs : i < j => RankOf(docs[i]) >= RankOf(docs[j])
  /\ \A i \in DOMAIN docs : RankOf(docs[i]) >= bound

\* A list of falling rank stays one when rows of the next rank are put behind it.
LEMMA FallingGrows ==
  ASSUME NEW T, NEW docs, NEW rank \in 1 .. 4, Falling(docs, T, rank + 1), NEW all \in Seq(T)
  PROVE  /\ Falling(docs \o OfRank(all, rank), T, rank)
         /\ Range(docs \o OfRank(all, rank)) =
              Range(docs) \cup {row \in Range(all) : RankOf(row) = rank}
         /\ IsInjective(docs) /\ IsInjective(all) =>
              IsInjective(docs \o OfRank(all, rank))
<1> DEFINE more == OfRank(all, rank)
           both == docs \o more
<1>1. docs \in Seq(T) /\ more \in Seq(T)
  BY KeptRows DEF OfRank, Falling
<1>2. Range(more) = {row \in Range(all) : RankOf(row) = rank}
  BY KeptRows DEF OfRank
<1>3. \A i \in DOMAIN more : RankOf(more[i]) = rank
  BY <1>2 DEF Range
<1>10. IsInjective(all) => IsInjective(more)
  BY KeptRows DEF OfRank
<1> HIDE DEF more
<1>4. /\ both \in Seq(T) /\ DOMAIN both = 1 .. Len(docs) + Len(more)
      /\ \A i \in DOMAIN both : both[i] = IF i <= Len(docs) THEN docs[i] ELSE more[i - Len(docs)]
  BY <1>1, ConcatProperties
<1>5. \A i \in DOMAIN both :
        \/ i \in DOMAIN docs /\ both[i] = docs[i] /\ RankOf(both[i]) >= rank + 1
        \/ i > Len(docs) /\ RankOf(both[i]) = rank
  <2> SUFFICES ASSUME NEW i \in DOMAIN both
               PROVE  \/ i \in DOMAIN docs /\ both[i] = docs[i] /\ RankOf(both[i]) >= rank + 1
                      \/ i > Len(docs) /\ RankOf(both[i]) = rank
    OBVIOUS
  <2>1. CASE i <= Len(docs)
    <3>1. i \in DOMAIN docs /\ both[i] = docs[i]
      BY <1>1, <1>4, <2>1
    <3>2. QED
      BY <3>1 DEF Falling
  <2>2. CASE i > Len(docs)
    <3>1. i - Len(docs) \in DOMAIN more /\ both[i] = more[i - Len(docs)]
      BY <1>1, <1>4, <2>2
    <3>2. QED
      BY <1>3, <2>2, <3>1
  <2>3. QED
    BY <1>1, <1>4, <2>1, <2>2
<1>6. ASSUME NEW i \in DOMAIN both, NEW j \in DOMAIN both, i < j
      PROVE  RankOf(both[i]) >= RankOf(both[j])
  <2>1. CASE j \in DOMAIN docs
    <3>1. i \in DOMAIN docs
      BY <1>1, <1>4, <1>6, <2>1
    <3>2. both[i] = docs[i] /\ both[j] = docs[j]
      BY <1>1, <1>4, <2>1, <3>1
    <3>3. QED
      BY <1>6, <2>1, <3>1, <3>2 DEF Falling
  <2>2. CASE j \notin DOMAIN docs
    <3>1. RankOf(both[j]) = rank /\ RankOf(both[i]) >= rank
      BY <1>5, <2>2, RankBounds
    <3>2. QED
      BY <3>1
  <2>3. QED
    BY <2>1, <2>2
<1>7. \A i \in DOMAIN both : RankOf(both[i]) >= rank
  BY <1>5, RankBounds
<1>8. Range(both) = Range(docs) \cup Range(more)
  BY <1>1, RangeConcatenation
<1>9. ASSUME IsInjective(docs), IsInjective(more) PROVE IsInjective(both)
  <2> SUFFICES ASSUME NEW i \in DOMAIN both, NEW j \in DOMAIN both, both[i] = both[j]
               PROVE  i = j
    BY DEF IsInjective
  <2>1. CASE i \in DOMAIN docs /\ j \in DOMAIN docs
    <3>1. both[i] = docs[i] /\ both[j] = docs[j]
      BY <1>1, <1>4, <2>1
    <3>2. QED
      BY <1>9, <2>1, <3>1 DEF IsInjective
  <2>2. CASE i > Len(docs) /\ j > Len(docs)
    <3>1. /\ i - Len(docs) \in DOMAIN more /\ both[i] = more[i - Len(docs)]
          /\ j - Len(docs) \in DOMAIN more /\ both[j] = more[j - Len(docs)]
      BY <1>1, <1>4, <2>2
    <3>2. i - Len(docs) = j - Len(docs)
      BY <1>9, <3>1 DEF IsInjective
    <3>3. i \in Nat /\ j \in Nat /\ Len(docs) \in Nat
      BY <1>1, <1>4
    <3>4. QED
      BY <3>2, <3>3
  <2>3. QED
    BY <1>5, <2>1, <2>2, RankBounds
<1>11. QED
  BY <1>2, <1>4, <1>6, <1>7, <1>8, <1>9, <1>10 DEF Falling, more

\* The sort returns the rows it is given, the higher ranks first.
LEMMA ByRankRows ==
  ASSUME NEW T, NEW docs \in Seq(T)
  PROVE  /\ Falling(ByRank(docs), T, 1) /\ Range(ByRank(docs)) = Range(docs)
         /\ IsInjective(docs) => IsInjective(ByRank(docs))
<1> DEFINE s5 == OfRank(docs, 5)
           s4 == s5 \o OfRank(docs, 4)
           s3 == s4 \o OfRank(docs, 3)
           s2 == s3 \o OfRank(docs, 2)
           s1 == s2 \o OfRank(docs, 1)
           ofRank(rank) == {row \in Range(docs) : RankOf(row) = rank}
           once(s) == IsInjective(docs) => IsInjective(s)
<1>1. Falling(s5, T, 5) /\ Range(s5) = ofRank(5) /\ once(s5)
  <2>1. s5 \in Seq(T) /\ Range(s5) = ofRank(5) /\ once(s5)
    BY KeptRows DEF OfRank
  <2>2. \A i \in DOMAIN s5 : RankOf(s5[i]) = 5
    BY <2>1 DEF Range
  <2>3. QED
    BY <2>1, <2>2 DEF Falling
<1> HIDE DEF s5
<1>2. Falling(s4, T, 4) /\ Range(s4) = Range(s5) \cup ofRank(4) /\ once(s4)
  BY <1>1, FallingGrows
<1> HIDE DEF s4
<1>3. Falling(s3, T, 3) /\ Range(s3) = Range(s4) \cup ofRank(3) /\ once(s3)
  BY <1>2, FallingGrows
<1> HIDE DEF s3
<1>4. Falling(s2, T, 2) /\ Range(s2) = Range(s3) \cup ofRank(2) /\ once(s2)
  BY <1>3, FallingGrows
<1> HIDE DEF s2
<1>5. Falling(s1, T, 1) /\ Range(s1) = Range(s2) \cup ofRank(1) /\ once(s1)
  BY <1>4, FallingGrows
<1>6. s1 = ByRank(docs)
  BY DEF ByRank, s5, s4, s3, s2
<1> HIDE DEF s1
<1>7. Range(docs) = ofRank(5) \cup ofRank(4) \cup ofRank(3) \cup ofRank(2) \cup ofRank(1)
  <2>1. \A row : RankOf(row) \in {1, 2, 3, 4, 5}
    BY RankBounds
  <2>2. QED
    BY <2>1
<1>8. QED
  BY <1>1, <1>2, <1>3, <1>4, <1>5, <1>6, <1>7

\* The retriever returns trusted rows, none twice, and misses one only when it has
\* returned its fill of rows at least as trusted.
LEMMA RetrievedRows ==
  ASSUME NEW T, NEW docs \in Seq(T), IsInjective(docs), NEW k \in Nat \ {0}
  PROVE  /\ Retrieved(docs, k) \in Seq(T) /\ IsInjective(Retrieved(docs, k))
         /\ Range(Retrieved(docs, k)) \subseteq {row \in Range(docs) : Trusted(row)}
         /\ \A row \in Range(docs) : Trusted(row) =>
              /\ Range(Retrieved(docs, k)) # {}
              /\ row \notin Range(Retrieved(docs, k)) =>
                   /\ Len(Retrieved(docs, k)) = k
                   /\ \A other \in Range(Retrieved(docs, k)) : RankOf(other) >= RankOf(row)
<1> DEFINE kept == Kept(docs, {row \in Range(docs) : Trusted(row)})
           sorted == ByRank(kept)
           result == Retrieved(docs, k)
<1>1. /\ kept \in Seq(T) /\ Range(kept) = {row \in Range(docs) : Trusted(row)}
      /\ IsInjective(kept)
  BY KeptRows
<1> HIDE DEF kept
<1>2. Falling(sorted, T, 1) /\ Range(sorted) = Range(kept) /\ IsInjective(sorted)
  BY <1>1, ByRankRows
<1>3. result = FirstK(sorted, k)
  BY DEF Retrieved, kept
<1> HIDE DEF sorted
<1>4. sorted \in Seq(T)
  BY <1>2 DEF Falling
<1>5. result \in Seq(T) /\ IsInjective(result) /\ Range(result) \subseteq Range(kept)
  BY <1>2, <1>3, <1>4, FirstKRows
<1> HIDE DEF result
<1>6. ASSUME NEW row \in Range(docs), Trusted(row)
      PROVE  /\ Range(result) # {}
             /\ row \notin Range(result) =>
                  /\ Len(result) = k
                  /\ \A other \in Range(result) : RankOf(other) >= RankOf(row)
  <2>1. row \in Range(sorted)
    BY <1>1, <1>2, <1>6
  <2>2. sorted # <<>>
    BY <2>1 DEF Range
  <2>3. Range(result) # {}
    <3>1. result # <<>>
      BY <1>3, <1>4, <2>2, FirstKRows
    <3>2. 1 \in DOMAIN result
      BY <1>5, <3>1
    <3>3. QED
      BY <3>2 DEF Range
  <2>4. ASSUME row \notin Range(result), NEW other \in Range(result)
        PROVE  RankOf(other) >= RankOf(row)
    <3>1. PICK j \in DOMAIN sorted : j > k /\ sorted[j] = row
      BY <1>3, <1>4, <2>1, <2>4, FirstKRows
    <3>2. PICK i \in DOMAIN result : result[i] = other
      BY <2>4 DEF Range
    <3>3. i <= k /\ i \in DOMAIN sorted /\ sorted[i] = other
      BY <1>3, <1>4, <3>2, FirstKRows
    <3>4. i < j
      BY <1>4, <3>1, <3>3
    <3>5. QED
      BY <1>2, <3>1, <3>3, <3>4 DEF Falling
  <2>5. row \notin Range(result) => Len(result) = k
    BY <1>3, <1>4, <2>1, FirstKRows
  <2>6. QED
    BY <2>3, <2>4, <2>5
<1>7. QED
  BY <1>1, <1>5, <1>6 DEF result

\* StateAwareRetriever.retrieve (memory/retriever.py): what it returns comes in the
\* order of trust, for any rows and any limit.
THEOREM RetrievedInOrder ==
  ASSUME NEW T, NEW docs \in Seq(T), NEW k \in Nat \ {0},
         NEW i \in DOMAIN Retrieved(docs, k), NEW j \in DOMAIN Retrieved(docs, k), i < j
  PROVE  RankOf(Retrieved(docs, k)[i]) >= RankOf(Retrieved(docs, k)[j])
<1> DEFINE kept == Kept(docs, {row \in Range(docs) : Trusted(row)})
           sorted == ByRank(kept)
<1>1. kept \in Seq(T)
  BY KeptRows
<1> HIDE DEF kept
<1>2. Falling(sorted, T, 1)
  BY <1>1, ByRankRows
<1>3. Retrieved(docs, k) = FirstK(sorted, k)
  BY DEF Retrieved, kept
<1> HIDE DEF sorted
<1>4. sorted \in Seq(T)
  BY <1>2 DEF Falling
<1>5. \A n \in DOMAIN FirstK(sorted, k) : n \in DOMAIN sorted /\ FirstK(sorted, k)[n] = sorted[n]
  BY <1>4, FirstKRows
<1>6. QED
  BY <1>2, <1>3, <1>5 DEF Falling

-----------------------------------------------------------------------------
(***************************************************************************)
(* What the five searches make of the rows they read.                      *)
(***************************************************************************)
WantedOf(kind, docs) == {row \in Range(docs) : Wanted(kind, row)}

\* Whatever is asked for, what is returned was wanted and is returned once; and a
\* search other than for procedures returns its fill or all that was wanted.
LEMMA ResultRows ==
  ASSUME NEW T, NEW docs \in Seq(T), IsInjective(docs), NEW k \in Nat \ {0}, NEW kind \in Kinds
  PROVE  /\ Result(kind, k, docs) \in Seq(T) /\ IsInjective(Result(kind, k, docs))
         /\ Range(Result(kind, k, docs)) \subseteq WantedOf(kind, docs)
         /\ kind # "procedure" =>
              \/ Len(Result(kind, k, docs)) = k
              \/ Range(Result(kind, k, docs)) = WantedOf(kind, docs)
         /\ kind = "procedure" /\ WantedOf(kind, docs) # {} => Range(Result(kind, k, docs)) # {}
<1> DEFINE result == Result(kind, k, docs)
           want == WantedOf(kind, docs)
           retrieved == Retrieved(docs, k)
           trusted == {row \in Range(docs) : Trusted(row)}
<1>1. /\ retrieved \in Seq(T) /\ IsInjective(retrieved) /\ Range(retrieved) \subseteq trusted
      /\ Len(retrieved) = k \/ Range(retrieved) = trusted
      /\ trusted # {} => Range(retrieved) # {}
  BY RetrievedRows
<1>2. CASE kind = "retrieve"
  <2>1. result = retrieved /\ want = trusted
    BY <1>2 DEF Result, WantedOf, Wanted
  <2> HIDE DEF result, want, retrieved, trusted
  <2>2. QED
    BY <1>1, <1>2, <2>1 DEF result, want
<1>3. CASE kind = "procedure"
  <2> DEFINE kept == Kept(retrieved, {row \in Range(retrieved) : TypeOf(row) = "procedural"})
  <2>1. result = (IF kept = <<>> THEN retrieved ELSE kept) /\ want = trusted
    BY <1>3 DEF Result, Procedures, WantedOf, Wanted
  <2> HIDE DEF result, want, retrieved, trusted
  <2>2. kept \in Seq(T) /\ IsInjective(kept) /\ Range(kept) \subseteq Range(retrieved)
    BY <1>1, KeptRows
  <2> HIDE DEF kept
  <2>3. kept # <<>> => Range(kept) # {}
    <3>1. kept # <<>> => 1 \in DOMAIN kept
      BY <2>2
    <3>2. QED
      BY <3>1 DEF Range
  <2>4. QED
    BY <1>1, <1>3, <2>1, <2>2, <2>3 DEF result, want
<1>4. CASE kind = "lookup"
  <2> DEFINE kept == Kept(docs, {row \in Range(docs) : row.type = "fault" /\ Trusted(row)})
  <2>1. result = FirstK(kept, k) /\ want = {row \in Range(docs) : row.type = "fault" /\ Trusted(row)}
    BY <1>4 DEF Result, WantedOf, Wanted
  <2>2. kept \in Seq(T) /\ IsInjective(kept) /\ Range(kept) = want
    BY <2>1, KeptRows
  <2> HIDE DEF result, want, kept
  <2>3. /\ result \in Seq(T) /\ IsInjective(result) /\ Range(result) \subseteq Range(kept)
        /\ \A row \in Range(kept) \ Range(result) : Len(result) = k
    BY <2>1, <2>2, FirstKRows
  <2>4. Len(result) = k \/ Range(result) = want
    BY <2>2, <2>3
  <2>5. QED
    BY <1>4, <2>2, <2>3, <2>4 DEF result, want
<1>5. CASE kind = "recall"
  <2>1. /\ result = Kept(docs, {row \in Range(docs) : row.type = "episodic"})
        /\ want = {row \in Range(docs) : row.type = "episodic"}
    BY <1>5 DEF Result, WantedOf, Wanted
  <2>2. result \in Seq(T) /\ IsInjective(result) /\ Range(result) = want
    BY <2>1, KeptRows
  <2> HIDE DEF result, want
  <2>3. QED
    BY <1>5, <2>2 DEF result, want
<1>6. CASE kind = "documents"
  <2>1. result = docs /\ want = Range(docs)
    BY <1>6 DEF Result, WantedOf, Wanted
  <2> HIDE DEF result, want
  <2>2. QED
    BY <1>6, <2>1 DEF result, want
<1>7. QED
  BY <1>2, <1>3, <1>4, <1>5, <1>6 DEF Kinds

\* A list that displaces a row: a fill of other trusted rows, none trusted less.
Displacing(list, docs, k, row) ==
  /\ IsInjective(list) /\ Len(list) = k
  /\ Range(list) \subseteq {other \in Range(docs) : Trusted(other)} \ {row}
  /\ \A other \in Range(list) : RankOf(other) >= RankOf(row)

\* The retriever withholds a trusted row that it read only for such a list, or
\* for procedures.
LEMMA WithheldRows ==
  ASSUME NEW T, NEW docs \in Seq(T), IsInjective(docs), NEW k \in Nat \ {0},
         NEW kind \in {"retrieve", "procedure"},
         NEW row \in Range(docs), Trusted(row), row \notin Range(Result(kind, k, docs))
  PROVE  \/ Retrieved(docs, k) \in Seq(T) /\ Displacing(Retrieved(docs, k), docs, k, row)
         \/ /\ kind = "procedure" /\ TypeOf(row) # "procedural"
            /\ \E other \in Range(Result(kind, k, docs)) : TypeOf(other) = "procedural"
<1> DEFINE retrieved == Retrieved(docs, k)
           result == Result(kind, k, docs)
<1>1. CASE row \notin Range(retrieved)
  BY <1>1, RetrievedRows DEF Displacing
<1>2. CASE row \in Range(retrieved)
  <2> DEFINE kept == Kept(retrieved, {other \in Range(retrieved) : TypeOf(other) = "procedural"})
  <2>1. kind = "procedure"
    BY <1>2 DEF Result
  <2>2. result = IF kept = <<>> THEN retrieved ELSE kept
    BY <2>1 DEF Result, Procedures
  <2>3. result = kept /\ kept # <<>>
    BY <1>2, <2>2
  <2>4. retrieved \in Seq(T)
    BY RetrievedRows
  <2> HIDE DEF retrieved
  <2>5. /\ kept \in Seq(T)
        /\ Range(kept) = {other \in Range(retrieved) : TypeOf(other) = "procedural"}
    BY <2>4, KeptRows
  <2>6. row \notin Range(kept)
    BY <2>3
  <2> HIDE DEF kept, result
  <2>7. 1 \in DOMAIN kept
    BY <2>3, <2>5
  <2>8. kept[1] \in Range(kept)
    BY <2>7 DEF Range
  <2>9. TypeOf(row) # "procedural" /\ \E other \in Range(result) : TypeOf(other) = "procedural"
    BY <1>2, <2>3, <2>5, <2>6, <2>8
  <2>10. QED
    BY <2>1, <2>9 DEF result
<1>3. QED
  BY <1>1, <1>2

\* Of the rows that match no more than the limit made it leave were not read.
LEMMA UnreadBounds ==
  ASSUME NEW a, SearchOK(a), a.k \in Nat, NEW S \in SUBSET (a.matching \ Range(a.docs))
  PROVE  Cardinality(S) <= Unread(a)
<1>1. IsFiniteSet(a.matching)
  BY DEF SearchOK
<1>2. IsFiniteSet(a.matching \ Range(a.docs))
  BY <1>1, FS_Subset
<1>3. /\ Cardinality(S) <= Cardinality(a.matching \ Range(a.docs))
      /\ IsFiniteSet(S)
  BY <1>2, FS_Subset
<1>4. Cardinality(a.matching \ Range(a.docs)) <= Unread(a)
  BY DEF SearchOK
<1>5. /\ Cardinality(S) \in Nat /\ Cardinality(a.matching \ Range(a.docs)) \in Nat
      /\ Cardinality(a.matching) \in Nat
  BY <1>1, <1>2, <1>3, FS_CardinalityType
<1>6. Unread(a) \in Int
  BY <1>5 DEF Unread
<1>7. QED
  BY <1>3, <1>4, <1>5, <1>6

\* The answer of a search in progress and what it was made of.
LEMMA Answers ==
  ASSUME TypeOK, SearchesComplete, NEW c \in Callers, call[c] # Idle
  PROVE  /\ SearchOK(call[c]) /\ call[c].k \in Nat \ {0} /\ call[c].kind \in Kinds
         /\ call[c].docs \in Seq(Rows)
         /\ Answer(call[c]).kind = call[c].kind /\ Answer(call[c]).k = call[c].k
         /\ Answer(call[c]).docs = Result(call[c].kind, call[c].k, call[c].docs)
         /\ Answer(call[c]).matching = call[c].matching
         /\ Unread(Answer(call[c])) = Unread(call[c])
         /\ WantedRows(Answer(call[c])) = {row \in call[c].matching : Wanted(call[c].kind, row)}
<1> DEFINE a == call[c]
<1>1. a \in [kind : Kinds, k : TopKs, docs : Seq(Rows), matching : SUBSET Rows]
  BY DEF TypeOK
<1>2. SearchOK(a)
  BY DEF SearchesComplete
<1>3. a.k \in Nat \ {0}
  BY <1>1, MemoryAssumption DEF MemoryAssumption
<1> HIDE DEF a
<1>4. /\ Answer(a).kind = a.kind /\ Answer(a).k = a.k /\ Answer(a).matching = a.matching
      /\ Answer(a).docs = Result(a.kind, a.k, a.docs)
  BY <1>1 DEF Answer
<1>5. Unread(Answer(a)) = Unread(a)
  BY <1>4 DEF Unread
<1>6. WantedRows(Answer(a)) = {row \in a.matching : Wanted(a.kind, row)}
  BY <1>4 DEF WantedRows
<1>7. QED
  BY <1>1, <1>2, <1>3, <1>4, <1>5, <1>6 DEF a

\* Whatever recorders and ingestion put in and whoever else searches: a search
\* returns only what it is to return, and its fill of it or all but as many rows as
\* its limit left unread; a search for procedures is not empty-handed without need.
THEOREM MissesAreLimits == Spec => []MissedOnlyByLimit
<1>1. TypeOK /\ SearchesComplete => MissedOnlyByLimit
  <2> SUFFICES ASSUME TypeOK, SearchesComplete, NEW c \in Callers, call[c] # Idle
      PROVE LET answer == Answer(call[c])
                found  == Range(answer.docs)
            IN /\ found \subseteq WantedRows(answer)
               /\ answer.kind # "procedure" =>
                    \/ Cardinality(found) >= answer.k
                    \/ Cardinality(WantedRows(answer) \ found) <= Unread(answer)
               /\ answer.kind = "procedure" /\ found = {} =>
                    Cardinality(WantedRows(answer)) <= Unread(answer)
    BY DEF MissedOnlyByLimit
  <2> DEFINE a == call[c]
             answer == Answer(a)
             found == Range(answer.docs)
             wanted == WantedRows(answer)
             want == WantedOf(a.kind, a.docs)
  <2>1. /\ SearchOK(a) /\ a.k \in Nat \ {0} /\ a.kind \in Kinds /\ a.docs \in Seq(Rows)
        /\ answer.kind = a.kind /\ answer.k = a.k
        /\ answer.docs = Result(a.kind, a.k, a.docs)
        /\ Unread(answer) = Unread(a)
        /\ wanted = {row \in a.matching : Wanted(a.kind, row)}
    BY Answers
  <2> HIDE DEF a, answer
  <2>2. Range(a.docs) \subseteq a.matching /\ IsInjective(a.docs)
    BY <2>1 DEF SearchOK
  <2>3. /\ answer.docs \in Seq(Rows) /\ IsInjective(answer.docs) /\ found \subseteq want
        /\ a.kind # "procedure" => Len(answer.docs) = a.k \/ found = want
        /\ a.kind = "procedure" /\ want # {} => found # {}
    <3> DEFINE result == Result(a.kind, a.k, a.docs)
    <3>1. /\ result \in Seq(Rows) /\ IsInjective(result)
          /\ Range(result) \subseteq WantedOf(a.kind, a.docs)
          /\ a.kind # "procedure" =>
               Len(result) = a.k \/ Range(result) = WantedOf(a.kind, a.docs)
          /\ a.kind = "procedure" /\ WantedOf(a.kind, a.docs) # {} => Range(result) # {}
      BY <2>1, <2>2, ResultRows
    <3>2. answer.docs = result
      BY <2>1
    <3> HIDE DEF result
    <3>3. QED
      BY <3>1, <3>2
  <2>4. want \subseteq wanted /\ wanted \ want \in SUBSET (a.matching \ Range(a.docs))
    BY <2>1, <2>2 DEF WantedOf
  <2>5. Cardinality(found) = Len(answer.docs)
    BY <2>3, RangeOnce
  <2>6. Cardinality(wanted \ want) <= Unread(answer)
    BY <2>1, <2>4, UnreadBounds
  <2> HIDE DEF found, wanted, want
  <2>7. ASSUME a.kind # "procedure"
        PROVE  Cardinality(found) >= a.k \/ Cardinality(wanted \ found) <= Unread(answer)
    <3>1. CASE Len(answer.docs) = a.k
      <4>1. Cardinality(found) = a.k /\ a.k \in Nat
        BY <2>1, <2>5, <3>1
      <4>2. QED
        BY <4>1
    <3>2. CASE found = want
      BY <2>6, <3>2
    <3>3. QED
      BY <2>3, <2>7, <3>1, <3>2
  <2>8. ASSUME a.kind = "procedure", found = {} PROVE Cardinality(wanted) <= Unread(answer)
    <3>1. wanted \ want = wanted
      BY <2>3, <2>8
    <3>2. QED
      BY <2>6, <3>1
  <2>9. QED
    BY <2>1, <2>3, <2>4, <2>7, <2>8 DEF a, answer, found, wanted
<1>2. QED
  BY <1>1, TypeCorrect, CompleteInvariant, PTL

\* Of the trusted rows that match the retriever withholds, but for as many as its
\* limit left unread, only those that its fill of rows trusted at least as much
\* displaces, and those that are no procedures where it has procedures to return.
THEOREM LossesAreDeserved == Spec => []LostOnlyToTrust
<1>1. TypeOK /\ SearchesComplete => LostOnlyToTrust
  <2> SUFFICES ASSUME TypeOK, SearchesComplete, NEW c \in Callers,
                      call[c].kind \in {"retrieve", "procedure"}
      PROVE LET answer == Answer(call[c])
            IN Cardinality({row \in WantedRows(answer) \ Range(answer.docs) :
                              ~ Displaced(row, answer) /\ ~ Filtered(row, answer)})
                 <= Unread(answer)
    BY DEF LostOnlyToTrust
  <2> DEFINE a == call[c]
             answer == Answer(a)
             wanted == WantedRows(answer)
             lost == {row \in wanted \ Range(answer.docs) :
                        ~ Displaced(row, answer) /\ ~ Filtered(row, answer)}
  <2>1. a # Idle
    BY DEF Idle
  <2>2. /\ SearchOK(a) /\ a.k \in Nat \ {0} /\ a.kind \in Kinds /\ a.docs \in Seq(Rows)
        /\ answer.kind = a.kind /\ answer.k = a.k
        /\ answer.docs = Result(a.kind, a.k, a.docs)
        /\ Unread(answer) = Unread(a)
        /\ wanted = {row \in a.matching : Wanted(a.kind, row)}
    BY <2>1, Answers
  <2>3. a.kind \in {"retrieve", "procedure"}
    OBVIOUS
  <2> HIDE DEF a, answer
  <2>4. wanted = {row \in a.matching : Trusted(row)}
    BY <2>2, <2>3 DEF Wanted
  <2>5. Range(a.docs) \subseteq a.matching /\ IsInjective(a.docs) /\ IsFiniteSet(a.matching)
    BY <2>2 DEF SearchOK
  <2>6. ASSUME NEW row \in wanted \ Range(answer.docs), row \in Range(a.docs)
        PROVE  Displaced(row, answer) \/ Filtered(row, answer)
    <3> DEFINE list == Retrieved(a.docs, a.k)
    <3>1. \/ list \in Seq(Rows) /\ Displacing(list, a.docs, a.k, row)
          \/ /\ a.kind = "procedure" /\ TypeOf(row) # "procedural"
             /\ \E other \in Range(answer.docs) : TypeOf(other) = "procedural"
      BY <2>2, <2>3, <2>4, <2>5, <2>6, WithheldRows
    <3> HIDE DEF list
    <3>2. CASE list \in Seq(Rows) /\ Displacing(list, a.docs, a.k, row)
      <4> DEFINE others == {other \in wanted \ {row} : RankOf(other) >= RankOf(row)}
      <4>1. IsFiniteSet(others)
        <5>1. others \in SUBSET a.matching
          BY <2>4
        <5>2. QED
          BY <2>5, <5>1, FS_Subset
      <4>2. Cardinality(Range(list)) = a.k
        BY <3>2, RangeOnce DEF Displacing
      <4>3. Range(list) \in SUBSET others
        BY <2>4, <2>5, <3>2 DEF Displacing
      <4>4. Displaced(row, answer) <=> Cardinality(others) >= a.k
        BY <2>2 DEF Displaced
      <4> HIDE DEF others
      <4>5. Cardinality(Range(list)) <= Cardinality(others) /\ Cardinality(others) \in Nat
        BY <4>1, <4>3, FS_Subset, FS_CardinalityType
      <4>6. QED
        BY <2>2, <4>2, <4>4, <4>5
    <3>3. CASE /\ a.kind = "procedure" /\ TypeOf(row) # "procedural"
               /\ \E other \in Range(answer.docs) : TypeOf(other) = "procedural"
      BY <2>2, <3>3 DEF Filtered
    <3>4. QED
      BY <3>1, <3>2, <3>3
  <2>7. lost \in SUBSET (a.matching \ Range(a.docs))
    BY <2>4, <2>6
  <2> HIDE DEF lost
  <2>8. Cardinality(lost) <= Unread(answer)
    BY <2>2, <2>7, UnreadBounds
  <2>9. QED
    BY <2>8 DEF lost, wanted, answer, a
<1>2. QED
  BY <1>1, TypeCorrect, CompleteInvariant, PTL

=============================================================================

---------------------------- MODULE ReportProofs ----------------------------
(***************************************************************************)
(* Proofs about Reconciliation, for every report, books and tolerance, and *)
(* about DecimalAmount, for texts of any length and every exponent.        *)
(***************************************************************************)
EXTENDS Reconciliation, DecimalAmount, DataLemmas

-----------------------------------------------------------------------------
(* Rows that count.                                                        *)

\* The equation of the function by which Unique is defined, for the rows s.
Keeps(k, s) ==
  k = [n \in 0..Len(s) |->
         IF n = 0 THEN {}
         ELSE IF \E i \in k[n - 1] : Same(s[i], s[n]) THEN k[n - 1]
         ELSE k[n - 1] \cup {n}]

UniqueOf(s) == LET k == CHOOSE k : Keeps(k, s) IN k[Len(s)]

\* What the rows that count are, without recursion.
Counting(U, s) ==
  /\ U \subseteq 1..Len(s)
  /\ \A n \in 1..Len(s) : n \in U <=> ~\E i \in U : i < n /\ Same(s[i], s[n])

\* The recursion is well founded.
LEMMA KeepsExists == ASSUME NEW s, Len(s) \in Nat PROVE \E k : Keeps(k, s)
<1> DEFINE KeptAt(k, n) ==
             IF n = 0 THEN {}
             ELSE IF \E i \in k[n - 1] : Same(s[i], s[n]) THEN k[n - 1]
             ELSE k[n - 1] \cup {n}
           Defined(n) == \E k : k = [m \in 0..n |-> KeptAt(k, m)]
           Lengths == {n \in Nat : Defined(n)}
<1>1. 0 \in Lengths
  <2> DEFINE k == [m \in 0..0 |-> {}]
  <2>1. k = [m \in 0..0 |-> KeptAt(k, m)]
    OBVIOUS
  <2> HIDE DEF k
  <2> QED BY <2>1
<1>2. ASSUME NEW n \in Nat, n \in Lengths PROVE n + 1 \in Lengths
  <2>1. PICK k : k = [m \in 0..n |-> KeptAt(k, m)]
    BY <1>2
  <2> HIDE DEF KeptAt
  <2> DEFINE h == [m \in 0..(n + 1) |-> IF m <= n THEN k[m] ELSE KeptAt(k, m)]
  <2>2. \A m \in 0..n : h[m] = k[m] /\ k[m] = KeptAt(k, m)
    BY <2>1
  <2>3. ASSUME NEW m \in 0..(n + 1) PROVE h[m] = KeptAt(h, m)
    <3>1. m # 0 => h[m - 1] = k[m - 1]
      BY <2>2
    <3>2. KeptAt(h, m) = KeptAt(k, m)
      BY <3>1 DEF KeptAt
    <3>3. CASE m \in 0..n
      BY <2>2, <3>2, <3>3
    <3>4. CASE m = n + 1
      BY <3>2, <3>4
    <3> QED BY <3>3, <3>4
  <2>4. h = [m \in 0..(n + 1) |-> h[m]]
    OBVIOUS
  <2> HIDE DEF h
  <2>5. h = [m \in 0..(n + 1) |-> KeptAt(h, m)]
    BY <2>3, <2>4
  <2>6. Defined(n + 1)
    BY <2>5
  <2> HIDE DEF Defined
  <2> QED BY <2>6
<1>3. Nat \subseteq Lengths
  <2> HIDE DEF Lengths
  <2> QED BY <1>1, <1>2, Induction
<1>4. Defined(Len(s))
  BY <1>3
<1> QED
  BY <1>4 DEF Keeps

\* What the recursion behind Unique keeps are the rows that count.
LEMMA UniqueCounts == ASSUME NEW s, Len(s) \in Nat PROVE Counting(UniqueOf(s), s)
<1> DEFINE k == CHOOSE k : Keeps(k, s)
           N == Len(s)
<1>1. Keeps(k, s)
  BY KeepsExists
<1> HIDE DEF k
<1> DEFINE Repeats(n) == \E i \in k[n - 1] : Same(s[i], s[n])
<1>2. /\ k[0] = {}
      /\ \A n \in 1..N : k[n] = IF Repeats(n) THEN k[n - 1] ELSE k[n - 1] \cup {n}
  <2>1. k = [n \in 0..N |-> IF n = 0 THEN {}
                           ELSE IF Repeats(n) THEN k[n - 1] ELSE k[n - 1] \cup {n}]
    BY <1>1 DEF Keeps
  <2> HIDE DEF Repeats
  <2> DEFINE v(n) == IF Repeats(n) THEN k[n - 1] ELSE k[n - 1] \cup {n}
  <2>2. k = [n \in 0..N |-> IF n = 0 THEN {} ELSE v(n)]
    BY <2>1
  <2> HIDE DEF v
  <2>3. k[0] = {} /\ \A n \in 1..N : k[n] = v(n)
    BY <2>2
  <2> QED BY <2>3 DEF v
<1> DEFINE Inside == {n \in Nat : n <= N =>
                        /\ k[n] \subseteq 1..n
                        /\ \A m \in 0..n : k[m] = k[n] \cap (1..m)}
<1>3. 0 \in Inside
  BY <1>2
<1>4. ASSUME NEW n \in Nat, n \in Inside PROVE n + 1 \in Inside
  <2> SUFFICES ASSUME n + 1 <= N
               PROVE  /\ k[n + 1] \subseteq 1..(n + 1)
                      /\ \A m \in 0..(n + 1) : k[m] = k[n + 1] \cap (1..m)
    OBVIOUS
  <2>1. k[n] \subseteq 1..n /\ \A m \in 0..n : k[m] = k[n] \cap (1..m)
    BY <1>4
  <2>2. k[n + 1] = k[n] \/ k[n + 1] = k[n] \cup {n + 1}
    <3> HIDE DEF Repeats
    <3>1. n + 1 \in 1..N /\ (n + 1) - 1 = n
      OBVIOUS
    <3>2. k[n + 1] = k[(n + 1) - 1] \/ k[n + 1] = k[(n + 1) - 1] \cup {n + 1}
      BY <1>2, <3>1
    <3> QED BY <3>1, <3>2
  <2>3. k[n + 1] \subseteq 1..(n + 1)
    BY <2>1, <2>2
  <2>4. ASSUME NEW m \in 0..n PROVE k[m] = k[n + 1] \cap (1..m)
    BY <2>1, <2>2
  <2> QED BY <2>3, <2>4
<1>5. N \in Inside
  <2>1. Nat \subseteq Inside
    <3> HIDE DEF Inside
    <3> QED BY <1>3, <1>4, Induction
  <2> QED BY <2>1
<1>6. ASSUME NEW n \in 1..N
      PROVE  n \in k[N] <=> ~\E i \in k[N] : i < n /\ Same(s[i], s[n])
  <2>1. k[n - 1] = k[N] \cap (1..(n - 1)) /\ k[n] = k[N] \cap (1..n)
    BY <1>5
  <2>2. k[N] \subseteq 1..N
    BY <1>5
  <2>3. k[n] = IF \E i \in k[n - 1] : Same(s[i], s[n]) THEN k[n - 1] ELSE k[n - 1] \cup {n}
    BY <1>2
  <2>4. (\E i \in k[n - 1] : Same(s[i], s[n])) <=> \E i \in k[N] : i < n /\ Same(s[i], s[n])
    BY <2>1, <2>2
  <2> QED BY <2>1, <2>3, <2>4
<1>7. k[N] \subseteq 1..N
  BY <1>5
<1> QED
  BY <1>6, <1>7 DEF Counting, UniqueOf, k

\* The first row on which two such sets differ would have to be in both or in neither.
LEMMA CountingOnce ==
  ASSUME NEW s, Len(s) \in Nat, NEW U, Counting(U, s), NEW V, Counting(V, s)
  PROVE  U = V
<1> DEFINE Agree == {n \in Nat : \A m \in 1..Len(s) : m <= n => (m \in U <=> m \in V)}
<1>1. 0 \in Agree
  OBVIOUS
<1>2. ASSUME NEW n \in Nat, n \in Agree PROVE n + 1 \in Agree
  <2> SUFFICES ASSUME n + 1 \in 1..Len(s) PROVE n + 1 \in U <=> n + 1 \in V
    BY <1>2
  <2>1. \A i \in 1..Len(s) : i < n + 1 => (i \in U <=> i \in V)
    BY <1>2
  <2> QED BY <2>1 DEF Counting
<1>3. Len(s) \in Agree
  <2>1. Nat \subseteq Agree
    <3> HIDE DEF Agree
    <3> QED BY <1>1, <1>2, Induction
  <2> QED BY <2>1
<1>4. \A n \in 1..Len(s) : n \in U <=> n \in V
  BY <1>3
<1> QED
  BY <1>4 DEF Counting

\* A row that repeats one that counts does not count; any other does.
LEMMA UniqueAfter ==
  ASSUME NEW s, Len(s) \in Nat, NEW t, Len(t) = Len(s) + 1,
         \A n \in 1..Len(s) : t[n] = s[n]
  PROVE  UniqueOf(t) = IF \E i \in UniqueOf(s) : Same(s[i], t[Len(t)])
                         THEN UniqueOf(s) ELSE UniqueOf(s) \cup {Len(t)}
<1> DEFINE U == UniqueOf(s)
           V == IF \E i \in U : Same(s[i], t[Len(t)]) THEN U ELSE U \cup {Len(t)}
<1>1. Counting(U, s) /\ Counting(UniqueOf(t), t)
  BY UniqueCounts
<1> HIDE DEF U
<1>2. U \subseteq 1..Len(s) /\ V \subseteq 1..Len(t)
  <2>1. U \subseteq 1..Len(s) /\ V \subseteq U \cup {Len(t)}
    BY <1>1 DEF Counting
  <2> HIDE DEF V
  <2> QED BY <2>1
<1>3. ASSUME NEW n \in 1..Len(t)
      PROVE  n \in V <=> ~\E i \in V : i < n /\ Same(t[i], t[n])
  <2>1. \A i \in U : t[i] = s[i]
    BY <1>2
  <2>2. CASE n \in 1..Len(s)
    <3>1. n \in U <=> ~\E i \in U : i < n /\ Same(s[i], s[n])
      BY <1>1, <2>2 DEF Counting
    <3>2. \A i \in V : i < n => i \in U
      BY <1>2, <2>2
    <3>3. n \in V <=> n \in U
      BY <2>2
    <3> QED BY <2>1, <2>2, <3>1, <3>2, <3>3
  <2>3. CASE n = Len(t)
    <3>1. \A i \in V : i < n => i \in U
      BY <1>2, <2>3
    <3>2. \A i \in U : i \in V /\ i < n /\ i # n
      BY <1>2, <2>3
    <3>3. n \in V <=> ~\E i \in U : Same(s[i], t[n])
      BY <2>3, <3>2
    <3> QED BY <2>1, <3>1, <3>2, <3>3
  <2> QED BY <2>2, <2>3
<1>4. Counting(V, t)
  BY <1>2, <1>3 DEF Counting
<1>5. UniqueOf(t) = V
  <2> HIDE DEF V
  <2> QED BY <1>1, <1>4, CountingOnce
<1> QED
  BY <1>5 DEF U

-----------------------------------------------------------------------------
(* Reports and what they consist of.                                       *)

ReportTypeOK == merchants \in Books /\ records \in Seq(Rows)

\* A report is a sequence of Sezzle's rows beside the books the merchant supplied.
THEOREM ReportTypeCorrect == Spec => []ReportTypeOK
<1>1. Init => ReportTypeOK
  BY DEF Init, ReportTypeOK
<1>2. ReportTypeOK /\ [Next]_vars => ReportTypeOK'
  BY DEF ReportTypeOK, Next, AddRow, vars
<1> QED
  BY <1>1, <1>2, PTL DEF Spec

\* The rows of a report, and those that count without the recursion.
LEMMA RowFacts ==
  ASSUME ReportTypeOK
  PROVE  /\ Len(records) \in Nat /\ DOMAIN records = 1..Len(records)
         /\ \A i \in DOMAIN records : records[i] \in Rows /\ SezzleRecord(records[i])
         /\ Counting(Unique, records) /\ Unique \subseteq DOMAIN records
         /\ IsFiniteSet(DOMAIN records) /\ IsFiniteSet(Unique)
<1>1. Len(records) \in Nat /\ DOMAIN records = 1..Len(records)
  BY DEF ReportTypeOK
<1>2. \A i \in DOMAIN records : records[i] \in Rows /\ SezzleRecord(records[i])
  BY InputAssumption DEF ReportTypeOK
<1>3. Unique = UniqueOf(records)
  BY DEF Unique, UniqueOf, Keeps
<1>4. Counting(Unique, records) /\ Unique \subseteq DOMAIN records
  BY <1>1, <1>3, UniqueCounts DEF Counting
<1>5. IsFiniteSet(DOMAIN records)
  BY <1>1, FS_Interval
<1> QED
  BY <1>1, <1>2, <1>4, <1>5, FS_Subset

\* No two rows that count repeat each other.
LEMMA UniqueIds ==
  ASSUME ReportTypeOK, NEW i \in Unique, NEW j \in Unique, Same(records[i], records[j])
  PROVE  i = j
<1>1. Same(records[j], records[i])
  BY DEF Same, SameContent
<1>2. i \in 1..Len(records) /\ j \in 1..Len(records) /\ Len(records) \in Nat
  BY RowFacts
<1> QED
  BY <1>1, <1>2, RowFacts DEF Counting

\* Exactly one row of each content counts, in whatever order the rows come.
LEMMA OneOfEachContentHolds == ReportTypeOK => OneOfEachContent
<1> SUFFICES ASSUME ReportTypeOK, IdsIdentify, NEW i \in DOMAIN records
             PROVE  Cardinality({j \in Unique : SameContent(records[j], records[i])}) = 1
  BY DEF OneOfEachContent
<1> DEFINE Alike == {j \in Unique : SameContent(records[j], records[i])}
<1>1. PICK j : j \in Alike
  <2>1. CASE i \in Unique
    BY <2>1 DEF SameContent
  <2>2. CASE i \notin Unique
    <3>1. PICK j \in Unique : Same(records[j], records[i])
      BY <2>2, RowFacts DEF Counting
    <3>2. j \in DOMAIN records
      BY RowFacts
    <3> QED BY <3>1, <3>2 DEF Same, IdsIdentify
  <2> QED BY <2>1, <2>2
<1>2. ASSUME NEW n \in Alike PROVE n = j
  <2>1. Same(records[n], records[j])
    BY <1>1 DEF Same, SameContent
  <2> QED BY <1>1, <2>1, UniqueIds
<1>3. Alike = {j}
  BY <1>1, <1>2
<1> QED
  BY <1>3, FS_Singleton

\* One row of each content counts, so no result depends on the order of the rows.
THEOREM OneOfEachContentCorrect == Spec => []OneOfEachContent
BY ReportTypeCorrect, OneOfEachContentHolds, PTL

\* What matches an order has an order key.
LEMMA RecordsForKeyed ==
  ASSUME ReportTypeOK, NEW m \in DOMAIN merchants, NEW i \in RecordsFor(m)
  PROVE  i \in Keyed
<1>1. merchants[m].ref # None
  BY InputAssumption DEF ReportTypeOK, MerchantOrder
<1>2. OrderKey(records[i]) # None
  <2>1. records[i] \in Rows /\ (records[i].uuid # None \/ records[i].ref # None)
    BY <1>1, RowFacts DEF RecordsFor
  <2> QED BY <2>1, InputAssumption DEF OrderKey
<1> QED BY <1>2 DEF RecordsFor, Keyed

LEMMA EveryRowPlacedHolds == ReportTypeOK => EveryRowPlaced
<1> DEFINE Matches(i) == \E m \in Matched : i \in RecordsFor(m)
           Adjusts(i) == OrderKey(records[i]) = None
           Placed(i) ==
             /\ i \in Unique <=> ~\E j \in Unique : j < i /\ Same(records[j], records[i])
             /\ i \in Unique => (i \in Unmatched <=> ~Matches(i) /\ ~Adjusts(i))
             /\ ~(Matches(i) /\ Adjusts(i))
<1> SUFFICES ASSUME ReportTypeOK PROVE \A i \in DOMAIN records : Placed(i)
  BY DEF EveryRowPlaced
<1> SUFFICES ASSUME NEW i \in DOMAIN records PROVE Placed(i)
  OBVIOUS
<1> DEFINE matches == Matches(i)
           adjusts == Adjusts(i)
<1>1. i \in Unique <=> ~\E j \in Unique : j < i /\ Same(records[j], records[i])
  BY RowFacts DEF Counting
<1>2. ~(matches /\ adjusts)
  BY RecordsForKeyed DEF Matched, Keyed
<1>3. ASSUME i \in Unique PROVE i \in Unmatched <=> ~matches /\ ~adjusts
  <2>1. i \in Keyed <=> ~adjusts
    BY <1>3 DEF Keyed
  <2>2. records[i].id \in UsedIds <=> matches
    <3>1. matches => records[i].id \in UsedIds
      BY DEF UsedIds
    <3>2. ASSUME records[i].id \in UsedIds PROVE matches
      <4>1. PICK m \in Matched : \E j \in RecordsFor(m) : records[j].id = records[i].id
        BY <3>2 DEF UsedIds
      <4>2. PICK j \in RecordsFor(m) : records[j].id = records[i].id
        BY <4>1
      <4>3. j = i
        BY <1>3, <4>2, UniqueIds DEF RecordsFor, Same
      <4> QED BY <4>2, <4>3
    <3> QED BY <3>1, <3>2
  <2> QED BY <2>1, <2>2 DEF Unmatched
<1> QED
  BY <1>1, <1>2, <1>3

\* Every row of a report ends in exactly one place.
THEOREM EveryRowPlacedCorrect == Spec => []EveryRowPlaced
BY ReportTypeCorrect, EveryRowPlacedHolds, PTL

-----------------------------------------------------------------------------
(* Duplicates.                                                             *)

\* Amounts, amounts ordered and contributions are integers.
LEMMA SumFacts ==
  ASSUME ReportTypeOK
  PROVE  /\ Numbers(Amounts, DOMAIN records) /\ Numbers(OrderAmounts, DOMAIN records)
         /\ \A i \in DOMAIN records :
              /\ Amounts[i] = Value(records[i].amount) /\ Contribution(i) \in Int
              /\ OrderAmounts[i] = Value(records[i].ordered)
<1> SUFFICES ASSUME NEW i \in DOMAIN records
             PROVE  /\ Value(records[i].amount) \in Int /\ Value(records[i].ordered) \in Int
                    /\ Contribution(i) \in Int
  BY DEF Numbers, Amounts, OrderAmounts
<1>1. Value(records[i].amount) \in Int /\ Value(records[i].ordered) \in Int
  BY RowFacts DEF SezzleRecord, OptionalInt, Value
<1> QED
  BY <1>1 DEF Contribution, Magnitude

\* A row that repeats one that counts changes none of the results.
LEMMA DuplicateStep ==
  ASSUME ReportTypeOK, NEW r \in Rows, AddRow(r),
         NEW j \in Unique, Same(records[j], r)
  PROVE  /\ Payout' = Payout /\ Matched' = Matched /\ Unmatched' = Unmatched
         /\ Confidence' = Confidence /\ HighPriority' = HighPriority
<1>1. /\ merchants' = merchants /\ Len(records') = Len(records) + 1
      /\ \A n \in DOMAIN records : n \in DOMAIN records' /\ records'[n] = records[n]
      /\ records'[Len(records')] = r
  BY DEF AddRow, ReportTypeOK
<1>2. Unique' = Unique
  <2>1. Unique = UniqueOf(records) /\ Unique' = UniqueOf(records')
    BY DEF Unique, UniqueOf, Keeps
  <2> QED BY <1>1, <2>1, UniqueAfter, RowFacts
<1>3. \A i \in Unique : records'[i] = records[i] /\ i \in DOMAIN records
  BY <1>1, RowFacts
<1>4. \A m : RecordsFor(m)' = RecordsFor(m)
  BY <1>1, <1>2, <1>3 DEF RecordsFor
<1>5. Matched' = Matched
  BY <1>1, <1>4 DEF Matched
<1>6. Keyed' = Keyed
  BY <1>2, <1>3 DEF Keyed, OrderKey
<1>7. ASSUME NEW I \in SUBSET Unique
      PROVE  /\ Captures(I)' = Captures(I) /\ Refunds(I)' = Refunds(I)
             /\ FeeCost(I)' = FeeCost(I) /\ Contributed(I)' = Contributed(I)
             /\ Ordered(I)' = Ordered(I)
  <2>1. \A i \in I : i \in Unique /\ records'[i] = records[i]
    BY <1>3
  <2>2. ASSUME NEW type
        PROVE  SumAmounts(I, type)' = SumAmounts(I, type) /\ SumOrdered(I)' = SumOrdered(I)
    <3>1. ASSUME NEW t PROVE OfType(I, t)' = OfType(I, t)
      BY <2>1 DEF OfType
    <3>2. ASSUME NEW t
          PROVE  /\ SumFunctionOnSet(Amounts', OfType(I, t)) = SumFunctionOnSet(Amounts, OfType(I, t))
                 /\ SumFunctionOnSet(OrderAmounts', OfType(I, t)) = SumFunctionOnSet(OrderAmounts, OfType(I, t))
      <4>1. /\ IsFiniteSet(OfType(I, t))
            /\ \A i \in OfType(I, t) : i \in DOMAIN records /\ i \in DOMAIN records'
                                      /\ records'[i] = records[i]
        BY <1>1, <2>1, RowFacts, FS_Subset DEF OfType
      <4>2. /\ Numbers(Amounts, OfType(I, t)) /\ Numbers(OrderAmounts, OfType(I, t))
            /\ \A i \in OfType(I, t) :
                 (Amounts')[i] = Amounts[i] /\ (OrderAmounts')[i] = OrderAmounts[i]
        BY <4>1, SumFacts DEF Numbers, Amounts, OrderAmounts
      <4> QED BY <4>1, <4>2, SumEqual
    <3> QED BY <3>1, <3>2 DEF SumAmounts, SumOrdered
  <2>3. \A i \in I : Contribution(i)' = Contribution(i)
    BY <2>1 DEF Contribution
  <2>4. Contributed(I)' = Contributed(I)
    BY <2>3 DEF Contributed
  <2> QED BY <2>2, <2>4 DEF Captures, Ordered, Refunds, FeeCost
<1>8. ASSUME NEW m
      PROVE  Mismatches(m)' = Mismatches(m) /\ FeeCost(RecordsFor(m))' = FeeCost(RecordsFor(m))
  <2>1. RecordsFor(m) \in SUBSET Unique
    BY DEF RecordsFor
  <2> QED BY <1>1, <1>4, <1>5, <1>7, <2>1 DEF Mismatches
<1>9. HighPriority' = HighPriority
  BY <1>1, <1>5, <1>8 DEF HighPriority, FeeAnomalies
<1>10. UsedIds' = UsedIds
  BY <1>3, <1>4, <1>5 DEF UsedIds, RecordsFor
<1>11. Unmatched' = Unmatched
  BY <1>3, <1>6, <1>10 DEF Unmatched, Keyed
<1>12. Confidence' = Confidence
  BY <1>1, <1>5, <1>11 DEF Confidence
<1>13. Payout' = Payout
  <2> DEFINE keys == {OrderKey(records[i]) : i \in Keyed}
             group(key) == {i \in Keyed : OrderKey(records[i]) = key}
  <2>1. keys' = keys
    BY <1>3, <1>6 DEF Keyed
  <2>2. \A key : group(key)' = group(key) /\ group(key) \in SUBSET Unique
    BY <1>3, <1>6 DEF Keyed
  <2>3. Contributed(Unique)' = Contributed(Unique)
    BY <1>2, <1>7
  <2> HIDE DEF keys, group
  <2>4. \A key : Captures(group(key))' = Captures(group(key))
    BY <1>7, <2>2
  <2>5. [key \in keys |-> Captures(group(key))]' = [key \in keys |-> Captures(group(key))]
    BY <2>1, <2>4
  <2> QED BY <2>3, <2>5 DEF Payout, keys, group
<1> QED
  BY <1>5, <1>9, <1>11, <1>12, <1>13

\* Duplicates by id or content, however far back, change nothing.
THEOREM DuplicatesInertCorrect == Spec => DuplicatesInert
<1> DEFINE Inert ==
      LET n == Len(records') IN
        (\E i \in Unique : \/ records[i].id = records'[n].id
                           \/ SameContent(records[i], records'[n]))
          => /\ Payout' = Payout /\ Matched' = Matched /\ Unmatched' = Unmatched
             /\ Confidence' = Confidence /\ HighPriority' = HighPriority
<1>1. ReportTypeOK /\ [Next]_vars => [Inert]_vars
  <2> SUFFICES ASSUME ReportTypeOK, NEW r \in Rows, AddRow(r) PROVE Inert
    BY DEF Next
  <2>1. records'[Len(records')] = r
    BY DEF AddRow, ReportTypeOK
  <2> QED BY <2>1, DuplicateStep DEF Same
<1> QED
  BY <1>1, ReportTypeCorrect, PTL DEF Spec, DuplicatesInert

-----------------------------------------------------------------------------
(* The payout and the merchant's books.                                    *)

\* Books are finite lists of the merchant's orders.
LEMMA BookFacts ==
  ASSUME ReportTypeOK
  PROVE  /\ Len(merchants) \in Nat /\ DOMAIN merchants = 1..Len(merchants)
         /\ IsFiniteSet(DOMAIN merchants) /\ Cardinality(DOMAIN merchants) = Len(merchants)
         /\ \A m \in DOMAIN merchants : MerchantOrder(merchants[m])
<1>1. /\ Len(merchants) \in Nat /\ DOMAIN merchants = 1..Len(merchants)
      /\ \A m \in DOMAIN merchants : MerchantOrder(merchants[m])
  BY InputAssumption DEF ReportTypeOK
<1>2. IsFiniteSet(1..Len(merchants)) /\ Cardinality(1..Len(merchants)) = Len(merchants)
  BY <1>1, FS_Interval
<1> QED BY <1>1, <1>2

\* Division rounds down.
LEMMA QuotientBelow ==
  ASSUME NEW n \in Nat, NEW d \in Nat, d > 0
  PROVE  d * (n \div d) <= n
OBVIOUS

\* Full confidence means that every order is matched and no row is left over.
LEMMA FullConfidence ==
  ASSUME ReportTypeOK, Confidence = 10000
  PROVE  Matched = DOMAIN merchants /\ Unmatched = {}
<1>1. /\ IsFiniteSet(Unmatched) /\ IsFiniteSet(Matched) /\ Matched \in SUBSET DOMAIN merchants
      /\ Cardinality(Matched) <= Len(merchants)
  BY RowFacts, BookFacts, FS_Subset DEF Unmatched, Keyed, Matched
<1>2. PICK c \in Nat, u \in Nat : c = Cardinality(Matched) /\ u = Cardinality(Unmatched)
  BY <1>1, FS_CardinalityType
<1>3. PICK n \in Nat : n = Len(merchants)
  BY BookFacts
<1>4. c = n /\ u = 0
  <2>1. CASE n + u = 0
    BY <1>1, <1>2, <1>3, <2>1
  <2>2. CASE n + u > 0
    <3>1. (c * 10000) \div (n + u) = 10000
      BY <1>2, <1>3, <2>2 DEF Confidence
    <3>2. (n + u) * 10000 <= c * 10000
      BY <2>2, <3>1, QuotientBelow
    <3> QED BY <1>1, <1>2, <1>3, <3>2
  <2> QED BY <2>1, <2>2
<1>5. Unmatched = {}
  BY <1>1, <1>2, <1>4, FS_EmptySet
<1>6. Matched = DOMAIN merchants
  BY <1>1, <1>2, <1>3, <1>4, BookFacts, FS_Subset
<1> QED BY <1>5, <1>6

\* The rows of the orders, if nothing is reported: they have one order each, and the
\* rows of an order are those of its key.
LEMMA OrdersAndKeys ==
  ASSUME ReportTypeOK, NothingToReport, KeysConsistent
  PROVE  /\ \A m \in DOMAIN merchants : RecordsFor(m) # {}
         /\ \A i \in Keyed : \E m \in DOMAIN merchants : i \in RecordsFor(m)
         /\ \A m, n \in DOMAIN merchants : m # n => RecordsFor(m) \cap RecordsFor(n) = {}
         /\ \A m \in DOMAIN merchants : \A i \in RecordsFor(m) :
              RecordsFor(m) = {j \in Keyed : OrderKey(records[j]) = OrderKey(records[i])}
<1>1. Matched = DOMAIN merchants /\ Unmatched = {}
  BY FullConfidence DEF NothingToReport
<1>2. \A m \in DOMAIN merchants : RecordsFor(m) # {}
  BY <1>1 DEF Matched
<1>3. ASSUME NEW i \in Keyed PROVE \E m \in DOMAIN merchants : i \in RecordsFor(m)
  <2>1. i \in Unique /\ OrderKey(records[i]) # None /\ i \notin Unmatched /\ i \in DOMAIN records
    BY <1>1, RowFacts DEF Keyed
  <2> QED BY <1>1, <2>1, EveryRowPlacedHolds DEF EveryRowPlaced
<1>4. \A m, n \in DOMAIN merchants : m # n => RecordsFor(m) \cap RecordsFor(n) = {}
  BY DEF KeysConsistent
<1>5. ASSUME NEW m \in DOMAIN merchants, NEW i \in RecordsFor(m)
      PROVE  RecordsFor(m) = {j \in Keyed : OrderKey(records[j]) = OrderKey(records[i])}
  <2>1. \A j \in RecordsFor(m) : j \in Keyed /\ OrderKey(records[j]) = OrderKey(records[i])
    BY RecordsForKeyed DEF KeysConsistent
  <2>2. ASSUME NEW j \in Keyed, OrderKey(records[j]) = OrderKey(records[i])
        PROVE  j \in RecordsFor(m)
    <3>1. PICK n \in DOMAIN merchants : j \in RecordsFor(n)
      BY <1>3
    <3>2. n = m
      BY <2>2, <3>1 DEF KeysConsistent
    <3> QED BY <3>1, <3>2
  <2> QED BY <2>1, <2>2
<1> QED BY <1>2, <1>3, <1>4, <1>5

\* The totals of any rows that count are integers.
LEMMA TotalsAreNumbers ==
  ASSUME ReportTypeOK, NEW I \in SUBSET Unique, NEW type
  PROVE  /\ IsFiniteSet(OfType(I, type)) /\ OfType(I, type) \in SUBSET DOMAIN records
         /\ SumAmounts(I, type) \in Int /\ Captures(I) \in Int
<1>1. ASSUME NEW t
      PROVE  /\ IsFiniteSet(OfType(I, t)) /\ OfType(I, t) \in SUBSET DOMAIN records
             /\ SumAmounts(I, t) \in Int /\ SumFunctionOnSet(OrderAmounts, OfType(I, t)) \in Int
  <2>1. IsFiniteSet(OfType(I, t)) /\ OfType(I, t) \in SUBSET DOMAIN records
    BY RowFacts, FS_Subset DEF OfType
  <2>2. Numbers(Amounts, OfType(I, t)) /\ Numbers(OrderAmounts, OfType(I, t))
    BY <2>1, SumFacts DEF Numbers
  <2> QED BY <2>1, <2>2, SumInt DEF SumAmounts
<1> QED
  BY <1>1 DEF Captures, Ordered, SumOrdered, Magnitude

\* If nothing is reported, the totals of each order are those of its rows.
LEMMA TotalsOfOrders ==
  ASSUME ReportTypeOK, NothingToReport, NEW m \in DOMAIN merchants
  PROVE  /\ merchants[m].captured = Captures(RecordsFor(m))
         /\ merchants[m].refunded = Refunds(RecordsFor(m))
<1>1. m \in Matched
  BY FullConfidence DEF NothingToReport
<1>2. HighPriority = {}
  BY DEF NothingToReport
<1>3. ASSUME NEW code \in {"CAPTURE", "REFUND", "FEE"} PROVE code \notin Mismatches(m)
  <2> DEFINE found == <<m, code>>
  <2>1. found \in Matched \X {"CAPTURE", "REFUND", "FEE"} /\ found[1] = m /\ found[2] = code
    BY <1>1
  <2>2. found \notin HighPriority
    BY <1>2
  <2> HIDE DEF found
  <2> QED BY <2>1, <2>2 DEF HighPriority
<1>4. "CAPTURE" \notin Mismatches(m) /\ "REFUND" \notin Mismatches(m)
  BY <1>3
<1> QED BY <1>1, <1>4 DEF Mismatches

\* Summing captures per key or per order makes no difference.
LEMMA CapturesOfBooks ==
  ASSUME ReportTypeOK, NothingToReport, KeysConsistent
  PROVE  LET keys == {OrderKey(records[i]) : i \in Keyed}
             group(key) == {i \in Keyed : OrderKey(records[i]) = key}
         IN  SumFunction([key \in keys |-> Captures(group(key))])
               = SumFunction([m \in DOMAIN merchants |-> merchants[m].captured])
<1> DEFINE keys == {OrderKey(records[i]) : i \in Keyed}
           group(key) == {i \in Keyed : OrderKey(records[i]) = key}
           M == DOMAIN merchants
           f == [key \in keys |-> Captures(group(key))]
           g == [m \in M |-> merchants[m].captured]
           name == [m \in M |-> OrderKey(records[Some(RecordsFor(m))])]
<1>1. ASSUME NEW m \in M
      PROVE  /\ Some(RecordsFor(m)) \in RecordsFor(m) /\ Some(RecordsFor(m)) \in Keyed
             /\ name[m] \in keys /\ group(name[m]) = RecordsFor(m)
  <2>1. Some(RecordsFor(m)) \in RecordsFor(m)
    BY SomeIn, OrdersAndKeys
  <2>2. Some(RecordsFor(m)) \in Keyed
    BY <2>1, RecordsForKeyed
  <2> QED BY <2>1, <2>2, OrdersAndKeys
<1>2. ASSUME NEW key \in keys PROVE \E m \in M : key = name[m]
  <2>1. PICK i \in Keyed : key = OrderKey(records[i])
    OBVIOUS
  <2>2. PICK m \in M : i \in RecordsFor(m)
    BY OrdersAndKeys
  <2>3. key = OrderKey(records[Some(RecordsFor(m))])
    BY <1>1, <2>1, <2>2 DEF KeysConsistent
  <2> QED BY <2>3
<1>3. ASSUME NEW m \in M, NEW n \in M, name[m] = name[n] PROVE m = n
  BY <1>1, <1>3 DEF KeysConsistent
<1>4. IsFiniteSet(keys) /\ IsFiniteSet(M)
  <2>1. name \in [M -> keys]
    BY <1>1
  <2> HIDE DEF name, keys
  <2>2. name \in Surjection(M, keys)
    BY <1>2, <2>1 DEF Surjection
  <2> QED BY <2>2, BookFacts, FS_Surjection
<1>5. ASSUME NEW m \in M PROVE g[m] = f[name[m]]
  <2>1. merchants[m].captured = Captures(RecordsFor(m))
    BY TotalsOfOrders
  <2> QED BY <1>1, <2>1
<1>6. Numbers(f, keys)
  BY TotalsAreNumbers DEF Numbers, Keyed
<1> HIDE DEF f, g, name, keys, M
<1>7. SumFunctionOnSet(g, M) = SumFunctionOnSet(f, keys)
  BY <1>1, <1>2, <1>3, <1>4, <1>5, <1>6, SumRenamed
<1> QED
  BY <1>7 DEF SumFunction, f, g, keys, M

\* What the rows of refunds take from the payout is what the books say was refunded.
LEMMA RefundsOfBooks ==
  ASSUME ReportTypeOK, NothingToReport, KeysConsistent, RefundsOneSign
  PROVE  Contributed(OfType(Keyed, "REFUND"))
           = 0 - SumFunctionOnSet([m \in DOMAIN merchants |-> merchants[m].refunded], DOMAIN merchants)
<1> DEFINE M == DOMAIN merchants
           R == OfType(Keyed, "REFUND")
           group == [m \in M |-> OfType(RecordsFor(m), "REFUND")]
           sizes == [i \in DOMAIN records |-> Magnitude(Amounts[i])]
           refunded == [m \in M |-> merchants[m].refunded]
           takes == [i \in R |-> Contribution(i)]
           zeros == [i \in R |-> 0]
<1>1. IsFiniteSet(M) /\ IsFiniteSet(R) /\ R \in SUBSET DOMAIN records
  BY BookFacts, TotalsAreNumbers DEF Keyed
<1>2. ASSUME NEW i \in DOMAIN records PROVE sizes[i] \in Int /\ Amounts[i] \in Int
  <2>1. Amounts[i] \in Int
    BY SumFacts DEF Numbers
  <2> QED BY <2>1 DEF Magnitude
<1>3. Numbers(sizes, R) /\ Numbers(zeros, R)
  BY <1>1, <1>2 DEF Numbers
<1>4. ASSUME NEW m \in M
      PROVE  /\ group[m] \in SUBSET R
             /\ refunded[m] = SumFunctionOnSet(sizes, group[m])
  <2>1. RecordsFor(m) \in SUBSET Keyed /\ RecordsFor(m) \in SUBSET Unique
    BY RecordsForKeyed DEF Keyed
  <2>2. IsFiniteSet(group[m]) /\ group[m] \in SUBSET DOMAIN records
    BY <2>1, TotalsAreNumbers
  <2>3. Numbers(Amounts, group[m])
    BY <1>2, <2>2 DEF Numbers
  <2>4. \A i, j \in group[m] : Amounts[i] * Amounts[j] >= 0
    BY <2>1, <2>2 DEF RefundsOneSign, OfType, Amounts
  <2>5. \A i \in group[m] : sizes[i] = IF Amounts[i] < 0 THEN -Amounts[i] ELSE Amounts[i]
    BY <2>2 DEF Magnitude
  <2>6. merchants[m].refunded = Magnitude(SumFunctionOnSet(Amounts, group[m]))
    BY TotalsOfOrders DEF Refunds, SumAmounts
  <2>7. group[m] \in SUBSET R
    BY <2>1 DEF OfType
  <2> HIDE DEF group, sizes
  <2>8. SumFunctionOnSet(sizes, group[m]) = Magnitude(SumFunctionOnSet(Amounts, group[m]))
    BY <2>2, <2>3, <2>4, <2>5, SumOfOneSign DEF Magnitude
  <2> QED BY <2>6, <2>7, <2>8
<1>5. \A i \in R : \E m \in M : i \in group[m]
  BY OrdersAndKeys DEF OfType
<1>6. \A m, n \in M : m # n => group[m] \cap group[n] = {}
  BY OrdersAndKeys DEF OfType
<1>7. \A i \in R : takes[i] = zeros[i] - sizes[i]
  <2> SUFFICES ASSUME NEW i \in R PROVE takes[i] = zeros[i] - sizes[i]
    OBVIOUS
  <2>1. i \in DOMAIN records /\ records[i].type = "REFUND"
    BY <1>1 DEF OfType
  <2>2. takes[i] = -Magnitude(Amounts[i])
    BY <2>1 DEF Contribution, Costs, Amounts
  <2> QED BY <1>2, <2>1, <2>2
<1>8. Contributed(R) = SumFunctionOnSet(takes, R)
  BY DEF Contributed
<1>9. \A i \in R : zeros[i] = 0
  OBVIOUS
<1>10. \A m \in M : group[m] \in SUBSET R /\ refunded[m] = SumFunctionOnSet(sizes, group[m])
  BY <1>4
<1> HIDE DEF M, R, group, sizes, refunded, takes, zeros
<1>11. SumFunctionOnSet(refunded, M) = SumFunctionOnSet(sizes, R)
  BY <1>1, <1>3, <1>5, <1>6, <1>10, SumGrouped
<1>12. SumFunctionOnSet(takes, R) = SumFunctionOnSet(zeros, R) - SumFunctionOnSet(sizes, R)
  BY <1>1, <1>3, <1>7, SumDifference
<1>13. SumFunctionOnSet(zeros, R) = 0
  BY <1>1, <1>9, SumOfZeros
<1> QED BY <1>8, <1>11, <1>12, <1>13 DEF M, R, refunded

\* Contributions add up, whatever rows are set apart.
LEMMA ContributionsSplit ==
  ASSUME ReportTypeOK, NEW R \in SUBSET Unique
  PROVE  /\ Contributed(R) \in Int /\ Contributed(Unique \ R) \in Int
         /\ Contributed(Unique) = Contributed(R) + Contributed(Unique \ R)
<1> DEFINE takes == [i \in Unique |-> Contribution(i)]
<1>1. IsFiniteSet(Unique)
  BY RowFacts
<1>2. Numbers(takes, Unique)
  <2>1. \A i \in Unique : Contribution(i) \in Int
    BY RowFacts, SumFacts DEF Contribution, Amounts, Magnitude
  <2> QED BY <2>1 DEF Numbers
<1>3. ASSUME NEW I \in SUBSET Unique
      PROVE  Contributed(I) = SumFunctionOnSet(takes, I) /\ Contributed(I) \in Int
  <2> DEFINE part == [i \in I |-> Contribution(i)]
  <2>1. IsFiniteSet(I) /\ Numbers(takes, I)
    BY <1>1, <1>2, FS_Subset DEF Numbers
  <2>2. \A i \in I : part[i] = takes[i]
    OBVIOUS
  <2>3. Contributed(I) = SumFunctionOnSet(part, I)
    BY DEF Contributed
  <2> HIDE DEF part, takes
  <2> QED BY <2>1, <2>2, <2>3, SumEqual, SumInt
<1>4. SumFunctionOnSet(takes, Unique)
        = SumFunctionOnSet(takes, R) + SumFunctionOnSet(takes, Unique \ R)
  <2> HIDE DEF takes
  <2> QED BY <1>1, <1>2, SumSplit
<1> QED BY <1>3, <1>4

LEMMA BooksBalanceHolds ==
  ASSUME ReportTypeOK PROVE BooksBalance
<1> SUFFICES ASSUME NothingToReport, KeysConsistent, RefundsOneSign
             PROVE  Payout = DueByTheBooks
  BY DEF BooksBalance
<1> DEFINE M == DOMAIN merchants
           R == OfType(Keyed, "REFUND")
           captured == [m \in M |-> merchants[m].captured]
           refunded == [m \in M |-> merchants[m].refunded]
           due == [m \in M |-> merchants[m].captured - merchants[m].refunded]
<1>1. Payout = SumFunction(captured) + Contributed(Unique)
  BY CapturesOfBooks DEF Payout
<1>2. R \in SUBSET Unique
  BY DEF OfType, Keyed
<1>3. Contributed(R) = 0 - SumFunctionOnSet(refunded, M)
  BY RefundsOfBooks
<1>4. DueByTheBooks = SumFunction(due) + Contributed(Unique \ R)
  BY DEF DueByTheBooks
<1>5. IsFiniteSet(M) /\ Numbers(captured, M) /\ Numbers(refunded, M)
  BY BookFacts DEF Numbers, MerchantOrder
<1>6. \A m \in M : due[m] = captured[m] - refunded[m]
  OBVIOUS
<1>7. SumFunction(captured) = SumFunctionOnSet(captured, M) /\ SumFunction(due) = SumFunctionOnSet(due, M)
  BY DEF SumFunction
<1> HIDE DEF M, R, captured, refunded, due
<1>8. SumFunctionOnSet(due, M) = SumFunctionOnSet(captured, M) - SumFunctionOnSet(refunded, M)
  BY <1>5, <1>6, SumDifference
<1>9. SumFunctionOnSet(captured, M) \in Int /\ SumFunctionOnSet(refunded, M) \in Int
  BY <1>5, SumInt
<1>10. /\ Contributed(R) \in Int /\ Contributed(Unique \ R) \in Int
       /\ Contributed(Unique) = Contributed(R) + Contributed(Unique \ R)
  BY <1>2, ContributionsSplit
<1> QED BY <1>1, <1>3, <1>4, <1>7, <1>8, <1>9, <1>10

\* If the brief has nothing to report, and rows of an order have one key of their own,
\* the expected payout is what the merchant's books say is due.
THEOREM BooksBalanceCorrect == Spec => []BooksBalance
<1>1. ReportTypeOK => BooksBalance
  BY BooksBalanceHolds
<1> QED BY <1>1, ReportTypeCorrect, PTL

-----------------------------------------------------------------------------
(* Digits and integers.                                                    *)

Digit == 0..9

\* Powers of ten, as the recursion defines them.
LEMMA PowerFacts ==
  /\ Power[0] = 1
  /\ \A n \in Nat : Power[n] \in Nat /\ Power[n] > 0 /\ Power[n + 1] = 10 * Power[n]
<1> DEFINE prev == [n \in Nat |-> n - 1]
           op == [n \in Nat |-> [a \in Nat |-> 10 * a]]
           Equation(f) == f = [n \in Nat |-> IF n = 0 THEN 1 ELSE 10 * f[n - 1]]
<1>1. PICK f \in [Nat -> Nat] : Recurs(f, 1, prev, op)
  <2>1. /\ \A n \in Nat : n > 0 => prev[n] \in 0..(n - 1)
        /\ \A n \in Nat, a \in Nat : op[n][a] \in Nat
    OBVIOUS
  <2> HIDE DEF prev, op
  <2> QED BY <2>1, RecursionExists
<1>2. ASSUME NEW n \in Nat PROVE f[n] = IF n = 0 THEN 1 ELSE 10 * f[n - 1]
  <2>1. CASE n = 0
    BY <1>1, <2>1 DEF Recurs
  <2>2. CASE n > 0
    <3>1. prev[n] = n - 1 /\ n - 1 \in Nat /\ f[n - 1] \in Nat
      BY <2>2
    <3>2. op[n][f[n - 1]] = 10 * f[n - 1]
      BY <3>1
    <3> HIDE DEF prev, op
    <3> QED BY <1>1, <2>2, <3>1, <3>2 DEF Recurs
  <2> QED BY <2>1, <2>2
<1>3. Equation(f)
  BY <1>2
<1>4. Equation(Power)
  <2> HIDE DEF Equation
  <2>1. Power = CHOOSE g : Equation(g)
    BY DEF Power, Equation
  <2> QED BY <1>3, <2>1
<1>5. \A n \in Nat : Power[n] = IF n = 0 THEN 1 ELSE 10 * Power[n - 1]
  BY <1>4
<1> DEFINE P == {n \in Nat : Power[n] \in Nat /\ Power[n] > 0}
<1>6. 0 \in P
  BY <1>5
<1>7. ASSUME NEW n \in Nat, n \in P PROVE n + 1 \in P
  BY <1>5, <1>7
<1> HIDE DEF P
<1>8. Nat \subseteq P
  BY <1>6, <1>7, Induction
<1>9. ASSUME NEW n \in Nat PROVE Power[n + 1] = 10 * Power[n]
  BY <1>5
<1> QED BY <1>5, <1>8, <1>9 DEF P

\* A power of ten is not less than a smaller one.
LEMMA PowerGrows ==
  ASSUME NEW m \in Nat, NEW n \in Nat, m <= n
  PROVE  Power[m] <= Power[n]
<1> DEFINE P == {k \in Nat : Power[m] <= Power[m + k]}
<1>1. 0 \in P
  BY PowerFacts
<1>2. ASSUME NEW k \in Nat, k \in P PROVE k + 1 \in P
  <2>1. /\ Power[m] \in Nat /\ Power[m + k] \in Nat
        /\ Power[(m + k) + 1] = 10 * Power[m + k] /\ m + (k + 1) = (m + k) + 1
    BY PowerFacts
  <2> QED BY <1>2, <2>1
<1> HIDE DEF P
<1>3. n - m \in P /\ m + (n - m) = n
  BY <1>1, <1>2, Induction
<1> QED BY <1>3 DEF P

\* A finite set of numbers has a greatest.
LEMMA MaxIn ==
  ASSUME NEW S \in SUBSET Nat, IsFiniteSet(S), S # {}
  PROVE  Max(S) \in S /\ \A y \in S : Max(S) >= y
<1> DEFINE R == {p \in S \X S : p[1] < p[2]}
<1>1. /\ \A x, y \in S : <<x, y>> \in R <=> x < y
      /\ \A x \in S : x \in Nat
  OBVIOUS
<1> HIDE DEF R
<1>2. Orders(R, S)
  <2> SUFFICES ASSUME NEW x \in S, NEW y \in S
               PROVE  /\ x # y => <<x, y>> \in R \/ <<y, x>> \in R
                      /\ ~(<<x, y>> \in R /\ <<y, x>> \in R)
                      /\ \A z \in S : <<x, y>> \in R /\ <<y, z>> \in R => <<x, z>> \in R
    BY DEF Orders
  <2> QED BY <1>1
<1>3. PICK x \in S : \A y \in S \ {x} : <<y, x>> \in R
  <2>1. \A T \in SUBSET S : T # {} => \E x \in T : \A y \in T \ {x} : <<y, x>> \in R
    BY <1>2, LastExists
  <2> QED BY <2>1
<1>4. ASSUME NEW y \in S PROVE x >= y
  <2>1. y # x => y < x
    BY <1>1, <1>3
  <2> QED BY <1>1, <2>1
<1> QED BY <1>4 DEF Max

\* v holds the values of the beginnings of s.
Reads(s, v) ==
  v[0] = 0 /\ \A n \in 1..Len(s) : v[n] = 10 * v[n - 1] + s[n]

\* Integer is a fold over the positions of the digits, and so it reads them in order.
LEMMA IntegerReads ==
  ASSUME NEW s \in Seq(Digit)
  PROVE  \E v \in [0..Len(s) -> Nat] : Reads(s, v) /\ Integer(s) = v[Len(s)]
<1> DEFINE S == DOMAIN s
           choice == [T \in SUBSET S |-> Max(T)]
           op == [i \in S |-> [a \in Nat |-> 10 * a + s[i]]]
           Equation(g) == g = [T \in SUBSET S |->
                                 IF T = {} THEN 0 ELSE 10 * g[T \ {Max(T)}] + s[Max(T)]]
<1>1. /\ Len(s) \in Nat /\ S = 1..Len(s) /\ IsFiniteSet(S)
      /\ \A i \in S : s[i] \in Digit
  <2>1. Len(s) \in Nat /\ S = 1..Len(s)
    OBVIOUS
  <2> QED BY <2>1, FS_Interval
<1>2. \A T \in SUBSET S : T # {} => Max(T) \in T
  BY <1>1, FS_Subset, MaxIn
<1>3. PICK g : IsFold(g, S, Nat, 0, choice, op)
  <2>1. Foldable(S, Nat, 0, choice, op)
    BY <1>1, <1>2 DEF Foldable, Digit
  <2> HIDE DEF choice, op, S
  <2> QED BY <1>1, <2>1, FoldExists
<1>4. ASSUME NEW T \in SUBSET S
      PROVE  g[T] = IF T = {} THEN 0 ELSE 10 * g[T \ {Max(T)}] + s[Max(T)]
  <2>1. CASE T = {}
    BY <1>3, <2>1 DEF IsFold
  <2>2. CASE T # {}
    <3>1. choice[T] = Max(T) /\ Max(T) \in S /\ g[T \ {Max(T)}] \in Nat
      BY <1>2, <1>3, <2>2 DEF IsFold
    <3>2. op[Max(T)][g[T \ {Max(T)}]] = 10 * g[T \ {Max(T)}] + s[Max(T)]
      BY <3>1
    <3> HIDE DEF choice, op
    <3> QED BY <1>3, <2>2, <3>1, <3>2 DEF IsFold
  <2> QED BY <2>1, <2>2
<1>5. Equation(g)
  BY <1>3, <1>4 DEF IsFold
<1> DEFINE iter == CHOOSE h : Equation(h)
<1>6. Equation(iter)
  <2> HIDE DEF Equation
  <2> QED BY <1>5
<1>7. Integer(s) = iter[S]
  BY DEF Integer, FoldLeft, MapThenFoldSet
<1> HIDE DEF iter
<1> DEFINE v == [n \in 0..Len(s) |-> iter[1..n]]
<1>8. v[0] = 0
  <2>1. 1..0 = {} /\ {} \in SUBSET S
    OBVIOUS
  <2> QED BY <1>1, <1>6, <2>1
<1>9. ASSUME NEW n \in 1..Len(s) PROVE v[n] = 10 * v[n - 1] + s[n]
  <2> DEFINE T == 1..n
  <2>1. T \in SUBSET S /\ T # {} /\ T \in SUBSET Nat /\ n \in T /\ \A y \in T : n >= y
    <3>1. n \in Nat /\ n >= 1 /\ n <= Len(s)
      BY <1>1
    <3>2. T \in SUBSET S
      BY <1>1, <3>1
    <3> QED BY <3>1, <3>2
  <2>2. Max(T) = n
    <3>1. IsFiniteSet(T)
      BY <1>1, <2>1, FS_Subset
    <3>2. Max(T) \in T /\ \A y \in T : Max(T) >= y
      <4> HIDE DEF T
      <4> QED BY <2>1, <3>1, MaxIn
    <3> QED BY <2>1, <3>2
  <2>3. T \ {n} = 1..(n - 1)
    OBVIOUS
  <2>4. iter[T] = 10 * iter[T \ {n}] + s[n]
    <3> HIDE DEF T
    <3> QED BY <1>6, <2>1, <2>2
  <2>5. n \in 0..Len(s) /\ n - 1 \in 0..Len(s)
    BY <1>1
  <2> QED BY <2>3, <2>4, <2>5
<1>10. Reads(s, v)
  BY <1>8, <1>9 DEF Reads
<1> DEFINE P == {n \in Nat : n <= Len(s) => v[n] \in Nat}
<1> HIDE DEF v
<1>11. 0 \in P
  BY <1>8
<1>12. ASSUME NEW n \in Nat, n \in P PROVE n + 1 \in P
  <2> SUFFICES ASSUME n + 1 <= Len(s) PROVE v[n + 1] \in Nat
    OBVIOUS
  <2>1. v[n] \in Nat /\ n + 1 \in 1..Len(s) /\ (n + 1) - 1 = n
    BY <1>1, <1>12
  <2>2. v[n + 1] = 10 * v[n] + s[n + 1] /\ s[n + 1] \in Nat
    BY <1>1, <1>9, <2>1 DEF Digit
  <2> QED BY <2>1, <2>2
<1> HIDE DEF P
<1>13. Nat \subseteq P
  BY <1>11, <1>12, Induction
<1>14. v \in [0..Len(s) -> Nat]
  <2>1. \A n \in 0..Len(s) : v[n] \in Nat
    BY <1>1, <1>13 DEF P
  <2> QED BY <2>1 DEF v
<1>15. Integer(s) = v[Len(s)]
  BY <1>1, <1>7 DEF v
<1> QED BY <1>10, <1>14, <1>15

\* Two sequences begin with the same k digits.
Agree(s, u, k) == k <= Len(s) /\ k <= Len(u) /\ \A i \in 1..k : s[i] = u[i]

\* What a beginning of the digits denotes depends on that beginning alone.
LEMMA ReadsPrefix ==
  ASSUME NEW s \in Seq(Digit), NEW u \in Seq(Digit), NEW v, Reads(s, v), NEW w, Reads(u, w),
         NEW k \in Nat, Agree(s, u, k)
  PROVE  v[k] = w[k]
<1> USE DEF Agree
<1> DEFINE P == {n \in Nat : n <= k => v[n] = w[n]}
<1>1. 0 \in P
  BY DEF Reads
<1>2. ASSUME NEW n \in Nat, n \in P PROVE n + 1 \in P
  <2> SUFFICES ASSUME n + 1 <= k PROVE v[n + 1] = w[n + 1]
    OBVIOUS
  <2>1. v[n] = w[n] /\ s[n + 1] = u[n + 1]
    BY <1>2
  <2>2. n + 1 \in 1..Len(s) /\ n + 1 \in 1..Len(u) /\ (n + 1) - 1 = n
    OBVIOUS
  <2> QED BY <2>1, <2>2 DEF Reads
<1> HIDE DEF P
<1>3. Nat \subseteq P
  BY <1>1, <1>2, Induction
<1> QED BY <1>3 DEF P

\* The k digits after the first n are zeros.
ZerosAfter(s, n, k) == \A i \in 1..k : s[n + i] = 0

\* number is first, shifted by k digits, and less than a unit more, or nothing more.
Splits(number, first, k, nothing) ==
  \E r \in Nat : number = first * Power[k] + r /\ r < Power[k] /\ (r = 0 <=> nothing)

\* Digits after the first n count for less than one unit of the n-th, and for nothing
\* exactly if they are zeros.
LEMMA ReadsSplit ==
  ASSUME NEW s \in Seq(Digit), NEW v \in [0..Len(s) -> Nat], Reads(s, v),
         NEW n \in Nat, NEW k \in Nat, n + k <= Len(s)
  PROVE  Splits(v[n + k], v[n], k, ZerosAfter(s, n, k))
<1> DEFINE P == {j \in Nat : n + j <= Len(s) => Splits(v[n + j], v[n], j, ZerosAfter(s, n, j))}
<1>1. v[n] \in Nat
  OBVIOUS
<1>2. 0 \in P
  <2>1. v[n + 0] = v[n] * 1 + 0 /\ 0 < 1
    BY <1>1
  <2>2. ZerosAfter(s, n, 0)
    BY DEF ZerosAfter
  <2>3. Power[0] = 1
    BY PowerFacts
  <2>4. Splits(v[n + 0], v[n], 0, ZerosAfter(s, n, 0))
    BY <2>1, <2>2, <2>3 DEF Splits
  <2> QED BY <2>4
<1>3. ASSUME NEW j \in Nat, j \in P PROVE j + 1 \in P
  <2> SUFFICES ASSUME n + (j + 1) <= Len(s)
               PROVE  Splits(v[n + (j + 1)], v[n], j + 1, ZerosAfter(s, n, j + 1))
    OBVIOUS
  <2>1. PICK r \in Nat : /\ v[n + j] = v[n] * Power[j] + r /\ r < Power[j]
                        /\ (r = 0 <=> ZerosAfter(s, n, j))
    BY <1>3 DEF Splits
  <2>2. PICK d \in Nat : d = s[n + (j + 1)] /\ d <= 9
    BY DEF Digit
  <2>3. v[n + (j + 1)] = 10 * v[n + j] + d
    <3>1. n + (j + 1) \in 1..Len(s) /\ (n + (j + 1)) - 1 = n + j
      OBVIOUS
    <3> QED BY <2>2, <3>1 DEF Reads
  <2>4. PICK p \in Nat : p = Power[j] /\ Power[j + 1] = 10 * p
    BY PowerFacts
  <2>5. v[n + (j + 1)] = v[n] * (10 * p) + (10 * r + d)
    <3>1. v[n + j] = v[n] * p + r
      BY <2>1, <2>4
    <3>2. v[n] * (10 * p) = 10 * (v[n] * p) /\ v[n] * p \in Nat
      BY <1>1
    <3> QED BY <2>3, <3>1, <3>2
  <2>6. 10 * r + d < 10 * p /\ 10 * r + d \in Nat
    <3>1. r < p
      BY <2>1, <2>4
    <3> QED BY <2>2, <3>1
  <2>7. 10 * r + d = 0 <=> r = 0 /\ d = 0
    OBVIOUS
  <2>8. ZerosAfter(s, n, j + 1) <=> ZerosAfter(s, n, j) /\ d = 0
    <3>1. \A i \in 1..(j + 1) : i \in 1..j \/ i = j + 1
      OBVIOUS
    <3>2. j + 1 \in 1..(j + 1) /\ \A i \in 1..j : i \in 1..(j + 1)
      OBVIOUS
    <3> QED BY <2>2, <3>1, <3>2 DEF ZerosAfter
  <2> DEFINE rest == 10 * r + d
  <2>9. rest = 0 <=> ZerosAfter(s, n, j + 1)
    BY <2>1, <2>7, <2>8
  <2>10. rest \in Nat /\ rest < Power[j + 1] /\ v[n + (j + 1)] = v[n] * Power[j + 1] + rest
    BY <2>4, <2>5, <2>6
  <2> HIDE DEF rest
  <2> QED BY <2>9, <2>10 DEF Splits
<1> HIDE DEF P
<1>4. k \in P
  BY <1>2, <1>3, Induction
<1> QED BY <1>4 DEF P

\* An integer is what its first digits say, shifted, and what the last ones add.
LEMMA IntegerSplit ==
  ASSUME NEW s \in Seq(Digit), NEW n \in Nat, NEW k \in Nat, n + k = Len(s)
  PROVE  /\ Integer(s) \in Nat /\ Integer(SubSeq(s, 1, n)) \in Nat
         /\ Splits(Integer(s), Integer(SubSeq(s, 1, n)), k, ZerosAfter(s, n, k))
<1> DEFINE u == SubSeq(s, 1, n)
<1>1. u \in Seq(Digit) /\ Len(u) = n /\ \A i \in 1..n : u[i] = s[i]
  OBVIOUS
<1> HIDE DEF u
<1>2. PICK v \in [0..Len(s) -> Nat] : Reads(s, v) /\ Integer(s) = v[Len(s)]
  BY IntegerReads
<1>3. PICK w \in [0..Len(u) -> Nat] : Reads(u, w) /\ Integer(u) = w[Len(u)]
  BY <1>1, IntegerReads
<1>4. v[n] = w[n]
  <2>1. Agree(s, u, n)
    BY <1>1 DEF Agree
  <2> QED BY <1>1, <1>2, <1>3, <2>1, ReadsPrefix
<1>5. v[n] = Integer(u) /\ v[n] \in Nat /\ v[n + k] = Integer(s) /\ v[n + k] \in Nat
  BY <1>1, <1>2, <1>3, <1>4
<1>6. Splits(v[n + k], v[n], k, ZerosAfter(s, n, k))
  <2>1. n + k <= Len(s)
    OBVIOUS
  <2> QED BY <1>2, <2>1, ReadsSplit
<1> QED BY <1>5, <1>6 DEF u

\* No digits read as zero.
LEMMA IntegerEmpty == ASSUME NEW s \in Seq(Digit), Len(s) = 0 PROVE Integer(s) = 0
<1>1. PICK v \in [0..Len(s) -> Nat] : Reads(s, v) /\ Integer(s) = v[Len(s)]
  BY IntegerReads
<1> QED BY <1>1 DEF Reads

\* Digits read as a natural number.
LEMMA IntegerNat == ASSUME NEW s \in Seq(Digit) PROVE Integer(s) \in Nat
<1>1. PICK v \in [0..Len(s) -> Nat] : Reads(s, v) /\ Integer(s) = v[Len(s)]
  BY IntegerReads
<1> QED BY <1>1

\* Zeros after the digits multiply.
LEMMA IntegerShift ==
  ASSUME NEW s \in Seq(Digit), NEW k \in Nat
  PROVE  Integer(s \o Zeros(k)) = Integer(s) * Power[k]
<1> DEFINE u == s \o Zeros(k)
           n == Len(s)
<1>1. Zeros(k) \in Seq(Digit) /\ Len(Zeros(k)) = k /\ \A i \in 1..k : Zeros(k)[i] = 0
  BY DEF Zeros, Digit
<1>2. /\ u \in Seq(Digit) /\ n \in Nat /\ Len(u) = n + k
      /\ \A i \in 1..k : u[n + i] = 0
      /\ \A i \in 1..n : u[i] = s[i]
  BY <1>1
<1>3. SubSeq(u, 1, n) = s
  BY <1>2
<1> HIDE DEF u, n
<1>4. Splits(Integer(u), Integer(SubSeq(u, 1, n)), k, ZerosAfter(u, n, k))
  BY <1>2, IntegerSplit
<1>5. PICK a \in Nat, p \in Nat : a = Integer(s) /\ p = Power[k]
  BY IntegerNat, PowerFacts
<1>6. PICK r \in Nat : Integer(u) = a * p + r /\ (r = 0 <=> ZerosAfter(u, n, k))
  BY <1>3, <1>4, <1>5 DEF Splits
<1>7. r = 0
  BY <1>2, <1>6 DEF ZerosAfter
<1>8. a * p + 0 = a * p
  OBVIOUS
<1>9. Integer(u) = Integer(s) * Power[k]
  BY <1>6, <1>7, <1>5, <1>8
<1> QED BY <1>9 DEF u

\* Zeros before the digits do not count.
LEMMA IntegerUnpadded ==
  ASSUME NEW s \in Seq(Digit), NEW k \in Nat, k <= Len(s), \A i \in 1..k : s[i] = 0
  PROVE  Integer(SubSeq(s, k + 1, Len(s))) = Integer(s)
<1> DEFINE u == SubSeq(s, k + 1, Len(s))
<1>1. u \in Seq(Digit) /\ Len(u) = Len(s) - k /\ \A i \in 1..(Len(s) - k) : u[i] = s[k + i]
  OBVIOUS
<1> HIDE DEF u
<1>2. PICK v \in [0..Len(s) -> Nat] : Reads(s, v) /\ Integer(s) = v[Len(s)]
  BY IntegerReads
<1>3. PICK w \in [0..Len(u) -> Nat] : Reads(u, w) /\ Integer(u) = w[Len(u)]
  BY <1>1, IntegerReads
<1>4. v[k] = 0
  <2>1. Splits(v[0 + k], v[0], k, ZerosAfter(s, 0, k))
    BY <1>2, ReadsSplit
  <2>2. PICK r \in Nat : v[0 + k] = v[0] * Power[k] + r /\ (r = 0 <=> ZerosAfter(s, 0, k))
    BY <2>1 DEF Splits
  <2>3. ZerosAfter(s, 0, k)
    BY DEF ZerosAfter
  <2>4. v[0] = 0 /\ 0 + k = k
    BY <1>2 DEF Reads
  <2>5. Power[k] \in Nat
    BY PowerFacts
  <2> QED BY <2>2, <2>3, <2>4, <2>5
<1> DEFINE P == {n \in Nat : k + n <= Len(s) => v[k + n] = w[n]}
<1>5. 0 \in P
  BY <1>3, <1>4 DEF Reads
<1>6. ASSUME NEW n \in Nat, n \in P PROVE n + 1 \in P
  <2> SUFFICES ASSUME k + (n + 1) <= Len(s) PROVE v[k + (n + 1)] = w[n + 1]
    OBVIOUS
  <2>1. v[k + n] = w[n]
    BY <1>6
  <2>2. /\ k + (n + 1) \in 1..Len(s) /\ (k + (n + 1)) - 1 = k + n
        /\ n + 1 \in 1..Len(u) /\ (n + 1) - 1 = n
    BY <1>1
  <2>3. u[n + 1] = s[k + (n + 1)]
    BY <1>1, <2>2
  <2> QED BY <1>2, <1>3, <2>1, <2>2, <2>3 DEF Reads
<1> HIDE DEF P
<1>7. Len(u) \in P /\ Len(u) \in Nat /\ k + Len(u) = Len(s)
  <2>1. Len(u) \in Nat /\ k + Len(u) = Len(s)
    BY <1>1
  <2> QED BY <1>5, <1>6, <2>1, Induction
<1> QED BY <1>2, <1>3, <1>7 DEF P, u

\* A digit appended is added to ten times the number.
LEMMA IntegerAppend ==
  ASSUME NEW s \in Seq(Digit), NEW d \in Digit
  PROVE  Integer(Append(s, d)) = 10 * Integer(s) + d
<1> DEFINE u == Append(s, d)
<1>1. u \in Seq(Digit) /\ Len(u) = Len(s) + 1 /\ u[Len(s) + 1] = d /\ \A i \in 1..Len(s) : u[i] = s[i]
  OBVIOUS
<1> HIDE DEF u
<1>2. PICK v \in [0..Len(s) -> Nat] : Reads(s, v) /\ Integer(s) = v[Len(s)]
  BY IntegerReads
<1>3. PICK w \in [0..Len(u) -> Nat] : Reads(u, w) /\ Integer(u) = w[Len(u)]
  BY <1>1, IntegerReads
<1>4. v[Len(s)] = w[Len(s)]
  <2>1. Agree(s, u, Len(s))
    BY <1>1 DEF Agree
  <2> QED BY <1>1, <1>2, <1>3, <2>1, ReadsPrefix
<1>5. Len(s) + 1 \in 1..Len(u) /\ (Len(s) + 1) - 1 = Len(s)
  BY <1>1
<1> QED BY <1>1, <1>2, <1>3, <1>4, <1>5 DEF Reads, u

\* The remainder of a division is the only one there is.
LEMMA RemainderZero ==
  ASSUME NEW q \in Nat, NEW p \in Nat, p > 0, NEW r \in Nat, r < p,
         NEW n, n = q * p + r
  PROVE  n % p = 0 <=> r = 0
<1>1. PICK a \in Nat, b \in Nat : n = p * a + b /\ b < p /\ b = n % p
  OBVIOUS
<1>2. CASE a = q
  <2>1. PICK x \in Nat : x = q * p /\ x = p * a
    BY <1>2
  <2>2. x + b = x + r
    BY <1>1, <2>1
  <2>3. b = r
    BY <2>2
  <2> QED BY <1>1, <2>3
<1>3. CASE a > q
  <2>1. p * (a - q) >= p /\ p * (a - q) = p * a - q * p
    BY <1>3
  <2> QED BY <1>1, <2>1
<1>4. CASE a < q
  <2>1. p * (q - a) >= p /\ p * (q - a) = q * p - p * a
    BY <1>4
  <2> QED BY <1>1, <2>1
<1> QED BY <1>2, <1>3, <1>4

\* Leading zeros go, and do not matter.
LEMMA WithoutLeadingZerosFacts ==
  ASSUME NEW s \in Seq(Digit), s # << >>
  PROVE  /\ WithoutLeadingZeros(s) \in Seq(Digit)
         /\ Integer(WithoutLeadingZeros(s)) = Integer(s)
<1> DEFINE Starts(i) == /\ \A j \in 1..(i - 1) : s[j] = 0
                        /\ i = Len(s) \/ s[i] # 0
           Z == {i \in DOMAIN s : \A j \in 1..(i - 1) : s[j] = 0}
           start == CHOOSE i \in DOMAIN s : Starts(i)
<1>1. Len(s) \in Nat /\ Len(s) > 0 /\ DOMAIN s = 1..Len(s)
  OBVIOUS
<1>2. 1 \in Z /\ Z \in SUBSET Nat /\ Z \in SUBSET (1..Len(s))
  BY <1>1
<1>3. IsFiniteSet(Z)
  <2>1. IsFiniteSet(1..Len(s))
    BY <1>1, FS_Interval
  <2> HIDE DEF Z
  <2> QED BY <1>2, <2>1, FS_Subset
<1>4. Max(Z) \in Z /\ \A y \in Z : Max(Z) >= y
  <2> HIDE DEF Z
  <2> QED BY <1>2, <1>3, MaxIn
<1>5. PICK m \in 1..Len(s) : m \in Z /\ \A y \in Z : m >= y
  BY <1>2, <1>4
<1>6. m \in Nat /\ m >= 1 /\ m <= Len(s)
  BY <1>1
<1>7. Starts(m)
  <2>1. \A j \in 1..(m - 1) : s[j] = 0
    BY <1>5
  <2>2. ASSUME m # Len(s), s[m] = 0 PROVE FALSE
    <3>1. m + 1 \in 1..Len(s)
      <4>1. PICK size \in Nat : size = Len(s)
        BY <1>1
      <4>2. m <= size /\ m # size
        BY <1>6, <2>2, <4>1
      <4>3. m + 1 <= size /\ m + 1 >= 1 /\ m + 1 \in Nat
        BY <1>6, <4>2
      <4> QED BY <4>1, <4>3
    <3>2. \A j \in 1..((m + 1) - 1) : j = m \/ j \in 1..(m - 1)
      BY <1>1
    <3>3. m + 1 \in Z
      BY <1>1, <2>1, <2>2, <3>1, <3>2
    <3> QED BY <1>5, <3>3
  <2> QED BY <2>1, <2>2
<1>8. start \in 1..Len(s) /\ Starts(start)
  <2> HIDE DEF Starts
  <2> QED BY <1>1, <1>7
<1>9. WithoutLeadingZeros(s) = SubSeq(s, start, Len(s))
  BY DEF WithoutLeadingZeros
<1> HIDE DEF start, Z
<1>10. PICK k \in Nat : start = k + 1
  <2>1. start \in 1..Len(s)
    BY <1>8
  <2>2. start \in Nat /\ start >= 1 /\ start = (start - 1) + 1
    BY <1>1, <2>1
  <2> QED BY <2>2
<1>11. k <= Len(s) /\ \A j \in 1..k : s[j] = 0
  <2>1. start \in 1..Len(s) /\ \A j \in 1..(start - 1) : s[j] = 0
    BY <1>8
  <2>2. k + 1 <= Len(s) /\ k = (k + 1) - 1
    BY <1>1, <1>10, <2>1
  <2> QED BY <1>1, <1>10, <2>1, <2>2
<1>12. SubSeq(s, k + 1, Len(s)) \in Seq(Digit)
  BY <1>1, <1>10
<1> QED BY <1>9, <1>10, <1>11, <1>12, IntegerUnpadded

\* What was parsed says number * 10^shift, and what was refused has no integer to say.
Exact(parsed, number, shift) ==
  /\ parsed = [code |-> parsed.code, units |-> parsed.units] /\ parsed.units \in Nat
  /\ parsed.code = "OK" /\ shift >= 0 => parsed.units = number * Power[shift]
  /\ parsed.code = "OK" /\ shift < 0 => parsed.units * Power[-shift] = number
  /\ parsed.code # "OK" => shift < 0 /\ number % Power[-shift] # 0

\* A number is shifted exactly, or refused because no integer is the result.
LEMMA ShiftedExact ==
  ASSUME NEW s \in Seq(Digit), NEW shift \in Int
  PROVE  Exact(Shifted(s, shift), Integer(s), shift)
<1>1. PICK size \in Nat : size = Len(s)
  OBVIOUS
<1>2. CASE shift >= 0
  <2>1. Shifted(s, shift) = Units(Integer(s) * Power[shift])
    BY <1>2, IntegerShift DEF Shifted
  <2>2. shift \in Nat
    BY <1>2
  <2>3. Integer(s) \in Nat /\ Power[shift] \in Nat
    BY <2>2, IntegerNat, PowerFacts
  <2>4. Integer(s) * Power[shift] \in Nat
    BY <2>3
  <2> QED BY <1>2, <2>1, <2>4 DEF Exact, Units
<1>3. CASE shift < 0 /\ size + shift >= 0
  <2>1. PICK left \in Nat, k \in Nat :
          left = size + shift /\ k = -shift /\ left + k = size /\ k > 0 /\ left >= 0
    BY <1>3
  <2> DEFINE first == SubSeq(s, 1, left)
             last == SubSeq(s, left + 1, size)
  <2>2. AllZero(last) <=> ZerosAfter(s, left, k)
    <3>1. DOMAIN last = 1..k /\ \A i \in 1..k : last[i] = s[left + i]
      BY <1>1, <2>1
    <3> QED BY <3>1 DEF AllZero, ZerosAfter
  <2>3. Splits(Integer(s), Integer(first), k, ZerosAfter(s, left, k)) /\ Integer(first) \in Nat
    BY <1>1, <2>1, IntegerSplit
  <2>4. Shifted(s, shift) = IF ~AllZero(last) THEN Refused("DECIMAL_PRECISION_EXCEEDED")
                            ELSE Units(Integer(first))
    BY <1>1, <1>3, <2>1 DEF Shifted
  <2> HIDE DEF first, last
  <2>5. PICK r \in Nat : /\ Integer(s) = Integer(first) * Power[k] + r /\ r < Power[k]
                        /\ (r = 0 <=> AllZero(last))
    BY <2>2, <2>3 DEF Splits
  <2>6. PICK p \in Nat : p = Power[k] /\ p > 0
    BY PowerFacts
  <2>7. CASE AllZero(last)
    <3>1. Integer(s) = Integer(first) * Power[-shift]
      <4>1. Integer(s) = Integer(first) * p + 0 /\ Integer(first) * p \in Nat
        BY <2>3, <2>5, <2>6, <2>7
      <4> QED BY <2>1, <2>6, <4>1
    <3> QED BY <1>3, <2>3, <2>4, <2>7, <3>1 DEF Exact, Units
  <2>8. CASE ~AllZero(last)
    <3>1. Integer(s) % p # 0
      BY <2>3, <2>5, <2>6, <2>8, RemainderZero
    <3>2. Integer(s) % Power[-shift] # 0
      BY <2>1, <2>6, <3>1
    <3> QED BY <1>3, <2>4, <2>8, <3>2 DEF Exact, Refused
  <2> QED BY <2>7, <2>8
<1>4. CASE shift < 0 /\ size + shift < 0
  <2>1. PICK k \in Nat : k = -shift /\ size <= k
    BY <1>4
  <2>2. Shifted(s, shift) = IF AllZero(s) THEN Units(0) ELSE Refused("DECIMAL_PRECISION_EXCEEDED")
    BY <1>1, <1>4 DEF Shifted
  <2>3. AllZero(s) <=> ZerosAfter(s, 0, size)
    BY <1>1 DEF AllZero, ZerosAfter
  <2>4. Splits(Integer(s), Integer(SubSeq(s, 1, 0)), size, ZerosAfter(s, 0, size))
    BY <1>1, IntegerSplit
  <2>5. Integer(SubSeq(s, 1, 0)) = 0
    <3>1. SubSeq(s, 1, 0) \in Seq(Digit) /\ Len(SubSeq(s, 1, 0)) = 0
      OBVIOUS
    <3> QED BY <3>1, IntegerEmpty
  <2>6. PICK p \in Nat, q \in Nat : p = Power[size] /\ q = Power[k] /\ p <= q /\ q > 0
    BY <2>1, PowerFacts, PowerGrows
  <2>7. PICK r \in Nat : /\ Integer(s) = 0 * p + r /\ r < p /\ (r = 0 <=> AllZero(s))
    BY <2>3, <2>4, <2>5, <2>6 DEF Splits
  <2>8. Integer(s) = r /\ r < q /\ r = 0 * q + r
    BY <2>6, <2>7
  <2>9. CASE AllZero(s)
    <3>1. Integer(s) = 0 /\ 0 * q = 0
      BY <2>7, <2>8, <2>9
    <3> QED BY <1>4, <2>1, <2>2, <2>6, <2>9, <3>1 DEF Exact, Units
  <2>10. CASE ~AllZero(s)
    <3>1. r % q # 0
      BY <2>6, <2>7, <2>8, <2>10, RemainderZero
    <3>2. Integer(s) % Power[-shift] # 0
      BY <2>1, <2>6, <2>8, <3>1
    <3> QED BY <1>4, <2>2, <2>10, <3>2 DEF Exact, Refused
  <2> QED BY <2>9, <2>10
<1> QED BY <1>1, <1>2, <1>3, <1>4

\* One digit reads as itself.
LEMMA IntegerOne == ASSUME NEW d \in Digit PROVE <<d>> \in Seq(Digit) /\ Integer(<<d>>) = d
<1>1. << >> \in Seq(Digit) /\ Len(<< >>) = 0 /\ Append(<< >>, d) = <<d>> /\ <<d>> \in Seq(Digit)
  OBVIOUS
<1>2. Integer(<< >>) = 0
  BY <1>1, IntegerEmpty
<1>3. Integer(Append(<< >>, d)) = 10 * Integer(<< >>) + d
  BY <1>1, IntegerAppend
<1>4. 10 * 0 + d = d
  BY DEF Digit
<1> QED BY <1>1, <1>2, <1>3, <1>4

\* Quotient and remainder.
LEMMA Division ==
  ASSUME NEW n \in Nat, NEW p \in Nat, p > 0
  PROVE  \E a, b \in Nat : a = n \div p /\ b = n % p /\ n = p * a + b /\ b < p
OBVIOUS

\* A number is ten times the rest of its digits, and its last digit.
LEMMA LastDigit ==
  ASSUME NEW n \in Nat
  PROVE  \E q \in Nat, d \in Digit : q = n \div 10 /\ d = n % 10 /\ n = 10 * q + d
<1>1. PICK p \in Nat : p = 10 /\ p > 0
  OBVIOUS
<1>2. PICK a \in Nat, b \in Nat : a = n \div p /\ b = n % p /\ n = p * a + b /\ b < p
  BY <1>1, Division
<1> QED BY <1>1, <1>2 DEF Digit

\* The digits of a number denote it.
LEMMA DigitsOfFacts ==
  \A n \in Nat : DigitsOf[n] \in Seq(Digit) /\ Len(DigitsOf[n]) >= 1 /\ Integer(DigitsOf[n]) = n
<1> DEFINE prev == [n \in Nat |-> n \div 10]
           op == [n \in Nat |-> [a \in Seq(Digit) |-> IF n < 10 THEN <<n>> ELSE Append(a, n % 10)]]
           Equation(f) == f = [n \in Nat |-> IF n < 10 THEN <<n>>
                                            ELSE Append(f[n \div 10], n % 10)]
<1>1. \A n \in Nat : /\ n \div 10 \in Nat /\ n % 10 \in Digit /\ n = 10 * (n \div 10) + (n % 10)
                    /\ n > 0 => n \div 10 \in 0..(n - 1)
  BY DEF Digit
<1>2. \A n \in Nat : n < 10 => n \in Digit
  BY DEF Digit
<1>3. PICK f \in [Nat -> Seq(Digit)] : Recurs(f, <<0>>, prev, op)
  <2>1. \A n \in Nat : n > 0 => prev[n] \in 0..(n - 1)
    BY <1>1
  <2>2. ASSUME NEW n \in Nat, NEW a \in Seq(Digit) PROVE op[n][a] \in Seq(Digit)
    <3>1. n < 10 => <<n>> \in Seq(Digit)
      BY <1>2
    <3>2. n % 10 \in Digit
      BY DEF Digit
    <3>3. Append(a, n % 10) \in Seq(Digit)
      BY <3>2
    <3> QED BY <3>1, <3>3
  <2>3. <<0>> \in Seq(Digit)
    BY <1>2
  <2> HIDE DEF prev, op
  <2> QED BY <2>1, <2>2, <2>3, RecursionExists
<1>4. ASSUME NEW n \in Nat
      PROVE  f[n] = IF n < 10 THEN <<n>> ELSE Append(f[n \div 10], n % 10)
  <2>1. CASE n = 0
    <3>1. f[0] = <<0>>
      BY <1>3 DEF Recurs
    <3>2. n < 10
      BY <2>1
    <3> QED BY <2>1, <3>1, <3>2
  <2>2. CASE n > 0
    <3>1. prev[n] = n \div 10 /\ f[n \div 10] \in Seq(Digit)
      BY <1>1
    <3>2. op[n][f[n \div 10]] = IF n < 10 THEN <<n>> ELSE Append(f[n \div 10], n % 10)
      BY <3>1
    <3> HIDE DEF prev, op
    <3>3. f[n] = op[n][f[prev[n]]]
      BY <1>3, <2>2 DEF Recurs
    <3> QED BY <3>1, <3>2, <3>3
  <2> QED BY <2>1, <2>2
<1>5. Equation(f)
  BY <1>4
<1>6. Equation(DigitsOf)
  <2>1. DigitsOf = CHOOSE g : Equation(g)
    BY DEF DigitsOf
  <2> HIDE DEF Equation
  <2> QED BY <1>5, <2>1
<1>7. ASSUME NEW n \in Nat
      PROVE  /\ n < 10 => DigitsOf[n] = <<n>>
             /\ n >= 10 => DigitsOf[n] = Append(DigitsOf[n \div 10], n % 10)
  <2>1. DigitsOf[n] = IF n < 10 THEN <<n>> ELSE Append(DigitsOf[n \div 10], n % 10)
    BY <1>6
  <2>2. n >= 10 => ~(n < 10)
    OBVIOUS
  <2> QED BY <2>1, <2>2
<1> HIDE DEF prev, op, Equation
<1> DEFINE Good(n) == /\ DigitsOf[n] \in Seq(Digit) /\ Len(DigitsOf[n]) >= 1
                      /\ Integer(DigitsOf[n]) = n
           P == {n \in Nat : \A m \in 0..n : Good(m)}
<1>8. ASSUME NEW n \in Nat, n < 10 PROVE Good(n)
  <2>1. n \in Digit /\ DigitsOf[n] = <<n>>
    BY <1>2, <1>7, <1>8
  <2>2. <<n>> \in Seq(Digit) /\ Integer(<<n>>) = n /\ Len(<<n>>) = 1
    BY <2>1, IntegerOne
  <2> QED BY <2>1, <2>2
<1>9. ASSUME NEW n \in Nat, n >= 10, Good(n \div 10) PROVE Good(n)
  <2>1. DigitsOf[n] = Append(DigitsOf[n \div 10], n % 10)
    BY <1>7, <1>9
  <2>2. PICK q \in Nat, d \in Digit : q = n \div 10 /\ d = n % 10 /\ n = 10 * q + d
    BY LastDigit
  <2>3. PICK s \in Seq(Digit) : s = DigitsOf[q] /\ Integer(s) = q
    BY <1>9, <2>2
  <2>4. Append(s, d) \in Seq(Digit) /\ Len(Append(s, d)) >= 1
    OBVIOUS
  <2>5. Integer(Append(s, d)) = 10 * Integer(s) + d
    BY IntegerAppend
  <2>6. Integer(Append(s, d)) = n
    BY <2>2, <2>3, <2>5
  <2> QED BY <2>1, <2>2, <2>3, <2>4, <2>6
<1> HIDE DEF Good
<1>10. 0 \in P
  BY <1>8
<1>11. ASSUME NEW n \in Nat, n \in P PROVE n + 1 \in P
  <2>1. CASE n + 1 < 10
    BY <1>8, <1>11, <2>1
  <2>2. CASE n + 1 >= 10
    <3>1. (n + 1) \div 10 \in 0..n
      BY <1>1
    <3>2. Good(n + 1)
      BY <1>9, <1>11, <2>2, <3>1
    <3> QED BY <1>11, <3>2
  <2> QED BY <2>1, <2>2
<1> HIDE DEF P
<1>12. Nat \subseteq P
  BY <1>10, <1>11, Induction
<1>13. ASSUME NEW n \in Nat PROVE Good(n)
  <2>1. n \in P /\ n \in 0..n
    BY <1>12
  <2> QED BY <2>1 DEF P
<1> QED BY <1>13 DEF Good

\* Zeros put before the digits do not count.
LEMMA IntegerPadded ==
  ASSUME NEW s \in Seq(Digit), NEW z \in Seq(Digit), AllZero(z)
  PROVE  Integer(z \o s) = Integer(s)
<1> DEFINE u == z \o s
<1>1. PICK k \in Nat : k = Len(z)
  OBVIOUS
<1>2. /\ u \in Seq(Digit) /\ k <= Len(u) /\ SubSeq(u, k + 1, Len(u)) = s
      /\ \A i \in 1..k : u[i] = z[i]
  BY <1>1
<1>3. \A i \in 1..k : u[i] = 0
  BY <1>1, <1>2 DEF AllZero
<1> HIDE DEF u
<1>4. Integer(SubSeq(u, k + 1, Len(u))) = Integer(u)
  BY <1>2, <1>3, IntegerUnpadded
<1> QED BY <1>2, <1>4 DEF u

-----------------------------------------------------------------------------
(* Amounts.                                                                *)

TextTypeOK ==
  /\ text \in [negative : BOOLEAN, whole : Seq(Digit), point : BOOLEAN, fraction : Seq(Digit),
               exponent : Int]
  /\ text.fraction # << >> => text.point

\* Texts have the groups of the pattern, and a fraction follows a point.
THEOREM TextTypeCorrect == TextSpec => []TextTypeOK
<1>1. TextInit => TextTypeOK
  <2>1. << >> \in Seq(Digit) /\ 0 \in Int
    OBVIOUS
  <2> QED BY <2>1 DEF TextInit, Blank, TextTypeOK
<1>2. TextTypeOK /\ [TextNext]_text => TextTypeOK'
  <2> SUFFICES ASSUME TextTypeOK, [TextNext]_text PROVE TextTypeOK'
    OBVIOUS
  <2>1. \A d \in Digits, s \in Seq(Digit) : Append(s, d) \in Seq(Digit)
    BY DecimalAssumption DEF Digit
  <2>2. ASSUME NEW d \in Digits, TypeWhole(d) PROVE TextTypeOK'
    BY <2>1, <2>2 DEF TypeWhole, TextTypeOK
  <2>3. ASSUME NEW d \in Digits, TypeFraction(d) PROVE TextTypeOK'
    BY <2>1, <2>3 DEF TypeFraction, TextTypeOK
  <2>4. CASE TypePoint
    BY <2>4 DEF TypePoint, TextTypeOK
  <2>5. ASSUME NEW e \in Exponents, TypeExponent(e) PROVE TextTypeOK'
    BY <2>5, DecimalAssumption DEF TypeExponent, TextTypeOK
  <2>6. CASE UNCHANGED text
    BY <2>6 DEF TextTypeOK
  <2> QED BY <2>2, <2>3, <2>4, <2>5, <2>6 DEF TextNext
<1> QED BY <1>1, <1>2, PTL DEF TextSpec

\* The digits that are read, with a zero before the point or without, denote the same.
LEMMA WholeFacts ==
  ASSUME TextTypeOK, Denominated
  PROVE  /\ Whole(text) # << >>
         /\ Whole(text) \o text.fraction \in Seq(Digit) /\ Whole(text) \o text.fraction # << >>
         /\ Integer(Whole(text) \o text.fraction) = Integer(text.whole \o text.fraction)
<1>1. /\ text.whole \in Seq(Digit) /\ text.fraction \in Seq(Digit)
      /\ text.whole \o text.fraction # << >>
  BY DEF TextTypeOK, Denominated
<1>2. CASE text.whole = << >> /\ text.point
  <2> DEFINE z == <<0>>
  <2>1. z \in Seq(Digit) /\ AllZero(z) /\ z # << >>
    BY DEF Digit, AllZero
  <2>2. Whole(text) = z
    BY <1>2 DEF Whole
  <2>3. text.whole \o text.fraction = text.fraction
    BY <1>1, <1>2
  <2>4. z \o text.fraction \in Seq(Digit) /\ z \o text.fraction # << >>
    BY <1>1, <2>1
  <2> HIDE DEF z
  <2>5. Integer(z \o text.fraction) = Integer(text.fraction)
    BY <1>1, <2>1, IntegerPadded
  <2> QED BY <2>1, <2>2, <2>3, <2>4, <2>5
<1>3. CASE ~(text.whole = << >> /\ text.point)
  <2>1. Whole(text) = text.whole
    BY <1>3 DEF Whole
  <2>2. text.whole # << >>
    <3> SUFFICES ASSUME text.whole = << >> PROVE FALSE
      OBVIOUS
    <3>1. text.fraction = << >>
      BY <1>3 DEF TextTypeOK
    <3>2. << >> \o << >> = << >>
      OBVIOUS
    <3> QED BY <1>1, <3>1, <3>2
  <2> QED BY <1>1, <2>1, <2>2
<1> QED BY <1>2, <1>3

\* Every text that has a digit is read exactly, or has no integer to be read as.
LEMMA ParseExact ==
  ASSUME TextTypeOK, Denominated, NEW scale \in Nat,
         NEW parsed, parsed = ParseDecimalToScaledUnits(text, scale)
  PROVE  /\ parsed.units \in Int
         /\ parsed.code = "OK" => Denotes(text, scale, parsed.units)
         /\ parsed.code # "OK" => ~Representable(text, scale)
<1> DEFINE all == text.whole \o text.fraction
           digits == WithoutLeadingZeros(Whole(text) \o text.fraction)
           w == text.exponent - Len(text.fraction) + scale
           shifted == Shifted(digits, w)
<1>1. digits \in Seq(Digit) /\ Integer(digits) = Integer(all)
  BY WholeFacts, WithoutLeadingZerosFacts
<1>2. w \in Int /\ Weight(text, scale) = w /\ text.negative \in BOOLEAN
  BY DEF TextTypeOK, Weight
<1>3. parsed = IF text.negative THEN [shifted EXCEPT !.units = -@] ELSE shifted
  BY WholeFacts DEF ParseDecimalToScaledUnits, Denominated
<1>4. all \in Seq(Digit)
  BY DEF TextTypeOK
<1>5. PICK number \in Nat : number = Integer(all)
  BY <1>4, IntegerNat
<1>6. Coefficient(text) = IF text.negative THEN -number ELSE number
  BY <1>5 DEF Coefficient
<1>7. Representable(text, scale) <=> w >= 0 \/ number % Power[-w] = 0
  BY <1>2, <1>5 DEF Representable
<1>8. \A n : Denotes(text, scale, n) <=>
        IF w >= 0 THEN n = Coefficient(text) * Power[w] ELSE n * Power[-w] = Coefficient(text)
  BY <1>2 DEF Denotes
<1> HIDE DEF all, digits, w
<1>9. Exact(shifted, number, w)
  BY <1>1, <1>2, <1>5, ShiftedExact
<1> HIDE DEF shifted
<1>10. PICK units \in Nat : units = shifted.units /\ shifted = [code |-> shifted.code, units |-> units]
  BY <1>9 DEF Exact
<1>11. /\ parsed.code = shifted.code
       /\ parsed.units = IF text.negative THEN -units ELSE units
  BY <1>3, <1>10
<1>12. ASSUME parsed.code = "OK" PROVE Denotes(text, scale, parsed.units)
  <2>1. CASE w >= 0
    <3>1. PICK p \in Nat : p = Power[w]
      BY <1>2, <2>1, PowerFacts
    <3>2. units = number * p
      BY <1>9, <1>10, <1>11, <1>12, <2>1, <3>1 DEF Exact
    <3>3. -units = (-number) * p
      BY <3>2
    <3>4. parsed.units = Coefficient(text) * p
      BY <1>6, <1>11, <3>2, <3>3
    <3> QED BY <1>8, <2>1, <3>1, <3>4
  <2>2. CASE w < 0
    <3>1. PICK p \in Nat : p = Power[-w]
      BY <1>2, <2>2, PowerFacts
    <3>2. units * p = number
      BY <1>9, <1>10, <1>11, <1>12, <2>2, <3>1 DEF Exact
    <3>3. (-units) * p = -number
      BY <3>2
    <3>4. parsed.units * p = Coefficient(text)
      BY <1>6, <1>11, <3>2, <3>3
    <3> QED BY <1>2, <1>8, <2>2, <3>1, <3>4
  <2> QED BY <1>2, <2>1, <2>2
<1>13. parsed.code # "OK" => ~Representable(text, scale)
  BY <1>2, <1>7, <1>9, <1>11 DEF Exact
<1> QED BY <1>11, <1>12, <1>13

\* A text denotes at most one number.
LEMMA DenotesOne ==
  ASSUME TextTypeOK, NEW scale \in Nat, NEW m \in Int, NEW n \in Int,
         Denotes(text, scale, m), Denotes(text, scale, n)
  PROVE  m = n
<1>1. Weight(text, scale) \in Int
  BY DEF TextTypeOK, Weight
<1>2. CASE Weight(text, scale) >= 0
  BY <1>2 DEF Denotes
<1>3. CASE Weight(text, scale) < 0
  <2>1. PICK p \in Nat : p = Power[-Weight(text, scale)] /\ p > 0
    BY <1>1, <1>3, PowerFacts
  <2>2. m * p = n * p
    BY <1>1, <1>3, <2>1 DEF Denotes
  <2>3. CASE m < n
    <3>1. (n - m) * p >= p /\ (n - m) * p = n * p - m * p
      BY <2>3
    <3> QED BY <2>1, <2>2, <3>1
  <2>4. CASE m > n
    <3>1. (m - n) * p >= p /\ (m - n) * p = m * p - n * p
      BY <2>4
    <3> QED BY <2>1, <2>2, <3>1
  <2> QED BY <2>3, <2>4
<1> QED BY <1>1, <1>2, <1>3

\* A sequence cut in two: the second part is as long as asked for, and nothing is lost.
LEMMA CutInTwo ==
  ASSUME NEW S, NEW s \in Seq(S), NEW k \in Nat, NEW m \in Nat, Len(s) = k + m
  PROVE  /\ Len(SubSeq(s, k + 1, k + m)) = m
         /\ SubSeq(s, 1, k) \o SubSeq(s, k + 1, k + m) = s
<1> DEFINE front == SubSeq(s, 1, k)
           back == SubSeq(s, k + 1, k + m)
<1>1. /\ front \in Seq(S) /\ Len(front) = k
      /\ \A i \in 1..k : front[i] = s[i]
  OBVIOUS
<1>2. /\ back \in Seq(S) /\ Len(back) = m
      /\ \A i \in 1..m : back[i] = s[k + i]
  OBVIOUS
<1> HIDE DEF front, back
<1>3. Len(front \o back) = Len(s) /\ front \o back \in Seq(S)
  BY <1>1, <1>2
<1>4. ASSUME NEW i \in 1..Len(s) PROVE (front \o back)[i] = s[i]
  <2>1. CASE i <= k
    BY <1>1, <1>2, <2>1
  <2>2. CASE i > k
    <3>1. i - k \in 1..m /\ k + (i - k) = i
      BY <2>2
    <3>2. (front \o back)[i] = back[i - Len(front)]
      BY <1>1, <1>2, <2>2
    <3>3. Len(front) = k
      BY <1>1
    <3> QED BY <1>2, <3>1, <3>2, <3>3
  <2>3. i \in Nat /\ (i <= k \/ i > k)
    OBVIOUS
  <2> QED BY <2>1, <2>2, <2>3
<1>5. front \o back = s
  BY <1>3, <1>4
<1> QED BY <1>2, <1>5 DEF front, back

\* What is written has four decimals and denotes the units it was written from.
LEMMA FormatExact ==
  ASSUME NEW units \in Int, NEW written, written = FormatScaledUnits(units, 4)
  PROVE  Denotes(written, 4, units) /\ Len(written.fraction) = 4
<1> DEFINE magnitude == IF units < 0 THEN -units ELSE units
           plain == DigitsOf[magnitude]
           zeros == Zeros(4 + 1 - Len(plain))
           digits == zeros \o plain
           split == Len(digits) - 4
           whole == SubSeq(digits, 1, split)
           fraction == SubSeq(digits, split + 1, Len(digits))
<1>1. magnitude \in Nat
  OBVIOUS
<1>2. plain \in Seq(Digit) /\ Len(plain) >= 1 /\ Integer(plain) = magnitude
  BY <1>1, DigitsOfFacts
<1>3. written = [negative |-> units < 0, whole |-> whole, point |-> 4 > 0,
                 fraction |-> fraction, exponent |-> 0]
  BY DEF FormatScaledUnits
<1> HIDE DEF plain
<1>4. zeros \in Seq(Digit) /\ AllZero(zeros) /\ Len(zeros) + Len(plain) >= 5
  <2>1. PICK size \in Nat : size = Len(plain)
    BY <1>2
  <2>2. zeros \in Seq(Digit) /\ AllZero(zeros)
    BY <2>1 DEF Zeros, AllZero, Digit
  <2>3. CASE size <= 5
    <3>1. Len(zeros) = 5 - size
      BY <2>1, <2>3 DEF Zeros
    <3> QED BY <2>1, <2>2, <3>1
  <2>4. CASE size > 5
    BY <2>1, <2>2, <2>4
  <2> QED BY <2>1, <2>2, <2>3, <2>4
<1> HIDE DEF zeros, magnitude
<1>5. Integer(digits) = magnitude
  BY <1>2, <1>4, IntegerPadded
<1>6. digits \in Seq(Digit) /\ Len(digits) \in Nat /\ Len(digits) >= 5
  BY <1>2, <1>4
<1> HIDE DEF digits
<1>7. Len(fraction) = 4 /\ whole \o fraction = digits
  <2>1. PICK size \in Nat : size = Len(digits)
    BY <1>6
  <2>2. PICK k \in Nat : k = size - 4
    BY <1>6, <2>1
  <2>3. Len(digits) = k + 4
    BY <2>1, <2>2
  <2>4. /\ Len(SubSeq(digits, k + 1, k + 4)) = 4
        /\ SubSeq(digits, 1, k) \o SubSeq(digits, k + 1, k + 4) = digits
    BY <1>6, <2>3, CutInTwo
  <2>5. split = k /\ Len(digits) = k + 4
    BY <2>1, <2>2
  <2> QED BY <2>4, <2>5
<1> HIDE DEF whole, fraction
<1>8. /\ written.negative = (units < 0) /\ written.whole = whole
      /\ written.fraction = fraction /\ written.exponent = 0
  BY <1>3
<1>9. Weight(written, 4) = 0
  <2>1. Weight(written, 4) = written.exponent - Len(written.fraction) + 4
    BY DEF Weight
  <2>2. Weight(written, 4) = 0 - 4 + 4
    BY <1>7, <1>8, <2>1
  <2> QED BY <2>2
<1>10. Coefficient(written) = units
  <2>1. Coefficient(written) = IF units < 0 THEN -magnitude ELSE magnitude
    BY <1>5, <1>7, <1>8 DEF Coefficient
  <2> QED BY <2>1 DEF magnitude
<1>11. units = units * Power[0]
  BY PowerFacts
<1> QED BY <1>7, <1>8, <1>9, <1>10, <1>11 DEF Denotes

LEMMA AmountsHold ==
  ASSUME TextTypeOK PROVE AmountsExact
<1> SUFFICES ASSUME Denominated,
                    NEW money, money = SignedMoney(text),
                    NEW interest, interest = InterestDecimal(text)
             PROVE  /\ IF money.code = "OK" THEN Denotes(text, 2, money.units)
                       ELSE ~Representable(text, 2) \/ \A n \in -MaxCents..MaxCents : ~Denotes(text, 2, n)
                    /\ IF interest.code = "OK"
                         THEN /\ Denotes(text, 4, interest.units)
                              /\ Denotes(interest.decimal, 4, interest.units)
                              /\ Len(interest.decimal.fraction) = 4
                       ELSE ~Representable(text, 4)
  BY DEF AmountsExact
<1>1. IF money.code = "OK" THEN Denotes(text, 2, money.units)
      ELSE ~Representable(text, 2) \/ \A n \in -MaxCents..MaxCents : ~Denotes(text, 2, n)
  <2> DEFINE parsed == ParseDecimalToScaledUnits(text, 2)
  <2>1. /\ parsed.units \in Int
        /\ parsed.code = "OK" => Denotes(text, 2, parsed.units)
        /\ parsed.code # "OK" => ~Representable(text, 2)
    BY ParseExact
  <2>2. money = IF parsed.code = "OK" /\ parsed.units \notin -MaxCents..MaxCents
                  THEN Refused("AMOUNT_OUT_OF_RANGE") ELSE parsed
    BY DEF SignedMoney, ScaledUnitsToSafeNumber
  <2> HIDE DEF parsed
  <2>3. CASE parsed.code = "OK" /\ parsed.units \notin -MaxCents..MaxCents
    <3>1. ASSUME NEW n \in -MaxCents..MaxCents, Denotes(text, 2, n) PROVE FALSE
      <4>1. n \in Int
        BY DecimalAssumption
      <4>2. n = parsed.units
        BY <2>1, <2>3, <3>1, <4>1, DenotesOne
      <4> QED BY <2>3, <4>2
    <3>2. money.code # "OK"
      BY <2>2, <2>3 DEF Refused
    <3> QED BY <3>1, <3>2
  <2>4. CASE ~(parsed.code = "OK" /\ parsed.units \notin -MaxCents..MaxCents)
    BY <2>1, <2>2, <2>4
  <2> QED BY <2>3, <2>4
<1>2. IF interest.code = "OK"
        THEN /\ Denotes(text, 4, interest.units)
             /\ Denotes(interest.decimal, 4, interest.units)
             /\ Len(interest.decimal.fraction) = 4
        ELSE ~Representable(text, 4)
  <2> DEFINE parsed == ParseDecimalToScaledUnits(text, 4)
  <2>1. /\ parsed.units \in Int
        /\ parsed.code = "OK" => Denotes(text, 4, parsed.units)
        /\ parsed.code # "OK" => ~Representable(text, 4)
    BY ParseExact
  <2>2. /\ interest.code = parsed.code /\ interest.units = parsed.units
        /\ interest.decimal = FormatScaledUnits(parsed.units, 4)
    BY DEF InterestDecimal
  <2> HIDE DEF parsed
  <2>3. Denotes(interest.decimal, 4, parsed.units) /\ Len(interest.decimal.fraction) = 4
    BY <2>1, <2>2, FormatExact
  <2> QED BY <2>1, <2>2, <2>3
<1> QED BY <1>1, <1>2

\* Amounts are read exactly or refused, and what is written of a balance is what was read.
THEOREM AmountsExactCorrect == TextSpec => []AmountsExact
<1>1. TextTypeOK => AmountsExact
  BY AmountsHold
<1> QED BY <1>1, TextTypeCorrect, PTL
=============================================================================

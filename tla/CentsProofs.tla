---------------------------- MODULE CentsProofs ----------------------------
(***************************************************************************)
(* The laws of SumCents and CountOf: what a sum over rows returns when a   *)
(* row is added, removed or left alone, and a count when a log grows.      *)
(***************************************************************************)
EXTENDS Cents, Sequences, FiniteSetTheorems, TLAPS

(* The cents of one row are finite and there are f of them. *)
LEMMA RowCents ==
  ASSUME NEW s, NEW n \in Nat
  PROVE  /\ IsFiniteSet({s} \X (1 .. n))
         /\ Cardinality({s} \X (1 .. n)) = n
<1>1. /\ IsFiniteSet(1 .. n)
      /\ Cardinality(1 .. n) = n
  <2>1. /\ IsFiniteSet(1 .. n)
        /\ Cardinality(1 .. n) = IF 1 > n THEN 0 ELSE n - 1 + 1
    BY FS_Interval
  <2> QED BY <2>1
<1>2. /\ IsFiniteSet({s})
      /\ Cardinality({s}) = 1
  BY FS_Singleton
<1>3. /\ IsFiniteSet({s} \X (1 .. n))
      /\ Cardinality({s} \X (1 .. n)) = Cardinality({s}) * Cardinality(1 .. n)
  BY <1>1, <1>2, FS_Product
<1> QED BY <1>1, <1>2, <1>3

(* The sum over no row is 0: the coalesce of the SQL query. *)
LEMMA SumOfNone ==
  ASSUME NEW f
  PROVE  SumCents({}, f) = 0
<1>1. CentsOf({}, f) = {}
  BY DEF CentsOf
<1> QED BY <1>1, FS_EmptySet DEF SumCents

(* The cents of finitely many rows are finite, so a sum is a natural. *)
LEMMA SumType ==
  ASSUME NEW S, IsFiniteSet(S), NEW f, \A s \in S : f[s] \in Nat
  PROVE  /\ IsFiniteSet(CentsOf(S, f))
         /\ SumCents(S, f) \in Nat
<1> DEFINE Rows == {{s} \X (1 .. f[s]) : s \in S}
<1>1. IsFiniteSet(Rows)
  <2> DEFINE row == [s \in S |-> {s} \X (1 .. f[s])]
  <2>1. row \in Surjection(S, Rows)
    BY DEF Surjection
  <2> HIDE DEF row, Rows
  <2> QED BY <2>1, FS_Surjection
<1>2. \A R \in Rows : IsFiniteSet(R)
  <2>1. \A s \in S : IsFiniteSet({s} \X (1 .. f[s]))
    BY RowCents
  <2> QED BY <2>1
<1>3. IsFiniteSet(CentsOf(S, f))
  BY <1>1, <1>2, FS_UNION DEF CentsOf
<1> QED BY <1>3, FS_CardinalityType DEF SumCents

(* Adding a row adds its amount. *)
LEMMA SumAdd ==
  ASSUME NEW S, IsFiniteSet(S), NEW x, x \notin S, NEW f,
         \A s \in S \cup {x} : f[s] \in Nat
  PROVE  SumCents(S \cup {x}, f) = SumCents(S, f) + f[x]
<1> DEFINE Row == {x} \X (1 .. f[x])
<1>1. CentsOf(S \cup {x}, f) = CentsOf(S, f) \cup Row
  BY DEF CentsOf
<1>2. CentsOf(S, f) \cap Row = {}
  BY DEF CentsOf
<1>3. IsFiniteSet(CentsOf(S, f)) /\ Cardinality(CentsOf(S, f)) \in Nat
  BY SumType DEF SumCents
<1>4. IsFiniteSet(Row) /\ Cardinality(Row) = f[x]
  BY RowCents
<1>5. Cardinality(CentsOf(S, f) \cup Row)
        = Cardinality(CentsOf(S, f)) + Cardinality(Row)
            - Cardinality(CentsOf(S, f) \cap Row)
  BY <1>3, <1>4, FS_Union
<1>6. Cardinality(CentsOf(S, f) \cap Row) = 0
  BY <1>2, FS_EmptySet
<1> HIDE DEF Row
<1>7. f[x] \in Nat
  OBVIOUS
<1>8. Cardinality(CentsOf(S, f) \cup Row) = Cardinality(CentsOf(S, f)) + f[x]
  BY <1>3, <1>4, <1>5, <1>6, <1>7
<1> QED BY <1>1, <1>8, Zenon DEF SumCents

(* A sum depends on the rows summed only. *)
LEMMA SumSame ==
  ASSUME NEW S, NEW f, NEW g, \A s \in S : f[s] = g[s]
  PROVE  SumCents(S, f) = SumCents(S, g)
<1>1. CentsOf(S, f) = CentsOf(S, g)
  BY DEF CentsOf
<1> QED BY <1>1 DEF SumCents

(* Removing a row takes its amount off, which the sum therefore covered. *)
LEMMA SumRemove ==
  ASSUME NEW S, IsFiniteSet(S), NEW x \in S, NEW f, \A s \in S : f[s] \in Nat
  PROVE  /\ SumCents(S, f) = SumCents(S \ {x}, f) + f[x]
         /\ SumCents(S \ {x}, f) \in Nat
<1> DEFINE R == S \ {x}
<1>1. IsFiniteSet(R)
  BY FS_Subset
<1>2. R \cup {x} = S /\ x \notin R
  OBVIOUS
<1>3. SumCents(R \cup {x}, f) = SumCents(R, f) + f[x]
  BY <1>1, <1>2, SumAdd
<1> QED BY <1>1, <1>2, <1>3, SumType

(* More rows never add up to less. *)
LEMMA SumSubset ==
  ASSUME NEW T, IsFiniteSet(T), NEW S \in SUBSET T, NEW f, \A s \in T : f[s] \in Nat
  PROVE  SumCents(S, f) <= SumCents(T, f)
<1>1. CentsOf(S, f) \subseteq CentsOf(T, f) BY DEF CentsOf
<1>2. IsFiniteSet(CentsOf(T, f)) BY SumType
<1>3. Cardinality(CentsOf(S, f)) <= Cardinality(CentsOf(T, f)) BY <1>1, <1>2, FS_Subset
<1> QED BY <1>3 DEF SumCents

(* The places of a log that pass a test are finitely many. *)
LEMMA PlacesFinite ==
  ASSUME NEW S, NEW log \in Seq(S), NEW places \in SUBSET DOMAIN log
  PROVE  IsFiniteSet(places) /\ Cardinality(places) \in Nat
<1>1. IsFiniteSet(1 .. Len(log)) BY FS_Interval
<1>2. IsFiniteSet(places) BY <1>1, FS_Subset
<1> QED BY <1>2, FS_CardinalityType

(* Nothing occurs in an empty log. *)
LEMMA CountOfNone ==
  ASSUME NEW e
  PROVE  CountOf(<<>>, e) = 0
<1>1. {i \in DOMAIN <<>> : <<>>[i] = e} = {} OBVIOUS
<1> QED BY <1>1, FS_EmptySet DEF CountOf

(* An entry more is counted once, if it is the one counted. *)
LEMMA CountAppend ==
  ASSUME NEW S, NEW log \in Seq(S), NEW x \in S, NEW e
  PROVE  /\ CountOf(log, e) \in Nat
         /\ CountOf(Append(log, x), e) = CountOf(log, e) + IF x = e THEN 1 ELSE 0
<1> DEFINE old == {i \in DOMAIN log : log[i] = e}
           new == {i \in DOMAIN Append(log, x) : Append(log, x)[i] = e}
           n == Len(log) + 1
<1>1. IsFiniteSet(old) /\ Cardinality(old) \in Nat BY PlacesFinite
<1>2. n \notin old /\ new = IF x = e THEN old \cup {n} ELSE old OBVIOUS
<1>3. CountOf(log, e) = Cardinality(old) /\ CountOf(Append(log, x), e) = Cardinality(new) BY DEF CountOf
<1> HIDE DEF old, new, n
<1>4. Cardinality(old \cup {n}) = Cardinality(old) + 1 BY <1>1, <1>2, FS_AddElement
<1> QED BY <1>1, <1>2, <1>3, <1>4
=============================================================================

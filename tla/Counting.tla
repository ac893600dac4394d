------------------------------- MODULE Counting --------------------------------
(* How the size of a finite set changes when a step adds or takes elements. *)
EXTENDS FiniteSetTheorems, FunctionTheorems, TLAPS

(* A part of a finite set is finite and no larger. *)
LEMMA CountPart ==
    ASSUME NEW S, IsFiniteSet(S), NEW T, T \subseteq S
    PROVE  /\ IsFiniteSet(T)
           /\ Cardinality(T) \in Nat /\ Cardinality(S) \in Nat
           /\ Cardinality(T) <= Cardinality(S)
BY FS_Subset, FS_CardinalityType

(* A set any two elements of which are equal has one at most. *)
LEMMA CountAtMostOne ==
    ASSUME NEW S, \A x, y \in S : x = y
    PROVE  IsFiniteSet(S) /\ Cardinality(S) \in Nat /\ Cardinality(S) <= 1
<1>1. CASE S = {}
  BY <1>1, FS_EmptySet
<1>2. CASE S # {}
  <2>1. PICK x \in S : TRUE
    BY <1>2
  <2>2. S = {x}
    BY <2>1
  <2>. QED
    BY <2>2, FS_Singleton
<1>. QED
  BY <1>1, <1>2

(* Two sets together have at most the elements of both. *)
LEMMA CountTogether ==
    ASSUME NEW S, IsFiniteSet(S), NEW U, IsFiniteSet(U), NEW T, T \subseteq S \cup U
    PROVE  IsFiniteSet(T) /\ Cardinality(T) <= Cardinality(S) + Cardinality(U)
<1>1. /\ IsFiniteSet(S \cup U)
      /\ Cardinality(S \cup U) = Cardinality(S) + Cardinality(U) - Cardinality(S \cap U)
  BY FS_Union
<1>2. Cardinality(S) \in Nat /\ Cardinality(U) \in Nat
  BY FS_CardinalityType
<1>3. Cardinality(S \cap U) \in Nat
  BY CountPart
<1>4. IsFiniteSet(T) /\ Cardinality(T) \in Nat /\ Cardinality(T) <= Cardinality(S \cup U)
  BY <1>1, CountPart
<1>. QED
  BY <1>1, <1>2, <1>3, <1>4

(* One element more is one more at most... *)
LEMMA CountOneMore ==
    ASSUME NEW S, IsFiniteSet(S), NEW x, NEW T, T \subseteq S \cup {x}
    PROVE  /\ IsFiniteSet(T)
           /\ Cardinality(T) \in Nat /\ Cardinality(S) \in Nat
           /\ Cardinality(T) <= Cardinality(S) + 1
<1>1. IsFiniteSet({x}) /\ Cardinality({x}) = 1
  BY FS_Singleton
<1>2. IsFiniteSet(T) /\ Cardinality(T) <= Cardinality(S) + 1
  BY <1>1, CountTogether
<1>. QED
  BY <1>2, FS_CardinalityType

(* ... and one that was not there is one more exactly. *)
LEMMA CountNewcomer ==
    ASSUME NEW T, IsFiniteSet(T), NEW S, NEW x, x \notin S, S \cup {x} \subseteq T
    PROVE  /\ IsFiniteSet(S)
           /\ Cardinality(T) \in Nat /\ Cardinality(S) \in Nat
           /\ Cardinality(S) + 1 <= Cardinality(T)
<1>1. IsFiniteSet(S) /\ Cardinality(S) \in Nat
  BY CountPart
<1>2. IsFiniteSet(S \cup {x}) /\ Cardinality(S \cup {x}) = Cardinality(S) + 1
  BY <1>1, FS_AddElement
<1>. QED
  BY <1>1, <1>2, CountPart

(* A function takes no more values than it has arguments. *)
LEMMA CountImage ==
    ASSUME NEW S, IsFiniteSet(S), NEW f
    PROVE  LET T == {f[x] : x \in S}
           IN  IsFiniteSet(T) /\ Cardinality(T) <= Cardinality(S)
<1>. DEFINE T == {f[x] : x \in S}
            g == [x \in S |-> f[x]]
<1>1. g \in Surjection(S, T)
  BY DEF Surjection
<1>. HIDE DEF T, g
<1>2. IsFiniteSet(T) /\ Cardinality(T) <= Cardinality(S)
  BY <1>1, FS_Surjection
<1>. QED
  BY <1>2 DEF T

(* Of two finite sets, the smaller can be mapped into the larger so that   *)
(* no two elements meet.                                                   *)
LEMMA CountInto ==
    ASSUME NEW S, IsFiniteSet(S), NEW T, IsFiniteSet(T), Cardinality(S) <= Cardinality(T)
    PROVE  \E f \in [S -> T] : \A x, y \in S : f[x] = f[y] => x = y
<1>. DEFINE m == Cardinality(S)
            n == Cardinality(T)
<1>1. m \in Nat /\ n \in Nat /\ ExistsBijection(1..m, S) /\ ExistsBijection(1..n, T)
  BY FS_CardinalityType
<1>2. PICK g \in Bijection(S, 1..m) : TRUE
  BY <1>1, Fun_ExistsBijSymmetric DEF ExistsBijection
<1>3. PICK h \in Bijection(1..n, T) : TRUE
  BY <1>1 DEF ExistsBijection
<1>. HIDE DEF m, n
<1>4. g \in [S -> 1..m] /\ \A x, y \in S : g[x] = g[y] => x = y
  BY <1>2, Fun_BijectionProperties
<1>5. h \in [1..n -> T] /\ \A x, y \in 1..n : h[x] = h[y] => x = y
  BY <1>3, Fun_BijectionProperties
<1>6. \A x \in S : g[x] \in 1..n
  BY <1>1, <1>4 DEF m, n
<1>. DEFINE f == [x \in S |-> h[g[x]]]
<1>7. f \in [S -> T] /\ \A x, y \in S : f[x] = f[y] => x = y
  BY <1>4, <1>5, <1>6
<1>. QED
  BY <1>7

(* What is allowed for each of n events, when there is one event more. *)
LEMMA OneMoreTime ==
    ASSUME NEW n \in Nat, NEW m \in Nat PROVE (n + 1) * m = n * m + m /\ n * m \in Nat
OBVIOUS
================================================================================

----------------------------- MODULE ListLemmas -----------------------------
(***************************************************************************)
(* Lemmas about lists and finite sets that the proofs of several           *)
(* components rest on.                                                     *)
(***************************************************************************)
EXTENDS Integers, Sequences, SequencesExt, FiniteSetTheorems, TLAPS

(* The two ends of a list keep its type.                                   *)

LEMMA FrontType ==
  ASSUME NEW S, NEW s \in Seq(S), s # <<>>
  PROVE  Front(s) \in Seq(S)
  BY DEF Front

LEMMA SameInterval ==
  ASSUME NEW a \in Nat, NEW b \in Nat, 1..a = 1..b
  PROVE  a = b
  <1>1. (a # 0 => a \in 1..b) /\ (b # 0 => b \in 1..a)
    OBVIOUS
  <1>2. QED
    BY <1>1

LEMMA FrontParts ==
  ASSUME NEW S, NEW s \in Seq(S), s # <<>>
  PROVE  /\ Len(s) \in Nat \ {0} /\ Last(s) = s[Len(s)]
         /\ Len(Front(s)) = Len(s) - 1
         /\ \A i \in 1..(Len(s) - 1) : Front(s)[i] = s[i]
  <1>1. Len(s) \in Nat \ {0} /\ Last(s) = s[Len(s)]
    BY DEF Last
  <1>2. Len(Front(s)) = Len(s) - 1
    <2>1. DOMAIN Front(s) = 1..(Len(s) - 1)
      BY <1>1 DEF Front
    <2>2. Len(Front(s)) \in Nat /\ DOMAIN Front(s) = 1..Len(Front(s))
      <3>1. Front(s) \in Seq(S)
        BY FrontType
      <3>2. QED
        BY <3>1
    <2>3. QED
      BY <1>1, <2>1, <2>2, SameInterval
  <1>3. \A i \in 1..(Len(s) - 1) : Front(s)[i] = s[i]
    BY DEF Front
  <1>4. QED
    BY <1>1, <1>2, <1>3

LEMMA LastType ==
  ASSUME NEW S, NEW s \in Seq(S), s # <<>>
  PROVE  Last(s) \in S
  BY DEF Last

LEMMA PushType ==
  ASSUME NEW S, NEW s \in Seq(S), NEW m \in S
  PROVE  <<m>> \o s \in Seq(S)
  OBVIOUS

(* What is in a list when an element comes or goes.                        *)

LEMMA PushElements ==
  ASSUME NEW S, NEW s \in Seq(S), NEW m \in S
  PROVE  /\ ToSet(<<m>> \o s) = ToSet(s) \cup {m}
         /\ ToSet(Append(s, m)) = ToSet(s) \cup {m}
  <1>1. ASSUME NEW i \in 1..Len(s)
        PROVE  (<<m>> \o s)[i + 1] = s[i] /\ Append(s, m)[i] = s[i]
    OBVIOUS
  <1>2. (<<m>> \o s)[1] = m /\ Append(s, m)[Len(s) + 1] = m
    OBVIOUS
  <1>3. /\ DOMAIN s = 1..Len(s) /\ Len(s) \in Nat
        /\ DOMAIN (<<m>> \o s) = 1..(Len(s) + 1)
        /\ DOMAIN Append(s, m) = 1..(Len(s) + 1)
    OBVIOUS
  <1>4. \A j \in 1..(Len(s) + 1) : j = 1 \/ j - 1 \in 1..Len(s)
    BY <1>3
  <1>5. ToSet(<<m>> \o s) = ToSet(s) \cup {m}
    <2>1. ASSUME NEW j \in 1..(Len(s) + 1)
          PROVE  (<<m>> \o s)[j] \in ToSet(s) \cup {m}
      <3>1. CASE j = 1
        BY <1>2, <3>1
      <3>2. CASE j - 1 \in 1..Len(s)
        <4>1. (<<m>> \o s)[(j - 1) + 1] = s[j - 1]
          BY <1>1, <3>2
        <4>2. QED
          BY <1>3, <3>2, <4>1 DEF ToSet
      <3>3. QED
        BY <1>4, <3>1, <3>2
    <2>2. ASSUME NEW i \in 1..Len(s) PROVE s[i] \in ToSet(<<m>> \o s)
      <3>1. i + 1 \in DOMAIN (<<m>> \o s)
        BY <1>3
      <3>2. QED
        BY <1>1, <3>1 DEF ToSet
    <2>3. m \in ToSet(<<m>> \o s)
      BY <1>2, <1>3 DEF ToSet
    <2>4. QED
      BY <1>3, <2>1, <2>2, <2>3 DEF ToSet
  <1>6. ToSet(Append(s, m)) = ToSet(s) \cup {m}
    BY <1>1, <1>2, <1>3 DEF ToSet
  <1>7. QED
    BY <1>5, <1>6

LEMMA AppendElements ==
  ASSUME NEW S, NEW s \in Seq(S), NEW m \in S
  PROVE  ToSet(Append(s, m)) = ToSet(s) \cup {m}
  <1>1. /\ DOMAIN s = 1..Len(s) /\ Len(s) \in Nat
        /\ DOMAIN Append(s, m) = 1..(Len(s) + 1)
        /\ \A i \in 1..Len(s) : Append(s, m)[i] = s[i]
        /\ Append(s, m)[Len(s) + 1] = m
    OBVIOUS
  <1>2. QED
    BY <1>1 DEF ToSet

LEMMA PopElements ==
  ASSUME NEW S, NEW s \in Seq(S), s # <<>>
  PROVE  ToSet(Front(s)) \subseteq ToSet(s) /\ Last(s) \in ToSet(s)
  BY DEF Front, Last, ToSet

LEMMA PopSplits ==
  ASSUME NEW S, NEW s \in Seq(S), s # <<>>
  PROVE  ToSet(s) = ToSet(Front(s)) \cup {Last(s)}
  <1> DEFINE n == Len(s)
  <1>1. n \in Nat \ {0} /\ DOMAIN s = 1..n /\ Last(s) = s[n]
    BY DEF Last
  <1>2. DOMAIN Front(s) = 1..(n - 1) /\ \A i \in 1..(n - 1) : Front(s)[i] = s[i]
    BY DEF Front
  <1> HIDE DEF n
  <1>3. 1..n = (1..(n - 1)) \cup {n}
    BY <1>1
  <1>4. QED
    BY <1>1, <1>2, <1>3 DEF ToSet

(* A list has finitely many elements.                                      *)
LEMMA ElementsFinite ==
  ASSUME NEW S, NEW s \in Seq(S)
  PROVE  IsFiniteSet(ToSet(s))
  <1>1. DOMAIN s = 1..Len(s) /\ Len(s) \in Nat
    OBVIOUS
  <1>2. IsFiniteSet(1..Len(s))
    BY <1>1, FS_Interval
  <1>3. s \in Surjection(1..Len(s), ToSet(s))
    BY <1>1 DEF Surjection, ToSet
  <1>4. QED
    BY <1>2, <1>3, FS_Surjection

(* A set with one element more at most.                                    *)
LEMMA OneMoreBound ==
  ASSUME NEW S, IsFiniteSet(S), NEW x, NEW T, T \subseteq S \cup {x}
  PROVE  Cardinality(T) <= Cardinality(S) + 1
  <1>1. /\ IsFiniteSet(S \cup {x})
        /\ Cardinality(S \cup {x}) = Cardinality(S) \/ Cardinality(S \cup {x}) = Cardinality(S) + 1
    BY FS_AddElement
  <1>2. IsFiniteSet(T) /\ Cardinality(T) <= Cardinality(S \cup {x})
    BY <1>1, FS_Subset
  <1>3. Cardinality(S) \in Nat /\ Cardinality(T) \in Nat
    BY <1>2, FS_CardinalityType
  <1>4. QED
    BY <1>1, <1>2, <1>3

(* A list without repetitions is no longer than its elements are many.     *)
LEMMA DistinctElements ==
  ASSUME NEW S, IsFiniteSet(S), NEW s \in Seq(S),
         \A i, j \in DOMAIN s : s[i] = s[j] => i = j
  PROVE  Len(s) <= Cardinality(S)
  <1>1. /\ Len(s) \in Nat /\ DOMAIN s = 1..Len(s)
        /\ s \in [1..Len(s) -> S]
    OBVIOUS
  <1>2. s \in Injection(1..Len(s), S)
    BY <1>1 DEF Injection, IsInjective
  <1>3. Cardinality(1..Len(s)) <= Cardinality(S)
    BY <1>2, FS_Injection
  <1>4. Cardinality(1..Len(s)) = Len(s)
    BY <1>1, FS_Interval
  <1>5. QED
    BY <1>3, <1>4

(* What is left of a list after its first k elements.                      *)
From(s, k) == SubSeq(s, k + 1, Len(s))

LEMMA RestOfList ==
  ASSUME NEW S, NEW s \in Seq(S), NEW k \in 0..Len(s)
  PROVE  /\ From(s, k) \in Seq(S)
         /\ Len(From(s, k)) = Len(s) - k
         /\ From(s, k) = <<>> <=> k = Len(s)
         /\ k < Len(s) => Head(From(s, k)) = s[k + 1] /\ Tail(From(s, k)) = From(s, k + 1)
         /\ IsSuffix(From(s, k), s)
  <1>1. Len(s) \in Nat
    OBVIOUS
  <1>2. /\ From(s, k) \in Seq(S)
        /\ Len(From(s, k)) = Len(s) - k
        /\ \A i \in 1..(Len(s) - k) : From(s, k)[i] = s[k + i]
    BY <1>1 DEF From
  <1>3. From(s, k) = <<>> <=> k = Len(s)
    BY <1>1, <1>2
  <1>4. ASSUME k < Len(s)
        PROVE  Head(From(s, k)) = s[k + 1] /\ Tail(From(s, k)) = From(s, k + 1)
    <2>1. Head(From(s, k)) = s[k + 1]
      BY <1>1, <1>2, <1>4
    <2>2. /\ Tail(From(s, k)) \in Seq(S) /\ Len(Tail(From(s, k))) = Len(s) - k - 1
          /\ \A i \in 1..(Len(s) - k - 1) : Tail(From(s, k))[i] = s[k + i + 1]
      BY <1>1, <1>2, <1>3, <1>4
    <2>3. /\ From(s, k + 1) \in Seq(S) /\ Len(From(s, k + 1)) = Len(s) - k - 1
          /\ \A i \in 1..(Len(s) - k - 1) : From(s, k + 1)[i] = s[k + i + 1]
      BY <1>1, <1>4 DEF From
    <2>4. Tail(From(s, k)) = From(s, k + 1)
      <3> DEFINE a == Tail(From(s, k))
                 b == From(s, k + 1)
      <3>1. /\ a \in Seq(S) /\ b \in Seq(S) /\ Len(a) = Len(b)
            /\ \A i \in 1..Len(a) : a[i] = b[i]
        BY <2>2, <2>3
      <3> HIDE DEF a, b
      <3>2. a = b
        BY <3>1
      <3>3. QED
        BY <3>2 DEF a, b
    <2>5. QED
      BY <2>1, <2>4
  <1>5. IsSuffix(From(s, k), s)
    <2> DEFINE t == From(s, k)
               n == Len(s) - k
    <2>1. n \in Nat /\ n <= Len(s) /\ Len(t) = n
      BY <1>1, <1>2
    <2>2. /\ Reverse(t) \in Seq(S) /\ Len(Reverse(t)) = n
          /\ \A i \in 1..n : Reverse(t)[i] = t[n - i + 1]
      BY <1>2, <2>1 DEF Reverse
    <2>3. /\ Reverse(s) \in Seq(S) /\ Len(Reverse(s)) = Len(s)
          /\ \A i \in 1..Len(s) : Reverse(s)[i] = s[Len(s) - i + 1]
      BY <1>1 DEF Reverse
    <2>4. \A i \in 1..n : t[n - i + 1] = s[Len(s) - i + 1]
      <3>1. SUFFICES ASSUME NEW i \in 1..n PROVE t[n - i + 1] = s[Len(s) - i + 1]
        OBVIOUS
      <3>2. n - i + 1 \in 1..n /\ k + (n - i + 1) = Len(s) - i + 1
        BY <1>1, <2>1
      <3>3. QED
        BY <1>2, <3>2
    <2> HIDE DEF t, n
    <2>5. SubSeq(Reverse(t), 1, n) = SubSeq(Reverse(s), 1, n)
      <3>1. \A i \in 1..n : Reverse(t)[i] = Reverse(s)[i]
        BY <1>1, <2>1, <2>2, <2>3, <2>4
      <3>2. QED
        BY <1>1, <2>1, <2>2, <2>3, <3>1
    <2>6. QED
      BY <1>1, <2>1, <2>2, <2>3, <2>5 DEF t, IsSuffix, IsPrefix
  <1>6. QED
    BY <1>2, <1>3, <1>4, <1>5

-----------------------------------------------------------------------------
(* Sums. The theorems of the library that justify an induction take an     *)
(* operator for the statement; a set of the subsets for which it holds     *)
(* serves as well. A smallest subset outside that set would be one all of  *)
(* whose parts are inside.                                                 *)

LEMMA SubsetInduction ==
  ASSUME NEW S, IsFiniteSet(S), NEW G \in SUBSET (SUBSET S),
         \A T \in SUBSET S : (\A x \in T : T \ {x} \in G) => T \in G
  PROVE  G = SUBSET S
  <1> DEFINE rest == (SUBSET S) \ G
  <1>1. SUFFICES ASSUME rest # {} PROVE FALSE
    OBVIOUS
  <1>2. IsWellFoundedOn(StrictSubsetOrdering(S), SUBSET S)
    BY FS_StrictSubsetOrderingWellFounded, FS_FiniteSubsetsOfFinite
  <1>3. rest \subseteq SUBSET S
    OBVIOUS
  <1> HIDE DEF rest
  <1>4. PICK T \in rest : \A U \in rest : ~(<<U, T>> \in StrictSubsetOrdering(S))
    BY <1>1, <1>2, <1>3, WFMin
  <1>5. ASSUME NEW x \in T PROVE T \ {x} \in G
    <2>1. <<T \ {x}, T>> \in StrictSubsetOrdering(S)
      BY <1>3, <1>4 DEF StrictSubsetOrdering
    <2>2. T \ {x} \notin rest /\ T \ {x} \in SUBSET S
      BY <1>3, <1>4, <2>1
    <2>3. QED
      BY <2>2 DEF rest
  <1>6. T \in SUBSET S /\ T \notin G
    BY <1>4 DEF rest
  <1>7. QED
    BY <1>5, <1>6

(* The function by which a sum is defined: take away one element after the *)
(* other.                                                                  *)
One(s) == CHOOSE x \in s : TRUE

RunningSum(g, f, S) ==
  g = [s \in SUBSET S |-> IF s = {} THEN 0 ELSE f[One(s)] + g[s \ {One(s)}]]

(* There is such a function: one for the subsets that are no larger than   *)
(* some subset extends to those with one element more.                     *)
LEMMA RunningSumExists ==
  ASSUME NEW S, IsFiniteSet(S), NEW f
  PROVE  \E g : RunningSum(g, f, S)
  <1> DEFINE Small(n) == {s \in SUBSET S : Cardinality(s) <= n}
             Sums(g, n) ==
               g = [s \in Small(n) |-> IF s = {} THEN 0 ELSE f[One(s)] + g[s \ {One(s)}]]
             G == {T \in SUBSET S : \E g : Sums(g, Cardinality(T))}
  <1>1. ASSUME NEW T \in SUBSET S
        PROVE  /\ Cardinality(T) \in Nat /\ Cardinality(T) <= Cardinality(S)
               /\ Cardinality(T) = 0 <=> T = {}
               /\ T # {} => One(T) \in T /\ Cardinality(T \ {One(T)}) = Cardinality(T) - 1
    <2>1. IsFiniteSet(T)
      BY FS_Subset
    <2>2. T # {} => One(T) \in T
      BY DEF One
    <2>3. QED
      BY <2>1, <2>2, FS_RemoveElement, FS_CardinalityType, FS_EmptySet, FS_Subset
  <1>2. ASSUME NEW T \in SUBSET S, \A x \in T : T \ {x} \in G
        PROVE  T \in G
    <2>1. CASE T = {}
      <3> DEFINE g == [s \in Small(0) |-> 0]
      <3>1. ASSUME NEW s \in Small(0) PROVE s = {}
        <4>1. s \in SUBSET S /\ Cardinality(s) <= 0
          OBVIOUS
        <4>2. Cardinality(s) \in Nat /\ (Cardinality(s) = 0 <=> s = {})
          BY <1>1, <4>1
        <4>3. QED
          BY <4>1, <4>2
      <3>2. Sums(g, 0)
        BY <3>1
      <3>3. Cardinality(T) = 0
        BY <1>1, <2>1
      <3> HIDE DEF g, Sums
      <3>4. QED
        BY <3>2, <3>3
    <2>2. CASE T # {}
      <3> DEFINE n == Cardinality(T)
      <3>1. One(T) \in T /\ Cardinality(T \ {One(T)}) = n - 1 /\ n \in Nat
        BY <1>1, <2>2
      <3>2. PICK h : Sums(h, n - 1)
        <4> HIDE DEF Sums, n
        <4>1. T \ {One(T)} \in G
          BY <1>2, <3>1
        <4>2. QED
          BY <3>1, <4>1
      <3> HIDE DEF n, G
      <3> DEFINE g == [s \in Small(n) |-> IF s = {} THEN 0 ELSE f[One(s)] + h[s \ {One(s)}]]
      <3>3. ASSUME NEW s \in Small(n), s # {}
            PROVE  s \ {One(s)} \in Small(n - 1)
        BY <1>1, <3>1, <3>3
      <3>4. ASSUME NEW s \in Small(n - 1) PROVE s \in Small(n) /\ g[s] = h[s]
        <4>1. s \in SUBSET S /\ Cardinality(s) <= n - 1
          OBVIOUS
        <4>2. s \in Small(n)
          <5>1. Cardinality(s) \in Nat
            BY <1>1, <4>1
          <5>2. Cardinality(s) <= n
            BY <3>1, <4>1, <5>1
          <5>3. QED
            BY <4>1, <5>2
        <4>3. h[s] = IF s = {} THEN 0 ELSE f[One(s)] + h[s \ {One(s)}]
          BY <3>2
        <4>4. QED
          BY <4>2, <4>3
      <3>5. Sums(g, n)
        <4> DEFINE k == [s \in Small(n) |-> IF s = {} THEN 0 ELSE f[One(s)] + g[s \ {One(s)}]]
        <4>1. ASSUME NEW s \in Small(n) PROVE g[s] = k[s]
          <5>1. CASE s = {}
            BY <5>1
          <5>2. CASE s # {}
            <6>1. g[s] = f[One(s)] + h[s \ {One(s)}]
              BY <5>2
            <6>2. g[s \ {One(s)}] = h[s \ {One(s)}]
              BY <3>3, <3>4, <5>2
            <6> HIDE DEF g
            <6>3. k[s] = f[One(s)] + g[s \ {One(s)}]
              BY <5>2
            <6>4. QED
              BY <6>1, <6>2, <6>3
          <5>3. QED
            BY <5>1, <5>2
        <4>2. g = [s \in Small(n) |-> g[s]] /\ k = [s \in Small(n) |-> k[s]]
          OBVIOUS
        <4> HIDE DEF g, Small
        <4>3. g = k
          <5> HIDE DEF k
          <5>1. QED
            BY <4>1, <4>2
        <4>4. QED
          BY <4>3
      <3> HIDE DEF g, Sums
      <3>6. QED
        BY <3>5 DEF n, G
    <2>3. QED
      BY <2>1, <2>2
  <1>3. G = SUBSET S
    <2> HIDE DEF G
    <2>1. G \in SUBSET (SUBSET S)
      BY DEF G
    <2>2. QED
      BY <1>2, <2>1, SubsetInduction
  <1>4. PICK g : Sums(g, Cardinality(S))
    <2> HIDE DEF Sums
    <2>1. S \in G
      BY <1>3
    <2>2. QED
      BY <2>1
  <1>5. Small(Cardinality(S)) = SUBSET S
    BY <1>1
  <1>6. QED
    BY <1>4, <1>5 DEF RunningSum

(* SumFunction of the community modules, as far as an induction needs it.  *)
LEMMA SumByParts ==
  ASSUME NEW f, IsFiniteSet(DOMAIN f)
  PROVE  \E g : /\ SumFunction(f) = g[DOMAIN f] /\ g[{}] = 0
                /\ \A s \in SUBSET DOMAIN f :
                     s # {} => \E x \in s : g[s] = f[x] + g[s \ {x}]
  <1> DEFINE S == DOMAIN f
  <1>1. \E g : RunningSum(g, f, S)
    BY RunningSumExists
  <1>2. PICK g : RunningSum(g, f, S) /\ SumFunction(f) = g[S]
    BY <1>1, Zenon DEF SumFunction, SumFunctionOnSet, FoldFunctionOnSet, MapThenFoldSet,
                       RunningSum, One
  <1>3. \A s \in SUBSET S : g[s] = IF s = {} THEN 0 ELSE f[One(s)] + g[s \ {One(s)}]
    BY <1>2 DEF RunningSum
  <1>4. \A s : s # {} => One(s) \in s
    BY DEF One
  <1>5. ASSUME NEW s \in SUBSET S, s # {}
        PROVE  \E x \in s : g[s] = f[x] + g[s \ {x}]
    <2>1. One(s) \in s /\ g[s] = f[One(s)] + g[s \ {One(s)}]
      BY <1>3, <1>4, <1>5
    <2>2. QED
      BY <2>1
  <1>6. g[{}] = 0
    BY <1>3
  <1>7. QED
    BY <1>2, <1>5, <1>6

LEMMA DisjointUnion ==
  ASSUME NEW S, NEW T, IsFiniteSet(S), IsFiniteSet(T), S \cap T = {}
  PROVE  /\ Cardinality(S) \in Nat /\ Cardinality(T) \in Nat
         /\ Cardinality(S \cup T) = Cardinality(S) + Cardinality(T)
  <1>1. Cardinality(S) \in Nat /\ Cardinality(T) \in Nat
    BY FS_CardinalityType
  <1>2. Cardinality(S \cap T) = 0
    BY FS_EmptySet
  <1>3. Cardinality(S \cup T) = Cardinality(S) + Cardinality(T) - Cardinality(S \cap T)
    BY FS_Union
  <1>4. QED
    BY <1>1, <1>2, <1>3

(* Rows counted group by group: their number is the sum of the groups',    *)
(* also when each group is told without its first row.                     *)
Tells(f, rows, key, first) ==
  \A x \in DOMAIN f :
    f[x] \in Nat /\ Cardinality({row \in rows : key[row] = x}) = first + f[x]

LEMMA GroupsOrRests ==
  ASSUME NEW rows, IsFiniteSet(rows), NEW f, IsFiniteSet(DOMAIN f),
         NEW key \in [rows -> DOMAIN f], NEW first \in {0, 1}, Tells(f, rows, key, first)
  PROVE  /\ Cardinality(rows) = first * Cardinality(DOMAIN f) + SumFunction(f)
         /\ SumFunction(f) \in Nat
  <1> DEFINE S == DOMAIN f
             Of(s) == {row \in rows : key[row] \in s}
  <1>1. PICK g : /\ SumFunction(f) = g[S] /\ g[{}] = 0
                 /\ \A s \in SUBSET S : s # {} => \E x \in s : g[s] = f[x] + g[s \ {x}]
    BY SumByParts
  <1> DEFINE G == {s \in SUBSET S : /\ g[s] \in Nat
                                    /\ Cardinality(Of(s)) = first * Cardinality(s) + g[s]}
  <1>2. ASSUME NEW T \in SUBSET S, \A x \in T : T \ {x} \in G
        PROVE  T \in G
    <2>1. CASE T = {}
      <3>1. Cardinality(T) = 0 /\ Of(T) = {}
        BY <2>1, FS_EmptySet
      <3>2. g[T] = 0 /\ Cardinality(Of(T)) = 0
        BY <1>1, <2>1, <3>1, FS_EmptySet
      <3>3. first * Cardinality(T) = 0
        BY <3>1
      <3>4. g[T] \in Nat /\ Cardinality(Of(T)) = first * Cardinality(T) + g[T]
        BY <3>2, <3>3
      <3>5. QED
        BY <3>4
    <2>2. CASE T # {}
      <3>1. PICK x \in T : g[T] = f[x] + g[T \ {x}]
        BY <1>1, <2>2
      <3> DEFINE U == T \ {x}
      <3>2. g[U] \in Nat /\ Cardinality(Of(U)) = first * Cardinality(U) + g[U]
        BY <1>2
      <3>3. Of(T) = Of(U) \cup {row \in rows : key[row] = x}
        OBVIOUS
      <3>4. Of(U) \cap {row \in rows : key[row] = x} = {}
        OBVIOUS
      <3>5. IsFiniteSet(Of(U)) /\ IsFiniteSet({row \in rows : key[row] = x}) /\ IsFiniteSet(T)
        BY FS_Subset
      <3>6. Cardinality(U) = Cardinality(T) - 1 /\ Cardinality(T) \in Nat
        BY <3>5, FS_RemoveElement, FS_CardinalityType
      <3>7. Cardinality({row \in rows : key[row] = x}) = first + f[x] /\ f[x] \in Nat
        BY DEF Tells
      <3> DEFINE here == {row \in rows : key[row] = x}
      <3> HIDE DEF U, Of, here, G
      <3>8. Cardinality(Of(T)) = Cardinality(Of(U)) + Cardinality(here)
        BY <3>3, <3>4, <3>5, DisjointUnion DEF here
      <3>9. g[T] \in Nat /\ Cardinality(Of(T)) = first * Cardinality(T) + g[T]
        <4>1. g[T] = f[x] + g[U] /\ Cardinality(here) = first + f[x] /\ f[x] \in Nat
          BY <3>1, <3>7 DEF U, here
        <4>2. CASE first = 0
          BY <3>2, <3>6, <3>8, <4>1, <4>2
        <4>3. CASE first = 1
          BY <3>2, <3>6, <3>8, <4>1, <4>3
        <4>4. QED
          BY <4>2, <4>3
      <3>10. QED
        BY <3>9 DEF G
    <2>3. QED
      BY <2>1, <2>2
  <1>3. G = SUBSET S
    <2>1. IsFiniteSet(S)
      OBVIOUS
    <2> HIDE DEF G
    <2>2. G \in SUBSET (SUBSET S)
      BY DEF G
    <2> HIDE DEF S
    <2>3. \A T \in SUBSET S : (\A x \in T : T \ {x} \in G) => T \in G
      BY <1>2
    <2>4. QED
      BY <2>1, <2>2, <2>3, SubsetInduction
  <1>4. S \in G
    BY <1>3
  <1>5. Of(S) = rows
    OBVIOUS
  <1>6. QED
    BY <1>1, <1>4, <1>5

LEMMA GroupsAddUp ==
  ASSUME NEW rows, IsFiniteSet(rows), NEW f, IsFiniteSet(DOMAIN f),
         NEW key \in [rows -> DOMAIN f],
         \A x \in DOMAIN f : f[x] = Cardinality({row \in rows : key[row] = x})
  PROVE  Cardinality(rows) = SumFunction(f)
  <1>1. PICK first \in {0, 1} : first = 0
    OBVIOUS
  <1>2. ASSUME NEW x \in DOMAIN f
        PROVE  f[x] \in Nat /\ Cardinality({row \in rows : key[row] = x}) = first + f[x]
    <2> DEFINE group == {row \in rows : key[row] = x}
    <2>1. Cardinality(group) \in Nat /\ f[x] = Cardinality(group)
      BY FS_Subset, FS_CardinalityType
    <2> HIDE DEF group
    <2>2. f[x] \in Nat /\ Cardinality(group) = first + f[x]
      BY <1>1, <2>1
    <2>3. QED
      BY <2>2 DEF group
  <1>3. Tells(f, rows, key, first)
    BY <1>2 DEF Tells
  <1>4. Cardinality(rows) = first * Cardinality(DOMAIN f) + SumFunction(f) /\ SumFunction(f) \in Nat
    BY <1>3, GroupsOrRests
  <1>5. Cardinality(DOMAIN f) \in Nat
    BY FS_CardinalityType
  <1>6. QED
    BY <1>1, <1>4, <1>5

LEMMA RestsAddUp ==
  ASSUME NEW rows, IsFiniteSet(rows), NEW f, IsFiniteSet(DOMAIN f),
         NEW key \in [rows -> DOMAIN f], Tells(f, rows, key, 1)
  PROVE  Cardinality(rows) = Cardinality(DOMAIN f) + SumFunction(f)
  <1>1. PICK first \in {0, 1} : first = 1
    OBVIOUS
  <1>2. Tells(f, rows, key, first)
    BY <1>1
  <1>3. Cardinality(rows) = first * Cardinality(DOMAIN f) + SumFunction(f)
    BY <1>2, GroupsOrRests
  <1>4. Cardinality(DOMAIN f) \in Nat
    BY FS_CardinalityType
  <1>5. QED
    BY <1>1, <1>3, <1>4
=============================================================================

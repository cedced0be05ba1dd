----------------------------- MODULE DataLemmas -----------------------------
(***************************************************************************)
(* Induction over finite data, stated for sets, and what follows from it   *)
(* for the operators of the models: sums, lines of waiting callers.        *)
(***************************************************************************)
EXTENDS Selection, SequencesExt, FiniteSetTheorems, SequenceTheorems, TLAPS

(* Induction on the natural numbers, of a set.                             *)
LEMMA SetOfNaturals ==
  ASSUME NEW P \in SUBSET Nat, 0 \in P, \A n \in P : n + 1 \in P
  PROVE  P = Nat
<1>. SUFFICES ASSUME Nat \ P # {} PROVE FALSE
  OBVIOUS
<1>1. IsWellFoundedOn(OpToRel(<, Nat), Nat)
  BY NatLessThanWellFounded
<1>2. PICK n \in Nat \ P : \A m \in Nat \ P : <<m, n>> \notin OpToRel(<, Nat)
  <2>. DEFINE B == Nat \ P
  <2>1. B \subseteq Nat /\ B # {}
    OBVIOUS
  <2>. HIDE DEF B
  <2>2. \E n \in B : \A m \in B : <<m, n>> \notin OpToRel(<, Nat)
    BY <1>1, <2>1, WFMin
  <2>. QED BY <2>2 DEF B
<1>3. n # 0 /\ n \in Nat /\ n - 1 \in Nat /\ (n - 1) + 1 = n /\ n - 1 < n
  <2>1. n # 0 /\ n \in Nat
    BY <1>2
  <2>. QED BY <2>1
<1>4. <<n - 1, n>> \in OpToRel(<, Nat)
  BY <1>2, <1>3 DEF OpToRel
<1>. QED BY <1>2, <1>3, <1>4

(* A set of naturals that has an element has a least one.                  *)
LEMMA LeastNatural ==
  ASSUME NEW P \in SUBSET Nat, NEW n \in P
  PROVE  \E m \in P : \A k \in P : m <= k
<1>1. IsWellFoundedOn(OpToRel(<, Nat), Nat)
  BY NatLessThanWellFounded
<1>2. PICK m \in P : \A k \in P : <<k, m>> \notin OpToRel(<, Nat)
  <2>1. P \subseteq Nat /\ P # {}
    OBVIOUS
  <2>. QED BY <1>1, <2>1, WFMin
<1>3. ASSUME NEW k \in P PROVE m <= k
  <2>1. k \in Nat /\ m \in Nat
    OBVIOUS
  <2>2. ~(k < m)
    BY <1>2, <2>1 DEF OpToRel
  <2>. QED BY <2>1, <2>2
<1>. QED BY <1>3

LEMMA StrictIsWellFounded ==
  ASSUME NEW S, IsFiniteSet(S)
  PROVE  IsWellFoundedOn(StrictSubsetOrdering(S), SUBSET S)
BY FS_FiniteSubsetsOfFinite, FS_StrictSubsetOrderingWellFounded

(* Induction on the subsets of a finite set: from the smaller ones.        *)
LEMMA FromSmaller ==
  ASSUME NEW S, IsFiniteSet(S), NEW F,
         \A T \in SUBSET S : (\A U \in SUBSET T : U # T => U \in F) => T \in F
  PROVE  SUBSET S \subseteq F
<1>. DEFINE B == (SUBSET S) \ F
<1>. SUFFICES ASSUME B # {} PROVE FALSE
  OBVIOUS
<1>2. IsWellFoundedOn(StrictSubsetOrdering(S), SUBSET S)
  BY StrictIsWellFounded
<1>3. B \subseteq SUBSET S
  OBVIOUS
<1>. HIDE DEF B
<1>4. PICK T \in B : \A U \in B : ~(<<U, T>> \in StrictSubsetOrdering(S))
  BY <1>2, <1>3, WFMin
<1>5. T \in SUBSET S /\ T \notin F
  BY <1>4 DEF B
<1>6. ASSUME NEW U \in SUBSET T, U # T PROVE U \in F
  <2>1. <<U, T>> \in StrictSubsetOrdering(S)
    BY <1>5, <1>6 DEF StrictSubsetOrdering
  <2>. QED BY <1>4, <1>5, <2>1 DEF B
<1>. QED BY <1>5, <1>6

(* One element after the other.                                            *)
LEMMA ByElement ==
  ASSUME NEW S, IsFiniteSet(S), NEW F, {} \in F,
         \A T \in F : \A x \in S \ T : T \subseteq S => T \cup {x} \in F
  PROVE  S \in F
<1>1. ASSUME NEW T \in SUBSET S, \A U \in SUBSET T : U # T => U \in F
      PROVE  T \in F
  <2>1. CASE T # {}
    <3>1. PICK x \in T : TRUE
      BY <2>1
    <3>2. T \ {x} \in F
      BY <1>1
    <3>3. (T \ {x}) \cup {x} \in F
      BY <3>1, <3>2
    <3>4. (T \ {x}) \cup {x} = T
      BY <3>1
    <3>. QED BY <3>3, <3>4
  <2>. QED BY <2>1
<1>2. SUBSET S \subseteq F
  BY <1>1, FromSmaller
<1>. QED BY <1>2
-----------------------------------------------------------------------------
(***************************************************************************)
(* Sums of a function over a finite set.                                   *)
(***************************************************************************)
Chosen(s) == CHOOSE x \in s : TRUE
Partial(it, w, s) == IF s = {} THEN 0 ELSE w[Chosen(s)] + it[s \ {Chosen(s)}]

Recurs(it, w, K) == it = [s \in SUBSET K |-> Partial(it, w, s)]

LEMMA ChosenIsIn == ASSUME NEW s, s # {} PROVE Chosen(s) \in s
BY DEF Chosen

LEMMA SumsExist ==
  ASSUME NEW w, NEW K, IsFiniteSet(K)
  PROVE  \E it : it = [s \in SUBSET K |-> Partial(it, w, s)]
<1>. DEFINE Small(n) == {s \in SUBSET K : Cardinality(s) <= n}
            P == {n \in Nat : \E it : it = [s \in Small(n) |-> Partial(it, w, s)]}
<1>0. \A s \in SUBSET K : IsFiniteSet(s) /\ Cardinality(s) \in Nat
  BY FS_Subset, FS_CardinalityType
<1>1. 0 \in P
  <2>. DEFINE it == [s \in Small(0) |-> 0]
  <2>1. \A s \in Small(0) : s = {}
    BY <1>0, FS_EmptySet
  <2>2. it = [s \in Small(0) |-> Partial(it, w, s)]
    BY <2>1 DEF Partial
  <2>. QED BY <2>2
<1>2. ASSUME NEW n \in P PROVE n + 1 \in P
  <2>1. PICK it : it = [s \in Small(n) |-> Partial(it, w, s)]
    BY <1>2
  <2>. DEFINE new == [s \in Small(n + 1) |-> Partial(it, w, s)]
  <2>2. n \in Nat
    BY <1>2
  <2>3. ASSUME NEW s \in Small(n + 1), s # {} PROVE s \ {Chosen(s)} \in Small(n) \cap Small(n + 1)
    <3>1. Chosen(s) \in s
      BY <2>3, ChosenIsIn
    <3>2. Cardinality(s \ {Chosen(s)}) = Cardinality(s) - 1
      BY <1>0, <3>1, FS_RemoveElement
    <3>. QED BY <1>0, <2>2, <3>1, <3>2
  <2>4. ASSUME NEW s \in Small(n) PROVE s \in Small(n + 1) /\ new[s] = it[s]
    <3>1. s \in Small(n + 1)
      BY <1>0, <2>2
    <3>2. it[s] = Partial(it, w, s)
      BY <2>1
    <3>. QED BY <3>1, <3>2
  <2>5. ASSUME NEW s \in Small(n + 1) PROVE new[s] = Partial(new, w, s)
    <3>1. CASE s = {}
      BY <3>1 DEF Partial
    <3>2. CASE s # {}
      <4>1. new[s \ {Chosen(s)}] = it[s \ {Chosen(s)}]
        BY <2>3, <2>4, <3>2
      <4>. QED BY <3>2, <4>1 DEF Partial
    <3>. QED BY <3>1, <3>2
  <2>6. new = [s \in Small(n + 1) |-> Partial(new, w, s)]
    BY <2>5
  <2>7. \E jt : jt = [s \in Small(n + 1) |-> Partial(jt, w, s)]
    <3>. HIDE DEF new, Small
    <3>. QED BY <2>6
  <2>8. n + 1 \in Nat
    BY <2>2
  <2>. HIDE DEF Small, new
  <2>. QED BY <2>7, <2>8
<1>3. P = Nat
  <2>. HIDE DEF P
  <2>1. P \in SUBSET Nat
    BY DEF P
  <2>. QED BY <1>1, <1>2, <2>1, SetOfNaturals
<1>4. Small(Cardinality(K)) = SUBSET K
  BY <1>0, FS_Subset
<1>5. Cardinality(K) \in P
  BY <1>3, FS_CardinalityType
<1>. QED BY <1>4, <1>5

LEMMA SumIsPartial ==
  ASSUME NEW w, NEW K, IsFiniteSet(K)
  PROVE  \E it : Recurs(it, w, K) /\ SumFunctionOnSet(w, K) = it[K]
<1>. DEFINE it == CHOOSE f : f = [s \in SUBSET K |-> Partial(f, w, s)]
<1>0. \E f : f = [s \in SUBSET K |-> Partial(f, w, s)]
  BY SumsExist
<1>1. it = [s \in SUBSET K |-> Partial(it, w, s)]
  BY <1>0, Zenon
<1>2. SumFunctionOnSet(w, K) = it[K]
  BY Zenon DEF SumFunctionOnSet, FoldFunctionOnSet, MapThenFoldSet, Partial, Chosen
<1>3. Recurs(it, w, K)
  BY <1>1 DEF Recurs
<1>. QED BY <1>2, <1>3

(* A sum depends on the summands alone.                                    *)
LEMMA PartialsAgree ==
  ASSUME NEW w, NEW v, NEW K, IsFiniteSet(K), NEW L \in SUBSET K,
         \A x \in L : w[x] = v[x],
         NEW it, Recurs(it, w, K),
         NEW jt, Recurs(jt, v, L)
  PROVE  \A s \in SUBSET L : it[s] = jt[s]
<1>. DEFINE F == {s \in SUBSET L : it[s] = jt[s]}
<1>0. IsFiniteSet(L)
  BY FS_Subset
<1>1. ASSUME NEW s \in SUBSET L, \A u \in SUBSET s : u # s => u \in F
      PROVE  s \in F
  <2>1. it[s] = Partial(it, w, s) /\ jt[s] = Partial(jt, v, s)
    <3>1. s \in SUBSET K
      OBVIOUS
    <3>. QED BY <3>1, Zenon DEF Recurs
  <2>2. CASE s = {}
    BY <2>1, <2>2 DEF Partial
  <2>3. CASE s # {}
    <3>1. Chosen(s) \in s
      BY <2>3, ChosenIsIn
    <3>2. s \ {Chosen(s)} \in F
      BY <1>1, <3>1
    <3>3. it[s \ {Chosen(s)}] = jt[s \ {Chosen(s)}] /\ w[Chosen(s)] = v[Chosen(s)]
      BY <3>1, <3>2
    <3>. QED BY <2>1, <2>3, <3>3 DEF Partial
  <2>. QED BY <2>2, <2>3
<1>2. SUBSET L \subseteq F
  <2>. HIDE DEF F
  <2>. QED BY <1>0, <1>1, FromSmaller
<1>. QED BY <1>2

(* Two ways of weighing that agree on a finite set give it one sum, though *)
(* the library defines a sum by elements it chooses one after another. The *)
(* size of the cache is such a sum (storage.rs, the triggers of            *)
(* Database::open).                                                        *)
THEOREM SumsAgree ==
  ASSUME NEW w, NEW v, NEW K, IsFiniteSet(K), \A x \in K : w[x] = v[x]
  PROVE  SumFunctionOnSet(w, K) = SumFunctionOnSet(v, K)
<1>1. PICK it : Recurs(it, w, K) /\ SumFunctionOnSet(w, K) = it[K]
  BY SumIsPartial
<1>2. PICK jt : Recurs(jt, v, K) /\ SumFunctionOnSet(v, K) = jt[K]
  BY SumIsPartial
<1>3. \A s \in SUBSET K : it[s] = jt[s]
  <2>1. Recurs(it, w, K) /\ Recurs(jt, v, K) /\ K \in SUBSET K
    BY <1>1, <1>2
  <2>2. \A x \in K : w[x] = v[x]
    OBVIOUS
  <2>. QED BY <2>1, <2>2, PartialsAgree, SMTT(60)
<1>. QED BY <1>1, <1>2, <1>3

(* The recursion of a sum.                                                 *)
LEMMA SumStep ==
  ASSUME NEW w, NEW K, IsFiniteSet(K)
  PROVE  SumFunctionOnSet(w, K) =
           IF K = {} THEN 0 ELSE w[Chosen(K)] + SumFunctionOnSet(w, K \ {Chosen(K)})
<1>. DEFINE L == K \ {Chosen(K)}
<1>0. IsFiniteSet(L) /\ L \in SUBSET K
  BY FS_Subset
<1>1. PICK it : Recurs(it, w, K) /\ SumFunctionOnSet(w, K) = it[K]
  BY SumIsPartial
<1>2. PICK jt : Recurs(jt, w, L) /\ SumFunctionOnSet(w, L) = jt[L]
  BY <1>0, SumIsPartial
<1>3. \A s \in SUBSET L : it[s] = jt[s]
  <2>. HIDE DEF L
  <2>. QED BY <1>0, <1>1, <1>2, PartialsAgree
<1>4. it[L] = SumFunctionOnSet(w, L)
  BY <1>2, <1>3
<1>5. it[K] = Partial(it, w, K)
  <2>1. K \in SUBSET K
    OBVIOUS
  <2>. QED BY <1>1, <2>1, Zenon DEF Recurs
<1>. QED BY <1>1, <1>4, <1>5 DEF Partial

(* Nothing has no size: an empty table of the cache.                       *)
THEOREM SumOfNone == ASSUME NEW w PROVE SumFunctionOnSet(w, {}) = 0
<1>1. IsFiniteSet({})
  BY FS_EmptySet
<1>2. \A K : K = {} => (IF K = {} THEN 0 ELSE w[Chosen(K)] + SumFunctionOnSet(w, K \ {Chosen(K)})) = 0
  OBVIOUS
<1>. QED BY <1>1, <1>2, SumStep

LEMMA SumIsNatural ==
  ASSUME NEW w, NEW K, IsFiniteSet(K), \A x \in K : w[x] \in Nat
  PROVE  SumFunctionOnSet(w, K) \in Nat
<1>. DEFINE F == {s \in SUBSET K : SumFunctionOnSet(w, s) \in Nat}
<1>1. ASSUME NEW s \in SUBSET K, \A u \in SUBSET s : u # s => u \in F
      PROVE  s \in F
  <2>0. IsFiniteSet(s)
    BY FS_Subset
  <2>1. CASE s = {}
    BY <2>1, SumOfNone
  <2>2. CASE s # {}
    <3>1. Chosen(s) \in s
      BY <2>2, ChosenIsIn
    <3>2. s \ {Chosen(s)} \in F
      BY <1>1, <3>1
    <3>3. SumFunctionOnSet(w, s \ {Chosen(s)}) \in Nat /\ w[Chosen(s)] \in Nat
      BY <3>1, <3>2
    <3>4. SumFunctionOnSet(w, s) = w[Chosen(s)] + SumFunctionOnSet(w, s \ {Chosen(s)})
      BY <2>0, <2>2, SumStep
    <3>. QED BY <3>3, <3>4
  <2>. QED BY <2>1, <2>2
<1>2. SUBSET K \subseteq F
  <2>. HIDE DEF F
  <2>. QED BY <1>1, FromSmaller
<1>. QED BY <1>2

(* Any element may be added last.                                          *)
LEMMA SumWithout ==
  ASSUME NEW w, NEW K, IsFiniteSet(K), \A x \in K : w[x] \in Nat
  PROVE  \A x \in K : SumFunctionOnSet(w, K) = w[x] + SumFunctionOnSet(w, K \ {x})
<1>. DEFINE F == {s \in SUBSET K :
                    \A x \in s : SumFunctionOnSet(w, s) = w[x] + SumFunctionOnSet(w, s \ {x})}
<1>1. ASSUME NEW s \in SUBSET K, \A u \in SUBSET s : u # s => u \in F
      PROVE  s \in F
  <2>. SUFFICES ASSUME NEW x \in s
                PROVE  SumFunctionOnSet(w, s) = w[x] + SumFunctionOnSet(w, s \ {x})
    OBVIOUS
  <2>. DEFINE y == Chosen(s)
  <2>1. y \in s
    BY ChosenIsIn
  <2>2. IsFiniteSet(s) /\ IsFiniteSet(s \ {x}) /\ IsFiniteSet(s \ {y})
    BY FS_Subset
  <2>3. SumFunctionOnSet(w, s) = w[y] + SumFunctionOnSet(w, s \ {y})
    BY <2>2, SumStep
  <2>. HIDE DEF y
  <2>4. CASE x # y
    <3>1. s \ {x} \in F /\ s \ {y} \in F /\ y \in s \ {x} /\ x \in s \ {y}
      BY <1>1, <2>1, <2>4
    <3>2. SumFunctionOnSet(w, s \ {y}) = w[x] + SumFunctionOnSet(w, (s \ {y}) \ {x})
      BY <3>1
    <3>3. SumFunctionOnSet(w, s \ {x}) = w[y] + SumFunctionOnSet(w, (s \ {x}) \ {y})
      BY <3>1
    <3>4. (s \ {x}) \ {y} = (s \ {y}) \ {x}
      OBVIOUS
    <3>5. SumFunctionOnSet(w, (s \ {x}) \ {y}) = SumFunctionOnSet(w, (s \ {y}) \ {x})
      BY <3>4
    <3>6. w[x] \in Nat /\ w[y] \in Nat /\ SumFunctionOnSet(w, (s \ {y}) \ {x}) \in Nat
      <4>1. IsFiniteSet((s \ {y}) \ {x})
        BY <2>2, FS_Subset
      <4>. QED BY <2>1, <4>1, SumIsNatural
    <3>. QED BY <2>3, <3>2, <3>3, <3>5, <3>6
  <2>. QED BY <2>3, <2>4
<1>2. SUBSET K \subseteq F
  <2>. HIDE DEF F
  <2>. QED BY <1>1, FromSmaller
<1>. QED BY <1>2

(* The sums of two sets that are apart add up: rows that stay and rows     *)
(* that are evicted (storage.rs, Cache::put).                              *)
THEOREM SumOfBoth ==
  ASSUME NEW w, NEW A, IsFiniteSet(A), NEW B, IsFiniteSet(B), A \cap B = {},
         \A x \in A \cup B : w[x] \in Nat
  PROVE  SumFunctionOnSet(w, A \cup B) = SumFunctionOnSet(w, A) + SumFunctionOnSet(w, B)
<1>. DEFINE F == {s \in SUBSET B : SumFunctionOnSet(w, A \cup s) = SumFunctionOnSet(w, A) + SumFunctionOnSet(w, s)}
<1>0. \A s \in SUBSET B : IsFiniteSet(s) /\ IsFiniteSet(A \cup s)
  BY FS_Subset, FS_Union
<1>t. \A s \in SUBSET B : SumFunctionOnSet(w, s) \in Nat /\ SumFunctionOnSet(w, A \cup s) \in Nat
  BY <1>0, SumIsNatural
<1>a. SumFunctionOnSet(w, A) \in Nat
  BY SumIsNatural
<1>1. {} \in F
  <2>1. A \cup {} = A
    OBVIOUS
  <2>. QED BY <1>a, <2>1, SumOfNone
<1>2. ASSUME NEW s \in F, NEW x \in B \ s, s \subseteq B
      PROVE  s \cup {x} \in F
  <2>1. SumFunctionOnSet(w, A \cup (s \cup {x})) = w[x] + SumFunctionOnSet(w, (A \cup (s \cup {x})) \ {x})
    <3>1. IsFiniteSet(A \cup (s \cup {x})) /\ x \in A \cup (s \cup {x})
      BY <1>0, <1>2
    <3>2. \A y \in A \cup (s \cup {x}) : w[y] \in Nat
      BY <1>2
    <3>. QED BY <3>1, <3>2, SumWithout
  <2>2. SumFunctionOnSet(w, s \cup {x}) = w[x] + SumFunctionOnSet(w, (s \cup {x}) \ {x})
    <3>1. IsFiniteSet(s \cup {x}) /\ x \in s \cup {x}
      BY <1>0, <1>2
    <3>2. \A y \in s \cup {x} : w[y] \in Nat
      BY <1>2
    <3>. QED BY <3>1, <3>2, SumWithout
  <2>3. (A \cup (s \cup {x})) \ {x} = A \cup s /\ (s \cup {x}) \ {x} = s
    BY <1>2
  <2>8. /\ SumFunctionOnSet(w, (A \cup (s \cup {x})) \ {x}) = SumFunctionOnSet(w, A \cup s)
        /\ SumFunctionOnSet(w, (s \cup {x}) \ {x}) = SumFunctionOnSet(w, s)
    BY <2>3, Zenon
  <2>4. w[x] \in Nat /\ SumFunctionOnSet(w, s) \in Nat /\ s \cup {x} \in SUBSET B
    BY <1>2, <1>t
  <2>5. SumFunctionOnSet(w, A \cup s) = SumFunctionOnSet(w, A) + SumFunctionOnSet(w, s)
    BY <1>2
  <2>6. SumFunctionOnSet(w, A \cup (s \cup {x})) = SumFunctionOnSet(w, A) + SumFunctionOnSet(w, s \cup {x})
    BY <1>a, <2>1, <2>2, <2>8, <2>4, <2>5
  <2>. QED BY <2>4, <2>6
<1>3. B \in F
  <2>. HIDE DEF F
  <2>. QED BY <1>1, <1>2, ByElement
<1>. QED BY <1>3
-----------------------------------------------------------------------------
(***************************************************************************)
(* Lines: sequences in which nobody stands twice.                          *)
(***************************************************************************)
IsLine(s, S) == s \in Seq(S) /\ \A i, j \in 1 .. Len(s) : s[i] = s[j] => i = j

LEMMA RemovedAt ==
  ASSUME NEW S, NEW s \in Seq(S), NEW i \in 1 .. Len(s)
  PROVE  /\ RemoveAt(s, i) \in Seq(S)
         /\ Len(RemoveAt(s, i)) = Len(s) - 1
         /\ \A j \in 1 .. Len(s) - 1 : RemoveAt(s, i)[j] = IF j < i THEN s[j] ELSE s[j + 1]
<1>. DEFINE a == SubSeq(s, 1, i - 1)
            b == SubSeq(s, i + 1, Len(s))
<1>0. Len(s) \in Nat /\ i \in Nat /\ i >= 1 /\ i <= Len(s)
  BY LenProperties
<1>1. /\ a \in Seq(S) /\ Len(a) = i - 1 /\ \A j \in 1 .. i - 1 : a[j] = s[j]
  <2>1. \A j \in 1 .. i - 1 : s[j] \in S
    BY <1>0, ElementOfSeq
  <2>2. 1 \in Int /\ i - 1 \in Int
    BY <1>0
  <2>. HIDE DEF a
  <2>3. a = SubSeq(s, 1, i - 1)
    BY DEF a
  <2>. QED BY <1>0, <2>1, <2>2, <2>3, SubSeqProperties
<1>2. /\ b \in Seq(S) /\ Len(b) = Len(s) - i /\ \A j \in 1 .. Len(s) - i : b[j] = s[j + i]
  <2>1. \A j \in i + 1 .. Len(s) : s[j] \in S
    BY <1>0, ElementOfSeq
  <2>2. i + 1 \in Int /\ Len(s) \in Int
    BY <1>0
  <2>. HIDE DEF b
  <2>3. b = SubSeq(s, i + 1, Len(s))
    BY DEF b
  <2>. QED BY <1>0, <2>1, <2>2, <2>3, SubSeqProperties
<1>. HIDE DEF a, b
<1>3. RemoveAt(s, i) = a \o b
  BY DEF RemoveAt, a, b
<1>4. /\ a \o b \in Seq(S) /\ Len(a \o b) = Len(s) - 1
      /\ \A j \in 1 .. Len(s) - 1 : (a \o b)[j] = IF j <= i - 1 THEN a[j] ELSE b[j - (i - 1)]
  <2>1. /\ a \o b \in Seq(S) /\ Len(a \o b) = Len(a) + Len(b)
        /\ \A j \in 1 .. Len(a) + Len(b) : (a \o b)[j] = IF j <= Len(a) THEN a[j] ELSE b[j - Len(a)]
    BY <1>1, <1>2, ConcatProperties
  <2>2. Len(a) + Len(b) = Len(s) - 1 /\ Len(a) = i - 1
    BY <1>0, <1>1, <1>2
  <2>. QED BY <2>1, <2>2
<1>5. ASSUME NEW j \in 1 .. Len(s) - 1 PROVE (a \o b)[j] = IF j < i THEN s[j] ELSE s[j + 1]
  <2>1. CASE j < i
    BY <1>0, <1>1, <1>4, <2>1
  <2>2. CASE j >= i
    <3>1. j - (i - 1) \in 1 .. Len(s) - i /\ (j - (i - 1)) + i = j + 1
      BY <1>0, <2>2
    <3>2. (a \o b)[j] = b[j - (i - 1)]
      <4>1. ~(j <= i - 1)
        BY <1>0, <2>2
      <4>. QED BY <1>4, <4>1
    <3>3. b[j - (i - 1)] = s[(j - (i - 1)) + i]
      BY <1>2, <3>1
    <3>4. b[j - (i - 1)] = s[j + 1]
      BY <3>1, <3>3
    <3>. QED BY <1>0, <2>2, <3>2, <3>4
  <2>3. j < i \/ j >= i
    <3>1. j \in Int /\ i \in Int
      BY <1>0
    <3>. QED BY <3>1
  <2>. QED BY <2>1, <2>2, <2>3
<1>. QED BY <1>3, <1>4, <1>5

LEMMA LineLeft ==
  ASSUME NEW S, NEW s, IsLine(s, S), NEW e
  PROVE  /\ IsLine(RemoveFirst(s, e), S)
         /\ ToSet(RemoveFirst(s, e)) = ToSet(s) \ {e}
         /\ s # << >> /\ Head(s) # e => RemoveFirst(s, e) # << >> /\ Head(RemoveFirst(s, e)) = Head(s)
<1>0. s \in Seq(S) /\ Len(s) \in Nat /\ \A i, j \in 1 .. Len(s) : s[i] = s[j] => i = j
  BY LenProperties DEF IsLine
<1>1. CASE \E i \in 1 .. Len(s) : s[i] = e
  <2>1. PICK i \in 1 .. Len(s) : s[i] = e
    BY <1>1
  <2>. DEFINE I == {j \in 1 .. Len(s) : s[j] = e}
  <2>2. I = {i}
    BY <1>0, <2>1
  <2>3. Min({i}) = i
    BY <1>0, <2>1 DEF Min
  <2>4. RemoveFirst(s, e) = RemoveAt(s, i)
    BY <1>1, <2>2, <2>3 DEF RemoveFirst, SelectInSeq
  <2>. DEFINE r == RemoveAt(s, i)
  <2>5. r \in Seq(S) /\ Len(r) = Len(s) - 1 /\ \A j \in 1 .. Len(s) - 1 : r[j] = IF j < i THEN s[j] ELSE s[j + 1]
    BY <1>0, <2>1, RemovedAt
  <2>. HIDE DEF r, I
  <2>6. IsLine(r, S)
    <3>. SUFFICES ASSUME NEW j \in 1 .. Len(r), NEW k \in 1 .. Len(r), r[j] = r[k] PROVE j = k
      BY <2>5 DEF IsLine
    <3>. QED BY <1>0, <2>1, <2>5
  <2>7. ASSUME NEW d PROVE (\E j \in 1 .. Len(r) : r[j] = d) <=> d # e /\ \E j \in 1 .. Len(s) : s[j] = d
    <3>1. ASSUME NEW j \in 1 .. Len(r), r[j] = d PROVE d # e /\ \E k \in 1 .. Len(s) : s[k] = d
      BY <1>0, <2>1, <2>5, <3>1
    <3>2. ASSUME d # e, NEW j \in 1 .. Len(s), s[j] = d PROVE \E k \in 1 .. Len(r) : r[k] = d
      <4>1. CASE j < i
        BY <1>0, <2>1, <2>5, <3>2, <4>1
      <4>2. CASE j > i
        <5>1. j - 1 \in 1 .. Len(r) /\ r[j - 1] = d
          BY <1>0, <2>1, <2>5, <3>2, <4>2
        <5>. QED BY <5>1
      <4>. QED BY <1>0, <2>1, <3>2, <4>1, <4>2
    <3>. QED BY <3>1, <3>2
  <2>8. ASSUME s # << >>, Head(s) # e PROVE r # << >> /\ Head(r) = Head(s)
    <3>1. Head(s) = s[1] /\ i # 1
      BY <1>0, <2>1, <2>8
    <3>2. Len(r) >= 1 /\ r[1] = s[1]
      BY <1>0, <2>1, <2>5, <3>1
    <3>. QED BY <2>5, <3>1, <3>2
  <2>9. ToSet(r) = ToSet(s) \ {e}
    <3>1. DOMAIN r = 1 .. Len(r) /\ DOMAIN s = 1 .. Len(s)
      BY <1>0, <2>5, LenProperties
    <3>. QED BY <2>7, <3>1 DEF ToSet
  <2>. QED BY <2>4, <2>6, <2>8, <2>9 DEF r
<1>2. CASE ~\E i \in 1 .. Len(s) : s[i] = e
  <2>1. RemoveFirst(s, e) = s
    BY <1>2 DEF RemoveFirst
  <2>2. e \notin ToSet(s)
    <3>1. DOMAIN s = 1 .. Len(s)
      BY <1>0, LenProperties
    <3>. QED BY <1>2, <3>1 DEF ToSet
  <2>3. ToSet(s) = ToSet(s) \ {e}
    BY <2>2
  <2>. QED BY <2>1, <2>3
<1>. QED BY <1>1, <1>2

(* Somebody joins at the end.                                              *)
LEMMA LineJoined ==
  ASSUME NEW S, NEW s, IsLine(s, S), NEW e \in S, e \notin ToSet(s)
  PROVE  /\ IsLine(Append(s, e), S)
         /\ ToSet(Append(s, e)) = ToSet(s) \cup {e}
         /\ s # << >> => Head(Append(s, e)) = Head(s)
<1>0. s \in Seq(S) /\ Len(s) \in Nat /\ DOMAIN s = 1 .. Len(s)
  BY LenProperties DEF IsLine
<1>. DEFINE r == Append(s, e)
<1>1. r \in Seq(S) /\ Len(r) = Len(s) + 1 /\ (\A i \in 1 .. Len(s) : r[i] = s[i]) /\ r[Len(s) + 1] = e
  BY <1>0, AppendProperties
<1>2. DOMAIN r = 1 .. Len(r)
  BY <1>1, LenProperties
<1>. HIDE DEF r
<1>3. \A i \in 1 .. Len(s) : s[i] # e
  BY <1>0 DEF ToSet
<1>4. IsLine(r, S)
  <2>. SUFFICES ASSUME NEW j \in 1 .. Len(r), NEW k \in 1 .. Len(r), r[j] = r[k] PROVE j = k
    BY <1>1 DEF IsLine
  <2>1. \A i, l \in 1 .. Len(s) : s[i] = s[l] => i = l
    BY DEF IsLine
  <2>2. (j \in 1 .. Len(s) \/ j = Len(s) + 1) /\ (k \in 1 .. Len(s) \/ k = Len(s) + 1)
    BY <1>0, <1>1
  <2>. QED BY <1>1, <1>3, <2>1, <2>2
<1>5. ToSet(r) = ToSet(s) \cup {e}
  <2>1. \A i \in 1 .. Len(r) : i \in 1 .. Len(s) \/ i = Len(s) + 1
    BY <1>0, <1>1
  <2>2. \A i \in 1 .. Len(s) : i \in 1 .. Len(r)
    BY <1>0, <1>1
  <2>3. Len(s) + 1 \in 1 .. Len(r)
    BY <1>0, <1>1
  <2>. QED BY <1>0, <1>1, <1>2, <2>1, <2>2, <2>3 DEF ToSet
<1>6. s # << >> => Head(r) = Head(s)
  BY <1>0, HeadTailAppend DEF r
<1>. QED BY <1>4, <1>5, <1>6 DEF r

(* The first is served.                                                    *)
LEMMA LineServed ==
  ASSUME NEW S, NEW s, IsLine(s, S), s # << >>
  PROVE  /\ IsLine(Tail(s), S)
         /\ ToSet(Tail(s)) = ToSet(s) \ {Head(s)}
         /\ Head(s) \in ToSet(s) /\ Head(s) \in S
<1>0. s \in Seq(S) /\ Len(s) \in Nat /\ Len(s) >= 1 /\ DOMAIN s = 1 .. Len(s)
  BY LenProperties, EmptySeq DEF IsLine
<1>. DEFINE r == Tail(s)
<1>1. r \in Seq(S) /\ Len(r) = Len(s) - 1 /\ (\A i \in 1 .. Len(r) : r[i] = s[i + 1]) /\ Head(s) \in S
  BY <1>0, HeadTailProperties
<1>2. DOMAIN r = 1 .. Len(r)
  BY <1>1, LenProperties
<1>3. Head(s) = s[1]
  BY <1>0
<1>. HIDE DEF r
<1>4. \A i, l \in 1 .. Len(s) : s[i] = s[l] => i = l
  BY DEF IsLine
<1>5. \A i \in 1 .. Len(r) : i + 1 \in 1 .. Len(s)
  BY <1>0, <1>1
<1>6. IsLine(r, S)
  <2>. SUFFICES ASSUME NEW j \in 1 .. Len(r), NEW k \in 1 .. Len(r), r[j] = r[k] PROVE j = k
    BY <1>1 DEF IsLine
  <2>1. j + 1 = k + 1
    BY <1>1, <1>4, <1>5
  <2>. QED BY <1>0, <1>1, <2>1
<1>7. ToSet(r) = ToSet(s) \ {Head(s)}
  <2>1. ASSUME NEW i \in 1 .. Len(r) PROVE r[i] \in ToSet(s) \ {Head(s)}
    <3>1. i + 1 # 1 /\ 1 \in 1 .. Len(s)
      BY <1>0, <1>1
    <3>. QED BY <1>0, <1>1, <1>3, <1>4, <1>5, <3>1 DEF ToSet
  <2>2. ASSUME NEW i \in 1 .. Len(s), s[i] # Head(s) PROVE s[i] \in ToSet(r)
    <3>1. i # 1
      BY <1>3, <2>2
    <3>2. i - 1 \in 1 .. Len(r) /\ (i - 1) + 1 = i
      BY <1>0, <1>1, <3>1
    <3>. QED BY <1>1, <1>2, <3>2 DEF ToSet
  <2>. QED BY <1>0, <1>2, <2>1, <2>2 DEF ToSet
<1>8. Head(s) \in ToSet(s)
  BY <1>0, <1>3 DEF ToSet
<1>. QED BY <1>1, <1>6, <1>7, <1>8 DEF r
-----------------------------------------------------------------------------
(***************************************************************************)
(* Places in a strict order of a finite set, a set of pairs: an element    *)
(* comes after all that are below it.                                      *)
(***************************************************************************)
Orders(R, K) ==
  /\ \A i \in K : <<i, i>> \notin R
  /\ \A i, j \in K : i = j \/ <<i, j>> \in R \/ <<j, i>> \in R
  /\ \A i, j, k \in K : <<i, j>> \in R /\ <<j, k>> \in R => <<i, k>> \in R
Below(R, K, k) == {j \in K : <<j, k>> \in R}

LEMMA BelowIsLess ==
  ASSUME NEW K, IsFiniteSet(K), NEW R, Orders(R, K), NEW i \in K, NEW k \in K, <<i, k>> \in R
  PROVE  Cardinality(Below(R, K, i)) < Cardinality(Below(R, K, k))
<1>1. Below(R, K, k) \subseteq K /\ Below(R, K, i) \in SUBSET Below(R, K, k)
  BY DEF Orders, Below
<1>2. IsFiniteSet(Below(R, K, k)) /\ IsFiniteSet(Below(R, K, i))
  BY <1>1, FS_Subset
<1>3. i \in Below(R, K, k) /\ i \notin Below(R, K, i)
  BY DEF Orders, Below
<1>4. Below(R, K, i) # Below(R, K, k)
  BY <1>3
<1>5. /\ Cardinality(Below(R, K, i)) <= Cardinality(Below(R, K, k))
      /\ Cardinality(Below(R, K, k)) # Cardinality(Below(R, K, i))
  BY <1>1, <1>2, <1>4, FS_Subset
<1>6. Cardinality(Below(R, K, i)) \in Nat /\ Cardinality(Below(R, K, k)) \in Nat
  BY <1>2, FS_CardinalityType
<1>. QED BY <1>5, <1>6

(* As many elements are below the n-th as there are places before it.      *)
LEMMA PlacesInOrder ==
  ASSUME NEW K, IsFiniteSet(K), NEW R, Orders(R, K)
  PROVE  /\ \A n \in 1 .. Cardinality(K) : \E k \in K : Cardinality(Below(R, K, k)) = n - 1
         /\ \A i, k \in K :
              Cardinality(Below(R, K, i)) < Cardinality(Below(R, K, k)) => <<i, k>> \in R
         /\ \A k \in K : Cardinality(Below(R, K, k)) \in 0 .. Cardinality(K) - 1
         /\ \A i, k \in K : Cardinality(Below(R, K, i)) = Cardinality(Below(R, K, k)) => i = k
<1>. DEFINE N == Cardinality(K)
            T == 0 .. N - 1
            f == [k \in K |-> Cardinality(Below(R, K, k))]
<1>1. N \in Nat
  BY FS_CardinalityType
<1>2. ASSUME NEW k \in K PROVE Cardinality(Below(R, K, k)) \in T
  <2>1. Below(R, K, k) \in SUBSET K /\ k \notin Below(R, K, k)
    BY DEF Orders, Below
  <2>2. IsFiniteSet(Below(R, K, k)) /\ Cardinality(Below(R, K, k)) <= N
        /\ (N = Cardinality(Below(R, K, k)) => K = Below(R, K, k))
    BY <2>1, FS_Subset
  <2>3. Cardinality(Below(R, K, k)) \in Nat
    BY <2>2, FS_CardinalityType
  <2>. HIDE DEF N
  <2>. QED BY <1>1, <2>1, <2>2, <2>3
<1>3. ASSUME NEW i \in K, NEW k \in K, Cardinality(Below(R, K, i)) < Cardinality(Below(R, K, k))
      PROVE  <<i, k>> \in R
  <2>1. i # k
    <3>1. Cardinality(Below(R, K, i)) \in T /\ Cardinality(Below(R, K, k)) \in T
      BY <1>2
    <3>. QED BY <1>3, <3>1
  <2>2. <<k, i>> \notin R
    <3>1. SUFFICES ASSUME <<k, i>> \in R PROVE FALSE
      OBVIOUS
    <3>2. Cardinality(Below(R, K, k)) < Cardinality(Below(R, K, i))
      BY <3>1, BelowIsLess
    <3>3. Cardinality(Below(R, K, i)) \in T /\ Cardinality(Below(R, K, k)) \in T
      BY <1>2
    <3>. QED BY <1>3, <3>2, <3>3
  <2>. QED BY <2>1, <2>2 DEF Orders
<1>4. ASSUME NEW i \in K, NEW k \in K, Cardinality(Below(R, K, i)) = Cardinality(Below(R, K, k))
      PROVE  i = k
  <2>1. Cardinality(Below(R, K, i)) \in T /\ Cardinality(Below(R, K, k)) \in T
    BY <1>2
  <2>2. <<i, k>> \notin R /\ <<k, i>> \notin R
    BY <1>4, <2>1, BelowIsLess
  <2>. QED BY <2>2 DEF Orders
<1>5. f \in Injection(K, T)
  <2>1. f \in [K -> T]
    BY <1>2
  <2>2. ASSUME NEW i \in K, NEW k \in K, f[i] = f[k] PROVE i = k
    BY <1>4, <2>2
  <2>. HIDE DEF f, T
  <2>. QED BY <2>1, <2>2 DEF Injection, IsInjective
<1>6. IsFiniteSet(T) /\ Cardinality(T) = N
  <2>. HIDE DEF N
  <2>1. 0 \in Int /\ N - 1 \in Int
    BY <1>1
  <2>2. IsFiniteSet(T) /\ Cardinality(T) = IF 0 > N - 1 THEN 0 ELSE (N - 1) - 0 + 1
    BY <2>1, FS_Interval
  <2>. QED BY <1>1, <2>2
<1>7. f \in Surjection(K, T)
  <2>. HIDE DEF f, T, N
  <2>1. Cardinality(K) = Cardinality(T)
    BY <1>6 DEF N
  <2>. QED BY <1>5, <1>6, <2>1, FS_Injection
<1>8. ASSUME NEW n \in 1 .. N PROVE \E k \in K : Cardinality(Below(R, K, k)) = n - 1
  <2>1. n - 1 \in T
    BY <1>1
  <2>2. \E k \in K : f[k] = n - 1
    <3>. HIDE DEF f, T
    <3>. QED BY <1>7, <2>1 DEF Surjection
  <2>. QED BY <2>2
<1>. QED BY <1>2, <1>3, <1>8, <1>4

(* The places of a strict order, the least first.                          *)
PlaceAt(R, K, n) == CHOOSE k \in K : Cardinality(Below(R, K, k)) = n - 1

LEMMA PlacesOfOrder ==
  ASSUME NEW K, IsFiniteSet(K), NEW R, Orders(R, K)
  PROVE  /\ Cardinality(K) \in Nat
         /\ \A n \in 1 .. Cardinality(K) : PlaceAt(R, K, n) \in K
         /\ \A n, m \in 1 .. Cardinality(K) :
              n < m => <<PlaceAt(R, K, n), PlaceAt(R, K, m)>> \in R
         /\ \A k \in K : \E n \in 1 .. Cardinality(K) : PlaceAt(R, K, n) = k
<1>1. Cardinality(K) \in Nat
  BY FS_CardinalityType
<1>2. ASSUME NEW n \in 1 .. Cardinality(K)
      PROVE  PlaceAt(R, K, n) \in K /\ Cardinality(Below(R, K, PlaceAt(R, K, n))) = n - 1
  <2>1. \E k \in K : Cardinality(Below(R, K, k)) = n - 1
    BY PlacesInOrder
  <2>. QED BY <2>1, Zenon DEF PlaceAt
<1>3. ASSUME NEW n \in 1 .. Cardinality(K), NEW m \in 1 .. Cardinality(K), n < m
      PROVE  <<PlaceAt(R, K, n), PlaceAt(R, K, m)>> \in R
  <2>1. n - 1 < m - 1
    BY <1>1, <1>3
  <2>2. \A i, k \in K :
          Cardinality(Below(R, K, i)) < Cardinality(Below(R, K, k)) => <<i, k>> \in R
    BY PlacesInOrder
  <2>. QED BY <1>2, <2>1, <2>2
<1>4. ASSUME NEW k \in K PROVE \E n \in 1 .. Cardinality(K) : PlaceAt(R, K, n) = k
  <2>1. /\ Cardinality(Below(R, K, k)) \in 0 .. Cardinality(K) - 1
        /\ \A i, j \in K : Cardinality(Below(R, K, i)) = Cardinality(Below(R, K, j)) => i = j
    BY PlacesInOrder
  <2>. DEFINE n == Cardinality(Below(R, K, k)) + 1
  <2>2. n \in 1 .. Cardinality(K) /\ n - 1 = Cardinality(Below(R, K, k))
    BY <1>1, <2>1
  <2>. HIDE DEF n
  <2>3. PlaceAt(R, K, n) = k
    BY <1>2, <2>1, <2>2
  <2>. QED BY <2>2, <2>3
<1>. QED BY <1>1, <1>2, <1>3, <1>4

(* The places of numbers, the least first.                                 *)
NumberAt(K, n) == Nth(K, n, <)

LEMMA NumbersInOrder ==
  ASSUME NEW K \in SUBSET Nat, IsFiniteSet(K)
  PROVE  /\ \A n \in 1 .. Cardinality(K) : NumberAt(K, n) \in K
         /\ \A n, m \in 1 .. Cardinality(K) : n < m => NumberAt(K, n) < NumberAt(K, m)
         /\ \A k \in K : \E n \in 1 .. Cardinality(K) : NumberAt(K, n) = k
<1>. DEFINE R == {p \in K \X K : p[1] < p[2]}
            Less(k) == {j \in K : j < k}
<1>1. Orders(R, K)
  BY DEF Orders
<1>2. \A k \in K : Below(R, K, k) = Less(k)
  BY DEF Below
<1>. HIDE DEF R
<1>3. /\ \A n \in 1 .. Cardinality(K) : \E k \in K : Cardinality(Less(k)) = n - 1
      /\ \A i, k \in K : Cardinality(Less(i)) < Cardinality(Less(k)) => <<i, k>> \in R
      /\ \A k \in K : Cardinality(Less(k)) \in 0 .. Cardinality(K) - 1
      /\ \A i, k \in K : Cardinality(Less(i)) = Cardinality(Less(k)) => i = k
  <2>. HIDE DEF Less
  <2>1. /\ \A n \in 1 .. Cardinality(K) : \E k \in K : Cardinality(Below(R, K, k)) = n - 1
        /\ \A i, k \in K :
             Cardinality(Below(R, K, i)) < Cardinality(Below(R, K, k)) => <<i, k>> \in R
        /\ \A k \in K : Cardinality(Below(R, K, k)) \in 0 .. Cardinality(K) - 1
        /\ \A i, k \in K : Cardinality(Below(R, K, i)) = Cardinality(Below(R, K, k)) => i = k
    BY <1>1, PlacesInOrder
  <2>. QED BY <1>2, <2>1
<1>4. ASSUME NEW n \in 1 .. Cardinality(K)
      PROVE  NumberAt(K, n) \in K /\ Cardinality(Less(NumberAt(K, n))) = n - 1
  <2>1. NumberAt(K, n) = CHOOSE i \in K : Cardinality(Less(i)) = n - 1
    BY DEF NumberAt, Nth
  <2>2. \E k \in K : Cardinality(Less(k)) = n - 1
    BY <1>3
  <2>. HIDE DEF Less
  <2>. QED BY <2>1, <2>2, Zenon
<1>5. Cardinality(K) \in Nat
  BY FS_CardinalityType
<1>. HIDE DEF Less
<1>6. ASSUME NEW n \in 1 .. Cardinality(K), NEW m \in 1 .. Cardinality(K), n < m
      PROVE  NumberAt(K, n) < NumberAt(K, m)
  <2>1. <<NumberAt(K, n), NumberAt(K, m)>> \in R
    <3>1. n - 1 < m - 1
      BY <1>5, <1>6
    <3>. QED BY <1>3, <1>4, <3>1
  <2>. QED BY <2>1 DEF R
<1>7. ASSUME NEW k \in K PROVE \E n \in 1 .. Cardinality(K) : NumberAt(K, n) = k
  <2>1. Cardinality(Less(k)) \in 0 .. Cardinality(K) - 1
    BY <1>3
  <2>2. PICK n \in 1 .. Cardinality(K) : n - 1 = Cardinality(Less(k))
    <3>1. Cardinality(Less(k)) + 1 \in 1 .. Cardinality(K)
      BY <1>5, <2>1
    <3>2. (Cardinality(Less(k)) + 1) - 1 = Cardinality(Less(k))
      BY <2>1
    <3>. QED BY <3>1, <3>2
  <2>3. NumberAt(K, n) = k
    BY <1>3, <1>4, <2>2
  <2>. QED BY <2>3
<1>. QED BY <1>4, <1>6, <1>7

LEMMA PickedProperties ==
  ASSUME NEW s, NEW K \in SUBSET Nat, IsFiniteSet(K)
  PROVE  /\ Picked(s, K) = [n \in 1 .. Cardinality(K) |-> s[NumberAt(K, n)]]
         /\ Cardinality(K) \in Nat
         /\ Picked(s, K) \in Seq({s[k] : k \in K}) /\ Len(Picked(s, K)) = Cardinality(K)
<1>1. Picked(s, K) = [n \in 1 .. Cardinality(K) |-> s[NumberAt(K, n)]]
  BY DEF Picked, NumberAt
<1>2. Cardinality(K) \in Nat
  BY FS_CardinalityType
<1>3. \A n \in 1 .. Cardinality(K) : s[NumberAt(K, n)] \in {s[k] : k \in K}
  BY NumbersInOrder
<1>4. Picked(s, K) \in [1 .. Cardinality(K) -> {s[k] : k \in K}]
  BY <1>1, <1>3
<1>. QED BY <1>1, <1>2, <1>4, LenProperties

(* What is picked of a line is a line.                                     *)
LEMMA LinePicked ==
  ASSUME NEW S, NEW s, IsLine(s, S), NEW K \in SUBSET (1 .. Len(s))
  PROVE  /\ IsLine(Picked(s, K), S)
         /\ ToSet(Picked(s, K)) = {s[k] : k \in K}
<1>. DEFINE r == Picked(s, K)
            N == Cardinality(K)
<1>0. s \in Seq(S) /\ Len(s) \in Nat
  BY LenProperties DEF IsLine
<1>1. K \in SUBSET Nat /\ IsFiniteSet(K)
  <2>1. IsFiniteSet(1 .. Len(s)) /\ 1 .. Len(s) \subseteq Nat
    BY <1>0, FS_Interval
  <2>. QED BY <2>1, FS_Subset
<1>2. /\ r = [n \in 1 .. N |-> s[NumberAt(K, n)]] /\ N \in Nat
      /\ r \in Seq({s[k] : k \in K}) /\ Len(r) = N
  <2>1. r = [n \in 1 .. N |-> s[NumberAt(K, n)]]
    BY <1>1, PickedProperties, Zenon
  <2>2. N \in Nat
    BY <1>1, PickedProperties
  <2>3. r \in Seq({s[k] : k \in K})
    BY <1>1, PickedProperties
  <2>4. Len(r) = N
    BY <1>1, PickedProperties, Zenon
  <2>. QED BY <2>1, <2>2, <2>3, <2>4
<1>3. /\ \A n \in 1 .. N : NumberAt(K, n) \in K
      /\ \A n, m \in 1 .. N : n < m => NumberAt(K, n) < NumberAt(K, m)
      /\ \A k \in K : \E n \in 1 .. N : NumberAt(K, n) = k
  BY <1>1, NumbersInOrder
<1>. HIDE DEF r, N
<1>4. \A i \in 1 .. Len(s) : s[i] \in S
  BY <1>0, ElementOfSeq
<1>5. r \in Seq(S)
  <2>1. {s[k] : k \in K} \subseteq S
    BY <1>4
  <2>. QED BY <1>2, <2>1, SeqMonotonic
<1>6. ASSUME NEW n \in 1 .. N, NEW m \in 1 .. N, r[n] = r[m] PROVE n = m
  <2>1. s[NumberAt(K, n)] = s[NumberAt(K, m)]
    BY <1>2, <1>6
  <2>2. NumberAt(K, n) = NumberAt(K, m)
    BY <1>3, <2>1 DEF IsLine
  <2>3. NumberAt(K, n) \in Nat /\ NumberAt(K, m) \in Nat
    BY <1>1, <1>3
  <2>4. ~(n < m) /\ ~(m < n)
    BY <1>3, <2>2, <2>3
  <2>. QED BY <1>2, <2>4
<1>7. IsLine(r, S)
  BY <1>2, <1>5, <1>6 DEF IsLine
<1>8. ToSet(r) = {s[k] : k \in K}
  <2>1. ToSet(r) = {r[n] : n \in 1 .. N}
    BY <1>2 DEF ToSet
  <2>. QED BY <1>2, <1>3, <2>1
<1>. QED BY <1>7, <1>8 DEF r

LEMMA FunctionIsSeq ==
  ASSUME NEW S, NEW n \in Nat, NEW f \in [1 .. n -> S]
  PROVE  f \in Seq(S) /\ Len(f) = n
<1>1. f \in Seq(S)
  OBVIOUS
<1>2. DOMAIN f = 1 .. Len(f) /\ Len(f) \in Nat /\ DOMAIN f = 1 .. n
  BY <1>1, LenProperties
<1>. QED BY <1>1, <1>2

(* One step after the other: as a for loop over a sequence.                *)
Steps(f, W, b, L) == f = [n \in 0 .. L |-> IF n = 0 THEN b ELSE W[<<f[n - 1], n>>]]

LEMMA StepsExist ==
  ASSUME NEW S, NEW b \in S, NEW L \in Nat,
         NEW W, \A s \in S : \A n \in 1 .. L : W[<<s, n>>] \in S
  PROVE  \E f \in [0 .. L -> S] : Steps(f, W, b, L)
<1>. DEFINE P == {n \in Nat : n <= L => \E f \in [0 .. n -> S] : Steps(f, W, b, n)}
<1>1. 0 \in P
  <2>. DEFINE f == [n \in 0 .. 0 |-> b]
  <2>1. f \in [0 .. 0 -> S]
    OBVIOUS
  <2>2. \A n \in 0 .. 0 : n = 0
    OBVIOUS
  <2>3. Steps(f, W, b, 0)
    BY <2>2 DEF Steps
  <2>. HIDE DEF f
  <2>. QED BY <2>1, <2>3
<1>2. ASSUME NEW m \in P PROVE m + 1 \in P
  <2>1. m \in Nat /\ m + 1 \in Nat
    OBVIOUS
  <2>. SUFFICES ASSUME m + 1 <= L PROVE \E f \in [0 .. m + 1 -> S] : Steps(f, W, b, m + 1)
    BY <2>1
  <2>2. PICK f \in [0 .. m -> S] : Steps(f, W, b, m)
    BY <2>1
  <2>. DEFINE g == [n \in 0 .. m + 1 |-> IF n = 0 THEN b ELSE W[<<f[n - 1], n>>]]
  <2>3. ASSUME NEW n \in 0 .. m PROVE g[n] = f[n]
    BY <2>1, <2>2 DEF Steps
  <2>4. ASSUME NEW n \in 0 .. m + 1 PROVE g[n] \in S
    <3>1. CASE n = 0
      BY <3>1
    <3>2. CASE n # 0
      <4>1. n - 1 \in 0 .. m /\ n \in 1 .. L
        BY <2>1, <3>2
      <4>2. f[n - 1] \in S
        BY <2>2, <4>1
      <4>. QED BY <3>2, <4>1, <4>2
    <3>. QED BY <3>1, <3>2
  <2>5. ASSUME NEW n \in 0 .. m + 1 PROVE g[n] = IF n = 0 THEN b ELSE W[<<g[n - 1], n>>]
    <3>1. CASE n = 0
      BY <3>1
    <3>2. CASE n # 0
      <4>1. n - 1 \in 0 .. m
        BY <2>1, <3>2
      <4>. QED BY <2>3, <3>2, <4>1
    <3>. QED BY <3>1, <3>2
  <2>6. g = [n \in 0 .. m + 1 |-> g[n]]
    OBVIOUS
  <2>. HIDE DEF g
  <2>7. g \in [0 .. m + 1 -> S]
    BY <2>4, <2>6
  <2>8. Steps(g, W, b, m + 1)
    BY <2>5, <2>6 DEF Steps
  <2>. QED BY <2>7, <2>8
<1>3. P = Nat
  <2>1. P \in SUBSET Nat
    OBVIOUS
  <2>. HIDE DEF P
  <2>. QED BY <1>1, <1>2, <2>1, SetOfNaturals
<1>. QED BY <1>3

(* What does not change from one to the next is the same all along.        *)
LEMMA SameAllAlong ==
  ASSUME NEW s, NEW a \in Nat, NEW b \in Nat, \A i \in a + 1 .. b : s[i] = s[i - 1]
  PROVE  \A i \in a .. b : s[i] = s[a]
<1>. DEFINE P == {n \in Nat : a + n <= b => s[a + n] = s[a]}
<1>1. 0 \in P
  OBVIOUS
<1>2. ASSUME NEW n \in P PROVE n + 1 \in P
  <2>1. n \in Nat /\ n + 1 \in Nat /\ (a + n <= b => s[a + n] = s[a])
    OBVIOUS
  <2>2. ASSUME a + (n + 1) <= b PROVE s[a + (n + 1)] = s[a]
    <3>1. a + (n + 1) \in a + 1 .. b /\ a + n <= b /\ (a + (n + 1)) - 1 = a + n
      BY <2>1, <2>2
    <3>2. s[a + (n + 1)] = s[(a + (n + 1)) - 1]
      BY <3>1
    <3>. QED BY <2>1, <3>1, <3>2
  <2>. QED BY <2>1, <2>2
<1>3. P = Nat
  <2>1. P \in SUBSET Nat
    OBVIOUS
  <2>. HIDE DEF P
  <2>. QED BY <1>1, <1>2, <2>1, SetOfNaturals
<1>. SUFFICES ASSUME NEW i \in a .. b PROVE s[i] = s[a]
  OBVIOUS
<1>4. i - a \in Nat /\ a + (i - a) = i /\ i <= b
  OBVIOUS
<1>5. i - a \in P
  BY <1>3, <1>4
<1>. QED BY <1>4, <1>5

(* Lines that are apart, one after the other.                              *)
LEMMA ConcatIsFunction ==
  ASSUME NEW S, NEW s \in Seq(S), NEW t \in Seq(S)
  PROVE  /\ s \o t \in Seq(S) /\ Len(s \o t) = Len(s) + Len(t)
         /\ \A i \in 1 .. Len(s \o t) :
              (s \o t)[i] = IF i <= Len(s) THEN s[i] ELSE t[i - Len(s)]
         /\ \A i \in 1 .. Len(s) : i \in 1 .. Len(s \o t) /\ (s \o t)[i] = s[i]
         /\ \A i \in 1 .. Len(t) : i + Len(s) \in 1 .. Len(s \o t) /\ (s \o t)[i + Len(s)] = t[i]
<1>1. Len(s) \in Nat /\ Len(t) \in Nat
  BY LenProperties
<1>2. s \o t \in Seq(S) /\ Len(s \o t) = Len(s) + Len(t)
      /\ \A i \in 1 .. Len(s) + Len(t) :
              (s \o t)[i] = IF i <= Len(s) THEN s[i] ELSE t[i - Len(s)]
  BY ConcatProperties
<1>3. \A i \in 1 .. Len(s) : i \in 1 .. Len(s \o t) /\ (s \o t)[i] = s[i]
  BY <1>1, <1>2
<1>4. ASSUME NEW i \in 1 .. Len(t)
      PROVE  i + Len(s) \in 1 .. Len(s \o t) /\ (s \o t)[i + Len(s)] = t[i]
  <2>1. i + Len(s) \in 1 .. Len(s) + Len(t) /\ ~(i + Len(s) <= Len(s)) /\ (i + Len(s)) - Len(s) = i
    BY <1>1
  <2>. QED BY <1>2, <2>1
<1>. QED BY <1>2, <1>3, <1>4

LEMMA LinesJoined ==
  ASSUME NEW S, NEW s, IsLine(s, S), NEW t, IsLine(t, S)
  PROVE  /\ ToSet(s \o t) = ToSet(s) \cup ToSet(t)
         /\ ToSet(s) \cap ToSet(t) = {} => IsLine(s \o t, S)
<1>. DEFINE r == s \o t
<1>1. s \in Seq(S) /\ t \in Seq(S) /\ Len(s) \in Nat /\ Len(t) \in Nat
      /\ (\A i, j \in 1 .. Len(s) : s[i] = s[j] => i = j)
      /\ (\A i, j \in 1 .. Len(t) : t[i] = t[j] => i = j)
  BY LenProperties DEF IsLine
<1>2. /\ r \in Seq(S) /\ Len(r) = Len(s) + Len(t)
      /\ \A i \in 1 .. Len(r) : r[i] = IF i <= Len(s) THEN s[i] ELSE t[i - Len(s)]
      /\ \A i \in 1 .. Len(s) : i \in 1 .. Len(r) /\ r[i] = s[i]
      /\ \A i \in 1 .. Len(t) : i + Len(s) \in 1 .. Len(r) /\ r[i + Len(s)] = t[i]
  BY <1>1, ConcatIsFunction
<1>3. /\ ToSet(s) = {s[i] : i \in 1 .. Len(s)} /\ ToSet(t) = {t[i] : i \in 1 .. Len(t)}
      /\ ToSet(r) = {r[i] : i \in 1 .. Len(r)}
  <2>. HIDE DEF r
  <2>. QED BY <1>1, <1>2, LenProperties DEF ToSet
<1>. HIDE DEF r
<1>4. ToSet(s) \subseteq ToSet(r) /\ ToSet(t) \subseteq ToSet(r)
  BY <1>2, <1>3
<1>5. ASSUME NEW i \in 1 .. Len(r)
      PROVE  \/ i <= Len(s) /\ i \in 1 .. Len(s) /\ r[i] = s[i] /\ r[i] \in ToSet(s)
             \/ i > Len(s) /\ i - Len(s) \in 1 .. Len(t) /\ r[i] = t[i - Len(s)] /\ r[i] \in ToSet(t)
  <2>1. CASE i <= Len(s)
    <3>1. i \in 1 .. Len(s) /\ r[i] = s[i]
      BY <1>1, <1>2, <2>1
    <3>. QED BY <1>3, <2>1, <3>1
  <2>2. CASE i > Len(s)
    <3>1. i - Len(s) \in 1 .. Len(t) /\ r[i] = t[i - Len(s)]
      BY <1>1, <1>2, <2>2
    <3>. QED BY <1>3, <2>2, <3>1
  <2>. QED BY <1>1, <2>1, <2>2
<1>6. ToSet(r) \subseteq ToSet(s) \cup ToSet(t)
  BY <1>3, <1>5
<1>7. ASSUME ToSet(s) \cap ToSet(t) = {}, NEW i \in 1 .. Len(r), NEW j \in 1 .. Len(r), r[i] = r[j]
      PROVE  i = j
  <2>1. CASE i <= Len(s)
    <3>1. i \in 1 .. Len(s) /\ r[i] = s[i] /\ r[i] \in ToSet(s)
      BY <1>1, <1>5, <2>1
    <3>2. j \in 1 .. Len(s) /\ r[j] = s[j]
      BY <1>5, <1>7, <3>1
    <3>. QED BY <1>1, <1>7, <3>1, <3>2
  <2>2. CASE i > Len(s)
    <3>1. i - Len(s) \in 1 .. Len(t) /\ r[i] = t[i - Len(s)] /\ r[i] \in ToSet(t)
      BY <1>1, <1>5, <2>2
    <3>2. j - Len(s) \in 1 .. Len(t) /\ r[j] = t[j - Len(s)]
      BY <1>5, <1>7, <3>1
    <3>3. i - Len(s) = j - Len(s)
      BY <1>1, <1>7, <3>1, <3>2
    <3>. QED BY <1>1, <3>3
  <2>. QED BY <1>1, <2>1, <2>2
<1>8. ToSet(s) \cap ToSet(t) = {} => IsLine(r, S)
  BY <1>2, <1>7 DEF IsLine
<1>. QED BY <1>4, <1>6, <1>8 DEF r

(* An element at the end of what follows.                                  *)
LEMMA ConcatAppended ==
  ASSUME NEW S, NEW s \in Seq(S), NEW t \in Seq(S), NEW e \in S
  PROVE  s \o Append(t, e) = Append(s \o t, e)
OBVIOUS

LEMMA ConcatTwice ==
  ASSUME NEW S, NEW s \in Seq(S), NEW t \in Seq(S), NEW u \in Seq(S)
  PROVE  s \o (t \o u) = (s \o t) \o u
BY ConcatAssociative

(* What is cut of a sequence, and the rest.                                *)
LEMMA CutInTwo ==
  ASSUME NEW S, NEW s \in Seq(S), NEW n \in 0 .. Len(s)
  PROVE  /\ SubSeq(s, 1, n) \in Seq(S) /\ SubSeq(s, n + 1, Len(s)) \in Seq(S)
         /\ SubSeq(s, 1, n) \o SubSeq(s, n + 1, Len(s)) = s
<1>. DEFINE L == Len(s)
            a == SubSeq(s, 1, n)
            b == SubSeq(s, n + 1, L)
<1>1. L \in Nat /\ n \in Nat /\ n <= L /\ \A i \in 1 .. L : s[i] \in S
  BY LenProperties, ElementOfSeq
<1>2. a \in Seq(S) /\ Len(a) = n /\ \A i \in 1 .. n : a[i] = s[i]
  <2>. HIDE DEF L
  <2>1. \A i \in 1 .. n : s[i] \in S
    BY <1>1
  <2>2. a \in Seq(S) /\ Len(a) = (IF 1 <= n THEN n - 1 + 1 ELSE 0)
        /\ \A i \in 1 .. n - 1 + 1 : a[i] = s[1 + i - 1]
    BY <1>1, <2>1, SubSeqProperties
  <2>. HIDE DEF a
  <2>. QED BY <1>1, <2>2
<1>3. b \in Seq(S) /\ Len(b) = L - n /\ \A i \in 1 .. L - n : b[i] = s[n + i]
  <2>. HIDE DEF L
  <2>1. (\A i \in n + 1 .. L : s[i] \in S) /\ n + 1 \in Int /\ L \in Int
    BY <1>1
  <2>2. b \in Seq(S) /\ Len(b) = (IF n + 1 <= L THEN L - (n + 1) + 1 ELSE 0)
        /\ \A i \in 1 .. L - (n + 1) + 1 : b[i] = s[(n + 1) + i - 1]
    BY <2>1, SubSeqProperties
  <2>. HIDE DEF b
  <2>. QED BY <1>1, <2>2
<1>. HIDE DEF a, b, L
<1>4. /\ a \o b \in Seq(S) /\ Len(a \o b) = L
      /\ \A i \in 1 .. L : (a \o b)[i] = IF i <= n THEN a[i] ELSE b[i - n]
  BY <1>1, <1>2, <1>3, ConcatIsFunction
<1>5. \A i \in 1 .. L : (a \o b)[i] = s[i]
  <2>. TAKE i \in 1 .. L
  <2>1. CASE i <= n
    BY <1>1, <1>2, <1>4, <2>1
  <2>2. CASE i > n
    <3>1. i - n \in 1 .. L - n /\ n + (i - n) = i
      BY <1>1, <2>2
    <3>. QED BY <1>1, <1>3, <1>4, <2>2, <3>1
  <2>3. i <= n \/ i > n
    BY <1>1
  <2>. QED BY <2>1, <2>2, <2>3
<1>6. a \o b = s
  <2>1. Len(a \o b) = Len(s) /\ \A i \in 1 .. Len(a \o b) : (a \o b)[i] = s[i]
    BY <1>4, <1>5 DEF L
  <2>. QED BY <1>4, <2>1, SeqEqual
<1>. QED BY <1>2, <1>3, <1>6 DEF a, b, L

(* A sort by a strict order of the places.                                 *)
IsPlacing(place, R, K) ==
  \A n \in K : (\E k \in K : Cardinality(Below(R, K, k)) = n - 1) =>
                place[n] \in K /\ Cardinality(Below(R, K, place[n])) = n - 1
IsSorting(r, s, S, R) ==
  /\ IsLine(r, S) /\ Len(r) = Len(s) /\ ToSet(r) = ToSet(s)
  /\ \A n, m \in 1 .. Len(r) : n < m =>
       \E i, j \in DOMAIN s : <<i, j>> \in R /\ r[n] = s[i] /\ r[m] = s[j]

LEMMA SortedByPlaces ==
  ASSUME NEW S, NEW s, IsLine(s, S), NEW R, Orders(R, DOMAIN s),
         NEW place, IsPlacing(place, R, DOMAIN s)
  PROVE  IsSorting([n \in DOMAIN s |-> s[place[n]]], s, S, R)
<1>. DEFINE K == DOMAIN s
            L == Len(s)
            r == [n \in K |-> s[place[n]]]
            at(n) == place[n]
            rank(k) == Cardinality(Below(R, K, k))
<1>1. s \in Seq(S) /\ L \in Nat /\ K = 1 .. L /\ \A i \in K : s[i] \in S
  BY LenProperties, ElementOfSeq DEF IsLine
<1>2. IsFiniteSet(K) /\ Cardinality(K) = L
  <2>. HIDE DEF K, L
  <2>. QED BY <1>1, FS_Interval
<1>3. /\ \A n \in 1 .. L : at(n) \in K
      /\ \A n, m \in 1 .. L : n < m => <<at(n), at(m)>> \in R
      /\ \A k \in K : \E n \in 1 .. L : at(n) = k
  <2>1. /\ \A n \in 1 .. Cardinality(K) : \E k \in K : rank(k) = n - 1
        /\ \A i, k \in K : rank(i) < rank(k) => <<i, k>> \in R
        /\ \A k \in K : rank(k) \in 0 .. Cardinality(K) - 1
        /\ \A i, k \in K : rank(i) = rank(k) => i = k
    <3>. HIDE DEF K, L
    <3>. QED BY <1>2, PlacesInOrder DEF K
  <2>2. ASSUME NEW n \in 1 .. L PROVE at(n) \in K /\ rank(at(n)) = n - 1
    <3>1. n \in K /\ \E k \in K : rank(k) = n - 1
      <4>. HIDE DEF L, rank
      <4>. QED BY <1>1, <1>2, <2>1
    <3>. QED BY <3>1 DEF IsPlacing
  <2>. HIDE DEF K, L, rank, at
  <2>3. ASSUME NEW n \in 1 .. L, NEW m \in 1 .. L, n < m PROVE <<at(n), at(m)>> \in R
    <3>1. rank(at(n)) < rank(at(m))
      BY <1>1, <2>2, <2>3
    <3>. QED BY <2>1, <2>2, <3>1
  <2>4. ASSUME NEW k \in K PROVE \E n \in 1 .. L : at(n) = k
    <3>1. rank(k) + 1 \in 1 .. L /\ (rank(k) + 1) - 1 = rank(k)
      BY <1>1, <1>2, <2>1
    <3>2. at(rank(k) + 1) = k
      BY <2>1, <2>2, <3>1
    <3>. QED BY <3>1, <3>2
  <2>. QED BY <2>2, <2>3, <2>4
<1>. HIDE DEF at, rank
<1>4. r = [n \in 1 .. L |-> s[at(n)]]
  BY <1>1 DEF at
<1>. HIDE DEF r
<1>5. r \in Seq(S) /\ Len(r) = L
  <2>. HIDE DEF L, K
  <2>1. r \in [1 .. L -> S]
    BY <1>1, <1>3, <1>4
  <2>. QED BY <1>1, <2>1, FunctionIsSeq
<1>6. \A n, m \in 1 .. L : r[n] = r[m] => n = m
  <2>. HIDE DEF K, L
  <2>. SUFFICES ASSUME NEW n \in 1 .. L, NEW m \in 1 .. L, r[n] = r[m], n # m PROVE FALSE
    OBVIOUS
  <2>0. \A i, j \in K : s[i] = s[j] => i = j
    BY <1>1 DEF IsLine, L, K
  <2>1. at(n) = at(m)
    BY <1>3, <1>4, <2>0
  <2>2. n < m \/ m < n
    BY <1>1
  <2>3. <<at(n), at(n)>> \in R /\ at(n) \in K
    BY <1>3, <2>1, <2>2
  <2>. QED BY <2>3 DEF Orders, K
<1>7. ToSet(r) = {r[n] : n \in 1 .. L} /\ ToSet(s) = {s[k] : k \in K}
  <2>. HIDE DEF L
  <2>. QED BY <1>1, <1>5, LenProperties DEF ToSet
<1>8. ToSet(r) = ToSet(s)
  <2>1. ToSet(r) \subseteq ToSet(s)
    BY <1>3, <1>4, <1>7
  <2>2. ASSUME NEW k \in K PROVE s[k] \in ToSet(r)
    BY <1>3, <1>4, <1>7
  <2>. QED BY <1>7, <2>1, <2>2
<1>9. ASSUME NEW n \in 1 .. L, NEW m \in 1 .. L, n < m
      PROVE  \E i, j \in K : <<i, j>> \in R /\ r[n] = s[i] /\ r[m] = s[j]
  <2>. HIDE DEF L, K
  <2>1. at(n) \in K /\ at(m) \in K /\ <<at(n), at(m)>> \in R
    BY <1>3, <1>9
  <2>2. r[n] = s[at(n)] /\ r[m] = s[at(m)]
    BY <1>4
  <2>. QED BY <2>1, <2>2, Zenon
<1>10. IsLine(r, S)
  <2>. HIDE DEF L, K
  <2>. QED BY <1>5, <1>6 DEF IsLine
<1>11. \A n, m \in 1 .. Len(r) : n < m => \E i, j \in K : <<i, j>> \in R /\ r[n] = s[i] /\ r[m] = s[j]
  <2>. HIDE DEF L, K
  <2>. QED BY <1>5, <1>9, Zenon
<1>. QED BY <1>5, <1>8, <1>10, <1>11, Zenon DEF IsSorting, r

(* A loop keeps what each of its rounds keeps.                             *)
LEMMA StepsStay ==
  ASSUME NEW L \in Nat, NEW f, NEW J, f[0] \in J[0],
         \A n \in 1 .. L : f[n - 1] \in J[n - 1] => f[n] \in J[n]
  PROVE  \A n \in 0 .. L : f[n] \in J[n]
<1>. DEFINE P == {n \in Nat : n <= L => f[n] \in J[n]}
<1>1. 0 \in P
  OBVIOUS
<1>2. ASSUME NEW n \in P PROVE n + 1 \in P
  <2>. SUFFICES ASSUME n + 1 <= L PROVE f[n + 1] \in J[n + 1]
    OBVIOUS
  <2>1. n + 1 \in 1 .. L /\ (n + 1) - 1 = n /\ f[n] \in J[n]
    OBVIOUS
  <2>. QED BY <2>1
<1>3. P = Nat
  <2>1. P \in SUBSET Nat
    OBVIOUS
  <2>. HIDE DEF P
  <2>. QED BY <1>1, <1>2, <2>1, SetOfNaturals
<1>. QED BY <1>3

(* Two loops that take the same steps reach the same.                      *)
LEMMA SameSteps ==
  ASSUME NEW L \in Nat, NEW f, NEW g, f[0] = g[0],
         \A n \in 1 .. L : f[n - 1] = g[n - 1] => f[n] = g[n]
  PROVE  \A n \in 0 .. L : f[n] = g[n]
<1>. DEFINE P == {n \in Nat : n <= L => f[n] = g[n]}
<1>1. 0 \in P
  OBVIOUS
<1>2. ASSUME NEW n \in P PROVE n + 1 \in P
  <2>. SUFFICES ASSUME n + 1 <= L PROVE f[n + 1] = g[n + 1]
    OBVIOUS
  <2>1. n + 1 \in 1 .. L /\ (n + 1) - 1 = n /\ f[n] = g[n]
    OBVIOUS
  <2>. QED BY <2>1
<1>3. P = Nat
  <2>1. P \in SUBSET Nat
    OBVIOUS
  <2>. HIDE DEF P
  <2>. QED BY <1>1, <1>2, <2>1, SetOfNaturals
<1>. QED BY <1>3
=============================================================================

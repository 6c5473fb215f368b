--------------------------- MODULE ServicesProofs ---------------------------
(***************************************************************************)
(* Proofs about the rules of resolution, for evidence of any length; about *)
(* the creates of the asset repository and of the CMDB, for any number of  *)
(* records, requests and pipeline transactions; and about the workflow     *)
(* drafts, for any number of drafts and of callers that decide, lose their *)
(* answer and try again.                                                   *)
(***************************************************************************)
EXTENDS MCServices, SequenceTheorems, FiniteSetTheorems, WellFoundedInduction, TLAPS

-----------------------------------------------------------------------------
(* Rules of resolution: the answer is a function of the set of evidence.   *)

(* Numbers.  The library's induction takes an operator, which the provers  *)
(* cannot instantiate; that < is well founded says as much of sets.        *)
LEMMA Least ==
  ASSUME NEW A \in SUBSET Nat, A # {}
  PROVE  \E n \in A : \A m \in A : n <= m
<1> DEFINE Less == {pair \in Nat \X Nat : pair[1] < pair[2]}
<1>1. OpToRel(<, Nat) = Less
  BY Zenon DEF OpToRel
<1>2. IsWellFoundedOn(Less, Nat)
  BY <1>1, NatLessThanWellFounded, Zenon
<1>3. PICK n \in A : \A m \in A : <<m, n>> \notin Less
  <2> HIDE DEF Less
  <2> QED
    BY <1>2, WFMin
<1>4. ASSUME NEW m \in A
      PROVE  n <= m
  <2>1. n \in Nat /\ m \in Nat /\ <<m, n>> \notin Less
    BY <1>3
  <2>2. ~(m < n)
    BY <2>1
  <2> QED
    BY <2>1, <2>2
<1> QED
  BY <1>4

LEMMA Greatest ==
  ASSUME NEW A \in SUBSET Nat, A # {}, NEW limit \in Nat, \A n \in A : n <= limit
  PROVE  \E n \in A : \A m \in A : m <= n
<1> DEFINE Rest == {r \in Nat : limit - r \in A}
<1>1. \A n \in A : limit - n \in Rest
  BY SMT
<1>2. PICK r \in Rest : \A q \in Rest : r <= q
  <2>1. Rest \in SUBSET Nat /\ Rest # {}
    BY <1>1
  <2> HIDE DEF Rest
  <2> QED
    BY <2>1, Least
<1>3. limit - r \in A /\ r \in Nat
  OBVIOUS
<1>4. \A m \in A : m <= limit - r
  <2> HIDE DEF Rest
  <2>1. ASSUME NEW m \in A
        PROVE  m <= limit - r
    <3>1. r <= limit - m /\ m \in Nat
      BY <1>1, <1>2
    <3> QED
      BY <1>3, <3>1
  <2> QED
    BY <2>1
<1> QED
  BY <1>3, <1>4

(* Finitely many numbers have a bound.                                     *)
HasBound(n) == \A f \in [1 .. n -> Nat] : \E limit \in Nat : \A i \in 1 .. n : f[i] <= limit

LEMMA Bounded == \A n \in Nat : HasBound(n)
<1> DEFINE Bad == {k \in Nat : ~HasBound(k)}
<1>1. SUFFICES ASSUME Bad # {}
               PROVE  FALSE
  OBVIOUS
<1>2. PICK k \in Bad : \A m \in Bad : k <= m
  <2>1. Bad \in SUBSET Nat
    OBVIOUS
  <2> HIDE DEF Bad
  <2> QED
    BY <1>1, <2>1, Least
<1>3. HasBound(0)
  <2>1. 0 \in Nat /\ 1 .. 0 = {}
    OBVIOUS
  <2> QED
    BY <2>1 DEF HasBound
<1>4. k \in Nat \ {0} /\ HasBound(k - 1)
  <2>1. k \in Nat \ {0} /\ k - 1 \in Nat
    BY <1>3
  <2>2. k - 1 \notin Bad
    <3> HIDE DEF Bad
    <3> QED
      BY <1>2, <2>1
  <2> QED
    BY <2>1, <2>2
<1>5. ASSUME NEW f \in [1 .. k -> Nat]
      PROVE  \E limit \in Nat : \A i \in 1 .. k : f[i] <= limit
  <2> HIDE DEF Bad
  <2> DEFINE g == [i \in 1 .. k - 1 |-> f[i]]
  <2>1. g \in [1 .. k - 1 -> Nat] /\ f[k] \in Nat
    BY <1>4
  <2>2. PICK b \in Nat : \A i \in 1 .. k - 1 : g[i] <= b
    BY <1>4, <2>1 DEF HasBound
  <2>3. ASSUME NEW i \in 1 .. k
        PROVE  f[i] <= b + f[k]
    <3>1. CASE i = k
      BY <1>4, <2>1, <3>1
    <3>2. CASE i # k
      <4>1. i \in 1 .. k - 1 /\ g[i] = f[i] /\ f[i] \in Nat
        BY <1>4, <3>2
      <4> HIDE DEF g
      <4> QED
        BY <2>1, <2>2, <4>1
    <3> QED
      BY <3>1, <3>2
  <2>4. b + f[k] \in Nat
    BY <2>1, <2>2
  <2> QED
    BY <2>3, <2>4
<1>6. HasBound(k)
  BY <1>5 DEF HasBound
<1> QED
  BY <1>6
-----------------------------------------------------------------------------
LEMMA TwoElements ==
  ASSUME NEW S, IsFiniteSet(S)
  PROVE  /\ Cardinality(S) \in Nat
         /\ Cardinality(S) > 1 <=> \E x, y \in S : x # y
<1>1. Cardinality(S) \in Nat
  BY FS_CardinalityType
<1>2. ASSUME Cardinality(S) > 1
      PROVE  \E x, y \in S : x # y
  <2>1. S # {}
    BY <1>1, <1>2, FS_EmptySet
  <2>2. PICK x \in S : TRUE
    BY <2>1
  <2>3. S # {x}
    BY <1>2, FS_Singleton
  <2> QED
    BY <2>2, <2>3
<1>3. ASSUME NEW x \in S, NEW y \in S, x # y
      PROVE  Cardinality(S) > 1
  <2>1. Cardinality(S) # 0
    BY FS_EmptySet
  <2>2. Cardinality(S) # 1
    BY <1>3, FS_Singleton
  <2> QED
    BY <1>1, <2>1, <2>2
<1> QED
  BY <1>1, <1>2, <1>3

LEMMA ImageIsFinite ==
  ASSUME NEW S, IsFiniteSet(S), NEW f, DOMAIN f = S
  PROVE  IsFiniteSet({f[x] : x \in S})
<1> DEFINE T == {f[x] : x \in S}
           g == [x \in S |-> f[x]]
<1>1. g \in Surjection(S, T)
  BY DEF Surjection
<1> QED
  BY <1>1, FS_Surjection
-----------------------------------------------------------------------------
(* Names.                                                                  *)

LEMMA KindsAreThree ==
  /\ IsFiniteSet(Kinds)
  /\ \A k \in Kinds : k \in {"native", "serial", "ci"}
<1>1. IsFiniteSet({"native"}) /\ IsFiniteSet({"native"} \union {"serial"})
  BY FS_Singleton, FS_AddElement
<1>2. IsFiniteSet(({"native"} \union {"serial"}) \union {"ci"})
  BY <1>1, FS_AddElement
<1>3. Kinds = ({"native"} \union {"serial"}) \union {"ci"}
  BY DEF Kinds
<1> QED
  BY <1>2, <1>3 DEF Kinds

LEMMA NamesOfOne ==
  ASSUME NEW i
  PROVE  /\ IsFiniteSet(StrongNames(i))
         /\ \A name \in StrongNames(i) : /\ name[1] \in Kinds /\ i[name[1]] # Missing
                                        /\ name = <<name[1], i[name[1]]>>
         /\ \A k \in Kinds : i[k] # Missing => <<k, i[k]>> \in StrongNames(i)
<1> DEFINE S == {k \in Kinds : i[k] # Missing}
           f == [k \in S |-> <<k, i[k]>>]
<1>1. IsFiniteSet(S)
  BY KindsAreThree, FS_Subset
<1>2. StrongNames(i) = {f[k] : k \in S}
  BY DEF StrongNames
<1>3. IsFiniteSet(StrongNames(i))
  <2> HIDE DEF S
  <2>1. DOMAIN f = S
    OBVIOUS
  <2> HIDE DEF f
  <2> QED
    BY <1>1, <1>2, <2>1, ImageIsFinite
<1>4. \A k \in Kinds : i[k] # Missing => <<k, i[k]>> \in StrongNames(i)
  BY DEF StrongNames
<1>5. ASSUME NEW name \in StrongNames(i)
      PROVE  name[1] \in Kinds /\ i[name[1]] # Missing /\ name = <<name[1], i[name[1]]>>
  <2>1. PICK k \in Kinds : i[k] # Missing /\ name = <<k, i[k]>>
    BY DEF StrongNames
  <2> QED
    BY <2>1
<1> QED
  BY <1>3, <1>4, <1>5

Names(identities) == UNION {StrongNames(identities[n]) : n \in DOMAIN identities}
Shared(identities) ==
  {name \in Names(identities) : \A n \in DOMAIN identities : name \in StrongNames(identities[n])}

LEMMA NamesAreFinite ==
  ASSUME NEW identities, IsFiniteSet(DOMAIN identities)
  PROVE  IsFiniteSet(Names(identities))
<1> DEFINE f == [n \in DOMAIN identities |-> StrongNames(identities[n])]
<1>1. IsFiniteSet({f[n] : n \in DOMAIN identities})
  <2>1. DOMAIN f = DOMAIN identities
    OBVIOUS
  <2> HIDE DEF f
  <2> QED
    BY <2>1, ImageIsFinite
<1>2. \A S \in {f[n] : n \in DOMAIN identities} : IsFiniteSet(S)
  BY NamesOfOne
<1>3. Names(identities) = UNION {f[n] : n \in DOMAIN identities}
  BY DEF Names
<1> QED
  <2> HIDE DEF f
  <2> QED
    BY <1>1, <1>2, <1>3, FS_UNION

(* What a conflict is, without counting.                                   *)
LEMMA ConflictMeans ==
  ASSUME NEW identities, IsFiniteSet(DOMAIN identities)
  PROVE  Conflicts(identities) <=>
           \/ \E x, y \in Names(identities) : x[1] = "ci" /\ y[1] # "ci"
           \/ \E x, y \in Names(identities) : x[1] = y[1] /\ x # y
           \/ /\ \E m, n \in DOMAIN identities : m # n
              /\ Shared(identities) = {}
<1> DEFINE names == Names(identities)
<1>1. \A k \in Kinds : Cardinality(NamesOf(k, names)) > 1 <=> \E x, y \in names : x[1] = k /\ y[1] = k /\ x # y
  <2>1. ASSUME NEW k \in Kinds
        PROVE  Cardinality(NamesOf(k, names)) > 1 <=> \E x, y \in names : x[1] = k /\ y[1] = k /\ x # y
    <3>1. IsFiniteSet(NamesOf(k, names))
      BY NamesAreFinite, FS_Subset DEF NamesOf
    <3>2. Cardinality(NamesOf(k, names)) > 1 <=> \E x, y \in NamesOf(k, names) : x # y
      BY <3>1, TwoElements
    <3> QED
      BY <3>2 DEF NamesOf
  <2> QED
    BY <2>1
<1>2. \A x \in names : x[1] \in Kinds
  BY NamesOfOne DEF Names
<1>3. Cardinality(DOMAIN identities) > 1 <=> \E m, n \in DOMAIN identities : m # n
  BY TwoElements
<1>4. (NamesOf("ci", names) # {} /\ NamesOf("ci", names) # names) <=> \E x, y \in names : x[1] = "ci" /\ y[1] # "ci"
  BY DEF NamesOf
<1>5. Conflicts(identities) <=>
        \/ NamesOf("ci", names) # {} /\ NamesOf("ci", names) # names
        \/ \E k \in Kinds : Cardinality(NamesOf(k, names)) > 1
        \/ Cardinality(DOMAIN identities) > 1 /\ Shared(identities) = {}
  BY DEF Conflicts, Names, Shared
<1> HIDE DEF names
<1>6. (\E k \in Kinds : Cardinality(NamesOf(k, names)) > 1) <=> \E x, y \in names : x[1] = y[1] /\ x # y
  BY <1>1, <1>2
<1>7. names = Names(identities)
  BY DEF names
<1> QED
  BY <1>3, <1>4, <1>5, <1>6, <1>7
-----------------------------------------------------------------------------
(* What a list of well-formed identities resolves to.                      *)

IsList(identities) ==
  /\ DOMAIN identities # {} /\ \E n \in Nat : DOMAIN identities \subseteq 1 .. n
  /\ \A n \in DOMAIN identities : identities[n] \in Identities /\ ~IsMalformed(identities[n])

LEMMA ListIsFinite ==
  ASSUME NEW identities, IsList(identities)
  PROVE  IsFiniteSet(DOMAIN identities)
<1>1. PICK n \in Nat : DOMAIN identities \subseteq 1 .. n
  BY DEF IsList
<1>2. IsFiniteSet(1 .. n)
  BY FS_Interval
<1> QED
  BY <1>1, <1>2, FS_Subset

(* Numbers on the positions of a list, and on some of them, have a greatest. *)
LEMMA GreatestOfList ==
  ASSUME NEW D, NEW n \in Nat, D \subseteq 1 .. n, D # {}, NEW f, \A m \in D : f[m] \in Nat
  PROVE  \E p \in D : \A m \in D : f[m] <= f[p]
<1> DEFINE g == [i \in 1 .. n |-> IF i \in D THEN f[i] ELSE 0]
           A == {k \in Nat : \E m \in D : k = f[m]}
<1>1. g \in [1 .. n -> Nat] /\ \A m \in D : m \in 1 .. n /\ g[m] = f[m]
  OBVIOUS
<1>2. PICK b \in Nat : \A m \in 1 .. n : g[m] <= b
  <2> HIDE DEF g
  <2> QED
    BY <1>1, Bounded DEF HasBound
<1>3. A \in SUBSET Nat /\ A # {} /\ \A k \in A : k <= b
  <2> HIDE DEF g
  <2> QED
    BY <1>1, <1>2
<1>4. PICK k \in A : \A j \in A : j <= k
  <2> HIDE DEF A
  <2> QED
    BY <1>3, Greatest
<1> QED
  BY <1>4

LEMMA GreatestPair ==
  ASSUME NEW D, NEW n \in Nat, D \subseteq 1 .. n, D # {}, NEW f, NEW g,
         \A m \in D : f[m] \in Nat /\ g[m] \in Nat
  PROVE  \E p \in D : \A m \in D : f[m] < f[p] \/ (f[m] = f[p] /\ g[m] <= g[p])
<1>1. PICK q \in D : \A m \in D : f[m] <= f[q]
  BY GreatestOfList
<1> DEFINE E == {m \in D : f[m] = f[q]}
<1>2. E # {} /\ E \subseteq 1 .. n /\ \A m \in E : g[m] \in Nat
  BY <1>1
<1>3. PICK p \in E : \A m \in E : g[m] <= g[p]
  <2> HIDE DEF E
  <2> QED
    BY <1>2, GreatestOfList
<1>4. ASSUME NEW m \in D
      PROVE  f[m] < f[p] \/ (f[m] = f[p] /\ g[m] <= g[p])
  <2>1. f[m] <= f[q] /\ f[p] = f[q] /\ f[m] \in Nat /\ f[q] \in Nat
    BY <1>1, <1>3
  <2>2. f[m] = f[q] => g[m] <= g[p]
    BY <1>3
  <2> QED
    BY <2>1, <2>2
<1> QED
  BY <1>3, <1>4

LEMMA SelectedIsBest ==
  ASSUME NEW identities, IsList(identities)
  PROVE  \E p \in DOMAIN identities :
           /\ Selected(identities) = identities[p]
           /\ \A m \in DOMAIN identities :
                Cardinality(StrongNames(identities[m])) <= Cardinality(StrongNames(identities[p]))
<1> DEFINE D == DOMAIN identities
           count == [m \in D |-> Key(identities[m])[1]]
           spelling == [m \in D |-> Key(identities[m])[2]]
<1>1. PICK n \in Nat : D \subseteq 1 .. n
  BY DEF IsList
<1>2. D # {} /\ \A m \in D : count[m] \in Nat /\ spelling[m] \in Nat
  BY NamesOfOne, FS_CardinalityType, EvidenceAssumption DEF IsList, Key
<1>3. \A m \in D : count[m] = Cardinality(StrongNames(identities[m]))
  BY DEF Key
<1>4. \A m, p \in D : AtMost(identities[m], identities[p]) <=>
        count[m] < count[p] \/ (count[m] = count[p] /\ spelling[m] <= spelling[p])
  BY DEF AtMost
<1> HIDE DEF count, spelling
<1>5. \E p \in D : \A m \in D : AtMost(identities[m], identities[p])
  <2> HIDE DEF D
  <2>1. PICK p \in D : \A m \in D : count[m] < count[p] \/ (count[m] = count[p] /\ spelling[m] <= spelling[p])
    BY <1>1, <1>2, GreatestPair
  <2>2. \A m \in D : AtMost(identities[m], identities[p])
    BY <1>4, <2>1
  <2> QED
    BY <2>2
<1>6. PICK p \in D : /\ Selected(identities) = identities[p]
                     /\ \A m \in D : AtMost(identities[m], identities[p])
  BY <1>5 DEF Selected
<1>7. \A m \in D : count[m] <= count[p]
  BY <1>2, <1>4, <1>6
<1> QED
  BY <1>3, <1>6, <1>7

EvidenceOf(identities) == {identities[n] : n \in DOMAIN identities}

LEMMA EvidenceOfList ==
  ASSUME NEW identities, IsList(identities)
  PROVE  /\ IsFiniteSet(EvidenceOf(identities))
         /\ \A i \in EvidenceOf(identities) : StrongNames(i) \subseteq Names(identities)
         /\ \A i \in EvidenceOf(identities) : StrongNames(i) # {}
         /\ \A name \in Names(identities) : \E i \in EvidenceOf(identities) : name \in StrongNames(i)
         /\ \A name : name \in Shared(identities) <=> \A i \in EvidenceOf(identities) : name \in StrongNames(i)
<1>1. IsFiniteSet(EvidenceOf(identities))
  BY ListIsFinite, ImageIsFinite DEF EvidenceOf
<1>2. \A i \in EvidenceOf(identities) : StrongNames(i) \subseteq Names(identities)
  BY DEF EvidenceOf, Names
<1>3. \A i \in EvidenceOf(identities) : StrongNames(i) # {}
  BY DEF EvidenceOf, IsList, IsMalformed
<1>4. \A name \in Names(identities) : \E i \in EvidenceOf(identities) : name \in StrongNames(i)
  BY DEF EvidenceOf, Names
<1>5. \A name : name \in Shared(identities) <=> \A i \in EvidenceOf(identities) : name \in StrongNames(i)
  BY DEF EvidenceOf, Names, Shared, IsList
<1> QED
  BY <1>1, <1>2, <1>3, <1>4, <1>5

(* Evidence about one thing does not conflict.                             *)
LEMMA OneThingAgrees ==
  ASSUME NEW identities, IsList(identities), IsOneThing(EvidenceOf(identities))
  PROVE  ~Conflicts(identities)
<1> DEFINE E == EvidenceOf(identities)
<1>1. PICK thing : ~IsMalformed(thing) /\ MayBeAbout(E, thing)
  BY DEF IsOneThing
<1>2. \A name \in Names(identities) : name \in StrongNames(thing)
  BY <1>1, EvidenceOfList DEF MayBeAbout
<1>3. \A x, y \in Names(identities) : x[1] = y[1] => x = y
  BY <1>2, NamesOfOne
<1>4. ASSUME NEW x \in Names(identities), NEW y \in Names(identities), x[1] = "ci", y[1] # "ci"
      PROVE  FALSE
  <2>1. thing.ci # Missing
    BY <1>2, <1>4, NamesOfOne
  <2>2. Cardinality(StrongNames(thing)) > 1
    BY <1>2, <1>4, NamesOfOne, TwoElements
  <2> QED
    BY <1>1, <2>1, <2>2 DEF IsMalformed
<1>5. Shared(identities) # {}
  <2>1. CASE Cardinality(E) > 1
    <3>1. PICK name : \A i \in E : name \in StrongNames(i)
      BY <1>1, <2>1 DEF MayBeAbout
    <3> QED
      BY <3>1, EvidenceOfList
  <2>2. CASE ~(Cardinality(E) > 1)
    <3>1. \A i, j \in E : i = j
      BY <2>2, EvidenceOfList, TwoElements
    <3>2. PICK i \in E : TRUE
      BY DEF EvidenceOf, IsList
    <3>3. PICK name \in StrongNames(i) : TRUE
      BY EvidenceOfList
    <3> QED
      BY <3>1, <3>3, EvidenceOfList
  <2> QED
    BY <2>1, <2>2
<1> QED
  BY <1>3, <1>4, <1>5, ConflictMeans, ListIsFinite

(* Evidence that does not conflict is about the thing that has its names.  *)
LEMMA AgreementIsOneThing ==
  ASSUME NEW identities, IsList(identities), ~Conflicts(identities)
  PROVE  IsOneThing(EvidenceOf(identities))
<1> DEFINE E == EvidenceOf(identities)
           names == Names(identities)
           NameOf(k) == IF \E x \in names : x[1] = k THEN (CHOOSE x \in names : x[1] = k)[2] ELSE Missing
           thing == [native |-> NameOf("native"), serial |-> NameOf("serial"), ci |-> NameOf("ci"), spelling |-> 0]
<1>1. /\ \A x, y \in names : x[1] = "ci" => y[1] = "ci"
      /\ \A x, y \in names : x[1] = y[1] => x = y
      /\ (\E m, n \in DOMAIN identities : m # n) => Shared(identities) # {}
  BY ConflictMeans, ListIsFinite
<1>2. \A x \in names : \E i \in E : /\ x[1] \in Kinds /\ x[2] = i[x[1]] /\ x[2] # Missing
                                    /\ x = <<x[1], x[2]>>
  <2>1. ASSUME NEW x \in names
        PROVE  \E i \in E : /\ x[1] \in Kinds /\ x[2] = i[x[1]] /\ x[2] # Missing
                            /\ x = <<x[1], x[2]>>
    <3>1. PICK i \in E : x \in StrongNames(i)
      BY EvidenceOfList
    <3>2. x[1] \in Kinds /\ i[x[1]] # Missing /\ x = <<x[1], i[x[1]]>>
      BY <3>1, NamesOfOne
    <3>3. x[2] = i[x[1]]
      BY <3>2
    <3> QED
      BY <3>2, <3>3
  <2> QED
    BY <2>1
<1>3. \A x \in names : NameOf(x[1]) = x[2]
  <2> HIDE DEF names
  <2> QED
    BY <1>1
<1>4. \A k \in Kinds : NameOf(k) # Missing => \E x \in names : x = <<k, NameOf(k)>>
  <2> HIDE DEF names, E
  <2> QED
    BY <1>2
<1> HIDE DEF NameOf
<1>5. \A k \in Kinds : NameOf(k) \in (UNION {{i[l] : i \in E} : l \in Kinds}) \union {Missing}
  <2> HIDE DEF names, E
  <2>1. ASSUME NEW k \in Kinds, NameOf(k) # Missing
        PROVE  \E i \in E : NameOf(k) = i[k]
    <3>1. PICK x \in names : x = <<k, NameOf(k)>>
      BY <1>4, <2>1
    <3>2. x[1] = k /\ x[2] = NameOf(k)
      BY <3>1
    <3> QED
      BY <1>2, <3>2
  <2> QED
    BY <2>1
<1>6. \A k \in Kinds : thing[k] = NameOf(k)
  <2>1. thing["native"] = NameOf("native") /\ thing["serial"] = NameOf("serial") /\ thing["ci"] = NameOf("ci")
    OBVIOUS
  <2> QED
    BY <2>1 DEF Kinds
<1>7. StrongNames(thing) = names
  <2>1. ASSUME NEW x \in names
        PROVE  x \in StrongNames(thing)
    <3>1. x[1] \in Kinds /\ thing[x[1]] = x[2] /\ x[2] # Missing /\ x = <<x[1], x[2]>>
      BY <1>2, <1>3, <1>6
    <3> HIDE DEF thing, names
    <3> QED
      BY <3>1, NamesOfOne
  <2>2. ASSUME NEW x \in StrongNames(thing)
        PROVE  x \in names
    <3> HIDE DEF thing, names
    <3>1. x[1] \in Kinds /\ thing[x[1]] # Missing /\ x = <<x[1], thing[x[1]]>>
      BY NamesOfOne
    <3> QED
      BY <1>4, <1>6, <3>1
  <2> QED
    BY <2>1, <2>2
<1>8. names # {}
  <2>1. PICK i \in E : TRUE
    BY DEF EvidenceOf, IsList
  <2> QED
    BY EvidenceOfList
<1>9. ~IsMalformed(thing)
  <2>1. ASSUME thing.ci # Missing, Cardinality(StrongNames(thing)) > 1
        PROVE  FALSE
    <3>1. PICK x, y \in names : x # y
      BY <1>7, <2>1, NamesOfOne, TwoElements
    <3>2. PICK z \in names : z[1] = "ci"
      <4>1. "ci" \in Kinds /\ NameOf("ci") # Missing
        BY <2>1 DEF Kinds
      <4> HIDE DEF names
      <4> QED
        BY <1>4, <4>1
    <3> HIDE DEF names
    <3> QED
      BY <1>1, <3>1, <3>2
  <2> QED
    BY <1>7, <1>8, <2>1 DEF IsMalformed
<1>10. MayBeAbout(E, thing)
  <2>1. \A i \in E : StrongNames(i) \subseteq StrongNames(thing)
    BY <1>7, EvidenceOfList
  <2>2. ASSUME Cardinality(E) > 1
        PROVE  \E name \in StrongNames(thing) : \A i \in E : name \in StrongNames(i)
    <3>1. PICK i, j \in E : i # j
      BY <2>2, EvidenceOfList, TwoElements
    <3>2. \E m, n \in DOMAIN identities : m # n
      BY <3>1 DEF EvidenceOf
    <3>3. PICK name \in Shared(identities) : TRUE
      BY <1>1, <3>2
    <3>4. \A k \in E : name \in StrongNames(k)
      BY <3>3, EvidenceOfList
    <3> QED
      BY <2>1, <3>1, <3>4
  <2> QED
    BY <2>1, <2>2 DEF MayBeAbout
<1>11. \E native, serial, ci \in (UNION {{i[k] : i \in E} : k \in Kinds}) \union {Missing} :
         thing = [native |-> native, serial |-> serial, ci |-> ci, spelling |-> 0]
  BY <1>5 DEF Kinds
<1> QED
  BY <1>9, <1>10, <1>11 DEF IsOneThing

(* Where nothing conflicts, one with the most names has all of them: with  *)
(* two names it has both kinds an asset can have, and with one it has the  *)
(* name they share.                                                        *)
LEMMA BestCovers ==
  ASSUME NEW identities, IsList(identities), ~Conflicts(identities),
         NEW p \in DOMAIN identities, NEW m \in DOMAIN identities,
         Cardinality(StrongNames(identities[m])) <= Cardinality(StrongNames(identities[p]))
  PROVE  StrongNames(identities[m]) \subseteq StrongNames(identities[p])
<1> DEFINE names == Names(identities)
<1>1. /\ \A x, y \in names : x[1] = "ci" => y[1] = "ci"
      /\ \A x, y \in names : x[1] = y[1] => x = y
      /\ (\E k, n \in DOMAIN identities : k # n) => Shared(identities) # {}
  BY ConflictMeans, ListIsFinite
<1>2. StrongNames(identities[m]) \subseteq names /\ StrongNames(identities[p]) \subseteq names
  BY DEF Names
<1>3. ASSUME NEW x \in StrongNames(identities[m]), x \notin StrongNames(identities[p])
      PROVE  FALSE
  <2>1. PICK s \in names : s \in StrongNames(identities[m]) /\ s \in StrongNames(identities[p])
    BY <1>1, <1>3 DEF Shared
  <2>2. x # s
    BY <1>3, <2>1
  <2>3. Cardinality(StrongNames(identities[m])) > 1
    BY <2>1, <2>2, NamesOfOne, TwoElements
  <2>4. Cardinality(StrongNames(identities[p])) > 1
    BY <2>3, NamesOfOne, TwoElements
  <2>5. PICK y \in StrongNames(identities[p]) : y # s
    BY <2>4, NamesOfOne, TwoElements
  <2>6. x[1] # s[1] /\ y[1] # s[1] /\ x[1] # y[1] /\ x \in names /\ y \in names
    BY <1>1, <1>2, <1>3, <2>1, <2>2, <2>5
  <2>7. x[1] \in Kinds /\ y[1] \in Kinds /\ s[1] \in Kinds
    BY <2>1, <2>5, NamesOfOne
  <2>8. x[1] = "ci" \/ y[1] = "ci" \/ s[1] = "ci"
    BY <2>6, <2>7, KindsAreThree
  <2> QED
    BY <1>1, <2>1, <2>6, <2>8
<1> QED
  BY <1>3

(* The answer on well-formed strong evidence.                              *)
LEMMA StrongAnswer ==
  ASSUME NEW identities, IsList(identities)
  PROVE  LET answer == ResolveStrong(identities)
             evidence == EvidenceOf(identities)
         IN  /\ answer = Quarantined <=> Conflicts(identities)
             /\ answer.status = IF IsOneThing(evidence) THEN "resolved" ELSE "quarantined"
             /\ answer.status = "resolved" =>
                  /\ answer.identity \in evidence
                  /\ \A i \in evidence : StrongNames(i) \subseteq StrongNames(answer.identity)
<1>1. ResolveStrong(identities) =
        IF Conflicts(identities) THEN Quarantined ELSE Answer("resolved", Selected(identities))
  BY DEF ResolveStrong, IsList
<1>2. CASE Conflicts(identities)
  <2>1. ResolveStrong(identities) = Quarantined /\ Quarantined.status = "quarantined"
    BY <1>1, <1>2 DEF Quarantined, Answer
  <2>2. ~IsOneThing(EvidenceOf(identities))
    BY <1>2, OneThingAgrees
  <2> QED
    BY <1>2, <2>1, <2>2
<1>3. CASE ~Conflicts(identities)
  <2>1. PICK p \in DOMAIN identities :
          /\ Selected(identities) = identities[p]
          /\ \A m \in DOMAIN identities :
               Cardinality(StrongNames(identities[m])) <= Cardinality(StrongNames(identities[p]))
    BY SelectedIsBest
  <2>2. /\ ResolveStrong(identities).status = "resolved"
        /\ ResolveStrong(identities).identity = identities[p]
        /\ ResolveStrong(identities) # Quarantined
    BY <1>1, <1>3, <2>1 DEF Quarantined, Answer
  <2>3. IsOneThing(EvidenceOf(identities))
    BY <1>3, AgreementIsOneThing
  <2>4. \A i \in EvidenceOf(identities) : StrongNames(i) \subseteq StrongNames(identities[p])
    BY <1>3, <2>1, BestCovers DEF EvidenceOf
  <2>5. identities[p] \in EvidenceOf(identities)
    BY DEF EvidenceOf
  <2> QED
    BY <1>3, <2>2, <2>3, <2>4, <2>5
<1> QED
  BY <1>2, <1>3
-----------------------------------------------------------------------------
(* Identities that are not rejected are a list.                            *)
LEMMA NotRejected ==
  ASSUME NEW identities, DOMAIN identities # {}, NEW n \in Nat, DOMAIN identities \subseteq 1 .. n,
         \A m \in DOMAIN identities : identities[m] \in Identities,
         ResolveStrong(identities) # Rejected
  PROVE  IsList(identities)
  BY DEF IsList, ResolveStrong

(* More evidence of a conflict is a conflict.                              *)
LEMMA PrefixConflicts ==
  ASSUME NEW identities \in Seq(Identities), IsList(identities), NEW n \in 1 .. Len(identities),
         ResolveStrong(SubSeq(identities, 1, n)) = Quarantined
  PROVE  ResolveStrong(identities) = Quarantined
<1> DEFINE prefix == SubSeq(identities, 1, n)
<1>1. /\ DOMAIN prefix = 1 .. n /\ 1 .. n \subseteq DOMAIN identities /\ n \in Nat /\ 1 \in 1 .. n
      /\ \A m \in 1 .. n : prefix[m] = identities[m]
  BY SubSeqProperties
<1> HIDE DEF prefix
<1>2. IsList(prefix)
  <2>1. \A m \in 1 .. n : prefix[m] \in Identities /\ ~IsMalformed(prefix[m])
    BY <1>1 DEF IsList
  <2> QED
    BY <1>1, <2>1 DEF IsList
<1>3. Conflicts(prefix)
  BY <1>2, StrongAnswer DEF prefix
<1>4. Names(prefix) \subseteq Names(identities)
  BY <1>1 DEF Names
<1>5. ASSUME Shared(prefix) = {}
      PROVE  Shared(identities) = {}
  <2>1. ASSUME NEW name \in Shared(identities)
        PROVE  FALSE
    <3>1. \A m \in DOMAIN prefix : name \in StrongNames(prefix[m])
      BY <1>1 DEF Shared
    <3>2. name \in Names(prefix)
      BY <1>1, <3>1 DEF Names
    <3> QED
      BY <1>5, <3>1, <3>2 DEF Shared
  <2> QED
    BY <2>1
<1>6. \/ \E x, y \in Names(prefix) : x[1] = "ci" /\ y[1] # "ci"
      \/ \E x, y \in Names(prefix) : x[1] = y[1] /\ x # y
      \/ /\ \E k, m \in DOMAIN prefix : k # m
         /\ Shared(prefix) = {}
  BY <1>2, <1>3, ConflictMeans, ListIsFinite
<1>7. Conflicts(identities)
  <2>1. \/ \E x, y \in Names(identities) : x[1] = "ci" /\ y[1] # "ci"
        \/ \E x, y \in Names(identities) : x[1] = y[1] /\ x # y
        \/ /\ \E k, m \in DOMAIN identities : k # m
           /\ Shared(identities) = {}
    BY <1>1, <1>4, <1>5, <1>6
  <2> QED
    BY <2>1, ConflictMeans, ListIsFinite
<1> QED
  BY <1>7, StrongAnswer

(* Of eligible claims some are not outranked, and those are the leaders.   *)
LEMMA LeadersAreBest ==
  ASSUME NEW claims \in Seq(AliasClaims), NEW eligible \in SUBSET DOMAIN claims, eligible # {}
  PROVE  /\ Leaders(claims, eligible) = {n \in eligible : \A m \in eligible : ~Outranks(claims[m], claims[n])}
         /\ Leaders(claims, eligible) # {}
<1> DEFINE confidence == [n \in eligible |-> claims[n].confidence]
           from == [n \in eligible |-> claims[n].from]
<1>1. eligible \subseteq 1 .. Len(claims) /\ Len(claims) \in Nat
  OBVIOUS
<1>2. \A n \in eligible : confidence[n] \in Nat /\ from[n] \in Nat
  <2>1. \A n \in eligible : claims[n] \in AliasClaims
    BY <1>1
  <2>2. \A c \in AliasClaims : c.confidence \in Nat /\ c.from \in Nat
    BY EvidenceAssumption
  <2> QED
    BY <2>1, <2>2
<1>3. \A m, n \in eligible : Outranks(claims[m], claims[n]) <=>
        confidence[m] > confidence[n] \/ (confidence[m] = confidence[n] /\ from[m] > from[n])
  BY DEF Outranks, Rank
<1>4. \A m, n \in eligible : Rank(claims[m]) = Rank(claims[n]) <=>
        confidence[m] = confidence[n] /\ from[m] = from[n]
  BY DEF Rank
<1> HIDE DEF confidence, from
<1>5. PICK p \in eligible : \A m \in eligible :
        confidence[m] < confidence[p] \/ (confidence[m] = confidence[p] /\ from[m] <= from[p])
  BY <1>1, <1>2, GreatestPair
<1>6. \A m \in eligible : ~Outranks(claims[m], claims[p])
  BY <1>2, <1>3, <1>5
<1>7. PICK first \in eligible : /\ first = First(claims, eligible)
                               /\ \A m \in eligible : ~Outranks(claims[m], claims[first])
  BY <1>6 DEF First
<1>8. ASSUME NEW n \in eligible
      PROVE  Rank(claims[n]) = Rank(claims[first]) <=> \A m \in eligible : ~Outranks(claims[m], claims[n])
  <2>1. ASSUME Rank(claims[n]) = Rank(claims[first])
        PROVE  \A m \in eligible : ~Outranks(claims[m], claims[n])
    <3>1. confidence[n] = confidence[first] /\ from[n] = from[first]
      BY <1>4, <2>1
    <3> QED
      BY <1>3, <1>7, <3>1
  <2>2. ASSUME \A m \in eligible : ~Outranks(claims[m], claims[n])
        PROVE  Rank(claims[n]) = Rank(claims[first])
    <3>1. ~Outranks(claims[first], claims[n]) /\ ~Outranks(claims[n], claims[first])
      BY <1>7, <2>2
    <3>2. confidence[n] = confidence[first] /\ from[n] = from[first]
      BY <1>2, <1>3, <3>1
    <3> QED
      BY <1>4, <3>2
  <2> QED
    BY <2>1, <2>2
<1>9. first \in Leaders(claims, eligible)
  BY <1>7 DEF Leaders
<1> QED
  BY <1>7, <1>8, <1>9 DEF Leaders

(* What alias claims that are not rejected resolve to: nothing valid, or   *)
(* the list of what the leaders name.                                      *)
Valid(claims, instant) == {n \in DOMAIN claims : Eligible(claims[n], instant)}
LeadersOf(claims, instant) == [n \in Leaders(claims, Valid(claims, instant)) |-> claims[n].identity]

LEMMA AliasAnswer ==
  ASSUME NEW claims \in Seq(AliasClaims), NEW instant, ResolveAlias(claims, instant) # Rejected
  PROVE  \/ Valid(claims, instant) = {} /\ ResolveAlias(claims, instant) = NotFound
         \/ /\ Valid(claims, instant) # {} /\ IsList(LeadersOf(claims, instant))
            /\ ResolveAlias(claims, instant) = ResolveStrong(LeadersOf(claims, instant))
<1> DEFINE valid == Valid(claims, instant)
           list == LeadersOf(claims, instant)
<1>1. \/ valid = {} /\ ResolveAlias(claims, instant) = NotFound
      \/ valid # {} /\ ResolveAlias(claims, instant) = ResolveStrong(list)
  BY DEF ResolveAlias, Valid, LeadersOf
<1>2. CASE valid # {}
  <2>1. /\ valid \in SUBSET DOMAIN claims /\ DOMAIN claims = 1 .. Len(claims) /\ Len(claims) \in Nat
    BY DEF Valid
  <2>2. Leaders(claims, valid) # {} /\ Leaders(claims, valid) \subseteq 1 .. Len(claims)
    BY <1>2, <2>1, LeadersAreBest DEF Leaders
  <2>3. /\ DOMAIN list = Leaders(claims, valid)
        /\ \A m \in DOMAIN list : list[m] \in Identities
    BY <2>2, EvidenceAssumption DEF LeadersOf
  <2>4. ResolveStrong(list) # Rejected
    BY <1>1, <1>2
  <2> HIDE DEF list, valid
  <2>5. IsList(list)
    BY <2>1, <2>2, <2>3, <2>4, NotRejected
  <2> QED
    BY <1>1, <1>2, <2>5 DEF list, valid
<1> QED
  BY <1>1, <1>2
-----------------------------------------------------------------------------
ResolutionTypeOK ==
  /\ strong \in Seq(Identities)
  /\ claimed \in Seq(AliasClaims)
  /\ clock \in Instants

(* The evidence that counts, as the evidence of a list.                    *)
LEMMA EvidenceOfStrong ==
  ASSUME ResolutionTypeOK, strong # <<>>
  PROVE  Evidence = EvidenceOf(strong)
  BY DEF ResolutionTypeOK, Evidence, EvidenceOf, ToSet

LEMMA EvidenceOfAliases ==
  ASSUME ResolutionTypeOK, strong = <<>>
  PROVE  /\ Valid(claimed, clock) = {} => Evidence = {}
         /\ Valid(claimed, clock) # {} => Evidence = EvidenceOf(LeadersOf(claimed, clock))
<1> DEFINE positions == Valid(claimed, clock)
           valid == {c \in ToSet(claimed) : c.from <= clock /\ (c.to = Missing \/ clock <= c.to)}
           best == {c \in valid : \A d \in valid : ~Outranks(d, c)}
<1>1. Evidence = {c.identity : c \in best}
  BY DEF Evidence
<1>2. \A c : c \in valid <=> \E n \in positions : c = claimed[n]
  BY DEF Valid, Eligible, ToSet
<1>3. CASE positions = {}
  <2>1. best = {}
    BY <1>2, <1>3
  <2> QED
    BY <1>1, <1>3, <2>1
<1>4. CASE positions # {}
  <2>1. positions \in SUBSET DOMAIN claimed
    BY DEF Valid
  <2>2. Leaders(claimed, positions) = {n \in positions : \A m \in positions : ~Outranks(claimed[m], claimed[n])}
    BY <1>4, <2>1, LeadersAreBest DEF ResolutionTypeOK
  <2> HIDE DEF positions, valid
  <2>3. \A c : c \in best <=> \E n \in Leaders(claimed, positions) : c = claimed[n]
    BY <1>2, <2>2
  <2> HIDE DEF best
  <2>4. EvidenceOf(LeadersOf(claimed, clock)) = {claimed[n].identity : n \in Leaders(claimed, positions)}
    BY DEF EvidenceOf, LeadersOf, positions
  <2>5. Evidence = {claimed[n].identity : n \in Leaders(claimed, positions)}
    BY <1>1, <2>3
  <2> QED
    BY <1>4, <2>4, <2>5 DEF positions
<1> QED
  BY <1>3, <1>4

LEMMA TypedAnswerFollows ==
  ASSUME ResolutionTypeOK
  PROVE  AnswerFollowsEvidence
<1> DEFINE answer == ResolveIdentity(strong, claimed, clock)
<1> SUFFICES ASSUME answer # Rejected
             PROVE  /\ answer.status = (IF Evidence = {} THEN "not_found"
                                        ELSE IF IsOneThing(Evidence) THEN "resolved" ELSE "quarantined")
                    /\ answer.status = "resolved" =>
                         /\ answer.identity \in Evidence
                         /\ \A i \in Evidence : StrongNames(i) \subseteq StrongNames(answer.identity)
                    /\ \A n \in 1 .. Len(strong) :
                         ResolveStrong(SubSeq(strong, 1, n)) = Quarantined => answer = Quarantined
  BY DEF AnswerFollowsEvidence
<1>1. ASSUME NEW list, IsList(list), answer = ResolveStrong(list), Evidence = EvidenceOf(list)
      PROVE  /\ answer.status = (IF Evidence = {} THEN "not_found"
                                 ELSE IF IsOneThing(Evidence) THEN "resolved" ELSE "quarantined")
             /\ answer.status = "resolved" =>
                  /\ answer.identity \in Evidence
                  /\ \A i \in Evidence : StrongNames(i) \subseteq StrongNames(answer.identity)
  <2>1. Evidence # {}
    BY <1>1 DEF EvidenceOf, IsList
  <2> HIDE DEF answer
  <2> QED
    BY <1>1, <2>1, StrongAnswer
<1>2. CASE strong # <<>>
  <2>1. answer = ResolveStrong(strong)
    BY <1>2 DEF ResolveIdentity
  <2>2. /\ strong \in Seq(Identities) /\ DOMAIN strong = 1 .. Len(strong) /\ Len(strong) \in Nat
        /\ DOMAIN strong # {} /\ \A m \in DOMAIN strong : strong[m] \in Identities
    BY <1>2, EmptySeq DEF ResolutionTypeOK
  <2>3. IsList(strong)
    BY <2>1, <2>2, NotRejected
  <2>4. Evidence = EvidenceOf(strong)
    BY <1>2, EvidenceOfStrong
  <2>5. \A n \in 1 .. Len(strong) : ResolveStrong(SubSeq(strong, 1, n)) = Quarantined => answer = Quarantined
    BY <2>1, <2>2, <2>3, PrefixConflicts
  <2> HIDE DEF answer
  <2> QED
    BY <1>1, <2>1, <2>3, <2>4, <2>5
<1>3. CASE strong = <<>>
  <2>1. answer = ResolveAlias(claimed, clock) /\ 1 .. Len(strong) = {}
    BY <1>3 DEF ResolveIdentity
  <2>2. CASE Valid(claimed, clock) = {}
    <3>1. answer = NotFound /\ NotFound.status = "not_found"
      BY <2>1, <2>2, AliasAnswer DEF ResolutionTypeOK, NotFound, Answer
    <3>2. Evidence = {}
      BY <1>3, <2>2, EvidenceOfAliases
    <3> HIDE DEF answer
    <3> QED
      BY <2>1, <3>1, <3>2
  <2>3. CASE Valid(claimed, clock) # {}
    <3>1. IsList(LeadersOf(claimed, clock)) /\ answer = ResolveStrong(LeadersOf(claimed, clock))
      BY <2>1, <2>3, AliasAnswer DEF ResolutionTypeOK
    <3>2. Evidence = EvidenceOf(LeadersOf(claimed, clock))
      BY <1>3, <2>3, EvidenceOfAliases
    <3> HIDE DEF answer
    <3> QED
      BY <1>1, <2>1, <3>1, <3>2
  <2> QED
    BY <2>2, <2>3
<1> QED
  BY <1>2, <1>3

(* Whatever evidence is given, in whatever order and however often, the    *)
(* answer of resolve_identity is the decision on the set of it.            *)
THEOREM AnswersAreOfTheEvidence == ResolutionSpec => []AnswerFollowsEvidence
<1>1. ResolutionInit => ResolutionTypeOK
  BY DEF ResolutionInit, ResolutionTypeOK
<1>2. ResolutionTypeOK /\ [ResolutionNext]_resolutionVars => ResolutionTypeOK'
  <2> SUFFICES ASSUME ResolutionTypeOK, [ResolutionNext]_resolutionVars
               PROVE  ResolutionTypeOK'
    OBVIOUS
  <2>1. ASSUME NEW i \in Identities, GiveStrong(i)
        PROVE  ResolutionTypeOK'
    BY <2>1, AppendProperties DEF ResolutionTypeOK, GiveStrong
  <2>2. ASSUME NEW c \in AliasClaims, GiveClaim(c)
        PROVE  ResolutionTypeOK'
    BY <2>2, AppendProperties DEF ResolutionTypeOK, GiveClaim
  <2>3. CASE UNCHANGED resolutionVars
    BY <2>3 DEF ResolutionTypeOK, resolutionVars
  <2> QED
    BY <2>1, <2>2, <2>3 DEF ResolutionNext
<1>3. ResolutionTypeOK => AnswerFollowsEvidence
  BY TypedAnswerFollows
<1> QED
  BY <1>1, <1>2, <1>3, PTL DEF ResolutionSpec

-----------------------------------------------------------------------------
(* Drafts: each is decided once at most.                                   *)

USE DecisionAssumption, NoDraftAssumption

Created == [status |-> "draft", audit |-> <<"created">>]
DecidedBy(c) == [status |-> StatusOf(DecisionOf[c]),
                 audit |-> <<"created", <<c, DecisionOf[c]>> >>]

(* A handler that has read a draft is about a stored one, and what it has  *)
(* read is the audit of an open draft; so is the draft of one that decided. *)
ReadsAreOfDrafts ==
  \A c \in Deciders :
    /\ deciding[c] \in {"read", "decided"} =>
         target[c] \in DraftIds /\ drafts[target[c]] # NoDraft
    /\ deciding[c] = "read" => read[c] = <<"created">>

DraftsInv == DraftsTypeOK /\ ReadsAreOfDrafts /\ OneDecision
-----------------------------------------------------------------------------
(* The rows there can be.                                                  *)

LEMMA RowsType ==
  /\ Created \in DraftRows
  /\ \A c \in Deciders : DecidedBy(c) \in DraftRows
  <1>1. <<"created">> \in Seq(Entries)
    BY DEF Entries
  <1>2. ASSUME NEW c \in Deciders
        PROVE  DecidedBy(c) \in DraftRows
    <2>1. <<c, DecisionOf[c]>> \in Entries /\ "created" \in Entries
      BY DEF Entries
    <2>2. <<"created", <<c, DecisionOf[c]>> >> \in Seq(Entries)
      BY <2>1
    <2> QED
      BY <2>2 DEF DecidedBy, DraftRows, StatusOf
  <1> QED
    BY <1>1, <1>2 DEF Created, DraftRows

(* A draft whose status is open is as it was created, and its audit is no  *)
(* decision of anybody's.                                                  *)
LEMMA OpenIsCreated ==
  ASSUME OneDecision, NEW d \in DraftIds, drafts[d] # NoDraft, drafts[d].status = "draft"
  PROVE  /\ drafts[d] = Created
         /\ \A c \in Deciders : drafts[d].audit # <<"created", <<c, DecisionOf[c]>> >>
  <1>1. drafts[d] = Created
    <2>1. drafts[d] = Created \/ \E c \in Deciders : drafts[d] = DecidedBy(c)
      BY DEF OneDecision, Created, DecidedBy
    <2>2. \A c \in Deciders : DecidedBy(c).status # "draft"
      BY DEF DecidedBy, StatusOf
    <2> QED
      BY <2>1, <2>2
  <1>2. \A e : <<"created">> # <<"created", e>>
    OBVIOUS
  <1> QED
    BY <1>1, <1>2 DEF Created

(* The row a decision writes after it has read an open draft.              *)
LEMMA DecideRow ==
  ASSUME NEW c \in Deciders, read[c] = <<"created">>
  PROVE  [status |-> StatusOf(DecisionOf[c]), audit |-> Append(read[c], <<c, DecisionOf[c]>>)]
           = DecidedBy(c)
  <1> DEFINE entry == <<c, DecisionOf[c]>>
             after == Append(<<"created">>, entry)
  <1>1. after = <<"created", entry>>
    <2>1. "created" \in Entries /\ entry \in Entries
      BY DEF Entries
    <2> HIDE DEF entry
    <2>2. after \in Seq(Entries) /\ Len(after) = 2 /\ after[1] = "created" /\ after[2] = entry
      BY <2>1, AppendProperties
    <2> DEFINE two == <<"created", entry>>
    <2>3. two \in Seq(Entries) /\ Len(two) = 2 /\ two[1] = "created" /\ two[2] = entry
      BY <2>1
    <2> HIDE DEF two, after
    <2>4. \A i \in 1 .. Len(after) : after[i] = two[i]
      BY <2>2, <2>3
    <2>5. after = two
      BY <2>2, <2>3, <2>4, SeqEqual
    <2> QED
      BY <2>5 DEF two
  <1> QED
    BY <1>1 DEF DecidedBy
-----------------------------------------------------------------------------
LEMMA DraftsInvInit == DraftsInit => DraftsInv
  <1>1. <<>> \in Seq(Entries)
    OBVIOUS
  <1> QED
    BY <1>1 DEF DraftsInit, DraftsInv, DraftsTypeOK, ReadsAreOfDrafts, OneDecision

LEMMA CreateStep ==
  ASSUME DraftsInv, NEW d \in DraftIds, CreateDraft(d)
  PROVE  DraftsInv'
  <1>1. drafts' = [drafts EXCEPT ![d] = Created] /\ drafts[d] = NoDraft
        /\ UNCHANGED <<deciding, target, read>>
    BY DEF CreateDraft, Created
  <1>2. DraftsTypeOK'
    BY <1>1, RowsType DEF DraftsInv, DraftsTypeOK
  <1>3. ReadsAreOfDrafts'
    BY <1>1, RowsType DEF DraftsInv, DraftsTypeOK, ReadsAreOfDrafts
  <1>4. OneDecision'
    <2>1. ASSUME NEW e \in DraftIds, drafts'[e] # NoDraft
          PROVE  \/ drafts'[e] = Created
                 \/ \E c \in Deciders : drafts'[e] = DecidedBy(c)
      BY <1>1, <2>1 DEF DraftsInv, DraftsTypeOK, OneDecision, Created, DecidedBy
    <2>2. ASSUME NEW c \in Deciders, deciding'[c] = "decided"
          PROVE  drafts'[target'[c]].audit = <<"created", <<c, DecisionOf[c]>> >>
      <3>1. target[c] # d
        BY <1>1, <2>2 DEF DraftsInv, ReadsAreOfDrafts
      <3> QED
        BY <1>1, <2>2, <3>1 DEF DraftsInv, DraftsTypeOK, ReadsAreOfDrafts, OneDecision
    <2> QED
      BY <2>1, <2>2 DEF OneDecision, Created, DecidedBy
  <1> QED
    BY <1>2, <1>3, <1>4 DEF DraftsInv

LEMMA ReadStep ==
  ASSUME DraftsInv, NEW c \in Deciders, NEW d \in DraftIds, ReadDraft(c, d)
  PROVE  DraftsInv'
  <1>1. /\ drafts[d] # NoDraft /\ drafts' = drafts
        /\ target' = [target EXCEPT ![c] = d]
        /\ read' = [read EXCEPT ![c] = drafts[d].audit]
        /\ deciding' = [deciding EXCEPT ![c] =
             IF drafts[d].status = "draft" THEN "read" ELSE "terminal"]
    BY DEF ReadDraft, Tell
  <1>2. drafts[d].audit \in Seq(Entries)
    BY <1>1 DEF DraftsInv, DraftsTypeOK, DraftRows
  <1>3. DraftsTypeOK'
    BY <1>1, <1>2 DEF DraftsInv, DraftsTypeOK
  <1>4. ReadsAreOfDrafts'
    <2>1. drafts[d].status = "draft" => drafts[d].audit = <<"created">>
      BY <1>1, OpenIsCreated DEF DraftsInv, Created
    <2> QED
      BY <1>1, <2>1 DEF DraftsInv, DraftsTypeOK, ReadsAreOfDrafts
  <1>5. OneDecision'
    BY <1>1 DEF DraftsInv, DraftsTypeOK, OneDecision
  <1> QED
    BY <1>3, <1>4, <1>5 DEF DraftsInv

LEMMA DecideStep ==
  ASSUME DraftsInv, NEW c \in Deciders, UpdateOpenDraft(c)
  PROVE  DraftsInv'
  <1> DEFINE d == target[c]
  <1>1. deciding[c] = "read" /\ d \in DraftIds /\ drafts[d] # NoDraft
        /\ read[c] = <<"created">> /\ UNCHANGED <<target, read>>
    BY DEF UpdateOpenDraft, DraftsInv, ReadsAreOfDrafts
  <1>2. CASE drafts[d].status = "draft"
    <2>1. /\ drafts' = [drafts EXCEPT ![d] = DecidedBy(c)]
          /\ deciding' = [deciding EXCEPT ![c] = "decided"]
      BY <1>1, <1>2, DecideRow DEF UpdateOpenDraft, Decide, Tell
    <2>2. DraftsTypeOK'
      BY <1>1, <2>1, RowsType DEF DraftsInv, DraftsTypeOK
    <2>3. ReadsAreOfDrafts'
      BY <1>1, <2>1, RowsType DEF DraftsInv, DraftsTypeOK, ReadsAreOfDrafts
    <2>4. OneDecision'
      <3>1. ASSUME NEW e \in DraftIds, drafts'[e] # NoDraft
            PROVE  \/ drafts'[e] = Created
                   \/ \E b \in Deciders : drafts'[e] = DecidedBy(b)
        BY <2>1, <3>1 DEF DraftsInv, DraftsTypeOK, OneDecision, Created, DecidedBy
      <3>2. ASSUME NEW b \in Deciders, deciding'[b] = "decided"
            PROVE  drafts'[target'[b]].audit = <<"created", <<b, DecisionOf[b]>> >>
        <4>1. CASE b = c
          BY <1>1, <2>1, <4>1 DEF DraftsInv, DraftsTypeOK, DecidedBy
        <4>2. CASE b # c
          <5>1. deciding[b] = "decided" /\ target[b] \in DraftIds
                /\ drafts[target[b]].audit = <<"created", <<b, DecisionOf[b]>> >>
            BY <2>1, <3>2, <4>2 DEF DraftsInv, DraftsTypeOK, ReadsAreOfDrafts, OneDecision
          <5>2. target[b] # d
            BY <1>1, <1>2, <5>1, OpenIsCreated DEF DraftsInv
          <5> QED
            BY <1>1, <2>1, <5>1, <5>2 DEF DraftsInv, DraftsTypeOK
        <4> QED
          BY <4>1, <4>2
      <3> QED
        BY <3>1, <3>2 DEF OneDecision, Created, DecidedBy
    <2> QED
      BY <2>2, <2>3, <2>4 DEF DraftsInv
  <1>3. CASE drafts[d].status # "draft"
    <2>1. drafts' = drafts /\ deciding' = [deciding EXCEPT ![c] = "terminal"]
      BY <1>3 DEF UpdateOpenDraft, Tell
    <2> QED
      BY <1>1, <2>1 DEF DraftsInv, DraftsTypeOK, ReadsAreOfDrafts, OneDecision
  <1> QED
    BY <1>2, <1>3

LEMMA LoseStep ==
  ASSUME DraftsInv, NEW c \in Deciders, LoseDecision(c) \/ RetryDecision(c)
  PROVE  DraftsInv'
  <1>1. <<>> \in Seq(Entries)
    OBVIOUS
  <1>2. CASE LoseDecision(c)
    BY <1>2 DEF LoseDecision, Tell, DraftsInv, DraftsTypeOK, ReadsAreOfDrafts, OneDecision
  <1>3. CASE RetryDecision(c)
    BY <1>1, <1>3 DEF RetryDecision, Tell, DraftsInv, DraftsTypeOK, ReadsAreOfDrafts, OneDecision
  <1> QED
    BY <1>2, <1>3

LEMMA DraftsInvStep == DraftsInv /\ [DraftsNext]_draftsVars => DraftsInv'
  <1> SUFFICES ASSUME DraftsInv, [DraftsNext]_draftsVars
               PROVE  DraftsInv'
    OBVIOUS
  <1>1. CASE UNCHANGED draftsVars
    BY <1>1 DEF draftsVars, DraftsInv, DraftsTypeOK, ReadsAreOfDrafts, OneDecision
  <1> QED
    BY <1>1, CreateStep, ReadStep, DecideStep, LoseStep DEF DraftsNext
-----------------------------------------------------------------------------
(* Drafts, handlers and what they have read are well typed.                *)
THEOREM DraftsTypeCorrect == DraftsSpec => []DraftsTypeOK
  <1>1. DraftsInv => DraftsTypeOK
    BY DEF DraftsInv
  <1> QED
    BY <1>1, DraftsInvInit, DraftsInvStep, PTL DEF DraftsSpec

(* A draft is decided at most once, its status is that decision, and who   *)
(* was told it decided is the one its audit names, for any number of       *)
(* callers that read, lose answers and try again.                          *)
THEOREM DecidedOnce == DraftsSpec => []OneDecision
  <1>1. DraftsInv => OneDecision
    BY DEF DraftsInv
  <1> QED
    BY <1>1, DraftsInvInit, DraftsInvStep, PTL DEF DraftsSpec

-----------------------------------------------------------------------------
(* The asset repository and the CMDB: a create binds an identifier once,   *)
(* and what was created is whole.                                          *)

USE RequestAssumption, BodyAssumption, RoundedAssumption, ClaimAssumption

IdOf(c) == Request[c].id
BodyOf(c) == Request[c].body

(* What a handler has read is still the row, and whoever inserted a row or *)
(* was told of one asked for that row.                                     *)
HandlersKnowTheRow ==
  \A c \in Callers :
    /\ at[c] = "retrieved" => seen[c] = rows[IdOf(c)] /\ seen[c] # None
    /\ at[c] \in {"aliasing", "created", "repeated"} => rows[IdOf(c)] = BodyOf(c)
    /\ at[c] \in {"aliasing", "created"} => creator[IdOf(c)] = c

(* A row a pipeline transaction has inserted is nobody else's.             *)
InsertsAreNew ==
  \A k \in Claims : \A i \in inserting[k] :
    /\ rows[i] = None
    /\ \A j \in Claims : i \in inserting[j] => j = k

RegistryInv == RegistryTypeOK /\ HandlersKnowTheRow /\ InsertsAreNew /\ CreatedIsWhole
-----------------------------------------------------------------------------
(* Type correctness.                                                       *)

LEMMA RequestType ==
  ASSUME NEW c \in Callers
  PROVE  /\ IdOf(c) \in Ids /\ BodyOf(c) \in Bodies /\ BodyOf(c) # None
         /\ Request[c].aliases \in Seq(Aliases)
         /\ Stored(Request[c].aliases) \in Seq(Aliases)
         /\ DOMAIN Stored(Request[c].aliases) = DOMAIN Request[c].aliases
  <1>1. IdOf(c) \in Ids /\ BodyOf(c) \in Bodies /\ Request[c].aliases \in Seq(Aliases)
    BY DEF IdOf, BodyOf
  <1>2. PICK n \in Nat : Request[c].aliases \in [1 .. n -> Aliases]
    BY <1>1
  <1>3. Stored(Request[c].aliases) \in [1 .. n -> Aliases]
    BY <1>2 DEF Stored
  <1> QED
    BY <1>1, <1>2, <1>3

LEMMA RegistryTypeInit == RegistryInit => RegistryTypeOK
  <1>1. <<>> \in Seq(Aliases)
    OBVIOUS
  <1> QED
    BY <1>1 DEF RegistryInit, RegistryTypeOK

LEMMA RegistryTypeStep == RegistryTypeOK /\ [RegistryNext]_registryVars => RegistryTypeOK'
  <1> SUFFICES ASSUME RegistryTypeOK, [RegistryNext]_registryVars
               PROVE  RegistryTypeOK'
    OBVIOUS
  <1> DEFINE Answers == {"idle"} \union Handling \union Refused \union Succeeded
  <1>1. ASSUME NEW c \in Callers, RetrieveRow(c)
        PROVE  RegistryTypeOK'
    <2>1. PICK a \in Answers : at' = [at EXCEPT ![c] = a]
      <3>1. CASE ~Request[c].token
        BY <1>1, <3>1 DEF RetrieveRow, Reply, Refused
      <3>2. CASE Request[c].token /\ ~connected[ServiceOf(Request[c].id)]
        BY <1>1, <3>2 DEF RetrieveRow, Reply, Refused
      <3>3. CASE Request[c].token /\ connected[ServiceOf(Request[c].id)]
        BY <1>1, <3>3 DEF RetrieveRow, Reply, Handling
      <3> QED
        BY <3>1, <3>2, <3>3
    <2>2. PICK s \in Bodies \union {None} : seen' = [seen EXCEPT ![c] = s]
      <3>1. rows[Request[c].id] \in Bodies \union {None}
        BY RequestType DEF RegistryTypeOK, IdOf
      <3> QED
        BY <1>1, <3>1 DEF RetrieveRow
    <2> QED
      BY <1>1, <2>1, <2>2 DEF RetrieveRow, RegistryTypeOK, rowVars
  <1>2. ASSUME NEW c \in Callers, Compare(c)
        PROVE  RegistryTypeOK'
    <2>1. PICK a \in Answers : at' = [at EXCEPT ![c] = a]
      BY <1>2 DEF Compare, Reply, Refused, Succeeded
    <2> QED
      BY <1>2, <2>1 DEF Compare, RegistryTypeOK, rowVars
  <1>3. ASSUME NEW c \in Callers, Insert(c)
        PROVE  RegistryTypeOK'
    <2>1. PICK a \in Answers : at' = [at EXCEPT ![c] = a]
      BY <1>3 DEF Insert, Reply, Refused, Handling
    <2>2. /\ rows' \in [Ids -> Bodies \union {None}]
          /\ creator' \in [Ids -> Callers \union {None}]
      <3>1. CASE UNCHANGED <<rows, creator>>
        BY <3>1 DEF RegistryTypeOK
      <3>2. CASE /\ rows' = [rows EXCEPT ![IdOf(c)] = BodyOf(c)]
                 /\ creator' = [creator EXCEPT ![IdOf(c)] = c]
        BY <3>2, RequestType DEF RegistryTypeOK
      <3> QED
        BY <1>3, <3>1, <3>2 DEF Insert, BodyOf, IdOf
    <2> QED
      BY <1>3, <2>1, <2>2 DEF Insert, RegistryTypeOK
  <1>4. ASSUME NEW c \in Callers, InsertAliases(c)
        PROVE  RegistryTypeOK'
    <2>1. at' = [at EXCEPT ![c] = "created"]
      BY <1>4 DEF InsertAliases, Reply
    <2>2. aliases' = [aliases EXCEPT ![IdOf(c)] = aliases[IdOf(c)] \o Stored(Request[c].aliases)]
      BY <1>4 DEF InsertAliases, IdOf
    <2>3. aliases' \in [Ids -> Seq(Aliases)]
      <3>1. aliases[IdOf(c)] \o Stored(Request[c].aliases) \in Seq(Aliases)
        BY RequestType DEF RegistryTypeOK
      <3> QED
        BY <2>2, <3>1 DEF RegistryTypeOK
    <2>4. at' \in [Callers -> Answers]
      BY <2>1 DEF RegistryTypeOK, Succeeded
    <2> QED
      BY <1>4, <2>3, <2>4 DEF InsertAliases, RegistryTypeOK
  <1>5. ASSUME NEW c \in Callers, Lose(c) \/ Retry(c)
        PROVE  RegistryTypeOK'
    BY <1>5 DEF Lose, Retry, Reply, RegistryTypeOK, rowVars, Refused
  <1>6. ASSUME NEW s \in {"assets", "cis"}, NEW hasPool \in BOOLEAN, Restart(s, hasPool)
        PROVE  RegistryTypeOK'
    <2>1. at' \in [Callers -> Answers]
      BY <1>6 DEF Restart, RegistryTypeOK, Refused
    <2>2. seen' \in [Callers -> Bodies \union {None}]
      BY <1>6 DEF Restart, RegistryTypeOK
    <2> QED
      BY <1>6, <2>1, <2>2 DEF Restart, RegistryTypeOK, rowVars
  <1>7. ASSUME NEW k \in Claims, OpenClaim(k)
        PROVE  RegistryTypeOK'
    <2>1. hostless' \in [Claims -> BOOLEAN]
      <3>1. CASE Contains(aliases[ClaimAsset[k]], Hostname)
        <4>1. hostless' = [hostless EXCEPT ![k] = FALSE]
          BY <1>7, <3>1 DEF OpenClaim
        <4> QED
          BY <4>1 DEF RegistryTypeOK
      <3>2. CASE ~Contains(aliases[ClaimAsset[k]], Hostname)
        <4>1. hostless' = [hostless EXCEPT ![k] = TRUE]
          BY <1>7, <3>2 DEF OpenClaim
        <4> QED
          BY <4>1 DEF RegistryTypeOK
      <3> QED
        BY <3>1, <3>2
    <2>2. inserting' \in [Claims -> SUBSET Ids]
      BY <1>7 DEF OpenClaim, RegistryTypeOK, Ids
    <2> QED
      BY <1>7, <2>1, <2>2 DEF OpenClaim, RegistryTypeOK, rowVars
  <1>8. ASSUME NEW k \in Claims, CommitClaim(k)
        PROVE  RegistryTypeOK'
    <2>1. rows' \in [Ids -> Bodies \union {None}]
      BY <1>8 DEF CommitClaim, RegistryTypeOK
    <2>2. aliases' \in [Ids -> Seq(Aliases)]
      <3>1. Append(aliases[ClaimAsset[k]], Hostname) \in Seq(Aliases)
        BY DEF RegistryTypeOK, Ids
      <3>2. CASE hostless[k]
        BY <1>8, <3>1, <3>2 DEF CommitClaim, RegistryTypeOK
      <3>3. CASE ~hostless[k]
        BY <1>8, <3>3 DEF CommitClaim, RegistryTypeOK
      <3> QED
        BY <3>2, <3>3
    <2> QED
      BY <1>8, <2>1, <2>2 DEF CommitClaim, RegistryTypeOK
  <1>9. ASSUME NEW k \in Claims, AbortClaim(k)
        PROVE  RegistryTypeOK'
    BY <1>9 DEF AbortClaim, RegistryTypeOK, rowVars
  <1>10. ASSUME NEW x \in Cis, NEW y \in Cis, Relate(x, y)
         PROVE  RegistryTypeOK'
    BY <1>10 DEF Relate, RegistryTypeOK
  <1>11. CASE UNCHANGED registryVars
    BY <1>11 DEF registryVars, RegistryTypeOK
  <1> QED
    BY <1>1, <1>2, <1>3, <1>4, <1>5, <1>6, <1>7, <1>8, <1>9, <1>10, <1>11
    DEF RegistryNext, Handler
-----------------------------------------------------------------------------
(* What one step does to the rows: nothing is rebound.                     *)

LEMMA RowsAreKept ==
  ASSUME RegistryInv, [RegistryNext]_registryVars, NEW i \in Ids, rows[i] # None
  PROVE  rows'[i] = rows[i] /\ creator'[i] = creator[i]
  <1>1. ASSUME NEW c \in Callers, Insert(c)
        PROVE  rows'[i] = rows[i] /\ creator'[i] = creator[i]
    <2>1. CASE UNCHANGED <<rows, creator>>
      BY <2>1
    <2>2. CASE /\ rows[IdOf(c)] = None
               /\ rows' = [rows EXCEPT ![IdOf(c)] = BodyOf(c)]
               /\ creator' = [creator EXCEPT ![IdOf(c)] = c]
      BY <2>2 DEF RegistryInv, RegistryTypeOK
    <2> QED
      BY <1>1, <2>1, <2>2 DEF Insert, IdOf, BodyOf
  <1>2. ASSUME NEW k \in Claims, CommitClaim(k)
        PROVE  rows'[i] = rows[i] /\ creator'[i] = creator[i]
    <2>1. i \notin inserting[k]
      BY DEF RegistryInv, InsertsAreNew
    <2> QED
      BY <1>2, <2>1 DEF CommitClaim
  <1>3. CASE UNCHANGED <<rows, creator>>
    BY <1>3
  <1> QED
    BY <1>1, <1>2, <1>3 DEF RegistryNext, Handler, RetrieveRow, Compare, InsertAliases,
       Lose, Retry, Restart, OpenClaim, AbortClaim, Relate, rowVars, registryVars

(* Aliases are only ever added.                                            *)
LEMMA AliasesAreKept ==
  ASSUME RegistryInv, [RegistryNext]_registryVars, NEW i \in Ids, NEW a \in Aliases,
         Contains(aliases[i], a)
  PROVE  Contains(aliases'[i], a)
  <1> DEFINE list == aliases[i]
  <1>0. list \in Seq(Aliases) /\ Contains(list, a)
    BY DEF RegistryInv, RegistryTypeOK
  <1>1. PICK n \in 1 .. Len(list) : list[n] = a
    BY DEF Contains
  <1>2. ASSUME NEW more \in Seq(Aliases)
        PROVE  Contains(list \o more, a)
    <2>1. n \in 1 .. Len(list \o more) /\ (list \o more)[n] = a
      BY <1>0, <1>1, <1>2
    <2> HIDE DEF list
    <2> QED
      BY <2>1 DEF Contains
  <1>3. ASSUME NEW c \in Callers, InsertAliases(c)
        PROVE  Contains(aliases'[i], a)
    <2>1. aliases'[i] = list \/ aliases'[i] = list \o Stored(Request[c].aliases)
      BY <1>3, RequestType DEF InsertAliases, RegistryInv, RegistryTypeOK, IdOf
    <2>2. Stored(Request[c].aliases) \in Seq(Aliases)
      BY RequestType
    <2> HIDE DEF list
    <2>3. Contains(list \o Stored(Request[c].aliases), a)
      BY <1>2, <2>2
    <2>4. Contains(list, a)
      BY <1>0
    <2> QED
      BY <2>1, <2>3, <2>4
  <1>4. ASSUME NEW k \in Claims, CommitClaim(k)
        PROVE  Contains(aliases'[i], a)
    <2>1. aliases'[i] = list \/ aliases'[i] = Append(list, Hostname)
      BY <1>4 DEF CommitClaim, RegistryInv, RegistryTypeOK, Ids
    <2>2. Append(list, Hostname) = list \o <<Hostname>>
      BY <1>0, AppendIsConcat
    <2>3. <<Hostname>> \in Seq(Aliases)
      OBVIOUS
    <2> HIDE DEF list
    <2>4. aliases'[i] = list \/ aliases'[i] = list \o <<Hostname>>
      BY <2>1, <2>2
    <2> QED
      BY <1>0, <1>2, <2>3, <2>4, Zenon
  <1>5. CASE UNCHANGED aliases
    BY <1>5
  <1> QED
    BY <1>3, <1>4, <1>5 DEF RegistryNext, Handler, RetrieveRow, Compare, Insert,
       Lose, Retry, Restart, OpenClaim, AbortClaim, Relate, rowVars, registryVars
-----------------------------------------------------------------------------
(* The invariant.                                                          *)

LEMMA RegistryInvInit == RegistryInit => RegistryInv
  BY RegistryTypeInit DEF RegistryInv, RegistryInit, HandlersKnowTheRow, InsertsAreNew, CreatedIsWhole

(* What a caller is told in one step, and of what.                         *)
LEMMA AnswerStep ==
  ASSUME RegistryInv, [RegistryNext]_registryVars, NEW c \in Callers
  PROVE  \/ at'[c] = at[c] /\ seen'[c] = seen[c]
         \/ at'[c] \in {"idle", "inserting"} \union Refused
         \/ at'[c] = "retrieved" /\ seen'[c] = rows[IdOf(c)] /\ rows[IdOf(c)] # None
         \/ at'[c] = "repeated" /\ rows[IdOf(c)] = BodyOf(c)
         \/ /\ at'[c] = "aliasing" /\ rows[IdOf(c)] = None
            /\ rows'[IdOf(c)] = BodyOf(c) /\ creator'[IdOf(c)] = c
         \/ /\ at'[c] = "created" /\ at[c] = "aliasing"
            /\ aliases'[IdOf(c)] = aliases[IdOf(c)] \o Stored(Request[c].aliases)
  <1>0. RegistryTypeOK /\ IdOf(c) \in Ids
    BY RequestType DEF RegistryInv
  <1>1. CASE RetrieveRow(c)
    <2>1. /\ at'[c] = (CASE ~Request[c].token -> "forbidden"
                         [] Request[c].token /\ ~connected[ServiceOf(IdOf(c))] -> "unavailable"
                         [] OTHER -> IF rows[IdOf(c)] = None THEN "inserting" ELSE "retrieved")
          /\ seen'[c] = IF Request[c].token /\ connected[ServiceOf(IdOf(c))]
                        THEN rows[IdOf(c)] ELSE None
      BY <1>0, <1>1 DEF RetrieveRow, Reply, RegistryTypeOK, IdOf
    <2>2. CASE ~(Request[c].token /\ connected[ServiceOf(IdOf(c))])
      <3>1. at'[c] \in {"forbidden", "unavailable"}
        BY <2>1, <2>2
      <3> QED
        BY <3>1 DEF Refused
    <2>3. CASE Request[c].token /\ connected[ServiceOf(IdOf(c))]
      <3>1. /\ at'[c] = IF rows[IdOf(c)] = None THEN "inserting" ELSE "retrieved"
            /\ seen'[c] = rows[IdOf(c)]
        BY <2>1, <2>3
      <3> QED
        BY <3>1
    <2> QED
      BY <2>2, <2>3
  <1>2. CASE Compare(c)
    <2>1. seen[c] = rows[IdOf(c)]
      BY <1>2 DEF RegistryInv, HandlersKnowTheRow, Compare
    <2>2. \/ at'[c] \in {"error", "conflict"}
          \/ at'[c] = "repeated" /\ seen[c] = BodyOf(c)
      BY <1>0, <1>2 DEF Compare, Reply, RegistryTypeOK, BodyOf
    <2> QED
      BY <2>1, <2>2 DEF Refused
  <1>3. CASE Insert(c)
    <2>1. CASE Reply(c, "error")
      <3>1. at'[c] = "error"
        BY <1>0, <2>1 DEF Reply, RegistryTypeOK
      <3> QED
        BY <3>1 DEF Refused
    <2>2. CASE /\ rows[IdOf(c)] = None
               /\ rows' = [rows EXCEPT ![IdOf(c)] = BodyOf(c)]
               /\ creator' = [creator EXCEPT ![IdOf(c)] = c]
               /\ Reply(c, "aliasing")
      <3>1. at'[c] = "aliasing"
        BY <1>0, <2>2 DEF Reply, RegistryTypeOK
      <3>2. rows'[IdOf(c)] = BodyOf(c) /\ creator'[IdOf(c)] = c
        BY <1>0, <2>2 DEF RegistryTypeOK
      <3> QED
        BY <2>2, <3>1, <3>2
    <2> QED
      BY <1>3, <2>1, <2>2 DEF Insert, IdOf, BodyOf
  <1>4. CASE InsertAliases(c)
    <2>1. at'[c] = "created" /\ at[c] = "aliasing"
      BY <1>0, <1>4 DEF InsertAliases, Reply, RegistryTypeOK
    <2>2. aliases'[IdOf(c)] = aliases[IdOf(c)] \o Stored(Request[c].aliases)
      BY <1>0, <1>4 DEF InsertAliases, RegistryTypeOK, IdOf
    <2> QED
      BY <2>1, <2>2
  <1>5. CASE Lose(c) \/ Retry(c)
    <2>1. at'[c] \in {"idle", "lost"}
      BY <1>0, <1>5 DEF Lose, Retry, Reply, RegistryTypeOK
    <2> QED
      BY <2>1 DEF Refused
  <1>6. ASSUME NEW d \in Callers, d # c, Handler(d) \/ Lose(d) \/ Retry(d)
        PROVE  at'[c] = at[c] /\ seen'[c] = seen[c]
    <2>1. at' = [at EXCEPT ![d] = at'[d]]
      BY <1>0, <1>6 DEF Handler, RetrieveRow, Compare, Insert, InsertAliases, Lose, Retry,
         Reply, RegistryTypeOK
    <2>2. seen' = [seen EXCEPT ![d] = seen'[d]]
      BY <1>0, <1>6 DEF Handler, RetrieveRow, Compare, Insert, InsertAliases, Lose, Retry,
         RegistryTypeOK
    <2> QED
      BY <1>0, <1>6, <2>1, <2>2 DEF RegistryTypeOK
  <1>7. ASSUME NEW s \in {"assets", "cis"}, NEW hasPool \in BOOLEAN, Restart(s, hasPool)
        PROVE  \/ at'[c] = at[c] /\ seen'[c] = seen[c]
               \/ at'[c] \in Refused
    BY <1>7 DEF Restart, Refused
  <1>8. CASE UNCHANGED <<at, seen>>
    BY <1>8
  <1> QED
    BY <1>1, <1>2, <1>3, <1>4, <1>5, <1>6, <1>7, <1>8 DEF RegistryNext, Handler,
       OpenClaim, CommitClaim, AbortClaim, Relate, registryVars
-----------------------------------------------------------------------------
LEMMA KnowStep ==
  ASSUME RegistryInv, [RegistryNext]_registryVars
  PROVE  HandlersKnowTheRow'
  <1> SUFFICES ASSUME NEW c \in Callers
               PROVE  /\ at'[c] = "retrieved" => seen'[c] = rows'[IdOf(c)] /\ seen'[c] # None
                      /\ at'[c] \in {"aliasing", "created", "repeated"} =>
                           rows'[IdOf(c)] = BodyOf(c)
                      /\ at'[c] \in {"aliasing", "created"} => creator'[IdOf(c)] = c
    BY DEF HandlersKnowTheRow, IdOf, BodyOf
  <1>0. /\ IdOf(c) \in Ids /\ BodyOf(c) # None
        /\ rows[IdOf(c)] # None => /\ rows'[IdOf(c)] = rows[IdOf(c)]
                                   /\ creator'[IdOf(c)] = creator[IdOf(c)]
    BY RequestType, RowsAreKept
  <1>1. /\ at[c] = "retrieved" => seen[c] = rows[IdOf(c)] /\ seen[c] # None
        /\ at[c] \in {"aliasing", "created", "repeated"} => rows[IdOf(c)] = BodyOf(c)
        /\ at[c] \in {"aliasing", "created"} => creator[IdOf(c)] = c
    BY DEF RegistryInv, HandlersKnowTheRow
  <1>2. CASE at'[c] = at[c] /\ seen'[c] = seen[c]
    BY <1>0, <1>1, <1>2
  <1>3. CASE at'[c] \in {"idle", "inserting"} \union Refused
    BY <1>3 DEF Refused
  <1>4. CASE at'[c] = "retrieved" /\ seen'[c] = rows[IdOf(c)] /\ rows[IdOf(c)] # None
    BY <1>0, <1>4
  <1>5. CASE at'[c] = "repeated" /\ rows[IdOf(c)] = BodyOf(c)
    BY <1>0, <1>5
  <1>6. CASE /\ at'[c] = "aliasing"
             /\ rows'[IdOf(c)] = BodyOf(c) /\ creator'[IdOf(c)] = c
    BY <1>6
  <1>7. CASE at'[c] = "created" /\ at[c] = "aliasing"
    BY <1>0, <1>1, <1>7
  <1> QED
    BY <1>2, <1>3, <1>4, <1>5, <1>6, <1>7, AnswerStep

(* Who waits for an uncommitted row does not insert it as well.            *)
LEMMA NewStep ==
  ASSUME RegistryInv, [RegistryNext]_registryVars
  PROVE  InsertsAreNew'
  <1>0. RegistryTypeOK /\ InsertsAreNew
    BY DEF RegistryInv
  <1>1. ASSUME NEW c \in Callers, Insert(c)
        PROVE  InsertsAreNew'
    <2>1. /\ inserting' = inserting
          /\ \A k \in Claims : IdOf(c) \notin inserting[k]
          /\ \A i \in Ids : i # IdOf(c) => rows'[i] = rows[i]
      <3>1. CASE UNCHANGED rows
        BY <1>1, <3>1 DEF Insert, IdOf
      <3>2. CASE rows' = [rows EXCEPT ![IdOf(c)] = BodyOf(c)]
        BY <1>0, <1>1, <3>2 DEF Insert, IdOf, RegistryTypeOK
      <3> QED
        BY <1>1, <3>1, <3>2 DEF Insert, IdOf, BodyOf
    <2> QED
      BY <1>0, <2>1 DEF InsertsAreNew, RegistryTypeOK
  <1>2. ASSUME NEW k \in Claims, OpenClaim(k)
        PROVE  InsertsAreNew'
    <2>1. /\ rows' = rows
          /\ inserting' = [inserting EXCEPT ![k] = {i \in {ClaimAsset[k], ClaimCi[k]} : rows[i] = None}]
          /\ \A j \in Claims : {ClaimAsset[k], ClaimCi[k]} \intersect inserting[j] = {}
      BY <1>2 DEF OpenClaim, rowVars
    <2> QED
      BY <1>0, <2>1 DEF InsertsAreNew, RegistryTypeOK
  <1>3. ASSUME NEW k \in Claims, CommitClaim(k)
        PROVE  InsertsAreNew'
    <2>1. /\ inserting' = [inserting EXCEPT ![k] = {}]
          /\ rows' = [i \in Ids |-> IF i \in inserting[k] THEN PipelineBody[i] ELSE rows[i]]
      BY <1>3 DEF CommitClaim
    <2> QED
      BY <1>0, <2>1 DEF InsertsAreNew, RegistryTypeOK
  <1>4. ASSUME NEW k \in Claims, AbortClaim(k)
        PROVE  InsertsAreNew'
    BY <1>0, <1>4 DEF AbortClaim, rowVars, InsertsAreNew, RegistryTypeOK
  <1>5. CASE UNCHANGED <<rows, inserting>>
    BY <1>0, <1>5 DEF InsertsAreNew
  <1> QED
    BY <1>1, <1>2, <1>3, <1>4, <1>5 DEF RegistryNext, Handler, RetrieveRow, Compare,
       InsertAliases, Lose, Retry, Restart, Relate, rowVars, registryVars

LEMMA WholeStep ==
  ASSUME RegistryInv, [RegistryNext]_registryVars, HandlersKnowTheRow'
  PROVE  CreatedIsWhole'
  <1> SUFFICES ASSUME NEW c \in Callers, at'[c] = "created",
                      NEW n \in DOMAIN Request[c].aliases
               PROVE  /\ rows'[IdOf(c)] = BodyOf(c)
                      /\ Contains(aliases'[IdOf(c)], Rounded[Request[c].aliases[n]])
    <2>1. ASSUME NEW c \in Callers, at'[c] = "created"
          PROVE  rows'[IdOf(c)] = BodyOf(c)
      BY <2>1 DEF HandlersKnowTheRow, IdOf, BodyOf
    <2> QED
      BY <2>1 DEF CreatedIsWhole, IdOf, BodyOf
  <1>1. rows'[IdOf(c)] = BodyOf(c)
    BY DEF HandlersKnowTheRow, IdOf, BodyOf
  <1> DEFINE a == Rounded[Request[c].aliases[n]]
             mine == Stored(Request[c].aliases)
  <1>2. IdOf(c) \in Ids /\ a \in Aliases /\ mine[n] = a
    <2>1. PICK m \in Nat : Request[c].aliases \in [1 .. m -> Aliases]
      BY RequestType
    <2>2. Request[c].aliases[n] \in Aliases
      BY <2>1
    <2> QED
      BY <2>2, RequestType DEF Stored
  <1>3. CASE at[c] = "created"
    <2>1. Contains(aliases[IdOf(c)], a)
      BY <1>3 DEF RegistryInv, CreatedIsWhole, IdOf
    <2> QED
      BY <1>1, <1>2, <2>1, AliasesAreKept
  <1>4. CASE aliases'[IdOf(c)] = aliases[IdOf(c)] \o mine
    <2> DEFINE list == aliases[IdOf(c)]
    <2>1. list \in Seq(Aliases) /\ mine \in Seq(Aliases) /\ n \in 1 .. Len(mine)
      BY <1>2, RequestType DEF RegistryInv, RegistryTypeOK
    <2> HIDE DEF list, mine
    <2>2. Len(list) + n \in 1 .. Len(list \o mine) /\ (list \o mine)[Len(list) + n] = mine[n]
      BY <2>1
    <2>3. Contains(list \o mine, mine[n])
      BY <2>2 DEF Contains
    <2> QED
      BY <1>1, <1>2, <1>4, <2>3 DEF list
  <1> QED
    BY <1>3, <1>4, AnswerStep DEF Refused

LEMMA RegistryInvStep == RegistryInv /\ [RegistryNext]_registryVars => RegistryInv'
  BY RegistryTypeStep, KnowStep, NewStep, WholeStep DEF RegistryInv

(* The inductive invariant holds throughout: what the theorems rest on.    *)
THEOREM RegistryInvariant == RegistrySpec => []RegistryInv
  BY RegistryInvInit, RegistryInvStep, PTL DEF RegistrySpec

(* Type correctness of the two services and of the pipeline's claims.      *)
THEOREM RegistryTypeCorrect == RegistrySpec => []RegistryTypeOK
  BY RegistryInvariant, PTL DEF RegistryInv

(* What a caller was told "created" stays there whole.                     *)
THEOREM Whole == RegistrySpec => []CreatedIsWhole
  BY RegistryInvariant, PTL DEF RegistryInv
-----------------------------------------------------------------------------
(* The refinement.                                                         *)

AnswerOf(c) ==
  IF at[c] \in Succeeded THEN at[c] ELSE IF at[c] \in Refused THEN "refused" ELSE "none"

(* Every step is the binding of one identifier by a caller, a commit of    *)
(* rows of the pipeline, answers, or a stutter.                            *)
LEMMA StepBinds ==
  ASSUME RegistryInv, RegistryInv', [RegistryNext]_registryVars
  PROVE  [Binding!Next]_(Binding!vars)
  <1>0. RegistryTypeOK /\ RegistryTypeOK'
    BY DEF RegistryInv
  <1>1. ASSUME rows' = rows, creator' = creator
        PROVE  Binding!Answers
    <2>1. [c \in Callers |-> AnswerOf(c)]' \in
            [Callers -> {"none", "created", "repeated", "refused"}]
      BY DEF AnswerOf, Succeeded
    <2>2. ASSUME NEW c \in Callers
          PROVE  /\ AnswerOf(c)' = "created" => creator[IdOf(c)] = c
                 /\ AnswerOf(c)' = "repeated" => rows[IdOf(c)] = BodyOf(c)
      <3>1. /\ AnswerOf(c)' = "created" => at'[c] = "created"
            /\ AnswerOf(c)' = "repeated" => at'[c] = "repeated"
        BY DEF AnswerOf, Succeeded
      <3>2. /\ at'[c] = "created" => creator'[IdOf(c)] = c
            /\ at'[c] = "repeated" => rows'[IdOf(c)] = BodyOf(c)
        BY DEF RegistryInv, HandlersKnowTheRow, IdOf, BodyOf
      <3> QED
        BY <1>1, <3>1, <3>2
    <2> QED
      BY <1>1, <2>1, <2>2 DEF Binding!Answers, AnswerOf, IdOf, BodyOf
  <1>2. ASSUME NEW c \in Callers, Insert(c)
        PROVE  [Binding!Next]_(Binding!vars)
    <2>1. CASE UNCHANGED <<rows, creator>>
      BY <1>1, <2>1 DEF Binding!Next
    <2>2. CASE /\ rows[IdOf(c)] = None
               /\ rows' = [rows EXCEPT ![IdOf(c)] = BodyOf(c)]
               /\ creator' = [creator EXCEPT ![IdOf(c)] = c]
               /\ Reply(c, "aliasing")
      <3>1. at[c] = "inserting" /\ at' = [at EXCEPT ![c] = "aliasing"]
        BY <1>2, <2>2 DEF Insert, Reply
      <3>2. \A d \in Callers : AnswerOf(d)' = AnswerOf(d)
        BY <1>0, <3>1 DEF AnswerOf, Succeeded, Refused, RegistryTypeOK
      <3>3. Binding!Bind(c)
        BY <2>2, <3>2 DEF Binding!Bind, AnswerOf, IdOf, BodyOf
      <3> QED
        BY <3>3 DEF Binding!Next
    <2> QED
      BY <1>2, <2>1, <2>2 DEF Insert, IdOf, BodyOf
  <1>3. ASSUME NEW k \in Claims, CommitClaim(k)
        PROVE  Binding!BindOthers
    <2>1. /\ rows' \in [Ids -> Bodies \union {None}]
          /\ creator' = creator /\ at' = at
      BY <1>0, <1>3 DEF CommitClaim, RegistryTypeOK
    <2>2. \A i \in Ids : rows[i] # None => rows'[i] = rows[i]
      BY RowsAreKept
    <2> QED
      BY <2>1, <2>2 DEF Binding!BindOthers
  <1>4. CASE UNCHANGED <<rows, creator>>
    BY <1>1, <1>4 DEF Binding!Next
  <1> QED
    BY <1>2, <1>3, <1>4 DEF Binding!Next, RegistryNext, Handler, RetrieveRow, Compare,
       InsertAliases, Lose, Retry, Restart, OpenClaim, AbortClaim, Relate, rowVars, registryVars

(* Create keeps the promise of one binding: whatever is retried, lost,     *)
(* concurrent or written by the pipeline, an identifier is bound once.     *)
THEOREM Refinement == RegistrySpec => ImplementsOneBinding
  <1>1. RegistryInit => Binding!Init
    BY DEF RegistryInit, Binding!Init, Succeeded, Refused
  <1> QED
    BY <1>1, RegistryInvariant, StepBinds, PTL DEF RegistrySpec, ImplementsOneBinding, Binding!Spec

-----------------------------------------------------------------------------
(* The services side by side.                                              *)

(* The composition does what each component does: a behaviour of it is one *)
(* of the registry, of the drafts and of the rules at once, so that every  *)
(* invariant proved of one of them holds where they are checked together.  *)
THEOREM ServicesCompose == Spec => RegistrySpec /\ DraftsSpec /\ ResolutionSpec
  <1>1. Init => RegistryInit /\ DraftsInit /\ ResolutionInit
    BY DEF Init
  <1>2. [Next]_vars => [RegistryNext]_registryVars
    BY DEF Next, vars
  <1>3. [Next]_vars => [DraftsNext]_draftsVars
    BY DEF Next, vars
  <1>4. [Next]_vars => [ResolutionNext]_resolutionVars
    BY DEF Next, vars
  <1> QED
    BY <1>1, <1>2, <1>3, <1>4, PTL DEF Spec, RegistrySpec, DraftsSpec, ResolutionSpec

(* TypeOK: the services keep their types while they run side by side.      *)
THEOREM ServicesTypeCorrect == Spec => []TypeOK
  BY ServicesCompose, RegistryTypeCorrect, DraftsTypeCorrect, PTL DEF TypeOK
=============================================================================

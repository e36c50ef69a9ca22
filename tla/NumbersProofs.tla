---------------------------- MODULE NumbersProofs ----------------------------
(***************************************************************************)
(* What the numbering of purchases keeps, whatever else the system around  *)
(* it does: lemmas for every module that triggers purchases.               *)
(***************************************************************************)
EXTENDS PurchaseNumbers, FiniteSetTheorems, TLAPS

\* Any number of creations, triggers and deletions at once: no two purchases
\* share a number, and a link names a purchase made for the row.
NumbersSound ==
    /\ NumbersType
    /\ IsFiniteSet(purchases)
    /\ \A p, q \in purchases : p.number = q.number => p = q
    /\ \A o \in Origins : link[o] # 0 => [number |-> link[o], origin |-> o] \in purchases

\* One at a time: a row that has a purchase has its link.
LinksExact ==
    \A p \in purchases : p.origin # None => link[p.origin] = p.number

\* A request that is about to create the purchase of a row has found no link.
FoundNoLink(r) ==
    req[r].do \in {"countPurchases", "insertPurchase"} /\ req[r].origin # None
        => link[req[r].origin] = 0

LEMMA NumbersStart ==
    ASSUME NumbersInit
    PROVE  NumbersSound /\ LinksExact
BY FS_EmptySet DEF NumbersInit, NumbersSound, NumbersType, LinksExact

LEMMA NextNumberType ==
    ASSUME NumbersSound
    PROVE  NextNumber \in Nat \ {0}
<1>1. Cardinality(purchases) \in Nat
  BY FS_CardinalityType DEF NumbersSound
<1>2. QED
  BY <1>1 DEF NextNumber

LEMMA InsertKeepsNumbers ==
    ASSUME NumbersSound, NEW r, req[r] \in NumbersWork, InsertPurchase(r)
    PROVE  /\ NumbersSound'
           /\ LinksExact /\ FoundNoLink(r) => LinksExact'
<1> DEFINE o == req[r].origin
           n == req[r].number
           new == [number |-> n, origin |-> o]
<1>1. o \in Origins \cup {None} /\ n \in Nat \ {0}
  BY DEF InsertPurchase, NumbersWork
<1>2. purchases \subseteq Purchase /\ link \in [Origins -> Nat] /\ None \notin Origins
  BY PurchaseNumbersAssumption DEF NumbersSound, NumbersType
<1>3. CASE Taken(r)
  BY <1>3 DEF InsertPurchase, NumbersSound, NumbersType, LinksExact
<1>4. CASE ~Taken(r)
  <2>1. /\ purchases' = purchases \cup {new}
        /\ link' = IF o = None THEN link ELSE [link EXCEPT ![o] = n]
    BY <1>4 DEF InsertPurchase
  <2>2. \A p \in purchases : p.number # n
    BY <1>4 DEF Taken, Numbers
  <2>3. new \in Purchase /\ new.number = n /\ new.origin = o
    BY <1>1 DEF Purchase
  <2>4. IsFiniteSet(purchases')
    BY <2>1, FS_AddElement DEF NumbersSound
  <2>5. NumbersType'
    BY <1>1, <1>2, <2>1, <2>3 DEF NumbersType
  <2>6. \A p, q \in purchases' : p.number = q.number => p = q
    BY <2>1, <2>2, <2>3 DEF NumbersSound
  <2>7. \A a \in Origins : link'[a] = IF a = o THEN n ELSE link[a]
    BY <1>1, <1>2, <2>1
  <2>8. ASSUME NEW a \in Origins, link'[a] # 0
        PROVE  [number |-> link'[a], origin |-> a] \in purchases'
    BY <2>1, <2>7, <2>8 DEF NumbersSound
  <2>9. ASSUME LinksExact, FoundNoLink(r), NEW p \in purchases', p.origin # None
        PROVE  link'[p.origin] = p.number
    <3>1. CASE p = new
      BY <1>1, <2>3, <2>7, <2>9, <3>1
    <3>2. CASE p \in purchases
      <4>1. p.origin \in Origins /\ p.number \in Nat \ {0}
        BY <1>2, <2>9, <3>2 DEF Purchase
      <4>2. link[p.origin] = p.number
        BY <2>9, <3>2 DEF LinksExact
      <4>3. p.origin # o
        BY <2>9, <4>1, <4>2 DEF FoundNoLink, InsertPurchase
      <4>4. QED
        BY <2>7, <4>1, <4>2, <4>3
    <3>3. QED
      BY <2>1, <3>1, <3>2
  <2> HIDE DEF new, o, n
  <2>10. QED
    BY <2>4, <2>5, <2>6, <2>8, <2>9 DEF NumbersSound, LinksExact
<1>5. QED
  BY <1>3, <1>4

LEMMA DeleteKeepsNumbers ==
    ASSUME NumbersSound, NEW r, DeleteDraft(r)
    PROVE  NumbersSound' /\ (LinksExact => LinksExact')
<1>1. PICK p \in purchases :
        /\ purchases' = purchases \ {p}
        /\ link' = [o \in Origins |-> IF link[o] = p.number THEN 0 ELSE link[o]]
  BY DEF DeleteDraft
<1>2. purchases \subseteq Purchase /\ link \in [Origins -> Nat] /\ None \notin Origins
  BY PurchaseNumbersAssumption DEF NumbersSound, NumbersType
<1>3. IsFiniteSet(purchases')
  BY <1>1, FS_Subset DEF NumbersSound
<1>4. NumbersType'
  BY <1>1, <1>2 DEF NumbersType
<1>5. ASSUME NEW o \in Origins, link'[o] # 0
      PROVE  [number |-> link'[o], origin |-> o] \in purchases'
  <2>1. link'[o] = link[o] /\ link[o] # p.number
    BY <1>1, <1>5
  <2>2. [number |-> link[o], origin |-> o] \in purchases
    BY <1>5, <2>1 DEF NumbersSound
  <2>3. QED
    BY <1>1, <2>1, <2>2
<1>6. ASSUME LinksExact, NEW q \in purchases', q.origin # None
      PROVE  link'[q.origin] = q.number
  <2>1. q \in purchases /\ q # p /\ q.origin \in Origins
    BY <1>1, <1>2, <1>6 DEF Purchase
  <2>2. q.number # p.number /\ link[q.origin] = q.number
    BY <1>6, <2>1 DEF NumbersSound, LinksExact
  <2>3. QED
    BY <1>1, <2>1, <2>2
<1>7. QED
  BY <1>1, <1>3, <1>4, <1>5, <1>6 DEF NumbersSound, LinksExact

LEMMA SameNumbers ==
    ASSUME NumbersSound, purchases' = purchases, link' = link
    PROVE  NumbersSound' /\ (LinksExact => LinksExact')
BY DEF NumbersSound, NumbersType, LinksExact

-----------------------------------------------------------------------------
(* Sums over finite sets, which the library computes in an order of its    *)
(* own choice.                                                             *)

LEMMA NaturalNumbers ==
    ASSUME NEW A \in SUBSET Nat, 0 \in A, \A n \in A : n + 1 \in A
    PROVE  A = Nat
<1> DEFINE Rest == Nat \ A
<1>1. CASE Rest # {}
  <2>1. PICK n \in Rest : \A m \in Rest : ~(<< m, n >> \in OpToRel(<, Nat))
    BY <1>1, NatLessThanWellFounded, WFMin, Zenon
  <2>2. n \in Nat /\ n # 0
    BY <2>1
  <2>3. n - 1 \in Nat /\ << n - 1, n >> \in OpToRel(<, Nat)
    BY <2>2 DEF OpToRel
  <2>4. n - 1 \in A
    BY <2>1, <2>2, <2>3
  <2>5. (n - 1) + 1 = n
    BY <2>2
  <2>6. QED
    BY <2>1, <2>4, <2>5
<1>2. QED
  BY <1>1

\* A family of subsets of a finite set has a smallest one.
LEMMA Smallest ==
    ASSUME NEW S, IsFiniteSet(S), NEW F \in SUBSET (SUBSET S), F # {}
    PROVE  \E t \in F : \A u \in F : u \subseteq t => u = t
<1>1. F \subseteq FiniteSubsetsOf(S)
  BY FS_FiniteSubsetsOfFinite
<1>2. PICK t \in F : \A u \in F : ~(<< u, t >> \in StrictSubsetOrdering(S))
  BY <1>1, FS_StrictSubsetOrderingWellFounded, WFMin, Zenon
<1>3. QED
  BY <1>2 DEF StrictSubsetOrdering

AnElement(s) == CHOOSE x \in s : TRUE
SumUpTo(f, g, s) == IF s = {} THEN 0 ELSE f[AnElement(s)] + g[s \ {AnElement(s)}]
IsSum(f, S, g) == g = [s \in SUBSET S |-> SumUpTo(f, g, s)]

LEMMA SumExists ==
    ASSUME NEW f, NEW S, IsFiniteSet(S)
    PROVE  \E g : IsSum(f, S, g)
<1> DEFINE Small(n) == {s \in SUBSET S : Cardinality(s) <= n}
           Computed == {n \in Nat : \E g : g = [s \in Small(n) |-> SumUpTo(f, g, s)]}
<1>1. \A s \in SUBSET S : IsFiniteSet(s) /\ Cardinality(s) \in Nat
  BY FS_Subset, FS_CardinalityType
<1>2. \A s \in SUBSET S : s # {} =>
            /\ AnElement(s) \in s /\ s \ {AnElement(s)} \in SUBSET S
            /\ Cardinality(s \ {AnElement(s)}) = Cardinality(s) - 1
  BY <1>1, FS_RemoveElement DEF AnElement
<1>3. 0 \in Computed
  <2> DEFINE g == [s \in Small(0) |-> 0]
  <2>1. \A s \in Small(0) : s = {}
    BY <1>1, FS_EmptySet
  <2>2. g = [s \in Small(0) |-> SumUpTo(f, g, s)]
    BY <2>1 DEF SumUpTo
  <2>3. QED
    BY <2>2
<1>4. ASSUME NEW n \in Computed
      PROVE  n + 1 \in Computed
  <2>1. PICK g : g = [s \in Small(n) |-> SumUpTo(f, g, s)]
    OBVIOUS
  <2> DEFINE h == [s \in Small(n + 1) |-> SumUpTo(f, g, s)]
  <2>2. \A s \in Small(n) : s \in Small(n + 1) /\ h[s] = g[s]
    BY <1>1, <2>1
  <2>3. \A s \in Small(n + 1) : s # {} => s \ {AnElement(s)} \in Small(n)
    BY <1>1, <1>2
  <2>4. \A s \in Small(n + 1) : SumUpTo(f, g, s) = SumUpTo(f, h, s)
    BY <2>2, <2>3 DEF SumUpTo
  <2> HIDE DEF Small
  <2>5. h = [s \in Small(n + 1) |-> SumUpTo(f, h, s)]
    BY <2>4
  <2> HIDE DEF h
  <2>6. \E k : k = [s \in Small(n + 1) |-> SumUpTo(f, k, s)]
    BY <2>5
  <2>7. QED
    BY <2>6
<1>5. Cardinality(S) \in Computed
  <2>1. Computed = Nat
    <3> HIDE DEF Computed
    <3>1. Computed \in SUBSET Nat
      BY DEF Computed
    <3>2. QED
      BY <1>3, <1>4, <3>1, NaturalNumbers
  <2>2. QED
    BY <1>1, <2>1
<1>6. Small(Cardinality(S)) = SUBSET S
  BY <1>1, FS_Subset
<1>7. QED
  BY <1>5, <1>6 DEF IsSum

LEMMA SumIs ==
    ASSUME NEW f, NEW S, IsFiniteSet(S)
    PROVE  \E g : IsSum(f, S, g) /\ SumFunctionOnSet(f, S) = g[S]
<1> DEFINE iter == CHOOSE g : g = [s \in SUBSET S |->
              IF s = {} THEN 0 ELSE f[CHOOSE x \in s : TRUE] + g[s \ {CHOOSE x \in s : TRUE}]]
<1>1. SumFunctionOnSet(f, S) = iter[S]
  BY DEF SumFunctionOnSet, FoldFunctionOnSet, MapThenFoldSet
<1>2. \E g : g = [s \in SUBSET S |->
              IF s = {} THEN 0 ELSE f[CHOOSE x \in s : TRUE] + g[s \ {CHOOSE x \in s : TRUE}]]
  <2>1. PICK g : IsSum(f, S, g)
    BY SumExists
  <2>2. g = [s \in SUBSET S |->
              IF s = {} THEN 0 ELSE f[CHOOSE x \in s : TRUE] + g[s \ {CHOOSE x \in s : TRUE}]]
    BY <2>1 DEF IsSum, SumUpTo, AnElement
  <2>3. QED
    BY <2>2
<1>3. iter = [s \in SUBSET S |->
              IF s = {} THEN 0 ELSE f[CHOOSE x \in s : TRUE] + iter[s \ {CHOOSE x \in s : TRUE}]]
  BY <1>2
<1>4. IsSum(f, S, iter)
  BY <1>3 DEF IsSum, SumUpTo, AnElement
<1>5. QED
  BY <1>1, <1>4

LEMMA SumInt ==
    ASSUME NEW f, NEW S, IsFiniteSet(S), \A x \in S : f[x] \in Int, NEW g, IsSum(f, S, g)
    PROVE  \A t \in SUBSET S : g[t] \in Int
<1> DEFINE Bad == {t \in SUBSET S : g[t] \notin Int}
<1>1. CASE Bad # {}
  <2>1. PICK t \in Bad : \A u \in Bad : u \subseteq t => u = t
    <3>1. Bad \in SUBSET (SUBSET S)
      OBVIOUS
    <3> HIDE DEF Bad
    <3>2. QED
      BY <1>1, <3>1, Smallest
  <2>2. g[t] = SumUpTo(f, g, t)
    BY <2>1 DEF IsSum
  <2>3. t # {}
    BY <2>1, <2>2 DEF SumUpTo
  <2>4. AnElement(t) \in t
    BY <2>3 DEF AnElement
  <2>5. g[t \ {AnElement(t)}] \in Int
    BY <2>1, <2>4
  <2>6. QED
    BY <2>1, <2>2, <2>3, <2>4, <2>5 DEF SumUpTo
<1>2. QED
  BY <1>1

\* Any other order gives the same.
LEMMA SumAnyOrder ==
    ASSUME NEW f, NEW S, IsFiniteSet(S), \A x \in S : f[x] \in Int, NEW g, IsSum(f, S, g)
    PROVE  \A t \in SUBSET S : \A x \in t : g[t] = f[x] + g[t \ {x}]
<1> DEFINE Good(t) == \A x \in t : g[t] = f[x] + g[t \ {x}]
           Bad == {t \in SUBSET S : ~Good(t)}
<1>1. CASE Bad # {}
  <2>1. PICK t \in Bad : \A u \in Bad : u \subseteq t => u = t
    <3>1. Bad \in SUBSET (SUBSET S)
      OBVIOUS
    <3> HIDE DEF Bad
    <3>2. QED
      BY <1>1, <3>1, Smallest
  <2>2. PICK x \in t : g[t] # f[x] + g[t \ {x}]
    BY <2>1
  <2> DEFINE y == AnElement(t)
  <2>3. y \in t /\ g[t] = f[y] + g[t \ {y}]
    BY <2>1, <2>2 DEF IsSum, SumUpTo, AnElement
  <2>4. x # y
    BY <2>2, <2>3
  <2>5. Good(t \ {x}) /\ Good(t \ {y})
    BY <2>1, <2>2, <2>3
  <2> HIDE DEF y
  <2>6. g[t \ {y}] = f[x] + g[(t \ {y}) \ {x}] /\ g[t \ {x}] = f[y] + g[(t \ {x}) \ {y}]
    BY <2>2, <2>3, <2>4, <2>5
  <2>7. (t \ {y}) \ {x} = (t \ {x}) \ {y}
    OBVIOUS
  <2>8. g[(t \ {x}) \ {y}] \in Int /\ f[x] \in Int /\ f[y] \in Int
    BY <2>1, <2>2, <2>3, SumInt
  <2>9. g[t] = f[x] + g[t \ {x}]
    <3>1. \A a, b, c \in Int : a + (b + c) = b + (a + c)
      OBVIOUS
    <3>2. f[y] + (f[x] + g[(t \ {x}) \ {y}]) = f[x] + (f[y] + g[(t \ {x}) \ {y}])
      BY <2>8, <3>1
    <3>3. QED
      BY <2>3, <2>6, <2>7, <3>2, Zenon
  <2>10. QED
    BY <2>2, <2>9
<1>2. QED
  BY <1>1

\* It depends on no more than what is summed.
LEMMA SumAgrees ==
    ASSUME NEW f, NEW S, IsFiniteSet(S), NEW g, IsSum(f, S, g),
           NEW h, NEW T, NEW k, IsSum(h, T, k)
    PROVE  \A t \in SUBSET (S \cap T) : (\A x \in t : f[x] = h[x]) => g[t] = k[t]
<1> DEFINE Bad == {t \in SUBSET S : t \subseteq T /\ (\A x \in t : f[x] = h[x]) /\ g[t] # k[t]}
<1>1. CASE Bad # {}
  <2>1. PICK t \in Bad : \A u \in Bad : u \subseteq t => u = t
    <3>1. Bad \in SUBSET (SUBSET S)
      OBVIOUS
    <3> HIDE DEF Bad
    <3>2. QED
      BY <1>1, <3>1, Smallest
  <2>2. g[t] = SumUpTo(f, g, t) /\ k[t] = SumUpTo(h, k, t)
    BY <2>1 DEF IsSum
  <2>3. t # {}
    BY <2>1, <2>2 DEF SumUpTo
  <2>4. AnElement(t) \in t
    BY <2>3 DEF AnElement
  <2>5. g[t \ {AnElement(t)}] = k[t \ {AnElement(t)}] /\ f[AnElement(t)] = h[AnElement(t)]
    BY <2>1, <2>4
  <2>6. QED
    BY <2>1, <2>2, <2>3, <2>5 DEF SumUpTo
<1>2. QED
  BY <1>1

LEMMA SumOfNone ==
    ASSUME NEW f
    PROVE  SumFunctionOnSet(f, {}) = 0
<1>1. PICK g : IsSum(f, {}, g) /\ SumFunctionOnSet(f, {}) = g[{}]
  BY SumIs, FS_EmptySet
<1>2. QED
  BY <1>1 DEF IsSum, SumUpTo

LEMMA SumSame ==
    ASSUME NEW f, NEW h, NEW S, IsFiniteSet(S), \A x \in S : f[x] = h[x]
    PROVE  SumFunctionOnSet(f, S) = SumFunctionOnSet(h, S)
<1>1. PICK g : IsSum(f, S, g) /\ SumFunctionOnSet(f, S) = g[S]
  BY SumIs
<1>2. PICK k : IsSum(h, S, k) /\ SumFunctionOnSet(h, S) = k[S]
  BY SumIs
<1>3. QED
  BY <1>1, <1>2, SumAgrees

LEMMA SumSplit ==
    ASSUME NEW f, NEW S, IsFiniteSet(S), \A x \in S : f[x] \in Int, NEW x \in S
    PROVE  /\ SumFunctionOnSet(f, S) \in Int /\ SumFunctionOnSet(f, S \ {x}) \in Int
           /\ SumFunctionOnSet(f, S) = f[x] + SumFunctionOnSet(f, S \ {x})
<1>1. PICK g : IsSum(f, S, g) /\ SumFunctionOnSet(f, S) = g[S]
  BY SumIs
<1>2. IsFiniteSet(S \ {x})
  BY FS_RemoveElement
<1>3. PICK k : IsSum(f, S \ {x}, k) /\ SumFunctionOnSet(f, S \ {x}) = k[S \ {x}]
  BY <1>2, SumIs
<1>4. g[S \ {x}] = k[S \ {x}]
  BY <1>1, <1>3, SumAgrees
<1>5. g[S] = f[x] + g[S \ {x}] /\ g[S] \in Int /\ g[S \ {x}] \in Int
  <2>1. g[S] = f[x] + g[S \ {x}]
    BY <1>1, SumAnyOrder
  <2>2. \A t \in SUBSET S : g[t] \in Int
    BY <1>1, SumInt
  <2>3. QED
    BY <2>1, <2>2
<1>6. QED
  BY <1>1, <1>3, <1>4, <1>5

LEMMA SumIsInt ==
    ASSUME NEW f, NEW S, IsFiniteSet(S), \A x \in S : f[x] \in Int
    PROVE  SumFunctionOnSet(f, S) \in Int
BY SumIs, SumInt

LEMMA SumAdds ==
    ASSUME NEW f, NEW S, IsFiniteSet(S), NEW x, x \notin S,
           \A y \in S \cup {x} : f[y] \in Int
    PROVE  SumFunctionOnSet(f, S \cup {x}) = f[x] + SumFunctionOnSet(f, S)
<1>1. IsFiniteSet(S \cup {x}) /\ (S \cup {x}) \ {x} = S
  BY FS_AddElement
<1>2. QED
  BY <1>1, SumSplit

LEMMA SumOfZeros ==
    ASSUME NEW f, NEW S, IsFiniteSet(S), \A x \in S : f[x] = 0
    PROVE  SumFunctionOnSet(f, S) = 0
<1>1. PICK g : IsSum(f, S, g) /\ SumFunctionOnSet(f, S) = g[S]
  BY SumIs
<1> DEFINE Bad == {t \in SUBSET S : g[t] # 0}
<1>2. CASE Bad # {}
  <2>1. PICK t \in Bad : \A u \in Bad : u \subseteq t => u = t
    <3>1. Bad \in SUBSET (SUBSET S)
      OBVIOUS
    <3> HIDE DEF Bad
    <3>2. QED
      BY <1>2, <3>1, Smallest
  <2>2. g[t] = SumUpTo(f, g, t)
    BY <1>1, <2>1 DEF IsSum
  <2>3. t # {}
    BY <2>1, <2>2 DEF SumUpTo
  <2>4. AnElement(t) \in t
    BY <2>3 DEF AnElement
  <2>5. g[t \ {AnElement(t)}] = 0 /\ f[AnElement(t)] = 0
    BY <2>1, <2>4
  <2>6. QED
    BY <2>1, <2>2, <2>3, <2>5 DEF SumUpTo
<1>3. QED
  BY <1>1, <1>2

\* One of the numbers changes.
LEMMA SumChanges ==
    ASSUME NEW f, NEW h, NEW S, IsFiniteSet(S), NEW x \in S,
           \A y \in S : f[y] \in Int /\ h[y] \in Int, \A y \in S \ {x} : f[y] = h[y]
    PROVE  SumFunctionOnSet(h, S) = SumFunctionOnSet(f, S) + (h[x] - f[x])
<1>1. IsFiniteSet(S \ {x})
  BY FS_RemoveElement
<1>2. SumFunctionOnSet(f, S \ {x}) = SumFunctionOnSet(h, S \ {x})
  BY <1>1, SumSame
<1>3. /\ SumFunctionOnSet(f, S) = f[x] + SumFunctionOnSet(f, S \ {x})
      /\ SumFunctionOnSet(f, S \ {x}) \in Int
  BY SumSplit
<1>4. SumFunctionOnSet(h, S) = h[x] + SumFunctionOnSet(h, S \ {x})
  BY SumSplit
<1>5. QED
  BY <1>2, <1>3, <1>4

=============================================================================

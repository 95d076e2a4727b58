--------------------------- MODULE IxAccountsProofs ---------------------------
(***************************************************************************)
(* The properties of IxAccounts for all lists of accounts, nested however  *)
(* deep.                                                                   *)
(*                                                                         *)
(* The generator walks the groups by recursion.  What it computes is       *)
(* proved by induction on the depth of a list, in a first-order form: a    *)
(* property is the set of what has it, and the body of a recursive function*)
(* a function on functions.                                                *)
(***************************************************************************)
EXTENDS IxAccounts, WellFoundedInduction, SequenceTheorems, TLAPS

-----------------------------------------------------------------------------
(* Induction and recursion on a depth *)

(* A set of numbers that is not empty has a least one. *)
LEMMA LeastNumber ==
  ASSUME NEW N \in SUBSET Nat, N # {}
  PROVE  \E m \in N : \A n \in N : m <= n
<1> DEFINE Less == {ss \in Nat \X Nat : ss[1] < ss[2]}
<1>1. IsWellFoundedOn(Less, Nat)
  BY NatLessThanWellFounded DEF OpToRel
<1> HIDE DEF Less
<1>2. PICK m \in N : \A n \in N : <<n, m>> \notin Less
  BY <1>1, WFMin
<1>3. ASSUME NEW n \in N PROVE ~ (n < m)
  <2>1. <<n, m>> \in Nat \X Nat /\ <<n, m>>[1] = n /\ <<n, m>>[2] = m
    OBVIOUS
  <2> QED BY <1>2, <2>1 DEF Less
<1> QED BY <1>3

(* What an element has when all elements of less depth have it, they all   *)
(* have.                                                                   *)
LEMMA DepthInduction ==
  ASSUME NEW S, NEW d \in [S -> Nat], NEW P,
         \A x \in S : (\A y \in S : d[y] < d[x] => y \in P) => x \in P
  PROVE  \A x \in S : x \in P
<1> SUFFICES ASSUME NEW z \in S, z \notin P PROVE FALSE
  OBVIOUS
<1> DEFINE N == {d[x] : x \in S \ P}
<1>1. N \in SUBSET Nat /\ N # {}
  OBVIOUS
<1>2. PICK m \in N : \A n \in N : m <= n
  BY <1>1, LeastNumber
<1>3. PICK x \in S \ P : d[x] = m
  OBVIOUS
<1>4. \A y \in S : y \notin P => d[x] <= d[y]
  BY <1>2, <1>3
<1>5. \A y \in S : d[y] < d[x] => y \in P
  BY <1>4
<1> QED BY <1>3, <1>5

(* The body of a recursive function from S to T, as a function of the      *)
(* function it defines: at x it looks at elements of less depth only.      *)
Recurs(S, T, d, Body) ==
  /\ T # {}
  /\ d \in [S -> Nat]
  /\ Body \in [[S -> T] -> [S -> T]]
  /\ \A x \in S : \A g, h \in [S -> T] :
       (\A y \in S : d[y] < d[x] => g[y] = h[y]) => Body[g][x] = Body[h][x]

(* Such a definition has a solution. *)
LEMMA DepthRecursion ==
  ASSUME NEW S, NEW T, NEW d, NEW Body, Recurs(S, T, d, Body)
  PROVE  \E g \in [S -> T] : g = Body[g]
<1> USE DEF Recurs
<1> DEFINE Solves(g, n) == \A x \in S : d[x] < n => g[x] = Body[g][x]
           Solved == {n \in Nat : \E g \in [S -> T] : Solves(g, n)}
(* Up to depth n there is a solution, *)
<1>1. \A n \in Nat : n \in Solved
  <2>1. 0 \in Solved
    <3>1. PICK t \in T : TRUE
      OBVIOUS
    <3>2. [x \in S |-> t] \in [S -> T]
      OBVIOUS
    <3>3. \A x \in S : ~ (d[x] < 0)
      OBVIOUS
    <3> QED BY <3>2, <3>3
  <2>2. ASSUME NEW n \in Nat, n \in Solved PROVE n + 1 \in Solved
    <3>1. PICK g \in [S -> T] : Solves(g, n)
      BY <2>2
    <3> DEFINE h == Body[g]
    <3>2. h \in [S -> T]
      OBVIOUS
    <3>3. \A y \in S : d[y] < n => g[y] = h[y]
      BY <3>1
    <3>4. ASSUME NEW x \in S, d[x] < n + 1 PROVE h[x] = Body[h][x]
      <4>1. \A y \in S : d[y] < d[x] => d[y] < n
        BY <3>4
      <4>2. \A y \in S : d[y] < d[x] => g[y] = h[y]
        BY <3>3, <4>1
      <4> QED BY <3>2, <4>2
    <3>5. Solves(h, n + 1)
      BY <3>4
    <3> QED BY <3>2, <3>5
  <2> HIDE DEF Solved
  <2> DEFINE Rest == Nat \ Solved
  <2>3. SUFFICES ASSUME Rest # {} PROVE FALSE
    OBVIOUS
  <2>4. PICK m \in Rest : \A n \in Rest : m <= n
    BY <2>3, LeastNumber
  <2>5. m # 0 /\ m - 1 \in Nat
    BY <2>1
  <2>6. m - 1 \in Solved
    BY <2>4, <2>5
  <2>7. (m - 1) + 1 = m
    BY <2>5
  <2> QED BY <2>2, <2>5, <2>6, <2>7
(* and where two of them are solutions they are equal, *)
<1>2. ASSUME NEW n \in Nat, NEW g \in [S -> T], NEW h \in [S -> T], Solves(g, n), Solves(h, n)
      PROVE  \A x \in S : d[x] < n => g[x] = h[x]
  <2> DEFINE P == {x \in S : d[x] < n => g[x] = h[x]}
  <2>1. ASSUME NEW x \in S, \A y \in S : d[y] < d[x] => y \in P PROVE x \in P
    <3>1. SUFFICES ASSUME d[x] < n PROVE g[x] = h[x]
      OBVIOUS
    <3>2. \A y \in S : d[y] < d[x] => d[y] < n
      BY <3>1
    <3>3. \A y \in S : d[y] < d[x] => g[y] = h[y]
      BY <2>1, <3>2
    <3>4. Body[g][x] = Body[h][x]
      BY <3>3
    <3> QED BY <1>2, <3>1, <3>4
  <2> HIDE DEF P
  <2>2. \A x \in S : x \in P
    BY <2>1, DepthInduction
  <2> QED BY <2>2 DEF P
(* so that they may be put together. *)
<1> DEFINE Upto(n) == CHOOSE g \in [S -> T] : Solves(g, n)
           f == [x \in S |-> Upto(d[x] + 1)[x]]
<1> HIDE DEF Solves
<1>3. \A n \in Nat : Upto(n) \in [S -> T] /\ Solves(Upto(n), n)
  BY <1>1
<1> HIDE DEF Upto
<1>4. f \in [S -> T]
  BY <1>3
<1>5. ASSUME NEW x \in S PROVE f[x] = Body[f][x]
  <2> DEFINE g == Upto(d[x] + 1)
  <2>1. d[x] + 1 \in Nat /\ g \in [S -> T] /\ Solves(g, d[x] + 1)
    BY <1>3
  <2>2. ASSUME NEW y \in S, d[y] < d[x] PROVE f[y] = g[y]
    <3> DEFINE h == Upto(d[y] + 1)
    <3>1. d[y] + 1 \in Nat /\ h \in [S -> T] /\ Solves(h, d[y] + 1)
      BY <1>3
    <3>2. Solves(g, d[y] + 1)
      BY <2>1, <2>2 DEF Solves
    <3>3. h[y] = g[y]
      BY <1>2, <2>1, <3>1, <3>2
    <3> QED BY <3>3
  <2>3. Body[f][x] = Body[g][x]
    BY <1>4, <2>1, <2>2
  <2>4. g[x] = Body[g][x]
    BY <2>1 DEF Solves
  <2> QED BY <2>3, <2>4
<1>6. f = Body[f]
  <2> HIDE DEF f
  <2> QED BY <1>4, <1>5
<1> QED BY <1>4, <1>6

-----------------------------------------------------------------------------
(* FlattenSeq *)

(* A function on the first n numbers is a sequence. *)
LEMMA FunctionSeq ==
  ASSUME NEW X, NEW n \in Nat, NEW s \in [1 .. n -> X]
  PROVE  s \in Seq(X) /\ Len(s) = n
BY SeqDef

LEMMA SingletonSeq ==
  ASSUME NEW X, NEW x \in X
  PROVE  <<x>> \in Seq(X)
OBVIOUS

(* The first n of several sequences, one after the other, as FlattenSeq    *)
(* goes through them.                                                      *)
LEMMA FlattenSteps ==
  ASSUME NEW X, NEW seqs \in Seq(Seq(X)), seqs # <<>>
  PROVE  \E F \in [1 .. Len(seqs) -> Seq(X)] :
           /\ F = [n \in 1 .. Len(seqs) |-> IF n = 1 THEN seqs[n] ELSE F[n - 1] \o seqs[n]]
           /\ FlattenSeq(seqs) = F[Len(seqs)]
<1> DEFINE S == 1 .. Len(seqs)
           T == Seq(X)
           d == [n \in S |-> n]
           Step(g) == [n \in S |-> IF n = 1 THEN seqs[n] ELSE g[n - 1] \o seqs[n]]
           Body == [g \in [S -> T] |-> Step(g)]
           F == CHOOSE g : g = Step(g)
<1>1. T # {} /\ d \in [S -> Nat]
  <2>1. <<>> \in T
    OBVIOUS
  <2> QED BY <2>1
<1>2. \A n \in S : seqs[n] \in T /\ (n # 1 => n - 1 \in S)
  BY ElementOfSeq
<1>3. Body \in [[S -> T] -> [S -> T]]
  <2> SUFFICES ASSUME NEW g \in [S -> T], NEW n \in S
               PROVE  (IF n = 1 THEN seqs[n] ELSE g[n - 1] \o seqs[n]) \in T
    OBVIOUS
  <2>1. CASE n = 1
    BY <1>2, <2>1
  <2>2. CASE n # 1
    BY <1>2, <2>2, ConcatProperties
  <2> QED BY <2>1, <2>2
<1>4. \A n \in S : \A g, h \in [S -> T] :
        (\A y \in S : d[y] < d[n] => g[y] = h[y]) => Body[g][n] = Body[h][n]
  <2> SUFFICES ASSUME NEW n \in S, NEW g \in [S -> T], NEW h \in [S -> T],
                      \A y \in S : d[y] < d[n] => g[y] = h[y]
               PROVE  Body[g][n] = Body[h][n]
    OBVIOUS
  <2>1. n # 1 => n - 1 \in S /\ d[n - 1] < d[n]
    BY <1>2
  <2>2. n # 1 => g[n - 1] = h[n - 1]
    BY <2>1
  <2> QED BY <2>2
<1>5. PICK g \in [S -> T] : g = Body[g]
  <2> HIDE DEF Body, d, S, T, F, Step
  <2>1. Recurs(S, T, d, Body)
    BY <1>1, <1>3, <1>4 DEF Recurs
  <2> QED BY <2>1, DepthRecursion
<1>6. g = Step(g)
  BY <1>5
<1>7. F = Step(F)
  BY <1>6
<1>8. F \in [S -> T] /\ F = Step(F)
  <2> HIDE DEF F
  <2> DEFINE P == {n \in S : F[n] \in T}
  <2>1. ASSUME NEW n \in S, \A y \in S : d[y] < d[n] => y \in P PROVE n \in P
    <3>1. n # 1 => n - 1 \in S /\ F[n - 1] \in T
      BY <1>2, <2>1
    <3>2. F[n] = IF n = 1 THEN seqs[n] ELSE F[n - 1] \o seqs[n]
      BY <1>7
    <3>3. F[n] \in T
      <4>1. CASE n = 1
        BY <1>2, <3>2, <4>1
      <4>2. CASE n # 1
        BY <1>2, <3>1, <3>2, <4>2, ConcatProperties
      <4> QED BY <4>1, <4>2
    <3> QED BY <3>3
  <2>2. \A n \in S : n \in P
    <3> HIDE DEF P, d, S
    <3> QED BY <1>1, <2>1, DepthInduction
  <2> QED BY <1>7, <2>2
<1>9. FlattenSeq(seqs) = F[Len(seqs)]
  <2>1. Len(seqs) # 0
    BY EmptySeq
  <2> QED BY <2>1 DEF FlattenSeq
<1> QED BY <1>8, <1>9

(* FlattenSeq returns a sequence of what the sequences have, *)
LEMMA FlattenType ==
  ASSUME NEW X, NEW seqs \in Seq(Seq(X))
  PROVE  FlattenSeq(seqs) \in Seq(X)
<1>1. CASE seqs = <<>>
  BY <1>1 DEF FlattenSeq
<1>2. CASE seqs # <<>>
  <2>1. Len(seqs) \in 1 .. Len(seqs)
    BY <1>2, EmptySeq
  <2>2. PICK F \in [1 .. Len(seqs) -> Seq(X)] : FlattenSeq(seqs) = F[Len(seqs)]
    BY <1>2, FlattenSteps
  <2> QED BY <2>1, <2>2
<1> QED BY <1>1, <1>2

(* of all of it, and of nothing else. *)
LEMMA FlattenElements ==
  ASSUME NEW X, NEW seqs \in Seq(Seq(X))
  PROVE  \A x : x \in ToSet(FlattenSeq(seqs)) <=>
                  \E a \in DOMAIN seqs : x \in ToSet(seqs[a])
<1> SUFFICES ASSUME NEW x
             PROVE  x \in ToSet(FlattenSeq(seqs)) <=>
                      \E a \in DOMAIN seqs : x \in ToSet(seqs[a])
  OBVIOUS
<1> DEFINE In(q) == \E k \in DOMAIN q : q[k] = x
<1>1. CASE seqs = <<>>
  BY <1>1 DEF FlattenSeq, ToSet
<1>2. CASE seqs # <<>>
  <2> DEFINE S == 1 .. Len(seqs)
  <2>1. PICK F \in [S -> Seq(X)] :
          /\ F = [n \in S |-> IF n = 1 THEN seqs[n] ELSE F[n - 1] \o seqs[n]]
          /\ FlattenSeq(seqs) = F[Len(seqs)]
    BY <1>2, FlattenSteps
  <2>2. ASSUME NEW p \in Seq(X), NEW q \in Seq(X) PROVE In(p \o q) <=> In(p) \/ In(q)
    <3>1. /\ DOMAIN p = 1 .. Len(p) /\ DOMAIN q = 1 .. Len(q)
          /\ DOMAIN (p \o q) = 1 .. Len(p) + Len(q)
          /\ Len(p) \in Nat /\ Len(q) \in Nat
          /\ \A k \in 1 .. Len(p) + Len(q) :
               (p \o q)[k] = IF k <= Len(p) THEN p[k] ELSE q[k - Len(p)]
      BY ConcatProperties
    <3>2. ASSUME In(p) PROVE In(p \o q)
      BY <3>1, <3>2
    <3>3. ASSUME In(q) PROVE In(p \o q)
      <4>1. PICK k \in 1 .. Len(q) : q[k] = x
        BY <3>1, <3>3
      <4>2. Len(p) + k \in 1 .. Len(p) + Len(q) /\ ~ (Len(p) + k <= Len(p))
               /\ (Len(p) + k) - Len(p) = k
        BY <3>1
      <4>3. (p \o q)[Len(p) + k] = x /\ Len(p) + k \in DOMAIN (p \o q)
        BY <3>1, <4>1, <4>2
      <4> QED BY <4>3
    <3>4. ASSUME In(p \o q) PROVE In(p) \/ In(q)
      <4>1. PICK k \in 1 .. Len(p) + Len(q) : (p \o q)[k] = x
        BY <3>1, <3>4
      <4>2. CASE k <= Len(p)
        <5>1. k \in DOMAIN p /\ p[k] = x
          BY <3>1, <4>1, <4>2
        <5> QED BY <5>1
      <4>3. CASE ~ (k <= Len(p))
        <5>1. k - Len(p) \in 1 .. Len(q)
          BY <3>1, <4>3
        <5> QED BY <3>1, <4>1, <4>3, <5>1
      <4> QED BY <4>2, <4>3
    <3> QED BY <3>2, <3>3, <3>4
  <2> DEFINE P == {n \in S : In(F[n]) <=> \E a \in 1 .. n : In(seqs[a])}
             d == [n \in S |-> n]
  <2> HIDE DEF In
  <2>3. ASSUME NEW n \in S, \A y \in S : d[y] < d[n] => y \in P PROVE n \in P
    <3>1. F[n] = IF n = 1 THEN seqs[n] ELSE F[n - 1] \o seqs[n]
      BY <2>1
    <3>2. CASE n = 1
      <4>1. F[n] = seqs[1] /\ 1 .. n = {1}
        BY <3>1, <3>2
      <4> QED BY <4>1
    <3>3. CASE n # 1
      <4>1. n - 1 \in S /\ n - 1 \in P
        BY <2>3, <3>3
      <4>2. F[n - 1] \in Seq(X) /\ seqs[n] \in Seq(X)
        BY <2>1, <4>1, ElementOfSeq
      <4>3. In(F[n]) <=> In(F[n - 1]) \/ In(seqs[n])
        BY <2>2, <3>1, <3>3, <4>2
      <4>4. 1 .. n = (1 .. n - 1) \cup {n}
        OBVIOUS
      <4> QED BY <4>1, <4>3, <4>4
    <3> QED BY <3>2, <3>3
  <2>4. d \in [S -> Nat]
    OBVIOUS
  <2>5. \A n \in S : n \in P
    <3> HIDE DEF P, d, S
    <3> QED BY <2>3, <2>4, DepthInduction
  <2>6. Len(seqs) \in S /\ DOMAIN seqs = S
    BY <1>2, EmptySeq, LenProperties
  <2>7. \A q : x \in ToSet(q) <=> In(q)
    BY DEF In, ToSet
  <2> QED BY <2>1, <2>5, <2>6, <2>7
<1> QED BY <1>1, <1>2

-----------------------------------------------------------------------------
(* Deserialization *)

(* An entry has a list of less depth or none. *)
LEMMA EntryType ==
  ASSUME NEW es \in Lists, NEW j \in DOMAIN es
  PROVE  /\ es[j] \in JsonEntry
         /\ es[j].accounts # Absent => /\ es[j].accounts \in Lists
                                       /\ Depth[es[j].accounts] < Depth[es]
<1>1. es \in Seq(JsonEntry)
  BY ListsAssumption
<1>2. DOMAIN es = 1 .. Len(es)
  BY <1>1
<1>3. es[j] \in JsonEntry
  BY <1>1, <1>2, ElementOfSeq
<1> QED BY <1>3, DepthAssumption DEF JsonEntry

(* The recursion of Deserializes ends. *)
LEMMA DeserializesDef ==
  ASSUME NEW es \in Lists
  PROVE  /\ Deserializes[es] \in BOOLEAN
         /\ Deserializes[es] <=> \A j \in DOMAIN es :
              IsAccount(es[j]) \/ (es[j].accounts # Absent /\ Deserializes[es[j].accounts])
<1> DEFINE All(g, l) == \A j \in DOMAIN l :
                          IsAccount(l[j]) \/ (l[j].accounts # Absent /\ g[l[j].accounts])
           Body == [g \in [Lists -> BOOLEAN] |-> [l \in Lists |-> All(g, l)]]
<1>1. Recurs(Lists, BOOLEAN, Depth, Body)
  <2>1. BOOLEAN # {} /\ Depth \in [Lists -> Nat]
    BY DepthAssumption
  <2>2. \A g, l : All(g, l) \in BOOLEAN
    OBVIOUS
  <2>3. ASSUME NEW g \in [Lists -> BOOLEAN], NEW h \in [Lists -> BOOLEAN], NEW l \in Lists,
               \A k \in Lists : Depth[k] < Depth[l] => g[k] = h[k]
        PROVE  All(g, l) = All(h, l)
    <3>1. \A j \in DOMAIN l : l[j].accounts # Absent => g[l[j].accounts] = h[l[j].accounts]
      BY <2>3, EntryType
    <3> QED BY <3>1
  <2> HIDE DEF All
  <2>4. Body \in [[Lists -> BOOLEAN] -> [Lists -> BOOLEAN]]
    BY <2>2
  <2>5. ASSUME NEW l \in Lists, NEW g \in [Lists -> BOOLEAN], NEW h \in [Lists -> BOOLEAN],
               \A k \in Lists : Depth[k] < Depth[l] => g[k] = h[k]
        PROVE  Body[g][l] = Body[h][l]
    BY <2>3, <2>5
  <2> QED BY <2>1, <2>4, <2>5 DEF Recurs
<1>2. PICK g \in [Lists -> BOOLEAN] : g = Body[g]
  <2> HIDE DEF Body
  <2> QED BY <1>1, DepthRecursion
<1>3. g = [l \in Lists |-> All(g, l)]
  BY <1>2
<1>4. Deserializes = [l \in Lists |-> All(Deserializes, l)]
  BY <1>3 DEF Deserializes
<1>5. All(Deserializes, es) \in BOOLEAN
  OBVIOUS
<1> QED BY <1>4, <1>5

(* An entry of a list that deserializes is an account, or has a list that  *)
(* deserializes.                                                           *)
LEMMA InnerEntries ==
  ASSUME NEW es \in IxAccountEntries, NEW j \in DOMAIN es, ~ IsAccount(es[j])
  PROVE  es[j].accounts \in IxAccountEntries /\ Depth[es[j].accounts] < Depth[es]
<1>1. es \in Lists /\ Deserializes[es]
  BY DEF IxAccountEntries
<1>2. es[j].accounts # Absent /\ Deserializes[es[j].accounts]
  BY <1>1, DeserializesDef
<1> QED BY <1>1, <1>2, EntryType DEF IxAccountEntries

LEMMA EntriesDepth == [es \in IxAccountEntries |-> Depth[es]] \in [IxAccountEntries -> Nat]
BY DepthAssumption DEF IxAccountEntries

-----------------------------------------------------------------------------
(* The account list *)

(* Names of accounts in groups are names. *)
LEMMA SnakeCaseType ==
  ASSUME NEW n \in Names
  PROVE  to_snake_case(n) \in Names
<1>1. n \in Seq(Words \X {"_", "^"}) /\ n # <<>>
  BY DEF Names
<1>2. DOMAIN n = 1 .. Len(n) /\ Len(n) \in Nat /\ Len(n) # 0
  BY <1>1, EmptySeq, LenProperties
<1>3. \A j \in 1 .. Len(n) : <<n[j][1], "_">> \in Words \X {"_", "^"}
  BY <1>1, ElementOfSeq
<1>4. [j \in 1 .. Len(n) |-> <<n[j][1], "_">>] \in Seq(Words \X {"_", "^"})
  BY <1>2, <1>3, FunctionSeq
<1>5. 1 \in DOMAIN to_snake_case(n)
  BY <1>2 DEF to_snake_case
<1>6. to_snake_case(n) # <<>>
  BY <1>5
<1> QED BY <1>2, <1>4, <1>6 DEF to_snake_case, Names

LEMMA ConcatNames ==
  ASSUME NEW s \in Names, NEW n \in Names
  PROVE  s \o n \in Names
<1>1. s \in Seq(Words \X {"_", "^"}) /\ n \in Seq(Words \X {"_", "^"}) /\ s # <<>>
  BY DEF Names
<1>2. s \o n \in Seq(Words \X {"_", "^"})
  BY <1>1, ConcatProperties
<1>3. s \o n # <<>>
  <2>1. Len(s) \in Nat \ {0} /\ Len(n) \in Nat
    BY <1>1, EmptySeq, LenProperties
  <2>2. Len(s \o n) = Len(s) + Len(n)
    BY <1>1, ConcatProperties
  <2>3. Len(s \o n) # 0
    BY <2>1, <2>2
  <2> QED BY <2>3, EmptySeq
<1> QED BY <1>2, <1>3 DEF Names

LEMMA PrefixedType ==
  ASSUME NEW s \in Names, NEW as \in Seq(IxAccount)
  PROVE  /\ prefixed(s, as) \in Seq(IxAccount)
         /\ DOMAIN prefixed(s, as) = DOMAIN as
         /\ \A j \in DOMAIN as : prefixed(s, as)[j].flags = as[j].flags
<1>1. DOMAIN as = 1 .. Len(as) /\ Len(as) \in Nat
  BY LenProperties
<1>2. \A j \in DOMAIN as : as[j] \in IxAccount
  BY <1>1, ElementOfSeq
<1> DEFINE e(j) == [as[j] EXCEPT !.name = s \o to_snake_case(@)]
<1>3. \A j \in DOMAIN as : e(j) \in IxAccount /\ e(j).flags = as[j].flags
  <2> SUFFICES ASSUME NEW j \in DOMAIN as PROVE e(j) \in IxAccount /\ e(j).flags = as[j].flags
    OBVIOUS
  <2>1. as[j].name \in Names
    BY <1>2 DEF IxAccount
  <2>2. s \o to_snake_case(as[j].name) \in Names
    BY <2>1, SnakeCaseType, ConcatNames
  <2> QED BY <1>2, <2>2 DEF IxAccount
<1>4. prefixed(s, as) = [j \in 1 .. Len(as) |-> e(j)]
  BY <1>1 DEF prefixed
<1> HIDE DEF e
<1>5. prefixed(s, as) \in Seq(IxAccount)
  BY <1>1, <1>3, <1>4, FunctionSeq
<1> QED BY <1>1, <1>3, <1>4, <1>5
(* What to_ix_accounts makes of the j-th entry of es. *)
Piece(es, j) ==
  IF IsAccount(es[j])
    THEN <<[name |-> es[j].name, flags |-> es[j].flags]>>
    ELSE prefixed(es[j].name, to_ix_accounts[es[j].accounts])

(* The recursion of to_ix_accounts ends, with a list of accounts. *)
LEMMA ToIxAccountsDef ==
  /\ to_ix_accounts \in [IxAccountEntries -> Seq(IxAccount)]
  /\ \A es \in IxAccountEntries :
       /\ [j \in DOMAIN es |-> Piece(es, j)] \in Seq(Seq(IxAccount))
       /\ to_ix_accounts[es] = FlattenSeq([j \in DOMAIN es |-> Piece(es, j)])
<1> DEFINE S == IxAccountEntries
           T == Seq(IxAccount)
           d == [es \in S |-> Depth[es]]
           P(g, es, j) == IF IsAccount(es[j])
                            THEN <<[name |-> es[j].name, flags |-> es[j].flags]>>
                            ELSE prefixed(es[j].name, g[es[j].accounts])
           Pieces(g, es) == [j \in DOMAIN es |-> P(g, es, j)]
           Body == [g \in [S -> T] |-> [es \in S |-> FlattenSeq(Pieces(g, es))]]
<1>1. ASSUME NEW g \in [S -> T], NEW es \in S PROVE Pieces(g, es) \in Seq(Seq(IxAccount))
  <2>1. es \in Seq(JsonEntry) /\ es \in Lists
    BY ListsAssumption DEF IxAccountEntries
  <2>2. DOMAIN es = 1 .. Len(es) /\ Len(es) \in Nat
    BY <2>1, LenProperties
  <2>3. ASSUME NEW j \in DOMAIN es PROVE P(g, es, j) \in Seq(IxAccount)
    <3>1. es[j] \in JsonEntry
      BY <2>1, EntryType
    <3>2. es[j].name \in Names /\ es[j].flags \in (SUBSET Flags) \cup {Unreadable}
      BY <3>1 DEF JsonEntry
    <3>3. CASE IsAccount(es[j])
      <4>1. es[j].flags \in SUBSET Flags
        BY <3>2, <3>3 DEF IsAccount
      <4>2. [name |-> es[j].name, flags |-> es[j].flags] \in IxAccount
        BY <3>2, <4>1 DEF IxAccount
      <4> QED BY <3>3, <4>2
    <3>4. CASE ~ IsAccount(es[j])
      <4>1. g[es[j].accounts] \in Seq(IxAccount)
        BY <3>4, InnerEntries
      <4> QED BY <3>2, <3>4, <4>1, PrefixedType
    <3> QED BY <3>3, <3>4
  <2> HIDE DEF P
  <2> QED BY <2>2, <2>3, FunctionSeq
<1>2. ASSUME NEW es \in S, NEW g, NEW h,
             \A k \in S : d[k] < d[es] => g[k] = h[k]
      PROVE  Pieces(g, es) = Pieces(h, es)
  <2>1. \A j \in DOMAIN es : ~ IsAccount(es[j]) => g[es[j].accounts] = h[es[j].accounts]
    BY <1>2, InnerEntries
  <2> QED BY <2>1
<1> HIDE DEF Pieces
<1>3. Recurs(S, T, d, Body)
  <2>1. T # {}
    BY EmptySeq
  <2>2. d \in [S -> Nat]
    BY EntriesDepth
  <2>3. \A g \in [S -> T] : \A es \in S : FlattenSeq(Pieces(g, es)) \in T
    BY <1>1, FlattenType
  <2>4. Body \in [[S -> T] -> [S -> T]]
    BY <2>3
  <2>5. \A es \in S : \A g, h \in [S -> T] :
          (\A k \in S : d[k] < d[es] => g[k] = h[k]) => Body[g][es] = Body[h][es]
    <3> SUFFICES ASSUME NEW es \in S, NEW g \in [S -> T], NEW h \in [S -> T],
                        \A k \in S : d[k] < d[es] => g[k] = h[k]
                 PROVE  Body[g][es] = Body[h][es]
      OBVIOUS
    <3>1. Pieces(g, es) = Pieces(h, es)
      <4> HIDE DEF d
      <4> QED BY <1>2
    <3> QED BY <3>1
  <2> HIDE DEF S, T, d, Body
  <2> QED BY <2>1, <2>2, <2>4, <2>5 DEF Recurs
<1>4. PICK g \in [S -> T] : g = Body[g]
  <2> HIDE DEF S, T, d, Body
  <2> QED BY <1>3, DepthRecursion
<1>5. g = [es \in S |-> FlattenSeq(Pieces(g, es))]
  BY <1>4
<1>6. to_ix_accounts = [es \in S |-> FlattenSeq(Pieces(to_ix_accounts, es))]
  BY <1>5 DEF to_ix_accounts, Pieces
<1>7. \A es \in S : to_ix_accounts[es] \in T
  <2> DEFINE Q == {es \in S : to_ix_accounts[es] \in T}
  <2>1. <<>> \in T /\ d \in [S -> Nat]
    BY EmptySeq, EntriesDepth
  <2>2. ASSUME NEW es \in S, \A k \in S : d[k] < d[es] => k \in Q PROVE es \in Q
    <3> DEFINE h == [k \in S |-> IF d[k] < d[es] THEN to_ix_accounts[k] ELSE <<>>]
    <3>1. h \in [S -> T]
      BY <2>1, <2>2
    <3>2. Pieces(to_ix_accounts, es) = Pieces(h, es)
      BY <1>2
    <3>3. FlattenSeq(Pieces(h, es)) \in T
      BY <1>1, <3>1, FlattenType
    <3>4. to_ix_accounts[es] = FlattenSeq(Pieces(to_ix_accounts, es))
      BY <1>6
    <3> QED BY <3>2, <3>3, <3>4
  <2>3. \A es \in S : es \in Q
    <3> HIDE DEF S, T, d, Q
    <3> QED BY <2>1, <2>2, DepthInduction
  <2> QED BY <2>3
<1>8. to_ix_accounts \in [S -> T]
  BY <1>6, <1>7
<1>9. \A es \in S : to_ix_accounts[es] = FlattenSeq(Pieces(to_ix_accounts, es))
  BY <1>6
<1>10. \A es : [j \in DOMAIN es |-> Piece(es, j)] = Pieces(to_ix_accounts, es)
  BY DEF Piece, Pieces
<1> QED BY <1>1, <1>8, <1>9, <1>10

(* An account that needs a privilege. *)
IsPrivileged(as) == \E k \in DOMAIN as : as[k].flags # {}

(* The flat list has such an account if an entry is one or has one in it.  *)
LEMMA FlatIsPrivileged ==
  ASSUME NEW es \in IxAccountEntries
  PROVE  IsPrivileged(to_ix_accounts[es]) <=>
           \E j \in DOMAIN es :
             IF IsAccount(es[j]) THEN es[j].flags # {}
                                 ELSE IsPrivileged(to_ix_accounts[es[j].accounts])
<1> DEFINE pieces == [j \in DOMAIN es |-> Piece(es, j)]
<1>1. pieces \in Seq(Seq(IxAccount)) /\ to_ix_accounts[es] = FlattenSeq(pieces)
  BY ToIxAccountsDef
<1>2. DOMAIN pieces = DOMAIN es
  OBVIOUS
<1>3. ASSUME NEW j \in DOMAIN es
      PROVE  IsPrivileged(pieces[j]) <=>
               IF IsAccount(es[j]) THEN es[j].flags # {}
                                   ELSE IsPrivileged(to_ix_accounts[es[j].accounts])
  <2>1. pieces[j] = Piece(es, j)
    OBVIOUS
  <2>2. CASE IsAccount(es[j])
    <3>1. pieces[j] = <<[name |-> es[j].name, flags |-> es[j].flags]>>
      BY <2>1, <2>2 DEF Piece
    <3>2. DOMAIN pieces[j] = {1} /\ pieces[j][1].flags = es[j].flags
      BY <3>1
    <3> HIDE DEF pieces
    <3> QED BY <2>2, <3>2 DEF IsPrivileged
  <2>3. CASE ~ IsAccount(es[j])
    <3> DEFINE as == to_ix_accounts[es[j].accounts]
    <3>1. as \in Seq(IxAccount)
      BY <2>3, InnerEntries, ToIxAccountsDef
    <3>2. pieces[j] = prefixed(es[j].name, as)
      BY <2>1, <2>3 DEF Piece
    <3>3. es[j].name \in Names
      BY EntryType DEF IxAccountEntries, JsonEntry
    <3>4. /\ DOMAIN pieces[j] = DOMAIN as
          /\ \A k \in DOMAIN as : pieces[j][k].flags = as[k].flags
      <4> HIDE DEF pieces, as
      <4> QED BY <3>1, <3>2, <3>3, PrefixedType
    <3> HIDE DEF pieces, as
    <3>5. IsPrivileged(pieces[j]) <=> IsPrivileged(as)
      BY <3>4 DEF IsPrivileged
    <3> QED BY <2>3, <3>5 DEF as
  <2> QED BY <2>2, <2>3
<1> HIDE DEF pieces
<1>4. \A q : IsPrivileged(q) <=> \E x \in ToSet(q) : x.flags # {}
  BY DEF IsPrivileged, ToSet
<1>5. \A x : x \in ToSet(FlattenSeq(pieces)) <=> \E j \in DOMAIN pieces : x \in ToSet(pieces[j])
  BY <1>1, FlattenElements
<1>6. IsPrivileged(FlattenSeq(pieces)) <=> \E j \in DOMAIN pieces : IsPrivileged(pieces[j])
  BY <1>4, <1>5
<1> QED BY <1>1, <1>2, <1>3, <1>6

(* The walk through the groups finds an account that needs a privilege if  *)
(* and only if the flat list has one.                                      *)
LEMMA HasPrivilegedAccounts ==
  ASSUME NEW es \in IxAccountEntries
  PROVE  has_privileged_accounts(es) <=> IsPrivileged(to_ix_accounts[es])
<1> DEFINE S == IxAccountEntries
           d == [l \in S |-> Depth[l]]
           Finds(g, l) == \E j \in DOMAIN l :
                          IF IsAccount(l[j]) THEN l[j].flags # {} ELSE g[l[j].accounts]
           Body == [g \in [S -> BOOLEAN] |-> [l \in S |-> Finds(g, l)]]
           any == CHOOSE g : g = [l \in S |-> Finds(g, l)]
<1>1. ASSUME NEW l \in S, NEW g, NEW h, \A k \in S : d[k] < d[l] => g[k] = h[k]
      PROVE  Finds(g, l) = Finds(h, l)
  <2>1. \A j \in DOMAIN l : ~ IsAccount(l[j]) => g[l[j].accounts] = h[l[j].accounts]
    BY <1>1, InnerEntries
  <2> QED BY <2>1
<1>2. \A g, l : Finds(g, l) \in BOOLEAN
  OBVIOUS
<1>3. has_privileged_accounts(es) = any[es]
  BY DEF has_privileged_accounts
<1> HIDE DEF Finds
<1>4. Recurs(S, BOOLEAN, d, Body)
  <2>1. BOOLEAN # {} /\ d \in [S -> Nat]
    BY EntriesDepth
  <2>2. Body \in [[S -> BOOLEAN] -> [S -> BOOLEAN]]
    BY <1>2
  <2>3. \A l \in S : \A g, h \in [S -> BOOLEAN] :
          (\A k \in S : d[k] < d[l] => g[k] = h[k]) => Body[g][l] = Body[h][l]
    <3> SUFFICES ASSUME NEW l \in S, NEW g \in [S -> BOOLEAN], NEW h \in [S -> BOOLEAN],
                        \A k \in S : d[k] < d[l] => g[k] = h[k]
                 PROVE  Body[g][l] = Body[h][l]
      OBVIOUS
    <3>1. Finds(g, l) = Finds(h, l)
      <4> HIDE DEF d
      <4> QED BY <1>1
    <3> QED BY <3>1
  <2> HIDE DEF S, d, Body
  <2> QED BY <2>1, <2>2, <2>3 DEF Recurs
<1>5. PICK g \in [S -> BOOLEAN] : g = Body[g]
  <2> HIDE DEF S, d, Body
  <2> QED BY <1>4, DepthRecursion
<1>6. g = [l \in S |-> Finds(g, l)]
  BY <1>5
<1>7. any = [l \in S |-> Finds(any, l)]
  BY <1>6
<1> HIDE DEF any
<1> DEFINE P == {l \in S : any[l] <=> IsPrivileged(to_ix_accounts[l])}
<1>8. ASSUME NEW l \in S, \A k \in S : d[k] < d[l] => k \in P PROVE l \in P
  <2>1. \A j \in DOMAIN l : ~ IsAccount(l[j]) =>
          (any[l[j].accounts] <=> IsPrivileged(to_ix_accounts[l[j].accounts]))
    BY <1>8, InnerEntries
  <2>2. any[l] <=> Finds(any, l)
    BY <1>2, <1>7
  <2>3. any[l] <=> IsPrivileged(to_ix_accounts[l])
    BY <2>1, <2>2, FlatIsPrivileged DEF Finds
  <2> QED BY <2>3
<1>9. \A l \in S : l \in P
  <2>1. d \in [S -> Nat]
    BY EntriesDepth
  <2> HIDE DEF S, d, P
  <2> QED BY <1>8, <2>1, DepthInduction
<1> QED BY <1>3, <1>9

-----------------------------------------------------------------------------
(* The invariant *)

(* The proofs about the search for duplicates. *)
Search == INSTANCE UniqueByReportDupsProofs
            WITH T <- IxAccount, f <- raw_name, vals <- accounts

(* What each phase has found out and computed. *)
Phases ==
  /\ pc \in {"load", "flatten", "rejected"} => accounts = <<>> /\ Search!Start
  /\ pc \in {"flatten", "unique", "panicked", "emitted"} => Deserializes[entries]
  /\ pc \in {"unique", "panicked", "emitted"} => accounts = to_ix_accounts[entries]
  /\ pc = "panicked" => Search!Finished /\ duplicates # <<>>
  /\ pc = "emitted" => Search!Finished /\ duplicates = <<>>
  /\ emitted = IF pc = "emitted" /\ has_accounts(entries)
                 THEN Interface(entries, accounts) ELSE Nothing

IInv == TypeOK /\ Search!IInv /\ Phases

LEMMA InitIInv == Init => IInv
<1> SUFFICES ASSUME Init PROVE IInv
  OBVIOUS
<1>1. accounts \in Seq(IxAccount) /\ accounts = <<>> /\ Len(accounts) = 0
  BY EmptySeq DEF Init
<1>2. Search!Init
  BY <1>1 DEF Init, Search!Init, Dedup!Start, Search!Start
<1>3. Search!IInv
  BY <1>2, Search!InitIInv
<1>4. Phases
  BY DEF Init, Phases, Dedup!Start, Search!Start
<1>5. TypeOK
  BY <1>1, EmptySeq DEF Init, TypeOK, Dedup!Start
<1> QED BY <1>3, <1>4, <1>5 DEF IInv

LEMMA NextIInv == IInv /\ [Next]_vars => IInv'
<1> SUFFICES ASSUME IInv, [Next]_vars PROVE IInv'
  OBVIOUS
<1> USE DEF IInv
<1>1. CASE Load
  <2> USE <1>1 DEF Load
  <2>1. TypeOK'
    BY DEF TypeOK
  <2>2. Search!IInv'
    BY DEF Search!IInv, Search!TypeOK, Search!HashesAreSeen, Search!UniqueIsFirsts,
           Search!Firsts, Search!DuplicatesAreReported
  <2>3. Phases'
    BY DEF Phases, Search!Start, Search!Finished, TypeOK
  <2> QED BY <2>1, <2>2, <2>3
<1>2. CASE Flatten
  <2> USE <1>2 DEF Flatten
  <2>1. entries \in IxAccountEntries
    BY DEF Phases, TypeOK, IxAccountEntries
  <2>2. accounts' \in Seq(IxAccount)
    BY <2>1, ToIxAccountsDef
  <2>3. i' = 1 /\ hashes' = {} /\ unique' = <<>> /\ duplicates' = <<>>
    BY DEF Phases, Search!Start
  <2>4. Len(accounts') \in Nat
    BY <2>2
  <2>5. TypeOK'
    BY <2>2, <2>3, <2>4 DEF TypeOK
  <2>6. Search!IInv'
    BY <2>2, <2>3, <2>4
       DEF Search!IInv, Search!TypeOK, Search!HashesAreSeen, Search!UniqueIsFirsts,
           Search!Firsts, Search!DuplicatesAreReported
  <2>7. Phases'
    BY DEF Phases
  <2> QED BY <2>5, <2>6, <2>7
<1>3. CASE unique_by_report_dups
  <2> USE <1>3 DEF unique_by_report_dups
  <2>1. Search!Next
    BY DEF Dedup!Turn, Search!Turn, Search!Next
  <2>2. Search!IInv'
    BY <2>1, Search!NextIInv
  <2>3. TypeOK'
    <3>1. /\ i' \in 1 .. Len(accounts') + 1
          /\ accounts' \in Seq(IxAccount)
          /\ unique' \in Seq(IxAccount) /\ duplicates' \in Seq(IxAccount)
      BY <2>2 DEF Search!IInv, Search!TypeOK
    <3>2. hashes' \subseteq Names
      <4>1. accounts[i] \in IxAccount
        BY DEF TypeOK, Dedup!Turn
      <4> QED BY <4>1 DEF TypeOK, Dedup!Turn, raw_name, IxAccount
    <3> QED BY <3>1, <3>2 DEF TypeOK
  <2>4. Phases'
    BY DEF Phases
  <2> QED BY <2>2, <2>3, <2>4
<1>4. CASE Emit
  <2> USE <1>4 DEF Emit
  <2>1. TypeOK'
    BY DEF TypeOK
  <2>2. Search!IInv'
    BY DEF Search!IInv, Search!TypeOK, Search!HashesAreSeen, Search!UniqueIsFirsts,
           Search!Firsts, Search!DuplicatesAreReported
  <2>3. Phases'
    BY DEF Phases, Dedup!Finished, Search!Finished
  <2> QED BY <2>1, <2>2, <2>3
<1>5. CASE UNCHANGED vars
  <2> USE <1>5 DEF vars
  <2>1. TypeOK'
    BY DEF TypeOK
  <2>2. Search!IInv'
    BY DEF Search!IInv, Search!TypeOK, Search!HashesAreSeen, Search!UniqueIsFirsts,
           Search!Firsts, Search!DuplicatesAreReported
  <2>3. Phases'
    BY DEF Phases, Search!Start, Search!Finished
  <2> QED BY <2>1, <2>2, <2>3
<1> QED BY <1>1, <1>2, <1>3, <1>4, <1>5 DEF Next, Terminated

(* What has been computed is right in every phase. *)
THEOREM Invariance == Spec => []IInv
BY InitIInv, NextIInv, PTL DEF Spec

THEOREM TypeCorrect == Spec => []TypeOK
<1>1. IInv => TypeOK
  BY DEF IInv
<1> QED BY Invariance, <1>1, PTL

(* The search keeps the first account of every name, in order. *)
THEOREM FirstsAreKept == Spec => []UniqueIsFirsts
<1>1. IInv => UniqueIsFirsts
  BY DEF IInv, Search!IInv, UniqueIsFirsts, Dedup!UniqueIsFirsts, Search!UniqueIsFirsts,
         Dedup!Firsts, Search!Firsts
<1> QED BY Invariance, <1>1, PTL

(* It loses no account, and reports duplicates if and only if there are    *)
(* any.                                                                    *)
THEOREM DuplicatesReported == Spec => []DuplicatesAreReported
<1>1. IInv => DuplicatesAreReported
  BY DEF IInv, Search!IInv, DuplicatesAreReported, Dedup!DuplicatesAreReported,
         Search!DuplicatesAreReported
<1> QED BY Invariance, <1>1, PTL

(* Generation stops over two accounts with the same name, however deep in  *)
(* groups they are, and over nothing else.                                 *)
THEOREM SameNamesPanic == Spec => []DuplicatesPanic
<1>1. ASSUME IInv PROVE DuplicatesPanic
  <2> USE <1>1 DEF IInv
  <2>1. CASE pc \in {"panicked", "emitted"}
    <3>1. i - 1 = Len(accounts) /\ DOMAIN accounts = 1 .. i - 1
      BY <2>1 DEF Phases, Search!Finished, TypeOK
    <3>2. duplicates = <<>> <=>
            \A a, b \in 1 .. i - 1 : raw_name(accounts[a]) = raw_name(accounts[b]) => a = b
      BY DEF Search!IInv, Search!DuplicatesAreReported
    <3>3. duplicates = <<>> <=> ~ SameName
      BY <3>1, <3>2 DEF raw_name, SameName
    <3> QED BY <2>1, <3>3 DEF DuplicatesPanic, Phases
  <2>2. CASE pc \notin {"panicked", "emitted"}
    BY <2>2 DEF DuplicatesPanic
  <2> QED BY <2>1, <2>2
<1> QED BY Invariance, <1>1, PTL

-----------------------------------------------------------------------------
(* The interface *)

(* Privileged has the fields of the accounts that need the privilege.      *)
LEMMA PrivilegedElements ==
  ASSUME NEW as \in Seq(IxAccount), NEW f
  PROVE  \A x : x \in ToSet(Privileged(as, f)) <=>
                  \E j \in DOMAIN as : f \in as[j].flags /\ x = field_ident(as[j])
<1> DEFINE piece(j) == IF f \in as[j].flags THEN <<field_ident(as[j])>> ELSE <<>>
           pieces == [j \in DOMAIN as |-> piece(j)]
<1>1. DOMAIN as = 1 .. Len(as) /\ Len(as) \in Nat
  BY LenProperties
<1>2. ASSUME NEW j \in DOMAIN as PROVE piece(j) \in Seq(Names)
  <2>1. as[j] \in IxAccount
    BY <1>1, ElementOfSeq
  <2>2. as[j].name \in Names
    BY <2>1 DEF IxAccount
  <2>3. field_ident(as[j]) \in Names
    BY <2>2, SnakeCaseType DEF field_ident
  <2>4. <<field_ident(as[j])>> \in Seq(Names)
    BY <2>3, SingletonSeq
  <2>5. <<>> \in Seq(Names)
    BY EmptySeq
  <2> QED BY <2>4, <2>5
<1>3. ASSUME NEW j \in DOMAIN as
      PROVE  ToSet(piece(j)) = IF f \in as[j].flags THEN {field_ident(as[j])} ELSE {}
  <2>1. \A y : ToSet(<<y>>) = {y}
    BY DEF ToSet
  <2>2. ToSet(<<>>) = {}
    BY DEF ToSet
  <2> QED BY <2>1, <2>2
<1>4. Privileged(as, f) = FlattenSeq(pieces)
  BY DEF Privileged
<1> HIDE DEF piece
<1>5. pieces \in Seq(Seq(Names))
  BY <1>1, <1>2, FunctionSeq
<1>6. DOMAIN pieces = DOMAIN as /\ \A j \in DOMAIN as : pieces[j] = piece(j)
  OBVIOUS
<1> HIDE DEF pieces
<1>7. \A x : x \in ToSet(FlattenSeq(pieces)) <=> \E j \in DOMAIN pieces : x \in ToSet(pieces[j])
  BY <1>5, FlattenElements
<1>8. \A x : \A j \in DOMAIN as :
        x \in ToSet(pieces[j]) <=> f \in as[j].flags /\ x = field_ident(as[j])
  BY <1>3, <1>6
<1> QED BY <1>4, <1>6, <1>7, <1>8

(* Where the fields are distinct, the functions that verify privileges     *)
(* loop over the fields whose AccountMetas ask for them.                   *)
LEMMA InterfaceVerifies ==
  ASSUME NEW es \in IxAccountEntries, NEW as, as = to_ix_accounts[es],
         \A a, b \in DOMAIN as : a # b => field_ident(as[a]) # field_ident(as[b]),
         NEW j \in DOMAIN as
  PROVE  LET itf == Interface(es, as) IN
           /\ "writable" \in itf.metas[j] <=> itf.fields[j] \in ToSet(itf.writables)
           /\ "signer" \in itf.metas[j] <=> itf.fields[j] \in ToSet(itf.signers)
<1> DEFINE verified(f) == IF has_privileged_accounts(es) THEN Privileged(as, f) ELSE <<>>
<1>1. as \in Seq(IxAccount)
  BY ToIxAccountsDef
<1>2. ASSUME NEW f PROVE f \in as[j].flags <=> field_ident(as[j]) \in ToSet(verified(f))
  <2>1. CASE has_privileged_accounts(es)
    <3>1. field_ident(as[j]) \in ToSet(Privileged(as, f)) <=>
            \E k \in DOMAIN as : f \in as[k].flags /\ field_ident(as[j]) = field_ident(as[k])
      BY <1>1, PrivilegedElements
    <3> QED BY <2>1, <3>1
  <2>2. CASE ~ has_privileged_accounts(es)
    <3>1. as[j].flags = {}
      BY <2>2, HasPrivilegedAccounts DEF IsPrivileged
    <3>2. ToSet(verified(f)) = {}
      BY <2>2 DEF ToSet
    <3> QED BY <3>1, <3>2
  <2> QED BY <2>1, <2>2
<1> DEFINE itf == Interface(es, as)
<1>3. /\ itf.metas[j] = as[j].flags
      /\ itf.fields[j] = field_ident(as[j])
      /\ itf.writables = verified("writable")
      /\ itf.signers = verified("signer")
  BY DEF Interface, metas, fields
<1> HIDE DEF verified, itf
<1>4. /\ "writable" \in itf.metas[j] <=> itf.fields[j] \in ToSet(itf.writables)
      /\ "signer" \in itf.metas[j] <=> itf.fields[j] \in ToSet(itf.signers)
  BY <1>2, <1>3
<1> QED BY <1>4 DEF itf

(* The privileges that are verified are those the AccountMetas ask for.    *)
THEOREM VerifiedAskedFor == Spec => []VerifiedIsAskedFor
<1>1. ASSUME IInv PROVE VerifiedIsAskedFor
  <2> USE <1>1 DEF IInv
  <2> SUFFICES ASSUME pc = "emitted", Compiles, NEW j \in DOMAIN emitted.fields
               PROVE  /\ "writable" \in emitted.metas[j]
                           <=> emitted.fields[j] \in ToSet(emitted.writables)
                      /\ "signer" \in emitted.metas[j]
                           <=> emitted.fields[j] \in ToSet(emitted.signers)
    BY DEF VerifiedIsAskedFor
  <2>1. CASE has_accounts(entries)
    <3>1. emitted = Interface(entries, accounts)
      BY <2>1 DEF Phases
    <3>2. entries \in IxAccountEntries /\ accounts = to_ix_accounts[entries]
      BY DEF Phases, TypeOK, IxAccountEntries
    <3>3. /\ DOMAIN emitted.fields = DOMAIN accounts
          /\ \A a \in DOMAIN accounts : emitted.fields[a] = field_ident(accounts[a])
      BY <3>1 DEF Interface, fields
    <3>4. \A a, b \in DOMAIN accounts :
            a # b => field_ident(accounts[a]) # field_ident(accounts[b])
      BY <3>3 DEF Compiles
    <3> HIDE DEF IInv
    <3> QED BY <3>1, <3>2, <3>3, <3>4, InterfaceVerifies
  <2>2. CASE ~ has_accounts(entries)
    <3>1. emitted.fields = <<>>
      BY <2>2 DEF Phases, Nothing
    <3> QED BY <3>1
  <2> QED BY <2>1, <2>2
<1> QED BY Invariance, <1>1, PTL
=============================================================================

----------------------- MODULE UniqueByReportDupsProofs -----------------------
(***************************************************************************)
(* What the loop of unique_by_report_dups returns, for all values, keys    *)
(* and iterators.                                                          *)
(***************************************************************************)
EXTENDS UniqueByReportDups, TLAPS

TypeOK ==
  /\ vals \in Seq(T)
  /\ i \in 1 .. Len(vals) + 1
  /\ unique \in Seq(T)
  /\ duplicates \in Seq(T)

(* hashes has the keys of the values seen so far, and no other. *)
HashesAreSeen ==
  /\ \A j \in 1 .. i - 1 : f(vals[j]) \in hashes
  /\ \A h \in hashes : \E j \in 1 .. i - 1 : h = f(vals[j])

IInv == TypeOK /\ HashesAreSeen /\ UniqueIsFirsts /\ DuplicatesAreReported

(* Before the first turn the invariant holds of empty vectors. *)
LEMMA InitIInv == Init => IInv
BY DEF Init, Start, IInv, TypeOK, HashesAreSeen, Firsts, UniqueIsFirsts,
       DuplicatesAreReported

(* A turn that finds the key in the hash set puts the value in duplicates. *)
LEMMA Duplicate ==
  ASSUME IInv, i <= Len(vals), vals' = vals, i' = i + 1, f(vals[i]) \in hashes,
         duplicates' = Append(duplicates, vals[i]), hashes' = hashes, unique' = unique
  PROVE  IInv'
<1> USE DEF IInv
<1>1. vals[i] \in T /\ i \in Nat \ {0} /\ 1 .. i' - 1 = (1 .. i - 1) \cup {i}
  BY DEF TypeOK
<1>2. TypeOK'
  BY <1>1 DEF TypeOK
<1>3. HashesAreSeen'
  BY <1>1 DEF HashesAreSeen
<1>4. PICK k \in 1 .. i - 1 : f(vals[i]) = f(vals[k])
  BY DEF HashesAreSeen
<1>5. Firsts' = Firsts
  BY <1>1, <1>4 DEF Firsts
<1>6. UniqueIsFirsts'
  <2>1. ASSUME NEW j \in Firsts' PROVE \E a \in 1 .. Len(unique') : unique'[a] = vals[j]
    BY <1>5 DEF UniqueIsFirsts
  <2>2. ASSUME NEW a \in 1 .. Len(unique') PROVE \E h \in Firsts' : unique'[a] = vals[h]
    BY <1>5 DEF UniqueIsFirsts
  <2>3. ASSUME NEW a \in 1 .. Len(unique'), NEW b \in 1 .. Len(unique'), a < b
        PROVE  \E h, g \in Firsts' : h < g /\ unique'[a] = vals[h] /\ unique'[b] = vals[g]
    BY <1>5, <2>3 DEF UniqueIsFirsts
  <2>4. vals' = vals
    OBVIOUS
  <2> HIDE DEF IInv
  <2> QED BY ONLY <2>1, <2>2, <2>3, <2>4, Zenon DEF UniqueIsFirsts
<1>7. DuplicatesAreReported'
  <2>1. k \in 1 .. i' - 1 /\ i \in 1 .. i' - 1 /\ i # k
    BY <1>1
  <2>2. duplicates' # <<>> /\ Len(duplicates') = Len(duplicates) + 1
    BY <1>1 DEF TypeOK
  <2>3. Len(unique') + Len(duplicates') = i' - 1
    BY <2>2 DEF DuplicatesAreReported, TypeOK
  <2> QED BY <1>4, <2>1, <2>2, <2>3 DEF DuplicatesAreReported
<1> QED BY <1>2, <1>3, <1>6, <1>7

(* A turn that does not find it puts the key in the set and the value in   *)
(* unique.                                                                 *)
LEMMA First ==
  ASSUME IInv, i <= Len(vals), vals' = vals, i' = i + 1, f(vals[i]) \notin hashes,
         duplicates' = duplicates, hashes' = hashes \cup {f(vals[i])},
         unique' = Append(unique, vals[i])
  PROVE  IInv'
<1> USE DEF IInv
<1>1. vals[i] \in T /\ i \in Nat \ {0} /\ 1 .. i' - 1 = (1 .. i - 1) \cup {i}
  BY DEF TypeOK
<1>2. TypeOK'
  BY <1>1 DEF TypeOK
<1>3. HashesAreSeen'
  BY <1>1 DEF HashesAreSeen
<1>4. \A j \in 1 .. i - 1 : f(vals[j]) # f(vals[i])
  BY DEF HashesAreSeen
<1>5. Firsts' = Firsts \cup {i} /\ \A j \in Firsts : j \in Nat /\ j < i
  BY <1>1, <1>4 DEF Firsts
<1>6. /\ Len(unique) \in Nat
      /\ 1 .. Len(unique') = (1 .. Len(unique)) \cup {Len(unique) + 1}
      /\ \A a \in 1 .. Len(unique) : unique'[a] = unique[a]
      /\ unique'[Len(unique) + 1] = vals[i]
  BY <1>1 DEF TypeOK
<1>7. UniqueIsFirsts'
  <2>1. ASSUME NEW j \in Firsts' PROVE \E a \in 1 .. Len(unique') : unique'[a] = vals[j]
    BY <1>5, <1>6 DEF UniqueIsFirsts
  <2>2. ASSUME NEW a \in 1 .. Len(unique') PROVE \E j \in Firsts' : unique'[a] = vals[j]
    BY <1>5, <1>6 DEF UniqueIsFirsts
  <2>3. ASSUME NEW a \in 1 .. Len(unique'), NEW b \in 1 .. Len(unique'), a < b
        PROVE  \E h, j \in Firsts' : h < j /\ unique'[a] = vals[h] /\ unique'[b] = vals[j]
    <3>1. a \in 1 .. Len(unique)
      BY <1>6, <2>3
    <3>2. CASE b \in 1 .. Len(unique)
      BY <1>5, <1>6, <2>3, <3>1, <3>2 DEF UniqueIsFirsts
    <3>3. CASE b = Len(unique) + 1
      BY <1>5, <1>6, <3>1, <3>3 DEF UniqueIsFirsts
    <3> QED BY <1>6, <3>2, <3>3
  <2> HIDE DEF IInv
  <2>4. vals' = vals
    OBVIOUS
  <2> QED BY ONLY <2>1, <2>2, <2>3, <2>4, Zenon DEF UniqueIsFirsts
<1>8. DuplicatesAreReported'
  <2>1. Len(unique') + Len(duplicates') = i' - 1
    BY <1>1 DEF DuplicatesAreReported, TypeOK
  <2>2. (\A a, b \in 1 .. i' - 1 : f(vals[a]) = f(vals[b]) => a = b)
          <=> (\A a, b \in 1 .. i - 1 : f(vals[a]) = f(vals[b]) => a = b)
    BY <1>1, <1>4
  <2> QED BY <2>1, <2>2 DEF DuplicatesAreReported
<1> QED BY <1>2, <1>3, <1>7, <1>8

(* Every turn of the loop preserves the invariant. *)
LEMMA NextIInv == IInv /\ [Next]_vars => IInv'
<1> SUFFICES ASSUME IInv, [Next]_vars PROVE IInv'
  OBVIOUS
<1>1. CASE Turn /\ UNCHANGED vals
  <2> USE <1>1 DEF Turn
  <2>1. CASE f(vals[i]) \in hashes
    BY <2>1, Duplicate
  <2>2. CASE f(vals[i]) \notin hashes
    BY <2>2, First
  <2> QED BY <2>1, <2>2
<1>2. CASE UNCHANGED vars
  BY <1>2 DEF vars, IInv, TypeOK, HashesAreSeen, UniqueIsFirsts, Firsts,
              DuplicatesAreReported
<1> QED BY <1>1, <1>2 DEF Next

(* After every turn, hashes, unique and duplicates are right about the     *)
(* values seen so far.                                                     *)
THEOREM LoopInvariance == Spec => []IInv
BY InitIInv, NextIInv, PTL DEF Spec

(* unique_by_report_dups keeps the first value of every key, in order.     *)
THEOREM FirstsAreKept == Spec => []UniqueIsFirsts
<1>1. IInv => UniqueIsFirsts
  BY DEF IInv
<1> QED BY LoopInvariance, <1>1, PTL

(* It loses no value, and reports duplicates if and only if there are any. *)
THEOREM DuplicatesReported == Spec => []DuplicatesAreReported
<1>1. IInv => DuplicatesAreReported
  BY DEF IInv
<1> QED BY LoopInvariance, <1>1, PTL
=============================================================================

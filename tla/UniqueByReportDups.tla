-------------------------- MODULE UniqueByReportDups --------------------------
(***************************************************************************)
(* unique_by_report_dups of utils.rs: the values of an iterator, split     *)
(* into the first one of every key and the rest.  The loop, one turn a     *)
(* step; f is the closure that gives the key of a value.                   *)
(***************************************************************************)
EXTENDS Naturals, Sequences

CONSTANTS
  T,     \* the values
  f(_)   \* their keys

VARIABLES
  vals,    \* what the iterator yields
  i,       \* the position of the next value
  hashes, unique, duplicates

loopVars == <<i, hashes, unique, duplicates>>

vars == <<vals, i, hashes, unique, duplicates>>

(* Mutant: the loop starts before the first value. *)
Start_zero == i = 0 /\ hashes = {} /\ unique = <<>> /\ duplicates = <<>>

Start == i = 1 /\ hashes = {} /\ unique = <<>> /\ duplicates = <<>>

(* The iterator is finite. *)
Init == vals \in Seq(T) /\ Start

(* Mutant: a value is compared with the one before it only. *)
Turn_sorted ==
  /\ i <= Len(vals)
  /\ LET hash == f(vals[i]) IN
       \/ /\ hash \in hashes
          /\ duplicates' = Append(duplicates, vals[i])
          /\ UNCHANGED <<hashes, unique>>
       \/ /\ hash \notin hashes
          /\ hashes' = {hash}
          /\ unique' = Append(unique, vals[i])
          /\ UNCHANGED duplicates
  /\ i' = i + 1

(* Mutant: the last value of a key takes the place of the first. *)
Turn_last ==
  /\ i <= Len(vals)
  /\ LET hash == f(vals[i]) IN
       \/ /\ hash \in hashes
          /\ duplicates' = Append(duplicates, vals[i])
          /\ unique' = Append(SelectSeq(unique, LAMBDA v : f(v) # hash), vals[i])
          /\ UNCHANGED hashes
       \/ /\ hash \notin hashes
          /\ hashes' = hashes \cup {hash}
          /\ unique' = Append(unique, vals[i])
          /\ UNCHANGED duplicates
  /\ i' = i + 1

Turn ==
  /\ i <= Len(vals)
  /\ LET hash == f(vals[i]) IN
       \/ /\ hash \in hashes
          /\ duplicates' = Append(duplicates, vals[i])
          /\ UNCHANGED <<hashes, unique>>
       \/ /\ hash \notin hashes
          /\ hashes' = hashes \cup {hash}
          /\ unique' = Append(unique, vals[i])
          /\ UNCHANGED duplicates
  /\ i' = i + 1

Finished == i > Len(vals)

Next == (Turn /\ UNCHANGED vals) \/ (Finished /\ UNCHANGED vars)

Spec == Init /\ [][Next]_vars

-----------------------------------------------------------------------------
(* Properties *)

(* Where the values are, of those seen so far, that came first with their  *)
(* key.                                                                    *)
Firsts == {j \in 1 .. i - 1 : \A h \in 1 .. j - 1 : f(vals[h]) # f(vals[j])}

(* "Preserves order of vals": unique is the first value of every key that  *)
(* has been seen, in the order in which they came.                         *)
UniqueIsFirsts ==
  /\ \A j \in Firsts : \E a \in 1 .. Len(unique) : unique[a] = vals[j]
  /\ \A a \in 1 .. Len(unique) : \E j \in Firsts : unique[a] = vals[j]
  /\ \A a, b \in 1 .. Len(unique) :
       a < b => \E h, j \in Firsts : h < j /\ unique[a] = vals[h] /\ unique[b] = vals[j]

(* No value is lost, and duplicates has something exactly if two values    *)
(* have the same key, however far apart they are.                          *)
DuplicatesAreReported ==
  /\ Len(unique) + Len(duplicates) = i - 1
  /\ duplicates = <<>> <=>
       \A a, b \in 1 .. i - 1 : f(vals[a]) = f(vals[b]) => a = b
=============================================================================

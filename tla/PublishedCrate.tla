---------------------------- MODULE PublishedCrate ----------------------------
(***************************************************************************)
(* What the user of solores may rely on, with no word about files: in each *)
(* crate directory there is either the complete crate of one run or        *)
(* nothing one should use.  A run that gets to write takes the directory,  *)
(* withdraws the crate that is there before it touches it, and publishes   *)
(* its own as its last act; crates are published in the order the runs     *)
(* took the directory, each at most once.                                  *)
(***************************************************************************)
EXTENDS Naturals

CONSTANTS Crates, MaxRuns

VARIABLES
  owner,      \* the run that has the directory, 0 if none has
  published,  \* the run whose crate is there, 0 if there is none to use
  done        \* the runs that have published

vars == <<owner, published, done>>

Init ==
  /\ owner = [c \in Crates |-> 0]
  /\ published = [c \in Crates |-> 0]
  /\ done = [c \in Crates |-> {}]

Take(c) ==
  /\ owner[c] = 0
  /\ \E r \in 1 .. MaxRuns :
       /\ \A d \in done[c] : d < r
       /\ owner' = [owner EXCEPT ![c] = r]
  /\ UNCHANGED <<published, done>>

Withdraw(c) ==
  /\ owner[c] # 0
  /\ published[c] # 0
  /\ published' = [published EXCEPT ![c] = 0]
  /\ UNCHANGED <<owner, done>>

Publish(c) ==
  /\ owner[c] # 0
  /\ published[c] = 0
  /\ published' = [published EXCEPT ![c] = owner[c]]
  /\ owner' = [owner EXCEPT ![c] = 0]
  /\ done' = [done EXCEPT ![c] = @ \cup {owner[c]}]

GiveUp(c) ==
  /\ owner[c] # 0
  /\ owner' = [owner EXCEPT ![c] = 0]
  /\ UNCHANGED <<published, done>>

Next == \E c \in Crates : Take(c) \/ Withdraw(c) \/ Publish(c) \/ GiveUp(c)

Spec == Init /\ [][Next]_vars
=============================================================================

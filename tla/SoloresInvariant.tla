--------------------------- MODULE SoloresInvariant ---------------------------
(***************************************************************************)
(* The inductive invariant behind the properties of Solores, for runs that *)
(* have their crate directory to themselves (Overlap = FALSE).             *)
(***************************************************************************)
EXTENDS Solores

(* Runs start in order, and a live run is the latest of its crate (hence   *)
(* the only live one of it).                                               *)
OneWriter ==
  /\ \A r, q \in Runs :
       Live(r) /\ pc[q] # "unborn" /\ Crate(q) = Crate(r) => q <= r
  /\ \A r, q \in Runs : q < r /\ pc[r] # "unborn" => pc[q] # "unborn"

(* A file was left by a run that has been started for this crate, with an  *)
(* IDL that loads.                                                         *)
Provenance ==
  /\ \A c \in Crates : \A f \in Files :
       LET b == disk[c][f].by IN
         b # 0 => Crate(b) = c /\ pc[b] # "unborn" /\ Loads(idl(b))
  /\ \A r \in Runs : pc[r] = "mkdir" \/ Writing(r) => Loads(idl(r))
  /\ \A c \in dirs : \E r \in Runs : Crate(r) = c /\ Loads(idl(r))

(* The file a writing run is at. *)
Current(r) ==
  IF pc[r] = "gitignore" THEN ".gitignore"
  ELSE IF pc[r] = "cargo" THEN "Cargo.toml"
  ELSE IF k[r] <= Len(modules(idl(r))) THEN modules(idl(r))[k[r]]
  ELSE "lib"

(* An open file is the current one, and incomplete. *)
OpenFile ==
  \A r \in Runs :
    fd[r] # NoFile =>
      /\ Writing(r) /\ fd[r] = Current(r)
      /\ \E s \in {"empty", "torn"} : file(r, fd[r]) = [by |-> r, state |-> s]

(* What a run has behind it is on disk, complete; lib.rs comes last. *)
WrittenSoFar ==
  \A r \in Runs :
    /\ Live(r) /\ pc[r] # "modules" => k[r] = 1
    /\ pc[r] = "unborn" => k[r] = 1
    /\ pc[r] = "modules" =>
         /\ file(r, "Cargo.toml") = [by |-> r, state |-> "full"]
         /\ \A j \in 1 .. Len(modules(idl(r))) :
              j < k[r] => file(r, modules(idl(r))[j]) = [by |-> r, state |-> "full"]
    /\ Live(r) /\ file(r, "lib").by = r => fd[r] = "lib"

(* No part of a crate that has a lib.rs, or whose run has succeeded, is    *)
(* older than its run, and the parts that are its own are complete.        *)
NoStaleParts ==
  /\ \A c \in Crates :
       LET l == LibOf(c) IN
         l # 0 => \A f \in Parts(l) :
                    /\ disk[c][f].by >= l
                    /\ disk[c][f].by = l /\ f # "lib" => disk[c][f].state = "full"
  /\ \A r \in Runs :
       pc[r] = "ok" => \A f \in Parts(r) :
                         /\ file(r, f).by >= r
                         /\ file(r, f).by = r => file(r, f).state = "full"

IInv ==
  TypeOK /\ OneWriter /\ Provenance /\ OpenFile /\ WrittenSoFar /\ NoStaleParts
=============================================================================

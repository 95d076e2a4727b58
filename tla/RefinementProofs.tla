--------------------------- MODULE RefinementProofs ---------------------------
(***************************************************************************)
(* Proof that Solores, as long as runs do not overlap on a crate, does     *)
(* what PublishedCrate promises.  Every step of a run is a step of the     *)
(* abstract specification or leaves the abstract variables as they are.    *)
(***************************************************************************)
EXTENDS SoloresProofs

(* State predicates that IInv implies, named to be primed. *)
OwnerWrites ==
  /\ \A r \in Runs : Writing(r) => Owner[Crate(r)] = r
  /\ \A c \in Crates :
       (\A r \in Runs : Writing(r) => Crate(r) # c) => Owner[c] = 0

NonePublished ==
  \A r \in Runs :
    pc[r] = "modules" \/ fd[r] = "Cargo.toml" => Published[Crate(r)] = 0

(* The owner of a crate directory is the run that is writing in it. *)
LEMMA OwnerFacts == IInv => OwnerWrites
<1> SUFFICES ASSUME IInv
             PROVE  OwnerWrites
  OBVIOUS
<1>1. ASSUME NEW r \in Runs, Writing(r)
      PROVE  Owner[Crate(r)] = r
  <2>1. \A q \in Runs : Writing(q) => Live(q)
    BY DEF Writing, Live, Exited
  <2>2. Writers(Crate(r)) = {r}
    BY <1>1, <2>1, OwnDirectory DEF Writers
  <2>3. QED
    BY <2>2, StateFacts DEF Owner
<1>2. ASSUME NEW c \in Crates, \A r \in Runs : Writing(r) => Crate(r) # c
      PROVE  Owner[c] = 0
  <2>1. Writers(c) = {}
    BY <1>2 DEF Writers
  <2>2. QED
    BY <2>1 DEF Owner
<1>3. QED
  BY <1>1, <1>2 DEF OwnerWrites

(* While a run is at the modules or at lib.rs, no crate is published: the  *)
(* manifest is its own already, and lib.rs is not complete.                *)
LEMMA NotPublished ==
  IInv => \A r \in Runs : pc[r] = "modules" => ~ IsPublished(Crate(r))
<1> SUFFICES ASSUME IInv, NEW r \in Runs, pc[r] = "modules", IsPublished(Crate(r))
             PROVE  FALSE
  OBVIOUS
<1> DEFINE l == LibOf(Crate(r))
<1>1. /\ Live(r) /\ WrittenSoFar /\ OpenFile
      /\ disk[Crate(r)]["Cargo.toml"] = [by |-> l, state |-> "full"]
      /\ disk[Crate(r)]["lib"] = [by |-> l, state |-> "full"]
  BY DEF IInv, IsPublished, Whole, Parts, Live, Exited
<1>2. disk[Crate(r)]["Cargo.toml"] = [by |-> r, state |-> "full"]
  BY <1>1 DEF WrittenSoFar, file
<1>3. l = r
  BY <1>1, <1>2
<1>4. fd[r] = "lib" /\ "lib" # NoFile
  BY <1>1, <1>3 DEF WrittenSoFar, file, LibOf, NoFile
<1>5. PICK s \in {"empty", "torn"} : disk[Crate(r)]["lib"] = [by |-> r, state |-> s]
  BY <1>1, <1>4 DEF OpenFile, file
<1>6. QED
  BY <1>1, <1>5

(* Nor while it has Cargo.toml open. *)
LEMMA ManifestOpen ==
  IInv => \A r \in Runs : fd[r] = "Cargo.toml" => ~ IsPublished(Crate(r))
<1> SUFFICES ASSUME IInv, NEW r \in Runs, fd[r] = "Cargo.toml", IsPublished(Crate(r))
             PROVE  FALSE
  OBVIOUS
<1>1. PICK l : disk[Crate(r)]["Cargo.toml"] = [by |-> l, state |-> "full"]
  BY DEF IsPublished, Whole, Parts
<1>2. PICK s \in {"empty", "torn"} :
        disk[Crate(r)]["Cargo.toml"] = [by |-> r, state |-> s]
  BY DEF IInv, OpenFile, file, NoFile
<1>3. QED
  BY <1>1, <1>2

(* So the abstract crate is withdrawn while modules or lib.rs are written. *)
LEMMA PublishedFacts == IInv => NonePublished
BY NotPublished, ManifestOpen, StateFacts DEF NonePublished, Published

(* A crate whose files, .gitignore aside, stay is published as before. *)
LEMMA SamePublished ==
  ASSUME IInv, args' = args, NEW c \in Crates,
         \A f \in Files \ {".gitignore"} : disk'[c][f] = disk[c][f]
  PROVE  Published'[c] = Published[c]
<1>1. disk'[c]["lib"] = disk[c]["lib"] /\ LibOf(c)' = LibOf(c)
  BY DEF Files, LibOf
<1>2. CASE LibOf(c) = 0
  BY <1>1, <1>2 DEF Published, IsPublished
<1>3. CASE LibOf(c) # 0
  <2>1. LibOf(c) \in Runs
    BY <1>3, StateFacts DEF LibOf
  <2>2. Parts(LibOf(c)) \subseteq Files \ {".gitignore"}
    BY <2>1, RunFacts DEF IInv, Parts, Files, ModuleName
  <2>3. Parts(LibOf(c))' = Parts(LibOf(c))
    BY <1>1, Constancy
  <2>4. Whole(c, LibOf(c))' <=> Whole(c, LibOf(c))
    BY <1>1, <2>2, <2>3 DEF Whole
  <2>5. IsPublished(c)' <=> IsPublished(c)
    BY <1>1, <2>4 DEF IsPublished
  <2>6. QED
    BY <1>1, <2>5 DEF Published
<1>4. QED
  BY <1>2, <1>3

(* The abstract variables are functions on the crates. *)
LEMMA Extensionality ==
  /\ (\A c \in Crates : Owner'[c] = Owner[c]) => Owner' = Owner
  /\ (\A c \in Crates : Published'[c] = Published[c]) => Published' = Published
  /\ (\A c \in Crates : Done'[c] = Done[c]) => Done' = Done
BY DEF Owner, Published, Done

(* What no step of r changes: the abstract state of other crates. *)
LEMMA OtherCrates ==
  ASSUME IInv, IInv', NEW r \in Runs, Step(r), NEW c \in Crates, c # Crate(r)
  PROVE  Owner'[c] = Owner[c] /\ Published'[c] = Published[c] /\ Done'[c] = Done[c]
<1>1. /\ args' = args
      /\ \A q : Crate(q)' = Crate(q)
      /\ \A q \in Runs : Crate(q) = c => pc'[q] = pc[q]
  BY StepFacts, Constancy
<1>2. Writers(c)' = Writers(c) /\ Done'[c] = Done[c]
  BY <1>1 DEF Writers, Writing, Done
<1>3. \A f \in Files : disk'[c][f] = disk[c][f]
  BY DiskFacts
<1>4. Published'[c] = Published[c]
  BY <1>1, <1>3, SamePublished
<1>5. QED
  BY <1>2, <1>4 DEF Owner

(* The owners depend on nothing but who is writing where. *)
LEMMA SameWriters ==
  ASSUME OwnerWrites, OwnerWrites',
         \A q \in Runs : Crate(q)' = Crate(q) /\ (Writing(q)' <=> Writing(q))
  PROVE  Owner' = Owner
<1> SUFFICES ASSUME NEW c \in Crates
             PROVE  Owner'[c] = Owner[c]
  BY Extensionality
<1>1. CASE \E r \in Runs : Writing(r) /\ Crate(r) = c
  BY <1>1 DEF OwnerWrites
<1>2. CASE \A r \in Runs : Writing(r) => Crate(r) # c
  BY <1>2 DEF OwnerWrites
<1>3. QED
  BY <1>1, <1>2

(* A step after which r is writing as before leaves the owner, and the     *)
(* runs that are done.                                                     *)
LEMMA SameOwner ==
  ASSUME IInv, IInv', NEW r \in Runs, Step(r), (Writing(r)' <=> Writing(r)),
         pc[r] # "ok", pc'[r] # "ok"
  PROVE  Owner' = Owner /\ Done' = Done
<1>1. /\ \A q : Crate(q)' = Crate(q)
      /\ \A q \in Runs \ {r} : pc'[q] = pc[q]
  BY StepFacts, Constancy
<1>2. \A q \in Runs : (Writing(q)' <=> Writing(q)) /\ (pc'[q] = "ok" <=> pc[q] = "ok")
  BY <1>1 DEF Writing
<1>3. OwnerWrites /\ OwnerWrites'
  <2>1. IInv' => OwnerWrites'
    BY OwnerFacts, PTL
  <2>2. QED
    BY <2>1, OwnerFacts
<1>4. Owner' = Owner
  BY <1>1, <1>2, <1>3, SameWriters
<1>5. Done' = Done
  BY <1>1, <1>2 DEF Done
<1>6. QED
  BY <1>4, <1>5

(* To change an abstract variable at one crate is to EXCEPT it there. *)
LEMMA OneCrate ==
  ASSUME NEW c \in Crates, NEW v,
         \A d \in Crates \ {c} :
           Owner'[d] = Owner[d] /\ Published'[d] = Published[d] /\ Done'[d] = Done[d]
  PROVE  /\ Owner'[c] = v => Owner' = [Owner EXCEPT ![c] = v]
         /\ Published'[c] = v => Published' = [Published EXCEPT ![c] = v]
         /\ Done'[c] = v => Done' = [Done EXCEPT ![c] = v]
BY DEF Owner, Published, Done

(* Every step is an abstract step on the crate of its run, or a stutter. *)
LEMMA StepRefines ==
  ASSUME IInv, IInv', NEW r \in Runs, Step(r)
  PROVE  Abstract!Next \/ UNCHANGED Abstract!vars
<1>0. PICK c \in Crates : c = Crate(r)
  BY StateFacts
<1>1. /\ TypeOK /\ OpenFile /\ OneWriter
      /\ args' = args
      /\ \A q : Crate(q)' = Crate(q) /\ idl(q)' = idl(q) /\ Parts(q)' = Parts(q)
  BY StepFacts, Constancy, StateFacts DEF IInv
<1>2. /\ NonePublished /\ OwnerWrites
      /\ NonePublished' /\ OwnerWrites'
  <2>1. IInv' => NonePublished' /\ OwnerWrites'
    BY PublishedFacts, OwnerFacts, PTL
  <2>2. QED
    BY <2>1, PublishedFacts, OwnerFacts
<1>3. /\ pc[r] = "modules" \/ fd[r] = "Cargo.toml" => Published[c] = 0
      /\ pc'[r] = "modules" \/ fd'[r] = "Cargo.toml" => Published'[c] = 0
  BY <1>0, <1>1, <1>2 DEF NonePublished
<1>4. Writing(r) => Owner[c] = r /\ r # 0 /\ Live(r)
  BY <1>0, <1>2, RunsAssumption DEF OwnerWrites, Runs, Writing, Live, Exited
<1>5. Writing(r)' => Owner'[c] = r
  BY <1>0, <1>1, <1>2 DEF OwnerWrites
<1>6. CASE Start(r)
  <2>1. Published' = Published
    BY <1>1, <1>6, SamePublished, Extensionality DEF Start
  <2>2. ~ Writing(r) /\ ~ Writing(r)' /\ pc[r] # "ok" /\ pc'[r] # "ok"
    BY <1>1, <1>6 DEF Start, Writing, TypeOK
  <2>3. QED
    BY <2>1, <2>2, SameOwner DEF Abstract!vars
<1>7. CASE Prepares(r)
  <2>1. Published' = Published
    BY <1>1, <1>7, SamePublished, Extensionality DEF Prepares
  <2>2. CASE pc[r] = "load"
    <3>1. ~ Writing(r) /\ ~ Writing(r)' /\ pc[r] # "ok" /\ pc'[r] # "ok"
      BY <1>1, <1>7, <2>2 DEF Prepares, Writing, TypeOK
    <3>2. QED
      BY <2>1, <3>1, SameOwner DEF Abstract!vars
  <2>3. CASE pc[r] = "mkdir"
    <3>1. Writing(r)' /\ Live(r) /\ pc'[r] # "ok" /\ ~ Writing(r)
      BY <1>1, <1>7, <2>3 DEF Prepares, Writing, Live, Exited, TypeOK
    <3>2. Owner[c] = 0
      <4>1. \A q \in Runs : Writing(q) => Live(q)
        BY DEF Writing, Live, Exited
      <4>2. \A q \in Runs : Writing(q) => Crate(q) # c
        BY <1>0, <3>1, <4>1, OwnDirectory
      <4>3. QED
        BY <1>2, <4>2 DEF OwnerWrites
    <3>3. Owner' = [Owner EXCEPT ![c] = r]
      BY <1>0, <1>1, <1>5, <3>1, OtherCrates, OneCrate
    <3>4. Done' = Done
      BY <1>1, <2>3, <3>1, StepFacts DEF Done
    <3>5. \A d \in Done[c] : d < r
      <4>1. SUFFICES ASSUME NEW d \in Runs, pc[d] = "ok", Crate(d) = c
                     PROVE  d < r
        BY <1>1 DEF Done
      <4>2. d <= r /\ d # r
        BY <1>0, <1>1, <2>3, <3>1, <4>1 DEF OneWriter
      <4>3. QED
        BY <4>2 DEF Runs
    <3>6. Abstract!Take(c)
      BY <2>1, <3>2, <3>3, <3>4, <3>5 DEF Abstract!Take, Runs
    <3>7. QED
      BY <1>1, <3>6 DEF Abstract!Next
  <2>4. QED
    BY <1>7, <2>2, <2>3 DEF Prepares
<1>8. CASE Opens(r) \/ Fills(r)
  <2>1. Writing(r) /\ pc' = pc /\ Writing(r)' /\ fd'[r] = Current(r)
    BY <1>1, <1>8 DEF Opens, Fills, OpenFile, TypeOK, Writing
  <2>2. Owner' = Owner /\ Done' = Done
    BY <2>1, SameOwner DEF Writing
  <2>3. CASE Current(r) = ".gitignore"
    <3>1. \A d \in Crates : \A f \in Files \ {".gitignore"} : disk'[d][f] = disk[d][f]
      BY <2>3, DiskFacts
    <3>2. QED
      BY <1>1, <2>2, <3>1, SamePublished, Extensionality DEF Abstract!vars
  <2>4. CASE Current(r) # ".gitignore"
    <3>1. Published'[c] = 0
      <4>1. pc'[r] = "modules" \/ fd'[r] = "Cargo.toml"
        BY <2>1, <2>4 DEF Writing, Current
      <4>2. QED
        BY <1>3, <4>1
    <3>2. CASE Published[c] = 0
      <4>1. Published' = Published
        BY <1>0, <1>1, <3>1, <3>2, OtherCrates, Extensionality
      <4>2. QED
        BY <2>2, <4>1 DEF Abstract!vars
    <3>3. CASE Published[c] # 0
      <4>1. Published' = [Published EXCEPT ![c] = 0]
        BY <1>0, <1>1, <3>1, OtherCrates DEF Published
      <4>2. Abstract!Withdraw(c)
        BY <1>4, <2>1, <2>2, <3>3, <4>1 DEF Abstract!Withdraw
      <4>3. QED
        BY <1>1, <4>2 DEF Abstract!Next
    <3>4. QED
      BY <3>2, <3>3
  <2>5. QED
    BY <2>3, <2>4
<1>9. CASE Completes(r)
  <2>1. Writing(r) /\ fd[r] = Current(r) /\ Advances(r)
    BY <1>1, <1>9 DEF Completes, OpenFile
  <2>2. CASE pc[r] = "gitignore"
    <3>1. pc'[r] = "cargo" /\ Current(r) = ".gitignore"
      BY <1>1, <2>1, <2>2 DEF Advances, TypeOK, Current
    <3>2. Owner' = Owner /\ Done' = Done
      BY <2>1, <2>2, <3>1, SameOwner DEF Writing
    <3>3. \A d \in Crates : \A f \in Files \ {".gitignore"} : disk'[d][f] = disk[d][f]
      BY <3>1, DiskFacts
    <3>4. QED
      BY <1>1, <3>2, <3>3, SamePublished, Extensionality DEF Abstract!vars
  <2>3. CASE pc[r] = "cargo"
    <3>1. pc'[r] = "modules" /\ fd[r] = "Cargo.toml"
      BY <1>1, <2>1, <2>3 DEF Advances, TypeOK, Current
    <3>2. Owner' = Owner /\ Done' = Done
      BY <2>1, <2>3, <3>1, SameOwner DEF Writing
    <3>3. Published'[c] = 0 /\ Published[c] = 0
      BY <1>3, <3>1
    <3>4. Published' = Published
      BY <1>0, <1>1, <3>3, OtherCrates, Extensionality
    <3>5. QED
      BY <3>2, <3>4 DEF Abstract!vars
  <2>4. CASE pc[r] = "modules" /\ k[r] <= Len(modules(idl(r)))
    <3>1. pc'[r] = "modules"
      BY <1>1, <2>1, <2>4, RunFacts DEF Advances, TypeOK
    <3>2. Owner' = Owner /\ Done' = Done
      BY <2>1, <2>4, <3>1, SameOwner DEF Writing
    <3>3. Published'[c] = 0 /\ Published[c] = 0
      BY <1>3, <2>4, <3>1
    <3>4. Published' = Published
      BY <1>0, <1>1, <3>3, OtherCrates, Extensionality
    <3>5. QED
      BY <3>2, <3>4 DEF Abstract!vars
  <2>5. CASE pc[r] = "modules" /\ k[r] > Len(modules(idl(r)))
    <3>1. pc'[r] = "ok" /\ Current(r) = "lib"
      BY <1>1, <2>1, <2>5, RunFacts DEF Advances, TypeOK, Current
    <3>2. Whole(c, r)' /\ LibOf(c)' = r
      <4>1. disk'[c]["lib"] = [by |-> r, state |-> "full"]
        <5>1. Put(r, "lib", "full") /\ "lib" \in Files /\ "full" \in State
          BY <1>9, <3>1 DEF Completes, Files, State
        <5>2. QED
          BY <1>0, <1>1, <5>1, PutFacts
      <4>2. \A f \in Parts(r) \ {"lib"} : disk'[c][f] = [by |-> r, state |-> "full"]
        <5>1. \A f \in Parts(r) \ {"lib"} : disk'[c][f] = disk[c][f]
          BY <1>1, <3>1, DiskFacts, RunFacts
        <5>2. QED
          BY <1>0, <2>5, <5>1, PartsComplete DEF file
      <4>3. QED
        BY <1>1, <4>1, <4>2 DEF Whole, LibOf
    <3>3. Published'[c] = r
      BY <1>1, <1>4, <2>1, <3>2 DEF Published, IsPublished
    <3>4. Published' = [Published EXCEPT ![c] = Owner[c]]
      BY <1>0, <1>1, <1>4, <2>1, <3>3, OtherCrates DEF Published
    <3>5. Owner'[c] = 0
      <4>1. \A q \in Runs : Writing(q)' => Crate(q)' # c
        <5>1. \A q \in Runs : Writing(q) => Live(q)
          BY DEF Writing, Live, Exited
        <5>2. ~ Writing(r)'
          BY <3>1 DEF Writing
        <5>3. \A q \in Runs \ {r} : Writing(q)' <=> Writing(q)
          BY StepFacts DEF Writing
        <5>4. QED
          BY <1>0, <1>1, <1>4, <2>1, <5>1, <5>2, <5>3, OwnDirectory
      <4>2. QED
        BY <1>1, <1>2, <4>1 DEF OwnerWrites
    <3>6. Owner' = [Owner EXCEPT ![c] = 0]
      BY <1>0, <1>1, <3>5, OtherCrates DEF Owner
    <3>7. Done' = [Done EXCEPT ![c] = @ \cup {Owner[c]}]
      <4>1. Done'[c] = Done[c] \cup {r}
        BY <1>0, <1>1, <2>5, <3>1, StepFacts DEF Done
      <4>2. QED
        BY <1>0, <1>1, <1>4, <2>1, <4>1, OtherCrates DEF Done
    <3>8. Abstract!Publish(c)
      BY <1>0, <1>3, <1>4, <2>1, <2>5, <3>4, <3>6, <3>7 DEF Abstract!Publish
    <3>9. QED
      BY <1>1, <3>8 DEF Abstract!Next
  <2>6. QED
    BY <1>1, <2>1, <2>2, <2>3, <2>4, <2>5 DEF Advances
<1>10. CASE Stops(r)
  <2>1. Published' = Published
    BY <1>1, <1>10, SamePublished, Extensionality DEF Stops
  <2>2. pc[r] # "ok" /\ pc'[r] # "ok" /\ ~ Writing(r)'
    BY <1>1, <1>10 DEF Stops, Live, Exited, Writing, TypeOK
  <2>3. CASE ~ Writing(r)
    BY <2>1, <2>2, <2>3, SameOwner DEF Abstract!vars
  <2>4. CASE Writing(r)
    <3>1. Owner'[c] = 0
      <4>1. \A q \in Runs : Writing(q)' => Crate(q)' # c
        <5>1. \A q \in Runs : Writing(q) => Live(q)
          BY DEF Writing, Live, Exited
        <5>2. \A q \in Runs \ {r} : Writing(q)' <=> Writing(q)
          BY StepFacts DEF Writing
        <5>3. QED
          BY <1>0, <1>1, <1>4, <2>2, <2>4, <5>1, <5>2, OwnDirectory
      <4>2. QED
        BY <1>1, <1>2, <4>1 DEF OwnerWrites
    <3>2. Owner' = [Owner EXCEPT ![c] = 0]
      BY <1>0, <1>1, <3>1, OtherCrates DEF Owner
    <3>3. Done' = Done
      BY <1>1, <2>2, StepFacts DEF Done
    <3>4. Abstract!GiveUp(c)
      BY <1>4, <2>1, <2>4, <3>2, <3>3 DEF Abstract!GiveUp
    <3>5. QED
      BY <1>1, <3>4 DEF Abstract!Next
  <2>5. QED
    BY <2>3, <2>4
<1>11. QED
  BY <1>6, <1>7, <1>8, <1>9, <1>10 DEF Step

(* The rewriting of crate directories file by file, by any number of runs  *)
(* that may panic, fail or be killed anywhere, implements PublishedCrate:  *)
(* half-written crates are never taken for published ones.                 *)
THEOREM Refinement == Overlap = FALSE => (Spec => ImplementsPublishedCrate)
<1> SUFFICES ASSUME Overlap = FALSE
             PROVE  Spec => ImplementsPublishedCrate
  OBVIOUS
<1>1. Init => Abstract!Init
  <2> SUFFICES ASSUME Init PROVE Abstract!Init
    OBVIOUS
  <2>1. \A c \in Crates : Writers(c) = {} /\ LibOf(c) = 0
    BY DEF Init, Writers, Writing, LibOf, Files
  <2>2. QED
    BY <2>1 DEF Abstract!Init, Owner, Published, IsPublished, Done, Init
<1>2. IInv /\ IInv' /\ [Next]_vars => [Abstract!Next]_Abstract!vars
  <2> SUFFICES ASSUME IInv, IInv', [Next]_vars
               PROVE  Abstract!Next \/ UNCHANGED Abstract!vars
    OBVIOUS
  <2>1. CASE \E r \in Runs : Step(r)
    BY <2>1, StepRefines
  <2>2. CASE UNCHANGED vars
    <3>1. /\ args' = args /\ pc' = pc /\ disk' = disk
          /\ \A q : Crate(q)' = Crate(q)
      BY <2>2, Constancy DEF vars
    <3>2. Published' = Published
      BY <3>1, SamePublished, Extensionality
    <3>3. Owner' = Owner /\ Done' = Done
      <4>1. IInv' => OwnerWrites'
        BY OwnerFacts, PTL
      <4>2. Owner' = Owner
        BY <3>1, <4>1, OwnerFacts, SameWriters DEF Writing
      <4>3. Done' = Done
        BY <3>1 DEF Done
      <4>4. QED
        BY <4>2, <4>3
    <3>4. QED
      BY <3>2, <3>3 DEF Abstract!vars
  <2>3. QED
    BY <2>1, <2>2, StepKinds
<1>3. Spec => []IInv
  BY Invariance
<1>4. QED
  BY <1>1, <1>2, <1>3, PTL DEF Spec, ImplementsPublishedCrate, Abstract!Spec
=============================================================================

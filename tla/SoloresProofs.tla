---------------------------- MODULE SoloresProofs ----------------------------
(***************************************************************************)
(* Proofs that the crates solores writes are what Solores says they are,   *)
(* for every number of runs, every set of crates and every choice of       *)
(* command lines.                                                          *)
(*                                                                         *)
(* For runs that do not overlap on a crate directory, IInv is shown to be  *)
(* inductive.  The steps of a run are first reduced to six kinds, by what  *)
(* they do to the files; each conjunct of IInv is then followed through    *)
(* the kinds of step.  What remains of it when runs overlap is in the last *)
(* two parts: Existence, about the files, and Knowledge, about the IDLs.   *)
(***************************************************************************)
EXTENDS SoloresInvariant, SequenceTheorems, TLAPS

-----------------------------------------------------------------------------
(* The modules a generated crate consists of *)

(* No element of a sequence occurs twice. *)
Distinct(s) == \A a, b \in 1 .. Len(s) : s[a] = s[b] => a = b

(* What the concatenation of two sequences over disjoint sets inherits. *)
LEMMA ConcatDistinct ==
  ASSUME NEW S, NEW T, S \cap T = {},
         NEW s \in Seq(S), NEW t \in Seq(T), Distinct(s), Distinct(t)
  PROVE  s \o t \in Seq(S \cup T) /\ Distinct(s \o t)
<1> DEFINE u == s \o t
<1>1. s \in Seq(S \cup T) /\ t \in Seq(S \cup T)
  BY SeqMonotonic DEF SeqMonotonic
<1>2. u \in Seq(S \cup T)
  BY <1>1, ConcatProperties
<1>3. /\ Len(s) \in Nat /\ Len(t) \in Nat
      /\ \A a \in 1 .. Len(s) : s[a] \in S
      /\ \A a \in 1 .. Len(t) : t[a] \in T
  BY LenProperties, ElementOfSeq
<1>4. /\ Len(u) = Len(s) + Len(t)
      /\ \A a \in 1 .. Len(u) : u[a] = IF a <= Len(s) THEN s[a] ELSE t[a - Len(s)]
  BY <1>1, ConcatProperties
<1>5. ASSUME NEW a \in 1 .. Len(u), NEW b \in 1 .. Len(u), u[a] = u[b]
      PROVE  a = b
  <2>1. CASE a <= Len(s) /\ b <= Len(s)
    BY <1>3, <1>4, <1>5, <2>1 DEF Distinct
  <2>2. CASE a > Len(s) /\ b > Len(s)
    <3>1. /\ a - Len(s) \in 1 .. Len(t) /\ b - Len(s) \in 1 .. Len(t)
          /\ t[a - Len(s)] = t[b - Len(s)]
      BY <1>3, <1>4, <1>5, <2>2
    <3>2. QED
      BY <1>3, <3>1 DEF Distinct
  <2>3. CASE a <= Len(s) /\ b > Len(s)
    BY <1>3, <1>4, <1>5, <2>3
  <2>4. CASE a > Len(s) /\ b <= Len(s)
    BY <1>3, <1>4, <1>5, <2>4
  <2>5. QED
    BY <1>3, <1>4, <2>1, <2>2, <2>3, <2>4
<1>6. QED
  BY <1>2, <1>5 DEF Distinct

(* A section gives at most one module, named after it. *)
LEMMA SectionModuleDistinct ==
  ASSUME NEW i, NEW m
  PROVE  SectionModule(i, m) \in Seq({m}) /\ Distinct(SectionModule(i, m))
<1>1. /\ <<>> \in Seq({m}) /\ Len(<<>>) = 0
      /\ <<m>> \in Seq({m}) /\ Len(<<m>>) = 1
  OBVIOUS
<1>2. CASE m \in i.sections
  BY <1>1, <1>2 DEF SectionModule, Distinct
<1>3. CASE m \notin i.sections
  BY <1>1, <1>3 DEF SectionModule, Distinct
<1>4. QED
  BY <1>2, <1>3

(* The generator writes modules it knows of, each of them once. *)
LEMMA ModulesDistinct ==
  ASSUME NEW i
  PROVE  modules(i) \in Seq(ModuleName) /\ Distinct(modules(i))
<1> DEFINE e == SectionModule(i, "errors")
           n == SectionModule(i, "instructions")
           t == SectionModule(i, "typedefs")
           a == SectionModule(i, "accounts")
<1>1. /\ e \in Seq({"errors"}) /\ Distinct(e)
      /\ n \in Seq({"instructions"}) /\ Distinct(n)
      /\ t \in Seq({"typedefs"}) /\ Distinct(t)
      /\ a \in Seq({"accounts"}) /\ Distinct(a)
  BY SectionModuleDistinct
<1> HIDE DEF e, n, t, a
<1>2. n \o e \in Seq({"instructions"} \cup {"errors"}) /\ Distinct(n \o e)
  BY <1>1, ConcatDistinct
<1>3. /\ t \o (n \o e) \in Seq({"typedefs"} \cup ({"instructions"} \cup {"errors"}))
      /\ Distinct(t \o (n \o e))
  BY <1>1, <1>2, ConcatDistinct
<1>4. {"accounts"} \cap ({"typedefs"} \cup ({"instructions"} \cup {"errors"})) = {}
  OBVIOUS
<1>5. /\ a \o (t \o (n \o e))
           \in Seq({"accounts"} \cup ({"typedefs"} \cup ({"instructions"} \cup {"errors"})))
      /\ Distinct(a \o (t \o (n \o e)))
  BY <1>1, <1>3, <1>4, ConcatDistinct
<1>6. modules(i) = a \o (t \o (n \o e))
  BY DEF modules, e, n, t, a
<1>7. ModuleName = {"accounts"} \cup ({"typedefs"} \cup ({"instructions"} \cup {"errors"}))
  BY DEF ModuleName
<1>8. QED
  BY <1>5, <1>6, <1>7

(* A module is there only for a section that is present. *)
LEMMA ModulesArePresent ==
  ASSUME NEW i
  PROVE  \A m \in Declared(i) : m \in i.sections
<1>1. ASSUME NEW m
      PROVE  SectionModule(i, m) \in Seq(i.sections)
  <2>1. CASE m \in i.sections
    <3>1. \A S : m \in S => <<m>> \in Seq(S)
      OBVIOUS
    <3>2. QED
      BY <2>1, <3>1 DEF SectionModule
  <2>2. CASE m \notin i.sections
    <3>1. <<>> \in Seq(i.sections)
      OBVIOUS
    <3>2. QED
      BY <2>2, <3>1 DEF SectionModule
  <2>3. QED
    BY <2>1, <2>2
<1>2. modules(i) \in Seq(i.sections)
  <2> DEFINE e == SectionModule(i, "errors")
             n == SectionModule(i, "instructions")
             t == SectionModule(i, "typedefs")
             a == SectionModule(i, "accounts")
  <2>1. {e, n, t, a} \subseteq Seq(i.sections)
    BY <1>1
  <2> HIDE DEF e, n, t, a
  <2>2. n \o e \in Seq(i.sections)
    BY <2>1, ConcatProperties
  <2>3. t \o (n \o e) \in Seq(i.sections)
    BY <2>1, <2>2, ConcatProperties
  <2>4. a \o (t \o (n \o e)) \in Seq(i.sections)
    BY <2>1, <2>3, ConcatProperties
  <2>5. QED
    BY <2>4 DEF modules, a, t, n, e
<1>3. QED
  BY <1>2, ElementOfSeq, LenProperties DEF Declared

(* The manifest has what the modules of its IDL name. *)
LEMMA DependenciesCover ==
  ASSUME NEW i, NEW m \in Declared(i)
  PROVE  CratesNamed(m) \subseteq dependencies(i)
<1>1. m \in ModuleName /\ m \in i.sections
  <2>1. modules(i) \in Seq(ModuleName)
    BY ModulesDistinct
  <2>2. QED
    BY <2>1, ModulesArePresent, ElementOfSeq, LenProperties DEF Declared
<1>2. QED
  BY <1>1 DEF CratesNamed, TypeCrates, InstructionCrates, ErrorCrates, dependencies, ModuleName

-----------------------------------------------------------------------------
(* Kinds of step *)

(* The current file is created or truncated. *)
Opens(r) ==
  /\ Writing(r) /\ fd[r] = NoFile /\ Crate(r) \in dirs
  /\ Put(r, Current(r), "empty")
  /\ fd' = [fd EXCEPT ![r] = Current(r)]
  /\ UNCHANGED <<args, pc, k, dirs>>

(* A part of it reaches the disk. *)
Fills(r) ==
  /\ fd[r] # NoFile
  /\ Put(r, Current(r), "torn")
  /\ UNCHANGED <<args, pc, k, fd, dirs>>

(* The run passes from the file it has completed to the next one. *)
Advances(r) ==
  \/ pc[r] = "gitignore" /\ pc' = [pc EXCEPT ![r] = "cargo"] /\ UNCHANGED k
  \/ pc[r] = "cargo" /\ pc' = [pc EXCEPT ![r] = "modules"] /\ UNCHANGED k
  \/ /\ pc[r] = "modules" /\ k[r] <= Len(modules(idl(r)))
     /\ k' = [k EXCEPT ![r] = @ + 1] /\ UNCHANGED pc
  \/ /\ pc[r] = "modules" /\ k[r] > Len(modules(idl(r)))
     /\ pc' = [pc EXCEPT ![r] = "ok"] /\ UNCHANGED k

(* The rest of it reaches the disk. *)
Completes(r) ==
  /\ fd[r] # NoFile
  /\ Put(r, Current(r), "full")
  /\ fd' = [fd EXCEPT ![r] = NoFile]
  /\ Advances(r)
  /\ UNCHANGED <<args, dirs>>

(* The run exits without success. *)
Stops(r) ==
  /\ Live(r)
  /\ \E s \in {"panicked", "failed"} : pc' = [pc EXCEPT ![r] = s]
  /\ fd' = [fd EXCEPT ![r] = NoFile]
  /\ UNCHANGED <<args, k, dirs, disk>>

(* The IDL is loaded, or the directory made. *)
Prepares(r) ==
  /\ \/ /\ pc[r] = "load" /\ Loads(idl(r)) /\ dirs' = dirs
        /\ pc' = [pc EXCEPT ![r] = "mkdir"]
     \/ /\ pc[r] = "mkdir" /\ dirs' = dirs \cup {Crate(r)}
        /\ \E s \in {"gitignore", "cargo"} : pc' = [pc EXCEPT ![r] = s]
  /\ UNCHANGED <<args, k, fd, disk>>

Step(r) ==
  Start(r) \/ Prepares(r) \/ Opens(r) \/ Fills(r) \/ Completes(r) \/ Stops(r)

-----------------------------------------------------------------------------
(* Facts about states and about files *)

(* The run numbers are naturals, and a state is typed component-wise. *)
LEMMA RunFacts ==
  ASSUME TypeOK, NEW r \in Runs
  PROVE  /\ idl(r) \in Idl
         /\ Crate(r) \in Crates
         /\ modules(idl(r)) \in Seq(ModuleName)
         /\ Len(modules(idl(r))) \in Nat
         /\ Distinct(modules(idl(r)))
         /\ \A j \in 1 .. Len(modules(idl(r))) : modules(idl(r))[j] \in ModuleName
         /\ Declared(idl(r)) \subseteq ModuleName
         /\ Parts(r) \subseteq Files
<1>1. args[r] \in Args
  BY InputsAssumption DEF TypeOK
<1>2. idl(r) \in Idl /\ Crate(r) \in Crates
  BY <1>1 DEF Args, idl, Crate, Idl
<1>3. modules(idl(r)) \in Seq(ModuleName) /\ Distinct(modules(idl(r)))
  BY ModulesDistinct
<1>4. /\ Len(modules(idl(r))) \in Nat
      /\ \A j \in 1 .. Len(modules(idl(r))) : modules(idl(r))[j] \in ModuleName
  BY <1>3, LenProperties, ElementOfSeq
<1>5. Declared(idl(r)) \subseteq ModuleName
  BY <1>4 DEF Declared
<1>6. Parts(r) \subseteq Files
  BY <1>5 DEF Parts, Files
<1>7. QED
  BY <1>2, <1>3, <1>4, <1>5, <1>6

(* The file a writing run is at is one of the files of its crate. *)
LEMMA CurrentFacts ==
  ASSUME TypeOK, NEW r \in Runs, Writing(r)
  PROVE  Current(r) \in Files /\ Current(r) # NoFile
<1>1. k[r] \in Nat \ {0}
  BY DEF TypeOK
<1>2. NoFile \notin Files
  BY DEF NoFile, Files, ModuleName
<1>3. Current(r) \in Files
  BY <1>1, RunFacts DEF Current, Writing, Files
<1>4. QED
  BY <1>2, <1>3

(* No step changes a command line, hence nothing that depends on it. *)
LEMMA Constancy ==
  ASSUME args' = args
  PROVE  \A r : /\ idl(r)' = idl(r) /\ Crate(r)' = Crate(r)
                /\ Parts(r)' = Parts(r)
BY DEF idl, Crate, Parts

(* Writing one file changes that file and no other. *)
LEMMA PutFacts ==
  ASSUME TypeOK, NEW r \in Runs, NEW f \in Files, NEW s \in State, Put(r, f, s)
  PROVE  /\ disk' \in [Crates -> [Files -> Version]]
         /\ disk'[Crate(r)][f] = [by |-> r, state |-> s]
         /\ \A c \in Crates : \A g \in Files :
              c # Crate(r) \/ g # f => disk'[c][g] = disk[c][g]
<1>1. Crate(r) \in Crates /\ r \in 0 .. MaxRuns /\ [by |-> r, state |-> s] \in Version
  BY RunFacts, RunsAssumption DEF Runs, Version
<1>2. disk \in [Crates -> [Files -> Version]]
  BY DEF TypeOK
<1>3. disk' = [disk EXCEPT ![Crate(r)][f] = [by |-> r, state |-> s]]
  BY DEF Put
<1> HIDE DEF Crate, Version
<1>4. QED
  BY <1>1, <1>2, <1>3

(* Every step of Next is a step of one run, of one of a few kinds, or a    *)
(* stutter.                                                                *)
LEMMA StepKinds ==
  ASSUME IInv, [Next]_vars
  PROVE  (\E r \in Runs : Step(r)) \/ UNCHANGED vars
<1> SUFFICES ASSUME NEW r \in Runs,
                    Start(r) \/ Progress(r) \/ write_some(r) \/ Fail(r)
             PROVE  Step(r)
  BY DEF Next, Terminated
<1>1. /\ TypeOK
      /\ fd[r] # NoFile => fd[r] = Current(r) /\ Undisturbed(r)
  <2>1. TypeOK /\ OpenFile
    BY DEF IInv
  <2>2. ASSUME fd[r] # NoFile
        PROVE  fd[r] = Current(r) /\ Undisturbed(r)
    <3>1. PICK s \in {"empty", "torn"} : file(r, fd[r]) = [by |-> r, state |-> s]
      BY <2>1, <2>2 DEF OpenFile
    <3>2. file(r, fd[r]).by = r /\ file(r, fd[r]).state \in {"empty", "torn"}
      BY <3>1
    <3>3. QED
      BY <2>1, <2>2, <3>2 DEF OpenFile, Undisturbed
  <2>3. QED
    BY <2>1, <2>2
<1>2. CASE Start(r)
  BY <1>2 DEF Step
<1>3. CASE load_idl(r)
  <2>1. fd[r] = NoFile
    BY <1>3 DEF load_idl, IInv, OpenFile, Writing
  <2>2. fd = [fd EXCEPT ![r] = NoFile]
    BY <1>1, <2>1 DEF TypeOK
  <2>3. QED
    BY <1>3, <2>2 DEF load_idl, Step, Prepares, Stops, Live, Exited
<1>4. CASE create_dir_all(r)
  BY <1>4 DEF create_dir_all, Step, Prepares
<1>5. CASE write_gitignore(r)
  BY <1>1, <1>5 DEF write_gitignore, open_file_create_overwrite, write_all, Step,
     Opens, Completes, Advances, Current, Writing, NoFile
<1>6. CASE write_cargotoml(r)
  BY <1>1, <1>6 DEF write_cargotoml, open_file_create_overwrite, write_all, Step,
     Opens, Completes, Advances, Current, Writing, NoFile
<1>7. CASE write_module(r)
  <2>1. fd[r] = NoFile => fd = [fd EXCEPT ![r] = NoFile]
    BY <1>1 DEF TypeOK
  <2>2. Current(r) = modules(idl(r))[k[r]] /\ Writing(r) /\ Live(r)
    BY <1>7 DEF write_module, Current, Writing, Live, Exited
  <2>3. Current(r) # NoFile
    BY <1>1, <2>2, CurrentFacts
  <2>4. QED
    BY <1>1, <1>7, <2>1, <2>2, <2>3 DEF write_module, open_file_create_overwrite,
       write_all, Step, Opens, Completes, Advances, Stops
<1>8. CASE write_lib(r)
  <2>1. Current(r) = "lib" /\ Writing(r)
    BY <1>1, <1>8, RunFacts DEF write_lib, Current, Writing, TypeOK
  <2>2. QED
    BY <1>1, <1>8, <2>1 DEF write_lib, open_file_create_overwrite, write_all, Step,
       Opens, Completes, Advances, NoFile
<1>9. CASE write_some(r)
  BY <1>1, <1>9 DEF write_some, Step, Fills
<1>10. CASE Fail(r)
  BY <1>10 DEF Fail, Step, Stops
<1>11. QED
  BY <1>2, <1>3, <1>4, <1>5, <1>6, <1>7, <1>8, <1>9, <1>10 DEF Progress

-----------------------------------------------------------------------------
(* The conjuncts of IInv, one by one *)

(* The invariant holds before any run has started. *)
LEMMA InitIInv == Init => IInv
<1> SUFFICES ASSUME Init PROVE IInv
  OBVIOUS
<1> USE DEF Init
<1>1. TypeOK
  <2>1. disk \in [Crates -> [Files -> Version]]
    BY RunsAssumption DEF Version, State
  <2>2. QED
    BY <2>1 DEF TypeOK, PC
<1>2. OneWriter
  BY DEF OneWriter, Live
<1>3. Provenance
  BY DEF Provenance, Writing
<1>4. OpenFile
  BY DEF OpenFile
<1>5. WrittenSoFar
  BY DEF WrittenSoFar, Live
<1>6. NoStaleParts
  <2>1. "lib" \in Files
    BY DEF Files
  <2>2. QED
    BY <2>1 DEF NoStaleParts, LibOf
<1>7. QED
  BY <1>1, <1>2, <1>3, <1>4, <1>5, <1>6 DEF IInv

(* What every kind of step leaves alone, and what it makes of a file. *)
LEMMA StepFacts ==
  ASSUME IInv, NEW r \in Runs, Step(r)
  PROVE  /\ args' = args
         /\ \A q \in Runs \ {r} : pc'[q] = pc[q] /\ k'[q] = k[q] /\ fd'[q] = fd[q]
         /\ pc' \in [Runs -> PC] /\ k' \in [Runs -> Nat \ {0}]
         /\ fd' \in [Runs -> Files \cup {NoFile}]
         /\ pc'[r] # "unborn"
         /\ ~ Start(r) => Live(r)
<1>1. TypeOK
  BY DEF IInv
<1>2. fd[r] # NoFile => Writing(r)
  BY DEF IInv, OpenFile
<1>3. Writing(r) => Current(r) \in Files /\ Live(r)
  BY <1>1, CurrentFacts DEF Writing, Live, Exited
<1>4. CASE Start(r)
  BY <1>1, <1>4 DEF Start, TypeOK, PC
<1>5. CASE Prepares(r)
  BY <1>1, <1>5 DEF Prepares, TypeOK, PC, Live, Exited
<1>6. CASE Opens(r)
  BY <1>1, <1>3, <1>6 DEF Opens, TypeOK, Live
<1>7. CASE Fills(r)
  BY <1>1, <1>2, <1>3, <1>7 DEF Fills, TypeOK, Live
<1>8. CASE Completes(r)
  <2>1. args' = args /\ fd' = [fd EXCEPT ![r] = NoFile] /\ Live(r) /\ Advances(r)
    BY <1>2, <1>3, <1>8 DEF Completes
  <2>2. /\ \A q \in Runs \ {r} : pc'[q] = pc[q] /\ k'[q] = k[q]
        /\ pc' \in [Runs -> PC] /\ k' \in [Runs -> Nat \ {0}]
        /\ pc'[r] # "unborn"
    <3>1. pc \in [Runs -> PC] /\ k \in [Runs -> Nat \ {0}] /\ k[r] + 1 \in Nat \ {0}
      BY <1>1 DEF TypeOK
    <3>2. pc[r] \in PC \ {"unborn"} /\ {"cargo", "modules", "ok"} \subseteq PC
      BY <2>1, <3>1 DEF Live, PC, Exited
    <3>3. \/ pc' = pc
          \/ \E x \in {"cargo", "modules", "ok"} : pc' = [pc EXCEPT ![r] = x]
      BY <2>1 DEF Advances
    <3>4. k' = k \/ k' = [k EXCEPT ![r] = k[r] + 1]
      BY <2>1 DEF Advances
    <3> HIDE DEF PC
    <3>5. /\ \A q \in Runs \ {r} : pc'[q] = pc[q]
          /\ pc' \in [Runs -> PC] /\ pc'[r] # "unborn"
      BY <3>1, <3>2, <3>3
    <3>6. (\A q \in Runs \ {r} : k'[q] = k[q]) /\ k' \in [Runs -> Nat \ {0}]
      BY <3>1, <3>4
    <3>7. QED
      BY <3>5, <3>6
  <2>3. QED
    BY <1>1, <2>1, <2>2 DEF TypeOK
<1>9. CASE Stops(r)
  BY <1>1, <1>9 DEF Stops, TypeOK, PC, Exited, Live
<1>10. QED
  BY <1>4, <1>5, <1>6, <1>7, <1>8, <1>9 DEF Step

(* The only file a step of run r may change is the current one of r. *)
LEMMA DiskFacts ==
  ASSUME IInv, NEW r \in Runs, Step(r)
  PROVE  /\ disk' \in [Crates -> [Files -> Version]]
         /\ \/ disk' = disk
            \/ /\ Writing(r) /\ (Opens(r) \/ Fills(r) \/ Completes(r))
               /\ \E s \in {"empty", "torn", "full"} :
                    disk'[Crate(r)][Current(r)] = [by |-> r, state |-> s]
               /\ \A c \in Crates : \A g \in Files :
                    c # Crate(r) \/ g # Current(r) => disk'[c][g] = disk[c][g]
<1>1. TypeOK
  BY DEF IInv
<1>2. fd[r] # NoFile => Writing(r)
  BY DEF IInv, OpenFile
<1>3. CASE Start(r) \/ Prepares(r) \/ Stops(r)
  BY <1>1, <1>3 DEF Start, Prepares, Stops, TypeOK
<1>4. CASE Opens(r) \/ Fills(r) \/ Completes(r)
  <2>1. PICK s \in {"empty", "torn", "full"} : Put(r, Current(r), s)
    BY <1>4 DEF Opens, Fills, Completes
  <2>2. Writing(r)
    BY <1>2, <1>4 DEF Opens, Fills, Completes
  <2>3. Current(r) \in Files /\ s \in State
    BY <1>1, <2>2, CurrentFacts DEF State
  <2>4. QED
    BY <1>1, <1>4, <2>1, <2>2, <2>3, PutFacts
<1>5. QED
  BY <1>3, <1>4 DEF Step

(* Types survive a step. *)
LEMMA TypeStep ==
  ASSUME IInv, NEW r \in Runs, Step(r)
  PROVE  TypeOK'
<1>1. dirs' \in SUBSET Crates
  BY RunFacts DEF IInv, TypeOK, Step, Start, Prepares, Opens, Fills, Completes, Stops
<1>2. args' \in [Runs -> Inputs]
  BY StepFacts DEF IInv, TypeOK
<1>3. QED
  BY <1>1, <1>2, StepFacts, DiskFacts DEF TypeOK

(* A run that starts finds no live run of its crate, so it stays the latest. *)
LEMMA OneWriterStep ==
  ASSUME IInv, Overlap = FALSE, NEW r \in Runs, Step(r)
  PROVE  OneWriter'
<1>1. /\ TypeOK /\ OneWriter
      /\ \A q : Crate(q)' = Crate(q)
  BY StepFacts, Constancy DEF IInv
<1>2. r \in Nat /\ Runs \subseteq Nat
  BY DEF Runs
<1>3. CASE Start(r)
  BY <1>1, <1>2, <1>3 DEF Start, OneWriter, Live, TypeOK, Exited
<1>4. CASE ~ Start(r)
  <2>1. Live(r) /\ \A q \in Runs : Live(q)' => Live(q)
    BY <1>4, StepFacts DEF Live
  <2>2. \A q \in Runs : (pc[q] # "unborn") <=> (pc'[q] # "unborn")
    BY <2>1, StepFacts DEF Live
  <2>3. QED
    BY <1>1, <2>1, <2>2 DEF OneWriter
<1>5. QED
  BY <1>3, <1>4

(* Only a run whose IDL has loaded makes a directory or opens a file. *)
LEMMA ProvenanceStep ==
  ASSUME IInv, NEW r \in Runs, Step(r)
  PROVE  Provenance'
<1>1. /\ TypeOK /\ Provenance
      /\ \A q : Crate(q)' = Crate(q) /\ idl(q)' = idl(q)
  BY StepFacts, Constancy DEF IInv
<1>2. \A q \in Runs : pc[q] # "unborn" => pc'[q] # "unborn"
  BY StepFacts
<1>3. Writing(r) => Loads(idl(r)) /\ pc[r] # "unborn"
  BY <1>1 DEF Provenance, Writing
<1>4. ASSUME NEW c \in Crates, NEW f \in Files, disk'[c][f].by # 0
      PROVE  LET b == disk'[c][f].by IN
               Crate(b) = c /\ pc'[b] # "unborn" /\ Loads(idl(b))
  <2>1. CASE disk'[c][f] = disk[c][f]
    <3>1. disk[c][f].by \in Runs
      BY <1>1, <1>4, <2>1, RunsAssumption DEF TypeOK, Version, Runs
    <3>2. QED
      BY <1>1, <1>2, <1>4, <2>1, <3>1 DEF Provenance
  <2>2. CASE disk'[c][f] # disk[c][f]
    <3>1. disk' # disk
      BY <2>2
    <3>2. c = Crate(r) /\ f = Current(r) /\ Writing(r)
      BY <2>2, <3>1, DiskFacts
    <3>3. PICK s : disk'[c][f] = [by |-> r, state |-> s]
      BY <3>1, <3>2, DiskFacts
    <3>4. QED
      BY <1>2, <1>3, <3>2, <3>3
  <2>3. QED
    BY <2>1, <2>2
<1>5. ASSUME NEW q \in Runs, pc'[q] = "mkdir" \/ Writing(q)'
      PROVE  Loads(idl(q))
  <2>1. CASE q # r
    BY <1>1, <1>5, <2>1, StepFacts DEF Provenance, Writing
  <2>2. CASE q = r
    <3>1. CASE Start(r) \/ Stops(r)
      BY <1>1, <1>5, <2>2, <3>1 DEF Start, Stops, TypeOK, Writing
    <3>2. CASE Prepares(r)
      BY <1>1, <3>2, <2>2 DEF Prepares, Provenance
    <3>3. CASE Opens(r) \/ Fills(r) \/ Completes(r)
      BY <1>3, <2>2, <3>3 DEF Opens, Fills, Completes, IInv, OpenFile
    <3>4. QED
      BY <3>1, <3>2, <3>3 DEF Step
  <2>3. QED
    BY <2>1, <2>2
<1>6. ASSUME NEW c \in dirs'
      PROVE  \E q \in Runs : Crate(q) = c /\ Loads(idl(q))
  <2>1. CASE c \in dirs
    BY <1>1, <2>1 DEF Provenance
  <2>2. CASE c \notin dirs
    <3>1. pc[r] = "mkdir" /\ c = Crate(r)
      BY <1>6, <2>2 DEF Step, Start, Prepares, Opens, Fills, Completes, Stops
    <3>2. QED
      BY <1>1, <3>1 DEF Provenance
  <2>3. QED
    BY <2>1, <2>2
<1>7. QED
  BY <1>1, <1>4, <1>5, <1>6 DEF Provenance

(* A live run has its crate directory to itself. *)
LEMMA OwnDirectory ==
  ASSUME IInv, NEW r \in Runs, NEW q \in Runs, Live(r), Live(q), Crate(r) = Crate(q)
  PROVE  r = q
<1>1. r <= q /\ q <= r
  BY DEF IInv, OneWriter, Live
<1>2. QED
  BY <1>1 DEF Runs

(* So what the files of one live run are does not change under it. *)
LEMMA OthersFiles ==
  ASSUME IInv, NEW r \in Runs, Step(r), NEW q \in Runs, q # r, Live(q)
  PROVE  \A f \in Files : disk'[Crate(q)][f] = disk[Crate(q)][f]
<1>1. TypeOK /\ Crate(q) \in Crates
  BY RunFacts DEF IInv
<1>2. CASE disk' = disk
  BY <1>2
<1>3. CASE disk' # disk
  <2>1. Writing(r)
    BY <1>3, DiskFacts
  <2>2. Live(r)
    BY <2>1 DEF Writing, Live, Exited
  <2>3. Crate(q) # Crate(r)
    BY <2>2, OwnDirectory
  <2>4. QED
    BY <1>1, <1>3, <2>3, DiskFacts
<1>4. QED
  BY <1>2, <1>3

(* A run opens only the file it is at, and closes it before it moves on. *)
LEMMA OpenFileStep ==
  ASSUME IInv, NEW r \in Runs, Step(r)
  PROVE  OpenFile'
<1>1. /\ TypeOK /\ OpenFile
      /\ \A q : Crate(q)' = Crate(q) /\ idl(q)' = idl(q)
  BY StepFacts, Constancy DEF IInv
<1> SUFFICES ASSUME NEW q \in Runs, fd'[q] # NoFile
             PROVE  /\ Writing(q)' /\ fd'[q] = Current(q)'
                    /\ \E s \in {"empty", "torn"} :
                         disk'[Crate(q)][fd'[q]] = [by |-> q, state |-> s]
  BY <1>1 DEF OpenFile, file
<1>2. CASE q # r
  <2>1. pc'[q] = pc[q] /\ k'[q] = k[q] /\ fd'[q] = fd[q]
    BY <1>2, StepFacts
  <2>2. Writing(q) /\ fd[q] = Current(q) /\ Live(q) /\ fd[q] \in Files
    BY <1>1, <2>1, CurrentFacts DEF OpenFile, Writing, Live, Exited
  <2>3. Writing(q)' /\ Current(q)' = Current(q)
    BY <1>1, <2>1, <2>2 DEF Writing, Current
  <2>4. QED
    BY <1>1, <1>2, <2>1, <2>2, <2>3, OthersFiles DEF OpenFile, file
<1>3. CASE q = r
  <2>1. CASE Start(r) \/ Prepares(r)
    <3>1. fd[r] = fd'[r] /\ ~ Writing(r)
      BY <2>1 DEF Start, Prepares, Writing
    <3>2. QED
      BY <1>1, <1>3, <3>1 DEF OpenFile
  <2>2. CASE Opens(r)
    <3>1. /\ Writing(r) /\ Writing(r)' /\ Current(r)' = Current(r)
          /\ fd'[r] = Current(r)
      BY <1>1, <2>2 DEF Opens, TypeOK, Writing, Current
    <3>2. disk'[Crate(r)][Current(r)] = [by |-> r, state |-> "empty"]
      BY <1>1, <2>2, <3>1, CurrentFacts, PutFacts DEF Opens, State
    <3>3. QED
      BY <1>3, <3>1, <3>2
  <2>3. CASE Fills(r)
    <3>1. /\ Writing(r) /\ Writing(r)' /\ Current(r)' = Current(r)
          /\ fd'[r] = Current(r)
      BY <1>1, <2>3 DEF Fills, OpenFile, TypeOK, Writing, Current
    <3>2. disk'[Crate(r)][Current(r)] = [by |-> r, state |-> "torn"]
      BY <1>1, <2>3, <3>1, CurrentFacts, PutFacts DEF Fills, State
    <3>3. QED
      BY <1>3, <3>1, <3>2
  <2>4. CASE Completes(r) \/ Stops(r)
    BY <1>1, <1>3, <2>4 DEF Completes, Stops, TypeOK
  <2>5. QED
    BY <2>1, <2>2, <2>3, <2>4 DEF Step
<1>4. QED
  BY <1>2, <1>3

(* A run is at lib.rs exactly when it has all its modules behind it. *)
LEMMA CurrentLib ==
  ASSUME TypeOK, NEW r \in Runs, Writing(r), Current(r) = "lib"
  PROVE  pc[r] = "modules" /\ k[r] > Len(modules(idl(r)))
<1>1. k[r] \in Nat \ {0} /\ Len(modules(idl(r))) \in Nat
  BY RunFacts DEF TypeOK
<1>2. k[r] <= Len(modules(idl(r))) => modules(idl(r))[k[r]] \in ModuleName
  BY <1>1, RunFacts
<1>3. QED
  BY <1>1, <1>2 DEF Current, Writing, ModuleName

(* The modules before the current file are other files than it. *)
LEMMA EarlierModules ==
  ASSUME TypeOK, NEW r \in Runs, pc[r] = "modules",
         NEW j \in 1 .. Len(modules(idl(r))), j < k[r]
  PROVE  modules(idl(r))[j] \in Files \ {Current(r), "Cargo.toml", "lib"}
<1>1. modules(idl(r))[j] \in ModuleName
  BY RunFacts
<1>2. k[r] \in Nat \ {0} /\ Len(modules(idl(r))) \in Nat
  BY RunFacts DEF TypeOK
<1>3. CASE k[r] <= Len(modules(idl(r)))
  BY <1>1, <1>2, <1>3, RunFacts DEF Current, Distinct, Files, ModuleName
<1>4. CASE ~ (k[r] <= Len(modules(idl(r))))
  BY <1>1, <1>4 DEF Current, Files, ModuleName
<1>5. QED
  BY <1>3, <1>4

(* A step that changes a file of a live run is a step of that run, on its  *)
(* current file; what comes before it stays.                               *)
LEMMA ModulesStep ==
  ASSUME IInv, NEW r \in Runs, Step(r), pc'[r] = "modules"
  PROVE  /\ disk'[Crate(r)]["Cargo.toml"] = [by |-> r, state |-> "full"]
         /\ \A j \in 1 .. Len(modules(idl(r))) :
              j < k'[r] =>
                disk'[Crate(r)][modules(idl(r))[j]] = [by |-> r, state |-> "full"]
<1>1. TypeOK /\ WrittenSoFar /\ OpenFile
  BY DEF IInv
<1>2. /\ Crate(r) \in Crates /\ {"Cargo.toml", "lib"} \subseteq Files
      /\ k[r] \in Nat \ {0} /\ Len(modules(idl(r))) \in Nat
  BY <1>1, RunFacts DEF Files, TypeOK
<1>3. CASE Start(r) \/ Prepares(r) \/ Stops(r)
  BY <1>1, <1>3 DEF Start, Prepares, Stops, TypeOK
<1>4. CASE Opens(r) \/ Fills(r)
  <2>1. pc[r] = "modules" /\ k'[r] = k[r]
    BY <1>4 DEF Opens, Fills
  <2>2. \A g \in Files \ {Current(r)} : disk'[Crate(r)][g] = disk[Crate(r)][g]
    BY <1>2, DiskFacts
  <2>3. Current(r) # "Cargo.toml"
    <3>1. k[r] <= Len(modules(idl(r))) => modules(idl(r))[k[r]] \in ModuleName
      BY <1>1, <1>2, RunFacts
    <3>2. QED
      BY <2>1, <3>1 DEF Current, ModuleName
  <2>4. \A j \in 1 .. Len(modules(idl(r))) :
          j < k[r] => modules(idl(r))[j] \in Files \ {Current(r)}
    BY <1>1, <2>1, EarlierModules
  <2>5. QED
    BY <1>1, <1>2, <2>1, <2>2, <2>3, <2>4 DEF WrittenSoFar, file
<1>5. CASE Completes(r)
  <2>1. Writing(r) /\ Live(r) /\ Advances(r)
    BY <1>1, <1>5 DEF Completes, OpenFile, Writing, Live, Exited
  <2>2. Current(r) \in Files
    BY <1>1, <2>1, CurrentFacts
  <2>3. /\ disk'[Crate(r)][Current(r)] = [by |-> r, state |-> "full"]
        /\ \A g \in Files \ {Current(r)} : disk'[Crate(r)][g] = disk[Crate(r)][g]
    <3>1. Put(r, Current(r), "full") /\ "full" \in State
      BY <1>5 DEF Completes, State
    <3>2. QED
      BY <1>1, <1>2, <2>2, <3>1, PutFacts
  <2>4. CASE pc[r] = "cargo"
    <3>1. k'[r] = 1 /\ Current(r) = "Cargo.toml"
      BY <1>1, <2>1, <2>4 DEF Advances, WrittenSoFar, Current
    <3>2. QED
      BY <2>3, <3>1
  <2>5. CASE pc[r] = "modules"
    <3>1. k[r] <= Len(modules(idl(r))) /\ k'[r] = k[r] + 1
      BY <1>1, <1>2, <2>1, <2>5 DEF Advances, TypeOK
    <3>2. Current(r) = modules(idl(r))[k[r]] /\ Current(r) \in ModuleName
      BY <1>1, <1>2, <2>5, <3>1, RunFacts DEF Current
    <3>3. Current(r) # "Cargo.toml"
      BY <3>2 DEF ModuleName
    <3>4. \A j \in 1 .. Len(modules(idl(r))) :
            j < k[r] => modules(idl(r))[j] \in Files \ {Current(r)}
      BY <1>1, <2>5, EarlierModules
    <3>5. \A j \in 1 .. Len(modules(idl(r))) : j < k[r] + 1 => j < k[r] \/ j = k[r]
      BY <1>2
    <3>6. QED
      BY <1>1, <1>2, <2>3, <2>5, <3>1, <3>2, <3>3, <3>4, <3>5 DEF WrittenSoFar, file
  <2>6. QED
    BY <1>1, <2>1, <2>4, <2>5 DEF Advances, TypeOK
<1>6. QED
  BY <1>3, <1>4, <1>5 DEF Step

(* A run that has opened lib.rs has it open until it exits. *)
LEMMA LibStep ==
  ASSUME IInv, NEW r \in Runs, Step(r), Live(r)', disk'[Crate(r)]["lib"].by = r
  PROVE  fd'[r] = "lib"
<1>1. TypeOK /\ WrittenSoFar /\ OpenFile /\ Provenance
  BY DEF IInv
<1>2. /\ Crate(r) \in Crates /\ "lib" \in Files /\ r # 0 /\ NoFile # "lib"
      /\ k[r] \in Nat \ {0} /\ Len(modules(idl(r))) \in Nat
  <2>1. r # 0
    BY RunsAssumption DEF Runs
  <2>2. Crate(r) \in Crates /\ Len(modules(idl(r))) \in Nat /\ k[r] \in Nat \ {0}
    BY <1>1, RunFacts DEF TypeOK
  <2>3. "lib" \in Files /\ NoFile # "lib"
    BY DEF Files, NoFile
  <2>4. QED
    BY <2>1, <2>2, <2>3
<1>3. CASE Start(r)
  BY <1>1, <1>2, <1>3 DEF Start, Provenance
<1>4. CASE Prepares(r)
  BY <1>1, <1>4 DEF Prepares, WrittenSoFar, file, Live, Exited
<1>5. CASE Stops(r)
  BY <1>1, <1>5 DEF Stops, TypeOK, Live, Exited
<1>6. CASE Opens(r) \/ Fills(r) \/ Completes(r)
  <2>1. Writing(r) /\ Live(r) /\ (fd[r] # NoFile => fd[r] = Current(r))
    BY <1>1, <1>6 DEF Opens, Fills, Completes, OpenFile, Writing, Live, Exited
  <2>2. CASE Current(r) = "lib"
    <3>1. pc[r] = "modules" /\ k[r] > Len(modules(idl(r)))
      BY <1>1, <2>1, <2>2, CurrentLib
    <3>2. CASE Completes(r)
      <4>1. Advances(r)
        BY <3>2 DEF Completes
      <4>2. pc'[r] = "ok"
        BY <1>1, <1>2, <3>1, <4>1 DEF Advances, TypeOK
      <4>3. QED
        BY <4>2 DEF Live, Exited
    <3>3. CASE Opens(r) \/ Fills(r)
      BY <1>1, <2>1, <2>2, <3>3 DEF Opens, Fills, TypeOK
    <3>4. QED
      BY <1>6, <3>2, <3>3
  <2>3. CASE Current(r) # "lib"
    <3>1. disk'[Crate(r)]["lib"] = disk[Crate(r)]["lib"]
      BY <1>2, <2>3, DiskFacts
    <3>2. fd[r] = "lib"
      BY <1>1, <2>1, <3>1 DEF WrittenSoFar, file
    <3>3. QED
      BY <1>2, <2>1, <2>3, <3>2
  <2>4. QED
    BY <2>2, <2>3
<1>7. QED
  BY <1>3, <1>4, <1>5, <1>6 DEF Step

(* The files a run has behind it stay complete while it is live. *)
LEMMA WrittenSoFarStep ==
  ASSUME IInv, NEW r \in Runs, Step(r)
  PROVE  WrittenSoFar'
<1>1. /\ TypeOK /\ WrittenSoFar /\ OpenFile
      /\ \A q : Crate(q)' = Crate(q) /\ idl(q)' = idl(q)
  BY StepFacts, Constancy DEF IInv
<1>2. ASSUME NEW q \in Runs, q # r
      PROVE  /\ Live(q)' /\ pc'[q] # "modules" => k'[q] = 1
             /\ pc'[q] = "unborn" => k'[q] = 1
             /\ pc'[q] = "modules" =>
                  /\ disk'[Crate(q)]["Cargo.toml"] = [by |-> q, state |-> "full"]
                  /\ \A j \in 1 .. Len(modules(idl(q))) :
                       j < k'[q] =>
                         disk'[Crate(q)][modules(idl(q))[j]] = [by |-> q, state |-> "full"]
             /\ Live(q)' /\ disk'[Crate(q)]["lib"].by = q => fd'[q] = "lib"
  <2>1. pc'[q] = pc[q] /\ k'[q] = k[q] /\ fd'[q] = fd[q] /\ (Live(q)' <=> Live(q))
    BY <1>2, StepFacts DEF Live
  <2>2. pc[q] = "modules" => Live(q)
    BY DEF Live, Exited
  <2>3. Live(q) => \A f \in Files : disk'[Crate(q)][f] = disk[Crate(q)][f]
    BY <1>2, OthersFiles
  <2>4. /\ {"Cargo.toml", "lib"} \subseteq Files
        /\ \A j \in 1 .. Len(modules(idl(q))) : modules(idl(q))[j] \in Files
    BY <1>1, RunFacts DEF Files
  <2>5. QED
    BY <1>1, <2>1, <2>2, <2>3, <2>4 DEF WrittenSoFar, file
<1>3. /\ Live(r)' /\ pc'[r] # "modules" => k'[r] = 1
      /\ pc'[r] # "unborn"
  <2>1. CASE Completes(r)
    <3>1. Writing(r) /\ Live(r) /\ Advances(r)
      BY <1>1, <2>1 DEF Completes, OpenFile, Writing, Live, Exited
    <3>2. QED
      BY <1>1, <3>1, StepFacts DEF Advances, WrittenSoFar, TypeOK, Live, Exited
  <2>2. CASE ~ Completes(r)
    <3>1. k' = k
      BY <2>2 DEF Step, Start, Prepares, Opens, Fills, Stops
    <3>2. pc'[r] # "modules" /\ Live(r)' => pc[r] # "modules" /\ (Live(r) \/ pc[r] = "unborn")
      BY <1>1, <2>2 DEF Step, Start, Prepares, Opens, Fills, Stops, TypeOK, Live, Exited
    <3>3. QED
      BY <1>1, <3>1, <3>2, StepFacts DEF WrittenSoFar
  <2>3. QED
    BY <2>1, <2>2
<1>4. QED
  BY <1>1, <1>2, <1>3, ModulesStep, LibStep DEF WrittenSoFar, file

(* When a run is at lib.rs, the other parts of its crate are complete. *)
LEMMA PartsComplete ==
  ASSUME IInv, NEW r \in Runs, pc[r] = "modules", k[r] > Len(modules(idl(r)))
  PROVE  \A f \in Parts(r) \ {"lib"} : file(r, f) = [by |-> r, state |-> "full"]
<1>1. TypeOK /\ WrittenSoFar
  BY DEF IInv
<1>2. \A j \in 1 .. Len(modules(idl(r))) : j < k[r]
  BY <1>1, RunFacts DEF TypeOK
<1>3. QED
  BY <1>1, <1>2 DEF Parts, Declared, WrittenSoFar

(* lib.rs is opened over parts that are as new and complete, and parts are *)
(* overwritten by later runs only.                                         *)
LEMMA NoStalePartsStep ==
  ASSUME IInv, NEW r \in Runs, Step(r)
  PROVE  NoStaleParts'
<1>1. /\ TypeOK /\ OneWriter /\ Provenance /\ OpenFile /\ WrittenSoFar /\ NoStaleParts
      /\ \A q : Crate(q)' = Crate(q) /\ idl(q)' = idl(q) /\ Parts(q)' = Parts(q)
  BY StepFacts, Constancy DEF IInv
<1>2. /\ Crate(r) \in Crates /\ "lib" \in Files /\ Runs \subseteq Nat
      /\ \A c \in Crates : \A f \in Files : disk[c][f].by \in Nat
  <2>1. Crate(r) \in Crates /\ "lib" \in Files
    BY <1>1, RunFacts DEF Files
  <2>2. Runs \subseteq Nat
    BY DEF Runs
  <2>3. \A v \in Version : v.by \in Nat
    BY RunsAssumption DEF Version
  <2>4. QED
    BY <1>1, <2>1, <2>2, <2>3 DEF TypeOK
<1>3. disk' # disk =>
        /\ Writing(r) /\ Live(r) /\ Current(r) \in Files
        /\ fd[r] \in {NoFile, Current(r)}
        /\ disk'[Crate(r)][Current(r)].by = r
        /\ \A c \in Crates : \A g \in Files :
             c # Crate(r) \/ g # Current(r) => disk'[c][g] = disk[c][g]
  <2>1. SUFFICES ASSUME disk' # disk PROVE <1>3!2
    OBVIOUS
  <2>2. /\ Writing(r)
        /\ \A c \in Crates : \A g \in Files :
             c # Crate(r) \/ g # Current(r) => disk'[c][g] = disk[c][g]
    BY <2>1, DiskFacts
  <2>3. PICK s : disk'[Crate(r)][Current(r)] = [by |-> r, state |-> s]
    BY <2>1, DiskFacts
  <2>4. Live(r) /\ Current(r) \in Files /\ fd[r] \in {NoFile, Current(r)}
    BY <1>1, <2>2, CurrentFacts DEF Writing, Live, Exited, OpenFile
  <2>5. QED
    BY <2>2, <2>3, <2>4
<1>4. Writing(r) /\ Current(r) = "lib" => pc[r] = "modules" /\ k[r] > Len(modules(idl(r)))
  BY <1>1, CurrentLib
<1>5. ASSUME NEW c \in Crates, disk'[c]["lib"].by # 0,
             NEW f \in Parts(disk'[c]["lib"].by)
      PROVE  /\ disk'[c][f].by >= disk'[c]["lib"].by
             /\ disk'[c][f].by = disk'[c]["lib"].by /\ f # "lib"
                  => disk'[c][f].state = "full"
  <2> DEFINE l == disk'[c]["lib"].by
  <2>1. l \in Runs /\ f \in Files
    <3>1. disk' \in [Crates -> [Files -> Version]]
      BY DiskFacts
    <3>2. l \in Runs
      BY <1>2, <1>5, <3>1, RunsAssumption DEF Version, Runs
    <3>3. QED
      BY <1>1, <1>5, <3>2, RunFacts
  <2>2. CASE disk'[c] = disk[c]
    BY <1>1, <1>5, <2>2 DEF NoStaleParts, LibOf
  <2>3. CASE disk'[c] # disk[c]
    <3>1. disk' # disk
      BY <2>3
    <3>2. c = Crate(r)
      <4>1. SUFFICES ASSUME c # Crate(r) PROVE disk'[c] = disk[c]
        BY <2>3
      <4>2. disk[c] \in [Files -> Version] /\ disk'[c] \in [Files -> Version]
        BY <1>1, DiskFacts DEF TypeOK
      <4>3. \A g \in Files : disk'[c][g] = disk[c][g]
        BY <1>3, <3>1, <4>1
      <4>4. QED
        BY <4>2, <4>3
    <3>3. CASE Current(r) = "lib"
      <4>1. l = r
        BY <1>3, <3>1, <3>2, <3>3
      <4>2. CASE f = "lib"
        <5>1. disk'[c][f].by = l /\ l \in Nat
          BY <1>2, <2>1, <4>2
        <5>2. QED
          BY <4>2, <5>1
      <4>3. CASE f # "lib"
        <5>1. disk[c][f] = [by |-> r, state |-> "full"]
          BY <1>1, <1>3, <1>4, <1>5, <3>1, <3>2, <3>3, <4>1, <4>3, PartsComplete DEF file
        <5>2. disk'[c][f] = [by |-> r, state |-> "full"]
          BY <1>3, <2>1, <3>1, <3>3, <4>3, <5>1
        <5>3. disk'[c][f].by = r /\ disk'[c][f].state = "full"
          BY <5>2
        <5>4. QED
          BY <1>2, <4>1, <5>3
      <4>4. QED
        BY <4>2, <4>3
    <3>4. CASE Current(r) # "lib"
      <4>1. disk'[c]["lib"] = disk[c]["lib"]
        BY <1>2, <1>3, <3>1, <3>4
      <4>2. l <= r
        BY <1>1, <1>2, <1>3, <1>5, <2>1, <3>1, <3>2, <4>1 DEF OneWriter, Provenance
      <4>3. CASE f = Current(r)
        <5>1. disk'[c][f].by = r
          BY <1>3, <3>1, <3>2, <4>3
        <5>2. l # r
          BY <1>1, <1>3, <3>1, <3>2, <3>4, <4>1 DEF WrittenSoFar, file, NoFile
        <5>3. QED
          BY <1>2, <2>1, <4>2, <5>1, <5>2
      <4>4. CASE f # Current(r)
        <5>1. disk'[c][f] = disk[c][f]
          BY <1>3, <2>1, <3>1, <4>4
        <5>2. QED
          BY <1>1, <1>5, <4>1, <5>1 DEF NoStaleParts, LibOf
      <4>5. QED
        BY <4>3, <4>4
    <3>5. QED
      BY <3>3, <3>4
  <2>4. QED
    BY <2>2, <2>3
<1>6. ASSUME NEW q \in Runs, pc'[q] = "ok", NEW f \in Parts(q)
      PROVE  /\ disk'[Crate(q)][f].by >= q
             /\ disk'[Crate(q)][f].by = q => disk'[Crate(q)][f].state = "full"
  <2>1. Crate(q) \in Crates /\ f \in Files
    BY <1>1, <1>6, RunFacts
  <2>2. CASE q # r
    <3>1. pc[q] = "ok"
      BY <1>6, <2>2, StepFacts
    <3>2. CASE disk'[Crate(q)][f] = disk[Crate(q)][f]
      BY <1>1, <1>6, <3>1, <3>2 DEF NoStaleParts, file
    <3>3. CASE disk'[Crate(q)][f] # disk[Crate(q)][f]
      <4>1. Live(r) /\ Crate(q) = Crate(r) /\ disk'[Crate(q)][f].by = r
        BY <1>3, <2>1, <3>3
      <4>2. q <= r
        BY <1>1, <3>1, <4>1 DEF OneWriter
      <4>3. QED
        BY <1>2, <2>2, <4>1, <4>2
    <3>4. QED
      BY <3>2, <3>3
  <2>3. CASE q = r
    <3>1. Completes(r) /\ Advances(r) /\ pc[r] = "modules" /\ k[r] > Len(modules(idl(r)))
      <4>1. ~ (Start(r) \/ Prepares(r) \/ Stops(r))
        BY <1>1, <1>6, <2>3 DEF Start, Prepares, Stops, TypeOK
      <4>2. pc[r] # "ok"
        BY <4>1, StepFacts DEF Live, Exited
      <4>3. Completes(r) /\ Advances(r)
        BY <1>6, <2>3, <4>1, <4>2 DEF Step, Opens, Fills, Completes
      <4>4. QED
        BY <1>1, <1>6, <2>3, <4>2, <4>3 DEF Advances, TypeOK
    <3>2. Current(r) = "lib" /\ Writing(r)
      BY <1>1, <3>1, RunFacts DEF Current, TypeOK, Writing
    <3>3. disk'[Crate(r)]["lib"] = [by |-> r, state |-> "full"]
      <4>1. Put(r, "lib", "full") /\ "full" \in State
        BY <3>1, <3>2 DEF Completes, State
      <4>2. QED
        BY <1>1, <1>2, <4>1, PutFacts
    <3>4. disk'[Crate(r)][f] = [by |-> r, state |-> "full"]
      <4>1. CASE f = "lib"
        BY <3>3, <4>1
      <4>2. CASE f # "lib"
        <5>1. disk[Crate(r)][f] = [by |-> r, state |-> "full"]
          BY <1>6, <2>3, <3>1, <4>2, PartsComplete DEF file
        <5>2. disk'[Crate(r)][f] = disk[Crate(r)][f]
          BY <1>2, <2>1, <3>2, <4>2, DiskFacts
        <5>3. QED
          BY <5>1, <5>2
      <4>3. QED
        BY <4>1, <4>2
    <3>5. disk'[Crate(r)][f].by = r /\ disk'[Crate(r)][f].state = "full"
      BY <3>4
    <3>6. QED
      BY <1>2, <2>3, <3>5
  <2>4. QED
    BY <2>2, <2>3
<1>7. QED
  BY <1>1, <1>5, <1>6 DEF NoStaleParts, LibOf, file

-----------------------------------------------------------------------------
(* IInv holds throughout *)

(* The invariant is inductive. *)
LEMMA NextIInv == ASSUME IInv, Overlap = FALSE, [Next]_vars PROVE IInv'
<1>1. CASE UNCHANGED vars
  <2>1. /\ args' = args /\ pc' = pc /\ k' = k /\ fd' = fd /\ dirs' = dirs /\ disk' = disk
        /\ \A q : idl(q)' = idl(q) /\ Crate(q)' = Crate(q) /\ Parts(q)' = Parts(q)
    BY <1>1, Constancy DEF vars
  <2>2. \A q : Live(q)' = Live(q) /\ Writing(q)' = Writing(q) /\ Current(q)' = Current(q)
    BY <2>1 DEF Live, Writing, Current
  <2>3. TypeOK' /\ OneWriter' /\ Provenance'
    BY <2>1, <2>2 DEF IInv, TypeOK, OneWriter, Provenance
  <2>4. OpenFile' /\ WrittenSoFar' /\ NoStaleParts'
    BY <2>1, <2>2 DEF IInv, OpenFile, WrittenSoFar, NoStaleParts, file, LibOf
  <2>5. QED
    BY <2>3, <2>4 DEF IInv
<1>2. ASSUME NEW r \in Runs, Step(r)
      PROVE  IInv'
  BY <1>2, TypeStep, OneWriterStep, ProvenanceStep, OpenFileStep,
     WrittenSoFarStep, NoStalePartsStep DEF IInv
<1>3. QED
  BY <1>1, <1>2, StepKinds

(* However many runs are started, panic, fail or are killed, one at a time *)
(* per crate directory: the inductive invariant holds in every state.      *)
THEOREM Invariance == Overlap = FALSE => (Spec => []IInv)
<1> SUFFICES ASSUME Overlap = FALSE
             PROVE  Spec => []IInv
  OBVIOUS
<1>1. Init => IInv
  BY InitIInv
<1>2. IInv /\ [Next]_vars => IInv'
  BY NextIInv
<1>3. QED
  BY <1>1, <1>2, PTL DEF Spec

-----------------------------------------------------------------------------
(* The properties *)

(* What a record of by and state is made of. *)
LEMMA VersionEqual ==
  ASSUME NEW v \in Version, NEW b, NEW s, v.by = b, v.state = s
  PROVE  v = [by |-> b, state |-> s]
BY DEF Version

(* The invariant in the form the properties below use it. *)
LEMMA StateFacts ==
  ASSUME IInv
  PROVE  /\ Runs \subseteq Nat
         /\ \A c \in Crates : \A f \in Files :
              disk[c][f] \in Version /\ disk[c][f].by \in Runs \cup {0}
         /\ \A r \in Runs : Parts(r) \subseteq Files /\ Crate(r) \in Crates
         /\ "lib" \in Files
<1>1. TypeOK
  BY DEF IInv
<1>2. \A v \in Version : v.by \in Runs \cup {0}
  BY RunsAssumption DEF Version, Runs
<1>3. Runs \subseteq Nat /\ "lib" \in Files
  BY DEF Runs, Files
<1>4. QED
  BY <1>1, <1>2, <1>3, RunFacts DEF TypeOK

(* No part of a crate is older than the lib.rs that declares it, however   *)
(* many runs have failed in between and whatever IDLs they were given.     *)
THEOREM LibNeverNewest == Overlap = FALSE => (Spec => []LibIsNeverNewest)
<1>1. IInv => LibIsNeverNewest
  BY DEF IInv, NoStaleParts, LibIsNeverNewest
<1>2. QED
  BY <1>1, Invariance, PTL

(* A part no older than lib.rs and no newer than it is from the same run. *)
LEMMA IInvUntouched == IInv => UntouchedCrateIsWhole
<1> SUFFICES ASSUME IInv, NEW c \in Crates, LibOf(c) # 0,
                    disk[c]["lib"].state = "full",
                    \A f \in Parts(LibOf(c)) : disk[c][f].by <= LibOf(c),
                    NEW f \in Parts(LibOf(c))
             PROVE  disk[c][f] = [by |-> LibOf(c), state |-> "full"]
  BY DEF UntouchedCrateIsWhole, Whole
<1>1. LibOf(c) \in Runs /\ f \in Files
  BY StateFacts DEF LibOf
<1>2. /\ disk[c][f].by >= LibOf(c) /\ disk[c][f].by <= LibOf(c)
      /\ disk[c][f].by = LibOf(c) /\ f # "lib" => disk[c][f].state = "full"
  BY DEF IInv, NoStaleParts
<1>3. disk[c][f].by \in Nat /\ LibOf(c) \in Nat
  BY <1>1, StateFacts
<1>4. disk[c][f].by = LibOf(c)
  BY <1>2, <1>3
<1>5. disk[c][f].state = "full"
  BY <1>2, <1>4
<1>6. QED
  BY <1>1, <1>4, <1>5, StateFacts, VersionEqual

(* A complete lib.rs that no later run has written after belongs to a      *)
(* crate every part of which is the complete output of the same run.       *)
THEOREM UntouchedWhole == Overlap = FALSE => (Spec => []UntouchedCrateIsWhole)
<1>1. IInv => UntouchedCrateIsWhole
  BY IInvUntouched
<1>2. QED
  BY <1>1, Invariance, PTL

(* A run that has exited with status 0 has left the whole crate, unless a  *)
(* later run has written to the directory since.                           *)
THEOREM SuccessWhole == Overlap = FALSE => (Spec => []SuccessMeansWhole)
<1>1. IInv => SuccessMeansWhole
  <2> SUFFICES ASSUME IInv, NEW r \in Runs, pc[r] = "ok",
                      \A f \in Parts(r) : file(r, f).by <= r,
                      NEW f \in Parts(r)
               PROVE  disk[Crate(r)][f] = [by |-> r, state |-> "full"]
    BY DEF SuccessMeansWhole, Whole
  <2>1. /\ file(r, f).by >= r /\ file(r, f).by <= r
        /\ file(r, f).by = r => file(r, f).state = "full"
    BY DEF IInv, NoStaleParts
  <2>2. file(r, f) \in Version /\ file(r, f).by \in Nat /\ r \in Nat
    BY StateFacts DEF file
  <2>3. file(r, f).by = r
    BY <2>1, <2>2
  <2>4. file(r, f) = [by |-> r, state |-> "full"]
    BY <2>1, <2>2, <2>3, VersionEqual
  <2>5. QED
    BY <2>4 DEF file
<1>2. QED
  BY <1>1, Invariance, PTL

(* src/lib.rs is opened, and written, only when the manifest and every     *)
(* module it will declare are complete and the work of the same run.       *)
THEOREM LibLast == Overlap = FALSE => (Spec => LibIsWrittenLast)
<1> DEFINE A == \A r \in Runs :
                  disk'[Crate(r)]["lib"].by = r
                    /\ disk[Crate(r)]["lib"] # disk'[Crate(r)]["lib"]
                  => \A f \in Parts(r) \ {"lib"} :
                       file(r, f) = [by |-> r, state |-> "full"]
<1>1. IInv /\ [Next]_vars => A
  <2> SUFFICES ASSUME IInv, [Next]_vars, NEW q \in Runs,
                      disk'[Crate(q)]["lib"].by = q,
                      disk[Crate(q)]["lib"] # disk'[Crate(q)]["lib"]
               PROVE  \A f \in Parts(q) \ {"lib"} :
                        file(q, f) = [by |-> q, state |-> "full"]
    OBVIOUS
  <2>1. disk' # disk
    OBVIOUS
  <2>2. PICK r \in Runs : Step(r)
    BY <2>1, StepKinds DEF vars
  <2>3. Writing(r) /\ Crate(q) = Crate(r) /\ Current(r) = "lib"
    BY <2>1, <2>2, DiskFacts, StateFacts
  <2>4. PICK s : disk'[Crate(r)]["lib"] = [by |-> r, state |-> s]
    BY <2>1, <2>2, <2>3, DiskFacts
  <2>5. q = r
    BY <2>3, <2>4
  <2>6. pc[r] = "modules" /\ k[r] > Len(modules(idl(r)))
    BY <2>3, CurrentLib DEF IInv
  <2>7. QED
    BY <2>5, <2>6, PartsComplete
<1>2. QED
  BY <1>1, Invariance, PTL DEF Spec, LibIsWrittenLast

(* The manifest of a crate that no later run has written after names all   *)
(* its modules need: it is from the run that left lib.rs, whatever IDLs    *)
(* the runs before it had.                                                 *)
THEOREM ManifestCovers == Overlap = FALSE => (Spec => []ManifestCoversModules)
<1>1. IInv => ManifestCoversModules
  <2> SUFFICES ASSUME IInv, NEW c \in Crates, LibOf(c) # 0,
                      \A f \in Parts(LibOf(c)) : disk[c][f].by <= LibOf(c),
                      NEW m \in Declared(idl(LibOf(c)))
               PROVE  CratesNamed(m) \subseteq dependencies(idl(disk[c]["Cargo.toml"].by))
    BY DEF ManifestCoversModules
  <2> DEFINE toml == disk[c]["Cargo.toml"].by
  <2>1. "Cargo.toml" \in Parts(LibOf(c)) /\ "Cargo.toml" \in Files
    BY DEF Parts, Files
  <2>2. toml >= LibOf(c) /\ toml <= LibOf(c)
    BY <2>1 DEF IInv, NoStaleParts
  <2>3. toml \in Nat /\ LibOf(c) \in Nat
    BY <2>1, StateFacts DEF LibOf
  <2>4. toml = LibOf(c)
    BY <2>2, <2>3
  <2>5. QED
    BY <2>4, DependenciesCover
<1>2. QED
  BY <1>1, Invariance, PTL

-----------------------------------------------------------------------------
(* Runs that overlap: what does not need a run to have its directory to    *)
(* itself.  A file may then hold anything, but it is there.                *)

There(r, f) == file(r, f).state # "absent"

ThereNext(r, f) == disk'[Crate(r)][f].state # "absent"

(* An open file is the one the run is at, and has been created. *)
OpenExists ==
  \A r \in Runs : fd[r] # NoFile => Writing(r) /\ fd[r] = Current(r) /\ There(r, fd[r])

(* What a run has behind it has been created. *)
BehindExists ==
  \A r \in Runs :
    /\ pc[r] \in {"unborn", "load", "mkdir", "gitignore", "cargo"} => k[r] = 1
    /\ pc[r] = "modules" =>
         /\ There(r, "Cargo.toml")
         /\ \A j \in 1 .. Len(modules(idl(r))) : j < k[r] => There(r, modules(idl(r))[j])

Existence == TypeOK /\ OpenExists /\ BehindExists /\ LibDeclaresExistingModules

(* Some bytes reach the file the run is at. *)
Puts(r) == \E s \in State \ {"absent"} : Put(r, Current(r), s)

(* What a step of a run does to its file, whoever else has it open. *)
LooseStep(r) ==
  \/ /\ UNCHANGED <<disk, k>>
     /\ fd'[r] = NoFile /\ pc'[r] \notin {"unborn", "modules"}
     /\ pc'[r] \in {"load", "mkdir", "gitignore", "cargo"} =>
          pc[r] \in {"unborn", "load", "mkdir", "gitignore", "cargo"}
  \/ Writing(r) /\ Puts(r) /\ UNCHANGED <<pc, k>> /\ fd'[r] = Current(r)
  \/ Writing(r) /\ Puts(r) /\ Advances(r) /\ fd'[r] = NoFile

(* Every action of a run does no more to the files than LooseStep says.    *)
LEMMA LooseKind ==
  ASSUME Existence, NEW r \in Runs, Start(r) \/ Progress(r) \/ write_some(r) \/ Fail(r)
  PROVE  /\ LooseStep(r)
         /\ args' = args /\ TypeOK'
         /\ \A q \in Runs \ {r} : pc'[q] = pc[q] /\ k'[q] = k[q] /\ fd'[q] = fd[q]
<1>1. /\ TypeOK /\ Crate(r) \in Crates
      /\ fd[r] # NoFile => fd[r] = Current(r) /\ Writing(r)
  BY RunFacts DEF Existence, OpenExists
<1>2. /\ pc \in [Runs -> PC] /\ k \in [Runs -> Nat \ {0}] /\ fd \in [Runs -> Files \cup {NoFile}]
      /\ dirs \in SUBSET Crates
  BY <1>1 DEF TypeOK
<1>3. ASSUME args' = args, dirs' \in SUBSET Crates, disk' = disk \/ (Writing(r) /\ Puts(r)),
             pc' \in [Runs -> PC], k' \in [Runs -> Nat \ {0}], fd' \in [Runs -> Files \cup {NoFile}]
      PROVE  TypeOK'
  <2>1. disk' \in [Crates -> [Files -> Version]]
    BY <1>1, <1>3, PutFacts, CurrentFacts DEF TypeOK, Puts
  <2>2. QED
    BY <1>1, <1>3, <2>1 DEF TypeOK
<1>4. CASE Start(r)
  <2>1. fd[r] = NoFile /\ pc' = [pc EXCEPT ![r] = "load"] /\ pc[r] = "unborn"
        /\ UNCHANGED <<args, k, fd, dirs, disk>>
    BY <1>1, <1>4 DEF Start, Writing
  <2>2. QED
    BY <1>2, <1>3, <2>1 DEF LooseStep, PC
<1>5. CASE load_idl(r)
  <2>1. fd[r] = NoFile /\ pc[r] = "load" /\ UNCHANGED <<args, k, fd, dirs, disk>>
        /\ \E s \in {"mkdir", "panicked"} : pc' = [pc EXCEPT ![r] = s]
    BY <1>1, <1>5 DEF load_idl, Writing
  <2>2. QED
    BY <1>2, <1>3, <2>1 DEF LooseStep, PC, Exited
<1>6. CASE create_dir_all(r)
  <2>1. fd[r] = NoFile /\ pc[r] = "mkdir" /\ UNCHANGED <<args, k, fd, disk>>
        /\ dirs' = dirs \cup {Crate(r)}
        /\ \E s \in {"gitignore", "cargo"} : pc' = [pc EXCEPT ![r] = s]
    BY <1>1, <1>6 DEF create_dir_all, Writing
  <2>2. QED
    BY <1>1, <1>2, <1>3, <2>1 DEF LooseStep, PC
<1>7. CASE Fail(r)
  <2>1. pc' = [pc EXCEPT ![r] = "failed"] /\ fd' = [fd EXCEPT ![r] = NoFile]
        /\ UNCHANGED <<args, k, dirs, disk>>
    BY <1>7 DEF Fail
  <2>2. QED
    BY <1>2, <1>3, <2>1 DEF LooseStep, PC, Exited
<1>8. ASSUME fd[r] = NoFile, pc' = [pc EXCEPT ![r] = "panicked"], UNCHANGED <<args, k, fd, dirs, disk>>
      PROVE  LooseStep(r) /\ TypeOK' /\ \A q \in Runs \ {r} : pc'[q] = pc[q]
  BY <1>2, <1>3, <1>8 DEF LooseStep, PC, Exited
<1>9. ASSUME Writing(r), UNCHANGED <<args, pc, k, dirs>>, open_file_create_overwrite(r, Current(r))
      PROVE  LooseStep(r) /\ TypeOK' /\ \A q \in Runs \ {r} : fd'[q] = fd[q]
  <2>1. Puts(r) /\ fd' = [fd EXCEPT ![r] = Current(r)] /\ Current(r) \in Files
    BY <1>1, <1>9, CurrentFacts DEF open_file_create_overwrite, Puts, State
  <2>2. QED
    BY <1>2, <1>3, <1>9, <2>1 DEF LooseStep
<1>10. ASSUME Writing(r), UNCHANGED <<args, dirs>>, write_all(r, Current(r)), Advances(r)
       PROVE  LooseStep(r) /\ TypeOK'
              /\ \A q \in Runs \ {r} : pc'[q] = pc[q] /\ k'[q] = k[q] /\ fd'[q] = fd[q]
  <2>1. Puts(r) /\ fd' = [fd EXCEPT ![r] = NoFile]
    BY <1>10 DEF write_all, Puts, State
  <2>2. pc' \in [Runs -> PC] /\ k' \in [Runs -> Nat \ {0}]
        /\ \A q \in Runs \ {r} : pc'[q] = pc[q] /\ k'[q] = k[q]
    BY <1>2, <1>10 DEF Advances, PC, Exited
  <2>3. QED
    BY <1>2, <1>3, <1>10, <2>1, <2>2 DEF LooseStep
<1>11. CASE write_gitignore(r)
  <2>1. pc[r] = "gitignore" /\ Writing(r) /\ Current(r) = ".gitignore" /\ UNCHANGED <<args, k, dirs>>
    BY <1>11 DEF write_gitignore, Writing, Current
  <2>2. CASE open_file_create_overwrite(r, ".gitignore") /\ UNCHANGED pc
    BY <1>9, <2>1, <2>2
  <2>3. CASE write_all(r, ".gitignore") /\ pc' = [pc EXCEPT ![r] = "cargo"]
    BY <1>10, <2>1, <2>3 DEF Advances
  <2>4. QED
    BY <1>11, <2>2, <2>3 DEF write_gitignore
<1>12. CASE write_cargotoml(r)
  <2>1. pc[r] = "cargo" /\ Writing(r) /\ Current(r) = "Cargo.toml" /\ UNCHANGED <<args, k, dirs>>
    BY <1>12 DEF write_cargotoml, Writing, Current
  <2>2. CASE open_file_create_overwrite(r, "Cargo.toml") /\ UNCHANGED pc
    BY <1>9, <2>1, <2>2
  <2>3. CASE write_all(r, "Cargo.toml") /\ pc' = [pc EXCEPT ![r] = "modules"]
    BY <1>10, <2>1, <2>3 DEF Advances
  <2>4. QED
    BY <1>12, <2>2, <2>3 DEF write_cargotoml
<1>13. CASE write_module(r)
  <2> DEFINE m == modules(idl(r))[k[r]]
  <2>1. /\ pc[r] = "modules" /\ k[r] <= Len(modules(idl(r))) /\ Writing(r) /\ Current(r) = m
        /\ UNCHANGED <<args, dirs>>
    BY <1>13 DEF write_module, Writing, Current
  <2>2. CASE fd[r] = NoFile /\ pc' = [pc EXCEPT ![r] = "panicked"] /\ UNCHANGED <<k, fd, disk>>
    BY <1>8, <2>1, <2>2
  <2>3. CASE open_file_create_overwrite(r, m) /\ UNCHANGED <<pc, k>>
    BY <1>9, <2>1, <2>3
  <2>4. CASE write_all(r, m) /\ k' = [k EXCEPT ![r] = @ + 1] /\ UNCHANGED pc
    BY <1>10, <2>1, <2>4 DEF Advances
  <2>5. QED
    BY <1>13, <2>2, <2>3, <2>4 DEF write_module
<1>14. CASE write_lib(r)
  <2>1. /\ pc[r] = "modules" /\ k[r] > Len(modules(idl(r))) /\ Writing(r) /\ Current(r) = "lib"
        /\ UNCHANGED <<args, k, dirs>>
    BY <1>1, <1>2, <1>14, RunFacts DEF write_lib, Writing, Current
  <2>2. CASE open_file_create_overwrite(r, "lib") /\ UNCHANGED pc
    BY <1>9, <2>1, <2>2
  <2>3. CASE write_all(r, "lib") /\ pc' = [pc EXCEPT ![r] = "ok"]
    BY <1>10, <2>1, <2>3 DEF Advances
  <2>4. QED
    BY <1>14, <2>2, <2>3 DEF write_lib
<1>15. CASE write_some(r)
  <2>1. Writing(r) /\ Puts(r) /\ fd[r] = Current(r) /\ UNCHANGED <<args, pc, k, fd, dirs>>
    BY <1>1, <1>15 DEF write_some, Puts, State
  <2>2. QED
    BY <1>2, <1>3, <2>1 DEF LooseStep
<1>16. QED
  BY <1>4, <1>5, <1>6, <1>7, <1>11, <1>12, <1>13, <1>14, <1>15 DEF Progress

(* A step is one of a single run, or a stutter. *)
LEMMA LooseKinds ==
  ASSUME Existence, [Next]_vars
  PROVE  \/ UNCHANGED vars
         \/ \E r \in Runs : /\ LooseStep(r)
                            /\ args' = args /\ TypeOK'
                            /\ \A q \in Runs \ {r} : pc'[q] = pc[q] /\ k'[q] = k[q] /\ fd'[q] = fd[q]
BY LooseKind DEF Next, Terminated

(* No file is ever removed, and one that is written to is there. *)
LEMMA FilesStay ==
  ASSUME Existence, NEW r \in Runs, LooseStep(r), args' = args
  PROVE  /\ \A c \in Crates : \A f \in Files :
              disk[c][f].state # "absent" => disk'[c][f].state # "absent"
         /\ disk' # disk => disk'[Crate(r)][Current(r)].state # "absent"
         /\ \A c \in Crates : \A f \in Files :
              disk'[c][f].by = disk[c][f].by
                \/ (Writing(r) /\ c = Crate(r) /\ f = Current(r) /\ disk'[c][f].by = r)
<1>1. CASE disk' = disk
  BY <1>1
<1>2. CASE disk' # disk
  <2>1. PICK s \in State \ {"absent"} : Writing(r) /\ Put(r, Current(r), s)
    BY <1>2 DEF LooseStep, Puts
  <2>2. TypeOK /\ Current(r) \in Files
    BY <2>1, CurrentFacts DEF Existence
  <2>3. /\ disk'[Crate(r)][Current(r)] = [by |-> r, state |-> s]
        /\ \A c \in Crates : \A g \in Files :
             c # Crate(r) \/ g # Current(r) => disk'[c][g] = disk[c][g]
    BY <2>1, <2>2, PutFacts
  <2>4. /\ disk'[Crate(r)][Current(r)].by = r
        /\ disk'[Crate(r)][Current(r)].state # "absent"
    BY <2>1, <2>3
  <2>5. QED
    BY <2>1, <2>3, <2>4
<1>3. QED
  BY <1>1, <1>2

LEMMA ExistenceStep ==
  ASSUME Existence, NEW r \in Runs, LooseStep(r), args' = args, TypeOK',
         \A q \in Runs \ {r} : pc'[q] = pc[q] /\ k'[q] = k[q] /\ fd'[q] = fd[q]
  PROVE  Existence'
<1>1. \A q : Crate(q)' = Crate(q) /\ idl(q)' = idl(q) /\ Parts(q)' = Parts(q)
  BY Constancy
<1>2. \A q \in Runs : Crate(q) \in Crates /\ Parts(q) \subseteq Files /\ "Cargo.toml" \in Files
        /\ \A j \in 1 .. Len(modules(idl(q))) : modules(idl(q))[j] \in Files
  BY RunFacts DEF Existence, Files
<1>3. \A q \in Runs : \A f \in Files : There(q, f) => ThereNext(q, f)
  BY <1>2, FilesStay DEF There, ThereNext, file
<1>4. Writing(r) /\ Puts(r) => ThereNext(r, Current(r))
  <2>1. ASSUME Writing(r), NEW s \in State \ {"absent"}, Put(r, Current(r), s)
        PROVE  ThereNext(r, Current(r))
    <3>1. disk'[Crate(r)][Current(r)] = [by |-> r, state |-> s]
      BY <2>1, PutFacts, CurrentFacts DEF Existence
    <3>2. QED
      BY <3>1 DEF ThereNext
  <2>2. QED
    BY <2>1 DEF Puts
<1>5. OpenExists'
  <2>1. ASSUME NEW q \in Runs \ {r}, fd'[q] # NoFile
        PROVE  Writing(q)' /\ fd'[q] = Current(q)' /\ ThereNext(q, fd'[q])
    <3>1. Writing(q) /\ fd[q] = Current(q) /\ There(q, fd[q]) /\ Current(q) \in Files
      BY <2>1, CurrentFacts DEF Existence, OpenExists
    <3>2. Writing(q)' /\ Current(q)' = Current(q)
      BY <1>1, <2>1, <3>1 DEF Writing, Current
    <3>3. QED
      BY <1>3, <2>1, <3>1, <3>2
  <2>2. ASSUME fd'[r] # NoFile
        PROVE  Writing(r)' /\ fd'[r] = Current(r)' /\ ThereNext(r, fd'[r])
    <3>1. Writing(r) /\ Puts(r) /\ UNCHANGED <<pc, k>> /\ fd'[r] = Current(r)
      BY <2>2 DEF LooseStep
    <3>2. Writing(r)' /\ Current(r)' = Current(r)
      BY <1>1, <3>1 DEF Writing, Current
    <3>3. QED
      BY <1>4, <3>1, <3>2
  <2>3. QED
    BY <1>1, <2>1, <2>2 DEF OpenExists, There, ThereNext, file
<1>6. BehindExists'
  <2>1. ASSUME NEW q \in Runs \ {r}
        PROVE  /\ pc'[q] \in {"unborn", "load", "mkdir", "gitignore", "cargo"} => k'[q] = 1
               /\ pc'[q] = "modules" =>
                    /\ ThereNext(q, "Cargo.toml")
                    /\ \A j \in 1 .. Len(modules(idl(q))) :
                         j < k'[q] => ThereNext(q, modules(idl(q))[j])
    BY <1>2, <1>3 DEF Existence, BehindExists
  <2>2. pc'[r] \in {"unborn", "load", "mkdir", "gitignore", "cargo"} => k'[r] = 1
    BY DEF LooseStep, Existence, BehindExists, TypeOK, Advances, Writing
  <2>3. ASSUME pc'[r] = "modules"
        PROVE  /\ ThereNext(r, "Cargo.toml")
               /\ \A j \in 1 .. Len(modules(idl(r))) : j < k'[r] => ThereNext(r, modules(idl(r))[j])
    <3>1. CASE UNCHANGED <<pc, k>>
      BY <1>2, <1>3, <2>3, <3>1 DEF Existence, BehindExists
    <3>2. CASE Writing(r) /\ Puts(r) /\ Advances(r)
      <4>1. ThereNext(r, Current(r)) /\ pc \in [Runs -> PC] /\ k \in [Runs -> Nat \ {0}]
        BY <1>4, <3>2 DEF Existence, TypeOK
      <4>2. CASE pc[r] = "cargo"
        <5>1. Current(r) = "Cargo.toml" /\ k'[r] = 1
          BY <3>2, <4>2 DEF Current, Advances, Existence, BehindExists
        <5>2. QED
          BY <4>1, <5>1
      <4>3. CASE pc[r] # "cargo"
        <5>1. /\ pc[r] = "modules" /\ k[r] <= Len(modules(idl(r))) /\ k'[r] = k[r] + 1
              /\ k[r] \in Nat
          BY <2>3, <3>2, <4>1, <4>3 DEF Advances
        <5>2. Current(r) = modules(idl(r))[k[r]]
          BY <5>1 DEF Current
        <5>3. \A j \in 1 .. Len(modules(idl(r))) : j < k'[r] => j < k[r] \/ j = k[r]
          BY <5>1
        <5>4. \A j \in 1 .. Len(modules(idl(r))) : j < k[r] => ThereNext(r, modules(idl(r))[j])
          BY <1>2, <1>3, <5>1 DEF Existence, BehindExists
        <5>5. ThereNext(r, modules(idl(r))[k[r]])
          BY <4>1, <5>2
        <5>6. ThereNext(r, "Cargo.toml")
          BY <1>2, <1>3, <5>1 DEF Existence, BehindExists
        <5>7. QED
          BY <5>3, <5>4, <5>5, <5>6
      <4>4. QED
        BY <4>2, <4>3
    <3>3. QED
      BY <2>3, <3>1, <3>2 DEF LooseStep
  <2>4. QED
    BY <1>1, <2>1, <2>2, <2>3 DEF BehindExists, There, ThereNext, file
<1>7. LibDeclaresExistingModules'
  <2> SUFFICES ASSUME NEW c \in Crates, disk'[c]["lib"].by # 0, NEW f \in Parts(disk'[c]["lib"].by)
               PROVE  disk'[c][f].state # "absent"
    BY DEF LibDeclaresExistingModules, LibOf, Parts, idl
  <2> DEFINE l == disk'[c]["lib"].by
  <2>1. l \in Runs /\ f \in Parts(l) /\ f \in Files /\ "lib" \in Files
    <3>1. "lib" \in Files /\ disk'[c]["lib"] \in Version
      BY DEF Files, TypeOK
    <3>2. l \in Runs
      BY <3>1, RunsAssumption DEF Version, Runs
    <3>3. QED
      BY <1>1, <1>2, <3>1, <3>2
  <2>2. CASE l = disk[c]["lib"].by
    BY <1>1, <2>1, <2>2, FilesStay DEF Existence, LibDeclaresExistingModules, LibOf
  <2>3. CASE Writing(r) /\ c = Crate(r) /\ Current(r) = "lib" /\ l = r /\ disk' # disk
    <3>1. pc[r] = "modules" /\ k[r] > Len(modules(idl(r)))
      BY <2>3, CurrentLib DEF Existence
    <3>2. \A j \in 1 .. Len(modules(idl(r))) : j < k[r]
      BY <3>1, RunFacts DEF Existence, TypeOK
    <3>3. \A g \in Parts(r) \ {"lib"} : There(r, g)
      BY <3>1, <3>2 DEF Existence, BehindExists, Parts, Declared
    <3>4. CASE f = "lib"
      BY <2>3, <3>4, FilesStay
    <3>5. CASE f # "lib"
      BY <2>1, <2>3, <3>3, <3>5, FilesStay DEF There, file
    <3>6. QED
      BY <3>4, <3>5
  <2>4. QED
    BY <2>1, <2>2, <2>3, FilesStay
<1>8. QED
  BY <1>5, <1>6, <1>7 DEF Existence

(* Existence holds of any number of runs, overlapping or not. *)
THEOREM ExistenceInvariance == Spec => []Existence
<1>1. Init => Existence
  <2> SUFFICES ASSUME Init PROVE Existence
    OBVIOUS
  <2>1. TypeOK
    BY InitIInv DEF IInv
  <2>2. /\ \A r \in Runs : pc[r] = "unborn" /\ k[r] = 1 /\ fd[r] = NoFile
        /\ \A c \in Crates : disk[c]["lib"].by = 0
    BY DEF Init, Files
  <2>3. QED
    BY <2>1, <2>2 DEF Existence, OpenExists, BehindExists, LibDeclaresExistingModules, LibOf
<1>2. Existence /\ [Next]_vars => Existence'
  <2> SUFFICES ASSUME Existence, [Next]_vars PROVE Existence'
    OBVIOUS
  <2>1. CASE UNCHANGED vars
    <3>1. args' = args /\ pc' = pc /\ k' = k /\ fd' = fd /\ dirs' = dirs /\ disk' = disk
      BY <2>1 DEF vars
    <3>2. \A q : idl(q)' = idl(q) /\ Crate(q)' = Crate(q) /\ Parts(q)' = Parts(q)
      BY <3>1, Constancy
    <3>3. \A q : Writing(q)' = Writing(q) /\ Current(q)' = Current(q)
      BY <3>1, <3>2 DEF Writing, Current
    <3>4. QED
      BY <3>1, <3>2, <3>3 DEF Existence, TypeOK, OpenExists, BehindExists,
         LibDeclaresExistingModules, LibOf, There, file
  <2>2. QED
    BY <2>1, LooseKinds, ExistenceStep
<1>3. QED
  BY <1>1, <1>2, PTL DEF Spec

(* Every variable keeps its type, whether runs overlap or not: in          *)
(* particular a run opens only files the crate is meant to have, in the    *)
(* directory of its own crate.                                             *)
THEOREM TypeCorrect == Spec => []TypeOK
<1>1. Existence => TypeOK
  BY DEF Existence
<1>2. QED
  BY <1>1, ExistenceInvariance, PTL

(* Whoever else writes to the directory, a lib.rs that is there declares   *)
(* files that are there: it is opened when all of them have been created,  *)
(* and no run removes a file.                                              *)
THEOREM LibDeclaresExisting == Spec => []LibDeclaresExistingModules
<1>1. Existence => LibDeclaresExistingModules
  BY DEF Existence
<1>2. QED
  BY <1>1, ExistenceInvariance, PTL

-----------------------------------------------------------------------------
(* What each run makes of its IDL, and how far it is from its exit *)

(* The modules a run has behind it, and the one it has open, could be      *)
(* generated.                                                              *)
Generated(r) ==
  \A j \in 1 .. Len(modules(idl(r))) :
    j < k[r] \/ (j = k[r] /\ fd[r] # NoFile) => modules(idl(r))[j] \notin idl(r).breaks

(* What a run knows of its IDL wherever it is. *)
Known(r) ==
  /\ pc[r] = "mkdir" \/ Writing(r) => Loads(idl(r))
  /\ pc[r] = "modules" => k[r] <= Len(modules(idl(r))) + 1 /\ Generated(r)
  /\ pc[r] = "ok" => Generates(idl(r))
  /\ pc[r] = "panicked" => ~ Generates(idl(r))

Knowledge == Existence /\ (\A r \in Runs : Known(r)) /\ RejectedIdlTouchesNothing

(* A step of a run either leaves it where it is or takes it nearer to its  *)
(* exit.                                                                   *)
Counts(r) ==
  \/ UNCHANGED <<pc[r], k[r], fd[r]>>
  \/ 0 <= StepsLeft(r)' /\ StepsLeft(r)' < StepsLeft(r)

(* What a step of a run adds to the directories that exist. *)
Enters(r) == dirs' = dirs \/ (pc[r] = "mkdir" /\ dirs' = dirs \cup {Crate(r)})

(* The code of a crate has been generated when that of all its modules has *)
(* been.                                                                   *)
LEMMA AllGenerated ==
  ASSUME TypeOK, NEW r \in Runs, Loads(idl(r)), Generated(r),
         k[r] > Len(modules(idl(r)))
  PROVE  Generates(idl(r))
<1>1. Len(modules(idl(r))) \in Nat /\ k[r] \in Nat
  BY RunFacts DEF TypeOK
<1>2. \A j \in 1 .. Len(modules(idl(r))) : modules(idl(r))[j] \notin idl(r).breaks
  BY <1>1 DEF Generated
<1>3. QED
  BY <1>2 DEF Generates, Declared

(* Every action of a run takes what the run knows along and counts. *)
LEMMA KnownStep ==
  ASSUME Knowledge, NEW r \in Runs, Start(r) \/ Progress(r) \/ write_some(r) \/ Fail(r)
  PROVE  Known(r)' /\ Counts(r) /\ Enters(r)
<1> DEFINE n == Len(modules(idl(r)))
<1>1. /\ TypeOK /\ Known(r) /\ n \in Nat /\ k[r] \in Nat \ {0}
      /\ fd[r] # NoFile => Writing(r) /\ fd[r] = Current(r)
      /\ pc[r] \in {"unborn", "load", "mkdir", "gitignore", "cargo"} => k[r] = 1
  BY RunFacts DEF Knowledge, Existence, OpenExists, BehindExists, TypeOK
<1>2. pc \in [Runs -> PC] /\ k \in [Runs -> Nat \ {0}] /\ fd \in [Runs -> Files \cup {NoFile}]
  BY <1>1 DEF TypeOK
<1>3. ASSUME args' = args
      PROVE  idl(r)' = idl(r)
  BY <1>3, Constancy
<1>4. CASE Start(r)
  <2>1. pc[r] = "unborn" /\ pc'[r] = "load" /\ args' = args /\ k'[r] = k[r] /\ fd'[r] = fd[r]
    BY <1>2, <1>4 DEF Start
  <2>2. QED
    BY <1>1, <1>3, <1>4, <2>1 DEF Start, Known, Counts, Enters, StepsLeft, Writing
<1>5. CASE load_idl(r)
  <2>1. /\ pc[r] = "load" /\ args' = args /\ k'[r] = k[r] /\ fd'[r] = fd[r]
        /\ pc'[r] = IF Loads(idl(r)) THEN "mkdir" ELSE "panicked"
    BY <1>2, <1>5 DEF load_idl
  <2>2. QED
    BY <1>1, <1>3, <1>5, <2>1 DEF load_idl, Known, Counts, Enters, StepsLeft, Writing, Generates
<1>6. CASE create_dir_all(r)
  <2>1. /\ pc[r] = "mkdir" /\ args' = args /\ k'[r] = k[r] /\ fd'[r] = fd[r]
        /\ pc'[r] \in {"gitignore", "cargo"}
    BY <1>2, <1>6 DEF create_dir_all
  <2>2. QED
    BY <1>1, <1>3, <1>6, <2>1 DEF create_dir_all, Known, Counts, Enters, StepsLeft, Writing
<1>7. CASE write_gitignore(r)
  <2>1. /\ pc[r] = "gitignore" /\ args' = args /\ k'[r] = k[r] /\ dirs' = dirs
        /\ \/ fd[r] = NoFile /\ fd'[r] = ".gitignore" /\ pc'[r] = "gitignore"
           \/ fd[r] = ".gitignore" /\ fd'[r] = NoFile /\ pc'[r] = "cargo"
    BY <1>2, <1>7 DEF write_gitignore, open_file_create_overwrite, write_all
  <2>2. QED
    BY <1>1, <1>3, <2>1 DEF Known, Counts, Enters, StepsLeft, Writing, NoFile
<1>8. CASE write_cargotoml(r)
  <2>1. /\ pc[r] = "cargo" /\ args' = args /\ k'[r] = k[r] /\ dirs' = dirs
        /\ \/ fd[r] = NoFile /\ fd'[r] = "Cargo.toml" /\ pc'[r] = "cargo"
           \/ fd[r] = "Cargo.toml" /\ fd'[r] = NoFile /\ pc'[r] = "modules"
    BY <1>2, <1>8 DEF write_cargotoml, open_file_create_overwrite, write_all
  <2>2. k[r] = 1
    BY <1>1, <2>1
  <2>3. fd'[r] = NoFile => Generated(r)'
    BY <1>1, <1>3, <2>1, <2>2 DEF Generated
  <2>4. Loads(idl(r)) /\ Enters(r)
    BY <1>1, <2>1 DEF Known, Writing, Enters
  <2>5. Known(r)'
    BY <1>3, <1>1, <2>1, <2>2, <2>3, <2>4 DEF Known, Writing, NoFile
  <2>6. Counts(r)
    <3>1. CASE fd'[r] # NoFile
      <4>1. StepsLeft(r) = 2 * (n + 2) /\ StepsLeft(r)' = 2 * (n + 2) - 1
        BY <1>1, <1>3, <2>1, <2>2, <3>1 DEF StepsLeft, NoFile
      <4>2. QED
        BY <1>1, <4>1 DEF Counts
    <3>2. CASE fd'[r] = NoFile
      <4>1. StepsLeft(r) = 2 * (n + 2) - 1 /\ StepsLeft(r)' = 2 * (n + 1)
        BY <1>1, <1>3, <2>1, <2>2, <3>2 DEF StepsLeft, NoFile
      <4>2. QED
        BY <1>1, <4>1 DEF Counts
    <3>3. QED
      BY <3>1, <3>2
  <2>7. QED
    BY <2>4, <2>5, <2>6
<1>9. CASE write_module(r)
  <2> DEFINE m == modules(idl(r))[k[r]]
  <2>1. /\ pc[r] = "modules" /\ k[r] <= n /\ args' = args /\ dirs' = dirs /\ Writing(r)
        /\ Current(r) = m /\ m # NoFile
    <3>1. pc[r] = "modules" /\ k[r] <= n /\ args' = args /\ dirs' = dirs
      BY <1>9 DEF write_module
    <3>2. Writing(r) /\ Current(r) = m
      BY <3>1 DEF Writing, Current
    <3>3. QED
      BY <1>1, <3>1, <3>2, CurrentFacts
  <2>2. Loads(idl(r)) /\ Generated(r)
    BY <1>1, <2>1 DEF Known
  <2>3. CASE /\ fd[r] = NoFile /\ m \in idl(r).breaks
             /\ pc' = [pc EXCEPT ![r] = "panicked"] /\ UNCHANGED <<k, fd, disk>>
    <3>1. ~ Generates(idl(r))
      BY <1>1, <2>1, <2>3 DEF Generates, Declared
    <3>2. pc'[r] = "panicked"
      BY <1>2, <2>3
    <3>3. QED
      BY <1>1, <1>3, <2>1, <2>3, <3>1, <3>2 DEF Known, Counts, Enters, StepsLeft, Writing
  <2>4. CASE m \notin idl(r).breaks /\ open_file_create_overwrite(r, m) /\ UNCHANGED <<pc, k>>
    <3>1. fd[r] = NoFile /\ fd'[r] = m
      BY <1>2, <2>4 DEF open_file_create_overwrite
    <3>2. Generated(r)'
      BY <1>1, <1>3, <2>1, <2>2, <2>4 DEF Generated
    <3>3. QED
      BY <1>1, <1>3, <2>1, <2>4, <3>1, <3>2 DEF Known, Counts, Enters, StepsLeft, Writing
  <2>5. CASE write_all(r, m) /\ k' = [k EXCEPT ![r] = @ + 1] /\ UNCHANGED pc
    <3>1. fd[r] = m /\ fd'[r] = NoFile /\ k'[r] = k[r] + 1
      BY <1>2, <2>5 DEF write_all
    <3>2. Generated(r)'
      <4> SUFFICES ASSUME NEW j \in 1 .. n, j < k[r] + 1
                   PROVE  modules(idl(r))[j] \notin idl(r).breaks
        BY <1>3, <2>1, <3>1 DEF Generated
      <4>1. j < k[r] \/ (j = k[r] /\ fd[r] # NoFile)
        BY <1>1, <2>1, <3>1
      <4>2. QED
        BY <2>2, <4>1 DEF Generated
    <3>3. QED
      BY <1>1, <1>3, <2>1, <2>5, <3>1, <3>2 DEF Known, Counts, Enters, StepsLeft, Writing
  <2>6. QED
    BY <1>9, <2>3, <2>4, <2>5 DEF write_module
<1>10. CASE write_lib(r)
  <2>1. /\ pc[r] = "modules" /\ k[r] > n /\ args' = args /\ k'[r] = k[r] /\ dirs' = dirs
        /\ \/ fd[r] = NoFile /\ fd'[r] = "lib" /\ pc'[r] = "modules"
           \/ fd[r] = "lib" /\ fd'[r] = NoFile /\ pc'[r] = "ok"
    BY <1>2, <1>10 DEF write_lib, open_file_create_overwrite, write_all
  <2>2. Loads(idl(r)) /\ Generated(r) /\ k[r] = n + 1
    BY <1>1, <2>1 DEF Known, Writing
  <2>3. Generates(idl(r))
    BY <1>1, <2>1, <2>2, AllGenerated
  <2>4. pc'[r] = "modules" => Generated(r)'
    BY <1>1, <1>3, <2>1, <2>2 DEF Generated
  <2>5. Known(r)'
    BY <1>1, <1>3, <2>1, <2>2, <2>3, <2>4 DEF Known, Writing
  <2>6. Counts(r)
    <3>1. CASE fd'[r] # NoFile
      <4>1. StepsLeft(r) = 2 /\ StepsLeft(r)' = 1
        BY <1>1, <1>3, <2>1, <2>2, <3>1 DEF StepsLeft, NoFile
      <4>2. QED
        BY <1>1, <4>1 DEF Counts
    <3>2. CASE fd'[r] = NoFile
      <4>1. StepsLeft(r) = 1 /\ StepsLeft(r)' = 0
        BY <1>1, <1>3, <2>1, <2>2, <3>2 DEF StepsLeft, NoFile
      <4>2. QED
        BY <1>1, <4>1 DEF Counts
    <3>3. QED
      BY <3>1, <3>2
  <2>7. QED
    BY <2>1, <2>5, <2>6 DEF Enters
<1>11. CASE write_some(r)
  <2>1. UNCHANGED <<args, pc, k, fd, dirs>>
    BY <1>11 DEF write_some
  <2>2. QED
    BY <1>1, <1>3, <2>1 DEF Known, Generated, Counts, Enters, Writing
<1>12. CASE Fail(r)
  <2>1. /\ pc'[r] = "failed" /\ fd'[r] = NoFile /\ UNCHANGED <<args, k, dirs>>
        /\ pc[r] \in PC \ (Exited \cup {"unborn"})
    BY <1>2, <1>12 DEF Fail, Live
  <2>2. pc[r] \in {"load", "mkdir", "gitignore", "cargo", "modules"}
    BY <2>1 DEF PC
  <2>3. StepsLeft(r)' = 0
    BY <2>1 DEF StepsLeft
  <2>4. StepsLeft(r) > 0
    BY <1>1, <2>2 DEF StepsLeft, Known
  <2>5. QED
    BY <1>1, <2>1, <2>3, <2>4 DEF Known, Counts, Enters, Writing
<1>13. QED
  BY <1>4, <1>5, <1>6, <1>7, <1>8, <1>9, <1>10, <1>11, <1>12 DEF Progress

(* Nothing on disk is the work of a run whose IDL does not load, and no    *)
(* step makes it so.                                                       *)
LEMMA RejectedStep ==
  ASSUME Knowledge, NEW r \in Runs, Enters(r), args' = args, TypeOK',
         \A c \in Crates : \A f \in Files :
           \/ disk'[c][f].by = disk[c][f].by
           \/ Writing(r) /\ disk'[c][f].by = r
  PROVE  RejectedIdlTouchesNothing'
<1>1. \A q : idl(q)' = idl(q) /\ Crate(q)' = Crate(q)
  BY Constancy
<1>2. pc[r] = "mkdir" \/ Writing(r) => Loads(idl(r))
  BY DEF Knowledge, Known
<1>3. ASSUME NEW c \in Crates, NEW f \in Files, disk'[c][f].by # 0
      PROVE  Loads(idl(disk'[c][f].by))
  BY <1>2, <1>3 DEF Knowledge, RejectedIdlTouchesNothing
<1>4. ASSUME NEW c \in dirs'
      PROVE  \E q \in Runs : Crate(q) = c /\ Loads(idl(q))
  BY <1>2, <1>4 DEF Knowledge, RejectedIdlTouchesNothing, Enters
<1>5. QED
  BY <1>1, <1>3, <1>4 DEF RejectedIdlTouchesNothing, Loads, idl

(* What the runs know survives the step of one of them. *)
LEMMA KnowledgeStep ==
  ASSUME Knowledge, Existence', NEW r \in Runs,
         Start(r) \/ Progress(r) \/ write_some(r) \/ Fail(r)
  PROVE  Knowledge' /\ \A q \in Runs : Counts(q)
<1>1. /\ LooseStep(r) /\ args' = args /\ TypeOK'
      /\ \A q \in Runs \ {r} : pc'[q] = pc[q] /\ k'[q] = k[q] /\ fd'[q] = fd[q]
  BY LooseKind DEF Knowledge
<1>2. Known(r)' /\ Counts(r) /\ Enters(r)
  BY KnownStep
<1>3. ASSUME NEW q \in Runs \ {r}
      PROVE  Known(q)' /\ Counts(q)
  <2>1. idl(q)' = idl(q)
    BY <1>1, Constancy
  <2>2. Known(q)
    BY DEF Knowledge
  <2>3. QED
    BY <1>1, <2>1, <2>2 DEF Known, Generated, Writing, Counts
<1>4. RejectedIdlTouchesNothing'
  <2>1. \A c \in Crates : \A f \in Files :
          disk'[c][f].by = disk[c][f].by \/ (Writing(r) /\ disk'[c][f].by = r)
    BY <1>1, FilesStay DEF Knowledge
  <2>2. QED
    BY <1>1, <1>2, <2>1, RejectedStep
<1>5. QED
  BY <1>2, <1>3, <1>4 DEF Knowledge

(* One step of the system: an invariant and, on the way, the countdown. *)
LEMMA NextKnowledge ==
  ASSUME Knowledge, Existence', [Next]_vars
  PROVE  Knowledge' /\ \A r \in Runs : Counts(r)
<1>1. CASE UNCHANGED vars
  <2>1. args' = args /\ pc' = pc /\ k' = k /\ fd' = fd /\ dirs' = dirs /\ disk' = disk
    BY <1>1 DEF vars
  <2>2. \A q : idl(q)' = idl(q) /\ Crate(q)' = Crate(q)
    BY <2>1, Constancy
  <2>3. RejectedIdlTouchesNothing'
    BY <2>1, <2>2 DEF Knowledge, RejectedIdlTouchesNothing
  <2>4. \A q \in Runs : Known(q)' /\ Counts(q)
    BY <2>1, <2>2 DEF Knowledge, Known, Generated, Writing, Counts
  <2>5. QED
    BY <2>3, <2>4 DEF Knowledge
<1>2. QED
  BY <1>1, KnowledgeStep DEF Next, Terminated

(* Before any run has started nothing is known of an IDL. *)
LEMMA InitKnowledge == Init /\ Existence => Knowledge
<1> SUFFICES ASSUME Init, Existence PROVE Knowledge
  OBVIOUS
<1>1. \A r \in Runs : pc[r] = "unborn"
  BY DEF Init
<1>2. RejectedIdlTouchesNothing
  BY DEF Init, RejectedIdlTouchesNothing
<1>3. QED
  BY <1>1, <1>2 DEF Knowledge, Known, Writing

(* Knowledge holds of any number of runs, overlapping or not. *)
THEOREM KnowledgeInvariance == Spec => []Knowledge
<1>1. Knowledge /\ Existence' /\ [Next]_vars => Knowledge'
  BY NextKnowledge
<1>2. QED
  BY <1>1, InitKnowledge, ExistenceInvariance, PTL DEF Spec

(* A run whose IDL does not load leaves no trace on disk, whatever the     *)
(* runs beside it do.                                                      *)
THEOREM RejectedTouchesNothing == Spec => []RejectedIdlTouchesNothing
<1>1. Knowledge => RejectedIdlTouchesNothing
  BY DEF Knowledge
<1>2. QED
  BY <1>1, KnowledgeInvariance, PTL

(* No run exits with success over an IDL it could not generate all of, nor *)
(* with a panic over one it could.                                         *)
THEOREM StatusDeserved == Spec => []StatusIsDeserved
<1>1. Knowledge => StatusIsDeserved
  BY DEF Knowledge, Known, StatusIsDeserved
<1>2. QED
  BY <1>1, KnowledgeInvariance, PTL

(* No interleaving of runs keeps one of them from coming nearer to its     *)
(* exit with every step of its own.                                        *)
THEOREM EveryStepCounted == Spec => EveryStepCounts
<1> DEFINE Nearer ==
      \A r \in Runs :
        \/ UNCHANGED <<pc[r], k[r], fd[r]>>
        \/ 0 <= StepsLeft(r)' /\ StepsLeft(r)' < StepsLeft(r)
<1>1. Knowledge /\ Existence' /\ [Next]_vars => [Nearer]_vars
  BY NextKnowledge DEF Counts
<1>2. QED
  BY <1>1, KnowledgeInvariance, ExistenceInvariance, PTL DEF Spec, EveryStepCounts
=============================================================================

-------------------------- MODULE ExampleTestsProofs --------------------------
(***************************************************************************)
(* What the verdicts of the example tests mean, for any examples whose     *)
(* IDLs load and any number of tests and threads.                          *)
(*                                                                         *)
(* The runs that the tests start are runs of Solores that begin with the   *)
(* crates checked in: IInv holds for them too.  TestInv adds what the      *)
(* tests know of their runs.                                               *)
(***************************************************************************)
EXTENDS ExampleTests, SoloresProofs

(* Every example has a directory of its own. *)
Separate == \A r, q \in Runs : r # q => Crate(r) # Crate(q)

(* A test goes on to `cargo check` only when its run has succeeded. *)
AssertedSuccess ==
  /\ DOMAIN test = Tests
  /\ \A t \in Tests : test[t] \in {"checking", "passed"} => pc[t] = "ok"

(* What a cargo has seen of the members so far.  Of those complete when it *)
(* was spawned it has seen the work of their runs only, of those whose run *)
(* has not begun only what is checked in; it blames neither for what it    *)
(* has read, unless the workspace lacks what the first ask for.            *)
CargoKnows ==
  /\ DOMAIN cargo = Tests
  /\ \A t \in Tests : DOMAIN cargo[t] = DOMAIN Idle /\ cargo[t].blame \in Tests \cup {0}
  /\ \A t, q \in Tests :
       /\ q \in cargo[t].before => /\ pc[q] = "ok"
                                  /\ \A s \in cargo[t].seen : s[1] = q => s[2] = q
       /\ pc[q] = "unborn" => \A s \in cargo[t].seen : s[1] = q => s[2] = 0
       /\ q = cargo[t].blame =>
            /\ pc[q] # "unborn"
            /\ q \in cargo[t].before
                 => ~ (dependencies(idl(q)) \subseteq WorkspaceDependencies)

(* What no run has written to is as it was checked in, and whole. *)
CheckedIn == \A r \in Runs : \A f \in Parts(r) : file(r, f).by = 0 => file(r, f).state = "full"

FilesInv == IInv /\ Separate /\ CheckedIn

TestInv == FilesInv /\ AssertedSuccess /\ CargoKnows

(* The examples of the repository, once they have IDLs in the format of    *)
(* today.                                                                  *)
ExamplesLoad == \A a \in Inputs : Loads(a.idl)

-----------------------------------------------------------------------------
(* The invariant *)

LEMMA InitTests ==
  ASSUME Init_tests, ExamplesLoad
  PROVE  TestInv
<1>1. /\ args \in [Runs -> Inputs]
      /\ \A r \in Runs : pc[r] = "unborn" /\ k[r] = 1 /\ fd[r] = NoFile
      /\ \A c \in Crates : \A f \in Files : disk[c][f].by = 0
  BY DEF Init_tests
<1>2. \A r \in Runs : args[r] \in Inputs /\ args[r] \in Args /\ Loads(idl(r)) /\ Crate(r) \in Crates
  BY <1>1, InputsAssumption DEF Args, Idl, idl, Crate, ExamplesLoad
<1>3. TypeOK
  <2>1. disk \in [Crates -> [Files -> Version]]
    <3>1. \A b \in BOOLEAN : [by |-> 0, state |-> IF b THEN "full" ELSE "absent"] \in Version
      BY RunsAssumption DEF Version, State
    <3>2. QED
      BY <3>1 DEF Init_tests
  <2>2. dirs \in SUBSET Crates
    BY <1>2 DEF Init_tests
  <2>3. pc \in [Runs -> PC] /\ k \in [Runs -> Nat \ {0}] /\ fd \in [Runs -> Files \cup {NoFile}]
    BY DEF Init_tests, PC
  <2>4. QED
    BY <1>1, <2>1, <2>2, <2>3 DEF TypeOK
<1>4. OneWriter
  BY <1>1 DEF OneWriter, Live
<1>5. Provenance
  BY <1>1, <1>2 DEF Provenance, Writing, Init_tests
<1>6. OpenFile /\ WrittenSoFar
  BY <1>1 DEF OpenFile, WrittenSoFar, Live
<1>7. NoStaleParts
  BY <1>1 DEF NoStaleParts, LibOf, Files
<1>8. Separate
  BY DEF Init_tests, Separate
<1>9. AssertedSuccess
  BY DEF Init_tests, AssertedSuccess
<1>10. CheckedIn
  <2> SUFFICES ASSUME NEW r \in Runs, NEW f \in Parts(r)
               PROVE  file(r, f).state = "full"
    BY DEF CheckedIn
  <2>1. Crate(r) \in Crates /\ f \in Files
    BY <1>3, RunFacts DEF Parts, Files
  <2>2. disk[Crate(r)][f] = [by    |-> 0,
                             state |-> IF \E q \in Runs : Crate(q) = Crate(r) /\ f \in Parts(q)
                                         THEN "full" ELSE "absent"]
    BY <2>1 DEF Init_tests
  <2>3. QED
    BY <2>2 DEF file
<1>11. CargoKnows
  <2>1. \A q \in Tests : q \in Nat \ {0} /\ q \in Runs
    BY RunsAssumption DEF Tests, Runs
  <2>2. DOMAIN cargo = Tests /\ \A t \in Tests : cargo[t] = Idle
    BY DEF Init_tests
  <2>3. QED
    BY <2>1, <2>2 DEF CargoKnows, Idle
<1>12. QED
  BY <1>3, <1>4, <1>5, <1>6, <1>7, <1>8, <1>9, <1>10, <1>11 DEF TestInv, FilesInv, IInv

(* To the runs, a step of the tests is one of theirs or none. *)
LEMMA SoloresSteps ==
  ASSUME [Next_tests]_testVars
  PROVE  [Next]_vars
<1>1. CASE UNCHANGED testVars
  BY <1>1 DEF testVars, vars
<1>2. CASE AllDone
  BY <1>2 DEF AllDone, testVars, vars
<1>3. ASSUME NEW t \in Tests, TestStep(t)
      PROVE  Start(t) \/ UNCHANGED vars
  BY <1>3 DEF TestStep, gen_example, assert_success, cargo_read, check_example, CheckEnds
<1>4. ASSUME NEW t \in Tests, Solores_step(t)
      PROVE  Progress(t) \/ write_some(t) \/ Fail(t)
  BY <1>4 DEF Solores_step
<1>5. QED
  BY <1>1, <1>2, <1>3, <1>4 DEF Next_tests, Next, Tests

LEMMA SuccessLasts ==
  ASSUME IInv, [Next]_vars, NEW r \in Runs, pc[r] = "ok"
  PROVE  pc'[r] = "ok"
<1>1. ASSUME NEW q \in Runs, Step(q) PROVE pc'[r] = "ok"
  BY <1>1, StepFacts DEF Live, Exited, Start
<1>2. QED
  BY <1>1, StepKinds DEF vars

(* A run that has begun has begun for good. *)
LEMMA BegunLasts ==
  ASSUME IInv, [Next]_vars, NEW r \in Runs, pc[r] # "unborn"
  PROVE  pc'[r] # "unborn"
<1>1. ASSUME NEW q \in Runs, Step(q) PROVE pc'[r] # "unborn"
  BY <1>1, StepFacts
<1>2. QED
  BY <1>1, StepKinds DEF vars

LEMMA NextFiles ==
  ASSUME FilesInv, Overlap = FALSE, [Next]_vars
  PROVE  FilesInv'
<1>1. [Next]_vars /\ IInv
  BY DEF FilesInv
<1>2. IInv'
  BY <1>1, NextIInv
<1>3. /\ args' = args
      /\ \A q : idl(q)' = idl(q) /\ Crate(q)' = Crate(q) /\ Parts(q)' = Parts(q)
  <2>1. args' = args
    BY <1>1, StepKinds, StepFacts DEF vars
  <2>2. QED
    BY <2>1, Constancy
<1>4. Separate'
  BY <1>3 DEF FilesInv, Separate
<1>5. CheckedIn'
  <2>1. CASE UNCHANGED vars
    BY <1>3, <2>1 DEF FilesInv, CheckedIn, file, vars
  <2>2. ASSUME NEW r \in Runs, Step(r)
        PROVE  CheckedIn'
    <3>1. r # 0
      BY RunsAssumption DEF Runs
    <3>2. \A c \in Crates : \A f \in Files :
            disk'[c][f].by = 0 => disk'[c][f] = disk[c][f]
      <4>1. CASE disk' = disk
        BY <4>1
      <4>2. CASE disk' # disk
        <5>1. PICK s : disk'[Crate(r)][Current(r)] = [by |-> r, state |-> s]
          BY <1>1, <2>2, <4>2, DiskFacts
        <5>2. disk'[Crate(r)][Current(r)].by # 0
          BY <3>1, <5>1
        <5>3. QED
          BY <1>1, <2>2, <4>2, <5>2, DiskFacts
      <4>3. QED
        BY <4>1, <4>2
    <3>3. QED
      BY <1>1, <1>3, <3>2, StateFacts DEF FilesInv, CheckedIn, file
  <2>3. QED
    BY <1>1, <2>1, <2>2, StepKinds
<1>6. QED
  BY <1>2, <1>4, <1>5 DEF FilesInv

(* A file of an example is as checked in, or the work of its own test. *)
LEMMA OwnFiles ==
  ASSUME FilesInv, NEW r \in Runs, NEW f \in Files
  PROVE  file(r, f).by \in {0, r} /\ (pc[r] = "unborn" => file(r, f).by = 0)
<1>1. Crate(r) \in Crates /\ file(r, f).by \in Runs \cup {0}
  BY StateFacts DEF FilesInv, file
<1>2. file(r, f).by # 0 => Crate(file(r, f).by) = Crate(r) /\ pc[file(r, f).by] # "unborn"
  BY <1>1 DEF FilesInv, IInv, Provenance, file
<1>3. QED
  BY <1>1, <1>2 DEF FilesInv, Separate

(* A run that has succeeded has left its crate whole. *)
LEMMA OkIsWhole ==
  ASSUME FilesInv, NEW r \in Runs, pc[r] = "ok", NEW f \in Parts(r)
  PROVE  file(r, f) = [by |-> r, state |-> "full"]
<1>1. /\ f \in Files /\ Crate(r) \in Crates /\ file(r, f) \in Version /\ r \in Nat /\ r # 0
  BY StateFacts, RunsAssumption DEF FilesInv, file, Runs
<1>2. file(r, f).by >= r /\ (file(r, f).by = r => file(r, f).state = "full")
  BY DEF FilesInv, IInv, NoStaleParts
<1>3. file(r, f).by = r
  BY <1>1, <1>2, OwnFiles
<1>4. QED
  BY <1>1, <1>2, <1>3, VersionEqual

(* The file that cargo reads, when it reads it: of a run that has succeeded *)
(* its work, of one that has not begun what is checked in, and whole.      *)
LEMMA RestingFile ==
  ASSUME FilesInv, NEW q \in Runs, NEW f \in Parts(q)
  PROVE  /\ pc[q] = "ok" => file(q, f).by = q /\ file(q, f).state = "full"
         /\ pc[q] = "unborn" => file(q, f).by = 0 /\ file(q, f).state = "full"
<1>1. f \in Files
  BY StateFacts DEF FilesInv
<1>2. QED
  BY <1>1, OkIsWhole, OwnFiles DEF FilesInv, CheckedIn

LEMMA CargoReads ==
  ASSUME TestInv, NEW t \in Tests, NEW q \in Tests, NEW f \in Parts(q), cargo_read(t, q, f)
  PROVE  CargoKnows'
<1>1. /\ UNCHANGED vars
      /\ \A r : idl(r)' = idl(r)
      /\ DOMAIN cargo' = Tests
      /\ \A s \in Tests \ {t} : cargo'[s] = cargo[s]
  <2>1. UNCHANGED vars
    BY DEF cargo_read
  <2>2. args' = args
    BY <2>1 DEF vars
  <2>3. QED
    BY <2>1, <2>2, Constancy DEF cargo_read, TestInv, CargoKnows
<1>2. pc' = pc
  BY <1>1 DEF vars
<1>3. q \in Runs /\ FilesInv /\ cargo[t].blame = 0 /\ DOMAIN cargo[t] = DOMAIN Idle
  BY DEF cargo_read, TestInv, Tests, CargoKnows
<1>4. CASE /\ ~ LacksDependencies(q, f)
           /\ cargo' = [cargo EXCEPT ![t] = [cargo[t] EXCEPT !.unread = @ \ {<<q, f>>},
                                                            !.seen = @ \cup {<<q, file(q, f).by>>}]]
  <2>1. /\ cargo'[t].seen = cargo[t].seen \cup {<<q, file(q, f).by>>}
        /\ cargo'[t].blame = cargo[t].blame
        /\ cargo'[t].before = cargo[t].before
        /\ DOMAIN cargo'[t] = DOMAIN cargo[t]
    <3> DEFINE rest == cargo[t].unread \ {<<q, f>>}
               more == cargo[t].seen \cup {<<q, file(q, f).by>>}
    <3>1. cargo'[t] = [cargo[t] EXCEPT !.unread = rest, !.seen = more]
      <4> DEFINE next == [cargo[t] EXCEPT !.unread = rest, !.seen = more]
      <4>1. cargo' = [cargo EXCEPT ![t] = next] /\ t \in DOMAIN cargo
        BY <1>4 DEF TestInv, CargoKnows
      <4> HIDE DEF next
      <4>2. cargo'[t] = next
        BY <4>1
      <4>3. QED
        BY <4>2 DEF next
    <3>2. DOMAIN cargo[t] = {"unread", "seen", "blame", "before"}
      BY <1>3 DEF Idle
    <3> HIDE DEF rest, more
    <3>3. /\ cargo'[t].seen = more
          /\ cargo'[t].blame = cargo[t].blame
          /\ cargo'[t].before = cargo[t].before
          /\ DOMAIN cargo'[t] = DOMAIN cargo[t]
      BY <3>1, <3>2
    <3>4. QED
      BY <3>3 DEF more
  <2>2. /\ q \in cargo[t].before => file(q, f).by = q
        /\ pc[q] = "unborn" => file(q, f).by = 0
    BY <1>3, RestingFile DEF TestInv, CargoKnows
  <2>3. QED
    BY <1>1, <1>2, <2>1, <2>2 DEF TestInv, CargoKnows
<1>5. CASE /\ \/ LacksDependencies(q, f)
              \/ file(q, f).state # "full"
              \/ \E s \in cargo[t].seen : s[1] = q /\ s[2] # file(q, f).by
           /\ cargo' = [cargo EXCEPT ![t] = [Idle EXCEPT !.blame = q, !.before = cargo[t].before]]
  <2>1. /\ cargo'[t].seen = {}
        /\ cargo'[t].blame = q
        /\ cargo'[t].before = cargo[t].before
        /\ DOMAIN cargo'[t] = DOMAIN Idle
    BY <1>5 DEF Idle, TestInv, CargoKnows
  <2>2. pc[q] # "unborn"
    BY <1>3, <1>5, RestingFile DEF TestInv, CargoKnows, LacksDependencies
  <2>3. ASSUME q \in cargo[t].before
        PROVE  ~ (dependencies(idl(q)) \subseteq WorkspaceDependencies)
    BY <1>3, <1>5, <2>3, RestingFile DEF TestInv, CargoKnows, LacksDependencies
  <2>4. QED
    BY <1>1, <1>2, <2>1, <2>2, <2>3 DEF TestInv, CargoKnows
<1>6. QED
  BY <1>4, <1>5 DEF cargo_read

(* What a cargo knows stays true while the runs and other tests go on. *)
LEMMA CargoWaits ==
  ASSUME TestInv, [Next]_vars, args' = args, cargo' = cargo
  PROVE  CargoKnows'
<1>1. \A r : idl(r)' = idl(r)
  BY Constancy
<1>2. \A q \in Tests : /\ pc[q] = "ok" => pc'[q] = "ok"
                       /\ pc[q] # "unborn" => pc'[q] # "unborn"
  BY SuccessLasts, BegunLasts DEF TestInv, FilesInv, Tests
<1>3. QED
  BY <1>1, <1>2 DEF TestInv, CargoKnows

LEMMA NextTests ==
  ASSUME TestInv, Overlap = FALSE, [Next_tests]_testVars
  PROVE  TestInv'
<1>1. [Next]_vars /\ IInv
  BY SoloresSteps DEF TestInv, FilesInv
<1>2. FilesInv'
  BY <1>1, NextFiles DEF TestInv
<1>3. args' = args
  BY <1>1, StepKinds, StepFacts DEF vars
<1>4. AssertedSuccess'
  <2>1. DOMAIN test' = Tests
    BY DEF TestInv, AssertedSuccess, Next_tests, TestStep, gen_example, assert_success,
           cargo_read, check_example, CheckEnds, Solores_step, AllDone, testVars
  <2>2. ASSUME NEW t \in Tests, test'[t] \in {"checking", "passed"}
        PROVE  pc'[t] = "ok"
    <3>1. pc[t] = "ok"
      <4>1. CASE test'[t] = test[t]
        BY <2>2, <4>1 DEF TestInv, AssertedSuccess
      <4>2. CASE test'[t] # test[t]
        <5>1. PICK s \in Tests : TestStep(s)
          BY <4>2 DEF Next_tests, Solores_step, AllDone, testVars
        <5>2. s = t
          BY <4>2, <5>1 DEF TestStep, gen_example, assert_success, cargo_read, check_example, CheckEnds,
                 TestInv, AssertedSuccess
        <5>3. CASE gen_example(t)
          BY <2>2, <5>3 DEF gen_example, TestInv, AssertedSuccess
        <5>4. CASE assert_success(t)
          BY <2>2, <5>4 DEF assert_success, TestInv, AssertedSuccess
        <5>5. CASE check_example(t)
          BY <5>5 DEF check_example, CheckEnds, TestInv, AssertedSuccess
        <5>6. QED
          BY <4>2, <5>1, <5>2, <5>3, <5>4, <5>5 DEF TestStep, cargo_read
      <4>3. QED
        BY <4>1, <4>2
    <3>2. QED
      BY <1>1, <3>1, SuccessLasts DEF Tests
  <2>3. QED
    BY <2>1, <2>2 DEF AssertedSuccess
<1>5. CargoKnows'
  <2>1. CASE cargo' = cargo
    BY <1>1, <1>3, <2>1, CargoWaits
  <2>2. CASE cargo' # cargo
    <3>1. PICK t \in Tests : TestStep(t)
      BY <2>2 DEF Next_tests, Solores_step, AllDone, testVars
    <3>2. CASE gen_example(t)
      BY <2>2, <3>2 DEF gen_example
    <3>3. CASE assert_success(t)
      <4>1. UNCHANGED vars /\ cargo' = [cargo EXCEPT ![t] = Spawned]
        BY <2>2, <3>3 DEF assert_success
      <4>2. /\ cargo'[t] = Spawned
            /\ DOMAIN cargo' = Tests
            /\ \A s \in Tests \ {t} : cargo'[s] = cargo[s]
        BY <4>1 DEF TestInv, CargoKnows
      <4>3. pc' = pc /\ \A r : idl(r)' = idl(r)
        BY <1>3, <4>1, Constancy DEF vars
      <4>4. \A q \in Tests : q # 0
        BY RunsAssumption DEF Tests, Runs
      <4>5. DOMAIN Spawned = DOMAIN Idle
        BY DEF Spawned, Idle
      <4>6. QED
        BY <4>2, <4>3, <4>4, <4>5 DEF TestInv, CargoKnows, Spawned
    <3>4. CASE check_example(t)
      <4>1. UNCHANGED vars /\ cargo' = [cargo EXCEPT ![t] = Idle]
        BY <3>4 DEF check_example, CheckEnds
      <4>2. /\ cargo'[t] = Idle
            /\ DOMAIN cargo' = Tests
            /\ \A s \in Tests \ {t} : cargo'[s] = cargo[s]
        BY <4>1 DEF TestInv, CargoKnows
      <4>3. pc' = pc /\ \A r : idl(r)' = idl(r)
        BY <1>3, <4>1, Constancy DEF vars
      <4>4. \A q \in Tests : q # 0
        BY RunsAssumption DEF Tests, Runs
      <4>5. QED
        BY <4>2, <4>3, <4>4 DEF TestInv, CargoKnows, Idle
    <3>5. ASSUME NEW q \in Tests, NEW f \in Parts(q), cargo_read(t, q, f)
          PROVE  CargoKnows'
      BY <3>5, CargoReads
    <3>6. QED
      BY <3>1, <3>2, <3>3, <3>4, <3>5 DEF TestStep
  <2>3. QED
    BY <2>1, <2>2
<1>6. QED
  BY <1>2, <1>4, <1>5 DEF TestInv

(* However the tests interleave and whatever fails: the inductive          *)
(* invariant of the runs, and what the tests know of them.                 *)
THEOREM TestInvariance == Overlap = FALSE /\ ExamplesLoad => (Spec_tests => []TestInv)
<1> SUFFICES ASSUME Overlap = FALSE, ExamplesLoad
             PROVE  Spec_tests => []TestInv
  OBVIOUS
<1>1. Init_tests => TestInv
  BY InitTests
<1>2. TestInv /\ [Next_tests]_testVars => TestInv'
  BY NextTests
<1>3. QED
  BY <1>1, <1>2, PTL DEF Spec_tests

-----------------------------------------------------------------------------
(* The verdicts *)

(* A test that passed is right about its own crate for the rest of the     *)
(* suite: the run it asserted success of has written all of it, and the    *)
(* runs of the other tests have directories of their own.                  *)
THEOREM PassWhole == Overlap = FALSE /\ ExamplesLoad => (Spec_tests => []PassMeansWhole)
<1>1. TestInv => PassMeansWhole
  <2> SUFFICES ASSUME TestInv, NEW t \in Tests, test[t] = "passed", NEW f \in Parts(t)
               PROVE  disk[Crate(t)][f] = [by |-> t, state |-> "full"]
    BY DEF PassMeansWhole, Whole
  <2>1. t \in Runs /\ pc[t] = "ok" /\ FilesInv
    BY DEF TestInv, AssertedSuccess, Tests
  <2>2. QED
    BY <2>1, OkIsWhole DEF file
<1>2. QED
  BY <1>1, TestInvariance, PTL

(* A test fails over its own run, or over a member that was not complete   *)
(* when its cargo was spawned and is not as checked in either, unless the  *)
(* workspace lacks what that member inherits: whatever the IDLs, the       *)
(* workspace, and the number of tests, threads and compiler jobs.          *)
THEOREM FailureCulprit ==
  Overlap = FALSE /\ ExamplesLoad => (Spec_tests => FailureHasACulprit)
<1> SUFFICES ASSUME Overlap = FALSE, ExamplesLoad
             PROVE  Spec_tests => FailureHasACulprit
  OBVIOUS
<1> DEFINE Culprit(t) ==
             \/ pc[t] \in Exited \ {"ok"}
             \/ \E q \in Tests :
                  /\ q = cargo[t].blame
                  /\ pc[q] # "unborn"
                  /\ q \in cargo[t].before
                       => ~ (dependencies(idl(q)) \subseteq WorkspaceDependencies)
           A == \A t \in Tests : test[t] # "failed" /\ test'[t] = "failed" => Culprit(t)
<1>1. TestInv /\ [Next_tests]_testVars => A
  <2> SUFFICES ASSUME TestInv, [Next_tests]_testVars, NEW t \in Tests,
                      test[t] # "failed", test'[t] = "failed"
               PROVE  Culprit(t)
    OBVIOUS
  <2>1. PICK s \in Tests : TestStep(s)
    BY DEF Next_tests, Solores_step, AllDone, testVars
  <2>2. s = t /\ (assert_success(t) \/ check_example(t))
    BY <2>1 DEF TestStep, gen_example, assert_success, cargo_read, check_example, CheckEnds,
           TestInv, AssertedSuccess
  <2>3. CASE assert_success(t)
    BY <2>3 DEF assert_success, TestInv, AssertedSuccess
  <2>4. CASE check_example(t)
    <3>1. cargo[t].blame # 0
      BY <2>4 DEF check_example, TestInv, AssertedSuccess
    <3>2. cargo[t].blame \in Tests
      BY <3>1 DEF TestInv, CargoKnows
    <3>3. QED
      BY <3>2 DEF TestInv, CargoKnows
  <2>5. QED
    BY <2>2, <2>3, <2>4
<1>2. Spec_tests => []TestInv
  BY TestInvariance
<1>3. QED
  BY <1>1, <1>2, PTL DEF Spec_tests, FailureHasACulprit
=============================================================================

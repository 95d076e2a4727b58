----------------------------- MODULE ExampleTests -----------------------------
(***************************************************************************)
(* The tests of the repository that generate the example crates and run    *)
(* `cargo check` on them.                                                  *)
(*                                                                         *)
(* Test t has run t of solores overwrite the checked-in crate of its       *)
(* example, asserts that the run succeeds, then calls `cargo check` in its *)
(* example's directory.  No manifest is there: cargo finds the one of the  *)
(* workspace above it and checks every member, the crates of all other     *)
(* tests among them.                                                       *)
(*                                                                         *)
(* cargo is external, and its check takes its time: it loads the manifests *)
(* of all members, then compiles some crates at a time, each from lib.rs   *)
(* on, and the runs of other tests go on between any two of the files it   *)
(* reads.  Texts that are whole and of one run it accepts; what it makes   *)
(* of a file that is not whole, or of files of two runs, is left open.     *)
(***************************************************************************)
EXTENDS Solores, FiniteSets

CONSTANTS
  Threads,               \* how many tests the harness runs at a time
  Jobs,                  \* how many crates a cargo compiles at a time
  WorkspaceDependencies  \* the keys of [workspace.dependencies]

ASSUME ThreadsAssumption == Threads \in Nat \ {0} /\ Jobs \in Nat \ {0}

VARIABLES
  test,  \* where each test is
  cargo  \* what the `cargo check` of each test has come to

testVars == <<test, cargo, args, pc, k, fd, dirs, disk>>

Tests == Runs

Verdicts == {"passed", "failed"}

Running(t) == test[t] \notin Verdicts \cup {"waiting"}

(* A `cargo check`: the files it has to read yet, each with the member it  *)
(* belongs to; whose work it has seen of each member; the member it has    *)
(* found at fault (0: none).  before, auxiliary: the runs that had exited  *)
(* with success when it was spawned.                                       *)
Idle == [unread |-> {}, seen |-> {}, blame |-> 0, before |-> {}]

Spawned == [unread |-> UNION {{q} \X Parts(q) : q \in Tests},
            seen   |-> {},
            blame  |-> 0,
            before |-> {q \in Tests : pc[q] = "ok"}]

(* Every example has a directory of its own, and its crate is checked in.  *)
Init_tests ==
  /\ args \in [Runs -> Inputs]
  /\ \A r, q \in Runs : r # q => Crate(r) # Crate(q)
  /\ pc = [r \in Runs |-> "unborn"]
  /\ k = [r \in Runs |-> 1]
  /\ fd = [r \in Runs |-> NoFile]
  /\ dirs = {Crate(r) : r \in Runs}
  /\ disk = [c \in Crates |-> [f \in Files |->
               [by    |-> 0,
                state |-> IF \E r \in Runs : Crate(r) = c /\ f \in Parts(r)
                            THEN "full" ELSE "absent"]]]
  /\ test = [t \in Tests |-> "waiting"]
  /\ cargo = [t \in Tests |-> Idle]

(* What has to be read before file f of member q: no crate is compiled     *)
(* before all manifests are loaded, a module is found by the declaration   *)
(* in lib.rs, and the modules come in the order of their declarations.     *)
ReadBefore(q, f) ==
  CASE f = "Cargo.toml" -> {}
    [] f = "lib"        -> Tests \X {"Cargo.toml"}
    [] OTHER            -> (Tests \X {"Cargo.toml"}) \cup {<<q, "lib">>} \cup
                             {<<q, modules(idl(q))[j]>> : j \in
                                {i \in 1 .. Len(modules(idl(q))) :
                                   \A h \in 1 .. i : modules(idl(q))[h] # f}}

(* The members that are being compiled by the cargo of test t. *)
Compiling(t) ==
  {q \in Tests : /\ <<q, "lib">> \notin cargo[t].unread
                 /\ \E f \in Parts(q) : <<q, f>> \in cargo[t].unread}

(* A manifest that a test has generated asks for dependencies the          *)
(* workspace does not have (it says `workspace=true` everywhere).          *)
LacksDependencies(q, f) ==
  /\ f = "Cargo.toml"
  /\ file(q, f).state = "full" /\ file(q, f).by # 0
  /\ ~ (dependencies(idl(q)) \subseteq WorkspaceDependencies)

-----------------------------------------------------------------------------

(* A test gets a thread; gen_example spawns solores. *)
gen_example(t) ==
  /\ test[t] = "waiting"
  /\ Cardinality({s \in Tests : Running(s)}) < Threads
  /\ Start(t)
  /\ test' = [test EXCEPT ![t] = "generating"]
  /\ UNCHANGED cargo

(* Mutant: the exit status of the run is not looked at. *)
assert_nothing(t) ==
  /\ test[t] = "generating"
  /\ pc[t] \in Exited
  /\ test' = [test EXCEPT ![t] = "checking"]
  /\ cargo' = [cargo EXCEPT ![t] = Spawned]
  /\ UNCHANGED vars

(* solores_cmd.assert().success(), and check_example spawns `cargo check`. *)
assert_success(t) ==
  /\ test[t] = "generating"
  /\ \/ /\ pc[t] = "ok"
        /\ test' = [test EXCEPT ![t] = "checking"]
        /\ cargo' = [cargo EXCEPT ![t] = Spawned]
     \/ /\ pc[t] \in Exited \ {"ok"}
        /\ test' = [test EXCEPT ![t] = "failed"]
        /\ UNCHANGED cargo
  /\ UNCHANGED vars

(* cargo, or the rustc it runs, reads file f of member q as it is just     *)
(* now, and carries on or reports an error in q.                           *)
cargo_read(t, q, f) ==
  /\ test[t] = "checking"
  /\ cargo[t].blame = 0
  /\ <<q, f>> \in cargo[t].unread
  /\ ReadBefore(q, f) \cap cargo[t].unread = {}
  /\ f = "lib" => Cardinality(Compiling(t)) < Jobs
  /\ \/ /\ ~ LacksDependencies(q, f)
        /\ cargo' = [cargo EXCEPT ![t] = [cargo[t] EXCEPT !.unread = @ \ {<<q, f>>},
                                                         !.seen = @ \cup {<<q, file(q, f).by>>}]]
     \/ /\ \/ LacksDependencies(q, f)
           \/ file(q, f).state # "full"
           \/ \E s \in cargo[t].seen : s[1] = q /\ s[2] # file(q, f).by
        /\ cargo' = [cargo EXCEPT ![t] = [Idle EXCEPT !.blame = q, !.before = cargo[t].before]]
  /\ UNCHANGED <<vars, test>>

(* cargo exits: with an error, or with everything read and accepted. *)
CheckEnds(t) ==
  /\ test[t] = "checking"
  /\ cargo[t].blame # 0 \/ cargo[t].unread = {}
  /\ cargo' = [cargo EXCEPT ![t] = Idle]
  /\ UNCHANGED vars

(* Mutant: a check that fails is tried again. *)
check_example_retry(t) ==
  /\ CheckEnds(t)
  /\ test' = [test EXCEPT ![t] = IF cargo[t].blame = 0 THEN "passed" ELSE "generating"]

(* check_example: cargo_check_cmd.assert().success() *)
check_example(t) ==
  /\ CheckEnds(t)
  /\ test' = [test EXCEPT ![t] = IF cargo[t].blame = 0 THEN "passed" ELSE "failed"]

TestStep(t) ==
  \/ gen_example(t) \/ assert_success(t) \/ check_example(t)
  \/ \E q \in Tests : \E f \in Parts(q) : cargo_read(t, q, f)

Solores_step(r) ==
  /\ Progress(r) \/ write_some(r) \/ Fail(r)
  /\ UNCHANGED <<test, cargo>>

AllDone ==
  /\ \A t \in Tests : test[t] \in Verdicts
  /\ UNCHANGED testVars

Next_tests == (\E t \in Tests : TestStep(t) \/ Solores_step(t)) \/ AllDone

Spec_tests == Init_tests /\ [][Next_tests]_testVars

(* The threads of the harness and the processes they spawn keep running:   *)
(* of a test and the solores it waits for, one or the other can go on.     *)
FairSpec_tests ==
  /\ Spec_tests
  /\ \A t \in Tests :
       WF_testVars(TestStep(t) \/ (Progress(t) /\ UNCHANGED <<test, cargo>>))

-----------------------------------------------------------------------------
(* Properties *)

(* A test that passed was right about its own crate, and stays so: no other*)
(* test's run takes part of the crate away while the suite goes on.        *)
PassMeansWhole == \A t \in Tests : test[t] = "passed" => Whole(Crate(t), t)

(* A test fails only over a run of solores that failed, its own or one     *)
(* that left another member of the workspace in pieces: with all generator *)
(* runs successful the whole suite is.                                     *)
FailureHasACause ==
  (\E t \in Tests : test[t] = "failed") => \E r \in Runs : pc[r] \in Exited \ {"ok"}

(* A test fails over its own run of solores, or over a member whose run    *)
(* had begun and was not complete when cargo was spawned: never over a     *)
(* crate as checked in, nor over one that a successful run had left by     *)
(* then, however long cargo takes and whatever other runs do meanwhile -   *)
(* unless the workspace lacks what such a crate inherits.                  *)
FailureHasACulprit ==
  [][\A t \in Tests :
       test[t] # "failed" /\ test'[t] = "failed"
         => \/ pc[t] \in Exited \ {"ok"}
            \/ \E q \in Tests :
                 /\ q = cargo[t].blame
                 /\ pc[q] # "unborn"
                 /\ q \in cargo[t].before
                      => ~ (dependencies(idl(q)) \subseteq WorkspaceDependencies)]_testVars

(* The suite ends, with a verdict on every test: fewer threads than tests, *)
(* runs that stop half-way and crates in pieces delay none for good.       *)
TestsFinish == <>(\A t \in Tests : test[t] \in Verdicts)
=============================================================================

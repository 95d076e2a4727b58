# solores in TLA+

Specifications of [solores](../src/README.md), a command that reads the IDL of a
Solana program (Anchor's JSON format) and writes a Rust crate with the types,
instruction builders and CPI helpers of the program. The modules model the
command as a process that overwrites files in a directory; the decisions it takes
on an IDL before it writes them; the code it writes, as that code runs: the accounts
of an instruction on chain, and its data from one program to another; the imports and
definitions of the modules it writes; and the repository's test suite, which runs
several such processes against one cargo workspace. The interfaces that are checked
in as examples, five crates of programs in use and five of one instruction each, are
transcribed, and what is said of the generated code is checked on them. TLC checks
the instances of section 3; TLAPS proves nearly all of it for every IDL, set of crates,
number of runs, account list and value (section 4).

## 1. The system

| part | code | state | operations |
|---|---|---|---|
| command line driver | `solores/src/lib.rs` | where the run is; its exit status | `main`: parse arguments, `load_idl`, create the directory, `.gitignore`, manifest, modules |
| file output | `write_src.rs`, `write_cargotoml.rs`, `write_gitignore.rs`, `utils.rs` | the files of the crate directory, one open file | `write_lib`, `write_src_file`, `write_cargotoml`, `write_gitignore`, `open_file_create_overwrite` |
| IDL model | `idl_format/anchor/mod.rs` | none (immutable) | deserialization, `modules`, `dependencies` |
| instruction code | `idl_format/anchor/instructions/` | none | `to_ix_accounts`, `unique_by_report_dups`, `gen_head`, `gen_body`; emitted: structs, conversions, `*_ix`, `*_invoke`, `*_verify_account_*`, `XIxData`, `XProgramIx` |
| accounts, types, errors | `idl_format/anchor/{accounts,typedefs,errors}/` | none | `gen_head` (imports), `gen_body` (definitions) |
| events | `idl_format/anchor/events/` | none | dead code: its use in `anchor/mod.rs` is commented out |
| example tests | `solores/tests/`, `test_utils/` | where each test is | `gen_example`, `check_example` |
| example interfaces | `examples/anchor/*/*_interface/` | checked-in output | the functions of every instruction and account; members of one workspace, compiled by `cargo check` |

The driver calls `load_idl` once and then the writers in a fixed order. The
writers call the code generators (`IdlCodegenModule::gen_head`, `gen_body`)
between two writes, so a panic of a generator comes after some files have been
overwritten and before others. Runs share nothing but the file system. The
example tests start runs and then `cargo check`, which reads the directories that
all of the runs write.

What makes it hard:

* **Stops in the middle.** Output goes straight to the final files. Each is
  truncated when it is opened; nothing is written aside and renamed; nothing an
  earlier run left is removed. A run can panic between any two files (an I/O
  error, two accounts of an instruction with the same name, generated tokens that
  `syn` rejects) or be killed.
* **Stale files.** The next run may have another IDL, hence other modules and
  other dependencies, and writes over what is there.
* **Overlap.** Nothing keeps two runs out of one directory.
* **Parallel tests.** The test harness runs the example tests on several threads
  and each `cargo check` covers every member of the workspace.
* **Code that is written apart and must agree.** What a head imports is found out in
  loops of its own, with flags and early exits, and the body emits what needs it. The
  conversions, the metas and the verifications of an instruction are emitted by
  different functions over the same accounts. Two decoders read the same data.
* **Data that is not what it should be.** A writer that is too small, a buffer with
  something behind the data, the data of another instruction.

What makes each part correct, in a sentence each:

* driver and output: `src/lib.rs` is written last, so a complete `lib.rs` which no
  later run has written after certifies a complete crate; an IDL that does not
  load costs nothing; exit status 0 means that the crate is there;
* IDL: the manifest has every dependency its modules name;
* instructions: accounts that are not told apart are reported, never emitted; the
  emitted conversions agree on the position and privileges of every account;
* instruction and account data: what is written whole is read back by whoever may
  read it, what is cut off by nobody, and both decoders agree on any bytes;
* heads: every name a module uses is imported, and imported once;
* tests: a test passes only if its crate is whole, and fails only over its own run or over
  a crate that was not complete when its `cargo check` began.

## 2. The modules

| module | models |
|---|---|
| `AnchorIdl` | an IDL, whether it loads, the modules it gives and the dependencies of its manifest |
| `Solores` | runs of the command and the crate directories; EXTENDS `AnchorIdl` |
| `PublishedCrate` | the abstract view: a directory has an owner and a published crate, or none |
| `SoloresInvariant` | the inductive invariant of `Solores` |
| `ExampleTests` | the tests and the workspace; EXTENDS `Solores` |
| `IxAccounts` | the accounts of one instruction, from the JSON to what the emitted interface is made of |
| `UniqueByReportDups` | the loop of `unique_by_report_dups`, for any values and keys; INSTANCEd by `IxAccounts` |
| `IxInterface` | the emitted interface of one instruction, called by a program on chain |
| `VerifiedCall` | the abstract view of `IxInterface`: accounts are positions in an array |
| `IxData` | the emitted data of instructions and accounts, written by one and read by another |
| `Borsh` | external: the layout of values of the types used in the examples |
| `ModuleHeads` | the generation of the four modules, as imports, definitions and names |
| `InterfaceNotation` | how the interfaces of the examples are written down |
| `DriftInterface`, `MarinadeInterface`, `UnstakeInterface`, `RaydiumCpSwapInterface`, `RaydiumCpmmInterface`, `IxExamples` | the interfaces of the examples |
| `MCSolores`, `MCExampleTests`, `MCIxAccounts`, `MCIxInterface`, `MCIxData`, `MCModuleHeads` | the instances for TLC |
| `SoloresProofs`, `RefinementProofs`, `ExampleTestsProofs`, `IxAccountsProofs`, `UniqueByReportDupsProofs`, `IxInterfaceProofs`, `IxDataProofs`, `ModuleHeadsProofs` | the theorems |

Definitions named `x_something` next to `x`, with a comment that starts with
"Mutant", are plausible bugs of `x`. Nothing uses them; they stand where they are
to show that the properties notice them.

### AnchorIdl

An IDL is a record of what the decisions read. `keys` and `typed` decide whether
serde accepts the file (`address` and `metadata` have no default, the four
sections are `Option`s); `sections` are the optional sections that are present,
each under the name of the module it becomes (`types` becomes `typedefs`);
`breaks` are the sections whose code generation panics. What panics is not in
this module: an empty `instructions` list or two accounts with the same name are
two ways for `instructions` to be in `breaks`. `modules` and `dependencies`
translate the functions of these names; `CratesNamed` is read off the `quote!`
blocks of the generators: `TypeCrates` for types and accounts (an account is a type with
a discriminator), `InstructionCrates` and `ErrorCrates` for the others.

### Solores

`args[r]` is the command line of run `r`, together with the IDL it names. `pc[r]`
follows `main`; `k[r]` is the position of the loop in `write_lib`; `fd[r]` is the
file the run has open. `disk[c][f]` is file `f` of crate directory `c`: the run
that opened it last and how much of that run's text it holds (`absent`, `empty`
after truncation, `torn`, `full`, or `mixed` when two runs have had it open
together, and it holds bytes of both or a hole where one truncated what the other wrote).

| action | code |
|---|---|
| `Start` | the process is started (`main`, lib.rs:133) |
| `load_idl` | lib.rs:142-144, 175-185: on, or panic |
| `create_dir_all` | lib.rs:146-159, and the test of `write_gitignore` |
| `write_gitignore`, `write_cargotoml` | the functions of these names: open, then write and flush |
| `write_module` | one turn of the loop, write_src.rs:49-59: generate (or panic), open, write and flush |
| `write_lib` | write_src.rs:61 and the return of `main` |
| `write_some` | part of what `write_all` writes has reached the file |
| `Fail` | any `unwrap` of an I/O error, or a kill |

Opening and writing a file are separate steps: another run, a kill or `cargo` can
come in between. The last byte of `lib.rs` and the exit with status 0 are one
step: a kill after the last byte, of which no file shows a trace, is not modelled.

`Overlap` is a constant. With `FALSE`, a run is started only when no live run has
the same directory, which is how the command is meant to be used. With `TRUE` there
is no such restriction.

### ExampleTests

Test `t` starts run `t` of `Solores` (`gen_example`), asserts that it succeeds and spawns
`cargo check` (`assert_success`), and takes the verdict when cargo exits (`check_example`).
`Init_tests` has the crate of every example checked in and whole, since the crates are in
the repository; every example has a directory of its own.

`cargo` is external, and takes its time: `cargo_read` reads one file of one member as it is
at that moment, and the runs of other tests go on before the next. `cargo[t]` has the files
that are still unread, whose work has been seen of each member, and the member that has been
found at fault. All manifests are read before any source file, a module after the `lib.rs`
that declares it, and no more than `Jobs` members are compiled at a time (`ReadBefore`,
`Compiling`). Texts that are whole and of one run are accepted, unless the manifest
inherits what the workspace lacks. What cargo makes of a file in pieces, or of files of two
runs, is left open: it may accept them, as rustc does an empty `lib.rs`, or report an error.
cargo's fingerprints and the lock on its build directory
are not modelled: they take readings away and add none. `before` is auxiliary: the runs that
had succeeded when cargo was spawned, which `FailureHasACulprit` refers to.

### IxAccounts and UniqueByReportDups

One behaviour is `NamedInstruction` for one instruction: `Load` (deserialization),
`Flatten` (`to_ix_accounts`), the turns of the loop in `unique_by_report_dups`, and
`Emit` (the panic over duplicates, or the `write_` functions). A name is a sequence
of words with their separators, which is what `to_snake_case` reads: `poolMint` and
`pool_mint` are two names that become one field. `emitted` has what the properties
need of the interface: the number of accounts, the fields in order, the flags of
the `AccountMeta`s, and the fields whose privileges are verified. Most emitted
functions go over the accounts in one order and are abstracted to it.

`IxAccountEntry` is an untagged enum whose first variant, `IxAccount`, asks for no more
than a name. So an entry is a group only if it does *not* read as an account: if
one of its flags is there without being a boolean (`Unreadable`). The lists of
`MCLists` have both kinds of groups, the usual one, which the code takes for an
account, and the odd one, for which the code for groups is reached.

The functions on lists (`Deserializes`, `to_ix_accounts`, the one in
`has_privileged_accounts`) go into groups in groups, to any depth. `Depth` is how deep
the groups of a list are nested. The code has no such number: it is there to say that
the recursion ends (`DepthAssumption`), since JSON text is finite. `MCDepth` computes
it for the lists of the run.

### IxInterface

This is the program that the generator writes, not the generator: the functions
emitted for one instruction, for any account list `ix` whose fields have different
names (rustc refuses others). A program unpacks the AccountInfos it was `given`
into the Accounts struct (`from_account_info_arr`), then calls
`x_verify_account_keys` and `x_verify_account_privileges`, or neither, in any
order, and at last `x_invoke` or `x_invoke_signed`. The loops of the verifications
are modelled turn by turn (`todo` has the positions a loop has not looked at), with
the early return of `Err`. Structs are functions of field names and arrays are
functions of positions, as in the emitted conversions. The caller and the runtime's
check for privilege escalation (`Runtime`) are external. The README of the
repository ("Usage") has such a caller. The keys that the accounts are compared with
come from an array too, through `from_pubkey_arr`.

`VerifiedCall` is what all this promises its user, without structs, fields and loops. A
verification looks at all positions at once and accepts, or rejects over the first that
is wrong; a call passes on what was given; the runtime refuses it exactly if a privilege
that is asked for at a position is neither held there nor given by seeds.
`ImplementsVerifiedCall` hides where a program is inside a verification (`phase`).

`Instructions` and `Situations` are constants: which account lists there are, and for
each what a program may be given and what it expects.

### IxData and Borsh

Eight bytes of discriminator and then the arguments of an instruction, or the struct
of an account, in the layout of borsh. `serialize_discm` and `serialize_args` are the
two writes of `serialize`, into a writer that takes `room` bytes (`write_all` is
external: it writes what fits and fails). `Deliver` hands the buffer to a reader with
something behind the data, or nothing. Two decoders then read it side by side:
`IxData` is `XIxData::deserialize` (or that of an account), which expects item `y`, and
`ProgramIx` is `XProgramIx::deserialize`, which has an arm for each instruction.
`read_discm` is `read_exact` with the comparison or the match after it,
`deserialize_args` what follows. An account has no second decoder.

`Encode` and `Decode` are constants, as borsh is a library. `BorshAssumption` is what
is asked of it: what is written is read back, whatever follows, and a beginning of it
is not taken for the whole. `ProgramsAssumption` says that a discriminator has eight
bytes and that no two of a module are the same; they are hashes of different names.
`Borsh` defines encoding and decoding for the types in the examples, and TLC evaluates
both assumptions with them.

### ModuleHeads

`write_lib` generates a module as `gen_head` followed by `gen_body`; `next_module` goes
to the next section that is there, in the order of `modules`. The heads of accounts and
types go over the items twice: `bytemuck_loop` looks for an item that is zero-copy, and
stops at the first; `accounts_loop` looks for a pubkey and for a defined type at once,
with a flag for each, and stops when it has both; `typedefs_loop` stops at the first
pubkey. The heads of instructions and errors decide with one expression for each import.
Text is reduced to what it `defines` and what it `names`: `type_def`, `account_def`,
`ix_def`, `ix_head` and `error_head` say this for the items, with every condition the
emitting functions ask. A field type is what it is wrapped in and the name inside, as
each wrapper has one child. `Resolvable` is what rustc would find: what the module
defines, what it imports, what needs no import, and with `use crate::*` what any module
defines.

A type is defined under `conditional_pascal_case` of its name, and a field refers to it as
the IDL spells it (typedef.rs:60 and 280): a name that begins with an uppercase letter
(`Uppercase`) stays, any other goes through heck's `to_pascal_case`, a constant.
`NamesAreImported` is about every other name: a type that is spelled otherwise where it is
defined (`Renamed`) is not found, and the property says so. What an item defines for its own use
(`XIxArgs`, `X_ACCOUNT_DISCM`) is spelled in one way wherever it is named.

### The interfaces of the examples

An instruction is written down as what all code emitted for it is determined by: its
discriminator, its accounts in order with their flags, and the types of its arguments
(`InterfaceNotation`). An account type is its discriminator and one struct. The
modules have every instruction and account type of the checked-in crates, with the
types these use. A definition has the name of the crate's function or type, so
`deposit` in `DriftInterface` stands for `DepositAccounts`, `DepositKeys`,
`DepositIxArgs`, `DepositIxData` and the functions `deposit_*`: `IxInterface` and `IxData`
say what these do. `DriftProgramIx` and the like are the instructions in the order of
the enum's match arms. The crates were generated by earlier versions of solores; what
`IxInterface` and `IxData` model is emitted by all of them.

## 3. What is checked

| run | instance | question |
|---|---|---|
| `exclusive` | 3 runs, 2 crates, 5 command lines | what a reader may conclude from the files, after any failures; refinement of `PublishedCrate`; the inductive invariant |
| `overlapping` | 2 runs, `Overlap`, fairness | what remains true when runs share a directory; no step takes a run back; every run exits with the status its IDL deserves |
| `threads` | 3 tests, 2 threads, fairness | a test that passed is right about its crate; one that fails does so over its own run or over a crate that was not complete when its cargo was spawned; all tests finish |
| `ix_accounts` | all lists of up to 3 of 17 entries, groups in groups among them | the loop keeps the first account of every name, loses none and reports duplicates, and these stop the generator; the parts of the interface agree |
| `ix_interface` | lists of up to 2 accounts, 2 addresses, all flags; all account lists of the examples | what is verified is what is called and is not refused; what is reported is right; refinement of `VerifiedCall` |
| `ix_data` | all instructions and account types of the examples | data are read back; what is cut off is refused; the decoders agree |
| `module_heads` | two items of any shape in a section; an account and a type that are renamed | heads import what the bodies need, and nothing twice |
| `no_address` (violation) | 2 runs | an IDL without `address` is refused |
| `parallel_tests` (violation) | 2 tests, 2 threads | a test fails though every run succeeds |
| `inherited_dependencies` (violation) | 2 tests, 1 thread | a regenerated crate inherits what the workspace lacks |
| `inner_accounts` (violation) | 4 lists as Anchor writes them, two of them with a group | the accounts of a group have no field in the interface |
| `copy` (violation) | one account with a field of dynamic size | a type that nobody asked to be zero-copy does not compile |

**Bounds.** The command lines of `MCInputs` are one of each kind: an IDL with every
section; one whose sections are fewer (so that modules and dependencies go
stale); one whose last section but one cannot be generated (so that the run stops
with modules written); one that does not load; one that writes to another
directory with a `.gitignore`. Three runs are what the properties tell apart: an
old crate, a run that fails over it, and one that succeeds or fails in turn. Every
step is possible at every point, `Fail` included.

The examples of `MCExamples` have IDLs that load. No example that is checked in has
one (see the first finding), so the runs of `ExampleTests` are about the suite with
examples in the present format, added as `src/examples/README.md` says. Two threads
and three tests let a test be checked while another's run writes and a third waits, and a
member be rewritten between two files that cargo reads of it. The three examples have two
modules, one, and one whose generation panics; one crate is compiled at a time (`Jobs`).

`IxAccounts`: three entries allow two duplicates next to each other, apart, in one
group, in two groups, and one inside and one outside. A group in a group is as deep as
they go, which is enough for a name to be prefixed twice.

`IxInterface`: two accounts over two addresses let an account be passed twice, with a
privilege asked for in one place only, and let an offender come before another. On the
lists of the examples, up to 20 accounts, one thing is wrong at a time: one privilege
is missing, one or two keys differ, or one account is passed for its neighbour; at
every position.

`IxData`: an argument list has three values, all least, all greatest and both in turn,
so options are there or not and numbers use each byte. A writer has no room, room for
less than a discriminator, for just that, for one byte more, for a first argument, or
for everything. What follows the data is nothing, or bytes that are no option, enum or
bool. A reader expects the right item or the next one.

`ModuleHeads`: two items let a loop stop at the first, at the second or not at all, with
either flag set first. One section varies at a time, since a head reads its own section
only; the others are there for `use crate::*`.

**Fairness.** `FairSpec` asks that each run keeps taking steps while it can: it is
one thread that never waits for anybody. Failures and partial writes are not
fair. `FairSpec_tests` asks the same of the harness's threads and of the processes
they start, solores and cargo: a test goes on, or the process it waits for does.

**Findings** (the runs that end in a violation).

1. `no_address`. The help of `--program-id` (lib.rs:27) says "program ID in IDL
   else system program ID if absent". `address` is mandatory in `AnchorIdl`, so
   `load_idl` panics; the fallback in write_src.rs:35-43 is unreachable. Every IDL the
   example tests generate from is of this kind (Anchor's older format), so on the
   repository as it is each of these tests fails at `gen_example`.
2. `parallel_tests`. `check_example` says it checks "a generated interface crate"
   (test_utils/src/lib.rs:30), but runs `cargo check` in the example's directory,
   which has no manifest of its own, and so on the whole workspace: with the
   default harness a test fails because another test's generator has a file
   half written.
3. `inherited_dependencies`. Manifests get `serde_bytes` and `serde-big-array` with
   `workspace = true`; `[workspace.dependencies]` in `src/Cargo.toml` has neither.
4. `inner_accounts`. CHANGELOG.md:155 says that inner `Accounts` structs are handled.
   A group as Anchor writes it, `{name, accounts}`, reads as an `IxAccount`: one account
   with the name of the group is emitted, and the accounts in the group have no field. The
   trace has a group `pool` with an account `mint`, of which only the field `pool` is left.
   The checked-in interface of `marinade` has a field for each, so an earlier version
   kept them.
5. `copy`. The README of the repository (line 142) says that `-z` additionally derives
   `Pod + Zeroable + Copy`. `Copy` is derived for every struct and enum (typedef.rs:66
   and 113), so an IDL with a `string` or a `vec` in a type gives a crate that does not
   compile. The types of the checked-in interfaces derive `Copy` only with `Pod`.

## 4. What is proved

Each theorem is about every value of the constants that satisfies the named
assumptions of its module. None of the properties is inductive as it stands.

`SoloresProofs` and `RefinementProofs` prove the properties of the `exclusive` run, most
of them under the hypothesis `Overlap = FALSE`, from the assumptions in `Solores`: `Unset`
is no crate name, there is at least one run, and the inputs are command lines. The
invariant `IInv` adds

* `OneWriter`: a live run is the latest run of its crate. It gives that no file
  changes under a run;
* `Provenance`: a file was left by a started run of this crate, with an IDL that
  loads;
* `OpenFile`: an open file is the one the run is at, and is incomplete;
* `WrittenSoFar`: the files a run has behind it are complete. It needs that the
  modules of an IDL are distinct (`ModulesDistinct`), or a later module would
  truncate an earlier one;
* `NoStaleParts`: no part of a crate is older than its `lib.rs`, and those as old are
  complete. When a run opens `lib.rs`, `WrittenSoFar` establishes it; when a later
  run overwrites a part, the part only gets newer.

`StepKinds` reduces `Next` to a step of one run that starts, exits, prepares, or
touches the one file it is at; each conjunct of `IInv` has a lemma per such step.
For the refinement, `Owner`, `Published` and `Done` are functions of the state; a run
takes the directory when it has created it, the crate there is withdrawn when the
first part of it is opened, and published when `lib.rs` is complete.

`ManifestCovers` follows from `NoStaleParts`: manifest and modules are of one run, and
`DependenciesCover` is about one IDL.

The second half of `SoloresProofs` is about runs that overlap or not. `IInv` is false of
runs that do, and two weaker invariants take its place. `Existence`: the file a run has
open and those behind it are there. It suffices for `LibDeclaresExisting` because no step
removes a file (`FilesStay`), and gives `TypeCorrect`. `Knowledge`: a run that has come
past `load_idl` has an IDL that loads, and the modules it has behind it, and the one it
has open, are not among those whose generation panics. Out of it come
`RejectedTouchesNothing`, the exit statuses (`StatusDeserved`), and, since it bounds `k`,
`EveryStepCounted`: `StepsLeft` is a natural number that each step of a run lowers,
unless it writes a part of a file. Two runs in one directory may write parts of a file in
turn as often as they like; it takes the fairness of `FairSpec` to see that neither is
kept from its next step, and that is what `RunsExit` adds to the theorems.

`ExampleTestsProofs` shows that `IInv` holds for the runs that the tests start over the
crates as checked in, and adds that each example has a directory of its own and that what no
run has written to is whole (`FilesInv`), that a test which goes on to `cargo check` has a
run that succeeded (`AssertedSuccess`), and what a cargo knows (`CargoKnows`): it has seen one
run's work of a member that nobody has begun to rewrite, or that was rewritten with success
before cargo was spawned, so the member it finds at fault is another, or inherits what the
workspace lacks. `RestingFile` is the heart of it: such a member does not change any more.
`PassWhole` and `FailureCulprit` follow, for any number of tests, threads and jobs and any
workspace. Both assume that the examples' IDLs load, which finding 1 is about.

`UniqueByReportDupsProofs` proves both properties of the loop for all values, keys
and iterators. The invariant adds that `hashes` has exactly the keys of the values
seen (`HashesAreSeen`); with it a value is the first with its key if and only if the
set does not have the key, which is the case split of the proof (`Duplicate`,
`First`).

`IxInterfaceProofs` proves all properties of `IxInterface`, for any account lists and
addresses. Its invariant adds what a loop has behind it (`LoopsSoFar`), what a
verification that has returned `Ok` stands for (`VerifiedIsTrue`), that each field has
the AccountInfo of its position (`Unpacked`), and that an account has one set of
flags (`OneInfo`). `EscalationHasACause` connects the runtime's check, which goes by
address, with the loops, which go by field.

`Refinement` proves that `IxInterface` implements `VerifiedCall`, for any account list. The
invariant gains that a loop runs only if its function was emitted and has not accepted
before (`CalledFor`). A turn of a loop does not show, except the one that rejects: the
loop has looked at all positions before it, so its position is the first that is wrong.
`Return` is the acceptance (`ReturnRefines`). `RuntimeRefines` is the step from addresses
to positions: where one account is passed twice, `OneInfo` says that it has the same
privileges at both.

`IxAccountsProofs` proves all properties of `IxAccounts`, for any lists of accounts and
groups in groups. The library's induction takes an operator as a parameter, which is out
of the provers' reach, so induction is stated about a set instead: `DepthInduction` says
that a set which has a list whenever it has all shallower ones has every list. It comes
from `LeastNumber`, that a set of naturals with an element has a least one. That a
recursive definition defines anything is proved the same way (`DepthRecursion`): its body
is a function from functions to functions, and two functions that agree on shallower
lists give it one value. `FlattenSteps` is about the recursion in `FlattenSeq` of the
community modules; `FlattenElements` and `FlattenType` are what the proofs use of it.
`HasPrivilegedAccounts` shows that the decision on the tree of entries agrees with the
flat list, and `PrivilegedElements` that the emitted loops cover the fields that ask for a
privilege. What the loop of `unique_by_report_dups` does is taken from
`UniqueByReportDupsProofs`, INSTANCEd.

`IxDataProofs` proves all properties of `IxData`, for any instructions with distinct
discriminators and any borsh that satisfies `BorshAssumption`. Its invariant says what
is in the buffer at each point of a write (`Written`, with `CutOff` for a writer that
gave up), that the decoders read what was left there (`Delivered`), and what a decoder
has found out about it so far (`Reading`). As both decoders' answers are functions of
the buffer (`Accepted`, `Returned`), they agree; `FullData` and `CutOffData` say which
items accept a buffer that was written in full or in part.

`ModuleHeadsProofs` proves all properties of `ModuleHeads`, for any IDL whose field types
are primitive or in its section `types`, any `-z` and any case conversion. `Target(s)` is what module `s` may refer to in the end. That no item
names more is a fact about the functions that emit (`TypeNames`, `IxNames`, `HeadNames`,
`BodyNames`); that everything in `Target(s)` will be there is the invariant: a loop that
is left has imported all that its items ask for, and a flag that is not set means that
no item passed so far asks for it (`ImportsInv`), and a body has defined what its items
define (`DefinesInv`).

**Only model-checked:** `RunsExit` and `TestsFinish`, as liveness is out of the prover's
reach; the status of an exit and the countdown to it are proved. That the definitions in
`Borsh` satisfy `BorshAssumption` is evaluated for the values of the run `ix_data`: they
are recursive operators, about which the prover says nothing.

## 5. What is not modelled

* The text of the files: formatting (`prettyplease`, TOML values) and wording; docs,
  `repr` and serde attributes of the emitted types.
* `events`: unreachable from the command. `is_correct_idl_format`: never called.
* `test_consumer` and the consumers of the examples: never called by the tests, and
  in need of a Solana validator. `IxInterface` has a caller of their kind.
* The error and event enums of the example crates: lists of names.
* The choice of the program id (`--program-id` if it is a public key, else `address`): it
  is text of `lib.rs` that nothing else in the crate depends on.

Where code and documents, or two parts of the code, differ without a run about it:

* `bytemuck` is a dependency of every manifest; the README of the repository asks for it
  with `-z` only. That README and the CHANGELOG speak of event structs, which are not
  generated.
* A type is defined under `conditional_pascal_case` of its name, and referred to by its
  name as it is (typedef.rs:280), so a type called `swapResult` is not found (`Renamed` in
  `ModuleHeads`). CHANGELOG.md:24 has the definitions converted and CHANGELOG.md:161 the
  references left alone; neither says what becomes of such a type. The discriminator of an
  account is the hash of its name after `to_pascal_case`, which is another function.
* A type that `-z` names and that the IDL calls `bytemuckunsafe` gets two `Pod`
  implementations, which rustc refuses (E0119).
* An instruction whose entries flatten to no account (instruction.rs:612) is emitted with
  lifetimes that it does not use, which rustc refuses (E0392).
* `typedefs` never imports `crate::*`: a type with a field of an account's type is not
  found. `NamesAreImported` is about IDLs whose named types are in `types`.
* The primitive `bytes` becomes a type `bytes`, which does not exist, unless solores is
  built with the feature `bytes_to_u8`, which makes it a `u8`.

## 6. Plan

1. (done) `AnchorIdl`, `Solores`, `PublishedCrate`, `ExampleTests`, and their proofs.
2. (done) `IxAccounts`, `UniqueByReportDups`, and the proof of the loop's invariant.
3. (done) `IxInterface` and its proofs.
4. (done) `IxData`, `Borsh`, and the proofs for any borsh.
5. (done) `ModuleHeads` and its proofs.
6. (done) The interfaces of the examples, as instances of `IxInterface` and `IxData`.
7. (done) Proofs of `ManifestCoversModules`, of the overlapping case, and of what the
   verdicts of the tests mean.
8. (done) Proofs about `IxAccounts` for lists of any depth; `VerifiedCall` and its
   refinement; exit statuses and the countdown of overlapping runs.
9. (left) The program id; the error enums of the examples; a proof that borsh, written
   with recursive functions, satisfies `BorshAssumption`.

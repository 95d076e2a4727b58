------------------------------- MODULE Solores -------------------------------
(***************************************************************************)
(* Runs of the solores command and the crate directories they write.       *)
(*                                                                         *)
(* A run loads its IDL, creates the directory of its crate and overwrites  *)
(* the files in it one at a time: .gitignore (if asked for), Cargo.toml,   *)
(* one file per module, and src/lib.rs last.  Nothing is written aside and *)
(* renamed, nothing that an earlier run left is removed, and no lock keeps *)
(* two runs off the same directory.  A run may stop between any two steps: *)
(* it panics on an I/O error or on an IDL it cannot handle, or is killed.  *)
(*                                                                         *)
(* What a file holds is abstracted to the run that opened it last and how  *)
(* far the file has been written:                                          *)
(*   absent  it does not exist;         empty  opened (and so truncated);  *)
(*   torn    a proper prefix;           full   the whole text of the run;  *)
(*   mixed   what comes of two runs that have the file open at once: bytes *)
(*           of both, or a hole where one truncated what the other wrote.  *)
(*                                                                         *)
(* Runs are numbered in the order they start.                              *)
(***************************************************************************)
EXTENDS AnchorIdl

CONSTANTS
  MaxRuns,   \* bound: how many runs are started
  Unset,     \* no --output-crate-name on the command line
  Inputs,    \* the command lines (with the IDL they name) a run may be given
  Overlap    \* whether a run may start while another one has its crate

Runs == 1 .. MaxRuns

Args == [idl               : Idl,
         output_crate_name : Crates \cup {Unset},
         write_gitignore   : BOOLEAN]

ASSUME UnsetAssumption == Unset \notin Crates

ASSUME RunsAssumption == MaxRuns \in Nat \ {0}

ASSUME InputsAssumption == Inputs \subseteq Args /\ Overlap \in BOOLEAN

Files == ModuleName \cup {".gitignore", "Cargo.toml", "lib"}

NoFile == "-"

VARIABLES
  args,   \* the command line of each run
  pc,     \* where each run is
  k,      \* the position of write_lib in modules(idl)
  fd,     \* the file each run has open
  dirs,   \* the crate directories that exist
  disk    \* the files in them

vars == <<args, pc, k, fd, dirs, disk>>

(* Exit statuses: 0; a panic over the IDL; an I/O error or a kill. *)
Exited == {"ok", "panicked", "failed"}

PC == {"unborn", "load", "mkdir", "gitignore", "cargo", "modules"} \cup Exited

State == {"absent", "empty", "torn", "full", "mixed"}

(* A file of the crate, as the run `by` left it (0: no run so far). *)
Version == [by : 0 .. MaxRuns, state : State]

idl(r) == args[r].idl

(* The crate directory of a run: "<program name>_interface" by default. *)
Crate(r) ==
  IF args[r].output_crate_name = Unset
    THEN idl(r).crate ELSE args[r].output_crate_name

file(r, f) == disk[Crate(r)][f]

Live(r) == pc[r] \notin Exited \cup {"unborn"}

(* Mutant: the loop over the modules starts one too early. *)
Init_zero ==
  /\ args \in [Runs -> Inputs]
  /\ pc = [r \in Runs |-> "unborn"]
  /\ k = [r \in Runs |-> 0]
  /\ fd = [r \in Runs |-> NoFile]
  /\ dirs = {}
  /\ disk = [c \in Crates |-> [f \in Files |-> [by |-> 0, state |-> "absent"]]]

Init ==
  /\ args \in [Runs -> Inputs]
  /\ pc = [r \in Runs |-> "unborn"]
  /\ k = [r \in Runs |-> 1]
  /\ fd = [r \in Runs |-> NoFile]
  /\ dirs = {}
  /\ disk = [c \in Crates |-> [f \in Files |-> [by |-> 0, state |-> "absent"]]]

-----------------------------------------------------------------------------
(* Files *)

Put(r, f, s) ==
  disk' = [disk EXCEPT ![Crate(r)][f] = [by |-> r, state |-> s]]

(* Mutant: the file is not truncated when it is opened. *)
open_file_in_place(r, f) ==
  /\ fd[r] = NoFile
  /\ Crate(r) \in dirs
  /\ fd' = [fd EXCEPT ![r] = f]
  /\ Put(r, f, IF file(r, f).state = "absent" THEN "empty" ELSE "mixed")

(* open_file_create_overwrite: created if need be, truncated at once. *)
open_file_create_overwrite(r, f) ==
  /\ fd[r] = NoFile
  /\ Crate(r) \in dirs
  /\ fd' = [fd EXCEPT ![r] = f]
  /\ Put(r, f, "empty")

(* Nobody has truncated or written the file since r opened it. *)
Undisturbed(r) == /\ file(r, fd[r]).by = r
                  /\ file(r, fd[r]).state \in {"empty", "torn"}

(* A part of the text has reached the file, the rest has not. *)
write_some(r) ==
  /\ fd[r] # NoFile
  /\ file(r, fd[r]).by = r => file(r, fd[r]).state = "empty"
  /\ Put(r, fd[r], IF Undisturbed(r) THEN "torn" ELSE "mixed")
  /\ UNCHANGED <<args, pc, k, fd, dirs>>

(* write_all and flush have returned: in a file that another run has had   *)
(* its hands on, the text may have a hole or a foreign end.                *)
write_all(r, f) ==
  /\ fd[r] = f
  /\ \/ Put(r, f, "full")
     \/ /\ ~ Undisturbed(r)
        /\ Put(r, f, "mixed")
  /\ fd' = [fd EXCEPT ![r] = NoFile]

-----------------------------------------------------------------------------
(* The steps of main *)

(* The command is started. *)
Start(r) ==
  /\ pc[r] = "unborn"
  /\ \A q \in Runs : q < r => pc[q] # "unborn"
  /\ Overlap \/ \A q \in Runs : Live(q) => Crate(q) # Crate(r)
  /\ pc' = [pc EXCEPT ![r] = "load"]
  /\ UNCHANGED <<args, k, fd, dirs, disk>>

(* Mutant: the directory is made whatever load_idl says. *)
load_idl_late(r) ==
  /\ pc[r] = "load"
  /\ pc' = [pc EXCEPT ![r] = "mkdir"]
  /\ UNCHANGED <<args, k, fd, dirs, disk>>

(* load_idl returns or panics. *)
load_idl(r) ==
  /\ pc[r] = "load"
  /\ pc' = [pc EXCEPT ![r] = IF Loads(idl(r)) THEN "mkdir" ELSE "panicked"]
  /\ UNCHANGED <<args, k, fd, dirs, disk>>

create_dir_all(r) ==
  /\ pc[r] = "mkdir"
  /\ dirs' = dirs \cup {Crate(r)}
  /\ pc' = [pc EXCEPT ![r] = IF args[r].write_gitignore
                                THEN "gitignore" ELSE "cargo"]
  /\ UNCHANGED <<args, k, fd, disk>>

write_gitignore(r) ==
  /\ pc[r] = "gitignore"
  /\ \/ /\ open_file_create_overwrite(r, ".gitignore")
        /\ UNCHANGED pc
     \/ /\ write_all(r, ".gitignore")
        /\ pc' = [pc EXCEPT ![r] = "cargo"]
  /\ UNCHANGED <<args, k, dirs>>

(* Mutant: a manifest that is there already is kept. *)
write_cargotoml_once(r) ==
  /\ pc[r] = "cargo"
  /\ \/ /\ file(r, "Cargo.toml").state # "full"
        /\ open_file_create_overwrite(r, "Cargo.toml")
        /\ UNCHANGED pc
     \/ /\ write_all(r, "Cargo.toml")
        /\ pc' = [pc EXCEPT ![r] = "modules"]
     \/ /\ file(r, "Cargo.toml").state = "full"
        /\ pc' = [pc EXCEPT ![r] = "modules"]
        /\ UNCHANGED <<fd, disk>>
  /\ UNCHANGED <<args, k, dirs>>

write_cargotoml(r) ==
  /\ pc[r] = "cargo"
  /\ \/ /\ open_file_create_overwrite(r, "Cargo.toml")
        /\ UNCHANGED pc
     \/ /\ write_all(r, "Cargo.toml")
        /\ pc' = [pc EXCEPT ![r] = "modules"]
  /\ UNCHANGED <<args, k, dirs>>

(* Mutant: a module that cannot be generated is skipped. *)
write_module_skip(r) ==
  /\ pc[r] = "modules"
  /\ k[r] <= Len(modules(idl(r)))
  /\ LET m == modules(idl(r))[k[r]] IN
       \/ /\ fd[r] = NoFile
          /\ m \in idl(r).breaks
          /\ k' = [k EXCEPT ![r] = @ + 1]
          /\ UNCHANGED <<pc, fd, disk>>
       \/ /\ m \notin idl(r).breaks
          /\ open_file_create_overwrite(r, m)
          /\ UNCHANGED <<pc, k>>
       \/ /\ write_all(r, m)
          /\ k' = [k EXCEPT ![r] = @ + 1]
          /\ UNCHANGED pc
  /\ UNCHANGED <<args, dirs>>

(* Mutant: the loop does not get past its first module. *)
write_module_again(r) ==
  /\ pc[r] = "modules"
  /\ k[r] <= Len(modules(idl(r)))
  /\ LET m == modules(idl(r))[k[r]] IN
       open_file_create_overwrite(r, m) \/ write_all(r, m)
  /\ UNCHANGED <<args, pc, k, dirs>>

(* write_lib, one turn of its loop: the code of the module is generated    *)
(* and parsed (or the run panics) before the file is opened.               *)
write_module(r) ==
  /\ pc[r] = "modules"
  /\ k[r] <= Len(modules(idl(r)))
  /\ LET m == modules(idl(r))[k[r]] IN
       \/ /\ fd[r] = NoFile
          /\ m \in idl(r).breaks
          /\ pc' = [pc EXCEPT ![r] = "panicked"]
          /\ UNCHANGED <<k, fd, disk>>
       \/ /\ m \notin idl(r).breaks
          /\ open_file_create_overwrite(r, m)
          /\ UNCHANGED <<pc, k>>
       \/ /\ write_all(r, m)
          /\ k' = [k EXCEPT ![r] = @ + 1]
          /\ UNCHANGED pc
  /\ UNCHANGED <<args, dirs>>

(* Mutant: lib.rs does not wait for the modules. *)
write_lib_early(r) ==
  /\ pc[r] = "modules"
  /\ \/ /\ open_file_create_overwrite(r, "lib")
        /\ UNCHANGED pc
     \/ /\ write_all(r, "lib")
        /\ pc' = [pc EXCEPT ![r] = "ok"]
  /\ UNCHANGED <<args, k, dirs>>

(* write_lib after its loop: src/lib.rs, and main returns. *)
write_lib(r) ==
  /\ pc[r] = "modules"
  /\ k[r] > Len(modules(idl(r)))
  /\ \/ /\ open_file_create_overwrite(r, "lib")
        /\ UNCHANGED pc
     \/ /\ write_all(r, "lib")
        /\ pc' = [pc EXCEPT ![r] = "ok"]
  /\ UNCHANGED <<args, k, dirs>>

(* An I/O error the code unwraps, or the process is killed.  What has      *)
(* reached an open file stays there.                                       *)
Fail(r) ==
  /\ Live(r)
  /\ pc' = [pc EXCEPT ![r] = "failed"]
  /\ fd' = [fd EXCEPT ![r] = NoFile]
  /\ UNCHANGED <<args, k, dirs, disk>>

Progress(r) ==
  \/ load_idl(r) \/ create_dir_all(r) \/ write_gitignore(r)
  \/ write_cargotoml(r) \/ write_module(r) \/ write_lib(r)

(* Every run has exited: nothing is left to do. *)
Terminated ==
  /\ \A r \in Runs : pc[r] \in Exited
  /\ UNCHANGED vars

Next ==
  \/ \E r \in Runs : Start(r) \/ Progress(r) \/ write_some(r) \/ Fail(r)
  \/ Terminated

Spec == Init /\ [][Next]_vars

(* The operating system runs a process that is ready to run. *)
FairSpec == Spec /\ \A r \in Runs : WF_vars(Progress(r))

-----------------------------------------------------------------------------
(* What a crate directory holds *)

(* The files cargo compiles a crate of run r from. *)
Parts(r) == {"Cargo.toml", "lib"} \cup Declared(idl(r))

(* The run that wrote the lib.rs of crate c. *)
LibOf(c) == disk[c]["lib"].by

(* Crate c is exactly what run r generated, old files it does not declare  *)
(* apart.                                                                  *)
Whole(c, r) ==
  \A f \in Parts(r) : disk[c][f] = [by |-> r, state |-> "full"]

TypeOK ==
  /\ args \in [Runs -> Inputs]
  /\ pc \in [Runs -> PC]
  /\ k \in [Runs -> Nat \ {0}]
  /\ fd \in [Runs -> Files \cup {NoFile}]
  /\ dirs \in SUBSET Crates
  /\ disk \in [Crates -> [Files -> Version]]

-----------------------------------------------------------------------------
(* The abstract view of the crate directories: see PublishedCrate *)

(* A run has the directory from the moment it has created it. *)
Writing(r) == pc[r] \in {"gitignore", "cargo", "modules"}

Writers(c) == {r \in Runs : Writing(r) /\ Crate(r) = c}

Owner == [c \in Crates |-> IF Writers(c) = {} THEN 0 ELSE CHOOSE r \in Writers(c) : TRUE]

IsPublished(c) == LibOf(c) # 0 /\ Whole(c, LibOf(c))

Published == [c \in Crates |-> IF IsPublished(c) THEN LibOf(c) ELSE 0]

Done == [c \in Crates |-> {r \in Runs : pc[r] = "ok" /\ Crate(r) = c}]

Abstract == INSTANCE PublishedCrate
              WITH owner <- Owner, published <- Published, done <- Done

-----------------------------------------------------------------------------
(* Properties *)

(* lib.rs is written last and nothing is ever removed: a lib.rs never      *)
(* declares a module that does not exist, even when failed runs, runs with *)
(* other IDLs and runs at the same time have written to the directory.     *)
LibDeclaresExistingModules ==
  \A c \in Crates :
    LibOf(c) # 0 => \A f \in Parts(LibOf(c)) : disk[c][f].state # "absent"

(* One run at a time, no part of the crate is older than its lib.rs, and   *)
(* the parts that are as old are complete: what lib.rs declares was never  *)
(* left behind by an earlier run.                                          *)
LibIsNeverNewest ==
  \A c \in Crates :
    LibOf(c) # 0 =>
      \A f \in Parts(LibOf(c)) :
        /\ disk[c][f].by >= LibOf(c)
        /\ disk[c][f].by = LibOf(c) /\ f # "lib" => disk[c][f].state = "full"

(* A whole lib.rs whose run nobody has written after certifies the crate:  *)
(* every part is the complete text of the same run.                        *)
UntouchedCrateIsWhole ==
  \A c \in Crates :
    LET l == LibOf(c) IN
      /\ l # 0
      /\ disk[c]["lib"].state = "full"
      /\ \A f \in Parts(l) : disk[c][f].by <= l
      => Whole(c, l)

(* Exit status 0 means the crate is there: unless a later run has started  *)
(* to overwrite it, it is whole when a run has exited with success.        *)
SuccessMeansWhole ==
  \A r \in Runs :
    /\ pc[r] = "ok"
    /\ \A f \in Parts(r) : file(r, f).by <= r
    => Whole(Crate(r), r)

(* The manifest on disk, whichever run left it, has every dependency that  *)
(* the modules of such a crate name: an IDL that gains or loses its errors *)
(* cannot leave them behind a manifest without thiserror.                  *)
ManifestCoversModules ==
  \A c \in Crates :
    /\ LibOf(c) # 0
    /\ \A f \in Parts(LibOf(c)) : disk[c][f].by <= LibOf(c)
    => \A m \in Declared(idl(LibOf(c))) :
         CratesNamed(m) \subseteq dependencies(idl(disk[c]["Cargo.toml"].by))

(* An IDL that does not load never costs the user the crate that is there: *)
(* no file and no directory is the work of a run that was given one.       *)
RejectedIdlTouchesNothing ==
  /\ \A c \in Crates : \A f \in Files :
       disk[c][f].by # 0 => Loads(idl(disk[c][f].by))
  /\ \A c \in dirs : \E r \in Runs : Crate(r) = c /\ Loads(idl(r))

(* A run writes in its own crate directory and only before it has exited;  *)
(* lib.rs is touched only once its manifest and modules are complete.      *)
LibIsWrittenLast ==
  [][\A r \in Runs :
       disk'[Crate(r)]["lib"].by = r /\ disk[Crate(r)]["lib"] # disk'[Crate(r)]["lib"]
         => \A f \in Parts(r) \ {"lib"} : file(r, f) = [by |-> r, state |-> "full"]]_vars

(* The file-by-file rewriting implements the abstract view: the old crate  *)
(* is withdrawn by the first file opened, no failure leaves half a crate   *)
(* that passes for a whole one, and the new crate appears with the last    *)
(* byte of lib.rs and never before.                                        *)
ImplementsPublishedCrate == Abstract!Spec

(* An exit status tells what the IDL is, whoever else is writing to the    *)
(* directory: success means that it loads and that every section it has    *)
(* could be generated, a panic over the IDL that one of the two is not so. *)
StatusIsDeserved ==
  \A r \in Runs :
    /\ pc[r] = "ok" => Generates(idl(r))
    /\ pc[r] = "panicked" => ~ Generates(idl(r))

(* What a run has before it, an opened file counting for half a step.  All *)
(* files of the loop of write_lib and lib.rs itself count, opened or not.  *)
StepsLeft(r) ==
  LET n == Len(modules(idl(r)))
      ahead == CASE pc[r] = "unborn"    -> n + 6
                 [] pc[r] = "load"      -> n + 5
                 [] pc[r] = "mkdir"     -> n + 4
                 [] pc[r] = "gitignore" -> n + 3
                 [] pc[r] = "cargo"     -> n + 2
                 [] pc[r] = "modules"   -> n + 2 - k[r]
                 [] OTHER               -> 0
  IN 2 * ahead - (IF fd[r] = NoFile THEN 0 ELSE 1)

(* A run never goes back, retries or waits for another: whatever the runs  *)
(* beside it do to its files, each of its own steps but the writing of a   *)
(* part of a file takes it nearer to its exit.  (RunsExit rests on this    *)
(* and on nothing else but that the run is scheduled.)                     *)
EveryStepCounts ==
  [][\A r \in Runs :
       \/ UNCHANGED <<pc[r], k[r], fd[r]>>
       \/ 0 <= StepsLeft(r)' /\ StepsLeft(r)' < StepsLeft(r)]_vars

(* A run that is started exits, with the status its IDL deserves unless an *)
(* error stops it: success when the IDL loads and code can be generated    *)
(* for every section it has, a panic otherwise.                            *)
RunsExit ==
  \A r \in Runs :
    pc[r] = "load" ~> pc[r] \in {"failed", IF Generates(idl(r)) THEN "ok" ELSE "panicked"}
=============================================================================

---------------------------- MODULE MCExampleTests ----------------------------
(***************************************************************************)
(* ExampleTests for TLC: three examples whose IDLs load, one of them with  *)
(* errors and one whose instructions cannot be generated, and the          *)
(* dependencies the workspace has and would need.  (The                    *)
(* IDLs that are checked in and generated from do not load: they lack      *)
(* "address" and "metadata".)                                              *)
(***************************************************************************)
EXTENDS ExampleTests

Example(c, present, broken) ==
  [idl |-> [keys |-> MandatoryKey, typed |-> TRUE, crate |-> c,
            sections |-> present, breaks |-> broken],
   output_crate_name |-> Unset,
   write_gitignore |-> FALSE]

MCExamples ==
  {Example("unstake", {"instructions", "errors"}, {}),
   Example("blank", {"instructions"}, {"instructions"}),
   Example("marinade", {"instructions"}, {})}

(* [workspace.dependencies] of Cargo.toml, the crates of interest. *)
MCWorkspace ==
  {"borsh", "bytemuck", "num-derive", "num-traits", "serde", "solana-program", "thiserror"}

MCRepairedWorkspace == MCWorkspace \cup {"serde_bytes", "serde-big-array"}
=============================================================================

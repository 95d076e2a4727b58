------------------------------ MODULE MCSolores ------------------------------
(***************************************************************************)
(* Solores for TLC: the command lines its runs choose from.                *)
(***************************************************************************)
EXTENDS SoloresInvariant

Everything ==
  [keys |-> MandatoryKey, typed |-> TRUE, crate |-> "a", sections |-> ModuleName,
   breaks |-> {}]

(* The section `errors` went away, and with it three dependencies. *)
NoErrors == [Everything EXCEPT !.sections = {"typedefs", "instructions"}]

(* Two accounts of an instruction have the same name. *)
Duplicate == [Everything EXCEPT !.breaks = {"instructions"}]

(* No top-level "address". *)
OldIdl == [Everything EXCEPT !.keys = {"metadata"}]

Command(i) == [idl |-> i, output_crate_name |-> Unset, write_gitignore |-> FALSE]

Elsewhere == [Command(NoErrors) EXCEPT !.output_crate_name = "b",
                                       !.write_gitignore = TRUE]

MCInputs ==
  {Command(Everything), Command(NoErrors), Command(Duplicate), Command(OldIdl), Elsewhere}

-----------------------------------------------------------------------------

(* lib.rs:27, the help of --program-id: "program ID in IDL else system     *)
(* program ID if absent".  An IDL that only lacks its address generates.   *)
AddressMayBeAbsent ==
  \A r \in Runs :
    /\ "metadata" \in idl(r).keys /\ idl(r).typed
    /\ idl(r).breaks \cap Declared(idl(r)) = {}
    => pc[r] # "panicked"
=============================================================================

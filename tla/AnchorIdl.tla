------------------------------ MODULE AnchorIdl ------------------------------
(***************************************************************************)
(* The IDL a run of solores is given, and what the generator derives from  *)
(* it before any file is written: whether it loads at all, the modules of  *)
(* the generated crate in the order they are written, and the dependencies *)
(* of its manifest.                                                        *)
(*                                                                         *)
(* An IDL is reduced to what these decisions read:                         *)
(*   keys     which of the two mandatory top-level keys it has ("metadata" *)
(*            stands for the object with all four of its fields);          *)
(*   typed    whether every entry of its sections has the fields that the  *)
(*            struct it deserializes into requires;                        *)
(*   crate    the crate name "<program name>_interface" it stands for;     *)
(*   sections the optional sections that are present, each named after the *)
(*            module generated from it;                                    *)
(*   breaks   the sections whose code generation panics (accounts of one   *)
(*            instruction with the same name, token streams syn rejects).  *)
(***************************************************************************)
EXTENDS Naturals, Sequences

CONSTANT Crates  \* the names of generated crates

(* The files src/<module>.rs the generator knows of. *)
ModuleName == {"accounts", "typedefs", "instructions", "errors"}

(* The keys AnchorIdl deserializes without a default. *)
MandatoryKey == {"address", "metadata"}

Idl == [keys     : SUBSET MandatoryKey,
        typed    : BOOLEAN,
        crate    : Crates,
        sections : SUBSET ModuleName,
        breaks   : SUBSET ModuleName]

(* serde accepts the file as an AnchorIdl; load_idl panics otherwise. *)
Loads(idl) == idl.keys = MandatoryKey /\ idl.typed

SectionModule(idl, s) == IF s \in idl.sections THEN <<s>> ELSE <<>>

(* IdlFormat::modules: a present section, even an empty one, is a module. *)
modules(idl) ==
  SectionModule(idl, "accounts")
    \o (SectionModule(idl, "typedefs")
          \o (SectionModule(idl, "instructions") \o SectionModule(idl, "errors")))

(* The modules src/lib.rs declares with `pub mod`. *)
Declared(idl) == {modules(idl)[j] : j \in 1 .. Len(modules(idl))}

(* The generator gets through the IDL. *)
Generates(idl) == Loads(idl) /\ idl.breaks \cap Declared(idl) = {}

(* Mutant: the errors of the IDL bring in no dependency. *)
dependencies_noErrors(idl) ==
  {"borsh", "bytemuck", "solana-program", "serde", "serde_bytes", "serde-big-array"}

(* IdlFormat::dependencies: the keys of [dependencies] in Cargo.toml. *)
dependencies(idl) ==
  {"borsh", "bytemuck", "solana-program", "serde", "serde_bytes", "serde-big-array"}
    \cup (IF "errors" \in idl.sections
            THEN {"thiserror", "num-derive", "num-traits"} ELSE {})

(* The crates that the `quote!` blocks of the generators name; the derive  *)
(* of num_derive expands to paths into num_traits.  An account is emitted  *)
(* as a type with its discriminator.                                       *)
TypeCrates == {"borsh", "bytemuck", "solana-program", "serde", "serde-big-array"}

InstructionCrates == {"borsh", "solana-program", "serde"}

ErrorCrates == {"solana-program", "thiserror", "num-derive", "num-traits"}

(* The crates the generated text of a module may name. *)
CratesNamed(m) ==
  CASE m \in {"accounts", "typedefs"} -> TypeCrates
    [] m = "instructions" -> InstructionCrates
    [] m = "errors" -> ErrorCrates
=============================================================================

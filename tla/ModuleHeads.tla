----------------------------- MODULE ModuleHeads -----------------------------
(***************************************************************************)
(* The modules of the generated crate as Rust text: what each imports at   *)
(* its head, and what the items of its body define and name.               *)
(*                                                                         *)
(* write_lib generates one module after the other, each as gen_head        *)
(* followed by gen_body.  The two know nothing of each other: a head goes  *)
(* over the items of the IDL in loops of its own, with flags and breaks,   *)
(* to find out what to import, and the body emits the items one by one.    *)
(*                                                                         *)
(* A field type of the IDL is what it is wrapped in, outermost first, and  *)
(* the name inside, which is a primitive type or a defined one: every      *)
(* constructor of TypedefFieldType has one child.  Text is reduced to the  *)
(* names in it.  A type is defined by a name that may not be the one the   *)
(* IDL spells; what an item defines for its own use only is spelled the    *)
(* same way wherever it is named, and stands by the name of the item.      *)
(***************************************************************************)
EXTENDS Integers, Sequences

CONSTANTS
  Idls,              \* the sections that are there, each with its items
  ZeroCopies,        \* what may be named with -z, a set of names each
  Uppercase,         \* the names that begin with an uppercase letter
  to_pascal_case(_)  \* heck's conversion of any other name

Elements(s) == {s[j] : j \in DOMAIN s}

(* Names that need no import. *)
Prelude ==
  {"u8", "u64", "i64", "bool", "String", "Vec", "Option", "Clone", "Copy", "Debug", "PartialEq"}

Borsh == {"BorshDeserialize", "BorshSerialize"}

Bytemuck == {"Pod", "Zeroable"}

(* All that the heads may import. *)
Importable ==
  Borsh \cup Bytemuck
    \cup {"Pubkey", "crate::*", "Instruction", "invoke", "invoke_signed", "AccountInfo",
          "AccountMeta", "ProgramResult", "ProgramError", "Read", "Error"}

(* The order in which IdlFormat::modules pushes the sections that are there. *)
Order == <<"accounts", "typedefs", "instructions", "errors">>

-----------------------------------------------------------------------------
(* What an IDL may be.  A name that is not defined in the IDL is that of a *)
(* primitive type or the public key, and Anchor puts what it defines for   *)
(* others to use in the section "types".                                   *)

FieldType == [name : STRING, defined : BOOLEAN, in : SUBSET {"array", "option", "vec"}]

NamedType == [name          : STRING,
              kind          : {"struct", "enum"},
              variants      : Seq(Seq(FieldType)),
              serialization : {"none", "bytemuck", "bytemuckunsafe"}]

NamedInstruction == [name : STRING, args : Seq(FieldType), accounts : {"none", "plain", "privileged"}]

-----------------------------------------------------------------------------
(* What the items of the IDL emit *)

primitive_or_pubkey_to_token(s) ==
  CASE s \in {"pubkey", "publicKey"} -> "Pubkey"
    [] s = "string" -> "String"
    [] s \notin {"pubkey", "publicKey", "string"} -> s

is_or_has_pubkey(ty) == ~ ty.defined /\ primitive_or_pubkey_to_token(ty.name) = "Pubkey"

is_or_has_defined(ty) == ty.defined

(* An array is written with brackets, the others with their names. *)
type_to_tokens(ty) ==
  (IF "vec" \in ty.in THEN {"Vec"} ELSE {})
    \cup (IF "option" \in ty.in THEN {"Option"} ELSE {})
    \cup {IF ty.defined THEN ty.name ELSE primitive_or_pubkey_to_token(ty.name)}

(* The field types of a struct, which has one list of them, or of all      *)
(* variants of an enum.                                                    *)
FieldTypes(t) == UNION {Elements(fields) : fields \in Elements(t.variants)}

has_pubkey_field(t) == \E ty \in FieldTypes(t) : is_or_has_pubkey(ty)

has_defined_field(t) == \E ty \in FieldTypes(t) : is_or_has_defined(ty)

use_zero_copy(t, z) == t.name \in z \/ t.serialization = "bytemuck"

use_unsafe_bytemuck(t) == t.serialization = "bytemuckunsafe"

(* rust enums cannot impl Pod *)
derives(t, z) ==
  {"Clone", "Copy", "Debug", "PartialEq"} \cup Borsh
    \cup (IF t.kind = "struct" /\ use_zero_copy(t, z) THEN Bytemuck ELSE {})

unsafe_impls(t) == IF t.kind = "struct" /\ use_unsafe_bytemuck(t) THEN Bytemuck ELSE {}

(* I80F48 is to stay as it is. *)
conditional_pascal_case(s) == IF s \in Uppercase THEN s ELSE to_pascal_case(s)

type_def(t, z) ==
  [defines |-> {conditional_pascal_case(t.name)},
   names   |-> derives(t, z) \cup unsafe_impls(t)
                 \cup UNION {type_to_tokens(ty) : ty \in FieldTypes(t)}]

(* The type, and XAccount with the discriminator. *)
account_def(t, z) ==
  LET struct == conditional_pascal_case(t.name)
      discm == t.name \o "_ACCOUNT_DISCM"
  IN  [defines |-> {struct, discm, struct \o "Account"},
       names   |-> type_def(t, z).names \cup {discm, struct}]

has_ix_args(ix) == ix.args # <<>>

has_accounts(ix) == ix.accounts # "none"

has_privileged_accounts(ix) == ix.accounts = "privileged"

args_has_defined_type(ix) == \E ty \in Elements(ix.args) : is_or_has_defined(ty)

(* What the twenty functions called by to_tokens emit, each of which asks  *)
(* again whether there are arguments, accounts and privileges.             *)
ix_def(ix) ==
  LET withArgs == {ix.name \o "IxArgs"}
      withAccounts == {ix.name \o "Accounts", ix.name \o "Keys", ix.name \o "_IX_ACCOUNTS_LEN"}
      always == {ix.name \o "_IX_DISCM", ix.name \o "IxData"}
      defines == always \cup (IF has_ix_args(ix) THEN withArgs ELSE {})
                   \cup (IF has_accounts(ix) THEN withAccounts ELSE {})
  IN  [defines |-> defines,
       names   |-> defines \cup {"Pubkey", "Instruction", "ProgramResult", "Read"}
         \cup (IF has_ix_args(ix)
                 THEN Borsh \cup UNION {type_to_tokens(ty) : ty \in Elements(ix.args)} ELSE {})
         \cup (IF has_accounts(ix)
                 THEN {"AccountInfo", "AccountMeta", "invoke_instruction", "invoke_instruction_signed"}
                 ELSE {"invoke", "invoke_signed"})
         \cup (IF has_privileged_accounts(ix) THEN {"ProgramError"} ELSE {})]

(* gen_head of instructions: the imports, and XProgramIx with the          *)
(* discriminators and arguments of all instructions, followed by helpers   *)
(* if there are accounts.                                                  *)
ix_imports(ixs) ==
  LET withAccounts == \E ix \in ixs : has_accounts(ix) IN
    (IF \E ix \in ixs : has_ix_args(ix) THEN <<Borsh>> ELSE <<>>)
      \o (<<{"ProgramResult", "Instruction", "invoke", "invoke_signed", "Pubkey"}
              \cup (IF withAccounts THEN {"AccountInfo", "AccountMeta"} ELSE {})>>
      \o ((IF \E ix \in ixs : has_privileged_accounts(ix) THEN <<{"ProgramError"}>> ELSE <<>>)
      \o (<<{"Read"}>>
      \o (IF \E ix \in ixs : args_has_defined_type(ix) THEN <<{"crate::*"}>> ELSE <<>>))))

ix_head(ixs) ==
  LET withAccounts == \E ix \in ixs : has_accounts(ix) IN
    [defines |-> {"ProgramIx"}
       \cup (IF withAccounts THEN {"invoke_instruction", "invoke_instruction_signed"} ELSE {}),
     names |-> {ix.name \o "_IX_DISCM" : ix \in ixs}
       \cup {ix.name \o "IxArgs" : ix \in {x \in ixs : has_ix_args(x)}}
       \cup (IF withAccounts
               THEN {"AccountInfo", "Instruction", "ProgramResult", "invoke", "invoke_signed"} ELSE {})]

(* The head of errors, and the part of its body that is there in any case; *)
(* the variants of XError are plain names.                                 *)
error_imports == <<{"ProgramError"}, {"Error"}>>

error_head ==
  [defines |-> {"XError"},
   names   |-> {"Clone", "Copy", "Debug", "Error", "PartialEq", "ProgramError", "XError"}]

error_def(e) == [defines |-> {}, names |-> {}]

(* A field type names something that is in the IDL. *)
Known(d, ty) ==
  IF ty.defined
    THEN "typedefs" \in DOMAIN d /\ \E t \in Elements(d["typedefs"]) : t.name = ty.name
    ELSE primitive_or_pubkey_to_token(ty.name) \in Prelude \cup {"Pubkey"}

ASSUME IdlsAssumption ==
  \A d \in Idls :
    /\ DOMAIN d \subseteq Elements(Order)
    /\ \A s \in DOMAIN d \cap {"accounts", "typedefs"} :
         d[s] \in Seq(NamedType) /\ \A t \in Elements(d[s]) : \A ty \in FieldTypes(t) : Known(d, ty)
    /\ "instructions" \in DOMAIN d =>
         /\ d["instructions"] \in Seq(NamedInstruction)
         /\ \A ix \in Elements(d["instructions"]) : \A ty \in Elements(ix.args) : Known(d, ty)
    /\ "errors" \in DOMAIN d => d["errors"] \in Seq(STRING)

-----------------------------------------------------------------------------
VARIABLES
  idl, zero_copy,   \* the IDL and the names given with -z
  module,           \* the module that is generated, by its position in Order
  pc,               \* the loop of its head that is on, or its body
  i,                \* the item this loop is at
  has_pubkey, has_defined,   \* the flags of the second loop of accounts
  imports,          \* what every module imports, one `use` after the other
  defines, names    \* the names every module defines, and those it names

inputs == <<idl, zero_copy>>

vars == <<idl, zero_copy, module, pc, i, has_pubkey, has_defined, imports, defines, names>>

m == Order[module]

Items == idl[m]

AtItem(loop) == pc = loop /\ i <= Len(Items)

AtEnd(loop) == pc = loop /\ i > Len(Items)

Goto(loop) == pc' = loop /\ i' = 1

Import(uses) == imports' = [imports EXCEPT ![m] = @ \o uses]

Emit(text) ==
  /\ defines' = [defines EXCEPT ![m] = @ \cup text.defines]
  /\ names' = [names EXCEPT ![m] = @ \cup text.names]

Flags == <<has_pubkey, has_defined>>

Init ==
  /\ idl \in Idls
  /\ zero_copy \in ZeroCopies
  /\ module = 0
  /\ pc = "start"
  /\ i = 1
  /\ has_pubkey = FALSE /\ has_defined = FALSE
  /\ imports = [s \in DOMAIN idl |-> <<>>]
  /\ defines = [s \in DOMAIN idl |-> {}]
  /\ names = [s \in DOMAIN idl |-> {}]

(* The modules that are still to be generated. *)
Remaining == {h \in 1 .. 4 : h > module /\ Order[h] \in DOMAIN idl}

(* Mutant: the section after this one is taken to be there. *)
next_module_any ==
  /\ pc = "start" \/ AtEnd("body")
  /\ IF Remaining = {} THEN Goto("done") /\ UNCHANGED module
       ELSE Goto("head") /\ module' = module + 1
  /\ UNCHANGED <<inputs, Flags, imports, defines, names>>

(* The next module of write_lib. *)
next_module ==
  /\ pc = "start" \/ AtEnd("body")
  /\ IF Remaining = {} THEN Goto("done") /\ UNCHANGED module
       ELSE /\ Goto("head")
            /\ module' \in Remaining
            /\ \A h \in Remaining : module' <= h
  /\ UNCHANGED <<inputs, Flags, imports, defines, names>>

(* The first lines of gen_head of accounts and typedefs. *)
borsh_head ==
  /\ pc = "head" /\ m \in {"accounts", "typedefs"}
  /\ Import(<<Borsh>>)
  /\ has_pubkey' = FALSE /\ has_defined' = FALSE
  /\ Goto("bytemuck")
  /\ UNCHANGED <<inputs, module, defines, names>>

WantsBytemuck(t) == use_zero_copy(t, zero_copy) \/ use_unsafe_bytemuck(t)

(* The first loop of both, up to the first item that wants bytemuck. *)
bytemuck_loop(s) ==
  /\ pc = "bytemuck" /\ m = s
  /\ \/ /\ AtItem("bytemuck") /\ WantsBytemuck(Items[i])
        /\ Import(<<Bytemuck>>)
        /\ Goto("types")
     \/ /\ AtItem("bytemuck") /\ ~ WantsBytemuck(Items[i])
        /\ i' = i + 1
        /\ UNCHANGED <<pc, imports>>
     \/ /\ AtEnd("bytemuck")
        /\ Goto("types")
        /\ UNCHANGED imports
  /\ UNCHANGED <<inputs, module, Flags, defines, names>>

(* Mutant: the loop is left as soon as one of the flags is set. *)
accounts_loop_or ==
  /\ pc = "types" /\ m = "accounts"
  /\ \/ /\ AtItem("types")
        /\ LET pubkey == has_pubkey_field(Items[i]) /\ ~ has_pubkey
               defined == has_defined_field(Items[i]) /\ ~ has_defined
           IN  /\ has_pubkey' = (has_pubkey \/ pubkey)
               /\ has_defined' = (has_defined \/ defined)
               /\ Import((IF pubkey THEN <<{"Pubkey"}>> ELSE <<>>)
                           \o (IF defined THEN <<{"crate::*"}>> ELSE <<>>))
        /\ IF has_pubkey' \/ has_defined' THEN Goto("body") ELSE i' = i + 1 /\ UNCHANGED pc
     \/ AtEnd("types") /\ Goto("body") /\ UNCHANGED <<Flags, imports>>
  /\ UNCHANGED <<inputs, module, defines, names>>

(* Mutant: the flags are not looked at before the import. *)
accounts_loop_again ==
  /\ pc = "types" /\ m = "accounts"
  /\ \/ /\ AtItem("types")
        /\ has_pubkey' = (has_pubkey \/ has_pubkey_field(Items[i]))
        /\ has_defined' = (has_defined \/ has_defined_field(Items[i]))
        /\ Import((IF has_pubkey_field(Items[i]) THEN <<{"Pubkey"}>> ELSE <<>>)
                    \o (IF has_defined_field(Items[i]) THEN <<{"crate::*"}>> ELSE <<>>))
        /\ IF has_pubkey' /\ has_defined' THEN Goto("body") ELSE i' = i + 1 /\ UNCHANGED pc
     \/ AtEnd("types") /\ Goto("body") /\ UNCHANGED <<Flags, imports>>
  /\ UNCHANGED <<inputs, module, defines, names>>

(* The second loop of accounts, up to where both flags are set. *)
accounts_loop ==
  /\ pc = "types" /\ m = "accounts"
  /\ \/ /\ AtItem("types")
        /\ LET pubkey == has_pubkey_field(Items[i]) /\ ~ has_pubkey
               defined == has_defined_field(Items[i]) /\ ~ has_defined
           IN  /\ has_pubkey' = (has_pubkey \/ pubkey)
               /\ has_defined' = (has_defined \/ defined)
               /\ Import((IF pubkey THEN <<{"Pubkey"}>> ELSE <<>>)
                           \o (IF defined THEN <<{"crate::*"}>> ELSE <<>>))
        /\ IF has_pubkey' /\ has_defined' THEN Goto("body") ELSE i' = i + 1 /\ UNCHANGED pc
     \/ AtEnd("types") /\ Goto("body") /\ UNCHANGED <<Flags, imports>>
  /\ UNCHANGED <<inputs, module, defines, names>>

(* The second loop of typedefs, up to the first type with a pubkey. *)
typedefs_loop ==
  /\ pc = "types" /\ m = "typedefs"
  /\ \/ /\ AtItem("types") /\ has_pubkey_field(Items[i])
        /\ Import(<<{"Pubkey"}>>)
        /\ Goto("body")
     \/ /\ AtItem("types") /\ ~ has_pubkey_field(Items[i])
        /\ i' = i + 1
        /\ UNCHANGED <<pc, imports>>
     \/ AtEnd("types") /\ Goto("body") /\ UNCHANGED imports
  /\ UNCHANGED <<inputs, module, Flags, defines, names>>

instructions_head ==
  /\ pc = "head" /\ m = "instructions"
  /\ Import(ix_imports(Elements(Items)))
  /\ Emit(ix_head(Elements(Items)))
  /\ Goto("body")
  /\ UNCHANGED <<inputs, module, Flags>>

errors_head ==
  /\ pc = "head" /\ m = "errors"
  /\ Import(error_imports)
  /\ Emit(error_head)
  /\ Goto("body")
  /\ UNCHANGED <<inputs, module, Flags>>

Text(s, item) ==
  CASE s = "accounts"     -> account_def(item, zero_copy)
    [] s = "typedefs"     -> type_def(item, zero_copy)
    [] s = "instructions" -> ix_def(item)
    [] s = "errors"       -> error_def(item)

(* gen_body emits an item. *)
gen_body ==
  /\ AtItem("body")
  /\ Emit(Text(m, Items[i]))
  /\ i' = i + 1
  /\ UNCHANGED <<inputs, module, pc, Flags, imports>>

Terminated == pc = "done" /\ UNCHANGED vars

Next ==
  \/ next_module
  \/ borsh_head
  \/ \E s \in {"accounts", "typedefs"} : bytemuck_loop(s)
  \/ accounts_loop \/ typedefs_loop
  \/ instructions_head \/ errors_head
  \/ gen_body
  \/ Terminated

Spec == Init /\ [][Next]_vars

-----------------------------------------------------------------------------
(* Properties *)

(* Where the generation is, and that a loop never runs past its items. *)
TypeOK ==
  /\ idl \in Idls /\ zero_copy \in ZeroCopies
  /\ pc \in {"start", "head", "bytemuck", "types", "body", "done"}
  /\ module \in 0 .. 4 /\ i \in Nat \ {0}
  /\ pc = "start" => module = 0
  /\ pc \in {"head", "bytemuck", "types", "body"} =>
       module # 0 /\ m \in DOMAIN idl /\ i <= Len(Items) + 1
  /\ pc \in {"bytemuck", "types"} => m \in {"accounts", "typedefs"}
  /\ has_pubkey \in BOOLEAN /\ has_defined \in BOOLEAN
  /\ imports \in [DOMAIN idl -> Seq(SUBSET Importable)]
  /\ DOMAIN defines = DOMAIN idl /\ DOMAIN names = DOMAIN idl

Imported(s) == UNION Elements(imports[s])

(* What a name in a module may refer to: `use crate::*` reaches what lib.rs *)
(* re-exports of every module.                                             *)
Resolvable(s) ==
  Prelude \cup Imported(s) \cup defines[s]
    \cup (IF "crate::*" \in Imported(s) THEN UNION {defines[r] : r \in DOMAIN idl} ELSE {})

(* The names of types that conditional_pascal_case changes: a field refers *)
(* to such a type as the IDL spells it, which nothing defines.             *)
Renamed(d) ==
  IF "typedefs" \in DOMAIN d
    THEN {t.name : t \in {u \in Elements(d["typedefs"]) : conditional_pascal_case(u.name) # u.name}}
    ELSE {}

(* Every name in the generated crate is one that its module defines or     *)
(* imports, those of renamed types apart: the loops of the heads miss      *)
(* nothing the items need, and a type that keeps its name is found from    *)
(* every module that has a field of it.                                    *)
NamesAreImported ==
  pc = "done" => \A s \in DOMAIN idl : names[s] \subseteq Resolvable(s) \cup Renamed(idl)

(* No head imports a name twice, which rustc rejects (E0252). *)
ImportedOnce ==
  \A s \in DOMAIN idl : \A j, k \in DOMAIN imports[s] :
    j # k => imports[s][j] \cap imports[s][k] = {}

(* Only a type that -z names, or that the IDL says is zero-copy, is also   *)
(* Copy: a type nobody asked this of compiles whatever its fields are.     *)
UnaskedTypesCompile ==
  \A s \in DOMAIN idl \cap {"accounts", "typedefs"} : \A t \in Elements(idl[s]) :
    pc = "done" /\ ~ WantsBytemuck(t) /\ "Copy" \in derives(t, zero_copy) =>
      \A ty \in FieldTypes(t) : "vec" \notin ty.in /\ type_to_tokens(ty) \cap {"String"} = {}
=============================================================================

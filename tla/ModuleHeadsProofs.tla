-------------------------- MODULE ModuleHeadsProofs --------------------------
(***************************************************************************)
(* The loops of the heads import what the bodies need, for every IDL.      *)
(***************************************************************************)
EXTENDS ModuleHeads, SequenceTheorems, TLAPS

NameSets == SUBSET Importable

(* What a sequence of imports brings in. *)
All(q) == UNION Elements(q)

Once(q) == \A j, k \in DOMAIN q : j # k => q[j] \cap q[k] = {}

(* What the items of a section, all of them together, ask of its head. *)
ImportsFor(s) ==
  CASE s \in {"accounts", "typedefs"} ->
         Borsh
           \cup (IF \E t \in Elements(idl[s]) : WantsBytemuck(t) THEN Bytemuck ELSE {})
           \cup (IF \E t \in Elements(idl[s]) : has_pubkey_field(t) THEN {"Pubkey"} ELSE {})
           \cup (IF s = "accounts" /\ \E t \in Elements(idl[s]) : has_defined_field(t)
                   THEN {"crate::*"} ELSE {})
    [] s = "instructions" -> All(ix_imports(Elements(idl[s])))
    [] s = "errors" -> All(error_imports)

HeadDefines(s) ==
  CASE s \in {"accounts", "typedefs"} -> {}
    [] s = "instructions" -> ix_head(Elements(idl[s])).defines
    [] s = "errors" -> error_head.defines

AllDefines(s) == HeadDefines(s) \cup UNION {Text(s, item).defines : item \in Elements(idl[s])}

(* What the names of a section may refer to when everything is generated, *)
(* and the names of the IDL that refer to nothing.                        *)
Target(s) ==
  Prelude \cup Renamed(idl) \cup ImportsFor(s) \cup AllDefines(s)
    \cup (IF "crate::*" \in ImportsFor(s) THEN UNION {AllDefines(r) : r \in DOMAIN idl} ELSE {})

-----------------------------------------------------------------------------
(* Lemmas on sequences of imports *)

(* Two lists of imports, one after the other. *)
LEMMA ConcatImports ==
  ASSUME NEW a \in Seq(NameSets), NEW b \in Seq(NameSets)
  PROVE  /\ a \o b \in Seq(NameSets)
         /\ All(a \o b) = All(a) \cup All(b)
         /\ Once(a) /\ Once(b) /\ All(a) \cap All(b) = {} => Once(a \o b)
<1> DEFINE u == a \o b
<1>1. /\ u \in Seq(NameSets) /\ Len(u) = Len(a) + Len(b)
      /\ Len(a) \in Nat /\ Len(b) \in Nat
      /\ \A j \in 1 .. Len(a) : u[j] = a[j]
      /\ \A j \in 1 .. Len(b) : u[Len(a) + j] = b[j]
      /\ DOMAIN a = 1 .. Len(a) /\ DOMAIN b = 1 .. Len(b) /\ DOMAIN u = 1 .. Len(u)
  BY ConcatProperties, LenProperties
<1>2. \A j \in DOMAIN u : \/ j \in DOMAIN a /\ u[j] = a[j]
                          \/ j - Len(a) \in DOMAIN b /\ u[j] = b[j - Len(a)]
  <2> SUFFICES ASSUME NEW j \in DOMAIN u
               PROVE  \/ j \in DOMAIN a /\ u[j] = a[j]
                      \/ j - Len(a) \in DOMAIN b /\ u[j] = b[j - Len(a)]
    OBVIOUS
  <2>1. CASE j <= Len(a)
    BY <1>1, <2>1
  <2>2. CASE j > Len(a)
    <3>1. j - Len(a) \in 1 .. Len(b) /\ Len(a) + (j - Len(a)) = j
      BY <1>1, <2>2
    <3>2. QED
      BY <1>1, <3>1
  <2>3. QED
    BY <1>1, <2>1, <2>2
<1>3. \A j \in DOMAIN b : Len(a) + j \in DOMAIN u /\ u[Len(a) + j] = b[j]
  BY <1>1
<1>4. \A j \in DOMAIN a : j \in DOMAIN u /\ u[j] = a[j]
  BY <1>1
<1> HIDE DEF u
<1>5. Elements(u) = Elements(a) \cup Elements(b)
  BY <1>2, <1>3, <1>4 DEF Elements
<1>6. All(u) = All(a) \cup All(b)
  BY <1>5 DEF All
<1>7. ASSUME Once(a), Once(b), All(a) \cap All(b) = {}, NEW j \in DOMAIN u, NEW k \in DOMAIN u,
             j # k
      PROVE  u[j] \cap u[k] = {}
  <2>1. \A h \in DOMAIN a, g \in DOMAIN b : a[h] \cap b[g] = {}
    BY <1>7 DEF All, Elements
  <2>2. CASE j \in DOMAIN a /\ u[j] = a[j] /\ k \in DOMAIN a /\ u[k] = a[k]
    BY <1>7, <2>2 DEF Once
  <2>3. CASE j - Len(a) \in DOMAIN b /\ u[j] = b[j - Len(a)] /\ k - Len(a) \in DOMAIN b /\ u[k] = b[k - Len(a)]
    <3>1. j - Len(a) # k - Len(a)
      BY <1>1, <1>7 DEF u
    <3>2. QED
      BY <1>7, <2>3, <3>1 DEF Once
  <2>4. QED
    BY <1>2, <2>1, <2>2, <2>3
<1>8. QED
  BY <1>1, <1>6, <1>7 DEF Once, u

(* One import, or none. *)
LEMMA OneImport ==
  /\ <<>> \in Seq(NameSets) /\ All(<<>>) = {} /\ Once(<<>>)
  /\ \A x \in NameSets : <<x>> \in Seq(NameSets) /\ All(<<x>>) = x /\ Once(<<x>>)
<1>1. DOMAIN <<>> = {} /\ Elements(<<>>) = {}
  BY DEF Elements
<1>2. \A x \in NameSets : DOMAIN <<x>> = {1} /\ Elements(<<x>>) = {x}
  BY DEF Elements
<1>3. QED
  BY <1>1, <1>2 DEF All, Once

-----------------------------------------------------------------------------
(* What the items name is what the heads should import *)

(* The sections of the IDL in the loops. *)
LEMMA Sections ==
  ASSUME idl \in Idls
  PROVE  /\ DOMAIN idl \subseteq {"accounts", "typedefs", "instructions", "errors"}
         /\ \A s \in DOMAIN idl : Len(idl[s]) \in Nat /\ DOMAIN idl[s] = 1 .. Len(idl[s])
         /\ \A s \in DOMAIN idl \cap {"accounts", "typedefs"} : \A t \in Elements(idl[s]) :
              \A ty \in FieldTypes(t) : Known(idl, ty)
         /\ "instructions" \in DOMAIN idl =>
              \A ix \in Elements(idl["instructions"]) : \A ty \in Elements(ix.args) : Known(idl, ty)
<1>1. Elements(Order) = {"accounts", "typedefs", "instructions", "errors"}
  BY DEF Elements, Order
<1>2. \A S, q : q \in Seq(S) => Len(q) \in Nat /\ DOMAIN q = 1 .. Len(q)
  BY LenProperties
<1>3. QED
  BY <1>1, <1>2, IdlsAssumption

(* A field type names what is imported for it, what needs no import, or a  *)
(* type that is defined by another name.                                   *)
LEMMA TypeTokens ==
  ASSUME idl \in Idls, NEW ty, Known(idl, ty), NEW I,
         is_or_has_pubkey(ty) => "Pubkey" \in I,
         NEW D, is_or_has_defined(ty) /\ "typedefs" \in DOMAIN idl => AllDefines("typedefs") \subseteq D
  PROVE  type_to_tokens(ty) \subseteq Prelude \cup Renamed(idl) \cup I \cup D
<1>1. "Vec" \in Prelude /\ "Option" \in Prelude
  BY DEF Prelude
<1>2. CASE ty.defined
  <2>1. PICK t \in Elements(idl["typedefs"]) : t.name = ty.name
    BY <1>2 DEF Known
  <2>2. "typedefs" \in DOMAIN idl
    BY <1>2 DEF Known
  <2>3. conditional_pascal_case(t.name) \in Text("typedefs", t).defines
    BY DEF Text, type_def
  <2>4. conditional_pascal_case(t.name) \in AllDefines("typedefs")
    BY <2>1, <2>3 DEF AllDefines
  <2>5. ty.name \in D \cup Renamed(idl)
    <3>1. CASE conditional_pascal_case(t.name) = t.name
      BY <1>2, <2>1, <2>2, <2>4, <3>1 DEF is_or_has_defined
    <3>2. CASE conditional_pascal_case(t.name) # t.name
      BY <2>1, <2>2, <3>2 DEF Renamed
    <3>3. QED
      BY <3>1, <3>2
  <2>6. QED
    BY <1>1, <1>2, <2>5 DEF type_to_tokens
<1>3. CASE ~ ty.defined
  <2>1. primitive_or_pubkey_to_token(ty.name) \in Prelude \cup I
    BY <1>3 DEF Known, is_or_has_pubkey
  <2>2. QED
    BY <1>1, <1>3, <2>1 DEF type_to_tokens
<1>4. QED
  BY <1>2, <1>3

(* A type, in accounts or in typedefs. *)
LEMMA TypeNames ==
  ASSUME idl \in Idls, NEW s \in DOMAIN idl, s \in {"accounts", "typedefs"},
         NEW t \in Elements(idl[s])
  PROVE  type_def(t, zero_copy).names \subseteq Target(s)
<1> DEFINE needed == UNION {type_to_tokens(ty) : ty \in FieldTypes(t)}
<1>1. derives(t, zero_copy) \cup unsafe_impls(t) \subseteq Prelude \cup ImportsFor(s)
  <2>1. {"Clone", "Copy", "Debug", "PartialEq"} \subseteq Prelude
    BY DEF Prelude
  <2>2. Borsh \subseteq ImportsFor(s)
    BY DEF ImportsFor
  <2>3. use_zero_copy(t, zero_copy) \/ use_unsafe_bytemuck(t) => Bytemuck \subseteq ImportsFor(s)
    BY DEF ImportsFor, WantsBytemuck
  <2>4. QED
    BY <2>1, <2>2, <2>3 DEF derives, unsafe_impls
<1>2. ASSUME NEW ty \in FieldTypes(t)
      PROVE  type_to_tokens(ty) \subseteq Target(s)
  <2>1. Known(idl, ty)
    BY Sections
  <2>2. is_or_has_pubkey(ty) => "Pubkey" \in ImportsFor(s)
    BY DEF has_pubkey_field, ImportsFor
  <2>3. ASSUME is_or_has_defined(ty), "typedefs" \in DOMAIN idl
        PROVE  AllDefines("typedefs") \subseteq Target(s)
    <3>1. CASE s = "typedefs"
      BY <3>1 DEF Target
    <3>2. CASE s = "accounts"
      <4>1. "crate::*" \in ImportsFor(s)
        BY <2>3, <3>2 DEF has_defined_field, ImportsFor
      <4>2. QED
        BY <2>3, <4>1 DEF Target
    <3>3. QED
      BY <3>1, <3>2
  <2>4. type_to_tokens(ty) \subseteq Prelude \cup Renamed(idl) \cup ImportsFor(s) \cup Target(s)
    BY <2>1, <2>2, <2>3, TypeTokens
  <2>5. QED
    BY <2>4 DEF Target
<1>3. QED
  BY <1>1, <1>2 DEF type_def, Target

(* The five imports of instructions, each of which may be missing.         *)
LEMMA IxImports ==
  ASSUME NEW ixs
  PROVE  /\ ix_imports(ixs) \in Seq(NameSets) /\ Once(ix_imports(ixs))
         /\ {"ProgramResult", "Instruction", "invoke", "invoke_signed", "Pubkey", "Read"}
              \subseteq All(ix_imports(ixs))
         /\ (\E ix \in ixs : has_ix_args(ix)) => Borsh \subseteq All(ix_imports(ixs))
         /\ (\E ix \in ixs : has_accounts(ix)) =>
              {"AccountInfo", "AccountMeta"} \subseteq All(ix_imports(ixs))
         /\ (\E ix \in ixs : has_privileged_accounts(ix)) => "ProgramError" \in All(ix_imports(ixs))
         /\ (\E ix \in ixs : args_has_defined_type(ix)) => "crate::*" \in All(ix_imports(ixs))
<1> DEFINE withAccounts == \E ix \in ixs : has_accounts(ix)
           common == {"ProgramResult", "Instruction", "invoke", "invoke_signed", "Pubkey"}
                       \cup (IF withAccounts THEN {"AccountInfo", "AccountMeta"} ELSE {})
           a == IF \E ix \in ixs : has_ix_args(ix) THEN <<Borsh>> ELSE <<>>
           b == <<common>>
           c == IF \E ix \in ixs : has_privileged_accounts(ix) THEN <<{"ProgramError"}>> ELSE <<>>
           d == <<{"Read"}>>
           e == IF \E ix \in ixs : args_has_defined_type(ix) THEN <<{"crate::*"}>> ELSE <<>>
<1>1. ix_imports(ixs) = a \o (b \o (c \o (d \o e)))
  BY DEF ix_imports
<1>2. /\ Borsh \in NameSets /\ common \in NameSets /\ {"ProgramError"} \in NameSets
      /\ {"Read"} \in NameSets /\ {"crate::*"} \in NameSets
  BY DEF NameSets, Importable, Borsh
<1>3. /\ a \in Seq(NameSets) /\ Once(a) /\ All(a) \subseteq Borsh
      /\ (\E ix \in ixs : has_ix_args(ix)) => All(a) = Borsh
  BY <1>2, OneImport
<1>4. b \in Seq(NameSets) /\ Once(b) /\ All(b) = common
  BY <1>2, OneImport
<1>5. /\ c \in Seq(NameSets) /\ Once(c) /\ All(c) \subseteq {"ProgramError"}
      /\ (\E ix \in ixs : has_privileged_accounts(ix)) => All(c) = {"ProgramError"}
  BY <1>2, OneImport
<1>6. d \in Seq(NameSets) /\ Once(d) /\ All(d) = {"Read"}
  BY <1>2, OneImport
<1>7. /\ e \in Seq(NameSets) /\ Once(e) /\ All(e) \subseteq {"crate::*"}
      /\ (\E ix \in ixs : args_has_defined_type(ix)) => All(e) = {"crate::*"}
  BY <1>2, OneImport
<1> HIDE DEF a, b, c, d, e
<1> HIDE DEF common
<1>13. /\ All(d) \cap All(e) = {}
       /\ All(c) \cap (All(d) \cup All(e)) = {}
  BY <1>5, <1>6, <1>7
<1>14. common \cap (All(c) \cup (All(d) \cup All(e))) = {}
  BY <1>5, <1>6, <1>7 DEF common
<1>15. All(a) \cap (common \cup (All(c) \cup (All(d) \cup All(e)))) = {}
  BY <1>3, <1>5, <1>6, <1>7 DEF common, Borsh
<1>8. d \o e \in Seq(NameSets) /\ All(d \o e) = All(d) \cup All(e) /\ Once(d \o e)
  BY <1>6, <1>7, <1>13, ConcatImports
<1>9. /\ c \o (d \o e) \in Seq(NameSets) /\ Once(c \o (d \o e))
      /\ All(c \o (d \o e)) = All(c) \cup (All(d) \cup All(e))
  BY <1>5, <1>8, <1>13, ConcatImports
<1>10. /\ b \o (c \o (d \o e)) \in Seq(NameSets) /\ Once(b \o (c \o (d \o e)))
       /\ All(b \o (c \o (d \o e))) = All(b) \cup (All(c) \cup (All(d) \cup All(e)))
  BY <1>4, <1>9, <1>14, ConcatImports
<1>11. /\ a \o (b \o (c \o (d \o e))) \in Seq(NameSets) /\ Once(a \o (b \o (c \o (d \o e))))
       /\ All(a \o (b \o (c \o (d \o e)))) = All(a) \cup (All(b) \cup (All(c) \cup (All(d) \cup All(e))))
  BY <1>3, <1>4, <1>10, <1>15, ConcatImports
<1>12. QED
  BY <1>1, <1>3, <1>4, <1>5, <1>6, <1>7, <1>11 DEF common

(* An instruction. *)
LEMMA IxNames ==
  ASSUME idl \in Idls, "instructions" \in DOMAIN idl, NEW ix \in Elements(idl["instructions"])
  PROVE  ix_def(ix).names \subseteq Target("instructions")
<1> DEFINE s == "instructions"
           I == ImportsFor(s)
           ixs == Elements(idl[s])
<1>1. I = All(ix_imports(ixs))
  BY DEF ImportsFor
<1>2. {"Pubkey", "Instruction", "ProgramResult", "Read", "invoke", "invoke_signed"} \subseteq I
  BY <1>1, IxImports
<1>3. has_ix_args(ix) => Borsh \subseteq I
  BY <1>1, IxImports
<1>4. has_accounts(ix) =>
        {"AccountInfo", "AccountMeta", "invoke_instruction", "invoke_instruction_signed"}
          \subseteq I \cup AllDefines(s)
  BY <1>1, IxImports DEF AllDefines, HeadDefines, ix_head
<1>5. has_privileged_accounts(ix) => "ProgramError" \in I
  BY <1>1, IxImports
<1>6. ix_def(ix).defines \subseteq AllDefines(s)
  BY DEF AllDefines, Text
<1>7. ASSUME NEW ty \in Elements(ix.args)
      PROVE  type_to_tokens(ty) \subseteq Target(s)
  <2>1. Known(idl, ty)
    BY Sections
  <2>2. ASSUME is_or_has_defined(ty), "typedefs" \in DOMAIN idl
        PROVE  AllDefines("typedefs") \subseteq Target(s)
    <3>1. "crate::*" \in I
      BY <1>1, <2>2, IxImports DEF args_has_defined_type
    <3>2. QED
      BY <2>2, <3>1 DEF Target
  <2>3. type_to_tokens(ty) \subseteq Prelude \cup Renamed(idl) \cup I \cup Target(s)
    BY <1>2, <2>1, <2>2, TypeTokens
  <2>4. QED
    BY <2>3 DEF Target
<1> HIDE DEF I
<1>8. Prelude \cup I \cup AllDefines(s) \subseteq Target(s)
  BY DEF Target, I
<1>9. ix_def(ix).names =
        ix_def(ix).defines \cup {"Pubkey", "Instruction", "ProgramResult", "Read"}
         \cup (IF has_ix_args(ix)
                 THEN Borsh \cup UNION {type_to_tokens(ty) : ty \in Elements(ix.args)} ELSE {})
         \cup (IF has_accounts(ix)
                 THEN {"AccountInfo", "AccountMeta", "invoke_instruction", "invoke_instruction_signed"}
                 ELSE {"invoke", "invoke_signed"})
         \cup (IF has_privileged_accounts(ix) THEN {"ProgramError"} ELSE {})
  BY DEF ix_def
<1>10. UNION {type_to_tokens(ty) : ty \in Elements(ix.args)} \subseteq Target(s)
  BY <1>7
<1>11. (IF has_ix_args(ix)
          THEN Borsh \cup UNION {type_to_tokens(ty) : ty \in Elements(ix.args)} ELSE {}) \subseteq Target(s)
  BY <1>3, <1>8, <1>10
<1>12. (IF has_accounts(ix)
          THEN {"AccountInfo", "AccountMeta", "invoke_instruction", "invoke_instruction_signed"}
          ELSE {"invoke", "invoke_signed"}) \subseteq Target(s)
  BY <1>2, <1>4, <1>8
<1>13. (IF has_privileged_accounts(ix) THEN {"ProgramError"} ELSE {}) \subseteq Target(s)
  BY <1>5, <1>8
<1>14. ix_def(ix).defines \cup {"Pubkey", "Instruction", "ProgramResult", "Read"} \subseteq Target(s)
  BY <1>2, <1>6, <1>8
<1>15. QED
  BY <1>9, <1>11, <1>12, <1>13, <1>14

(* All that a body emits. *)
LEMMA BodyNames ==
  ASSUME idl \in Idls, NEW s \in DOMAIN idl, NEW item \in Elements(idl[s])
  PROVE  Text(s, item).names \subseteq Target(s)
<1>1. CASE s = "accounts"
  <2>1. type_def(item, zero_copy).names \subseteq Target(s)
    BY <1>1, TypeNames
  <2>2. Text(s, item) = account_def(item, zero_copy)
    BY <1>1 DEF Text
  <2>3. account_def(item, zero_copy).defines \subseteq Target(s)
    BY <2>2 DEF AllDefines, Target
  <2>4. account_def(item, zero_copy).names
          = type_def(item, zero_copy).names
              \cup {item.name \o "_ACCOUNT_DISCM", conditional_pascal_case(item.name)}
    BY DEF account_def
  <2>5. {item.name \o "_ACCOUNT_DISCM", conditional_pascal_case(item.name)}
          \subseteq account_def(item, zero_copy).defines
    BY DEF account_def
  <2>6. QED
    BY <2>1, <2>2, <2>3, <2>4, <2>5
<1>2. CASE s = "typedefs"
  BY <1>2, TypeNames DEF Text
<1>3. CASE s = "instructions"
  BY <1>3, IxNames DEF Text
<1>4. CASE s = "errors"
  BY <1>4 DEF Text, error_def
<1>5. QED
  BY <1>1, <1>2, <1>3, <1>4, Sections

(* All that the heads of instructions and errors name. *)
LEMMA HeadNames ==
  ASSUME idl \in Idls
  PROVE  /\ "instructions" \in DOMAIN idl =>
              ix_head(Elements(idl["instructions"])).names \subseteq Target("instructions")
         /\ error_head.names \subseteq Target("errors")
<1>1. ASSUME "instructions" \in DOMAIN idl
      PROVE  ix_head(Elements(idl["instructions"])).names \subseteq Target("instructions")
  <2> DEFINE s == "instructions"
             ixs == Elements(idl[s])
  <2>1. ImportsFor(s) = All(ix_imports(ixs))
    BY DEF ImportsFor
  <2>2. {"AccountInfo", "Instruction", "ProgramResult", "invoke", "invoke_signed"}
          \subseteq ImportsFor(s) \/ ~ \E ix \in ixs : has_accounts(ix)
    BY <2>1, IxImports
  <2>3. \A ix \in ixs : /\ ix.name \o "_IX_DISCM" \in ix_def(ix).defines
                        /\ has_ix_args(ix) => ix.name \o "IxArgs" \in ix_def(ix).defines
    BY DEF ix_def
  <2>4. \A ix \in ixs : ix_def(ix).defines \subseteq AllDefines(s)
    BY DEF AllDefines, Text
  <2>5. QED
    BY <2>2, <2>3, <2>4 DEF ix_head, Target
<1>2. error_head.names \subseteq Target("errors")
  <2>1. All(error_imports) = {"ProgramError", "Error"}
    BY DEF error_imports, All, Elements
  <2>2. QED
    BY <2>1 DEF error_head, Target, ImportsFor, AllDefines, HeadDefines, Prelude
<1>3. QED
  BY <1>1, <1>2

-----------------------------------------------------------------------------
(* The inductive invariant *)

Passed(j) == j < module \/ (j = module /\ pc = "done")

(* Whatever is named is defined or imported in the end. *)
NamesBounded == \A s \in DOMAIN idl : names[s] \subseteq Target(s)

(* The generation is over once no section is left. *)
AllSeen == pc = "done" => \A j \in 1 .. 4 : Order[j] \in DOMAIN idl => j <= module

(* The items the loop at hand is past. *)
Before == {Items[h] : h \in 1 .. (i - 1)}

(* What is generated defines all it has to. *)
PassedDefine ==
  \A j \in 1 .. 4 : Order[j] \in DOMAIN idl /\ Passed(j) => AllDefines(Order[j]) \subseteq defines[Order[j]]

BodyDefines ==
  pc = "body" =>
    HeadDefines(m) \cup UNION {Text(m, item).defines : item \in Before} \subseteq defines[m]

(* No module is touched before its turn. *)
Untouched ==
  \A j \in 1 .. 4 :
    Order[j] \in DOMAIN idl /\ (j > module \/ (j = module /\ pc = "head")) => imports[Order[j]] = <<>>

(* The loops have imported what the items they are past need, nothing else. *)
InBytemuckLoop ==
  pc = "bytemuck" =>
    /\ imports[m] = <<Borsh>>
    /\ ~ has_pubkey /\ ~ has_defined
    /\ \A t \in Before : ~ WantsBytemuck(t)

InTypesLoop ==
  pc = "types" =>
    /\ Borsh \subseteq Imported(m)
    /\ (\E t \in Elements(Items) : WantsBytemuck(t)) => Bytemuck \subseteq Imported(m)
    /\ Imported(m) \subseteq Borsh \cup Bytemuck \cup (IF has_pubkey THEN {"Pubkey"} ELSE {})
                                \cup (IF has_defined THEN {"crate::*"} ELSE {})
    /\ has_pubkey => "Pubkey" \in Imported(m)
    /\ has_defined => "crate::*" \in Imported(m)
    /\ m = "accounts" => \A t \in Before : /\ has_pubkey_field(t) => has_pubkey
                                           /\ has_defined_field(t) => has_defined
    /\ m = "typedefs" => ~ has_pubkey /\ ~ has_defined /\ \A t \in Before : ~ has_pubkey_field(t)

(* A head that is over has imported what its body needs. *)
HeadsImport ==
  \A j \in 1 .. 4 :
    Order[j] \in DOMAIN idl /\ (Passed(j) \/ (j = module /\ pc = "body")) =>
      ImportsFor(Order[j]) \subseteq Imported(Order[j])

DefinesInv == PassedDefine /\ BodyDefines

ImportsInv == Untouched /\ InBytemuckLoop /\ InTypesLoop /\ HeadsImport /\ ImportedOnce

IInv == TypeOK /\ NamesBounded /\ AllSeen /\ DefinesInv /\ ImportsInv

-----------------------------------------------------------------------------
(* What a step does *)

LEMMA Positions ==
  /\ Order[1] = "accounts" /\ Order[2] = "typedefs" /\ Order[3] = "instructions"
  /\ Order[4] = "errors"
  /\ \A j, k \in 1 .. 4 : Order[j] = Order[k] => j = k
<1>1. Order[1] = "accounts" /\ Order[2] = "typedefs" /\ Order[3] = "instructions" /\ Order[4] = "errors"
  BY DEF Order
<1>2. \A j \in 1 .. 4 : j = 1 \/ j = 2 \/ j = 3 \/ j = 4
  OBVIOUS
<1>3. QED
  BY <1>1, <1>2

(* The inputs stay what they are, and with them all that is computed from them. *)
LEMMA Inputs ==
  ASSUME [Next]_vars
  PROVE  idl' = idl /\ zero_copy' = zero_copy
<1>1. CASE UNCHANGED vars
  BY <1>1 DEF vars
<1>2. CASE next_module
  BY <1>2 DEF next_module, inputs
<1>3. CASE borsh_head
  BY <1>3 DEF borsh_head, inputs
<1>4. ASSUME NEW s \in {"accounts", "typedefs"}, bytemuck_loop(s) PROVE idl' = idl /\ zero_copy' = zero_copy
  BY <1>4 DEF bytemuck_loop, inputs
<1>5. CASE accounts_loop
  BY <1>5 DEF accounts_loop, inputs
<1>6. CASE typedefs_loop
  BY <1>6 DEF typedefs_loop, inputs
<1>7. CASE instructions_head
  BY <1>7 DEF instructions_head, inputs
<1>8. CASE errors_head
  BY <1>8 DEF errors_head, inputs
<1>9. CASE gen_body
  BY <1>9 DEF gen_body, inputs
<1>10. CASE Terminated
  BY <1>10 DEF Terminated, vars
<1>11. QED
  BY <1>1, <1>2, <1>3, <1>4, <1>5, <1>6, <1>7, <1>8, <1>9, <1>10 DEF Next

LEMMA SameInputs ==
  ASSUME idl' = idl, zero_copy' = zero_copy
  PROVE  \A s : /\ ImportsFor(s)' = ImportsFor(s)
                /\ HeadDefines(s)' = HeadDefines(s)
                /\ AllDefines(s)' = AllDefines(s)
                /\ Target(s)' = Target(s)
                /\ \A item : Text(s, item)' = Text(s, item)
<1>1. \A t : WantsBytemuck(t)' = WantsBytemuck(t)
  BY DEF WantsBytemuck
<1>2. \A s, item : Text(s, item)' = Text(s, item)
  BY DEF Text
<1>3. \A s : HeadDefines(s)' = HeadDefines(s)
  BY DEF HeadDefines
<1>4. \A s : AllDefines(s)' = AllDefines(s)
  BY <1>2, <1>3 DEF AllDefines
<1>5. \A s : ImportsFor(s)' = ImportsFor(s)
  BY <1>1 DEF ImportsFor
<1>6. \A s : Target(s)' = Target(s)
  BY <1>4, <1>5 DEF Target
<1>7. QED
  BY <1>2, <1>3, <1>4, <1>5, <1>6

(* More imports, in the module at hand. *)
LEMMA ImportStep ==
  ASSUME TypeOK, m \in DOMAIN idl, NEW uses \in Seq(NameSets), Import(uses)
  PROVE  /\ imports' \in [DOMAIN idl -> Seq(NameSets)]
         /\ imports'[m] = imports[m] \o uses
         /\ \A s \in DOMAIN idl : s # m => imports'[s] = imports[s]
         /\ All(imports'[m]) = All(imports[m]) \cup All(uses)
<1>1. imports \in [DOMAIN idl -> Seq(NameSets)]
  BY DEF TypeOK, NameSets
<1>2. imports[m] \o uses \in Seq(NameSets) /\ All(imports[m] \o uses) = All(imports[m]) \cup All(uses)
  BY <1>1, ConcatImports
<1>3. QED
  BY <1>1, <1>2 DEF Import

(* More text, in the module at hand. *)
LEMMA EmitStep ==
  ASSUME TypeOK, m \in DOMAIN idl, NEW text, Emit(text)
  PROVE  /\ DOMAIN defines' = DOMAIN idl /\ DOMAIN names' = DOMAIN idl
         /\ defines'[m] = defines[m] \cup text.defines
         /\ names'[m] = names[m] \cup text.names
         /\ \A s \in DOMAIN idl : s # m => defines'[s] = defines[s] /\ names'[s] = names[s]
BY DEF TypeOK, Emit

-----------------------------------------------------------------------------
(* Type correctness *)

(* What the loops of the heads import is importable. *)
LEMMA UsesTyped ==
  /\ <<Borsh>> \in Seq(NameSets) /\ <<Bytemuck>> \in Seq(NameSets)
  /\ <<{"Pubkey"}>> \in Seq(NameSets) /\ <<{"crate::*"}>> \in Seq(NameSets)
  /\ error_imports \in Seq(NameSets)
  /\ \A a, b \in BOOLEAN :
       (IF a THEN <<{"Pubkey"}>> ELSE <<>>) \o (IF b THEN <<{"crate::*"}>> ELSE <<>>) \in Seq(NameSets)
<1>1. /\ Borsh \in NameSets /\ Bytemuck \in NameSets /\ {"Pubkey"} \in NameSets
      /\ {"crate::*"} \in NameSets /\ {"ProgramError"} \in NameSets /\ {"Error"} \in NameSets
  BY DEF NameSets, Importable, Borsh, Bytemuck
<1>2. error_imports \in Seq(NameSets)
  BY <1>1 DEF error_imports
<1>3. ASSUME NEW a \in BOOLEAN, NEW b \in BOOLEAN
      PROVE  (IF a THEN <<{"Pubkey"}>> ELSE <<>>) \o (IF b THEN <<{"crate::*"}>> ELSE <<>>)
               \in Seq(NameSets)
  <2>1. (IF a THEN <<{"Pubkey"}>> ELSE <<>>) \in Seq(NameSets)
    BY <1>1, OneImport
  <2>2. (IF b THEN <<{"crate::*"}>> ELSE <<>>) \in Seq(NameSets)
    BY <1>1, OneImport
  <2>3. QED
    BY <2>1, <2>2, ConcatImports
<1>4. QED
  BY <1>1, <1>2, <1>3, OneImport

LEMMA TypeStep ==
  ASSUME TypeOK, [Next]_vars
  PROVE  TypeOK'
<1> USE DEF TypeOK
<1>1. idl' = idl /\ zero_copy' = zero_copy
  BY Inputs
<1>2. \A s \in DOMAIN idl : Len(idl[s]) \in Nat
  BY Sections
<1>3. CASE UNCHANGED vars
  BY <1>3 DEF vars, m, Items
<1>4. CASE next_module
  <2>1. /\ imports' = imports /\ defines' = defines /\ names' = names
        /\ has_pubkey' = has_pubkey /\ has_defined' = has_defined
    BY <1>4 DEF next_module, Flags
  <2>2. CASE Remaining = {}
    BY <1>1, <1>4, <2>1, <2>2 DEF next_module, Goto
  <2>3. CASE Remaining # {}
    <3>1. pc' = "head" /\ i' = 1 /\ module' \in Remaining
      BY <1>4, <2>3 DEF next_module, Goto
    <3>2. module' \in 0 .. 4 /\ module' # 0 /\ m' \in DOMAIN idl
      BY <3>1 DEF Remaining, m
    <3>3. i' <= Len(Items') + 1
      BY <1>1, <1>2, <3>1, <3>2 DEF Items
    <3>4. QED
      BY <1>1, <2>1, <3>1, <3>2, <3>3
  <2>4. QED
    BY <2>2, <2>3
<1>5. CASE borsh_head
  <2>1. pc = "head" /\ m \in {"accounts", "typedefs"} /\ m \in DOMAIN idl
    BY <1>5 DEF borsh_head
  <2>2. imports' \in [DOMAIN idl -> Seq(NameSets)]
    BY <1>5, <2>1, ImportStep, UsesTyped DEF borsh_head
  <2>3. /\ pc' = "bytemuck" /\ i' = 1 /\ module' = module /\ defines' = defines /\ names' = names
        /\ has_pubkey' = FALSE /\ has_defined' = FALSE
    BY <1>5 DEF borsh_head, Goto
  <2>4. m' = m /\ Items' = Items
    BY <1>1, <2>3 DEF m, Items
  <2>5. i' \in Nat \ {0} /\ i' <= Len(Items') + 1
    BY <1>2, <2>1, <2>3, <2>4 DEF Items
  <2>6. has_pubkey' \in BOOLEAN /\ has_defined' \in BOOLEAN
    BY <2>3
  <2>7. module' \in 0 .. 4 /\ module' # 0
    BY <2>1, <2>3
  <2>8. QED
    BY <1>1, <2>1, <2>2, <2>3, <2>4, <2>5, <2>6, <2>7 DEF NameSets
<1>6. ASSUME NEW s \in {"accounts", "typedefs"}, bytemuck_loop(s)
      PROVE  TypeOK'
  <2>1. /\ pc = "bytemuck" /\ m \in {"accounts", "typedefs"} /\ m \in DOMAIN idl
        /\ module' = module /\ defines' = defines /\ names' = names
        /\ has_pubkey' = has_pubkey /\ has_defined' = has_defined
    BY <1>6 DEF bytemuck_loop, Flags
  <2>2. m' = m /\ Items' = Items
    BY <1>1, <2>1 DEF m, Items
  <2>3. imports' \in [DOMAIN idl -> Seq(NameSets)]
    <3>1. imports' = imports \/ Import(<<Bytemuck>>)
      BY <1>6 DEF bytemuck_loop
    <3>2. QED
      BY <2>1, <3>1, ImportStep, UsesTyped DEF NameSets
  <2>4. \/ pc' = "types" /\ i' = 1
        \/ pc' = pc /\ i' = i + 1 /\ i <= Len(Items)
    BY <1>6 DEF bytemuck_loop, Goto, AtItem
  <2>5. QED
    BY <1>1, <1>2, <2>1, <2>2, <2>3, <2>4 DEF Items, NameSets
<1>7. CASE accounts_loop
  <2>1. /\ pc = "types" /\ m \in {"accounts", "typedefs"} /\ m \in DOMAIN idl
        /\ module' = module /\ defines' = defines /\ names' = names
    BY <1>7 DEF accounts_loop
  <2>2. m' = m /\ Items' = Items
    BY <1>1, <2>1 DEF m, Items
  <2> DEFINE pubkey == has_pubkey_field(Items[i]) /\ ~ has_pubkey
             defined == has_defined_field(Items[i]) /\ ~ has_defined
             uses == (IF pubkey THEN <<{"Pubkey"}>> ELSE <<>>) \o (IF defined THEN <<{"crate::*"}>> ELSE <<>>)
  <2>3. \/ Import(uses) /\ has_pubkey' = (has_pubkey \/ pubkey) /\ has_defined' = (has_defined \/ defined)
        \/ imports' = imports /\ has_pubkey' = has_pubkey /\ has_defined' = has_defined
    BY <1>7 DEF accounts_loop, Flags
  <2>4. uses \in Seq(NameSets)
    <3>1. pubkey \in BOOLEAN /\ defined \in BOOLEAN
      OBVIOUS
    <3> HIDE DEF pubkey, defined
    <3>2. QED
      BY <3>1, UsesTyped
  <2>5. \/ pc' = "body" /\ i' = 1
        \/ pc' = pc /\ i' = i + 1 /\ i <= Len(Items)
    BY <1>7 DEF accounts_loop, Goto, AtItem
  <2> HIDE DEF uses
  <2>6. imports' \in [DOMAIN idl -> Seq(NameSets)]
    BY <2>1, <2>3, <2>4, ImportStep DEF NameSets
  <2>7. has_pubkey' \in BOOLEAN /\ has_defined' \in BOOLEAN
    BY <2>3
  <2>8. QED
    BY <1>1, <1>2, <2>1, <2>2, <2>5, <2>6, <2>7 DEF Items, NameSets
<1>8. CASE typedefs_loop
  <2>1. /\ pc = "types" /\ m \in {"accounts", "typedefs"} /\ m \in DOMAIN idl
        /\ module' = module /\ defines' = defines /\ names' = names
        /\ has_pubkey' = has_pubkey /\ has_defined' = has_defined
    BY <1>8 DEF typedefs_loop, Flags
  <2>2. m' = m /\ Items' = Items
    BY <1>1, <2>1 DEF m, Items
  <2>3. imports' \in [DOMAIN idl -> Seq(NameSets)]
    <3>1. imports' = imports \/ Import(<<{"Pubkey"}>>)
      BY <1>8 DEF typedefs_loop
    <3>2. QED
      BY <2>1, <3>1, ImportStep, UsesTyped DEF NameSets
  <2>4. \/ pc' = "body" /\ i' = 1
        \/ pc' = pc /\ i' = i + 1 /\ i <= Len(Items)
    BY <1>8 DEF typedefs_loop, Goto, AtItem
  <2>5. QED
    BY <1>1, <1>2, <2>1, <2>2, <2>3, <2>4 DEF Items, NameSets
<1>9. ASSUME NEW uses \in Seq(NameSets), NEW text, pc = "head", Import(uses), Emit(text), Goto("body"),
             UNCHANGED <<inputs, module, Flags>>
      PROVE  TypeOK'
  <2>1. m' = m /\ Items' = Items /\ m \in DOMAIN idl
    BY <1>1, <1>9 DEF m, Items
  <2>2. imports' \in [DOMAIN idl -> Seq(NameSets)]
    BY <1>9, <2>1, ImportStep
  <2>3. DOMAIN defines' = DOMAIN idl /\ DOMAIN names' = DOMAIN idl
    BY <1>9, <2>1, EmitStep
  <2>4. pc' = "body" /\ i' = 1 /\ module' = module /\ has_pubkey' = has_pubkey /\ has_defined' = has_defined
    BY <1>9 DEF Goto, Flags
  <2>5. QED
    BY <1>1, <1>2, <1>9, <2>1, <2>2, <2>3, <2>4 DEF Items, NameSets
<1>10. CASE instructions_head
  <2>1. ix_imports(Elements(Items)) \in Seq(NameSets)
    BY IxImports
  <2>2. QED
    BY <1>9, <1>10, <2>1 DEF instructions_head
<1>11. CASE errors_head
  BY <1>9, <1>11, UsesTyped DEF errors_head
<1>12. CASE gen_body
  <2>1. /\ pc = "body" /\ i <= Len(Items) /\ i' = i + 1 /\ module' = module /\ pc' = pc
        /\ imports' = imports /\ has_pubkey' = has_pubkey /\ has_defined' = has_defined
    BY <1>12 DEF gen_body, AtItem, Flags
  <2>2. m' = m /\ Items' = Items /\ m \in DOMAIN idl
    BY <1>1, <2>1 DEF m, Items
  <2>3. DOMAIN defines' = DOMAIN idl /\ DOMAIN names' = DOMAIN idl
    BY <1>12, <2>2, EmitStep DEF gen_body
  <2>4. QED
    BY <1>1, <1>2, <2>1, <2>2, <2>3 DEF Items
<1>13. CASE Terminated
  BY <1>3, <1>13 DEF Terminated
<1>14. QED
  BY <1>3, <1>4, <1>5, <1>6, <1>7, <1>8, <1>10, <1>11, <1>12, <1>13 DEF Next

-----------------------------------------------------------------------------
(* What is named and defined *)

(* Text is emitted by the heads of instructions and errors and by the bodies. *)
LEMMA Emits ==
  ASSUME TypeOK, [Next]_vars
  PROVE  \/ UNCHANGED <<defines, names>>
         \/ pc = "head" /\ m = "instructions" /\ Emit(ix_head(Elements(Items)))
         \/ pc = "head" /\ m = "errors" /\ Emit(error_head)
         \/ pc = "body" /\ i <= Len(Items) /\ Emit(Text(m, Items[i]))
<1>1. CASE UNCHANGED vars
  BY <1>1 DEF vars
<1>2. CASE next_module
  BY <1>2 DEF next_module
<1>3. CASE borsh_head
  BY <1>3 DEF borsh_head
<1>4. ASSUME NEW s \in {"accounts", "typedefs"}, bytemuck_loop(s) PROVE UNCHANGED <<defines, names>>
  BY <1>4 DEF bytemuck_loop
<1>5. CASE accounts_loop
  BY <1>5 DEF accounts_loop
<1>6. CASE typedefs_loop
  BY <1>6 DEF typedefs_loop
<1>7. CASE instructions_head
  BY <1>7 DEF instructions_head
<1>8. CASE errors_head
  BY <1>8 DEF errors_head
<1>9. CASE gen_body
  BY <1>9 DEF gen_body, AtItem
<1>10. CASE Terminated
  BY <1>10 DEF Terminated, vars
<1>11. QED
  BY <1>1, <1>2, <1>3, <1>4, <1>5, <1>6, <1>7, <1>8, <1>9, <1>10 DEF Next

(* A module is at hand whenever something happens in it. *)
LEMMA AtHand ==
  ASSUME TypeOK, pc \in {"head", "bytemuck", "types", "body"}
  PROVE  /\ idl \in Idls /\ m \in DOMAIN idl /\ module \in 1 .. 4
         /\ Len(Items) \in Nat /\ DOMAIN Items = 1 .. Len(Items)
         /\ i \in Nat /\ 1 <= i /\ i <= Len(Items) + 1
         /\ i <= Len(Items) => Items[i] \in Elements(Items)
<1>1. idl \in Idls /\ m \in DOMAIN idl /\ module \in 1 .. 4 /\ i \in Nat /\ 1 <= i /\ i <= Len(Items) + 1
  BY DEF TypeOK
<1>2. Len(Items) \in Nat /\ DOMAIN Items = 1 .. Len(Items)
  BY <1>1, Sections DEF Items
<1>3. i <= Len(Items) => Items[i] \in Elements(Items)
  BY <1>1, <1>2 DEF Elements
<1>4. QED
  BY <1>1, <1>2, <1>3

LEMMA NamesStep ==
  ASSUME TypeOK, NamesBounded, [Next]_vars
  PROVE  NamesBounded'
<1>1. idl' = idl /\ zero_copy' = zero_copy /\ \A s : Target(s)' = Target(s)
  BY Inputs, SameInputs
<1>2. ASSUME NEW text, Emit(text), m \in DOMAIN idl, text.names \subseteq Target(m)
      PROVE  NamesBounded'
  BY <1>1, <1>2, EmitStep DEF NamesBounded
<1>3. CASE UNCHANGED <<defines, names>>
  BY <1>1, <1>3 DEF NamesBounded
<1>4. CASE ~ UNCHANGED <<defines, names>>
  <2>1. pc \in {"head", "body"}
    BY <1>4, Emits
  <2>2. idl \in Idls /\ m \in DOMAIN idl /\ (i <= Len(Items) => Items[i] \in Elements(Items))
    BY <2>1, AtHand
  <2>3. CASE m = "instructions" /\ Emit(ix_head(Elements(Items)))
    BY <1>2, <2>2, <2>3, HeadNames DEF Items
  <2>4. CASE m = "errors" /\ Emit(error_head)
    BY <1>2, <2>2, <2>4, HeadNames
  <2>5. CASE pc = "body" /\ i <= Len(Items) /\ Emit(Text(m, Items[i]))
    <3>1. Text(m, Items[i]).names \subseteq Target(m)
      BY <2>2, <2>5, BodyNames DEF Items
    <3>2. QED
      BY <1>2, <2>2, <2>5, <3>1
  <2>6. QED
    BY <1>4, <2>3, <2>4, <2>5, Emits
<1>5. QED
  BY <1>3, <1>4

LEMMA SeenStep ==
  ASSUME TypeOK, AllSeen, [Next]_vars
  PROVE  AllSeen'
<1>1. idl' = idl
  BY Inputs
<1>2. CASE UNCHANGED vars
  BY <1>2 DEF vars, AllSeen
<1>3. CASE next_module
  <2>1. CASE Remaining = {}
    BY <1>1, <1>3, <2>1 DEF next_module, Remaining, AllSeen, TypeOK
  <2>2. CASE Remaining # {}
    BY <1>3, <2>2 DEF next_module, Goto, AllSeen
  <2>3. QED
    BY <2>1, <2>2
<1>4. CASE pc' # "done"
  BY <1>4 DEF AllSeen
<1>5. CASE borsh_head
  BY <1>4, <1>5 DEF borsh_head, Goto
<1>6. ASSUME NEW s \in {"accounts", "typedefs"}, bytemuck_loop(s) PROVE pc' # "done"
  BY <1>6 DEF bytemuck_loop, Goto
<1>7. CASE accounts_loop
  BY <1>4, <1>7 DEF accounts_loop, Goto
<1>8. CASE typedefs_loop
  BY <1>4, <1>8 DEF typedefs_loop, Goto
<1>9. CASE instructions_head
  BY <1>4, <1>9 DEF instructions_head, Goto
<1>10. CASE errors_head
  BY <1>4, <1>10 DEF errors_head, Goto
<1>11. CASE gen_body
  BY <1>4, <1>11 DEF gen_body, AtItem
<1>12. CASE Terminated
  BY <1>2, <1>12 DEF Terminated
<1>13. QED
  BY <1>2, <1>3, <1>4, <1>5, <1>6, <1>7, <1>8, <1>9, <1>10, <1>11, <1>12 DEF Next

(* Nothing that is defined goes away. *)
LEMMA DefinesGrow ==
  ASSUME TypeOK, [Next]_vars, NEW s \in DOMAIN idl
  PROVE  defines[s] \subseteq defines'[s]
<1>1. ASSUME NEW text, Emit(text), pc \in {"head", "body"}
      PROVE  defines[s] \subseteq defines'[s]
  BY <1>1, AtHand, EmitStep
<1>2. QED
  BY <1>1, Emits

(* Where next_module goes: to the first section that is left. *)
LEMMA NextModule ==
  ASSUME TypeOK, next_module
  PROVE  /\ UNCHANGED <<imports, defines>>
         /\ pc' \in {"head", "done"}
         /\ module # 0 => pc = "body" /\ i = Len(Items) + 1
         /\ \A j \in 1 .. 4 : Order[j] \in DOMAIN idl =>
              /\ Passed(j)' => j <= module
              /\ j > module' \/ (j = module' /\ pc' = "head") => j > module
<1>1. UNCHANGED <<imports, defines>> /\ pc' \in {"head", "done"}
  BY DEF next_module, Goto
<1>2. ASSUME module # 0
      PROVE  pc = "body" /\ i = Len(Items) + 1
  <2>1. pc = "body" /\ i > Len(Items)
    BY <1>2 DEF next_module, AtEnd, TypeOK
  <2>2. QED
    BY <2>1, AtHand
<1>3. ASSUME NEW j \in 1 .. 4, Order[j] \in DOMAIN idl
      PROVE  /\ Passed(j)' => j <= module
             /\ j > module' \/ (j = module' /\ pc' = "head") => j > module
  <2>1. CASE Remaining = {}
    BY <2>1 DEF next_module, Goto, Passed, TypeOK
  <2>2. CASE Remaining # {}
    <3>1. pc' = "head" /\ module' \in Remaining /\ \A h \in Remaining : module' <= h
      BY <2>2 DEF next_module, Goto
    <3>2. module' \in 1 .. 4 /\ module' > module /\ module \in 0 .. 4
      BY <3>1 DEF Remaining, TypeOK
    <3>3. j > module => module' <= j
      BY <1>3, <3>1 DEF Remaining
    <3>4. QED
      BY <3>1, <3>2, <3>3 DEF Passed
  <2>3. QED
    BY <2>1, <2>2
<1>4. QED
  BY <1>1, <1>2, <1>3

(* The other steps stay in the module at hand. *)
InModule ==
  /\ pc \in {"head", "bytemuck", "types", "body"} /\ pc' \in {"bytemuck", "types", "body"}
  /\ module' = module /\ m' = m /\ Items' = Items
  /\ (pc' = pc /\ i' = i + 1 /\ i <= Len(Items)) \/ (pc' # pc /\ i' = 1)

LEMMA Moves ==
  ASSUME TypeOK, [Next]_vars
  PROVE  UNCHANGED vars \/ next_module \/ InModule
<1>1. idl' = idl
  BY Inputs
<1>2. module' = module => m' = m /\ Items' = Items
  BY <1>1 DEF m, Items
<1>3. CASE borsh_head
  BY <1>2, <1>3 DEF borsh_head, Goto, InModule
<1>4. ASSUME NEW s \in {"accounts", "typedefs"}, bytemuck_loop(s) PROVE InModule
  BY <1>2, <1>4 DEF bytemuck_loop, Goto, InModule, AtItem
<1>5. CASE accounts_loop
  BY <1>2, <1>5 DEF accounts_loop, Goto, InModule, AtItem
<1>6. CASE typedefs_loop
  BY <1>2, <1>6 DEF typedefs_loop, Goto, InModule, AtItem
<1>7. CASE instructions_head
  BY <1>2, <1>7 DEF instructions_head, Goto, InModule
<1>8. CASE errors_head
  BY <1>2, <1>8 DEF errors_head, Goto, InModule
<1>9. CASE gen_body
  BY <1>2, <1>9 DEF gen_body, AtItem, InModule
<1>10. QED
  BY <1>3, <1>4, <1>5, <1>6, <1>7, <1>8, <1>9 DEF Next, Terminated

(* How a body begins and goes on. *)
LEMMA Bodies ==
  ASSUME TypeOK, [Next]_vars, InModule, pc' = "body"
  PROVE  \/ pc = "body" /\ gen_body
         \/ pc = "types" /\ m \in {"accounts", "typedefs"}
         \/ m = "instructions" /\ instructions_head
         \/ m = "errors" /\ errors_head
<1>1. CASE UNCHANGED vars
  BY <1>1, AtHand DEF vars, InModule
<1>2. CASE next_module
  BY <1>2 DEF next_module, Goto
<1>3. CASE borsh_head
  BY <1>3 DEF borsh_head, Goto
<1>4. ASSUME NEW s \in {"accounts", "typedefs"}, bytemuck_loop(s) PROVE FALSE
  BY <1>4 DEF bytemuck_loop, Goto
<1>5. CASE accounts_loop
  BY <1>5 DEF accounts_loop
<1>6. CASE typedefs_loop
  BY <1>6 DEF typedefs_loop
<1>7. CASE instructions_head
  BY <1>7 DEF instructions_head
<1>8. CASE errors_head
  BY <1>8 DEF errors_head
<1>9. CASE gen_body
  BY <1>9 DEF gen_body, AtItem
<1>10. QED
  BY <1>1, <1>2, <1>3, <1>4, <1>5, <1>6, <1>7, <1>8, <1>9 DEF Next, Terminated

(* The items a loop is past, one more or none. *)
LEMMA BeforeStep ==
  ASSUME TypeOK, InModule
  PROVE  /\ i' = 1 => Before' = {}
         /\ i' = i + 1 => Before' = Before \cup {Items[i]}
<1>1. i \in Nat /\ 1 <= i /\ Items' = Items
  BY AtHand DEF InModule
<1>2. ASSUME i' = 1 PROVE Before' = {}
  BY <1>2 DEF Before
<1>3. ASSUME i' = i + 1 PROVE Before' = Before \cup {Items[i]}
  <2>1. 1 .. (i' - 1) = (1 .. (i - 1)) \cup {i}
    BY <1>1, <1>3
  <2>2. QED
    BY <1>1, <2>1 DEF Before
<1>4. QED
  BY <1>2, <1>3

(* At the end of a loop all items are behind. *)
LEMMA BeforeEnd ==
  ASSUME TypeOK, pc \in {"head", "bytemuck", "types", "body"}, i > Len(Items)
  PROVE  Before = Elements(Items)
<1>1. DOMAIN Items = 1 .. (i - 1)
  BY AtHand
<1>2. QED
  BY <1>1 DEF Before, Elements

LEMMA DefinesStep ==
  ASSUME TypeOK, DefinesInv, [Next]_vars
  PROVE  DefinesInv'
<1>1. idl' = idl /\ \A s : /\ HeadDefines(s)' = HeadDefines(s) /\ AllDefines(s)' = AllDefines(s)
                           /\ \A item : Text(s, item)' = Text(s, item)
  BY Inputs, SameInputs
<1>2. CASE UNCHANGED vars
  <2>1. m' = m /\ Before' = Before
    BY <1>2 DEF vars, m, Before, Items
  <2>2. QED
    BY <1>1, <1>2, <2>1 DEF vars, DefinesInv, PassedDefine, BodyDefines, Passed
<1>3. CASE next_module
  <2>1. BodyDefines'
    BY <1>3, NextModule DEF BodyDefines
  <2>2. ASSUME NEW j \in 1 .. 4, Order[j] \in DOMAIN idl, Passed(j)'
        PROVE  AllDefines(Order[j]) \subseteq defines[Order[j]]
    <3>1. j <= module
      BY <1>3, <2>2, NextModule
    <3>2. CASE j < module
      BY <2>2, <3>2 DEF Passed, DefinesInv, PassedDefine
    <3>3. CASE j = module
      <4>1. pc = "body" /\ i = Len(Items) + 1
        BY <1>3, <3>3, NextModule
      <4>2. Before = Elements(Items)
        BY <4>1, AtHand, BeforeEnd
      <4>3. QED
        BY <3>3, <4>1, <4>2 DEF DefinesInv, BodyDefines, AllDefines, m, Items
    <3>4. QED
      BY <3>1, <3>2, <3>3 DEF TypeOK
  <2>3. defines' = defines
    BY <1>3, NextModule
  <2>4. QED
    BY <1>1, <2>1, <2>2, <2>3 DEF DefinesInv, PassedDefine
<1>4. CASE InModule
  <2>1. \A s \in DOMAIN idl : defines[s] \subseteq defines'[s]
    BY DefinesGrow
  <2>2. PassedDefine'
    <3>1. \A j \in 1 .. 4 : Passed(j)' => Passed(j)
      BY <1>4 DEF InModule, Passed
    <3>2. QED
      BY <1>1, <2>1, <3>1 DEF DefinesInv, PassedDefine
  <2>3. ASSUME pc' = "body"
        PROVE  HeadDefines(m) \cup UNION {Text(m, item).defines : item \in Before'} \subseteq defines'[m]
    <3>1. m \in DOMAIN idl
      BY <1>4, AtHand DEF InModule
    <3>2. CASE pc = "body"
      <4>1. i' = i + 1 /\ Before' = Before \cup {Items[i]}
        BY <1>4, <2>3, <3>2, BeforeStep DEF InModule
      <4>2. Text(m, Items[i]).defines \subseteq defines'[m]
        <5>1. gen_body
          BY <1>4, <2>3, <3>2, Bodies DEF instructions_head, errors_head
        <5>2. QED
          BY <3>1, <5>1, EmitStep DEF gen_body
      <4>3. HeadDefines(m) \cup UNION {Text(m, item).defines : item \in Before} \subseteq defines[m]
        BY <3>2 DEF DefinesInv, BodyDefines
      <4>4. QED
        BY <2>1, <3>1, <4>1, <4>2, <4>3
    <3>3. CASE pc # "body"
      <4>1. Before' = {}
        BY <1>4, <2>3, <3>3, BeforeStep DEF InModule
      <4>2. HeadDefines(m) \subseteq defines'[m]
        <5>1. CASE m \in {"accounts", "typedefs"}
          BY <5>1 DEF HeadDefines
        <5>2. CASE m = "instructions"
          <6>1. instructions_head
            BY <1>4, <2>3, <3>3, <5>2, Bodies
          <6>2. QED
            BY <3>1, <5>2, <6>1, EmitStep DEF instructions_head, HeadDefines, Items
        <5>3. CASE m = "errors"
          <6>1. errors_head
            BY <1>4, <2>3, <3>3, <5>3, Bodies
          <6>2. QED
            BY <3>1, <5>3, <6>1, EmitStep DEF errors_head, HeadDefines
        <5>4. QED
          BY <3>1, <5>1, <5>2, <5>3, Sections DEF TypeOK
      <4>3. QED
        BY <4>1, <4>2
    <3>4. QED
      BY <3>2, <3>3
  <2>4. QED
    BY <1>1, <1>4, <2>2, <2>3 DEF InModule, DefinesInv, BodyDefines
<1>5. QED
  BY <1>2, <1>3, <1>4, Moves

-----------------------------------------------------------------------------
(* What is imported *)

(* A step in a module leaves the imports of the others alone. *)
LEMMA Elsewhere ==
  ASSUME TypeOK, ImportsInv, [Next]_vars, InModule,
         \A s \in DOMAIN idl : s # m => imports'[s] = imports[s],
         DOMAIN imports' = DOMAIN idl,
         Once(imports'[m]),
         pc' = "body" => ImportsFor(m) \subseteq All(imports'[m])
  PROVE  Untouched' /\ HeadsImport' /\ ImportedOnce'
<1>1. idl' = idl /\ module' = module /\ pc' \notin {"head", "done"} /\ \A s : ImportsFor(s)' = ImportsFor(s)
  BY Inputs, SameInputs DEF InModule
<1>2. \A j \in 1 .. 4 : Order[j] = m => j = module
  BY AtHand, Positions DEF InModule, m
<1>3. Untouched'
  BY <1>1, <1>2 DEF Untouched, ImportsInv, TypeOK
<1>4. HeadsImport'
  <2>1. ASSUME NEW j \in 1 .. 4, Order[j] \in DOMAIN idl, Passed(j)' \/ (j = module /\ pc' = "body")
        PROVE  ImportsFor(Order[j]) \subseteq All(imports'[Order[j]])
    <3>1. CASE j = module
      BY <1>1, <2>1, <3>1 DEF m, Passed
    <3>2. CASE j # module
      <4>1. Passed(j)
        BY <1>1, <2>1, <3>2 DEF Passed
      <4>2. ImportsFor(Order[j]) \subseteq All(imports[Order[j]])
        BY <2>1, <4>1 DEF ImportsInv, HeadsImport, Imported, All
      <4>3. imports'[Order[j]] = imports[Order[j]]
        BY <1>2, <2>1, <3>2
      <4>4. QED
        BY <4>2, <4>3
    <3>3. QED
      BY <3>1, <3>2
  <2>2. QED
    BY <1>1, <2>1 DEF HeadsImport, Imported, All
<1>5. ImportedOnce'
  <2>1. \A s \in DOMAIN idl : Once(imports'[s])
    BY DEF ImportsInv, ImportedOnce, Once
  <2>2. QED
    BY <1>1, <2>1 DEF ImportedOnce, Once
<1>6. QED
  BY <1>3, <1>4, <1>5

(* The single imports of the loops of accounts and typedefs. *)
LEMMA Singles ==
  /\ All(<<Borsh>>) = Borsh /\ Once(<<Borsh>>)
  /\ All(<<Bytemuck>>) = Bytemuck /\ Once(<<Bytemuck>>)
  /\ All(<<{"Pubkey"}>>) = {"Pubkey"} /\ Once(<<{"Pubkey"}>>)
  /\ All(<<{"crate::*"}>>) = {"crate::*"} /\ Once(<<{"crate::*"}>>)
<1>1. /\ Borsh \in NameSets /\ Bytemuck \in NameSets /\ {"Pubkey"} \in NameSets
      /\ {"crate::*"} \in NameSets
  BY DEF NameSets, Importable, Borsh, Bytemuck
<1>2. QED
  BY <1>1, OneImport

LEMMA BorshImports ==
  ASSUME TypeOK, ImportsInv, [Next]_vars, borsh_head
  PROVE  ImportsInv'
<1>1. /\ pc = "head" /\ pc' = "bytemuck" /\ i' = 1 /\ m \in DOMAIN idl /\ module' = module /\ idl' = idl
      /\ has_pubkey' = FALSE /\ has_defined' = FALSE /\ Import(<<Borsh>>) /\ m' = m
  BY AtHand, Inputs DEF borsh_head, Goto, m
<1>2. InModule
  BY <1>1 DEF InModule, Items
<1>3. imports[m] = <<>>
  BY <1>1, AtHand DEF ImportsInv, Untouched, m
<1>4. /\ imports'[m] = <<>> \o <<Borsh>> /\ DOMAIN imports' = DOMAIN idl
      /\ \A s \in DOMAIN idl : s # m => imports'[s] = imports[s]
  BY <1>1, <1>3, ImportStep, UsesTyped
<1>5. imports'[m] = <<Borsh>>
  BY <1>4, UsesTyped
<1>6. Untouched' /\ HeadsImport' /\ ImportedOnce'
  BY <1>1, <1>2, <1>4, <1>5, Singles, Elsewhere
<1>7. Before' = {}
  BY <1>1, <1>2, BeforeStep
<1>8. QED
  BY <1>1, <1>5, <1>6, <1>7 DEF ImportsInv, InBytemuckLoop, InTypesLoop

LEMMA BytemuckImports ==
  ASSUME TypeOK, ImportsInv, [Next]_vars, NEW s \in {"accounts", "typedefs"}, bytemuck_loop(s)
  PROVE  ImportsInv'
<1>1. /\ pc = "bytemuck" /\ m \in DOMAIN idl /\ m = s /\ module' = module /\ idl' = idl /\ m' = m
      /\ has_pubkey' = has_pubkey /\ has_defined' = has_defined /\ Items' = Items
      /\ \A t : WantsBytemuck(t)' = WantsBytemuck(t)
  BY AtHand, Inputs DEF bytemuck_loop, m, Items, Flags, WantsBytemuck
<1>2. /\ imports[m] = <<Borsh>> /\ ~ has_pubkey /\ ~ has_defined
      /\ \A t \in Before : ~ WantsBytemuck(t)
  BY <1>1 DEF ImportsInv, InBytemuckLoop
<1>3. CASE AtItem("bytemuck") /\ ~ WantsBytemuck(Items[i]) /\ i' = i + 1 /\ UNCHANGED <<pc, imports>>
  <2>1. InModule
    BY <1>1, <1>3 DEF InModule, AtItem
  <2>2. Before' = Before \cup {Items[i]}
    BY <1>3, <2>1, BeforeStep
  <2>3. Untouched' /\ HeadsImport' /\ ImportedOnce'
    BY <1>1, <1>2, <1>3, <2>1, Singles, Elsewhere DEF TypeOK
  <2>4. QED
    BY <1>1, <1>2, <1>3, <2>2, <2>3 DEF ImportsInv, InBytemuckLoop, InTypesLoop
<1>4. ASSUME pc' = "types", i' = 1, DOMAIN imports' = DOMAIN idl,
             \A r \in DOMAIN idl : r # m => imports'[r] = imports[r],
             Once(imports'[m]),
             Borsh \subseteq All(imports'[m]), All(imports'[m]) \subseteq Borsh \cup Bytemuck,
             (\E t \in Elements(Items) : WantsBytemuck(t)) => Bytemuck \subseteq All(imports'[m])
      PROVE  ImportsInv'
  <2>1. InModule
    BY <1>1, <1>4 DEF InModule
  <2>2. Before' = {}
    BY <1>4, <2>1, BeforeStep
  <2>3. Untouched' /\ HeadsImport' /\ ImportedOnce'
    BY <1>4, <2>1, Elsewhere
  <2>4. InTypesLoop'
    BY <1>1, <1>2, <1>4, <2>2 DEF InTypesLoop, Imported, All
  <2>5. QED
    BY <1>4, <2>3, <2>4 DEF ImportsInv, InBytemuckLoop
<1>5. CASE AtItem("bytemuck") /\ Import(<<Bytemuck>>) /\ Goto("types")
  <2>1. /\ imports'[m] = <<Borsh>> \o <<Bytemuck>> /\ DOMAIN imports' = DOMAIN idl
        /\ \A r \in DOMAIN idl : r # m => imports'[r] = imports[r]
    BY <1>1, <1>2, <1>5, ImportStep, UsesTyped
  <2>2. Borsh \cap Bytemuck = {}
    BY DEF Borsh, Bytemuck
  <2>3. Once(imports'[m]) /\ All(imports'[m]) = Borsh \cup Bytemuck
    <3> DEFINE x == <<Borsh>>
               y == <<Bytemuck>>
    <3>1. /\ x \in Seq(NameSets) /\ y \in Seq(NameSets) /\ imports'[m] = x \o y
          /\ All(x) = Borsh /\ All(y) = Bytemuck /\ Once(x) /\ Once(y)
      BY <2>1, Singles, UsesTyped
    <3> HIDE DEF x, y
    <3>2. QED
      BY <2>2, <3>1, ConcatImports
  <2>4. QED
    BY <1>4, <1>5, <2>1, <2>3 DEF Goto
<1>6. CASE AtEnd("bytemuck") /\ Goto("types") /\ UNCHANGED imports
  <2>1. Before = Elements(Items)
    BY <1>1, <1>6, BeforeEnd DEF AtEnd
  <2>2. QED
    BY <1>2, <1>4, <1>6, <2>1, Singles DEF Goto, TypeOK
<1>7. QED
  BY <1>3, <1>5, <1>6 DEF bytemuck_loop

(* The imports of the second loop of accounts, none of them there before. *)
LEMMA AccountsImports ==
  ASSUME TypeOK, ImportsInv, [Next]_vars, accounts_loop
  PROVE  ImportsInv'
<1> DEFINE t == Items[i]
           pubkey == has_pubkey_field(t) /\ ~ has_pubkey
           defined == has_defined_field(t) /\ ~ has_defined
           p == IF pubkey THEN <<{"Pubkey"}>> ELSE <<>>
           d == IF defined THEN <<{"crate::*"}>> ELSE <<>>
           flagged == Borsh \cup Bytemuck \cup (IF has_pubkey THEN {"Pubkey"} ELSE {})
                        \cup (IF has_defined THEN {"crate::*"} ELSE {})
<1>1. /\ pc = "types" /\ m \in DOMAIN idl /\ m = "accounts" /\ module' = module /\ idl' = idl /\ m' = m
      /\ Items' = Items /\ \A x : WantsBytemuck(x)' = WantsBytemuck(x)
  BY AtHand, Inputs DEF accounts_loop, m, Items, WantsBytemuck
<1>2. /\ Borsh \subseteq All(imports[m])
      /\ (\E x \in Elements(Items) : WantsBytemuck(x)) => Bytemuck \subseteq All(imports[m])
      /\ All(imports[m]) \subseteq flagged
      /\ has_pubkey => "Pubkey" \in All(imports[m])
      /\ has_defined => "crate::*" \in All(imports[m])
      /\ \A x \in Before : /\ has_pubkey_field(x) => has_pubkey
                           /\ has_defined_field(x) => has_defined
  BY <1>1 DEF ImportsInv, InTypesLoop, Imported, All
<1>3. imports[m] \in Seq(NameSets) /\ Once(imports[m])
  BY <1>1 DEF TypeOK, NameSets, ImportsInv, ImportedOnce, Once
<1>4. InModule
  BY <1>1, AtHand DEF accounts_loop, InModule, Goto, AtItem
<1>5. ASSUME Once(imports'[m]), DOMAIN imports' = DOMAIN idl,
             \A r \in DOMAIN idl : r # m => imports'[r] = imports[r],
             pc' = "body" => ImportsFor(m) \subseteq All(imports'[m]),
             pc' = "types" => InTypesLoop'
      PROVE  ImportsInv'
  BY <1>1, <1>4, <1>5, Elsewhere DEF accounts_loop, ImportsInv, InBytemuckLoop, InTypesLoop, Goto
<1>6. CASE AtEnd("types") /\ Goto("body") /\ UNCHANGED <<Flags, imports>>
  <2>1. Before = Elements(Items)
    BY <1>1, <1>6, BeforeEnd DEF AtEnd
  <2>2. ImportsFor(m) \subseteq All(imports[m])
    BY <1>1, <1>2, <2>1 DEF ImportsFor, Items
  <2>3. QED
    BY <1>3, <1>5, <1>6, <2>2 DEF Goto, TypeOK
<1>7. CASE /\ AtItem("types")
           /\ has_pubkey' = (has_pubkey \/ pubkey) /\ has_defined' = (has_defined \/ defined)
           /\ Import(p \o d)
           /\ IF has_pubkey' /\ has_defined' THEN Goto("body") ELSE i' = i + 1 /\ UNCHANGED pc
  <2>1. /\ p \in Seq(NameSets) /\ All(p) = (IF pubkey THEN {"Pubkey"} ELSE {}) /\ Once(p)
        /\ d \in Seq(NameSets) /\ All(d) = (IF defined THEN {"crate::*"} ELSE {}) /\ Once(d)
    BY Singles, UsesTyped, OneImport
  <2>2. All(p) \cap All(d) = {}
    BY <2>1
  <2> HIDE DEF p, d
  <2>3. p \o d \in Seq(NameSets) /\ All(p \o d) = All(p) \cup All(d) /\ Once(p \o d)
    BY <2>1, <2>2, ConcatImports
  <2>4. /\ imports'[m] = imports[m] \o (p \o d) /\ DOMAIN imports' = DOMAIN idl
        /\ \A r \in DOMAIN idl : r # m => imports'[r] = imports[r]
        /\ All(imports'[m]) = All(imports[m]) \cup All(p \o d)
    BY <1>1, <1>7, <2>3, ImportStep
  <2>5. All(imports[m]) \cap All(p \o d) = {}
    <3>1. {"Pubkey", "crate::*"} \cap (Borsh \cup Bytemuck) = {}
      BY DEF Borsh, Bytemuck
    <3>2. QED
      BY <1>2, <2>1, <2>3, <3>1
  <2>6. Once(imports'[m])
    BY <1>3, <2>3, <2>4, <2>5, ConcatImports
  <2>7. has_pubkey' => "Pubkey" \in All(imports'[m])
    BY <1>2, <1>7, <2>1, <2>3, <2>4
  <2>8. has_defined' => "crate::*" \in All(imports'[m])
    BY <1>2, <1>7, <2>1, <2>3, <2>4
  <2>9. ASSUME pc' = "body"
        PROVE  ImportsFor(m) \subseteq All(imports'[m])
    <3>1. has_pubkey' /\ has_defined'
      BY <1>1, <1>7, <2>9
    <3>2. QED
      BY <1>1, <1>2, <2>4, <2>7, <2>8, <3>1 DEF ImportsFor, Items
  <2>10. ASSUME pc' = "types"
         PROVE  InTypesLoop'
    <3>1. i' = i + 1
      BY <1>7, <2>10 DEF Goto
    <3>2. Before' = Before \cup {t}
      BY <1>4, <3>1, BeforeStep
    <3>3. \A x \in Before' : /\ has_pubkey_field(x) => has_pubkey'
                             /\ has_defined_field(x) => has_defined'
      BY <1>2, <1>7, <3>2
    <3>4. All(imports'[m]) \subseteq Borsh \cup Bytemuck \cup (IF has_pubkey' THEN {"Pubkey"} ELSE {})
                                       \cup (IF has_defined' THEN {"crate::*"} ELSE {})
      BY <1>2, <1>7, <2>1, <2>3, <2>4
    <3>5. QED
      BY <1>1, <1>2, <2>4, <2>7, <2>8, <3>3, <3>4 DEF InTypesLoop, Imported, All
  <2>11. QED
    BY <1>5, <2>4, <2>6, <2>9, <2>10
<1>8. QED
  BY <1>6, <1>7 DEF accounts_loop

LEMMA TypedefsImports ==
  ASSUME TypeOK, ImportsInv, [Next]_vars, typedefs_loop
  PROVE  ImportsInv'
<1> DEFINE p == <<{"Pubkey"}>>
<1>1. /\ pc = "types" /\ m \in DOMAIN idl /\ m = "typedefs" /\ module' = module /\ idl' = idl /\ m' = m
      /\ Items' = Items /\ has_pubkey' = has_pubkey /\ has_defined' = has_defined
      /\ \A x : WantsBytemuck(x)' = WantsBytemuck(x)
  BY AtHand, Inputs DEF typedefs_loop, m, Items, Flags, WantsBytemuck
<1>2. /\ Borsh \subseteq All(imports[m])
      /\ (\E x \in Elements(Items) : WantsBytemuck(x)) => Bytemuck \subseteq All(imports[m])
      /\ ~ has_pubkey /\ ~ has_defined
      /\ All(imports[m]) \subseteq Borsh \cup Bytemuck
      /\ \A x \in Before : ~ has_pubkey_field(x)
  BY <1>1 DEF ImportsInv, InTypesLoop, Imported, All
<1>3. imports[m] \in Seq(NameSets) /\ Once(imports[m])
  BY <1>1 DEF TypeOK, NameSets, ImportsInv, ImportedOnce, Once
<1>4. InModule
  BY <1>1, AtHand DEF typedefs_loop, InModule, Goto, AtItem
<1>5. ASSUME Once(imports'[m]), DOMAIN imports' = DOMAIN idl,
             \A r \in DOMAIN idl : r # m => imports'[r] = imports[r],
             pc' = "body" => ImportsFor(m) \subseteq All(imports'[m]),
             pc' = "types" => InTypesLoop'
      PROVE  ImportsInv'
  BY <1>1, <1>4, <1>5, Elsewhere DEF typedefs_loop, ImportsInv, InBytemuckLoop, InTypesLoop, Goto
<1>6. CASE AtEnd("types") /\ Goto("body") /\ UNCHANGED imports
  <2>1. Before = Elements(Items)
    BY <1>1, <1>6, BeforeEnd DEF AtEnd
  <2>2. ImportsFor(m) \subseteq All(imports[m])
    BY <1>1, <1>2, <2>1 DEF ImportsFor, Items
  <2>3. QED
    BY <1>3, <1>5, <1>6, <2>2 DEF Goto, TypeOK
<1>7. CASE AtItem("types") /\ ~ has_pubkey_field(Items[i]) /\ i' = i + 1 /\ UNCHANGED <<pc, imports>>
  <2>1. Before' = Before \cup {Items[i]}
    BY <1>4, <1>7, BeforeStep
  <2>2. InTypesLoop'
    BY <1>1, <1>2, <1>7, <2>1 DEF InTypesLoop, Imported, All
  <2>3. QED
    BY <1>1, <1>3, <1>5, <1>7, <2>2 DEF TypeOK
<1>8. CASE Import(p) /\ Goto("body")
  <2>1. p \in Seq(NameSets) /\ All(p) = {"Pubkey"} /\ Once(p)
    BY Singles, UsesTyped
  <2> HIDE DEF p
  <2>2. /\ imports'[m] = imports[m] \o p /\ DOMAIN imports' = DOMAIN idl
        /\ \A r \in DOMAIN idl : r # m => imports'[r] = imports[r]
        /\ All(imports'[m]) = All(imports[m]) \cup All(p)
    BY <1>1, <1>8, <2>1, ImportStep
  <2>3. All(imports[m]) \cap All(p) = {}
    BY <1>2, <2>1 DEF Borsh, Bytemuck
  <2>4. Once(imports'[m])
    BY <1>3, <2>1, <2>2, <2>3, ConcatImports
  <2>5. ImportsFor(m) \subseteq All(imports'[m])
    BY <1>1, <1>2, <2>1, <2>2 DEF ImportsFor, Items
  <2>6. QED
    BY <1>5, <1>8, <2>2, <2>4, <2>5 DEF Goto
<1>9. QED
  BY <1>6, <1>7, <1>8 DEF typedefs_loop

(* The heads of instructions and errors import all at once. *)
LEMMA HeadImports ==
  ASSUME TypeOK, ImportsInv, [Next]_vars, instructions_head \/ errors_head
  PROVE  ImportsInv'
<1> DEFINE uses == IF m = "instructions" THEN ix_imports(Elements(Items)) ELSE error_imports
<1>1. /\ pc = "head" /\ m \in DOMAIN idl /\ m \in {"instructions", "errors"} /\ module' = module /\ m' = m
      /\ Items' = Items /\ pc' = "body" /\ i' = 1 /\ Import(uses)
  BY AtHand, Inputs DEF instructions_head, errors_head, m, Items, Goto
<1>2. All(uses) = ImportsFor(m)
  BY <1>1 DEF ImportsFor, Items
<1>3. uses \in Seq(NameSets) /\ Once(uses)
  <2>1. Once(error_imports)
    BY DEF Once, error_imports
  <2>2. QED
    BY <2>1, IxImports, UsesTyped
<1> HIDE DEF uses
<1>4. InModule
  BY <1>1 DEF InModule
<1>5. imports[m] = <<>>
  BY <1>1, AtHand DEF ImportsInv, Untouched, m
<1>6. /\ imports'[m] = <<>> \o uses /\ DOMAIN imports' = DOMAIN idl
      /\ \A s \in DOMAIN idl : s # m => imports'[s] = imports[s]
  BY <1>1, <1>3, <1>5, ImportStep
<1>7. imports'[m] = uses
  BY <1>3, <1>6
<1>8. QED
  BY <1>1, <1>2, <1>3, <1>4, <1>6, <1>7, Elsewhere DEF ImportsInv, InBytemuckLoop, InTypesLoop

LEMMA BodyImports ==
  ASSUME TypeOK, ImportsInv, [Next]_vars, gen_body
  PROVE  ImportsInv'
<1>1. /\ pc = "body" /\ pc' = "body" /\ i' = i + 1 /\ i <= Len(Items) /\ module' = module
      /\ imports' = imports /\ idl' = idl
  BY Inputs DEF gen_body, AtItem
<1>2. m \in DOMAIN idl /\ module \in 1 .. 4
  BY <1>1, AtHand
<1>3. InModule
  BY <1>1 DEF InModule, m, Items
<1>4. ImportsFor(m) \subseteq All(imports[m]) /\ Once(imports[m])
  BY <1>1, <1>2 DEF ImportsInv, HeadsImport, ImportedOnce, Once, Imported, All, m
<1>5. QED
  BY <1>1, <1>2, <1>3, <1>4, Elsewhere DEF TypeOK, ImportsInv, InBytemuckLoop, InTypesLoop

LEMMA NextImports ==
  ASSUME TypeOK, ImportsInv, [Next]_vars, next_module
  PROVE  ImportsInv'
<1>1. idl' = idl /\ imports' = imports /\ pc' \in {"head", "done"} /\ \A s : ImportsFor(s)' = ImportsFor(s)
  BY Inputs, SameInputs, NextModule
<1>2. Untouched'
  BY <1>1, NextModule DEF ImportsInv, Untouched
<1>3. HeadsImport'
  <2>1. ASSUME NEW j \in 1 .. 4, Order[j] \in DOMAIN idl, Passed(j)'
        PROVE  ImportsFor(Order[j]) \subseteq Imported(Order[j])
    <3>1. Passed(j) \/ (j = module /\ pc = "body")
      BY <2>1, NextModule DEF Passed, TypeOK
    <3>2. QED
      BY <2>1, <3>1 DEF ImportsInv, HeadsImport
  <2>2. QED
    BY <1>1, <2>1 DEF HeadsImport, Imported
<1>4. ImportedOnce'
  BY <1>1 DEF ImportsInv, ImportedOnce
<1>5. QED
  BY <1>1, <1>2, <1>3, <1>4 DEF ImportsInv, InBytemuckLoop, InTypesLoop

LEMMA ImportsStep ==
  ASSUME TypeOK, ImportsInv, [Next]_vars
  PROVE  ImportsInv'
<1>1. CASE UNCHANGED vars
  <2>1. /\ idl' = idl /\ zero_copy' = zero_copy /\ module' = module /\ pc' = pc /\ i' = i
        /\ has_pubkey' = has_pubkey /\ has_defined' = has_defined /\ imports' = imports
    BY <1>1 DEF vars
  <2>2. /\ m' = m /\ Items' = Items /\ \A s : ImportsFor(s)' = ImportsFor(s)
        /\ \A t : WantsBytemuck(t)' = WantsBytemuck(t)
    BY <2>1, SameInputs DEF m, Items, WantsBytemuck
  <2>3. Before' = Before /\ Imported(m)' = Imported(m) /\ \A s : Imported(s)' = Imported(s)
    BY <2>1, <2>2 DEF Before, Imported
  <2>4. Untouched'
    BY <2>1 DEF ImportsInv, Untouched
  <2>5. InBytemuckLoop'
    BY <2>1, <2>2, <2>3 DEF ImportsInv, InBytemuckLoop
  <2>6. InTypesLoop'
    BY <2>1, <2>2, <2>3 DEF ImportsInv, InTypesLoop
  <2>7. HeadsImport'
    BY <2>1, <2>2, <2>3 DEF ImportsInv, HeadsImport, Passed
  <2>8. ImportedOnce'
    BY <2>1 DEF ImportsInv, ImportedOnce
  <2>9. QED
    BY <2>4, <2>5, <2>6, <2>7, <2>8 DEF ImportsInv
<1>2. ASSUME NEW s \in {"accounts", "typedefs"}, bytemuck_loop(s) PROVE ImportsInv'
  BY <1>2, BytemuckImports
<1>3. QED
  BY <1>1, <1>2, BorshImports, AccountsImports, TypedefsImports, HeadImports, BodyImports, NextImports
     DEF Next, Terminated

-----------------------------------------------------------------------------
(* The theorems *)

LEMMA InitIInv == Init => IInv
<1> SUFFICES ASSUME Init PROVE IInv
  OBVIOUS
<1>1. /\ module = 0 /\ pc = "start" /\ \A s \in DOMAIN idl : imports[s] = <<>> /\ names[s] = {}
  BY DEF Init
<1>2. <<>> \in Seq(SUBSET Importable)
  OBVIOUS
<1>3. TypeOK
  <2>1. imports \in [DOMAIN idl -> Seq(SUBSET Importable)]
    <3> DEFINE T == Seq(SUBSET Importable)
    <3>1. <<>> \in T
      BY <1>2
    <3> HIDE DEF T
    <3>2. imports \in [DOMAIN idl -> T]
      BY <3>1 DEF Init
    <3>3. QED
      BY <3>2 DEF T
  <2>2. DOMAIN defines = DOMAIN idl /\ DOMAIN names = DOMAIN idl
    BY DEF Init
  <2>3. /\ idl \in Idls /\ zero_copy \in ZeroCopies /\ i = 1
        /\ has_pubkey = FALSE /\ has_defined = FALSE
    BY Zenon DEF Init
  <2>4. module \in 0 .. 4 /\ i \in Nat \ {0}
    BY <1>1, <2>3
  <2>5. has_pubkey \in BOOLEAN /\ has_defined \in BOOLEAN
    BY <2>3, Zenon
  <2>6. QED
    BY <1>1, <2>1, <2>2, <2>3, <2>4, <2>5 DEF TypeOK
<1>4. NamesBounded /\ AllSeen
  BY <1>1 DEF NamesBounded, AllSeen
<1>5. DefinesInv
  BY <1>1 DEF DefinesInv, PassedDefine, BodyDefines, Passed
<1>6. ImportsInv
  BY <1>1 DEF ImportsInv, Untouched, InBytemuckLoop, InTypesLoop, HeadsImport, Passed, ImportedOnce
<1>7. QED
  BY <1>3, <1>4, <1>5, <1>6 DEF IInv

(* The loops of the heads keep their promises, for every IDL and every -z. *)
THEOREM Invariance == Spec => []IInv
<1>1. IInv /\ [Next]_vars => IInv'
  BY TypeStep, NamesStep, SeenStep, DefinesStep, ImportsStep DEF IInv
<1>2. QED
  BY <1>1, InitIInv, PTL DEF Spec

(* A loop never runs past its items. *)
THEOREM TypeCorrect == Spec => []TypeOK
<1>1. IInv => TypeOK
  BY DEF IInv
<1>2. QED
  BY <1>1, Invariance, PTL

(* Every name in the generated crate is defined or imported where it is used, *)
(* but that of a type conditional_pascal_case renames: the bodies name what   *)
(* Target allows, and by the end every head has imported and every body       *)
(* defined its share of it.                                                   *)
THEOREM HeadsSuffice == Spec => []NamesAreImported
<1>1. IInv => NamesAreImported
  <2> SUFFICES ASSUME IInv, pc = "done", NEW s \in DOMAIN idl
               PROVE  names[s] \subseteq Resolvable(s) \cup Renamed(idl)
    BY DEF NamesAreImported
  <2>1. \A r \in DOMAIN idl : \E j \in 1 .. 4 : Order[j] = r
    BY Positions, Sections DEF IInv, TypeOK
  <2>2. \A j \in 1 .. 4 : Order[j] \in DOMAIN idl => Passed(j)
    BY DEF IInv, AllSeen, Passed, TypeOK
  <2>3. \A r \in DOMAIN idl : ImportsFor(r) \subseteq Imported(r) /\ AllDefines(r) \subseteq defines[r]
    BY <2>1, <2>2 DEF IInv, ImportsInv, HeadsImport, DefinesInv, PassedDefine
  <2>4. UNION {AllDefines(r) : r \in DOMAIN idl} \subseteq UNION {defines[r] : r \in DOMAIN idl}
    BY <2>3
  <2>5. Target(s) \subseteq Resolvable(s) \cup Renamed(idl)
    BY <2>3, <2>4 DEF Target, Resolvable
  <2>6. QED
    BY <2>5 DEF IInv, NamesBounded
<1>2. QED
  BY <1>1, Invariance, PTL

(* No module imports a name twice. *)
THEOREM ImportsOnce == Spec => []ImportedOnce
<1>1. IInv => ImportedOnce
  BY DEF IInv, ImportsInv
<1>2. QED
  BY <1>1, Invariance, PTL
=============================================================================

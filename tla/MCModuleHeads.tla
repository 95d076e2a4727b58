---------------------------- MODULE MCModuleHeads ----------------------------
(***************************************************************************)
(* ModuleHeads for TLC: two accounts and two types of every shape, over    *)
(* IDLs that have the other sections or not.  A type that is defined       *)
(* elsewhere is one of the section "types", where Anchor puts them.        *)
(***************************************************************************)
EXTENDS ModuleHeads, SequencesExt

Plain(name, in) == [name |-> name, defined |-> FALSE, in |-> in]

DefinedType(name, in) == [name |-> name, defined |-> TRUE, in |-> in]

(* A pubkey in both of its spellings, a type of the IDL, and neither. *)
MCFieldLists ==
  {<<>>, <<Plain("u64", {"array"})>>, <<Plain("publicKey", {"option"})>>, <<DefinedType("T", {})>>,
   <<Plain("pubkey", {}), DefinedType("T", {"array", "option"})>>}

(* What makes a type that derives Copy not compile. *)
MCDynamicLists == {<<Plain("u8", {"vec"})>>, <<Plain("u64", {}), Plain("string", {})>>}

Types(name, lists, serializations) ==
  [name : {name}, kind : {"struct"}, variants : {<<fields>> : fields \in lists},
   serialization : serializations]
    \cup [name : {name}, kind : {"enum"}, variants : {<<<<>>, fields>> : fields \in lists},
          serialization : {"none"}]

Serializations == {"none", "bytemuck", "bytemuckunsafe"}

Pairs(A, B) == {<<a, b>> : a \in A, b \in B}

AccountLists ==
  {<<>>} \cup Pairs(Types("A", MCFieldLists, Serializations), Types("B", MCFieldLists, Serializations))

TypeLists ==
  Pairs(Types("T", MCFieldLists, Serializations), Types("U", MCFieldLists, Serializations))

OneType == <<[name |-> "T", kind |-> "struct", variants |-> <<<<>>>>, serialization |-> "none"]>>

Ixs(name) ==
  [name : {name}, args : MCFieldLists, accounts : {"none", "plain", "privileged"}]

IxLists == {<<a>> : a \in Ixs("F")} \cup Pairs(Ixs("F"), Ixs("G"))

Errors == <<"E">>

(* An account and a type that are defined by other names than the IDL has  *)
(* for them, the type named by the account, by itself and by an argument.  *)
RenamedLists == {<<DefinedType("swapResult", {"vec"})>>, <<DefinedType("T", {})>>, <<>>}

RenamedIdls ==
  {[accounts |-> <<a>>, typedefs |-> <<t>> \o OneType, instructions |-> <<x>>] :
     a \in Types("pool", RenamedLists, {"none"}),
     t \in Types("swapResult", RenamedLists, Serializations),
     x \in [name : {"F"}, args : RenamedLists, accounts : {"none"}]}

MCUppercase == {"A", "B", "T", "U"}

MCPascalCase(s) ==
  CASE s = "swapResult" -> "SwapResult"
    [] s = "pool"       -> "Pool"

(* One section varies, the others are there. *)
MCIdls ==
  {[accounts |-> a, typedefs |-> OneType, errors |-> Errors] : a \in AccountLists}
    \cup {[typedefs |-> t] : t \in TypeLists}
    \cup {[typedefs |-> OneType, instructions |-> x, errors |-> Errors] : x \in IxLists}
    \cup RenamedIdls
    \cup {[accounts |-> <<>>], [errors |-> <<>>], [s \in {} |-> <<>>]}

(* The same with fields of dynamic size. *)
MCDynamicIdls ==
  {[accounts |-> <<a>>, typedefs |-> OneType] :
     a \in Types("A", MCFieldLists \cup MCDynamicLists, Serializations)}

MCZeroCopies == {{}, {"A", "T"}, {"B", "U"}}
=============================================================================

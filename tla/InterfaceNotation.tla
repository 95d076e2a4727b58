-------------------------- MODULE InterfaceNotation --------------------------
(***************************************************************************)
(* How the modules with the interfaces of the examples are written: the    *)
(* types of arguments and account data, the accounts of an instruction,    *)
(* and the instruction as a whole.                                         *)
(*                                                                         *)
(* An instruction is what all the code emitted for it is determined by:    *)
(* its discriminator, its accounts in order and with their privileges, and *)
(* the types of its arguments.  What that code does is in IxInterface and  *)
(* IxData.                                                                 *)
(***************************************************************************)
EXTENDS Naturals, Sequences

(* A type that takes the same number of bytes whatever its value. *)
Fixed(n) == <<"fixed", n>>

u8 == Fixed(1)
u16 == Fixed(2)
u32 == Fixed(4)
u64 == Fixed(8)
u128 == Fixed(16)
i8 == Fixed(1)
i16 == Fixed(2)
i32 == Fixed(4)
i64 == Fixed(8)
i128 == Fixed(16)
Pubkey == Fixed(32)

Bool == <<"bool">>

Option(t) == <<"option", t>>

Array(t, n) == <<"array", t, n>>

(* A struct with fields of types ts; their names do not show in the data.  *)
Struct(ts) == <<"struct", ts>>

(* An enum; a variant is the sequence of the types of its fields. *)
Enum(vs) == <<"enum", vs>>

UnitEnum(n) == Enum([j \in 1 .. n |-> <<>>])

-----------------------------------------------------------------------------
(* An account: read-only, writable, a signer, or both. *)
ro(x) == [field |-> x, flags |-> {}]

mut(x) == [field |-> x, flags |-> {"writable"}]

sig(x) == [field |-> x, flags |-> {"signer"}]

mutsig(x) == [field |-> x, flags |-> {"writable", "signer"}]

Ix(discm, accounts, args) == [discm |-> discm, accounts |-> accounts, args |-> args]

(* An account type: its data are the discriminator and one struct. *)
Account(discm, struct) == [discm |-> discm, accounts |-> <<>>, args |-> <<struct>>]
=============================================================================

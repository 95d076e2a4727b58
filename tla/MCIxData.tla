------------------------------- MODULE MCIxData -------------------------------
(***************************************************************************)
(* IxData for TLC: all instructions and accounts of the checked-in         *)
(* interfaces, each with a few values of its arguments.                    *)
(***************************************************************************)
EXTENDS IxData, Borsh

Drift == INSTANCE DriftInterface
Marinade == INSTANCE MarinadeInterface
Unstake == INSTANCE UnstakeInterface
CpSwap == INSTANCE RaydiumCpSwapInterface
Cpmm == INSTANCE RaydiumCpmmInterface
Examples == INSTANCE IxExamples

Instructions(seq) == [of |-> seq, decoders |-> {"IxData", "ProgramIx"}]

AccountTypes(seq) == [of |-> seq, decoders |-> {"IxData"}]

MCPrograms ==
  {Instructions(Drift!DriftProgramIx), AccountTypes(Drift!Accounts),
   Instructions(Marinade!MarinadeFinanceProgramIx), AccountTypes(Marinade!Accounts),
   Instructions(Unstake!UnstakeProgramIx), AccountTypes(Unstake!Accounts),
   Instructions(CpSwap!RaydiumCpSwapProgramIx), Instructions(Cpmm!RaydiumCpSwapProgramIx),
   Instructions(<<Examples!blank_ix>>), Instructions(<<Examples!no_accounts_ix>>),
   Instructions(<<Examples!no_accounts_pubkey_arg_ix>>), Instructions(<<Examples!no_args_ix>>),
   Instructions(<<Examples!no_privileged_account_ix>>)}

RECURSIVE Least(_), Greatest(_)

(* Two values of a type: one of zeros, and one whose bytes all differ.     *)
Least(t) ==
  CASE t[1] = "fixed"  -> [j \in 1 .. t[2] |-> 0]
    [] t[1] = "bool"   -> <<0>>
    [] t[1] = "option" -> <<>>
    [] t[1] = "array"  -> [j \in 1 .. t[3] |-> Least(t[2])]
    [] t[1] = "struct" -> [j \in DOMAIN t[2] |-> Least(t[2][j])]
    [] t[1] = "enum"   -> <<1, Least(Struct(t[2][1]))>>

Greatest(t) ==
  CASE t[1] = "fixed"  -> [j \in 1 .. t[2] |-> 256 - j]
    [] t[1] = "bool"   -> <<1>>
    [] t[1] = "option" -> <<Greatest(t[2])>>
    [] t[1] = "array"  -> [j \in 1 .. t[3] |-> Greatest(t[2])]
    [] t[1] = "struct" -> [j \in DOMAIN t[2] |-> Greatest(t[2][j])]
    [] t[1] = "enum"   -> <<Len(t[2]), Greatest(Struct(t[2][Len(t[2])]))>>

(* The least, the greatest, and both in turn. *)
MCValues(ts) ==
  {[j \in DOMAIN ts |-> Least(ts[j])], [j \in DOMAIN ts |-> Greatest(ts[j])],
   [j \in DOMAIN ts |-> IF j % 2 = 0 THEN Least(ts[j]) ELSE Greatest(ts[j])]}

(* The right one and another one, if there is one. *)
MCExpected(p, j) == {j, (j % Len(p.of)) + 1}

(* The discriminator, a first argument, everything. *)
MCRooms == {0, 7, 8, 9, 20, 10000}

(* Nothing, and what is no option, no enum and no bool. *)
MCLeftovers == {<<>>, [j \in 1 .. 40 |-> 200]}

MCEncode(ts, vs) == Bytes(Struct(ts), vs)

MCDecode(ts, bytes) ==
  LET read == Read(Struct(ts), bytes) IN [ok |-> read.ok, values |-> read.value]
=============================================================================

---------------------------- MODULE MCIxInterface ----------------------------
(***************************************************************************)
(* IxInterface for TLC: every list of up to two accounts, in every         *)
(* situation with two addresses, so that one account may be passed twice;  *)
(* and the account lists of all checked-in interfaces, in the situations   *)
(* where one thing is wrong.                                               *)
(***************************************************************************)
EXTENDS IxInterface, Functions

Drift == INSTANCE DriftInterface
Marinade == INSTANCE MarinadeInterface
Unstake == INSTANCE UnstakeInterface
CpSwap == INSTANCE RaydiumCpSwapInterface
Cpmm == INSTANCE RaydiumCpmmInterface
Examples == INSTANCE IxExamples

Interfaces ==
  UNION {Range(p) : p \in {Drift!DriftProgramIx, Marinade!MarinadeFinanceProgramIx,
                            Unstake!UnstakeProgramIx, CpSwap!RaydiumCpSwapProgramIx,
                            Cpmm!RaydiumCpSwapProgramIx}}
    \cup {Examples!blank_ix, Examples!no_accounts_ix, Examples!no_accounts_pubkey_arg_ix,
          Examples!no_args_ix, Examples!no_privileged_account_ix}

ExampleLists == {x.accounts : x \in Interfaces}

SmallLists ==
  UNION {{[j \in 1 .. n |-> [field |-> <<"from", "to">>[j], flags |-> fs[j]]] :
            fs \in [1 .. n -> SUBSET Flags]} : n \in 0 .. 2}

MCInstructions == SmallLists \cup ExampleLists

MCIdents == UNION {{as[j].field : j \in DOMAIN as} : as \in MCInstructions}

MCAddresses == 0 .. 32

MCSeedSets == {{}, {1}}

-----------------------------------------------------------------------------
(* Any keys and any privileges, over two addresses. *)
AnySituations(n) ==
  {[given   |-> [j \in 1 .. n |-> [key |-> at[j], flags |-> held[at[j]]]],
    pubkeys |-> expected] :
     at \in [1 .. n -> 1 .. 2], held \in [1 .. 2 -> SUBSET Flags],
     expected \in [1 .. n -> 1 .. 2]}

(* Account j has key j and the privileges that are asked for it. *)
Good(as) == [j \in DOMAIN as |-> [key |-> j, flags |-> as[j].flags]]

(* One account lacks a privilege that is asked for it. *)
Lacking(as) ==
  {[given |-> [Good(as) EXCEPT ![j].flags = @ \ {flag}], pubkeys |-> [h \in DOMAIN as |-> h]] :
     j \in DOMAIN as, flag \in Flags}

(* One or two keys are not the expected ones. *)
Mismatched(as) ==
  {[given |-> Good(as), pubkeys |-> [h \in DOMAIN as |-> IF h \in {j, Len(as)} THEN 0 ELSE h]] :
     j \in DOMAIN as}

(* The account at j is passed for the one before it too. *)
Doubled(as) ==
  {[given   |-> [Good(as) EXCEPT ![j - 1] = Good(as)[j]],
    pubkeys |-> [h \in DOMAIN as |-> IF h = j - 1 THEN j ELSE h]] :
     j \in 2 .. Len(as)}

MCSituations(as) ==
  IF as \in SmallLists
    THEN AnySituations(Len(as))
    ELSE Lacking(as) \cup Mismatched(as) \cup Doubled(as)
           \cup {[given |-> Good(as), pubkeys |-> [h \in DOMAIN as |-> h]]}
=============================================================================

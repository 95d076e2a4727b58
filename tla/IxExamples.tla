----------------------------- MODULE IxExamples -----------------------------
(***************************************************************************)
(* The checked-in interfaces of the examples with one instruction each,    *)
(* examples/anchor/ix_*.                                                   *)
(***************************************************************************)
EXTENDS InterfaceNotation

blank_ix == Ix(<<29, 47, 197, 250, 126, 165, 198, 197>>, <<>>, <<>>)

no_accounts_ix == Ix(<<195, 226, 242, 196, 225, 147, 32, 41>>, <<>>, <<u8>>)

no_accounts_pubkey_arg_ix == Ix(<<184, 145, 219, 5, 131, 41, 20, 197>>, <<>>, <<Pubkey>>)

no_args_ix == Ix(<<112, 123, 142, 129, 200, 92, 216, 55>>, <<mut("b")>>, <<>>)

no_privileged_account_ix == Ix(<<137, 46, 202, 239, 43, 151, 145, 176>>, <<ro("a")>>, <<u8>>)
=============================================================================

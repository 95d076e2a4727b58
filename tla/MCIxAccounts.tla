----------------------------- MODULE MCIxAccounts -----------------------------
(***************************************************************************)
(* IxAccounts for TLC: all lists of at most three entries, among them      *)
(* groups with one or two accounts or with none, and groups in groups.     *)
(***************************************************************************)
EXTENDS IxAccounts

Account(n, f) == [name |-> n, flags |-> f, accounts |-> Absent]

Group(n, es) == [name |-> n, flags |-> {}, accounts |-> es]

(* A group serde does not take for an account: it has a null "isMut". *)
OddGroup(n, es) == [name |-> n, flags |-> Unreadable, accounts |-> es]

pool == <<<<"pool", "_">>>>
mint == <<<<"mint", "_">>>>
pool_mint == <<<<"pool", "_">>, <<"mint", "_">>>>
poolMint == <<<<"pool", "_">>, <<"mint", "^">>>>

Leaves == {Account(pool, {"signer"}), Account(mint, {"writable"}), Account(mint, {}),
           Account(poolMint, Flags), Account(pool_mint, {})}

Innermost == {<<Account(mint, {"writable"})>>,
              <<Account(mint, {}), Account(pool, {"signer"})>>, <<>>}

Inner == Innermost \cup {<<OddGroup(poolMint, es)>> : es \in Innermost}

Groups == {Group(pool, es) : es \in Inner} \cup {OddGroup(pool, es) : es \in Inner}

(* An entry that is neither an account nor a group. *)
Wrong == Account(mint, Unreadable)

MCLists == Inner \cup BoundedSeq(Leaves \cup Groups, 3) \cup {<<Wrong>>}

mintPool == <<<<"mint", "_">>, <<"pool", "^">>>>

(* The form of "initialize" in examples/anchor/marinade/idl.json:44: an    *)
(* account, then a group with a name and its accounts, nothing else.       *)
InLiqPool == {<<Account(mint, {"writable"})>>,
              <<Account(mint, {}), Account(poolMint, {"signer"})>>}

MCMarinade == InLiqPool \cup {<<Account(mintPool, {}), Group(pool, es)>> : es \in InLiqPool}

MCWords == {"pool", "mint"}

MCDepth[es \in Lists] ==
  LET inner(j) == IF es[j].accounts = Absent THEN 0 ELSE MCDepth[es[j].accounts]
  IN  1 + FoldLeftDomain(LAMBDA n, j : IF inner(j) > n THEN inner(j) ELSE n, 0, es)

-----------------------------------------------------------------------------

(* The names of the accounts of a list, those inside its groups included.  *)
AccountNames[es \in Lists] ==
  UNION {IF es[j].accounts = Absent THEN {es[j].name} ELSE AccountNames[es[j].accounts] :
           j \in DOMAIN es}

(* CHANGELOG.md:155, "Handle inner `Accounts<'_>` struct for anchor": no   *)
(* account of a group is left out, each has a field with its name at the   *)
(* end (after that of its groups).                                         *)
InnerAccountsHaveFields ==
  pc = "emitted" =>
    \A n \in AccountNames[entries] :
      \E j \in DOMAIN emitted.fields : IsSuffix(to_snake_case(n), emitted.fields[j])
=============================================================================

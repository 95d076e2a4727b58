------------------------------ MODULE IxAccounts ------------------------------
(***************************************************************************)
(* From the "accounts" of an instruction in the IDL to the interface that  *)
(* is generated for them: deserialization, the flattening of groups of     *)
(* accounts, the search for accounts with the same name, and what the      *)
(* emitted structs and functions are made of.                              *)
(*                                                                         *)
(* A name is a sequence of words, each with how it is set off from what    *)
(* comes before it: by an underscore or a capital letter (the first word:  *)
(* by nothing or a capital letter).  This is what heck's to_snake_case     *)
(* reads and what two spellings of one name differ in.                     *)
(***************************************************************************)
EXTENDS Naturals, SequencesExt

CONSTANTS
  Words,       \* the words that names consist of
  Absent,      \* no "accounts" key
  Unreadable,  \* a flag of the entry is there and is no boolean
  Lists,       \* the values of the "accounts" keys of an IDL, inner ones too
  Depth        \* how deep the groups in each of them are nested

Names == Seq(Words \X {"_", "^"}) \ {<<>>}

Flags == {"writable", "signer"}

(* An object in such a list: an account, or a group if it has "accounts".  *)
JsonEntry == [name     : Names,
              flags    : (SUBSET Flags) \cup {Unreadable},
              accounts : Lists \cup {Absent}]

IxAccount == [name : Names, flags : SUBSET Flags]

ASSUME ListsAssumption ==
  /\ Lists \subseteq Seq(JsonEntry)
  /\ Absent \notin Lists
  /\ \A fs \in SUBSET Flags : fs # Unreadable

(* JSON text is finite. *)
ASSUME DepthAssumption ==
  /\ Depth \in [Lists -> Nat]
  /\ \A es \in Lists : \A j \in DOMAIN es :
       es[j].accounts # Absent => Depth[es[j].accounts] < Depth[es]

VARIABLES
  entries,     \* the list of the instruction
  pc,          \* where the generator is
  accounts,    \* what to_ix_accounts has returned
  i, hashes, unique, duplicates,  \* the loop of unique_by_report_dups
  emitted      \* the interface

(* Accounts are compared by name, as it is spelled in the IDL. *)
raw_name(a) == a.name

Dedup == INSTANCE UniqueByReportDups
           WITH T <- IxAccount, f <- raw_name, vals <- accounts

vars == <<entries, pc, accounts, i, hashes, unique, duplicates, emitted>>

Nothing == [len |-> 0, fields |-> <<>>, metas |-> <<>>, writables |-> <<>>, signers |-> <<>>]

-----------------------------------------------------------------------------
(* Deserialization: IxAccountEntry is untagged, so serde tries IxAccount   *)
(* first, and that asks for a name only.                                   *)
IsAccount(e) == e.flags # Unreadable

Deserializes[es \in Lists] ==
  \A j \in DOMAIN es :
    \/ IsAccount(es[j])
    \/ es[j].accounts # Absent /\ Deserializes[es[j].accounts]

(* Vec<IxAccountEntry> *)
IxAccountEntries == {es \in Lists : Deserializes[es]}

-----------------------------------------------------------------------------
(* The account list *)

to_snake_case(n) == [j \in DOMAIN n |-> <<n[j][1], "_">>]

(* format!("{}_{}", s, name.to_snake_case()) for the accounts of group s.  *)
prefixed(s, as) ==
  [j \in DOMAIN as |-> [as[j] EXCEPT !.name = s \o to_snake_case(@)]]

to_ix_accounts[es \in IxAccountEntries] ==
  FlattenSeq([j \in DOMAIN es |->
    IF IsAccount(es[j])
      THEN <<[name |-> es[j].name, flags |-> es[j].flags]>>
      ELSE prefixed(es[j].name, to_ix_accounts[es[j].accounts])])

has_accounts(es) == es # <<>>

(* Mutant: the accounts of a group are not looked at. *)
has_privileged_accounts_flat(es) ==
  \E j \in DOMAIN es : IsAccount(es[j]) /\ es[j].flags # {}

has_privileged_accounts(es) ==
  LET any[l \in IxAccountEntries] ==
        \E j \in DOMAIN l :
          IF IsAccount(l[j]) THEN l[j].flags # {} ELSE any[l[j].accounts]
  IN  any[es]

field_ident(a) == to_snake_case(a.name)

(* The fields of the accounts of `as` that need privilege f, in order.     *)
Privileged(as, f) ==
  FlattenSeq([j \in DOMAIN as |-> IF f \in as[j].flags THEN <<field_ident(as[j])>> ELSE <<>>])

(* The fields of the Accounts and Keys structs.  The conversions to and    *)
(* from arrays take the accounts in the same order, the one of `as`.       *)
fields(as) == [j \in DOMAIN as |-> field_ident(as[j])]

(* The flags of the AccountMetas. *)
metas(as) == [j \in DOMAIN as |-> as[j].flags]

(* What the write_ functions emit; the last two are what the functions     *)
(* that verify privileges loop over.                                       *)
Interface(es, as) ==
  [len       |-> Len(as),
   fields    |-> fields(as),
   metas     |-> metas(as),
   writables |-> IF has_privileged_accounts(es) THEN Privileged(as, "writable") ELSE <<>>,
   signers   |-> IF has_privileged_accounts(es) THEN Privileged(as, "signer") ELSE <<>>]

-----------------------------------------------------------------------------
Init ==
  /\ entries \in Lists
  /\ pc = "load"
  /\ accounts = <<>>
  /\ Dedup!Start
  /\ emitted = Nothing

(* The list deserializes as Vec<IxAccountEntry>, or load_idl panics. *)
Load ==
  /\ pc = "load"
  /\ pc' = IF Deserializes[entries] THEN "flatten" ELSE "rejected"
  /\ UNCHANGED <<entries, accounts, i, hashes, unique, duplicates, emitted>>

Flatten ==
  /\ pc = "flatten"
  /\ accounts' = to_ix_accounts[entries]
  /\ pc' = "unique"
  /\ UNCHANGED <<entries, i, hashes, unique, duplicates, emitted>>

(* The search for duplicates, one turn of its loop. *)
unique_by_report_dups ==
  /\ pc = "unique"
  /\ Dedup!Turn
  /\ UNCHANGED <<entries, pc, accounts, emitted>>

(* NamedInstruction::to_tokens after the loop: panic!(), or the write_     *)
(* functions, each of which returns at once if there are no accounts.      *)
Emit ==
  /\ pc = "unique"
  /\ Dedup!Finished
  /\ IF duplicates # <<>>
       THEN pc' = "panicked" /\ UNCHANGED emitted
       ELSE /\ pc' = "emitted"
            /\ emitted' = IF has_accounts(entries)
                            THEN Interface(entries, accounts) ELSE emitted
  /\ UNCHANGED <<entries, accounts, i, hashes, unique, duplicates>>

Terminated == pc \in {"rejected", "panicked", "emitted"} /\ UNCHANGED vars

Next == Load \/ Flatten \/ unique_by_report_dups \/ Emit \/ Terminated

Spec == Init /\ [][Next]_vars

-----------------------------------------------------------------------------
(* Properties *)

TypeOK ==
  /\ entries \in Lists
  /\ pc \in {"load", "flatten", "unique", "rejected", "panicked", "emitted"}
  /\ accounts \in Seq(IxAccount)
  /\ i \in 1 .. Len(accounts) + 1
  /\ hashes \subseteq Names
  /\ unique \in Seq(IxAccount) /\ duplicates \in Seq(IxAccount)

(* After every turn of the search, unique has the first account of every   *)
(* name, in order, ...                                                     *)
UniqueIsFirsts == Dedup!UniqueIsFirsts

(* ... no account is lost, and duplicates has something exactly if a name  *)
(* has come twice.                                                         *)
DuplicatesAreReported == Dedup!DuplicatesAreReported

SameName == \E a, b \in DOMAIN accounts : a # b /\ accounts[a].name = accounts[b].name

(* Generation stops over accounts with the same name, wherever in the list *)
(* and in whatever group they are, and over nothing else.                  *)
DuplicatesPanic ==
  /\ pc = "panicked" => SameName
  /\ pc = "emitted" => ~ SameName

(* The fields of the emitted structs have different names. *)
Compiles ==
  \A a, b \in DOMAIN emitted.fields : a # b => emitted.fields[a] # emitted.fields[b]

(* The privileges that are verified are those the AccountMetas will ask    *)
(* for: what one walks the groups for and the other the flat list agree.   *)
VerifiedIsAskedFor ==
  pc = "emitted" /\ Compiles =>
    \A j \in DOMAIN emitted.fields :
      /\ "writable" \in emitted.metas[j] <=> emitted.fields[j] \in ToSet(emitted.writables)
      /\ "signer" \in emitted.metas[j] <=> emitted.fields[j] \in ToSet(emitted.signers)
=============================================================================

------------------------------ MODULE IxInterface ------------------------------
(***************************************************************************)
(* The interface that is generated for one instruction, at run time: a     *)
(* program on chain unpacks the accounts it was given, may have them       *)
(* verified, and calls the instruction (README, "Usage").                  *)
(*                                                                         *)
(* The loops of the emitted functions are modelled turn by turn.  The      *)
(* emitted structs are functions of field names, so that what is emitted   *)
(* by position and what is emitted by name has to fit together.  The       *)
(* caller and the runtime, which checks the privileges of a call between   *)
(* programs, are external.                                                 *)
(***************************************************************************)
EXTENDS Integers, Sequences

CONSTANTS
  Idents,       \* field names
  Addresses,    \* public keys
  Instructions, \* the account lists of the instructions
  Situations(_),  \* for an account list, what a program may have been given
  SeedSets      \* sets of addresses that the seeds of a call may give

Flags == {"writable", "signer"}

(* An account of the instruction, as IxAccounts ends up with it. *)
IxAccount == [field : Idents, flags : SUBSET Flags]

AccountInfo == [key : Addresses, flags : SUBSET Flags]

AccountMeta == [pubkey : Addresses, flags : SUBSET Flags]

(* The fields of a struct that rustc accepts have different names. *)
ASSUME InstructionsAssumption ==
  /\ Instructions \subseteq Seq(IxAccount)
  /\ \A as \in Instructions : \A h, j \in DOMAIN as :
       as[h].field = as[j].field => h = j

(* The runtime hands out one AccountInfo for an account, however often the *)
(* account is passed.                                                      *)
ASSUME SituationsAssumption ==
  \A as \in Instructions : \A s \in Situations(as) :
    /\ s.given \in [DOMAIN as -> AccountInfo]
    /\ s.pubkeys \in [DOMAIN as -> Addresses]
    /\ \A h, j \in DOMAIN as : s.given[h].key = s.given[j].key => s.given[h] = s.given[j]

ASSUME SeedsAssumption == SeedSets \subseteq SUBSET Addresses

VARIABLES
  ix,        \* the account list of the instruction
  given,     \* the array of AccountInfos the program was given
  pubkeys,   \* the array of keys it expects
  keys,      \* the Keys struct of them, which the accounts are verified against
  pc,        \* the function that is running, "ready" if it is the caller
  accounts,  \* the Accounts struct
  todo,      \* the accounts a loop has not looked at yet
  verified,  \* the verifications that have returned Ok(())
  error,     \* what the one that has not returned
  metas, infos, signed  \* arguments of the call: accounts, AccountInfos, PDAs

callVars == <<metas, infos, signed>>

inputs == <<ix, given, pubkeys, keys>>

vars == <<ix, given, pubkeys, keys, pc, accounts, todo, verified, error, metas, infos, signed>>

None == [at |-> 0, lacks |-> "nothing"]

Positions == DOMAIN ix

Fields == {ix[j].field : j \in Positions}

has_accounts == ix # <<>>

Needing(flag) == {j \in Positions : flag \in ix[j].flags}

has_privileged_accounts == Needing("writable") \cup Needing("signer") # {}

(* Mutant: loops go backwards. *)
Next_is_last(j) == j \in todo /\ \A h \in todo : h <= j

(* The turn of a loop that looks at j; loops go in the order of the IDL.   *)
Next_is(j) == j \in todo /\ \A h \in todo : j <= h

-----------------------------------------------------------------------------

Init ==
  /\ ix \in Instructions
  /\ \E s \in Situations(ix) : given = s.given /\ pubkeys = s.pubkeys
  /\ keys = <<>>
  /\ pc = "start"
  /\ accounts = <<>>
  /\ todo = {}
  /\ verified = {}
  /\ error = None
  /\ metas = <<>>
  /\ infos = <<>>
  /\ signed = {}

(* Mutant: the index is that of the next field. *)
from_pubkey_arr_shifted ==
  /\ pc = "start"
  /\ keys' = [x \in Fields |->
       pubkeys[((CHOOSE j \in Positions : ix[j].field = x) % Len(ix)) + 1]]
  /\ pc' = "keyed"
  /\ UNCHANGED <<ix, given, pubkeys, accounts, todo, verified, error, callVars>>

(* impl From<[Pubkey; LEN]> for XKeys. *)
from_pubkey_arr ==
  /\ pc = "start"
  /\ keys' = [x \in Fields |-> pubkeys[CHOOSE j \in Positions : ix[j].field = x]]
  /\ pc' = "keyed"
  /\ UNCHANGED <<ix, given, pubkeys, accounts, todo, verified, error, callVars>>

(* Mutant: the indices in the array are off by one. *)
from_account_info_arr_shifted ==
  /\ pc = "keyed"
  /\ accounts' = [x \in Fields |->
       given[((CHOOSE j \in Positions : ix[j].field = x) % Len(ix)) + 1]]
  /\ pc' = "ready"
  /\ UNCHANGED <<inputs, todo, verified, error, callVars>>

(* impl From<&[AccountInfo; LEN]> for XAccounts. *)
from_account_info_arr ==
  /\ pc = "keyed"
  /\ accounts' = [x \in Fields |-> given[CHOOSE j \in Positions : ix[j].field = x]]
  /\ pc' = "ready"
  /\ UNCHANGED <<inputs, todo, verified, error, callVars>>

(* Mutant: the first account is not looked at. *)
call_verify_account_keys_tail ==
  /\ pc = "ready"
  /\ has_accounts
  /\ "keys" \notin verified
  /\ pc' = "keys"
  /\ todo' = Positions \ {1}
  /\ UNCHANGED <<inputs, accounts, verified, error, callVars>>

(* x_verify_account_keys is called; emitted if there are accounts. *)
call_verify_account_keys ==
  /\ pc = "ready"
  /\ has_accounts
  /\ "keys" \notin verified
  /\ pc' = "keys"
  /\ todo' = Positions
  /\ UNCHANGED <<inputs, accounts, verified, error, callVars>>

(* x_verify_account_privileges is called; emitted if one has a privilege.  *)
(* It starts with the loop for writable accounts, if that is emitted.      *)
call_verify_account_privileges ==
  /\ pc = "ready"
  /\ has_privileged_accounts
  /\ "privileges" \notin verified
  /\ LET first == IF Needing("writable") # {} THEN "writable" ELSE "signer" IN
       pc' = first /\ todo' = Needing(first)
  /\ UNCHANGED <<inputs, accounts, verified, error, callVars>>

(* A turn of the loop of x_verify_account_keys, x_verify_writable_         *)
(* privileges or x_verify_signer_privileges: on, or return Err(..).        *)
Turn(j, good) ==
  /\ Next_is(j)
  /\ \/ /\ good
        /\ todo' = todo \ {j}
        /\ UNCHANGED <<pc, error>>
     \/ /\ ~ good
        /\ pc' = "rejected"
        /\ error' = [at |-> j, lacks |-> pc]
        /\ UNCHANGED todo
  /\ UNCHANGED <<inputs, accounts, verified, callVars>>

verify_account_keys(j) ==
  /\ pc = "keys"
  /\ Turn(j, accounts[ix[j].field].key = keys[ix[j].field])

(* Mutant: the flag of the other loop is tested. *)
verify_writable_privileges_signer(j) ==
  /\ pc = "writable"
  /\ Turn(j, "signer" \in accounts[ix[j].field].flags)

verify_writable_privileges(j) ==
  /\ pc = "writable"
  /\ Turn(j, "writable" \in accounts[ix[j].field].flags)

verify_signer_privileges(j) ==
  /\ pc = "signer"
  /\ Turn(j, "signer" \in accounts[ix[j].field].flags)

(* Mutant: signers are looked at only if nothing is to be writable. *)
Return_early ==
  /\ todo = {}
  /\ pc \in {"keys", "writable", "signer"}
  /\ pc' = "ready"
  /\ verified' = verified \cup {IF pc = "keys" THEN "keys" ELSE "privileges"}
  /\ UNCHANGED <<inputs, accounts, todo, error, callVars>>

(* A loop has come to its end; after the one for writable accounts comes   *)
(* the one for signers, if it is emitted.                                  *)
Return ==
  /\ todo = {}
  /\ \/ /\ pc = "writable" /\ Needing("signer") # {}
        /\ pc' = "signer"
        /\ todo' = Needing("signer")
        /\ UNCHANGED verified
     \/ /\ pc = "keys"
        /\ pc' = "ready"
        /\ verified' = verified \cup {"keys"}
        /\ UNCHANGED todo
     \/ /\ pc = "signer" \/ (pc = "writable" /\ Needing("signer") = {})
        /\ pc' = "ready"
        /\ verified' = verified \cup {"privileges"}
        /\ UNCHANGED todo
  /\ UNCHANGED <<inputs, accounts, error, callVars>>

from_accounts_for_keys(acc) == [x \in Fields |-> acc[x].key]

(* Mutant: the last account is left out of the AccountMetas. *)
from_keys_for_meta_arr_short(ks) ==
  [j \in 1 .. Len(ix) - 1 |-> [pubkey |-> ks[ix[j].field], flags |-> ix[j].flags]]

from_keys_for_meta_arr(ks) ==
  [j \in Positions |-> [pubkey |-> ks[ix[j].field], flags |-> ix[j].flags]]

from_accounts_for_account_info_arr(acc) == [j \in Positions |-> acc[ix[j].field]]

(* x_invoke (pdas = {}) or x_invoke_signed: the accounts become Keys, the *)
(* Keys AccountMetas, and the accounts AccountInfos again.  pdas are the   *)
(* addresses that the seeds give.                                          *)
invoke(pdas) ==
  /\ pc = "ready"
  /\ metas' = from_keys_for_meta_arr(from_accounts_for_keys(accounts))
  /\ infos' = from_accounts_for_account_info_arr(accounts)
  /\ signed' = pdas
  /\ pc' = "runtime"
  /\ UNCHANGED <<inputs, accounts, todo, verified, error>>

(* The caller does not hold, for account k, a privilege the call asks for. *)
Escalates(k, flag) ==
  /\ \E j \in DOMAIN metas : metas[j].pubkey = k /\ flag \in metas[j].flags
  /\ \A j \in DOMAIN infos : infos[j].key = k => flag \notin infos[j].flags
  /\ flag = "signer" => k \notin signed

(* External: the runtime refuses an escalation of privileges. *)
Runtime ==
  /\ pc = "runtime"
  /\ pc' = IF \E k \in Addresses, flag \in Flags : Escalates(k, flag)
             THEN "refused" ELSE "called"
  /\ UNCHANGED <<inputs, accounts, todo, verified, error, callVars>>

Terminated == pc \in {"rejected", "refused", "called"} /\ UNCHANGED vars

Next ==
  \/ from_pubkey_arr \/ from_account_info_arr
  \/ call_verify_account_keys \/ call_verify_account_privileges
  \/ \E j \in Positions : \/ verify_account_keys(j)
                          \/ verify_writable_privileges(j)
                          \/ verify_signer_privileges(j)
  \/ Return
  \/ \E pdas \in SeedSets : invoke(pdas)
  \/ Runtime
  \/ Terminated

Spec == Init /\ [][Next]_vars

-----------------------------------------------------------------------------
(* Properties *)

PC == {"start", "keyed", "ready", "keys", "writable", "signer", "runtime",
       "rejected", "refused", "called"}

TypeOK ==
  /\ ix \in Instructions
  /\ given \in [Positions -> AccountInfo]
  /\ pubkeys \in [Positions -> Addresses]
  /\ pc \in PC
  /\ pc # "start" => keys \in [Fields -> Addresses]
  /\ pc \notin {"start", "keyed"} => accounts \in [Fields -> AccountInfo]
  /\ todo \subseteq Positions
  /\ verified \subseteq {"keys", "privileges"}
  /\ error \in [at : Positions \cup {0}, lacks : {"nothing", "keys"} \cup Flags]
  /\ pc \in {"runtime", "refused", "called"} =>
       metas \in [Positions -> AccountMeta] /\ infos \in [Positions -> AccountInfo]
  /\ signed \subseteq Addresses

Calling == pc \in {"runtime", "refused", "called"}

(* The accounts of a call are the ones the program was given, in the order *)
(* in which it was given them, with the flags of the IDL.                  *)
OrderIsKept ==
  Calling => /\ infos = given
             /\ \A j \in Positions : metas[j] = [pubkey |-> given[j].key, flags |-> ix[j].flags]

(* A call after verify_account_keys has accepted goes to the very keys that*)
(* were expected, position by position, although both arrays have been     *)
(* through structs with named fields (README.md:59, "Keys From Array").    *)
VerifiedKeysAreCalled ==
  Calling /\ "keys" \in verified =>
    \A j \in Positions : metas[j].pubkey = pubkeys[j]

(* The runtime does not refuse what verify_account_privileges has accepted,*)
(* nor a call for which that function is not emitted.                      *)
VerifiedIsNotRefused ==
  pc = "refused" => has_privileged_accounts /\ "privileges" \notin verified

(* What verify_account_keys returns are "the first non-matching pubkeys"   *)
(* (README.md:113).                                                        *)
MismatchIsFirst ==
  error.lacks = "keys" =>
    /\ given[error.at].key # pubkeys[error.at]
    /\ \A j \in 1 .. error.at - 1 : given[j].key = pubkeys[j]

(* verify_account_privileges is right about the account that it returns:   *)
(* the call, unsigned, would be refused over it.  It is the first of its   *)
(* kind, and no account lacks the other privilege if that came first.      *)
OffenderIsFirst ==
  error.lacks \in Flags =>
    /\ error.lacks \in ix[error.at].flags
    /\ \A j \in Positions : given[j].key = given[error.at].key =>
         error.lacks \notin given[j].flags
    /\ \A j \in Needing(error.lacks) : j < error.at => error.lacks \in given[j].flags
    /\ error.lacks = "signer" =>
         \A j \in Needing("writable") : "writable" \in given[j].flags

-----------------------------------------------------------------------------
(* The abstract view of the interface: see VerifiedCall *)

(* A verification that has not returned has had no effect. *)
phase == IF pc \in {"rejected", "runtime", "refused", "called"} THEN pc ELSE "ready"

Abstract == INSTANCE VerifiedCall

(* Structs that are filled and read by different functions, and loops that *)
(* return early, come to what the abstract interface promises: nothing but *)
(* the order of the arrays decides what is verified, reported and called.  *)
ImplementsVerifiedCall == Abstract!Spec
=============================================================================

--------------------------- MODULE IxInterfaceProofs ---------------------------
(***************************************************************************)
(* The properties of IxInterface for every account list, any addresses and *)
(* any order of calls.                                                     *)
(***************************************************************************)
EXTENDS IxInterface, SequenceTheorems, TLAPS

-----------------------------------------------------------------------------
(* The inductive invariant *)

(* An account that is passed twice has the same flags both times. *)
OneInfo == \A h, j \in Positions : given[h].key = given[j].key => given[h] = given[j]

(* The Accounts struct has the AccountInfo of a position in its field. *)
Unpacked == pc \notin {"start", "keyed"} => \A j \in Positions : accounts[ix[j].field] = given[j]

(* The Keys struct has the key of a position in its field. *)
Keyed == pc # "start" => \A j \in Positions : keys[ix[j].field] = pubkeys[j]

KeyIsGood(j) == given[j].key = pubkeys[j]

Holds(j, flag) == flag \in given[j].flags

(* What a loop has behind it was good, what it has before it is its own. *)
LoopsSoFar ==
  /\ pc = "keys" => \A j \in Positions \ todo : KeyIsGood(j)
  /\ pc = "writable" =>
       /\ todo \subseteq Needing("writable")
       /\ \A j \in Needing("writable") \ todo : Holds(j, "writable")
  /\ pc = "signer" =>
       /\ todo \subseteq Needing("signer")
       /\ \A j \in Needing("signer") \ todo : Holds(j, "signer")
       /\ \A j \in Needing("writable") : Holds(j, "writable")

VerifiedIsTrue ==
  /\ "keys" \in verified => \A j \in Positions : KeyIsGood(j)
  /\ "privileges" \in verified =>
       \A flag \in Flags : \A j \in Needing(flag) : Holds(j, flag)

Reported == MismatchIsFirst /\ OffenderIsFirst

(* No account lacks what a call asks for if privileges are verified. *)
IInv ==
  /\ TypeOK
  /\ OneInfo
  /\ Keyed
  /\ Unpacked
  /\ LoopsSoFar
  /\ VerifiedIsTrue
  /\ Reported
  /\ OrderIsKept
  /\ VerifiedIsNotRefused

-----------------------------------------------------------------------------

(* ix is a sequence of accounts with fields of their own. *)
LEMMA Instruction ==
  ASSUME ix \in Instructions
  PROVE  /\ Positions = 1 .. Len(ix) /\ Len(ix) \in Nat
         /\ \A j \in Positions : ix[j].field \in Fields /\ ix[j].flags \subseteq Flags
         /\ \A h, j \in Positions : ix[h].field = ix[j].field => h = j
<1>1. ix \in Seq(IxAccount) /\ \A h, j \in DOMAIN ix : ix[h].field = ix[j].field => h = j
  BY InstructionsAssumption
<1>2. Positions = 1 .. Len(ix) /\ Len(ix) \in Nat /\ \A j \in Positions : ix[j] \in IxAccount
  BY <1>1 DEF Positions
<1> QED BY <1>1, <1>2 DEF Positions, Fields, IxAccount

(* What depends on the inputs only does not change. *)
LEMMA SameInputs ==
  ASSUME UNCHANGED inputs
  PROVE  /\ Positions' = Positions /\ Fields' = Fields
         /\ \A flag \in Flags : Needing(flag)' = Needing(flag)
         /\ OneInfo => OneInfo'
         /\ \A j \in Positions : KeyIsGood(j)' <=> KeyIsGood(j)
         /\ \A j \in Positions, flag \in Flags : Holds(j, flag)' <=> Holds(j, flag)
BY DEF inputs, Positions, Fields, Needing, OneInfo, KeyIsGood, Holds

(* What has been verified stays true. *)
LEMMA SameVerified ==
  ASSUME VerifiedIsTrue, UNCHANGED <<inputs, verified>>
  PROVE  VerifiedIsTrue'
BY DEF inputs, VerifiedIsTrue, KeyIsGood, Holds, Positions, Needing

(* What has been reported stays true. *)
LEMMA SameReport ==
  ASSUME Reported, UNCHANGED <<inputs, error>>
  PROVE  Reported'
BY DEF inputs, Reported, MismatchIsFirst, OffenderIsFirst, Positions, Needing

(* The invariant holds before anything is called. *)
LEMMA InitIInv == Init => IInv
<1> SUFFICES ASSUME Init PROVE IInv
  OBVIOUS
<1>1. PICK s \in Situations(ix) : given = s.given /\ pubkeys = s.pubkeys
  BY DEF Init
<1>2. ix \in Instructions
  BY DEF Init
<1>3. OneInfo /\ given \in [Positions -> AccountInfo] /\ pubkeys \in [Positions -> Addresses]
  BY <1>1, <1>2, SituationsAssumption DEF OneInfo, Positions
<1>4. TypeOK
  BY <1>3 DEF Init, TypeOK, PC, None
<1> QED BY <1>3, <1>4
        DEF Init, IInv, Keyed, Unpacked, LoopsSoFar, VerifiedIsTrue, Reported,
            MismatchIsFirst, OffenderIsFirst, OrderIsKept, Calling, VerifiedIsNotRefused,
            None, Flags

-----------------------------------------------------------------------------
(* The steps *)

(* The conversion from the array puts every key in its own field. *)
LEMMA Keying == IInv /\ from_pubkey_arr => IInv'
<1> SUFFICES ASSUME IInv, from_pubkey_arr PROVE IInv'
  OBVIOUS
<1> DEFINE pos(x) == CHOOSE j \in Positions : ix[j].field = x
<1>1. TypeOK /\ UNCHANGED <<ix, given, pubkeys, accounts, error, verified, todo, callVars>>
  BY DEF IInv, from_pubkey_arr
<1>2. \A x \in Fields : pos(x) \in Positions /\ ix[pos(x)].field = x
  BY DEF Fields
<1>3. \A j \in Positions : pos(ix[j].field) = j
  BY <1>1, <1>2, Instruction DEF TypeOK
<1>4. /\ keys' = [x \in Fields |-> pubkeys[pos(x)]]
      /\ pc = "start" /\ pc' = "keyed"
  BY DEF from_pubkey_arr
<1> HIDE DEF pos
<1>5. keys' \in [Fields -> Addresses]
  BY <1>1, <1>2, <1>4 DEF TypeOK
<1>6. \A j \in Positions : keys'[ix[j].field] = pubkeys[j]
  BY <1>1, <1>3, <1>4, Instruction DEF TypeOK
<1>7. Positions' = Positions /\ Fields' = Fields
  BY <1>1 DEF Positions, Fields
<1>8. TypeOK'
  BY <1>1, <1>4, <1>5, <1>7 DEF TypeOK, callVars, PC
<1>9. Keyed' /\ Unpacked' /\ OneInfo'
  BY <1>1, <1>4, <1>6, <1>7 DEF Keyed, Unpacked, IInv, OneInfo
<1>10. VerifiedIsTrue' /\ Reported'
  BY <1>1, <1>7 DEF IInv, VerifiedIsTrue, KeyIsGood, Holds, Needing, Reported,
                    MismatchIsFirst, OffenderIsFirst, Positions
<1>11. LoopsSoFar' /\ OrderIsKept' /\ VerifiedIsNotRefused'
  BY <1>4 DEF LoopsSoFar, OrderIsKept, Calling, VerifiedIsNotRefused
<1> QED BY <1>8, <1>9, <1>10, <1>11 DEF IInv

(* The conversion from the array puts every AccountInfo in its own field.  *)
LEMMA Unpacking == IInv /\ from_account_info_arr => IInv'
<1> SUFFICES ASSUME IInv, from_account_info_arr PROVE IInv'
  OBVIOUS
<1> DEFINE pos(x) == CHOOSE j \in Positions : ix[j].field = x
<1>1. TypeOK /\ UNCHANGED inputs /\ UNCHANGED <<error, verified, todo, callVars>>
  BY DEF IInv, from_account_info_arr
<1>2. \A x \in Fields : pos(x) \in Positions /\ ix[pos(x)].field = x
  BY DEF Fields
<1>3. \A j \in Positions : pos(ix[j].field) = j
  BY <1>1, <1>2, Instruction DEF TypeOK
<1>4. /\ accounts' = [x \in Fields |-> given[pos(x)]]
      /\ pc = "keyed" /\ pc' = "ready"
  BY DEF from_account_info_arr
<1> HIDE DEF pos
<1>5. accounts' \in [Fields -> AccountInfo]
  BY <1>1, <1>2, <1>4 DEF TypeOK
<1>6. \A j \in Positions : accounts'[ix[j].field] = given[j]
  BY <1>1, <1>3, <1>4, Instruction DEF TypeOK
<1>7. TypeOK'
  BY <1>1, <1>4, <1>5, SameInputs DEF TypeOK, inputs, callVars, PC
<1>8. Keyed' /\ Unpacked'
  BY <1>1, <1>4, <1>6, SameInputs DEF IInv, Keyed, Unpacked, inputs
<1>9. VerifiedIsTrue'
  BY <1>1, SameVerified DEF IInv
<1>10. LoopsSoFar' /\ OrderIsKept' /\ VerifiedIsNotRefused'
  BY <1>4 DEF LoopsSoFar, OrderIsKept, Calling, VerifiedIsNotRefused
<1> QED BY <1>1, <1>7, <1>8, <1>9, <1>10, SameInputs, SameReport DEF IInv

(* A verification that is called has nothing behind it.                    *)
LEMMA Calling_verify ==
  IInv /\ (call_verify_account_keys \/ call_verify_account_privileges) => IInv'
<1> SUFFICES ASSUME IInv, call_verify_account_keys \/ call_verify_account_privileges
             PROVE  IInv'
  OBVIOUS
<1>1. /\ TypeOK /\ UNCHANGED inputs /\ UNCHANGED <<accounts, error, verified, callVars>>
      /\ pc = "ready"
  BY DEF IInv, call_verify_account_keys, call_verify_account_privileges
<1>2. \/ pc' = "keys" /\ todo' = Positions
      \/ pc' = "writable" /\ todo' = Needing("writable")
      \/ pc' = "signer" /\ todo' = Needing("signer") /\ Needing("writable") = {}
  BY DEF call_verify_account_keys, call_verify_account_privileges
<1>3. TypeOK'
  BY <1>1, <1>2, SameInputs DEF TypeOK, inputs, callVars, PC, Needing
<1>4. LoopsSoFar'
  BY <1>1, <1>2, SameInputs DEF LoopsSoFar, Flags
<1>5. Keyed' /\ Unpacked' /\ VerifiedIsTrue'
  BY <1>1, SameInputs, SameVerified DEF IInv, Keyed, Unpacked, inputs
<1>6. OrderIsKept' /\ VerifiedIsNotRefused'
  BY <1>2 DEF OrderIsKept, Calling, VerifiedIsNotRefused
<1> QED BY <1>1, <1>3, <1>4, <1>5, <1>6, SameInputs, SameReport DEF IInv

(* A turn of the loop over keys. *)
LEMMA KeysTurn ==
  ASSUME IInv, NEW j \in Positions, verify_account_keys(j)
  PROVE  IInv'
<1>1. /\ TypeOK /\ UNCHANGED inputs /\ UNCHANGED <<accounts, verified, callVars>>
      /\ pc = "keys" /\ Next_is(j)
  BY DEF IInv, verify_account_keys, Turn
<1>2. accounts[ix[j].field] = given[j] /\ keys[ix[j].field] = pubkeys[j]
  BY <1>1 DEF IInv, Keyed, Unpacked
<1>3. \/ KeyIsGood(j) /\ todo' = todo \ {j} /\ UNCHANGED <<pc, error>>
      \/ /\ ~ KeyIsGood(j) /\ todo' = todo
         /\ pc' = "rejected" /\ error' = [at |-> j, lacks |-> "keys"]
  BY <1>1, <1>2 DEF verify_account_keys, Turn, KeyIsGood
<1>4. TypeOK'
  BY <1>1, <1>3, SameInputs DEF TypeOK, inputs, callVars, PC
<1>5. LoopsSoFar'
  BY <1>1, <1>3, SameInputs DEF IInv, LoopsSoFar
<1>6. Keyed' /\ Unpacked' /\ VerifiedIsTrue'
  BY <1>1, SameInputs, SameVerified DEF IInv, Keyed, Unpacked, inputs
<1>7. OrderIsKept' /\ VerifiedIsNotRefused'
  BY <1>1, <1>3 DEF OrderIsKept, Calling, VerifiedIsNotRefused
<1>8. Reported'
  <2>1. CASE UNCHANGED error
    BY <1>1, <2>1, SameReport DEF IInv
  <2>2. CASE ~ KeyIsGood(j) /\ error' = [at |-> j, lacks |-> "keys"]
    <3>1. \A h \in 1 .. j - 1 : h \in Positions \ todo
      BY <1>1, Instruction DEF TypeOK, Next_is
    <3>2. \A h \in 1 .. j - 1 : KeyIsGood(h)
      BY <1>1, <3>1 DEF IInv, LoopsSoFar
    <3>3. MismatchIsFirst'
      BY <1>1, <2>2, <3>2 DEF MismatchIsFirst, KeyIsGood, inputs
    <3> QED BY <2>2, <3>3 DEF Reported, OffenderIsFirst, Flags
  <2> QED BY <1>3, <2>1, <2>2
<1> QED BY <1>1, <1>4, <1>5, <1>6, <1>7, <1>8, SameInputs DEF IInv

(* A turn of one of the two loops over privileges. *)
LEMMA PrivilegesTurn ==
  ASSUME IInv, NEW j \in Positions,
         verify_writable_privileges(j) \/ verify_signer_privileges(j)
  PROVE  IInv'
<1>1. /\ TypeOK /\ UNCHANGED inputs /\ UNCHANGED <<accounts, verified, callVars>>
      /\ pc \in Flags /\ Next_is(j)
  BY DEF IInv, verify_writable_privileges, verify_signer_privileges, Turn, Flags
<1>2. accounts[ix[j].field] = given[j]
  BY <1>1 DEF IInv, Unpacked, Flags
<1>3. \/ Holds(j, pc) /\ todo' = todo \ {j} /\ UNCHANGED <<pc, error>>
      \/ /\ ~ Holds(j, pc) /\ todo' = todo
         /\ pc' = "rejected" /\ error' = [at |-> j, lacks |-> pc]
  BY <1>1, <1>2 DEF verify_writable_privileges, verify_signer_privileges, Turn, Holds
<1>4. TypeOK'
  BY <1>1, <1>3, SameInputs DEF TypeOK, inputs, callVars, PC, Flags
<1>5. LoopsSoFar'
  <2>1. CASE pc = "writable"
    BY <1>1, <1>3, <2>1, SameInputs DEF IInv, LoopsSoFar, Flags, Needing
  <2>2. CASE pc = "signer"
    BY <1>1, <1>3, <2>2, SameInputs DEF IInv, LoopsSoFar, Flags, Needing
  <2> QED BY <1>1, <2>1, <2>2 DEF Flags
<1>6. Keyed' /\ Unpacked' /\ VerifiedIsTrue'
  BY <1>1, SameInputs, SameVerified DEF IInv, Keyed, Unpacked, inputs, Flags
<1>7. OrderIsKept' /\ VerifiedIsNotRefused'
  BY <1>1, <1>3 DEF OrderIsKept, Calling, VerifiedIsNotRefused, Flags
<1>8. Reported'
  <2>1. CASE UNCHANGED error
    BY <1>1, <2>1, SameReport DEF IInv
  <2>2. CASE ~ Holds(j, pc) /\ error' = [at |-> j, lacks |-> pc]
    <3>1. todo \subseteq Needing(pc) /\ \A h \in Needing(pc) \ todo : Holds(h, pc)
      BY <1>1 DEF IInv, LoopsSoFar, Flags
    <3>2. j \in Needing(pc) /\ \A h \in Needing(pc) : h < j => Holds(h, pc)
      BY <1>1, <3>1, Instruction DEF TypeOK, Next_is, Needing
    <3>3. \A h \in Positions : given[h].key = given[j].key => ~ Holds(h, pc)
      BY <2>2 DEF IInv, OneInfo, Holds
    <3>4. pc = "signer" => \A h \in Needing("writable") : Holds(h, "writable")
      BY <1>1 DEF IInv, LoopsSoFar
    <3>5. OffenderIsFirst'
      BY <1>1, <2>2, <3>2, <3>3, <3>4, SameInputs
         DEF OffenderIsFirst, Holds, Needing, inputs, Flags, Positions
    <3> QED BY <1>1, <2>2, <3>5 DEF Reported, MismatchIsFirst, Flags
  <2> QED BY <1>3, <2>1, <2>2
<1> QED BY <1>1, <1>4, <1>5, <1>6, <1>7, <1>8, SameInputs DEF IInv

(* A loop that has come to its end has found everything good. *)
LEMMA Returning == IInv /\ Return => IInv'
<1> SUFFICES ASSUME IInv, Return PROVE IInv'
  OBVIOUS
<1>1. /\ TypeOK /\ UNCHANGED inputs /\ UNCHANGED <<accounts, error, callVars>>
      /\ todo = {} /\ pc \in {"keys", "writable", "signer"}
  BY DEF IInv, Return
<1>2. \/ pc = "writable" /\ pc' = "signer" /\ todo' = Needing("signer") /\ verified' = verified
      \/ /\ pc = "keys" /\ pc' = "ready" /\ todo' = todo
         /\ verified' = verified \cup {"keys"}
      \/ /\ pc = "signer" \/ (pc = "writable" /\ Needing("signer") = {})
         /\ pc' = "ready" /\ todo' = todo /\ verified' = verified \cup {"privileges"}
  BY DEF Return
<1>3. TypeOK'
  BY <1>1, <1>2, SameInputs DEF TypeOK, inputs, callVars, PC, Needing
<1>4. LoopsSoFar'
  BY <1>1, <1>2, SameInputs DEF IInv, LoopsSoFar, Flags, Needing
<1>5. VerifiedIsTrue'
  <2>1. pc = "keys" => \A j \in Positions : KeyIsGood(j)
    BY <1>1 DEF IInv, LoopsSoFar
  <2>2. pc = "signer" \/ (pc = "writable" /\ Needing("signer") = {})
          => \A flag \in Flags : \A j \in Needing(flag) : Holds(j, flag)
    BY <1>1 DEF IInv, LoopsSoFar, Flags
  <2>3. Needing("writable") \subseteq Positions /\ Needing("signer") \subseteq Positions
    BY DEF Needing
  <2> QED BY <1>1, <1>2, <2>1, <2>2, <2>3, SameInputs DEF IInv, VerifiedIsTrue, Flags
<1>6. Keyed' /\ Unpacked'
  BY <1>1, SameInputs DEF IInv, Keyed, Unpacked, inputs
<1>7. OrderIsKept' /\ VerifiedIsNotRefused'
  BY <1>2 DEF OrderIsKept, Calling, VerifiedIsNotRefused
<1> QED BY <1>1, <1>3, <1>4, <1>5, <1>6, <1>7, SameInputs, SameReport DEF IInv

(* What is passed to the runtime is what was unpacked, in the same order.  *)
LEMMA Invoking ==
  ASSUME IInv, NEW pdas \in SeedSets, invoke(pdas)
  PROVE  IInv'
<1>1. /\ TypeOK /\ UNCHANGED inputs /\ UNCHANGED <<accounts, todo, verified, error>>
      /\ pc = "ready" /\ pc' = "runtime" /\ signed' = pdas
  BY DEF IInv, invoke
<1>2. \A j \in Positions : /\ ix[j].field \in Fields /\ ix[j].flags \subseteq Flags
                           /\ accounts[ix[j].field] = given[j]
                           /\ given[j] \in AccountInfo
  BY <1>1, Instruction DEF IInv, Unpacked, TypeOK
<1>3. infos' = given
  BY <1>1, <1>2 DEF invoke, from_accounts_for_account_info_arr, TypeOK
<1>4. metas' = [j \in Positions |-> [pubkey |-> given[j].key, flags |-> ix[j].flags]]
  BY <1>2 DEF invoke, from_accounts_for_keys, from_keys_for_meta_arr
<1>5. metas' \in [Positions -> AccountMeta]
  BY <1>2, <1>4 DEF AccountMeta, AccountInfo
<1>6. TypeOK'
  BY <1>1, <1>3, <1>5, SameInputs, SeedsAssumption DEF TypeOK, inputs, PC
<1>7. OrderIsKept'
  BY <1>1, <1>3, <1>4, SameInputs DEF OrderIsKept, inputs
<1>8. LoopsSoFar' /\ VerifiedIsNotRefused'
  BY <1>1 DEF LoopsSoFar, VerifiedIsNotRefused
<1>9. Keyed' /\ Unpacked' /\ VerifiedIsTrue'
  BY <1>1, SameInputs, SameVerified DEF IInv, Keyed, Unpacked, inputs
<1> QED BY <1>1, <1>6, <1>7, <1>8, <1>9, SameInputs, SameReport DEF IInv

(* A call escalates a privilege only over an account that needs it and does*)
(* not hold it.                                                            *)
LEMMA EscalationHasACause ==
  ASSUME IInv, pc = "runtime", NEW k \in Addresses, NEW flag \in Flags, Escalates(k, flag)
  PROVE  \E j \in Needing(flag) : ~ Holds(j, flag)
<1>1. /\ infos = given /\ DOMAIN infos = Positions /\ DOMAIN metas = Positions
      /\ \A j \in Positions : metas[j] = [pubkey |-> given[j].key, flags |-> ix[j].flags]
  BY DEF IInv, TypeOK, OrderIsKept, Calling
<1>2. PICK j \in Positions : given[j].key = k /\ flag \in ix[j].flags
  BY <1>1 DEF Escalates
<1> QED BY <1>1, <1>2 DEF Escalates, Needing, Holds

(* The verdict of the runtime. *)
LEMMA Judging == IInv /\ Runtime => IInv'
<1> SUFFICES ASSUME IInv, Runtime PROVE IInv'
  OBVIOUS
<1>1. /\ TypeOK /\ UNCHANGED inputs
      /\ UNCHANGED <<accounts, todo, verified, error, callVars>>
      /\ pc = "runtime" /\ pc' \in {"refused", "called"}
      /\ pc' = "refused" => \E k \in Addresses, flag \in Flags : Escalates(k, flag)
  BY DEF IInv, Runtime
<1>2. VerifiedIsNotRefused'
  <2>1. SUFFICES ASSUME pc' = "refused"
                 PROVE  has_privileged_accounts' /\ "privileges" \notin verified'
    BY DEF VerifiedIsNotRefused
  <2>2. PICK flag \in Flags : \E j \in Needing(flag) : ~ Holds(j, flag)
    BY <1>1, <2>1, EscalationHasACause
  <2>3. "privileges" \notin verified
    BY <2>2 DEF IInv, VerifiedIsTrue
  <2>4. has_privileged_accounts
    BY <2>2 DEF has_privileged_accounts, Flags
  <2> QED BY <1>1, <2>3, <2>4, SameInputs DEF has_privileged_accounts, Flags
<1>3. TypeOK'
  BY <1>1, SameInputs DEF TypeOK, inputs, callVars, PC
<1>4. OrderIsKept'
  BY <1>1, SameInputs DEF IInv, OrderIsKept, Calling, inputs, callVars
<1>5. LoopsSoFar'
  BY <1>1 DEF LoopsSoFar
<1>6. Keyed' /\ Unpacked' /\ VerifiedIsTrue'
  BY <1>1, SameInputs, SameVerified DEF IInv, Keyed, Unpacked, inputs
<1> QED BY <1>1, <1>2, <1>3, <1>4, <1>5, <1>6, SameInputs, SameReport DEF IInv

(* A step that changes nothing. *)
LEMMA Stuttering == IInv /\ UNCHANGED vars => IInv'
<1> SUFFICES ASSUME IInv, UNCHANGED vars PROVE IInv'
  OBVIOUS
<1>1. UNCHANGED inputs /\ UNCHANGED <<pc, accounts, todo, verified, error, callVars>>
  BY DEF vars, inputs, callVars
<1>2. TypeOK' /\ OrderIsKept' /\ VerifiedIsNotRefused'
  BY <1>1, SameInputs
     DEF IInv, TypeOK, OrderIsKept, Calling, VerifiedIsNotRefused, has_privileged_accounts,
         inputs, callVars, Flags
<1>3. LoopsSoFar'
  BY <1>1, SameInputs DEF IInv, LoopsSoFar, Flags, Needing
<1>4. Keyed' /\ Unpacked' /\ VerifiedIsTrue'
  BY <1>1, SameInputs, SameVerified DEF IInv, Keyed, Unpacked, inputs, Flags
<1> QED BY <1>1, <1>2, <1>3, <1>4, SameInputs, SameReport DEF IInv

(* Every step of the caller, the emitted functions and the runtime         *)
(* preserves the invariant.                                                *)
LEMMA NextIInv == IInv /\ [Next]_vars => IInv'
<1> SUFFICES ASSUME IInv, [Next]_vars PROVE IInv'
  OBVIOUS
<1>1. CASE from_pubkey_arr \/ from_account_info_arr
  BY <1>1, Keying, Unpacking
<1>2. CASE call_verify_account_keys \/ call_verify_account_privileges
  BY <1>2, Calling_verify
<1>3. ASSUME NEW j \in Positions, verify_account_keys(j) PROVE IInv'
  BY <1>3, KeysTurn
<1>4. ASSUME NEW j \in Positions, verify_writable_privileges(j) \/ verify_signer_privileges(j)
      PROVE  IInv'
  BY <1>4, PrivilegesTurn
<1>5. CASE Return
  BY <1>5, Returning
<1>6. ASSUME NEW pdas \in SeedSets, invoke(pdas) PROVE IInv'
  BY <1>6, Invoking
<1>7. CASE Runtime
  BY <1>7, Judging
<1>8. CASE UNCHANGED vars
  BY <1>8, Stuttering
<1> QED BY <1>1, <1>2, <1>3, <1>4, <1>5, <1>6, <1>7, <1>8 DEF Next, Terminated

-----------------------------------------------------------------------------
(* The theorems *)

(* The invariant holds whatever the caller does. *)
THEOREM Invariance == Spec => []IInv
BY InitIInv, NextIInv, PTL DEF Spec

(* Every variable keeps its type. *)
THEOREM TypeCorrect == Spec => []TypeOK
<1>1. IInv => TypeOK
  BY DEF IInv
<1> QED BY Invariance, <1>1, PTL

(* The accounts of a call are those the program was given, in their order. *)
THEOREM Order == Spec => []OrderIsKept
<1>1. IInv => OrderIsKept
  BY DEF IInv
<1> QED BY Invariance, <1>1, PTL

(* A call after verify_account_keys has accepted goes to the very keys.    *)
THEOREM KeysAreCalled == Spec => []VerifiedKeysAreCalled
<1>1. IInv => VerifiedKeysAreCalled
  <2> SUFFICES ASSUME IInv, Calling, "keys" \in verified, NEW j \in Positions
               PROVE  metas[j].pubkey = pubkeys[j]
    BY DEF VerifiedKeysAreCalled
  <2>1. metas[j] = [pubkey |-> given[j].key, flags |-> ix[j].flags]
    BY DEF IInv, OrderIsKept
  <2>2. given[j].key = pubkeys[j]
    BY DEF IInv, VerifiedIsTrue, KeyIsGood
  <2> QED BY <2>1, <2>2
<1> QED BY Invariance, <1>1, PTL

(* The runtime does not refuse what verify_account_privileges has accepted.*)
THEOREM NotRefused == Spec => []VerifiedIsNotRefused
<1>1. IInv => VerifiedIsNotRefused
  BY DEF IInv
<1> QED BY Invariance, <1>1, PTL

(* verify_account_keys returns the first keys that do not match. *)
THEOREM Mismatch == Spec => []MismatchIsFirst
<1>1. IInv => MismatchIsFirst
  BY DEF IInv, Reported
<1> QED BY Invariance, <1>1, PTL

(* verify_account_privileges returns the first account that lacks the      *)
(* privilege that is verified first, and the call would be refused over it.*)
THEOREM Offender == Spec => []OffenderIsFirst
<1>1. IInv => OffenderIsFirst
  BY DEF IInv, Reported
<1> QED BY Invariance, <1>1, PTL

-----------------------------------------------------------------------------
(* The refinement of VerifiedCall *)

(* A verification that runs has been called for something, and has not     *)
(* returned before; a loop that runs is emitted.                           *)
CalledFor ==
  /\ pc = "keys" => has_accounts /\ "keys" \notin verified
  /\ pc \in Flags => Needing(pc) # {} /\ "privileges" \notin verified

RInv == IInv /\ CalledFor

(* What is called for is known when the loops start. *)
LEMMA NextCalledFor == RInv /\ [Next]_vars => CalledFor'
<1> SUFFICES ASSUME RInv, [Next]_vars PROVE CalledFor'
  OBVIOUS
<1> USE DEF CalledFor, has_accounts, Flags
<1>1. CASE from_pubkey_arr \/ from_account_info_arr
  BY <1>1 DEF from_pubkey_arr, from_account_info_arr
<1>2. CASE call_verify_account_keys
  BY <1>2 DEF call_verify_account_keys, inputs
<1>3. CASE call_verify_account_privileges
  <2>1. /\ pc' \in {"writable", "signer"} /\ Needing(pc') # {}
        /\ "privileges" \notin verified /\ UNCHANGED <<inputs, verified>>
    BY <1>3 DEF call_verify_account_privileges, has_privileged_accounts
  <2> QED BY <2>1, SameInputs
<1>4. ASSUME NEW j \in Positions,
             verify_account_keys(j) \/ verify_writable_privileges(j) \/ verify_signer_privileges(j)
      PROVE  CalledFor'
  <2>1. UNCHANGED <<inputs, verified>> /\ (pc' = pc \/ pc' = "rejected")
    BY <1>4 DEF verify_account_keys, verify_writable_privileges, verify_signer_privileges, Turn
  <2> QED BY <2>1, SameInputs DEF RInv, inputs
<1>5. CASE Return
  <2>1. /\ UNCHANGED inputs
        /\ \/ pc = "writable" /\ pc' = "signer" /\ Needing("signer") # {} /\ verified' = verified
           \/ pc' = "ready"
    BY <1>5 DEF Return
  <2> QED BY <2>1, SameInputs DEF RInv
<1>6. ASSUME NEW pdas \in SeedSets, invoke(pdas) PROVE CalledFor'
  BY <1>6 DEF invoke
<1>7. CASE Runtime
  BY <1>7 DEF Runtime
<1>8. CASE UNCHANGED vars
  <2>1. UNCHANGED <<inputs, pc, verified>>
    BY <1>8 DEF vars, inputs
  <2> QED BY <2>1, SameInputs DEF RInv, inputs
<1> QED BY <1>1, <1>2, <1>3, <1>4, <1>5, <1>6, <1>7, <1>8 DEF Next, Terminated

(* The operators of the abstract interface, as the loops see them. *)
LEMMA AbstractSets ==
  /\ Abstract!Positions = Positions
  /\ Abstract!Mismatches = {j \in Positions : ~ KeyIsGood(j)}
  /\ \A flag : /\ Abstract!Needing(flag) = Needing(flag)
               /\ Abstract!Lacking(flag) = {j \in Needing(flag) : ~ Holds(j, flag)}
BY DEF Abstract!Positions, Abstract!Mismatches, Abstract!Needing, Abstract!Lacking,
       Positions, Needing, KeyIsGood, Holds

(* The steps between two calls of functions of the interface do not show.  *)
LEMMA HiddenSteps ==
  ASSUME RInv,
         \/ from_pubkey_arr \/ from_account_info_arr
         \/ call_verify_account_keys \/ call_verify_account_privileges
  PROVE  UNCHANGED Abstract!vars
<1>1. /\ UNCHANGED <<ix, given, pubkeys, verified, error, metas, infos, signed>>
      /\ pc \in {"start", "keyed", "ready"}
      /\ pc' \in {"keyed", "ready", "keys", "writable", "signer"}
  BY DEF from_pubkey_arr, from_account_info_arr, call_verify_account_keys,
         call_verify_account_privileges, inputs, callVars
<1>2. phase' = phase
  BY <1>1 DEF phase
<1> QED BY <1>1, <1>2 DEF Abstract!vars

(* A turn of the loop over keys does not show, unless it rejects. *)
LEMMA KeysTurnRefines ==
  ASSUME RInv, NEW j \in Positions, verify_account_keys(j)
  PROVE  Abstract!VerifyKeys \/ UNCHANGED Abstract!vars
<1>1. /\ TypeOK /\ UNCHANGED <<ix, given, pubkeys, verified, metas, infos, signed>>
      /\ pc = "keys" /\ Next_is(j)
  BY DEF RInv, IInv, verify_account_keys, Turn, inputs, callVars
<1>2. accounts[ix[j].field] = given[j] /\ keys[ix[j].field] = pubkeys[j]
  BY <1>1 DEF RInv, IInv, Keyed, Unpacked
<1>3. \/ UNCHANGED <<pc, error>>
      \/ ~ KeyIsGood(j) /\ pc' = "rejected" /\ error' = [at |-> j, lacks |-> "keys"]
  BY <1>1, <1>2 DEF verify_account_keys, Turn, KeyIsGood
<1>4. CASE UNCHANGED <<pc, error>>
  BY <1>1, <1>4 DEF Abstract!vars, phase
<1>5. CASE ~ KeyIsGood(j) /\ pc' = "rejected" /\ error' = [at |-> j, lacks |-> "keys"]
  <2> DEFINE wrong == {h \in Positions : ~ KeyIsGood(h)}
  <2>1. j \in wrong /\ \A h \in wrong : j <= h
    BY <1>1, <1>5 DEF RInv, IInv, LoopsSoFar, Next_is
  <2>2. phase = "ready" /\ phase' = "rejected"
    BY <1>1, <1>5 DEF phase
  <2>3. Positions # {} /\ "keys" \notin verified
    BY <1>1 DEF RInv, CalledFor
  <2>4. Abstract!Mismatches = wrong /\ Abstract!Positions = Positions
    BY AbstractSets
  <2> HIDE DEF wrong
  <2>5. Abstract!Reject(wrong, "keys")
    BY <1>1, <1>5, <2>1, <2>2 DEF Abstract!Reject
  <2>6. wrong # {}
    BY <2>1
  <2>7. Abstract!VerifyKeys
    BY <1>1, <2>2, <2>3, <2>4, <2>5, <2>6 DEF Abstract!VerifyKeys, Abstract!inputs
  <2> QED BY <2>7
<1> QED BY <1>3, <1>4, <1>5

(* Nor does one of a loop over privileges. *)
LEMMA PrivilegesTurnRefines ==
  ASSUME RInv, NEW j \in Positions,
         verify_writable_privileges(j) \/ verify_signer_privileges(j)
  PROVE  Abstract!VerifyPrivileges \/ UNCHANGED Abstract!vars
<1>1. /\ TypeOK /\ UNCHANGED <<ix, given, pubkeys, verified, metas, infos, signed>>
      /\ pc \in Flags /\ Next_is(j)
  BY DEF RInv, IInv, verify_writable_privileges, verify_signer_privileges, Turn, inputs,
         callVars, Flags
<1>2. accounts[ix[j].field] = given[j]
  BY <1>1 DEF RInv, IInv, Unpacked, Flags
<1>3. \/ UNCHANGED <<pc, error>>
      \/ ~ Holds(j, pc) /\ pc' = "rejected" /\ error' = [at |-> j, lacks |-> pc]
  BY <1>1, <1>2 DEF verify_writable_privileges, verify_signer_privileges, Turn, Holds
<1>4. CASE UNCHANGED <<pc, error>>
  BY <1>1, <1>4 DEF Abstract!vars, phase
<1>5. CASE ~ Holds(j, pc) /\ pc' = "rejected" /\ error' = [at |-> j, lacks |-> pc]
  <2> DEFINE wrong(flag) == {h \in Needing(flag) : ~ Holds(h, flag)}
  <2>1. j \in wrong(pc) /\ \A h \in wrong(pc) : j <= h
    BY <1>1, <1>5 DEF RInv, IInv, LoopsSoFar, Next_is, Flags
  <2>2. phase = "ready" /\ phase' = "rejected"
    BY <1>1, <1>5 DEF phase, Flags
  <2>3. Needing("writable") \cup Needing("signer") # {} /\ "privileges" \notin verified
    BY <1>1 DEF RInv, CalledFor, Flags
  <2>4. /\ \A flag : Abstract!Lacking(flag) = wrong(flag)
        /\ \A flag : Abstract!Needing(flag) = Needing(flag)
    BY AbstractSets
  <2>5. pc = "signer" => wrong("writable") = {}
    BY DEF RInv, IInv, LoopsSoFar
  <2> HIDE DEF wrong
  <2>6. wrong(pc) # {} /\ Abstract!Reject(wrong(pc), pc)
    BY <1>1, <1>5, <2>1, <2>2 DEF Abstract!Reject
  <2>7. Abstract!VerifyPrivileges
    BY <1>1, <2>2, <2>3, <2>4, <2>5, <2>6
       DEF Abstract!VerifyPrivileges, Abstract!inputs, Flags
  <2> QED BY <2>7
<1> QED BY <1>3, <1>4, <1>5

(* A verification that returns Ok has found all accounts good. *)
LEMMA ReturnRefines ==
  ASSUME RInv, Return
  PROVE  Abstract!VerifyKeys \/ Abstract!VerifyPrivileges \/ UNCHANGED Abstract!vars
<1>1. /\ UNCHANGED <<ix, given, pubkeys, error, metas, infos, signed>>
      /\ todo = {} /\ TypeOK
  BY DEF RInv, IInv, Return, inputs, callVars
<1>2. CASE pc = "writable" /\ pc' = "signer" /\ verified' = verified
  BY <1>1, <1>2 DEF Abstract!vars, phase
<1>3. CASE pc = "keys" /\ pc' = "ready" /\ verified' = verified \cup {"keys"}
  <2>1. {h \in Positions : ~ KeyIsGood(h)} = {}
    BY <1>1, <1>3 DEF RInv, IInv, LoopsSoFar
  <2>2. Positions # {} /\ "keys" \notin verified
    <3>1. ix \in Seq(IxAccount) /\ ix # <<>> /\ "keys" \notin verified
      BY <1>1, <1>3, InstructionsAssumption DEF RInv, CalledFor, has_accounts, TypeOK
    <3>2. Len(ix) \in Nat \ {0} /\ DOMAIN ix = 1 .. Len(ix)
      BY <3>1, EmptySeq, LenProperties
    <3> QED BY <3>1, <3>2 DEF Positions
  <2>3. phase = "ready" /\ phase' = "ready"
    BY <1>3 DEF phase
  <2>4. Abstract!VerifyKeys
    BY <1>1, <1>3, <2>1, <2>2, <2>3, AbstractSets
       DEF Abstract!VerifyKeys, Abstract!Accept, Abstract!inputs
  <2> QED BY <2>4
<1>4. CASE /\ pc = "signer" \/ (pc = "writable" /\ Needing("signer") = {})
           /\ pc' = "ready" /\ verified' = verified \cup {"privileges"}
  <2>1. \A flag \in Flags : {h \in Needing(flag) : ~ Holds(h, flag)} = {}
    BY <1>1, <1>4 DEF RInv, IInv, LoopsSoFar, Flags
  <2>2. Needing("writable") \cup Needing("signer") # {} /\ "privileges" \notin verified
    BY <1>4 DEF RInv, CalledFor, Flags
  <2>3. phase = "ready" /\ phase' = "ready"
    BY <1>4 DEF phase
  <2>4. Abstract!VerifyPrivileges
    BY <1>1, <1>4, <2>1, <2>2, <2>3, AbstractSets
       DEF Abstract!VerifyPrivileges, Abstract!Accept, Abstract!inputs, Flags
  <2> QED BY <2>4
<1> QED BY <1>2, <1>3, <1>4 DEF Return

(* The call that is made is the one that is promised. *)
LEMMA InvokeRefines ==
  ASSUME RInv, NEW pdas \in SeedSets, invoke(pdas)
  PROVE  Abstract!Invoke(pdas)
<1>1. /\ UNCHANGED <<ix, given, pubkeys, verified, error>>
      /\ pc = "ready" /\ pc' = "runtime" /\ signed' = pdas
  BY DEF invoke, inputs
<1>2. phase = "ready" /\ phase' = "runtime"
  BY <1>1 DEF phase
<1>3. IInv'
  BY Invoking DEF RInv
<1>4. /\ infos' = given
      /\ \A j \in Positions : metas'[j] = [pubkey |-> given[j].key, flags |-> ix[j].flags]
  BY <1>1, <1>3 DEF IInv, OrderIsKept, Calling, Positions
<1>5. metas' = [j \in Positions |-> [pubkey |-> given[j].key, flags |-> ix[j].flags]]
  BY <1>4 DEF invoke, from_keys_for_meta_arr
<1> QED BY <1>1, <1>2, <1>4, <1>5, AbstractSets DEF Abstract!Invoke, Abstract!inputs

(* The runtime goes by addresses, of which one may be passed many times;   *)
(* it refuses exactly if there is an account at whose position a privilege *)
(* is asked for that it does not hold there.                               *)
LEMMA RuntimeRefines ==
  ASSUME RInv, Runtime
  PROVE  Abstract!Runtime
<1>1. /\ TypeOK /\ UNCHANGED <<ix, given, pubkeys, verified, error, metas, infos, signed>>
      /\ pc = "runtime"
      /\ pc' = IF \E k \in Addresses, flag \in Flags : Escalates(k, flag)
                 THEN "refused" ELSE "called"
  BY DEF RInv, IInv, Runtime, inputs, callVars
<1>2. /\ infos = given /\ DOMAIN infos = Positions /\ DOMAIN metas = Positions
      /\ \A j \in Positions : /\ metas[j] = [pubkey |-> given[j].key, flags |-> ix[j].flags]
                              /\ given[j].key \in Addresses
  BY <1>1 DEF RInv, IInv, TypeOK, OrderIsKept, Calling, AccountInfo
<1>3. \A k, flag : Escalates(k, flag) <=>
        /\ \E j \in Needing(flag) : given[j].key = k
        /\ \A j \in Positions : given[j].key = k => ~ Holds(j, flag)
        /\ flag = "signer" => k \notin signed
  BY <1>2 DEF Escalates, Needing, Holds
<1>4. \A h, j \in Positions, flag \in Flags :
        given[h].key = given[j].key => (Holds(h, flag) <=> Holds(j, flag))
  BY DEF RInv, IInv, OneInfo, Holds
<1>5. (\E k \in Addresses, flag \in Flags : Escalates(k, flag)) <=> ~ Abstract!Justified
  <2>1. Abstract!Justified <=>
          /\ \A j \in Needing("writable") : Holds(j, "writable")
          /\ \A j \in Needing("signer") : Holds(j, "signer") \/ given[j].key \in signed
    BY AbstractSets DEF Abstract!Justified
  <2>2. \A flag : Needing(flag) \subseteq Positions
    BY DEF Needing
  <2>3. ASSUME NEW k \in Addresses, NEW flag \in Flags, Escalates(k, flag)
        PROVE  ~ Abstract!Justified
    <3>1. PICK j \in Needing(flag) : given[j].key = k
      BY <1>3, <2>3
    <3>2. ~ Holds(j, flag) /\ (flag = "signer" => given[j].key \notin signed)
      BY <1>3, <2>2, <2>3, <3>1
    <3> QED BY <2>1, <3>2 DEF Flags
  <2>4. ASSUME NEW flag \in Flags, NEW j \in Needing(flag), ~ Holds(j, flag),
               flag = "signer" => given[j].key \notin signed
        PROVE  \E k \in Addresses : Escalates(k, flag)
    <3>1. j \in Positions /\ given[j].key \in Addresses
      BY <1>2, <2>2
    <3>2. Escalates(given[j].key, flag)
      BY <1>3, <1>4, <2>4, <3>1
    <3> QED BY <3>1, <3>2
  <2>5. ASSUME ~ Abstract!Justified
        PROVE  \E k \in Addresses, flag \in Flags : Escalates(k, flag)
    <3>1. CASE \E j \in Needing("writable") : ~ Holds(j, "writable")
      BY <2>4, <3>1 DEF Flags
    <3>2. CASE \E j \in Needing("signer") : ~ Holds(j, "signer") /\ given[j].key \notin signed
      BY <2>4, <3>2 DEF Flags
    <3> QED BY <2>1, <2>5, <3>1, <3>2
  <2> QED BY <2>3, <2>5
<1>6. phase = "runtime" /\ phase' = IF Abstract!Justified THEN "called" ELSE "refused"
  BY <1>1, <1>5 DEF phase
<1> QED BY <1>1, <1>6 DEF Abstract!Runtime, Abstract!inputs

(* The first states are the same. *)
LEMMA InitRefines == Init => Abstract!Init
BY DEF Init, Abstract!Init, phase, None

(* Every step is one of the abstract interface, or does not show. *)
LEMMA NextRefines == RInv /\ [Next]_vars => [Abstract!Next]_(Abstract!vars)
<1> SUFFICES ASSUME RInv, [Next]_vars PROVE [Abstract!Next]_(Abstract!vars)
  OBVIOUS
<1> USE DEF Abstract!Next
<1>1. CASE \/ from_pubkey_arr \/ from_account_info_arr
           \/ call_verify_account_keys \/ call_verify_account_privileges
  BY <1>1, HiddenSteps
<1>2. ASSUME NEW j \in Positions, verify_account_keys(j)
      PROVE  [Abstract!Next]_(Abstract!vars)
  BY <1>2, KeysTurnRefines
<1>3. ASSUME NEW j \in Positions, verify_writable_privileges(j) \/ verify_signer_privileges(j)
      PROVE  [Abstract!Next]_(Abstract!vars)
  BY <1>3, PrivilegesTurnRefines
<1>4. CASE Return
  BY <1>4, ReturnRefines
<1>5. ASSUME NEW pdas \in SeedSets, invoke(pdas) PROVE [Abstract!Next]_(Abstract!vars)
  BY <1>5, InvokeRefines
<1>6. CASE Runtime
  BY <1>6, RuntimeRefines
<1>7. CASE UNCHANGED vars
  BY <1>7 DEF vars, Abstract!vars, phase
<1> QED BY <1>1, <1>2, <1>3, <1>4, <1>5, <1>6, <1>7 DEF Next, Terminated

(* The emitted functions, with their structs and loops, do what            *)
(* VerifiedCall promises the program that uses them.                       *)
THEOREM Refinement == Spec => ImplementsVerifiedCall
<1>1. Init => RInv
  BY InitIInv DEF RInv, CalledFor, Init, Flags
<1>2. RInv /\ [Next]_vars => RInv'
  BY NextIInv, NextCalledFor DEF RInv
<1> QED BY <1>1, <1>2, InitRefines, NextRefines, PTL
        DEF Spec, ImplementsVerifiedCall, Abstract!Spec
=============================================================================

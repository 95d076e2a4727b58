----------------------------- MODULE VerifiedCall -----------------------------
(***************************************************************************)
(* What the emitted interface of an instruction promises to the program    *)
(* that uses it, with no word about structs, fields and loops: accounts    *)
(* are positions in an array.  A verification looks at all of them at once *)
(* and accepts, or rejects over the first that is wrong; a call passes the *)
(* accounts on as they came; and the runtime refuses it exactly if an      *)
(* account lacks, and no seeds give, a privilege that is asked for at its  *)
(* own position.                                                           *)
(***************************************************************************)
EXTENDS Integers

CONSTANTS Instructions, Situations(_), SeedSets

VARIABLES
  ix, given, pubkeys,    \* the instruction, the accounts given, the keys expected
  phase,                 \* "ready", "rejected", "runtime", "refused" or "called"
  verified, error,       \* the verifications that accepted, the answer of one that did not
  metas, infos, signed   \* the call

vars == <<ix, given, pubkeys, phase, verified, error, metas, infos, signed>>

inputs == <<ix, given, pubkeys>>

Positions == DOMAIN ix

(* The positions with another key than expected. *)
Mismatches == {j \in Positions : given[j].key # pubkeys[j]}

Needing(flag) == {j \in Positions : flag \in ix[j].flags}

(* The positions that lack a privilege. *)
Lacking(flag) == {j \in Needing(flag) : flag \notin given[j].flags}

Init ==
  /\ ix \in Instructions
  /\ \E s \in Situations(ix) : given = s.given /\ pubkeys = s.pubkeys
  /\ phase = "ready"
  /\ verified = {}
  /\ error = [at |-> 0, lacks |-> "nothing"]
  /\ metas = <<>> /\ infos = <<>> /\ signed = {}

Accept(what) ==
  /\ verified' = verified \cup {what}
  /\ UNCHANGED <<phase, error>>

(* Reject over the first of the positions in wrong. *)
Reject(wrong, lacks) ==
  /\ \E j \in wrong : /\ \A h \in wrong : j <= h
                      /\ error' = [at |-> j, lacks |-> lacks]
  /\ phase' = "rejected"
  /\ UNCHANGED verified

VerifyKeys ==
  /\ phase = "ready"
  /\ Positions # {} /\ "keys" \notin verified
  /\ IF Mismatches = {} THEN Accept("keys") ELSE Reject(Mismatches, "keys")
  /\ UNCHANGED <<inputs, metas, infos, signed>>

(* Writable accounts come first. *)
VerifyPrivileges ==
  /\ phase = "ready"
  /\ Needing("writable") \cup Needing("signer") # {} /\ "privileges" \notin verified
  /\ IF Lacking("writable") # {} THEN Reject(Lacking("writable"), "writable")
     ELSE IF Lacking("signer") # {} THEN Reject(Lacking("signer"), "signer")
     ELSE Accept("privileges")
  /\ UNCHANGED <<inputs, metas, infos, signed>>

Invoke(pdas) ==
  /\ phase = "ready"
  /\ phase' = "runtime"
  /\ metas' = [j \in Positions |-> [pubkey |-> given[j].key, flags |-> ix[j].flags]]
  /\ infos' = given
  /\ signed' = pdas
  /\ UNCHANGED <<inputs, verified, error>>

(* Privileges that the program has for the accounts, or gives them. *)
Justified ==
  /\ Lacking("writable") = {}
  /\ \A j \in Lacking("signer") : given[j].key \in signed

Runtime ==
  /\ phase = "runtime"
  /\ phase' = IF Justified THEN "called" ELSE "refused"
  /\ UNCHANGED <<inputs, verified, error, metas, infos, signed>>

Next == VerifyKeys \/ VerifyPrivileges \/ (\E pdas \in SeedSets : Invoke(pdas)) \/ Runtime

Spec == Init /\ [][Next]_vars
=============================================================================

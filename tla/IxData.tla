-------------------------------- MODULE IxData --------------------------------
(***************************************************************************)
(* The data of an instruction or an account, from the emitted code that    *)
(* writes them to the emitted code that reads them back: a discriminator   *)
(* of eight bytes, then the arguments (or the struct of the account) as    *)
(* borsh lays them out.                                                    *)
(*                                                                         *)
(* They are written by XIxData::serialize, XProgramIx::serialize or        *)
(* XAccount::serialize, into a writer that may be too small.  They are     *)
(* read by a caller that expects one of them (XIxData::deserialize,        *)
(* XAccount::deserialize), or by XProgramIx::deserialize, which has a match*)
(* arm for every instruction.  In between, what was written may be followed*)
(* by what was there before.  The writer is external, and so is borsh,     *)
(* which encodes and decodes what the derives on the emitted structs say.  *)
(***************************************************************************)
EXTENDS Integers, Sequences

CONSTANTS
  Programs,      \* what the modules are generated from
  Values(_),     \* for a list of types, values of these types
  Expected(_, _),  \* for a module and an item that is written, what a reader expects
  Rooms,         \* how many bytes a writer may take
  Leftovers,     \* what may follow the data
  Encode(_, _),  \* borsh: the bytes of values of these types
  Decode(_, _)   \* borsh: what bytes start with, if it is of these types

Byte == 0 .. 255

(* XIxData or XAccount, and XProgramIx. *)
Decoders == {"IxData", "ProgramIx"}

(* A module of instructions or accounts: in the order of the IDL, their    *)
(* discriminators and the types of their arguments; and the ways to read.  *)
(* Of two instructions with the same name in snake case neither compiles,  *)
(* and the discriminators of others differ unless sha256 is out of luck.   *)
ASSUME ProgramsAssumption ==
  \A p \in Programs :
    /\ p.decoders \subseteq Decoders
    /\ DOMAIN p.of \subseteq Nat
    /\ \A j \in DOMAIN p.of : p.of[j].discm \in Seq(Byte) /\ Len(p.of[j].discm) = 8
    /\ \A h, j \in DOMAIN p.of : p.of[h].discm = p.of[j].discm => h = j
    /\ \A j \in DOMAIN p.of : Expected(p, j) \subseteq DOMAIN p.of

ASSUME BytesAssumption == Rooms \subseteq Nat /\ Leftovers \subseteq Seq(Byte)

(* What borsh has written it reads back, whatever follows, and it does not *)
(* take the beginning of it for the whole.                                 *)
ASSUME BorshAssumption ==
  \A p \in Programs : \A j \in DOMAIN p.of : \A vs \in Values(p.of[j].args) :
    LET ts == p.of[j].args
        bytes == Encode(ts, vs)
    IN  IF ts = <<>> THEN vs = <<>>
        ELSE /\ bytes \in Seq(Byte)
             /\ \A rest \in Leftovers :
                  Decode(ts, bytes \o rest).ok /\ Decode(ts, bytes \o rest).values = vs
             /\ \A n \in 0 .. Len(bytes) - 1 :
                  n + 8 \in Rooms => ~ Decode(ts, SubSeq(bytes, 1, n)).ok

VARIABLES
  program,  \* the module
  x, args,  \* which of its items is written, and its arguments
  room,     \* what the writer takes
  wpc,      \* the write that serialize has come to, or its result
  data,     \* what is written
  y,        \* which item the first decoder is the one of
  buf,      \* what is to be read
  rpc,      \* the read that a decoder has come to, or its result
  left,     \* what a decoder has not read
  got       \* the variant and the arguments that a decoder returns

writeVars == <<wpc, data>>

readVars == <<buf, rpc, left, got>>

inputs == <<program, x, args, room, y>>

vars == <<program, x, args, room, wpc, data, y, buf, rpc, left, got>>

Items == DOMAIN program.of

discm(j) == program.of[j].discm

types(j) == program.of[j].args

has_ix_args(j) == types(j) # <<>>

Nothing == [variant |-> 0, args |-> <<>>]

Init ==
  /\ program \in Programs
  /\ x \in Items
  /\ args \in Values(types(x))
  /\ room \in Rooms
  /\ wpc = "discm"
  /\ data = <<>>
  /\ y \in Expected(program, x)
  /\ buf = <<>>
  /\ rpc = [d \in program.decoders |-> "idle"]
  /\ left = [d \in program.decoders |-> <<>>]
  /\ got = [d \in program.decoders |-> Nothing]

-----------------------------------------------------------------------------
(* serialize *)

(* External: write_all writes what fits, and fails if that is not all.     *)
write_all(bytes, next) ==
  LET fits == Len(data) + Len(bytes) <= room IN
  /\ data' = data \o SubSeq(bytes, 1, IF fits THEN Len(bytes) ELSE room - Len(data))
  /\ wpc' = IF fits THEN next ELSE "err"
  /\ UNCHANGED <<inputs, readVars>>

serialize_discm ==
  /\ wpc = "discm"
  /\ write_all(discm(x), IF has_ix_args(x) THEN "args" ELSE "ok")

serialize_args ==
  /\ wpc = "args"
  /\ write_all(Encode(types(x), args), "ok")

(* External: the buffer the data were written to is handed to a reader.    *)
Deliver ==
  /\ wpc \in {"ok", "err"}
  /\ \A d \in program.decoders : rpc[d] = "idle"
  /\ \E rest \in Leftovers : buf' = data \o rest
  /\ rpc' = [d \in program.decoders |-> "discm"]
  /\ left' = [d \in program.decoders |-> buf']
  /\ UNCHANGED <<inputs, writeVars, got>>

-----------------------------------------------------------------------------
(* deserialize *)

(* Mutant: XIxData takes what is any instruction of the program. *)
Arms_all(d) == Items

(* The items whose discriminator a decoder looks for. *)
Arms(d) == IF d = "ProgramIx" THEN Items ELSE {y}

(* Those it finds: read_exact fails on less than eight bytes. *)
Matching(d) ==
  {j \in Arms(d) : Len(left[d]) >= 8 /\ discm(j) = SubSeq(left[d], 1, 8)}

(* Mutant: the arms return the variant before their own. *)
Arm_shifted(d) ==
  LET j == CHOOSE h \in Matching(d) : TRUE
  IN  IF d = "ProgramIx" /\ j > 1 THEN j - 1 ELSE j

(* The match takes the first arm that fits. *)
Arm(d) == CHOOSE j \in Matching(d) : \A h \in Matching(d) : j <= h

(* read_exact, and the match or the comparison after it: Err(..) if that   *)
(* comes to nothing, Ok(..) if the arm has no arguments to read.           *)
read_discm(d) ==
  /\ rpc[d] = "discm"
  /\ \/ /\ Matching(d) = {}
        /\ rpc' = [rpc EXCEPT ![d] = "err"]
        /\ UNCHANGED <<left, got>>
     \/ /\ Matching(d) # {}
        /\ rpc' = [rpc EXCEPT ![d] = IF has_ix_args(Arm(d)) THEN "args" ELSE "ok"]
        /\ left' = [left EXCEPT ![d] = SubSeq(@, 9, Len(@))]
        /\ got' = [got EXCEPT ![d].variant = Arm(d)]
  /\ UNCHANGED <<inputs, writeVars, buf>>

(* Mutant: what cannot be read becomes the default. *)
deserialize_args_or_default(d) ==
  /\ rpc[d] = "args"
  /\ rpc' = [rpc EXCEPT ![d] = "ok"]
  /\ got' = [got EXCEPT ![d].args = Decode(types(got[d].variant), left[d]).values]
  /\ UNCHANGED <<inputs, writeVars, buf, left>>

(* Mutant: the arguments are read from buf, not from reader. *)
deserialize_args_from_buf(d) ==
  /\ rpc[d] = "args"
  /\ LET read == Decode(types(got[d].variant), buf) IN
       \/ /\ read.ok
          /\ rpc' = [rpc EXCEPT ![d] = "ok"]
          /\ got' = [got EXCEPT ![d].args = read.values]
       \/ /\ ~ read.ok
          /\ rpc' = [rpc EXCEPT ![d] = "err"]
          /\ UNCHANGED got
  /\ UNCHANGED <<inputs, writeVars, buf, left>>

(* XIxArgs::deserialize(&mut reader)?, which the derive of borsh provides; *)
(* nobody looks at what it leaves unread.                                  *)
deserialize_args(d) ==
  /\ rpc[d] = "args"
  /\ LET read == Decode(types(got[d].variant), left[d]) IN
       \/ /\ read.ok
          /\ rpc' = [rpc EXCEPT ![d] = "ok"]
          /\ got' = [got EXCEPT ![d].args = read.values]
       \/ /\ ~ read.ok
          /\ rpc' = [rpc EXCEPT ![d] = "err"]
          /\ UNCHANGED got
  /\ UNCHANGED <<inputs, writeVars, buf, left>>

Done == \A d \in program.decoders : rpc[d] \in {"ok", "err"}

Terminated == Done /\ UNCHANGED vars

Next ==
  \/ serialize_discm \/ serialize_args
  \/ Deliver
  \/ \E d \in program.decoders : read_discm(d) \/ deserialize_args(d)
  \/ Terminated

Spec == Init /\ [][Next]_vars

-----------------------------------------------------------------------------
(* Properties *)

(* Where the calls are, and what they have in hand then. *)
TypeOK ==
  /\ program \in Programs /\ x \in Items /\ y \in Items /\ room \in Rooms
  /\ wpc \in {"discm", "args", "ok", "err"}
  /\ data \in Seq(Byte) /\ Len(data) <= room
  /\ buf \in Seq(Byte)
  /\ rpc \in [program.decoders -> {"idle", "discm", "args", "ok", "err"}]
  /\ left \in [program.decoders -> Seq(Byte)]
  /\ DOMAIN got = program.decoders
  /\ \A d \in program.decoders :
       IF rpc[d] \in {"idle", "discm"} THEN got[d] = Nothing
         ELSE \/ got[d].variant \in (IF d = "IxData" THEN {y} ELSE Items)
              \/ rpc[d] = "err" /\ got[d] = Nothing

(* What was written in full is read back by its own decoder and by the one *)
(* of the program, whatever follows it in the buffer.                      *)
RoundTrip ==
  wpc = "ok" =>
    \A d \in program.decoders :
      /\ rpc[d] = "ok" => got[d] = [variant |-> x, args |-> args]
      /\ rpc[d] = "err" => x \notin Arms(d)

(* What a writer gave up on is read by nobody, unless something follows it.*)
PartialIsRefused ==
  wpc = "err" /\ buf = data => \A d \in program.decoders : rpc[d] # "ok"

(* Whatever the buffer holds, the enum of the program and the struct of an *)
(* instruction take it for the same thing: the enum returns a variant if,  *)
(* and only if, the struct of that instruction is returned, and their      *)
(* arguments are the same.                                                 *)
DecodersAgree ==
  Done /\ program.decoders = Decoders =>
    /\ rpc["IxData"] = "ok" => rpc["ProgramIx"] = "ok" /\ got["ProgramIx"] = got["IxData"]
    /\ rpc["ProgramIx"] = "ok" /\ got["ProgramIx"].variant = y => rpc["IxData"] = "ok"
============================================================================

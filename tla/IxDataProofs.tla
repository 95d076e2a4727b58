----------------------------- MODULE IxDataProofs -----------------------------
(***************************************************************************)
(* The properties of IxData for every interface, any arguments and writers *)
(* of any size, from what ProgramsAssumption says of the interface and     *)
(* BorshAssumption of borsh.                                               *)
(***************************************************************************)
EXTENDS IxData, SequenceTheorems, TLAPS

-----------------------------------------------------------------------------
(* The inductive invariant *)

(* The bytes of the arguments. *)
Payload == IF has_ix_args(x) THEN Encode(types(x), args) ELSE <<>>

(* The writer gave up in the discriminator or in the arguments. *)
CutOff ==
  \/ Len(data) < 8
  \/ /\ has_ix_args(x)
     /\ \E n \in 0 .. Len(Payload) - 1 :
          n + 8 \in Rooms /\ data = discm(x) \o SubSeq(Payload, 1, n)

Written ==
  /\ args \in Values(types(x))
  /\ wpc = "discm" => data = <<>>
  /\ wpc = "args" => has_ix_args(x) /\ data = discm(x)
  /\ wpc = "ok" => data = discm(x) \o Payload
  /\ wpc = "err" => CutOff

(* The decoders start when the writer has ended, and on what it has left.  *)
Delivered ==
  \/ buf = <<>> /\ \A d \in program.decoders : rpc[d] = "idle"
  \/ wpc \in {"ok", "err"} /\ \E rest \in Leftovers : buf = data \o rest

Found(j) == Len(buf) >= 8 /\ discm(j) = SubSeq(buf, 1, 8)

After == SubSeq(buf, 9, Len(buf))

(* The buffer is data of item j. *)
Accepted(j) == Found(j) /\ (has_ix_args(j) => Decode(types(j), After).ok)

Returned(j) ==
  [variant |-> j,
   args    |-> IF has_ix_args(j) THEN Decode(types(j), After).values ELSE <<>>]

(* What a decoder has found out so far. *)
Reading(d) ==
  /\ rpc[d] = "discm" => left[d] = buf
  /\ rpc[d] \in {"idle", "discm"} => got[d] = Nothing
  /\ rpc[d] = "args" =>
       \E j \in Arms(d) : /\ got[d] = [variant |-> j, args |-> <<>>]
                          /\ Found(j) /\ has_ix_args(j) /\ left[d] = After
  /\ rpc[d] = "ok" => \E j \in Arms(d) : Accepted(j) /\ got[d] = Returned(j)
  /\ rpc[d] = "err" =>
       /\ \A j \in Arms(d) : ~ Accepted(j)
       /\ \/ got[d] = Nothing
          \/ \E j \in Arms(d) : got[d] = [variant |-> j, args |-> <<>>]

Types ==
  /\ program \in Programs /\ x \in Items /\ y \in Items /\ room \in Rooms
  /\ wpc \in {"discm", "args", "ok", "err"}
  /\ data \in Seq(Byte) /\ Len(data) <= room
  /\ buf \in Seq(Byte)
  /\ rpc \in [program.decoders -> {"idle", "discm", "args", "ok", "err"}]
  /\ left \in [program.decoders -> Seq(Byte)]
  /\ DOMAIN got = program.decoders

IInv ==
  /\ Types
  /\ Written
  /\ Delivered
  /\ \A d \in program.decoders : Reading(d)

-----------------------------------------------------------------------------
(* Sequences *)

(* The beginning and the end of a concatenation are what it is made of.    *)
LEMMA Parts ==
  ASSUME NEW S, NEW s \in Seq(S), NEW t \in Seq(S), NEW c, c = s \o t
  PROVE  /\ Len(c) = Len(s) + Len(t) /\ c \in Seq(S)
         /\ SubSeq(c, 1, Len(s)) = s
         /\ SubSeq(c, Len(s) + 1, Len(c)) = t
<1>1. c \in Seq(S) /\ Len(c) = Len(s) + Len(t) /\ Len(s) \in Nat /\ Len(t) \in Nat
  BY ConcatProperties, LenProperties
<1>2. \A i \in 1 .. Len(s) : c[i] = s[i] /\ c[i] \in S
  BY <1>1, ConcatProperties, ElementOfSeq
<1>3. \A i \in 1 .. Len(t) : c[Len(s) + i] = t[i] /\ c[Len(s) + i] \in S
  BY <1>1, ConcatProperties, ElementOfSeq
<1>4. SubSeq(c, 1, Len(s)) = s
  <2>1. /\ SubSeq(c, 1, Len(s)) \in Seq(S) /\ Len(SubSeq(c, 1, Len(s))) = Len(s)
        /\ \A i \in 1 .. Len(s) : SubSeq(c, 1, Len(s))[i] = s[i]
    BY <1>1, <1>2, SubSeqProperties
  <2> QED BY <2>1, SeqEqual
<1>5. SubSeq(c, Len(s) + 1, Len(c)) = t
  <2>1. \A i \in Len(s) + 1 .. Len(c) : c[i] \in S
    <3>1. SUFFICES ASSUME NEW i \in Len(s) + 1 .. Len(c) PROVE c[i] \in S
      OBVIOUS
    <3>2. i - Len(s) \in 1 .. Len(t) /\ Len(s) + (i - Len(s)) = i
      BY <1>1
    <3> QED BY <3>2, <1>3
  <2>2. /\ SubSeq(c, Len(s) + 1, Len(c)) \in Seq(S)
        /\ Len(SubSeq(c, Len(s) + 1, Len(c))) = Len(t)
        /\ \A i \in 1 .. Len(t) : SubSeq(c, Len(s) + 1, Len(c))[i] = t[i]
    BY <1>1, <1>3, <2>1, SubSeqProperties
  <2> QED BY <2>2, SeqEqual
<1> QED BY <1>1, <1>4, <1>5

(* A prefix of a sequence is a sequence. *)
LEMMA Prefix ==
  ASSUME NEW S, NEW s \in Seq(S), NEW n \in 0 .. Len(s)
  PROVE  SubSeq(s, 1, n) \in Seq(S) /\ Len(SubSeq(s, 1, n)) = n
<1>1. \A i \in 1 .. n : s[i] \in S
  BY ElementOfSeq, LenProperties
<1> QED BY <1>1, SubSeqProperties, LenProperties

(* The items of a program have discriminators of eight bytes of their own. *)
LEMMA Program ==
  ASSUME program \in Programs
  PROVE  /\ Items \subseteq Nat /\ program.decoders \subseteq Decoders
         /\ \A j \in Items : discm(j) \in Seq(Byte) /\ Len(discm(j)) = 8
         /\ \A h, j \in Items : discm(h) = discm(j) => h = j
         /\ \A j \in Items : Expected(program, j) \subseteq Items
BY ProgramsAssumption DEF Items, discm

(* What borsh makes of the arguments. *)
LEMMA Arguments ==
  ASSUME Types, args \in Values(types(x))
  PROVE  /\ Payload \in Seq(Byte)
         /\ ~ has_ix_args(x) => args = <<>>
         /\ has_ix_args(x) =>
              /\ \A rest \in Leftovers : /\ Decode(types(x), Payload \o rest).ok
                                         /\ Decode(types(x), Payload \o rest).values = args
              /\ \A n \in 0 .. Len(Payload) - 1 :
                   n + 8 \in Rooms => ~ Decode(types(x), SubSeq(Payload, 1, n)).ok
<1>1. program \in Programs /\ x \in DOMAIN program.of /\ args \in Values(program.of[x].args)
  BY DEF Types, Items, types
<1>2. CASE has_ix_args(x)
  BY <1>1, <1>2, BorshAssumption DEF has_ix_args, types, Payload
<1>3. CASE ~ has_ix_args(x)
  BY <1>1, <1>3, BorshAssumption, EmptySeq DEF has_ix_args, types, Payload
<1> QED BY <1>2, <1>3

(* What a reader has found out stays true when others step. *)
LEMMA SameReading ==
  ASSUME NEW d, Reading(d), UNCHANGED <<program, y, buf>>,
         rpc'[d] = rpc[d], left'[d] = left[d], got'[d] = got[d]
  PROVE  Reading(d)'
BY DEF Reading, Found, After, Accepted, Returned, Arms, Items, discm, types, has_ix_args

(* What was written stays written. *)
LEMMA SameWritten ==
  ASSUME Written, UNCHANGED <<inputs, writeVars>>
  PROVE  Written'
BY DEF Written, CutOff, Payload, inputs, writeVars, Items, discm, types, has_ix_args

LEMMA SameDelivered ==
  ASSUME Delivered, UNCHANGED <<program, writeVars, buf>>,
         (\A d \in program.decoders : rpc[d] = "idle") => UNCHANGED rpc
  PROVE  Delivered'
BY DEF Delivered, writeVars

-----------------------------------------------------------------------------
(* The steps *)

(* Nothing is written or read at first. *)
LEMMA InitIInv == Init => IInv
<1> SUFFICES ASSUME Init PROVE IInv
  OBVIOUS
<1>1. /\ program \in Programs /\ x \in Items /\ y \in Expected(program, x)
      /\ args \in Values(types(x)) /\ room \in Rooms
      /\ wpc = "discm" /\ data = <<>> /\ buf = <<>>
      /\ rpc = [d \in program.decoders |-> "idle"]
      /\ left = [d \in program.decoders |-> <<>>]
      /\ got = [d \in program.decoders |-> Nothing]
  BY DEF Init
<1>2. y \in Items /\ room \in Nat /\ <<>> \in Seq(Byte) /\ Len(<<>>) = 0
  BY <1>1, Program, BytesAssumption, EmptySeq
<1>3. Types
  BY <1>1, <1>2 DEF Types
<1>4. Written /\ Delivered
  BY <1>1 DEF Written, Delivered
<1>5. \A d \in program.decoders : Reading(d)
  BY <1>1 DEF Reading
<1> QED BY <1>3, <1>4, <1>5 DEF IInv

(* The writer puts the bytes, or as many as it has room for, after those   *)
(* it has.                                                                 *)
LEMMA Writing ==
  ASSUME Types, NEW bytes \in Seq(Byte), NEW next, write_all(bytes, next)
  PROVE  /\ data' \in Seq(Byte) /\ Len(data') <= room
         /\ \/ data' = data \o bytes /\ wpc' = next
            \/ /\ wpc' = "err"
               /\ \E n \in 0 .. Len(bytes) - 1 :
                    Len(data) + n = room /\ data' = data \o SubSeq(bytes, 1, n)
<1>1. Len(data) \in Nat /\ Len(bytes) \in Nat /\ room \in Nat /\ Len(data) <= room
      /\ data \in Seq(Byte)
  BY LenProperties, BytesAssumption DEF Types
<1>2. CASE Len(data) + Len(bytes) <= room
  <2>1. data' = data \o bytes /\ wpc' = next
    BY <1>2, SubSeqFull DEF write_all
  <2>2. data' \in Seq(Byte) /\ Len(data') = Len(data) + Len(bytes)
    BY <1>1, <2>1, ConcatProperties
  <2> QED BY <1>2, <2>1, <2>2
<1>3. CASE ~ (Len(data) + Len(bytes) <= room)
  <2> DEFINE n == room - Len(data)
  <2>1. n \in 0 .. Len(bytes) - 1 /\ n \in 0 .. Len(bytes) /\ Len(data) + n = room
    BY <1>1, <1>3
  <2>2. data' = data \o SubSeq(bytes, 1, n) /\ wpc' = "err"
    BY <1>3 DEF write_all
  <2>3. SubSeq(bytes, 1, n) \in Seq(Byte) /\ Len(SubSeq(bytes, 1, n)) = n
    BY <2>1, Prefix
  <2>4. data' \in Seq(Byte) /\ Len(data') = Len(data) + n
    BY <1>1, <2>2, <2>3, ConcatProperties
  <2>5. \E k \in 0 .. Len(bytes) - 1 :
          Len(data) + k = room /\ data' = data \o SubSeq(bytes, 1, k)
    BY <2>1, <2>2
  <2>6. Len(data') <= room
    BY <1>1, <2>1, <2>4
  <2> QED BY <2>2, <2>4, <2>5, <2>6
<1> QED BY <1>2, <1>3

(* While something is written no decoder has started. *)
LEMMA NotYet ==
  ASSUME IInv, wpc \in {"discm", "args"}, UNCHANGED <<inputs, readVars>>
  PROVE  /\ Delivered'
         /\ \A d \in program.decoders : Reading(d)'
<1>1. Delivered'
  BY DEF IInv, Delivered, inputs, readVars
<1>2. \A d \in program.decoders : Reading(d)'
  BY SameReading DEF IInv, inputs, readVars
<1> QED BY <1>1, <1>2

(* The first write: the discriminator. *)
LEMMA DiscmStep == IInv /\ serialize_discm => IInv'
<1> SUFFICES ASSUME IInv, serialize_discm PROVE IInv'
  OBVIOUS
<1> DEFINE next == IF has_ix_args(x) THEN "args" ELSE "ok"
<1>1. /\ Types /\ Written /\ wpc = "discm" /\ data = <<>>
      /\ write_all(discm(x), next) /\ UNCHANGED <<inputs, readVars>>
  BY DEF IInv, Written, serialize_discm, write_all
<1>2. discm(x) \in Seq(Byte) /\ Len(discm(x)) = 8 /\ room \in Nat
  BY <1>1, Program, BytesAssumption DEF Types
<1>3. /\ data' \in Seq(Byte) /\ Len(data') <= room
      /\ \/ data' = data \o discm(x) /\ wpc' = next
         \/ /\ wpc' = "err"
            /\ \E n \in 0 .. Len(discm(x)) - 1 :
                 Len(data) + n = room /\ data' = data \o SubSeq(discm(x), 1, n)
  BY <1>1, <1>2, Writing
<1>4. Types'
  BY <1>1, <1>3 DEF Types, inputs, readVars, Items
<1>5. Delivered' /\ \A d \in program.decoders : Reading(d)'
  BY <1>1, NotYet
<1>6. CASE data' = data \o discm(x) /\ wpc' = next
  <2>1. data' = discm(x)
    BY <1>1, <1>2, <1>6, ConcatEmptySeq
  <2>2. ~ has_ix_args(x) => data' = discm(x) \o Payload
    BY <1>2, <2>1, ConcatEmptySeq DEF Payload
  <2>3. Written'
    BY <1>1, <1>6, <2>1, <2>2 DEF Written, Payload, inputs, discm, types, has_ix_args
  <2> QED BY <1>1, <1>4, <1>5, <2>3 DEF IInv, inputs
<1>7. CASE wpc' = "err" /\ \E n \in 0 .. Len(discm(x)) - 1 :
                 Len(data) + n = room /\ data' = data \o SubSeq(discm(x), 1, n)
  <2>1. Len(data) = 0
    BY <1>1, EmptySeq
  <2>2. room < 8
    BY <1>2, <1>7, <2>1
  <2>3. Len(data') < 8
    BY <1>2, <1>3, <2>2, LenProperties
  <2>4. Written'
    BY <1>1, <1>7, <2>3 DEF Written, CutOff, inputs, types
  <2> QED BY <1>1, <1>4, <1>5, <2>4 DEF IInv, inputs
<1> QED BY <1>3, <1>6, <1>7

(* The second write: the arguments. *)
LEMMA ArgsStep == IInv /\ serialize_args => IInv'
<1> SUFFICES ASSUME IInv, serialize_args PROVE IInv'
  OBVIOUS
<1>1. /\ Types /\ Written /\ wpc = "args" /\ has_ix_args(x) /\ data = discm(x)
      /\ write_all(Payload, "ok") /\ UNCHANGED <<inputs, readVars>>
  BY DEF IInv, Written, serialize_args, write_all, Payload
<1>2. Payload \in Seq(Byte) /\ Len(data) = 8 /\ room \in Rooms /\ room \in Nat
  BY <1>1, Arguments, Program, BytesAssumption DEF Types, Written
<1>3. /\ data' \in Seq(Byte) /\ Len(data') <= room
      /\ \/ data' = data \o Payload /\ wpc' = "ok"
         \/ /\ wpc' = "err"
            /\ \E n \in 0 .. Len(Payload) - 1 :
                 Len(data) + n = room /\ data' = data \o SubSeq(Payload, 1, n)
  BY <1>1, <1>2, Writing
<1>4. Types'
  BY <1>1, <1>3 DEF Types, inputs, readVars, Items
<1>5. Delivered' /\ \A d \in program.decoders : Reading(d)'
  BY <1>1, NotYet
<1>6. UNCHANGED <<has_ix_args(x), Payload, discm(x), types(x), args>>
  BY <1>1 DEF inputs, Payload, discm, types, has_ix_args
<1>7. wpc' = "err" => CutOff'
  <2> SUFFICES ASSUME wpc' = "err" PROVE CutOff'
    OBVIOUS
  <2>1. PICK n \in 0 .. Len(Payload) - 1 :
          Len(data) + n = room /\ data' = data \o SubSeq(Payload, 1, n)
    BY <1>3
  <2>2. n + 8 \in Rooms
    BY <1>2, <2>1, LenProperties
  <2>3. n \in 0 .. Len(Payload') - 1 /\ data' = discm(x)' \o SubSeq(Payload', 1, n)
    BY <1>1, <1>6, <2>1
  <2>4. has_ix_args(x)'
    BY <1>1, <1>6
  <2> QED BY <2>2, <2>3, <2>4 DEF CutOff
<1>8. Written'
  BY <1>1, <1>3, <1>6, <1>7 DEF Written
<1> QED BY <1>1, <1>4, <1>5, <1>8 DEF IInv, inputs

(* The buffer is handed over. *)
LEMMA DeliverStep == IInv /\ Deliver => IInv'
<1> SUFFICES ASSUME IInv, Deliver PROVE IInv'
  OBVIOUS
<1>1. PICK rest \in Leftovers : buf' = data \o rest
  BY DEF Deliver
<1>2. /\ Types /\ Written /\ wpc \in {"ok", "err"}
      /\ UNCHANGED <<inputs, writeVars, got>>
      /\ rpc' = [d \in program.decoders |-> "discm"]
      /\ left' = [d \in program.decoders |-> buf']
      /\ \A d \in program.decoders : rpc[d] = "idle" /\ got[d] = Nothing
  BY DEF IInv, Deliver, Reading
<1>3. buf' \in Seq(Byte)
  BY <1>1, <1>2, BytesAssumption, ConcatProperties DEF Types
<1>4. Types'
  BY <1>2, <1>3 DEF Types, inputs, writeVars, Items
<1>5. Delivered'
  BY <1>1, <1>2 DEF Delivered, writeVars
<1>6. \A d \in program.decoders : Reading(d)'
  BY <1>2 DEF Reading, inputs, Nothing
<1> QED BY <1>2, <1>4, <1>5, <1>6, SameWritten DEF IInv, inputs

(* At most one arm finds its discriminator, and it is the one taken. *)
LEMMA OneArm ==
  ASSUME Types, NEW d \in program.decoders, left[d] = buf
  PROVE  /\ Matching(d) = {j \in Arms(d) : Found(j)}
         /\ Matching(d) # {} => Arm(d) \in Matching(d)
         /\ Arms(d) \subseteq Items
         /\ \A h, j \in Items : Found(h) /\ Found(j) => h = j
<1>1. Matching(d) = {j \in Arms(d) : Found(j)}
  BY DEF Matching, Found
<1>2. Arms(d) \subseteq Items
  BY DEF Types, Arms
<1>3. \A h, j \in Items : Found(h) /\ Found(j) => h = j
  BY Program DEF Found, Types
<1>4. ASSUME Matching(d) # {} PROVE Arm(d) \in Matching(d)
  <2>1. PICK j \in Matching(d) : TRUE
    BY <1>4
  <2>2. j \in Nat /\ \A h \in Matching(d) : j <= h
    BY <1>1, <1>2, <1>3, <2>1, Program DEF Types
  <2> QED BY <2>1, <2>2 DEF Arm
<1> QED BY <1>1, <1>2, <1>3, <1>4

(* A decoder that has read the discriminator knows the only arm that fits. *)
LEMMA ReadDiscmStep ==
  ASSUME IInv, NEW d \in program.decoders, read_discm(d)
  PROVE  IInv'
<1>1. /\ Types /\ Written /\ Delivered /\ Reading(d) /\ rpc[d] = "discm"
      /\ UNCHANGED <<inputs, writeVars, buf>>
  BY DEF IInv, read_discm
<1>2. left[d] = buf /\ got[d] = Nothing /\ buf \in Seq(Byte)
  BY <1>1 DEF Reading, Types
<1>3. /\ Matching(d) = {j \in Arms(d) : Found(j)}
      /\ Matching(d) # {} => Arm(d) \in Matching(d)
      /\ Arms(d) \subseteq Items
      /\ \A h, j \in Items : Found(h) /\ Found(j) => h = j
  BY <1>1, <1>2, OneArm
<1>4. /\ \A j : Found(j)' <=> Found(j)
      /\ \A j : Accepted(j)' <=> Accepted(j)
      /\ \A j : has_ix_args(j)' <=> has_ix_args(j)
      /\ After' = After /\ Arms(d)' = Arms(d)
      /\ \A j : Returned(j)' = Returned(j)
  BY <1>1 DEF inputs, Found, Accepted, After, Returned, Arms, Items, discm, types, has_ix_args
<1>5. Written' /\ Delivered'
  BY <1>1, SameWritten DEF Delivered, writeVars, inputs
<1>6. \A e \in program.decoders \ {d} :
        rpc'[e] = rpc[e] /\ left'[e] = left[e] /\ got'[e] = got[e]
  BY <1>1 DEF read_discm, Types
<1>7. \A e \in program.decoders \ {d} : Reading(e)'
  BY <1>1, <1>6, SameReading DEF IInv, inputs
<1>8. CASE /\ Matching(d) = {}
           /\ rpc' = [rpc EXCEPT ![d] = "err"]
           /\ UNCHANGED <<left, got>>
  <2>1. Types'
    BY <1>1, <1>8 DEF Types, inputs, writeVars, Items
  <2>2. \A j \in Arms(d) : ~ Accepted(j)
    BY <1>3, <1>8 DEF Accepted
  <2>3. rpc'[d] = "err" /\ got'[d] = Nothing
    BY <1>1, <1>2, <1>8 DEF Types
  <2>4. Reading(d)'
    BY <1>4, <2>2, <2>3 DEF Reading, Nothing
  <2> QED BY <1>1, <1>5, <1>7, <2>1, <2>4 DEF IInv, inputs
<1>9. CASE /\ Matching(d) # {}
           /\ rpc' = [rpc EXCEPT ![d] = IF has_ix_args(Arm(d)) THEN "args" ELSE "ok"]
           /\ left' = [left EXCEPT ![d] = SubSeq(@, 9, Len(@))]
           /\ got' = [got EXCEPT ![d].variant = Arm(d)]
  <2>1. Arm(d) \in Arms(d) /\ Found(Arm(d))
    BY <1>3, <1>9
  <2>2. After \in Seq(Byte)
    <3>1. Len(buf) \in Nat /\ \A i \in 9 .. Len(buf) : buf[i] \in Byte
      BY <1>2, LenProperties, ElementOfSeq
    <3> QED BY <3>1, SubSeqProperties DEF After
  <2>3. /\ rpc'[d] = IF has_ix_args(Arm(d)) THEN "args" ELSE "ok"
        /\ left'[d] = After
        /\ got'[d] = [variant |-> Arm(d), args |-> <<>>]
    BY <1>1, <1>2, <1>9 DEF Types, After, Nothing
  <2>4. Types'
    <3>1. left' = [left EXCEPT ![d] = After]
      BY <1>2, <1>9 DEF After
    <3>2. left' \in [program.decoders -> Seq(Byte)]
      BY <1>1, <2>2, <3>1 DEF Types
    <3>3. rpc' \in [program.decoders -> {"idle", "discm", "args", "ok", "err"}]
      BY <1>1, <1>9 DEF Types
    <3>4. DOMAIN got' = program.decoders
      BY <1>1, <1>9 DEF Types
    <3> QED BY <1>1, <3>2, <3>3, <3>4 DEF Types, inputs, writeVars, Items
  <2>5. Reading(d)'
    <3>1. CASE has_ix_args(Arm(d))
      BY <1>4, <2>1, <2>3, <3>1 DEF Reading
    <3>2. CASE ~ has_ix_args(Arm(d))
      <4>1. Accepted(Arm(d)) /\ got'[d] = Returned(Arm(d)) /\ rpc'[d] = "ok"
        BY <2>1, <2>3, <3>2 DEF Accepted, Returned
      <4> QED BY <1>4, <2>1, <4>1 DEF Reading
    <3> QED BY <3>1, <3>2
  <2> QED BY <1>1, <1>5, <1>7, <2>4, <2>5 DEF IInv, inputs
<1> QED BY <1>8, <1>9 DEF read_discm

(* A decoder that has read the arguments accepts the item, or none.        *)
LEMMA ReadArgsStep ==
  ASSUME IInv, NEW d \in program.decoders, deserialize_args(d)
  PROVE  IInv'
<1> DEFINE read == Decode(types(got[d].variant), left[d])
<1>1. /\ Types /\ Written /\ Delivered /\ Reading(d) /\ rpc[d] = "args"
      /\ UNCHANGED <<inputs, writeVars, buf, left>>
      /\ \/ read.ok /\ rpc' = [rpc EXCEPT ![d] = "ok"]
            /\ got' = [got EXCEPT ![d].args = read.values]
         \/ ~ read.ok /\ rpc' = [rpc EXCEPT ![d] = "err"] /\ UNCHANGED got
  BY DEF IInv, deserialize_args
<1>2. PICK j \in Arms(d) : /\ got[d] = [variant |-> j, args |-> <<>>]
                           /\ Found(j) /\ has_ix_args(j) /\ left[d] = After
  BY <1>1 DEF Reading
<1>3. read = Decode(types(j), After)
  BY <1>2
<1> HIDE DEF read
<1>4. Arms(d) \subseteq Items /\ \A h, k \in Items : Found(h) /\ Found(k) => h = k
  BY <1>1, Program DEF Types, Arms, Found
<1>5. /\ \A h : Accepted(h)' <=> Accepted(h)
      /\ Arms(d)' = Arms(d)
      /\ \A h : Returned(h)' = Returned(h)
  BY <1>1 DEF inputs, Found, Accepted, After, Returned, Arms, Items, discm, types, has_ix_args
<1>6. Written' /\ Delivered'
  BY <1>1, SameWritten DEF Delivered, writeVars, inputs
<1>7. \A e \in program.decoders \ {d} :
        rpc'[e] = rpc[e] /\ left'[e] = left[e] /\ got'[e] = got[e]
  BY <1>1 DEF Types
<1>8. \A e \in program.decoders \ {d} : Reading(e)'
  BY <1>1, <1>7, SameReading DEF IInv, inputs
<1>9. Types'
  BY <1>1 DEF Types, inputs, writeVars, Items
<1>10. Reading(d)'
  <2>1. CASE read.ok /\ rpc' = [rpc EXCEPT ![d] = "ok"] /\ got' = [got EXCEPT ![d].args = read.values]
    <3>1. Accepted(j)
      BY <1>2, <1>3, <2>1 DEF Accepted
    <3>2. got'[d] = [variant |-> j, args |-> read.values]
      BY <1>1, <1>2, <2>1 DEF Types
    <3>3. got'[d] = Returned(j) /\ rpc'[d] = "ok"
      BY <1>1, <1>2, <1>3, <2>1, <3>2 DEF Returned, Types
    <3> QED BY <1>5, <3>1, <3>3 DEF Reading
  <2>2. CASE ~ read.ok /\ rpc' = [rpc EXCEPT ![d] = "err"] /\ UNCHANGED got
    <3>1. \A h \in Arms(d) : ~ Accepted(h)
      BY <1>2, <1>3, <1>4, <2>2 DEF Accepted
    <3>2. rpc'[d] = "err" /\ got'[d] = [variant |-> j, args |-> <<>>]
      BY <1>1, <1>2, <2>2 DEF Types
    <3> QED BY <1>5, <3>1, <3>2 DEF Reading
  <2> QED BY <1>1, <2>1, <2>2
<1> QED BY <1>1, <1>6, <1>8, <1>9, <1>10 DEF IInv, inputs

(* A step that changes nothing. *)
LEMMA Stuttering == IInv /\ UNCHANGED vars => IInv'
<1> SUFFICES ASSUME IInv, UNCHANGED vars PROVE IInv'
  OBVIOUS
<1>1. UNCHANGED <<inputs, writeVars, readVars>>
  BY DEF vars, inputs, writeVars, readVars
<1>2. Types' /\ Written' /\ Delivered'
  BY <1>1, SameWritten DEF IInv, Types, Delivered, inputs, writeVars, readVars, Items
<1>3. \A d \in program.decoders : Reading(d)'
  BY <1>1, SameReading DEF IInv, inputs, readVars
<1> QED BY <1>1, <1>2, <1>3 DEF IInv, inputs

(* Every step of the writer and of the decoders preserves the invariant.   *)
LEMMA NextIInv == IInv /\ [Next]_vars => IInv'
BY DiscmStep, ArgsStep, DeliverStep, ReadDiscmStep, ReadArgsStep, Stuttering
   DEF Next, Terminated

-----------------------------------------------------------------------------
(* What the invariant says of the buffer *)

(* Data that were written in full are data of item x and of no other one.  *)
LEMMA FullData ==
  ASSUME IInv, wpc = "ok", NEW d \in program.decoders, rpc[d] # "idle"
  PROVE  /\ \A j \in Items : Accepted(j) <=> j = x
         /\ Returned(x) = [variant |-> x, args |-> args]
<1>1. /\ Types /\ args \in Values(types(x)) /\ data = discm(x) \o Payload
  BY DEF IInv, Written
<1>2. PICK rest \in Leftovers : buf = data \o rest
  BY DEF IInv, Delivered
<1>3. /\ discm(x) \in Seq(Byte) /\ Len(discm(x)) = 8
      /\ \A j \in Items : discm(j) = discm(x) => j = x
      /\ x \in Items
  BY <1>1, Program DEF Types
<1>4. /\ Payload \in Seq(Byte) /\ rest \in Seq(Byte)
      /\ ~ has_ix_args(x) => args = <<>>
      /\ has_ix_args(x) => /\ Decode(types(x), Payload \o rest).ok
                           /\ Decode(types(x), Payload \o rest).values = args
  BY <1>1, Arguments, BytesAssumption
<1>5. Payload \o rest \in Seq(Byte) /\ Len(Payload \o rest) \in Nat
  BY <1>4, ConcatProperties, LenProperties
<1>6. buf = discm(x) \o (Payload \o rest)
  BY <1>1, <1>2, <1>3, <1>4, ConcatAssociative
<1>7. Len(buf) >= 8 /\ SubSeq(buf, 1, 8) = discm(x) /\ After = Payload \o rest
  <2> DEFINE rest_ == Payload \o rest
  <2> HIDE DEF rest_
  <2>1. /\ Len(buf) = Len(discm(x)) + Len(rest_)
        /\ SubSeq(buf, 1, Len(discm(x))) = discm(x)
        /\ SubSeq(buf, Len(discm(x)) + 1, Len(buf)) = rest_
    <3>1. discm(x) \in Seq(Byte) /\ rest_ \in Seq(Byte) /\ buf = discm(x) \o rest_
      BY <1>3, <1>5, <1>6 DEF rest_
    <3> QED BY <3>1, Parts
  <2>2. Len(rest_) \in Nat /\ rest_ = Payload \o rest
    BY <1>5 DEF rest_
  <2> QED BY <1>3, <2>1, <2>2 DEF After
<1> QED BY <1>3, <1>4, <1>7 DEF Accepted, Found, Returned

(* Data that were cut off are data of nothing. *)
LEMMA CutOffData ==
  ASSUME IInv, wpc = "err", buf = data, NEW j \in Items
  PROVE  ~ Accepted(j)
<1>1. Types /\ args \in Values(types(x)) /\ CutOff
  BY DEF IInv, Written
<1>2. CASE Len(data) < 8
  BY <1>1, <1>2, LenProperties DEF Accepted, Found, Types
<1>3. CASE has_ix_args(x) /\ \E n \in 0 .. Len(Payload) - 1 :
             n + 8 \in Rooms /\ data = discm(x) \o SubSeq(Payload, 1, n)
  <2>1. PICK n \in 0 .. Len(Payload) - 1 :
          n + 8 \in Rooms /\ data = discm(x) \o SubSeq(Payload, 1, n)
    BY <1>3
  <2>2. Payload \in Seq(Byte) /\ ~ Decode(types(x), SubSeq(Payload, 1, n)).ok
    BY <1>1, <1>3, <2>1, Arguments
  <2>3. /\ discm(x) \in Seq(Byte) /\ Len(discm(x)) = 8
        /\ discm(j) = discm(x) => j = x
    BY <1>1, Program DEF Types
  <2>4. n \in 0 .. Len(Payload)
    BY <2>1, <2>2, LenProperties
  <2>5. SubSeq(Payload, 1, n) \in Seq(Byte)
    BY <2>2, <2>4, Prefix
  <2>6. SubSeq(buf, 1, 8) = discm(x) /\ After = SubSeq(Payload, 1, n)
    <3> DEFINE start == SubSeq(Payload, 1, n)
    <3> HIDE DEF start
    <3>1. discm(x) \in Seq(Byte) /\ start \in Seq(Byte) /\ buf = discm(x) \o start
      BY <2>1, <2>3, <2>5 DEF start
    <3>2. /\ SubSeq(buf, 1, Len(discm(x))) = discm(x)
          /\ SubSeq(buf, Len(discm(x)) + 1, Len(buf)) = start
      BY <3>1, Parts
    <3> QED BY <2>3, <3>2 DEF After, start
  <2> QED BY <1>3, <2>2, <2>3, <2>6 DEF Accepted, Found
<1> QED BY <1>1, <1>2, <1>3 DEF CutOff

-----------------------------------------------------------------------------
(* The theorems *)

(* The invariant holds of every writer and of every reader. *)
THEOREM Invariance == Spec => []IInv
BY InitIInv, NextIInv, PTL DEF Spec

(* Calls are where they may be, with what they have read so far. *)
THEOREM TypeCorrect == Spec => []TypeOK
<1>1. IInv => TypeOK
  <2> SUFFICES ASSUME IInv PROVE TypeOK
    OBVIOUS
  <2>1. ASSUME NEW d \in program.decoders
        PROVE  IF rpc[d] \in {"idle", "discm"} THEN got[d] = Nothing
               ELSE \/ got[d].variant \in (IF d = "IxData" THEN {y} ELSE Items)
                    \/ rpc[d] = "err" /\ got[d] = Nothing
    <3>1. /\ Reading(d) /\ rpc[d] \in {"idle", "discm", "args", "ok", "err"}
          /\ d \in Decoders
      BY <2>1, Program DEF IInv, Types
    <3>2. Arms(d) = IF d = "IxData" THEN {y} ELSE Items
      BY <3>1 DEF Arms, Decoders
    <3>3. rpc[d] \in {"idle", "discm"} => got[d] = Nothing
      BY <3>1 DEF Reading
    <3>4. CASE rpc[d] = "args"
      <4>1. PICK j \in Arms(d) : got[d] = [variant |-> j, args |-> <<>>]
        BY <3>1, <3>4 DEF Reading
      <4> QED BY <3>2, <3>4, <4>1
    <3>5. CASE rpc[d] = "ok"
      <4>1. PICK j \in Arms(d) : got[d] = Returned(j)
        BY <3>1, <3>5 DEF Reading
      <4> QED BY <3>2, <3>5, <4>1 DEF Returned
    <3>6. CASE rpc[d] = "err"
      <4>1. got[d] = Nothing \/ \E j \in Arms(d) : got[d] = [variant |-> j, args |-> <<>>]
        BY <3>1, <3>6 DEF Reading
      <4>2. ASSUME NEW j \in Arms(d), got[d] = [variant |-> j, args |-> <<>>]
            PROVE  got[d].variant \in Arms(d)
        BY <4>2
      <4> QED BY <3>2, <3>6, <4>1, <4>2
    <3> QED BY <3>1, <3>2, <3>3, <3>4, <3>5, <3>6
  <2>2. Types
    BY DEF IInv
  <2> QED BY <2>1, <2>2 DEF Types, TypeOK
<1> QED BY Invariance, <1>1, PTL

(* What was written in full is read back, whatever follows it. *)
THEOREM ReadsBack == Spec => []RoundTrip
<1>1. IInv => RoundTrip
  <2> SUFFICES ASSUME IInv, wpc = "ok", NEW d \in program.decoders,
                      rpc[d] \in {"ok", "err"}
               PROVE  /\ rpc[d] = "ok" => got[d] = [variant |-> x, args |-> args]
                      /\ rpc[d] = "err" => x \notin Arms(d)
    BY DEF RoundTrip
  <2>1. /\ \A j \in Items : Accepted(j) <=> j = x
        /\ Returned(x) = [variant |-> x, args |-> args]
    BY FullData
  <2>2. Arms(d) \subseteq Items /\ Reading(d)
    BY DEF IInv, Types, Arms
  <2> QED BY <2>1, <2>2 DEF Reading
<1> QED BY Invariance, <1>1, PTL

(* What a writer gave up on is refused. *)
THEOREM Refused == Spec => []PartialIsRefused
<1>1. IInv => PartialIsRefused
  <2> SUFFICES ASSUME IInv, wpc = "err", buf = data,
                      NEW d \in program.decoders, rpc[d] = "ok"
               PROVE  FALSE
    BY DEF PartialIsRefused
  <2>1. Arms(d) \subseteq Items /\ Reading(d)
    BY DEF IInv, Types, Arms
  <2> QED BY <2>1, CutOffData DEF Reading
<1> QED BY Invariance, <1>1, PTL

(* The two ways to read the data of an instruction agree on any bytes.     *)
THEOREM Agreement == Spec => []DecodersAgree
<1>1. IInv => DecodersAgree
  <2> SUFFICES ASSUME IInv, Done, program.decoders = Decoders
               PROVE  /\ rpc["IxData"] = "ok" =>
                           rpc["ProgramIx"] = "ok" /\ got["ProgramIx"] = got["IxData"]
                      /\ rpc["ProgramIx"] = "ok" /\ got["ProgramIx"].variant = y =>
                           rpc["IxData"] = "ok"
    BY DEF DecodersAgree
  <2>1. /\ Reading("IxData") /\ Reading("ProgramIx")
        /\ rpc["IxData"] \in {"ok", "err"} /\ rpc["ProgramIx"] \in {"ok", "err"}
        /\ Arms("IxData") = {y} /\ Arms("ProgramIx") = Items /\ y \in Items
    BY DEF IInv, Types, Done, Decoders, Arms
  <2>2. \A h, j \in Items : Accepted(h) /\ Accepted(j) => h = j
    BY Program DEF IInv, Types, Accepted, Found
  <2>3. \A j : Returned(j).variant = j
    BY DEF Returned
  <2>4. rpc["IxData"] = "ok" => Accepted(y) /\ got["IxData"] = Returned(y)
    BY <2>1 DEF Reading
  <2>5. rpc["IxData"] = "err" => ~ Accepted(y)
    BY <2>1 DEF Reading
  <2>6. rpc["ProgramIx"] = "ok" => \E j \in Items : Accepted(j) /\ got["ProgramIx"] = Returned(j)
    BY <2>1 DEF Reading
  <2>7. rpc["ProgramIx"] = "err" => \A j \in Items : ~ Accepted(j)
    BY <2>1 DEF Reading
  <2> QED BY <2>1, <2>2, <2>3, <2>4, <2>5, <2>6, <2>7
<1> QED BY Invariance, <1>1, PTL
=============================================================================

-------------------------------- MODULE Borsh --------------------------------
(***************************************************************************)
(* External: how borsh writes and reads values of the types that are       *)
(* derived on in the emitted code.  Numbers are the bytes they are written *)
(* as, an option is the empty or a singleton sequence, and a variant of an *)
(* enum its index followed by its fields.                                  *)
(*                                                                         *)
(* Fields go from first to last; they are divided in halves here so that   *)
(* TLC's stack does not depend on their number.                            *)
(***************************************************************************)
EXTENDS InterfaceNotation

Half(lo, hi) == (lo + hi) \div 2

RECURSIVE Bytes(_, _), BytesOf(_, _, _, _)

(* The bytes of the values vs of types ts, from the lo-th to the hi-th. *)
BytesOf(ts, vs, lo, hi) ==
  IF lo > hi THEN <<>>
    ELSE IF lo = hi THEN Bytes(ts[lo], vs[lo])
    ELSE BytesOf(ts, vs, lo, Half(lo, hi)) \o BytesOf(ts, vs, Half(lo, hi) + 1, hi)

(* The types of n elements of type t. *)
Copies(t, n) == [j \in 1 .. n |-> t]

(* The bytes of v, a value of type t. *)
Bytes(t, v) ==
  CASE t[1] \in {"fixed", "bool"} -> v
    [] t[1] = "option" -> IF v = <<>> THEN <<0>> ELSE <<1>> \o Bytes(t[2], v[1])
    [] t[1] = "array"  -> BytesOf(Copies(t[2], t[3]), v, 1, t[3])
    [] t[1] = "struct" -> BytesOf(t[2], v, 1, Len(t[2]))
    [] t[1] = "enum"   -> <<v[1] - 1>> \o Bytes(Struct(t[2][v[1]]), v[2])

-----------------------------------------------------------------------------
Unreadable == [ok |-> FALSE, value |-> <<>>, rest |-> <<>>]

Readable(v, rest) == [ok |-> TRUE, value |-> v, rest |-> rest]

RECURSIVE Read(_, _), ReadAll(_, _, _, _)

(* Values of the types ts, from the lo-th to the hi-th. *)
ReadAll(ts, lo, hi, bytes) ==
  IF lo > hi THEN Readable(<<>>, bytes)
    ELSE IF lo = hi
    THEN LET one == Read(ts[lo], bytes) IN
         IF one.ok THEN Readable(<<one.value>>, one.rest) ELSE Unreadable
    ELSE LET first == ReadAll(ts, lo, Half(lo, hi), bytes) IN
         IF ~ first.ok THEN Unreadable
           ELSE LET second == ReadAll(ts, Half(lo, hi) + 1, hi, first.rest) IN
                IF second.ok THEN Readable(first.value \o second.value, second.rest)
                             ELSE Unreadable

(* What bytes start with: a value of type t, or nothing that can be read.  *)
Read(t, bytes) ==
  LET fixed(n) == IF Len(bytes) < n THEN Unreadable
                    ELSE Readable(SubSeq(bytes, 1, n), SubSeq(bytes, n + 1, Len(bytes)))
      tag == fixed(1)
  IN  CASE t[1] = "fixed"  -> fixed(t[2])
        [] t[1] = "bool"   -> IF tag.ok /\ tag.value[1] <= 1 THEN tag ELSE Unreadable
        [] t[1] = "option" ->
             IF ~ tag.ok \/ tag.value[1] > 1 THEN Unreadable
               ELSE ReadAll(<<t[2]>>, 1, tag.value[1], tag.rest)
        [] t[1] = "array"  -> ReadAll(Copies(t[2], t[3]), 1, t[3], bytes)
        [] t[1] = "struct" -> ReadAll(t[2], 1, Len(t[2]), bytes)
        [] t[1] = "enum"   ->
             IF ~ tag.ok \/ tag.value[1] >= Len(t[2]) THEN Unreadable
               ELSE LET variant == tag.value[1] + 1
                        fields == Read(Struct(t[2][variant]), tag.rest)
                    IN  IF fields.ok THEN Readable(<<variant, fields.value>>, fields.rest)
                                     ELSE Unreadable
=============================================================================

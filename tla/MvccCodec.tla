------------------------------ MODULE MvccCodec ------------------------------
(***************************************************************************)
(* The MVCC key codec of storage/mvcc: Encode, Decode, LockKey, NewKey and *)
(* Key.Raw (codec.go, key.go), over byte strings.                          *)
(*                                                                         *)
(* Encode is codec.EncodeUintDesc(codec.EncodeBytes(nil, key), ver).  The  *)
(* two codec functions are not part of the sources; they are modelled from *)
(* the specification (3, 4.1): EncodeBytes is the memcomparable group      *)
(* encoding (groups of G bytes, zero-padded, each followed by a marker     *)
(* byte 0xFF - padCount) and EncodeUintDesc appends the W-byte big-endian  *)
(* complement of the version.  Bytes are 0..Byte-1 (0xFF is Byte-1) and a  *)
(* version is W bytes wide, so LockVer (math.MaxUint64) is Byte^W - 1.      *)
(* The real code has Byte = 256, G = 8, W = 8.                             *)
(*                                                                         *)
(* MC_Pure chooses the inputs and states the contract of spec 4.1 and  *)
(* 8.1-8.3 as invariants over them.                                      *)
(***************************************************************************)
EXTENDS Naturals, Sequences, SequencesExt

CONSTANTS
    Byte,       \* number of byte values
    G,          \* encGroupSize
    W,          \* bytes of an encoded version
    MaxKeyLen,  \* longest user key enumerated
    MaxRawLen   \* longest arbitrary encoded key enumerated

ASSUME Byte > G /\ G > 0 /\ W > 0

Bytes == 0..Byte - 1
EncMarker == Byte - 1
EncPad == 0
MaxUint == Byte ^ W - 1
LockVer == MaxUint
Versions == 0..MaxUint
UserKeys == SeqOf(Bytes, MaxKeyLen)
Fail == [err |-> TRUE]

-----------------------------------------------------------------------------
(* codec: bytes and unsigned integers.                                     *)

\* codec.EncodeBytes(b, data): data in groups of G bytes; the last group is
\* padded with EncPad and every group ends with EncMarker - padCount.  A key
\* whose length is a multiple of G gets a final group of padding only.
RECURSIVE EncodeGroups(_)
EncodeGroups(data) ==
    IF Len(data) >= G
    THEN SubSeq(data, 1, G) \o << EncMarker >>
             \o EncodeGroups(SubSeq(data, G + 1, Len(data)))
    ELSE LET padCount == G - Len(data)
         IN  data \o [i \in 1..padCount |-> EncPad] \o << EncMarker - padCount >>

EncodeBytes(b, data) == b \o EncodeGroups(data)

\* codec.DecodeBytes(b, nil): groups until one with padding; rejects a short
\* group, a marker meaning more than G pad bytes and non-zero padding.
RECURSIVE DecodeGroups(_, _)
DecodeGroups(b, buf) ==
    IF Len(b) < G + 1 THEN Fail
    ELSE LET padCount == EncMarker - b[G + 1]
             realSize == G - padCount
             rest == SubSeq(b, G + 2, Len(b))
         IN  IF padCount > G THEN Fail
             ELSE IF padCount = 0
             THEN DecodeGroups(rest, buf \o SubSeq(b, 1, G))
             ELSE IF \E i \in realSize + 1..G : b[i] # EncPad THEN Fail
             ELSE [err |-> FALSE, rest |-> rest,
                   key |-> buf \o SubSeq(b, 1, realSize)]

DecodeBytes(b) == DecodeGroups(b, << >>)

\* Big-endian digits of n in W bytes, and back.
BigEndian(n) == [i \in 1..W |-> (n \div (Byte ^ (W - i))) % Byte]
FromBigEndian(s) == FoldLeft(LAMBDA acc, d : acc * Byte + d, 0, s)

\* codec.EncodeUintDesc(b, v): the big-endian bytes of ^v.
EncodeUintDesc(b, v) == b \o BigEndian(MaxUint - v)

\* codec.DecodeUintDesc(b): needs W bytes.
DecodeUintDesc(b) ==
    IF Len(b) < W THEN Fail
    ELSE [err |-> FALSE, rest |-> SubSeq(b, W + 1, Len(b)),
          v |-> MaxUint - FromBigEndian(SubSeq(b, 1, W))]

-----------------------------------------------------------------------------
(* storage/mvcc.                                                           *)

\* Mutant: the version appended in ascending order.
EncodeAscending(key, ver) == EncodeBytes(<< >>, key) \o BigEndian(ver)

\* Mutant: the user key appended raw, without the group encoding.
EncodeRawKey(key, ver) == EncodeUintDesc(key, ver)

\* Encode(key, ver).
Encode(key, ver) == EncodeUintDesc(EncodeBytes(<< >>, key), ver)

\* LockKey(key).
LockKey(key) == Encode(key, LockVer)

\* Mutant: Decode that ignores bytes left after the version.
DecodeLoose(e) ==
    LET d == DecodeBytes(e)
    IN  IF d.err THEN Fail
        ELSE IF d.rest = << >> THEN [err |-> FALSE, key |-> d.key, ver |-> 0]
        ELSE LET u == DecodeUintDesc(d.rest)
             IN  IF u.err THEN Fail
                 ELSE [err |-> FALSE, key |-> d.key, ver |-> u.v]

\* Decode(encodedKey): a meta key (no version suffix) decodes with version
\* 0; a suffix that is not exactly one version is an error.
Decode(e) ==
    LET d == DecodeBytes(e)
    IN  IF d.err THEN Fail
        ELSE IF d.rest = << >> THEN [err |-> FALSE, key |-> d.key, ver |-> 0]
        ELSE LET u == DecodeUintDesc(d.rest)
             IN  IF u.err \/ u.rest # << >> THEN Fail
                 ELSE [err |-> FALSE, key |-> d.key, ver |-> u.v]

\* NewKey(key): the meta key; nil for an empty key.
NewKey(key) == IF key = << >> THEN << >> ELSE EncodeBytes(<< >>, key)

\* Key.Raw(): the user key of an encoded key; it panics on a decode error.
Raw(key) ==
    IF key = << >> THEN [err |-> FALSE, key |-> << >>]
    ELSE LET d == DecodeBytes(key)
         IN  IF d.err THEN Fail ELSE [err |-> FALSE, key |-> d.key]

\* bytes.Compare(a, b) < 0, pebble's default comparer.
RECURSIVE BytesLess(_, _)
BytesLess(a, b) ==
    IF a = << >> THEN b # << >>
    ELSE IF b = << >> THEN FALSE
    ELSE IF Head(a) # Head(b) THEN Head(a) < Head(b)
    ELSE BytesLess(Tail(a), Tail(b))

=============================================================================

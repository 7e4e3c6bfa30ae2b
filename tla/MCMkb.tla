------------------------------- MODULE MCMkb -------------------------------
(***************************************************************************)
(* Files of two to four records, from a set that holds every kind that     *)
(* parse and derive_media_key tell apart; a byte short, whole, or followed *)
(* by zeros.  Blocks have two bits.                                        *)
(***************************************************************************)
EXTENDS Mkb

MCBlock == 0..3
MCaes_128d == [k \in MCBlock |-> [b \in MCBlock |-> (3 * b + k) % 4]]
MCMask == [b \in MCBlock |-> [u \in MCBlock |-> (b + 2 * u) % 4]]
MCVerifyBlocks == {1}
MCKeyLists == {<< >>, <<0>>, <<2, 3>>, <<1, 0, 3>>}

Record(type, len) ==
  [type |-> type, len |-> len, uvs |-> << >>, cvalues |-> << >>, dv |-> 0]

Uv(u) == [end |-> FALSE, uv |-> u]
EndUv(u) == [end |-> TRUE, uv |-> u]

(* `extra` bytes follow the last whole entry.                               *)
UvRecord(uvs, extra) ==
  [Record("EXPLICIT_SUBSET_DIFFERENCE", 4 + 5 * Len(uvs) + extra)
     EXCEPT !.uvs = uvs]
KeyRecord(blocks, extra) ==
  [Record("MEDIA_KEY_DATA", 4 + 16 * Len(blocks) + extra)
     EXCEPT !.cvalues = blocks]
DvRecord(type, dv) == [Record(type, 20) EXCEPT !.dv = dv]

MCLists == {
  UvRecord(<<Uv(0), Uv(1), Uv(2)>>, 0),
  UvRecord(<<Uv(3), EndUv(0), Uv(1)>>, 0),
  UvRecord(<<Uv(1), Uv(0)>>, 4)}

MCKeys == {
  KeyRecord(<<2, 0, 1>>, 0),
  KeyRecord(<<1>>, 0),
  KeyRecord(<<0, 3>>, 15),
  Record("MEDIA_KEY_DATA", 0)}

MCVerify == {
  DvRecord("VERIFY_MEDIA_KEY_V1", 2),
  DvRecord("VERIFY_MEDIA_KEY_V2", 0),
  [DvRecord("VERIFY_MEDIA_KEY_V1", 1) EXCEPT !.len = 19]}

MCOther == {
  Record("TYPE_AND_VERSION", 12),
  Record("TYPE_AND_VERSION", 3),
  Record("END_OF_MKB", 4)}

(* The usual order and its reverse, with a further record before, which may *)
(* hide one of the three, or after.                                         *)
MCUsual == {<<x, y, z>> : x \in MCLists, y \in MCKeys, z \in MCVerify}
           \cup {<<z, y, x>> : x \in MCLists, y \in MCKeys, z \in MCVerify}
MCBefore == MCOther \cup {UvRecord(<<EndUv(0)>>, 0), KeyRecord(<<3, 1>>, 0),
                         DvRecord("VERIFY_MEDIA_KEY_V1", 3)}
MCSequences ==
  MCUsual \cup {<<x>> \o s : x \in MCBefore, s \in MCUsual}
          \cup {s \o <<x>> : x \in MCOther, s \in MCUsual}
          \cup {<<x, y>> : x \in MCLists, y \in MCKeys}

Offset(s, j) == FoldSet(LAMBDA k, sum : s[k].len + sum, 0, 1..(j - 1))

(* Two records share an offset when the first is of length 0: it is that    *)
(* one which is at the offset.                                              *)
HeadAt(s, o) == s[Min({j \in DOMAIN s : Offset(s, j) = o})]

MCImage(s, change) ==
  [size |-> Offset(s, Len(s) + 1) + change,
   heads |-> [o \in {Offset(s, j) : j \in DOMAIN s} |-> HeadAt(s, o)]]

MCImages == {MCImage(s, change) : s \in MCSequences, change \in {-1, 0, 5}}
=============================================================================

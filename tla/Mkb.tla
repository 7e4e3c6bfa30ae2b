-------------------------------- MODULE Mkb --------------------------------
(***************************************************************************)
(* The Media Key Block (freeblue-mkb): parse walks the records of a file   *)
(* whose lengths nobody vouches for, then derive_media_key looks for a     *)
(* processing key and a subset that give a media key which verifies.       *)
(*                                                                         *)
(* A byte is known by its offset.  Of the file only the record heads are   *)
(* kept, at the offsets they have, each with the contents its body has     *)
(* when it is taken for a subset list, for key data, or for verification   *)
(* data; the rest of the file is zero.  AES and the masking of a key with  *)
(* a subset's UV are constants.                                            *)
(*                                                                         *)
(* One action is one turn of a loop, or one of its tests.                  *)
(***************************************************************************)
EXTENDS Integers, Sequences, FiniteSetsExt

CONSTANTS
  Block,          \* 16-byte blocks, which are also the keys
  aes_128d,       \* key -> (block -> block)
  Mask,           \* block -> (uv -> block): exclusive or into bytes 12 to 15
  VerifyBlocks,   \* the blocks that begin with VERIFY_CONST
  Images,         \* the files to parse
  KeyLists        \* the processing keys a caller may offer

HEAD_LEN == 4
UV_LEN == 5
BLOCK_LEN == 16

(* "TYPE_AND_VERSION" stands for every type that is not named here.         *)
Types == {"TYPE_AND_VERSION", "EXPLICIT_SUBSET_DIFFERENCE", "MEDIA_KEY_DATA",
          "VERIFY_MEDIA_KEY_V1", "VERIFY_MEDIA_KEY_V2", "END_OF_MKB"}

(* A subset has an end mark, bits 0xC0 of its first byte, and four bytes.   *)
Uvs == [end : BOOLEAN, uv : Block]

Heads == [type : Types, len : Nat, uvs : Seq(Uvs), cvalues : Seq(Block),
          dv : Block]

ASSUME MkbAssumption ==
  /\ aes_128d \in [Block -> [Block -> Block]]
  /\ Mask \in [Block -> [Block -> Block]]
  /\ KeyLists \subseteq Seq(Block)
  /\ \A image \in Images :
       /\ image.size \in Nat
       /\ DOMAIN image.heads \subseteq Nat
       /\ \A o \in DOMAIN image.heads :
            LET h == image.heads[o] IN
            /\ h \in Heads
            /\ h.type = "EXPLICIT_SUBSET_DIFFERENCE" =>
                 h.len < HEAD_LEN + UV_LEN * (Len(h.uvs) + 1)
            /\ h.type = "MEDIA_KEY_DATA" =>
                 h.len < HEAD_LEN + BLOCK_LEN * (Len(h.cvalues) + 1)

VARIABLES
  image,       \* the file
  off,         \* where the next record starts
  records,     \* the records found: type, place of the head, body from..to
  pks,         \* the caller's processing keys
  num_uvs,     \* subsets counted so far
  p, a,        \* processing key and subset at hand
  mk,          \* the media key found
  pc

vars == <<image, off, records, pks, num_uvs, p, a, mk, pc>>

Init ==
  /\ image \in Images
  /\ off = 0
  /\ records = << >>
  /\ pks \in KeyLists
  /\ num_uvs = 0
  /\ p = 1
  /\ a = 0
  /\ mk = << >>
  /\ pc = "parse"

Return(what) ==
  /\ pc' = what
  /\ UNCHANGED <<image, off, records, pks, num_uvs, p, a>>

-----------------------------------------------------------------------------
(* Mkb::parse.                                                             *)

HasHead == off + HEAD_LEN <= image.size
InHeads == off \in DOMAIN image.heads
IsEnd == InHeads => \/ image.heads[off].type = "END_OF_MKB"
                    \/ image.heads[off].len = 0
TypeHere == IF InHeads THEN image.heads[off].type ELSE "END_OF_MKB"
LenHere == image.heads[off].len

Push(from, to) ==
  records' = Append(records, [type |-> TypeHere, head |-> off,
                              from |-> from, to |-> to])

(* Mutated form of ParseRecord: a length shorter than the head is let       *)
(* through.                                                                 *)
ParseRecordAnyLen ==
  /\ pc = "parse"
  /\ HasHead
  /\ ~IsEnd
  /\ off + LenHere <= image.size
  /\ Push(off + HEAD_LEN, off + LenHere)
  /\ off' = off + LenHere
  /\ UNCHANGED <<image, pks, num_uvs, p, a, mk, pc>>

(* Mutated form of ParseRecord: the length is taken to leave out the head.   *)
ParseRecordBodyLen ==
  /\ pc = "parse"
  /\ HasHead
  /\ ~IsEnd
  /\ off + LenHere <= image.size
  /\ LenHere >= HEAD_LEN
  /\ Push(off + HEAD_LEN, off + LenHere)
  /\ off' = off + HEAD_LEN + LenHere
  /\ UNCHANGED <<image, pks, num_uvs, p, a, mk, pc>>

ParseRecord ==
  /\ pc = "parse"
  /\ HasHead
  /\ ~IsEnd
  /\ off + LenHere <= image.size
  /\ LenHere >= HEAD_LEN
  /\ Push(off + HEAD_LEN, off + LenHere)
  /\ off' = off + LenHere
  /\ UNCHANGED <<image, pks, num_uvs, p, a, mk, pc>>

(* Mutated form of ParseEnd: only the end record ends the walk, and one of  *)
(* length 0 is passed over.                                                 *)
ParseEndPasses ==
  /\ pc = "parse"
  /\ HasHead
  /\ IsEnd
  /\ \/ /\ TypeHere = "END_OF_MKB"
        /\ Push(off, off)
        /\ pc' = "derive"
     \/ /\ TypeHere # "END_OF_MKB"
        /\ UNCHANGED <<records, pc>>
  /\ UNCHANGED <<image, off, pks, num_uvs, p, a, mk>>

(* The end record, and any record of length 0, which is kept with its type. *)
ParseEnd ==
  /\ pc = "parse"
  /\ HasHead
  /\ IsEnd
  /\ Push(off, off)
  /\ pc' = "derive"
  /\ UNCHANGED <<image, off, pks, num_uvs, p, a, mk>>

ParseTruncated ==
  /\ pc = "parse"
  /\ HasHead
  /\ ~IsEnd
  /\ off + LenHere > image.size \/ LenHere < HEAD_LEN
  /\ Return("Truncated")
  /\ UNCHANGED mk

(* No room for another head: what is left is not looked at.                 *)
ParseDone ==
  /\ pc = "parse"
  /\ ~HasHead
  /\ Return("derive")
  /\ UNCHANGED mk

-----------------------------------------------------------------------------
(* What the other operations read.  A record is named by its index, and 0   *)
(* stands for none.                                                         *)

body(type) ==
  LET found == {j \in DOMAIN records : records[j].type = type}
  IN  IF found = {} THEN 0 ELSE Min(found)

BodyLen(j) == records[j].to - records[j].from
Contents(j) == image.heads[records[j].head]

SubDiff == body("EXPLICIT_SUBSET_DIFFERENCE")
CValues == body("MEDIA_KEY_DATA")

(* A V1 record that is too short hides a V2 record.                         *)
verify_data ==
  LET v1 == body("VERIFY_MEDIA_KEY_V1")
      v == IF v1 # 0 THEN v1 ELSE body("VERIFY_MEDIA_KEY_V2")
  IN  IF v # 0 /\ BodyLen(v) >= BLOCK_LEN THEN v ELSE 0

Verifies(key, v) == aes_128d[key][Contents(v).dv] \in VerifyBlocks

verify_media_key(key) == verify_data # 0 /\ Verifies(key, verify_data)

(* The key that processing key k gives with the b-th subset.                *)
Candidate(k, b) ==
  Mask[aes_128d[pks[k]][Contents(CValues).cvalues[b + 1]]]
      [Contents(SubDiff).uvs[b + 1].uv]

-----------------------------------------------------------------------------
(* derive_media_key.                                                       *)

DeriveMissing ==
  /\ pc = "derive"
  /\ 0 \in {SubDiff, CValues, verify_data}
  /\ Return("MissingRecord")
  /\ UNCHANGED mk

DeriveStart ==
  /\ pc = "derive"
  /\ 0 \notin {SubDiff, CValues, verify_data}
  /\ Return("count")
  /\ UNCHANGED mk

AnotherUv ==
  /\ UV_LEN * (num_uvs + 1) <= BodyLen(SubDiff)
  /\ ~Contents(SubDiff).uvs[num_uvs + 1].end

CountUv ==
  /\ pc = "count"
  /\ AnotherUv
  /\ num_uvs' = num_uvs + 1
  /\ UNCHANGED <<image, off, records, pks, p, a, mk, pc>>

CountDone ==
  /\ pc = "count"
  /\ ~AnotherUv
  /\ Return("search")
  /\ UNCHANGED mk

(* There is a subset a, with whole key data and a whole UV.                 *)
HasSubset ==
  /\ a < num_uvs
  /\ BLOCK_LEN * a + BLOCK_LEN <= BodyLen(CValues)
  /\ 1 + UV_LEN * a + 4 <= BodyLen(SubDiff)

Matches == Verifies(Candidate(p, a), verify_data)

SearchMatch ==
  /\ pc = "search"
  /\ p <= Len(pks)
  /\ HasSubset
  /\ Matches
  /\ mk' = <<Candidate(p, a)>>
  /\ Return("done")

SearchMiss ==
  /\ pc = "search"
  /\ p <= Len(pks)
  /\ HasSubset
  /\ ~Matches
  /\ a' = a + 1
  /\ UNCHANGED <<image, off, records, pks, num_uvs, p, mk, pc>>

(* Mutated form of SearchNextKey: the subsets are not gone through again.   *)
SearchNextKeyGoesOn ==
  /\ pc = "search"
  /\ p <= Len(pks)
  /\ ~HasSubset
  /\ p' = p + 1
  /\ UNCHANGED <<image, off, records, pks, num_uvs, a, mk, pc>>

(* The inner loop ends or breaks: the next processing key.                  *)
SearchNextKey ==
  /\ pc = "search"
  /\ p <= Len(pks)
  /\ ~HasSubset
  /\ p' = p + 1
  /\ a' = 0
  /\ UNCHANGED <<image, off, records, pks, num_uvs, mk, pc>>

SearchFails ==
  /\ pc = "search"
  /\ p > Len(pks)
  /\ Return("NoValidProcessingKey")
  /\ UNCHANGED mk

Next ==
  \/ ParseRecord
  \/ ParseEnd
  \/ ParseTruncated
  \/ ParseDone
  \/ DeriveMissing
  \/ DeriveStart
  \/ CountUv
  \/ CountDone
  \/ SearchMatch
  \/ SearchMiss
  \/ SearchNextKey
  \/ SearchFails

Spec == Init /\ [][Next]_vars

(* The functions run until they return.                                     *)
FairSpec == Spec /\ WF_vars(Next)

-----------------------------------------------------------------------------
(* Correctness.                                                            *)

Records == [type : Types, head : Nat, from : Nat, to : Nat]

Returned == {"Truncated", "MissingRecord", "NoValidProcessingKey", "done"}

(* Type invariant of Mkb.  Every body is a slice of the file, whatever      *)
(* lengths the file claims, so parse cannot panic; counting and searching   *)
(* stay inside the bodies.                                                  *)
TypeOK ==
  /\ off \in 0..image.size
  /\ records \in Seq(Records)
  /\ \A j \in DOMAIN records :
       /\ records[j].head <= records[j].from
       /\ records[j].from <= records[j].to
       /\ records[j].to <= image.size
  /\ pks \in KeyLists
  /\ num_uvs \in Nat
  /\ num_uvs > 0 => UV_LEN * num_uvs <= BodyLen(SubDiff)
  /\ p \in 1..(Len(pks) + 1)
  /\ a \in 0..num_uvs
  /\ mk \in Seq(Block)
  /\ pc \in Returned \cup {"parse", "derive", "count", "search"}

(* "length covers the whole record" (lib.rs:41): the records cover the file *)
(* without a gap or an overlap, from its first byte to where parse stands.  *)
RecordsTile ==
  /\ records # << >> => records[1].head = 0
  /\ \A j \in 1..(Len(records) - 1) : records[j + 1].head = records[j].to
  /\ pc = "parse" /\ records # << >> => records[Len(records)].to = off

(* A subset counts when its key data and its UV are whole and no end mark   *)
(* comes before or with it.                                                 *)
Usable(b) ==
  /\ BLOCK_LEN * (b + 1) <= BodyLen(CValues)
  /\ UV_LEN * (b + 1) <= BodyLen(SubDiff)
  /\ \A c \in 0..b : ~Contents(SubDiff).uvs[c + 1].end

Works(k, b) == Usable(b) /\ verify_media_key(Candidate(k, b))

Before(k, b, l, c) == k < l \/ (k = l /\ b < c)

(* "Derive the Media Key from one or more processing keys ... Returns the   *)
(* first match" (lib.rs:95-99): the key returned is one that                *)
(* verify_media_key accepts, from the first processing key and subset that  *)
(* give such a key, and NoValidProcessingKey means that there is none.      *)
DerivesFirst ==
  /\ pc = "done" =>
       /\ mk = <<Candidate(p, a)>>
       /\ Works(p, a)
       /\ \A k \in DOMAIN pks, b \in 0..image.size :
            Before(k, b, p, a) => ~Works(k, b)
  /\ pc = "NoValidProcessingKey" =>
       \A k \in DOMAIN pks, b \in 0..image.size : ~Works(k, b)

(* parse and derive_media_key return on every file: the walk advances by    *)
(* whole records and both searches are finite.                              *)
Terminates == <>(pc \in Returned)
=============================================================================

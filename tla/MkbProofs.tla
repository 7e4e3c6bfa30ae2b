----------------------------- MODULE MkbProofs -----------------------------
(***************************************************************************)
(* Theorems about Mkb, for every file, whatever lengths its records claim, *)
(* every cipher and every list of processing keys.                         *)
(***************************************************************************)
EXTENDS Mkb, SequenceTheorems, WellFoundedInduction, TLAPS

(* A record is a head of the file and what follows it, or it is empty.      *)
RecordOK(r) ==
  \/ /\ r.head \in DOMAIN image.heads
     /\ r.type = image.heads[r.head].type
     /\ r.from = r.head + HEAD_LEN
     /\ r.to = r.head + image.heads[r.head].len
  \/ r.from = r.head /\ r.to = r.head

RecordsOK == \A j \in DOMAIN records : RecordOK(records[j])

(* Nothing is counted and nothing searched before the records are known.    *)
NotYet ==
  /\ pc \in {"parse", "derive", "Truncated", "MissingRecord"} => num_uvs = 0
  /\ pc \in {"parse", "derive", "count", "Truncated", "MissingRecord"}
       => p = 1 /\ a = 0

HasRecords ==
  pc \in {"count", "search", "done", "NoValidProcessingKey"} =>
    /\ SubDiff # 0
    /\ CValues # 0
    /\ verify_data # 0

(* What is counted has no end mark, and the count is as large as it can be. *)
Counted ==
  /\ \A c \in 0..(num_uvs - 1) : ~Contents(SubDiff).uvs[c + 1].end
  /\ pc \in {"search", "done", "NoValidProcessingKey"} => ~AnotherUv

(* No pair before the one at hand works.                                    *)
Searched ==
  /\ pc \in {"search", "done", "NoValidProcessingKey"} =>
       \A k \in DOMAIN pks, b \in Nat : Before(k, b, p, a) => ~Works(k, b)
  /\ pc = "done" => mk = <<Candidate(p, a)>> /\ Works(p, a)
  /\ pc = "NoValidProcessingKey" => p > Len(pks)

TypeInv ==
  /\ image \in Images
  /\ TypeOK
  /\ RecordsOK
  /\ NotYet
  /\ HasRecords

-----------------------------------------------------------------------------
(* Of the records of a type there is a first one.                           *)
LEMMA HasLeast ==
  ASSUME NEW S \in SUBSET Nat, S # {}
  PROVE  Min(S) \in S
<1>. DEFINE R == {ss \in Nat \X Nat : ss[1] < ss[2]}
<1>1. OpToRel(<, Nat) = R
  BY Zenon DEF OpToRel
<1>2. IsWellFoundedOn(R, Nat)
  BY <1>1, NatLessThanWellFounded, Zenon
<1>. HIDE DEF R
<1>3. \E x \in S : \A y \in S : ~(<<y, x>> \in R)
  BY <1>2, WFMin
<1>4. PICK x \in S : \A y \in S : ~(<<y, x>> \in R)
  BY <1>3
<1>5. ASSUME NEW y \in S
      PROVE  x <= y
  <2>1. ~(<<y, x>> \in R) /\ x \in Nat /\ y \in Nat
    BY <1>4
  <2>. QED  BY <2>1 DEF R
<1>. QED  BY <1>5 DEF Min

LEMMA BodyIsRecord ==
  ASSUME TypeOK, NEW t, body(t) # 0
  PROVE  body(t) \in DOMAIN records /\ records[body(t)].type = t
<1>. DEFINE found == {j \in DOMAIN records : records[j].type = t}
<1>1. found \in SUBSET Nat
  BY DEF TypeOK
<1>2. CASE found = {}
  BY <1>2 DEF body
<1>3. CASE found # {}
  <2>1. Min(found) \in found
    BY <1>1, <1>3, HasLeast
  <2>2. body(t) = Min(found)
    BY <1>3 DEF body
  <2>. QED  BY <2>1, <2>2
<1>. QED  BY <1>2, <1>3

LEMMA RecordTyped ==
  ASSUME TypeOK, NEW j \in DOMAIN records
  PROVE  /\ records[j] \in Records
         /\ records[j].head <= records[j].from
         /\ records[j].from <= records[j].to
         /\ records[j].to <= image.size
         /\ BodyLen(j) \in Nat
<1>1. records \in Seq(Records)
  BY DEF TypeOK
<1>2. records[j] \in Records
  BY <1>1
<1>3. /\ records[j].head <= records[j].from
      /\ records[j].from <= records[j].to
      /\ records[j].to <= image.size
  BY DEF TypeOK
<1>. QED  BY <1>2, <1>3 DEF Records, BodyLen

(* The assumption on files, for a record with a body.                       *)
LEMMA HeadOK ==
  ASSUME image \in Images, NEW o \in DOMAIN image.heads
  PROVE  /\ o \in Nat
         /\ image.heads[o] \in Heads
         /\ image.heads[o].type \in Types
         /\ image.heads[o].len \in Nat
         /\ image.heads[o].type = "EXPLICIT_SUBSET_DIFFERENCE" =>
              image.heads[o].len
                < HEAD_LEN + UV_LEN * (Len(image.heads[o].uvs) + 1)
         /\ image.heads[o].type = "MEDIA_KEY_DATA" =>
              image.heads[o].len
                < HEAD_LEN + BLOCK_LEN * (Len(image.heads[o].cvalues) + 1)
<1>1. image.heads[o] \in Heads
  BY MkbAssumption
<1>. QED  BY <1>1, MkbAssumption DEF Heads

LEMMA ContentsOK ==
  ASSUME TypeInv, NEW j \in DOMAIN records, BodyLen(j) > 0
  PROVE  /\ records[j].head \in DOMAIN image.heads
         /\ records[j].type = Contents(j).type
         /\ BodyLen(j) = Contents(j).len - HEAD_LEN
<1>1. RecordOK(records[j])
  BY DEF TypeInv, RecordsOK
<1>2. records[j] \in Records
  BY RecordTyped DEF TypeInv
<1>3. CASE records[j].from = records[j].head /\ records[j].to = records[j].head
  BY <1>2, <1>3 DEF BodyLen, Records
<1>4. CASE /\ records[j].head \in DOMAIN image.heads
           /\ records[j].type = image.heads[records[j].head].type
           /\ records[j].from = records[j].head + HEAD_LEN
           /\ records[j].to = records[j].head + image.heads[records[j].head].len
  BY <1>2, <1>4, HeadOK DEF BodyLen, Contents, Records, HEAD_LEN, TypeInv
<1>. QED  BY <1>1, <1>3, <1>4 DEF RecordOK

(* Key data and UV that are inside their bodies are there.                  *)
LEMMA CandidateIsBlock ==
  ASSUME TypeInv, SubDiff # 0, CValues # 0, NEW k \in DOMAIN pks,
         NEW b \in Nat,
         BLOCK_LEN * b + BLOCK_LEN <= BodyLen(CValues),
         1 + UV_LEN * b + 4 <= BodyLen(SubDiff)
  PROVE  Candidate(k, b) \in Block
<1>. DEFINE hc == Contents(CValues)
            hs == Contents(SubDiff)
<1>1. /\ CValues \in DOMAIN records
      /\ records[CValues].type = "MEDIA_KEY_DATA"
      /\ SubDiff \in DOMAIN records
      /\ records[SubDiff].type = "EXPLICIT_SUBSET_DIFFERENCE"
  BY BodyIsRecord DEF TypeInv, CValues, SubDiff
<1>2. BodyLen(CValues) \in Nat /\ BodyLen(SubDiff) \in Nat
  BY <1>1, RecordTyped DEF TypeInv
<1>3. BodyLen(CValues) > 0 /\ BodyLen(SubDiff) > 0
  BY <1>2 DEF BLOCK_LEN, UV_LEN
<1>4. /\ records[CValues].head \in DOMAIN image.heads
      /\ hc.type = "MEDIA_KEY_DATA"
      /\ BodyLen(CValues) = hc.len - HEAD_LEN
  BY <1>1, <1>3, ContentsOK
<1>5. /\ records[SubDiff].head \in DOMAIN image.heads
      /\ hs.type = "EXPLICIT_SUBSET_DIFFERENCE"
      /\ BodyLen(SubDiff) = hs.len - HEAD_LEN
  BY <1>1, <1>3, ContentsOK
<1>6. /\ hc \in Heads
      /\ hc.len \in Nat
      /\ hc.len < HEAD_LEN + BLOCK_LEN * (Len(hc.cvalues) + 1)
  BY <1>4, HeadOK DEF TypeInv, Contents
<1>7. /\ hs \in Heads
      /\ hs.len \in Nat
      /\ hs.len < HEAD_LEN + UV_LEN * (Len(hs.uvs) + 1)
  BY <1>5, HeadOK DEF TypeInv, Contents
<1>8. hc.cvalues \in Seq(Block) /\ hs.uvs \in Seq(Uvs)
  BY <1>6, <1>7 DEF Heads
<1>9. b + 1 \in DOMAIN hc.cvalues
  <2>1. Len(hc.cvalues) \in Nat /\ DOMAIN hc.cvalues = 1..Len(hc.cvalues)
    BY <1>8
  <2>2. 16 * b + 16 < 16 * (Len(hc.cvalues) + 1)
    BY <1>4, <1>6, <2>1 DEF BLOCK_LEN, HEAD_LEN
  <2>3. b + 1 <= Len(hc.cvalues)
    BY <2>1, <2>2
  <2>. QED  BY <2>1, <2>3
<1>10. b + 1 \in DOMAIN hs.uvs
  <2>1. Len(hs.uvs) \in Nat /\ DOMAIN hs.uvs = 1..Len(hs.uvs)
    BY <1>8
  <2>2. 1 + 5 * b + 4 < 5 * (Len(hs.uvs) + 1)
    BY <1>5, <1>7, <2>1 DEF UV_LEN, HEAD_LEN
  <2>3. b + 1 <= Len(hs.uvs)
    BY <2>1, <2>2
  <2>. QED  BY <2>1, <2>3
<1>11. hc.cvalues[b + 1] \in Block /\ hs.uvs[b + 1].uv \in Block
  <2>. HIDE DEF hc, hs
  <2>1. hc.cvalues[b + 1] \in Block
    BY <1>8, <1>9
  <2>2. hs.uvs[b + 1] \in Uvs
    BY <1>8, <1>10
  <2>. QED  BY <2>1, <2>2 DEF Uvs
<1>12. pks[k] \in Block
  BY MkbAssumption DEF TypeInv, TypeOK
<1>. QED  BY <1>11, <1>12, MkbAssumption DEF Candidate

(* What the search reads depends on the file, its records and the keys.     *)
LEMMA SameRecords ==
  ASSUME UNCHANGED <<image, records, pks>>
  PROVE  /\ SubDiff' = SubDiff
         /\ CValues' = CValues
         /\ verify_data' = verify_data
         /\ BodyLen(SubDiff)' = BodyLen(SubDiff)
         /\ Contents(SubDiff)' = Contents(SubDiff)
         /\ \A k, b : Candidate(k, b)' = Candidate(k, b)
         /\ \A k, b : Works(k, b)' <=> Works(k, b)
         /\ RecordsOK' <=> RecordsOK
<1>. USE DEF SubDiff, CValues, verify_data, body, BodyLen, Contents
<1>1. /\ SubDiff' = SubDiff
      /\ CValues' = CValues
      /\ verify_data' = verify_data
      /\ BodyLen(SubDiff)' = BodyLen(SubDiff)
      /\ Contents(SubDiff)' = Contents(SubDiff)
  OBVIOUS
<1>2. \A k, b : Candidate(k, b)' = Candidate(k, b)
  BY DEF Candidate
<1>3. \A k, b : Works(k, b)' <=> Works(k, b)
  BY DEF Works, Usable, verify_media_key, Verifies, Candidate
<1>4. RecordsOK' <=> RecordsOK
  BY DEF RecordsOK, RecordOK
<1>. QED  BY <1>1, <1>2, <1>3, <1>4

-----------------------------------------------------------------------------
(* Type correctness.                                                       *)

(* One more record, whole and inside the file.                              *)
LEMMA Appended ==
  ASSUME TypeInv, NEW r \in Records, RecordOK(r),
         r.head <= r.from, r.from <= r.to, r.to <= image.size,
         records' = Append(records, r), image' = image
  PROVE  /\ records' \in Seq(Records)
         /\ \A j \in DOMAIN records' :
              /\ records'[j].head <= records'[j].from
              /\ records'[j].from <= records'[j].to
              /\ records'[j].to <= image'.size
         /\ RecordsOK'
<1>1. records \in Seq(Records)
  BY DEF TypeInv, TypeOK
<1>2. records' \in Seq(Records)
  BY <1>1
<1>3. ASSUME NEW j \in DOMAIN records'
      PROVE  /\ records'[j].head <= records'[j].from
             /\ records'[j].from <= records'[j].to
             /\ records'[j].to <= image'.size
             /\ RecordOK(records[j])'
  <2>1. CASE j \in DOMAIN records
    <3>1. records'[j] = records[j]
      BY <1>1, <2>1
    <3>2. RecordOK(records[j])
      BY <2>1 DEF TypeInv, RecordsOK
    <3>. QED  BY <2>1, <3>1, <3>2, RecordTyped DEF TypeInv, RecordOK
  <2>2. CASE j \notin DOMAIN records
    <3>1. records'[j] = r
      BY <1>1, <2>2
    <3>. QED  BY <3>1 DEF RecordOK
  <2>. QED  BY <2>1, <2>2
<1>. QED  BY <1>2, <1>3 DEF RecordsOK

LEMMA TypeInit == Init => TypeInv
<1> SUFFICES ASSUME Init
             PROVE  TypeInv
  OBVIOUS
<1>1. image.size \in Nat /\ pks \in Seq(Block)
  BY MkbAssumption DEF Init
<1>2. << >> \in Seq(Records) /\ << >> \in Seq(Block)
  OBVIOUS
<1>3. TypeOK
  BY <1>1, <1>2 DEF Init, TypeOK, Returned
<1>. QED  BY <1>3 DEF Init, TypeInv, RecordsOK, NotYet, HasRecords

LEMMA TypeStep == TypeInv /\ [Next]_vars => TypeInv'
<1> SUFFICES ASSUME TypeInv, [Next]_vars
             PROVE  TypeInv'
  OBVIOUS
<1>0. /\ image \in Images
      /\ image.size \in Nat
      /\ off \in 0..image.size
      /\ records \in Seq(Records)
      /\ pks \in Seq(Block)
      /\ num_uvs \in Nat
      /\ p \in 1..(Len(pks) + 1)
      /\ a \in 0..num_uvs
      /\ mk \in Seq(Block)
  BY MkbAssumption DEF TypeInv, TypeOK
(* Every action but three leaves the records alone.                         *)
<1>same. ASSUME UNCHANGED <<image, off, records, pks>>,
                num_uvs' \in Nat,
                num_uvs' > 0 => UV_LEN * num_uvs' <= BodyLen(SubDiff),
                p' \in 1..(Len(pks) + 1), a' \in 0..num_uvs',
                mk' \in Seq(Block),
                pc' \in Returned \cup {"parse", "derive", "count", "search"},
                NotYet',
                pc' \in {"count", "search", "done", "NoValidProcessingKey"} =>
                  SubDiff # 0 /\ CValues # 0 /\ verify_data # 0
         PROVE  TypeInv'
  <2>1. TypeOK'
    <3>1. (BodyLen(SubDiff))' = BodyLen(SubDiff)
      BY <1>same, SameRecords
    <3>. QED  BY <1>same, <3>1 DEF TypeInv, TypeOK
  <2>2. RecordsOK' /\ HasRecords'
    BY <1>same, SameRecords DEF TypeInv, HasRecords
  <2>. QED  BY <1>same, <2>1, <2>2 DEF TypeInv
<1>1. CASE ParseRecord
  <2>1. /\ off \in DOMAIN image.heads
        /\ LenHere \in Nat
        /\ TypeHere = image.heads[off].type
        /\ TypeHere \in Types
    BY <1>0, <1>1, HeadOK DEF ParseRecord, IsEnd, InHeads, TypeHere, LenHere
  <2>. DEFINE r == [type |-> TypeHere, head |-> off, from |-> off + HEAD_LEN,
                    to |-> off + LenHere]
  <2>2. /\ r \in Records
        /\ RecordOK(r)
        /\ r.head <= r.from /\ r.from <= r.to /\ r.to <= image.size
    <3>1. r \in Records
      BY <1>0, <1>1, <2>1 DEF ParseRecord, Records, HEAD_LEN
    <3>2. RecordOK(r)
      BY <2>1 DEF RecordOK, LenHere
    <3>3. r.head <= r.from /\ r.from <= r.to /\ r.to <= image.size
      BY <1>0, <1>1, <2>1 DEF ParseRecord, HEAD_LEN
    <3>. QED  BY <3>1, <3>2, <3>3
  <2>3. records' = Append(records, r) /\ image' = image
    BY <1>1 DEF ParseRecord, Push
  <2>4. /\ records' \in Seq(Records)
        /\ \A j \in DOMAIN records' :
             /\ records'[j].head <= records'[j].from
             /\ records'[j].from <= records'[j].to
             /\ records'[j].to <= image'.size
        /\ RecordsOK'
    <3>. HIDE DEF r
    <3>. QED  BY <2>2, <2>3, Appended
  <2>5. off' \in 0..image'.size
    BY <1>0, <1>1, <2>1 DEF ParseRecord
  <2>6. num_uvs' = 0 /\ p' = 1 /\ a' = 0 /\ pc' = "parse"
    BY <1>1 DEF ParseRecord, TypeInv, NotYet
  <2>7. TypeOK'
    BY <1>0, <1>1, <2>4, <2>5, <2>6 DEF ParseRecord, TypeInv, TypeOK
  <2>. QED  BY <1>1, <2>4, <2>6, <2>7
            DEF ParseRecord, TypeInv, NotYet, HasRecords
<1>2. CASE ParseEnd
  <2>1. TypeHere \in Types
    BY <1>0, HeadOK DEF InHeads, TypeHere, Types
  <2>. DEFINE r == [type |-> TypeHere, head |-> off, from |-> off, to |-> off]
  <2>2. /\ r \in Records
        /\ RecordOK(r)
        /\ r.head <= r.from /\ r.from <= r.to /\ r.to <= image.size
    BY <1>0, <2>1 DEF Records, RecordOK
  <2>3. records' = Append(records, r) /\ image' = image
    BY <1>2 DEF ParseEnd, Push
  <2>4. /\ records' \in Seq(Records)
        /\ \A j \in DOMAIN records' :
             /\ records'[j].head <= records'[j].from
             /\ records'[j].from <= records'[j].to
             /\ records'[j].to <= image'.size
        /\ RecordsOK'
    <3>. HIDE DEF r
    <3>. QED  BY <2>2, <2>3, Appended
  <2>5. num_uvs' = 0 /\ p' = 1 /\ a' = 0 /\ pc' = "derive"
    BY <1>2 DEF ParseEnd, TypeInv, NotYet
  <2>6. TypeOK'
    BY <1>0, <1>2, <2>4, <2>5 DEF ParseEnd, TypeInv, TypeOK
  <2>. QED  BY <1>2, <2>4, <2>5, <2>6 DEF ParseEnd, TypeInv, NotYet, HasRecords
<1>3. CASE ParseTruncated
  BY <1>0, <1>3, <1>same DEF ParseTruncated, Return, TypeInv, TypeOK, NotYet, Returned
<1>4. CASE ParseDone
  BY <1>0, <1>4, <1>same DEF ParseDone, Return, TypeInv, TypeOK, NotYet
<1>5. CASE DeriveMissing
  BY <1>0, <1>5, <1>same
  DEF DeriveMissing, Return, TypeInv, TypeOK, NotYet, Returned
<1>6. CASE DeriveStart
  BY <1>0, <1>6, <1>same DEF DeriveStart, Return, TypeInv, TypeOK, NotYet
<1>7. CASE CountUv
  <2>1. SubDiff # 0 /\ CValues # 0 /\ verify_data # 0
    BY <1>7 DEF CountUv, TypeInv, HasRecords
  <2>. QED
    BY <1>0, <1>7, <1>same, <2>1 DEF CountUv, AnotherUv, TypeInv, NotYet
<1>8. CASE CountDone
  BY <1>0, <1>8, <1>same
  DEF CountDone, Return, TypeInv, TypeOK, NotYet, HasRecords
<1>9. CASE SearchMatch
  <2>1. SubDiff # 0 /\ CValues # 0 /\ verify_data # 0
    BY <1>9 DEF SearchMatch, TypeInv, HasRecords
  <2>2. p \in DOMAIN pks /\ a \in Nat
    BY <1>0, <1>9 DEF SearchMatch
  <2>3. Candidate(p, a) \in Block
    BY <1>9, <2>1, <2>2, CandidateIsBlock DEF SearchMatch, HasSubset
  <2>4. mk' \in Seq(Block)
    BY <1>9, <2>3 DEF SearchMatch
  <2>. QED
    BY <1>0, <1>9, <1>same, <2>1, <2>4
    DEF SearchMatch, Return, TypeInv, TypeOK, NotYet, Returned
<1>10. CASE SearchMiss
  <2>1. a' \in 0..num_uvs'
    BY <1>0, <1>10 DEF SearchMiss, HasSubset
  <2>. QED
    BY <1>0, <1>10, <1>same, <2>1
    DEF SearchMiss, TypeInv, TypeOK, NotYet, HasRecords
<1>11. CASE SearchNextKey
  <2>1. p' \in 1..(Len(pks) + 1) /\ a' \in 0..num_uvs'
    BY <1>0, <1>11 DEF SearchNextKey
  <2>. QED
    BY <1>0, <1>11, <1>same, <2>1
    DEF SearchNextKey, TypeInv, TypeOK, NotYet, HasRecords
<1>12. CASE SearchFails
  BY <1>0, <1>12, <1>same
  DEF SearchFails, Return, TypeInv, TypeOK, NotYet, HasRecords, Returned
<1>13. CASE UNCHANGED vars
  BY <1>0, <1>13, <1>same DEF vars, TypeInv, TypeOK, NotYet, HasRecords
<1>. QED
  BY <1>1, <1>2, <1>3, <1>4, <1>5, <1>6, <1>7, <1>8, <1>9, <1>10, <1>11,
     <1>12, <1>13 DEF Next

LEMMA TypeAlways == Spec => []TypeInv
BY TypeInit, TypeStep, PTL DEF Spec

(* Whatever lengths a media key block claims, every record that parse keeps *)
(* is inside the file, and the search reads no key data and no UV outside   *)
(* their records: neither function can panic.                               *)
THEOREM TypeCorrect == Spec => []TypeOK
<1>1. TypeInv => TypeOK
  BY DEF TypeInv
<1>. QED  BY <1>1, TypeAlways, PTL

-----------------------------------------------------------------------------
(* The records.                                                            *)

TileInv == RecordsTile /\ (pc = "parse" /\ records = << >> => off = 0)

(* The next record starts where parse stands.                               *)
LEMMA TileAppended ==
  ASSUME TypeInv, TileInv, pc = "parse", NEW r, r.head = off,
         records' = Append(records, r)
  PROVE  /\ records' # << >>
         /\ records'[1].head = 0
         /\ \A j \in 1..(Len(records') - 1) :
              records'[j + 1].head = records'[j].to
         /\ records'[Len(records')] = r
<1>1. records \in Seq(Records) /\ Len(records) \in Nat
  BY DEF TypeInv, TypeOK
<1>2. /\ Len(records') = Len(records) + 1
      /\ records'[Len(records) + 1] = r
      /\ \A j \in 1..Len(records) : records'[j] = records[j]
  BY <1>1
<1>3. records'[1].head = 0
  <2>1. CASE records = << >>
    BY <1>2, <2>1 DEF TileInv
  <2>2. CASE records # << >>
    <3>1. 1 \in 1..Len(records)
      BY <1>1, <2>2
    <3>. QED  BY <1>2, <2>2, <3>1 DEF TileInv, RecordsTile
  <2>. QED  BY <2>1, <2>2
<1>4. ASSUME NEW j \in 1..(Len(records') - 1)
      PROVE  records'[j + 1].head = records'[j].to
  <2>1. CASE j < Len(records)
    <3>1. j \in 1..(Len(records) - 1) /\ j \in 1..Len(records)
          /\ j + 1 \in 1..Len(records)
      BY <1>1, <1>2, <2>1
    <3>. QED  BY <1>2, <3>1 DEF TileInv, RecordsTile
  <2>2. CASE j = Len(records)
    <3>1. records # << >> /\ j \in 1..Len(records)
      BY <1>1, <1>2, <2>2
    <3>. QED  BY <1>2, <2>2, <3>1 DEF TileInv, RecordsTile
  <2>. QED  BY <1>1, <1>2, <2>1, <2>2
<1>5. records' # << >>
  BY <1>1, <1>2
<1>. QED  BY <1>1, <1>2, <1>3, <1>4, <1>5

LEMMA TileStep == TypeInv /\ TileInv /\ [Next]_vars => TileInv'
<1> SUFFICES ASSUME TypeInv, TileInv, [Next]_vars
             PROVE  TileInv'
  OBVIOUS
<1>1. CASE ParseRecord
  <2>. DEFINE r == [type |-> TypeHere, head |-> off, from |-> off + HEAD_LEN,
                    to |-> off + LenHere]
  <2>1. /\ r.head = off /\ r.to = off'
        /\ records' = Append(records, r)
        /\ pc = "parse"
    BY <1>1 DEF ParseRecord, Push
  <2>. HIDE DEF r
  <2>. QED  BY <2>1, TileAppended DEF TileInv, RecordsTile
<1>2. CASE ParseEnd
  <2>. DEFINE r == [type |-> TypeHere, head |-> off, from |-> off, to |-> off]
  <2>1. /\ r.head = off
        /\ records' = Append(records, r)
        /\ pc = "parse" /\ pc' = "derive"
    BY <1>2 DEF ParseEnd, Push
  <2>. HIDE DEF r
  <2>. QED  BY <2>1, TileAppended DEF TileInv, RecordsTile
<1>3. CASE UNCHANGED <<off, records>> /\ (pc' = "parse" => pc = "parse")
  BY <1>3 DEF TileInv, RecordsTile
<1>. QED
  BY <1>1, <1>2, <1>3
  DEF Next, ParseTruncated, ParseDone, DeriveMissing, DeriveStart, CountUv,
      CountDone, SearchMatch, SearchMiss, SearchNextKey, SearchFails, Return,
      vars

(* The records cover the file from its first byte to where parse stands,    *)
(* without a gap and without an overlap.                                    *)
THEOREM RecordsCover == Spec => []RecordsTile
<1>1. Init => TileInv
  BY DEF Init, TileInv, RecordsTile
<1>2. TileInv => RecordsTile
  BY DEF TileInv
<1>. QED  BY <1>1, <1>2, TypeAlways, TileStep, PTL DEF Spec

-----------------------------------------------------------------------------
(* The key derived.                                                        *)

SearchInv == Counted /\ Searched

(* The bodies that are counted and searched have lengths.                   *)
LEMMA BodyLens ==
  ASSUME TypeInv, SubDiff # 0, CValues # 0
  PROVE  BodyLen(SubDiff) \in Nat /\ BodyLen(CValues) \in Nat
<1>1. SubDiff \in DOMAIN records /\ CValues \in DOMAIN records
  BY BodyIsRecord DEF TypeInv, SubDiff, CValues
<1>. QED  BY <1>1, RecordTyped DEF TypeInv

(* Where the inner loop ends, nothing from a on is usable.                  *)
LEMMA NoneFromHere ==
  ASSUME TypeInv, SearchInv, pc = "search", ~HasSubset, NEW b \in Nat, a <= b
  PROVE  ~Usable(b)
<1>1. a \in Nat /\ num_uvs \in Nat
  BY DEF TypeInv, TypeOK
<1>2. BodyLen(SubDiff) \in Nat /\ BodyLen(CValues) \in Nat
  BY BodyLens DEF TypeInv, HasRecords
<1>3. ~AnotherUv
  BY DEF SearchInv, Counted
<1>4. CASE a >= num_uvs
  <2>1. CASE UV_LEN * (num_uvs + 1) > BodyLen(SubDiff)
    <3>1. UV_LEN * (b + 1) > BodyLen(SubDiff)
      BY <1>1, <1>2, <1>4, <2>1 DEF UV_LEN
    <3>. QED  BY <1>1, <1>2, <3>1 DEF Usable, UV_LEN
  <2>2. CASE Contents(SubDiff).uvs[num_uvs + 1].end
    <3>1. num_uvs \in 0..b
      BY <1>1, <1>4
    <3>. QED  BY <2>2, <3>1 DEF Usable
  <2>3. UV_LEN * (num_uvs + 1) \in Nat
    BY <1>1 DEF UV_LEN
  <2>. QED  BY <1>2, <1>3, <2>1, <2>2, <2>3 DEF AnotherUv
<1>5. CASE BLOCK_LEN * a + BLOCK_LEN > BodyLen(CValues)
  <2>1. BLOCK_LEN * (b + 1) > BodyLen(CValues)
    BY <1>1, <1>2, <1>5 DEF BLOCK_LEN
  <2>. QED  BY <1>1, <1>2, <2>1 DEF Usable, BLOCK_LEN
<1>6. CASE 1 + UV_LEN * a + 4 > BodyLen(SubDiff)
  <2>1. UV_LEN * (b + 1) > BodyLen(SubDiff)
    BY <1>1, <1>2, <1>6 DEF UV_LEN
  <2>. QED  BY <1>1, <1>2, <2>1 DEF Usable, UV_LEN
<1>. QED  BY <1>1, <1>2, <1>4, <1>5, <1>6 DEF HasSubset, BLOCK_LEN, UV_LEN

(* Within the loops, a pair works exactly if its candidate verifies.        *)
LEMMA WorksHere ==
  ASSUME TypeInv, SearchInv, pc = "search", HasSubset
  PROVE  Works(p, a) <=> Matches
<1>1. a \in Nat /\ num_uvs \in Nat /\ a < num_uvs
  BY DEF TypeInv, TypeOK, HasSubset
<1>2. BodyLen(SubDiff) \in Nat /\ BodyLen(CValues) \in Nat /\ verify_data # 0
  BY BodyLens DEF TypeInv, HasRecords
<1>3. \A c \in 0..a : ~Contents(SubDiff).uvs[c + 1].end
  BY <1>1 DEF SearchInv, Counted
<1>4. /\ BLOCK_LEN * (a + 1) <= BodyLen(CValues)
      /\ UV_LEN * (a + 1) <= BodyLen(SubDiff)
  BY <1>1, <1>2 DEF HasSubset, BLOCK_LEN, UV_LEN
<1>5. Usable(a)
  BY <1>3, <1>4 DEF Usable
<1>. QED  BY <1>2, <1>5 DEF Works, verify_media_key, Matches

LEMMA SearchInit == Init => SearchInv
BY DEF Init, SearchInv, Counted, Searched

LEMMA SearchStep == TypeInv /\ SearchInv /\ [Next]_vars => SearchInv'
<1> SUFFICES ASSUME TypeInv, SearchInv, [Next]_vars
             PROVE  SearchInv'
  OBVIOUS
<1>0. /\ pks \in Seq(Block)
      /\ DOMAIN pks = 1..Len(pks)
      /\ num_uvs \in Nat
      /\ p \in 1..(Len(pks) + 1)
      /\ a \in Nat
  BY MkbAssumption DEF TypeInv, TypeOK
(* Before the search there is nothing to say about it.                      *)
<1>early. ASSUME num_uvs' = 0,
                 pc' \in {"parse", "derive", "count", "Truncated",
                          "MissingRecord"}
          PROVE  SearchInv'
  BY <1>early DEF SearchInv, Counted, Searched
(* In the search nothing changes but the pair at hand.                      *)
<1>late. ASSUME UNCHANGED <<image, records, pks, num_uvs>>, pc = "search",
                pc' \in {"search", "done", "NoValidProcessingKey"},
                \A k \in DOMAIN pks, b \in Nat :
                  Before(k, b, p', a') => ~Works(k, b),
                pc' = "done" =>
                  /\ mk' = <<Candidate(p, a)>> /\ Works(p, a)
                  /\ p' = p /\ a' = a,
                pc' = "NoValidProcessingKey" => p' > Len(pks)
         PROVE  SearchInv'
  <2>1. /\ SubDiff' = SubDiff
        /\ BodyLen(SubDiff)' = BodyLen(SubDiff)
        /\ Contents(SubDiff)' = Contents(SubDiff)
    BY <1>late, SameRecords
  <2>2. Counted'
    BY <1>late, <2>1 DEF SearchInv, Counted, AnotherUv
  <2>3. /\ \A k, b : Candidate(k, b)' = Candidate(k, b)
        /\ \A k, b : Works(k, b)' <=> Works(k, b)
    BY <1>late, SameRecords
  <2>4. pc' = "done" => (mk = <<Candidate(p, a)>> /\ Works(p, a))'
    <3> SUFFICES ASSUME pc' = "done"
                 PROVE  /\ mk' = <<Candidate(p, a)'>>
                        /\ Works(p, a)'
      OBVIOUS
    <3>. USE DEF Candidate, Contents, CValues, SubDiff, verify_data, body,
                 BodyLen
    <3>1. UNCHANGED <<image, records, pks, p, a>>
      BY <1>late
    <3>2. Candidate(p, a)' = Candidate(p, a)
      BY <3>1
    <3>3. Works(p, a)' <=> Works(p, a)
      BY <3>1 DEF Works, Usable, verify_media_key, Verifies
    <3>. HIDE DEF Candidate
    <3>. QED  BY <1>late, <3>2, <3>3
  <2>5. \A k \in DOMAIN pks, b \in Nat : Before(k, b, p, a)' => ~Works(k, b)'
    BY <1>late, <2>3 DEF Before
  <2>6. Searched'
    BY <1>late, <2>4, <2>5 DEF Searched
  <2>. QED  BY <2>2, <2>6 DEF SearchInv
<1>1. CASE ParseRecord
  BY <1>1, <1>early DEF ParseRecord, TypeInv, NotYet
<1>2. CASE ParseEnd
  BY <1>2, <1>early DEF ParseEnd, TypeInv, NotYet
<1>3. CASE ParseTruncated
  BY <1>3, <1>early DEF ParseTruncated, Return, TypeInv, NotYet
<1>4. CASE ParseDone
  BY <1>4, <1>early DEF ParseDone, Return, TypeInv, NotYet
<1>5. CASE DeriveMissing
  BY <1>5, <1>early DEF DeriveMissing, Return, TypeInv, NotYet
<1>6. CASE DeriveStart
  BY <1>6, <1>early DEF DeriveStart, Return, TypeInv, NotYet
<1>7. CASE CountUv
  <2>1. Contents(SubDiff)' = Contents(SubDiff)
    BY <1>7, SameRecords DEF CountUv
  <2>2. \A c \in 0..(num_uvs' - 1) : ~Contents(SubDiff)'.uvs[c + 1].end
    BY <1>0, <1>7, <2>1 DEF CountUv, AnotherUv, SearchInv, Counted
  <2>. QED  BY <1>7, <2>2 DEF CountUv, SearchInv, Counted, Searched
<1>8. CASE CountDone
  <2>1. UNCHANGED <<image, records, pks, num_uvs, p, a>> /\ pc' = "search"
    BY <1>8 DEF CountDone, Return
  <2>2. /\ SubDiff' = SubDiff
        /\ BodyLen(SubDiff)' = BodyLen(SubDiff)
        /\ Contents(SubDiff)' = Contents(SubDiff)
    BY <2>1, SameRecords
  <2>3. Counted'
    BY <1>8, <2>1, <2>2 DEF CountDone, SearchInv, Counted, AnotherUv
  <2>4. p = 1 /\ a = 0
    BY <1>8 DEF CountDone, TypeInv, NotYet
  <2>5. \A k \in DOMAIN pks, b \in Nat : ~Before(k, b, p, a)'
    BY <1>0, <2>1, <2>4 DEF Before
  <2>. QED  BY <2>1, <2>3, <2>5 DEF SearchInv, Searched
<1>9. CASE SearchMatch
  <2>1. Works(p, a)
    BY <1>9, WorksHere DEF SearchMatch
  <2>2. \A k \in DOMAIN pks, b \in Nat : Before(k, b, p, a) => ~Works(k, b)
    BY <1>9 DEF SearchMatch, SearchInv, Searched
  <2>. QED  BY <1>9, <1>late, <2>1, <2>2 DEF SearchMatch, Return
<1>10. CASE SearchMiss
  <2>1. ~Works(p, a)
    BY <1>10, WorksHere DEF SearchMiss
  <2>2. ASSUME NEW k \in DOMAIN pks, NEW b \in Nat, Before(k, b, p, a + 1)
        PROVE  ~Works(k, b)
    <3>1. Before(k, b, p, a) \/ (k = p /\ b = a)
      BY <1>0, <2>2 DEF Before
    <3>2. CASE Before(k, b, p, a)
      BY <1>10, <3>2 DEF SearchMiss, SearchInv, Searched
    <3>3. CASE k = p /\ b = a
      BY <2>1, <3>3
    <3>. QED  BY <3>1, <3>2, <3>3
  <2>. QED  BY <1>10, <1>late, <2>2 DEF SearchMiss
<1>11. CASE SearchNextKey
  <2>1. ASSUME NEW k \in DOMAIN pks, NEW b \in Nat, Before(k, b, p + 1, 0)
        PROVE  ~Works(k, b)
    <3>1. Before(k, b, p, a) \/ a <= b
      BY <1>0, <2>1 DEF Before
    <3>2. CASE Before(k, b, p, a)
      BY <1>11, <3>2 DEF SearchNextKey, SearchInv, Searched
    <3>3. CASE a <= b
      BY <1>11, <3>3, NoneFromHere DEF SearchNextKey, Works
    <3>. QED  BY <3>1, <3>2, <3>3
  <2>. QED  BY <1>11, <1>late, <2>1 DEF SearchNextKey
<1>12. CASE SearchFails
  <2>1. \A k \in DOMAIN pks, b \in Nat : Before(k, b, p, a) => ~Works(k, b)
    BY <1>12 DEF SearchFails, SearchInv, Searched
  <2>. QED  BY <1>12, <1>late, <2>1 DEF SearchFails, Return
<1>13. CASE UNCHANGED vars
  BY <1>13, SameRecords
  DEF vars, SearchInv, Counted, Searched, AnotherUv, Before
<1>. QED
  BY <1>1, <1>2, <1>3, <1>4, <1>5, <1>6, <1>7, <1>8, <1>9, <1>10, <1>11,
     <1>12, <1>13 DEF Next

(* The media key returned is one that verify_media_key accepts, from the    *)
(* first processing key and subset that give such a key, and                *)
(* NoValidProcessingKey means that no pair gives one: whatever the lengths  *)
(* of the two records, and wherever an end mark stands.                     *)
THEOREM FirstMatch == Spec => []DerivesFirst
<1>1. TypeInv /\ SearchInv => DerivesFirst
  <2> SUFFICES ASSUME TypeInv, SearchInv
               PROVE  DerivesFirst
    OBVIOUS
  <2>1. /\ image.size \in Nat
        /\ pks \in Seq(Block)
        /\ p \in 1..(Len(pks) + 1)
    BY MkbAssumption DEF TypeInv, TypeOK
  <2>2. \A b \in 0..image.size : b \in Nat
    BY <2>1
  <2>3. pc = "NoValidProcessingKey" =>
          \A k \in DOMAIN pks, b \in Nat : Before(k, b, p, a)
    BY <2>1 DEF SearchInv, Searched, Before
  <2>. QED  BY <2>2, <2>3 DEF DerivesFirst, SearchInv, Searched
<1>. QED  BY <1>1, TypeAlways, SearchInit, SearchStep, PTL DEF Spec
=============================================================================

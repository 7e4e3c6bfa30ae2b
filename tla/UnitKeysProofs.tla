--------------------------- MODULE UnitKeysProofs ---------------------------
(***************************************************************************)
(* Theorems about KeyDb and UnitKeys, for every file and every set of      *)
(* discs.                                                                  *)
(***************************************************************************)
EXTENDS UnitKeys, FiniteSetTheorems, WellFoundedInduction, TLAPS

(* The key database has the fields of a KeyDb.                              *)
DbShape ==
  db = [discs |-> db.discs, processing_keys |-> db.processing_keys,
        device_keys |-> db.device_keys, host_priv_key |-> db.host_priv_key,
        host_cert |-> db.host_cert]

(* A word of a pair is at hand only in a pair that has unit keys.           *)
WordAtHand == ~(pc = "entry" /\ HasPair /\ Tag = "U") => uk = 1

(* The last value of the tag before segment s, or None.                     *)
SaidBefore(line, tag, s, value) ==
  \/ /\ value = None
     /\ \A j \in Values(line, tag) : j >= s
  \/ \E j \in Values(line, tag) :
       /\ j < s
       /\ value = line.segs[j].words[1]
       /\ \A k \in Values(line, tag) : k < s => k <= j

(* The places that give a unit key and come before word k of segment j.     *)
PlacesBefore(line, j, k) ==
  {p \in UnitPlaces(line) : p[1] < j \/ (p[1] = j /\ p[2] < k)}

(* The keys are the words of the places, in order, and there are no others. *)
Ranked(keys, places, line) ==
  /\ Len(keys) = Cardinality(places)
  /\ \A p \in places : /\ UpTo(line, p) \in 1..Len(keys)
                       /\ keys[UpTo(line, p)] = WordAt(line, p)
  /\ \A r \in 1..Len(keys) : \E p \in places : UpTo(line, p) = r

(* The entry under construction says what its pairs so far say.             *)
Walk ==
  pc = "entry" =>
    /\ i % 2 = 0
    /\ SaidBefore(Line, "M", i + 1, dk.media_key)
    /\ SaidBefore(Line, "I", i + 1, dk.volume_id)
    /\ SaidBefore(Line, "V", i + 1, dk.volume_unique_key)
    /\ IsFiniteSet(PlacesBefore(Line, i + 1, uk))
    /\ Ranked(dk.unit_keys, PlacesBefore(Line, i + 1, uk), Line)

(* A disc's keys are what a line says.                                      *)
LoadedFrom(keys, line) ==
  /\ keys.media_key = Said(line, "M")
  /\ keys.volume_id = Said(line, "I")
  /\ keys.volume_unique_key = Said(line, "V")
  /\ Ranked(keys.unit_keys, UnitPlaces(line), line)

(* The same with every word of the line's "U" fields counted.               *)
LoadedAsWritten(keys, line) ==
  /\ keys.media_key = Said(line, "M")
  /\ keys.volume_id = Said(line, "I")
  /\ keys.volume_unique_key = Said(line, "V")
  /\ Len(keys.unit_keys) = Cardinality(UnitWords(line))
  /\ \A p \in UnitWords(line) : keys.unit_keys[WordNo(line, p)] = WordAt(line, p)

DiscsFromLines ==
  \A d \in DiscId :
    /\ d \in DOMAIN db.discs <=> Taken(d) # {}
    /\ Taken(d) # {} => LoadedFrom(db.discs[d], text[Max(Taken(d))])

(* What a segment is.                                                       *)
Seg == [tag : Tags, words : Seq(Word)]
-----------------------------------------------------------------------------
(* Numbers.                                                                 *)

LEMMA LeastElement ==
  ASSUME NEW T, T \subseteq Nat, T # {}
  PROVE  \E x \in T : \A y \in T : x <= y
<1>1. PICK x \in T : \A y \in T : <<y, x>> \notin OpToRel(<, Nat)
  BY NatLessThanWellFounded, WFMin, Zenon
<1>2. ASSUME NEW y \in T PROVE x <= y
  <2>1. x \in Nat /\ y \in Nat
    BY <1>1, <1>2
  <2>2. y < x => <<y, x>> \in OpToRel(<, Nat)
    BY <2>1 DEF OpToRel
  <2>3. ~(y < x)
    BY <1>1, <1>2, <2>2, Zenon
  <2>. QED  BY <2>1, <2>3
<1>. QED  BY <1>2

LEMMA GreatestElement ==
  ASSUME NEW len \in Nat, NEW T, T \subseteq 1..len, T # {}
  PROVE  \E x \in T : \A y \in T : y <= x
<1>. DEFINE Bounds == {b \in Nat : \A y \in T : y <= b}
<1>1. len \in Bounds
  OBVIOUS
<1>2. PICK least \in Bounds : \A b \in Bounds : least <= b
  BY <1>1, LeastElement
<1>3. least \in T
  <2>1. SUFFICES ASSUME least \notin T PROVE FALSE
    OBVIOUS
  <2>2. least \in Nat /\ \A y \in T : y \in Nat /\ y >= 1 /\ y <= least /\ y # least
    BY <1>2, <2>1
  <2>3. PICK y \in T : TRUE
    OBVIOUS
  <2>4. least - 1 \in Nat /\ \A z \in T : z <= least - 1
    BY <2>2, <2>3
  <2>5. least - 1 \in Bounds
    BY <2>4
  <2>. QED  BY <1>2, <2>2, <2>5
<1>. QED  BY <1>2, <1>3

LEMMA MaxIs ==
  ASSUME NEW T, NEW m \in T, T \subseteq Int, \A y \in T : y <= m
  PROVE  Max(T) = m
<1>1. \E x \in T : \A y \in T : x >= y
  BY SMT
<1>. DEFINE x == Max(T)
<1>2. x \in T /\ \A y \in T : x >= y
  BY <1>1, Zenon DEF Max
<1>. HIDE DEF x
<1>3. x \in Int /\ m \in Int /\ x >= m /\ x <= m
  BY <1>2
<1>4. x = m
  BY <1>3
<1>. QED  BY <1>4 DEF x

LEMMA MaxInside ==
  ASSUME NEW len \in Nat, NEW T, T \subseteq 1..len, T # {}
  PROVE  /\ Max(T) \in T
         /\ \A y \in T : y <= Max(T)
<1>1. PICK x \in T : \A y \in T : y <= x
  BY GreatestElement
<1>2. T \subseteq Int
  OBVIOUS
<1>3. Max(T) = x
  BY <1>1, <1>2, MaxIs, Zenon
<1>. QED  BY <1>1, <1>3

-----------------------------------------------------------------------------
(* The lines of a file.                                                     *)

LEMMA LineIsLine ==
  ASSUME text \in Texts, n \in 1..(Len(text) + 1), n <= Len(text)
  PROVE  Line \in Lines
<1>1. text \in Seq(Lines)
  BY KeyDbAssumption
<1>2. n \in 1..Len(text)
  OBVIOUS
<1>. QED  BY <1>1, <1>2 DEF Line

LEMMA DiscLine ==
  ASSUME text \in Texts, n \in 1..(Len(text) + 1), n <= Len(text),
         Line.shape = "disc"
  PROVE  /\ Line.segs \in Seq([tag : Tags, words : Seq(Word)])
         /\ Line.id \in Word
BY LineIsLine DEF Lines

LEMMA KeyLine ==
  ASSUME text \in Texts, n \in 1..(Len(text) + 1), n <= Len(text),
         Line.shape = "PK"
  PROVE  Line.key \in Word
BY LineIsLine DEF Lines

LEMMA FieldsLine ==
  ASSUME text \in Texts, n \in 1..(Len(text) + 1), n <= Len(text),
         Line.shape \in {"DK", "HC"}
  PROVE  Line.fields \in Seq([name : Names, word : Word])
BY LineIsLine DEF Lines

-----------------------------------------------------------------------------
(* KeyDb: types.                                                            *)

LEMMA AssignedIs ==
  ASSUME NEW line, NEW name, NEW valid, NEW previous
  PROVE  /\ Named(line, name) = {} =>
              Assigned(line, name, valid, previous) = previous
         /\ Named(line, name) # {} =>
              LET word == line.fields[Max(Named(line, name))].word
              IN  Assigned(line, name, valid, previous) =
                    IF word \in valid THEN word ELSE None
BY Zenon DEF Assigned

LEMMA AssignedType ==
  ASSUME NEW line, NEW name, NEW valid, NEW previous \in valid \cup {None}
  PROVE  Assigned(line, name, valid, previous) \in valid \cup {None}
BY Zenon DEF Assigned

LEMMA TypeInit == Init => TypeOK /\ DbShape
<1>. SUFFICES ASSUME Init PROVE TypeOK /\ DbShape
  OBVIOUS
<1>1. text \in Seq(Lines)
  BY KeyDbAssumption DEF Init
<1>2. n \in 1..(Len(text) + 1)
  BY <1>1 DEF Init
<1>3. dk \in DiscKeys
  BY DEF Init, NoKeys, DiscKeys
<1>4. DOMAIN db.discs = {}
  BY DEF Init
<1>5. TypeOK
  BY <1>2, <1>3, <1>4 DEF Init, TypeOK, Returned
<1>6. DbShape
  BY DEF Init, DbShape
<1>. QED  BY <1>5, <1>6

LEMMA LengthIsNat == ASSUME TypeOK PROVE Len(text) \in Nat
<1>1. text \in Seq(Lines)
  BY KeyDbAssumption DEF TypeOK
<1>. QED  BY <1>1

(* The next line, and the key database as it was or with new contents.      *)
LEMMA TypeNextLine ==
  ASSUME TypeOK, n <= Len(text), NextLine, pc' = "line",
         DOMAIN db'.discs \subseteq DiscId,
         \A d \in DOMAIN db'.discs : db'.discs[d] \in DiscKeys,
         db'.processing_keys \in Seq(Block),
         db'.device_keys \in Seq(DeviceKeys),
         {db'.host_priv_key, db'.host_cert} \subseteq Bytes \cup {None}
  PROVE  TypeOK'
<1>1. n' \in 1..(Len(text) + 1)
  BY LengthIsNat DEF TypeOK, NextLine
<1>2. text' = text /\ i' = i /\ uk' = uk /\ dk' = dk
  BY DEF NextLine
<1>. QED  BY <1>1, <1>2 DEF TypeOK

(* A move inside an entry.                                                  *)
LEMMA TypeInEntry ==
  ASSUME TypeOK, UNCHANGED <<text, n, db, pc>>,
         i' \in Nat \ {0}, uk' \in Nat \ {0}, dk' \in DiscKeys
  PROVE  TypeOK'
BY DEF TypeOK, Line

LEMMA TypeStep ==
  ASSUME TypeOK, DbShape, [Next]_vars
  PROVE  TypeOK' /\ DbShape'
<1>. USE DEF At
<1>i. i \in Nat \ {0} /\ uk \in Nat \ {0}
  BY DEF TypeOK
<1>k. dk \in DiscKeys
  BY DEF TypeOK
<1>w. ASSUME pc = "entry"
      PROVE  /\ Line.segs \in Seq([tag : Tags, words : Seq(Word)])
             /\ Line.id \in DiscId
  BY <1>w, DiscLine DEF TypeOK
<1>1. CASE SkipLine
  <2>1. TypeOK'
    BY <1>1, TypeNextLine DEF TypeOK, SkipLine
  <2>. QED  BY <1>1, <2>1 DEF SkipLine, DbShape
<1>2. CASE ParseDone
  <2>1. TypeOK'
    BY <1>2 DEF TypeOK, ParseDone, Returned, Line
  <2>. QED  BY <1>2, <2>1 DEF ParseDone, DbShape
<1>3. CASE EntryFails
  <2>1. TypeOK'
    BY <1>3 DEF TypeOK, EntryFails, Returned, Line
  <2>. QED  BY <1>3, <2>1 DEF EntryFails, DbShape
<1>4. CASE EntryStart
  <2>1. NoKeys \in DiscKeys
    BY DEF NoKeys, DiscKeys
  <2>2. TypeOK'
    BY <1>4, <2>1 DEF TypeOK, EntryStart, Line
  <2>. QED  BY <1>4, <2>2 DEF EntryStart, DbShape
<1>5. CASE EntryKey
  <2>1. BlockHere \in Block \cup {None}
    BY DEF BlockHere, hex_block
  <2>2. \A p : Or(BlockHere, p) \in Block \cup {None, p}
    BY <2>1 DEF Or
  <2>3. dk' \in DiscKeys
    BY <1>5, <1>k, <2>2 DEF EntryKey, DiscKeys
  <2>4. TypeOK'
    BY <1>5, <1>i, <2>3, TypeInEntry DEF EntryKey
  <2>. QED  BY <1>5, <2>4 DEF EntryKey, DbShape
<1>6. CASE EntryUnitKey
  <2>1. ASSUME Words[uk] \in Block
        PROVE  Append(dk.unit_keys, Words[uk]) \in Seq(Block)
    BY <1>k, <2>1 DEF DiscKeys
  <2>2. dk' \in DiscKeys
    BY <1>6, <1>k, <2>1 DEF EntryUnitKey, DiscKeys
  <2>3. TypeOK'
    BY <1>6, <1>i, <2>2, TypeInEntry DEF EntryUnitKey
  <2>. QED  BY <1>6, <2>3 DEF EntryUnitKey, DbShape
<1>7. CASE EntryUnitKeysEnd
  <2>1. TypeOK'
    BY <1>7, <1>i, <1>k, TypeInEntry DEF EntryUnitKeysEnd
  <2>. QED  BY <1>7, <2>1 DEF EntryUnitKeysEnd, DbShape
<1>8. CASE EntryOther
  <2>1. TypeOK'
    BY <1>8, <1>i, <1>k, TypeInEntry DEF EntryOther
  <2>. QED  BY <1>8, <2>1 DEF EntryOther, DbShape
<1>9. CASE EntryInsert
  <2>. DEFINE new == Insert(db.discs, Line.id, dk)
  <2>1. /\ DOMAIN new \subseteq DiscId
        /\ \A d \in DOMAIN new : new[d] \in DiscKeys
    BY <1>9, <1>k, <1>w DEF EntryInsert, Insert, TypeOK
  <2>. HIDE DEF new
  <2>2. db' = [db EXCEPT !.discs = new]
    BY <1>9 DEF EntryInsert, new
  <2>3. /\ db'.discs = new
        /\ db'.processing_keys = db.processing_keys
        /\ db'.device_keys = db.device_keys
        /\ db'.host_priv_key = db.host_priv_key
        /\ db'.host_cert = db.host_cert
        /\ DbShape'
    BY <2>2 DEF DbShape
  <2>4. NextLine /\ pc' = "line" /\ n <= Len(text)
    BY <1>9 DEF EntryInsert, TypeOK
  <2>5. TypeOK'
    BY <2>1, <2>3, <2>4, TypeNextLine DEF TypeOK
  <2>. QED  BY <2>3, <2>5
<1>10. CASE GlobalPk
  <2>1. ASSUME Line.key \in Block
        PROVE  Append(db.processing_keys, Line.key) \in Seq(Block)
    BY <2>1 DEF TypeOK
  <2>2. /\ db'.discs = db.discs
        /\ db'.processing_keys \in Seq(Block)
        /\ db'.device_keys = db.device_keys
        /\ db'.host_priv_key = db.host_priv_key
        /\ db'.host_cert = db.host_cert
        /\ DbShape'
    BY <1>10, <2>1 DEF GlobalPk, DbShape, TypeOK
  <2>3. NextLine /\ pc' = "line" /\ n <= Len(text)
    BY <1>10 DEF GlobalPk
  <2>4. TypeOK'
    BY <2>2, <2>3, TypeNextLine DEF TypeOK
  <2>. QED  BY <2>2, <2>4
<1>11. CASE GlobalDk
  <2>. DEFINE Part(valid, name) == Assigned(Line, name, valid, None)
              new == [device_key |-> Part(Block, "DEVICE_KEY"),
                      device_node |-> Part(Bytes, "DEVICE_NODE"),
                      key_uv |-> Part(Bytes, "KEY_UV"),
                      key_u_mask_shift |-> Part(Bytes, "KEY_U_MASK_SHIFT")]
  <2>1. \A valid, name : Part(valid, name) \in valid \cup {None}
    BY AssignedType, Zenon
  <2>2. Part(Block, "DEVICE_KEY") # None => new \in DeviceKeys
    <3>. HIDE DEF Part
    <3>. QED  BY <2>1 DEF DeviceKeys
  <2>3. \/ /\ Part(Block, "DEVICE_KEY") # None
           /\ db' = [db EXCEPT !.device_keys = Append(@, new)]
        \/ db' = db
    BY <1>11, Zenon DEF GlobalDk
  <2>. HIDE DEF new, Part
  <2>4. new \in DeviceKeys => Append(db.device_keys, new) \in Seq(DeviceKeys)
    BY DEF TypeOK
  <2>5. /\ db'.discs = db.discs
        /\ db'.processing_keys = db.processing_keys
        /\ db'.device_keys \in Seq(DeviceKeys)
        /\ db'.host_priv_key = db.host_priv_key
        /\ db'.host_cert = db.host_cert
        /\ DbShape'
    BY <2>2, <2>3, <2>4 DEF DbShape, TypeOK
  <2>6. NextLine /\ pc' = "line" /\ n <= Len(text)
    BY <1>11 DEF GlobalDk
  <2>7. TypeOK'
    BY <2>5, <2>6, TypeNextLine DEF TypeOK
  <2>. QED  BY <2>5, <2>7
<1>12. CASE GlobalHc
  <2>. DEFINE priv == Assigned(Line, "HOST_PRIV_KEY", Bytes, db.host_priv_key)
              cert == Assigned(Line, "HOST_CERT", Bytes, db.host_cert)
  <2>1. {db.host_priv_key, db.host_cert} \subseteq Bytes \cup {None}
    BY DEF TypeOK
  <2>2. priv \in Bytes \cup {None} /\ cert \in Bytes \cup {None}
    BY <2>1, AssignedType
  <2>3. db' = [db EXCEPT !.host_priv_key = priv, !.host_cert = cert]
    BY <1>12 DEF GlobalHc
  <2>. HIDE DEF priv, cert
  <2>4. /\ db'.discs = db.discs
        /\ db'.processing_keys = db.processing_keys
        /\ db'.device_keys = db.device_keys
        /\ {db'.host_priv_key, db'.host_cert} \subseteq Bytes \cup {None}
        /\ DbShape'
    BY <2>2, <2>3 DEF DbShape
  <2>5. NextLine /\ pc' = "line" /\ n <= Len(text)
    BY <1>12 DEF GlobalHc
  <2>6. TypeOK'
    BY <2>4, <2>5, TypeNextLine DEF TypeOK
  <2>. QED  BY <2>4, <2>6
<1>13. CASE UNCHANGED vars
  BY <1>13 DEF vars, TypeOK, DbShape, Line
<1>. QED
  BY <1>1, <1>2, <1>3, <1>4, <1>5, <1>6, <1>7, <1>8, <1>9, <1>10, <1>11,
     <1>12, <1>13 DEF Next

-----------------------------------------------------------------------------
(* What an entry says, segment by segment.                                  *)

LEMMA SaidStart ==
  ASSUME NEW line, NEW tag, line.segs \in Seq(Seg)
  PROVE  SaidBefore(line, tag, 3, None)
<1>1. \A j \in Values(line, tag) : j \in Nat /\ j % 2 = 1 /\ j > 1
  BY DEF Values, ValuesOf
<1>2. \A j \in Values(line, tag) : j >= 3
  BY <1>1
<1>. QED  BY <1>2 DEF SaidBefore

LEMMA SaidNext ==
  ASSUME NEW line, NEW tag, line.segs \in Seq(Seg),
         NEW s \in Nat, s % 2 = 1, s > 1, s <= Len(line.segs),
         NEW value, SaidBefore(line, tag, s, value),
         NEW next,
         s \in Values(line, tag) => next = line.segs[s].words[1],
         s \notin Values(line, tag) => next = value
  PROVE  SaidBefore(line, tag, s + 2, next)
<1>1. \A j \in Values(line, tag) : j \in Nat /\ j % 2 = 1
  BY DEF Values, ValuesOf
<1>2. \A j \in Values(line, tag) : j < s + 2 <=> j < s \/ j = s
  BY <1>1
<1>3. CASE s \in Values(line, tag)
  <2>1. s < s + 2 /\ \A k \in Values(line, tag) : k < s + 2 => k <= s
    BY <1>1, <1>2
  <2>. QED  BY <1>3, <2>1 DEF SaidBefore
<1>4. CASE s \notin Values(line, tag)
  <2>1. \A j \in Values(line, tag) : j < s + 2 <=> j < s
    BY <1>2, <1>4
  <2>2. \A j \in Values(line, tag) : j >= s + 2 <=> j >= s
    BY <1>1, <2>1
  <2>. QED  BY <1>4, <2>1, <2>2 DEF SaidBefore
<1>. QED  BY <1>3, <1>4

LEMMA SaidEnd ==
  ASSUME NEW line, NEW tag, line.segs \in Seq(Seg),
         NEW s \in Nat, s > Len(line.segs),
         NEW value, SaidBefore(line, tag, s, value)
  PROVE  value = Said(line, tag)
<1>1. \A j \in Values(line, tag) : j \in Nat /\ j < s
  BY DEF Values, ValuesOf
<1>2. CASE Values(line, tag) = {}
  BY <1>2 DEF SaidBefore, Said
<1>3. CASE Values(line, tag) # {}
  <2>1. PICK j \in Values(line, tag) :
          /\ value = line.segs[j].words[1]
          /\ \A k \in Values(line, tag) : k <= j
    BY <1>1, <1>3 DEF SaidBefore
  <2>2. Values(line, tag) \subseteq Int
    BY <1>1
  <2>3. Max(Values(line, tag)) = j
    BY <2>1, <2>2, MaxIs, Zenon
  <2>. QED  BY <1>3, <2>1, <2>3, Zenon DEF Said
<1>. QED  BY <1>2, <1>3

(* What a tag makes of the value at hand.                                   *)
LEMMA BlockOfPair ==
  ASSUME NEW value,
         Line.segs \in Seq(Seg), i \in Nat \ {0}, HasPair, i % 2 = 0
  PROVE  /\ i + 1 \in Values(Line, Tag) =>
              Or(BlockHere, value) = Line.segs[i + 1].words[1]
         /\ i + 1 \notin Values(Line, Tag) => Or(BlockHere, value) = value
         /\ \A tag : tag # Tag => i + 1 \notin Values(Line, tag)
<1>. DEFINE words == Line.segs[i + 1].words
<1>1. /\ i + 1 \in DOMAIN Line.segs /\ (i + 1) % 2 = 1 /\ i + 1 > 1
      /\ (i + 1) - 1 = i
  BY DEF HasPair
<1>2. \A tag : i + 1 \in Values(Line, tag) <=>
                 Tag = tag /\ Len(words) = 1 /\ words[1] \in Block
  BY <1>1 DEF Values, ValuesOf, Tag
<1>3. None \notin Block
  BY KeyDbAssumption
<1>4. Or(BlockHere, value) =
        IF Len(words) = 1 /\ words[1] \in Block THEN words[1] ELSE value
  <2>. HIDE DEF words
  <2>1. Words = words
    BY DEF Words, words
  <2>. QED  BY <1>3, <2>1 DEF Or, BlockHere, hex_block
<1>. QED  BY <1>2, <1>4, Zenon

-----------------------------------------------------------------------------
(* The places of an entry that give a unit key.                             *)

LEMMA SegWords ==
  ASSUME NEW segs \in Seq(Seg), NEW j \in 1..Len(segs)
  PROVE  segs[j].words \in Seq(Word)
<1>. DEFINE seg == segs[j]
<1>1. seg \in Seg
  OBVIOUS
<1>. HIDE DEF seg
<1>2. seg.words \in Seq(Word)
  BY <1>1 DEF Seg
<1>. QED  BY <1>2 DEF seg

LEMMA OddBelow ==
  ASSUME NEW a \in Nat, NEW b \in Nat, a % 2 = 1, b % 2 = 1
  PROVE  a < b + 2 <=> a < b \/ a = b
OBVIOUS

LEMMA WordIs ==
  ASSUME NEW line, line.segs \in Seq(Seg), NEW p \in UnitWords(line)
  PROVE  /\ p = <<p[1], p[2]>>
         /\ p[1] \in 1..Len(line.segs) /\ p[1] % 2 = 1 /\ p[1] > 1
         /\ line.segs[p[1] - 1].tag = "U"
         /\ p[2] \in 1..Len(line.segs[p[1]].words)
<1>1. PICK j \in ValuesOf(line, "U") : p \in {j} \X DOMAIN line.segs[j].words
  BY DEF UnitWords
<1>2. p[1] = j /\ p[2] \in DOMAIN line.segs[j].words /\ p = <<p[1], p[2]>>
  BY <1>1
<1>3. /\ j \in 1..Len(line.segs) /\ j % 2 = 1 /\ j > 1
      /\ line.segs[j - 1].tag = "U"
  BY <1>1 DEF ValuesOf
<1>4. line.segs[j].words \in Seq(Word)
  BY <1>3, SegWords
<1>. QED  BY <1>2, <1>3, <1>4

LEMMA PlaceIs ==
  ASSUME NEW line, line.segs \in Seq(Seg), NEW p \in UnitPlaces(line)
  PROVE  /\ p = <<p[1], p[2]>>
         /\ p[1] \in 1..Len(line.segs) /\ p[1] % 2 = 1 /\ p[1] > 1
         /\ line.segs[p[1] - 1].tag = "U"
         /\ p[2] \in 1..Len(line.segs[p[1]].words)
         /\ WordAt(line, p) \in Block
<1>1. p \in UnitWords(line) /\ WordAt(line, p) \in Block
  BY DEF UnitPlaces
<1>. QED  BY <1>1, WordIs

LEMMA IsPlace ==
  ASSUME NEW line, line.segs \in Seq(Seg),
         NEW j \in 1..Len(line.segs), j % 2 = 1, j > 1,
         line.segs[j - 1].tag = "U",
         NEW k \in 1..Len(line.segs[j].words), line.segs[j].words[k] \in Block
  PROVE  <<j, k>> \in UnitPlaces(line)
<1>1. line.segs[j].words \in Seq(Word)
  BY SegWords
<1>2. j \in ValuesOf(line, "U") /\ k \in DOMAIN line.segs[j].words
  BY <1>1 DEF ValuesOf
<1>3. <<j, k>> \in UnitWords(line)
  BY <1>2 DEF UnitWords
<1>4. WordAt(line, <<j, k>>) = line.segs[j].words[k]
  BY DEF WordAt
<1>. QED  BY <1>3, <1>4 DEF UnitPlaces

LEMMA PlacesStart ==
  ASSUME NEW line, line.segs \in Seq(Seg)
  PROVE  PlacesBefore(line, 3, 1) = {}
<1>1. \A p \in UnitPlaces(line) :
        p[1] \in Nat /\ p[1] % 2 = 1 /\ p[1] > 1 /\ p[2] \in Nat /\ p[2] >= 1
  BY PlaceIs
<1>2. \A p \in UnitPlaces(line) : ~(p[1] < 3 \/ (p[1] = 3 /\ p[2] < 1))
  BY <1>1
<1>. QED  BY <1>2 DEF PlacesBefore

(* Word k of segment j is a place, the next one.                            *)
IsNextPlace(line, j, k) ==
  /\ PlacesBefore(line, j, k + 1) = PlacesBefore(line, j, k) \cup {<<j, k>>}
  /\ <<j, k>> \notin PlacesBefore(line, j, k)
  /\ UpTo(line, <<j, k>>) = Cardinality(PlacesBefore(line, j, k + 1))

LEMMA PlacesNextWord ==
  ASSUME NEW line, line.segs \in Seq(Seg),
         NEW j \in 1..Len(line.segs), j % 2 = 1, j > 1,
         line.segs[j - 1].tag = "U",
         NEW k \in 1..Len(line.segs[j].words)
  PROVE  /\ line.segs[j].words[k] \in Block => IsNextPlace(line, j, k)
         /\ line.segs[j].words[k] \notin Block =>
              PlacesBefore(line, j, k + 1) = PlacesBefore(line, j, k)
<1>1. \A p \in UnitPlaces(line) :
        /\ p = <<p[1], p[2]>> /\ p[1] \in Nat /\ p[2] \in Nat
        /\ line.segs[p[1]].words[p[2]] \in Block
  BY PlaceIs DEF WordAt
<1>2. k \in Nat /\ j \in Nat
  OBVIOUS
<1>3. \A p \in UnitPlaces(line) :
        (p[1] < j \/ (p[1] = j /\ p[2] < k + 1)) <=>
        (p[1] < j \/ (p[1] = j /\ p[2] < k)) \/ (p[1] = j /\ p[2] = k)
  BY <1>1, <1>2
<1>4. CASE line.segs[j].words[k] \in Block
  <2>1. <<j, k>> \in UnitPlaces(line)
    BY <1>4, IsPlace
  <2>2. \A p \in UnitPlaces(line) : p = <<j, k>> <=> p[1] = j /\ p[2] = k
    <3>1. ASSUME NEW p \in UnitPlaces(line), p[1] = j, p[2] = k
          PROVE  p = <<j, k>>
      BY <1>1, <3>1, Zenon
    <3>2. ASSUME NEW p \in UnitPlaces(line), p = <<j, k>>
          PROVE  p[1] = j /\ p[2] = k
      BY <3>2
    <3>. QED  BY <3>1, <3>2, Zenon
  <2>3. PlacesBefore(line, j, k + 1) = PlacesBefore(line, j, k) \cup {<<j, k>>}
    BY <1>3, <2>1, <2>2, Zenon DEF PlacesBefore
  <2>4. <<j, k>> \notin PlacesBefore(line, j, k)
    BY <1>2 DEF PlacesBefore
  <2>5. \A p \in UnitPlaces(line) :
          NotAfter(p, <<j, k>>) <=> (p[1] < j \/ (p[1] = j /\ p[2] < k + 1))
    BY <1>1, <1>2 DEF NotAfter
  <2>6. {q \in UnitPlaces(line) : NotAfter(q, <<j, k>>)} = PlacesBefore(line, j, k + 1)
    BY <2>5, Zenon DEF PlacesBefore
  <2>. QED  BY <1>4, <2>3, <2>4, <2>6, Zenon DEF UpTo, IsNextPlace
<1>5. CASE line.segs[j].words[k] \notin Block
  <2>1. \A p \in UnitPlaces(line) : ~(p[1] = j /\ p[2] = k)
    BY <1>1, <1>5
  <2>2. PlacesBefore(line, j, k + 1) = PlacesBefore(line, j, k)
    BY <1>3, <2>1 DEF PlacesBefore
  <2>. QED  BY <1>5, <2>2
<1>. QED  BY <1>4, <1>5

LEMMA PlacesNextPair ==
  ASSUME NEW line, line.segs \in Seq(Seg),
         NEW j \in 1..Len(line.segs), j % 2 = 1, j > 1,
         NEW k \in Nat \ {0},
         \/ line.segs[j - 1].tag # "U" /\ k = 1
         \/ k > Len(line.segs[j].words)
  PROVE  PlacesBefore(line, j + 2, 1) = PlacesBefore(line, j, k)
<1>1. \A p \in UnitPlaces(line) :
        /\ p[1] \in Nat /\ p[1] % 2 = 1 /\ line.segs[p[1] - 1].tag = "U"
        /\ p[2] \in Nat /\ p[2] >= 1 /\ p[2] <= Len(line.segs[p[1]].words)
        /\ Len(line.segs[p[1]].words) \in Nat
  <2>1. ASSUME NEW p \in UnitPlaces(line)
        PROVE  Len(line.segs[p[1]].words) \in Nat
    <3>1. p[1] \in 1..Len(line.segs)
      BY PlaceIs
    <3>2. line.segs[p[1]].words \in Seq(Word)
      BY <3>1, SegWords
    <3>. QED  BY <3>2
  <2>. QED  BY <2>1, PlaceIs
<1>2. ASSUME NEW p \in UnitPlaces(line)
      PROVE  (p[1] < j + 2 \/ (p[1] = j + 2 /\ p[2] < 1)) <=>
             (p[1] < j \/ (p[1] = j /\ p[2] < k))
  <2>1. p[1] < j + 2 <=> p[1] < j \/ p[1] = j
    <3>1. p[1] \in Nat /\ p[1] % 2 = 1 /\ j \in Nat
      BY <1>1
    <3>. QED  BY <3>1, OddBelow, Zenon
  <2>3. ~(p[2] < 1)
    BY <1>1
  <2>2. p[1] = j => p[2] < k
    <3>1. CASE line.segs[j - 1].tag # "U" /\ k = 1
      BY <1>1, <3>1
    <3>2. CASE k > Len(line.segs[j].words)
      BY <1>1, <3>2
    <3>. QED  BY <3>1, <3>2
  <2>. QED  BY <2>1, <2>2, <2>3
<1>. QED  BY <1>2, Zenon DEF PlacesBefore

LEMMA PlacesEnd ==
  ASSUME NEW line, line.segs \in Seq(Seg), NEW j \in Nat, j > Len(line.segs),
         NEW k
  PROVE  PlacesBefore(line, j, k) = UnitPlaces(line)
<1>1. \A p \in UnitPlaces(line) : p[1] < j
  BY PlaceIs
<1>. QED  BY <1>1 DEF PlacesBefore

LEMMA RankedAdd ==
  ASSUME NEW line, NEW places, IsFiniteSet(places),
         NEW keys \in Seq(Block), Ranked(keys, places, line),
         NEW p, p \notin places, WordAt(line, p) \in Block,
         UpTo(line, p) = Cardinality(places \cup {p})
  PROVE  /\ IsFiniteSet(places \cup {p})
         /\ Ranked(Append(keys, WordAt(line, p)), places \cup {p}, line)
<1>. DEFINE more == Append(keys, WordAt(line, p))
<1>1. /\ IsFiniteSet(places \cup {p})
      /\ Cardinality(places \cup {p}) = Len(keys) + 1
  BY FS_AddElement DEF Ranked
<1>2. /\ Len(more) = Len(keys) + 1
      /\ more[Len(keys) + 1] = WordAt(line, p)
      /\ \A r \in 1..Len(keys) : more[r] = keys[r]
      /\ Len(keys) \in Nat
  OBVIOUS
<1>. HIDE DEF more
<1>3. 1..Len(more) = 1..Len(keys) \cup {Len(keys) + 1}
  BY <1>2
<1>4. \A q \in places \cup {p} : /\ UpTo(line, q) \in 1..Len(more)
                                 /\ more[UpTo(line, q)] = WordAt(line, q)
  <2>1. ASSUME NEW q \in places
        PROVE  UpTo(line, q) \in 1..Len(keys) /\ keys[UpTo(line, q)] = WordAt(line, q)
    BY DEF Ranked
  <2>2. UpTo(line, p) = Len(keys) + 1
    BY <1>1
  <2>. QED  BY <1>2, <1>3, <2>1, <2>2
<1>5. \A r \in 1..Len(more) : \E q \in places \cup {p} : UpTo(line, q) = r
  BY <1>1, <1>3 DEF Ranked
<1>. QED  BY <1>1, <1>2, <1>4, <1>5 DEF Ranked, more

-----------------------------------------------------------------------------
(* KeyDb: the entry under construction.                                     *)

(* What an entry with these keys says before word k of segment j.           *)
SaysBefore(keys, line, j, k) ==
  /\ SaidBefore(line, "M", j, keys.media_key)
  /\ SaidBefore(line, "I", j, keys.volume_id)
  /\ SaidBefore(line, "V", j, keys.volume_unique_key)
  /\ IsFiniteSet(PlacesBefore(line, j, k))
  /\ Ranked(keys.unit_keys, PlacesBefore(line, j, k), line)

LEMMA SaysStart ==
  ASSUME NEW line, line.segs \in Seq(Seg)
  PROVE  SaysBefore(NoKeys, line, 3, 1)
<1>1. /\ NoKeys.media_key = None /\ NoKeys.volume_id = None
      /\ NoKeys.volume_unique_key = None /\ NoKeys.unit_keys = << >>
  BY DEF NoKeys
<1>2. PlacesBefore(line, 3, 1) = {}
  BY PlacesStart
<1>3. IsFiniteSet({}) /\ Cardinality({}) = 0
  BY FS_EmptySet
<1>4. Ranked(<< >>, {}, line)
  BY <1>3 DEF Ranked
<1>. QED  BY <1>1, <1>2, <1>3, <1>4, SaidStart, Zenon DEF SaysBefore

(* The pair at hand is one of the entry.                                    *)
PairAtHand ==
  /\ Line.segs \in Seq(Seg)
  /\ i \in Nat \ {0} /\ i % 2 = 0
  /\ i + 1 \in 1..Len(Line.segs)
  /\ (i + 1) % 2 = 1
  /\ i + 1 > 1
  /\ i + 3 = (i + 1) + 2
  /\ (i + 1) - 1 = i
  /\ HasPair

(* A pair without unit keys.                                                *)
LEMMA SaysNextPair ==
  ASSUME PairAtHand, Tag # "U", SaysBefore(dk, Line, i + 1, 1),
         NEW keys,
         keys.media_key = IF Tag = "M" THEN Or(BlockHere, dk.media_key)
                          ELSE dk.media_key,
         keys.volume_id = IF Tag = "I" THEN Or(BlockHere, dk.volume_id)
                          ELSE dk.volume_id,
         keys.volume_unique_key =
           IF Tag = "V" THEN Or(BlockHere, dk.volume_unique_key)
           ELSE dk.volume_unique_key,
         keys.unit_keys = dk.unit_keys
  PROVE  SaysBefore(keys, Line, i + 3, 1)
<1>. USE DEF PairAtHand
<1>1. ASSUME NEW tag, NEW value, SaidBefore(Line, tag, i + 1, value)
      PROVE  SaidBefore(Line, tag, i + 3,
                        IF Tag = tag THEN Or(BlockHere, value) ELSE value)
  <2>. DEFINE next == IF Tag = tag THEN Or(BlockHere, value) ELSE value
  <2>1. /\ i + 1 \in Values(Line, tag) => next = Line.segs[i + 1].words[1]
        /\ i + 1 \notin Values(Line, tag) => next = value
    BY BlockOfPair, Zenon
  <2>. HIDE DEF next
  <2>2. i + 1 \in Nat /\ i + 1 <= Len(Line.segs)
    BY DEF HasPair
  <2>3. SaidBefore(Line, tag, (i + 1) + 2, next)
    BY <1>1, <2>1, <2>2, SaidNext, Zenon
  <2>. QED  BY <2>3, Zenon DEF next
<1>2. PlacesBefore(Line, i + 3, 1) = PlacesBefore(Line, i + 1, 1)
  <2>1. Line.segs[(i + 1) - 1].tag # "U"
    BY Zenon DEF Tag
  <2>2. 1 \in Nat \ {0}
    OBVIOUS
  <2>. QED  BY <2>1, <2>2, PlacesNextPair, Zenon
<1>. QED  BY <1>1, <1>2, Zenon DEF SaysBefore

(* A word of a pair with unit keys.                                         *)
LEMMA SaysNextWord ==
  ASSUME PairAtHand, Tag = "U", uk \in 1..Len(Words),
         dk.unit_keys \in Seq(Block), SaysBefore(dk, Line, i + 1, uk),
         NEW keys,
         keys.media_key = dk.media_key,
         keys.volume_id = dk.volume_id,
         keys.volume_unique_key = dk.volume_unique_key,
         keys.unit_keys = IF Words[uk] \in Block THEN Append(dk.unit_keys, Words[uk])
                          ELSE dk.unit_keys
  PROVE  SaysBefore(keys, Line, i + 1, uk + 1)
<1>. USE DEF PairAtHand
<1>. DEFINE before == PlacesBefore(Line, i + 1, uk)
            after == PlacesBefore(Line, i + 1, uk + 1)
            p == <<i + 1, uk>>
<1>1. /\ Words[uk] \in Block =>
           after = before \cup {p} /\ p \notin before /\ UpTo(Line, p) = Cardinality(after)
      /\ Words[uk] \notin Block => after = before
  <2>1. Line.segs[(i + 1) - 1].tag = "U"
    BY Zenon DEF Tag
  <2>2. Words = Line.segs[i + 1].words
    BY DEF Words
  <2>3. uk \in 1..Len(Line.segs[i + 1].words)
    BY <2>2, Zenon
  <2>4. /\ Line.segs[i + 1].words[uk] \in Block => IsNextPlace(Line, i + 1, uk)
        /\ Line.segs[i + 1].words[uk] \notin Block => after = before
    BY <2>1, <2>3, PlacesNextWord, Zenon
  <2>. QED  BY <2>2, <2>4, Zenon DEF IsNextPlace
<1>2. WordAt(Line, p) = Words[uk]
  BY DEF WordAt, Words
<1>3. IsFiniteSet(before) /\ Ranked(dk.unit_keys, before, Line)
  BY DEF SaysBefore
<1>. HIDE DEF before, after, p
<1>4. IsFiniteSet(after) /\ Ranked(keys.unit_keys, after, Line)
  <2>1. CASE Words[uk] \in Block
    <3>1. WordAt(Line, p) \in Block /\ UpTo(Line, p) = Cardinality(before \cup {p})
      BY <1>1, <1>2, <2>1, Zenon
    <3>2. /\ IsFiniteSet(before \cup {p})
          /\ Ranked(Append(dk.unit_keys, WordAt(Line, p)), before \cup {p}, Line)
      BY <1>1, <1>3, <2>1, <3>1, RankedAdd, Zenon
    <3>3. keys.unit_keys = Append(dk.unit_keys, WordAt(Line, p))
      BY <1>2, <2>1, Zenon
    <3>. QED  BY <1>1, <2>1, <3>2, <3>3, Zenon
  <2>2. CASE Words[uk] \notin Block
    BY <1>1, <1>3, <2>2, Zenon
  <2>. QED  BY <2>1, <2>2
<1>. QED  BY <1>4, Zenon DEF SaysBefore, after

(* The end of a pair with unit keys.                                        *)
LEMMA SaysEndOfUnits ==
  ASSUME PairAtHand, Tag = "U", uk \in Nat \ {0}, uk > Len(Words),
         SaysBefore(dk, Line, i + 1, uk)
  PROVE  SaysBefore(dk, Line, i + 3, 1)
<1>. USE DEF PairAtHand
<1>1. ASSUME NEW tag \in {"M", "I", "V"}, NEW value,
             SaidBefore(Line, tag, i + 1, value)
      PROVE  SaidBefore(Line, tag, i + 3, value)
  <2>1. tag # Tag
    OBVIOUS
  <2>2. i + 1 \notin Values(Line, tag)
    BY <2>1, BlockOfPair, Zenon
  <2>3. i + 1 \in Nat /\ i + 1 <= Len(Line.segs)
    BY DEF HasPair
  <2>. QED  BY <1>1, <2>2, <2>3, SaidNext, Zenon
<1>2. PlacesBefore(Line, i + 3, 1) = PlacesBefore(Line, i + 1, uk)
  <2>1. uk > Len(Line.segs[i + 1].words)
    BY DEF Words
  <2>. QED  BY <2>1, PlacesNextPair, Zenon
<1>. QED  BY <1>1, <1>2, Zenon DEF SaysBefore

LEMMA SaysEnd ==
  ASSUME Line.segs \in Seq(Seg), i \in Nat, ~HasPair, NEW k,
         SaysBefore(dk, Line, i + 1, k)
  PROVE  LoadedFrom(dk, Line)
<1>1. i + 1 \in Nat /\ i + 1 > Len(Line.segs)
  BY DEF HasPair
<1>2. PlacesBefore(Line, i + 1, k) = UnitPlaces(Line)
  BY <1>1, PlacesEnd
<1>. QED  BY <1>1, <1>2, SaidEnd, Zenon DEF SaysBefore, LoadedFrom

LEMMA WordAtHandStep ==
  ASSUME TypeOK, WordAtHand, [Next]_vars
  PROVE  WordAtHand'
<1>. USE DEF WordAtHand, At, Line, HasPair, Tag
<1>1. CASE SkipLine \/ GlobalPk \/ GlobalDk \/ GlobalHc
  <2>1. pc' # "entry" /\ uk' = 1
    BY <1>1 DEF SkipLine, GlobalPk, GlobalDk, GlobalHc, NextLine
  <2>. QED  BY <2>1
<1>2. CASE ParseDone \/ EntryFails \/ EntryStart \/ EntryInsert
  BY <1>2 DEF ParseDone, EntryFails, EntryStart, EntryInsert, NextLine
<1>3. CASE EntryKey \/ EntryOther
  BY <1>3 DEF EntryKey, EntryOther
<1>4. CASE EntryUnitKey \/ EntryUnitKeysEnd
  BY <1>4 DEF EntryUnitKey, EntryUnitKeysEnd
<1>5. CASE UNCHANGED vars
  BY <1>5 DEF vars
<1>. QED  BY <1>1, <1>2, <1>3, <1>4, <1>5 DEF Next

LEMMA WalkSays ==
  Walk <=> (pc = "entry" => i % 2 = 0 /\ SaysBefore(dk, Line, i + 1, uk))
BY Zenon DEF Walk, SaysBefore

LEMMA WalkStep ==
  ASSUME TypeOK, DbShape, WordAtHand, Walk, [Next]_vars
  PROVE  Walk'
<1>. USE DEF At
<1>k. /\ dk.unit_keys \in Seq(Block)
      /\ dk = [media_key |-> dk.media_key, volume_id |-> dk.volume_id,
               volume_unique_key |-> dk.volume_unique_key,
               unit_keys |-> dk.unit_keys]
  BY DEF TypeOK, DiscKeys
<1>w. ASSUME pc = "entry" PROVE Line.segs \in Seq(Seg)
  BY <1>w, DiscLine DEF TypeOK, Seg
<1>p. ASSUME pc = "entry", HasPair PROVE PairAtHand
  <2>1. Len(Line.segs) \in Nat
    BY <1>p, <1>w
  <2>2. i \in Nat \ {0} /\ i % 2 = 0
    BY <1>p DEF TypeOK, Walk
  <2>. QED  BY <1>p, <1>w, <2>1, <2>2 DEF PairAtHand, HasPair
<1>s. ASSUME pc = "entry" PROVE SaysBefore(dk, Line, i + 1, uk)
  BY <1>s, WalkSays
<1>1. CASE SkipLine \/ ParseDone \/ EntryFails \/ EntryInsert \/ GlobalPk
           \/ GlobalDk \/ GlobalHc
  <2>1. pc' # "entry"
    BY <1>1 DEF SkipLine, ParseDone, EntryFails, EntryInsert, GlobalPk,
                GlobalDk, GlobalHc
  <2>. QED  BY <2>1 DEF Walk
<1>2. CASE EntryStart
  <2>1. Line.segs \in Seq(Seg)
    BY <1>2, DiscLine DEF TypeOK, EntryStart, Seg
  <2>2. i' = 2 /\ uk' = 1 /\ dk' = NoKeys /\ Line' = Line /\ i' + 1 = 3
    BY <1>2 DEF EntryStart, WordAtHand, Line
  <2>3. SaysBefore(NoKeys, Line, 3, 1)
    BY <2>1, SaysStart
  <2>4. i' % 2 = 0
    BY <2>2
  <2>. QED  BY <2>2, <2>3, <2>4, Zenon DEF SaysBefore, Walk
<1>3. CASE EntryKey \/ EntryOther
  <2>1. /\ pc = "entry" /\ HasPair /\ Tag # "U"
        /\ i' = i + 2 /\ uk' = uk /\ Line' = Line
    BY <1>3 DEF EntryKey, EntryOther, Line
  <2>2. uk = 1
    BY <2>1 DEF WordAtHand
  <2>3. PairAtHand
    BY <1>p, <2>1
  <2>4. /\ dk'.media_key = IF Tag = "M" THEN Or(BlockHere, dk.media_key)
                           ELSE dk.media_key
        /\ dk'.volume_id = IF Tag = "I" THEN Or(BlockHere, dk.volume_id)
                           ELSE dk.volume_id
        /\ dk'.volume_unique_key =
             IF Tag = "V" THEN Or(BlockHere, dk.volume_unique_key)
             ELSE dk.volume_unique_key
        /\ dk'.unit_keys = dk.unit_keys
    BY <1>3, <1>k DEF EntryKey, EntryOther
  <2>5. SaysBefore(dk', Line, i + 3, 1)
    BY <1>s, <2>1, <2>2, <2>3, <2>4, SaysNextPair, Zenon
  <2>6. i' % 2 = 0 /\ i' + 1 = i + 3
    BY <2>1, <2>3 DEF PairAtHand
  <2>. QED  BY <2>1, <2>2, <2>5, <2>6, Zenon DEF SaysBefore, Walk
<1>4. CASE EntryUnitKey
  <2>1. /\ pc = "entry" /\ HasPair /\ Tag = "U" /\ uk <= Len(Words)
        /\ i' = i /\ uk' = uk + 1 /\ Line' = Line
    BY <1>4 DEF EntryUnitKey, Line
  <2>2. PairAtHand
    BY <1>p, <2>1
  <2>3. uk \in 1..Len(Words)
    <3>1. Words \in Seq(Word)
      BY <2>2, SegWords DEF Words, PairAtHand
    <3>. QED  BY <2>1, <3>1 DEF TypeOK
  <2>4. /\ dk'.media_key = dk.media_key
        /\ dk'.volume_id = dk.volume_id
        /\ dk'.volume_unique_key = dk.volume_unique_key
        /\ dk'.unit_keys =
             IF Words[uk] \in Block THEN Append(dk.unit_keys, Words[uk])
             ELSE dk.unit_keys
    BY <1>4, <1>k DEF EntryUnitKey
  <2>5. SaysBefore(dk', Line, i + 1, uk + 1)
    BY <1>k, <1>s, <2>1, <2>2, <2>3, <2>4, SaysNextWord, Zenon
  <2>6. i' % 2 = 0
    BY <2>1, <2>2 DEF PairAtHand
  <2>. QED  BY <2>1, <2>5, <2>6, Zenon DEF SaysBefore, Walk
<1>5. CASE EntryUnitKeysEnd
  <2>1. /\ pc = "entry" /\ HasPair /\ Tag = "U" /\ uk > Len(Words)
        /\ i' = i + 2 /\ uk' = 1 /\ Line' = Line /\ dk' = dk
    BY <1>5 DEF EntryUnitKeysEnd, Line
  <2>2. PairAtHand
    BY <1>p, <2>1
  <2>3. uk \in Nat \ {0}
    BY DEF TypeOK
  <2>4. SaysBefore(dk, Line, i + 3, 1)
    BY <1>s, <2>1, <2>2, <2>3, SaysEndOfUnits, Zenon
  <2>5. i' % 2 = 0 /\ i' + 1 = i + 3
    BY <2>1, <2>2 DEF PairAtHand
  <2>. QED  BY <2>1, <2>4, <2>5, Zenon DEF SaysBefore, Walk
<1>6. CASE UNCHANGED vars
  <2>1. pc' = pc /\ i' = i /\ uk' = uk /\ dk' = dk /\ Line' = Line
    BY <1>6 DEF vars, Line
  <2>. QED  BY <2>1, Zenon DEF Walk
<1>. QED  BY <1>1, <1>2, <1>3, <1>4, <1>5, <1>6 DEF Next

-----------------------------------------------------------------------------
(* KeyDb: the discs listed.                                                 *)

LEMMA TakenGrows ==
  ASSUME TypeOK, n <= Len(text), NextLine, NEW d
  PROVE  /\ Line.shape = "disc" /\ Line.id = d => Taken(d)' = Taken(d) \cup {n}
         /\ ~(Line.shape = "disc" /\ Line.id = d) => Taken(d)' = Taken(d)
<1>1. n \in Nat \ {0} /\ n' = n + 1 /\ text' = text
  BY LengthIsNat DEF TypeOK, NextLine
<1>2. 1..(n' - 1) = 1..(n - 1) \cup {n} /\ n \notin 1..(n - 1)
  BY <1>1
<1>3. Taken(d)' = {m \in 1..(n - 1) \cup {n} :
                     text[m].shape = "disc" /\ text[m].id = d}
  BY <1>1, <1>2 DEF Taken
<1>. QED  BY <1>3 DEF Taken, Line

(* The entry goes in as its disc's, and replaces what was there.            *)
LEMMA DiscsInsert ==
  ASSUME TypeOK, DbShape, Walk, DiscsFromLines, EntryInsert
  PROVE  DiscsFromLines'
<1>1. /\ pc = "entry" /\ ~HasPair /\ NextLine /\ n <= Len(text)
      /\ Line.shape = "disc" /\ Line.id \in DiscId
      /\ n \in Nat \ {0} /\ i \in Nat
  BY LengthIsNat DEF EntryInsert, TypeOK
<1>2. Line.segs \in Seq(Seg)
  BY <1>1, DiscLine DEF TypeOK, Seg
<1>3. LoadedFrom(dk, Line)
  BY <1>1, <1>2, WalkSays, SaysEnd, Zenon
<1>4. db'.discs = Insert(db.discs, Line.id, dk)
  BY DEF EntryInsert, DbShape
<1>5. /\ DOMAIN db'.discs = DOMAIN db.discs \cup {Line.id}
      /\ \A d \in DOMAIN db'.discs :
           db'.discs[d] = IF d = Line.id THEN dk ELSE db.discs[d]
  BY <1>4 DEF Insert
<1>6. text' = text
  BY <1>1 DEF NextLine
<1>7. ASSUME NEW d \in DiscId
      PROVE  /\ d \in DOMAIN db'.discs <=> Taken(d)' # {}
             /\ Taken(d)' # {} => LoadedFrom(db'.discs[d], text'[Max(Taken(d)')])
  <2>1. CASE d = Line.id
    <3>1. Taken(d)' = Taken(d) \cup {n}
      BY <1>1, <2>1, TakenGrows
    <3>2. Taken(d)' \subseteq Int /\ n \in Taken(d)' /\ \A m \in Taken(d)' : m <= n
      BY <1>1, <3>1 DEF Taken
    <3>3. Max(Taken(d)') = n
      BY <3>2, MaxIs, Zenon
    <3>4. text'[Max(Taken(d)')] = Line
      BY <1>6, <3>3 DEF Line
    <3>5. d \in DOMAIN db'.discs /\ db'.discs[d] = dk
      BY <1>5, <2>1
    <3>. QED  BY <1>3, <3>2, <3>4, <3>5, Zenon
  <2>2. CASE d # Line.id
    <3>1. Taken(d)' = Taken(d)
      BY <1>1, <2>2, TakenGrows
    <3>2. d \in DOMAIN db'.discs <=> d \in DOMAIN db.discs
      BY <1>5, <2>2
    <3>3. d \in DOMAIN db'.discs => db'.discs[d] = db.discs[d]
      BY <1>5, <2>2
    <3>. QED  BY <1>6, <3>1, <3>2, <3>3, Zenon DEF DiscsFromLines
  <2>. QED  BY <2>1, <2>2
<1>. QED  BY <1>7 DEF DiscsFromLines, LoadedFrom, Ranked, Said, Values, ValuesOf,
              UnitPlaces, UnitWords, UpTo, NotAfter, WordAt

LEMMA DiscsStep ==
  ASSUME TypeOK, DbShape, Walk, DiscsFromLines, [Next]_vars
  PROVE  DiscsFromLines'
<1>. USE DEF At
<1>1. ASSUME text' = text, db'.discs = db.discs,
             \A d \in DiscId : Taken(d)' = Taken(d)
      PROVE  DiscsFromLines'
  <2>1. ASSUME NEW d \in DiscId
        PROVE  /\ d \in DOMAIN db'.discs <=> Taken(d)' # {}
               /\ Taken(d)' # {} => LoadedFrom(db'.discs[d], text'[Max(Taken(d)')])
    BY <1>1, Zenon DEF DiscsFromLines
  <2>. QED  BY <2>1 DEF DiscsFromLines
<1>2. CASE SkipLine \/ GlobalPk \/ GlobalDk \/ GlobalHc
  <2>1. NextLine /\ n <= Len(text) /\ Line.shape # "disc"
    BY <1>2 DEF SkipLine, GlobalPk, GlobalDk, GlobalHc
  <2>2. \A d \in DiscId : Taken(d)' = Taken(d)
    BY <2>1, TakenGrows
  <2>3. db'.discs = db.discs
    BY <1>2 DEF SkipLine, GlobalPk, GlobalDk, GlobalHc, DbShape
  <2>. QED  BY <1>1, <2>1, <2>2, <2>3 DEF NextLine
<1>3. CASE EntryInsert
  BY <1>3, DiscsInsert
<1>4. CASE ParseDone \/ EntryFails \/ EntryStart \/ EntryKey \/ EntryUnitKey
           \/ EntryUnitKeysEnd \/ EntryOther \/ UNCHANGED vars
  <2>1. text' = text /\ n' = n /\ db' = db
    BY <1>4 DEF ParseDone, EntryFails, EntryStart, EntryKey, EntryUnitKey,
                EntryUnitKeysEnd, EntryOther, vars
  <2>2. \A d \in DiscId : Taken(d)' = Taken(d)
    BY <2>1 DEF Taken
  <2>. QED  BY <1>1, <2>1, <2>2
<1>. QED  BY <1>2, <1>3, <1>4 DEF Next

(* In an entry whose values are all blocks every word is a place.           *)
LEMMA WellFormedPlaces ==
  ASSUME NEW line, WellFormed(line)
  PROVE  /\ UnitPlaces(line) = UnitWords(line)
         /\ \A p : UpTo(line, p) = WordNo(line, p)
<1>1. UnitPlaces(line) = UnitWords(line)
  BY Zenon DEF WellFormed, UnitPlaces
<1>. QED  BY <1>1, Zenon DEF UpTo, WordNo

LEMMA DiscsFromLinesLoaded == DiscsFromLines => DiscsLoaded
<1>. SUFFICES ASSUME DiscsFromLines, NEW d \in DiscId
              PROVE  /\ d \in DOMAIN db.discs <=> Taken(d) # {}
                     /\ Taken(d) # {} /\ WellFormed(text[Max(Taken(d))]) =>
                          LoadedAsWritten(db.discs[d], text[Max(Taken(d))])
  BY Zenon DEF DiscsLoaded, LoadedAsWritten
<1>1. d \in DOMAIN db.discs <=> Taken(d) # {}
  BY Zenon DEF DiscsFromLines
<1>2. ASSUME Taken(d) # {}, WellFormed(text[Max(Taken(d))])
      PROVE  LoadedAsWritten(db.discs[d], text[Max(Taken(d))])
  <2>1. LoadedFrom(db.discs[d], text[Max(Taken(d))])
    BY <1>2, Zenon DEF DiscsFromLines
  <2>. QED  BY <1>2, <2>1, WellFormedPlaces, Zenon
            DEF LoadedFrom, LoadedAsWritten, Ranked
<1>. QED  BY <1>1, <1>2, Zenon

-----------------------------------------------------------------------------
(* KeyDb: the host's key and certificate.                                   *)

(* Of this line are a key and a certificate.                                *)
PairOf(line, priv, cert) ==
  \E j \in Named(line, "HOST_PRIV_KEY"), k \in Named(line, "HOST_CERT") :
    priv = line.fields[j].word /\ cert = line.fields[k].word

(* Of these lines, if they are records, the pair is of one of them.         *)
PairFrom(file, lines, priv, cert) ==
  (\A m \in lines : HostRecord(file[m])) =>
    \/ lines = {} /\ priv = None /\ cert = None
    \/ \E m \in lines : PairOf(file[m], priv, cert)

LEMMA HostPairIs ==
  HostPairIsOneRecords <=> PairFrom(text, HostLines, db.host_priv_key, db.host_cert)
BY Zenon DEF HostPairIsOneRecords, PairFrom, PairOf

LEMMA HostPairIsNext ==
  ASSUME PairFrom(text', HostLines', db'.host_priv_key, db'.host_cert)
  PROVE  HostPairIsOneRecords'
<1>. DEFINE Two(line) ==
              \A name \in {"HOST_PRIV_KEY", "HOST_CERT"} :
                {j \in DOMAIN line.fields : line.fields[j].name = name} # {}
            Hex(line) == \A j \in DOMAIN line.fields : line.fields[j].word \in Bytes
            Of(line, priv, cert) ==
              \E j \in {j \in DOMAIN line.fields : line.fields[j].name = "HOST_PRIV_KEY"},
                 k \in {k \in DOMAIN line.fields : line.fields[k].name = "HOST_CERT"} :
                priv = line.fields[j].word /\ cert = line.fields[k].word
<1>1. HostPairIsOneRecords' <=>
        ((\A m \in HostLines' : Two(text'[m]) /\ Hex(text'[m])) =>
          \/ HostLines' = {} /\ db'.host_priv_key = None /\ db'.host_cert = None
          \/ \E m \in HostLines' : Of(text'[m], db'.host_priv_key, db'.host_cert))
  BY Zenon DEF HostPairIsOneRecords, HostRecord, Named
<1>2. \A line : HostRecord(line) <=> Two(line) /\ Hex(line)
  BY Zenon DEF HostRecord, Named
<1>3. \A line, priv, cert : PairOf(line, priv, cert) <=> Of(line, priv, cert)
  BY Zenon DEF PairOf, Named
<1>. HIDE DEF Two, Hex, Of
<1>. QED  BY <1>1, <1>2, <1>3, Zenon DEF PairFrom

LEMMA HostLinesGrow ==
  ASSUME TypeOK, n <= Len(text), NextLine
  PROVE  HostLines' = IF Line.shape = "HC" THEN HostLines \cup {n} ELSE HostLines
<1>1. n \in Nat \ {0} /\ n' = n + 1 /\ text' = text
  BY LengthIsNat DEF TypeOK, NextLine
<1>2. 1..(n' - 1) = 1..(n - 1) \cup {n}
  BY <1>1
<1>. QED  BY <1>1, <1>2 DEF HostLines, Line

(* A name's last field is one of the line's fields, and it is its word that *)
(* a record in hexadecimal assigns.                                         *)
LEMMA RecordAssigns ==
  ASSUME TypeOK, n <= Len(text), Line.shape = "HC", HostRecord(Line),
         NEW name \in {"HOST_PRIV_KEY", "HOST_CERT"}, NEW previous
  PROVE  \E j \in Named(Line, name) :
           Assigned(Line, name, Bytes, previous) = Line.fields[j].word
<1>1. Line.fields \in Seq([name : Names, word : Word])
  BY FieldsLine DEF TypeOK
<1>2. Len(Line.fields) \in Nat /\ Named(Line, name) \subseteq 1..Len(Line.fields)
  BY <1>1 DEF Named
<1>3. Named(Line, name) # {} /\ \A j \in Named(Line, name) : Line.fields[j].word \in Bytes
  BY Zenon DEF HostRecord, Named
<1>4. Max(Named(Line, name)) \in Named(Line, name)
  BY <1>2, <1>3, MaxInside, Zenon
<1>. QED  BY <1>3, <1>4, AssignedIs, Zenon

LEMMA HostStep ==
  ASSUME TypeOK, DbShape, HostPairIsOneRecords, [Next]_vars
  PROVE  HostPairIsOneRecords'
<1>. USE DEF At
<1>1. ASSUME text' = text, HostLines' = HostLines,
             db'.host_priv_key = db.host_priv_key, db'.host_cert = db.host_cert
      PROVE  HostPairIsOneRecords'
  BY <1>1, HostPairIs, HostPairIsNext, Zenon
<1>2. CASE SkipLine \/ EntryInsert \/ GlobalPk \/ GlobalDk
  <2>1. NextLine /\ n <= Len(text) /\ Line.shape # "HC"
    BY <1>2 DEF SkipLine, EntryInsert, GlobalPk, GlobalDk, TypeOK
  <2>2. HostLines' = HostLines /\ text' = text
    BY <2>1, HostLinesGrow DEF NextLine
  <2>3. db'.host_priv_key = db.host_priv_key /\ db'.host_cert = db.host_cert
    BY <1>2 DEF SkipLine, EntryInsert, GlobalPk, GlobalDk, DbShape
  <2>. QED  BY <1>1, <2>2, <2>3
<1>3. CASE GlobalHc
  <2>1. NextLine /\ n <= Len(text) /\ Line.shape = "HC" /\ text' = text
    BY <1>3 DEF GlobalHc, NextLine
  <2>2. HostLines' = HostLines \cup {n}
    BY <2>1, HostLinesGrow
  <2>3. /\ db'.host_priv_key = Assigned(Line, "HOST_PRIV_KEY", Bytes, db.host_priv_key)
        /\ db'.host_cert = Assigned(Line, "HOST_CERT", Bytes, db.host_cert)
    BY <1>3 DEF GlobalHc, DbShape
  <2>4. ASSUME HostRecord(Line)
        PROVE  PairOf(Line, db'.host_priv_key, db'.host_cert)
    <3>1. PICK j \in Named(Line, "HOST_PRIV_KEY") :
            db'.host_priv_key = Line.fields[j].word
      BY <2>1, <2>3, <2>4, RecordAssigns, Zenon
    <3>2. PICK k \in Named(Line, "HOST_CERT") : db'.host_cert = Line.fields[k].word
      BY <2>1, <2>3, <2>4, RecordAssigns, Zenon
    <3>. QED  BY <3>1, <3>2, Zenon DEF PairOf
  <2>5. text'[n] = Line /\ n \in HostLines'
    BY <2>1, <2>2 DEF Line
  <2>6. PairFrom(text', HostLines', db'.host_priv_key, db'.host_cert)
    BY <2>4, <2>5, Zenon DEF PairFrom
  <2>. QED  BY <2>6, HostPairIsNext
<1>4. CASE ParseDone \/ EntryFails \/ EntryStart \/ EntryKey \/ EntryUnitKey
           \/ EntryUnitKeysEnd \/ EntryOther \/ UNCHANGED vars
  <2>1. text' = text /\ n' = n /\ db' = db
    BY <1>4 DEF ParseDone, EntryFails, EntryStart, EntryKey, EntryUnitKey,
                EntryUnitKeysEnd, EntryOther, vars
  <2>2. HostLines' = HostLines
    BY <2>1 DEF HostLines
  <2>. QED  BY <1>1, <2>1, <2>2
<1>. QED  BY <1>2, <1>3, <1>4 DEF Next

-----------------------------------------------------------------------------
(* UnitKeys.                                                                *)

(* The file read is one of a disc, whole or not.                            *)
FileRead == ukf.disc \in DOMAIN Disc /\ ukf.len \in 0..Whole(ukf.disc)

(* What the caller knows, and from where.                                   *)
Known ==
  /\ at # "open" => pc = "Ok"
  /\ at \in {"open", "ukf", "km", "vid"} => oracle = None
  /\ at # "done" => outcome = None /\ key = None
  /\ oracle = None => vid = None
  /\ oracle = "keydb" => vid = Listed.volume_id
  /\ outcome = "Ok" => FileRead

-----------------------------------------------------------------------------
(* KeyDb: the theorems.                                                     *)

KeyDbInv == TypeOK /\ DbShape /\ WordAtHand /\ Walk /\ DiscsFromLines
            /\ HostPairIsOneRecords

LEMMA KeyDbInit == Init => KeyDbInv
<1>. SUFFICES ASSUME Init PROVE KeyDbInv
  OBVIOUS
<1>1. TypeOK /\ DbShape
  BY TypeInit
<1>2. pc # "entry" /\ uk = 1
  BY DEF Init
<1>3. \A d : Taken(d) = {}
  BY DEF Init, Taken
<1>4. DOMAIN db.discs = {} /\ db.host_priv_key = None /\ db.host_cert = None
  BY DEF Init
<1>5. HostLines = {}
  BY DEF Init, HostLines
<1>6. HostPairIsOneRecords
  BY <1>4, <1>5 DEF HostPairIsOneRecords
<1>. QED  BY <1>1, <1>2, <1>3, <1>4, <1>6 DEF KeyDbInv, WordAtHand, Walk, DiscsFromLines

LEMMA KeyDbStep == KeyDbInv /\ [Next]_vars => KeyDbInv'
BY TypeStep, WordAtHandStep, WalkStep, DiscsStep, HostStep DEF KeyDbInv

(* The invariant from which the theorems about KeyDb follow.                *)
THEOREM KeyDbInvariant == Spec => []KeyDbInv
BY KeyDbInit, KeyDbStep, PTL DEF Spec

(* KeyDb::parse (lib.rs:115-130): whatever the file, what is kept as a key  *)
(* is 16 bytes, and what is kept as a disc id is 20.                        *)
THEOREM KeysAreBlocks == Spec => []TypeOK
<1>1. KeyDbInv => TypeOK
  BY DEF KeyDbInv
<1>. QED  BY <1>1, KeyDbInvariant, PTL

(* parse_disc_entry (lib.rs:132-171): a disc is listed exactly when a line  *)
(* of it has been taken; if all values of the last such line are blocks,    *)
(* its keys are this line's, the unit keys in their order, whatever earlier *)
(* lines or other discs' lines say.                                         *)
THEOREM DiscsAreTheirLastLines == Spec => []DiscsLoaded
<1>1. KeyDbInv => DiscsLoaded
  BY DiscsFromLinesLoaded DEF KeyDbInv
<1>. QED  BY <1>1, KeyDbInvariant, PTL

(* parse_global_record (lib.rs:173-228): of any number of HC records of the *)
(* documented form, the host's private key and certificate are of one.      *)
THEOREM HostPairTogether == Spec => []HostPairIsOneRecords
<1>1. KeyDbInv => HostPairIsOneRecords
  BY DEF KeyDbInv
<1>. QED  BY <1>1, KeyDbInvariant, PTL

(* The resolution uses the key database as it was loaded and does not       *)
(* change it: every theorem about KeyDb holds in UnitKeys.                  *)
THEOREM ResolveLoads == ResolveSpec => Spec
<1>1. ResolveInit => Init
  BY DEF ResolveInit
<1>2. [ResolveNext]_allVars => [Next]_vars
  <2>1. ResolveNext => Next \/ UNCHANGED vars
    BY DEF ResolveNext, Load, Open, UnitKeyFile, MediaKey, VidCache, Discatt,
           KeydbVid, resolve_unit_key
  <2>. QED  BY <2>1 DEF allVars
<1>. QED  BY <1>1, <1>2, PTL DEF ResolveSpec, Spec

(* A loaded key database is loaded: the load is over.                       *)
LEMMA LoadIsOver == ASSUME pc = "Ok", [Next]_vars PROVE UNCHANGED vars
BY DEF Next, SkipLine, ParseDone, EntryFails, EntryStart, EntryKey, EntryUnitKey,
       EntryUnitKeysEnd, EntryOther, EntryInsert, GlobalPk, GlobalDk, GlobalHc, At

LEMMA ListedType == ASSUME TypeOK PROVE Listed \in DiscKeys
<1>1. NoKeys \in DiscKeys
  BY DEF NoKeys, DiscKeys
<1>. QED  BY <1>1 DEF Listed, disc, TypeOK

(* Only with the whole file is a disc looked up, and it is that disc.       *)
LEMMA ListedIs ==
  ASSUME TypeOK, Listed # NoKeys
  PROVE  /\ disc_id(ukf) = Disc[ukf.disc].id
         /\ Disc[ukf.disc].id \in DOMAIN db.discs
         /\ Listed = db.discs[Disc[ukf.disc].id]
<1>1. disc_id(ukf) \in DOMAIN db.discs /\ Listed = db.discs[disc_id(ukf)]
  BY DEF Listed, disc
<1>2. None \notin DOMAIN db.discs
  BY KeyDbAssumption DEF TypeOK
<1>3. disc_id(ukf) = Disc[ukf.disc].id
  BY <1>1, <1>2, Zenon DEF disc_id
<1>. QED  BY <1>1, <1>3

LEMMA ResolveInitHolds == ResolveInit => ResolveTypeOK /\ Known /\ CachedVidIsWhole
<1>. SUFFICES ASSUME ResolveInit PROVE ResolveTypeOK /\ Known /\ CachedVidIsWhole
  OBVIOUS
<1>1. None \notin Block \cup {Junk} /\ None \notin {"Ok", "keydb", "cache", "discatt"}
  BY KeyDbAssumption, UnitKeysAssumption
<1>2. cps_index \in 0..MaxIndex
  BY UnitKeysAssumption DEF ResolveInit
<1>3. ResolveTypeOK
  BY <1>1, <1>2 DEF ResolveInit, ResolveTypeOK
<1>. QED  BY <1>1, <1>3 DEF ResolveInit, Known, CachedVidIsWhole

LEMMA EndType ==
  ASSUME ResolveTypeOK, Known, at # "done", NEW how \in Errors, End(how),
         UNCHANGED key
  PROVE  /\ at' = "done"
         /\ outcome' \in Errors
         /\ outcome' # "Ok"
         /\ key' = None
         /\ (outcome' = "Ok") <=> (key' \in Block \cup {Junk})
BY KeyDbAssumption, UnitKeysAssumption DEF End, Known, Errors

LEMMA ReadFailsIs ==
  ASSUME ReadFails
  PROVE  \E how \in Errors : End(how)
BY DEF ReadFails, Errors

LEMMA VidCacheOutcomeIs ==
  ASSUME NEW digits
  PROVE  /\ VidCacheOutcome(digits) = "Ok" => digits = VidDigits
         /\ VidCacheOutcome(digits) # "Ok" => VidCacheOutcome(digits) \in Errors
BY DEF VidCacheOutcome, Errors

(* Every step of the caller ends with an error, ends with a key, or goes on.*)
Goes ==
  /\ at' \in {"open", "ukf", "km", "vid", "resolve", "done"}
  /\ at' # "open"
  /\ \/ outcome' \in Errors /\ at' = "done" /\ key' = None
     \/ outcome' = "Ok" /\ at' = "done" /\ key' \in Block \cup {Junk} /\ FileRead'
     \/ outcome' = None /\ at' # "done" /\ key' = None

LEMMA GoesType ==
  ASSUME Goes,
         source' \in {None, "folder", "image"},
         cps_index' \in 0..MaxIndex,
         at' \notin {"open", "ukf", "done"} => FileRead',
         km' \in Block \cup {None},
         vid' \in Block \cup {Junk, None},
         oracle' \in {None, "keydb", "cache", "discatt"}
  PROVE  ResolveTypeOK'
<1>1. None \notin Block \cup {Junk} /\ "Ok" \notin Errors /\ None # "Ok"
  BY KeyDbAssumption, UnitKeysAssumption DEF Errors
<1>. QED  BY <1>1, Zenon DEF Goes, ResolveTypeOK, FileRead

(* What the caller reads and what it does not.                              *)
LEMMA OpenStep ==
  ASSUME ResolveTypeOK, Known, Open
  PROVE  ResolveTypeOK' /\ Known' /\ oracle' = oracle /\ ukf' = ukf /\ vid' = vid
<1>1. /\ at = "open" /\ pc' = "Ok" /\ key' = key /\ oracle' = oracle /\ vid' = vid
      /\ km' = km /\ cps_index' = cps_index /\ ukf' = ukf
      /\ source' \in {"folder", "image"}
      /\ oracle = None /\ outcome = None /\ key = None /\ vid = None
  BY DEF Open, Known, vars
<1>2. Goes
  BY <1>1 DEF Open, End, Goes, Errors
<1>3. ResolveTypeOK'
  BY <1>1, <1>2, GoesType DEF ResolveTypeOK, Open, End
<1>4. Known'
  BY <1>1, <1>2, UnitKeysAssumption DEF Known, Goes, Errors
<1>. QED  BY <1>1, <1>3, <1>4

LEMMA UnitKeyFileStep ==
  ASSUME ResolveTypeOK, Known, UnitKeyFile
  PROVE  ResolveTypeOK' /\ Known' /\ oracle' = None
<1>1. /\ at = "ukf" /\ pc' = pc /\ pc = "Ok" /\ key' = key /\ oracle' = oracle
      /\ vid' = vid /\ km' = km /\ source' = source
      /\ oracle = None /\ outcome = None /\ key = None /\ vid = None
  BY DEF UnitKeyFile, Known, vars
<1>2. CASE /\ cps_index' \in 0..MaxIndex
           /\ \E d \in DOMAIN Disc : \E len \in 0..Whole(d) :
                ukf' = [disc |-> d, len |-> len]
           /\ at' = "km"
           /\ UNCHANGED outcome
  <2>1. FileRead'
    BY <1>2 DEF FileRead, Whole
  <2>2. Goes
    BY <1>1, <1>2 DEF Goes
  <2>3. ResolveTypeOK'
    BY <1>1, <1>2, <2>1, <2>2, GoesType DEF ResolveTypeOK
  <2>4. Known'
    BY <1>1, <1>2, UnitKeysAssumption DEF Known
  <2>. QED  BY <1>1, <2>3, <2>4
<1>3. CASE ReadFails /\ UNCHANGED <<cps_index, ukf>>
  <2>1. outcome' \in Errors /\ at' = "done"
    BY <1>3, ReadFailsIs DEF End
  <2>2. Goes
    BY <1>1, <2>1 DEF Goes
  <2>3. ResolveTypeOK'
    BY <1>1, <1>3, <2>1, <2>2, GoesType DEF ResolveTypeOK
  <2>4. Known'
    BY <1>1, <2>1, UnitKeysAssumption DEF Known, Errors
  <2>. QED  BY <1>1, <2>3, <2>4
<1>. QED  BY <1>2, <1>3 DEF UnitKeyFile

LEMMA MediaKeyStep ==
  ASSUME TypeOK, ResolveTypeOK, Known, MediaKey
  PROVE  ResolveTypeOK' /\ Known' /\ oracle' = oracle /\ ukf' = ukf /\ vid' = vid
<1>1. /\ at = "km" /\ pc' = pc /\ pc = "Ok" /\ key' = key /\ oracle' = oracle
      /\ vid' = vid /\ source' = source /\ cps_index' = cps_index /\ ukf' = ukf
      /\ oracle = None /\ outcome = None /\ key = None /\ vid = None
  BY DEF MediaKey, Known, vars
<1>2. FileRead /\ FileRead'
  BY <1>1 DEF ResolveTypeOK, FileRead, Whole
<1>3. km' \in Block \cup {None}
  <2>1. Listed.media_key \in Block \cup {None}
    BY ListedType DEF DiscKeys
  <2>2. {Disc[d].media_key : d \in DOMAIN Disc} \subseteq Block
    BY UnitKeysAssumption
  <2>3. km \in Block \cup {None}
    BY DEF ResolveTypeOK
  <2>. QED  BY <2>1, <2>2, <2>3 DEF MediaKey
<1>4. \/ at' \in {"vid", "resolve"} /\ outcome' = outcome
      \/ at' = "done" /\ outcome' \in Errors
  BY ReadFailsIs DEF MediaKey, End
<1>5. Goes
  BY <1>1, <1>4 DEF Goes
<1>6. ResolveTypeOK'
  BY <1>1, <1>2, <1>3, <1>5, GoesType DEF ResolveTypeOK
<1>7. Known'
  BY <1>1, <1>4, UnitKeysAssumption DEF Known, Errors
<1>. QED  BY <1>1, <1>6, <1>7

(* The three ways to a Volume ID.                                           *)
LEMMA VidStep ==
  ASSUME TypeOK, ResolveTypeOK, Known, at = "vid",
         UNCHANGED <<vars, source, cps_index, ukf, km, key>>,
         \/ at' = "resolve" /\ outcome' = outcome
         \/ at' = "done" /\ outcome' \in Errors,
         vid' \in Block \cup {Junk, None},
         oracle' \in {"keydb", "cache", "discatt"},
         oracle' = "keydb" => vid' = Listed.volume_id
  PROVE  ResolveTypeOK' /\ Known'
<1>1. /\ pc' = pc /\ pc = "Ok" /\ outcome = None /\ key = None /\ oracle' # None
      /\ key' = key /\ db' = db /\ ukf' = ukf /\ km' = km /\ source' = source
      /\ cps_index' = cps_index
  BY UnitKeysAssumption DEF Known, vars
<1>2. FileRead /\ FileRead'
  BY <1>1 DEF ResolveTypeOK, FileRead, Whole
<1>3. Goes
  BY <1>1 DEF Goes
<1>4. ResolveTypeOK'
  BY <1>1, <1>2, <1>3, GoesType DEF ResolveTypeOK
<1>5. Listed' = Listed
  BY <1>1 DEF Listed, disc, disc_id, Whole
<1>6. Known'
  BY <1>1, <1>2, <1>5, UnitKeysAssumption DEF Known, Errors
<1>. QED  BY <1>4, <1>6

LEMMA VidCacheStep ==
  ASSUME TypeOK, ResolveTypeOK, Known, VidCache
  PROVE  ResolveTypeOK' /\ Known' /\ CachedVidIsWhole'
<1>1. /\ at = "vid" /\ oracle' = "cache" /\ vid = None /\ ukf' = ukf
      /\ UNCHANGED <<vars, source, cps_index, ukf, km, key>>
  BY DEF VidCache, Known
<1>2. FileRead
  BY <1>1 DEF ResolveTypeOK, FileRead
<1>3. /\ \/ at' = "resolve" /\ outcome' = outcome
         \/ at' = "done" /\ outcome' \in Errors
      /\ vid' \in {None, Disc[ukf.disc].volume_id}
  <2>1. CASE UNCHANGED <<vid, outcome>> /\ at' = "resolve"
    BY <1>1, <2>1
  <2>2. CASE End("Io") /\ UNCHANGED vid
    BY <1>1, <2>2 DEF End, Errors
  <2>3. ASSUME NEW digits \in 0..VidDigits,
               VidCacheOutcome(digits) = "Ok", vid' = DecodedVid(digits),
               at' = "resolve", UNCHANGED outcome
        PROVE  vid' = Disc[ukf.disc].volume_id
    BY <2>3, VidCacheOutcomeIs DEF DecodedVid
  <2>4. ASSUME NEW digits \in 0..VidDigits, VidCacheOutcome(digits) # "Ok",
               End(VidCacheOutcome(digits)), UNCHANGED vid
        PROVE  at' = "done" /\ outcome' \in Errors /\ vid' = None
    BY <1>1, <2>4, VidCacheOutcomeIs DEF End
  <2>. QED  BY <2>1, <2>2, <2>3, <2>4 DEF VidCache
<1>4. vid' \in Block \cup {Junk, None}
  BY <1>2, <1>3, UnitKeysAssumption DEF FileRead
<1>5. ResolveTypeOK' /\ Known'
  BY <1>1, <1>3, <1>4, VidStep
<1>6. CachedVidIsWhole'
  BY <1>1, <1>3 DEF CachedVidIsWhole
<1>. QED  BY <1>5, <1>6

LEMMA DiscattStep ==
  ASSUME TypeOK, ResolveTypeOK, Known, Discatt
  PROVE  ResolveTypeOK' /\ Known' /\ oracle' # "cache"
<1>1. /\ at = "vid" /\ oracle' = "discatt" /\ vid = None
      /\ UNCHANGED <<vars, source, cps_index, ukf, km, key>>
  BY DEF Discatt, Known
<1>2. /\ \/ at' = "resolve" /\ outcome' = outcome
         \/ at' = "done" /\ outcome' \in Errors
      /\ vid' \in Block \cup {Junk, None}
  BY <1>1, UnitKeysAssumption DEF Discatt, End, Errors
<1>. QED  BY <1>1, <1>2, VidStep

LEMMA KeydbVidStep ==
  ASSUME TypeOK, ResolveTypeOK, Known, KeydbVid
  PROVE  ResolveTypeOK' /\ Known' /\ oracle' # "cache"
<1>1. /\ at = "vid" /\ oracle' = "keydb" /\ vid' = Listed.volume_id
      /\ at' = "resolve" /\ outcome' = outcome
      /\ UNCHANGED <<vars, source, cps_index, ukf, km, key>>
  BY DEF KeydbVid
<1>2. vid' \in Block \cup {Junk, None}
  BY <1>1, ListedType DEF DiscKeys
<1>. QED  BY <1>1, <1>2, VidStep

(* What is resolved is 16 bytes.                                            *)
LEMMA UnwrapType ==
  ASSUME NEW kvu, NEW enc, enc.disc \in DOMAIN Disc
  PROVE  unwrap_unit_key(kvu, enc) \in Block \cup {Junk}
<1>1. Disc[enc.disc].unit_keys \in Seq(Block)
  BY UnitKeysAssumption
<1>2. \A u \in DOMAIN Disc[enc.disc].unit_keys : Disc[enc.disc].unit_keys[u] \in Block
  BY <1>1
<1>. QED  BY <1>2, Zenon DEF unwrap_unit_key

LEMMA ResolveStep ==
  ASSUME TypeOK, ResolveTypeOK, Known, resolve_unit_key
  PROVE  ResolveTypeOK' /\ Known' /\ oracle' = oracle /\ ukf' = ukf /\ vid' = vid
<1>1. /\ at = "resolve" /\ pc' = pc /\ pc = "Ok" /\ oracle' = oracle /\ db' = db
      /\ vid' = vid /\ source' = source /\ cps_index' = cps_index /\ ukf' = ukf
      /\ km' = km /\ outcome = None /\ key = None
  BY DEF resolve_unit_key, Known, vars
<1>2. FileRead /\ FileRead'
  BY <1>1 DEF ResolveTypeOK, FileRead, Whole
<1>3. Goes
  <2>1. CASE ResolveKeydb
    <3>1. cps_index \in Nat /\ Listed.unit_keys \in Seq(Block)
      BY ListedType DEF ResolveTypeOK, DiscKeys
    <3>2. keydb_unit_key \in Block \cup {None}
      BY <3>1 DEF keydb_unit_key
    <3>3. key' \in Block
      BY <2>1, <3>2 DEF ResolveKeydb
    <3>. QED  BY <1>2, <2>1, <3>3 DEF ResolveKeydb, End, Goes
  <2>2. CASE ResolveKvu
    <3>. DEFINE enc == encrypted_unit_key(ukf, cps_index)
    <3>1. CASE enc = None /\ End("Malformed") /\ UNCHANGED key
      BY <1>1, <3>1 DEF End, Goes, Errors
    <3>2. CASE enc # None /\ key' = unwrap_unit_key(Kvu, enc) /\ End("Ok")
      <4>1. enc.disc = ukf.disc
        BY <3>2 DEF encrypted_unit_key
      <4>. HIDE DEF enc
      <4>2. key' \in Block \cup {Junk}
        BY <1>2, <3>2, <4>1, UnwrapType, Zenon DEF FileRead
      <4>. QED  BY <1>2, <3>2, <4>2 DEF End, Goes
    <3>. QED  BY <2>2, <3>1, <3>2, Zenon DEF ResolveKvu
  <2>3. CASE ResolveNothing
    BY <1>1, <2>3 DEF ResolveNothing, End, Goes, Errors
  <2>. QED  BY <2>1, <2>2, <2>3 DEF resolve_unit_key
<1>4. ResolveTypeOK'
  BY <1>1, <1>2, <1>3, GoesType DEF ResolveTypeOK
<1>5. Listed' = Listed
  BY <1>1 DEF Listed, disc, disc_id, Whole
<1>6. at' = "done"
  BY DEF resolve_unit_key, ResolveKeydb, ResolveKvu, ResolveNothing, End
<1>7. Known'
  BY <1>1, <1>2, <1>5, <1>6 DEF Known
<1>. QED  BY <1>1, <1>4, <1>7

-----------------------------------------------------------------------------
(* UnitKeys: types and the Volume ID of the cache.                          *)

ResolveInv == ResolveTypeOK /\ Known /\ CachedVidIsWhole

LEMMA ResolveInvStep ==
  ASSUME TypeOK, ResolveInv, [ResolveNext]_allVars
  PROVE  ResolveInv'
<1>. USE DEF ResolveInv
<1>1. ASSUME oracle' = oracle, ukf' = ukf, vid' = vid
      PROVE  CachedVidIsWhole'
  BY <1>1 DEF CachedVidIsWhole
<1>2. ASSUME oracle' # "cache" PROVE CachedVidIsWhole'
  BY <1>2 DEF CachedVidIsWhole
<1>3. CASE Load \/ UNCHANGED allVars
  <2>1. UNCHANGED callVars
    BY <1>3 DEF Load, allVars
  <2>2. ResolveTypeOK' /\ CachedVidIsWhole'
    BY <2>1 DEF callVars, ResolveTypeOK, CachedVidIsWhole, Whole
  <2>3. CASE at = "open"
    <3>1. oracle = None /\ vid = None /\ outcome = None
      BY <2>3 DEF Known
    <3>. QED  BY <2>1, <2>2, <2>3, <3>1, UnitKeysAssumption DEF callVars, Known
  <2>4. CASE at # "open"
    <3>1. pc = "Ok"
      BY <2>4 DEF Known
    <3>2. UNCHANGED vars
      BY <1>3, <3>1, LoadIsOver DEF Load, allVars
    <3>3. Listed' = Listed
      BY <2>1, <3>2 DEF callVars, vars, Listed, disc, disc_id, Whole
    <3>. QED  BY <2>1, <2>2, <3>2, <3>3 DEF callVars, vars, Known, FileRead, Whole
  <2>. QED  BY <2>3, <2>4
<1>4. CASE Open
  BY <1>1, <1>4, OpenStep
<1>5. CASE UnitKeyFile
  <2>1. oracle' # "cache"
    BY <1>5, UnitKeyFileStep, UnitKeysAssumption
  <2>. QED  BY <1>2, <1>5, <2>1, UnitKeyFileStep
<1>6. CASE MediaKey
  BY <1>1, <1>6, MediaKeyStep
<1>7. CASE VidCache
  BY <1>7, VidCacheStep
<1>8. CASE Discatt
  BY <1>2, <1>8, DiscattStep
<1>9. CASE KeydbVid
  BY <1>2, <1>9, KeydbVidStep
<1>10. CASE resolve_unit_key
  BY <1>1, <1>10, ResolveStep
<1>. QED
  BY <1>3, <1>4, <1>5, <1>6, <1>7, <1>8, <1>9, <1>10 DEF ResolveNext

LEMMA ResolveInvariant == ResolveSpec => [](KeyDbInv /\ ResolveInv)
<1>1. ResolveInit => ResolveInv
  BY ResolveInitHolds DEF ResolveInv
<1>2. KeyDbInv /\ ResolveInv /\ [ResolveNext]_allVars => ResolveInv'
  BY ResolveInvStep DEF KeyDbInv
<1>. QED  BY <1>1, <1>2, ResolveLoads, KeyDbInvariant, PTL DEF ResolveSpec

(* Type invariant of the resolution: with Ok, and only then,                *)
(* resolve_unit_key (core lib.rs:63-75) has returned a key, which is 16     *)
(* bytes.                                                                   *)
THEOREM OkHasAKey == ResolveSpec => []ResolveTypeOK
<1>1. ResolveInv => ResolveTypeOK
  BY DEF ResolveInv
<1>. QED  BY <1>1, ResolveInvariant, PTL

(* read_vid_cache (external_vid.rs:89-104): a Volume ID from the cache is   *)
(* the disc's, at whatever moment the cache and the unit key file were      *)
(* read.                                                                    *)
THEOREM CacheGivesWholeVid == ResolveSpec => []CachedVidIsWhole
<1>1. ResolveInv => CachedVidIsWhole
  BY DEF ResolveInv
<1>. QED  BY <1>1, ResolveInvariant, PTL

-----------------------------------------------------------------------------
(* UnitKeys: the causes of a wrong key.                                     *)

(* The file's key of the unit asked for, taken out with the disc's own      *)
(* volume unique key.                                                       *)
LEMMA OwnKeyUnwraps ==
  ASSUME ResolveTypeOK, FileRead, cps_index < Len(Disc[ukf.disc].unit_keys),
         encrypted_unit_key(ukf, cps_index) # None
  PROVE  unwrap_unit_key(Disc[ukf.disc].volume_unique_key,
                         encrypted_unit_key(ukf, cps_index))
           = Disc[ukf.disc].unit_keys[cps_index + 1]
<1>1. encrypted_unit_key(ukf, cps_index) = [disc |-> ukf.disc, unit |-> cps_index + 1]
  BY DEF encrypted_unit_key
<1>2. Disc[ukf.disc].unit_keys \in Seq(Block)
  BY UnitKeysAssumption DEF FileRead
<1>3. cps_index + 1 \in DOMAIN Disc[ukf.disc].unit_keys
  BY <1>2 DEF ResolveTypeOK
<1>. QED  BY <1>1, <1>3 DEF unwrap_unit_key

(* Of the media key and the Volume ID of a disc comes its own volume unique *)
(* key, for there is one disc to a Volume ID.                               *)
LEMMA OwnVidGivesOwnKvu ==
  ASSUME NEW d \in DOMAIN Disc
  PROVE  volume_unique_key(Disc[d].media_key, Disc[d].volume_id)
           = Disc[d].volume_unique_key
<1>. DEFINE both == {e \in DOMAIN Disc : /\ Disc[e].media_key = Disc[d].media_key
                                         /\ Disc[e].volume_id = Disc[d].volume_id}
<1>1. both = {d}
  BY UnitKeysAssumption
<1>2. None \notin {Disc[d].media_key, Disc[d].volume_id}
  BY KeyDbAssumption, UnitKeysAssumption
<1>3. (CHOOSE e \in both : TRUE) = d
  BY <1>1
<1>. HIDE DEF both
<1>4. volume_unique_key(Disc[d].media_key, Disc[d].volume_id)
        = Disc[CHOOSE e \in both : TRUE].volume_unique_key
  BY <1>1, <1>2, Zenon DEF volume_unique_key, both
<1>. QED  BY <1>3, <1>4

(* What is listed of the disc read is what its last line says.              *)
LEMMA ListedFromLast ==
  ASSUME TypeOK, DiscsFromLines, FileRead, Listed # NoKeys
  PROVE  /\ Taken(Disc[ukf.disc].id) # {}
         /\ LoadedFrom(Listed, text[Max(Taken(Disc[ukf.disc].id))])
<1>1. Disc[ukf.disc].id \in DiscId
  BY UnitKeysAssumption DEF FileRead
<1>. QED  BY <1>1, ListedIs, Zenon DEF DiscsFromLines

LEMMA KeydbKeyHasACause ==
  ASSUME TypeOK, DiscsFromLines, ResolveTypeOK, FileRead,
         keydb_unit_key # None,
         Truthful(text[Max(Taken(Disc[ukf.disc].id))], ukf.disc),
         ~HasGap(text[Max(Taken(Disc[ukf.disc].id))])
  PROVE  keydb_unit_key = Disc[ukf.disc].unit_keys[cps_index + 1]
<1>. DEFINE last == text[Max(Taken(Disc[ukf.disc].id))]
<1>1. Listed # NoKeys
  <2>1. ASSUME Listed = NoKeys PROVE FALSE
    <3>1. Len(Listed.unit_keys) = 0
      BY <2>1 DEF NoKeys
    <3>. QED  BY <3>1 DEF keydb_unit_key, ResolveTypeOK
  <2>. QED  BY <2>1
<1>2. Ranked(Listed.unit_keys, UnitPlaces(last), last)
  BY <1>1, ListedFromLast DEF LoadedFrom
<1>3. Listed.unit_keys \in Seq(Block)
  BY ListedType DEF DiscKeys
<1>4. cps_index + 1 \in 1..Len(Listed.unit_keys)
  BY <1>3 DEF keydb_unit_key, ResolveTypeOK
<1>. HIDE DEF last
<1>5. PICK p \in UnitPlaces(last) : UpTo(last, p) = cps_index + 1
  BY <1>2, <1>4 DEF Ranked
<1>6. Listed.unit_keys[cps_index + 1] = WordAt(last, p)
  BY <1>2, <1>5, Zenon DEF Ranked
<1>7. WordNo(last, p) = cps_index + 1
  BY <1>5, Zenon DEF HasGap, last
<1>8. WordAt(last, p) = Disc[ukf.disc].unit_keys[WordNo(last, p)]
  BY <1>5, Zenon DEF Truthful, last
<1>9. keydb_unit_key = Listed.unit_keys[cps_index + 1]
  BY Zenon DEF keydb_unit_key
<1>. QED  BY <1>6, <1>7, <1>8, <1>9, Zenon

LEMMA KvuHasACause ==
  ASSUME TypeOK, DiscsFromLines, ResolveInv, FileRead, Kvu # None,
         Listed # NoKeys => Truthful(text[Max(Taken(Disc[ukf.disc].id))], ukf.disc),
         km \in {None, Disc[ukf.disc].media_key},
         oracle = "discatt" => vid = Disc[ukf.disc].volume_id
  PROVE  Kvu = Disc[ukf.disc].volume_unique_key
<1>. DEFINE d == ukf.disc
            last == text[Max(Taken(Disc[d].id))]
<1>1. ASSUME Listed # NoKeys
      PROVE  /\ Listed.volume_id \in {None, Disc[d].volume_id}
             /\ Listed.volume_unique_key \in {None, Disc[d].volume_unique_key}
  <2>1. LoadedFrom(Listed, last) /\ Truthful(last, d)
    BY <1>1, ListedFromLast
  <2>. HIDE DEF last
  <2>. QED  BY <2>1, Zenon DEF LoadedFrom, Truthful
<1>2. ASSUME Listed = NoKeys
      PROVE  Listed.volume_id = None /\ Listed.volume_unique_key = None
  BY <1>2 DEF NoKeys
<1>3. CASE Listed.volume_unique_key # None
  BY <1>1, <1>2, <1>3 DEF Kvu
<1>4. CASE Listed.volume_unique_key = None
  <2>1. Kvu = volume_unique_key(km, vid)
    BY <1>4 DEF Kvu
  <2>2. km # None /\ vid # None
    BY <2>1, Zenon DEF volume_unique_key
  <2>3. vid = Disc[d].volume_id
    <3>1. oracle \in {"keydb", "cache", "discatt"}
      BY <2>2 DEF ResolveInv, ResolveTypeOK, Known
    <3>2. CASE oracle = "keydb"
      BY <1>1, <1>2, <2>2, <3>2 DEF ResolveInv, Known
    <3>3. CASE oracle = "cache"
      BY <2>2, <3>3 DEF ResolveInv, CachedVidIsWhole
    <3>. QED  BY <3>1, <3>2, <3>3
  <2>. QED  BY <2>1, <2>2, <2>3, OwnVidGivesOwnKvu DEF FileRead
<1>. QED  BY <1>3, <1>4

(* A step that ends with a key ends with the right one or has a cause.      *)
LEMMA CauseOfStep ==
  ASSUME TypeOK, DiscsFromLines, ResolveInv, resolve_unit_key
  PROVE  WrongKeyHasACause'
<1>. DEFINE d == ukf.disc
            last == text[Max(Taken(Disc[d].id))]
<1>1. /\ at = "resolve" /\ text' = text /\ n' = n /\ ukf' = ukf
      /\ cps_index' = cps_index /\ km' = km /\ vid' = vid /\ oracle' = oracle
  BY DEF resolve_unit_key, vars
<1>2. FileRead /\ ResolveTypeOK
  BY <1>1 DEF ResolveInv, ResolveTypeOK, FileRead
<1>3. SUFFICES ASSUME outcome' = "Ok", cps_index < Len(Disc[d].unit_keys),
                      Taken(Disc[d].id) # {} => Truthful(last, d) /\ ~HasGap(last),
                      km \in {None, Disc[d].media_key},
                      oracle = "discatt" => vid = Disc[d].volume_id
               PROVE  key' = Disc[d].unit_keys[cps_index + 1]
  <2>1. Taken(Disc[d].id)' = Taken(Disc[d].id)
    BY <1>1 DEF Taken
  <2>. QED  BY <1>1, <2>1, Zenon DEF WrongKeyHasACause
<1>4. Listed # NoKeys => Truthful(last, d) /\ ~HasGap(last)
  BY <1>2, <1>3, ListedFromLast
<1>5. CASE ResolveKeydb
  <2>1. keydb_unit_key # None /\ key' = keydb_unit_key
    BY <1>5 DEF ResolveKeydb
  <2>2. Listed # NoKeys
    <3>1. ASSUME Listed = NoKeys PROVE FALSE
      <4>1. Len(Listed.unit_keys) = 0
        BY <3>1 DEF NoKeys
      <4>. QED  BY <1>2, <2>1, <4>1 DEF keydb_unit_key, ResolveTypeOK
    <3>. QED  BY <3>1
  <2>. QED  BY <1>2, <1>4, <2>1, <2>2, KeydbKeyHasACause
<1>6. CASE ResolveKvu
  <2>1. Kvu # None
    BY <1>6 DEF ResolveKvu
  <2>2. /\ encrypted_unit_key(ukf, cps_index) # None
        /\ key' = unwrap_unit_key(Kvu, encrypted_unit_key(ukf, cps_index))
    BY <1>3, <1>6 DEF ResolveKvu, End
  <2>3. Kvu = Disc[d].volume_unique_key
    BY <1>2, <1>3, <1>4, <2>1, KvuHasACause
  <2>. QED  BY <1>2, <1>3, <2>2, <2>3, OwnKeyUnwraps, Zenon
<1>7. CASE ResolveNothing
  BY <1>3, <1>7 DEF ResolveNothing, End
<1>. QED  BY <1>5, <1>6, <1>7 DEF resolve_unit_key

LEMMA CauseStep ==
  ASSUME TypeOK, DiscsFromLines, ResolveInv, WrongKeyHasACause,
         [ResolveNext]_allVars
  PROVE  WrongKeyHasACause'
<1>1. CASE resolve_unit_key
  BY <1>1, CauseOfStep
<1>2. CASE at \notin {"done", "resolve"} /\ ~Load /\ ~UNCHANGED allVars
  <2>1. outcome = None
    BY <1>2 DEF ResolveInv, Known
  <2>2. outcome' # "Ok"
    BY <1>2, <2>1, UnitKeysAssumption, VidCacheOutcomeIs
       DEF ResolveNext, Open, UnitKeyFile, MediaKey, VidCache, Discatt, KeydbVid,
           resolve_unit_key, ReadFails, End
  <2>. QED  BY <2>2 DEF WrongKeyHasACause
<1>3. CASE Load \/ UNCHANGED allVars
  <2>1. UNCHANGED callVars
    BY <1>3 DEF Load, allVars
  <2>2. CASE at = "open"
    <3>1. outcome' # "Ok"
      BY <2>1, <2>2, UnitKeysAssumption DEF callVars, ResolveInv, Known
    <3>. QED  BY <3>1 DEF WrongKeyHasACause
  <2>3. CASE at # "open"
    <3>1. UNCHANGED vars
      BY <1>3, <2>3, LoadIsOver DEF ResolveInv, Known, Load, allVars
    <3>2. \A d : Taken(d)' = Taken(d)
      BY <3>1 DEF vars, Taken
    <3>3. /\ outcome' = outcome /\ cps_index' = cps_index /\ ukf' = ukf
          /\ key' = key /\ text' = text /\ km' = km /\ oracle' = oracle /\ vid' = vid
      BY <2>1, <3>1 DEF callVars, vars
    <3>. QED  BY <3>2, <3>3, Zenon DEF WrongKeyHasACause
  <2>. QED  BY <2>2, <2>3
<1>4. CASE at \in {"done", "resolve"} /\ ~resolve_unit_key /\ ~Load
            /\ ~UNCHANGED allVars
  BY <1>4 DEF ResolveNext, Open, UnitKeyFile, MediaKey, VidCache, Discatt, KeydbVid
<1>. QED  BY <1>1, <1>2, <1>3, <1>4

(* "Resolve the CPS Unit Key for cps_index" (core lib.rs:52): a key that is *)
(* not that of the unit asked for has one of the four causes of the         *)
(* property, for any discs and any key database.                            *)
THEOREM WrongKeysHaveCauses == ResolveSpec => []WrongKeyHasACause
<1>1. ResolveInit => WrongKeyHasACause
  BY UnitKeysAssumption DEF ResolveInit, WrongKeyHasACause
<1>2. KeyDbInv /\ ResolveInv /\ WrongKeyHasACause /\ [ResolveNext]_allVars
        => WrongKeyHasACause'
  BY CauseStep DEF KeyDbInv
<1>. QED  BY <1>1, <1>2, ResolveInvariant, PTL DEF ResolveSpec
=============================================================================

------------------------------- MODULE KeyDb -------------------------------
(***************************************************************************)
(* Loading a KEYDB.cfg (freeblue-keys): KeyDb::parse goes through the file *)
(* line by line, parse_disc_entry through the fields of an entry pair by   *)
(* pair, parse_global_record takes a PK, DK or HC line.                    *)
(*                                                                         *)
(* A line is a record, [shape |-> ...] with what follows:                  *)
(*   "other"  blank lines, comments and anything unrecognized              *)
(*   "disc"   has_eq, id, and segs: what stands between bars, the title    *)
(*            first; a segment is a tag for who looks for a tag and a      *)
(*            sequence of words for who looks for values, its note and a   *)
(*            unit's number taken off                                      *)
(*   "PK"     key                                                          *)
(*   "DK", "HC"  fields: names, each with a word                           *)
(* A word is known by the bytes it stands for, if it is hexadecimal.       *)
(*                                                                         *)
(* One action is one line, or one pair of an entry, or one word of a pair  *)
(* that has unit keys.                                                     *)
(***************************************************************************)
EXTENDS Integers, Sequences, FiniteSetsExt

CONSTANTS
  Word,           \* the words a file may hold
  Bytes,          \* those that are hexadecimal
  Block,          \* those that are 16 bytes
  DiscId,         \* those that are 20 bytes
  None,           \* no value
  Texts           \* the files: sequences of lines

Shapes == {"other", "disc", "PK", "DK", "HC"}
Tags == {"M", "I", "V", "U", "D"}   \* "D" stands for any other text
Names == {"DEVICE_KEY", "DEVICE_NODE", "KEY_UV", "KEY_U_MASK_SHIFT",
          "HOST_PRIV_KEY", "HOST_CERT"}

Lines ==
  [shape : {"other"}]
  \cup [shape : {"disc"}, has_eq : BOOLEAN, id : Word,
        segs : Seq([tag : Tags, words : Seq(Word)])]
  \cup [shape : {"PK"}, key : Word]
  \cup [shape : {"DK", "HC"}, fields : Seq([name : Names, word : Word])]

ASSUME KeyDbAssumption ==
  /\ Block \subseteq Bytes
  /\ DiscId \subseteq Bytes
  /\ Bytes \subseteq Word
  /\ None \notin Word
  /\ Texts \subseteq Seq(Lines)

VARIABLES
  text,        \* the file
  n,           \* the line at hand
  i,           \* the segment at hand, in an entry
  uk,          \* the word at hand, in a pair with unit keys
  dk,          \* the entry under construction
  db,          \* the key database under construction
  pc

vars == <<text, n, i, uk, dk, db, pc>>

hex_vec(w) == IF w \in Bytes THEN w ELSE None
hex_block(w) == IF w \in Block THEN w ELSE None

NoKeys == [media_key |-> None, volume_id |-> None, volume_unique_key |-> None,
           unit_keys |-> << >>]

Init ==
  /\ text \in Texts
  /\ n = 1
  /\ i = 1
  /\ uk = 1
  /\ dk = NoKeys
  /\ db = [discs |-> << >>, processing_keys |-> << >>, device_keys |-> << >>,
           host_priv_key |-> None, host_cert |-> None]
  /\ pc = "line"

Line == text[n]

At(shape) == /\ pc = "line"
             /\ n <= Len(text)
             /\ Line.shape = shape

NextLine == n' = n + 1 /\ UNCHANGED <<text, i, uk, dk>>

SkipLine ==
  /\ At("other")
  /\ NextLine
  /\ UNCHANGED <<db, pc>>

ParseDone ==
  /\ pc = "line"
  /\ n > Len(text)
  /\ pc' = "Ok"
  /\ UNCHANGED <<text, n, i, uk, dk, db>>

-----------------------------------------------------------------------------
(* Disc entries.                                                           *)

(* An entry with an id that is no id makes the whole load fail.             *)
EntryFails ==
  /\ At("disc")
  /\ \/ /\ ~Line.has_eq
        /\ pc' = "Parse"
     \/ /\ Line.has_eq
        /\ Line.id \notin Bytes
        /\ pc' = "Hex"
     \/ /\ Line.has_eq
        /\ Line.id \in Bytes \ DiscId
        /\ pc' = "Parse"
  /\ UNCHANGED <<text, n, i, uk, dk, db>>

(* Mutated form of EntryStart: the last entry's keys are still there.       *)
EntryStartCarriesOver ==
  /\ At("disc")
  /\ Line.has_eq
  /\ Line.id \in DiscId
  /\ pc' = "entry"
  /\ i' = 2
  /\ UNCHANGED <<text, n, uk, dk, db>>

EntryStart ==
  /\ At("disc")
  /\ Line.has_eq
  /\ Line.id \in DiscId
  /\ pc' = "entry"
  /\ i' = 2
  /\ dk' = NoKeys
  /\ UNCHANGED <<text, n, uk, db>>

HasPair == i + 1 <= Len(Line.segs)
Tag == Line.segs[i].tag
Words == Line.segs[i + 1].words

(* The value of the pair at hand as a block: it must be one word.           *)
BlockHere == IF Len(Words) = 1 THEN hex_block(Words[1]) ELSE None

Or(value, previous) == IF value # None THEN value ELSE previous

EntryKey ==
  /\ pc = "entry"
  /\ HasPair
  /\ \/ /\ Tag = "M"
        /\ dk' = [dk EXCEPT !.media_key = Or(BlockHere, @)]
     \/ /\ Tag = "I"
        /\ dk' = [dk EXCEPT !.volume_id = Or(BlockHere, @)]
     \/ /\ Tag = "V"
        /\ dk' = [dk EXCEPT !.volume_unique_key = Or(BlockHere, @)]
  /\ i' = i + 2
  /\ UNCHANGED <<text, n, uk, db, pc>>

(* Mutated form of EntryUnitKey: words are taken as they come.              *)
EntryUnitKeyAsItComes ==
  /\ pc = "entry"
  /\ HasPair
  /\ Tag = "U"
  /\ uk <= Len(Words)
  /\ dk' = [dk EXCEPT !.unit_keys = Append(@, Words[uk])]
  /\ uk' = uk + 1
  /\ UNCHANGED <<text, n, i, db, pc>>

(* A unit key that is no block is left out, and those after it move up.     *)
EntryUnitKey ==
  /\ pc = "entry"
  /\ HasPair
  /\ Tag = "U"
  /\ uk <= Len(Words)
  /\ \/ /\ Words[uk] \in Block
        /\ dk' = [dk EXCEPT !.unit_keys = Append(@, Words[uk])]
     \/ /\ Words[uk] \notin Block
        /\ UNCHANGED dk
  /\ uk' = uk + 1
  /\ UNCHANGED <<text, n, i, db, pc>>

EntryUnitKeysEnd ==
  /\ pc = "entry"
  /\ HasPair
  /\ Tag = "U"
  /\ uk > Len(Words)
  /\ i' = i + 2
  /\ uk' = 1
  /\ UNCHANGED <<text, n, dk, db, pc>>

(* Mutated form of EntryOther: an unknown tag does not move on.             *)
EntryOtherStays ==
  /\ pc = "entry"
  /\ HasPair
  /\ Tag = "D"
  /\ UNCHANGED vars

EntryOther ==
  /\ pc = "entry"
  /\ HasPair
  /\ Tag = "D"
  /\ i' = i + 2
  /\ UNCHANGED <<text, n, uk, dk, db, pc>>

(* HashMap::insert.                                                         *)
Insert(map, id, keys) ==
  [d \in DOMAIN map \cup {id} |-> IF d = id THEN keys ELSE map[d]]

(* A last segment without a value is not looked at; an earlier entry of the *)
(* same disc is replaced as a whole.                                        *)
EntryInsert ==
  /\ pc = "entry"
  /\ ~HasPair
  /\ db' = [db EXCEPT !.discs = Insert(@, Line.id, dk)]
  /\ NextLine
  /\ pc' = "line"

-----------------------------------------------------------------------------
(* Global records.                                                         *)

GlobalPk ==
  /\ At("PK")
  /\ \/ /\ Line.key \in Block
        /\ db' = [db EXCEPT !.processing_keys = Append(@, Line.key)]
     \/ /\ Line.key \notin Block
        /\ UNCHANGED db
  /\ NextLine
  /\ UNCHANGED pc

Named(line, name) == {j \in DOMAIN line.fields : line.fields[j].name = name}

(* What the last field of the name assigns: its word if that is valid, else *)
(* None; what was there if there is no such field.                          *)
Assigned(line, name, valid, previous) ==
  LET word == line.fields[Max(Named(line, name))].word
  IN  CASE Named(line, name) = {} -> previous
        [] Named(line, name) # {} /\ word \in valid -> word
        [] OTHER -> None

(* In a device key None is the empty value that is the default.             *)
GlobalDk ==
  /\ At("DK")
  /\ LET k == Assigned(Line, "DEVICE_KEY", Block, None)
         Part(name) == Assigned(Line, name, Bytes, None)
     IN  \/ /\ k # None
            /\ db' = [db EXCEPT !.device_keys = Append(@,
                       [device_key |-> k, device_node |-> Part("DEVICE_NODE"),
                        key_uv |-> Part("KEY_UV"),
                        key_u_mask_shift |-> Part("KEY_U_MASK_SHIFT")])]
         \/ /\ k = None
            /\ UNCHANGED db
  /\ NextLine
  /\ UNCHANGED pc

(* Mutated form of GlobalHc: a certificate that is there is not replaced.   *)
GlobalHcOldCert ==
  /\ At("HC")
  /\ db' = [db EXCEPT
       !.host_priv_key = Assigned(Line, "HOST_PRIV_KEY", Bytes, @),
       !.host_cert = Or(@, Assigned(Line, "HOST_CERT", Bytes, @))]
  /\ NextLine
  /\ UNCHANGED pc

(* Key and certificate are assigned each by itself, and a word that is not  *)
(* hexadecimal erases what an earlier line gave.                            *)
GlobalHc ==
  /\ At("HC")
  /\ db' = [db EXCEPT
       !.host_priv_key = Assigned(Line, "HOST_PRIV_KEY", Bytes, @),
       !.host_cert = Assigned(Line, "HOST_CERT", Bytes, @)]
  /\ NextLine
  /\ UNCHANGED pc

Next ==
  \/ SkipLine
  \/ ParseDone
  \/ EntryFails
  \/ EntryStart
  \/ EntryKey
  \/ EntryUnitKey
  \/ EntryUnitKeysEnd
  \/ EntryOther
  \/ EntryInsert
  \/ GlobalPk
  \/ GlobalDk
  \/ GlobalHc

Spec == Init /\ [][Next]_vars

(* parse is a loop that runs until it returns.                              *)
FairSpec == Spec /\ WF_vars(Next)

-----------------------------------------------------------------------------
(* Correctness.                                                            *)

Returned == {"Ok", "Parse", "Hex"}

DiscKeys ==
  [media_key : Block \cup {None}, volume_id : Block \cup {None},
   volume_unique_key : Block \cup {None}, unit_keys : Seq(Block)]

DeviceKeys ==
  [device_key : Block, device_node : Bytes \cup {None},
   key_uv : Bytes \cup {None}, key_u_mask_shift : Bytes \cup {None}]

(* Type invariant of KeyDb: whatever the file, what is kept as a key is 16  *)
(* bytes, and what is kept as a disc id is 20.                              *)
TypeOK ==
  /\ text \in Texts
  /\ n \in 1..(Len(text) + 1)
  /\ {i, uk} \subseteq Nat \ {0}
  /\ dk \in DiscKeys
  /\ DOMAIN db.discs \subseteq DiscId
  /\ \A d \in DOMAIN db.discs : db.discs[d] \in DiscKeys
  /\ db.processing_keys \in Seq(Block)
  /\ db.device_keys \in Seq(DeviceKeys)
  /\ {db.host_priv_key, db.host_cert} \subseteq Bytes \cup {None}
  /\ pc \in Returned \cup {"line", "entry"}
  /\ pc = "entry" => n <= Len(text) /\ Line.shape = "disc" /\ Line.id \in DiscId

(* The segments of an entry that are values of a tag: every second one,     *)
(* from the third on.                                                       *)
ValuesOf(line, tag) ==
  {j \in DOMAIN line.segs : j % 2 = 1 /\ j > 1 /\ line.segs[j - 1].tag = tag}

(* What an entry says: of the values of a tag that are a block, the last.   *)
Values(line, tag) ==
  {j \in ValuesOf(line, tag) : /\ Len(line.segs[j].words) = 1
                               /\ line.segs[j].words[1] \in Block}

Said(line, tag) ==
  IF Values(line, tag) = {} THEN None
  ELSE line.segs[Max(Values(line, tag))].words[1]

(* A place is a segment and a word of it.                                   *)
WordAt(line, p) == line.segs[p[1]].words[p[2]]
NotAfter(p, q) == p[1] < q[1] \/ (p[1] = q[1] /\ p[2] <= q[2])

(* The places of an entry's "U" fields, and the number of those up to one.  *)
UnitWords(line) ==
  UNION {{j} \X DOMAIN line.segs[j].words : j \in ValuesOf(line, "U")}

WordNo(line, p) == Cardinality({q \in UnitWords(line) : NotAfter(q, p)})

(* Every value of an entry's recognized fields is a block.                  *)
WellFormed(line) ==
  /\ \A tag \in {"M", "I", "V"} : Values(line, tag) = ValuesOf(line, tag)
  /\ \A p \in UnitWords(line) : WordAt(line, p) \in Block

(* The lines of disc d that have been taken.                                *)
Taken(d) == {m \in 1..(n - 1) : text[m].shape = "disc" /\ text[m].id = d}

(* "Per-disc entry" (lib.rs:7-9), "per-CPS-unit keys, in unit order"        *)
(* (lib.rs:34): a disc is listed exactly when a line of it has been taken.  *)
(* If its last line has a block for every value of a recognized field, its  *)
(* media key, Volume ID and volume unique key are those of this line, and   *)
(* its unit keys are all of the line's in their order; whatever earlier     *)
(* lines said, and nothing of another disc's.  Of lines with other values   *)
(* MalformedHexIsAnError speaks.                                            *)
DiscsLoaded ==
  \A d \in DiscId :
    /\ d \in DOMAIN db.discs <=> Taken(d) # {}
    /\ LET line == text[Max(Taken(d))]
           keys == db.discs[d]
       IN  Taken(d) # {} /\ WellFormed(line) =>
             /\ keys.media_key = Said(line, "M")
             /\ keys.volume_id = Said(line, "I")
             /\ keys.volume_unique_key = Said(line, "V")
             /\ Len(keys.unit_keys) = Cardinality(UnitWords(line))
             /\ \A p \in UnitWords(line) :
                  keys.unit_keys[WordNo(line, p)] = WordAt(line, p)

(* A recognized field of the line has a value that is not hexadecimal.      *)
MalformedHex(line) ==
  CASE line.shape = "disc" ->
         \/ line.id \notin Bytes
         \/ \E tag \in {"M", "I", "V", "U"} : \E j \in ValuesOf(line, tag) :
              \/ \E k \in DOMAIN line.segs[j].words :
                   line.segs[j].words[k] \notin Bytes
              \/ tag # "U" /\ Len(line.segs[j].words) > 1
    [] line.shape = "PK" -> line.key \notin Bytes
    [] line.shape \in {"DK", "HC"} ->
         \E j \in DOMAIN line.fields : line.fields[j].word \notin Bytes
    [] OTHER -> FALSE

(* "only malformed hex in a recognized field is an error" (lib.rs:113-114): *)
(* a key database with any is not loaded (lib.rs:152-164, 183, 197, 219).   *)
MalformedHexIsAnError ==
  pc = "Ok" => \A m \in 1..Len(text) : ~MalformedHex(text[m])

(* "| HC | HOST_PRIV_KEY .. | HOST_CERT .." (lib.rs:14): a record with      *)
(* both, in hexadecimal.                                                    *)
HostRecord(line) ==
  /\ \A name \in {"HOST_PRIV_KEY", "HOST_CERT"} : Named(line, name) # {}
  /\ \A j \in DOMAIN line.fields : line.fields[j].word \in Bytes

HostLines == {m \in 1..(n - 1) : text[m].shape = "HC"}

(* A host certificate is of use with its own private key only.  If the HC   *)
(* lines are of the documented form, the two that are kept (lib.rs:219-220) *)
(* are of one record, however many the file has; with no such line there is *)
(* none.                                                                    *)
HostPairIsOneRecords ==
  (\A m \in HostLines : HostRecord(text[m])) =>
    \/ HostLines = {} /\ db.host_priv_key = None /\ db.host_cert = None
    \/ \E m \in HostLines :
         \E j \in Named(text[m], "HOST_PRIV_KEY"), k \in Named(text[m], "HOST_CERT") :
           /\ db.host_priv_key = text[m].fields[j].word
           /\ db.host_cert = text[m].fields[k].word

(* parse returns on every file.                                             *)
Terminates == <>(pc \in Returned)
=============================================================================

------------------------------ MODULE UnitKeys ------------------------------
(***************************************************************************)
(* The key of a CPS unit, from a loaded key database (KeyDb) or by way of  *)
(* the disc: Disc (freeblue-disc), disc_id, read_vid_cache, parse_discatt  *)
(* (freeblue-keys) and resolve_unit_key (freeblue-core).                   *)
(*                                                                         *)
(* The caller is external: it takes the steps of the pipeline of           *)
(* freeblue-core/lib.rs:9-18 in order, what the key database has first,    *)
(* then what the disc has (external_vid.rs:3-8).  Each step is one action. *)
(*                                                                         *)
(* Disc holds a path and no open file, so each read sees what is under the *)
(* path by then: another disc, or a dump that is still being written.  The *)
(* same goes for the cache that libaacs writes.  A read thus chooses what  *)
(* it finds.                                                               *)
(*                                                                         *)
(* Ciphers are symbolic: what is not a key of a disc is Junk.              *)
(***************************************************************************)
EXTENDS KeyDb

CONSTANTS
  Disc,           \* the discs, by name: id, media_key, volume_id,
                  \* volume_unique_key, and unit_keys in unit order
  Junk,           \* 16 bytes that are the key of nothing
  MaxIndex,       \* bound on the indices asked for
  VidDigits,      \* hexadecimal digits of a Volume ID: 32
  TrailerParts,   \* parts of a discatt.dat from the Volume ID on, one a part
  BlobParts       \* parts of a whole discatt.dat

ASSUME UnitKeysAssumption ==
  /\ \A d \in DOMAIN Disc :
       /\ Disc[d].id \in DiscId
       /\ {Disc[d].media_key, Disc[d].volume_id, Disc[d].volume_unique_key}
            \subseteq Block
       /\ Disc[d].unit_keys \in Seq(Block)
       /\ \A e \in DOMAIN Disc \ {d} :
            /\ Disc[e].id # Disc[d].id
            /\ Disc[e].volume_id # Disc[d].volume_id
            /\ Disc[e].volume_unique_key # Disc[d].volume_unique_key
  /\ Junk \notin Block \cup {None}
  /\ None \notin {"Ok", "keydb", "cache", "discatt"}
  /\ MaxIndex \in Nat
  /\ VidDigits \in Nat
  /\ TrailerParts \in Nat \ {0}
  /\ BlobParts \in Nat
  /\ TrailerParts <= BlobParts

VARIABLES
  at,          \* the step of the caller that comes next
  source,      \* DiscSource: "folder" or "image"
  cps_index,   \* the CPS unit asked for
  ukf,         \* Unit_Key_RO.inf as read: its disc, and how much of its keys
  km,          \* the media key
  vid,         \* the Volume ID
  oracle,      \* where the Volume ID is from
  outcome,     \* Ok or the error the caller ends with
  key          \* the key resolved

callVars == <<at, source, cps_index, ukf, km, vid, oracle, outcome, key>>
allVars == <<vars, callVars>>

ResolveInit ==
  /\ Init
  /\ at = "open"
  /\ source = None
  /\ cps_index = 0
  /\ ukf = None
  /\ km = None
  /\ vid = None
  /\ oracle = None
  /\ outcome = None
  /\ key = None

End(how) ==
  /\ outcome' = how
  /\ at' = "done"

-----------------------------------------------------------------------------
(* Disc.                                                                   *)

Open ==
  /\ pc = "Ok"
  /\ at = "open"
  /\ \/ /\ source' \in {"folder", "image"}
        /\ at' = "ukf"
        /\ UNCHANGED outcome
     \/ /\ source' = "folder"         \* no AACS directory in it
        /\ End("Missing")
  /\ UNCHANGED <<vars, cps_index, ukf, km, vid, oracle, key>>

(* read_aacs: what it may fail with.                                        *)
ReadFails ==
  \/ source = "image" /\ End("ImageReadUnsupported")
  \/ source = "folder" /\ End("Missing")
  \/ source = "folder" /\ End("Io")

(* A key is two halves here, and there is something after the last one.     *)
Whole(d) == 2 * Len(Disc[d].unit_keys) + 2

UnitKeyFile ==
  /\ at = "ukf"
  /\ \/ /\ source = "folder"
        /\ cps_index' \in 0..MaxIndex
        /\ \E d \in DOMAIN Disc : \E len \in 0..Whole(d) :
             ukf' = [disc |-> d, len |-> len]
        /\ at' = "km"
        /\ UNCHANGED outcome
     \/ /\ ReadFails
        /\ UNCHANGED <<cps_index, ukf>>
  /\ UNCHANGED <<vars, source, km, vid, oracle, key>>

(* Mutated form of encrypted_unit_key: the key after the one asked for.     *)
encrypted_unit_key_after(file, index) ==
  IF 2 * (index + 2) <= file.len THEN [disc |-> file.disc, unit |-> index + 2]
  ELSE None

(* The encrypted key at a place of the file, or None: Malformed.            *)
encrypted_unit_key(file, index) ==
  IF 2 * (index + 1) <= file.len THEN [disc |-> file.disc, unit |-> index + 1]
  ELSE None

-----------------------------------------------------------------------------
(* Look-up by disc id.                                                     *)

(* The SHA-1 of the file.  That of a part of it is nobody's: None.          *)
disc_id(file) ==
  IF file.len = Whole(file.disc) THEN Disc[file.disc].id ELSE None

(* KeyDb::disc, and no keys if the disc is not listed.                      *)
disc(id) == IF id \in DOMAIN db.discs THEN db.discs[id] ELSE NoKeys

Listed == disc(disc_id(ukf))

keydb_unit_key ==
  IF cps_index < Len(Listed.unit_keys) THEN Listed.unit_keys[cps_index + 1]
  ELSE None

-----------------------------------------------------------------------------
(* Media key and Volume ID, if the key database does not spare them.       *)

KeysSuffice == keydb_unit_key # None \/ Listed.volume_unique_key # None

(* mkb() and derive_media_key, which Mkb models: the media key of whatever  *)
(* disc is there by now, or none.                                           *)
MediaKey ==
  /\ at = "km"
  /\ \/ /\ KeysSuffice
        /\ at' = "resolve"
        /\ UNCHANGED <<km, outcome>>
     \/ /\ ~KeysSuffice
        /\ Listed.media_key # None
        /\ km' = Listed.media_key
        /\ at' = "vid"
        /\ UNCHANGED outcome
     \/ /\ ~KeysSuffice
        /\ Listed.media_key = None
        /\ km' \in {Disc[d].media_key : d \in DOMAIN Disc} \cup {None}
        /\ at' = "vid"
        /\ UNCHANGED outcome
     \/ /\ ~KeysSuffice
        /\ Listed.media_key = None
        /\ ReadFails
        /\ UNCHANGED km
  /\ UNCHANGED <<vars, source, cps_index, ukf, vid, oracle, key>>

(* The digits of the cache file as they are by now.                         *)
DecodedVid(digits) == IF digits = VidDigits THEN Disc[ukf.disc].volume_id ELSE Junk

(* Mutated form of VidCacheOutcome: any number of bytes will do.            *)
VidCacheOutcomeAnyLength(digits) ==
  IF digits % 2 = 1 THEN "Malformed" ELSE "Ok"

(* hex::decode takes an even number of digits.                              *)
VidCacheOutcome(digits) ==
  IF digits % 2 = 1 \/ digits # VidDigits THEN "Malformed" ELSE "Ok"

(* read_vid_cache.  A disc id that is nobody's has no file.                 *)
VidCache ==
  /\ at = "vid"
  /\ Listed.volume_id = None
  /\ \/ /\ UNCHANGED <<vid, outcome>>     \* no such file: Ok(None)
        /\ at' = "resolve"
     \/ /\ End("Io")
        /\ UNCHANGED vid
     \/ /\ disc_id(ukf) # None
        /\ \E digits \in 0..VidDigits :
             \/ /\ VidCacheOutcome(digits) = "Ok"
                /\ vid' = DecodedVid(digits)
                /\ at' = "resolve"
                /\ UNCHANGED outcome
             \/ /\ VidCacheOutcome(digits) # "Ok"
                /\ End(VidCacheOutcome(digits))
                /\ UNCHANGED vid
  /\ oracle' = "cache"
  /\ UNCHANGED <<vars, source, cps_index, ukf, km, key>>

(* parse_discatt, of a blob that may have lost its end or be another        *)
(* disc's: the part that stands where the Volume ID of a whole one does.    *)
Discatt ==
  /\ at = "vid"
  /\ Listed.volume_id = None
  /\ \E d \in DOMAIN Disc, len \in 0..BlobParts :
       \/ /\ len < TrailerParts
          /\ End("TooShort")
          /\ UNCHANGED vid
       \/ /\ len >= TrailerParts
          /\ vid' = IF len = BlobParts THEN Disc[d].volume_id ELSE Junk
          /\ at' = "resolve"
          /\ UNCHANGED outcome
  /\ oracle' = "discatt"
  /\ UNCHANGED <<vars, source, cps_index, ukf, km, key>>

KeydbVid ==
  /\ at = "vid"
  /\ Listed.volume_id # None
  /\ vid' = Listed.volume_id
  /\ oracle' = "keydb"
  /\ at' = "resolve"
  /\ UNCHANGED <<vars, source, cps_index, ukf, km, outcome, key>>

-----------------------------------------------------------------------------
(* resolve_unit_key.                                                       *)

(* AES-G: the volume unique key of the disc that has both.                  *)
volume_unique_key(media_key, volume_id) ==
  LET both == {d \in DOMAIN Disc : /\ Disc[d].media_key = media_key
                                   /\ Disc[d].volume_id = volume_id}
  IN  CASE None \in {media_key, volume_id} -> None
        [] None \notin {media_key, volume_id} /\ both = {} -> Junk
        [] OTHER -> Disc[CHOOSE d \in both : TRUE].volume_unique_key

(* AES-128D: only its own key takes a unit key's encryption off.            *)
unwrap_unit_key(kvu, encrypted) ==
  LET of == Disc[encrypted.disc]
  IN  IF kvu = of.volume_unique_key /\ encrypted.unit \in DOMAIN of.unit_keys
      THEN of.unit_keys[encrypted.unit] ELSE Junk

Kvu == IF Listed.volume_unique_key # None THEN Listed.volume_unique_key
       ELSE volume_unique_key(km, vid)

(* Mutated form of ResolveKvu: the missing key is not noticed.              *)
ResolveKvuUnchecked ==
  /\ keydb_unit_key = None
  /\ key' = IF encrypted_unit_key(ukf, cps_index) = None THEN None
            ELSE unwrap_unit_key(Kvu, encrypted_unit_key(ukf, cps_index))
  /\ End("Ok")

(* The unwrap path.                                                         *)
ResolveKvu ==
  /\ keydb_unit_key = None
  /\ Kvu # None
  /\ LET enc == encrypted_unit_key(ukf, cps_index)
     IN  \/ /\ enc = None
            /\ End("Malformed")
            /\ UNCHANGED key
         \/ /\ enc # None
            /\ key' = unwrap_unit_key(Kvu, enc)
            /\ End("Ok")

(* The keydb path.                                                          *)
ResolveKeydb ==
  /\ keydb_unit_key # None
  /\ key' = keydb_unit_key
  /\ End("Ok")

ResolveNothing ==
  /\ keydb_unit_key = None
  /\ Kvu = None
  /\ End("NoVolumeUniqueKey")
  /\ UNCHANGED key

resolve_unit_key ==
  /\ at = "resolve"
  /\ ResolveKeydb \/ ResolveKvu \/ ResolveNothing
  /\ UNCHANGED <<vars, source, cps_index, ukf, km, vid, oracle>>

Load == Next /\ UNCHANGED callVars

ResolveNext ==
  \/ Load
  \/ Open
  \/ UnitKeyFile
  \/ MediaKey
  \/ VidCache
  \/ Discatt
  \/ KeydbVid
  \/ resolve_unit_key

ResolveSpec == ResolveInit /\ [][ResolveNext]_allVars /\ WF_vars(Load)

-----------------------------------------------------------------------------
(* Correctness.                                                            *)

Errors == {"Missing", "Io", "ImageReadUnsupported", "Malformed", "TooShort",
           "NoVolumeUniqueKey"}

(* Type invariant of the resolution: with Ok, and only then, there is a key.*)
ResolveTypeOK ==
  /\ at \in {"open", "ukf", "km", "vid", "resolve", "done"}
  /\ source \in {None, "folder", "image"}
  /\ cps_index \in 0..MaxIndex
  /\ at \notin {"open", "ukf", "done"} =>
       ukf.disc \in DOMAIN Disc /\ ukf.len \in 0..Whole(ukf.disc)
  /\ km \in Block \cup {None}
  /\ vid \in Block \cup {Junk, None}
  /\ oracle \in {None, "keydb", "cache", "discatt"}
  /\ outcome \in Errors \cup {None, "Ok"}
  /\ (outcome = "Ok") <=> (key \in Block \cup {Junk})
  /\ (outcome # "Ok") <=> (key = None)

(* "the 16-byte VID as 32 lowercase hex chars" (external_vid.rs:87): a      *)
(* Volume ID that comes out of the cache is the disc's, however much of it  *)
(* libaacs had written when it was read, and however much of the unit key   *)
(* file the id was taken from.                                              *)
CachedVidIsWhole ==
  oracle = "cache" => vid \in {None, Disc[ukf.disc].volume_id}

(* The places of an entry that give a unit key, and the number of those up  *)
(* to one.                                                                  *)
UnitPlaces(line) == {p \in UnitWords(line) : WordAt(line, p) \in Block}

UpTo(line, p) == Cardinality({q \in UnitPlaces(line) : NotAfter(q, p)})

(* What an entry says of a disc is so.                                      *)
Truthful(line, d) ==
  /\ Said(line, "M") \in {None, Disc[d].media_key}
  /\ Said(line, "I") \in {None, Disc[d].volume_id}
  /\ Said(line, "V") \in {None, Disc[d].volume_unique_key}
  /\ \A p \in UnitPlaces(line) :
       /\ WordNo(line, p) \in DOMAIN Disc[d].unit_keys
       /\ WordAt(line, p) = Disc[d].unit_keys[WordNo(line, p)]

(* A word that is no key comes before one that is, which moves up.          *)
HasGap(line) ==
  \E p \in UnitPlaces(line) : WordNo(line, p) # UpTo(line, p)

(* "Resolve the CPS Unit Key for cps_index" (core lib.rs:52): a key that is *)
(* not that of the unit asked for, on the disc whose unit key file was      *)
(* read, has one of four causes.  The last entry of the disc is wrong, or   *)
(* has a gap; the MKB was read from another disc; the discatt.dat is        *)
(* another disc's or has lost its end.  So none of these is one: earlier    *)
(* entries, those of other discs, a dump or a cache that is still being     *)
(* written, and a change of discs when the key database has the keys.       *)
WrongKeyHasACause ==
  outcome = "Ok" /\ cps_index < Len(Disc[ukf.disc].unit_keys) =>
    LET d == ukf.disc
        Last == text[Max(Taken(Disc[d].id))]
    IN  \/ key = Disc[d].unit_keys[cps_index + 1]
        \/ /\ Taken(Disc[d].id) # {}
           /\ ~Truthful(Last, d) \/ HasGap(Last)
        \/ km \notin {None, Disc[d].media_key}
        \/ oracle = "discatt" /\ vid # Disc[d].volume_id
=============================================================================

---------------------------- MODULE AlignedUnit ----------------------------
(***************************************************************************)
(* Decryption of one Aligned Unit (freeblue-content): bus_decrypt_unit     *)
(* strips the drive's bus layer sector by sector, in place, then           *)
(* decrypt_aligned_unit removes the content layer.                         *)
(*                                                                         *)
(* The unit of measure is the 16-byte AES block, and a unit is a sequence  *)
(* of blocks.  AES and the exclusive or of two blocks are constants of     *)
(* which only what decryption needs is assumed: a block cipher is          *)
(* invertible, and so is the exclusive or.                                 *)
(*                                                                         *)
(* One action is one turn of a loop, or one of its tests.                  *)
(***************************************************************************)
EXTENDS Integers, Sequences

CONSTANTS
  Block,         \* 16-byte blocks, which are also the keys
  aes_128e,      \* key -> (block -> block)
  aes_128d,
  Xor,           \* block -> (block -> block)
  CONTENT_IV,
  SectorBlocks,  \* SECTOR_LEN / 16
  Cases          \* the units to decrypt, as they were made: see CasesMade

UnitBlocks == 3 * SectorBlocks          \* ALIGNED_UNIT_LEN / 16
Unit == [1..UnitBlocks -> Block]

(* Sector heads are not bus-encrypted.                                      *)
Heads == {1, SectorBlocks + 1, 2 * SectorBlocks + 1}

ASSUME CipherAssumption ==
  /\ aes_128e \in [Block -> [Block -> Block]]
  /\ aes_128d \in [Block -> [Block -> Block]]
  /\ Xor \in [Block -> [Block -> Block]]
  /\ CONTENT_IV \in Block
  /\ SectorBlocks \in Nat \ {0}
  /\ \A k, b \in Block : aes_128d[k][aes_128e[k][b]] = b
  /\ \A a, b \in Block : Xor[Xor[a][b]][b] = a

block_key(unit_key, seed) == Xor[aes_128e[unit_key][seed]][seed]

(* How a disc is made: `disc` is `plain` under the content layer ...        *)
ContentLayer(unit_key, plain, disc) ==
  /\ disc[1] = plain[1]
  /\ \A j \in 2..UnitBlocks :
       disc[j] = aes_128e[block_key(unit_key, plain[1])]
                   [Xor[plain[j]][IF j = 2 THEN CONTENT_IV ELSE disc[j - 1]]]

(* ... and how a drive sends it: `sent` is `disc` under the bus layer.      *)
BusLayer(read_data_key, disc, sent) ==
  \A j \in 1..UnitBlocks :
    sent[j] = IF j \in Heads THEN disc[j]
              ELSE aes_128e[read_data_key]
                     [Xor[disc[j]][IF j - 1 \in Heads THEN CONTENT_IV
                                                      ELSE sent[j - 1]]]

ASSUME CasesMade ==
  /\ Cases \subseteq [unit_key : Block, read_data_key : Block,
                      plain : Unit, disc : Unit, sent : Unit]
  /\ \A c \in Cases : /\ ContentLayer(c.unit_key, c.plain, c.disc)
                      /\ BusLayer(c.read_data_key, c.disc, c.sent)

VARIABLES
  made,     \* the case at hand
  unit,     \* the argument of the function that runs
  out,      \* its result so far
  prev,     \* the ciphertext block before this one, or the IV
  s, i,     \* sector and block at hand: the blocks before them are done
  bk,       \* the unit's block key
  pc

vars == <<made, unit, out, prev, s, i, bk, pc>>

(* The caller strips the bus layer of what a drive sent, and only of that;  *)
(* it may also present something that is not a whole unit.                  *)
Init ==
  /\ made \in Cases
  /\ \/ unit = made.sent /\ pc = "bus"
     \/ unit = made.disc /\ pc = "content"
     \/ unit = << >> /\ pc \in {"bus", "content"}
  /\ out = << >>
  /\ prev = CONTENT_IV
  /\ s = 0
  /\ i = 1
  /\ bk = CONTENT_IV

BadUnitLength ==
  /\ pc \in {"bus", "content"}
  /\ Len(unit) # UnitBlocks
  /\ pc' = "error"
  /\ UNCHANGED <<made, unit, out, prev, s, i, bk>>

-----------------------------------------------------------------------------
(* bus_decrypt_unit.                                                        *)

BusStart ==
  /\ pc = "bus"
  /\ Len(unit) = UnitBlocks
  /\ out' = unit                       \* unit.to_vec()
  /\ s' = 0
  /\ pc' = "bus_sector"
  /\ UNCHANGED <<made, unit, prev, i, bk>>

(* The head of the sector passes; its chain is fresh.                       *)
BusSector ==
  /\ pc = "bus_sector"
  /\ s < UnitBlocks
  /\ prev' = CONTENT_IV
  /\ i' = s + 2
  /\ pc' = "bus_block"
  /\ UNCHANGED <<made, unit, out, s, bk>>

(* Mutated form of BusBlock: the chain takes the block that was just        *)
(* decrypted in place.                                                      *)
BusBlockOverwritten ==
  /\ pc = "bus_block"
  /\ i <= s + SectorBlocks
  /\ out' = [out EXCEPT ![i] = Xor[aes_128d[made.read_data_key][out[i]]][prev]]
  /\ prev' = out'[i]
  /\ i' = i + 1
  /\ UNCHANGED <<made, unit, s, bk, pc>>

BusBlock ==
  /\ pc = "bus_block"
  /\ i <= s + SectorBlocks
  /\ out' = [out EXCEPT ![i] = Xor[aes_128d[made.read_data_key][out[i]]][prev]]
  /\ prev' = out[i]                    \* ct
  /\ i' = i + 1
  /\ UNCHANGED <<made, unit, s, bk, pc>>

BusSectorDone ==
  /\ pc = "bus_block"
  /\ i > s + SectorBlocks
  /\ s' = s + SectorBlocks
  /\ pc' = "bus_sector"
  /\ UNCHANGED <<made, unit, out, prev, i, bk>>

(* The caller passes the result on to decrypt_aligned_unit.                 *)
BusDone ==
  /\ pc = "bus_sector"
  /\ s >= UnitBlocks
  /\ unit' = out
  /\ pc' = "content"
  /\ UNCHANGED <<made, out, prev, s, i, bk>>

-----------------------------------------------------------------------------
(* decrypt_aligned_unit.                                                    *)

(* Mutated form of ContentStart: the seed is not copied through.            *)
ContentStartSeedless ==
  /\ pc = "content"
  /\ Len(unit) = UnitBlocks
  /\ bk' = block_key(made.unit_key, unit[1])
  /\ out' = << >>
  /\ prev' = CONTENT_IV
  /\ i' = 2
  /\ pc' = "content_block"
  /\ UNCHANGED <<made, unit, s>>

ContentStart ==
  /\ pc = "content"
  /\ Len(unit) = UnitBlocks
  /\ bk' = block_key(made.unit_key, unit[1])
  /\ out' = <<unit[1]>>                \* clear seed passes through
  /\ prev' = CONTENT_IV
  /\ i' = 2
  /\ pc' = "content_block"
  /\ UNCHANGED <<made, unit, s>>

(* Mutated form of ContentBlock: the chain takes the plaintext.             *)
ContentBlockPlain ==
  /\ pc = "content_block"
  /\ i <= UnitBlocks
  /\ prev' = Xor[aes_128d[bk][unit[i]]][prev]
  /\ out' = Append(out, prev')
  /\ i' = i + 1
  /\ UNCHANGED <<made, unit, s, bk, pc>>

ContentBlock ==
  /\ pc = "content_block"
  /\ i <= UnitBlocks
  /\ out' = Append(out, Xor[aes_128d[bk][unit[i]]][prev])
  /\ prev' = unit[i]                   \* ct
  /\ i' = i + 1
  /\ UNCHANGED <<made, unit, s, bk, pc>>

ContentDone ==
  /\ pc = "content_block"
  /\ i > UnitBlocks
  /\ pc' = "done"
  /\ UNCHANGED <<made, unit, out, prev, s, i, bk>>

Next ==
  \/ BadUnitLength
  \/ BusStart
  \/ BusSector
  \/ BusBlock
  \/ BusSectorDone
  \/ BusDone
  \/ ContentStart
  \/ ContentBlock
  \/ ContentDone

Spec == Init /\ [][Next]_vars

-----------------------------------------------------------------------------
(* Correctness.                                                            *)

(* Type invariant of AlignedUnit.  The loops stay inside the unit, so no    *)
(* slice is out of bounds, and the content loop's result grows with i.      *)
TypeOK ==
  /\ made \in Cases
  /\ unit \in Unit \cup {<< >>}
  /\ out \in Seq(Block)
  /\ prev \in Block
  /\ bk \in Block
  /\ s \in {0, SectorBlocks, 2 * SectorBlocks, UnitBlocks}
  /\ i \in 1..(UnitBlocks + 1)
  /\ pc \in {"bus", "bus_sector", "bus_block", "content", "content_block",
             "done", "error"}
  /\ pc \in {"bus_sector", "bus_block"} => Len(out) = UnitBlocks
  /\ pc = "content_block" => Len(out) = i - 1

(* In the middle of the in-place pass over what a drive sent, the blocks    *)
(* before the one at hand are the disc's and those from it on are still as  *)
(* sent: no block is decrypted twice, and none is used after it was         *)
(* overwritten (bus_decrypt_unit, lib.rs:94-111).                           *)
StrippedUpToHere ==
  pc = "bus_block" =>
    \A j \in 1..UnitBlocks :
      out[j] = IF j < i THEN made.disc[j] ELSE made.sent[j]

(* The two layers come off as they were put on: every unit that is          *)
(* decrypted, bus-encrypted or not, gives back its plaintext, block for     *)
(* block (spec 11 section 11.4.4 with spec 05 section 5.4).                 *)
Recovered == pc = "done" => out = made.plain
=============================================================================

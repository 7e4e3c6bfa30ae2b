---------------------------- MODULE DecryptDisc ----------------------------
(***************************************************************************)
(* `freeblue decrypt-disc`: write_clip over a LibreDriveReader over an     *)
(* optical drive.  The drive is opened and unlocked by the replay of a     *)
(* table of READ BUFFER commands, then a RawUnitIter reads the extent.     *)
(*                                                                         *)
(* The drive, which is external, is OpticalDrive.                          *)
(***************************************************************************)
EXTENDS Integers, Sequences, OpticalDrive

CONSTANTS
  U32, BatchUnits, Extents, MediumEnd, Drives,   \* see RawUnitIter
  Faults,        \* TRUE when a command may fail for no reason of ours
  Shared         \* values of "another program sends commands to the drive"

ASSUME DecryptDiscAssumption ==
  /\ U32 \in Nat \ {0}
  /\ BatchUnits \in Nat \ {0}
  /\ Extents \subseteq [start_lba : Nat, num_units : Nat]
  /\ MediumEnd \in Nat
  /\ MediumEnd + 3 * BatchUnits <= U32      \* 3: Reader!SECTORS_PER_UNIT
  /\ Drives \subseteq SUBSET Nat
  /\ Faults \in BOOLEAN
  /\ Shared \subseteq BOOLEAN

VARIABLES
  residuals, extent, next_lba, units_left, batch, batch_pos,      \* reader,
  returned, out,                                                  \* and drive
  phase, file, torn, pending, n, exit,                            \* write_clip
  opened,        \* the device is open
  cmd,           \* commands of the unlock table answered in this run
  libredrive,    \* unlock()'s flag: the handshake carried the signature
  batch_bus,     \* the sectors of the batch are bus-encrypted
  shared         \* another program sends commands to the drive

Reader == INSTANCE RawUnitIter
Writer == INSTANCE WriteClip

readerVars == <<residuals, extent, next_lba, units_left, batch, batch_pos,
                returned, out>>
writerVars == <<phase, file, torn, pending, n, exit>>
unlockVars == <<opened, cmd, libredrive>>
vars == <<readerVars, writerVars, unlockVars, batch_bus, shared, driveVars>>

Init ==
  /\ Reader!Init
  /\ Writer!Init
  /\ opened = FALSE
  /\ cmd = 0
  /\ libredrive = FALSE
  /\ batch_bus = FALSE
  /\ shared \in Shared
  /\ DriveInit

-----------------------------------------------------------------------------
(* Creating the output file and opening the device.                         *)

Create ==
  /\ Writer!Create \/ Writer!CreateFails
  /\ UNCHANGED <<shared, readerVars, unlockVars, batch_bus, driveVars>>

Open ==
  /\ phase = "read_units"
  /\ ~opened
  /\ opened' = TRUE
  /\ UNCHANGED <<shared, readerVars, writerVars, cmd, libredrive, batch_bus, driveVars>>

OpenFails ==
  /\ ~opened
  /\ Writer!ReadUnitsFails("open failed")
  /\ UNCHANGED <<shared, readerVars, unlockVars, batch_bus, driveVars>>

-----------------------------------------------------------------------------
(* unlock(): replay of the table, one READ BUFFER at a time.                *)

(* Mutated form of Unlocking: the index runs one past the table.            *)
UnlockingPast == phase = "read_units" /\ opened /\ cmd <= UnlockTable

Unlocking == phase = "read_units" /\ opened /\ cmd < UnlockTable

(* Mutated form of UnlockAnswered: any answer counts as the signature.      *)
UnlockAnsweredAny ==
  /\ Unlocking
  /\ Scrape(cmd)
  /\ libredrive' = TRUE
  /\ cmd' = cmd + 1
  /\ UNCHANGED <<shared, readerVars, writerVars, opened, batch_bus>>

(* The first answer has the signature, unless it is cut short before it.    *)
UnlockAnswered ==
  /\ Unlocking
  /\ Scrape(cmd)
  /\ \/ cmd = 0 /\ libredrive' = (kind = "libre")
     \/ cmd = 0 /\ residuals # {0} /\ libredrive' = FALSE
     \/ cmd > 0 /\ UNCHANGED libredrive
  /\ cmd' = cmd + 1
  /\ UNCHANGED <<shared, readerVars, writerVars, opened, batch_bus>>

(* Mutated form of UnlockFails: a failed command is skipped.                *)
UnlockFailsSkipped(why) ==
  /\ Unlocking
  /\ Refuse
  /\ cmd' = cmd + 1
  /\ UNCHANGED <<shared, readerVars, writerVars, opened, libredrive, batch_bus>>

(* A command fails: `?` ends unlock(), and so read_units.                   *)
UnlockFails(why) ==
  /\ Unlocking
  /\ Writer!ReadUnitsFails(why)
  /\ Refuse
  /\ UNCHANGED <<shared, readerVars, unlockVars, batch_bus>>

UnlockRejected == kind = "plain" /\ ~attention /\ UnlockFails("rejected")

UnlockFaulted == (attention \/ Faults) /\ UnlockFails("io")

UnlockDone ==
  /\ phase = "read_units"
  /\ cmd = UnlockTable
  /\ IF libredrive THEN Writer!ReadUnits
                   ELSE Writer!ReadUnitsFails("NotLibreDrive")
  /\ UNCHANGED <<shared, readerVars, unlockVars, batch_bus, driveVars>>

-----------------------------------------------------------------------------
(* `for unit in units`: a call of RawUnitIter::next, and what comes of it.  *)

Unit(lba, bus) == [lba |-> lba, bus |-> bus]

PullBuffered ==
  /\ Reader!NextBuffered
  /\ Writer!PullUnit(Unit(batch.lba + batch_pos, batch_bus))
  /\ UNCHANGED <<shared, unlockVars, batch_bus, driveVars>>

PullRefilled ==
  /\ ~attention
  /\ Reader!NextRefilled
  /\ batch_bus' = SendsBus
  /\ Writer!PullUnit(Unit(next_lba, batch_bus'))
  /\ UNCHANGED <<shared, unlockVars, driveVars>>

PullEnd ==
  /\ Reader!NextExhausted \/ (~attention /\ Reader!NextShort)
  /\ Writer!PullEnd
  /\ UNCHANGED <<shared, unlockVars, batch_bus, driveVars>>

(* READ(10) fails: a fault, a pending attention, or no transfer possible.   *)
PullError ==
  /\ \/ Faults
     \/ attention
     \/ Reader!Transfers(next_lba, Reader!WantSectors) = {}
  /\ Reader!NextError
  /\ Writer!PullError
  /\ Refuse
  /\ UNCHANGED <<shared, unlockVars, batch_bus>>

Write ==
  /\ Writer!WriteAll
  /\ UNCHANGED <<shared, readerVars, unlockVars, batch_bus, driveVars>>

WriteFails ==
  /\ Writer!WriteFails
  /\ UNCHANGED <<shared, readerVars, unlockVars, batch_bus, driveVars>>

-----------------------------------------------------------------------------
(* The world outside.                                                       *)

Reset ==
  /\ phase # "exit"
  /\ DriveReset
  /\ UNCHANGED <<shared, readerVars, writerVars, unlockVars, batch_bus>>

(* Another program's command (a desktop that polls for media, a mounted     *)
(* file system) receives the attention in our place.                        *)
AttentionTaken ==
  /\ phase # "exit"
  /\ shared
  /\ attention
  /\ Refuse
  /\ UNCHANGED <<shared, readerVars, writerVars, unlockVars, batch_bus>>

Program ==
  \/ Create
  \/ Open
  \/ OpenFails
  \/ UnlockAnswered
  \/ UnlockRejected
  \/ UnlockFaulted
  \/ UnlockDone
  \/ PullBuffered
  \/ PullRefilled
  \/ PullEnd
  \/ PullError
  \/ Write
  \/ WriteFails

Next == Program \/ Reset \/ AttentionTaken

Spec == Init /\ [][Next]_vars

(* The program is one thread; a command sent to the drive is answered or    *)
(* runs into the SG_IO timeout, which is an error.                          *)
FairSpec == Spec /\ WF_vars(Program)

-----------------------------------------------------------------------------
(* Correctness.                                                            *)

(* Type invariant of DecryptDisc.  The replay never runs past the table,    *)
(* and units are pulled only when all of it was answered.                   *)
TypeOK ==
  /\ Reader!TypeOK
  /\ Writer!TypeOK
  /\ DriveTypeOK
  /\ {opened, libredrive, batch_bus} \subseteq BOOLEAN
  /\ shared \in Shared
  /\ cmd \in 0..UnlockTable
  /\ phase \in {"pull", "write"} => cmd = UnlockTable

(* "Backends must never silently emit bus-encrypted bytes" (spec 11 section *)
(* 11.2): no bus-encrypted unit reaches the output file.                    *)
NeverBusEncrypted == \A k \in DOMAIN file : ~file[k].bus

(* The file holds the units the reader handed out, in the order it did,     *)
(* except one that is being written or was lost to a failed write; the      *)
(* count printed at the end is the number of whole units in the file.       *)
FileMatchesReader ==
  /\ n = Len(file)
  /\ Len(out) = Len(file \o pending)
  /\ \A k \in DOMAIN out : (file \o pending)[k].lba = out[k]
  /\ torn => exit = "write failed"

(* "Ok(false) if it's a normal (non-LibreDrive) drive, in which case raw    *)
(* reads won't work and the caller should not trust the content"            *)
(* (libredrive.rs:28-30): such a drive is never sent a READ(10), and the    *)
(* output file of a run that met one stays empty.                           *)
PlainDriveIsNotRead == kind = "plain" => batch.len = 0 /\ file = << >>

(* With the drive to itself the command learns of every reset, from the     *)
(* UNIT ATTENTION that fails it: nothing bus-encrypted is written, wherever *)
(* the drive is reset (read_units and refill, libredrive.rs:74-133).        *)
AloneNeverBusEncrypted == ~shared => NeverBusEncrypted

(* "then reads M Aligned Units (3 sectors each) starting at LBA N" (README, *)
(* lines 143-144): a run that ends with success has written all of them, or *)
(* it took a last READ(10) that came back with less than a unit for the end *)
(* of the medium (refill, libredrive.rs:76-78).  No error, no unit of a     *)
(* batch left behind and no count that a u32 cuts ends a run in any other   *)
(* way.                                                                     *)
SuccessUnlessCutShort ==
  exit = "ok" /\ n < extent.num_units =>
    /\ batch.len < Reader!SECTORS_PER_UNIT
    /\ units_left = extent.num_units - n

(* Every run ends, whatever the drive does.                                 *)
Terminates == <>(phase = "exit")

(* The promise of the command (README: "decrypt-disc runs the unlock        *)
(* itself, then reads M Aligned Units (3 sectors each) starting at LBA N"): *)
(* the units of the extent in order, and success only with the last one.    *)
(* It is kept with a drive that transfers in full; of others nothing is     *)
(* said here, as if they were not asked.                                    *)
Output == INSTANCE ClipOutput WITH
            Stride <- Reader!SECTORS_PER_UNIT,
            clip <- [first |-> extent.start_lba, units |-> extent.num_units],
            written <- IF Reader!FullTransfers
                         THEN [k \in DOMAIN file |-> file[k].lba] ELSE << >>,
            outcome <- IF Reader!FullTransfers
                         THEN Writer!Outcome ELSE "running"
OutputSpec == Output!Spec
=============================================================================

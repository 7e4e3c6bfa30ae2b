---------------------------- MODULE RawUnitIter ----------------------------
(***************************************************************************)
(* The drive-side unit iterator (freeblue-read, libredrive.rs): Aligned    *)
(* Units of a disc extent, fetched in batches of READ(10) commands.        *)
(*                                                                         *)
(* The sector is the unit of measure.  A batch of L bytes is used only     *)
(* through the number of whole Aligned Units it holds, so its length is    *)
(* kept in whole sectors.  Sector contents are named by their LBA.         *)
(*                                                                         *)
(* One action is one call of next(): at most one READ(10) happens in it.   *)
(***************************************************************************)
EXTENDS Integers, Sequences

CONSTANTS
  U32,           \* how many values a u32 has (2^32)
  BatchUnits,    \* BATCH_UNITS
  Extents,       \* the [start_lba, num_units] a caller may ask for (u64 each)
  MediumEnd,     \* first LBA past the end of the medium
  Drives         \* what the READ(10)s of a drive may leave untransferred

SECTORS_PER_UNIT == 3

ASSUME RawUnitIterAssumption ==
  /\ U32 \in Nat \ {0}
  /\ BatchUnits \in Nat \ {0}
  /\ Extents \subseteq [start_lba : Nat, num_units : Nat]
  /\ MediumEnd \in Nat
  /\ MediumEnd + SECTORS_PER_UNIT * BatchUnits <= U32
  /\ Drives \subseteq SUBSET Nat

VARIABLES
  residuals,     \* the drive's: how many sectors a READ(10) may fall short by
  extent,        \* the ClipId's disc_extent
  next_lba,      \* where the next READ(10) starts (u32)
  units_left,    \* units still to hand out (u64)
  batch,         \* [lba, len]: the sectors the last READ(10) delivered
  batch_pos,     \* sectors of the batch already handed out
  returned,      \* what the last call of next() returned
  out            \* LBAs of the units handed out so far

given == <<residuals, extent>>     \* the drive and the request do not change
iterVars == <<given, next_lba, units_left, batch, batch_pos, returned, out>>

-----------------------------------------------------------------------------
(* The drive.                                                              *)

Monus(a, b) == IF a > b THEN a - b ELSE 0

(* Lengths a READ(10) of `sectors` sectors at `lba` may come back with when *)
(* its status is clean: the request less a residual, and never more than    *)
(* the medium holds.                                                        *)
Transfers(lba, sectors) ==
  {n \in {Monus(sectors, r) : r \in residuals} : n > 0 => lba + n <= MediumEnd}

-----------------------------------------------------------------------------
Init ==
  /\ residuals \in Drives
  /\ extent \in Extents
  /\ next_lba = extent.start_lba % U32       \* start_lba as u32
  /\ units_left = extent.num_units
  /\ batch = [lba |-> 0, len |-> 0]          \* Vec::new()
  /\ batch_pos = 0
  /\ returned = "nothing"
  /\ out = << >>

(* Mutated form of Want: the last batch is not cut to what is left.         *)
WantWholeBatch(left) == BatchUnits

(* BATCH_UNITS.min(self.units_left as u32), and the sectors it asks for.    *)
Want(left) == IF BatchUnits < left % U32 THEN BatchUnits ELSE left % U32
WantSectors == Want(units_left) * SECTORS_PER_UNIT

HoldsUnit == batch_pos + SECTORS_PER_UNIT <= batch.len

(* The tail of next(): hand out the unit at position `pos` of batch `b`.    *)
Take(b, pos) ==
  /\ batch' = b
  /\ batch_pos' = pos + SECTORS_PER_UNIT
  /\ units_left' = units_left - 1
  /\ out' = Append(out, b.lba + pos)
  /\ returned' = "unit"
  /\ UNCHANGED given

NextExhausted ==
  /\ units_left = 0
  /\ returned' = "none"
  /\ UNCHANGED <<given, next_lba, units_left, batch, batch_pos, out>>

NextBuffered ==
  /\ units_left > 0
  /\ HoldsUnit
  /\ Take(batch, batch_pos)
  /\ UNCHANGED next_lba

(* next() calls refill() when the batch holds no further whole unit.        *)
Refilling == units_left > 0 /\ ~HoldsUnit

(* Mutated forms of NextRefilled: next_lba moves by the sectors that came;  *)
(* no check that a whole unit came.                                         *)
NextRefilledByTransfer ==
  /\ Refilling
  /\ \E n \in Transfers(next_lba, WantSectors) :
       /\ n >= SECTORS_PER_UNIT
       /\ Take([lba |-> next_lba, len |-> n], 0)
       /\ next_lba' = (next_lba + n) % U32

NextRefilledUnchecked ==
  /\ Refilling
  /\ \E n \in Transfers(next_lba, WantSectors) :
       Take([lba |-> next_lba, len |-> n], 0)
  /\ next_lba' = (next_lba + WantSectors) % U32

(* refill() returns Ok(true): next_lba moves by what was asked for, however *)
(* much came back.                                                          *)
NextRefilled ==
  /\ Refilling
  /\ \E n \in Transfers(next_lba, WantSectors) :
       /\ n >= SECTORS_PER_UNIT
       /\ Take([lba |-> next_lba, len |-> n], 0)
  /\ next_lba' = (next_lba + WantSectors) % U32

(* refill() returns Ok(false): less than one unit came back.                *)
NextShort ==
  /\ Refilling
  /\ \E n \in Transfers(next_lba, WantSectors) :
       /\ n < SECTORS_PER_UNIT
       /\ batch' = [lba |-> next_lba, len |-> n]
  /\ batch_pos' = 0
  /\ returned' = "none"
  /\ UNCHANGED <<given, next_lba, units_left, out>>

(* Mutated forms of NextError: batch_pos is reset before the read is known  *)
(* to have worked; a failed call is charged as a unit handed out.           *)
NextErrorRewinds ==
  /\ Refilling
  /\ batch_pos' = 0
  /\ returned' = "error"
  /\ UNCHANGED <<given, next_lba, units_left, batch, out>>

NextErrorCharged ==
  /\ Refilling
  /\ units_left' = units_left - 1
  /\ returned' = "error"
  /\ UNCHANGED <<given, next_lba, batch, batch_pos, out>>

(* read10 fails: `?` leaves before anything is assigned.                    *)
NextError ==
  /\ Refilling
  /\ returned' = "error"
  /\ UNCHANGED <<given, next_lba, units_left, batch, batch_pos, out>>

Next ==
  \/ NextExhausted
  \/ NextBuffered
  \/ NextRefilled
  \/ NextShort
  \/ NextError

Spec == Init /\ [][Next]_iterVars

-----------------------------------------------------------------------------
(* Correctness.                                                            *)

Start == extent.start_lba % U32

(* Type invariant of RawUnitIter.  batch_pos never passes the end of the    *)
(* batch: the slice taken by next() is in bounds, so next() cannot panic.   *)
TypeOK ==
  /\ residuals \in Drives
  /\ extent \in Extents
  /\ next_lba \in 0..(U32 - 1)
  /\ units_left \in Nat
  /\ batch \in [lba : 0..(U32 - 1), len : Nat]
  /\ batch_pos \in 0..batch.len
  /\ returned \in {"nothing", "unit", "none", "error"}
  /\ out \in Seq(Nat)

(* "Reads start at the clip's first LBA and advance a whole number of units *)
(* per READ(10)" (libredrive.rs:46-48): whatever mixture of short           *)
(* transfers, failed commands and retries happens, every unit next() hands  *)
(* out starts a whole number of units after the clip's first LBA.           *)
ClipAligned ==
  \A k \in DOMAIN out :
    out[k] >= Start /\ (out[k] - Start) % SECTORS_PER_UNIT = 0

(* Units come out in disc order and no sector is handed out twice, across   *)
(* retries after an error and after a stream that resumes past a None.      *)
InDiscOrder ==
  \A k \in 1..(Len(out) - 1) : out[k] + SECTORS_PER_UNIT <= out[k + 1]

(* A drive that transfers what it is asked for, or fails; an extent whose   *)
(* numbers a u32 holds.                                                     *)
FullTransfers ==
  /\ residuals = {0}
  /\ extent.start_lba < U32
  /\ extent.num_units < U32

(* The last, partial batch asks for no more than is left of the extent, so  *)
(* a drive that transfers in full never serves a sector outside it.         *)
ReadsWithinExtent ==
  FullTransfers /\ batch.len > 0 =>
    /\ batch.lba >= Start
    /\ batch.lba + batch.len <= Start + SECTORS_PER_UNIT * extent.num_units

(* "Streams clip-LBA-aligned 6144-byte Aligned Units from a disc_extent"    *)
(* (libredrive.rs:44): every unit handed out lies in the extent asked for.  *)
OnlyUnitsOfExtent ==
  \A k \in DOMAIN out :
    /\ out[k] >= Start
    /\ out[k] + SECTORS_PER_UNIT <= Start + SECTORS_PER_UNIT * extent.num_units

(* The reader's promise to its consumer: the units of the extent in order,  *)
(* each exactly once, errors that lose nothing, no end before the last unit.*)
(* It is kept with a drive that transfers in full; of others nothing is     *)
(* said here, as if they were not asked.                                    *)
Stream == INSTANCE UnitStream WITH
            Stride <- SECTORS_PER_UNIT,
            clip <- [first |-> extent.start_lba, units |-> extent.num_units],
            out <- IF FullTransfers THEN out ELSE << >>,
            returned <- IF FullTransfers THEN returned ELSE "nothing"
StreamSpec == Stream!Spec
=============================================================================

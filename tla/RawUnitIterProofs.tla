------------------------- MODULE RawUnitIterProofs -------------------------
(***************************************************************************)
(* Theorems about RawUnitIter, for every extent, medium and batch size and *)
(* every mixture of short transfers and failed commands.                   *)
(***************************************************************************)
EXTENDS RawUnitIter, SequenceTheorems, TLAPS

(* A sector that starts a unit of the clip.                                 *)
OnGrid(lba) == lba >= Start /\ (lba - Start) % SECTORS_PER_UNIT = 0

Last(s) == s[Len(s)]

(* What is buffered lies on the clip's grid, behind next_lba.               *)
BufferOnGrid ==
  HoldsUnit => /\ OnGrid(batch.lba + batch_pos)
               /\ batch.lba + batch.len <= next_lba

(* What was handed out lies behind both what is buffered and next_lba.      *)
OutBehind ==
  out # << >> => /\ Last(out) + SECTORS_PER_UNIT <= next_lba
                 /\ HoldsUnit => Last(out) + SECTORS_PER_UNIT
                                   <= batch.lba + batch_pos

IInv ==
  /\ TypeOK
  /\ OnGrid(next_lba)
  /\ BufferOnGrid
  /\ OutBehind
  /\ ClipAligned
  /\ InDiscOrder

-----------------------------------------------------------------------------
(* Moving a whole number of units stays on the grid.                        *)
LEMMA GridStep ==
  ASSUME NEW lba \in Nat, NEW m \in Nat, OnGrid(lba), extent \in Extents
  PROVE  OnGrid(lba + m * SECTORS_PER_UNIT)
<1>1. Start \in Nat
  BY RawUnitIterAssumption DEF Start
<1>. QED  BY <1>1 DEF OnGrid, SECTORS_PER_UNIT

LEMMA SmallMod ==
  ASSUME NEW a \in Nat, NEW b \in Nat, a < b
  PROVE  a % b = a
OBVIOUS

LEMMA MultiplesOfThree ==
  ASSUME NEW x \in Int, x % 3 = 0
  PROVE  /\ (x - 3) % 3 = 0
         /\ x \in 0..2 => x = 0
OBVIOUS

(* A unit moves from the buffer to what was handed out.                     *)
LEMMA UnitMoves ==
  ASSUME NEW s \in Int, NEW k \in Int, NEW l \in Int, NEW p \in Int
  PROVE  s + 3 * k + (l - p) = s + 3 * (k + 1) + (l - (p + 3))
OBVIOUS

(* Want never exceeds the batch, nor what is left.                          *)
LEMMA WantBounds ==
  ASSUME units_left \in Nat
  PROVE  /\ Want(units_left) \in Nat
         /\ Want(units_left) <= BatchUnits
         /\ Want(units_left) <= units_left
<1>1. units_left % U32 \in Nat /\ units_left % U32 <= units_left
  BY RawUnitIterAssumption
<1>. QED  BY <1>1, RawUnitIterAssumption DEF Want

(* A transfer holds no more than was asked for and ends on the medium.      *)
LEMMA TransferBounds ==
  ASSUME residuals \in Drives,
         NEW lba \in Nat, NEW sectors \in Nat, NEW n \in Transfers(lba, sectors)
  PROVE  /\ n \in Nat
         /\ n <= sectors
         /\ n > 0 => lba + n <= MediumEnd
BY RawUnitIterAssumption DEF Transfers, Monus

(* Handing out one more unit, on the grid and behind the units before it.   *)
LEMMA OneMoreUnit ==
  ASSUME out \in Seq(Nat), ClipAligned, InDiscOrder,
         NEW e \in Nat, OnGrid(e),
         out # << >> => Last(out) + SECTORS_PER_UNIT <= e,
         out' = Append(out, e), extent' = extent
  PROVE  /\ out' \in Seq(Nat)
         /\ out' # << >>
         /\ Last(out') = e
         /\ ClipAligned'
         /\ InDiscOrder'
<1>1. /\ out' \in Seq(Nat)
      /\ Len(out') = Len(out) + 1
      /\ \A i \in 1..Len(out) : out'[i] = out[i]
      /\ out'[Len(out) + 1] = e
  OBVIOUS
<1>2. DOMAIN out = 1..Len(out) /\ DOMAIN out' = 1..Len(out')
  BY <1>1
<1>3. Len(out) \in Nat
  OBVIOUS
<1>4. out' # << >> /\ Last(out') = e
  BY <1>1, <1>3 DEF Last
<1>5. Start' = Start
  BY DEF Start
<1>6. ClipAligned'
  BY <1>1, <1>2, <1>3, <1>5 DEF ClipAligned, OnGrid
<1>7. InDiscOrder'
  <2>. SUFFICES ASSUME NEW k \in 1..(Len(out') - 1)
                PROVE  out'[k] + SECTORS_PER_UNIT <= out'[k + 1]
    BY DEF InDiscOrder
  <2>1. CASE k = Len(out)
    <3>1. Last(out) + SECTORS_PER_UNIT <= e /\ Last(out) = out'[k]
      BY <1>1, <2>1 DEF Last
    <3>. QED  BY <3>1, <1>1, <2>1
  <2>2. CASE k # Len(out)
    <3>1. k \in 1..(Len(out) - 1) /\ k \in 1..Len(out) /\ k + 1 \in 1..Len(out)
      BY <1>1, <1>3, <2>2
    <3>. QED  BY <3>1, <1>1 DEF InDiscOrder
  <2>. QED  BY <2>1, <2>2
<1>. QED  BY <1>1, <1>4, <1>6, <1>7

-----------------------------------------------------------------------------
LEMMA InitIInv == Init => IInv
<1>. SUFFICES ASSUME Init PROVE IInv
  OBVIOUS
<1>. USE RawUnitIterAssumption
<1>1. Start \in 0..(U32 - 1) /\ next_lba = Start /\ extent.num_units \in Nat
  BY DEF Init, Start
<1>2. TypeOK
  BY <1>1 DEF Init, TypeOK
<1>3. OnGrid(next_lba) /\ ~HoldsUnit /\ out = << >>
  BY <1>1 DEF Init, OnGrid, HoldsUnit, SECTORS_PER_UNIT
<1>. QED
  BY <1>2, <1>3 DEF IInv, BufferOnGrid, OutBehind, ClipAligned, InDiscOrder

(* The unit a call hands out is the next one on the grid.  The two actions  *)
(* that deliver differ in where the batch comes from.                       *)
LEMMA NextIInv == IInv /\ [Next]_iterVars => IInv'
<1>. SUFFICES ASSUME IInv, [Next]_iterVars PROVE IInv'
  OBVIOUS
<1>. USE RawUnitIterAssumption DEF SECTORS_PER_UNIT, given
<1>1. TypeOK /\ Start \in Nat /\ extent \in Extents /\ residuals \in Drives
  BY DEF IInv, TypeOK, Start
<1>2. CASE NextExhausted
  BY <1>2 DEF NextExhausted, IInv, TypeOK, OnGrid, BufferOnGrid, OutBehind,
              ClipAligned, InDiscOrder, HoldsUnit, Start
<1>3. CASE NextBuffered
  <2>. DEFINE e == batch.lba + batch_pos
  <2>1. /\ units_left > 0 /\ HoldsUnit /\ next_lba' = next_lba
        /\ batch' = batch /\ batch_pos' = batch_pos + 3
        /\ units_left' = units_left - 1 /\ UNCHANGED <<residuals, extent>>
        /\ out' = Append(out, e) /\ returned' = "unit"
    BY <1>3 DEF NextBuffered, Take
  <2>2. /\ OnGrid(e) /\ e \in Nat /\ batch.lba + batch.len <= next_lba
        /\ e + 3 <= batch.lba + batch.len
    BY <2>1, <1>1 DEF IInv, BufferOnGrid, TypeOK, HoldsUnit
  <2>3. out # << >> => Last(out) + 3 <= e
    BY <2>1 DEF IInv, OutBehind
  <2>4. /\ out' \in Seq(Nat) /\ out' # << >> /\ Last(out') = e
        /\ ClipAligned' /\ InDiscOrder'
    <3>. HIDE DEF e
    <3>. QED  BY <2>1, <2>2, <2>3, OneMoreUnit DEF IInv, TypeOK
  <2>5. TypeOK'
    BY <1>1, <2>1, <2>4 DEF TypeOK, HoldsUnit
  <2>6. Start' = Start /\ OnGrid(next_lba)'
    BY <2>1 DEF IInv, OnGrid, Start
  <2>7. OnGrid(e + 1 * 3)
    BY <2>2, <1>1, GridStep
  <2>8. batch'.lba + batch_pos' = e + 3 /\ batch'.lba + batch'.len <= next_lba'
    BY <1>1, <2>1, <2>2 DEF TypeOK
  <2>9. BufferOnGrid' /\ OutBehind'
    <3>. HIDE DEF e
    <3>1. OnGrid(batch.lba + batch_pos)'
      BY <2>6, <2>7, <2>8 DEF OnGrid
    <3>2. Last(out)' + 3 <= next_lba'
      BY <1>1, <2>1, <2>2, <2>4 DEF TypeOK
    <3>. QED  BY <2>2, <2>4, <2>8, <3>1, <3>2 DEF BufferOnGrid, OutBehind
  <2>. QED  BY <2>4, <2>5, <2>6, <2>9 DEF IInv
<1>4. CASE NextRefilled
  <2>. DEFINE w == WantSectors
  <2>1. PICK n \in Transfers(next_lba, w) :
          /\ n >= 3
          /\ batch' = [lba |-> next_lba, len |-> n] /\ batch_pos' = 3
          /\ units_left' = units_left - 1 /\ UNCHANGED <<residuals, extent>>
          /\ out' = Append(out, next_lba) /\ returned' = "unit"
    BY <1>1, <1>4 DEF NextRefilled, Take, TypeOK
  <2>2. units_left > 0 /\ next_lba' = (next_lba + w) % U32
    BY <1>4 DEF NextRefilled, Refilling
  <2>3. /\ Want(units_left) \in Nat /\ w = Want(units_left) * 3
        /\ w \in Nat /\ w <= 3 * BatchUnits
    BY <1>1, WantBounds DEF WantSectors, TypeOK
  <2>4. n \in Nat /\ n <= w /\ next_lba + n <= MediumEnd
    <3>1. next_lba \in Nat
      BY <1>1 DEF TypeOK
    <3>. HIDE DEF w
    <3>. QED  BY <1>1, <3>1, <2>1, <2>3, TransferBounds
  <2>5. next_lba' = next_lba + w /\ next_lba' \in 0..(U32 - 1)
    <3>. HIDE DEF w
    <3>0. next_lba \in Nat /\ next_lba < MediumEnd
      BY <1>1, <2>1, <2>4 DEF TypeOK
    <3>1. next_lba + w \in Nat /\ next_lba + w < U32
      BY <2>3, <3>0
    <3>2. (next_lba + w) % U32 = next_lba + w
      BY <3>1, SmallMod
    <3>. QED  BY <2>2, <3>1, <3>2
  <2>6. OnGrid(next_lba) /\ (out # << >> => Last(out) + 3 <= next_lba)
    BY DEF IInv, OutBehind
  <2>7. /\ out' \in Seq(Nat) /\ out' # << >> /\ Last(out') = next_lba
        /\ ClipAligned' /\ InDiscOrder'
    BY <1>1, <2>1, <2>6, OneMoreUnit DEF IInv, TypeOK
  <2>8. TypeOK'
    BY <1>1, <2>1, <2>2, <2>4, <2>5, <2>7 DEF TypeOK
  <2>9. Start' = Start
    BY <2>1 DEF Start
  <2>10. OnGrid(next_lba + w) /\ OnGrid(next_lba + 1 * 3)
    <3>. HIDE DEF w
    <3>1. next_lba \in Nat
      BY <1>1 DEF TypeOK
    <3>2. OnGrid(next_lba + Want(units_left) * 3) /\ OnGrid(next_lba + 1 * 3)
      BY <1>1, <2>3, <2>6, <3>1, GridStep
    <3>. QED  BY <2>3, <3>2
  <2>11. OnGrid(next_lba)'
    BY <2>5, <2>9, <2>10 DEF OnGrid
  <2>12. /\ batch'.lba + batch_pos' = next_lba + 3
         /\ batch'.lba + batch'.len <= next_lba'
    <3>. HIDE DEF w
    <3>. QED  BY <1>1, <2>1, <2>3, <2>4, <2>5 DEF TypeOK
  <2>13. BufferOnGrid' /\ OutBehind'
    <3>. HIDE DEF w
    <3>1. OnGrid(batch.lba + batch_pos)'
      BY <2>9, <2>10, <2>12 DEF OnGrid
    <3>2. Last(out)' + 3 <= next_lba'
      BY <1>1, <2>1, <2>3, <2>4, <2>5, <2>7 DEF TypeOK
    <3>3. Last(out)' + 3 <= batch'.lba + batch_pos'
      BY <1>1, <2>7, <2>12 DEF TypeOK
    <3>. QED  BY <2>12, <3>1, <3>2, <3>3 DEF BufferOnGrid, OutBehind
  <2>. QED  BY <2>7, <2>8, <2>11, <2>13 DEF IInv
<1>5. CASE NextShort
  <2>1. PICK n \in Transfers(next_lba, WantSectors) :
          n < 3 /\ batch' = [lba |-> next_lba, len |-> n]
    BY <1>5 DEF NextShort
  <2>2. /\ batch_pos' = 0 /\ returned' = "none"
        /\ UNCHANGED <<residuals, extent, next_lba, units_left, out>>
    BY <1>5 DEF NextShort
  <2>3. n \in Nat
    <3>1. next_lba \in Nat /\ WantSectors \in Nat
      BY <1>1, WantBounds DEF WantSectors, TypeOK
    <3>. QED  BY <1>1, <3>1, TransferBounds
  <2>4. TypeOK' /\ ~HoldsUnit'
    BY <1>1, <2>1, <2>2, <2>3 DEF TypeOK, HoldsUnit
  <2>5. Start' = Start
    BY <2>2 DEF Start
  <2>. QED
    BY <2>2, <2>4, <2>5 DEF IInv, OnGrid, BufferOnGrid, OutBehind, ClipAligned,
                            InDiscOrder
<1>6. CASE NextError
  BY <1>6 DEF NextError, IInv, TypeOK, OnGrid, BufferOnGrid, OutBehind,
              ClipAligned, InDiscOrder, HoldsUnit, Start
<1>7. CASE UNCHANGED iterVars
  BY <1>7 DEF iterVars, IInv, TypeOK, OnGrid, BufferOnGrid, OutBehind,
              ClipAligned, InDiscOrder, HoldsUnit, Start
<1>. QED  BY <1>2, <1>3, <1>4, <1>5, <1>6, <1>7 DEF Next

LEMMA SpecIInv == Spec => []IInv
BY InitIInv, NextIInv, PTL DEF Spec

(* The slice next() takes is always inside the batch, whatever the drive    *)
(* returned for the READ(10)s before it.                                    *)
THEOREM TypeCorrect == Spec => []TypeOK
BY SpecIInv, PTL DEF IInv

(* Every unit handed out starts on the clip's Aligned-Unit grid.            *)
THEOREM UnitsAligned == Spec => []ClipAligned
BY SpecIInv, PTL DEF IInv

(* Units come out in disc order, none twice and none overlapping.           *)
THEOREM UnitsInDiscOrder == Spec => []InDiscOrder
BY SpecIInv, PTL DEF IInv

-----------------------------------------------------------------------------
(* The stream of UnitStream, as the reader of a drive that transfers in     *)
(* full shows it.                                                           *)
Whole == INSTANCE UnitStream WITH
           Stride <- SECTORS_PER_UNIT,
           clip <- [first |-> extent.start_lba, units |-> extent.num_units]

(* Neither the drive nor the request changes, so whether transfers are full *)
(* is settled at the start.                                                 *)
LEMMA DriveStays ==
  ASSUME [Next]_iterVars
  PROVE  UNCHANGED given /\ FullTransfers' = FullTransfers
<1>1. UNCHANGED given
  BY DEF Next, NextExhausted, NextBuffered, NextRefilled, NextShort, NextError,
         Take, iterVars
<1>2. residuals' = residuals /\ extent' = extent
  BY <1>1 DEF given
<1>. QED  BY <1>1, <1>2 DEF FullTransfers

(* Under FullTransfers the reader's position is exact: what is buffered is  *)
(* what lies between the units handed out and next_lba.                     *)
Exact ==
  /\ extent.start_lba = Start
  /\ extent.num_units \in 0..(U32 - 1)
  /\ Len(out) + units_left = extent.num_units
  /\ (batch.len - batch_pos) % SECTORS_PER_UNIT = 0
  /\ next_lba = Start + SECTORS_PER_UNIT * Len(out) + (batch.len - batch_pos)
  /\ HoldsUnit => batch.lba + batch_pos = Start + SECTORS_PER_UNIT * Len(out)

LEMMA InitExact == FullTransfers /\ Init => Exact
<1>. SUFFICES ASSUME FullTransfers, Init PROVE Exact
  OBVIOUS
<1>1. extent.start_lba \in 0..(U32 - 1) /\ extent.num_units \in 0..(U32 - 1)
  BY RawUnitIterAssumption DEF FullTransfers, Init
<1>2. Start = extent.start_lba
  BY <1>1, SmallMod, RawUnitIterAssumption DEF Start
<1>3. Len(out) = 0 /\ batch.len = 0 /\ batch_pos = 0 /\ next_lba = Start
      /\ units_left = extent.num_units /\ ~HoldsUnit
  BY DEF Init, Start, HoldsUnit, SECTORS_PER_UNIT
<1>. QED  BY <1>1, <1>2, <1>3, RawUnitIterAssumption DEF Exact, SECTORS_PER_UNIT

(* With full transfers and units left, a refill never comes back short.     *)
LEMMA RefillIsWhole ==
  ASSUME FullTransfers, IInv, Exact, Refilling
  PROVE  /\ WantSectors \in Nat /\ WantSectors >= SECTORS_PER_UNIT
         /\ WantSectors % SECTORS_PER_UNIT = 0
         /\ Transfers(next_lba, WantSectors) \subseteq {WantSectors}
         /\ batch.len - batch_pos = 0
<1>. USE DEF SECTORS_PER_UNIT
<1>1. units_left \in Nat /\ units_left > 0 /\ units_left < U32
  BY RawUnitIterAssumption DEF IInv, TypeOK, Exact, Refilling
<1>2. units_left % U32 = units_left
  BY <1>1, SmallMod, RawUnitIterAssumption
<1>3. Want(units_left) \in Nat /\ Want(units_left) >= 1
  BY <1>1, <1>2, RawUnitIterAssumption DEF Want
<1>4. WantSectors \in Nat /\ WantSectors >= 3 /\ WantSectors % 3 = 0
  BY <1>3 DEF WantSectors
<1>5. Transfers(next_lba, WantSectors) \subseteq {WantSectors}
  BY <1>4 DEF Transfers, Monus, FullTransfers
<1>6. batch.len - batch_pos = 0
  <2>1. batch.len \in Nat /\ batch_pos \in Nat /\ batch_pos <= batch.len
    BY DEF IInv, TypeOK
  <2>2. batch.len - batch_pos \in 0..2 /\ (batch.len - batch_pos) % 3 = 0
    BY <2>1 DEF Exact, Refilling, HoldsUnit
  <2>. QED  BY <2>2, MultiplesOfThree
<1>. QED  BY <1>4, <1>5, <1>6

(* Each step of the reader is a step of the stream, or none.                *)
LEMMA StepRefines ==
  ASSUME FullTransfers, IInv, Exact, [Next]_iterVars
  PROVE  Exact' /\ [Whole!Next]_(Whole!vars)
<1>. USE DEF SECTORS_PER_UNIT, Whole!vars, given
<1>1. /\ Start \in Nat /\ Len(out) \in Nat /\ units_left \in Nat
      /\ batch.len \in Nat /\ batch.lba \in Nat /\ batch_pos \in Nat
      /\ next_lba \in Nat /\ out \in Seq(Nat) /\ residuals \in Drives
  BY RawUnitIterAssumption DEF IInv, TypeOK, Start
<1>2. CASE NextExhausted
  <2>1. Exact'
    BY <1>2 DEF NextExhausted, Exact, HoldsUnit, Start
  <2>2. Whole!End
    BY <1>1, <1>2 DEF NextExhausted, Exact, Whole!End
  <2>. QED  BY <2>1, <2>2 DEF Whole!Next
<1>3. CASE NextBuffered
  <2>1. /\ units_left > 0 /\ HoldsUnit /\ next_lba' = next_lba
        /\ batch' = batch /\ batch_pos' = batch_pos + 3
        /\ units_left' = units_left - 1 /\ UNCHANGED <<residuals, extent>>
        /\ out' = Append(out, batch.lba + batch_pos) /\ returned' = "unit"
    BY <1>3 DEF NextBuffered, Take
  <2>2. batch.lba + batch_pos = Start + 3 * Len(out)
    BY <2>1 DEF Exact
  <2>3. Len(out') = Len(out) + 1 /\ Start' = Start
    BY <1>1, <2>1 DEF Start
  <2>4. Exact'
    <3>1. (batch.len - batch_pos) - 3 = batch.len - (batch_pos + 3)
      BY <1>1
    <3>2. (batch.len - (batch_pos + 3)) % 3 = 0
      BY <1>1, <3>1, MultiplesOfThree DEF Exact
    <3>3. next_lba' = Start + 3 * Len(out') + (batch.len - batch_pos')
      <4>1. next_lba = Start + 3 * Len(out) + (batch.len - batch_pos)
        BY DEF Exact
      <4>2. next_lba' = next_lba /\ batch_pos' = batch_pos + 3
        BY <2>1
      <4>3. next_lba = Start + 3 * (Len(out) + 1) + (batch.len - (batch_pos + 3))
        BY <1>1, <4>1, UnitMoves
      <4>. QED  BY <2>3, <4>2, <4>3
    <3>4. batch.lba + batch_pos' = Start + 3 * Len(out')
      BY <1>1, <2>1, <2>2, <2>3
    <3>5. Len(out') + units_left' = extent'.num_units
      BY <1>1, <2>1, <2>3 DEF Exact
    <3>. QED  BY <2>1, <2>3, <3>2, <3>3, <3>4, <3>5 DEF Exact
  <2>5. Whole!Deliver
    <3>1. Len(out) < extent.num_units /\ extent.start_lba = Start
      BY <1>1, <2>1 DEF Exact
    <3>2. batch.lba + batch_pos = extent.start_lba + 3 * ((Len(out) + 1) - 1)
      BY <1>1, <2>2, <3>1
    <3>. QED  BY <2>1, <3>1, <3>2, Zenon DEF Whole!Deliver, Whole!UnitAt
  <2>. QED  BY <2>4, <2>5 DEF Whole!Next
<1>4. CASE NextRefilled
  <2>. DEFINE w == WantSectors
  <2>1. Refilling /\ next_lba' = (next_lba + w) % U32
    BY <1>4 DEF NextRefilled
  <2>2. /\ w \in Nat /\ w >= 3 /\ w % 3 = 0
        /\ Transfers(next_lba, w) \subseteq {w} /\ batch.len - batch_pos = 0
    BY <2>1, RefillIsWhole
  <2>3. /\ batch' = [lba |-> next_lba, len |-> w] /\ batch_pos' = 3
        /\ units_left' = units_left - 1 /\ UNCHANGED <<residuals, extent>>
        /\ out' = Append(out, next_lba) /\ returned' = "unit"
        /\ w \in Transfers(next_lba, w)
    <3>. HIDE DEF w
    <3>1. PICK n \in Transfers(next_lba, w) : Take([lba |-> next_lba, len |-> n], 0)
      BY <1>4 DEF NextRefilled, w
    <3>2. n = w
      BY <3>1, <2>2
    <3>. QED  BY <1>1, <3>1, <3>2 DEF Take
  <2>4. next_lba' = next_lba + w
    <3>. HIDE DEF w
    <3>1. next_lba + w <= MediumEnd
      <4>1. w > 0
        BY <2>2
      <4>2. w > 0 => next_lba + w <= MediumEnd
        BY <1>1, <2>2, <2>3, TransferBounds
      <4>. QED  BY <4>1, <4>2
    <3>2. next_lba + w < U32
      BY <1>1, <2>2, <3>1, RawUnitIterAssumption DEF SECTORS_PER_UNIT
    <3>3. (next_lba + w) % U32 = next_lba + w
      <4>1. next_lba + w \in Nat /\ U32 \in Nat
        BY <1>1, <2>2, RawUnitIterAssumption
      <4>. QED  BY <3>2, <4>1, SmallMod
    <3>. QED  BY <2>1, <3>3
  <2>5. next_lba = Start + 3 * Len(out)
    BY <1>1, <2>2 DEF Exact
  <2>6. Len(out') = Len(out) + 1 /\ Start' = Start /\ units_left > 0
    BY <1>1, <2>1, <2>3 DEF Start, Refilling
  <2>7. Exact'
    <3>. HIDE DEF w
    <3>1. batch'.lba = next_lba /\ batch'.len = w
      BY <2>3
    <3>2. (w - 3) % 3 = 0
      BY <2>2
    <3>3. next_lba' = Start + 3 * Len(out') + (w - 3)
      BY <1>1, <2>2, <2>4, <2>5, <2>6
    <3>4. batch'.lba + batch_pos' = Start + 3 * Len(out')
      BY <1>1, <2>3, <2>5, <2>6, <3>1
    <3>5. Len(out') + units_left' = extent'.num_units
      BY <1>1, <2>3, <2>6 DEF Exact
    <3>. QED
      BY <2>3, <2>6, <3>1, <3>2, <3>3, <3>4, <3>5 DEF Exact
  <2>8. Whole!Deliver
    BY <1>1, <2>3, <2>5, <2>6 DEF Whole!Deliver, Whole!UnitAt, Exact
  <2>. QED  BY <2>7, <2>8 DEF Whole!Next
<1>5. CASE NextShort
  <2>1. Refilling /\ \E n \in Transfers(next_lba, WantSectors) : n < 3
    BY <1>5 DEF NextShort
  <2>. QED  BY <2>1, RefillIsWhole
<1>6. CASE NextError
  <2>1. Exact'
    BY <1>6 DEF NextError, Exact, HoldsUnit, Start
  <2>2. Whole!Fail
    BY <1>6 DEF NextError, Whole!Fail
  <2>. QED  BY <2>1, <2>2 DEF Whole!Next
<1>7. CASE UNCHANGED iterVars
  BY <1>7 DEF iterVars, Exact, HoldsUnit, Start
<1>. QED  BY <1>2, <1>3, <1>4, <1>5, <1>6, <1>7 DEF Next

(* What UnitStream is shown is the reader's, or nothing at all.             *)
LEMMA ShownStep ==
  ASSUME FullTransfers => [Whole!Next]_(Whole!vars), [Next]_iterVars
  PROVE  [Stream!Next]_(Stream!vars)
<1>1. UNCHANGED <<residuals, extent>> /\ FullTransfers' = FullTransfers
  BY DriveStays DEF given
<1>2. CASE FullTransfers
  <2>1. [Whole!Next]_(Whole!vars) /\ FullTransfers'
    BY <1>1, <1>2
  <2>. QED
    BY <1>2, <2>1
    DEF Stream!Next, Stream!Deliver, Stream!Fail, Stream!End, Stream!vars,
        Stream!UnitAt, Whole!Next, Whole!Deliver, Whole!Fail, Whole!End,
        Whole!vars, Whole!UnitAt
<1>3. CASE ~FullTransfers
  BY <1>1, <1>3 DEF Stream!vars
<1>. QED  BY <1>2, <1>3

LEMMA InitShown == Init => Stream!Init
BY RawUnitIterAssumption DEF Init, Stream!Init

(* With a drive that transfers in full or fails, RawUnitIter keeps the      *)
(* promise of a UnitReader: every unit of the extent, once, in order, and   *)
(* no end before the last.                                                  *)
THEOREM FullTransfersStream == Spec => StreamSpec
<1>1. Init => Stream!Init /\ (FullTransfers => Exact)
  BY InitExact, InitShown
<1>2. IInv /\ (FullTransfers => Exact) /\ [Next]_iterVars
        => (FullTransfers => Exact)' /\ [Stream!Next]_(Stream!vars)
  <2>. SUFFICES ASSUME IInv, FullTransfers => Exact, [Next]_iterVars
                PROVE  (FullTransfers => Exact)' /\ [Stream!Next]_(Stream!vars)
    OBVIOUS
  <2>1. FullTransfers => Exact' /\ [Whole!Next]_(Whole!vars)
    BY StepRefines
  <2>. QED  BY <2>1, DriveStays, ShownStep
<1>. QED  BY <1>1, <1>2, SpecIInv, PTL DEF Spec, StreamSpec, Stream!Spec

(* No READ(10) asks for a sector past the extent: what is asked for is at   *)
(* most what is left, counted from the unit that comes next.                *)
LEMMA WithinStep ==
  ASSUME FullTransfers, IInv, Exact, ReadsWithinExtent, [Next]_iterVars
  PROVE  ReadsWithinExtent'
<1>. USE DEF SECTORS_PER_UNIT, given
<1>1. CASE NextRefilled
  <2>. DEFINE w == WantSectors
  <2>1. PICK n \in Transfers(next_lba, w) : Take([lba |-> next_lba, len |-> n], 0)
    BY <1>1 DEF NextRefilled
  <2>2. n = w /\ batch.len - batch_pos = 0
    BY <1>1, <2>1, RefillIsWhole DEF NextRefilled
  <2>3. /\ Start \in Nat /\ next_lba \in Nat /\ units_left \in Nat
        /\ Len(out) \in Nat
    BY RawUnitIterAssumption DEF IInv, TypeOK, Start
  <2>4. w \in Nat /\ w <= 3 * units_left
    BY <2>3, WantBounds DEF WantSectors
  <2>5. /\ next_lba = Start + 3 * Len(out)
        /\ extent.num_units = Len(out) + units_left
    BY <2>2, <2>3 DEF Exact
  <2>6. batch' = [lba |-> next_lba, len |-> w] /\ extent' = extent
    BY <2>1, <2>2 DEF Take
  <2>7. Start' = Start
    BY <2>6 DEF Start
  <2>. HIDE DEF w
  <2>8. batch'.lba = next_lba /\ batch'.len = w
    BY <2>6
  <2>9. next_lba + w <= Start + 3 * (Len(out) + units_left)
    BY <2>3, <2>4, <2>5
  <2>. QED  BY <2>3, <2>5, <2>6, <2>7, <2>8, <2>9 DEF ReadsWithinExtent
<1>2. CASE NextShort
  <2>1. PICK n \in Transfers(next_lba, WantSectors) : n < 3
    BY <1>2 DEF NextShort
  <2>. QED  BY <1>2, <2>1, RefillIsWhole DEF NextShort
<1>3. ASSUME batch' = batch, extent' = extent
      PROVE  ReadsWithinExtent'
  BY <1>3 DEF ReadsWithinExtent, Start
<1>. QED
  BY <1>1, <1>2, <1>3
  DEF Next, NextExhausted, NextBuffered, NextError, Take, iterVars

(* With a drive that transfers in full or fails, no sector outside of the   *)
(* extent is ever in the buffer: the last batch is cut to what is left.     *)
THEOREM ReadsStayInExtent == Spec => []ReadsWithinExtent
<1>1. Init => (FullTransfers => Exact) /\ ReadsWithinExtent
  BY InitExact DEF Init, ReadsWithinExtent
<1>2. IInv /\ (FullTransfers => Exact) /\ ReadsWithinExtent /\ [Next]_iterVars
        => (FullTransfers => Exact)' /\ ReadsWithinExtent'
  <2>. SUFFICES ASSUME IInv, FullTransfers => Exact, ReadsWithinExtent,
                       [Next]_iterVars
                PROVE  (FullTransfers => Exact)' /\ ReadsWithinExtent'
    OBVIOUS
  <2>1. FullTransfers => Exact' /\ ReadsWithinExtent'
    BY StepRefines, WithinStep
  <2>2. ~FullTransfers => ReadsWithinExtent'
    BY DriveStays DEF ReadsWithinExtent
  <2>. QED  BY <2>1, <2>2, DriveStays
<1>. QED  BY <1>1, <1>2, SpecIInv, PTL DEF Spec

(* What was handed out is a beginning of the extent, unit by unit.          *)
OutIsPrefix ==
  /\ Len(out) <= extent.num_units
  /\ \A k \in 1..Len(out) :
       out[k] = extent.start_lba + SECTORS_PER_UNIT * (k - 1)

LEMMA PrefixStep ==
  ASSUME IInv, OutIsPrefix, [Whole!Next]_(Whole!vars)
  PROVE  OutIsPrefix'
<1>1. /\ extent.start_lba \in Nat /\ extent.num_units \in Nat
      /\ out \in Seq(Nat) /\ Len(out) \in Nat
  BY RawUnitIterAssumption DEF IInv, TypeOK
<1>2. UNCHANGED [first |-> extent.start_lba, units |-> extent.num_units]
  BY DEF Whole!Next, Whole!Deliver, Whole!Fail, Whole!End, Whole!vars
<1>3. extent.start_lba' = extent.start_lba /\ extent.num_units' = extent.num_units
  BY <1>2
<1>4. CASE out' = out
  BY <1>3, <1>4 DEF OutIsPrefix
<1>5. CASE Whole!Deliver
  <2>. DEFINE e == extent.start_lba + SECTORS_PER_UNIT * ((Len(out) + 1) - 1)
  <2>1. Len(out) < extent.num_units /\ out' = Append(out, e)
    BY <1>5 DEF Whole!Deliver, Whole!UnitAt
  <2>2. e \in Nat
    BY <1>1 DEF SECTORS_PER_UNIT
  <2>3. /\ Len(out') = Len(out) + 1 /\ out'[Len(out) + 1] = e
        /\ \A k \in 1..Len(out) : out'[k] = out[k]
    <3>. HIDE DEF e
    <3>. QED  BY <1>1, <2>1, <2>2
  <2>4. ASSUME NEW k \in 1..Len(out')
        PROVE  out'[k] = extent.start_lba + SECTORS_PER_UNIT * (k - 1)
    <3>1. CASE k = Len(out) + 1
      BY <2>3, <3>1
    <3>2. CASE k # Len(out) + 1
      <4>1. k \in 1..Len(out)
        BY <1>1, <2>3, <3>2
      <4>. QED  BY <2>3, <4>1 DEF OutIsPrefix
    <3>. QED  BY <3>1, <3>2
  <2>5. Len(out') <= extent.num_units
    BY <1>1, <2>1, <2>3
  <2>. QED  BY <1>3, <2>4, <2>5 DEF OutIsPrefix
<1>. QED
  BY <1>4, <1>5 DEF Whole!Next, Whole!Fail, Whole!End, Whole!vars

LEMMA SpecExact ==
  Spec => [](IInv /\ (FullTransfers => Exact /\ OutIsPrefix))
<1>1. Init => (FullTransfers => Exact /\ OutIsPrefix)
  <2>. SUFFICES ASSUME Init, FullTransfers PROVE Exact /\ OutIsPrefix
    OBVIOUS
  <2>1. extent.num_units \in Nat /\ out = << >>
    BY RawUnitIterAssumption DEF Init
  <2>. QED  BY <2>1, InitExact DEF OutIsPrefix
<1>2. IInv /\ (FullTransfers => Exact /\ OutIsPrefix) /\ [Next]_iterVars
        => (FullTransfers => Exact /\ OutIsPrefix)'
  <2>. SUFFICES ASSUME IInv, FullTransfers => Exact /\ OutIsPrefix,
                       [Next]_iterVars, FullTransfers'
                PROVE  Exact' /\ OutIsPrefix'
    OBVIOUS
  <2>. QED  BY StepRefines, PrefixStep, DriveStays
<1>. QED  BY <1>1, <1>2, SpecIInv, PTL DEF Spec

(* "Streams ... Aligned Units from a disc_extent" (libredrive.rs:44): with  *)
(* a drive that transfers in full or fails, and an extent that a u32 holds, *)
(* every unit handed out lies in the extent.  The run reader_extent shows   *)
(* that short transfers are enough to break it.                             *)
THEOREM OnlyUnitsOfTheExtent == Spec => [](FullTransfers => OnlyUnitsOfExtent)
<1>1. ASSUME IInv, Exact, OutIsPrefix PROVE OnlyUnitsOfExtent
  <2>1. /\ extent.num_units \in Nat /\ Start \in Nat /\ out \in Seq(Nat)
        /\ extent.start_lba = Start
    BY <1>1, RawUnitIterAssumption DEF IInv, TypeOK, Exact, Start
  <2>. SUFFICES ASSUME NEW k \in 1..Len(out)
                PROVE  /\ out[k] >= Start
                       /\ out[k] + 3 <= Start + 3 * extent.num_units
    BY <2>1 DEF OnlyUnitsOfExtent, SECTORS_PER_UNIT
  <2>2. out[k] = Start + 3 * (k - 1) /\ k <= extent.num_units /\ k \in Nat
        /\ k >= 1
    BY <1>1, <2>1 DEF OutIsPrefix, SECTORS_PER_UNIT
  <2>. QED  BY <2>1, <2>2
<1>. QED  BY <1>1, SpecExact, PTL
=============================================================================

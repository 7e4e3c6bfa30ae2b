------------------------- MODULE DecryptDiscProofs -------------------------
(***************************************************************************)
(* Theorems about DecryptDisc, for every table, batch size, extent, medium *)
(* and number of resets.                                                   *)
(*                                                                         *)
(* What the reader alone guarantees is not proved again: a run of the      *)
(* command is a behaviour of RawUnitIter, so that the theorems of          *)
(* RawUnitIterProofs hold of it.                                           *)
(***************************************************************************)
EXTENDS DecryptDisc, SequenceTheorems, TLAPS

Proven == INSTANCE RawUnitIterProofs

Units == [lba : Nat, bus : BOOLEAN]

(* What the reader handed out is in the file, or about to be written.       *)
WriterHolds ==
  /\ file \in Seq(Units) /\ pending \in Seq(Units)
  /\ phase \notin {"write", "exit"} => pending = << >>
  /\ phase = "write" => Len(pending) = 1

(* Only a drive that gave the signature is read.                            *)
UnlockedFirst ==
  /\ libredrive => kind = "libre"
  /\ phase \in {"pull", "write"} => libredrive

(* The parts that hold of every run.                                        *)
IInv ==
  /\ TypeOK
  /\ WriterHolds
  /\ FileMatchesReader
  /\ UnlockedFirst
  /\ PlainDriveIsNotRead

(* With the drive to itself the command learns of every reset: as long as   *)
(* none is to be reported, the drive is raw or answered the commands it was *)
(* sent.                                                                    *)
DriveFollows ==
  /\ phase # "exit" /\ ~attention => raw \/ scraped = cmd
  /\ ~batch_bus
  /\ \A k \in DOMAIN pending : ~pending[k].bus

-----------------------------------------------------------------------------
(* The reader inside the command.                                           *)

LEMMA ReaderConstants == Proven!RawUnitIterAssumption
BY DecryptDiscAssumption DEF Proven!SECTORS_PER_UNIT

LEMMA ReaderInit == Init => Proven!Init
BY DEF Init, Reader!Init, Proven!Init

(* A step of the command is a call of next(), or leaves the reader alone.   *)
LEMMA ReaderStep == [Next]_vars => [Proven!Next]_(Proven!iterVars)
<1>. SUFFICES ASSUME [Next]_vars PROVE [Proven!Next]_(Proven!iterVars)
  OBVIOUS
<1>. USE DEF Reader!given, Proven!given
<1>1. CASE PullBuffered
  <2>1. Proven!NextBuffered
    BY <1>1 DEF PullBuffered, Reader!NextBuffered, Proven!NextBuffered,
                Reader!HoldsUnit, Proven!HoldsUnit, Reader!Take, Proven!Take,
                Reader!SECTORS_PER_UNIT, Proven!SECTORS_PER_UNIT
  <2>. QED  BY <2>1 DEF Proven!Next
<1>2. CASE PullRefilled
  <2>1. Proven!NextRefilled
    BY <1>2
    DEF PullRefilled, Reader!NextRefilled, Proven!NextRefilled,
        Reader!Refilling, Proven!Refilling, Reader!HoldsUnit, Proven!HoldsUnit,
        Reader!Take, Proven!Take, Reader!Transfers, Proven!Transfers,
        Reader!WantSectors, Proven!WantSectors, Reader!Want, Proven!Want,
        Reader!Monus, Proven!Monus,
        Reader!SECTORS_PER_UNIT, Proven!SECTORS_PER_UNIT
  <2>. QED  BY <2>1 DEF Proven!Next
<1>3. CASE PullEnd
  <2>1. CASE Reader!NextExhausted
    BY <2>1 DEF Reader!NextExhausted, Proven!NextExhausted, Proven!Next
  <2>2. CASE Reader!NextShort
    <3>1. Proven!NextShort
      BY <2>2
      DEF Reader!NextShort, Proven!NextShort,
          Reader!Refilling, Proven!Refilling, Reader!HoldsUnit,
          Proven!HoldsUnit, Reader!Transfers, Proven!Transfers,
          Reader!WantSectors, Proven!WantSectors, Reader!Want, Proven!Want,
          Reader!Monus, Proven!Monus,
          Reader!SECTORS_PER_UNIT, Proven!SECTORS_PER_UNIT
    <3>. QED  BY <3>1 DEF Proven!Next
  <2>. QED  BY <1>3, <2>1, <2>2 DEF PullEnd
<1>4. CASE PullError
  <2>1. Proven!NextError
    BY <1>4
    DEF PullError, Reader!NextError, Proven!NextError, Reader!Refilling,
        Proven!Refilling, Reader!HoldsUnit, Proven!HoldsUnit,
        Reader!SECTORS_PER_UNIT, Proven!SECTORS_PER_UNIT
  <2>. QED  BY <2>1 DEF Proven!Next
<1>5. CASE ~(PullBuffered \/ PullRefilled \/ PullEnd \/ PullError)
  <2>1. UNCHANGED readerVars
    BY <1>5
    DEF Next, Program, Create, Open, OpenFails, UnlockAnswered, UnlockRejected,
        UnlockFaulted, UnlockFails, UnlockDone, Write, WriteFails, Reset,
        AttentionTaken, vars
  <2>. QED  BY <2>1 DEF readerVars, Proven!iterVars
<1>. QED  BY <1>1, <1>2, <1>3, <1>4, <1>5

(* A run of decrypt-disc is a behaviour of the reader it is built on.       *)
THEOREM RunOfReader == Spec => Proven!Spec
<1>. QED  BY ReaderInit, ReaderStep, PTL DEF Spec, Proven!Spec

LEMMA ReaderTyped == Spec => []Reader!TypeOK
<1>1. Proven!TypeOK => Reader!TypeOK
  BY DEF Proven!TypeOK, Reader!TypeOK
<1>2. Proven!Spec => []Proven!TypeOK
  BY ReaderConstants, Proven!TypeCorrect
<1>. QED  BY <1>1, <1>2, RunOfReader, PTL

-----------------------------------------------------------------------------
(* The drive.                                                               *)

LEMMA DriveStep ==
  ASSUME DriveTypeOK, cmd \in 0..UnlockTable, [Next]_vars
  PROVE  /\ DriveTypeOK'
         /\ kind' = kind
<1>1. \/ UNCHANGED driveVars
      \/ Refuse
      \/ DriveReset
      \/ Scrape(cmd) /\ cmd < UnlockTable
  BY DEF Next, Program, Create, Open, OpenFails, UnlockAnswered,
         UnlockRejected, UnlockFaulted, UnlockFails, UnlockDone, Unlocking,
         PullBuffered, PullRefilled, PullEnd, PullError, Write, WriteFails,
         Reset, AttentionTaken, vars
<1>2. CASE UNCHANGED driveVars
  BY <1>2 DEF driveVars, DriveTypeOK
<1>3. CASE Refuse
  BY <1>3 DEF Refuse, DriveTypeOK
<1>4. CASE DriveReset
  <2>1. /\ UNCHANGED <<kind, bee>> /\ attention' = TRUE /\ raw' = FALSE
        /\ scraped' = 0
    BY <1>4 DEF DriveReset
  <2>2. resets' \in 0..MaxResets /\ scraped' \in 0..UnlockTable
        /\ scraped' # UnlockTable
    BY <1>4, <2>1, OpticalDriveAssumption DEF DriveReset, DriveTypeOK
  <2>3. bee' \in BOOLEAN
    BY <2>1, Zenon DEF DriveTypeOK
  <2>. QED  BY <2>1, <2>2, <2>3 DEF DriveTypeOK
<1>5. CASE Scrape(cmd) /\ cmd < UnlockTable
  <2>1. UNCHANGED <<kind, bee, attention, resets>>
    BY <1>5 DEF Scrape
  <2>2. scraped' \in 0..UnlockTable
    <3>1. scraped' \in {0, 1, scraped} \/ (scraped = cmd /\ scraped' = scraped + 1)
      BY <1>5 DEF Scrape
    <3>. QED  BY <1>5, <3>1, OpticalDriveAssumption DEF DriveTypeOK
  <2>3. raw' = (raw \/ (kind = "libre" /\ scraped' = UnlockTable))
    BY <1>5 DEF Scrape
  <2>4. raw' \in (IF kind' = "libre" THEN BOOLEAN ELSE {FALSE})
    <3>1. CASE kind = "libre"
      BY <2>1, <2>3, <3>1, Zenon DEF DriveTypeOK
    <3>2. CASE kind # "libre"
      BY <2>1, <2>3, <3>2, Zenon DEF DriveTypeOK
    <3>. QED  BY <3>1, <3>2
  <2>5. kind' = "libre" /\ scraped' = UnlockTable => raw'
    BY <2>1, <2>3
  <2>. QED  BY <2>1, <2>2, <2>4, <2>5 DEF DriveTypeOK
<1>. QED  BY <1>1, <1>2, <1>3, <1>4, <1>5

-----------------------------------------------------------------------------
(* write_clip, and what it holds of what the reader handed out.             *)

LEMMA WriterTyped ==
  ASSUME Writer!TypeOK, [Next]_vars
  PROVE  Writer!TypeOK'
<1>1. ASSUME Writer!ReadUnits \/ Writer!Create \/ UNCHANGED writerVars
      PROVE  Writer!TypeOK'
  BY <1>1 DEF Writer!ReadUnits, Writer!Create, writerVars, Writer!TypeOK
<1>2. ASSUME NEW how, Writer!Exit(how), how # "running"
      PROVE  Writer!TypeOK'
  BY <1>2 DEF Writer!Exit, Writer!TypeOK
<1>3. CASE Create \/ Open \/ OpenFails
  BY <1>1, <1>2, <1>3
  DEF Create, Open, OpenFails, Writer!CreateFails, Writer!ReadUnitsFails
<1>4. CASE UnlockAnswered \/ UnlockRejected \/ UnlockFaulted \/ UnlockDone
  BY <1>1, <1>2, <1>4
  DEF UnlockAnswered, UnlockRejected, UnlockFaulted, UnlockFails, UnlockDone,
      Writer!ReadUnitsFails
<1>5. ASSUME NEW u, Writer!PullUnit(u)
      PROVE  Writer!TypeOK'
  BY <1>5 DEF Writer!PullUnit, Writer!TypeOK
<1>6. CASE PullBuffered \/ PullRefilled
  BY <1>5, <1>6 DEF PullBuffered, PullRefilled
<1>7. CASE PullEnd \/ PullError
  BY <1>2, <1>7 DEF PullEnd, PullError, Writer!PullEnd, Writer!PullError
<1>8. CASE Write
  BY <1>8 DEF Write, Writer!WriteAll, Writer!TypeOK
<1>9. CASE WriteFails
  BY <1>9 DEF WriteFails, Writer!WriteFails, Writer!TypeOK
<1>10. CASE Reset \/ AttentionTaken \/ UNCHANGED vars
  BY <1>1, <1>10 DEF Reset, AttentionTaken, vars
<1>. QED
  BY <1>3, <1>4, <1>6, <1>7, <1>8, <1>9, <1>10 DEF Next, Program

(* The unit that a call hands out is the one it names to write_clip.        *)
LEMMA UnitHandedOver ==
  ASSUME IInv, PullBuffered \/ PullRefilled
  PROVE  \E e \in Nat, b \in BOOLEAN :
           /\ Writer!PullUnit(Unit(e, b))
           /\ out' = Append(out, e)
           /\ b = batch_bus'
<1>1. batch.lba \in Nat /\ batch_pos \in Nat /\ next_lba \in Nat
      /\ batch = [lba |-> batch.lba, len |-> batch.len]
  BY DecryptDiscAssumption DEF IInv, TypeOK, Reader!TypeOK
<1>2. batch_bus \in BOOLEAN /\ bee \in BOOLEAN
  BY DEF IInv, TypeOK, DriveTypeOK
<1>3. CASE PullBuffered
  <2>1. /\ out' = Append(out, batch.lba + batch_pos)
        /\ Writer!PullUnit(Unit(batch.lba + batch_pos, batch_bus))
        /\ batch_bus' = batch_bus
    BY <1>3 DEF PullBuffered, Reader!NextBuffered, Reader!Take
  <2>2. batch.lba + batch_pos \in Nat
    BY <1>1
  <2>. QED  BY <1>2, <2>1, <2>2, Zenon
<1>4. CASE PullRefilled
  <2>1. PICK len : Reader!Take([lba |-> next_lba, len |-> len], 0)
    BY <1>4 DEF PullRefilled, Reader!NextRefilled
  <2>2. out' = Append(out, next_lba)
    BY <1>1, <2>1 DEF Reader!Take
  <2>3. Writer!PullUnit(Unit(next_lba, batch_bus')) /\ batch_bus' = SendsBus
    BY <1>4 DEF PullRefilled
  <2>4. batch_bus' \in BOOLEAN
    BY <1>2, <2>3, Zenon DEF SendsBus
  <2>. QED  BY <1>1, <2>2, <2>3, <2>4, Zenon
<1>. QED  BY <1>3, <1>4

LEMMA Handing ==
  ASSUME IInv, PullBuffered \/ PullRefilled
  PROVE  WriterHolds' /\ FileMatchesReader'
<1>1. PICK e \in Nat, b \in BOOLEAN :
        Writer!PullUnit(Unit(e, b)) /\ out' = Append(out, e)
  BY UnitHandedOver
<1>. DEFINE u == Unit(e, b)
<1>2. u \in Units /\ u.lba = e
  BY DEF Units, Unit
<1>3. /\ phase = "pull" /\ phase' = "write" /\ pending' = <<u>>
      /\ UNCHANGED <<file, torn, n, exit>>
  BY <1>1 DEF Writer!PullUnit
<1>. HIDE DEF u
<1>4. file \in Seq(Units) /\ pending = << >> /\ out \in Seq(Nat)
  BY <1>3 DEF IInv, WriterHolds, TypeOK, Reader!TypeOK
<1>5. WriterHolds'
  BY <1>2, <1>3, <1>4 DEF WriterHolds
<1>6. /\ n = Len(file) /\ Len(out) = Len(file)
      /\ \A k \in 1..Len(out) : file[k].lba = out[k]
      /\ torn => exit = "write failed"
  <2>1. file \o pending = file
    BY <1>4, ConcatEmptySeq, Zenon
  <2>2. DOMAIN out = 1..Len(out)
    BY <1>4
  <2>. QED  BY <2>1, <2>2 DEF IInv, FileMatchesReader
<1>7. /\ file \o <<u>> = Append(file, u)
      /\ Len(Append(file, u)) = Len(file) + 1
      /\ Append(file, u)[Len(file) + 1] = u
      /\ \A k \in 1..Len(file) : Append(file, u)[k] = file[k]
  BY <1>2, <1>4
<1>8. /\ Len(out') = Len(out) + 1
      /\ out'[Len(out) + 1] = e
      /\ \A k \in 1..Len(out) : out'[k] = out[k]
      /\ DOMAIN out' = 1..(Len(out) + 1)
  BY <1>1, <1>4
<1>9. \A k \in DOMAIN out' : Append(file, u)[k].lba = out'[k]
  <2>. SUFFICES ASSUME NEW k \in 1..(Len(out) + 1)
                PROVE  Append(file, u)[k].lba = out'[k]
    BY <1>8
  <2>1. CASE k = Len(out) + 1
    BY <1>2, <1>6, <1>7, <1>8, <2>1
  <2>2. CASE k # Len(out) + 1
    <3>1. k \in 1..Len(out) /\ k \in 1..Len(file)
      <4>1. Len(out) \in Nat
        BY <1>4
      <4>2. k \in 1..Len(out)
        BY <2>2, <4>1
      <4>3. Len(out) = Len(file)
        BY <1>6
      <4>. QED  BY <4>2, <4>3
    <3>. QED  BY <1>6, <1>7, <1>8, <3>1
  <2>. QED  BY <2>1, <2>2
<1>10. file' \o pending' = Append(file, u)
  BY <1>3, <1>7
<1>11. Len(out') = Len(file' \o pending')
  BY <1>6, <1>7, <1>8, <1>10
<1>. QED  BY <1>3, <1>5, <1>6, <1>9, <1>10, <1>11 DEF FileMatchesReader

LEMMA Writing ==
  ASSUME IInv, Write \/ WriteFails
  PROVE  WriterHolds' /\ FileMatchesReader'
<1>1. phase = "write" /\ UNCHANGED readerVars
  BY DEF Write, WriteFails, Writer!WriteAll, Writer!WriteFails
<1>2. file \in Seq(Units) /\ pending \in Seq(Units) /\ Len(pending) = 1
  BY <1>1 DEF IInv, WriterHolds
<1>3. out' = out /\ exit = "running"
  BY <1>1 DEF readerVars, IInv, TypeOK, Writer!TypeOK
<1>4. CASE Write
  <2>1. /\ file' = file \o pending /\ pending' = << >> /\ phase' = "pull"
        /\ n' = n + 1 /\ UNCHANGED <<torn, exit>>
    BY <1>4 DEF Write, Writer!WriteAll
  <2>2. /\ file' \in Seq(Units) /\ Len(file') = Len(file) + 1
        /\ file' \o << >> = file'
    <3>1. /\ file \o pending \in Seq(Units)
          /\ Len(file \o pending) = Len(file) + Len(pending)
      BY <1>2, ConcatProperties, Zenon
    <3>. QED  BY <1>2, <2>1, <3>1, ConcatEmptySeq
  <2>3. WriterHolds'
    BY <1>2, <2>1, <2>2 DEF WriterHolds
  <2>4. file' \o pending' = file \o pending
    BY <2>1, <2>2
  <2>5. n' = Len(file')
    BY <2>1, <2>2 DEF IInv, FileMatchesReader
  <2>. QED  BY <1>3, <2>1, <2>3, <2>4, <2>5 DEF IInv, FileMatchesReader
<1>5. CASE WriteFails
  <2>1. /\ phase' = "exit" /\ exit' = "write failed"
        /\ UNCHANGED <<file, pending, n>>
    BY <1>5 DEF WriteFails, Writer!WriteFails
  <2>. QED  BY <1>2, <1>3, <2>1 DEF WriterHolds, IInv, FileMatchesReader
<1>. QED  BY <1>4, <1>5

(* No other step changes the files or what was handed out.                  *)
LEMMA Resting ==
  ASSUME IInv, [Next]_vars,
         ~(PullBuffered \/ PullRefilled \/ Write \/ WriteFails)
  PROVE  WriterHolds' /\ FileMatchesReader'
<1>1. UNCHANGED <<out, file, torn, pending, n>>
  BY DEF Next, Program, Create, Open, OpenFails, UnlockAnswered,
         UnlockRejected, UnlockFaulted, UnlockFails, UnlockDone, PullEnd,
         PullError, Reset, AttentionTaken, vars, readerVars, writerVars,
         Writer!Create, Writer!CreateFails, Writer!ReadUnits,
         Writer!ReadUnitsFails, Writer!PullEnd, Writer!PullError, Writer!Exit,
         Reader!NextExhausted, Reader!NextShort, Reader!NextError
<1>2. \/ UNCHANGED <<phase, exit>>
      \/ phase \in {"create", "read_units", "pull"} /\ phase' # "write"
  BY DEF Next, Program, Create, Open, OpenFails, UnlockAnswered,
         UnlockRejected, UnlockFaulted, UnlockFails, UnlockDone, PullEnd,
         PullError, Reset, AttentionTaken, vars, writerVars,
         Writer!Create, Writer!CreateFails, Writer!ReadUnits,
         Writer!ReadUnitsFails, Writer!PullEnd, Writer!PullError, Writer!Exit
<1>3. WriterHolds'
  BY <1>1, <1>2 DEF IInv, WriterHolds
<1>4. torn => exit = "write failed" /\ phase = "exit"
  BY DEF IInv, FileMatchesReader, TypeOK, Writer!TypeOK
<1>5. torn' => exit' = "write failed"
  BY <1>1, <1>2, <1>4
<1>. QED  BY <1>1, <1>3, <1>5 DEF IInv, FileMatchesReader

-----------------------------------------------------------------------------
(* The unlock, which comes before the first READ(10).                       *)

LEMMA UnlockSteps ==
  ASSUME IInv, [Next]_vars
  PROVE  /\ {opened, libredrive, batch_bus}' \subseteq BOOLEAN
         /\ cmd' \in 0..UnlockTable
         /\ phase' \in {"pull", "write"} => cmd' = UnlockTable
         /\ UnlockedFirst'
<1>1. /\ cmd \in 0..UnlockTable /\ UnlockTable \in Nat
      /\ opened \in BOOLEAN /\ libredrive \in BOOLEAN /\ batch_bus \in BOOLEAN
      /\ bee \in BOOLEAN
      /\ phase \in {"pull", "write"} => cmd = UnlockTable
      /\ kind' = kind
  BY OpticalDriveAssumption, DriveStep DEF IInv, TypeOK, DriveTypeOK
<1>2. CASE UnlockAnswered
  <2>1. /\ phase = "read_units" /\ phase' = phase /\ cmd < UnlockTable
        /\ cmd' = cmd + 1 /\ UNCHANGED <<opened, batch_bus>>
        /\ libredrive' \in {kind = "libre", FALSE, libredrive}
    BY <1>2 DEF UnlockAnswered, Unlocking, writerVars
  <2>2. libredrive' \in BOOLEAN
    BY <1>1, <2>1, Zenon
  <2>3. libredrive' => kind' = "libre"
    BY <1>1, <2>1 DEF IInv, UnlockedFirst
  <2>. QED  BY <1>1, <2>1, <2>2, <2>3 DEF UnlockedFirst
<1>3. CASE Open
  BY <1>1, <1>3 DEF Open, writerVars, IInv, UnlockedFirst
<1>4. CASE UnlockDone
  <2>1. /\ cmd = UnlockTable /\ UNCHANGED <<opened, cmd, libredrive, batch_bus>>
        /\ phase' = "pull" => libredrive
        /\ phase' # "write"
    BY <1>4 DEF UnlockDone, unlockVars, Writer!ReadUnits,
                Writer!ReadUnitsFails, Writer!Exit
  <2>. QED  BY <1>1, <2>1 DEF IInv, UnlockedFirst
<1>5. CASE PullRefilled
  <2>1. /\ phase = "pull" /\ UNCHANGED <<opened, cmd, libredrive>>
        /\ batch_bus' = SendsBus
    BY <1>5 DEF PullRefilled, Writer!PullUnit, unlockVars
  <2>2. batch_bus' \in BOOLEAN
    BY <1>1, <2>1, Zenon DEF SendsBus
  <2>. QED  BY <1>1, <2>1, <2>2 DEF IInv, UnlockedFirst
<1>6. CASE ~(UnlockAnswered \/ Open \/ UnlockDone \/ PullRefilled)
  <2>1. UNCHANGED <<opened, cmd, libredrive, batch_bus>>
    BY <1>6
    DEF Next, Program, Create, OpenFails, UnlockRejected, UnlockFaulted,
        UnlockFails, PullBuffered, PullEnd, PullError, Write, WriteFails,
        Reset, AttentionTaken, vars, unlockVars
  <2>2. phase' \in {"pull", "write"} => phase \in {"pull", "write"}
    BY <1>6
    DEF Next, Program, Create, OpenFails, UnlockRejected, UnlockFaulted,
        UnlockFails, PullBuffered, PullEnd, PullError, Write, WriteFails,
        Reset, AttentionTaken, vars, writerVars, Writer!Create,
        Writer!CreateFails, Writer!ReadUnitsFails, Writer!PullUnit,
        Writer!PullEnd, Writer!PullError, Writer!WriteAll, Writer!WriteFails,
        Writer!Exit
  <2>. QED  BY <1>1, <2>1, <2>2 DEF IInv, UnlockedFirst
<1>. QED  BY <1>2, <1>3, <1>4, <1>5, <1>6

(* A unit is read and written only by a run whose drive gave the signature. *)
LEMMA PlainStep ==
  ASSUME IInv, [Next]_vars
  PROVE  PlainDriveIsNotRead'
<1>1. kind' = kind
  BY DriveStep DEF IInv, TypeOK
<1>2. CASE phase \in {"pull", "write"}
  BY <1>1, <1>2 DEF IInv, UnlockedFirst, PlainDriveIsNotRead
<1>3. CASE phase \notin {"pull", "write"}
  <2>1. UNCHANGED <<batch, file>>
    BY <1>3
    DEF Next, Program, Create, Open, OpenFails, UnlockAnswered,
        UnlockRejected, UnlockFaulted, UnlockFails, UnlockDone, PullBuffered,
        PullRefilled, PullEnd, PullError, Write, WriteFails, Reset,
        AttentionTaken, vars, readerVars, writerVars, Writer!Create,
        Writer!CreateFails, Writer!ReadUnits, Writer!ReadUnitsFails,
        Writer!PullUnit, Writer!PullEnd, Writer!PullError, Writer!WriteAll,
        Writer!WriteFails, Writer!Exit
  <2>. QED  BY <1>1, <2>1 DEF IInv, PlainDriveIsNotRead
<1>. QED  BY <1>2, <1>3

-----------------------------------------------------------------------------
LEMMA InitIInv == Init => IInv
<1>. SUFFICES ASSUME Init PROVE IInv
  OBVIOUS
<1>1. /\ phase = "create" /\ exit = "running" /\ torn = FALSE /\ n = 0
      /\ file = << >> /\ pending = << >> /\ out = << >> /\ batch.len = 0
      /\ opened = FALSE /\ cmd = 0 /\ libredrive = FALSE /\ batch_bus = FALSE
  BY DEF Init, Reader!Init, Writer!Init
<1>2. TypeOK
  <2>1. Reader!TypeOK
    <3>1. Proven!TypeOK
      BY ReaderInit, ReaderConstants, Proven!InitIInv DEF Proven!IInv
    <3>. QED  BY <3>1 DEF Proven!TypeOK, Reader!TypeOK
  <2>2. Writer!TypeOK
    BY <1>1 DEF Writer!TypeOK
  <2>3. DriveTypeOK
    <3>1. /\ kind \in Kinds /\ scraped = 0 /\ attention = FALSE /\ resets = 0
          /\ raw \in (IF kind = "libre" THEN BOOLEAN ELSE {FALSE})
      BY DEF Init, DriveInit
    <3>2. bee \in BOOLEAN
      BY Zenon DEF Init, DriveInit
    <3>3. 0 \in 0..UnlockTable /\ UnlockTable # 0 /\ 0 \in 0..MaxResets
      BY OpticalDriveAssumption
    <3>. QED  BY <3>1, <3>2, <3>3 DEF DriveTypeOK
  <2>4. cmd \in 0..UnlockTable
    BY <1>1, OpticalDriveAssumption
  <2>5. shared \in Shared
    BY DEF Init
  <2>. QED  BY <1>1, <2>1, <2>2, <2>3, <2>4, <2>5 DEF TypeOK
<1>3. WriterHolds
  BY <1>1 DEF WriterHolds
<1>4. FileMatchesReader
  BY <1>1 DEF FileMatchesReader
<1>. QED
  BY <1>1, <1>2, <1>3, <1>4 DEF IInv, UnlockedFirst, PlainDriveIsNotRead

(* No program comes to the drive, and none leaves it.                       *)
LEMMA SharedStays == [Next]_vars => shared' = shared
BY DEF Next, Program, Create, Open, OpenFails, UnlockAnswered, UnlockRejected,
       UnlockFaulted, UnlockFails, UnlockDone, PullBuffered, PullRefilled,
       PullEnd, PullError, Write, WriteFails, Reset, AttentionTaken, vars

LEMMA NextIInv == IInv /\ Reader!TypeOK' /\ [Next]_vars => IInv'
<1>. SUFFICES ASSUME IInv, Reader!TypeOK', [Next]_vars PROVE IInv'
  OBVIOUS
<1>1. TypeOK'
  BY DriveStep, WriterTyped, UnlockSteps, SharedStays DEF IInv, TypeOK
<1>2. WriterHolds' /\ FileMatchesReader'
  BY Handing, Writing, Resting
<1>3. UnlockedFirst' /\ PlainDriveIsNotRead'
  BY UnlockSteps, PlainStep
<1>. QED  BY <1>1, <1>2, <1>3 DEF IInv

THEOREM Inductive == Spec => []IInv
<1>. QED  BY InitIInv, NextIInv, ReaderTyped, PTL DEF Spec

(* The replay never runs past the table, units are pulled only when all of  *)
(* it was answered, and the reader inside the command never leaves its      *)
(* batch (libredrive.rs:33-42, 58-61).                                      *)
THEOREM TypeCorrect == Spec => []TypeOK
<1>1. IInv => TypeOK
  BY DEF IInv
<1>. QED  BY <1>1, Inductive, PTL

(* The file holds the units the reader handed out, in the order it did, but *)
(* one that is being written or was lost, and the count is that of its      *)
(* whole units (main.rs:126-143).                                           *)
THEOREM FileIsWhatWasRead == Spec => []FileMatchesReader
<1>1. IInv => FileMatchesReader
  BY DEF IInv
<1>. QED  BY <1>1, Inductive, PTL

(* A drive without the chipset is never sent a READ(10), and leaves the     *)
(* output file empty (libredrive.rs:28-30).                                 *)
THEOREM PlainDriveStaysUnread == Spec => []PlainDriveIsNotRead
<1>1. IInv => PlainDriveIsNotRead
  BY DEF IInv
<1>. QED  BY <1>1, Inductive, PTL

-----------------------------------------------------------------------------
(* How a run may succeed, with any drive.                                   *)

(* Nothing is lost between what was handed out and what is left to ask for. *)
Counted == Len(out) + units_left = extent.num_units

EndedRight ==
  exit = "ok" =>
    /\ phase = "exit"
    /\ n + units_left = extent.num_units
    /\ units_left = 0 \/ batch.len < 3

LEMMA EndedInit == Init => Counted /\ EndedRight
<1>. SUFFICES ASSUME Init PROVE Counted /\ EndedRight
  OBVIOUS
<1>1. /\ out = << >> /\ units_left = extent.num_units /\ exit = "running"
      /\ extent.num_units \in Nat
  BY DecryptDiscAssumption DEF Init, Reader!Init, Writer!Init
<1>. QED  BY <1>1 DEF Counted, EndedRight

LEMMA EndedStep ==
  ASSUME IInv, Counted, EndedRight, [Next]_vars
  PROVE  Counted' /\ EndedRight'
<1>1. /\ units_left \in Nat /\ out \in Seq(Nat) /\ Len(out) \in Nat
      /\ phase # "exit" <=> exit = "running"
  BY DEF IInv, TypeOK, Reader!TypeOK, Writer!TypeOK
<1>2. CASE PullBuffered \/ PullRefilled
  <2>1. PICK e : out' = Append(out, e) /\ units_left' = units_left - 1
                 /\ extent' = extent
    BY <1>2 DEF PullBuffered, PullRefilled, Reader!NextBuffered,
                Reader!NextRefilled, Reader!Take, Reader!given
  <2>2. phase = "pull" /\ exit' = exit
    BY <1>2 DEF PullBuffered, PullRefilled, Writer!PullUnit
  <2>3. Len(out') = Len(out) + 1
    BY <1>1, <2>1
  <2>. QED  BY <1>1, <2>1, <2>2, <2>3 DEF Counted, EndedRight
<1>3. CASE PullEnd
  <2>1. /\ phase = "pull" /\ phase' = "exit" /\ n' = n
        /\ UNCHANGED <<out, units_left, extent>>
    BY <1>3 DEF PullEnd, Writer!PullEnd, Writer!Exit, Reader!NextExhausted,
                Reader!NextShort, Reader!given
  <2>2. n = Len(out)
    <3>1. pending = << >> /\ file \in Seq(Units)
      BY <2>1 DEF IInv, WriterHolds
    <3>2. file \o pending = file
      BY <3>1, ConcatEmptySeq, Zenon
    <3>. QED  BY <3>2 DEF IInv, FileMatchesReader
  <2>3. units_left' = 0 \/ batch'.len < 3
    <3>1. CASE Reader!NextExhausted
      BY <2>1, <3>1 DEF Reader!NextExhausted
    <3>2. CASE Reader!NextShort
      BY <3>2 DEF Reader!NextShort, Reader!SECTORS_PER_UNIT
    <3>. QED  BY <1>3, <3>1, <3>2 DEF PullEnd
  <2>. QED  BY <1>1, <2>1, <2>2, <2>3 DEF Counted, EndedRight
<1>4. CASE PullError
  BY <1>4 DEF PullError, Reader!NextError, Reader!given, Writer!PullError,
              Writer!Exit, Counted, EndedRight
<1>5. CASE ~(PullBuffered \/ PullRefilled \/ PullEnd \/ PullError)
  <2>1. UNCHANGED <<out, units_left, extent, batch>>
    BY <1>5
    DEF Next, Program, Create, Open, OpenFails, UnlockAnswered, UnlockRejected,
        UnlockFaulted, UnlockFails, UnlockDone, Write, WriteFails, Reset,
        AttentionTaken, vars, readerVars
  <2>2. exit' = "ok" => exit = "ok" /\ UNCHANGED <<phase, n>>
    BY <1>1, <1>5
    DEF Next, Program, Create, Open, OpenFails, UnlockAnswered, UnlockRejected,
        UnlockFaulted, UnlockFails, UnlockDone, Write, WriteFails, Reset,
        AttentionTaken, vars, writerVars, EndedRight, Writer!Create,
        Writer!CreateFails, Writer!ReadUnits, Writer!ReadUnitsFails,
        Writer!WriteAll, Writer!WriteFails, Writer!Exit
  <2>. QED  BY <2>1, <2>2 DEF Counted, EndedRight
<1>. QED  BY <1>2, <1>3, <1>4, <1>5

(* A run that succeeds with less than it was asked for took a transfer of   *)
(* less than a unit for the end of the medium: nothing else, of all that    *)
(* drives, resets, other programs and u32 cuts may do, ends it so.          *)
THEOREM OnlyCutShort == Spec => []SuccessUnlessCutShort
<1>1. IInv /\ Counted /\ EndedRight => SuccessUnlessCutShort
  <2>. SUFFICES ASSUME IInv, Counted, EndedRight, exit = "ok",
                       n < extent.num_units
                PROVE  batch.len < 3 /\ units_left = extent.num_units - n
    BY DEF SuccessUnlessCutShort, Reader!SECTORS_PER_UNIT
  <2>1. n \in Nat /\ units_left \in Nat
    BY DEF IInv, TypeOK, Reader!TypeOK, Writer!TypeOK
  <2>. QED  BY <2>1 DEF EndedRight
<1>2. IInv /\ Counted /\ EndedRight /\ [Next]_vars => Counted' /\ EndedRight'
  BY EndedStep
<1>. QED  BY <1>1, <1>2, EndedInit, Inductive, PTL DEF Spec

-----------------------------------------------------------------------------
(* A drive that no other program sends commands to.                         *)

LEMMA InitFollows == Init => DriveFollows /\ NeverBusEncrypted
BY DEF Init, Writer!Init, DriveInit, DriveFollows, NeverBusEncrypted

(* The drive's place in the table is that of the replay, until a reset that *)
(* it has yet to report.                                                    *)
LEMMA FollowsStep ==
  ASSUME ~shared, IInv, DriveFollows, [Next]_vars
  PROVE  phase' # "exit" /\ ~attention' => raw' \/ scraped' = cmd'
<1>1. CASE UnlockAnswered
  <2>1. phase # "exit" /\ ~attention /\ (raw => raw') /\ cmd' = cmd + 1
    BY <1>1 DEF UnlockAnswered, Unlocking, Scrape
  <2>2. CASE raw
    BY <2>1, <2>2
  <2>3. CASE ~raw
    <3>1. scraped = cmd
      BY <2>1, <2>3 DEF DriveFollows
    <3>2. scraped' = scraped + 1
      BY <1>1, <2>3, <3>1 DEF UnlockAnswered, Scrape
    <3>. QED  BY <2>1, <3>1, <3>2
  <2>. QED  BY <2>2, <2>3
<1>2. CASE Reset
  BY <1>2 DEF Reset, DriveReset
<1>3. CASE UnlockRejected \/ UnlockFaulted \/ PullError
  BY <1>3 DEF UnlockRejected, UnlockFaulted, UnlockFails, PullError,
              Writer!ReadUnitsFails, Writer!PullError, Writer!Exit
<1>4. CASE AttentionTaken
  BY <1>4 DEF AttentionTaken
<1>5. CASE ~(UnlockAnswered \/ Reset \/ UnlockRejected \/ UnlockFaulted
              \/ PullError \/ AttentionTaken)
  <2>1. UNCHANGED <<attention, raw, scraped, cmd>>
    BY <1>5 DEF Next, Program, Create, Open, OpenFails, UnlockDone,
                PullBuffered, PullRefilled, PullEnd, Write, WriteFails, vars,
                unlockVars, driveVars
  <2>2. phase' # "exit" => phase # "exit"
    BY <1>5 DEF Next, Program, Create, Open, OpenFails, UnlockDone,
                PullBuffered, PullRefilled, PullEnd, Write, WriteFails, vars,
                writerVars, Writer!Create, Writer!CreateFails,
                Writer!ReadUnits, Writer!ReadUnitsFails, Writer!PullUnit,
                Writer!PullEnd, Writer!WriteAll, Writer!WriteFails, Writer!Exit
  <2>. QED  BY <2>1, <2>2 DEF DriveFollows
<1>. QED  BY <1>1, <1>2, <1>3, <1>4, <1>5

(* So a READ(10) that succeeds is answered by a drive that is raw.          *)
LEMMA BatchIsRaw ==
  ASSUME IInv, DriveFollows, [Next]_vars
  PROVE  ~batch_bus'
<1>1. CASE PullRefilled
  <2>1. phase = "pull" /\ ~attention /\ batch_bus' = SendsBus
    BY <1>1 DEF PullRefilled, Writer!PullUnit
  <2>2. (raw \/ scraped = cmd) /\ cmd = UnlockTable /\ kind = "libre"
    BY <2>1 DEF DriveFollows, IInv, TypeOK, UnlockedFirst
  <2>3. raw
    BY <2>2 DEF IInv, TypeOK, DriveTypeOK
  <2>. QED  BY <2>1, <2>3 DEF SendsBus
<1>2. CASE ~PullRefilled
  <2>1. batch_bus' = batch_bus
    BY <1>2
    DEF Next, Program, Create, Open, OpenFails, UnlockAnswered, UnlockRejected,
        UnlockFaulted, UnlockFails, UnlockDone, PullBuffered, PullEnd,
        PullError, Write, WriteFails, Reset, AttentionTaken, vars
  <2>. QED  BY <2>1 DEF DriveFollows
<1>. QED  BY <1>1, <1>2

LEMMA BusStep ==
  ASSUME ~shared, IInv, DriveFollows, NeverBusEncrypted, [Next]_vars
  PROVE  DriveFollows' /\ NeverBusEncrypted'
<1>1. ~batch_bus' /\ (phase' # "exit" /\ ~attention' => raw' \/ scraped' = cmd')
  BY BatchIsRaw, FollowsStep
<1>2. CASE PullBuffered \/ PullRefilled
  <2>1. PICK e \in Nat, b \in BOOLEAN :
          Writer!PullUnit(Unit(e, b)) /\ b = batch_bus'
    BY <1>2, UnitHandedOver
  <2>2. pending' = <<Unit(e, b)>> /\ file' = file
    BY <2>1 DEF Writer!PullUnit
  <2>3. \A k \in DOMAIN pending' : ~pending'[k].bus
    BY <1>1, <2>1, <2>2 DEF Unit
  <2>. QED  BY <1>1, <2>2, <2>3 DEF DriveFollows, NeverBusEncrypted
<1>3. CASE Write
  <2>1. file' = file \o pending /\ pending' = << >> /\ phase = "write"
    BY <1>3 DEF Write, Writer!WriteAll
  <2>2. file \in Seq(Units) /\ pending \in Seq(Units)
    BY DEF IInv, WriterHolds
  <2>3. \A k \in DOMAIN file' : ~file'[k].bus
    BY <2>1, <2>2 DEF DriveFollows, NeverBusEncrypted
  <2>. QED  BY <1>1, <2>1, <2>3 DEF DriveFollows, NeverBusEncrypted
<1>4. CASE ~(PullBuffered \/ PullRefilled \/ Write)
  <2>1. UNCHANGED <<file, pending>>
    BY <1>4
    DEF Next, Program, Create, Open, OpenFails, UnlockAnswered, UnlockRejected,
        UnlockFaulted, UnlockFails, UnlockDone, PullEnd, PullError, WriteFails,
        Reset, AttentionTaken, vars, writerVars, Writer!Create,
        Writer!CreateFails, Writer!ReadUnits, Writer!ReadUnitsFails,
        Writer!PullEnd, Writer!PullError, Writer!WriteFails, Writer!Exit
  <2>. QED  BY <1>1, <2>1 DEF DriveFollows, NeverBusEncrypted
<1>. QED  BY <1>2, <1>3, <1>4

(* "Backends must never silently emit bus-encrypted bytes" (spec 11, 11.2): *)
(* with the drive to itself the command never does, wherever and how often  *)
(* the drive is reset, and whatever the disc.                               *)
THEOREM NeverBusWhenAlone == Spec => []AloneNeverBusEncrypted
<1>1. Init => (~shared => DriveFollows /\ NeverBusEncrypted)
  BY InitFollows
<1>2. IInv /\ (~shared => DriveFollows /\ NeverBusEncrypted) /\ [Next]_vars
        => (~shared => DriveFollows /\ NeverBusEncrypted)'
  BY BusStep, SharedStays
<1>. QED
  BY <1>1, <1>2, Inductive, PTL DEF Spec, AloneNeverBusEncrypted

-----------------------------------------------------------------------------
(* A drive that transfers in full or fails: the promise of the command.     *)

(* What the reader has proved of itself.                                    *)
ReaderExact == Proven!IInv /\ Proven!Exact /\ Proven!OutIsPrefix

LEMMA RunIsExact == Spec => [](Reader!FullTransfers => ReaderExact)
<1>1. Proven!Spec => [](Proven!IInv
                        /\ (Proven!FullTransfers
                             => Proven!Exact /\ Proven!OutIsPrefix))
  BY ReaderConstants, Proven!SpecExact
<1>2. Proven!IInv /\ (Proven!FullTransfers => Proven!Exact /\ Proven!OutIsPrefix)
        => (Reader!FullTransfers => ReaderExact)
  BY DEF ReaderExact, Reader!FullTransfers, Proven!FullTransfers
<1>. QED  BY <1>1, <1>2, RunOfReader, PTL

(* The output file as ClipOutput sees it.                                   *)
Written == [k \in DOMAIN file |-> file[k].lba]

LEMMA Addresses ==
  ASSUME NEW f \in Seq(Units)
  PROVE  /\ [k \in DOMAIN f |-> f[k].lba] \in Seq(Nat)
         /\ Len([k \in DOMAIN f |-> f[k].lba]) = Len(f)
<1>1. DOMAIN f = 1..Len(f) /\ Len(f) \in Nat /\ \A k \in 1..Len(f) : f[k] \in Units
  OBVIOUS
<1>2. [k \in DOMAIN f |-> f[k].lba] \in [1..Len(f) -> Nat]
  BY <1>1 DEF Units
<1>. QED  BY <1>1, <1>2

(* A unit that is written is appended to the addresses in the file.         *)
LEMMA AddressAppended ==
  ASSUME NEW f \in Seq(Units), NEW u \in Units, NEW g, g = Append(f, u)
  PROVE  [k \in DOMAIN g |-> g[k].lba]
           = Append([k \in DOMAIN f |-> f[k].lba], u.lba)
<1>. DEFINE a == [k \in DOMAIN f |-> f[k].lba]
            b == [k \in DOMAIN g |-> g[k].lba]
<1>1. /\ g \in Seq(Units) /\ Len(g) = Len(f) + 1 /\ Len(f) \in Nat
      /\ g[Len(f) + 1] = u
      /\ \A k \in 1..Len(f) : g[k] = f[k]
      /\ u.lba \in Nat
  BY DEF Units
<1>2. a \in Seq(Nat) /\ Len(a) = Len(f) /\ b \in Seq(Nat) /\ Len(b) = Len(g)
  BY <1>1, Addresses
<1>3. /\ \A k \in 1..Len(f) : a[k] = f[k].lba
      /\ \A k \in 1..Len(g) : b[k] = g[k].lba
  BY <1>1
<1>. HIDE DEF a, b
<1>4. Append(a, u.lba) \in Seq(Nat) /\ Len(Append(a, u.lba)) = Len(b)
  BY <1>1, <1>2
<1>5. ASSUME NEW k \in 1..Len(b) PROVE Append(a, u.lba)[k] = b[k]
  <2>1. CASE k = Len(f) + 1
    <3>1. Append(a, u.lba)[k] = u.lba
      BY <1>1, <1>2, <2>1
    <3>2. k \in 1..Len(g)
      BY <1>2
    <3>3. b[k] = g[k].lba
      BY <1>3, <3>2
    <3>. QED  BY <1>1, <2>1, <3>1, <3>3, Zenon
  <2>2. CASE k # Len(f) + 1
    <3>1. k \in 1..Len(f)
      BY <1>1, <1>2, <2>2
    <3>2. k \in 1..Len(g)
      BY <1>1, <3>1
    <3>3. Append(a, u.lba)[k] = a[k]
      BY <1>1, <1>2, <3>1
    <3>. QED  BY <1>1, <1>3, <3>1, <3>2, <3>3
  <2>. QED  BY <2>1, <2>2
<1>6. b = Append(a, u.lba)
  BY <1>2, <1>4, <1>5, SeqEqual
<1>. QED  BY <1>6 DEF a, b

(* The unit that is written is the one that comes next in the extent.       *)
LEMMA WriteIsNext ==
  ASSUME IInv, ReaderExact, Writer!WriteAll
  PROVE  /\ Len(Written) < extent.num_units
         /\ Written' = Append(Written, extent.start_lba + 3 * Len(Written))
<1>1. /\ file \in Seq(Units) /\ pending \in Seq(Units) /\ Len(pending) = 1
      /\ file' = file \o pending
  BY DEF Writer!WriteAll, IInv, WriterHolds
<1>2. Len(file) \in Nat /\ pending[1] \in Units
  BY <1>1, ElementOfSeq
<1>3. file \o pending = Append(file, pending[1])
  <2>1. Len(<<pending[1]>>) = 1 /\ <<pending[1]>> \in Seq(Units)
    BY <1>2
  <2>2. pending = <<pending[1]>>
    BY <1>1, <2>1, SeqEqual
  <2>3. file \o <<pending[1]>> = Append(file, pending[1])
    BY <1>1, <1>2
  <2>. QED  BY <2>2, <2>3, Zenon
<1>. DEFINE u == pending[1]
<1>4. u \in Units /\ file' = Append(file, u)
  BY <1>1, <1>2, <1>3, Zenon
<1>5. /\ Len(out) = Len(file) + 1 /\ out \in Seq(Nat)
      /\ out[Len(file) + 1] = u.lba
  <2>. HIDE DEF u
  <2>1. Len(out) = Len(Append(file, u)) /\ out \in Seq(Nat)
        /\ \A k \in DOMAIN out : Append(file, u)[k].lba = out[k]
    BY <1>1, <1>4 DEF IInv, FileMatchesReader, TypeOK, Reader!TypeOK
  <2>2. Len(Append(file, u)) = Len(file) + 1 /\ Append(file, u)[Len(file) + 1] = u
    BY <1>1, <1>2, <1>4
  <2>3. Len(file) + 1 \in DOMAIN out
    BY <1>2, <2>1, <2>2
  <2>. QED  BY <2>1, <2>2, <2>3
<1>. HIDE DEF u
<1>6. /\ Len(out) <= extent.num_units
      /\ out[Len(file) + 1] = extent.start_lba + 3 * ((Len(file) + 1) - 1)
  <2>1. Len(file) + 1 \in 1..Len(out)
    BY <1>2, <1>5
  <2>. QED
    BY <2>1 DEF ReaderExact, Proven!OutIsPrefix, Proven!SECTORS_PER_UNIT
<1>7. Len(Written) = Len(file)
  BY <1>1, Addresses DEF Written
<1>8. Written' = Append(Written, u.lba)
  BY <1>1, <1>4, AddressAppended DEF Written
<1>9. extent.num_units \in Nat /\ (Len(file) + 1) - 1 = Len(file)
  BY <1>2, DecryptDiscAssumption DEF IInv, TypeOK, Reader!TypeOK
<1>10. u.lba = extent.start_lba + 3 * Len(Written)
  BY <1>5, <1>6, <1>7, <1>9
<1>11. Len(Written) < extent.num_units
  BY <1>2, <1>5, <1>6, <1>7, <1>9
<1>. QED  BY <1>8, <1>10, <1>11

(* Under full transfers next() reports no end before the last unit.         *)
LEMMA EndIsTheEnd ==
  ASSUME Reader!FullTransfers, IInv, ReaderExact, PullEnd
  PROVE  Len(Written) = extent.num_units
<1>1. phase = "pull"
  BY DEF PullEnd, Writer!PullEnd
<1>2. file \in Seq(Units) /\ pending = << >> /\ Len(out) = Len(file \o pending)
  BY <1>1 DEF IInv, WriterHolds, FileMatchesReader
<1>3. Len(Written) = Len(out)
  <2>1. file \o pending = file
    BY <1>2, ConcatEmptySeq, Zenon
  <2>. QED  BY <1>2, <2>1, Addresses DEF Written
<1>4. CASE Reader!NextExhausted
  <2>1. units_left = 0 /\ Len(out) + units_left = extent.num_units
    BY <1>4 DEF Reader!NextExhausted, ReaderExact, Proven!Exact
  <2>2. Len(out) \in Nat
    BY DEF IInv, TypeOK, Reader!TypeOK
  <2>. QED  BY <1>3, <2>1, <2>2
<1>5. CASE Reader!NextShort
  <2>1. PICK m \in Reader!Transfers(next_lba, Reader!WantSectors) :
          m < Reader!SECTORS_PER_UNIT
    BY <1>5 DEF Reader!NextShort
  <2>2. Proven!Refilling
    BY <1>5 DEF Reader!NextShort, Reader!Refilling, Proven!Refilling,
                Reader!HoldsUnit, Proven!HoldsUnit,
                Reader!SECTORS_PER_UNIT, Proven!SECTORS_PER_UNIT
  <2>3. m \in Proven!Transfers(next_lba, Proven!WantSectors)
        /\ m < Proven!SECTORS_PER_UNIT
    BY <2>1 DEF Reader!Transfers, Proven!Transfers, Reader!WantSectors,
                Proven!WantSectors, Reader!Want, Proven!Want, Reader!Monus,
                Proven!Monus, Reader!SECTORS_PER_UNIT, Proven!SECTORS_PER_UNIT
  <2>4. /\ Proven!WantSectors \in Nat
        /\ Proven!WantSectors >= Proven!SECTORS_PER_UNIT
        /\ Proven!Transfers(next_lba, Proven!WantSectors)
             \subseteq {Proven!WantSectors}
    BY <2>2, ReaderConstants, Proven!RefillIsWhole
    DEF ReaderExact, Reader!FullTransfers, Proven!FullTransfers
  <2>. QED  BY <2>3, <2>4 DEF Proven!SECTORS_PER_UNIT
<1>. QED  BY <1>4, <1>5 DEF PullEnd

(* The promise, as a drive that transfers in full shows it.                 *)
Whole == INSTANCE ClipOutput WITH
           Stride <- Reader!SECTORS_PER_UNIT,
           clip <- [first |-> extent.start_lba, units |-> extent.num_units],
           written <- Written,
           outcome <- Writer!Outcome

LEMMA ExtentStays == [Next]_vars => extent' = extent /\ residuals' = residuals
BY DEF Next, Program, Create, Open, OpenFails, UnlockAnswered, UnlockRejected,
       UnlockFaulted, UnlockFails, UnlockDone, PullBuffered, PullRefilled,
       PullEnd, PullError, Write, WriteFails, Reset, AttentionTaken, vars,
       readerVars, Reader!NextBuffered, Reader!NextRefilled, Reader!Take,
       Reader!NextExhausted, Reader!NextShort, Reader!NextError,
       Reader!given

LEMMA StepOutput ==
  ASSUME Reader!FullTransfers, IInv, ReaderExact, [Next]_vars
  PROVE  [Whole!Next]_(Whole!vars)
<1>1. extent' = extent
  BY ExtentStays
<1>2. ASSUME file' = file PROVE Written' = Written
  BY <1>2 DEF Written
<1>3. ASSUME file' = file, exit' = exit PROVE [Whole!Next]_(Whole!vars)
  BY <1>1, <1>2, <1>3 DEF Whole!vars, Written, Writer!Outcome
<1>4. ASSUME NEW how, Writer!Exit(how), phase # "exit",
             how \notin {"running", "ok"}
      PROVE  [Whole!Next]_(Whole!vars)
  <2>1. exit = "running" /\ exit' = how /\ file' = file
    BY <1>4 DEF IInv, TypeOK, Writer!TypeOK, Writer!Exit
  <2>2. Whole!Fail
    BY <1>1, <1>2, <1>4, <2>1 DEF Whole!Fail, Written, Writer!Outcome
  <2>. QED  BY <2>2 DEF Whole!Next
<1>5. CASE PullEnd
  <2>1. phase = "pull" /\ exit' = "ok" /\ file' = file
    BY <1>5 DEF PullEnd, Writer!PullEnd, Writer!Exit
  <2>2. exit = "running"
    BY <2>1 DEF IInv, TypeOK, Writer!TypeOK
  <2>3. Whole!Succeed
    BY <1>1, <1>2, <1>5, <2>1, <2>2, EndIsTheEnd
    DEF Whole!Succeed, Written, Writer!Outcome
  <2>. QED  BY <2>3 DEF Whole!Next
<1>6. CASE Write
  <2>1. phase = "write" /\ exit' = exit
    BY <1>6 DEF Write, Writer!WriteAll
  <2>2. exit = "running"
    BY <2>1 DEF IInv, TypeOK, Writer!TypeOK
  <2>3. Whole!WriteUnit
    BY <1>1, <1>6, <2>1, <2>2, WriteIsNext
    DEF Write, Whole!WriteUnit, Written, Writer!Outcome,
        Reader!SECTORS_PER_UNIT
  <2>. QED  BY <2>3 DEF Whole!Next
<1>7. CASE WriteFails
  <2>1. phase = "write" /\ exit' = "write failed" /\ file' = file
    BY <1>7 DEF WriteFails, Writer!WriteFails
  <2>2. exit = "running"
    BY <2>1 DEF IInv, TypeOK, Writer!TypeOK
  <2>3. Whole!Fail
    BY <1>1, <1>2, <2>1, <2>2 DEF Whole!Fail, Written, Writer!Outcome
  <2>. QED  BY <2>3 DEF Whole!Next
<1>8. CASE Create \/ OpenFails \/ PullError
  BY <1>3, <1>4, <1>8
  DEF Create, OpenFails, PullError, Writer!Create, Writer!CreateFails,
      Writer!ReadUnitsFails, Writer!PullError
<1>9. CASE UnlockRejected \/ UnlockFaulted \/ UnlockDone
  BY <1>3, <1>4, <1>9
  DEF UnlockRejected, UnlockFaulted, UnlockFails, UnlockDone,
      Writer!ReadUnits, Writer!ReadUnitsFails
<1>10. CASE Open \/ UnlockAnswered \/ PullBuffered \/ PullRefilled \/ Reset
              \/ AttentionTaken \/ UNCHANGED vars
  BY <1>3, <1>10
  DEF Open, UnlockAnswered, PullBuffered, PullRefilled, Writer!PullUnit,
      Reset, AttentionTaken, writerVars, vars
<1>. QED
  BY <1>5, <1>6, <1>7, <1>8, <1>9, <1>10 DEF Next, Program

(* What ClipOutput is shown is the command's, or nothing at all.            *)
LEMMA ShownStep ==
  ASSUME Reader!FullTransfers => [Whole!Next]_(Whole!vars), [Next]_vars
  PROVE  [Output!Next]_(Output!vars)
<1>1. UNCHANGED <<extent, residuals>>
  BY ExtentStays
<1>2. Reader!FullTransfers' = Reader!FullTransfers
  BY <1>1 DEF Reader!FullTransfers
<1>3. CASE Reader!FullTransfers
  <2>1. [Whole!Next]_(Whole!vars) /\ Reader!FullTransfers'
    BY <1>2, <1>3
  <2>. QED
    BY <1>3, <2>1
    DEF Output!Next, Output!WriteUnit, Output!Succeed, Output!Fail,
        Output!vars, Whole!Next, Whole!WriteUnit, Whole!Succeed, Whole!Fail,
        Whole!vars, Written
<1>4. CASE ~Reader!FullTransfers
  BY <1>1, <1>2, <1>4 DEF Output!vars
<1>. QED  BY <1>3, <1>4

LEMMA InitOutput == Init => Output!Init
<1>. SUFFICES ASSUME Init PROVE Output!Init
  OBVIOUS
<1>1. extent.start_lba \in Nat /\ extent.num_units \in Nat
  BY DecryptDiscAssumption DEF Init, Reader!Init
<1>2. file = << >> /\ exit = "running"
  BY DEF Init, Writer!Init
<1>. QED  BY <1>1, <1>2 DEF Output!Init, Writer!Outcome

(* "decrypt-disc runs the unlock itself, then reads M Aligned Units ...     *)
(* starting at LBA N" (README): with a drive that transfers in full or      *)
(* fails, the units of the extent, in order, each once, and success only    *)
(* with the last one in the file.                                           *)
THEOREM CommandKeepsPromise == Spec => OutputSpec
<1>1. IInv /\ (Reader!FullTransfers => ReaderExact) /\ [Next]_vars
        => [Output!Next]_(Output!vars)
  BY StepOutput, ShownStep
<1>. QED
  BY <1>1, InitOutput, Inductive, RunIsExact, PTL
  DEF Spec, OutputSpec, Output!Spec
=============================================================================

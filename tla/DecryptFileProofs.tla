------------------------- MODULE DecryptFileProofs -------------------------
(***************************************************************************)
(* Theorems about DecryptFile, for every length of unit and every set of   *)
(* file lengths: it implements UnitStream and ClipOutput.                  *)
(***************************************************************************)
EXTENDS DecryptFile, SequenceTheorems, TLAPS

(* The offset stands after the units handed out and what was gathered of    *)
(* the next one, which is not yet a unit.                                   *)
Gathered ==
  phase # "exit" =>
    /\ pos = ALIGNED_UNIT_LEN * Len(out) + (IF calling THEN filled ELSE 0)
    /\ calling => filled < ALIGNED_UNIT_LEN

(* Nothing is read before there is an output file, and after that the input *)
(* keeps its length.                                                        *)
InputStays ==
  /\ phase \in {"create", "read_units"} => pos = 0
  /\ phase = "create" => size = given
  /\ phase \in {"read_units", "pull", "write"} =>
       size = IF in_place THEN 0 ELSE given

(* Every unit handed out is the next one of the file, and there are no more *)
(* than the file has.                                                       *)
OutIsPrefix ==
  /\ \A k \in 1..Len(out) : out[k] = ALIGNED_UNIT_LEN * (k - 1)
  /\ Len(out) <= Units

(* What was handed out is in the file, or about to be written.              *)
WriterHolds ==
  /\ file \in Seq(Nat) /\ pending \in Seq(Nat)
  /\ out = file \o pending
  /\ phase \notin {"write", "exit"} => Len(pending) = 0
  /\ phase = "write" => Len(pending) = 1

IInv ==
  /\ TypeOK
  /\ Gathered
  /\ InputStays
  /\ OutIsPrefix
  /\ WriterHolds

-----------------------------------------------------------------------------
(* Whole units of a file.                                                   *)

LEMMA Division ==
  ASSUME NEW u \in Nat \ {0}, NEW s \in Nat
  PROVE  /\ s \div u \in Nat
         /\ u * (s \div u) <= s
         /\ s < u * (s \div u) + u
OBVIOUS

LEMMA UnitsGrow ==
  ASSUME NEW u \in Nat \ {0}, NEW j \in Nat, NEW k \in Nat, j <= k
  PROVE  u * j <= u * k
<1>1. PICK d \in Nat : k = j + d
  <2>1. k - j \in Nat /\ k = j + (k - j)
    OBVIOUS
  <2>. QED  BY <2>1
<1>2. u * k = u * j + u * d /\ u * d \in Nat
  BY <1>1
<1>3. u * j \in Nat
  OBVIOUS
<1>. QED  BY <1>2, <1>3

(* A unit that ends inside the file is one of its whole units.              *)
LEMMA NextUnitFits ==
  ASSUME NEW u \in Nat \ {0}, NEW s \in Nat, NEW k \in Nat, u * k + u <= s
  PROVE  k < s \div u
<1>. DEFINE q == s \div u
<1>1. q \in Nat /\ u * q <= s /\ s < u * q + u
  BY Division
<1>. HIDE DEF q
<1>2. CASE q <= k
  BY <1>1, <1>2, UnitsGrow
<1>. QED  BY <1>1, <1>2

(* When less than a unit is left, all whole units have been passed.         *)
LEMMA NoFurtherUnit ==
  ASSUME NEW u \in Nat \ {0}, NEW s \in Nat, NEW k \in Nat,
         u * k <= s, s < u * k + u
  PROVE  k = s \div u
<1>. DEFINE q == s \div u
<1>1. q \in Nat /\ u * q <= s /\ s < u * q + u
  BY Division
<1>. HIDE DEF q
<1>2. CASE q < k
  <2>1. u * (q + 1) <= u * k /\ u * (q + 1) = u * q + u
    BY <1>1, <1>2, UnitsGrow
  <2>. QED  BY <1>1, <2>1
<1>3. CASE k < q
  <2>1. u * (k + 1) <= u * q /\ u * (k + 1) = u * k + u
    BY <1>1, <1>3, UnitsGrow
  <2>. QED  BY <1>1, <2>1
<1>. QED  BY <1>1, <1>2, <1>3

-----------------------------------------------------------------------------
LEMMA Kinds ==
  ASSUME IInv
  PROVE  /\ ALIGNED_UNIT_LEN \in Nat \ {0}
         /\ size \in Nat /\ pos \in Nat /\ filled \in Nat
         /\ out \in Seq(Nat) /\ Len(out) \in Nat
         /\ Units \in Nat
<1>1. given \in Nat /\ size \in Nat
  BY DecryptFileAssumption DEF IInv, TypeOK, Reader!TypeOK
<1>2. Units \in Nat
  BY <1>1, Division, DecryptFileAssumption DEF Units
<1>. QED  BY <1>1, <1>2, DecryptFileAssumption DEF IInv, TypeOK, Reader!TypeOK

LEMMA InitIInv == Init => IInv
<1>. SUFFICES ASSUME Init PROVE IInv
  OBVIOUS
<1>1. /\ size \in Sizes /\ given = size /\ given \in Nat
      /\ pos = 0 /\ filled = 0 /\ calling = FALSE
      /\ returned = "nothing" /\ out = << >>
      /\ phase = "create" /\ exit = "running" /\ torn = FALSE /\ n = 0
      /\ file = << >> /\ pending = << >>
  BY DecryptFileAssumption DEF Init, Reader!Init, Writer!Init
<1>2. TypeOK
  <2>1. in_place \in BOOLEAN
    <3>1. in_place \in InPlace
      BY DEF Init
    <3>. QED  BY <3>1, DecryptFileAssumption, Zenon
  <2>2. Reader!TypeOK
    <3>1. calling \in BOOLEAN
      BY <1>1
    <3>. QED  BY <1>1, <3>1, DecryptFileAssumption DEF Reader!TypeOK
  <2>3. Writer!TypeOK
    BY <1>1 DEF Writer!TypeOK
  <2>. QED  BY <1>1, <2>1, <2>2, <2>3 DEF TypeOK
<1>3. Units \in Nat
  BY <1>1, Division, DecryptFileAssumption DEF Units
<1>4. Gathered /\ InputStays
  BY <1>1, DecryptFileAssumption DEF Gathered, InputStays
<1>5. OutIsPrefix /\ WriterHolds
  BY <1>1, <1>3 DEF OutIsPrefix, WriterHolds
<1>. QED  BY <1>2, <1>4, <1>5 DEF IInv

(* File::create, and what may go wrong before the first read().             *)
LEMMA BeginIInv ==
  ASSUME IInv, Create \/ CreateFails \/ Open
  PROVE  IInv'
<1>1. /\ UNCHANGED <<pos, filled, calling, returned, out, file, torn, pending, n, given, in_place>>
      /\ size' \in {0, size}
      /\ phase \in {"create", "read_units"}
      /\ <<phase', exit'>> \in {<<"read_units", "running">>, <<"pull", "running">>,
           <<"exit", "create failed">>, <<"exit", "open failed">>}
  BY DEF Create, CreateFails, Open, Writer!Create, Writer!CreateFails,
         Writer!ReadUnits, Writer!ReadUnitsFails, Writer!Exit, readerVars, inputVars,
         IInv, TypeOK, Writer!TypeOK
<1>2. TypeOK'
  <2>1. size' \in Sizes /\ size' \in Nat
    BY <1>1, DecryptFileAssumption DEF IInv, TypeOK, Reader!TypeOK
  <2>2. pos = 0 /\ filled = 0
    <3>1. pos = 0
      BY <1>1 DEF IInv, InputStays
    <3>2. filled \in Nat /\ filled <= pos
      BY Kinds DEF IInv, TypeOK, Reader!TypeOK
    <3>. QED  BY <3>1, <3>2
  <2>3. Reader!TypeOK'
    <3>1. pos' \in 0..size' /\ filled' \in 0..ALIGNED_UNIT_LEN /\ filled' <= pos'
      <4>1. pos' = 0 /\ filled' = 0
        BY <1>1, <2>2
      <4>. QED  BY <2>1, <4>1, DecryptFileAssumption
    <3>2. calling' \in BOOLEAN
      BY <1>1, Zenon DEF IInv, TypeOK, Reader!TypeOK
    <3>. QED  BY <1>1, <2>1, <3>1, <3>2 DEF IInv, TypeOK, Reader!TypeOK
  <2>4. Writer!TypeOK'
    BY <1>1 DEF IInv, TypeOK, Writer!TypeOK
  <2>5. (given \in Sizes)' /\ (in_place \in BOOLEAN)'
    BY <1>1, Zenon DEF IInv, TypeOK
  <2>6. ~calling'
    BY <1>1, Zenon DEF IInv, TypeOK
  <2>. QED  BY <2>3, <2>4, <2>5, <2>6 DEF TypeOK
<1>3. Gathered'
  BY <1>1 DEF IInv, Gathered
<1>4. InputStays'
  <2>1. CASE Create
    BY <2>1 DEF Create, Writer!Create, inputVars, IInv, InputStays
  <2>2. CASE CreateFails
    BY <2>2 DEF CreateFails, Writer!CreateFails, Writer!Exit, InputStays
  <2>3. CASE Open
    BY <2>3 DEF Open, Writer!ReadUnits, Writer!ReadUnitsFails, Writer!Exit,
                readerVars, inputVars, IInv, InputStays
  <2>. QED  BY <2>1, <2>2, <2>3
<1>5. OutIsPrefix'
  BY <1>1 DEF IInv, OutIsPrefix, Units
<1>6. WriterHolds'
  BY <1>1 DEF IInv, WriterHolds
<1>. QED  BY <1>2, <1>3, <1>4, <1>5, <1>6 DEF IInv

(* Steps that touch neither the files nor what was handed out.              *)
LEMMA SameFiles ==
  ASSUME IInv, UNCHANGED <<size, out, writerVars, inputVars>>
  PROVE  /\ InputStays' <=> (phase \in {"create", "read_units"} => pos' = 0)
         /\ OutIsPrefix'
         /\ WriterHolds'
         /\ Writer!TypeOK'
         /\ given' \in Sizes
         /\ in_place' \in BOOLEAN
<1>1. /\ UNCHANGED <<size, out, phase, file, torn, pending, n, exit>>
      /\ UNCHANGED <<given, in_place>>
  BY DEF writerVars, inputVars
<1>2. InputStays' <=> (phase \in {"create", "read_units"} => pos' = 0)
  BY <1>1 DEF IInv, InputStays
<1>3. OutIsPrefix' /\ WriterHolds'
  BY <1>1 DEF IInv, OutIsPrefix, WriterHolds, Units
<1>4. Writer!TypeOK'
  BY <1>1 DEF IInv, TypeOK, Writer!TypeOK
<1>5. given' \in Sizes /\ in_place' \in BOOLEAN
  BY <1>1, Zenon DEF IInv, TypeOK
<1>. QED  BY <1>2, <1>3, <1>4, <1>5

(* A call of next() gathers bytes of one unit, from where the last ended.   *)
LEMMA GatherIInv ==
  ASSUME IInv, Call \/ Read
  PROVE  IInv'
<1>1. UNCHANGED <<size, returned, out, writerVars, inputVars>>
  BY DEF Call, Read, Reader!CallNext, Reader!ReadMore, Reader!ReadInterrupted,
         Reader!fileVars
<1>2. phase = "pull" /\ phase' = "pull"
  BY <1>1 DEF writerVars, Call, Read, Reader!ReadMore, Reader!ReadInterrupted,
              IInv, TypeOK
<1>3. calling' = TRUE
  <2>1. CASE Call
    BY <2>1 DEF Call, Reader!CallNext
  <2>2. CASE Read
    <3>1. calling /\ calling' = calling
      BY <2>2 DEF Read, Reader!ReadMore, Reader!ReadInterrupted, Reader!fileVars
    <3>. QED  BY <3>1, Zenon DEF IInv, TypeOK, Reader!TypeOK
  <2>. QED  BY <2>1, <2>2
<1>4. /\ pos' \in 0..size /\ filled' \in Nat /\ filled' <= pos'
      /\ pos' = ALIGNED_UNIT_LEN * Len(out) + filled'
      /\ filled' < ALIGNED_UNIT_LEN
  <2>. DEFINE start == ALIGNED_UNIT_LEN * Len(out)
  <2>1. start \in Nat
    BY Kinds
  <2>2. pos \in 0..size /\ filled \in Nat /\ filled <= pos
    BY Kinds DEF IInv, TypeOK, Reader!TypeOK
  <2>. HIDE DEF start
  <2>3. pos = start + (IF calling THEN filled ELSE 0)
    BY <1>2 DEF IInv, Gathered, start
  <2>4. calling => filled < ALIGNED_UNIT_LEN
    BY <1>2 DEF IInv, Gathered
  <2>5. CASE Call
    <3>1. ~calling /\ filled' = 0 /\ pos' = pos
      BY <2>5 DEF Call, Reader!CallNext
    <3>. QED  BY <2>1, <2>2, <2>3, <3>1, Kinds DEF start
  <2>6. CASE Reader!ReadMore
    <3>1. PICK m \in Reader!Readable :
            filled + m < ALIGNED_UNIT_LEN /\ Reader!Advance(m)
      BY <2>6 DEF Reader!ReadMore
    <3>2. m \in Nat /\ pos + m <= size
      BY <2>2, <3>1, Kinds DEF Reader!Readable
    <3>3. pos' = pos + m /\ filled' = filled + m /\ calling
      BY <2>6, <3>1 DEF Reader!Advance, Reader!ReadMore
    <3>4. pos' \in 0..size /\ filled' \in Nat /\ filled' <= pos'
      BY <2>2, <3>2, <3>3, Kinds
    <3>5. pos' = start + filled'
      BY <2>1, <2>2, <2>3, <3>2, <3>3
    <3>. QED  BY <3>1, <3>3, <3>4, <3>5 DEF start
  <2>7. CASE Reader!ReadInterrupted
    <3>1. calling /\ UNCHANGED <<pos, filled>>
      BY <2>7 DEF Reader!ReadInterrupted, Reader!fileVars
    <3>. QED  BY <2>2, <2>3, <2>4, <3>1 DEF start
  <2>. QED  BY <2>5, <2>6, <2>7 DEF Read
<1>5. InputStays' /\ OutIsPrefix' /\ WriterHolds'
  BY <1>1, <1>2, SameFiles
<1>6. Gathered'
  BY <1>1, <1>3, <1>4 DEF Gathered
<1>7. TypeOK'
  <2>1. Reader!TypeOK'
    BY <1>1, <1>3, <1>4, Kinds DEF IInv, TypeOK, Reader!TypeOK
  <2>2. Writer!TypeOK' /\ given' \in Sizes /\ in_place' \in BOOLEAN
    BY <1>1, SameFiles
  <2>. QED  BY <1>2, <2>1, <2>2 DEF TypeOK
<1>. QED  BY <1>5, <1>6, <1>7 DEF IInv

(* The unit that a call hands out: the next one, whole, and in the file.    *)
LEMMA UnitPulled ==
  ASSUME IInv, PullUnit
  PROVE  /\ phase = "pull" /\ calling
         /\ pos - filled = ALIGNED_UNIT_LEN * Len(out)
         /\ pos' = ALIGNED_UNIT_LEN * (Len(out) + 1)
         /\ pos' \in 0..size
         /\ filled' = ALIGNED_UNIT_LEN
         /\ Len(out) < Units
<1>1. calling /\ phase = "pull"
  BY DEF PullUnit, Reader!ReadLast, Writer!PullUnit
<1>. DEFINE start == ALIGNED_UNIT_LEN * Len(out)
<1>2. start \in Nat
  BY Kinds
<1>. HIDE DEF start
<1>3. pos = start + filled /\ pos \in Nat /\ filled \in Nat
  BY <1>1, Kinds DEF IInv, Gathered, start
<1>4. PICK m \in Reader!Readable :
         filled + m >= ALIGNED_UNIT_LEN /\ Reader!Advance(m)
  BY DEF PullUnit, Reader!ReadLast
<1>5. m = ALIGNED_UNIT_LEN - filled /\ m \in Nat /\ pos + m <= size
  BY <1>3, <1>4, Kinds DEF Reader!Readable
<1>6. /\ pos - filled = start
      /\ pos' = start + ALIGNED_UNIT_LEN
      /\ filled' = ALIGNED_UNIT_LEN
  BY <1>2, <1>3, <1>4, <1>5, Kinds DEF Reader!Advance
<1>7. start + ALIGNED_UNIT_LEN <= size
  BY <1>2, <1>3, <1>5, Kinds
<1>8. ALIGNED_UNIT_LEN * (Len(out) + 1) = start + ALIGNED_UNIT_LEN
  BY Kinds DEF start
<1>9. ~in_place /\ size = given
  <2>1. size = IF in_place THEN 0 ELSE given
    BY <1>1 DEF IInv, InputStays
  <2>2. size # 0
    BY <1>2, <1>7, Kinds
  <2>. QED  BY <2>1, <2>2
<1>10. Len(out) < given \div ALIGNED_UNIT_LEN
  BY <1>7, <1>9, Kinds, NextUnitFits DEF start
<1>11. pos' \in 0..size
  BY <1>2, <1>6, <1>7, Kinds
<1>. QED  BY <1>1, <1>6, <1>8, <1>9, <1>10, <1>11 DEF Units, start

LEMMA PullUnitIInv ==
  ASSUME IInv, PullUnit
  PROVE  IInv'
<1>. DEFINE e == pos - filled
<1>1. /\ out' = Append(out, e) /\ pending' = <<e>>
      /\ phase' = "write" /\ calling' = FALSE /\ returned' = "unit"
      /\ UNCHANGED <<size, file, torn, n, exit, given, in_place>>
  BY DEF PullUnit, Reader!ReadLast, Reader!Return, Writer!PullUnit, inputVars
<1>2. /\ phase = "pull" /\ e = ALIGNED_UNIT_LEN * Len(out) /\ e \in Nat
      /\ pos' = ALIGNED_UNIT_LEN * (Len(out) + 1) /\ pos' \in 0..size
      /\ filled' = ALIGNED_UNIT_LEN
      /\ Len(out) + 1 <= Units
  BY UnitPulled, Kinds
<1>. HIDE DEF e
<1>3. /\ out' \in Seq(Nat) /\ Len(out') = Len(out) + 1
      /\ \A k \in 1..Len(out) : out'[k] = out[k]
      /\ out'[Len(out) + 1] = e
  BY <1>1, <1>2, Kinds
<1>4. TypeOK'
  <2>1. ALIGNED_UNIT_LEN <= ALIGNED_UNIT_LEN * (Len(out) + 1)
    BY <1>2, Kinds
  <2>2. Reader!TypeOK'
    <3>1. filled' \in 0..ALIGNED_UNIT_LEN /\ filled' <= pos'
      BY <1>2, <2>1, Kinds
    <3>2. size' \in Sizes /\ pos' \in 0..size' /\ calling' \in BOOLEAN
      BY <1>1, <1>2 DEF IInv, TypeOK, Reader!TypeOK
    <3>. QED  BY <1>1, <1>3, <3>1, <3>2 DEF Reader!TypeOK
  <2>3. Writer!TypeOK'
    BY <1>1, <1>2 DEF IInv, TypeOK, Writer!TypeOK
  <2>4. given' \in Sizes /\ in_place' \in BOOLEAN
    BY <1>1, Zenon DEF IInv, TypeOK
  <2>. QED  BY <1>1, <2>2, <2>3, <2>4 DEF TypeOK
<1>5. Gathered'
  BY <1>1, <1>2, <1>3, Kinds DEF Gathered
<1>6. InputStays'
  BY <1>1, <1>2 DEF IInv, InputStays
<1>7. OutIsPrefix'
  <2>1. Units' = Units
    BY <1>1 DEF Units
  <2>2. ASSUME NEW k \in 1..Len(out')
        PROVE  out'[k] = ALIGNED_UNIT_LEN * (k - 1)
    <3>1. CASE k = Len(out) + 1
      BY <1>2, <1>3, <3>1, Kinds
    <3>2. CASE k # Len(out) + 1
      <4>1. k \in 1..Len(out)
        BY <1>3, <3>2, Kinds
      <4>. QED  BY <1>3, <4>1 DEF IInv, OutIsPrefix
    <3>. QED  BY <3>1, <3>2
  <2>. QED  BY <1>2, <1>3, <2>1, <2>2 DEF OutIsPrefix
<1>8. WriterHolds'
  <2>1. file \in Seq(Nat) /\ pending = << >> /\ out = file
    BY <1>2 DEF IInv, WriterHolds
  <2>2. out' = file \o <<e>>
    BY <1>1, <1>2, <2>1
  <2>. QED  BY <1>1, <1>2, <2>1, <2>2 DEF WriterHolds
<1>. QED  BY <1>4, <1>5, <1>6, <1>7, <1>8 DEF IInv

(* next() returns None or an error, and the run ends.                       *)
LEMMA PullStopsIInv ==
  ASSUME IInv, PullEnd \/ PullError
  PROVE  IInv'
<1>1. /\ phase = "pull" /\ phase' = "exit" /\ exit' \in {"ok", "read failed"}
      /\ calling' = FALSE /\ returned' \in {"none", "error"}
      /\ UNCHANGED <<size, pos, filled, out, file, torn, pending, n>>
      /\ UNCHANGED <<given, in_place>>
  BY DEF PullEnd, PullError, Reader!ReadEof, Reader!ReadError, Reader!Return,
         Writer!PullEnd, Writer!PullError, Writer!Exit, inputVars
<1>2. TypeOK'
  <2>1. Reader!TypeOK'
    BY <1>1 DEF IInv, TypeOK, Reader!TypeOK
  <2>2. Writer!TypeOK'
    BY <1>1 DEF IInv, TypeOK, Writer!TypeOK
  <2>3. given' \in Sizes /\ in_place' \in BOOLEAN
    BY <1>1, Zenon DEF IInv, TypeOK
  <2>. QED  BY <1>1, <2>1, <2>2, <2>3 DEF TypeOK
<1>3. Gathered' /\ InputStays'
  BY <1>1 DEF Gathered, InputStays
<1>4. OutIsPrefix' /\ WriterHolds'
  BY <1>1 DEF IInv, OutIsPrefix, WriterHolds, Units
<1>. QED  BY <1>2, <1>3, <1>4 DEF IInv

LEMMA WriteIInv ==
  ASSUME IInv, Write
  PROVE  IInv'
<1>1. /\ phase = "write" /\ phase' \in {"pull", "exit"}
      /\ UNCHANGED <<size, pos, filled, calling, returned, out, given, in_place>>
  BY DEF Write, Writer!WriteAll, Writer!WriteFails, readerVars, inputVars
<1>2. /\ file \in Seq(Nat) /\ pending \in Seq(Nat)
      /\ out = file \o pending /\ Len(pending) = 1
  BY <1>1 DEF IInv, WriterHolds
<1>3. WriterHolds'
  <2>1. CASE Writer!WriteAll
    <3>1. file' = out /\ pending' = << >> /\ phase' = "pull"
      BY <1>2, <2>1 DEF Writer!WriteAll
    <3>. QED  BY <1>1, <3>1, Kinds DEF WriterHolds
  <2>2. CASE Writer!WriteFails
    BY <1>1, <1>2, <2>2 DEF Writer!WriteFails, WriterHolds
  <2>. QED  BY <2>1, <2>2 DEF Write
<1>4. TypeOK'
  <2>1. Reader!TypeOK'
    BY <1>1 DEF IInv, TypeOK, Reader!TypeOK
  <2>2. torn' \in BOOLEAN
    BY Zenon DEF Write, Writer!WriteAll, Writer!WriteFails, IInv, TypeOK,
                 Writer!TypeOK
  <2>3. n' \in Nat
    <3>1. n \in Nat
      BY DEF IInv, TypeOK, Writer!TypeOK
    <3>2. n' \in {n, n + 1}
      BY DEF Write, Writer!WriteAll, Writer!WriteFails
    <3>. QED  BY <3>1, <3>2
  <2>4. (phase' = "exit") <=> (exit' # "running")
    <3>1. exit = "running"
      BY <1>1 DEF IInv, TypeOK, Writer!TypeOK
    <3>. QED  BY <3>1 DEF Write, Writer!WriteAll, Writer!WriteFails
  <2>5. Writer!TypeOK'
    BY <1>1, <2>2, <2>3, <2>4 DEF Writer!TypeOK
  <2>6. given' \in Sizes /\ in_place' \in BOOLEAN
    BY <1>1, Zenon DEF IInv, TypeOK
  <2>7. ~calling'
    BY <1>1 DEF IInv, TypeOK
  <2>. QED  BY <2>1, <2>5, <2>6, <2>7 DEF TypeOK
<1>5. Gathered' /\ InputStays'
  BY <1>1 DEF IInv, Gathered, InputStays
<1>6. OutIsPrefix'
  BY <1>1 DEF IInv, OutIsPrefix, Units
<1>. QED  BY <1>3, <1>4, <1>5, <1>6 DEF IInv

LEMMA NextIInv == IInv /\ [Next]_vars => IInv'
<1>. SUFFICES ASSUME IInv, [Next]_vars PROVE IInv'
  OBVIOUS
<1>1. CASE Create \/ CreateFails \/ Open  BY <1>1, BeginIInv
<1>2. CASE Call \/ Read  BY <1>2, GatherIInv
<1>3. CASE PullUnit  BY <1>3, PullUnitIInv
<1>4. CASE PullEnd \/ PullError  BY <1>4, PullStopsIInv
<1>5. CASE Write  BY <1>5, WriteIInv
<1>6. CASE UNCHANGED vars
  BY <1>6 DEF vars, readerVars, writerVars, inputVars, IInv, TypeOK,
              Reader!TypeOK, Writer!TypeOK, Gathered, InputStays, OutIsPrefix,
              WriterHolds, Units
<1>. QED  BY <1>1, <1>2, <1>3, <1>4, <1>5, <1>6 DEF Next

THEOREM Inductive == Spec => []IInv
<1>. QED  BY InitIInv, NextIInv, PTL DEF Spec

(* The reader and the writer of `freeblue decrypt` are well-formed together: *)
(* no unit overfills its buffer, and next() is called only while write_clip  *)
(* pulls.                                                                    *)
THEOREM TypeCorrect == Spec => []TypeOK
<1>1. IInv => TypeOK
  BY DEF IInv
<1>. QED  BY <1>1, Inductive, PTL

-----------------------------------------------------------------------------
(* The command implements both promises.                                    *)

LEMMA UnitsStay == ASSUME UNCHANGED inputVars PROVE Units' = Units
BY DEF inputVars, Units

(* When read() returns 0 the units of the input are all handed out.         *)
LEMMA EndIsTheEnd ==
  ASSUME IInv, PullEnd
  PROVE  Len(out) = Units /\ file = out
<1>1. /\ calling /\ phase = "pull" /\ pos >= size
      /\ pos \in 0..size /\ filled \in Nat
  BY DEF PullEnd, Reader!ReadEof, Writer!PullEnd, IInv, TypeOK, Reader!TypeOK
<1>. DEFINE start == ALIGNED_UNIT_LEN * Len(out)
<1>2. start \in Nat
  BY Kinds
<1>3. pos = start + filled /\ filled < ALIGNED_UNIT_LEN
  BY <1>1 DEF IInv, Gathered
<1>. HIDE DEF start
<1>4. start <= size /\ size < start + ALIGNED_UNIT_LEN
  BY <1>1, <1>2, <1>3, Kinds
<1>5. Len(out) = size \div ALIGNED_UNIT_LEN
  BY <1>4, Kinds, NoFurtherUnit DEF start
<1>6. Len(out) = Units
  <2>1. size = IF in_place THEN 0 ELSE given
    BY <1>1 DEF IInv, InputStays
  <2>2. CASE in_place
    BY <2>2, Kinds DEF IInv, OutIsPrefix, Units
  <2>3. CASE ~in_place
    BY <1>5, <2>1, <2>3 DEF Units
  <2>. QED  BY <2>2, <2>3
<1>7. file = out
  BY <1>1 DEF IInv, WriterHolds
<1>. QED  BY <1>6, <1>7

LEMMA StepStream == IInv /\ [Next]_vars => [Stream!Next]_(Stream!vars)
<1>. SUFFICES ASSUME IInv, [Next]_vars PROVE [Stream!Next]_(Stream!vars)
  OBVIOUS
<1>1. CASE PullUnit
  <2>1. /\ out' = Append(out, pos - filled) /\ returned' = "unit"
        /\ UNCHANGED inputVars
    BY <1>1 DEF PullUnit, Reader!ReadLast, Reader!Return
  <2>2. /\ pos - filled = 0 + ALIGNED_UNIT_LEN * ((Len(out) + 1) - 1)
        /\ Len(out) < Units
    BY <1>1, UnitPulled, Kinds
  <2>3. Units' = Units
    BY <2>1, UnitsStay
  <2>4. Stream!Deliver
    BY <2>1, <2>2, <2>3, Zenon DEF Stream!Deliver, Stream!UnitAt
  <2>. QED  BY <2>4 DEF Stream!Next
<1>2. CASE PullEnd
  <2>1. returned' = "none" /\ out' = out /\ UNCHANGED inputVars
    BY <1>2 DEF PullEnd, Reader!ReadEof, Reader!Return
  <2>2. Units' = Units
    BY <2>1, UnitsStay
  <2>3. Stream!End
    BY <1>2, <2>1, <2>2, EndIsTheEnd DEF Stream!End
  <2>. QED  BY <2>3 DEF Stream!Next
<1>3. CASE PullError
  <2>1. returned' = "error" /\ out' = out /\ UNCHANGED inputVars
    BY <1>3 DEF PullError, Reader!ReadError, Reader!Return
  <2>2. Units' = Units
    BY <2>1, UnitsStay
  <2>3. Stream!Fail
    BY <2>1, <2>2 DEF Stream!Fail
  <2>. QED  BY <2>3 DEF Stream!Next
<1>4. CASE ~(PullUnit \/ PullEnd \/ PullError)
  <2>1. UNCHANGED <<out, returned, inputVars>>
    BY <1>4 DEF Next, Create, CreateFails, Open, Call, Read, Write, vars,
                Reader!CallNext, Reader!ReadMore, Reader!ReadInterrupted,
                Reader!fileVars, readerVars
  <2>2. Units' = Units
    BY <2>1, UnitsStay
  <2>. QED  BY <2>1, <2>2 DEF Stream!vars
<1>. QED  BY <1>1, <1>2, <1>3, <1>4

(* Appending a sequence of one element appends its element.                 *)
LEMMA OneAppended ==
  ASSUME NEW S, NEW s \in Seq(S), NEW t \in Seq(S), Len(t) = 1
  PROVE  /\ Len(s) \in Nat /\ Len(s \o t) = Len(s) + 1
         /\ s \o t = Append(s, (s \o t)[Len(s) + 1])
<1>1. t = <<t[1]>> /\ t[1] \in S
  <2>1. t[1] \in S /\ <<t[1]>> \in Seq(S) /\ Len(<<t[1]>>) = 1
    BY ElementOfSeq
  <2>. QED  BY <2>1, SeqEqual
<1>2. s \o <<t[1]>> = Append(s, t[1])
  BY <1>1
<1>3. s \o t = Append(s, t[1])
  BY <1>1, <1>2, Zenon
<1>4. Append(s, t[1])[Len(s) + 1] = t[1]
  <2>1. \A e \in S : Append(s, e)[Len(s) + 1] = e
    OBVIOUS
  <2>. QED  BY <1>1, <2>1, Zenon
<1>5. Len(s) \in Nat /\ Len(s \o t) = Len(s) + 1
  <2>1. Len(s) \in Nat
    OBVIOUS
  <2>2. Len(s \o t) = Len(s) + Len(t)
    BY ConcatProperties, Zenon
  <2>. QED  BY <2>1, <2>2
<1>. QED  BY <1>3, <1>4, <1>5, Zenon

(* The unit that is written is the one that comes next in the file.         *)
LEMMA WriteIsNext ==
  ASSUME IInv, Writer!WriteAll
  PROVE  /\ Len(file) < Units
         /\ file' = Append(file, 0 + ALIGNED_UNIT_LEN * Len(file))
<1>1. /\ file \in Seq(Nat) /\ pending \in Seq(Nat)
      /\ out = file \o pending /\ Len(pending) = 1 /\ file' = file \o pending
  BY DEF Writer!WriteAll, IInv, WriterHolds
<1>2. /\ Len(out) = Len(file) + 1 /\ Len(file) \in Nat
      /\ file' = Append(file, out[Len(file) + 1])
  BY <1>1, OneAppended
<1>3. Len(out) <= Units
  BY DEF IInv, OutIsPrefix
<1>4. out[Len(file) + 1] = ALIGNED_UNIT_LEN * ((Len(file) + 1) - 1)
  <2>1. Len(file) + 1 \in 1..Len(out)
    BY <1>2
  <2>. QED  BY <2>1 DEF IInv, OutIsPrefix
<1>5. ALIGNED_UNIT_LEN * ((Len(file) + 1) - 1) = 0 + ALIGNED_UNIT_LEN * Len(file)
  BY <1>2, Kinds
<1>. QED  BY <1>2, <1>3, <1>4, <1>5, Kinds

LEMMA StepOutput == IInv /\ [Next]_vars => [Output!Next]_(Output!vars)
<1>. SUFFICES ASSUME IInv, [Next]_vars PROVE [Output!Next]_(Output!vars)
  OBVIOUS
<1>1. CASE PullEnd
  <2>1. /\ phase = "pull" /\ exit' = "ok" /\ file' = file
        /\ UNCHANGED inputVars
    BY <1>1 DEF PullEnd, Writer!PullEnd, Writer!Exit
  <2>2. exit = "running"
    BY <2>1 DEF IInv, TypeOK, Writer!TypeOK
  <2>3. Units' = Units
    BY <2>1, UnitsStay
  <2>4. Output!Succeed
    BY <1>1, <2>1, <2>2, <2>3, EndIsTheEnd DEF Output!Succeed, Writer!Outcome
  <2>. QED  BY <2>4 DEF Output!Next
<1>2. CASE Writer!WriteAll /\ UNCHANGED inputVars
  <2>1. phase = "write" /\ exit' = exit
    BY <1>2 DEF Writer!WriteAll
  <2>2. exit = "running"
    BY <2>1 DEF IInv, TypeOK, Writer!TypeOK
  <2>3. Units' = Units
    BY <1>2, UnitsStay
  <2>4. Output!WriteUnit
    BY <1>2, <2>1, <2>2, <2>3, WriteIsNext DEF Output!WriteUnit, Writer!Outcome
  <2>. QED  BY <2>4 DEF Output!Next
<1>3. ASSUME phase # "exit", file' = file, UNCHANGED inputVars,
             exit' \in {"create failed", "open failed", "read failed",
                        "write failed"}
      PROVE  [Output!Next]_(Output!vars)
  <2>1. exit = "running"
    BY <1>3 DEF IInv, TypeOK, Writer!TypeOK
  <2>2. Units' = Units
    BY <1>3, UnitsStay
  <2>3. Output!Fail
    BY <1>3, <2>1, <2>2 DEF Output!Fail, Writer!Outcome
  <2>. QED  BY <2>3 DEF Output!Next
<1>4. ASSUME UNCHANGED <<file, exit, inputVars>>
      PROVE  [Output!Next]_(Output!vars)
  <2>1. Units' = Units
    BY <1>4, UnitsStay
  <2>. QED  BY <1>4, <2>1 DEF Output!vars, Writer!Outcome
<1>5. CASE Create \/ Call \/ Read \/ PullUnit \/ UNCHANGED vars
  BY <1>4, <1>5 DEF Create, Call, Read, PullUnit, Writer!Create,
                    Writer!PullUnit, writerVars, vars
<1>6. CASE CreateFails \/ PullError
  BY <1>3, <1>6 DEF CreateFails, PullError, Writer!CreateFails,
                    Writer!PullError, Writer!Exit
<1>7. CASE Open
  BY <1>3, <1>4, <1>7 DEF Open, Writer!ReadUnits, Writer!ReadUnitsFails,
                          Writer!Exit
<1>8. CASE Write
  BY <1>2, <1>3, <1>8 DEF Write, Writer!WriteFails
<1>. QED  BY <1>1, <1>5, <1>6, <1>7, <1>8 DEF Next

LEMMA InitRefines == Init => Stream!Init /\ Output!Init
<1>. SUFFICES ASSUME Init PROVE Stream!Init /\ Output!Init
  OBVIOUS
<1>1. Units \in Nat
  BY InitIInv, Kinds
<1>. QED
  BY <1>1 DEF Init, Reader!Init, Writer!Init, Stream!Init, Output!Init,
              Writer!Outcome

(* The reader of `freeblue decrypt` hands out the whole units of the input, *)
(* in order, each once, and reports its end only after the last, however    *)
(* read() cuts them and also when the command itself has emptied the input  *)
(* (lib.rs:105-121, main.rs:126).                                           *)
THEOREM ReaderKeepsPromise == Spec => StreamSpec
<1>1. Init => Stream!Init
  BY InitRefines
<1>. QED
  BY <1>1, StepStream, Inductive, PTL DEF Spec, StreamSpec, Stream!Spec

(* `freeblue decrypt` writes the whole units of its input, in order, each   *)
(* once, and reports success only with the last one in the output file      *)
(* (main.rs:9-12, 120-150).                                                 *)
THEOREM CommandKeepsPromise == Spec => OutputSpec
<1>1. Init => Output!Init
  BY InitRefines
<1>. QED
  BY <1>1, StepOutput, Inductive, PTL DEF Spec, OutputSpec, Output!Spec
=============================================================================

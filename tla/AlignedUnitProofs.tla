------------------------- MODULE AlignedUnitProofs -------------------------
(***************************************************************************)
(* Theorems about AlignedUnit, for every block cipher, every sector size   *)
(* and every unit.                                                         *)
(***************************************************************************)
EXTENDS AlignedUnit, TLAPS

(* What each loop has done so far.                                          *)
BusStarted ==
  /\ pc = "bus" /\ unit # << >> => unit = made.sent
  /\ pc = "content" /\ unit # << >> => unit = made.disc

BetweenSectors ==
  pc = "bus_sector" =>
    \A j \in 1..UnitBlocks :
      out[j] = IF j <= s THEN made.disc[j] ELSE made.sent[j]

InSector ==
  pc = "bus_block" =>
    /\ s < UnitBlocks
    /\ i \in (s + 2)..(s + SectorBlocks + 1)
    /\ prev = IF i = s + 2 THEN CONTENT_IV ELSE made.sent[i - 1]

InContent ==
  pc = "content_block" =>
    /\ unit = made.disc
    /\ bk = block_key(made.unit_key, made.plain[1])
    /\ i >= 2
    /\ prev = IF i = 2 THEN CONTENT_IV ELSE made.disc[i - 1]
    /\ \A j \in 1..(i - 1) : out[j] = made.plain[j]

IInv ==
  /\ TypeOK
  /\ BusStarted
  /\ BetweenSectors
  /\ InSector
  /\ StrippedUpToHere
  /\ InContent
  /\ Recovered

-----------------------------------------------------------------------------
(* Positions.  In a sector that starts after block s, the head is block     *)
(* s + 1, and only the block after it follows a head.                       *)
LEMMA SectorShape ==
  ASSUME NEW t \in {0, SectorBlocks, 2 * SectorBlocks}
  PROVE  /\ t + 1 \in Heads
         /\ \A j \in (t + 2)..(t + SectorBlocks) :
              /\ j \in 1..UnitBlocks
              /\ j \notin Heads
              /\ (j - 1 \in Heads) <=> (j = t + 2)
<1>. USE DEF Heads, UnitBlocks
<1>1. SectorBlocks \in Nat /\ SectorBlocks > 0
  BY CipherAssumption
<1>2. CASE t = 0
  BY <1>1, <1>2
<1>3. CASE t = SectorBlocks
  BY <1>1, <1>3
<1>4. CASE t = 2 * SectorBlocks
  BY <1>1, <1>4
<1>. QED  BY <1>2, <1>3, <1>4

(* One block of either chain, decrypted.                                    *)
LEMMA Decrypts ==
  \A k, p, c, before \in Block :
    c = aes_128e[k][Xor[p][before]] => Xor[aes_128d[k][c]][before] = p
<1>. SUFFICES ASSUME NEW k \in Block, NEW p \in Block, NEW c \in Block,
                     NEW before \in Block, c = aes_128e[k][Xor[p][before]]
              PROVE  Xor[aes_128d[k][c]][before] = p
  OBVIOUS
<1>1. Xor[p][before] \in Block
  BY CipherAssumption
<1>2. aes_128d[k][c] = Xor[p][before]
  BY <1>1, CipherAssumption
<1>. QED  BY <1>2, CipherAssumption

LEMMA BlockKeyType ==
  ASSUME NEW k \in Block, NEW seed \in Block
  PROVE  block_key(k, seed) \in Block
  BY CipherAssumption DEF block_key

LEMMA MadeType ==
  ASSUME made \in Cases
  PROVE  /\ made.unit_key \in Block /\ made.read_data_key \in Block
         /\ made.plain \in Unit /\ made.disc \in Unit /\ made.sent \in Unit
         /\ ContentLayer(made.unit_key, made.plain, made.disc)
         /\ BusLayer(made.read_data_key, made.disc, made.sent)
  BY CasesMade

(* A block of the bus chain, decrypted in place, is the disc's.             *)
LEMMA BusBlockDecrypts ==
  ASSUME made \in Cases, s \in {0, SectorBlocks, 2 * SectorBlocks},
         i \in (s + 2)..(s + SectorBlocks),
         prev = IF i = s + 2 THEN CONTENT_IV ELSE made.sent[i - 1]
  PROVE  /\ i \in 1..UnitBlocks
         /\ Xor[aes_128d[made.read_data_key][made.sent[i]]][prev] = made.disc[i]
<1>0. SectorBlocks \in Nat /\ SectorBlocks > 0 /\ CONTENT_IV \in Block
  BY CipherAssumption
<1>1. i \in 1..UnitBlocks /\ i \notin Heads /\ (i - 1 \in Heads <=> i = s + 2)
  BY SectorShape
<1>2. i # s + 2 => i - 1 \in 1..UnitBlocks
  BY <1>0, <1>1 DEF UnitBlocks
<1>3. prev \in Block
  BY <1>0, <1>2, MadeType DEF Unit
<1>4. made.sent[i] = aes_128e[made.read_data_key][Xor[made.disc[i]][prev]]
  <2>1. BusLayer(made.read_data_key, made.disc, made.sent)
    BY MadeType
  <2>2. prev = IF i - 1 \in Heads THEN CONTENT_IV ELSE made.sent[i - 1]
    BY <1>1
  <2>. QED  BY <1>1, <2>1, <2>2 DEF BusLayer
<1>5. made.sent[i] \in Block /\ made.disc[i] \in Block
  BY <1>1, MadeType DEF Unit
<1>6. made.read_data_key \in Block
  BY MadeType
<1>7. Xor[aes_128d[made.read_data_key][made.sent[i]]][prev] = made.disc[i]
  <2>. DEFINE k == made.read_data_key
              p == made.disc[i]
              c == made.sent[i]
              b == prev
  <2>1. k \in Block /\ p \in Block /\ c \in Block /\ b \in Block
    BY <1>3, <1>5, <1>6
  <2>2. c = aes_128e[k][Xor[p][b]]
    BY <1>4
  <2>. HIDE DEF k, p, c, b
  <2>3. Xor[aes_128d[k][c]][b] = p
    BY <2>1, <2>2, Decrypts
  <2>. QED  BY <2>3 DEF k, p, c, b
<1>. QED  BY <1>1, <1>7

-----------------------------------------------------------------------------
LEMMA InitIInv == Init => IInv
<1>. SUFFICES ASSUME Init PROVE IInv
  OBVIOUS
<1>1. /\ made \in Cases /\ made.sent \in Unit /\ made.disc \in Unit
      /\ SectorBlocks \in Nat /\ SectorBlocks > 0 /\ CONTENT_IV \in Block
  BY MadeType, CipherAssumption DEF Init
<1>2. TypeOK
  BY <1>1 DEF Init, TypeOK, UnitBlocks
<1>3. BusStarted
  BY DEF Init, BusStarted
<1>4. pc \in {"bus", "content"}
  BY DEF Init
<1>. QED
  BY <1>2, <1>3, <1>4
     DEF IInv, BetweenSectors, InSector, StrippedUpToHere, InContent, Recovered

(* A block of the content chain, decrypted, is the plaintext's.             *)
LEMMA ContentBlockDecrypts ==
  ASSUME made \in Cases, i \in 2..UnitBlocks,
         bk = block_key(made.unit_key, made.plain[1]),
         prev = IF i = 2 THEN CONTENT_IV ELSE made.disc[i - 1]
  PROVE  Xor[aes_128d[bk][made.disc[i]]][prev] = made.plain[i]
<1>1. /\ SectorBlocks \in Nat /\ SectorBlocks > 0 /\ CONTENT_IV \in Block
      /\ UnitBlocks \in Nat /\ UnitBlocks >= 3
  <2>1. SectorBlocks \in Nat /\ SectorBlocks > 0 /\ CONTENT_IV \in Block
    BY CipherAssumption
  <2>. QED  BY <2>1 DEF UnitBlocks
<1>2. /\ made.plain[1] \in Block /\ made.plain[i] \in Block
      /\ made.disc[i] \in Block /\ (i # 2 => made.disc[i - 1] \in Block)
      /\ made.unit_key \in Block
  <2>1. /\ made.plain \in Unit /\ made.disc \in Unit
        /\ made.unit_key \in Block
    BY MadeType
  <2>2. 1 \in 1..UnitBlocks /\ i \in 1..UnitBlocks
        /\ (i # 2 => i - 1 \in 1..UnitBlocks)
    BY <1>1
  <2>. QED  BY <2>1, <2>2 DEF Unit
<1>3. prev \in Block
  BY <1>1, <1>2
<1>4. bk \in Block
  BY <1>2, BlockKeyType
<1>5. made.disc[i] = aes_128e[bk][Xor[made.plain[i]][prev]]
  <2>1. ContentLayer(made.unit_key, made.plain, made.disc)
    BY MadeType
  <2>. QED  BY <2>1 DEF ContentLayer
<1>. DEFINE p == made.plain[i]
            c == made.disc[i]
            k == bk
            b == prev
<1>6. /\ k \in Block /\ p \in Block /\ c \in Block /\ b \in Block
      /\ c = aes_128e[k][Xor[p][b]]
  BY <1>2, <1>3, <1>4, <1>5
<1>. HIDE DEF k, p, c, b
<1>7. Xor[aes_128d[k][c]][b] = p
  BY <1>6, Decrypts
<1>. QED  BY <1>7 DEF k, p, c, b

LEMMA NextIInv == IInv /\ [Next]_vars => IInv'
<1>. SUFFICES ASSUME IInv, [Next]_vars PROVE IInv'
  OBVIOUS
<1>. USE DEF IInv
<1>1. /\ SectorBlocks \in Nat /\ SectorBlocks > 0 /\ CONTENT_IV \in Block
      /\ UnitBlocks = 3 * SectorBlocks /\ UnitBlocks \in Nat
  BY CipherAssumption DEF UnitBlocks
<1>2. /\ made \in Cases /\ made.unit_key \in Block
      /\ made.read_data_key \in Block
      /\ made.plain \in Unit /\ made.disc \in Unit /\ made.sent \in Unit
  BY MadeType DEF TypeOK
<1>3. CASE BadUnitLength
  BY <1>3 DEF BadUnitLength, TypeOK, BusStarted, BetweenSectors, InSector,
              StrippedUpToHere, InContent, Recovered
<1>4. CASE BusStart
  <2>1. /\ pc = "bus" /\ Len(unit) = UnitBlocks /\ out' = unit /\ s' = 0
        /\ pc' = "bus_sector" /\ UNCHANGED <<made, unit, prev, i, bk>>
    BY <1>4 DEF BusStart
  <2>2. unit = made.sent
    <3>1. unit # << >>
      BY <1>1, <2>1
    <3>. QED  BY <2>1, <3>1 DEF BusStarted
  <2>3. out' \in Seq(Block)
    BY <1>1, <1>2, <2>1, <2>2 DEF Unit
  <2>4. TypeOK'
    BY <2>1, <2>3 DEF TypeOK
  <2>5. BetweenSectors'
    BY <2>1, <2>2 DEF BetweenSectors
  <2>. QED
    BY <2>1, <2>4, <2>5
       DEF BusStarted, InSector, StrippedUpToHere, InContent, Recovered
<1>5. CASE BusSector
  <2>1. /\ pc = "bus_sector" /\ s < UnitBlocks /\ prev' = CONTENT_IV
        /\ i' = s + 2 /\ pc' = "bus_block" /\ UNCHANGED <<made, unit, out, s, bk>>
    BY <1>5 DEF BusSector
  <2>2. s \in {0, SectorBlocks, 2 * SectorBlocks}
    BY <1>1, <2>1 DEF TypeOK
  <2>3. TypeOK'
    BY <1>1, <2>1, <2>2 DEF TypeOK
  <2>4. InSector'
    BY <1>1, <2>1, <2>2 DEF InSector
  <2>5. made.sent[s + 1] = made.disc[s + 1]
    <3>1. s + 1 \in Heads
      BY <2>2, SectorShape
    <3>2. s + 1 \in 1..UnitBlocks
      BY <1>1, <2>2
    <3>3. BusLayer(made.read_data_key, made.disc, made.sent)
      BY <1>2, MadeType
    <3>. QED  BY <3>1, <3>2, <3>3 DEF BusLayer
  <2>6. StrippedUpToHere'
    <3>. SUFFICES ASSUME NEW j \in 1..UnitBlocks
                  PROVE  out[j] = IF j < s + 2 THEN made.disc[j] ELSE made.sent[j]
      BY <2>1 DEF StrippedUpToHere
    <3>1. out[j] = IF j <= s THEN made.disc[j] ELSE made.sent[j]
      BY <2>1 DEF BetweenSectors
    <3>2. CASE j = s + 1
      BY <1>1, <2>2, <2>5, <3>1, <3>2
    <3>3. CASE j # s + 1
      BY <1>1, <2>2, <3>1, <3>3
    <3>. QED  BY <3>2, <3>3
  <2>. QED
    BY <2>1, <2>3, <2>4, <2>6 DEF BusStarted, BetweenSectors, InContent, Recovered
<1>6. CASE BusBlock
  <2>. DEFINE e == Xor[aes_128d[made.read_data_key][out[i]]][prev]
  <2>1. /\ pc = "bus_block" /\ i <= s + SectorBlocks
        /\ out' = [out EXCEPT ![i] = e] /\ prev' = out[i]
        /\ i' = i + 1 /\ UNCHANGED <<made, unit, s, bk, pc>>
    BY <1>6 DEF BusBlock
  <2>2. s \in {0, SectorBlocks, 2 * SectorBlocks} /\ i \in (s + 2)..(s + SectorBlocks)
    BY <1>1, <2>1 DEF InSector, TypeOK
  <2>3. i \in 1..UnitBlocks /\ out[i] = made.sent[i]
    BY <1>1, <2>1, <2>2 DEF StrippedUpToHere
  <2>4. e = made.disc[i]
    BY <1>2, <2>1, <2>2, <2>3, BusBlockDecrypts DEF InSector
  <2>5. e \in Block /\ made.sent[i] \in Block
    BY <1>2, <2>3, <2>4 DEF Unit
  <2>. HIDE DEF e
  <2>6. /\ out \in Seq(Block) /\ Len(out) = UnitBlocks
        /\ DOMAIN out = 1..UnitBlocks
    BY <2>1 DEF TypeOK
  <2>7. /\ out' \in Seq(Block) /\ Len(out') = UnitBlocks
        /\ \A j \in 1..UnitBlocks : out'[j] = IF j = i THEN e ELSE out[j]
    BY <2>1, <2>3, <2>5, <2>6
  <2>8. TypeOK'
    BY <1>1, <2>1, <2>2, <2>3, <2>5, <2>7 DEF TypeOK
  <2>9. InSector'
    BY <1>1, <2>1, <2>2, <2>3 DEF InSector
  <2>10. StrippedUpToHere'
    BY <1>1, <2>1, <2>3, <2>4, <2>7 DEF StrippedUpToHere
  <2>. QED
    BY <2>1, <2>8, <2>9, <2>10 DEF BusStarted, BetweenSectors, InContent, Recovered
<1>7. CASE BusSectorDone
  <2>1. /\ pc = "bus_block" /\ i > s + SectorBlocks /\ s' = s + SectorBlocks
        /\ pc' = "bus_sector" /\ UNCHANGED <<made, unit, out, prev, i, bk>>
    BY <1>7 DEF BusSectorDone
  <2>2. s \in {0, SectorBlocks, 2 * SectorBlocks} /\ i = s + SectorBlocks + 1
    BY <1>1, <2>1 DEF InSector, TypeOK
  <2>3. TypeOK'
    BY <1>1, <2>1, <2>2 DEF TypeOK
  <2>4. BetweenSectors'
    BY <1>1, <2>1, <2>2 DEF BetweenSectors, StrippedUpToHere
  <2>. QED
    BY <2>1, <2>3, <2>4
       DEF BusStarted, InSector, StrippedUpToHere, InContent, Recovered
<1>8. CASE BusDone
  <2>1. /\ pc = "bus_sector" /\ s >= UnitBlocks /\ unit' = out
        /\ pc' = "content" /\ UNCHANGED <<made, out, prev, s, i, bk>>
    BY <1>8 DEF BusDone
  <2>2. out \in Seq(Block) /\ Len(out) = UnitBlocks
    BY <2>1 DEF TypeOK
  <2>3. \A j \in 1..UnitBlocks : out[j] = made.disc[j]
    BY <1>1, <2>1 DEF BetweenSectors, TypeOK
  <2>4. out = made.disc
    BY <1>2, <2>2, <2>3 DEF Unit
  <2>5. TypeOK'
    BY <1>2, <2>1, <2>4 DEF TypeOK
  <2>. QED
    BY <2>1, <2>4, <2>5 DEF BusStarted, BetweenSectors, InSector,
                            StrippedUpToHere, InContent, Recovered
<1>9. CASE ContentStart
  <2>1. /\ pc = "content" /\ Len(unit) = UnitBlocks
        /\ bk' = block_key(made.unit_key, unit[1]) /\ out' = <<unit[1]>>
        /\ prev' = CONTENT_IV /\ i' = 2 /\ pc' = "content_block"
        /\ UNCHANGED <<made, unit, s>>
    BY <1>9 DEF ContentStart
  <2>2. unit = made.disc
    <3>1. unit # << >>
      BY <1>1, <2>1
    <3>. QED  BY <2>1, <3>1 DEF BusStarted
  <2>3. unit[1] = made.plain[1] /\ unit[1] \in Block
    <3>1. ContentLayer(made.unit_key, made.plain, made.disc)
      BY <1>2, MadeType
    <3>. QED  BY <1>1, <1>2, <2>2, <3>1 DEF ContentLayer, Unit
  <2>4. TypeOK'
    BY <1>1, <1>2, <2>1, <2>3, BlockKeyType DEF TypeOK
  <2>5. InContent'
    BY <2>1, <2>2, <2>3 DEF InContent
  <2>. QED
    BY <2>1, <2>4, <2>5 DEF BusStarted, BetweenSectors, InSector,
                            StrippedUpToHere, Recovered
<1>10. CASE ContentBlock
  <2>. DEFINE e == Xor[aes_128d[bk][unit[i]]][prev]
  <2>1. /\ pc = "content_block" /\ i <= UnitBlocks
        /\ out' = Append(out, e) /\ prev' = unit[i] /\ i' = i + 1
        /\ UNCHANGED <<made, unit, s, bk, pc>>
    BY <1>10 DEF ContentBlock
  <2>2. /\ unit = made.disc /\ bk = block_key(made.unit_key, made.plain[1])
        /\ i \in 2..UnitBlocks
        /\ prev = IF i = 2 THEN CONTENT_IV ELSE made.disc[i - 1]
        /\ \A j \in 1..(i - 1) : out[j] = made.plain[j]
        /\ out \in Seq(Block) /\ Len(out) = i - 1
    BY <2>1 DEF InContent, TypeOK
  <2>3. e = made.plain[i]
    BY <1>2, <2>2, ContentBlockDecrypts
  <2>4. e \in Block /\ made.disc[i] \in Block
    BY <1>1, <1>2, <2>2, <2>3 DEF Unit
  <2>. HIDE DEF e
  <2>5. /\ out' \in Seq(Block) /\ Len(out') = i /\ out'[i] = e
        /\ \A j \in 1..(i - 1) : out'[j] = out[j]
    BY <2>1, <2>2, <2>4
  <2>6. TypeOK'
    BY <1>1, <2>1, <2>2, <2>4, <2>5 DEF TypeOK
  <2>7. InContent'
    BY <1>1, <2>1, <2>2, <2>3, <2>5 DEF InContent
  <2>. QED
    BY <2>1, <2>6, <2>7 DEF BusStarted, BetweenSectors, InSector,
                            StrippedUpToHere, Recovered
<1>11. CASE ContentDone
  <2>1. /\ pc = "content_block" /\ i > UnitBlocks /\ pc' = "done"
        /\ UNCHANGED <<made, unit, out, prev, s, i, bk>>
    BY <1>11 DEF ContentDone
  <2>2. /\ out \in Seq(Block) /\ Len(out) = UnitBlocks
        /\ \A j \in 1..UnitBlocks : out[j] = made.plain[j]
    BY <1>1, <2>1 DEF InContent, TypeOK
  <2>3. out = made.plain
    BY <1>2, <2>2 DEF Unit
  <2>4. TypeOK'
    BY <2>1 DEF TypeOK
  <2>. QED
    BY <2>1, <2>3, <2>4 DEF BusStarted, BetweenSectors, InSector,
                            StrippedUpToHere, InContent, Recovered
<1>12. CASE UNCHANGED vars
  BY <1>12 DEF vars, TypeOK, BusStarted, BetweenSectors, InSector,
               StrippedUpToHere, InContent, Recovered
<1>. QED
  BY <1>3, <1>4, <1>5, <1>6, <1>7, <1>8, <1>9, <1>10, <1>11, <1>12 DEF Next

LEMMA SpecIInv == Spec => []IInv
BY InitIInv, NextIInv, PTL DEF Spec

(* The loops stay inside the unit.                                          *)
THEOREM TypeCorrect == Spec => []TypeOK
BY SpecIInv, PTL DEF IInv

(* The in-place pass never uses or decrypts a block it has overwritten.     *)
THEOREM StrippedInPlace == Spec => []StrippedUpToHere
BY SpecIInv, PTL DEF IInv

(* Decryption inverts both layers, for every invertible block cipher.       *)
THEOREM RoundTrip == Spec => []Recovered
BY SpecIInv, PTL DEF IInv
=============================================================================

--------------------------- MODULE MCAlignedUnit ---------------------------
(***************************************************************************)
(* A small block cipher: blocks of two bits, whose exclusive or is bitwise *)
(* and whose cipher under key k permutes them as b -> 3 * b + k (mod 4).   *)
(* The encrypting side is the recursion of the tests' bus_encrypt_unit.    *)
(***************************************************************************)
EXTENDS AlignedUnit

MCBlock == 0..3

MCXor ==
  LET bit(x, w) == (x \div w) % 2
      one(a, b, w) == IF bit(a, w) = bit(b, w) THEN 0 ELSE w
  IN  [a \in MCBlock |-> [b \in MCBlock |-> one(a, b, 1) + one(a, b, 2)]]

MCaes_128e == [k \in MCBlock |-> [b \in MCBlock |-> (3 * b + k) % 4]]

MCaes_128d ==
  [k \in MCBlock |->
     [b \in MCBlock |-> CHOOSE a \in MCBlock : MCaes_128e[k][a] = b]]

MCSectorBlocks == 3
MCIV == 2

MCIndex == 1..(3 * MCSectorBlocks)
MCHead(j) == (j - 1) % MCSectorBlocks = 0

(* Plaintexts that differ in the seed, in one block, in a repeated block.   *)
MCPlains ==
  {[j \in MCIndex |-> (a * j + b) % 4] : a \in MCBlock, b \in MCBlock}

MCDisc(k, plain) ==
  LET key == MCXor[MCaes_128e[k][plain[1]]][plain[1]]
      c[j \in MCIndex] ==
        IF j = 1 THEN plain[1]
        ELSE MCaes_128e[key][MCXor[plain[j]][IF j = 2 THEN MCIV ELSE c[j - 1]]]
  IN  c

MCSent(k, disc) ==
  LET c[j \in MCIndex] ==
        IF MCHead(j) THEN disc[j]
        ELSE MCaes_128e[k][MCXor[disc[j]][IF MCHead(j - 1) THEN MCIV ELSE c[j - 1]]]
  IN  c

MCCases ==
  {[unit_key |-> k, read_data_key |-> d, plain |-> p, disc |-> MCDisc(k, p),
    sent |-> MCSent(d, MCDisc(k, p))] :
     k \in {0, 3}, d \in {1, 2}, p \in MCPlains}
=============================================================================

----------------------------- MODULE MCUnitKeys -----------------------------
(***************************************************************************)
(* Two discs, of two CPS units and of one; key databases of up to three    *)
(* lines that name them, rightly or not; every shape of line the loader    *)
(* tells apart.                                                            *)
(***************************************************************************)
EXTENDS UnitKeys

CONSTANTS id1, id2, km1, km2, vid1, vid2, kvu1, kvu2, kcu1, kcu2, kcu3,
          part, bad

MCDisc ==
  [disc1 |-> [id |-> id1, media_key |-> km1, volume_id |-> vid1,
              volume_unique_key |-> kvu1, unit_keys |-> <<kcu1, kcu2>>],
   disc2 |-> [id |-> id2, media_key |-> km2, volume_id |-> vid2,
              volume_unique_key |-> kvu2, unit_keys |-> <<kcu3>>]]

MCBlock == {km1, km2, vid1, vid2, kvu1, kvu2, kcu1, kcu2, kcu3}
MCDiscId == {id1, id2}
MCBytes == MCBlock \cup MCDiscId \cup {part}
MCWord == MCBytes \cup {bad}

Title == [tag |-> "D", words |-> << >>]
Pair(tag, words) == <<[tag |-> tag, words |-> << >>],
                      [tag |-> "D", words |-> words]>>
Entry(id, pairs) ==
  [shape |-> "disc", has_eq |-> TRUE, id |-> id, segs |-> <<Title>> \o pairs]
Field(name, word) == [name |-> name, word |-> word]
Host(fields) == [shape |-> "HC", fields |-> fields]
Device(fields) == [shape |-> "DK", fields |-> fields]

MCEntries == {
  Entry(id1, Pair("M", <<km1>>) \o Pair("D", <<part>>) \o Pair("I", <<vid1>>)
             \o Pair("V", <<kvu1>>) \o Pair("U", <<kcu1, kcu2>>)),
  Entry(id1, Pair("V", <<kvu1>>) \o Pair("V", <<bad>>) \o Pair("I", <<part>>)),
  \* A gap.
  Entry(id1, Pair("U", <<bad, kcu2>>)),
  Entry(id1, Pair("U", <<kcu1>>) \o Pair("U", <<kcu2, part>>)),
  Entry(id2, Pair("M", <<km2>>) \o Pair("I", <<vid2>>)),
  \* Another disc's key.
  Entry(id2, Pair("V", <<kvu1>>)),
  \* A bar in the title: every tag is taken for a value.
  Entry(id2, <<[tag |-> "D", words |-> <<bad>>]>> \o Pair("M", <<km1>>)),
  \* A tag without a value.
  Entry(id2, Pair("V", <<kvu2, kcu3>>) \o <<[tag |-> "M", words |-> << >>]>>)}

MCFailing == {
  [Entry(id1, << >>) EXCEPT !.has_eq = FALSE],
  Entry(bad, << >>),
  Entry(part, Pair("M", <<km1>>))}

MCGlobals == {
  [shape |-> "PK", key |-> km1],
  [shape |-> "PK", key |-> bad],
  Device(<<Field("DEVICE_KEY", kcu1), Field("KEY_UV", part)>>),
  Device(<<Field("DEVICE_KEY", kcu1), Field("DEVICE_KEY", bad)>>),
  Device(<<Field("DEVICE_NODE", bad), Field("DEVICE_KEY", kcu2)>>),
  Host(<<Field("HOST_PRIV_KEY", part), Field("HOST_CERT", id1)>>),
  Host(<<Field("HOST_CERT", id2), Field("HOST_PRIV_KEY", id1)>>),
  Host(<<Field("HOST_CERT", bad), Field("HOST_PRIV_KEY", id2)>>),
  Host(<<Field("HOST_CERT", id2), Field("HOST_CERT", part)>>)}

MCLines == MCEntries \cup MCFailing \cup MCGlobals \cup {[shape |-> "other"]}

MCTexts == UNION {[1..len -> MCLines] : len \in 0..2}
             \cup [1..3 -> {l \in MCEntries : l.id = id1}]
             \cup [1..3 -> {l \in MCGlobals : l.shape = "HC"}]
=============================================================================

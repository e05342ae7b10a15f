------------------------------- MODULE MCNfFlow -------------------------------
EXTENDS NfFlow

\* Levels that LAYOUT_PARMS takes for 1, 8 and 12.
MCLargeLevels ==
  { [level |-> l, order |-> o, page_size |-> s, partial |-> 1024, oob_size |-> b,
     pages_per_block |-> 2, cleanmarker |-> TRUE, trim |-> TRUE] :
      l \in {17, 24, 28}, o \in {13, 14}, s \in {2048, 4096}, b \in {32, 54} }

\* Every layout of the table is met, and combinations that have none.
MCParams ==
  MCLargeLevels
  \cup
  { [level |-> l, order |-> o, page_size |-> s, partial |-> t, oob_size |-> b,
     pages_per_block |-> 2, cleanmarker |-> TRUE, trim |-> TRUE] :
      l \in {1, 4, 8, 12}, o \in {13, 14}, s \in {512, 2048, 4096, 8192},
      t \in {512, 1024}, b \in {16, 27} }
  \cup
  { [level |-> 4, order |-> 13, page_size |-> 512, partial |-> 512, oob_size |-> 16,
     pages_per_block |-> 3, cleanmarker |-> c, trim |-> FALSE] : c \in BOOLEAN }

Full(k) == [kind |-> k, full |-> TRUE]
MCInputs ==
  { << Full("data"), Full("blank"), Full("blank"), [kind |-> "data", full |-> FALSE] >>,
    << Full("blank"), Full("ubifs"), Full("data") >> }

MCFlashed ==
  {o \in MCParams : o.level = 4 /\ o.order = 13 /\ o.partial = 512 /\ o.oob_size = 16
                      /\ o.trim /\ o.page_size \in {512, 2048}}

MCTokens == {"data", "ubifs", "ecc", "marker", "marker+ecc"}
MCFiles == {<<>>}
MCBlocks == [k \in {"small", "large"} |-> IF k = "small" THEN 2 ELSE 4]
MCGeometry ==
  [k \in {"small", "large"} |-> IF k = "small" THEN [page_size |-> 512, oob_size |-> 16]
                                ELSE [page_size |-> 2048, oob_size |-> 64]]
=============================================================================

---------------------------- MODULE MCNandRead232H ----------------------------
EXTENDS NandRead232H

\* A chip of four rows in two blocks, its page two bytes and its spare area one,
\* with the proportions of the table's chips: two pages per span of columns.
MCNand == [page_size |-> 2, spare_size |-> 1, block_size |-> 2, type |-> "MT29"]

\* A blank page, a page that is not, and files of one page and a tail.
MCFiles == { <<0, 15, 255>>, <<255, 0>> }

\* brcm_nand with a code of one byte.
MCEcc(d) == [d EXCEPT ![3] = d[1]]
=============================================================================

----------------------------- MODULE MCNandReader -----------------------------
EXTENDS NandReader

\* The spare area of a main area: the complement of each byte.
MCEcc(main) == [i \in 1 .. PageLen - MainLen |-> Bits \ main[1]]

\* Files of two and three pages: a chunk of 0xFF before others, a partial last
\* chunk.
MCFiles == { <<Bits, Bits, {0}, {1}, {}, Bits>>,
             <<{1}, {}, {0}>> }

\* Every access type on the first block, the whole chip ("-p" with end address
\* 0), a range that starts past its end, and one that is misaligned for erasing.
MCArguments ==
  [access : AccessTypes, from : {0}, to : {0, 2}, file : MCFiles]
    \cup [access : {"mainoob", "main"}, from : {4}, to : {2}, file : {<<{1}, {0}>>}]
    \cup [access : {"mainoob", "main"}, from : {1}, to : {3}, file : MCFiles]

MCWriteArguments ==
  [access : {"mainoob", "w-oob"}, from : {0}, to : {2}, file : MCFiles]

\* An erased chip, and one with a page and a spare area in use.
MCContents ==
  { [p \in Pages |-> Blank],
    [p \in Pages |-> IF p = 1 THEN [c \in Cols |-> {c % 2}]
                     ELSE IF p = 2 THEN [Blank EXCEPT ![PageLen] = {0}] ELSE Blank] }

MCMisreads == {[c \in Cols |-> {}], [c \in Cols |-> {c % 2}]}

MCReadLens == {MainLen, PageLen}

MCNoBufs == {}
=============================================================================

-------------------------------- MODULE NfFlow --------------------------------
(***************************************************************************)
(* createnfimg builds an image, and NandTool writes it to a chip, reads it *)
(* back or verifies it.                                                    *)
(***************************************************************************)
EXTENDS NandTool, NfImage

CONSTANTS
  Geometry,   \* page and spare size of small and of large page chips
  Flashed     \* bound: the command lines whose images are written to the chip

ASSUME FlowAssumption ==
  /\ Geometry \in [{"small", "large"} -> [page_size : Nat, oob_size : Nat]] /\ Flashed \subseteq Params
  /\ Blank \notin {"marker", "marker+ecc"}

vars == <<toolVars, imageVars>>

\* What a spare area amounts to.
Spared(oob) ==
  LET has(b) == \E i \in DOMAIN oob : oob[i] = b
  IN IF has("marker") THEN IF has("ecc") THEN "marker+ecc" ELSE "marker"
     ELSE IF has("ecc") THEN "ecc" ELSE Blank

Main(i) == IF image[i].main = "blank" THEN Blank ELSE image[i].main

AsFile ==
  [k \in 1 .. 3 * Len(image) |->
     LET i == (k + 2) \div 3
     IN IF k % 3 = 0 THEN Spared(image[i].oob) ELSE Main(i)]

\* The image has pages of the chip's size.
Fits ==
  p \in Flashed /\ p.page_size = Geometry[kind].page_size /\ OOB_SIZE = Geometry[kind].oob_size

Init == ToolInit /\ ImageInit

Build ==
  /\ CheckOptions \/ WriteOut
  /\ UNCHANGED toolVars

Built ==
  /\ EndOfFile
  /\ file' = IF Fits THEN AsFile ELSE file
  /\ UNCHANGED <<kind, pc, line, x, at, verifyErrors, options, runs, calls, pageBuf, chip>>

UseTool ==
  /\ building = "done" /\ Fits
  /\ ToolNext
  /\ UNCHANGED imageVars

Finished ==
  /\ \/ building = "refused"
     \/ building = "done" /\ ~Fits
     \/ pc \in {"exit", "done"} /\ runs = MaxRuns
  /\ UNCHANGED vars

Next == Build \/ Built \/ UseTool \/ Finished

\* A run is a program on its own; the chip finishes what it has begun.
Fairness ==
  /\ WF_vars(building = "done" /\ Fits /\ Call /\ UNCHANGED imageVars)
  /\ WF_vars(building = "done" /\ Fits /\ Step /\ UNCHANGED imageVars)
  /\ WF_vars(ChipWorks /\ UNCHANGED imageVars)

Spec == Init /\ [][Next]_vars /\ Fairness

-----------------------------------------------------------------------------
\* An image built for the chip's erase blocks and written from page 0 on puts a
\* clean marker on the first page of every block and on no other, on a chip whose
\* blocks are what main erases at a time.
BlocksMarked ==
  /\ pc = "write" /\ Untroubled
  /\ EraseEvery = PagesPerBlock[kind] /\ p.pages_per_block = PagesPerBlock[kind]
  /\ start_pageno = 0 /\ file = AsFile
  /\ p.cleanmarker /\ p.order = MIN_FIELD_ORDER /\ p.level < 16 /\ Matching # {}
  /\ \A i \in DOMAIN image : image[i].main # "ubifs"
  => \A q \in 0 .. x - 1 :
       cells[q][3] \in {"marker", "marker+ecc"} <=> q % PagesPerBlock[kind] = 0
=============================================================================

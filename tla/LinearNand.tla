----------------------------- MODULE LinearNand -----------------------------
(***************************************************************************)
(* What the pin sequences of nandread_FTDI232H.c amount to: each program   *)
(* and each erase takes effect once, between its call and its return, or   *)
(* is cut short by the reset of the next run.  What the chip has missed is *)
(* the end of that.                                                        *)
(***************************************************************************)
EXTENDS LinearTypes

VARIABLES
  cells,    \* the rows of the chip
  op,       \* the operation called
  acted,    \* whether it has taken effect
  stopped,  \* the program was interrupted and its successor has not yet reset the chip
  astray    \* the chip has missed something it was told

vars == <<cells, op, acted, stopped, astray>>

Init ==
  /\ cells \in [Rows -> [Cols -> Byte]]
  /\ op = NoOp
  /\ acted = FALSE
  /\ stopped = FALSE
  /\ astray = FALSE

Begin ==
  /\ op = NoOp /\ ~stopped
  /\ op' # NoOp
  /\ UNCHANGED <<cells, acted, stopped>>

Act ==
  /\ op.kind \in {"program", "erase"}
  /\ ~acted
  /\ cells' = Effect(cells, op)
  /\ acted' = TRUE
  /\ UNCHANGED <<op, stopped>>

\* A program or erase that returns has taken effect.
End ==
  /\ op # NoOp /\ ~stopped
  /\ op.kind \in {"program", "erase"} => acted
  /\ op' = NoOp
  /\ acted' = FALSE
  /\ UNCHANGED <<cells, stopped>>

Stop ==
  /\ stopped' = TRUE
  /\ UNCHANGED <<cells, op, acted>>

\* The reset cuts short what the chip was doing: each cell is as it was or as
\* it should have become.
Reset ==
  /\ stopped
  /\ stopped' = FALSE
  /\ op' = NoOp
  /\ acted' = FALSE
  /\ \/ UNCHANGED cells
     \/ /\ ~acted
        /\ \A r \in Rows, k \in Cols :
             cells'[r][k] \in {cells[r][k], Effect(cells, op)[r][k]}

Step == Begin \/ Act \/ End \/ Stop \/ Reset

\* Nothing is promised from then on.
Next ==
  \/ ~astray /\ Step /\ UNCHANGED astray
  \/ astray'

Spec == Init /\ [][Next]_vars
=============================================================================

------------------------------ MODULE MCNandData ------------------------------
EXTENDS NandData

\* The page buffers written: two that share cleared bits and one all zeros.
MCWriteBufs ==
  { [c \in Cols |-> IF c = 1 THEN {0} ELSE Bits],
    [c \in Cols |-> IF c = 1 THEN Bits ELSE {1}] }

\* NandData takes RowSpan and ErasePages for granted: what NandID and sendAddr
\* make of the chips of the table.
G == INSTANCE NandGeometry

Ids == {<<0, code, 0, byte, 0>> : code \in {c \in 0 .. 255 : G!Known(c)}, byte \in {0, 1, 17, 21, 149, 255}}

\* The MT29F1G08ABADAWP of the comment in the table.
ASSUME MT29 ==
  LET n == G!NandID(<<\h2C, \hF1, \h80, \h95, \h02>>)
  IN n.pageSz = 2048 /\ n.oobSz = 64 /\ n.eraseSz = 64 * 2048 /\ n.MB = 128 /\ G!Supported(n)

ASSUME SupportedIdsAddressed ==
  \A id \in Ids :
    LET n == G!NandID(id)
        rows == {0, 1, 255, 256, G!NumPages(n) - 1}
        blocks == {0, 1, 3, 4, G!NumPages(n) \div 64 - 1}
    IN G!Supported(n) =>
         /\ \A r \in rows : G!PageRowOf(G!AddressBytes(r, G!getAddrByteCount(n), 0)) = r
         /\ \A b \in blocks : G!EraseRowOf(G!AddressBytes(b, n.eraseAddrByteCount, 0)) = 64 * b

\* Of the rest, some are taken for smaller chips, small pages cannot be erased,
\* nor 32 GiB chips read.
ASSUME OtherIds ==
  /\ G!NandID(<<0, \hD5, 0, \h15, 0>>).MB = 4 /\ G!NandID(<<0, \h39, 0, 0, 0>>).MB = 8
  /\ \A id \in Ids : LET n == G!NandID(id)
                     IN /\ ~n.isLP => ~G!Accepted(n.eraseAddrByteCount)
                        /\ n.MB >= 32768 => ~G!Accepted(G!getAddrByteCount(n))
=============================================================================

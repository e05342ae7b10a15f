------------------------------ MODULE NandReader ------------------------------
(***************************************************************************)
(* ftdinandreader/main.cpp with NandChip.cpp: one command line, run until  *)
(* it ends, fails or is interrupted, and then given again ("give this      *)
(* command many times to avoid nand writings error", Readme.txt).          *)
(*                                                                         *)
(* A call of NandData is one step on the pages, as NandStore promises;     *)
(* when the link is noisy a read may also return other bytes, as it does   *)
(* after some were lost.  Addresses are those of the command line, in      *)
(* bytes of main area.                                                     *)
(***************************************************************************)
EXTENDS NandTypes

CONSTANTS
  MainLen,          \* bytes of a page without its spare area
  Ecc(_),           \* the spare area brcm_nand computes for a main area
  Arguments,        \* the command lines: access type, addresses and file
  Contents,         \* what the chip may hold before the first run
  Misreads,         \* bound: the pages a read over a noisy link makes up
  MaxVerifyErrors,  \* 100 in the code
  MaxRuns           \* bound: times the command is given

AccessTypes == {"main", "mainoob", "oob", "r-oob", "w-oob", "bb"}
Actions     == {"read", "verify", "write", "erase"}

EraseSize == MainLen * PagesPerBlock
ChipSize  == MainLen * NPages
Buffers   == UNION {[1 .. n -> Byte] : n \in {0, MainLen, PageLen}}

ASSUME ReaderAssumption ==
  /\ MainLen \in 1 .. PageLen
  /\ \A m \in [1 .. MainLen -> Byte] : Ecc(m) \in [1 .. PageLen - MainLen -> Byte]
  /\ Arguments \subseteq
       [access : AccessTypes, from : 0 .. ChipSize, to : 0 .. ChipSize, file : Seq(Byte)]
  /\ Contents \subseteq [Pages -> Content]
  /\ Misreads \subseteq Content
  /\ MaxVerifyErrors \in Nat \ {0}
  /\ MaxRuns \in Nat \ {0}

VARIABLES
  store,         \* the pages of the chip
  initial,       \* its pages before the first run
  noisy,         \* TRUE: a read may return wrong bytes
  args,          \* the command line's access type, addresses and file
  action,        \* what main decided to do
  usb,           \* "-u": the vid:pid to open
  pc,            \* where main is
  address,       \* address, the loop variable; the erase block of an erase
  pos,           \* bytes of the file consumed
  pageBuf,       \* pNandChip->pageBuf
  tmpBuf,        \* main's copy of what was written
  verifyErrors,
  out,           \* what a read wrote to its file
  notErased,     \* blocks reported "NOT erased"
  runs           \* runs left

files  == <<pos, out>>
buffer == <<pageBuf, tmpBuf>>
fixed  == <<initial, noisy, args, action, usb>>
vars   == <<store, fixed, pc, address, files, buffer, verifyErrors, notErased, runs>>

(* The program's variables keep to their types; in particular an erase      *)
(* reports only blocks of the chip.                                         *)
TypeOK ==
  /\ store \in [Pages -> Content]
  /\ initial \in Contents
  /\ noisy \in BOOLEAN
  /\ args \in Arguments
  /\ action \in Actions \cup {"none"}
  /\ usb \in {"default", "given"}
  /\ pc \in {"parse", "open", "read", "verify", "write", "program", "compare",
             "erase", "done", "exited", "crashed"}
  /\ address \in 0 .. ChipSize
  /\ pos \in 0 .. PageLen * NPages
  /\ pageBuf \in Buffers /\ tmpBuf \in Buffers
  /\ verifyErrors \in 0 .. MaxVerifyErrors
  /\ out \in Seq(Byte)
  /\ notErased \subseteq Blocks
  /\ runs \in 0 .. MaxRuns

Init ==
  /\ initial \in Contents /\ store = initial
  /\ noisy \in BOOLEAN
  /\ args \in Arguments
  /\ action = "none" /\ usb = "default" /\ pc = "parse"
  /\ address = 0 /\ pos = 0
  /\ pageBuf = <<>> /\ tmpBuf = <<>>
  /\ verifyErrors = MaxVerifyErrors
  /\ out = <<>> /\ notErased = {}
  /\ runs = MaxRuns - 1

-----------------------------------------------------------------------------
(***************************************************************************)
(* The command line, one option after the other.                           *)
(***************************************************************************)
ParseRest == UNCHANGED <<store, initial, noisy, args, address, files, buffer,
                         verifyErrors, notErased, runs>>

ParseAction ==
  /\ pc = "parse" /\ pc' = pc
  /\ action' \in Actions
  /\ usb' = usb
  /\ ParseRest

\* "-u vid:pid"; the action is lost when the colon is missing.
ParseUsb ==
  /\ pc = "parse" /\ pc' = pc
  /\ action' \in {"verify", "none"}
  /\ usb' = "given"
  /\ ParseRest

ParseUnknown ==
  /\ pc = "parse" /\ pc' = pc
  /\ action' = "none"
  /\ usb' = usb
  /\ ParseRest

Parsed ==
  /\ pc = "parse"
  /\ pc' = IF action = "none" THEN "exited" ELSE "open"
  /\ UNCHANGED <<action, usb>>
  /\ ParseRest

-----------------------------------------------------------------------------
(***************************************************************************)
(* NandChip: sizes of the access type, alignment, the two area layouts.    *)
(***************************************************************************)
endAddress == IF args.to = 0 THEN ChipSize ELSE args.to

filePageSize == IF args.access = "main" THEN MainLen ELSE PageLen

fileOffset_Kept == 0

fileOffset == IF args.access = "oob" THEN MainLen ELSE 0

Aligned ==
  LET unit == IF action = "erase" THEN EraseSize ELSE MainLen IN
    args.from % unit = 0 /\ endAddress % unit = 0

StartAddress == IF action = "erase" THEN args.from \div EraseSize ELSE args.from

EndBlock_Inclusive == endAddress \div EraseSize + 1

EndBlock == endAddress \div EraseSize

\* setSizes knows no bit-banging; the erase case does not call it.
Opens == Aligned /\ (action = "erase" \/ args.access # "bb")

Open ==
  /\ pc = "open"
  /\ pc' = IF action = "verify" \/ Opens THEN action ELSE "exited"
  /\ address' = IF action # "verify" /\ Opens THEN StartAddress ELSE 0
  /\ pos' = 0 /\ out' = <<>>
  /\ pageBuf' = <<>> /\ tmpBuf' = <<>>
  /\ verifyErrors' = MaxVerifyErrors
  /\ notErased' = {}
  /\ UNCHANGED <<store, fixed, runs>>

FF(n) == [i \in 1 .. n |-> Bits]

Row == address \div MainLen

\* init_bch refuses a polynomial that is not of degree BCH_N, as 0x25 is not,
\* and the buffer stays as it is.
brcm_nand(poly, buf) ==
  LET main == SubSeq(buf, 1, MainLen) IN
    IF poly = "0x25" THEN buf
    ELSE main \o IF main = FF(MainLen) THEN FF(PageLen - MainLen) ELSE Ecc(main)

\* NandChip::readPage: pageBuf after the page's bytes arrived.
pageRead(content) ==
  LET main == Prefix(content, MainLen) IN
    IF args.access = "main" THEN main
    ELSE IF args.access = "r-oob" THEN brcm_nand("0", main \o FF(PageLen - MainLen))
    ELSE Prefix(content, PageLen)

Reads ==
  {pageRead(store[Row])} \cup IF noisy THEN {pageRead(c) : c \in Misreads} ELSE {}

\* NandChip::writePage: the bytes sent, and the register they go into.
pageWritten == IF args.access = "w-oob" THEN brcm_nand("0x25", pageBuf) ELSE pageBuf

Register(buf) == [c \in Cols |-> IF c <= Len(buf) THEN buf[c] ELSE Bits]

-----------------------------------------------------------------------------
(***************************************************************************)
(* actionRead.                                                             *)
(***************************************************************************)
ReadPage ==
  /\ pc = "read"
  /\ address < endAddress
  /\ pageBuf' \in Reads
  /\ out' = out \o SubSeq(pageBuf', fileOffset + 1, filePageSize)
  /\ address' = address + MainLen
  /\ UNCHANGED <<store, fixed, pc, pos, tmpBuf, verifyErrors, notErased, runs>>

\* fwrite comes short ("Error writing data to file") and the loop is left.
WriteFileFails ==
  /\ pc = "read"
  /\ address < endAddress
  /\ pageBuf' \in Reads
  /\ \E n \in fileOffset .. filePageSize - 1 :
       out' = out \o SubSeq(pageBuf', fileOffset + 1, n)
  /\ pc' = "done"
  /\ UNCHANGED <<store, fixed, address, pos, tmpBuf, verifyErrors, notErased, runs>>

-----------------------------------------------------------------------------
(***************************************************************************)
(* actionWrite: read a chunk, skip it when it is all 0xFF, else write the  *)
(* page and read it back until the two agree or the budget is spent.       *)
(***************************************************************************)
Remaining == Len(args.file) - pos

Chunk == SubSeq(args.file, pos + 1, pos + filePageSize)

NextChunk_SkipKeepsPlace ==
  /\ pc = "write"
  /\ address < endAddress
  /\ Remaining >= filePageSize
  /\ pageBuf' = Chunk
  /\ tmpBuf' = FF(filePageSize)
  /\ IF Chunk = FF(filePageSize)
     THEN address' = address + MainLen /\ pc' = pc /\ pos' = pos + filePageSize
     ELSE pc' = "program" /\ address' = address /\ pos' = pos
  /\ UNCHANGED <<store, fixed, out, verifyErrors, notErased, runs>>

NextChunk ==
  /\ pc = "write"
  /\ address < endAddress
  /\ Remaining >= filePageSize
  /\ pageBuf' = Chunk
  /\ pos' = pos + filePageSize
  /\ tmpBuf' = FF(filePageSize)
  /\ IF Chunk = FF(filePageSize)
     THEN address' = address + MainLen /\ pc' = pc
     ELSE pc' = "program" /\ address' = address
  /\ UNCHANGED <<store, fixed, out, verifyErrors, notErased, runs>>

\* "Insufficient data from file": what is left of it is read and not used.
OutOfData ==
  /\ pc = "write"
  /\ address < endAddress
  /\ Remaining < filePageSize
  /\ pos' = Len(args.file)
  /\ pc' = "done"
  /\ UNCHANGED <<store, fixed, address, out, buffer, verifyErrors, notErased, runs>>

Writable == args.access \in {"main", "mainoob", "w-oob"}

\* What writePage returns is not looked at.
Program ==
  /\ pc = "program"
  /\ Writable
  /\ \E r \in ProgramResults(store, Row, Register(pageWritten)) : store' = r.pages
  /\ pageBuf' = pageWritten
  /\ tmpBuf' = pageWritten
  /\ pc' = "compare"
  /\ UNCHANGED <<fixed, address, files, verifyErrors, notErased, runs>>

\* "unexpected case": the access type is refused at the first page written.
CannotWrite ==
  /\ pc = "program"
  /\ ~Writable
  /\ pc' = "exited"
  /\ UNCHANGED <<store, fixed, address, files, buffer, verifyErrors, notErased, runs>>

PageEqual_NotCompared ==
  /\ pc = "compare"
  /\ pageBuf' \in Reads
  /\ address' = address + MainLen
  /\ pc' = "write"
  /\ UNCHANGED <<store, fixed, files, tmpBuf, verifyErrors, notErased, runs>>

PageEqual ==
  /\ pc = "compare"
  /\ pageBuf' \in Reads
  /\ pageBuf' = tmpBuf
  /\ address' = address + MainLen
  /\ pc' = "write"
  /\ UNCHANGED <<store, fixed, files, tmpBuf, verifyErrors, notErased, runs>>

PageDiffers_Free ==
  /\ pc = "compare"
  /\ pageBuf' \in Reads
  /\ pageBuf' # tmpBuf
  /\ pc' = "program"
  /\ UNCHANGED <<store, fixed, address, files, tmpBuf, verifyErrors, notErased, runs>>

\* The page just read is what a retry writes; "Too many errors" ends the loop.
PageDiffers ==
  /\ pc = "compare"
  /\ pageBuf' \in Reads
  /\ pageBuf' # tmpBuf
  /\ verifyErrors' = verifyErrors - 1
  /\ pc' = IF verifyErrors' = 0 THEN "done" ELSE "program"
  /\ UNCHANGED <<store, fixed, address, files, tmpBuf, notErased, runs>>

-----------------------------------------------------------------------------
(***************************************************************************)
(* actionErase.                                                            *)
(***************************************************************************)
EraseBlock_StatusIgnored ==
  /\ pc = "erase"
  /\ address < EndBlock
  /\ \E r \in EraseResults(store, address) : store' = r.pages
  /\ address' = address + 1
  /\ UNCHANGED <<fixed, pc, files, buffer, verifyErrors, notErased, runs>>

EraseBlock ==
  /\ pc = "erase"
  /\ address < EndBlock
  /\ \E r \in EraseResults(store, address) :
       /\ store' = r.pages
       /\ notErased' = IF r.ok THEN notErased ELSE notErased \cup {address}
  /\ address' = address + 1
  /\ UNCHANGED <<fixed, pc, files, buffer, verifyErrors, runs>>

\* The for loops of main end at the end address.
RangeDone ==
  /\ pc \in {"read", "write", "erase"}
  /\ address >= IF pc = "erase" THEN EndBlock ELSE endAddress
  /\ pc' = "done"
  /\ UNCHANGED <<store, fixed, address, files, buffer, verifyErrors, notErased, runs>>

-----------------------------------------------------------------------------
(***************************************************************************)
(* actionVerify: no constructor case has set the sizes.  A chunk of an     *)
(* uninitialised filePageSize is short and main exits, or readPage divides *)
(* by an uninitialised nandPageSize and fills an uninitialised pageBuf.    *)
(***************************************************************************)
Verify ==
  /\ pc = "verify"
  /\ pc' \in {"exited", "crashed"}
  /\ UNCHANGED <<store, fixed, address, files, buffer, verifyErrors, notErased, runs>>

(***************************************************************************)
(* error() exits, or the user stops the program, in the middle of a call:  *)
(* the page being programmed holds anything between old and new, the block *)
(* being erased is erased or is not.  Then the command is given again.     *)
(***************************************************************************)
Interrupted(s) ==
  IF pc = "program"
  THEN LET new == Programmed(s[Row], Register(pageWritten)) IN
         {[s EXCEPT ![Row] = x] : x \in Between(new, s[Row])}
  ELSE {s} \cup IF pc = "erase" /\ address < EndBlock THEN {Erased(s, address)} ELSE {}

Interrupt ==
  /\ pc \in {"open", "read", "write", "program", "compare", "erase"}
  /\ pc = "program" => Writable
  /\ store' \in Interrupted(store)
  /\ pc' = "exited"
  /\ UNCHANGED <<fixed, address, files, buffer, verifyErrors, notErased, runs>>

Rerun ==
  /\ pc \in {"done", "exited"}
  /\ action # "none"
  /\ runs > 0
  /\ runs' = runs - 1
  /\ pc' = "open"
  /\ UNCHANGED <<store, fixed, address, files, buffer, verifyErrors, notErased>>

Finished ==
  /\ pc \in {"done", "exited", "crashed"}
  /\ UNCHANGED vars

Parse == ParseAction \/ ParseUsb \/ ParseUnknown \/ Parsed

Step ==
  \/ Open \/ ReadPage \/ WriteFileFails
  \/ NextChunk \/ OutOfData \/ Program \/ CannotWrite \/ PageEqual \/ PageDiffers
  \/ EraseBlock \/ RangeDone \/ Verify

Next == Parse \/ Step \/ Interrupt \/ Rerun \/ Finished

Spec == Init /\ [][Next]_vars

\* Once the options are read, main runs without waiting for anyone.
FairSpec == Spec /\ WF_vars(Step)

-----------------------------------------------------------------------------
InRange(p) == args.from <= p * MainLen /\ p * MainLen < endAddress

\* The chunk of the file that belongs on page p when chunks have n bytes.
Ordinal(p) == p - args.from \div MainLen

Part(p, n) == [i \in 1 .. n |-> args.file[Ordinal(p) * n + i]]

HasPart(p, n) == InRange(p) /\ (Ordinal(p) + 1) * n <= Len(args.file)

\* The pages the write loop has gone past.
Passed(p) == InRange(p) /\ p * MainLen < address

(* Outside the addresses of the command line no page ever changes, through  *)
(* failures, retries, interruptions and reruns.                             *)
OnlyRange ==
  \A p \in Pages : store[p] # initial[p] => action \in {"write", "erase"} /\ InRange(p)

(* A write clears no bit that its own chunk of the file does not clear: the *)
(* loop keeps page and chunk together when it skips chunks of 0xFF, retries *)
(* and starts again.                                                        *)
ClearsOnlyItsChunk ==
  action = "write" /\ ~noisy =>
    \A p \in Pages : \A c \in Cols :
      (IF HasPart(p, filePageSize)
       THEN initial[p][c] \cap Register(Part(p, filePageSize))[c]
       ELSE initial[p][c]) \subseteq store[p][c]

(* A run that ends without a single "diff" has put each chunk that is not   *)
(* all 0xFF on its page, whatever earlier runs of the command went through. *)
CleanRunMatches ==
  action = "write" /\ pc = "done" /\ verifyErrors = MaxVerifyErrors /\ ~noisy =>
    \A p \in Pages :
      LET part == Part(p, filePageSize) IN
        Passed(p) /\ part # FF(filePageSize) => Prefix(store[p], filePageSize) = part

\* What the access types of the usage text say the file gets of a page.
Wanted(content) ==
  LET main == Prefix(content, MainLen) IN
    IF args.access = "main" THEN main
    ELSE IF args.access = "oob" THEN SubSeq(content, MainLen + 1, PageLen)
    ELSE IF args.access = "r-oob"
    THEN main \o IF main = FF(MainLen) THEN FF(PageLen - MainLen) ELSE Ecc(main)
    ELSE content

(* A read that gets to its end address has written to the file, page after  *)
(* page and without a gap, the part of the range the access type names.     *)
FileHoldsRange ==
  action = "read" /\ pc = "done" /\ address >= endAddress /\ ~noisy =>
    LET n == Len(Wanted(Blank))
        range == {p \in Pages : InRange(p)}
    IN /\ Len(out) = n * (IF args.from < endAddress
                          THEN (endAddress - args.from) \div MainLen ELSE 0)
       /\ \A p \in range :
            SubSeq(out, Ordinal(p) * n + 1, (Ordinal(p) + 1) * n) = Wanted(store[p])

(* When an erase ends, every block of the range is blank or was reported    *)
(* "NOT erased".                                                            *)
EraseAccounted ==
  action = "erase" /\ pc = "done" =>
    \A p \in Pages :
      InRange(p) => store[p] = Blank \/ BlockOf(p) \in notErased

(* Every run ends, however often the pages read back differ: the budget of  *)
(* verifyErrors is one for all pages.                                       *)
Ends == (pc = "open") ~> (pc \in {"done", "exited", "crashed"})

(* "file 0x%02X flash 0x%02X" (main.cpp:162): the loop goes on to the next  *)
(* page when the flash holds what the file holds.                           *)
WrittenPagesMatch ==
  action = "write" /\ pc = "done" /\ ~noisy =>
    \A p \in Pages :
      LET part == Part(p, filePageSize) IN
        Passed(p) /\ part # FF(filePageSize) => Prefix(store[p], filePageSize) = part
=============================================================================

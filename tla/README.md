# nandreader: specification, model checking and proofs

The repository holds tools that read, erase and write raw NAND flash chips
through an FTDI USB adapter, and tools that build the images written. This
directory holds TLA+ modules that model them, TLC configurations that check the
models on small instances, and TLAPS proofs for every instance. It is built in
stages; the plan below says which stage each part belongs to.

## 1. Inventory

All paths are under `src/`.

| Component | State it keeps | Operations | Talks to |
|---|---|---|---|
| `ftdinandreader/FtdiNand.cpp` | `m_slowAccess`, `m_rbErrorCount`; outside the program: the ACBUS lines, the FTDI's read buffer | `nandRead`, `nandWrite`, `sendCmd`, `sendAddr`, `writeData`, `readData`, `status`, `waitReady`, `open` | the chip, through libftdi's `ftdi_write_data` and `ftdi_read_data` |
| `ftdinandreader/NandData.cpp` | none | `readPage`, `writePage`, `erasePage`: fixed sequences of FtdiNand calls | FtdiNand |
| `ftdinandreader/NandChip.cpp` | page buffer, sizes and offset of the access type, address range | constructor (reset, READ ID, sizes, alignment), `readPage`, `writePage`, `erasePage`, `brcm_nand` | NandData, NandID, bch |
| `ftdinandreader/main.cpp` | action, file, address, `tmpBuf`, `verifyErrors` | option parsing; read, write, verify and erase loops | NandChip |
| `ftdinandreader/NandID.cpp` | device table, geometry | decoding of the ID bytes, address byte counts | used by NandChip and NandData |
| `ftdinandreader/FtdiNand_BB.cpp` | shadow pins | bit-banging variant of FtdiNand, unfinished | libftdi |
| `nandread_FTDI232H/` | `controlbus_value` (shadow of the control bus), `iobus_value`, chip table, `starting_erasepage`, `startingpage`, `totPages`, page buffer | `controlbus_pin_set`, `controlbus_update_output`, `controlbus_read_input`, `iobus_*`, `latch_command`, `setcolumns`, `setrows`, `read_data`, `latch_data_out`, `read_memory`, `erase_page`, `program_page`; option loop | the chip's pins, through libftdi's `ftdi_write_data` and `ftdi_read_pins` |
| `NandTool/NandTool-ori/` (and `NandTool/`, which does not compile) | options, `pageBuf`, file position | drivers for large (`NandDataLP`) and small pages (`NandDataSP`); read, write, verify loops; erases every 32nd page as it writes | FtdiNand, files |
| `createnfimg/` | `page` within the block, `p_spare_jffs2_cleanmarker`, spare layout | option checks, page loop that adds clean markers and ECC | files |
| `brcm-nand-bch-master/`, the `bch.c` copies | Galois tables | BCH encoding; `brcm_nand` page filter | files |
| `analyzetag/` | none | prints the tag of an image | files |
| `libusb/libusb/core.c`, `io.c`, `sync.c`, `os/events_posix.c` | list of flying transfers, event sources, event flags, the event handler's locks, the timer | submit, cancel, handle events, wait for the handler, time out, disconnect, close; synchronous transfers | the backend; several threads of the caller |
| `libusb/libusb/os/linux_usbfs.c` | URBs of a transfer, reap action and status | submit in URBs, cancel, reap, retire | the kernel's usbfs |
| `libusb` otherwise | descriptors, device lists | other operating systems' backends, hotplug, descriptors | |
| `libftdi1-1.5/src/ftdi.c`, `ftdi_stream.c` | the context with its read buffer, a transfer control per asynchronous call, the stream's state | `ftdi_read_data`, `ftdi_write_data`, `*_submit`, `ftdi_transfer_data_done`, `_cancel`, `ftdi_readstream` | libusb |
| `libconfuse/` | | configuration file parser, used by libftdi's EEPROM tool | files |

How they interact (ftdinandreader, the main tool). `main` runs one action over a
range of addresses. For each page it calls `NandChip`, which calls `NandData`,
which issues a command cycle, address cycles, data cycles, a confirm command and
a wait on `FtdiNand`. `FtdiNand` turns each into bytes written to the FT2232H;
answers come back through one first-in first-out buffer that nobody empties once
`open` has. The chip works on its own in the meantime and shows it on R/#B.

How the others interact. `nandread_FTDI232H` drives every pin itself: each of its
functions changes a shadow register, copies it to the pins, and puts bytes on or
takes bytes off the I/O bus. `createnfimg` writes an image file that `NandTool`
programs; the layout the one chose meets the erase blocks of the other. All tools
reach the adapter through libftdi, whose data calls are libusb transfers with a
read buffer between; libusb lets any number of threads wait for transfers on one
context, one of which at a time handles the events of all.

What is hard here:

* The chip and the program run concurrently and are coupled only by R/#B, which
  is polled with a bound and then ignored.
* The read buffer relates every answer to the question asked before it only by
  position. A short answer breaks that relation, and the code goes on.
* #WP is pulled low by every read and high by every write, while a program or
  erase must see it high to its end.
* Pages are programmed by clearing bits, so writing again can only clear more:
  retries, interruptions and reruns of the same command accumulate.
* Statuses are returned, and ignored one level up.
* The shadow register and the pins differ between updates, the I/O bus has two
  drivers, and one flat address stands for row and column (nandread_FTDI232H).
* NandTool erases by page count, a chip by blocks; what one erase wipes, an
  earlier turn of the same loop has written.
* In libusb the event handler changes hands: a thread that looked for a handler
  may find none when it goes to sleep, a timeout may race the answer, a
  disconnection may race a submission, a close may race a poll.
* A bulk transfer is several URBs, which the kernel may end in part and which must
  all be reaped before the transfer is reported.
* libftdi's callbacks submit the same transfer again; cancelling, ending short and
  unplugging come at any point of it.

What makes each component correct: FtdiNand and NandData, that the cycles amount
to atomic page operations with the right result; NandChip and main, that file
and pages stay together, only the range is touched, and a run that reports
nothing has done what was asked; NandID, that different pages have different
addresses; nandread_FTDI232H, that latches happen with the other lines in the
right state and pages are addressed injectively; createnfimg and brcm_nand, that
every page gets its spare area in its place; NandTool, that what it has written
stays written; libusb, that every transfer ends once, with all its data and a true
status, that nobody sleeps through the end of what he waits for, and that a handle
is closed with nobody polling it; libftdi, that bytes pass in order, once, and
without their status bytes, and that calls return.

## 2. Modules

| Module | Models | Correspondence |
|---|---|---|
| `NandTypes` | pages, blocks, bytes; what programming and erasing do; the operations and their replies | a byte is the set of its 1 bits, so 0xFF is `Bits` and programming is intersection |
| `NandFlash` | the chip (external), as NandData drives it | one operator per bus cycle, one per end of internal work |
| `FtdiNand` | `FtdiNand.cpp` | `pins` the ACBUS lines, `fifo` the read buffer, `slow` `m_slowAccess`, `rbErrorCount` `m_rbErrorCount`, `polls` the counter `x` of `waitReady` |
| `NandData` | `NandData.cpp` with the FtdiNand calls it makes | `pc` the call made next, `op` the arguments, `ret` the result; one action per call |
| `NandStore` | nothing: the abstract specification of NandData | each operation takes effect once between call and return |
| `NandGeometry` | `NandID.cpp`, `sendAddr` | the table in its order, the first entry of a code, the sizes of an ID, the bytes a row is sent as; operators without state |
| `NandReader` | `main.cpp`, `NandChip.cpp` | `pc` the place in `main`; the variables have the code's names; `initial` is history |
| `NandData_proofs` | theorems about NandData, and the refinement of NandStore | |
| `NandGeometry_proofs` | theorems about NandGeometry | |
| `NandReader_proofs` | theorems about NandReader | |
| `Usbfs_proofs` | lemmas about Usbfs: what each of its functions keeps of the URBs and of the data of a transfer | |
| `UsbEvents_proofs` | theorems about UsbEvents, from these lemmas | |
| `NandRead232H_inv` | nothing: the inductive invariants of NandRead232H (IInv, Everything, Written) and what its theorems assume of the constants | |
| `NandRead232H_proofs` | theorems about PinBus and NandRead232H | |
| `NfFlow_proofs` | theorems about NandTool, NfImage and their composition NfFlow | |
| `FtdiStream_proofs` | theorems about Ftdi and FtdiStream | |
| `LinearTypes`, `LinearNand` | nothing: what nandread_FTDI232H takes a chip for, one run of cells addressed by `mem_address`, and the abstract specification of its programs and erases | `RowAt` and `ColAt` are the split of the address; `op`, `acted`: each operation takes effect once between call and return, or is cut short by a reset |
| `PinBus` | the bus functions of `nandread_FTDI232H.c`, and the chip at the pins (external) | `shadow` is `controlbus_value`, `pins` what `controlbus_update_output` last wrote, `io` and `out` the two drivers of the I/O bus; a function is the sequence of its moves, `todo` what is left of them |
| `NandRead232H` | `main` of `nandread_FTDI232H.c` and its memory operations | `pc` the option being served; variables have the code's names; options act as getopt meets them |
| `NandTool` | `NandTool-ori/NandTool.cpp`, `NandDataLP.cpp`, `NandDataSP.cpp` | `calls` the FtdiNand calls a driver function still makes, `x` the page of the loop |
| `NfImage` | `createnfimg.c` | `page`, `p_spare_jffs2_cleanmarker` as in the code; `image` the pages written |
| `NfFlow` | createnfimg, then NandTool on the image | composition of the two over the file |
| `Usbfs` | a bulk transfer in `linux_usbfs.c`, and the kernel (external) | `reap_action`, `reap_status`, `num_retired`: the fields of the transfer; functions on one transfer's record |
| `UsbEvents` | `io.c`, `sync.c`, `events_posix.c`, the closing of handles in `core.c` | `pc[t]` the place of thread t; locks held across a wait are variables, other critical sections one step |
| `Ftdi` | the data calls of `ftdi.c` | `tc` the transfer control, or the local variables of a synchronous call; `readbuffer*` the context's |
| `FtdiStream` | `ftdi_stream.c`, on top of `Ftdi` | `stream` is `FTDIStreamState` and the transfers in flight |
| `MCNandData`, `MCNandReader`, `MCNandRead232H`, `MCNfFlow`, `MCUsbEvents`, `MCFtdi` | instances for TLC | |

`NandData` is composed of the chip, the link and the program: it EXTENDS
`FtdiNand`, which EXTENDS `NandFlash`, which EXTENDS `NandTypes`. `NandReader`
stands on the result: it takes a call of NandData as one step with the results
`ProgramResults` and `EraseResults` of `NandTypes`, which is what `NandStore`
promises and the theorem `Refinement` establishes. `NandRead232H` EXTENDS `PinBus`,
and both stand on `LinearTypes`. `NfFlow` EXTENDS `NandTool` and `NfImage` and is
the only one of the three that is run. `UsbEvents` EXTENDS `Usbfs`, `FtdiStream`
EXTENDS `Ftdi`. libftdi is not composed with `UsbEvents`: `Ftdi` takes a libusb
transfer as what its caller sees of it (pending, cancelled, or over with a status
and a length), which is what `CalledOnce`, `DataKept` and `TimeoutReported` of
`UsbEvents` say of one.

An operator named `X_Why`, defined before an operator `X`, is `X` with a
plausible bug. No specification uses it; replacing `X` by it makes the property
named for it in `PROJECT.json` fail, which shows that the property depends on
that line of the code.

### Choices of the model

* Lines. A command buffer of `nandWrite` is one step: its lines are set by its
  first command and DisableACBUS follows before anything else can happen. The
  FTDI executes buffers in order, so the only concurrency is with the chip.
* Data. A page register is loaded and clocked out as a whole.
* Slow mode. Each byte of a page or status read comes twice; the byte that
  answers `GET_BITS_HIGH` is not a data byte and comes once. `slow` is chosen
  initially (the option `-f`).
* Undefined behaviour. `resp` of `waitReady` is uninitialised when the first
  poll gets no byte: either value is allowed. `waitReady` and `sendCmd` fall off
  their ends without a return value that nobody uses. The repository has no build
  files; the model is of a build where that falling off returns to the caller.
* The verify action works with a `nandPageSize`, `filePageSize` and `pageBuf`
  that were never set, because the switch of the constructor has no case for it.
  It exits after a short `fread` or crashes; it is modelled as these two outcomes.
* `-u vid:pid` sets the action to verify, or to none: a line copied from `-v`.
* `nandRead` puts neither #WP nor #CE high, although its comment says "WP must be
  high (disabled) even in read ops". DisableACBUS follows only writes, so #WP
  stays low after a read until the next command. No operation is disturbed by it:
  see `WPHighWhileBusy`.
* A crash is a call of `error()`, which exits, or a user's interruption. A page
  being programmed then holds anything between old and new content, since the
  next start resets the chip. `Rerun` gives the same command again, as
  `Readme.txt` advises ("give this command many times").
* The ECC is a constant operator `Ecc` from main area to spare area: no property
  depends on which code it is. `brcm_nand(0x25, ...)` leaves the buffer as it is,
  because `init_bch` refuses a polynomial whose degree is not 13 and
  `brcm_nand` returns -1, which is not looked at.
* Addresses of NandReader are bytes of main area, as on the command line. Every
  command line has both, inside the chip, the end possibly 0; without `-p` the
  code uses uninitialised ones.

* nandread_FTDI232H. Every USB call may fail, which the code prints or ignores before
  it goes on; `mishaps` records it. A failed write (`WriteFails`) changes the shadow and
  not the pins, or not the direction of the I/O bus; a failed sample (`SampleFails`)
  leaves in the buffer what it held, which in the loops of `-r` and `-R` is the byte of
  the page before (`Stale`). The busy wait reads the I/O bus (`ftdi_read_pins` of the
  interface it is given), on which the confirm command still is, so its bit 4 is set and it
  ends at once, whether the chip is ready (`Wait`) or not (`WaitEndsEarly`: the commands after
  it meet a busy chip). A failed read there tests an uninitialised byte (`WaitFails`). If the
  confirm command itself never reached the bus, the byte left there may keep the loop
  going for ever. What the properties claim afterwards: `NoContention` holds until a write
  fails; `WPHighWhileWorking`, `ImplementsLinear` and `BitsCleared` until a write fails
  or a wait ends with the chip busy (`InStep`); `ReadReturnsCells` until anything does;
  `StopsAtEnd` always; `LineEnds` unless a write fails. A call begins with the checks of the
  control bus that its function makes (`Refused`), `program_page` with that of nRE.
  #WP changes in the shadow only. `setcolumns` and
  `setrows` cut one flat address at bit 12 (14 for H27), while pages lie at a
  stride of `page_size`, so two pages fall into the columns of one row; the
  reads, programs and erases of the model go where those of the code go. The row bytes
  of a chip tell `RowSpan` rows apart, and the chip has as many or a fraction of them. `-W`
  and `-R` use `totPages` before anything set it (`Stack`); `-R` fills a buffer of
  `page_size` with page and spare area, and `Overrun` is the crash that may follow.
  `feof` is late: a page is programmed for the end of the file. `Interrupt` kills
  the process: it makes no move of its pins after that, while the chip goes on and
  the pins keep their levels until the next process sets them.
* NandTool. `-ori` is the variant modelled. One mishap per behaviour (`trouble`): a
  chip that outlasts `waitReady`, a failed program or erase, a full disk or an
  interruption. `-w` with `-t main` or `-t oob` erases before it refuses.
* createnfimg. The ECC is where its bytes go; with field order 14 it overlaps the
  clean marker, with a layout that is not in the table the marker may cover the bad
  block indicator. The properties claim neither. A comment (line 595) has ECC computed
  also for a blank page with a clean marker in its spare area; the code (line 596)
  looks at the data alone, and is modelled. `calc_spare_layout` keeps `LAYOUT_PARMS` in
  32 bits, which cuts the level to four: `-b 17` gets the layout of level 1, `-b 28` that
  of level 12 (`Matching`). What `ImageAssumption` asks beyond the checks of main: page and
  spare size keep to their fields of `LAYOUT_PARMS`, the Hamming code fits the spare
  bytes of a partial page (a shorter one is written past), and `-j` is 0 or 1 (with another
  value the marker copied is uninitialised memory). The exits for an illegal option, a missing
  name and a file that does not open come before anything is written and are left out.
* libusb. One transfer and one handle per thread; an URB has room for one unit of
  data. The kernel is external and may end an URB whole, short, or with an error,
  and ends those of a lost device or gives none back, by its capabilities. A close
  by another thread comes after the submission returned: libusb leaves anything
  earlier to its caller. Handling events may fail in the poll, in the reaping of an URB and
  in the allocation of the list of descriptors (`HandlingFails`, `NoMemory`): the caller then
  cancels its transfer and waits on (`GiveUp`). It does so without a look at the handle;
  where another thread has closed that, the behaviour is undefined and the thread is left
  where it is. An error of the timer or of a condition wait, which do not fail on Linux, is
  left out. The loop over the URBs that cancels them is one step: URBs that end between two of
  its calls are refused by the kernel and reaped as ended, as if they had ended before it. After a minute only a poller needs to wake up.
* libftdi. At most one read and one write at a time, because two reads share one
  read buffer. A transfer that is over when it is cancelled is submitted again by its
  callback, and `ftdi_transfer_data_cancel` then waits for a transfer nobody
  cancels; `CallsReturn` claims only what was cancelled in time (run `late_cancel` shows the
  rest). The wait for a cancelled transfer, there and in `ftdi_transfer_data_done`, ends with
  any negative return, a signal's included, and the transfer is freed although it is
  active (`CancelBreaks`). Such a transfer is a `stray`: the device still ends it, its bytes
  are gone for the program, and once its callback runs, on freed memory (`LateCallback`), the model
  ends: what that does to the read buffer, the caller's buffer or a further submission is
  undefined. `ReadInOrder` and `WrittenInOrder` claim nothing once a transfer was freed
  so. `ftdi_readstream` cancels nothing when it ends,
  a transfer submitted again overwrites the error of
  another, only the answer to a transfer's last packet stops the stream, and the
  return value is 1, not the callback's. It puts the whole
  `usb_read_timeout` into the microseconds of its wait, which libusb refuses from a
  second on (`TIMEVAL_IS_VALID`): with the default of 5000 ms the stream is over
  before its first event, in the model too (`Events`). A wait that fails ends it
  (`StreamWaitFails`). A failed submission while
  it is set up and a failed `ftdi_set_bitmode` are left out.

### Bounds

| Bound | Value | Why it is enough |
|---|---|---|
| `NPages`, `PagesPerBlock` | 4 and 2 (reliable, reader); 2 and 1 (fault runs) | pages of the same and of other blocks; wrong rows and blocks show |
| `PageLen`, `Bits` | 1 or 2 bytes of 2 bits | shifted bytes show with 2; the two bits are FAIL and R/#B |
| `ReadLens` | {1, 2} | with and without spare area |
| `MaxPolls` (10000), `MaxRetries` (15) | 2 and 1 | polls and timeouts on both sides of both limits occur |
| `MaxFaults` | 0 or 1 | one lost answer is enough to separate buffer and program; the budget makes retries end, see fairness |
| `RowSpan` (2^16), `ErasePages` (64) | those of the instance | see `Addressable`; `NandGeometry` has the real ones |
| `MaxVerifyErrors` (100) | 2 | the budget is used in part and to its end, on one page and on two |
| `MaxRuns` | 2 | a rerun after every possible interruption |
| `Misreads` | two pages | a wrong page that clears bits, and all of them |
| `NRows`, `PerBlock`, `PageLen`, `ColSpan` (pins) | 4, 2, 3, 4 | two pages of two bytes per span of columns and one byte of spare area, the proportions of the table's chips; rows of two blocks |
| `MaxOptions`, `MaxRuns` (pins) | 2 and 2 | a page and what is done there on one line; a run after an interruption anywhere |
| `MaxMishaps` (pins) | 1 | each USB call that fails, and each wait that ends early, alone and at every place |
| `EraseEvery` (32), `PagesPerBlock` (image) | 2; 2 on the small, 4 on the large chip | a block that is erased once, and one that is erased in the middle |
| `IntPages`, `RowSpan` (image) | 8 | twice the pages of the chip, so that `Addressable` holds: a chip of at most 2^15 pages |
| `Params`, `Inputs` (image) | every level, size and spare size the table names, some it does not, and levels 17, 24 and 28 that are taken for others; files of 3 and 4 pages | every layout; block wrap, split marker, blank pages, short last page |
| `Flashed` | the layouts of the two chips | two geometries meet all of NandTool |
| `Thread`, `Timeout` (threads) | two, of 1 and 2 ticks | one handles events while the other waits; the shorter timeout is submitted first or last |
| `Setups` (threads) | two threads with a close across, with and without timer, and with an unplugged device or failing event handling; one thread of three URBs and any mishap | interleavings need two threads, mishaps of a transfer need several URBs; both at once is beyond 300 seconds |
| `PacketSize`, `ReadChunk`, `WriteChunk` (bytes) | 4, 8, 2 | two packets per transfer, the second whole, short or only status; a write of 3 takes two chunks |
| `ReadSizes`, `DeviceData`, `Calls` | 1 and 2; 3; 3 | a packet's payload and less, bytes left over for the next call, a read that needs the next transfer |
| `ReadTimeouts` (ms) | 500 and 5000 | one on each side of a second |
| `Mishaps` (bytes) | 1 | each error alone, at every place |

## 3. Properties and runs

`reliable` (MCNandData): the link loses nothing and R/#B rises before the last
poll. Checked: `InStep`, `WPHighWhileBusy` and `ImplementsStore`, the refinement
of `NandStore`. Programs and erases may fail, leaving pages in between. The
result: under these conditions the sequences of NandData are atomic page
operations with the right replies, for both clock settings.

`faulty` (MCNandData): a short read or a failed transfer may come anywhere, and
the chip may stay busy past the timeout or for ever. Checked: `TypeOK` (the count of
timeouts saturates), `NoStrayWork` (a program or erase that starts is always the running
operation's, at its address and with its data, even when the program runs ahead
of the chip), `CallReturns` (every operation returns or exits).

`reader` (MCNandReader): one command line, every action and access type, ranges
of a block, of the whole chip, empty and misaligned; failing programs and erases,
misread pages, interruption at any call, a file that cannot be written, and a
rerun. Checked: `TypeOK`; `OnlyRange`; `FileHoldsRange`; `EraseAccounted`;
`ClearsOnlyItsChunk` (a page never loses a bit that its own chunk of the file
keeps); `CleanRunMatches` (a run without a single "diff" has written its chunks,
even over pages that earlier runs left half programmed, which is what justifies
running the command again); `Ends`.

`pins` (MCNandRead232H): nandread_FTDI232H with a chip at the other end of its
pins, up to two options per line, two lines, an interruption between any two pin
changes, and one USB call that fails or one wait that ends with the chip busy, anywhere.
Checked, each up to the mishaps named in section 2: `NoContention` (never two drivers on
the I/O bus), `WPHighWhileWorking`, `ReadReturnsCells`, `StopsAtEnd`, `BitsCleared` (after `-w`
every bit the file has clear is clear, despite skipped pages and stale tails),
`ImplementsLinear` (the pins implement `LinearNand`), `LineEnds`.

`image` (MCNfFlow): every layout of createnfimg's table; the images that fit are
written by NandTool to a small and to a large page chip, read and verified, two runs,
one mishap. Checked: `MarkersWhole` and `GoodBlocks` of the image; `WrittenHeld`
(what the loop erased, wrote and does not erase again is on the chip), `VerifyExact` (a
verification finds nothing exactly when there is nothing), `OnlyItsPage`,
`RunEnds` of the tool; `BlocksMarked` of the two together: every erase block begins with
a clean marker, and no other page does.

`threads` (MCUsbEvents): the setups above. Checked: `EventSignalled`,
`FlyingInOrder`, `TimerSet` (bookkeeping that several threads keep consistent),
`DataKept`, `TimeoutReported`, `CalledOnce` (what the caller is told),
`HandlesOpen` (nothing is done on a closed handle), `NoLostWakeup` (when all
threads sleep, no transfer has ended or expired), `EveryoneReturns`. The run also
checks for deadlock over the locks. `NoLostWakeup` says nothing of handles that
another thread has closed: libusb forbids closing them with a transfer in flight.

`bytes` (MCFtdi): three calls of any kind, the last of which may be a stream.
Checked: `ReadInOrder` and `WrittenInOrder` (numbered bytes arrive once, in order,
without status bytes, and with no call failed all of them, wherever they wait; both
until a transfer is freed in flight), `CallsReturn`, `StreamReturns`.

Runs that show a disagreement between the code and what is said of it:

* `timeout`: "Waits till the R-/B-line to go high" (`FtdiNand.cpp:260`). After the
  last poll the function returns all the same, and a read clocks out the data of a
  chip that is still loading the page (a program or erase asks it for its status).
* `short_read`: "short read ... retrying" (`FtdiNand.cpp:113`). Neither the retry
  nor the next poll empties the buffer. The counterexample: the first poll of
  `waitReady` gets no byte, takes the uninitialised `resp` for ready, and the page
  is read while the chip is busy, behind a late answer.
* `retry`: "file 0x.. flash 0x.." (`main.cpp:162`). `readPage` overwrites
  `pageBuf`, so a retry writes what was read, and compares it with itself.
* `busy_wait`: "busy-wait for high level at the busy line" (`nandread_FTDI232H.c:523`, 634).
  The loop looks at the I/O bus and ends at once, with the chip busy.
* `late_cancel`: "Cancel transfer and wait for completion." (`ftdi.c:1923`). The transfer has
  ended short when it is cancelled; the callback submits it again, the device
  answers with status bytes, and so on for ever.

Disagreements the models follow the code in, for which no run is kept:

* "page size, recalculated oob data is added" (`NandChip.cpp:235`): `-w` with `w-oob` takes
  chunks of a page with its spare area from the file, and `brcm_nand(0x25, ...)` fails before it
  changes them, so the file's own bytes are written (`pageWritten`).
* "Write on second eraseblock" (`nandread_FTDI232H.c:918`): the row of eraseblock n is 32 n,
  half of its 64 n, since a row of 2048 bytes takes 2^12 of the address; `-p 1 -e 1`
  erases the first block of the chip (`EraseAddress`, `setrows`).
* "Bits that are not set can be used for data such as the JFFS2 cleanmarker"
  (`createnfimg.c:104`): with `-b 17 -c 1024 -r 32` the layout is that of level 1, and the 28 bytes
  of ECC per partial page overwrite the marker in its free bytes (`Matching`; `MarkersKept`
  fails for these levels).
* "It is not legal to free an active transfer" (`io.c:1329`): the wait for the end of a cancelled
  transfer fails once, and libftdi frees it (`CancelBreaks`; `NoneFreedActive` fails).
* "Cancel any outstanding transfers, and free memory." (`ftdi_stream.c:291`): nothing is cancelled;
  with the default timeout the first wait is refused and the stream ends with its transfers
  pending (`StreamRound`).

The type invariants of `PinBus` with `NandRead232H` (`TypeOK`) and `NandTool`
(`ToolTypeOK`) are stated in their modules as documentation of the variables and
are not among the checked properties; that of `UsbEvents` (`TypeOK`) is proved.

### Fairness

`NandData`: `WF_vars(Call)`. The program is never blocked by anything but
`usleep` and USB transfers with timeouts, so a call that can go on does. Nothing
is assumed of the chip: `ChipFinishes` is not fair. That `CallReturns` holds
needs short reads to end (`MaxFaults`): the loop of `nandRead` has no bound of its own.

`NandReader`: `WF_vars(Step)`, for the same reason. Parsing, interruptions and
reruns are not fair.

`NandRead232H`: the program's moves, its loop and the chip, which finishes what it
has begun. Nothing holds the program up: its USB calls return, the busy wait ends at its
first look, and no call need fail.
`NfFlow`: the tool's calls and steps, and the chip; `waitReady` gives up after a
hundred polls even if the chip does not. Options, interruptions and reruns are
not fair.

`UsbEvents`: every thread takes the steps it can take, also the late return of a
poll that has lasted a minute, and time passes as long as a timeout is to come.
No device has to answer and nobody has to unplug it: `EveryoneReturns` rests on the
timeouts alone, and is claimed where every transfer has one.

`Ftdi` and `FtdiStream`: every transfer ends, runs its callback while the program waits,
and the program goes on when its call may return. A transfer that writes ends at the latest by
its timeout. One that reads, the stream's included, which have none (`ftdi_stream.c:208`),
ends because an FTDI chip answers each time its latency timer runs out, if only with the two
status bytes; a chip that stops answering is a mishap (`StreamRound` ends a silent
stream, an error or a disconnection ends the transfer). Nobody has to begin or cancel
anything, and a stray need not end or call back.

Deadlock is checked everywhere: a program that has ended is the stuttering step
`Exited` or `Finished`.

## 4. Proofs

Those about NandData are for arbitrary numbers of pages, page lengths, bits, timeouts, retries and
read lengths, from `TypesAssumption` and `FtdiAssumption`.

* `TypeCorrect` (NandData_proofs): `Spec => []TypeOK`, with no assumption on link
  or chip. The lemmas follow bytes from the bus through the buffer to the reply.
* `StaysInStep` (NandData_proofs): `Spec => []InStep` assuming `Reliable`
  (no faults, R/#B in time) and `Addressable` (the chip has no more rows than the
  row bytes tell apart, and 64 pages per block). `WPHighWhileBusy` is not
  inductive: it needs that the chip is busy only while the program waits, for
  that the buffer must be empty when a poll is sent (an old byte would be taken
  for the answer), for that each read must take exactly what it asked for, in
  slow mode too. `InStep` is the conjunction of these facts, one named part each.
  There is one lemma per group of actions.
* `WriteProtectHolds`: `Spec => []WPHighWhileBusy`, from `InStep`.
* `Refinement` (NandData_proofs): `Spec => ImplementsStore`. An
  operation takes effect when the chip finishes; `Performed` tells whether it
  has. `Start` is Invoke, `ChipFinishes` is Perform, `Return` is Finish and every
  other call stutters; `InStep` gives that `Return` hands out the reply the
  effect had.

* `NoStrayWorkEver` (NandData_proofs): `Spec => NoStrayWork`, with no
  assumption on link or chip. A timeout leaves the chip busy while the program goes
  on; what saves it is that a busy chip takes no setup command. `Prepared` says so: a
  chip in a setup mode is idle, and holds the row and the data of the running
  operation until that operation's confirm command.

* `SupportedAddressable` (NandGeometry_proofs): every page and block of a supported
  chip is addressed as itself. It is what `Addressable` assumes, now with the sizes
  `NandID` gives and the bytes `sendAddr` sends: the table has an entry for a known
  code (`EntryInTable`, by the least element of a set of numbers), its sizes are
  numbers, and two bytes carry 16 bits (`PageRowsWrap`, `EraseRowsWrap`). `Supported` is
  at most 65536 pages, 64 pages per block and an address length `sendAddr` takes.
  Of the other chips of the table, larger ones wrap; 0xD5 and 0x39 are taken for the
  smaller chip that has the same code earlier; small page chips get no erase
  address length, so that erasing one ends the program, and a third address byte
  nobody wrote; chips of 32 GiB need 6 bytes, which ends it too. The assumptions
  `MT29`, `SupportedIdsAddressed` and `OtherIds` of MCNandData evaluate this for the ID
  the code quotes and for samples of every code.

NandReader (NandReader_proofs), for every chip size, page length, file, command
line, budget of differences and ECC function:

* `ReaderTypes`, `RangeOnly`, `ClearsItsChunk`, `CleanRun`, `RangeHeld`,
  `EraseReported`: `Spec => []` each of `TypeOK`, `OnlyRange`, `ClearsOnlyItsChunk`,
  `CleanRunMatches`, `FileHoldsRange` and `EraseAccounted`. The properties are about
  the end of a run, or about all pages at once; the inductive invariant says how far
  the run is. `InPlace`: the address is that of a page of the range, and exactly the
  chunks before it have been taken from the file, so file and pages stay together.
  `BufferKept`: what is about to be programmed keeps the bits the chunk keeps, and is
  the chunk itself as long as no page has differed (a retry writes what was read, so
  this is the place where the code could go wrong and the budget of differences
  matters). `MatchesSoFar`, `HoldsSoFar` and `ErasedSoFar` are the three end
  properties for the pages gone past. That pages do not overlap is arithmetic of
  multiples, stated once as lemmas.

UsbEvents (UsbEvents_proofs, Usbfs_proofs), for any finite set of threads, any numbers of URBs,
timeouts, and every mishap of the kernel; from `EventsAssumption`:

* `EventTypes`: `TypeOK`.
* `EventKeptSignalled`: `EventSignalled`. The count of closes is the number of
  threads that close, which takes the cardinality of a set that threads join and
  leave.
* `OpenHandles`: `HandlesOpen`. `Locks` says that the thread that handles events is
  the one that holds the event lock, `Sources` that a list of descriptors with a
  closed one in it is marked stale before anyone polls with it, and that what a poll
  has found is forgotten with the lock; `Completing` and `Closing` that nobody ends a
  transfer of a handle that is being closed.
* `CallbackOnce`: `CalledOnce`. `Phases` relates, per transfer, submission, list,
  in-flight flag, URBs and callback: a transfer called back is off the list and not
  in flight, and one not in flight has no URB left. `Ending` says that the one the
  handler is about to end is in flight and fully reaped, so that no second callback
  can follow.
* `ListInOrder`: `FlyingInOrder`, an insertion into and a removal from a sorted list
  without repetition.
* `TimeoutsReported`: `TimeoutReported`, with failing event handling and callers that
  give up among the steps. `CancelledBy` says that a cancelled transfer was given up by
  its caller, or carries the timed-out flag, or the thread that cancelled it holds the
  list's lock and is about to set it (`Expiry`); that it is one of the two, since who comes
  second finds the transfer no longer `Cancellable`; the completion that reads the flag needs
  the lock first. `NoVerdict` says that a transfer in flight has no status yet, so that the
  one it gets is that of its own completion.
* `DataIsKept`: `DataKept`. `Numbered` (Usbfs_proofs) accounts for the data of one
  transfer: what was moved to its place is the units 1 to `transferred`; the URBs
  waiting to be reaped hold the units after these, each once, in the order of the
  queue, and none of them lies where a later move would write over it (`Ahead`);
  the URBs the kernel still has come after all of these; a hole is left only where an
  URB that ended without data precedes. Each function of Usbfs is shown to keep it:
  the kernel ending an URB, discarding from either end, and `handle_bulk_completion`
  with its move of surplus data to the front (`EndedData`, `DiscardData`,
  `ShiftedData`, `CompletionData`). `DataInv` lifts it to the threads: a transfer is
  `Numbered` unless its handle is closed or its device `Lost`, which is the exception
  that `DataKept` names (the URBs of a
  device on a kernel that does not give them back are dropped with what they hold).
  With no URB left (`Phases`, `Ending`), nothing is outstanding but `transferred`.

nandread_FTDI232H (NandRead232H_proofs), for every chip, command line and file, any
number of options, of interrupted runs and of mishaps; from `PinAssumption`,
`ReaderAssumption` (which keeps addresses below 2^30, short of where `uint32_t` wraps)
and that `Ecc` makes a sequence of a sequence (`EccOnSequences`: `brcm_nand` writes into
the buffer it is given):

* `OneDriver`: `Spec => []NoContention`. What is left of the program is a sequence of
  moves without a bound, so the invariant is about neighbours in it. `Shaped` says which
  move may follow which (nRE falls only after the bus was turned round or nRE has
  risen, a sample comes between the fall and the rise: `Follows`). Every operation is shown
  to be built so, and unfolding a call to keep it (`EnterShaped`). `Held` says what the
  pins are before a move of each kind: the FTDI does not drive before a fall of nRE
  (`Turned`), the chip drives only until the next rise (`OutHeld`). A process killed while
  the chip drives the bus leaves it driven: until the first update of the next one the FTDI
  only listens (`BeforeRE`, `BeforePin`: the order of the moves in `main`). None of this
  looks at what a read returns or at what the chip is doing, so failed reads and early waits
  keep it; a failed write ends its premise for good (`IInv` begins with `~Had("write") =>`).
* `ReadsReturnCells`: `Spec => []ReadReturnsCells`, and `ImplementsLinearChip`:
  `Spec => ImplementsLinear`, both assuming that `Ecc` keeps the length of the buffer it
  changes in place (`EccInPlace`). Nothing is assumed of the chip's speed or of USB calls:
  the properties say until which mishap they hold, and the inductive invariant
  `Everything` has `InStep` as its premise, which, once false, stays so. `OpInv` says where
  the program is in its operation and what the chip has been told by then. `Where` names
  the phases the three operations are made of (`Phase`: the setup command, columns, rows,
  data, the confirm command, the busy wait, status, the bytes read, #WP down) and within
  each the byte and the edge: what is left to do (`From`), the pins (`Pinned`, or `Lagging`
  while #WP is in the shadow only), the address bytes latched so far (`Clocked`), the column
  and the page register (`AtColumn`, `Filled`), the bytes in InBuf (`Gathered`; their number
  whatever the reads return, their values while nothing has failed). One
  lemma per phase shows that a move leads to the same phase or the next
  (`OperationMoves`), likewise for `set_ecc`, READ ID and the reset of `main`
  (`BootGoesOn`, `EccGoesOn`). `Filed` says that the pages read are in the file, which is
  where a failed read finds the byte it leaves (`Stale`). `Employed` ties the chip's work to
  the operation even
  when the program is gone: the row its address bytes name is the one `mem_address`
  names (`RowSpan % NRows = 0`), so the work is `Effect` (`WorkIs`, `WorkDone`). For the
  refinement the call and return of an operation map to `Begin` and `End`, the end of
  the array operation to `Act`, a kill and a restart to `Stop`, the reset of a chip at
  work to `Reset`, which leaves each cell as it was or as it should become
  (`ResetImplements`), and every other step to a stutter; a mishap that ends `InStep` is the
  step after which `LinearNand` promises nothing.
* `WPStaysHigh`: `Spec => []WPHighWhileWorking`, from the same invariant. While the chip works
  for the running program, that is between the confirm command and the busy wait
  (`Employed`, `Phase`), where the pins are those of `Base`, #WP among them. An operation left over from a killed process has no such
  claim until the reset: a program dead otherwise was reading (`Gone`).
* `WritesClearBits`: `Spec => []BitsCleared`, besides assuming that pages lie side by
  side in a span of columns (`PagesFit`: 2048 divides 2^12 and 8192 divides 2^14, so it
  holds of the chips in the table; with it, no page goes on in the next row,
  `InPage`). `Written` adds to `OpInv` what `-w` has done: the pages before `nPage` are
  programmed as far as the file reaches, `at` is where the next one begins in the file,
  and an operation under way programs that one, with what `fread` put into the buffer
  (`FreadPage`). A program takes no bit back (`ProgramWithin`, from `And` bit by bit in
  `AndWithin`), and the 0xFF of a skipped page has no bit to clear (`BlankCleared`).
* `WritingStops`: `Spec => []StopsAtEnd`. The pages done, times the size of a chunk, are
  never more than the bytes read (`FileHeld`), as long as no read was short.

NandTool and createnfimg (NfFlow_proofs), for every number of pages, block sizes, distance
of erasures, image, file, command line and any number of runs; from `ToolAssumption` and
`ImageAssumption` (and `FlowAssumption`). The theorems about the chip assume `InChip`, the `-p` of the command line
names pages of the chip, and `Addressable`, the row sent names the page modulo the chip's
size. `RowsDistinct` gives the latter for chips of at most 2^15 pages (`pageno << 16` in an
`int`) and of no more than the row bytes tell apart:

* `WritesHold`: `Spec => []WrittenHeld`. `VerifiesAll`: `Spec => []VerifyExact`.
  `KeepsToItsPage`: `Spec => OnlyItsPage`. All three rest on `Steps`: while the chip keeps up
  and nothing fails on it, `Sound` holds. What is left of the driver's calls is a suffix
  of the plan for the page (`After`), and the position in it says what the chip has been
  told: which row and unit are addressed, what its register holds, whether it works and on
  what. Reading, `Reading` says that the buffer holds the units of the page fetched so
  far, and `Compared` that file position and page stay together and that no difference
  has been counted exactly when there was none. Writing, `Stage` does the same for the
  erasure and the one (large pages) or three (small pages) programs that follow, where
  each program must find the units before it on the page and its own blank. `Kept` are the
  pages behind the loop, `Ahead` those before it that an erasure has wiped: a page is
  written on a blank one only if nothing has been put there since. An erasure wipes pages
  of its block that the loop has written, which is why `Kept` asks for no erasure after
  the page, and why a `Kept` page is where a change of the order of erasing and writing
  would show. `-t main` and `-t oob` end after the erasure of the first page.
* `BlocksGood`: `Spec => []GoodBlocks`, with no assumption on the command line beyond
  `ImageAssumption`. The table is gone through entry by entry (`IndicatorsClear`): the size of
  the spare area fixes the bytes per partial page (`SpareSizes`), the level the number of ECC
  bytes (`EccSizes`: 7, 13 or 14, 20 or 21, and 28 to 70 for the levels from 17 on, most of
  which main refuses), and these end above the indicators.
* `MarkersComplete`: `Spec => []MarkersWhole`, for the levels below 16 (the others overwrite
  marker bytes, see section 3). What the program remembers, the page within
  the block and whether the split marker has gone by, is what `ShouldMark` says of the pages
  written (`MarkedOK`; the counter is the number of pages modulo the block, `PageOn`). That a
  marker is whole is a count: eight bytes of a layout's free ones with none of the others
  before them are the ones `calc_spare_layout` finds (`LeastEight`). They are named for each
  layout, and lie below the ECC (`MarkersFit`).
* `MarksEveryBlock`: `Spec => []BlocksMarked`, from the two invariants above and `Within`, the
  file offset does not pass the end of the file. `BlocksMarked` is about chips whose
  erase block is `EraseEvery` pages. It used to ask only that the block divide
  `EraseEvery`, which does not hold: of smaller blocks main erases every other one, or
  fewer, and writes the rest over what is there. TLC finds that with blocks of 2 pages and
  `EraseEvery` 4; an instance where the two are equal could not show it.

libftdi (FtdiStream_proofs), for every packet size, chunk size, size of a request, number of
transfers of the stream, and any number of calls and mishaps, until a transfer is freed in
flight; from `FtdiAssumption` and `StreamAssumption`. The invariant is `NoneFreedActive => IInv`:
`CancelBreaks` is the one step that breaks its premise, for good (`FreedRemains`), and every other
step keeps `IInv`.

* `ReadingInOrder`: `Spec => []ReadInOrder`. A byte is its number, so what lies between device
  and program is a chain of intervals, and the invariant is that chain (`Flow`): what the
  program has read rises to some byte a; what its call has gathered goes on from there to b,
  the read buffer to c, the call's transfer to d, and the transfers of the stream from d to
  the last byte sent (`Chains`). Only before a may there be gaps, and only once a call has
  failed or was cancelled. Each action moves one of the borders: a return from a call moves
  a to b, a callback moves bytes over b and c, the device ending a transfer moves the
  top. That this can be said of a buffer in which bytes are moved about needs
  `ReadsFresh` (a transfer in flight finds the read buffer empty: `readbuffer_offset` 0 is
  what `Taken` relies on) and `PayloadsStripped`. Transfers of the stream are resubmitted at the
  end of the queue, behind transfers that are not over yet: at these all of what was sent
  must be accounted for, which is a part of `Chains`.
* `WritingInOrder`: `Spec => []WrittenInOrder`. `Written` says that a transfer begins with the byte
  after those sent, whatever ended the one before, and lies within the buffer of its call.
* `PayloadsStripped`: the loop of `memmove` calls that strips the status bytes in place. Packet i
  goes to a place that packet i + 1 has not been read from yet but the packets before
  are done with; `Moved(b, i)` is the buffer after i of them, and the lengths the code computes in three
  cases are the number of payload bytes.

Two recursive functions, that loop and `Streamed`, are shown equal to explicit ones: the
explicit one satisfies the equation, so one exists, and the least place where two of them
differ cannot be (`Unrolled`, by `LeastNumber`, from the library's theorem that the order of
the naturals is well-founded).

Each of these invariants holds in all states of the runs `reader`, `threads`, `image`, `bytes` and
`pins` (there with sequences of moves taken for sequences), which was tried before it
was proved.

Only model-checked:

* liveness (`CallReturns`, `Ends`, `LineEnds`, `RunEnds`, `EveryoneReturns`,
  `CallsReturn`, `StreamReturns`) and with it `NoLostWakeup`, which is about who can
  take a step: out of the prover's reach;
* of UsbEvents, `TimerSet`, which holds for two threads but not for
  every number of them: when a thread closes the handle of a third thread's transfer in
  flight, `do_close` takes it off the list without setting the timer for the next.
  libusb forbids closing such a handle, so this is no theorem to be had;
* of NandTool, what it does on a chip that is late or fails, about which only `RunEnds` says
  something.

## 5. Not modelled

* `open` and the constructor's RESET, READ ID and GET FEATURES; `EnableRead` is
  not called.
* `FtdiNand_BB`: its `sendAddr` sends nothing, `readData` returns at once, the
  base class has no virtual functions, and `setSizes` exits for its access type.
* NandID's manufacturer names and what it prints.
* Of nandread_FTDI232H: the decoding of READ ID and ONFI data, option `-c`, which
  copies a file without its spare bytes to another and uses no chip, and the ends of options whose
  file does not open. Of NandTool: the variant in `NandTool/` itself, which does not
  compile, and its identification of the chip beyond "known or not".
* Overflow of `pageno << 16` beyond what wraps in an `int` of 32 bits.
* The arithmetic of BCH and Hamming codes: recursion over data.
* libusb's isochronous and control transfers, streams, the hotplug messages, EOVERFLOW,
  bulk continuation and the refused submission it allows (EREMOTEIO), the limit of
  25 URBs reaped at a time, the list of completed transfers that it fills, and
  `open_devs_lock`; `do_close` taking an expired transfer off the list without setting
  the timer for the next, which matters only with a third thread. The Windows, macOS,
  BSD and other backends, which this repository's Linux tools do not use.
* libftdi's opening, line settings, latency timers, bit modes (control transfers
  without state of their own), its EEPROM code (decoding of bytes), two reads at a
  time.
* `analyzetag`, `libconfuse`: printing and parsing.
* Wording and layout of what is printed.

## 6. Plan

1. Done: `NandTypes`, `NandFlash`, `FtdiNand`, `NandData`, `NandStore` and their
   proofs; `NandGeometry` and its proofs; `NandReader` and its proofs;
   `PinBus`, `NandRead232H` over `LinearNand`, and their proofs; `NandTool`, `NfImage`,
   `NfFlow`, and their proofs; `Usbfs`, `UsbEvents` and their proofs; `Ftdi`, `FtdiStream` and
   their proofs.
2. If the checks allow more: libftdi composed with `UsbEvents`; a third thread,
   whose state space is beyond the present bounds.

# A verification project for NxOS

NxOS is a small operating system for the LEGO NXT brick: a *baseplate* of drivers
(`nxos/base`) under an *application kernel* (`nxos/systems/*`), of which Marvin is the
preemptive one. There is one processor, an ARM7. Everything that is concurrent in NxOS
comes from interrupts with priorities (`base/drivers/aic.h`: LOW 1, DRIVER 3, SOFTMAC 4,
SCHED 5, RT 6, TICK 7) and from Marvin's threads, which it switches inside one of those
interrupts.

All paths below are relative to `nxos/` of the repository.

## 1. Inventory

| Component | State it keeps | Operations | Hard part |
|---|---|---|---|
| Marvin scheduler, `systems/marvin/scheduler.c` | two rings of tasks, calendar of alarms, current task, `sched_lock`, `task_command` | `scheduler_cb` (interrupt), lock, unlock, yield, block, unblock, suspend, task end, idle task | three actors (tick, scheduler interrupt, threads); a lock that is a plain counter; a request that the tick drops while masked or locked |
| Marvin semaphores, `semaphore.c` | count, queue of blocked tasks | create, dec, try_dec, inc, destroy | count and queue change at different moments; hand-over |
| Marvin lists, `list.h` | circular doubly linked lists | macros | aliasing of the item and the list variable |
| System tick, `base/drivers/systick.c` | time, `scheduler_inhibit`, pending software interrupt | 1 ms interrupt, mask, unmask, call | highest priority; everything it calls must be consistent at any instant |
| File system, `base/lib/fs/fs.c`, `drivers/_efc.c` | flash pages, 8 descriptors with two page buffers each | open, read, write, flush, seek, close, unlink, defragment | contiguous files that grow into each other; power cuts; two descriptors on a file |
| AVR link, `drivers/avr.c`, `_twi.c` | link state machine, outgoing and incoming packet, TWI transfer | fast update from the tick, TWI interrupt | retries, checksums, resets; task writes race with the packet builder |
| Motors, `drivers/motors.c` | mode, target, count per motor | rotate, rotate for an angle or a time, stop; tachymeter interrupt | task against interrupt on the same record and on the AVR packet |
| I2C, `drivers/i2c.c`, `i2c_memory.c`, `radar.c` | software bus automaton per sensor port | register, start transaction, timer interrupt | counters changed on both sides, NACKs, restarts |
| USB, `drivers/usb.c` | device state, two endpoints | setup requests, read, write, interrupt | suspend and resume, packets longer than an endpoint buffer, disconnection |
| Bluetooth, `drivers/bt.c`, `_uart.c` | command and stream modes, last message, inquiry results | commands, receive callback | late answers, lost bytes, stale message |
| RS485, `drivers/rs485.c` | status, callback | send, receive, abort, interrupts | callback exactly once |
| LCD and display, `drivers/_lcd.c`, `display.c` | dirty flag, page in transfer | fast update from the tick, drawing | flag handed between task and tick |
| Sensors, sound, light sensor, radar | port modes, registers | set and read | little state |
| Allocator, `lib/memalloc` (TLSF, vendored) | heap | alloc, free | not reentrant |
| rcmd, rcmdlw, gui, tracing, bitmap | parsers, menus, buffers | sequential | - |
| core, assert, abort, locks, boot, vectors | - | start-up | before anything is concurrent |
| Application kernels, `systems/*`; host tools (`pynxt`, `usb_console`, `scripts`) | - | demonstrations, tests, host side | - |

How they interact:

- the **tick** calls `nx__avr_fast_update` and `nx__lcd_fast_update`, then raises the
  scheduler interrupt unless it is inhibited (`systick.c:73-99`);
- the **scheduler interrupt** runs `scheduler_cb`, which unblocks tasks, frees alarms and
  changes the thread that the return from the interrupt resumes;
- **threads** call the scheduler's functions with all interrupts enabled, so every shared
  variable is reached from two or three priorities;
- the **motors** set outgoing speeds in the AVR packet from tasks and from the tachymeter
  interrupt; the **AVR** state machine runs in the tick and waits for the **TWI** interrupt;
- **sensors** configure the pins that **I2C** then drives from a timer interrupt;
- the **file system** busy-waits for the flash and shares no state with the others but the tick;

What makes each correct, in one line: Marvin - a task is linked where its state says, is
woken when it should be, nobody else runs while the lock is held, and a semaphore's
resources are neither lost nor duplicated; FS - files never overlap and what is read is
what was written; AVR and motors - the link recovers from every failure and a stop is
never lost; I2C, USB, Bluetooth, RS485 - every transaction ends once, with its own result.

## 2. Plan

| Order | Modules | Question | State |
|---|---|---|---|
| 1 | `MarvinList`, `MarvinListMachine`, `MarvinListHeap`, `MarvinListHeapProofs` | what the list macros really do | done; proved: links and refinement |
| 2 | `CountingSemaphore`, `Marvin`, `MCMarvin` | the kernel, all interleavings | done |
| 3 | `MarvinProofs` | the kernel for any instance: lock, mask, states, rings, queues and counts; refinement of `CountingSemaphore` | done |
| 4 | `Flash`, `FileStore`, `FileSystem`, `MCFileSystem`, `FileSystemProofs` | growth, flush, close, deletion, power cuts; refinement of a map from names to contents | done; proved: contents, reads and refinement |
| 5 | `Defrag`, `MCDefrag`, over `Flash` | the defragmenters keep every file, end, and spread the space | done |
| 6 | `AvrCommand`, `Twi`, `AvrLink`, `MCAvrLink`, `AvrLinkProofs` | recovery of the link, the last command arrives | done; proved: the transfers |
| 7 | `Motors`, over `AvrCommand`; `Rcmd`, `MCRcmd`, over `Motors`; `RcmdProofs` | a stop is never lost; command files end | done; proved: the motors, the lines of a file |
| 8 | `I2CDevice`, `I2C`, `MCI2C` | bits, faults, pauses and counting of several ports | done |
| 9 | `Usb`, `MCUsb`, `UsbProofs` | enumeration, banks, resets and suspends | done; proved: both invariants |
| 10 | `Uart`, `Bluetooth`, `MCBluetooth`, `BluetoothProofs` | framing, stale answers, listings, streams | done; proved: all safety |
| 11 | `Rs485`, `Rs485Proofs` | whose callback, what is on the wire | done; proved: both |
| 12 | `Lcd`, `Terminal`, `Display`, `MCDisplay` | the dirty flag, a controller that cannot be read, text as a terminal's | done |

What composes what: `AvrLink` and `Motors` share the record `to_avr` through `AvrCommand`
(one packs it, the other changes it, each with the other's part as its environment);
`Twi` is the bus under `AvrLink`, `Uart` the line under `Bluetooth`, `I2CDevice` the far end
of `I2C`, `Lcd` the driver under `Display`; `Rcmd` is the program above `Motors` and the
sound driver; `FileSystem` and `Defrag` are two users of `Flash`.

What stays with TLC, and why, is at the end of section 5.

## 3. The modules

**`MarvinListHeap`** has the three pointers of the macros (`next`, `prev` and the list
variable) and one action per macro used; it is checked to implement
**`MarvinListMachine`**, whose single variable is the walk along the `next` pointers, and
whose steps are the operators of **`MarvinList`** that the kernel model then uses. Two
surprises of the source live here and are reproduced:

- `mv_list_add_tail` inserts *after the head* (`list.h:75-80`), so in a list of two or
  more the new item is second;
- `mv_list_remove(list, list)` and `mv_list_pop_head(list)` pass the list variable as the
  item. The macro advances that variable before it clears the links of "item", so it
  clears those of the new head. Two items leave a one-item *chain* (links NULL instead of
  to itself); three or more lose everything behind the second.

A queue is therefore a record `[items, ring]`. A chain's `prev` is NULL; where the code
reads a time through it (`scheduler.c:264`) it reads address 0, an ARM instruction, which
as a time is later than any the run reaches.

**`Marvin`** is the kernel. Its variables are the variables of `scheduler.c`, `systick.c`
and `mv_sem`, with these exceptions: `pc`, `op` and `seen` are what a thread's saved stack
holds; `in_cb`, `need` and `due` are the locals of `scheduler_cb`; `pending` is the bit of
the interrupt controller; `halted` is the end of the machine. `time` is not a variable:
the code only compares the clock with instants it noted before, so the model keeps the
differences (`elapsed` since the last switch, `left` to each alarm), each stopped where no
comparison changes its answer any more. `due` holds the alarms that were over when
`scheduler_cb` sampled the time, which is what its loop compares with.

A step is the code between two accesses to something an interrupt handler shares. What a
task does with the lock held is one step (`DecBody`, `IncBody`, `SuspendBody`, ...),
because the tick touches none of it and `scheduler_cb` returns at once; `LockExcludes`
checks that this is true and not assumed. Taking the lock is two steps (`LockLoad`,
`LockStore`), and dropping it has a step for every access (`UnlockTest`, `UnlockMask`,
`UnlockCommand`, `UnlockDrop`, `UnlockCall`, `UnlockDec`), as have yielding and ending
(`YieldMask`, `YieldCommand`, `YieldCall`). `scheduler_cb` is `EnterLocked`, `EnterCommand`
or `EnterTick`, then a `WakeAlarm` for each alarm, then `Switch`; the tick may come between
any two. `PowerOff` is the CANCEL button. The idle task is a thread that only yields and,
in `IdleCheck`, stops the machine when it sees no blocked task.

The environment, which is what tasks do between calls, is the constant `Program`: the set
of calls each task may make. A task respects the interface (`ProgramAssumption`,
`Allowed`): it uses a semaphore that exists and destroys one that nobody uses.

**`CountingSemaphore`** is what `semaphore.h` promises: available resources and a set of
waiters, every operation atomic. The refinement maps `available` to `count` plus the number
of waiters.

**`Flash`** is the array of pages and what `fs.c` reads in it. There is no directory: a file
is its origin page, known by a marker byte, and the pages behind it, and every search walks
from the first page over the files it meets (`Origins`). A byte of a file is modelled by
whose it is and at which offset. One thing more about bytes matters: a data page whose
bytes look like the marker is an origin to any code that looks at it; the files of the names
in `Alike` have such bytes in every page.

**`FileSystem`** has one action per call of `fs.h`, over the descriptors (`fdset`, with both
page buffers) and the flash. Opening is `Create`, `Open` and `OpenAppend`, one for each
mode. `Write` contains all of `nx_fs_write`: relocation, the flush of a full buffer, the
byte, and the count. `Unlink` and `Format` erase one page at a time (`Erase`); the other
calls that write several pages leave, between their writes, states that another sequence of
calls also leaves, so that `PowerCut` between calls covers them: a close is a flush, then
the metadata. `client` is what the program remembers of each descriptor; it is compared with
what the code does. `halted` is a failed `NX_ASSERT` of `_efc.c` on a page past the flash.

`fs.c` has neither locks nor checks against misuse, so `Rules` says how careful the program
is. With all the rules the file system works; without any of them it loses data:

- `last_grows`: only the last file on the flash grows (see finding 4);
- `no_rewrite`: a file opened by `FS_FILE_MODE_OPEN` is not written. The buffer of each
  further page starts empty (`fs.c:567`), so what the page held behind the last byte
  written is lost;
- `room`: a file whose last page is exactly full is not appended to. The write position is
  computed modulo the page (`fs.c:470`), and the first byte appended replaces the first
  byte of that page;
- `exclusive`: a file has one writer, or readers; it is deleted by its only user; nothing is
  created while a file is written; the flash is formatted when nothing is open.

The callers in `systems/` and `lib/rcmd` create, write and close, or open, read and close
or delete, and keep the rules.

**`FileStore`** is what a user expects of the flash, whatever happens to the power: a map
from names to contents of which each call changes at most the one file it names, and that
file only by appending, removing or creating it. The refinement maps `files` to what a
program that opened each file now would find (`Found`).

**`Defrag`** takes over the flash where `FileSystem` leaves it: the loops of
`nx_fs_defrag_simple`, `nx_fs_defrag_for_file_by_origin` and `nx_fs_defrag_best_overall`,
a turn of a loop for each action, with the locals that live from one turn to the next in
`job`, among them `block` and `best`, which `nx_fs_defrag_simple_zone` carries from one hole to
the next. `Init` chooses any flash of `Layouts`. A region is moved in one step: the
copy is page by page in the code, and what a power cut leaves in the middle of it is not
looked at.

**`AvrCommand`** is the record the ARM sends to the AVR; **`Twi`** the bus driver, whose
interrupt is three steps because the tick has a higher priority and can come between them;
**`AvrLink`** the state machine that the tick steps, with the packing, the checksums and
the calls that write the record. The tick is one step: nothing interrupts it. Checksums are
modelled by what they distinguish (a byte of another transfer, a spoilt one), statuses by
two bytes that are unpacked as `avr_unpack_from_avr` does.

**`Motors`** has a call as the sequence of its stores (`call.steps`), since the tachymeter
interrupt comes between any two, and the edge that it counts may still be one of the old
direction. `togo` is the distance from count to target, which is all that the interrupt
compares. It is assumed that a call is shorter than the distance of two edges and that
angles are of two edges, times of two milliseconds, or more: see the findings.

**`Rcmd`** is the interpreter of command files over `Motors` and the sound driver. A line is
what the tokenizer makes of it; numbers are scaled (`Word` for 2^32, `WavePart` for the 2000
that the product of frequency and duration is divided by, with its smallest frequency and
duration) so that products wrap and quotients are zero. A wave takes longer than
`nx_sound_freq_async`, so that at most one ends within it.

**`I2CDevice`** is the far end of a port: a memory behind an address, at the level of edges
on SDA and SCL. **`I2C`** is the interrupt that moves each port's state machine one state on,
four times a bit, and the program that queues the sub-transactions of a memory read or
write, with the load and the store of `i2c_txn_count` as two steps (`AddTxn`,
`CountTxn`). A port may be unregistered in the middle of a transaction and registered again:
`Unregister` lets the lines go while the machine behind them runs on, `Enable`, `IdleBus` and
`Empty` are the stores of `nx_i2c_register` in their order. `TxnStatus` is what the status query
returns. Lines are wired-and: `Line(s)` is low if anybody holds it low. A port of
`LegoPorts` pauses before a restart, as the code does for these devices; a device of
`Stretching` holds the clock.

**`Usb`** has the driver (`usb_state`), the controller (`udp`: address, flags, the two banks
of EP1, FIFOs) and a host, which enumerates, sends, receives, resets and suspends. The
interrupt is one step; `nx_usb_write` is the test of the status, the waiting, the store of
BUSY and the packet, `nx_usb_read` its two stores, the test and the enabling. `HostMay` says what the host keeps to, rule by rule.

**`Uart`** is the driver under **`Bluetooth`**: the PDC's double use for lengths and messages,
with the branches of the interrupt on the status read at its start. `Bluetooth` has the
callback in the same step as the interrupt that calls it, and a call split at each look at
`last_msg`, each look at a handle, each byte copied and each store; `owed` is what the properties compare with. The
Bluecore answers each command, and lists, asks and resets unasked.

**`Rs485`** puts several bricks on one wire; the callback, run by the interrupt, may begin
the next transfer. A character is the transfer it belongs to and its place in it.

**`Lcd`** is the frame the interrupt sends page by page, and the UC1601, which counts on its
own and takes each byte for what a pin says when it *arrives*. **`Display`** is the text over
it: a call is the code it has left to run, so that interrupts come between any two
instructions. **`Terminal`** is what the text is to a program, and is implemented by it: the
cursor that wraps at once and then ignores one line feed is one that wraps when there is
more to print.

Operators whose comment says "Broken variant", or says what they do wrong, stand beside the definition they deviate from. They are
plausible mistakes in that definition, used only to check that each property notices one.

## 4. The runs

Most properties are conjunctions with named parts, each stated where it is defined.

| Run | Instance | Shows |
|---|---|---|
| `list_heap` | 4 nodes | the macros, pointer by pointer, do what `MarvinList` says (`ImplementsMachine`), and every `prev` is the inverse of its `next` (`Linked`) |
| `marvin_main` | 4 tasks shaped like `main.c`'s, one semaphore, quantum 2 ms, sleeps of 1 and 2 ms; up to two waiters and two sleepers; 2.5 million states | `LockExcludes` (one owner, no lost update of a plain counter), `BlockedDoesNotRun`, `MaskIsReleased`, `ListsPartition`, `AlarmsAnswered`, and `BooksBalance`: types, counts, queues, calendar and the source's own `NX_ASSERT`s |
| `marvin_live` | 2 tasks, two semaphores one of which is created and destroyed, every call but task end | sleepers wake, quanta end, semaphores refine `CountingSemaphore` |
| `fs_files` | 4 pages of 2 bytes, one of them metadata in the first page of a file; two names of one character, one file of which has bytes that look like an origin; files of up to 4 bytes, that is 3 pages; 2 descriptors; 130 000 states | `FilesTrue` (every counted byte is the one written; cached origins and sizes are fresh), `ReadsRight`, refinement of `FileStore` |
| `fs_defrag` | every flash of 17 pages with up to three files of 1, 2 or 5 pages and holes of 0, 1 or 5 before them, or with four files of 1 to 4 pages behind holes of 3, 1, 1 and 1; 13 000 states | `FilesKept`, `Ends`, `SpreadEvenly` (what `best_overall` promises) |
| `avr_link` | one motor, two statuses, one request, faults "nack" and "corrupt" | `TransfersTrue` (both state machines in step, statuses fresh and whole), `LinkCycles`, `LastCommandArrives` |
| `motors` | 2 motors; a program that makes any call, or one of 13 command files; angle and time 2; 112 000 states | `RunsAsAsked` (no motor runs that nobody will stop; targets lie ahead), `LinesObeyed` (errors at their line, tones as asked), `GoalEnds`, `FileEnds` |
| `i2c` | a lego and another port, 2 calls, bytes of two bits, 2 registers, reads of 2; the lego device may be absent, the other stretches the clock and is registered again once, anywhere in a transaction | `OutcomeTrue`, `LinesFree`, `EveryCallReturns` |
| `usb` | answers of 3, 2 and 1 packets, asked for whole or cut; one reset; 197 000 states | `ControlTrue` (answers whole, address and configuration agreed), `StreamsWhole`, `TransfersEnd` |
| `bt` | 2 devices, 5 programs, one fault; buffers of 4 bytes; 368 000 states | `CallsTrue` (commands whole, answers to the very call), `MessagesTrue` (framing, devices, requests), `StreamWhole`, `CallsReturn` |
| `lcd` | 2 pages of 2 bytes and one not seen; 2 calls of 10 kinds, a halt between calls, or an abort anywhere but right after a wrap; 188 000 states | `PanelTrue` (every byte in its place; last words whole), `ScreenFollows`, refinement of `Terminal` |
| `rs485` | 2 bricks, transfers of 1 and 2 characters, 2 calls each, one spoilt character; 143 000 states | `AnswersOwn`, `WireTrue`, `SendsEnd` |

### Bounds

*Kernel.* `Quantum` 2, which is the source's own (`scheduler.c:26`), and `MaxSleep` 2 keep apart "before", "at" and
"after"; `elapsed` and `left` stop there without loss, as explained above. `MaxCount` bounds
increments and is the only guard that the code does not have. Four tasks give two waiters and
two sleepers at once, one task that computes and one that ends. With three sleepers or
three waiters the list macros lose one (finding 1): `main.c` has two sleepers and one waiter
and stays within what works, and so does `marvin_main`.

*File system.* A page of two bytes has a first and a last byte, and a file of three pages has a
first page with metadata, an inner one and a last one, of which the first two are full. Four
pages hold a file of three pages and another, or two of two; that the search for free pages
fails, and that a file grows past the end of the flash, both happen. Two descriptors are a
writer and a reader, or a reader of each file. `MaxSize` is the program's bound on what it
writes and has no counterpart in the code. `AlikeSize`, the size read beside an apparent
marker, is 0. That the results hold as long as the file it stands for fits a page is proved
(`AlikeFits` in section 5). With `AlikeSize` 2, two pages here, TLC finds `FilesTrue` violated: a
file of two pages whose second looks like an origin is deleted, and once its first page is erased
the walk takes the second for a file and steps over the one behind it.

*Defragmentation.* Three files give a first, an inner and a last one, a hole of one page
is smaller than some file, one of five larger than some and equal to another; with 17 pages
flashes are both nearly full and nearly empty. A best block that an earlier hole left behind takes
four files that do not touch: one that fills the first hole, one that was too small for it, and
two for the hole between them. The four files of the run reach it: without `StaleBest` among its
exceptions `FilesKept` is violated there. `StaleLayouts` has room for larger files, 25 pages, and
one layout for each way to go wrong. "No space" of `best_overall` cannot happen: it
is called with the pages it needs.

*AVR link, motors.* One motor and two speeds show a torn packet; three bad statuses in a row
and any number of faults happen (the fault is a choice at each transfer). The fault "overrun",
an interrupt that is later than the next byte, is left out: with it (`Faults` with "overrun")
`TransfersTrue` is violated, as the byte that was lost is noticed only after the status has
been taken for whole. Angles and times of 2 have a step before the last.

*I2C.* A byte of two bits has a first and a last bit, and every loop over bits is the same for
eight. Two ports share the interrupt's words; two calls follow each other on one port. A pause
is one interrupt long instead of several. `Gap = FALSE`: with two ports no interrupt comes
between unregistering and registering. With one port (`Ports = {"other"}`, lego or not) and
`Gap = TRUE`, where the machine runs on with its pins off for any time, the properties hold too.

*USB, Bluetooth, RS485, LCD.* Three packets have a first, an inner and a last one. Buffers of 4
bytes hold a length, a type and two argument bytes, and streams wrap in them. Two characters on
a wire are a first and a last one, and the transmitter holds two. Two pages have a first and a
last one, and a byte that is not seen stands for the 32 of the code.

`CHECK_DEADLOCK FALSE` where the system stops: the call of a defragmentation has ended, the
AVR link has met a fault that nothing leaves, all calls of `MaxCalls` are made, a command file
is over, the brick is halted.

### Fairness

The kernel, `FairSpec`. The timer is hardware, so `WF(Tick)`. A handler whose turn it is
runs to its end, so `WF(Handler)`. A thread's kernel code gets *strong* fairness: a tick makes
the scheduler interrupt pending, which disables every thread step again and again, but takes
microseconds of each millisecond, so a thread that is resumed again and again does advance.
Nothing is assumed of a task's own code, which may compute for ever (`Call` is not fair),
and a task holding the lock has no such code in it, except between an explicit lock and
unlock of its own (`PlainBody`), which the interface requires to be short.

Everywhere else: interrupts and the tick are hardware, DMA controllers, wires and devices
answer (`WF` of `Isr`, `Tick`, `Bus`, `Deliver`, `Feed` and `Shift`, `BusOut`, `BusIn`), and a
call that has begun goes on (`WF` of `InCall`, `Execute`, `Step`, `Program`), but no call is
ever obliged to be made. Strong fairness stands where something else comes in between again
and again: the tick between a call's steps and the edges of a turning motor (`Motors`, `Rcmd`),
the host's side of USB, which polls (`HostServes`, `HostConfigures`), the program that gives
EP1 its next buffer (`ReadBuffer`), and the Bluecore that answers between the messages it
sends unasked (`Serve`). The file system does nothing unless it is called and has no fairness;
a defragmentation has weak fairness of its next turn.

### What the environment keeps to

The drivers check little. A constant `Rules` names what a program, a host or a line has to
keep to for the properties to hold; each rule was dropped from the run in turn, and each of
them is needed. To see why, take it out of the `.cfg`.

| Run | Rule | Without it |
|---|---|---|
| `fs_files` | `last_grows`, `no_rewrite`, `room`, `exclusive`: see section 3 | `FilesTrue` |
| `i2c` | `Quick`: no interrupt between the stores of `nx_i2c_register`; between those of `bus_state` and `txn_state` (`i2c.c:194`) it starts the abandoned queue again | `LinesFree` |
| `usb` | `whole_address`: no bus reset between SET_ADDRESS and its acknowledgement; the address kept for later outlives the reset (`usb.c:664`) | `ControlTrue` |
| `usb` | `prompt`: the host goes on when the interrupt of the last step has been served | `ControlTrue` |
| `usb` | `in_turn`: no reset, no control transfer during `nx_usb_write`; one status stands for both endpoints (`usb.c:774`) | `StreamsWhole` |
| `usb` | `awake`: no suspend while the program tests the status and acts on it, or has no buffer given | `StreamsWhole` |
| `usb` | `short_config`: the configuration is not asked with more than its length (`usb.c:472`) | `TransfersEnd` |
| `bt` | `prompt`: no byte overtakes the interrupt of the one before it (`_uart.c:61`) | `MessagesTrue` |
| `bt` | `punctual`: no answer after its timeout | `CallsTrue` |
| `bt` | `fresh`: no call when the last message is of the type it waits for (`bt.c:285`) | `CallsTrue` |
| `bt` | `matched_ids`: no listing begun with the two ids apart (`bt.c:527`) | `MessagesTrue` |
| `bt` | `one_thing`: one listing, connection or stream at a time (`bt.c:819`) | `MessagesTrue` |
| `bt` | `drained`, `quiet`: a stream opened and closed with nothing on its way, nothing unasked during a call | `StreamWhole` |
| `rs485` | `settled`: the last character of a reception is not spoilt (`rs485.c:66`) | `AnswersOwn` |
| `rs485` | `undisturbed`: no character between the two steps of an abort | `AnswersOwn` |
| `rs485` | `receptions`: only receptions are aborted (`rs485.c:197`: the rest goes out with the next reception) | `WireTrue` |
| `rs485` | `drained`: no shutdown and no abort before the last character of a send is out; it is told SUCCESS two characters earlier (`rs485.c:63`) | `WireTrue` |
| `lcd` | `lines`: nothing moves the cursor right after a wrap, an abort included (`display.c:116` keeps `ignore_lf`) | `ImplementsTerminal` |
| `lcd` | `calm`: no halt with a dirty display (`_lcd.c:315`: the tick unmasks the interrupt) | `PanelTrue` |

Three properties name their exceptions themselves: `FilesKept` the states `StaleMatch`
and `StaleBest` (finding 9), `Ends` one called `Searching` (finding 10), `LinkCycles` and `LastCommandArrives`
a bus that is `Stuck` (finding 11).

### Findings

What the models show to go wrong in the code. The configuration named reproduces it: TLC
finds the one property in it violated. Where the configuration is that of a run, put the
property named here in the place of its invariants and properties.

1. `scheduler.c:141` - a third pending alarm is lost with its task (`MCMarvinLost.cfg`,
   `SleeperWakes`). The same expansion in `mv_semaphore_inc` loses a third waiter.
2. `scheduler.c:204` - `task_idle` reads `tasks_blocked` without the lock, when the
   scheduler interrupt may just have woken the last blocked task without switching to it,
   its reschedule not being due; the idle task then fails with "All tasks dead"
   (`MCMarvinDead.cfg`, `DeadMeansDead`).
3. `semaphore.c:42` against `scheduler.c:143` - the allocator, which `memalloc.h` says is
   not safe for concurrent use nor in interrupt handlers, is entered by a task without the
   lock and by the scheduler's interrupt (`MCMarvinAlloc.cfg`, `AllocatorExclusive`).
4. `fs.c:550` against `fs.h:31-33` - files that need more space are said to be moved
   automatically. The test for it wants the position 0 on a page beyond the file, and the
   only place that enters such a page leaves the position at 1: nothing is ever moved, and
   a file that grows overwrites the file behind it (`MCFileSystemGrow.cfg`, `OriginsFresh`).
5. `fs.c:349` - a descriptor's name is the concatenation of the new name and the tail of a
   longer one that the slot held before; closing the file writes it to the flash
   (`MCFileSystemNames.cfg`, `NamesKept`): a file "test1" created after "test42" was closed
   becomes "test12".
6. `i2c.c:245` - two tasks that start transactions lose an increment of `i2c_txn_count`, and
   the interrupt is disabled while a port still needs it (`MCI2C.cfg` with `Tasks = TRUE`,
   `InterruptServes`).
7. `i2c_memory.c:70`, `i2c.c:477` - what is to be written is put in the receive buffer's place,
   and after a byte that is not the last the machine waits for an acknowledgement twice: no
   memory write arrives (`MCI2C.cfg`, `WritesArrive`). `i2c.c:351` - the query looks at the
   record behind the queue, and a failed write is reported as a success (`StatusTrue` in the same
   configuration, with an absent device).
8. `avr.c:343` - the brake of a motor is stored after its speed, by a load and a store of the
   whole record around which the interrupt makes its own: a motor that has stopped may not
   brake though it was asked to (`MCRcmd.cfg`, `BrakesWhenAsked`).
9. `fs.c:846`, `880`, `912` - `block_size` and `best_block_*` live on from one hole to the next. A
   block that runs to the end of the flash is taken to have the size of the block before it
   (`StaleMatch`): part of a file is moved, or a page past the end. And a best block found for a
   larger hole is moved over the file behind the present one, or what now lies where that block
   was is moved (`StaleBest`). Each layout of `StaleLayouts` loses a file (`MCDefragFull.cfg`,
   `NothingLost`); `FilesKept` in its place holds.
10. `fs.c:1059` - the search for the hole before the last file begins at the same page each time;
    when the first hole found is another one it never ends (the state `Searching`).
11. `_twi.c:93` - an error leaves the bus in `TWI_FAILED`, which nothing leaves; a read that is
    not acknowledged sets no flag that is unmasked. The link then waits for ever (`Stuck`).
12. `bt.c:396` against `tests.c:384-386` - a listing that ends takes the state back with its last
    device not yet fetched, and the loop of the test misses it (`MCBluetooth.cfg`,
    `ListingsEmptied`).
13. `bt.c`, the commands of `Headed` in `MCBluetooth` - the packet is written from its second
    byte on: the Bluecore gets a command without its head, and a byte of the stack behind it
    (`Programs <- Headed`, `CallsTrue`). One of the two, `nx_bt_close_connection`, returns at once
    for handle 0 (`bt.c:862`), with its packet, which is on the stack, still being sent, and with
    the first byte of the answer to something else.
14. `usb.c:677` - `tx_len` and `tx_data` have two entries; the interrupt indexes them by the
    endpoint, the call by half of it. A message of more than one packet loses its tail
    (`Writes = {2}`, `StreamsWhole`).
15. `motors.c:219` - a move of one millisecond can end between the store of its mode and that of
    its speed, and the motor then runs on (`Times = {1}`, `RunsAsAsked`); `rcmd` accepts such a
    duration.
16. `rcmd.c:256` - a line longer than the buffer is executed as two, and lines are numbered wrong
    from there on (`Files <- MCLongLines`, `LinesObeyed`). `sound.c:108` - a frequency and a
    duration whose product is below 2000, or wraps to less, make 2^32-1 waves
    (`Files <- MCTones`, `LinesObeyed`).

The rules of the table above are findings of the same kind, where it takes an environment to
bring them about.

## 5. The proofs

Each holds for every value of the constants that satisfies the assumptions of its module - any
number of tasks, semaphores, bricks or motors, any programs, any bounds - and the hypotheses
named.

| Theorem | States | Hypotheses | Inductive invariant |
|---|---|---|---|
| `ListsAreLinked` | `Spec => []Linked`, list macros | - | `HeapInv` |
| `MacrosImplementLists` | `Spec => ImplementsMachine` | - | `HeapInv` |
| `TypeCorrect` | `Spec => []TypeOK`, kernel | - | `LockInv` |
| `LockIsExclusive` | `Spec => []LockExcludes` | - | `LockInv` |
| `MaskIsAlwaysReleased` | `Spec => []MaskIsReleased` | - | `StateInv` |
| `BlockedNeverRuns` | `Spec => []BlockedDoesNotRun` | - | `StateInv` |
| `ListsArePartition` | `Spec => []ListsPartition` | - | `StateInv` |
| `BooksAreBalanced` | `Spec => []BooksBalance` | `TwoSleepers`, `TwoWaiters` | `BooksInv` |
| `AlarmsAreAnswered` | `Spec => AlarmsAnswered` | the same | `BooksInv` |
| `SemaphoresAreImplemented` | `Spec => ImplementsSemaphores` | the same | `BooksInv` |
| `TransfersAreTrue` | `Spec => TransfersTrue`, AVR link | no fault "overrun" | `LinkInv` |
| `MotorsRunAsAsked` | `Spec => []RunsAsAsked`, any program of calls | `NotTooNear`, speeds cap to speeds | `MotorsInv` |
| `FilesRunMotorsAsAsked` | `RcmdSpec => []RunsAsAsked`, command files | the same, `PiecesServed` | `RcmdInv` |
| `FilesAreObeyed` | `RcmdSpec => []LinesObeyed` | the same, `LinesFit`, and the least tone has two waves | `LinesInv` |
| `CallbacksAreOwn` | `Spec => []AnswersOwn`, RS485 | `AllRules` | `Inv` |
| `WireCarriesWhatWasSent` | `Spec => []WireTrue` | `AllRules` | `Inv` |
| `ControlIsTrue` | `Spec => []ControlTrue`, USB | `AllRules` | `ControlInv` |
| `WritesAreMade` | `Spec => [](prog.at # "halted")` | `AllRules` | `ControlInv` |
| `StreamsAreWhole` | `Spec => []StreamsWhole` | `AllRules`, `OnePacket` | `ControlInv /\ StreamsInv` |
| `FilesAreTrue` | `Spec => []FilesTrue`, file system | `Careful`, `OneLength`, `AlikeFits` | `FsInv` |
| `ReadsAreRight` | `Spec => []ReadsRight` | the same | `FsInv` |
| `StoreImplemented` | `Spec => ImplementsStore` | the same | `FsInv` |
| `CallsAreTrue` | `Spec => []CallsTrue`, Bluetooth | `Careful` | `BtInv` |
| `MessagesAreTrue` | `Spec => []MessagesTrue` | the same | `BtInv` |
| `StreamIsWhole` | `Spec => []StreamWhole` | the same | `BtInv` |

**The lists.** `HeapInv` says that some sequence of distinct nodes, as a ring or as a chain, is
what `next`, `prev` and the list variable link (`Links`); nothing is asked of a node that is on no
list, nor of what is at address 0. What the model calls the list is the walk along `next`, a
recursive function; that the walk visits exactly the sequence that is linked is
`WalkFollowsLinks`. It needs no induction schema: a walk of every length exists, and visits the
sequence, since the least length or place where it did not would have one before it. Each macro
is then three lemmas: what its assignments, one after the other, leave of the two fields
(`InsertAfterIs`, `InsertBeforeIs`, `UnlinkIs`), which sequence the result links
(`InsertAfterLinks`, `InsertBeforeLinks`, `RemoveLinks`, `RotateLinks`), and that `MarvinList` says
so (`...Became`). So the operators that the kernel's proofs are about are proved of the pointers.

**The scheduler.** `LockInv == TypeOK /\ CallsOK /\ SeenOK /\ LockExcludes`. The key is
`SeenOK`: whoever has loaded `sched_lock` in `mv_scheduler_lock` has loaded 0, so that even if
it is preempted before its store, and others take and drop the lock meanwhile, the value it
stores is right when it runs again. That is the argument the comment at `scheduler.c:301`
leaves out.

`LockInv` alone says nothing about who is linked where. `StateInv` adds what each place of
unlock, yield and task end has already asked of `scheduler_cb` (`CommandOK`), where a task
that is not ready can be (`StateOK`), that a blocked thread which still has the CPU is about
to lose it (`LeavingOK`), and that who hangs on the calendar or on a semaphore is blocked
there, once (`QueuesOK`). None of these is inductive without the others: a partition of the
rings needs that a woken task is blocked, which needs that the queues hold blocked tasks
only, which needs that a blocked task does not run on and queue itself again.

**Queues and counts.** `QueuesOK` lets a queue lose a task. That none does is false for three
(finding 1), and `TwoSleepers` and `TwoWaiters` are exactly what excludes it: two tasks at most
whose code sleeps, and two at most whose code waits for the same semaphore, however many tasks,
semaphores and other calls there are. `main.c` keeps to it; `MCMarvin` has TLC evaluate it on
every instance but the counterexample. `BooksInv` adds who may use a semaphore that is being
created or destroyed (`UsesOK`), and that of the alarms on the calendar those which
`scheduler_cb` is to wake are the first (`DueOK`). `MoveStep` sorts all steps of the kernel by
what they do to the books (`Keeps`, `Sleeps`, `Wakes`, `Takes`, `Gives`, `Waits`, `Hands`,
`Makes`, `Breaks`), and the invariant, the NULL that `mv_semaphore_inc` would read (`IncAbort`
is unreachable) and the refinement are argued move by move: `Takes` is `Acquire`, `Gives` is
`Release`, `Hands` is `HandOver`, and the moves of the scheduler alone are stutters.

**The AVR link.** `LinkInv` says that the tick's state machine, the driver, the interrupt that
the tick may have cut in two, and the wire are together in one of five phases, `Off`, `Rested`,
`Sending`, `Reading`, `Broken`, and within a transfer byte by byte where each byte is. What
twi_isr remembers of the status register (`Refused`) is part of it, as the register may have
changed since. With the fault "overrun" `TransfersTrue` is false (see Bounds).

**The motors.** The interrupt comes between any two stores of a call, so `MotorsInv` lists what a
call has left to store (`StepsLeft`) and what the motor is in the meantime: `Armed` allows for
the one edge or tick which may come before the call is over and has been counted already. A
goal of one edge or one millisecond would be reached by it, and the speed stored afterwards:
that is finding 15, and `NotTooNear` excludes it. The other hypothesis says that a speed above
100 percent is capped to one that can be stored. `PiecesServed` asks the same of the moves in a
command file, and that its numbers are numbers; `LinesFit`, and two waves at least, exclude
finding 16. `RcmdInv` and `LinesInv` add what the interpreter keeps between the lines: whose
motors it waits for, which line it is at, and the waves left.

**RS485.** `Inv` is about each brick alone, as the wire carries what it likes. Either the driver
rests, or it is in a call, or it sends, or it receives, and what it still owes the wire is what
the shift register and the PDC hold (`due = out \o tx`). A pending flag belongs to the reception
in progress, which has a character to come. `AllRules` are the four rules of the table in
section 4; without any of them one of the two properties fails, so it is sharp.

**USB.** `ControlInv` is a statement `Good(u, c, h, p)` about a driver, a controller, a host and a
program, so that each handler of the interrupt is a lemma about values and `usb_isr` the
composition of them (`ServedKeeps`). A control transfer is in one of six phases: `Rested`, `Asked`,
`Answering`, `Answered`, `Acknowledged`, `Refused`; while an answer is sent, what the host has, the
packet in the FIFO and `tx_data[0]` are consecutive pieces of it. `Named` is what both know of
address and configuration in each phase: the host uses a new address one interrupt before the
controller does. `Power` follows a suspension through its two interrupts, and what the status is
underneath. `Calls` says that a message being written or on its way keeps the status busy and
EP0 unused, and that the assertions hold; this is what lets one status stand for two endpoints.
`StreamsInv` adds that the bank the driver reads next is the controller's, except between a bus
reset and its interrupt, when both banks are empty, and that they are filled in the order of
reading. `AllRules` are the five rules of the table in section 4. `OnePacket` excludes finding 14;
the control endpoint needs no such limit.

**The file system.** `FsInv` is a statement `Inv(flash, fdset, client, erasing)` about a flash, its
descriptors, what the program knows, and the pages still to erase. `FilesTrue` says nothing of what
the next call does, so it is not inductive: a close writes the whole cached page and the cached
size back, so it must be known of a reader that both are on the flash already (`Reading`); a
writer flushes pages into the open, so it must be known that no file and nothing alike lies there
(`Writing`); and a page of a half-deleted file is erased by its look alone, so it must be known
whose it is (`ErasingOK`). What a search finds is the recursive walk over the pages; `OriginsAre`
identifies it with the marked pages that no file covers, by a least counterexample. Each call is
then a lemma about what it leaves of the pages (`FlashStays`, `FlashGrows`, `EraseKeeps`), and the
refinement follows from the metadata alone: a step changes those of one page at most, by adding a
file of size 0, by a larger size, or by erasing them (`FlashStep`, `StoreStep`). `Careful` is all
the rules of `Rules`, without each of which TLC finds a violation (section 4); `OneLength` excludes
finding 5; `AlikeFits`, `MetaBytes + AlikeSize <= PageBytes`, is about files that contain the
letter of the marker, and cannot be dropped (see Bounds).

**Bluetooth.** `BtInv` says what is on its way in both directions. `Frame` does so for the receiver:
it waits for a length, holds one, or fills its buffer with exactly the packet whose length came
first, and at most one message more is behind it (`Resting`, `Sized`, `Filling`), or, in a stream,
it takes bytes only (`Deaf`). `Queue` does so for the transmitter: the packets that outlive their
call are those of `Loose` calls, which are not on the stack and which nobody waits for, so that at
most such a packet lies before a call's own. `Answers` ties the two together: a call waits for its
own command, or for its own answer, or has it in `args`, or a fault has spoilt it; there is never an
answer of its type that belongs to another. `bt_wait_msg` checks none of this, it looks at the type
alone, so that it must be known of every message that nobody asked for when it may come. `Found` is
why comparing ids is enough although they wrap; `Requests` says that one request is there at a time
and that the place where it is kept is free; `Modes` that both ends agree on the mode whenever a
byte can be taken for the wrong thing. `Faults` counts each harmed message as an error that is still
to come, without which the count of errors is not inductive. `Careful` is all the rules of the table
in section 4, each of which TLC shows to be needed, and no call that sends its packet without head
(finding 13). `bt` is an instance of it; TLC was asked first whether `BtInv` holds, on programs of
that size.

**Operators.** `MarvinProofs` begins with what each list operator does to the set of items and
that it keeps them distinct (`MarvinListHeapProofs`, whose variables are others, has what it needs of
these once more, item by item); no induction on sequences is needed, as every operator is a
function on indices. `PopOfTwo`, `InsertSorted` and `InsertAlarmCases` do the same for the queues.

Only model-checked: the liveness properties, which are out of the prover's reach, and the
safety of the defragmenters, I2C and the display. I2C takes bytes apart and puts them together bit
by bit: whether a device recognises its address, on which `LinesFree` and `OutcomeTrue` depend, is
arithmetic with powers of two, of which the provers know nothing. `Display` computes digits and
`Defrag` follows its searches by recursion. What a recursive function computes for every input
needs an induction over data whose schema the prover cannot instantiate; for the walks along the
lists and over the pages a least counterexample takes its place, which the well-foundedness of the
naturals gives without a schema. The searches of `Defrag` and the digits have not been done so:
`PanelTrue`, `SpreadEvenly` and what depends on them stay with TLC.

## 6. What is not modelled

Of the modelled components:

- the wrap-around of the millisecond clock (`scheduler.c:139`, `systick.c:127`);
- locks nested by a task's own code, and `mv_scheduler_yield(TRUE)` under one
  (`scheduler.c:291`), after which the tick stays masked;
- stacks and their layout, among them the idle stack that `scheduler.c:215` rewinds too
  far, and the context switch of `task.S`;
- failure of the allocator; its inside, which is vendored code;
- creation of tasks while the scheduler runs, which `scheduler.h` does not allow;
- starvation: tasks that keep waking are inserted behind the head and can overtake a
  ready task for ever. The model shows it; nothing in the repository promises otherwise;
- the start-up scan, the occupation report and permissions of the file system; errors of the
  flash controller; a power cut inside the move of a region (`fs.c:211`), which leaves parts of
  a file in two places; end of file as the program's only way to know a size (`fs.c:515` reads
  one byte past it);
- I2C: the radar's calls above the memory interface, a port taken over by an analog sensor, and
  registering under another address;
- USB: addresses of 0, a configuration of 0, the device qualifier, strings beyond the first,
  `nx__usb_disable`; a buffer smaller than the packet that comes (`usb.c:334-353`), since what the
  controller counts after part of a packet has been read is its own affair;
- Bluetooth: a damaged length byte. A length of 1 would wrap `len - 2` in `bt_get_checksum`
  (`bt.c:243`), which then reads on for 2^32 bytes;
- RS485: changing the baud rate, since the wire of the model has none;
- an abort before the display is set up, which would draw through a null pointer; fonts;
- `find_command` of `rcmd.c`, which for a line without separator writes a space to address 0
  (`rcmd.c:305`); no state of the model is there. `rcmdlw`, a second interpreter of the kind.

Components left out, with the reasons in `PROJECT.json`: assembly that only swaps registers or
runs before anything is concurrent (context switch, boot, locks); straight-line code without a
state of its own (bitmap, tracing, GUI); vendored code (the TLSF allocator);
demonstrations and host scripts.

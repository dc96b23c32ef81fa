# E-UAE: specifications of the threads, queues, clocks and handshakes

E-UAE emulates an Amiga. One host thread, the *emulator thread*, interprets the
68k, runs the custom chips event by event and executes every native handler that
68k code calls. Around it are other host threads: one per running extended trap,
one per mounted directory, one per open hard file or SCSI unit, one per program
that uses the socket library, and threads for the window, for sound and for the
CD. They talk to the emulator thread through ring-buffer pipes and semaphores,
through plain variables, and through Amiga memory that nobody locks. What an
instruction computes can be tested instruction by instruction. What cannot be
tested well is this second kind of behaviour: two threads on one ring buffer, a
trap called from an interrupt inside a trap, a reset while a file system thread
is busy, a timer that is only computed when somebody looks. That is what these
modules are about.

Paths below are relative to `src/src/` of the repository.

## Files

| module | models | proofs |
|---|---|---|
| `Fifo` | a bounded first-in first-out queue (abstract) | |
| `CommPipe` | `include/commpipe.h` over `td-posix/thread.h` | `PipesProofs` |
| `Native2Amiga` | `native2amiga.c` and its reader in `filesys.c`, word by word | `PipesProofs` |
| `UaeState` | states of the machine in `main.c`, the window in `gui-gtk/gtkui.c` | `PipesProofs` |
| `Traps` | `traps.c` | `TrapsProofs` |
| `M68kInt` | interrupts, trace, STOP and reset in `newcpu.c` and `custom.c` | `M68kIntProofs` |
| `BsdSocket` | one base of `bsdsocket.c` with `bsdsocket-posix-new.c` | `CallsProofs` |
| `ScsiDevice` | `uaescsi.device` in `scsiemul.c` | `CallsProofs` |
| `FilesysUnit` | transport of packets in `filesys.c` and `filesys.asm` | `FilesysUnitProofs` |
| `AinoCache` | a_inodes, locks, keys and enumerations in `filesys.c` | |
| `Hardfile` | `uaehf.device` in `hardfile.c` | `HardfileProofs` |
| `CiaChip` | the registers of a CIA (`cia.c`) | |
| `CiaTicks` | what a CIA's timers promise (abstract) | |
| `Cia` | the lazy timers of `cia.c` and the events of `events.c` | `ChipsProofs` |
| `CiaTod` | time of day and alarm of `cia.c` | `ChipsProofs` |
| `Keyboard` | `keybuf.c` and the handshake of `cia.c` | `ChipsProofs` |
| `SdlSound` | `sd-sdl/sound.c` | `ThreadsProofs` |
| `CdBuffer` | data sectors in `akiko.c` | `ThreadsProofs` |
| `MCCommPipe`, `MC68k`, `MCTraps`, `MCCalls`, `MCSafety`, `MCFilesysUnit`, `MCHardfile`, `MCChips`, `MCThreads` | constants for TLC; some put several components side by side | |

Each `.cfg` file is one instance to check; `PROJECT.json` lists which module it
goes with, what it is expected to show, for each definition the source lines it
stands for, and for each property a faulty variant of the code that breaks it.
The faulty variants are operators with a suffix (`WriteTest_AlwaysFast`,
`Release_Skipped`), placed before the definition they vary and marked "mutant";
no specification uses them.

Check an instance with `tlc -config MCHardfile.cfg MCHardfile.tla`, the proofs of
a module with `tlapm HardfileProofs.tla`.

## 1. Inventory

### 1.1 Modelled

**Communication pipe** (`include/commpipe.h`). State: a ring of `size` slots, a
read and a write cursor, two flags `reader_waiting` and `writer_waiting`, a lock
semaphore and one semaphore per side to sleep on. Operations: write (buffering
or not), blocking read, `comm_pipe_has_data`. The writer skips the lock when the
reader is asleep, and wakes it only when a whole chunk is there or the write was
not to be buffered; poll takes no lock. Correct when the pipe is a bounded FIFO,
no wakeup is lost or left over, and a poll that saw data is a promise that read
does not block.

**Native to Amiga requests** (`native2amiga.c`, `exter_int_helper`). State: a
pipe of words, `n2asem`, `uae_int_requested`. Threads send records of two or
three words; the emulator thread, in an interrupt, polls for a record and blocks
within one. Correct when records arrive whole and in the order of the semaphore,
and words never lie in the pipe without an interrupt to come.

**Machine state and window** (`main.c`, `gui-gtk/gtkui.c`). State: `uae_state`,
`uae_target_state`, `restart_program`, a pipe each way, the message box's
semaphore. Operations: start, pause, resume, stop, quit, reset, asked by keys or
the window; `real_main` and its loops; a ROM that cannot be loaded. Hard: one
variable for requests that several parties write and the loops overwrite; the
window answers what it is shown. Correct when what is asked for comes to be and
the window and the machine come to agree.

**Extended traps** (`traps.c`). State: `regs`; per context a thread, saved
registers, two semaphores; `trap_mutex`, `current_context`; and, on 68k stacks,
pointers to contexts. Hard: traps nest (in 68k functions that traps call),
overlap (on two tasks, returning in any order), and are entered from interrupts;
the 68k state must have one user at a time though it is handed between threads.
Correct when a caller gets its own result and its own registers back, and the
emulator thread always goes on.

**68k interrupts** (`newcpu.c`, `custom.c`). State: `regs.spcflags`, the mask
and trace bits, `stopped`, INTREQ, INTENA, and in cycle-exact mode the
instructions since each request; the whole `regs` that each extended trap
saved. Operations: everything that requests, enables, masks or serves an
interrupt; STOP, trace, RESET, leaving and re-entering the interpreter, loading a
saved state, and the trap instructions of E-UAE's own ROM, which copy flags and
mask with the registers (`traps.c`). Hard: one flag for all levels, looked at
between instructions only and turned into another on the way, and put back by
traps as it was. Correct when no request that the mask lets through is left
without a flag, but in the gaps the code is known to have.

**Packet transport of directory file systems** (`filesys.c`, `filesys.asm`).
State: per unit, a message port and a 68k handler process with a chain of
unfinished commands, a `Unit` block with the counters `cmds_sent`, `cmds_acked`,
`cmds_complete`, `unit_pipe` and `back_pipe`, a host thread; for all units,
`uae_int_requested`, `singlethread_int_sem`, `native2amiga_pending`. Hard: three
parties write one block without a lock; a message that must be on a list at most
once; resets. Correct when each packet is replied, once, with its result, locks
are conserved, and a reset waits for every thread.

**a_inodes, locks and keys** (`filesys.c`). State: a tree of a_inodes with
counts of shared and exclusive holders, the list of recyclable ones, keys of
open files, enumerations by `examine`. Operations: the packets that lock, open,
duplicate, convert, rename, delete, create, examine. Hard: counts through error
paths, recycling an entry that is still referred to, names that move under an
enumeration. Correct when the tree shows the host's directory, what is held
stays, and the counts are those of the holders.

**uaehf.device** (`hardfile.c`) and **uaescsi.device** (`scsiemul.c`). State:
per unit a table of requests and their types, a pipe of requests, open count,
`thread_running`, `sync_sem`; one `change_sem` for all; for SCSI also the
handles (`pdevst`). Operations: Open, Close, BeginIO, AbortIO, the unit threads,
the reset. Hard: the table is scanned and written by both threads without a
lock; ADDCHANGEINT is kept rather than replied; every wait of the emulator
thread is for a thread that needs the emulator thread to empty a pipe. Correct
when each request has one reply, slots do not leak, a unit is cleared only when
its thread has gone (hard files) or has done with it (SCSI, whose reset waits for
the thread's word, after which the thread still gives `change_sem` back and reads
its unit's number), and calls return.

**bsdsocket.library** (`bsdsocket*.c`). State: per base a thread, a semaphore, a
socket pair to break a select, event flags and signals. Operations: blocking
calls, WaitSelect, signals, close. Hard: a break racing the end of a call, a
close in the middle. Correct when each call ends once and leaves nothing behind.

**CIA** (`cia.c`, `events.c`). Timers that are computed only when somebody
looks, an event for the earliest underflow, the interrupt control register and
its bit in INTREQ; the time of day, latched while it is read, and its alarm.
Correct when nobody can tell the lazy timers from ones that count.

**Keyboard** (`keybuf.c`, `cia.c`). A ring filled by one thread and emptied by
another without a lock; a register whose key blocks the next until it is read or
given up. Correct when keys come in order, once, and none is lost unknown.

**SDL sound** (`sd-sdl/sound.c`) and **CD sectors** (`akiko.c`). A buffer each
that two threads share over semaphores and plain variables. Hard: a sound device
that does not open is tried again while the thread of the last try still waits; the
drive's back end gives sectors and answers to commands in one buffer, with no
lock that lasts until they are copied. Correct when each side has its buffer to
itself, a sector given out is the one asked for, but for such an answer, and
nobody waits for ever.

### 1.2 Not modelled

| part | why |
|---|---|
| JIT compiler | correctness is equality of generated code with the interpreter |
| Instructions of the 68k and FPU | generated functions of their inputs; test vectors |
| Custom chips, copper, sprites, drawing | display state cycle by cycle, far beyond model checking |
| Blitter, floppy controller, channels of `audio.c` | state machines over cycles, in principle like `Cia`; not done |
| Expansion, autoconfig, memory map, Picasso96 | sequential set-up |
| `uaeexe.c`, `uaelib.c` | a small queue of commands on one thread |
| Input, configuration, save state format, archives, debugger, tools | tables, formats, files; no protocol |
| Platform ports | back ends; the primitives of `td-posix` are taken as given |

Within the modelled parts: `destroy_comm_pipe` (frees memory); commands done with
IO_QUICK, the disk itself, SCSI emulation and geometry; socket descriptors,
options, calls that do not block and the queue of socket events; contents, dates
and protection of files, record locks, notification requests; the window's other
pages; parallel port and battery-backed clock; commands, audio and NVRAM of the
CD32. `scsi_do_disk_change` has no caller in the repository. That traps copy
`spcflags` with the other registers (traps.c:280, 392, 411) is in `M68kInt`, not
in `Traps`.

### 1.3 How the parts interact

The emulator thread calls down: 68k code runs into a trap word, which is a
simple trap (a function) or an extended one (`Traps`). `filesys_handler`,
`hardfile_beginio`, `host_call` of the socket library and the others are such
functions; they write to a thread's pipe (`CommPipe`) or post its semaphore.
Threads call back by writing words to `native2amiga_pending` (`Native2Amiga`) or
into Amiga memory and setting `uae_int_requested`; at the next horizontal sync
that becomes a PORTS interrupt (`M68kInt`), whose server, `exter_int_helper`,
runs on the emulator thread. The CIAs raise the same bits of INTREQ, from events
that `do_cycles` runs. `main.c` (`UaeState`) runs reset functions on the emulator
thread, which wait for threads to end. So there is one cycle of waiting to fear
everywhere: emulator thread on thread, thread on room in a pipe that the emulator
thread empties.

Composition is by agreement on small interfaces. `CommPipe` is proved to
implement `Fifo`, so every other module has its pipes as bounded sequences.
`Native2Amiga` shows that records arrive whole, so `FilesysUnit`, `Hardfile`,
`ScsiDevice` and `BsdSocket` have the pending requests as records, bounded by
`NativeRecords` where the bound matters. `Cia` implements `CiaTicks`. Each module
contains the steps of a reset that concern it, in the order `main.c` runs them.

## 2. Plan

Done: all modules above; proofs of the pipe, the records, the states of the
machine, the traps, the interrupts, the sockets, the packets of file systems, the
CIAs with their clock and keyboard, the sound, the CD, the hard file and the SCSI
device.

Left: `TreeIsSound` of `AinoCache`, and the parts of its `CountsAddUp` that do
not count.

## 3. The modules and the code

**CommPipe.** One action per access to a shared field outside the lock
(`WriteTest` is `if (p->reader_waiting)`, `WriteFast` and `WriteFastWake` the
path without lock, `Poll` the comparison of cursors). Between taking and
releasing the lock the code is cut where the other side's unlocked accesses can
see a difference: `ReadInside` raises the flag before `ReadLeave` gives up the
lock. `readerWait` and `writerWait` are counts, as POSIX semaphores are. Memory
order is taken as program order, as the `volatile` fields of the code hope for.

**Native2Amiga.** `Sends` takes a place in the order of `n2asem`; `SendsWord` is one
word; `Polls`, `ReadsWord` the two ways `exter_int_helper` reads. A word names
its record and its place in it, so that a mix-up is visible.

**UaeState.** One action per call of `real_main` that can change what the others
see; the loops (`gui`, `run`, `paused`) are where requests are looked for. The
window's thread shows states and clicks its own Pause button, as GTK's
`gtk_toggle_button_set_active` does. `hurried` records that a pause and a resume
met within one period of `my_idle`.

**Traps.** `regs` keeps what tells properties apart: the running task, whether
the pc is in ordinary code, a called function, or at one of the three trap
words, the interrupt mask and D0. `Code68k` is what 68k code does between traps;
task switches and interrupts happen where the mask allows. Every handler is one
or two actions, cut at a wait (`ReturnTrap` is before `uae_sem_wait(&trap_mutex)`,
`ExitTrap` before the join). `entered` is a history of which traps a task is
inside, used by properties only. A result is the name of the context it belongs
to, so a mix-up is visible.

**M68kInt.** One line stands for the request bits of one level. The actions are
the segments of `m68k_run_1` and `do_specialties` between which anything can
happen (`at`). An extended trap is `Calltrap`, one of `ExtendedTraps` at a time:
`HandleExtendedTrap` saves `regs` and masks interrupts, `call_handler` lowers
the mask for the function it calls, with the saved flags or fresh ones,
`return_handler` and `exit_handler` put `regs` back, all without
`MakeFromSR` or SPCFLAG_INT (traps.c:229, 280, 298, 351, 392, 411); `next` is the
trap that goes on without a 68k instruction between. A request the socket
library's thread writes to INTREQ (`bsdsocket.c:260`) is one of `Device`.
`late` and `passed` are history: how many instructions a due request has
waited, and which requests the code is known to have left without a flag.

**FilesysUnit.** `Task` holds the actions of the handler process, `Thread` those
of the host thread, `Interrupt` those of the server. Tasks do not run during the
interrupt (`irq = "off"` in their guards) nor during a reset (`CpuRuns`). The
locks are counted: `task.locks` is the process's pool, `thread.locks` the pool
the thread was given, `held` those of the volume. What a packet does is reduced
to what the transport sees: notifications it sends, locks it makes or frees, its
result. `WordIsPointer` says whether the death message, written as an `int`
(3780), fills the pointer that the thread reads.

**AinoCache.** One thread per unit executes one packet after the other, so a
packet is an action, with all it calls: `lookup_aino`, `recycle_aino`,
`relinked`, `populate_directory` are operators on the tree. The host may refuse
to list a directory (`opendir`): `lookup_child_aino` then finds nothing in it,
and `populate_directory` leaves the children as they were, neither counted nor
kept (filesys.c:2199), though the enumeration has begun (`Begun`; `read` of an
examine key says whether it could). `do_examine` may then go on with a child
that was freed, which may be any memory. `wild` records that a freed a_inode was
used otherwise.

**Hardfile, ScsiDevice.** In `Hardfile` a scan of the table is one step, every
store another (request, then type: `AddRequest`, `AddType`, `Release`,
`ReleaseType`, `Hold`, `AbortAsync`, `AbortType`), since the fields are
`volatile` words. `ScsiDevice`, whose table is the same code, takes and gives
back a place in one step and looks at handles and opens instead. The end of its
unit threads is four steps: `Stops`, `PostsEnd` (sync_sem, on which the reset
goes on to clear the unit), `LetsGo` (change_sem) and `Ends`
(`sys_command_close_thread` with `dev->unitnum`, which the reset has made -1 by
then or not, scsiemul.c:588-589); `unitnum` and `hostThread` are the numbers and
the contexts the host has for threads. `emu` and `machine` are where the
emulator thread is inside a call or a reset. Programs follow the rules of exec:
they do not send a request they have not got back, and the last to close has its
requests back. `Hasty` relaxes one: removing or aborting an ADDCHANGEINT just
sent. The reset's loop keeps the index of the code (hardfile.c:797, `i` where
`j` is meant; scsiemul.c:649 likewise).

**BsdSocket.** `caller` is where the program is in `waitsig` or `WaitSelect`,
`sbThread` where the base's thread is. A byte in `sockabort`, a token in `sbSem`
and a record under way are counts. `broken` records that a call was broken off.

**Cia, CiaChip, CiaTicks, CiaTod.** `CiaChip` has the registers and what writes
do to them; `CiaTicks` counts them down at every E clock; `Cia` leaves them as
`CIA_update` left them, and has the event table and its times as differences.
The refinement maps the registers to their value less what has passed.
`CiaTod`'s `prog` is a program that reads or sets the clock in three accesses.

**Keyboard.** `record_key` and `get_next_key` are cut at their stores; the store
of `kpb_last` may be one or two (`++` and the reset to 0), as the compiler likes.

**SdlSound, CdBuffer.** One action per access to a variable the other thread
uses, or per semaphore. A sound device that did not open is tried again, since
`main.c:661-664` changes only `currprefs` (audio.c:895-925): each try,
`InitSound(t, lost)`, has a thread of its own (`sndAt[t]`) and makes the pipe and
the semaphores anew (sound.c:147-156) under the thread that failed, which is
`"lost"` in the old semaphore (SDL) or waits in the new one (POSIX) and may take
the next thread's word (`ReadsWoken`). In `CdBuffer` a sector is read in two
actions: `Fills`, in which the drive answers in the back end's one buffer
(`answer`: blkdev-libscg.c:283 and 426, blkdev-linux.c:190-209), and `Takes`, the
`memcpy` of what is there by then (akiko.c:993). The emulator thread's reading of
the table of contents (`TocBegins`, `TocComes`, `TocFails`, `TocEnds`) and of the
position (`AsksPosition`) use the same buffer. The exchange of the buffers is
three actions (`SwapInfo`, `SwapData`, `SwapSector`); `holds` is what is in a slot.

## 4. What is checked

Twelve instances. An instance that holds several components runs one of them at
a time (`part`), side by side in one state space; each keeps its own next-state
relation and fairness. The type invariants of a composite are joined in
`PartsTypeOK`, and properties that belong together in one name, with each part a
definition of its own that can be read, and checked, alone.

Eight show properties that hold:

| instance | component | properties and their parts |
|---|---|---|
| `MCCommPipe` | `CommPipe` | `RingSafe` (used by one side at a time, no underrun, no overrun); `WakeupsExact` (no lost wakeup, no token left over, a polled read does not sleep); `ImplementsFifo`; `PipeCallsReturn` |
| | `Native2Amiga` | `RecordsWhole`; `RecordsArrive` (a sender finishes, the reader does not stay inside a record) |
| | `UaeState` | `RequestsAreMet` (quit ends, stop stops, reset resets, the machine runs only after a reset); `WindowKeepsUp` (the state is shown, the machine settles, the box is closed) |
| `MC68k` | `Traps` | `OneRunner`; `FramesAlive`; `CallsAreOwn` (`current_context` is the caller, a call gets its own result); `ExitReturnsToCaller` |
| | `M68kInt` | `InterruptsKept` (none forgotten, served soon, only the known gaps) |
| `MCCalls` | `Traps` | `TrapsTakeTurns` (traps enter with the mutex free, the emulator thread resumes; no reset) |
| | `BsdSocket` | `CallsLeaveNothing`; `SocketCallsEnd` (a signal ends a call, close returns) |
| | `ScsiDevice` | `UnitsAreServed` (handles are units, an open unit has a thread and a device, a request sent is on one way, a thread has done with its unit when it is cleared, contexts are closed until a reset); `RequestsGetThrough` |
| `MCSafety` | `FilesysUnit` | `LocksConserved`; `PacketsInPlace` (a packet in one place, the thread works for a waiting client, pipes keep room, the dummy message queued at most once) |
| | `AinoCache` | `CountsAddUp` (counts are holders, exclusive is alone, enumerations counted, reaping ends); `TreeIsSound` (held are kept, a_inodes are files, enumerations complete) |
| `MCFilesysLive` | `FilesysUnit` | `PacketsAnswered` (replies are answers, packets replied); `ResetsComplete` (old threads are dead, resets complete) |
| `MCHardfile` | `Hardfile` | `RepliedOnce`; `TableIsRight` (held is registered, no slot leaks, cleared when stopped); `HardfileGoesOn` |
| `MCChips` | `Cia` | `TimersKeptUp` (not past underflow, next event is earliest, interrupt stays raised); `ImplementsTicks` |
| | `CiaTod` | `TodIsAtomic` (three reads are one value, three writes set exactly, the alarm goes off) |
| | `Keyboard` | `KeysConserved`; `KeysGetThrough` (in order, unread keys are held, the ring drains) |
| `MCThreads` | `SdlSound` | `BufferIsShared`; `SoundGoesOn`, both over tries that fail |
| | `CdBuffer` | `SectorsAreRight` (a slot gets the sector asked for, or an answer to the emulator thread in its place, never another sector); `SectorsGoOn` (a sector comes or fails, retries help, a reset returns) |

and four show a statement of a comment that the code does not keep:

| instance | statement | what happens |
|---|---|---|
| `MCTrapsReset` | `TrapsEnterUnlocked`: "Don't allow an interrupt and thus potentially another trap to be invoked while we hold the above mutex" (traps.c:226, 295) | the user asks for a reset; it is acted upon after any instruction, also between the switch back from a trap and the call or exit trap that would release `trap_mutex`. Nothing re-creates the mutex; the new machine's first trap waits for ever |
| `MCFilesysQueued` | `PacketsReplied`: "We can handle an unlimited number of unstarted commands" (filesys.asm:692) | a command beyond the limit is chained with status 1, which nothing looks for again |
| `MCFilesysReboot` | `NoMessageBeforeStartup`: "Take care not to dereference self for units that didn't have their startup packet sent" (filesys.c:3494) | `self` survives a reboot by the 68k's RESET instruction; the interrupt puts the old boot's message on the old boot's port |
| `MCHardfileRace` | `ProcessingIsTemp`: "ASYNC_REQUEST_TEMP = request is processing" (hardfile.c:363) | between the two stores of a release the slot is taken over by the next BeginIO, whose type the release then clears; AbortIO does not wait for that request |

One more statement of a comment fails and has a definition in `M68kInt` without an
instance, `StopHolds`: newcpu.c:1556 says the 68k stays stopped until an
interrupt, but a STOP that changes the priority sets SPCFLAG_INT in `MakeFromSR`
before `m68k_setstopped` and ends at once.

### Bounds

- *Pipe*: two data, four slots, chunk two: the ring wraps, fills, empties, and is
  half a chunk full; two data tell a lost or doubled datum from the right one.
  *Records*: two threads, three records, four words, so that a record may not
  fit at once. The theorems cover all other sizes.
- *Machine*: three requests and pipes of three, so that requests overtake one
  another and echo.
- *Traps*: two tasks and two contexts give nesting, overlap in both orders and a
  trap from an interrupt. The stacks are bounded by the contexts, since each
  call frame belongs to one, and by the mask, since an interrupt raises it.
  `MCCalls` and `MCTrapsReset` have one task.
- *Levels*: two interrupt levels, one over the other. The program traces, or
  traces and the machine is restored, or it calls extended traps, one at a time
  (`MCUses`); the theorem covers any number of them, and all three together.
- *Sockets*: three calls and two signals, so that one call is broken off while
  what it leaves meets the next. *SCSI*: two requests, two units, two handles
  and one place in the table, so that it is full; one reset.
- *Packets*: two of them on one unit, either one command started at most, so
  that the next is queued, or both started and no locks held. The counters are
  modulo 6 where the code has 2^32; they can lead one another by twice the
  packets and one, so `CmdWrap > 2 * Cardinality(Packet) + 1`, and they wrap.
  `MaxHeld = 4` is the least that lets the handler's pool reach seven locks,
  where `LockCheck` cuts it. `PipesNeverFill` is stated in `MaxStarted`, and with
  20 gives 21 of 33 records and 41 of 99 words. For liveness one packet on two
  units, a reset or a reboot, one notification and room for two records.
- *a_inodes*: three addresses and two names, two files on the host, locks and
  keys together two, one examine key: a name is created, looked up, locked,
  enumerated, renamed and recycled. `MaxTotal` bounds a count that a program
  could drive up by enumerating for ever.
- *Hard file*: two requests on one unit race for its two slots; the second unit
  shares `change_sem` and is cleared by the same reset; four replies fit, two of
  a machine before the reset among them.
- *CIA*: bytes of two values, two cycles per tick, three per line, so that an
  underflow falls before, on and after a line; one chip, since the chips meet in
  the event table only. *Clock*: registers of two values. *Keys*: a ring of two
  and four keys, so that it is full and wraps; two chances before giving up.
- *Sound*: three sound threads, so that two tries may fail before one succeeds
  and both their threads are in the way of the third. `InitSound` waits until the
  thread that failed is back in the pipe (`Settled`); the next try is at the next
  frame at the earliest. The theorem covers any number of threads. *CD*: buffers
  of two sectors, a track of two, one disc with data and none, and one wrong end
  of the data (`Garbled`) read off an answer that is no table of contents.
- Symmetry is used in `MC68k` and `MCSafety`, which check no liveness, over
  tasks, contexts, packets and names, which no formula tells apart.

Where a system may stop, `CHECK_DEADLOCK FALSE` is set: with a reset, `Traps`
can leave its mutex taken for good (the subject of `MCTrapsReset`); in
`MCFilesysQueued` the system stops; in `MCChips` the keys run out.

### Parameters whose other values fail

Circumstances the code is not up to are constants, so that an instance can show
both sides; the instances above set them to the side that holds.

| parameter | what fails |
|---|---|
| `WordIsPointer = FALSE` (pointers wider than `int`) | the upper half of the death message is whatever the stack held, the thread may not see a zero: `ResetCompletes` |
| `NotifyMax` over `NativeRecords`, or a record left by a reboot | the emulator thread waits in the reset for a thread that waits for it to empty `native2amiga_pending`: `ResetCompletes`, `PacketsReplied` |
| `Hasty = TRUE` | a REMCHANGEINT sent before the thread took up the ADDCHANGEINT of the same request is found twice and replied twice (`RepliedOnce`); an AbortIO then may not return |
| fewer `Slots` than requests of a unit | with a full table the thread and the emulator take the same free slot: `HeldIsRegistered` (51 requests in the code) |
| fewer `NativeRecords` than replies outstanding | `EmulatorResumes` of `Hardfile` (five in the code) |
| `Beyond` of `ScsiDevice` | `"reopensAtOnce"`, `"hostRefuses"`: `OpenIsServed`; `"resetsAtOnce"`: `KilledBeforeCleared`, since `dev_close_3` does not wait for the thread |
| `Beyond` of `AinoCache` | `"mkdirFails"`, `"reapsRenamed"`, `"intoItself"`: `AinosAreFiles`; `"deletesScanned"`: `ScansAreCounted`; `"sharesShared"`, `"reopenFails"`: `CountsAreHolders` |
| `StateBeyond` | `"romGoneAtReset"`: `StopStops`; `"startAfterQuit"`: `QuitEnds` |
| `ClosingWakes = FALSE` | `CloseReturns` of `BsdSocket`: a select need not notice that its descriptors were closed |
| `StateFile = TRUE` | `SectorsGoOn`: `akiko_sem` is not initialised |

Stated exceptions inside properties: a due interrupt may have no flag in
cycle-exact mode, when service of a lower one takes the flag of one on its way;
after a saved state; and when an extended trap lowers the mask for a function it
calls, or ends with the flags of its beginning: each until INTREQ, INTENA or the
status register changes (`passed` in `InterruptsKept`); a directory that
`opendir` refused has children that its enumeration neither counts nor keeps
(`UnreadIn` in `ScansAreCounted` and `ReapingEnds`, `read` in `ScanCovers`;
`AinosAreFiles` says nothing of the child the enumeration goes on with); a
sector may hold what the drive answered to the emulator thread between the read
and the copy (`Other` in `SectorsAreRight`), or be marked unread for it; a
unit's thread may leave its context with the host open when a reset takes the
unit's number first (`ContextsAreClosed` speaks of machines not reset); a pause
and a resume in a hurry go round for ever (`MachineSettles` has `<>hurried`); a
call of the socket library broken off in `waitsig` leaves things behind
(`~broken`); a callback of SDL that marks `in_callback` after `close_sound` has
looked hangs, and so does a `finish_sound_buffer` that warp mode paused SDL
under (`Stuck` in `SoundGoesOn`); a compiler that stores `kpb_last` twice lets
`record_key` take a full ring for one that is not, and all keys in it are lost,
though keybuf.c:6 calls the code perfectly thread safe (`beyond`); after a
reboot by the 68k a thread of the old machine may mark a packet that the new one
put at the same address (`RepliesAreAnswers`).

### Fairness

The host schedules its threads, so each thread is weakly fair; the emulator
thread, once inside a handler or a reset, likewise. The 68k runs ready tasks and
takes the interrupt that the next horizontal sync raises, so handler processes
and interrupts in `FilesysUnit` are weakly fair. In `Hardfile` and `ScsiDevice`
the interrupt is enabled only between calls, and `change_sem` is free only
between holders, so both are strongly fair: the emulator thread cannot run 68k
code for ever without a horizontal sync, and a semaphore's waiter is not passed
over for ever. `akiko_sem` of `CdBuffer` is passed on in the same way. Clients,
programs, 68k code, writers with nothing to write, sockets, discs and users owe
nothing. In `Traps` 68k code owes nothing either: `EmulatorResumes` says only
that the emulator thread gets to interpret again.

## 5. What is proved

Each module of proofs holds for every value of the constants that satisfies the
assumption its component names, with nothing else assumed unless said below. No
property is inductive alone; each module states the invariant that is, shows
that it holds initially and is kept by each action, and draws the properties
from it. The same invariants were checked by TLC before.

**`PipesProofs`**, `CommPipe`: `TypeCorrect`, `RingIsSafe` (`RingSafe`),
`WakeupsAreExact` (`WakeupsExact`), and `PipeImplementsFifo` (`ImplementsFifo`).
`IInv` joins `TypeOK`, `LockInv` (who holds the lock follows from the two
positions), `SleepInv` (which flag and token each position of a sleeper goes
with; never both), `DataInv` and `SpaceInv` (where the code takes or stores
without testing again, data or room is there because only the other side could
have used it), and `WakeInv` (when data is there and the reader's flag is up,
the writer is between store and wake, or the data is less than a chunk and
buffered). The cursors' arithmetic is in lemmas of its own (`ModSize`,
`NextValue`, `DistanceValue`, `CursorFacts`). `StoreIsPut` and `TakeIsGet` map
the two steps that matter to the queue's; every other is a stutter.

`Native2Amiga` (any finite set of threads): `RecordTypes`,
`RecordsArriveWhole` (`RecordsWhole`), `InterruptToCome` (`NeverNotEnough`).
`N2aInv` says who holds `n2asem`, and that the words between the last one read
and the last one sent are consecutive in the order of `n2asem` (`PipeInv`,
`WritingInv`, `ReadInv`); counting the waiting threads bounds the records.

`UaeState`: `UsTypes`, `MachineRunsAfterReset` (`RunsAfterReset`, the action
property in `RequestsAreMet`). A step's property needs the states before it:
`StatesInv` says for each place of `real_main` (`PlacesInv`) which states
`uaestate_state` and the target of a change can have there, and `BoxInv` that
there is one message box at a time, its message on its way, shown or closed.

**`TrapsProofs`** (any tasks, contexts and resets): `TrapTypes`,
`OneRunsAtATime` (`OneRunner`), `StackedContextsLive` (`FramesAlive`),
`CallsGoHome` (`CallsAreOwn`), `ExitIsToCaller` (`ExitReturnsToCaller`).
`TrapsInv`: the 68k state is a token, held by the interpreter or by one context
in hand, and every other context sleeps in the middle of a call or at its end
with both semaphores at 0 (`HandInv`, `SleepInv`); the mutex and the interrupt
mask (`MutexInv`); each context's function and result are its own (`ValueInv`);
registers fit the frames under them (`StackInv`, `FramesInv`); and `entered` is
the contexts of the call frames in order and the one in hand (`EnteredInv`).

**`M68kIntProofs`** (any number of levels and of extended traps at a time,
any `Uses`): `M68kTypes`, `InterruptsAreKept` (`InterruptsKept`).
`NoInterruptForgotten` speaks of two points of the interpreter; `Flagged` says it
of every point, and `FetchInv` and `RunInv` relate how long a request has waited
to the flag it has and to how long it has been on its way, which is what makes
`ServedSoon` inductive (`CpuInv`). A trap puts back flags it copied long before:
`TrapInv` says that they are flags this mode has, without SPCFLAG_DOINT when it
is cycle-exact, and that only a program that calls such traps is in one.

**`CallsProofs`**, `BsdSocket` (any tasks, calls, limits): `BsdTypes`,
`NothingIsLeft` (`CallsLeaveNothing`). `BsdInv` says that a call in progress is in
one place (`CallInOnePlace`): on its semaphore, with the thread, in a record, or
as the signal its task has yet to take; `CallsCounted` and `BytesCounted` relate
the thread's semaphore and the bytes in its pipe to those places, which bounds
both. The place is claimed as long as no call was broken off while it waited
for its signal (it returns then, and what it asked for goes on): that exception is
in the property too.

`ScsiDevice` (any units, requests, handles and places of the table): `ScTypes`,
`UnitsStayServed` (`UnitsAreServed`). Both assume `Beyond = {}`: the code does
not keep them in the circumstances named there (see the parameters above).
`ScInv` has one part for each thing the device keeps. `LifeInv` is the life of a
unit's thread: off, started by an open that waits for it, serving, or ending,
with the zero request as the last in its pipe, in its hands or taken; which of
these it is follows from `opencnt` and the place of the emulator thread, so that
a thread has no zero request coming while its unit is open, and `sync_sem` is
posted only when someone is to wait for it or the thread is as good as gone: one
that has posted its end counts as off, though it still has `change_sem` to post
and its context to close. `ExitInv` says how far a reset is, and `NumberInv` of
the units' numbers and the threads' contexts that without a reset each thread
closes its own. `CountInv` and `HandleInv` relate `opencnt`, the host's device
and the handles to the requests that are open; a first open finds a free handle
because there are at least as many handles as units (`FreeIsFree`). `HomeInv`,
`WayInv`, `TableInv` and `HeldInv` place a request: in its unit's pipe, with its
thread or among the replies, once when it is sent and never else, and in at most
one place of the table, as what it is. During a reset only `HomeInv` is left of
these, since the exit's abort takes a request out of the table that is still on
its way. Lemmas say what adding, releasing, appending and reading do to the
table and to the number of times a request occurs.

**`ChipsProofs`**, `Cia` with `CiaChip`: `CiaTypes`, `TimersAreKeptUp`
(`TimersKeptUp`), `LazyTimersTick` (`ImplementsTicks`). Timers are brought up to
date only when a register is touched or an event is due. `UnderflowInv` says that
the event of a CIA is due exactly at the first underflow of a timer that counts,
or is not set, when no timer counts and less than one tick has passed since the
last update; `LineInv` that the line's event is always set, and the CPU is told the
earlier of the two. The refinement
shows what the program would read now, not what is stored (`ShownBy`): a tick is
then the update of what is shown (`TickIsUpdate`), and the flags two timers
raise can be raised in either order (`FlagsCommute`).

`CiaTod`: `TodTypes`, `ClockIsAtomic` (`TodIsAtomic`). `TodInv`: the clock is
latched exactly while it is being read, stands still while it is being set, and
the bytes read or written so far are those of one value. Lemmas on the three
digits of a time say what replacing one of them does to the others.

`Keyboard` (a ring of any size): `KbTypes`, `KeysAreConserved`
(`KeysConserved`), `KeysAreReadInOrder` (`KeysInOrder`), `UnreadKeysWait`
(`UnreadKeysAreHeld`), the latter two parts of `KeysGetThrough`. `OrderInv` says
that the keys in the ring ascend from `kpb_last` and follow all that left it;
`FullInv` that, unless a full ring was overlooked, the slot `record_key` goes on
to is not the one `get_next_key` reads or goes on with; `HeldInv` how
`ciaasdr_unread` goes with what was read and waited.

**`ThreadsProofs`**, `SdlSound`: `SndTypes`, `BufferStaysShared`
(`BufferIsShared`), for any set of sound threads. `SndInv`: a full buffer is one
token, in `data_available`, with the callback, or in `callback_done` on its way
back (`TokenInv`); `DeviceInv` says which places of the callback go with an open,
closing or closed device. Of the threads, one at the most is not waiting
(`WaitInv`), and a word the emulator thread waits for is in the pipe, or some
thread does as it says, or the semaphore tells that it was done (`WordInv`):
whichever thread takes it.

`CdBuffer` (buffers of any size, any discs and offsets): `CdTypes`,
`SectorsRight` (`SectorsAreRight`). `BuffersInv` says what is in each buffer and
in the back end's answer at each step of the filling and of the exchange,
`CopyInv` that the sector under the copy stays the one tested for, `SemInv` that
`akiko_sem` keeps the copy and the exchange apart, `LifeInv` that buffers are
freed only when the thread has ended.

**`HardfileProofs`** (any units, requests, slots, opens, resets; assumes
`Hasty = FALSE`, without which `RepliedOnce` is false): `HfTypes`,
`RequestsAreRepliedOnce` (`RepliedOnce`), `UnitsAreClearedWhenStopped`
(`ClearedWhenStopped`, a part of `TableIsRight`), and, if no unit has more
requests than slots (`TableHasRoom`), `TableStaysRight` (`TableIsRight`).
`UnitsInv` relates, for each unit, the open count, `thread_running`, the zero
request in the pipe, `sync_sem` and the thread's place, which decides when a
thread is gone; `HomeInv` says that requests are on the unit they are used with;
`LockInv` who holds `change_sem`; `EmuInv` what the emulator thread has in hand
at each place of a call and of the reset. `RepliedOnce` counts a request in a
pipe and among the replies; its lemmas say what a put and a take do to such a
count.

`TableInv` is the inductive invariant of the table, which the emulator thread and
the unit's thread write without a lock: a slot in use is of a request its program
waits for, and no request has two (`InTable`, `OneSlot`); `EmuSlot` and
`ThreadSlot` say for each place of the two threads what the slot in hand, found by
an earlier scan, holds by now. The step that could go wrong is an
ADDCHANGEINT that finds no slot of its own: the thread would then take a free one,
while an AbortIO that emptied that slot has yet to clear its type. Between resets
this does not happen: BeginIO's scan finds a free slot, by counting requests
against slots, and until the thread has stored the type only an abort that programs
do not ask for would empty it (`Registered`). In a reset it does happen, and
nothing is claimed of what is held until the reset is over. With more requests
than slots TLC finds the lost change interrupt, so the assumption is needed.

**`FilesysUnitProofs`** (any units, packets, limits, notifications, resets).
`OldThreadsDie` (`OldThreadsAreDead`, a part of `ResetsComplete`) and
`RepliesAnswered` (`RepliesAreAnswers`, a part of `PacketsAnswered`) assume
nothing more. `FsTypes` and `PacketsStayInPlace` (`PacketsInPlace`) assume that
the 68k does not execute RESET (`"reboot" \notin Restarts`): then the old
machine's threads go on with packets of which the new machine knows nothing,
and neither is true. Of the emulator thread's resets any number is allowed.
`EndInv` holds in every case: a thread is told to go, posts `reset_sync_sem`
once, is dead then, and the emulator thread passes no unit whose thread is not.
`FsInv` holds until a reboot and says of each unit that
a packet on the port, on the handler's chain or in its hands is there once and
nowhere else (`PlaceInv`); what is in the pipe or with the thread is taken by
the handler, not done, and there once (`PipeInv`, `HandInv`); what is done has
its results (`ResultInv`); the commands started bound what is in the pipe, with
the thread and done, and words in `back_pipe` are of commands done or replied
since the pipe was last emptied (`CountInv`, from which the room in the pipes
follows); the dummy message is out exactly while `cmds_acked` and `cmds_complete`
differ (`DummyInv`). Lemmas say what appending, prepending and removing do to
the number of times a message occurs in a sequence.

Only model-checked, and why:

- all liveness (`PipeCallsReturn`, `RecordsArrive`, `RequestsAreMet`,
  `WindowKeepsUp`, `TrapsTakeTurns`, `SocketCallsEnd`, `RequestsGetThrough`,
  `PacketsAnswered`, `ResetsComplete`, `HardfileGoesOn`, `SoundGoesOn`,
  `SectorsGoOn`, the draining part of `KeysGetThrough`): fairness and `ENABLED`
  are out of the prover's reach;
- `LocksConserved` and `CountsAddUp`, which add up over a sequence or a set by a
  fold: what a fold computes needs induction over data;
- `TrapsEnterUnlocked`, which is false with a reset;
- `TreeIsSound` of `AinoCache`, which the plan has left. Its packets fold over
  sets (the a_inodes reaped at once, the directory read in at once) and filter
  a unit's lists with a recursive selection, so the inductive step needs first
  what those folds and selections compute, which is again induction over data.

The `PartsTypeOK` of the `MC` modules that put components side by side is the
conjunction of the components' type invariants; each of those is a theorem
(`TypeCorrect`, `RecordTypes`, `UsTypes`, `TrapTypes`, `M68kTypes`, `BsdTypes`,
`ScTypes`, `CiaTypes`, `TodTypes`, `KbTypes`, `SndTypes`, `CdTypes`).

## 6. Hazards

`PROJECT.json` lists what in this code is hard to test, each with the line and
the properties that would catch it going wrong; every one has a property. The
notes say where a hazard bites beyond what the property covers: three gaps in
the flags of interrupts, what another command may leave in a sector or a reset in
the host's contexts, the circumstances in the table above, and what is stated as
an exception. They are where a fix of the code would start.

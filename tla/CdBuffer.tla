------------------------------ MODULE CdBuffer ------------------------------
(* Data sectors of the CD32's drive (akiko.c). The program seeks, enables    *)
(* the transfer and asks for slots of its buffer; the emulator thread gives  *)
(* it a sector each frame out of the first of two sector buffers, while a    *)
(* thread fills the second without a lock and then exchanges the two under   *)
(* akiko_sem. Both ask the drive, and the drive's back end gives each its    *)
(* answer in one buffer: the lock of blkdev-libscg.c is given back before    *)
(* the answer is looked at, blkdev-linux.c has none. Of the commands only    *)
(* those that seek, read the table of contents or use that buffer are here;  *)
(* audio, NVRAM, C2P and cdrom_readmask_r, which tells the program what it   *)
(* was given, are left out.                                                  *)
EXTENDS Integers

CONSTANTS BufferSize,   \* SECTOR_BUFFER_SIZE (64)
          Uses,         \* how often a sector read is given out (3)
          DmaSlots,     \* slots of the program's buffer (16)
          LeadOut,      \* the end of the data track
          Discs,        \* discs put in: with data, audio only, none
          Offsets,      \* where the program reads from
          MaxCounter,   \* bound on cdrom_sector_counter
          Garbled,      \* ends of data in what is no table of contents
          StateFile     \* E-UAE was started with a state file

ASSUME CdAssumption ==
  /\ {BufferSize, Uses, DmaSlots, LeadOut} \subseteq Nat \ {0} /\ MaxCounter \in Nat
  /\ DmaSlots <= MaxCounter /\ Offsets \subseteq Nat /\ Discs \subseteq {"data", "audio", "none"}
  /\ Garbled \subseteq Nat /\ StateFile \in BOOLEAN

VARIABLES
  disc, cdrom_disk,    \* what is in the drive, and whether a disc was seen there
  cdrom_data_end,      \* of the table of contents: LeadOut, or -1
  offset, counter,     \* cdrom_data_offset (-1: none yet), cdrom_sector_counter
  enabled, todo,       \* of cdrom_longmask, cdrom_readmask_w
  current,             \* cdrom_current_sector
  buf1, buf2,          \* sector_buffer_1 and _2, with their info and sector
  alloc,               \* the buffers exist (cdromok)
  answer,              \* what the back end's buffer holds (scsibuf, sdd->buf)
  akiko_sem, running,  \* running is akiko_thread_running: 1, 0, -1
  cpu,                 \* the emulator thread: "run", "toc", "parse", "copy", "join", "init"
  reader               \* akiko_thread

program == <<offset, counter, enabled, todo>>
toc == <<disc, cdrom_disk, cdrom_data_end>>
bufs == <<buf1, buf2, alloc>>
cdVars == <<toc, program, current, bufs, answer, akiko_sem, running, cpu, reader>>

Index == 0..BufferSize - 1
SlotNo == 0..DmaSlots - 1
Spent == -1                 \* 0xff

(* What a buffer holds: a sector, by its number, or none of the disc: the    *)
(* answer to another command, or part of one; the table of contents of a     *)
(* data disc, of an audio disc, or of no disc; a sector that is not to be    *)
(* read; nothing.                                                            *)
Other == -1
Toc(d) == IF d = "data" THEN -2 ELSE IF d = "audio" THEN -3 ELSE -4
Unread == -5
Nothing == -6

Empty == [sector |-> -1, info |-> [i \in Index |-> 0], holds |-> [i \in Index |-> Nothing]]
CpuAt(at) == [at |-> at, sec |-> 0]
ReaderAt(at) == [at |-> at, sector |-> 0, next |-> 0]
EndOf(d) == IF d = "data" THEN LeadOut ELSE -1

CdInit ==                   \* akiko_init
  /\ disc \in Discs /\ cdrom_disk = (disc # "none") /\ cdrom_data_end = EndOf(disc)
  /\ offset = (IF StateFile THEN 0 ELSE -1) /\ counter = 0 /\ enabled = FALSE
  /\ todo = {} /\ current = -1
  /\ buf1 = Empty /\ buf2 = Empty /\ alloc = TRUE /\ answer = Other
  /\ akiko_sem = (IF StateFile THEN 0 ELSE 1) /\ running = 1
  /\ cpu = CpuAt("run") /\ reader = ReaderAt("sleep")

Running == cpu.at = "run"

-----------------------------------------------------------------------------
(* The program, by Akiko's registers and commands                            *)
Seek(o) ==                  \* cdrom_command_multi
  /\ Running /\ cdrom_disk /\ offset' = o
  /\ UNCHANGED <<toc, counter, enabled, todo, current, bufs, answer, akiko_sem, running, cpu,
                 reader>>

Enables(on) ==
  /\ Running /\ enabled' = on /\ counter' = (IF on /\ ~enabled THEN 0 ELSE counter)
  /\ UNCHANGED <<toc, offset, todo, current, bufs, answer, akiko_sem, running, cpu, reader>>

AsksFor(S) ==
  /\ Running /\ counter <= MaxCounter - DmaSlots /\ todo' = todo \cup S
  /\ UNCHANGED <<toc, offset, counter, enabled, current, bufs, answer, akiko_sem, running, cpu,
                 reader>>

-----------------------------------------------------------------------------
(* The host's drive, and cdrom_toc, which follows a door status or the check *)
(* of the media: it gets the table, forgets the end of the data and looks    *)
(* for it in the table. Meanwhile the thread may have the buffer filled with *)
(* something else: then the command has failed, or what is found is garbled. *)
DiscChanges ==
  /\ disc' \in Discs \ {disc}
  /\ UNCHANGED <<cdrom_disk, cdrom_data_end, program, current, bufs, answer, akiko_sem, running,
                 cpu, reader>>

TocBegins ==
  /\ Running /\ cdrom_disk' = (disc # "none") /\ answer' = Toc(disc)
  /\ cpu' = CpuAt("toc")
  /\ UNCHANGED <<disc, cdrom_data_end, program, current, bufs, akiko_sem, running, reader>>

TocFails ==
  /\ cpu.at = "toc" /\ answer \notin {Toc("data"), Toc("audio")} /\ cpu' = CpuAt("run")
  /\ answer' = (IF reader.at = "take" THEN answer ELSE Other)  \* nobody looks at it any more
  /\ UNCHANGED <<toc, program, current, bufs, akiko_sem, running, reader>>

TocComes ==
  /\ cpu.at = "toc" /\ answer # Toc("none")
  /\ cpu' = CpuAt("parse") /\ cdrom_data_end' = -1
  /\ UNCHANGED <<disc, cdrom_disk, program, current, bufs, answer, akiko_sem, running, reader>>

TocEnds ==
  /\ cpu.at = "parse" /\ cpu' = CpuAt("run")
  /\ \/ \E d \in {"data", "audio"} : answer = Toc(d) /\ cdrom_data_end' = EndOf(d)
     \/ answer \notin {Toc("data"), Toc("audio")} /\ cdrom_data_end' \in Garbled \cup {-1, LeadOut}
  /\ answer' = (IF reader.at = "take" THEN answer ELSE Other)  \* nobody looks at it any more
  /\ UNCHANGED <<disc, cdrom_disk, program, current, bufs, akiko_sem, running, reader>>

(* cd_qcode: the position of the audio, to the program or once a frame       *)
AsksPosition ==
  /\ Running /\ answer # Other /\ answer' = Other
  /\ UNCHANGED <<toc, program, current, bufs, akiko_sem, running, cpu, reader>>

-----------------------------------------------------------------------------
(* cdrom_run_read, once a frame                                              *)
MayRead == Running /\ enabled /\ todo # {} /\ offset >= 0
slot == counter % DmaSlots
Sector == offset + counter

ReadPasses ==
  /\ MayRead /\ slot \notin todo /\ counter < MaxCounter
  /\ counter' = counter + 1
  /\ UNCHANGED <<toc, offset, enabled, todo, current, bufs, answer, akiko_sem, running, cpu,
                 reader>>

ReadTests ==                \* it keeps the semaphore if the sector is there
  /\ MayRead /\ slot \in todo /\ akiko_sem > 0 /\ current' = Sector
  /\ IF buf1.sector >= 0 /\ Sector - buf1.sector \in Index
     THEN /\ cpu' = [at |-> "copy", sec |-> Sector - buf1.sector]
          /\ akiko_sem' = akiko_sem - 1
     ELSE UNCHANGED <<cpu, akiko_sem>>
  /\ UNCHANGED <<toc, program, bufs, answer, running, reader>>

Given == buf1.info[cpu.sec] > 0     \* and 0xff is no sector

LastHeld == IF buf1.info[cpu.sec] > 1 THEN buf1.holds[cpu.sec] ELSE Nothing   \* nobody looks at it again

ReadCopies_NeverSpent ==    \* mutant: a sector that cannot be given is not read again
  /\ cpu.at = "copy" /\ cpu' = CpuAt("run") /\ akiko_sem' = akiko_sem + 1
  /\ buf1' = IF Given THEN [buf1 EXCEPT !.info[cpu.sec] = @ - 1, !.holds[cpu.sec] = LastHeld] ELSE buf1
  /\ todo' = todo \ {slot} /\ counter' = counter + 1
  /\ UNCHANGED <<toc, offset, enabled, current, buf2, alloc, answer, running, reader>>

ReadCopies ==
  /\ cpu.at = "copy" /\ cpu' = CpuAt("run") /\ akiko_sem' = akiko_sem + 1
  /\ buf1' = [buf1 EXCEPT !.info[cpu.sec] = IF @ = Spent THEN @ ELSE @ - 1,   \* 0 becomes 0xff
                          !.holds[cpu.sec] = LastHeld]
  /\ todo' = todo \ {slot} /\ counter' = counter + 1
  /\ UNCHANGED <<toc, offset, enabled, current, buf2, alloc, answer, running, reader>>

-----------------------------------------------------------------------------
(* akiko_thread                                                              *)
ReaderTests ==
  /\ reader.at = "test" /\ akiko_sem > 0
  /\ IF /\ cdrom_data_end > 0 /\ current >= 0
        /\ \/ buf1.sector < 0 \/ current < buf1.sector
           \/ current >= buf1.sector + (BufferSize * 2) \div 3
           \/ \E i \in Index : buf1.info[i] = Spent
     THEN /\ reader' = [at |-> "fill", sector |-> current, next |-> 0]
          /\ buf2' = [buf2 EXCEPT !.sector = current, !.info = Empty.info]
     ELSE reader' = ReaderAt("sleep") /\ UNCHANGED buf2
  /\ UNCHANGED <<toc, program, current, buf1, alloc, answer, akiko_sem, running, cpu>>

Readable(s) == s < LeadOut /\ disc = "data"
Filled(ok) ==
  /\ buf2' = IF ok THEN [buf2 EXCEPT !.info[reader.next] = Uses,
                                     !.holds[reader.next] = IF answer \in Nat THEN answer ELSE Other]
             ELSE [buf2 EXCEPT !.info[reader.next] = 0]
  /\ reader' = [reader EXCEPT !.at = "fill", !.next = @ + 1]

(* A sector beyond the end is not asked for.                                 *)
Fills ==
  /\ reader.at = "fill" /\ reader.next < BufferSize
  /\ LET s == reader.sector + reader.next IN
     IF s < cdrom_data_end
     THEN /\ answer' = (IF Readable(s) THEN s ELSE Unread)
          /\ reader' = [reader EXCEPT !.at = "take"] /\ UNCHANGED buf2
     ELSE Filled(FALSE) /\ UNCHANGED answer
  /\ UNCHANGED <<toc, program, current, buf1, alloc, akiko_sem, running, cpu>>

(* The answer is taken if the command was done, which it need not have been  *)
(* when another one has used the buffer.                                     *)
Takes ==
  /\ reader.at = "take"
  /\ \E ok \in BOOLEAN : Filled(ok) /\ (answer \in Nat => ok) /\ (answer = Unread => ~ok)
  /\ answer' = (IF cpu.at \in {"toc", "parse"} THEN answer ELSE Other)
  /\ UNCHANGED <<toc, program, current, buf1, alloc, akiko_sem, running, cpu>>

(* three exchanges under akiko_sem: the info, the buffers, the sectors       *)
Swaps(from, to, field) ==
  /\ reader.at = from /\ reader' = ReaderAt(to)
  /\ buf1' = [buf1 EXCEPT ![field] = buf2[field]]
  /\ buf2' = [buf2 EXCEPT ![field] = Empty[field]]    \* nobody looks at what it gets
  /\ UNCHANGED <<toc, program, current, alloc, answer, running, cpu>>

SwapInfo_NoWait ==          \* mutant: the exchange needs no semaphore
  /\ reader.next = BufferSize /\ akiko_sem' = 0 /\ Swaps("fill", "swapData", "info")

SwapInfo ==
  /\ reader.next = BufferSize /\ akiko_sem > 0 /\ akiko_sem' = akiko_sem - 1
  /\ Swaps("fill", "swapData", "info")
SwapData == Swaps("swapData", "swapSector", "holds") /\ UNCHANGED akiko_sem
SwapSector == Swaps("swapSector", "sleep", "sector") /\ akiko_sem' = akiko_sem + 1

ReaderWakes ==                    \* and looks at akiko_thread_running
  /\ reader.at = "sleep"
  /\ IF running # 0 THEN reader' = ReaderAt("test") /\ UNCHANGED running
     ELSE reader' = ReaderAt("off") /\ running' = -1
  /\ UNCHANGED <<toc, program, current, bufs, answer, akiko_sem, cpu>>

-----------------------------------------------------------------------------
(* A reset: akiko_reset and akiko_init, with a saved state or without one    *)
AkikoResets ==
  /\ Running /\ current' = -1 /\ running' = 0
  /\ cpu' = CpuAt("join")
  /\ UNCHANGED <<toc, program, bufs, answer, akiko_sem, reader>>

AkikoFrees ==
  /\ cpu.at = "join" /\ running = -1 /\ running' = 0
  /\ cpu' = CpuAt("init") /\ alloc' = FALSE /\ buf1' = Empty /\ buf2' = Empty
  /\ UNCHANGED <<toc, program, current, answer, akiko_sem, reader>>

(* akiko_init opens the drive, reads its table of contents, allocates the    *)
(* buffers and starts the thread                                             *)
AkikoRestarts(restoring) ==
  /\ cpu.at = "init" /\ cpu' = CpuAt("run")
  /\ buf1' = Empty /\ buf2' = Empty /\ alloc' = TRUE /\ answer' = Other
  /\ running' = 1 /\ reader' = ReaderAt("sleep")
  /\ cdrom_data_end' = (IF disc = "none" THEN cdrom_data_end ELSE EndOf(disc))
  /\ IF restoring
     THEN /\ enabled' \in BOOLEAN /\ todo' \in SUBSET SlotNo
          /\ todo' = {} \/ counter <= MaxCounter - DmaSlots
          /\ UNCHANGED <<offset, akiko_sem>>
     ELSE offset' = -1 /\ akiko_sem' = 1 /\ UNCHANGED <<enabled, todo>>
  /\ UNCHANGED <<disc, cdrom_disk, counter, current>>

-----------------------------------------------------------------------------
Asking ==
  \/ \E o \in Offsets : Seek(o)
  \/ \E on \in BOOLEAN : Enables(on)
  \/ \E S \in SUBSET SlotNo : AsksFor(S)
Reading == ReadPasses \/ ReadTests \/ ReadCopies
Locking == ReaderTests \/ SwapInfo
Asks == TocBegins \/ AsksPosition
Parsing == TocFails \/ TocComes \/ TocEnds
Filling == Fills \/ Takes \/ SwapData \/ SwapSector \/ ReaderWakes
Restarting == AkikoFrees \/ \E restoring \in BOOLEAN : AkikoRestarts(restoring)

CdNext ==
  \/ Asking \/ DiscChanges \/ Asks \/ Parsing \/ Reading \/ Locking \/ Filling
  \/ AkikoResets \/ Restarting

(* The emulator's frames and the thread go on, and akiko_sem is passed on    *)
(* between them; the program, the discs and resets are nobody's duty.        *)
CdSpec ==
  /\ CdInit /\ [][CdNext]_cdVars
  /\ WF_cdVars(Parsing) /\ SF_cdVars(Reading) /\ WF_cdVars(Restarting)
  /\ SF_cdVars(Locking) /\ WF_cdVars(Filling)

-----------------------------------------------------------------------------
CdTypeOK ==
  /\ disc \in Discs /\ {cdrom_disk, enabled, alloc} \subseteq BOOLEAN
  /\ cdrom_data_end \in Garbled \cup {-1, LeadOut} /\ answer \in Int
  /\ offset \in Offsets \cup {-1, 0} /\ counter \in Nat
  /\ todo \subseteq SlotNo /\ current \in Int
  /\ buf1 \in [sector : Int, info : [Index -> -1..Uses], holds : [Index -> Int]]
  /\ buf2 \in [sector : Int, info : [Index -> -1..Uses], holds : [Index -> Int]]
  /\ akiko_sem \in 0..1 /\ running \in {1, 0, -1}
  /\ cpu \in [at : {"run", "toc", "parse", "copy", "join", "init"}, sec : Index]
  /\ reader \in [at : {"off", "sleep", "test", "fill", "take", "swapData", "swapSector"},
                 sector : Int, next : 0..BufferSize]

(* Whatever the thread does meanwhile, the sector copied is the one tested   *)
(* for, and a slot is given the sector asked for or, in its place, what the  *)
(* emulator thread made the drive answer between the read and the copy into  *)
(* the buffer, but never another sector. The thread has buffers as long as   *)
(* it lives.                                                                 *)
SectorsAreRight ==
  /\ cpu.at = "copy" => /\ buf1.sector + cpu.sec = Sector
                        /\ Given => buf1.holds[cpu.sec] \in {Sector, Other}
  /\ reader.at # "off" => alloc

(* The program does not wait for ever for the sector it is at, if the disc   *)
(* has data: it is given the sector or learns that it is not.                *)
WaitsAt(o) == cpu.at \notin {"join", "init"} /\ enabled /\ todo # {} /\ offset = o /\ cdrom_data_end > 0
SectorsComeOrFail == \A o \in Offsets : []<>~WaitsAt(o)

(* A sector that was given out three times or could not be read when the     *)
(* buffer was filled is passed over, but not for ever: to a program that     *)
(* keeps trying it comes, and it itself, if a disc with data stays in and    *)
(* the drive is asked nothing else any more. Stated of the last sector of    *)
(* the track.                                                                *)
Deals == ReadCopies /\ Sector = LeadOut - 1
RetriesHelp ==
  <>[](disc = "data" /\ cdrom_data_end = LeadOut) /\ <>[][~Asks]_cdVars /\ []<><<Deals>>_cdVars
    => []<><<Deals /\ Given /\ buf1.holds[cpu.sec] = Sector>>_cdVars

(* akiko_reset sees the thread end.                                          *)
CdResetReturns == cpu.at = "join" ~> cpu.at = "run"

SectorsGoOn == SectorsComeOrFail /\ RetriesHelp /\ CdResetReturns
=============================================================================

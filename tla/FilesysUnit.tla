---------------------------- MODULE FilesysUnit -----------------------------
(* How DOS packets travel through a directory mounted as an Amiga volume     *)
(* (filesys.c, filesys.asm). Per unit, a 68k handler process takes packets   *)
(* from its message port and hands them to a host thread over unit_pipe; the *)
(* thread marks what it processed, counts it in cmds_sent and asks for an    *)
(* interrupt; the interrupt puts the unit's one dummy message on its port;   *)
(* the handler then replies every packet marked. Locks, allocated on the 68k *)
(* side only, go to the thread with each packet and come back by back_pipe.  *)
(* Tasks and the interrupt share one 68k; threads run beside it. The         *)
(* emulator thread stops the 68k while it resets the machine.                *)
EXTENDS Integers, Sequences, FiniteSets, SequencesExt

CONSTANTS Units,          \* mounted units, 1 .. number
          Packet,         \* packets of DOS clients, each with its message
          Volume,         \* the unit each client uses
          BadPacket,      \* those that may be at addresses filesys_handler refuses
          MaxStarted,     \* commands started at most (20 in FSML_FromDOS)
          CmdWrap,        \* the counters of commands are modulo this (2^32)
          MaxHeld,        \* bound on the locks a unit's clients hold
          NotifyMax,      \* bound on the notifications one packet sends
          NativeRecords,  \* records that fit in native2amiga_pending (3)
          WordIsPointer,  \* an int written to a pipe fills a whole pointer
          Restarts,       \* of "reset" (uae_reset) and "reboot" (the 68k's RESET)
          MaxRestarts     \* bound on the resets and reboots together

Dummy == "dummy"          \* unit->dummy_message
Null == "null"            \* a zero packet pointer
Garbage == "garbage"      \* an int 0 read as a pointer wider than an int

ASSUME FilesysAssumption ==
  /\ Units \in Nat \ {0} /\ IsFiniteSet(Packet) /\ Volume \in [Packet -> 1..Units]
  /\ {Dummy, Null, Garbage} \cap Packet = {} /\ BadPacket \subseteq Packet
  /\ MaxStarted \in Nat \ {0}
  /\ CmdWrap \in Nat /\ CmdWrap > 2 * Cardinality(Packet) + 1
  /\ {MaxHeld, NotifyMax, NativeRecords, MaxRestarts} \subseteq Nat
  /\ Restarts \subseteq {"reset", "reboot"}
  /\ WordIsPointer \in BOOLEAN

VARIABLES
  waiting,     \* packets sent and not replied
  result,      \* packets whose result fields are filled in
  status,      \* long 4 of each packet's message: -1 processed ("done"), 0, 1
  port,        \* per unit, the messages on its port
  task,        \* per unit, the handler process and its registers
  unit,        \* per unit, its Unit block: self and the counters
  unit_pipe, back_pipe,
  thread,      \* per unit, filesys_thread
  held,        \* per unit, the locks on the volume's list
  extant,      \* per unit, LockCheck's allocations minus its frees
  amigaUp,     \* the 68k is past filesys_diagentry: exter_server is installed
  uae_int_requested, irq, unit_no, singlethread_int_sem,
  native,      \* records in native2amiga_pending
  emu,         \* where the emulator thread is in a reset
  down,        \* per unit, reset_state = FS_GO_DOWN and reset_sync_sem
  restarts

packetVars == <<waiting, result, status>>
amigaVars == <<port, task, extant>>
hostVars == <<unit, unit_pipe, back_pipe, thread, held>>
irqVars == <<amigaUp, uae_int_requested, irq, unit_no, singlethread_int_sem, native>>
resetVars == <<emu, down, restarts>>
vars == <<packetVars, amigaVars, hostVars, irqVars, resetVars>>

Unit == 1..Units

NoUnit == [self |-> "none", sent |-> 0, acked |-> 0, complete |-> 0]
Booting == [pc |-> "boot", pck |-> Null, scan |-> 0, d5 |-> 0, chain |-> <<>>, locks |-> 0]
Idle == [pc |-> "read", pck |-> Null, locks |-> 0, sends |-> 0]

ForAll(v) == [u \in Unit |-> v]

Init ==
  /\ port = ForAll(<<>>) /\ task = ForAll(Booting) /\ unit = ForAll(NoUnit)
  /\ unit_pipe = ForAll(<<>>) /\ back_pipe = ForAll(<<>>) /\ thread = ForAll(Idle)
  /\ held = ForAll(0) /\ extant = ForAll(0)
  /\ waiting = {} /\ result = {} /\ status = [p \in Packet |-> "0"]
  /\ amigaUp = FALSE /\ irq = "off" /\ unit_no = 1 /\ uae_int_requested = 0
  /\ singlethread_int_sem = 0 /\ native = 0
  /\ emu = <<"run", 0>> /\ down = ForAll([go |-> FALSE, sync |-> 0])
  /\ restarts = 0

CpuRuns == emu[1] = "run"
TaskAt(u, pc) == CpuRuns /\ irq = "off" /\ task[u].pc = pc
ThreadAt(u, pc) == thread[u].pc = pc
Count(c) == (c + 1) % CmdWrap

-----------------------------------------------------------------------------
(* DOS clients and the handler process (filesys_mainloop)                    *)
Send(p) ==
  LET u == Volume[p]
  IN  /\ CpuRuns /\ irq = "off" /\ unit[u].self = "live" /\ p \notin waiting
      /\ waiting' = waiting \cup {p} /\ result' = result \ {p}
      /\ port' = [port EXCEPT ![u] = Append(@, p)]
      /\ UNCHANGED <<status, task, extant, hostVars, irqVars, resetVars>>

filesys_diagentry ==
  /\ CpuRuns /\ ~amigaUp
  /\ amigaUp' = TRUE /\ singlethread_int_sem' = 1
  /\ UNCHANGED <<packetVars, amigaVars, hostVars, uae_int_requested, irq, unit_no, native,
                 resetVars>>

(* the startup packet: filesys_mainloop's memory and startup_create_unit     *)
startup_handler(u) ==
  /\ TaskAt(u, "boot") /\ amigaUp
  /\ unit' = [unit EXCEPT ![u] = [NoUnit EXCEPT !.self = "live"]]
  /\ task' = [task EXCEPT ![u].pc = "wait"]
  /\ UNCHANGED <<packetVars, port, extant, unit_pipe, back_pipe, thread, held,
                 irqVars, resetVars>>

GetMsg(u) ==
  /\ TaskAt(u, "wait") /\ port[u] # <<>>
  /\ LET m == Head(port[u])
     IN  task' = [task EXCEPT ![u].pc = IF m = Dummy THEN "release" ELSE "fromDOS",
                              ![u].pck = IF m = Dummy THEN @ ELSE m]
  /\ port' = [port EXCEPT ![u] = Tail(@)]
  /\ UNCHANGED <<packetVars, extant, hostVars, irqVars, resetVars>>

(* exter_int_helper (1): the dummy message is free again ...                 *)
ReleaseDummy(u) ==
  /\ TaskAt(u, "release")
  /\ unit' = [unit EXCEPT ![u].complete = unit[u].acked]
  /\ task' = [task EXCEPT ![u].pc = "collect"]
  /\ UNCHANGED <<packetVars, port, extant, unit_pipe, back_pipe, thread, held,
                 irqVars, resetVars>>

(* ... and the locks the thread gave back are chained in                     *)
CollectLocks(u) ==
  /\ TaskAt(u, "collect") /\ back_pipe[u] # <<>>
  /\ back_pipe' = [back_pipe EXCEPT ![u] = Tail(@)]
  /\ task' = [task EXCEPT ![u].locks = @ + Head(back_pipe[u])]
  /\ UNCHANGED <<packetVars, port, extant, unit, unit_pipe, thread, held, irqVars, resetVars>>

LocksCollected(u) ==
  /\ TaskAt(u, "collect") /\ back_pipe[u] = <<>>
  /\ task' = [task EXCEPT ![u].pc = "scan", ![u].scan = 1]
  /\ UNCHANGED <<packetVars, port, extant, hostVars, irqVars, resetVars>>

(* FSML_check_old: reply the next command of the chain if it is processed    *)
Scan(u) ==
  /\ TaskAt(u, "scan") /\ task[u].scan <= Len(task[u].chain)
  /\ LET p == task[u].chain[task[u].scan]
     IN  IF status[p] = "done"
         THEN /\ waiting' = waiting \ {p}
              /\ task' = [task EXCEPT ![u].chain = RemoveAt(@, task[u].scan),
                                      ![u].d5 = @ - 1]
         ELSE /\ task' = [task EXCEPT ![u].scan = @ + 1]
              /\ UNCHANGED waiting
  /\ UNCHANGED <<result, status, port, extant, hostVars, irqVars, resetVars>>

ScanEnds(u) ==
  /\ TaskAt(u, "scan") /\ task[u].scan > Len(task[u].chain)
  /\ task' = [task EXCEPT ![u].pc = "wait", ![u].scan = 0]
  /\ UNCHANGED <<packetVars, port, extant, hostVars, irqVars, resetVars>>

(* FSML_FromDOS, a packet in hand: too many commands are started,            *)
QueueCommand(u) ==
  /\ task[u].d5 >= MaxStarted
  /\ status' = [status EXCEPT ![task[u].pck] = "1"]
  /\ task' = [task EXCEPT ![u].pc = "wait", ![u].pck = Null,
                          ![u].chain = <<task[u].pck>> \o @]
  /\ UNCHANGED <<waiting, result, port, extant, hostVars, irqVars, resetVars>>

LockCheck_NoTopUp(n) == IF n <= 6 THEN n ELSE 3   \* mutant: locks that are few stay few

(* LockCheck: three to six locks are left alone                              *)
LockCheck(n) == IF n \in 3..6 THEN n ELSE 3

(* or FSML_DoCommand up to filesys_handler's return; it refuses p ...        *)
RejectCommand(u) ==
  /\ task[u].d5 < MaxStarted /\ task[u].pck \in BadPacket
  /\ waiting' = waiting \ {task[u].pck}
  /\ extant' = [extant EXCEPT ![u] = @ + LockCheck(task[u].locks) - task[u].locks]
  /\ task' = [task EXCEPT ![u].pc = "wait", ![u].pck = Null, ![u].locks = LockCheck(@)]
  /\ UNCHANGED <<result, status, port, hostVars, irqVars, resetVars>>

(* ... or hands it to the thread, with two locks                             *)
StartCommand(u) ==
  /\ task[u].d5 < MaxStarted
  /\ extant' = [extant EXCEPT ![u] = @ + LockCheck(task[u].locks) - task[u].locks]
  /\ task' = [task EXCEPT ![u].pc = "enqueue", ![u].locks = LockCheck(@) - 2]
  /\ status' = [status EXCEPT ![task[u].pck] = "0"]
  /\ unit_pipe' = [unit_pipe EXCEPT ![u] = Append(@, task[u].pck)]
  /\ UNCHANGED <<waiting, result, port, unit, back_pipe, thread, held, irqVars, resetVars>>

FSML_FromDOS(u) ==
  TaskAt(u, "fromDOS") /\ (QueueCommand(u) \/ RejectCommand(u) \/ StartCommand(u))

Enqueue(u) ==
  /\ TaskAt(u, "enqueue")
  /\ task' = [task EXCEPT ![u].pc = "wait", ![u].pck = Null, ![u].d5 = @ + 1,
                          ![u].chain = <<task[u].pck>> \o @]
  /\ UNCHANGED <<packetVars, port, extant, hostVars, irqVars, resetVars>>

-----------------------------------------------------------------------------
(* The host thread of a unit (filesys_thread)                                *)
ThreadReads(u) ==
  /\ ThreadAt(u, "read") /\ unit_pipe[u] # <<>> /\ ~down[u].go
  /\ \E n \in 0..NotifyMax :
       thread' = [thread EXCEPT ![u].pc = "handle", ![u].pck = Head(unit_pipe[u]),
                                ![u].locks = @ + 2, ![u].sends = n]
  /\ unit_pipe' = [unit_pipe EXCEPT ![u] = Tail(@)]
  /\ UNCHANGED <<packetVars, amigaVars, unit, back_pipe, held, irqVars, resetVars>>

(* going down, packets are thrown away until the death message               *)
ThreadDiscards(u) ==
  /\ ThreadAt(u, "read") /\ unit_pipe[u] # <<>> /\ down[u].go
  /\ Head(unit_pipe[u]) # Null
  /\ unit_pipe' = [unit_pipe EXCEPT ![u] = Tail(@)]
  /\ UNCHANGED <<packetVars, amigaVars, unit, back_pipe, thread, held, irqVars, resetVars>>

ThreadDies(u) ==
  /\ ThreadAt(u, "read") /\ unit_pipe[u] # <<>> /\ down[u].go
  /\ Head(unit_pipe[u]) = Null
  /\ unit_pipe' = [unit_pipe EXCEPT ![u] = Tail(@)]
  /\ thread' = [thread EXCEPT ![u].pc = "dead"]
  /\ down' = [down EXCEPT ![u].sync = @ + 1]
  /\ UNCHANGED <<packetVars, amigaVars, unit, back_pipe, held, irqVars, emu, restarts>>

ThreadNotifies_Only(u) ==   \* mutant: a packet that notified is taken for handled
  /\ ThreadAt(u, "handle") /\ thread[u].sends > 0 /\ native < NativeRecords
  /\ native' = native + 1 /\ uae_int_requested' = 1
  /\ thread' = [thread EXCEPT ![u].sends = 0, ![u].pc = "mark"]
  /\ UNCHANGED <<amigaUp, packetVars, amigaVars, unit, unit_pipe, back_pipe, held, irq, unit_no,
                 singlethread_int_sem, resetVars>>

(* notify_send: a record of three words to native2amiga_pending              *)
ThreadNotifies(u) ==
  /\ ThreadAt(u, "handle") /\ thread[u].sends > 0 /\ native < NativeRecords
  /\ native' = native + 1 /\ uae_int_requested' = 1
  /\ thread' = [thread EXCEPT ![u].sends = @ - 1]
  /\ UNCHANGED <<amigaUp, packetVars, amigaVars, unit, unit_pipe, back_pipe, held, irq, unit_no,
                 singlethread_int_sem, resetVars>>

(* handle_packet, its notifications sent, makes up to two locks, frees one,  *)
(* or does neither                                                           *)
ThreadHandles(u) ==
  /\ ThreadAt(u, "handle") /\ thread[u].sends = 0
  /\ \E made \in 0..2, freed \in 0..1 :
       /\ freed = 1 => made = 0 /\ held[u] > 0
       /\ held[u] + made <= MaxHeld
       /\ held' = [held EXCEPT ![u] = @ + made - freed]
       /\ thread' = [thread EXCEPT ![u].pc = "mark", ![u].locks = @ + freed - made]
  /\ result' = result \cup {thread[u].pck}
  /\ UNCHANGED <<waiting, status, amigaVars, unit, unit_pipe, back_pipe, irqVars, resetVars>>

ThreadMarks(u) ==
  /\ ThreadAt(u, "mark")
  /\ status' = [status EXCEPT ![thread[u].pck] = "done"]
  /\ thread' = [thread EXCEPT ![u].pc = "count", ![u].pck = Null]
  /\ UNCHANGED <<waiting, result, amigaVars, unit, unit_pipe, back_pipe, held, irqVars,
                 resetVars>>

ThreadCounts(u) ==
  /\ ThreadAt(u, "count")
  /\ unit' = [unit EXCEPT ![u].sent = Count(@)]
  /\ thread' = [thread EXCEPT ![u].pc = "request"]
  /\ UNCHANGED <<packetVars, amigaVars, unit_pipe, back_pipe, held, irqVars, resetVars>>

ThreadRequests(u) ==
  /\ ThreadAt(u, "request")
  /\ uae_int_requested' = 1
  /\ thread' = [thread EXCEPT ![u].pc = "giveBack"]
  /\ UNCHANGED <<amigaUp, packetVars, amigaVars, unit, unit_pipe, back_pipe, held, irq, unit_no,
                 singlethread_int_sem, native, resetVars>>

ThreadGivesBack(u) ==
  /\ ThreadAt(u, "giveBack")
  /\ back_pipe' = [back_pipe EXCEPT ![u] =
                     IF thread[u].locks = 0 THEN @ ELSE Append(@, thread[u].locks)]
  /\ thread' = [thread EXCEPT ![u].pc = "clear"]
  /\ UNCHANGED <<packetVars, amigaVars, unit, unit_pipe, held, irqVars, resetVars>>

ThreadClears_Kept(u) ==   \* mutant: locklist is not cleared
  /\ ThreadAt(u, "clear")
  /\ thread' = [thread EXCEPT ![u].pc = "read"]
  /\ UNCHANGED <<packetVars, amigaVars, unit, unit_pipe, back_pipe, held, irqVars, resetVars>>

ThreadClears(u) ==
  /\ ThreadAt(u, "clear")
  /\ thread' = [thread EXCEPT ![u].pc = "read", ![u].locks = 0]
  /\ UNCHANGED <<packetVars, amigaVars, unit, unit_pipe, back_pipe, held, irqVars, resetVars>>

-----------------------------------------------------------------------------
(* The PORTS interrupt: hsync raises it for uae_int_requested, exter_server  *)
(* asks exter_int_helper whether it is ours (0), for work (2), and ends (4). *)
InterruptBegins ==
  /\ CpuRuns /\ amigaUp /\ irq = "off" /\ uae_int_requested = 1 /\ singlethread_int_sem = 1
  /\ singlethread_int_sem' = 0 /\ uae_int_requested' = 0
  /\ unit_no' = 1 /\ irq' = "work"
  /\ UNCHANGED <<amigaUp, packetVars, amigaVars, hostVars, native, resetVars>>

InterruptDrains ==
  /\ CpuRuns /\ irq = "work" /\ native > 0
  /\ native' = native - 1
  /\ UNCHANGED <<amigaUp, packetVars, amigaVars, hostVars, uae_int_requested, irq, unit_no,
                 singlethread_int_sem, resetVars>>

NeedsMessage_NotAcked(u) ==   \* mutant: the dummy message may be out already
  unit[u].self # "none" /\ unit[u].acked # unit[u].sent

NeedsMessage(u) ==
  /\ unit[u].self # "none"
  /\ unit[u].acked = unit[u].complete /\ unit[u].acked # unit[u].sent

InterruptSkips ==
  /\ CpuRuns /\ irq = "work" /\ native = 0 /\ unit_no \in Unit /\ ~NeedsMessage(unit_no)
  /\ unit_no' = unit_no + 1
  /\ UNCHANGED <<amigaUp, packetVars, amigaVars, hostVars, uae_int_requested, irq,
                 singlethread_int_sem, native, resetVars>>

InterruptPuts ==
  /\ CpuRuns /\ irq = "work" /\ native = 0 /\ unit_no \in Unit /\ NeedsMessage(unit_no)
  /\ unit' = [unit EXCEPT ![unit_no].acked = unit[unit_no].sent]
  /\ port' = [port EXCEPT ![unit_no] = Append(@, Dummy)]
  /\ unit_no' = unit_no + 1
  /\ UNCHANGED <<amigaUp, packetVars, task, extant, unit_pipe, back_pipe, thread, held,
                 uae_int_requested, irq, singlethread_int_sem, native, resetVars>>

InterruptEnds ==
  /\ CpuRuns /\ irq = "work" /\ native = 0 /\ unit_no \notin Unit
  /\ irq' = "off" /\ singlethread_int_sem' = singlethread_int_sem + 1
  /\ UNCHANGED <<amigaUp, packetVars, amigaVars, hostVars, uae_int_requested, unit_no, native,
                 resetVars>>

-----------------------------------------------------------------------------
(* filesys_prepare_reset, unit by unit, then reset_all_systems               *)
ResetBegins ==
  /\ CpuRuns /\ "reset" \in Restarts /\ restarts < MaxRestarts
  /\ emu' = <<"flag", 1>> /\ restarts' = restarts + 1
  /\ UNCHANGED <<packetVars, amigaVars, hostVars, irqVars, down>>

ResetFlags ==
  /\ emu[1] = "flag"
  /\ down' = [down EXCEPT ![emu[2]] = [go |-> TRUE, sync |-> 0]]
  /\ emu' = <<"death", emu[2]>>
  /\ UNCHANGED <<packetVars, amigaVars, hostVars, irqVars, restarts>>

ResetSendsDeath ==
  /\ emu[1] = "death"
  /\ \E w \in IF WordIsPointer THEN {Null} ELSE {Null, Garbage} :
       unit_pipe' = [unit_pipe EXCEPT ![emu[2]] = Append(@, w)]
  /\ emu' = <<"sync", emu[2]>>
  /\ UNCHANGED <<packetVars, amigaVars, unit, back_pipe, thread, held, irqVars, down,
                 restarts>>

ResetNextUnit ==
  /\ emu[1] = "sync" /\ emu[2] < Units /\ down[emu[2]].sync > 0
  /\ down' = [down EXCEPT ![emu[2]].sync = @ - 1]
  /\ emu' = <<"flag", emu[2] + 1>>
  /\ UNCHANGED <<packetVars, amigaVars, hostVars, irqVars, restarts>>

AmigaRestarts ==          \* what was in Amiga memory is gone
  /\ port' = ForAll(<<>>) /\ task' = ForAll(Booting) /\ held' = ForAll(0)
  /\ extant' = ForAll(0) /\ waiting' = {} /\ result' = {} /\ status' = [p \in Packet |-> "0"]
  /\ amigaUp' = FALSE /\ irq' = "off"
  /\ UNCHANGED <<uae_int_requested, unit_no, singlethread_int_sem, native>>

ResetEnds_NoWait ==   \* mutant: reset_sync_sem is not waited for
  /\ emu = <<"sync", Units>>
  /\ AmigaRestarts
  /\ unit' = ForAll(NoUnit) /\ thread' = ForAll(Idle)
  /\ unit_pipe' = ForAll(<<>>) /\ back_pipe' = ForAll(<<>>)
  /\ down' = ForAll([go |-> FALSE, sync |-> 0]) /\ emu' = <<"run", 0>>
  /\ UNCHANGED <<restarts>>

(* filesys_reset, filesys_start_threads                                      *)
ResetEnds ==
  /\ emu = <<"sync", Units>> /\ down[Units].sync > 0
  /\ AmigaRestarts
  /\ unit' = ForAll(NoUnit) /\ thread' = ForAll(Idle)
  /\ unit_pipe' = ForAll(<<>>) /\ back_pipe' = ForAll(<<>>)
  /\ down' = ForAll([go |-> FALSE, sync |-> 0]) /\ emu' = <<"run", 0>>
  /\ UNCHANGED <<restarts>>

(* The 68k executes RESET and boots again (cpureset is customreset alone):   *)
(* tasks and messages are gone, filesys.c is not told.                       *)
Reboot ==
  /\ CpuRuns /\ "reboot" \in Restarts /\ restarts < MaxRestarts
  /\ AmigaRestarts
  /\ unit' = [u \in Unit |-> IF unit[u].self = "live"
                             THEN [unit[u] EXCEPT !.self = "stale"] ELSE unit[u]]
  /\ restarts' = restarts + 1
  /\ UNCHANGED <<unit_pipe, back_pipe, thread, emu, down>>

-----------------------------------------------------------------------------
Task(u) ==
  \/ startup_handler(u) \/ GetMsg(u) \/ ReleaseDummy(u) \/ CollectLocks(u)
  \/ LocksCollected(u) \/ Scan(u) \/ ScanEnds(u) \/ FSML_FromDOS(u)
  \/ Enqueue(u)
Thread(u) ==
  \/ ThreadReads(u) \/ ThreadDiscards(u) \/ ThreadDies(u) \/ ThreadNotifies(u)
  \/ ThreadHandles(u) \/ ThreadMarks(u) \/ ThreadCounts(u) \/ ThreadRequests(u)
  \/ ThreadGivesBack(u) \/ ThreadClears(u)
Interrupt ==
  InterruptBegins \/ InterruptDrains \/ InterruptSkips \/ InterruptPuts \/ InterruptEnds
ResetStep == ResetFlags \/ ResetSendsDeath \/ ResetNextUnit \/ ResetEnds

Next ==
  \/ filesys_diagentry
  \/ \E p \in Packet : Send(p)
  \/ \E u \in Unit : Task(u) \/ Thread(u)
  \/ Interrupt \/ ResetBegins \/ ResetStep \/ Reboot

Spec == Init /\ [][Next]_vars

(* The 68k runs its ready tasks and takes its interrupts, the host runs the  *)
(* threads and the emulator. Clients and resets owe nothing.                 *)
FairSpec ==
  /\ Spec /\ WF_vars(filesys_diagentry) /\ WF_vars(Interrupt) /\ WF_vars(ResetStep)
  /\ \A u \in Unit : WF_vars(Task(u)) /\ WF_vars(Thread(u))
-----------------------------------------------------------------------------
TypeOK ==
  /\ waiting \subseteq Packet /\ result \subseteq Packet
  /\ status \in [Packet -> {"0", "1", "done"}]
  /\ port \in [Unit -> Seq(Packet \cup {Dummy})]
  /\ task \in [Unit ->
       [pc : {"boot", "wait", "release", "collect", "scan", "fromDOS", "enqueue"},
        pck : Packet \cup {Null}, scan : Nat, d5 : 0..MaxStarted,
        chain : Seq(Packet), locks : Nat]]
  /\ unit \in [Unit -> [self : {"none", "live", "stale"}, sent : 0..CmdWrap - 1,
                        acked : 0..CmdWrap - 1, complete : 0..CmdWrap - 1]]
  /\ unit_pipe \in [Unit -> Seq(Packet \cup {Null, Garbage})]
  /\ back_pipe \in [Unit -> Seq(1..3)]
  /\ thread \in [Unit ->
       [pc : {"read", "handle", "mark", "count", "request", "giveBack", "clear", "dead"},
        pck : Packet \cup {Null}, locks : 0..3, sends : 0..NotifyMax]]
  /\ held \in [Unit -> 0..MaxHeld] /\ extant \in [Unit -> Int]
  /\ amigaUp \in BOOLEAN /\ uae_int_requested \in 0..1 /\ irq \in {"off", "work"}
  /\ unit_no \in 1..Units + 1 /\ singlethread_int_sem \in 0..1
  /\ native \in 0..NativeRecords
  /\ emu \in {"run", "flag", "death", "sync"} \X (0..Units)
  /\ down \in [Unit -> [go : BOOLEAN, sync : 0..1]]
  /\ restarts \in 0..MaxRestarts

Occurrences(m, seq) == Cardinality({i \in DOMAIN seq : seq[i] = m})

(* The one dummy message of a unit is on its port, or in its handler's hands,*)
(* exactly while cmds_acked and cmds_complete differ: never put twice on a   *)
(* list, never lost.                                                         *)
DummyQueuedOnce ==
  \A u \in Unit :
    Occurrences(Dummy, port[u]) + (IF task[u].pc = "release" THEN 1 ELSE 0)
      = IF unit[u].acked = unit[u].complete THEN 0 ELSE 1

(* A packet sent and not replied is in exactly one place of the Amiga side:  *)
(* on its unit's port, in the handler's hands or on its chain; any other is  *)
(* in none.                                                                  *)
PacketInOnePlace ==
  \A p \in Packet, u \in Unit :
    Occurrences(p, port[u]) + Occurrences(p, task[u].chain) + (IF task[u].pck = p THEN 1 ELSE 0)
      = IF p \in waiting /\ u = Volume[p] THEN 1 ELSE 0

(* A client gets its packet back with the results filled in. (After a reboot *)
(* a thread of the old machine may still mark a packet that the new one has  *)
(* put at the same address.)                                                 *)
RepliesAreAnswers ==
  [][\A p \in Packet : (restarts' = 0 /\ p \in waiting /\ p \notin waiting') =>
       p \in result \/ p \in BadPacket]_vars

(* The thread only works for a client that still waits for that packet, and  *)
(* never takes the death message for a packet.                               *)
ThreadWorksForClient ==
  \A u \in Unit : thread[u].pc \in {"handle", "mark"} => thread[u].pck \in waiting

(* No lock is lost or used twice on its way between handler and thread:      *)
(* all that LockCheck allocated are somewhere, while the machine runs.       *)
LocksConserved ==
  \A u \in Unit : ~down[u].go =>
    extant[u] = task[u].locks + held[u] + 2 * Len(unit_pipe[u])
                + (IF thread[u].pc = "clear" THEN 0 ELSE thread[u].locks)
                + FoldSeq(LAMBDA x, y : x + y, 0, back_pipe[u])

(* The pipes never fill up (unit_pipe holds 33 records, back_pipe 99 words,  *)
(* for 20 started commands): the emulator thread cannot block on unit_pipe.  *)
PipesNeverFill ==
  \A u \in Unit : /\ Len(unit_pipe[u]) <= MaxStarted + 1
                  /\ Len(back_pipe[u]) <= 2 * MaxStarted + 1

(* A reset goes on only when every thread of the old machine is gone.        *)
OldThreadsAreDead ==
  [][(~CpuRuns /\ CpuRuns') => \A u \in Unit : thread[u].pc = "dead"]_vars

(* "Take care not to dereference self for units that didn't have their       *)
(* startup packet sent" (filesys.c:3494): a message is put on a unit's port  *)
(* only if its handler process sent its startup packet.                      *)
NoMessageBeforeStartup ==
  [][\A u \in Unit : Occurrences(Dummy, port'[u]) > Occurrences(Dummy, port[u])
       => task[u].pc # "boot"]_vars

(* Every packet is replied in the end (or the machine reset).                *)
PacketsReplied == \A p \in Packet : p \in waiting ~> p \notin waiting

(* A reset gets to its end.                                                  *)
ResetCompletes == ~CpuRuns ~> CpuRuns

(* A packet is in one place, and with the thread only while it is waited for;*)
(* what is in the pipes about packets and locks has room there; the dummy    *)
(* message is queued at most once.                                           *)
PacketsInPlace == PacketInOnePlace /\ ThreadWorksForClient /\ PipesNeverFill /\ DummyQueuedOnce

(* Clients get their packets back, with answers.                             *)
PacketsAnswered == RepliesAreAnswers /\ PacketsReplied

(* A reset comes to its end, and not before the old threads came to theirs.  *)
ResetsComplete == OldThreadsAreDead /\ ResetCompletes
=============================================================================

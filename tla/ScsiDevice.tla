----------------------------- MODULE ScsiDevice -----------------------------
(* uaescsi.device (scsiemul.c): what programs open (devst, one per unit, and *)
(* pdevst, one per unit while it is open), the thread of a unit and its end, *)
(* and the reset. A request's place in the table of requests in progress is  *)
(* taken and given back in one step here; the store by store races of that   *)
(* table are those of Hardfile, whose code it is. Commands done with IO_QUICK*)
(* end inside BeginIO and touch none of this.                                *)
EXTENDS Naturals, Sequences, FiniteSets

CONSTANTS ScsiUnits,     \* units, numbered from 0
          Ioreq,         \* IORequests of the Amiga's programs
          NoReq,         \* an empty slot, the zero request
          Handles,       \* MAX_OPEN_DEVICES (20)
          AsyncRequests, \* MAX_ASYNC_REQUESTS (20)
          MaxScsiResets, \* bound on machine resets
          MaxCommands,   \* bound on BeginIO
          Beyond         \* circumstances the code is not up to

ASSUME ScsiAssumption ==
  /\ ScsiUnits \in Nat \ {0} /\ Handles \in Nat /\ ScsiUnits <= Handles
  /\ IsFiniteSet(Ioreq) /\ NoReq \notin Ioreq /\ {AsyncRequests, MaxScsiResets, MaxCommands} \subseteq Nat
  /\ Beyond \subseteq {"reopensAtOnce", "resetsAtOnce", "hostRefuses"}

VARIABLES
  ioreq,       \* per request: "closed", "open", "sent" or "held", its unit, io_Unit, command
  devst,       \* per unit: opencnt, the table, requests, thread_running, sync_sem
  unitnum,     \* the units whose dev->unitnum is their number; that of the others is -1
  pdevst,      \* per handle: inuse, unit, scsi
  hostOpen,    \* the units the host has open (sys_command_open)
  hostThread,  \* the units for which the host has a context of a thread
               \* (sys_command_open_thread, of which only AmigaOS's host makes use)
  devThread,   \* per unit, dev_thread
  changeSem,   \* the thread that has change_sem, or None
  replies,     \* ReplyMsg records in native2amiga_pending; there is room for all
  machine,     \* where the emulator thread is
  scsiResets, commands

unitVars == <<unitnum, hostThread>>
scVars == <<ioreq, devst, unitVars, pdevst, hostOpen, devThread, changeSem, replies, machine,
            scsiResets, commands>>

ScsiUnit == 0 .. ScsiUnits - 1
Handle == 0 .. Handles - 1
Place == 1..AsyncRequests
Nobody == ScsiUnits
Empty == [req |-> NoReq, type |-> "none"]
Zeroed == [opencnt |-> 0, table |-> [i \in Place |-> Empty], requests |-> <<>>, running |-> FALSE, sync |-> 0]
Closed == [state |-> "closed", unit |-> 0, handle |-> 0, command |-> "io"]
Running == [pc |-> "run", unit |-> 0, req |-> NoReq]
NoThread == [pc |-> "off", req |-> NoReq]

ScInit ==
  /\ ioreq = [r \in Ioreq |-> Closed] /\ devst = [u \in ScsiUnit |-> Zeroed]
  /\ pdevst = [p \in Handle |-> [inuse |-> FALSE, unit |-> 0, scsi |-> FALSE]] /\ hostOpen = {}
  /\ devThread = [u \in ScsiUnit |-> NoThread] /\ changeSem = Nobody /\ replies = <<>>
  /\ machine = Running /\ scsiResets = 0 /\ commands = 0
  /\ unitnum = ScsiUnit /\ hostThread = {}

-----------------------------------------------------------------------------
(* The table of requests in progress                                         *)
PlacesOf(u, r) == {i \in Place : devst[u].table[i].req = r}
FirstOf(S) == CHOOSE i \in S : \A j \in S : i <= j

Added(u, r, type) ==   \* add_async_request; full, it leaves the table as it is
  LET S == IF PlacesOf(u, r) # {} THEN PlacesOf(u, r) ELSE PlacesOf(u, NoReq)
  IN IF S = {} THEN devst[u].table
     ELSE [devst[u].table EXCEPT ![FirstOf(S)] = [req |-> r, type |-> type]]
CanAdd(u, r) == PlacesOf(u, r) \cup PlacesOf(u, NoReq) # {}

Released(u, r) ==   \* release_async_request
  IF PlacesOf(u, r) = {} THEN devst[u].table
  ELSE [devst[u].table EXCEPT ![FirstOf(PlacesOf(u, r))] = Empty]
-----------------------------------------------------------------------------
(* dev_open_2                                                                *)
FreeHandle ==   \* the first not in use, or the last
  CHOOSE p \in Handle : /\ pdevst[p].inuse => p = Handles - 1
                        /\ \A q \in 0 .. p - 1 : pdevst[q].inuse

(* start_thread: a unit whose thread still runs does not get a new one       *)
StartsThread(u) ==
  IF devst[u].running THEN UNCHANGED <<devThread,
                                       machine>> /\ devst' = [devst EXCEPT ![u].opencnt = 1]
  ELSE /\ devst' = [devst EXCEPT ![u].opencnt = 1, ![u].requests = <<>>, ![u].sync = 0]
       /\ devThread' = [devThread EXCEPT ![u] = [NoThread EXCEPT !.pc = "start"]]
       /\ machine' = [Running EXCEPT !.pc = "open", !.unit = u]

OpensFirst(r, u) ==
  LET p == FreeHandle
  IN /\ machine.pc = "run" /\ ioreq[r].state = "closed" /\ devst[u].opencnt = 0
     /\ "reopensAtOnce" \in Beyond \/ devThread[u].pc = "off"
     /\ \E ok \in {TRUE} \cup (IF "hostRefuses" \in Beyond THEN {FALSE} ELSE {}) :
          /\ ok \/ pdevst[p].scsi
          /\ pdevst' = [pdevst EXCEPT ![p] = [inuse |-> TRUE, unit |-> u, scsi |-> TRUE]]
          /\ hostOpen' = IF ok THEN hostOpen \cup {u} ELSE hostOpen
     /\ ioreq' = [ioreq EXCEPT ![r] = [Closed EXCEPT !.state = "open", !.unit = u, !.handle = p]]
     /\ StartsThread(u)
     /\ UNCHANGED <<unitVars, changeSem, replies, scsiResets, commands>>

ThreadStarted ==
  LET u == machine.unit
  IN /\ machine.pc = "open" /\ devst[u].sync > 0
     /\ devst' = [devst EXCEPT ![u].sync = @ - 1] /\ machine' = Running
     /\ UNCHANGED <<unitVars, ioreq, pdevst, hostOpen, devThread, changeSem, replies, scsiResets,
                    commands>>

OpensAgain(r, u) ==   \* the unit's pdevst is shared
  /\ machine.pc = "run" /\ ioreq[r].state = "closed" /\ devst[u].opencnt > 0
  /\ LET S == {p \in Handle : pdevst[p].inuse /\ pdevst[p].unit = u}
     IN S # {} /\ ioreq' = [ioreq EXCEPT ![r] = [Closed EXCEPT !.state = "open", !.unit = u, !.handle = FirstOf(S)]]
  /\ devst' = [devst EXCEPT ![u].opencnt = @ + 1]
  /\ UNCHANGED <<unitVars, pdevst, hostOpen, devThread, changeSem, replies, machine, scsiResets,
                 commands>>

Closes_FreesHandle(r) ==   \* mutant: every close frees the pdevst
  LET p == ioreq[r].handle
      u == pdevst[p].unit
      last == devst[u].opencnt = 1
  IN /\ machine.pc = "run" /\ ioreq[r].state = "open"
     /\ devst' = [devst EXCEPT ![u].opencnt = @ - 1, ![u].requests = IF last THEN Append(@, NoReq) ELSE @]
     /\ hostOpen' = (IF last THEN hostOpen \ {u} ELSE hostOpen)
     /\ pdevst' = [pdevst EXCEPT ![p].inuse = FALSE] /\ ioreq' = [ioreq EXCEPT ![r] = Closed]
     /\ UNCHANGED <<unitVars, devThread, changeSem, replies, machine, scsiResets, commands>>

(* dev_close_3: the last one does not wait for the thread's end, and leaves  *)
(* pdev->scsi as it is                                                       *)
Closes(r) ==
  LET p == ioreq[r].handle
      u == pdevst[p].unit
      last == devst[u].opencnt = 1
  IN /\ machine.pc = "run" /\ ioreq[r].state = "open"
     /\ devst' = [devst EXCEPT ![u].opencnt = @ - 1,
                               ![u].requests = IF last THEN Append(@, NoReq) ELSE @]
     /\ hostOpen' = (IF last THEN hostOpen \ {u} ELSE hostOpen)
     /\ pdevst' = [pdevst EXCEPT ![p].inuse = ~last]
     /\ ioreq' = [ioreq EXCEPT ![r] = Closed]
     /\ UNCHANGED <<unitVars, devThread, changeSem, replies, machine, scsiResets, commands>>

(* dev_beginio: into the table as TEMP, then to the thread. A program sends  *)
(* REMCHANGEINT with the request of the ADDCHANGEINT that is held.           *)
BeginsIO(r, c) ==
  LET u == ioreq[r].unit
  IN /\ machine.pc = "run" /\ commands < MaxCommands
     /\ ioreq[r].state = (IF c = "rem" THEN "held" ELSE "open")
     /\ devst' = [devst EXCEPT ![u].table = Added(u, r, "temp"), ![u].requests = Append(@, r)]
     /\ ioreq' = [ioreq EXCEPT ![r].state = "sent", ![r].command = c]
     /\ commands' = commands + 1
     /\ UNCHANGED <<unitVars, pdevst, hostOpen, devThread, changeSem, replies, machine, scsiResets>>

AbortsIO(r) ==   \* dev_abortio
  /\ machine.pc = "run" /\ ioreq[r].state \in {"sent", "held"}
  /\ machine' = [pc |-> "abort", unit |-> ioreq[r].unit, req |-> r]
  /\ UNCHANGED <<unitVars, ioreq, devst, pdevst, hostOpen, devThread, changeSem, replies,
                 scsiResets, commands>>

IsTemp(u, r) == \E i \in Place : devst[u].table[i] = [req |-> r, type |-> "temp"]

(* abort_async: wait while it is TEMP, then take it out; what was held is    *)
(* its program's again, without a reply                                      *)
AbortEnds ==
  LET u == machine.unit
      r == machine.req
  IN /\ machine.pc = "abort" /\ ~IsTemp(u, r)
     /\ devst' = [devst EXCEPT ![u].table = Released(u, r)]
     /\ ioreq' = [ioreq EXCEPT ![r].state = IF PlacesOf(u, r) # {} THEN "open" ELSE @]
     /\ machine' = Running
     /\ UNCHANGED <<unitVars, pdevst, hostOpen, devThread, changeSem, replies, scsiResets,
                    commands>>

IntReplies ==   \* the interrupt on the emulator thread; 0 is a reply of before a reset
  /\ machine.pc = "run" /\ replies # <<>>
  /\ replies' = Tail(replies)
  /\ ioreq' = [r \in Ioreq |-> IF r = Head(replies) THEN [ioreq[r] EXCEPT !.state = "open"] ELSE ioreq[r]]
  /\ UNCHANGED <<unitVars, devst, pdevst, hostOpen, devThread, changeSem, machine, scsiResets,
                 commands>>

-----------------------------------------------------------------------------
(* dev_thread                                                                *)
ThreadAt(u, pc) == devThread[u].pc = pc
GoesTo(u, pc) == devThread' = [devThread EXCEPT ![u].pc = pc]

DevThreadStarts(u) ==
  /\ ThreadAt(u, "start") /\ GoesTo(u, "read")
  /\ devst' = [devst EXCEPT ![u].running = TRUE, ![u].sync = @ + 1]
  /\ hostThread' = hostThread \cup ({u} \cap unitnum)
  /\ UNCHANGED <<unitnum, ioreq, pdevst, hostOpen, changeSem, replies, machine, scsiResets,
                 commands>>

Reads(u) ==
  /\ ThreadAt(u, "read") /\ devst[u].requests # <<>>
  /\ devThread' = [devThread EXCEPT ![u] = [pc |-> "lock", req |-> Head(devst[u].requests)]]
  /\ devst' = [devst EXCEPT ![u].requests = Tail(@)]
  /\ UNCHANGED <<unitVars, ioreq, pdevst, hostOpen, changeSem, replies, machine, scsiResets,
                 commands>>

Locks(u) ==
  /\ ThreadAt(u, "lock") /\ changeSem = Nobody /\ changeSem' = u
  /\ GoesTo(u, IF devThread[u].req = NoReq THEN "stop" ELSE "io")
  /\ UNCHANGED <<unitVars, ioreq, devst, pdevst, hostOpen, replies, machine, scsiResets, commands>>

(* dev_do_io: ADDCHANGEINT is kept if there is room for it, REMCHANGEINT and *)
(* all else is done and to be replied                                        *)
Does_FullDropped(u) ==   \* mutant: what finds no room is not replied
  LET r == devThread[u].req
      add == ioreq[r].command = "add"
  IN /\ ThreadAt(u, "io")
     /\ devst' = [devst EXCEPT ![u].table = IF add THEN Added(u, r, "changeint") ELSE @]
     /\ ioreq' = [ioreq EXCEPT ![r].state = IF add /\ CanAdd(u, r) THEN "held" ELSE @]
     /\ GoesTo(u, IF add THEN "unlock" ELSE "release")
     /\ UNCHANGED <<unitVars, pdevst, hostOpen, changeSem, replies, machine, scsiResets, commands>>

Does(u) ==
  LET r == devThread[u].req
      add == ioreq[r].command = "add"
      kept == add /\ CanAdd(u, r)
  IN /\ ThreadAt(u, "io")
     /\ devst' = [devst EXCEPT ![u].table = IF add THEN Added(u, r, "changeint") ELSE @]
     /\ ioreq' = [ioreq EXCEPT ![r].state = IF kept THEN "held" ELSE @]
     /\ GoesTo(u, IF kept THEN "unlock" ELSE "release")
     /\ UNCHANGED <<unitVars, pdevst, hostOpen, changeSem, replies, machine, scsiResets, commands>>

ReleasesDone(u) ==
  /\ ThreadAt(u, "release") /\ GoesTo(u, "reply")
  /\ devst' = [devst EXCEPT ![u].table = Released(u, devThread[u].req)]
  /\ UNCHANGED <<unitVars, ioreq, pdevst, hostOpen, changeSem, replies, machine, scsiResets,
                 commands>>

RepliesMsg(u) ==   \* uae_ReplyMsg
  /\ ThreadAt(u, "reply") /\ GoesTo(u, "unlock")
  /\ replies' = Append(replies, devThread[u].req)
  /\ UNCHANGED <<unitVars, ioreq, devst, pdevst, hostOpen, changeSem, machine, scsiResets,
                 commands>>

Unlocks(u) ==
  /\ ThreadAt(u, "unlock") /\ changeSem' = Nobody
  /\ devThread' = [devThread EXCEPT ![u] = [NoThread EXCEPT !.pc = "read"]]
  /\ UNCHANGED <<unitVars, ioreq, devst, pdevst, hostOpen, replies, machine, scsiResets, commands>>

Stops(u) ==   \* thread_running = 0
  /\ ThreadAt(u, "stop") /\ GoesTo(u, "stopped")
  /\ devst' = [devst EXCEPT ![u].running = FALSE]
  /\ UNCHANGED <<unitVars, ioreq, pdevst, hostOpen, changeSem, replies, machine, scsiResets,
                 commands>>

PostsEnd(u) ==   \* sync_sem: dev_exit may go on, and clear what dev points to
  /\ ThreadAt(u, "stopped") /\ GoesTo(u, "posted")
  /\ devst' = [devst EXCEPT ![u].sync = @ + 1]
  /\ UNCHANGED <<unitVars, ioreq, pdevst, hostOpen, changeSem, replies, machine, scsiResets,
                 commands>>

LetsGo(u) ==     \* change_sem
  /\ ThreadAt(u, "posted") /\ GoesTo(u, "closing") /\ changeSem' = Nobody
  /\ UNCHANGED <<unitVars, ioreq, devst, pdevst, hostOpen, replies, machine, scsiResets, commands>>

(* sys_command_close_thread with dev->unitnum: the context of its own task.  *)
(* For -1 AmigaOS's host looks before the first of its drives; that is taken *)
(* for no task's context.                                                    *)
Ends(u) ==
  /\ ThreadAt(u, "closing") /\ devThread' = [devThread EXCEPT ![u] = NoThread]
  /\ hostThread' = hostThread \ ({u} \cap unitnum)
  /\ UNCHANGED <<unitnum, ioreq, devst, pdevst, hostOpen, changeSem, replies, machine, scsiResets,
                 commands>>

DevThread(u) ==
  \/ DevThreadStarts(u) \/ Reads(u) \/ Locks(u) \/ Does(u) \/ ReleasesDone(u) \/ RepliesMsg(u)
  \/ Unlocks(u) \/ Stops(u) \/ PostsEnd(u) \/ LetsGo(u) \/ Ends(u)
-----------------------------------------------------------------------------
(* dev_reset on the emulator thread: dev_exit, then the devices anew         *)
ScsiReset ==
  /\ machine.pc = "run" /\ scsiResets < MaxScsiResets
  /\ "resetsAtOnce" \in Beyond \/ \A u \in ScsiUnit : devst[u].opencnt = 0 => ThreadAt(u, "off")
  /\ machine' = [Running EXCEPT !.pc = "exit"] /\ scsiResets' = scsiResets + 1
  /\ UNCHANGED <<unitVars, ioreq, devst, pdevst, hostOpen, devThread, changeSem, replies, commands>>

(* "Kill dev thread and wait for it to die"; before that, the request at the *)
(* place numbered as the unit is aborted (each, was meant)                   *)
ExitAborts ==
  LET u == machine.unit
      r == devst[u].table[u + 1].req
  IN /\ machine.pc = "exit" /\ devst[u].opencnt > 0 /\ u + 1 \in Place
     /\ r # NoReq /\ ~IsTemp(u, r)
     /\ devst' = [devst EXCEPT ![u].table = Released(u, r)]
     /\ UNCHANGED <<unitVars, ioreq, pdevst, hostOpen, devThread, changeSem, replies, machine,
                    scsiResets, commands>>

ExitStops ==
  LET u == machine.unit
  IN /\ machine.pc = "exit" /\ devst[u].opencnt > 0
     /\ u + 1 \in Place => devst[u].table[u + 1] = Empty
     /\ devst' = [devst EXCEPT ![u].requests = Append(@, NoReq)]
     /\ machine' = [machine EXCEPT !.pc = "exitWait"]
     /\ UNCHANGED <<unitVars, ioreq, pdevst, hostOpen, devThread, changeSem, replies, scsiResets,
                    commands>>

(* sys_command_close, memset and unitnum -1, also of a unit nobody has open  *)
ExitClears ==
  LET u == machine.unit
      last == u = ScsiUnits - 1
  IN /\ \/ machine.pc = "exit" /\ devst[u].opencnt = 0
        \/ machine.pc = "exitWait" /\ devst[u].sync > 0
     /\ devst' = [devst EXCEPT ![u] = Zeroed] /\ unitnum' = unitnum \ {u}
     /\ hostOpen' = IF devst[u].opencnt > 0 THEN hostOpen \ {u} ELSE hostOpen
     /\ machine' = IF last THEN [Running EXCEPT !.pc = "anew"]
                   ELSE [machine EXCEPT !.pc = "exit", !.unit = u + 1]
     /\ UNCHANGED <<hostThread, pdevst, ioreq, devThread, changeSem, replies, scsiResets, commands>>

(* the rest of dev_reset: pdevst is cleared, the units are numbered as       *)
(* before, and the machine's programs are gone                               *)
DevicesAnew ==
  /\ machine.pc = "anew" /\ machine' = Running /\ unitnum' = ScsiUnit
  /\ pdevst' = [p \in Handle |-> [inuse |-> FALSE, unit |-> 0, scsi |-> FALSE]]
  /\ ioreq' = [r \in Ioreq |-> Closed] /\ replies' = [i \in DOMAIN replies |-> NoReq]
  /\ UNCHANGED <<hostThread, devst, hostOpen, devThread, changeSem, scsiResets, commands>>

-----------------------------------------------------------------------------
Programs ==
  \/ \E r \in Ioreq, u \in ScsiUnit : OpensFirst(r, u) \/ OpensAgain(r, u)
  \/ \E r \in Ioreq : Closes(r) \/ AbortsIO(r) \/ \E c \in {"io", "add", "rem"} : BeginsIO(r, c)
Machine == ThreadStarted \/ AbortEnds \/ ExitAborts \/ ExitStops \/ ExitClears \/ DevicesAnew

ScNext == Programs \/ IntReplies \/ Machine \/ ScsiReset \/ \E u \in ScsiUnit : DevThread(u)
-----------------------------------------------------------------------------
DeviceTypeOK ==
  /\ ioreq \in [Ioreq -> [state : {"closed", "open", "sent", "held"}, unit : ScsiUnit, handle : Handle,
                          command : {"io", "add", "rem"}]]
  /\ devst \in [ScsiUnit -> [opencnt : 0..Cardinality(Ioreq), table : [Place -> [req : Ioreq \cup {NoReq},
                             type : {"none", "temp", "changeint"}]],
                             requests : Seq(Ioreq \cup {NoReq}), running : BOOLEAN, sync : 0..1]]
  /\ pdevst \in [Handle -> [inuse : BOOLEAN, unit : ScsiUnit, scsi : BOOLEAN]] /\ hostOpen \subseteq ScsiUnit
  /\ devThread \in [ScsiUnit -> [pc : {"off", "start", "read", "lock", "io", "release", "reply", "unlock", "stop",
                                       "stopped", "posted", "closing"}, req : Ioreq \cup {NoReq}]]
  /\ changeSem \in 0..Nobody /\ replies \in Seq(Ioreq \cup {NoReq})
  /\ machine \in [pc : {"run", "open", "abort", "exit", "exitWait", "anew"}, unit : ScsiUnit,
                   req : Ioreq \cup {NoReq}]
  /\ scsiResets \in 0..MaxScsiResets /\ commands \in 0..MaxCommands

ScTypeOK == DeviceTypeOK /\ unitnum \subseteq ScsiUnit /\ hostThread \subseteq ScsiUnit

OpenAt(u) == {r \in Ioreq : ioreq[r].state # "closed" /\ ioreq[r].unit = u}

(* What an open request leads to is its own unit, by a pdevst in use: units  *)
(* that are open do not share one, and a close does not take it from others. *)
HandlesAreUnits ==
  \A u \in ScsiUnit : \A r \in OpenAt(u) :
    /\ pdevst[ioreq[r].handle].inuse /\ pdevst[ioreq[r].handle].unit = u

(* Between the emulator thread's calls a unit that some program has open has *)
(* its thread, which no zero request awaits, and the host's device is open;  *)
(* for a unit that nobody has open the host's is closed.                     *)
OpenIsServed ==
  machine.pc = "run" => \A u \in ScsiUnit :
    /\ devst[u].opencnt = Cardinality(OpenAt(u)) /\ (u \in hostOpen <=> OpenAt(u) # {})
    /\ OpenAt(u) # {} =>
         /\ ~ThreadAt(u, "off") /\ devst[u].running /\ devThread[u] # [pc |-> "lock", req |-> NoReq]
         /\ \A i \in 1..Len(devst[u].requests) : devst[u].requests[i] # NoReq

(* "Kill dev thread and wait for it to die" (scsiemul.c:653): a unit is      *)
(* cleared when no thread uses it, its pipe least of all. But the code waits *)
(* only for the thread's word: it may still have to post change_sem and to   *)
(* close its context with dev->unitnum, of which it reads no more.           *)
KilledBeforeCleared ==
  \/ machine.pc = "exit" /\ devst[machine.unit].opencnt = 0
  \/ machine.pc = "exitWait" /\ devst[machine.unit].sync > 0
  => devThread[machine.unit].pc \in {"posted", "closing", "off"}

(* While the machine is not reset a thread that has ended has closed its     *)
(* context; in a reset its unit's number may be gone before that.            *)
ContextsAreClosed ==
  scsiResets = 0 => \A u \in hostThread : ~ThreadAt(u, "off")

OccursIn(r, seq) == Cardinality({i \in DOMAIN seq : seq[i] = r})

(* A request sent is in one place on its way to one reply; one that is held  *)
(* (ADDCHANGEINT) is in the table and nowhere else.                          *)
SentIsOnItsWay ==
  \A r \in Ioreq :
    LET u == ioreq[r].unit
        ways == OccursIn(r, devst[u].requests) + OccursIn(r, replies)
                + (IF devThread[u].req = r /\ ~ThreadAt(u, "unlock") THEN 1 ELSE 0)
    IN machine.pc \notin {"exit", "exitWait", "anew"} =>
         /\ ways = (IF ioreq[r].state = "sent" THEN 1 ELSE 0)
         /\ ioreq[r].state = "held" => \E i \in Place : devst[u].table[i] = [req |-> r, type |-> "changeint"]

(* A request sent is replied or held in the end, or the machine is reset,    *)
(* also when the table is full.                                              *)
SentIsAnswered == \A r \in Ioreq : ioreq[r].state = "sent" ~> ioreq[r].state # "sent"

(* Open, AbortIO and the reset return.                                       *)
ScsiCallsReturn == machine.pc # "run" ~> machine.pc = "run"

(* An open request leads to its unit, and the unit to a thread and a device; *)
(* a request sent is on one way to its reply; threads have done with their   *)
(* unit, but for its number, when it is cleared, and with the host when they *)
(* end, but for a reset.                                                     *)
UnitsAreServed ==
  /\ HandlesAreUnits /\ OpenIsServed /\ SentIsOnItsWay
  /\ KilledBeforeCleared /\ ContextsAreClosed

(* A request gets to its end, and so do the calls.                           *)
RequestsGetThrough == SentIsAnswered /\ ScsiCallsReturn
=============================================================================

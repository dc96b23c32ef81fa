------------------------------ MODULE Hardfile ------------------------------
(* uaehf.device (hardfile.c). The 68k calls Open, Close, BeginIO and AbortIO *)
(* on the emulator thread; per unit a host thread takes requests from a pipe *)
(* and replies them through native2amiga_pending, which the interrupt on the *)
(* emulator thread empties. Both sides write the unit's table of requests in *)
(* progress without a lock, one volatile word at a time; a scan of the table *)
(* is one step here, each store another. Commands done with IO_QUICK end     *)
(* inside BeginIO and touch none of this.                                    *)
EXTENDS Naturals, Sequences, FiniteSets, SequencesExt

CONSTANTS Units,          \* units, numbered from 0
          Request,        \* IORequests of the Amiga's programs
          Home,           \* the unit each of them is used with
          None,           \* an empty slot, the zero request
          Slots,          \* MAX_ASYNC_REQUESTS (50)
          NativeRecords,  \* replies that fit in native2amiga_pending (4)
          MaxOpen,        \* bound on the units' opencounts together
          MaxResets,      \* bound on machine resets
          Hasty           \* programs remove or abort an ADDCHANGEINT not yet done

Stale == "stale"            \* a reply for the machine before a reset

ASSUME HardfileAssumption ==
  /\ Units \in Nat \ {0} /\ Slots \in Nat /\ Units <= Slots
  /\ Home \in [Request -> 0..Units - 1] /\ {None, Stale} \cap Request = {}
  /\ {NativeRecords, MaxOpen, MaxResets} \subseteq Nat /\ Hasty \in BOOLEAN

VARIABLES
  client,      \* each request: with its program, sent, or held by the device
  command,     \* io_Command: "io" is any that is done and replied
  dev,         \* hardfpd: d_request and d_request_type, requests, ...
  thread,      \* per unit, hardfile_thread
  change_sem,
  native,      \* native2amiga_pending: ReplyMsg records
  emu,         \* where the emulator thread is
  resets

hfVars == <<client, command, dev, thread, change_sem, native, emu, resets>>
clientVars == <<client, command>>

Unit == 0..Units - 1
HfSlot == 0..Slots - 1
Cleared == [req |-> [s \in HfSlot |-> None], type |-> [s \in HfSlot |-> "none"],
            requests |-> <<>>, running |-> FALSE, sync |-> 0, open |-> 0]
AtRest == [pc |-> "run", unit |-> 0, req |-> None, slot |-> 0, next |-> "run"]
Off == [pc |-> "off", req |-> None, slot |-> 0, next |-> "off"]

HfInit ==
  /\ client = [r \in Request |-> "idle"] /\ command = [r \in Request |-> "io"]
  /\ dev = [u \in Unit |-> Cleared] /\ thread = [u \in Unit |-> Off]
  /\ change_sem = 1 /\ native = <<>> /\ emu = AtRest /\ resets = 0

SlotsOf(u, r) == {s \in HfSlot : dev[u].req[s] = r}
First(S) == CHOOSE s \in S : \A x \in S : s <= x
EmuAt(pc) == emu.pc = pc
ThreadAt(u, pc) == thread[u].pc = pc
ThreadGoes(u, pc) == thread' = [thread EXCEPT ![u].pc = pc]

-----------------------------------------------------------------------------
(* The emulator thread                                                       *)
BelowMaxOpen == MapThenSumSet(LAMBDA u : dev[u].open, Unit) < MaxOpen

(* hardfile_open, start_thread: clear the unit, wait for the new thread      *)
OpenFirst(u) ==
  /\ EmuAt("run") /\ ~dev[u].running /\ BelowMaxOpen
  /\ dev' = [dev EXCEPT ![u] = Cleared]
  /\ thread' = [thread EXCEPT ![u] = [Off EXCEPT !.pc = "start"]]
  /\ emu' = [AtRest EXCEPT !.pc = "open", !.unit = u]
  /\ UNCHANGED <<clientVars, change_sem, native, resets>>

OpenEnds ==
  /\ EmuAt("open") /\ dev[emu.unit].sync > 0
  /\ dev' = [dev EXCEPT ![emu.unit].sync = @ - 1, ![emu.unit].open = @ + 1]
  /\ emu' = AtRest
  /\ UNCHANGED <<clientVars, thread, change_sem, native, resets>>

OpenAgain(u) ==
  /\ EmuAt("run") /\ dev[u].running /\ BelowMaxOpen
  /\ dev' = [dev EXCEPT ![u].open = @ + 1]
  /\ UNCHANGED <<clientVars, thread, change_sem, native, emu, resets>>

AllBack(u) == \A r \in Request : Home[r] = u => client[r] = "idle"

(* hardfile_close, by programs that have their requests back: the last one   *)
(* sends the zero request and waits for the end of the thread                *)
Close(u) ==
  /\ EmuAt("run") /\ dev[u].open > 0 /\ (dev[u].open = 1 => AllBack(u))
  /\ dev' = [dev EXCEPT ![u].open = @ - 1,
                        ![u].requests = IF dev[u].open = 1 THEN Append(@, None) ELSE @]
  /\ emu' = IF dev[u].open = 1 THEN [AtRest EXCEPT !.pc = "close", !.unit = u] ELSE emu
  /\ UNCHANGED <<clientVars, thread, change_sem, native, resets>>

CloseEnds ==
  /\ EmuAt("close") /\ dev[emu.unit].sync > 0
  /\ dev' = [dev EXCEPT ![emu.unit].sync = @ - 1]
  /\ emu' = AtRest
  /\ UNCHANGED <<clientVars, thread, change_sem, native, resets>>

(* hardfile_beginio: add_async_request (TEMP) to the slot the request has or *)
(* the first free one, or to none, ...                                       *)
BeginIO(r, c) ==
  LET u == Home[r]
      S == IF SlotsOf(u, r) # {} THEN SlotsOf(u, r) ELSE SlotsOf(u, None)
  IN  /\ EmuAt("run") /\ dev[u].open > 0
      /\ \/ client[r] = "idle" /\ c \in {"io", "add"}
         \/ client[r] = "held" /\ c = "rem"
         \/ Hasty /\ client[r] = "sent" /\ command[r] = "add" /\ c = "rem"
      /\ client' = [client EXCEPT ![r] = "sent"] /\ command' = [command EXCEPT ![r] = c]
      /\ emu' = [AtRest EXCEPT !.pc = IF S = {} THEN "send"
                                       ELSE IF SlotsOf(u, r) = {} THEN "addRequest" ELSE "addType",
                                !.unit = u, !.req = r, !.slot = IF S = {} THEN 0 ELSE First(S)]
      /\ UNCHANGED <<dev, thread, change_sem, native, resets>>

AddRequest ==
  /\ EmuAt("addRequest")
  /\ dev' = [dev EXCEPT ![emu.unit].req[emu.slot] = emu.req]
  /\ emu' = [emu EXCEPT !.pc = "addType"]
  /\ UNCHANGED <<clientVars, thread, change_sem, native, resets>>

AddType ==
  /\ EmuAt("addType")
  /\ dev' = [dev EXCEPT ![emu.unit].type[emu.slot] = "temp"]
  /\ emu' = [emu EXCEPT !.pc = "send"]
  /\ UNCHANGED <<clientVars, thread, change_sem, native, resets>>

(* ... then write_comm_pipe_u32 to the thread                                *)
SendRequest ==
  /\ EmuAt("send")
  /\ dev' = [dev EXCEPT ![emu.unit].requests = Append(@, emu.req)]
  /\ emu' = AtRest
  /\ UNCHANGED <<clientVars, thread, change_sem, native, resets>>

(* hardfile_abortio of a request the device has                              *)
AbortIO(r) ==
  /\ EmuAt("run") /\ dev[Home[r]].open > 0
  /\ client[r] = "held" \/ (client[r] = "sent" /\ (Hasty \/ command[r] # "add"))
  /\ emu' = [AtRest EXCEPT !.pc = "abort", !.unit = Home[r], !.req = r]
  /\ UNCHANGED <<clientVars, dev, thread, change_sem, native, resets>>

(* abort_async: wait while it is TEMP, then take it out of the table. A      *)
(* request that was held is its program's again, unreplied.                  *)
AbortAsync ==
  /\ EmuAt("abort")
  /\ \A s \in SlotsOf(emu.unit, emu.req) : dev[emu.unit].type[s] # "temp"
  /\ LET S == SlotsOf(emu.unit, emu.req)
     IN  IF S = {} THEN emu' = [emu EXCEPT !.pc = emu.next] /\ UNCHANGED dev
         ELSE /\ dev' = [dev EXCEPT ![emu.unit].req[First(S)] = None]
              /\ emu' = [emu EXCEPT !.pc = "abortType", !.slot = First(S)]
  /\ client' = [client EXCEPT ![emu.req] = IF @ = "held" THEN "idle" ELSE @]
  /\ UNCHANGED <<command, thread, change_sem, native, resets>>

AbortType ==
  /\ EmuAt("abortType")
  /\ dev' = [dev EXCEPT ![emu.unit].type[emu.slot] = "none"]
  /\ emu' = [emu EXCEPT !.pc = emu.next]
  /\ UNCHANGED <<clientVars, thread, change_sem, native, resets>>

(* The interrupt on the emulator thread replies a message                    *)
Interrupt ==
  /\ EmuAt("run") /\ native # <<>>
  /\ client' = [r \in Request |-> IF r = Head(native) THEN "idle" ELSE client[r]]
  /\ native' = Tail(native)
  /\ UNCHANGED <<command, dev, thread, change_sem, emu, resets>>

-----------------------------------------------------------------------------
(* hardfile_thread                                                           *)
ThreadStarts(u) ==
  /\ ThreadAt(u, "start")
  /\ dev' = [dev EXCEPT ![u].running = TRUE, ![u].sync = @ + 1]
  /\ ThreadGoes(u, "read")
  /\ UNCHANGED <<clientVars, change_sem, native, emu, resets>>

ThreadReads(u) ==
  /\ ThreadAt(u, "read") /\ dev[u].requests # <<>>
  /\ thread' = [thread EXCEPT ![u].pc = "lock", ![u].req = Head(dev[u].requests)]
  /\ dev' = [dev EXCEPT ![u].requests = Tail(@)]
  /\ UNCHANGED <<clientVars, change_sem, native, emu, resets>>

ThreadLocks(u) ==
  /\ ThreadAt(u, "lock") /\ change_sem > 0
  /\ change_sem' = change_sem - 1
  /\ ThreadGoes(u, IF thread[u].req = None THEN "stop" ELSE command[thread[u].req])
  /\ UNCHANGED <<clientVars, dev, native, emu, resets>>

ThreadStops(u) ==
  /\ ThreadAt(u, "stop")
  /\ dev' = [dev EXCEPT ![u].running = FALSE]
  /\ ThreadGoes(u, "stopped")
  /\ UNCHANGED <<clientVars, change_sem, native, emu, resets>>

(* after sync_sem is posted the thread leaves the unit alone                 *)
ThreadEnds(u) ==
  /\ ThreadAt(u, "stopped")
  /\ dev' = [dev EXCEPT ![u].sync = @ + 1]
  /\ change_sem' = change_sem + 1
  /\ thread' = [thread EXCEPT ![u] = Off]
  /\ UNCHANGED <<clientVars, native, emu, resets>>

(* hardfile_do_io of a command that is done: only the disk changes           *)
DoIO(u) ==
  /\ ThreadAt(u, "io")
  /\ ThreadGoes(u, "release")
  /\ UNCHANGED <<clientVars, dev, change_sem, native, emu, resets>>

Release_UnknownDropped(u) ==   \* mutant: an unknown request is not replied
  /\ thread[u].pc \in {"rem", "release"}
  /\ LET S == SlotsOf(u, thread[u].req)
         next == IF ThreadAt(u, "rem") THEN "release" ELSE "reply"
     IN  IF S = {}
         THEN ThreadGoes(u, IF next = "reply" THEN "unlock" ELSE next) /\ UNCHANGED dev
         ELSE /\ dev' = [dev EXCEPT ![u].req[First(S)] = None]
              /\ thread' = [thread EXCEPT ![u].pc = "releaseType", ![u].slot = First(S),
                                          ![u].next = next]
  /\ UNCHANGED <<clientVars, change_sem, native, emu, resets>>

Release_Skipped(u) ==   \* mutant: the thread replies without it
  /\ thread[u].pc \in {"rem", "release"}
  /\ ThreadGoes(u, "reply")
  /\ UNCHANGED <<clientVars, dev, change_sem, native, emu, resets>>

(* release_async_request, by REMCHANGEINT and before each reply              *)
Release(u) ==
  /\ thread[u].pc \in {"rem", "release"}
  /\ LET S == SlotsOf(u, thread[u].req)
         next == IF ThreadAt(u, "rem") THEN "release" ELSE "reply"
     IN  IF S = {} THEN ThreadGoes(u, next) /\ UNCHANGED dev
         ELSE /\ dev' = [dev EXCEPT ![u].req[First(S)] = None]
              /\ thread' = [thread EXCEPT ![u].pc = "releaseType", ![u].slot = First(S),
                                          ![u].next = next]
  /\ UNCHANGED <<clientVars, change_sem, native, emu, resets>>

ReleaseType(u) ==
  /\ ThreadAt(u, "releaseType")
  /\ dev' = [dev EXCEPT ![u].type[thread[u].slot] = "none"]
  /\ ThreadGoes(u, thread[u].next)
  /\ UNCHANGED <<clientVars, change_sem, native, emu, resets>>

(* ADDCHANGEINT: add_async_request (CHANGEINT), an error if no slot is free  *)
DoAdd(u) ==
  /\ ThreadAt(u, "add")
  /\ LET r == thread[u].req
         S == IF SlotsOf(u, r) # {} THEN SlotsOf(u, r) ELSE SlotsOf(u, None)
     IN  thread' = [thread EXCEPT ![u].pc = IF S = {} THEN "release"
                                           ELSE IF SlotsOf(u, r) = {} THEN "holdRequest"
                                           ELSE "holdType",
                                  ![u].slot = IF S = {} THEN 0 ELSE First(S)]
  /\ UNCHANGED <<clientVars, dev, change_sem, native, emu, resets>>

Hold_Replied(u) ==   \* mutant: do_io's result is not looked at
  /\ ThreadAt(u, "holdType")
  /\ dev' = [dev EXCEPT ![u].type[thread[u].slot] = "changeint"]
  /\ client' = [client EXCEPT ![thread[u].req] = "held"]
  /\ ThreadGoes(u, "release")
  /\ UNCHANGED <<command, change_sem, native, emu, resets>>

(* its two stores, the first only in a slot that was free: r is held now     *)
Hold(u) ==
  /\ thread[u].pc \in {"holdRequest", "holdType"}
  /\ LET s == thread[u].slot
         r == thread[u].req
     IN  IF ThreadAt(u, "holdRequest")
         THEN /\ dev' = [dev EXCEPT ![u].req[s] = r]
              /\ ThreadGoes(u, "holdType") /\ UNCHANGED client
         ELSE /\ dev' = [dev EXCEPT ![u].type[s] = "changeint"]
              /\ ThreadGoes(u, "unlock") /\ client' = [client EXCEPT ![r] = "held"]
  /\ UNCHANGED <<command, change_sem, native, emu, resets>>

(* uae_ReplyMsg                                                              *)
Reply(u) ==
  /\ ThreadAt(u, "reply") /\ Len(native) < NativeRecords
  /\ native' = Append(native, thread[u].req)
  /\ ThreadGoes(u, "unlock")
  /\ UNCHANGED <<clientVars, dev, change_sem, emu, resets>>

ThreadUnlocks(u) ==
  /\ ThreadAt(u, "unlock")
  /\ change_sem' = change_sem + 1
  /\ thread' = [thread EXCEPT ![u] = [Off EXCEPT !.pc = "read"]]
  /\ UNCHANGED <<clientVars, dev, native, emu, resets>>

-----------------------------------------------------------------------------
(* hardfile_reset, on the emulator thread                                    *)
Reset ==
  /\ EmuAt("run") /\ resets < MaxResets
  /\ emu' = [AtRest EXCEPT !.pc = "resetUnit"] /\ resets' = resets + 1
  /\ UNCHANGED <<clientVars, dev, thread, change_sem, native>>

(* memset, and on to the next unit; after the last the machine starts anew   *)
ClearUnit(u) ==
  /\ dev' = [dev EXCEPT ![u] = Cleared]
  /\ IF u + 1 \in Unit
     THEN /\ emu' = [AtRest EXCEPT !.pc = "resetUnit", !.unit = u + 1]
          /\ UNCHANGED <<client, native>>
     ELSE /\ emu' = AtRest
          /\ client' = [r \in Request |-> "idle"]
          /\ native' = [i \in DOMAIN native |-> Stale]
  /\ UNCHANGED <<command, thread, change_sem, resets>>

ResetClosed == EmuAt("resetUnit") /\ dev[emu.unit].open = 0 /\ ClearUnit(emu.unit)

(* 50 times, d_request[i] and not [j], i the unit: if there is one, abort it *)
ResetAborts ==
  /\ EmuAt("resetUnit") /\ dev[emu.unit].open > 0
  /\ LET r == dev[emu.unit].req[emu.unit]
     IN  /\ r # None
         /\ emu' = [emu EXCEPT !.pc = "abort", !.req = r, !.next = "resetUnit"]
  /\ UNCHANGED <<clientVars, dev, thread, change_sem, native, resets>>

ResetStops ==
  /\ EmuAt("resetUnit") /\ dev[emu.unit].open > 0 /\ dev[emu.unit].req[emu.unit] = None
  /\ dev' = [dev EXCEPT ![emu.unit].requests = Append(@, None)]
  /\ emu' = [emu EXCEPT !.pc = "resetWait"]
  /\ UNCHANGED <<clientVars, thread, change_sem, native, resets>>

ResetClears == EmuAt("resetWait") /\ dev[emu.unit].sync > 0 /\ ClearUnit(emu.unit)

-----------------------------------------------------------------------------
Amiga ==
  \/ \E u \in Unit : OpenFirst(u) \/ OpenAgain(u) \/ Close(u)
  \/ \E r \in Request, c \in {"io", "add", "rem"} : BeginIO(r, c)
  \/ \E r \in Request : AbortIO(r)
Emulator ==
  \/ OpenEnds \/ CloseEnds \/ AddRequest \/ AddType \/ SendRequest \/ AbortAsync \/ AbortType
  \/ ResetClosed \/ ResetAborts \/ ResetStops \/ ResetClears
UnitThread(u) ==
  \/ ThreadStarts(u) \/ ThreadReads(u) \/ ThreadLocks(u) \/ ThreadStops(u) \/ ThreadEnds(u)
  \/ DoIO(u) \/ Release(u) \/ ReleaseType(u) \/ DoAdd(u) \/ Hold(u)
  \/ Reply(u) \/ ThreadUnlocks(u)

HfNext == Amiga \/ Interrupt \/ Reset \/ Emulator \/ \E u \in Unit : UnitThread(u)

HfSpec == HfInit /\ [][HfNext]_hfVars

(* The host runs the emulator and the threads, and change_sem is passed on;  *)
(* the 68k takes the interrupt that is requested. Programs owe nothing.      *)
HfFairSpec ==
  /\ HfSpec /\ WF_hfVars(Emulator) /\ SF_hfVars(Interrupt)
  /\ \A u \in Unit : WF_hfVars(UnitThread(u)) /\ SF_hfVars(ThreadLocks(u))
-----------------------------------------------------------------------------
Working == {"io", "add", "rem", "release", "releaseType", "holdRequest", "holdType", "reply",
            "unlock"}
Device ==
  [req : [HfSlot -> Request \cup {None}], type : [HfSlot -> {"none", "temp", "changeint"}],
   requests : Seq(Request \cup {None}), running : BOOLEAN, sync : 0..1, open : Nat]
ThreadState ==
  [pc : {"off", "start", "read", "lock", "stop", "stopped"} \cup Working,
   req : Request \cup {None}, slot : HfSlot, next : {"off", "release", "reply"}]
EmuState ==
  [pc : {"run", "open", "close", "addRequest", "addType", "send", "abort", "abortType",
         "resetUnit", "resetWait"},
   unit : Unit, req : Request \cup {None}, slot : HfSlot, next : {"run", "resetUnit"}]

HfTypeOK ==
  /\ client \in [Request -> {"idle", "sent", "held"}]
  /\ command \in [Request -> {"io", "add", "rem"}]
  /\ dev \in [Unit -> Device] /\ thread \in [Unit -> ThreadState] /\ emu \in EmuState
  /\ change_sem \in 0..1 /\ native \in Seq(Request \cup {Stale})
  /\ Len(native) <= NativeRecords /\ resets \in 0..MaxResets

Times(r, seq) == Cardinality({i \in DOMAIN seq : seq[i] = r})
One(b) == IF b THEN 1 ELSE 0

(* Each request sent is on its way to a reply, once: with BeginIO, in the    *)
(* pipe, with the thread or among the replies. Those that programs have or   *)
(* the device holds (ADDCHANGEINT) are not: no reply comes twice or unasked. *)
RepliedOnce ==
  \A r \in Request :
    Times(r, dev[Home[r]].requests) + Times(r, native)
      + One(emu.req = r /\ emu.pc \in {"addRequest", "addType", "send"})
      + One(thread[Home[r]].req = r /\ thread[Home[r]].pc # "unlock")
    = One(client[r] = "sent")

(* A change interrupt the device holds is in its table, as such, in one slot.*)
HeldIsRegistered ==
  \A r \in Request : EmuAt("run") /\ client[r] = "held" =>
    \E s \in HfSlot : /\ SlotsOf(Home[r], r) = {s}
                    /\ dev[Home[r]].type[s] = "changeint"

(* No slot leaks: one in use belongs to a request the device still has.      *)
SlotsAreInUse ==
  \A u \in Unit, s \in HfSlot : dev[u].req[s] # None =>
    client[dev[u].req[s]] # "idle" /\ Times(dev[u].req[s], native) = 0

(* start_thread and hardfile_reset clear a unit, its pipe and semaphore      *)
(* among it, only when its thread is gone, and a unit nobody has open has    *)
(* no thread.                                                                *)
ClearedWhenStopped ==
  /\ \A u \in Unit : EmuAt("run") /\ dev[u].open = 0 => ThreadAt(u, "off")
  /\ emu.pc = "resetUnit" /\ dev[emu.unit].open = 0 => ThreadAt(emu.unit, "off")
  /\ emu.pc = "resetWait" /\ dev[emu.unit].sync > 0 => ThreadAt(emu.unit, "off")

(* "ASYNC_REQUEST_TEMP = request is processing" (hardfile.c:363): a request  *)
(* in the pipe or with the thread before its release has that type, if it    *)
(* has a slot, so that AbortIO waits for it.                                 *)
ProcessingIsTemp ==
  \A u \in Unit, s \in HfSlot :
    (\/ Times(dev[u].req[s], dev[u].requests) > 0
     \/ dev[u].req[s] = thread[u].req /\ thread[u].pc \in {"lock", "io", "add", "rem"})
    /\ dev[u].req[s] # None
      => dev[u].type[s] = "temp"

(* A request sent is replied or held in the end, or the machine reset.       *)
RequestsAnswered == \A r \in Request : client[r] = "sent" ~> client[r] # "sent"

(* Open, Close, AbortIO and the reset return.                                *)
EmulatorResumes == ~EmuAt("run") ~> EmuAt("run")

(* The table knows what the device has, and nothing else, and is cleared     *)
(* only when nobody uses it.                                                 *)
TableIsRight == HeldIsRegistered /\ SlotsAreInUse /\ ClearedWhenStopped

(* Neither requests nor the emulator thread wait for ever.                   *)
HardfileGoesOn == RequestsAnswered /\ EmulatorResumes
=============================================================================

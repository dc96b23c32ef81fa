------------------------------ MODULE M68kInt -------------------------------
(* How the 68k interpreter (newcpu.c) learns of interrupt requests, of STOP, *)
(* of trace and of a request to leave: by flags in regs.spcflags, which are  *)
(* looked at between two instructions only (do_specialties). Requests come   *)
(* from the devices and from the program through INTREQ and INTENA           *)
(* (custom.c). One line stands for the request bits of one priority level.   *)
(* The program is any: an RTE is a change of SR like others. So are the      *)
(* instructions of E-UAE's own ROM; those that call its extended traps copy  *)
(* all of regs, the flags and the mask with it (traps.c). What a trap does   *)
(* meanwhile, and the locks that keep traps apart, are the subject of Traps. *)
EXTENDS Naturals, FiniteSets, FiniteSetsExt

CONSTANTS Levels,      \* priority levels, 1 to Levels (6)
          Contexts,    \* extended traps at a time
          Uses         \* what the program and the user do: "trace", exceptions and
                       \* SR's trace bit; "states", saved states; "traps", extended traps

ASSUME M68kAssumption ==
  Levels \in Nat \ {0} /\ Uses \subseteq SUBSET {"trace", "states", "traps"}

Line == 1..Levels
Mask == 0..Levels      \* Levels blocks all
Flag == {"INT", "DOINT", "STOP", "TRACE", "DOTRACE", "BRK"}

VARIABLES
  exact,                      \* currprefs.cpu_cycle_exact
  intreq, intena, master,     \* custom.c; master is bit 14 of intena
  onWay,                      \* irq_pending and irq_time: 0 when not pending, else
                              \* 1 + the instructions ended since, up to 3
  uses,                       \* one of Uses
  spcflags, intmask, t1,      \* of regs; its stopped only goes into saved states
  live, saved_regs,           \* contexts of extended traps, and the regs in each
  next,                       \* "program", or whose trap goes on with "call" or "exit"
  at,                         \* "fetch", "cycles", "special", "stop", "rest", "out"
  passed, late                \* history: lines no flag stands for, by design of the
                              \* code; instructions begun while the flag of a due line
                              \* had been looked at

TraceBit == IF "trace" \in uses THEN BOOLEAN ELSE {FALSE}

lineVars == <<intreq, intena, master, onWay>>
srVars == <<intmask, t1>>
trapVars == <<live, saved_regs, next>>
m68kVars == <<exact, uses, lineVars, spcflags, srVars, trapVars, at, passed, late>>

NoRegs == [spcflags |-> {}, intmask |-> 0, t1 |-> FALSE]     \* calloc
CurrentRegs == [spcflags |-> spcflags, intmask |-> intmask, t1 |-> t1]
Program == [to |-> "program", of |-> {}]
NoTraps == live' = {} /\ saved_regs' = [c \in Contexts |-> NoRegs] /\ next' = Program

M68kInit ==     \* m68k_reset
  /\ exact \in BOOLEAN /\ intreq = {} /\ intena = {} /\ master = FALSE
  /\ onWay = [l \in Line |-> 0] /\ spcflags = {} /\ intmask = Levels
  /\ t1 = FALSE /\ at = "fetch" /\ passed = {} /\ late = [l \in Line |-> 0]
  /\ uses \in Uses /\ live = {} /\ saved_regs = [c \in Contexts |-> NoRegs] /\ next = Program

imask == IF master THEN intreq \cap intena ELSE {}
Due == {l \in imask : l > intmask}

-----------------------------------------------------------------------------
(* custom.c. In cycle-exact mode a request needs more than four cycles to    *)
(* arrive, an instruction takes at least four, and it may come at any time   *)
(* of the one during which it is made. pend is irq_pending before the write. *)
DoInt(pend) ==                 \* doint, after intreq and intena have changed
  /\ spcflags' = IF master' THEN spcflags \cup {"INT"} ELSE spcflags
  /\ passed' = IF master' THEN {} ELSE passed
  /\ onWay' = [l \in Line |-> IF exact /\ master' /\ l \in intreq' \cap intena' /\ pend[l] = 0
                                THEN 1 ELSE pend[l]]

NoDoInt(pend) == onWay' = pend /\ UNCHANGED <<spcflags, passed>>

INTREQ_0(set, lines, pend) ==
  /\ intreq' = (IF set THEN intreq \cup lines ELSE intreq \ lines)
  /\ UNCHANGED <<intena, master>>
  /\ LET left == IF set THEN pend ELSE [l \in Line |-> IF l \in lines THEN 0 ELSE pend[l]]
     IN IF master THEN DoInt(left) ELSE NoDoInt(left)

INTENA(set, lines, m, pend) ==
  /\ intena' = (IF set THEN intena \cup lines ELSE intena \ lines)
  /\ master' = (IF m THEN set ELSE master) /\ UNCHANGED intreq
  /\ IF set THEN DoInt(pend) ELSE NoDoInt(pend)

(* intlev_exact and intlev_simple. gone are the lines whose time is over; 0  *)
(* stands for "none has arrived" as well as for "none".                      *)
Arrived(gone) == {l \in imask : ~exact \/ onWay[l] = 0 \/ l \in gone}
intlev(gone) == Max(Arrived(gone) \cup {0})
MayBeGone == {S \in SUBSET {l \in Line : onWay[l] > 0} : \A l \in Line : onWay[l] = 3 => l \in S}
Older == [l \in Line |-> IF onWay[l] \in {1, 2} THEN onWay[l] + 1 ELSE onWay[l]]

-----------------------------------------------------------------------------
(* newcpu.c: the status register and exceptions                              *)
MakeFromSR_OnlyTrace(flags, m, t, others) ==   \* mutant: a lower priority tells nobody
  IF t = t1 /\ ~others THEN flags
  ELSE (flags \ {"TRACE"}) \cup {"INT"} \cup (IF t THEN {"TRACE"} ELSE {})

MakeFromSR(flags, m, t, others) ==   \* others: another bit that it compares changes
  IF m = intmask /\ t = t1 /\ ~others THEN flags
  ELSE (flags \ {"TRACE"}) \cup {"INT"} \cup (IF t THEN {"TRACE"} ELSE {})

m68k_setstopped(flags) == IF "DOTRACE" \in flags THEN flags ELSE flags \cup {"STOP"}

SetsSR(stops) == \E m \in Mask, t \in TraceBit, others \in BOOLEAN :
  /\ LET flags == MakeFromSR(spcflags, m, t, others)
     IN spcflags' = IF stops THEN m68k_setstopped(flags) ELSE flags
  /\ intmask' = m /\ t1' = t
  /\ passed' = IF "INT" \in spcflags' THEN {} ELSE passed

(* trace_exception: after some exceptions of the program a trace is due      *)
trace_exception(flags, keeps) ==
  (flags \ {"TRACE", "DOTRACE"}) \cup (IF t1 /\ keeps THEN {"DOTRACE"} ELSE {})

-----------------------------------------------------------------------------
(* An instruction                                                            *)
Instruction ==
  /\ at = "fetch" /\ at' = "cycles" /\ UNCHANGED <<exact, uses>>
  /\ late' = [l \in Line |-> IF l \notin (Due \ passed) \cap Due' THEN 0
                              ELSE IF late[l] = 3 \/ ("INT" \in spcflags /\ ~exact) THEN late[l]
                              ELSE late[l] + 1]

(* One of the program. Between a calltrap and the handler it goes on with    *)
(* the mask is 7: only a trace exception may come.                           *)
Executes == Instruction /\ (next = Program \/ "trace" \in uses) /\ UNCHANGED trapVars

Computes ==
  /\ onWay' = Older
  /\ UNCHANGED <<intreq, intena, master, spcflags, srVars, passed>>
  /\ Executes

WritesIntreq ==
  /\ \E set \in BOOLEAN, lines \in SUBSET Line : INTREQ_0(set, lines, Older)
  /\ UNCHANGED srVars
  /\ Executes

WritesIntena ==
  /\ \E set, m \in BOOLEAN, lines \in SUBSET Line : INTENA(set, lines, m, Older)
  /\ UNCHANGED srVars
  /\ Executes

MovesToSR ==    \* MOVE, ANDI, ORI, EORI to SR, and RTE
  /\ onWay' = Older
  /\ SetsSR(FALSE)
  /\ UNCHANGED <<intreq, intena, master>>
  /\ Executes

STOPs ==        \* also the stop of the boot ROM's own code, which keeps SR
  /\ onWay' = Older
  /\ SetsSR(TRUE)
  /\ UNCHANGED <<intreq, intena, master>>
  /\ Executes

Excepts ==      \* TRAP, CHK, division by zero keep a trace, others do not
  /\ "trace" \in uses /\ onWay' = Older
  /\ \E keeps \in BOOLEAN : spcflags' = trace_exception(spcflags, keeps)
  /\ t1' = FALSE /\ UNCHANGED <<intreq, intena, master, intmask, passed>>
  /\ Executes

RESETs ==       \* cpureset, which is customreset
  /\ onWay' = Older /\ intena' = {} /\ master' = FALSE
  /\ spcflags' = spcflags \cap {"BRK"}
  /\ UNCHANGED <<intreq, srVars, passed>>
  /\ Executes

-----------------------------------------------------------------------------
(* The calltraps (op_illg) of an extended trap. At each the trap's thread    *)
(* runs until it calls a function of the 68k or ends; what it then leaves in *)
(* its copy of regs, with the mask at 7, replaces the 68k's.                 *)
Calltrap ==
  /\ onWay' = Older /\ UNCHANGED <<intreq, intena, master>>
  /\ passed' = (IF {"INT", "DOINT"} \cap spcflags' = {} THEN Due' ELSE {})
  /\ Instruction

GoesOn(c) ==    \* with m68k_call_handler or exit_trap_handler
  /\ \E to \in {"call", "exit"} : next' = [to |-> to, of |-> {c}]
  /\ intmask' = Levels /\ UNCHANGED <<spcflags, t1>>

HandleExtendedTrap(c) ==
  /\ "traps" \in uses /\ next = Program /\ c \notin live /\ live' = live \cup {c}
  /\ saved_regs' = [saved_regs EXCEPT ![c] = CurrentRegs]
  /\ GoesOn(c) /\ Calltrap

call_handler(c) ==
  /\ next = [to |-> "call", of |-> {c}] /\ intmask = Levels /\ next' = Program
  /\ intmask' = saved_regs[c].intmask /\ UNCHANGED <<spcflags, t1, live, saved_regs>>
  /\ Calltrap

return_handler(c) ==   \* of any trap whose function ends
  /\ next = Program /\ c \in live /\ UNCHANGED <<live, saved_regs>>
  /\ GoesOn(c) /\ Calltrap

exit_handler(c) ==
  /\ next = [to |-> "exit", of |-> {c}] /\ intmask = Levels /\ next' = Program
  /\ spcflags' = saved_regs[c].spcflags /\ intmask' = saved_regs[c].intmask
  /\ t1' = saved_regs[c].t1
  /\ live' = live \ {c} /\ saved_regs' = [saved_regs EXCEPT ![c] = NoRegs]
  /\ Calltrap

ExtendedTraps == \E c \in Contexts :
  HandleExtendedTrap(c) \/ call_handler(c) \/ return_handler(c) \/ exit_handler(c)

-----------------------------------------------------------------------------
(* do_cycles: the devices go on, after an instruction and in do_stop         *)
Device ==
  /\ at \in {"cycles", "stop"}
  /\ \E l \in Line : INTREQ_0(TRUE, {l}, onWay)
  /\ UNCHANGED <<exact, uses, trapVars, srVars, at, late>>

Breaks ==       \* a request to leave is seen at the end of a frame (drawing.c)
  /\ at \in {"cycles", "stop"} /\ spcflags' = spcflags \cup {"BRK"}
  /\ UNCHANGED <<exact, uses, trapVars, lineVars, srVars, at, passed, late>>

CyclesEnd ==    \* m68k_run: do_specialties only if a flag is set
  /\ at = "cycles" /\ at' = (IF spcflags = {} THEN "fetch" ELSE "special")
  /\ UNCHANGED <<exact, uses, trapVars, lineVars, spcflags, srVars, passed, late>>

-----------------------------------------------------------------------------
(* do_specialties                                                            *)
Special ==
  /\ at = "special"
  /\ at' = (IF "STOP" \in spcflags THEN "stop" ELSE "rest")
  /\ IF "DOTRACE" \in spcflags
     THEN spcflags' = trace_exception(spcflags, FALSE) /\ t1' = FALSE
     ELSE UNCHANGED <<spcflags, t1>>
  /\ UNCHANGED <<exact, uses, trapVars, lineVars, intmask, passed, late>>

StopEnds ==     \* do_stop
  /\ at = "stop" /\ {"INT", "DOINT", "BRK"} \cap spcflags # {} /\ at' = "rest"
  /\ UNCHANGED <<exact, uses, trapVars, lineVars, spcflags, srVars, passed, late>>

do_trace(flags) ==
  IF "TRACE" \in flags /\ t1 THEN (flags \ {"TRACE"}) \cup {"DOTRACE"} ELSE flags

Looks(flags) == "DOINT" \in flags \/ (exact /\ "INT" \in flags)

(* SPCFLAG_INT becomes SPCFLAG_DOINT, and BRK ends m68k_run                  *)
RunsOn(flags) ==
  /\ spcflags' = (IF "INT" \in flags /\ ~exact THEN (flags \ {"INT"}) \cup {"DOINT"} ELSE flags)
                 \ {"BRK"}
  /\ at' = (IF "BRK" \in flags THEN "out" ELSE "fetch")

RestNoInterrupt ==
  /\ at = "rest"
  /\ LET flags == do_trace(spcflags) IN
     \/ ~Looks(flags) /\ RunsOn(flags) /\ UNCHANGED onWay
     \/ /\ Looks(flags)
        /\ \E gone \in MayBeGone :
             /\ intlev(gone) <= intmask
             /\ onWay' = [l \in Line |-> IF l = intlev(gone) THEN 0 ELSE onWay[l]]
        /\ RunsOn(flags \ ({"DOINT"} \cup IF exact /\ imask = {} THEN {"INT"} ELSE {}))
  /\ UNCHANGED <<exact, uses, trapVars, intreq, intena, master, srVars, passed, late>>

service_interrupt ==
  /\ at = "rest" /\ Looks(do_trace(spcflags))
  /\ \E gone \in MayBeGone : LET level == intlev(gone) IN
       /\ level > intmask /\ intmask' = level
       /\ onWay' = [onWay EXCEPT ![level] = 0]
       /\ passed' = IF exact THEN {l \in Due : l > level} ELSE passed
  /\ RunsOn(trace_exception(spcflags, FALSE)
              \ ({"DOINT", "STOP"} \cup IF exact THEN {"INT"} ELSE {}))
  /\ t1' = FALSE /\ late' = [late EXCEPT ![intmask'] = 0]
  /\ UNCHANGED <<exact, uses, trapVars, intreq, intena, master>>

-----------------------------------------------------------------------------
(* Outside m68k_run: the state changes (main.c)                              *)
Resumes ==      \* m68k_go goes on, or after a pause is called again
  /\ at = "out" /\ at' = "fetch"
  /\ UNCHANGED <<exact, uses, trapVars, lineVars, spcflags, srVars, passed, late>>

m68k_reset ==   \* do_reset_machine: customreset, then m68k_reset
  /\ at = "out" /\ at' = "fetch" /\ intena' = {} /\ master' = FALSE
  /\ spcflags' = {} /\ intmask' = Levels /\ t1' = FALSE
  /\ passed' = {} /\ late' = [l \in Line |-> 0] /\ NoTraps
  /\ UNCHANGED <<exact, uses, intreq, onWay>>

RestoresState ==  \* the same with a saved state: restore_cpu, restore_custom before
  /\ "states" \in uses /\ at = "out" /\ at' = "fetch" /\ late' = [l \in Line |-> 0]
  /\ \E q, e \in SUBSET Line : intreq' = q /\ intena' = e
  /\ master' \in BOOLEAN /\ intmask' \in Mask /\ t1' \in TraceBit
  /\ spcflags' = MakeFromSR({}, intmask', t1', FALSE)
  /\ passed' = IF spcflags' = {} THEN Due' ELSE {}
  /\ onWay' = [l \in Line |-> IF exact /\ master' /\ l \in intreq' \cap intena' /\ onWay[l] = 0
                                THEN 1 ELSE onWay[l]]
  /\ NoTraps /\ UNCHANGED <<exact, uses>>

M68kNext ==
  \/ Computes \/ WritesIntreq \/ WritesIntena \/ MovesToSR \/ STOPs \/ Excepts \/ RESETs
  \/ ExtendedTraps
  \/ Device \/ Breaks \/ CyclesEnd
  \/ Special \/ StopEnds \/ RestNoInterrupt \/ service_interrupt
  \/ Resumes \/ m68k_reset \/ RestoresState

M68kSpec == M68kInit /\ [][M68kNext]_m68kVars

-----------------------------------------------------------------------------
CpuTypeOK ==
  /\ {exact, master, t1} \subseteq BOOLEAN /\ intreq \subseteq Line /\ intena \subseteq Line
  /\ onWay \in [Line -> 0..3] /\ spcflags \subseteq Flag /\ intmask \in Mask
  /\ passed \subseteq Line /\ late \in [Line -> 0..3]
  /\ at \in {"fetch", "cycles", "special", "stop", "rest", "out"}

TrapTypeOK ==
  /\ uses \in Uses /\ live \subseteq Contexts
  /\ saved_regs \in [Contexts -> [spcflags : SUBSET Flag, intmask : Mask, t1 : BOOLEAN]]
  /\ next = Program \/ \E to \in {"call", "exit"}, c \in live : next = [to |-> to, of |-> {c}]

M68kTypeOK == CpuTypeOK /\ TrapTypeOK

(* A request that the priority lets through is never without a flag when the *)
(* next instruction is fetched or the 68k sleeps in do_stop, whoever made it *)
(* due: a device, INTREQ, INTENA, the status register. Three exceptions: in  *)
(* cycle-exact mode, service of a lower line takes the flag from one that is *)
(* still on its way; a saved state comes without flags unless its status     *)
(* register differs from the old machine's; and an extended trap lowers the  *)
(* mask for the functions it calls without a flag, and ends with the flags   *)
(* of its beginning. Each lasts until INTREQ, INTENA or SR change.           *)
NoInterruptForgotten ==
  at \in {"fetch", "stop"} /\ ~Looks(spcflags) /\ "INT" \notin spcflags => Due \subseteq passed

(* One instruction separates a request from its service, in cycle-exact mode *)
(* at most two (newcpu.c:1696).                                              *)
ServedSoon == \A l \in Line : late[l] <= IF exact THEN 2 ELSE 1

(* A line stays without a flag only where the code has that gap: never to a  *)
(* program that calls no extended trap, on a machine that is not cycle-exact *)
(* and was not restored.                                                     *)
GapsAreKnown == passed # {} => exact \/ uses \cap {"states", "traps"} # {}

InterruptsKept == M68kTypeOK /\ NoInterruptForgotten /\ ServedSoon /\ GapsAreKnown

(* "The 68k CPU stays in stopped state, essentially doing nothing, until an  *)
(* IRQ arrives" (newcpu.c:1556), or E-UAE itself wants it to leave: STOP     *)
(* with another priority in its operand sets SPCFLAG_INT itself.             *)
StopHolds == [][at = "stop" /\ at' = "rest" => Due # {} \/ "BRK" \in spcflags]_m68kVars
=============================================================================

-------------------------------- MODULE Cia ---------------------------------
(* The two CIAs as cia.c emulates them, and the event table that drives them *)
(* (events.c). The timers are not counted down: the registers stay as they   *)
(* were at the last CIA_update, an event is set for the first underflow, and *)
(* whoever looks earlier computes what has passed. Times are differences of  *)
(* unsigned longs in the code, and kept as such here: since is currcycle -   *)
(* oldcycles, the due of an event is evtime - currcycle, and nextevent is    *)
(* counted from currcycle too.                                               *)
EXTENDS CiaChip, Integers, FiniteSetsExt

CONSTANTS Chip, DIV10, Writes, MaskVals, Flags,  \* as in CiaTicks
          HsyncTime     \* cycles of a line

ASSUME CiaAssumption ==
  /\ {DIV10, HsyncTime} \subseteq Nat \ {0} /\ Writes \in [Chip -> SUBSET RegWrites]
  /\ MaskVals \subseteq SUBSET IcrBits /\ Flags \subseteq IcrBits \ {"ta", "tb"}

VARIABLES chip,        \* the registers, as of the last CIA_update
          intreq,      \* the CIAs whose bit is set in Paula's INTREQ
          div10,       \* cycles of the E clock gone at the last CIA_update
          since,       \* cycles since the last CIA_calctimers
          eventtab,    \* of ev_hsync and ev_cia: active, due
          nextevent

clockVars == <<div10, since, eventtab, nextevent>>
ciaVars == <<chip, intreq, clockVars>>

CiaInit ==
  /\ chip = [c \in Chip |-> AfterReset] /\ intreq = {}
  /\ div10 = 0 /\ since = 0
  /\ eventtab = [hsync |-> [active |-> TRUE, due |-> HsyncTime],
                 cia |-> [active |-> FALSE, due |-> 0]]
  /\ nextevent = HsyncTime

-----------------------------------------------------------------------------
Interrupts(chips) == {c \in Chip : chips[c].ir}

ccount(s) == div10 + s
ciaclocks(s) == ccount(s) \div DIV10

(* compute_passed_time: what a read of the timers takes off                  *)
TaPassed(c) == IF CountsA(chip[c]) THEN ciaclocks(since) ELSE 0
TbPassed(c) == IF CountsB(chip[c]) THEN ciaclocks(since) ELSE 0

aovf(k, n) == CountsA(k) /\ k.ta + 1 = n
tbPulses(k, n) == IF CountsB(k) THEN n ELSE IF Cascades(k) /\ aovf(k, n) THEN 1 ELSE 0
bovf(k, n) == tbPulses(k, n) > 0 /\ k.tb + 1 = tbPulses(k, n)
sdrShifts(k, n) ==
  aovf(k, n) /\ "out" \in k.cra /\ "oneshot" \notin k.cra /\ k.sdr_cnt > 0
raised(k, n) == (IF aovf(k, n) THEN {"ta"} ELSE {}) \cup (IF bovf(k, n) THEN {"tb"} ELSE {})
                \cup (IF sdrShifts(k, n) /\ k.sdr_cnt = 1 THEN {"sp"} ELSE {})

counted_KeepsOneShot(k, n) ==   \* mutant: a one-shot timer is not stopped
  [k EXCEPT !.ta = IF aovf(k, n) THEN k.la ELSE IF CountsA(k) THEN @ - n ELSE @,
            !.tb = IF bovf(k, n) THEN k.lb ELSE @ - tbPulses(k, n),
            !.sdr_cnt = IF sdrShifts(k, n) THEN @ - 1 ELSE @]

counted(k, n) ==
  [k EXCEPT !.ta = IF aovf(k, n) THEN k.la ELSE IF CountsA(k) THEN @ - n ELSE @,
            !.tb = IF bovf(k, n) THEN k.lb ELSE @ - tbPulses(k, n),
            !.sdr_cnt = IF sdrShifts(k, n) THEN @ - 1 ELSE @,
            !.cra = IF aovf(k, n) /\ "oneshot" \in @ THEN @ \ {"start"} ELSE @,
            !.crb = IF bovf(k, n) /\ "oneshot" \in @ THEN @ \ {"start"} ELSE @]

(* CIA_update, for one chip and n ticks                                      *)
CIA_update(k, n) ==
  IF raised(k, n) = {} THEN counted(k, n) ELSE Raise(counted(k, n), raised(k, n))

Updated(s) == [c \in Chip |-> CIA_update(chip[c], ciaclocks(s))]
NewIrqs(s) == {c \in Chip : raised(chip[c], ciaclocks(s)) # {} /\ Updated(s)[c].ir}

(* an event in the past is as good as never due: its difference wraps        *)
events_schedule(tab) ==
  Min({tab[e].due : e \in {x \in DOMAIN tab : tab[x].active /\ tab[x].due >= 0}})

(* CIA_calctimers: the times to the underflow of each running timer. A timer *)
(* fed by the other one is left to the other one's event.                    *)
CIA_timers(chips, d10) ==
  {DIV10 - d10 + DIV10 * chips[c].ta : c \in {x \in Chip : CountsA(chips[x])}}
  \cup {DIV10 - d10 + DIV10 * chips[c].tb : c \in {x \in Chip : CountsB(chips[x])}}

CIA_calctimers(tab, chips, d10) ==
  LET times == CIA_timers(chips, d10)
  IN  [tab EXCEPT !.cia = IF times = {} THEN [active |-> FALSE, due |-> 0]
                          ELSE [active |-> TRUE, due |-> Min(times)]]

-----------------------------------------------------------------------------
(* One cycle of do_cycles: if an event is due by then, go to its time, run   *)
(* the handlers due, in the order of the table, and look for the next event. *)
hsync_due(tab) ==
  IF tab.hsync.due = 0 THEN [tab EXCEPT !.hsync.due = HsyncTime] ELSE tab

aged(d) == [e \in DOMAIN eventtab |->
              [eventtab[e] EXCEPT !.due = IF eventtab[e].active THEN @ - d ELSE @]]

CyclePasses ==
  /\ nextevent > 1
  /\ since' = IF eventtab.cia.active \/ since + 1 < DIV10 THEN since + 1
              ELSE since + 1 - DIV10   \* idle, only its remainder is ever used
  /\ eventtab' = aged(1) /\ nextevent' = nextevent - 1
  /\ UNCHANGED <<chip, intreq, div10>>

EventsDue ==
  /\ nextevent <= 1
  /\ LET tab == hsync_due(aged(nextevent))
         now == since + nextevent
     IN  IF tab.cia.active /\ tab.cia.due = 0
         THEN /\ chip' = Updated(now) /\ div10' = ccount(now) % DIV10 /\ since' = 0
              /\ intreq' = intreq \cup NewIrqs(now)
              /\ eventtab' = CIA_calctimers(tab, chip', div10')
         ELSE /\ since' = IF tab.cia.active \/ now < DIV10 THEN now ELSE now - DIV10
              /\ eventtab' = tab
              /\ UNCHANGED <<chip, intreq, div10>>
  /\ nextevent' = events_schedule(eventtab')

(* WriteCIAA and WriteCIAB, registers 4 to 7, 12, 14, 15: all timers of both *)
(* chips are brought up to date before, the event is computed again after    *)
WriteTimer_NotScheduled(c) ==   \* mutant: events_schedule is left out
  /\ \E w \in Writes[c] :
       chip' = [Updated(since) EXCEPT ![c] = WriteReg(@, w.reg, w.val)]
  /\ div10' = ccount(since) % DIV10 /\ since' = 0
  /\ eventtab' = CIA_calctimers(eventtab, chip', div10')
  /\ UNCHANGED <<intreq, nextevent>>

WriteTimer(c) ==
  /\ \E w \in Writes[c] :
       chip' = [Updated(since) EXCEPT ![c] = WriteReg(@, w.reg, w.val)]
  /\ div10' = ccount(since) % DIV10 /\ since' = 0
  /\ intreq' = intreq \cup NewIrqs(since)
  /\ eventtab' = CIA_calctimers(eventtab, chip', div10')
  /\ nextevent' = events_schedule(eventtab')

(* register 13: no interrupt is raised or withdrawn before the next rethink  *)
WriteImask(c) ==
  /\ \E s \in BOOLEAN, b \in MaskVals : chip' = [chip EXCEPT ![c] = WriteMask(@, s, b)]
  /\ UNCHANGED <<intreq, clockVars>>

ReadICR(c) ==
  /\ chip' = [chip EXCEPT ![c] = ReadIcr(@)]
  /\ UNCHANGED <<intreq, clockVars>>

(* an alarm, the keyboard, the disk index or the parallel port               *)
RaiseFlag(c, f) ==
  /\ chip' = [chip EXCEPT ![c] = Raise(@, {f})]
  /\ intreq' = IF chip'[c].ir THEN intreq \cup {c} ELSE intreq
  /\ UNCHANGED clockVars

(* the 68k clears the bit in INTREQ: rethink_cias sets it again for a flag   *)
Acknowledge(c) ==
  /\ chip' = [d \in Chip |-> RethinkICR(chip[d])]
  /\ intreq' = (intreq \ {c}) \cup Interrupts(chip')
  /\ UNCHANGED clockVars

CiaNext ==
  \/ CyclePasses \/ EventsDue
  \/ \E c \in Chip : \/ WriteTimer(c) \/ WriteImask(c) \/ ReadICR(c) \/ Acknowledge(c)
                     \/ \E f \in Flags : RaiseFlag(c, f)

CiaSpec == CiaInit /\ [][CiaNext]_ciaVars
-----------------------------------------------------------------------------
CiaTypeOK ==
  /\ chip \in [Chip -> Registers] /\ intreq \subseteq Chip
  /\ div10 \in 0 .. DIV10 - 1 /\ since \in 0 .. DIV10 * Byte * Byte
  /\ eventtab.hsync.due \in 1..HsyncTime /\ eventtab.hsync.active
  /\ eventtab.cia \in [active : BOOLEAN, due : 0 .. DIV10 * Byte * Byte]
  /\ nextevent \in 1..HsyncTime

(* No running timer is past its underflow when anybody can look: the asserts *)
(* of compute_passed_time and CIA_update hold with one tick to spare, and a  *)
(* register read never shows a timer below zero.                             *)
TimersNotPastUnderflow ==
  \A c \in Chip : TaPassed(c) <= chip[c].ta /\ TbPassed(c) <= chip[c].tb

(* The time do_cycles runs to is that of the earliest event, whoever changed *)
(* the table last: no event is passed over.                                  *)
NextEventIsEarliest ==
  /\ \A e \in DOMAIN eventtab : eventtab[e].active => eventtab[e].due > 0
  /\ nextevent = events_schedule(eventtab)

(* A CIA that reads as having interrupted has its bit in INTREQ, even after  *)
(* the 68k cleared that bit without reading the CIA.                         *)
InterruptStaysRaised == \A c \in Chip : chip[c].ir => c \in intreq

(* What anybody can see of the lazy timers is what timers counted down at    *)
(* every E clock show: values, flags, interrupts, at every cycle.            *)
Ticks == INSTANCE CiaTicks WITH
  chip <- [c \in Chip |-> [chip[c] EXCEPT !.ta = @ - TaPassed(c), !.tb = @ - TbPassed(c)]],
  phase <- ccount(since) % DIV10
ImplementsTicks == Ticks!TicksSpec

(* The lazy timers are brought up to date in time, and interrupts stay.      *)
TimersKeptUp == TimersNotPastUnderflow /\ NextEventIsEarliest /\ InterruptStaysRaised
=============================================================================

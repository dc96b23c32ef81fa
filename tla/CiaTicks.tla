------------------------------ MODULE CiaTicks ------------------------------
(* What the two CIAs promise: at every tenth CPU cycle, the E clock, each    *)
(* running timer counts down by one, and one that was at zero underflows:    *)
(* it reloads, stops if it is one-shot, and raises its flag. Nothing is said *)
(* of events or of when the emulator looks.                                  *)
EXTENDS CiaChip

CONSTANTS Chip,        \* the CIAs, "A" and "B"
          DIV10,       \* cycles of the E clock
          Writes, MaskVals,   \* what the 68k writes to each chip
          Flags        \* what others raise, of "alarm", "sp", "flg"

VARIABLES chip,      \* the registers of each CIA
          intreq,    \* the CIAs whose bit is set in Paula's INTREQ
          phase      \* cycles since the E clock's last tick

ticksVars == <<chip, intreq, phase>>

TicksInit ==
  /\ chip = [c \in Chip |-> AfterReset] /\ intreq = {} /\ phase = 0

CountDown(k) ==
  LET aUnder == CountsA(k) /\ k.ta = 0
      bUnder == (CountsB(k) \/ (Cascades(k) /\ aUnder)) /\ k.tb = 0
      shift  == aUnder /\ k.sdr_cnt > 0 /\ "out" \in k.cra /\ "oneshot" \notin k.cra
      flags  == {f \in {"ta", "tb", "sp"} : \/ f = "ta" /\ aUnder
                                            \/ f = "tb" /\ bUnder
                                            \/ f = "sp" /\ shift /\ k.sdr_cnt = 1}
      counted ==
        [k EXCEPT
           !.ta = IF aUnder THEN k.la ELSE IF CountsA(k) THEN @ - 1 ELSE @,
           !.tb = IF bUnder THEN k.lb
                  ELSE IF CountsB(k) \/ (Cascades(k) /\ aUnder) THEN @ - 1 ELSE @,
           !.sdr_cnt = IF shift THEN @ - 1 ELSE @,
           !.cra = IF aUnder /\ "oneshot" \in @ THEN @ \ {"start"} ELSE @,
           !.crb = IF bUnder /\ "oneshot" \in @ THEN @ \ {"start"} ELSE @]
  IN  IF flags = {} THEN counted ELSE Raise(counted, flags)

Interrupts(chips) == {c \in Chip : chips[c].ir}

Elapse ==
  /\ phase' = (phase + 1) % DIV10
  /\ chip' = IF phase' = 0 THEN [c \in Chip |-> CountDown(chip[c])] ELSE chip
  /\ intreq' = intreq \cup Interrupts(chip')

TicksWrite(c) ==
  /\ \E w \in Writes[c] : chip' = [chip EXCEPT ![c] = WriteReg(@, w.reg, w.val)]
  /\ UNCHANGED <<intreq, phase>>

TicksWriteMask(c) ==
  /\ \E s \in BOOLEAN, b \in MaskVals : chip' = [chip EXCEPT ![c] = WriteMask(@, s, b)]
  /\ UNCHANGED <<intreq, phase>>

TicksReadIcr(c) ==
  /\ chip' = [chip EXCEPT ![c] = ReadIcr(@)]
  /\ UNCHANGED <<intreq, phase>>

TicksRaise(c, f) ==
  /\ chip' = [chip EXCEPT ![c] = Raise(@, {f})]
  /\ intreq' = intreq \cup Interrupts(chip')
  /\ UNCHANGED phase

TicksAcknowledge(c) ==
  /\ chip' = [d \in Chip |-> RethinkICR(chip[d])]
  /\ intreq' = (intreq \ {c}) \cup Interrupts(chip')
  /\ UNCHANGED phase

TicksNext ==
  \/ Elapse
  \/ \E c \in Chip : \/ TicksWrite(c) \/ TicksWriteMask(c) \/ TicksReadIcr(c)
                     \/ TicksAcknowledge(c) \/ \E f \in Flags : TicksRaise(c, f)

TicksSpec == TicksInit /\ [][TicksNext]_ticksVars
=============================================================================

------------------------------- MODULE CiaTod -------------------------------
(* The time of day counter of one CIA (cia.c), counted up at every line or   *)
(* frame: three registers, read by the 68k one by one while the counter runs *)
(* and written one by one while it stands; and its alarm. One program at a   *)
(* time reads or sets the clock, as the hardware manual asks.                *)
EXTENDS Naturals

CONSTANTS TodByte,     \* values of one register (256)
          Low,         \* where checkalarm looks for the ripple (0x1000)
          TodHack,     \* currprefs.tod_hack: the counter follows the host's clock
          HackSlack    \* it is not set back by less than this (10)

Tod == 0 .. TodByte * TodByte * TodByte - 1

ASSUME CiaTodAssumption ==
  /\ {TodByte, Low} \subseteq Nat \ {0} /\ TodHack \in BOOLEAN /\ HackSlack \in Nat

VARIABLES tod, todon,
          tol, tlatch,       \* the latched value, and whether reads see it
          alarm, setAlarm,   \* setAlarm is bit 0x80 of crb: writes go to alarm
          alarmFlag,         \* bit 4 of icr
          prog               \* the 68k program: what it does next, and the value
                             \* it must see or have set in the end

todVars == <<tod, todon, tol, tlatch, alarm, setAlarm, alarmFlag, prog>>

Idle == [op |-> "idle", val |-> 0]

TodInit ==      \* CIA_reset; the boot code starts the clock
  /\ tod = 0 /\ todon = FALSE /\ tol = 0 /\ tlatch = FALSE
  /\ alarm = 0 /\ setAlarm = FALSE /\ alarmFlag = FALSE /\ prog = Idle

Lo(x) == x % TodByte
Mid(x) == (x \div TodByte) % TodByte
Hi(x) == x \div (TodByte * TodByte)
Put(x, place, v) ==
  CASE place = "lo"  -> x - Lo(x) + v
    [] place = "mid" -> x - Mid(x) * TodByte + v * TodByte
    [] place = "hi"  -> x - Hi(x) * TodByte * TodByte + v * TodByte * TodByte

(* checkalarm, with the ripple of a counter carrying into its upper half     *)
checkalarm(t, inc) ==
  t = alarm \/ (inc /\ t % Low = 0 /\ t > 0 /\ ((t - 1) \div Low) * Low = alarm)

CountTo(t, inc) == tod' = t /\ alarmFlag' = (alarmFlag \/ checkalarm(t, inc))

Counts_NoWrap ==   \* mutant: not masked to 24 bits
  /\ todon /\ CountTo(tod + 1, TRUE)
  /\ UNCHANGED <<todon, tol, tlatch, alarm, setAlarm, prog>>

Counts ==       \* CIA_hsync_handler, CIA_vsync_handler
  /\ todon /\ CountTo((tod + 1) % (TodByte * TodByte * TodByte), TRUE)
  /\ UNCHANGED <<todon, tol, tlatch, alarm, setAlarm, prog>>

FollowsHost ==  \* CIA_vsync_handler with TOD_HACK
  /\ TodHack /\ todon
  /\ \E t \in Tod : /\ t # tod /\ ~(t < tod /\ tod - t < HackSlack)
                    /\ CountTo(t, FALSE)
  /\ UNCHANGED <<todon, tol, tlatch, alarm, setAlarm, prog>>

-----------------------------------------------------------------------------
(* Reading: high, middle, low                                                *)
ReadHi_NotLatched ==   \* mutant: the reads that follow see the counter
  /\ prog.op = "idle" /\ tol' = tod
  /\ prog' = [op |-> "readMid", val |-> tod]
  /\ UNCHANGED <<tod, todon, tlatch, alarm, setAlarm, alarmFlag>>

ReadHi ==
  /\ prog.op = "idle"
  /\ tlatch' = TRUE /\ tol' = IF tlatch THEN tol ELSE tod
  /\ prog' = [op |-> "readMid", val |-> tod]
  /\ UNCHANGED <<tod, todon, alarm, setAlarm, alarmFlag>>

Seen == IF tlatch THEN tol ELSE tod

ReadMid ==
  /\ prog.op = "readMid" /\ prog' = [prog EXCEPT !.op = "readLo"]
  /\ UNCHANGED <<tod, todon, tol, tlatch, alarm, setAlarm, alarmFlag>>

ReadLo ==
  /\ prog.op = "readLo" /\ tlatch' = FALSE /\ prog' = Idle
  /\ UNCHANGED <<tod, todon, tol, alarm, setAlarm, alarmFlag>>

(* Setting the counter, or the alarm: the same three writes                  *)
WriteCrb ==
  /\ prog.op = "idle" /\ setAlarm' = ~setAlarm
  /\ UNCHANGED <<tod, todon, tol, tlatch, alarm, alarmFlag, prog>>

WriteHi(v) ==
  /\ prog.op = "idle" /\ prog' = [op |-> "writeMid", val |-> v]
  /\ IF setAlarm
     THEN alarm' = Put(alarm, "hi", Hi(v)) /\ UNCHANGED <<tod, todon>>
     ELSE tod' = Put(tod, "hi", Hi(v)) /\ todon' = FALSE /\ UNCHANGED alarm
  /\ UNCHANGED <<tol, tlatch, setAlarm, alarmFlag>>

WriteMid ==
  /\ prog.op = "writeMid" /\ prog' = [prog EXCEPT !.op = "writeLo"]
  /\ IF setAlarm
     THEN alarm' = Put(alarm, "mid", Mid(prog.val)) /\ UNCHANGED tod
     ELSE tod' = Put(tod, "mid", Mid(prog.val)) /\ UNCHANGED alarm
  /\ UNCHANGED <<todon, tol, tlatch, setAlarm, alarmFlag>>

WriteLo ==
  /\ prog.op = "writeLo" /\ prog' = Idle
  /\ IF setAlarm
     THEN alarm' = Put(alarm, "lo", Lo(prog.val)) /\ UNCHANGED <<tod, todon, alarmFlag>>
     ELSE CountTo(Put(tod, "lo", Lo(prog.val)), FALSE) /\ todon' = TRUE /\ UNCHANGED alarm
  /\ UNCHANGED <<tol, tlatch, setAlarm>>

ReadAlarmFlag ==   \* ReadCIAA, ReadCIAB, register 13
  /\ alarmFlag /\ alarmFlag' = FALSE
  /\ UNCHANGED <<tod, todon, tol, tlatch, alarm, setAlarm, prog>>

(* save_cia, then restore_cia: the latched value passes through a uae_u16    *)
SaveRestore ==
  /\ tol' = tol % (TodByte * TodByte)
  /\ UNCHANGED <<tod, todon, tlatch, alarm, setAlarm, alarmFlag, prog>>

TodNext ==
  \/ Counts \/ FollowsHost \/ ReadHi \/ ReadMid \/ ReadLo \/ WriteCrb
  \/ (\E v \in Tod : WriteHi(v)) \/ WriteMid \/ WriteLo \/ ReadAlarmFlag \/ SaveRestore

TodSpec == TodInit /\ [][TodNext]_todVars
-----------------------------------------------------------------------------
TodTypeOK ==
  /\ {tod, tol, alarm} \subseteq Tod /\ {todon, tlatch, setAlarm, alarmFlag} \subseteq BOOLEAN
  /\ prog \in [op : {"idle", "readMid", "readLo", "writeMid", "writeLo"}, val : Tod]

(* The three reads give the bytes of one value, the counter's at the first,  *)
(* however often it counted since, and across a save and restore.            *)
ReadsAreOneValue ==
  /\ prog.op = "readMid" => Mid(Seen) = Mid(prog.val)
  /\ prog.op \in {"readMid", "readLo"} => Lo(Seen) = Lo(prog.val)

(* When the counter is set it starts from exactly the value written, not one *)
(* that counted between two of the writes.                                   *)
SetsExactly ==
  (prog.op = "writeLo" /\ prog' = Idle) => IF setAlarm THEN alarm' = prog.val ELSE tod' = prog.val

(* A running counter never gets to the alarm time without the alarm going    *)
(* off, whether it counts, follows the host or is started there.             *)
AlarmGoesOff == (tod' # tod /\ todon' /\ tod' = alarm) => alarmFlag'

(* The three accesses to the clock are as one, and the alarm goes off.       *)
TodIsAtomic == [][ReadsAreOneValue' /\ SetsExactly /\ AlarmGoesOff]_todVars
=============================================================================

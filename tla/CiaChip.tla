------------------------------ MODULE CiaChip -------------------------------
(* The registers of one CIA as cia.c keeps them: two timers with latches and *)
(* control registers, the serial register's bit counter, and the interrupt   *)
(* control register. Bits are members of sets. What a write does is here;    *)
(* when the timers count is in CiaTicks and in Cia.                          *)
EXTENDS Naturals, FiniteSets

CONSTANTS Byte,        \* values of one byte of a timer (256)
          ResetLatch,  \* the latches after a reset (0xFFFF)
          SdrBits      \* half bits of a byte shifted out (8 * 2)

Timer == 0 .. Byte * Byte - 1

ASSUME CiaChipAssumption ==
  {Byte, SdrBits} \subseteq Nat \ {0} /\ ResetLatch \in Timer

CraBits == {"start", "oneshot", "cnt", "out"}     \* 1, 8, 0x20, 0x40
CrbBits == {"start", "oneshot", "cnt", "ta"}      \* 1, 8, 0x20, 0x40
IcrBits == {"ta", "tb", "alarm", "sp", "flg"}     \* 1, 2, 4, 8, 0x10

Registers == [ta : Timer, tb : Timer, la : Timer, lb : Timer,
              cra : SUBSET CraBits, crb : SUBSET CrbBits, sdr_cnt : 0..SdrBits,
              icr : SUBSET IcrBits, ir : BOOLEAN, imask : SUBSET IcrBits]

(* CIA_reset                                                                 *)
AfterReset == [ta |-> ResetLatch, tb |-> ResetLatch, la |-> ResetLatch, lb |-> ResetLatch,
               cra |-> {}, crb |-> {}, sdr_cnt |-> 0,
               icr |-> {}, ir |-> FALSE, imask |-> {}]

CountsA(k) == "start" \in k.cra /\ "cnt" \notin k.cra          \* & 0x21 == 0x01
CountsB(k) == "start" \in k.crb /\ k.crb \cap {"cnt", "ta"} = {} \* & 0x61 == 0x01
Cascades(k) == {"start", "ta"} \subseteq k.crb                   \* 0x41 or 0x61

(* RethinkICRA, RethinkICRB: bit 7 of the register                           *)
RethinkICR(k) == [k EXCEPT !.ir = k.imask \cap k.icr # {}]
Raise(k, flags) == RethinkICR([k EXCEPT !.icr = @ \cup flags])

WithLo(x, v) == (x \div Byte) * Byte + v
WithHi(x, v) == (x % Byte) + v * Byte

(* A high byte reloads a timer that is stopped, and starts a one-shot one.   *)
WriteTaHi(k, v) ==
  [k EXCEPT !.la = WithHi(@, v),
            !.ta = IF "start" \notin k.cra \/ "oneshot" \in k.cra THEN WithHi(k.la, v) ELSE @,
            !.cra = IF "oneshot" \in @ THEN @ \cup {"start"} ELSE @]
WriteTbHi(k, v) ==
  [k EXCEPT !.lb = WithHi(@, v),
            !.tb = IF "start" \notin k.crb \/ "oneshot" \in k.crb THEN WithHi(k.lb, v) ELSE @,
            !.crb = IF "oneshot" \in @ THEN @ \cup {"start"} ELSE @]

WriteSdr(k) ==
  LET left == IF "out" \in k.cra THEN k.sdr_cnt ELSE 0
  IN  [k EXCEPT !.sdr_cnt =
         IF {"out", "start"} \subseteq k.cra /\ left = 0 THEN SdrBits ELSE left]

(* A write of value v to register 4 to 7, 12, 14 or 15. A control register's *)
(* value is its bits without 0x10, and load, that bit, which is not kept.    *)
WriteReg(k, reg, v) ==
  CASE reg = "talo" -> [k EXCEPT !.la = WithLo(@, v)]
    [] reg = "tahi" -> WriteTaHi(k, v)
    [] reg = "tblo" -> [k EXCEPT !.lb = WithLo(@, v)]
    [] reg = "tbhi" -> WriteTbHi(k, v)
    [] reg = "sdr"  -> WriteSdr(k)
    [] reg = "cra"  -> [k EXCEPT !.cra = v.bits, !.ta = IF v.load THEN k.la ELSE @]
    [] reg = "crb"  -> [k EXCEPT !.crb = v.bits, !.tb = IF v.load THEN k.lb ELSE @]

RegWrites ==
  [reg : {"talo", "tahi", "tblo", "tbhi", "sdr"}, val : 0 .. Byte - 1]
  \cup [reg : {"cra"}, val : [bits : SUBSET CraBits, load : BOOLEAN]]
  \cup [reg : {"crb"}, val : [bits : SUBSET CrbBits, load : BOOLEAN]]

(* setclr, register 13: the pending flags are not looked at                  *)
WriteMask(k, set, bits) ==
  [k EXCEPT !.imask = IF set THEN @ \cup bits ELSE @ \ bits]

ReadIcr(k) == RethinkICR([k EXCEPT !.icr = {}])
=============================================================================

------------------------------ MODULE ChipsProofs ------------------------------
(* Proofs about the parts of the CIAs. Keyboard, for a ring of any size and  *)
(* any number of keys: no key is lost that is not known to be, and the 68k   *)
(* reads them in order. Cia, for any number of chips and any widths of their *)
(* registers: the timers that are only computed when somebody looks are kept *)
(* up to date in time, and nobody can tell them from timers that tick.       *)
(* CiaTod: the three accesses to the clock are as one.                       *)
EXTENDS Cia, CiaTod, Keyboard, WellFoundedInduction, TLAPS

-----------------------------------------------------------------------------
(* The keyboard.                                                             *)
Busy == host.pc # "idle"

(* The keys that left the ring, and where a slot of it is in the order.      *)
Behind == (taken \cup {ciaasdr, emul.key}) \ {0}
Pos(f, s) == IF s >= f THEN s - f ELSE s + Size - f

(* record_key's place, and what it has done to the slot it fills.            *)
HostInv ==
  /\ Busy => host.next = Wrap(kpb_first + 1) /\ pressed >= 1
  /\ host.pc = "advance" => keybuf[kpb_first] = pressed
  /\ host.pc = "idle" => host = HostIdle

(* get_next_key's place: it is only called when the register may be written. *)
EmulInv ==
  /\ emul.pc = "idle" => emul.key = 0
  /\ emul.pc # "idle" => kbstate = 2 /\ ciaasdr_unread = 0 /\ emul.key # 0
  /\ emul.pc # "wrap" => kpb_last < Size
  /\ kbstate < 2 => ciaasdr = 0

(* As long as no full ring was overlooked, the slot record_key goes on to is *)
(* not the one get_next_key goes on with, and not the one it reads.          *)
FullInv == ~beyond =>
  /\ Busy => host.next # From /\ (emul.pc # "wrap" => host.next # kpb_last)
  /\ emul.pc = "step" => kpb_first # kpb_last

(* Keys are in the order they were pressed: in the ring, and before it on    *)
(* their way to the 68k.                                                     *)
OrderInv ==
  /\ \A s, t \in Filled : Pos(From, s) < Pos(From, t) => keybuf[s] < keybuf[t]
  /\ \A s \in Filled : keybuf[s] \in 1..pressed /\ (Busy => keybuf[s] < pressed)
  /\ \A s \in Filled : \A k \in Behind : k < keybuf[s]
  /\ \A k \in Behind : k <= pressed /\ (Busy => k < pressed)
  /\ emul.key # 0 => \A k \in taken \cup {ciaasdr} : k < emul.key
  /\ ciaasdr # 0 => \A k \in taken : k <= ciaasdr

(* A key that may be replaced in the register was read, or waited long.      *)
HeldInv ==
  /\ ciaasdr_unread = 1 => waited = sleepyhead
  /\ ciaasdr_unread = 2 => ciaasdr \in taken \cup {0}
  /\ ciaasdr_unread = 0 => ciaasdr \in taken \cup {0} \/ waited >= GiveUp

KbInv == KbTypeOK /\ HostInv /\ EmulInv /\ FullInv /\ OrderInv /\ HeldInv /\ KeysConserved

Slot == 0 .. (Size - 1)

(* What is assumed of the ring's size and the bounds.                        *)
LEMMA SizeFacts ==
  /\ Size \in Nat /\ Size > 1 /\ GiveUp \in Nat /\ GiveUp > 0
  /\ MaxKeys \in Nat /\ MaxKbResets \in Nat
BY KeyboardAssumption DEF KeyboardAssumption

(* The parts of the type invariant.                                          *)
LEMMA TypeFacts ==
  ASSUME KbTypeOK
  PROVE  /\ keybuf \in [Slot -> Key \cup {0}] /\ kpb_first \in Slot /\ kpb_last \in 0..Size
         /\ pressed \in Nat /\ taken \subseteq Key /\ Key \subseteq Nat
         /\ ciaasdr \in Nat /\ emul.key \in Nat /\ host.next \in Slot
         /\ emul.pc \in {"idle", "step", "wrap"} /\ host.pc \in {"idle", "store", "advance"}
<1>1. Key \subseteq Nat
  BY SizeFacts DEF Key
<1>2. Slot = 0 .. Size - 1
  BY DEF Slot
<1>3. keybuf \in [Slot -> Key \cup {0}] /\ kpb_first \in Slot /\ kpb_last \in 0..Size
  BY <1>2 DEF KbTypeOK
<1>4. pressed \in Nat /\ taken \subseteq Key /\ ciaasdr \in Nat
  BY <1>1, SizeFacts DEF KbTypeOK
<1>5. emul.key \in Nat /\ emul.pc \in {"idle", "step", "wrap"}
  <2>1. emul \in [pc : {"idle", "step", "wrap"}, key : Key \cup {0}]
    BY DEF KbTypeOK
  <2>2. emul.key \in Key \cup {0} /\ emul.pc \in {"idle", "step", "wrap"}
    BY <2>1
  <2> QED
    BY <2>2, SizeFacts DEF Key
<1>6. host.next \in Slot /\ host.pc \in {"idle", "store", "advance"}
  BY <1>2 DEF KbTypeOK
<1> QED
  BY <1>1, <1>3, <1>4, <1>5, <1>6

(* The ring: the slots in use go from From up to kpb_first, which is none.   *)
LEMMA RingFacts ==
  ASSUME KbTypeOK, EmulInv
  PROVE  /\ From \in Slot /\ Filled \subseteq Slot /\ kpb_first \notin Filled
         /\ \A s \in Slot : Pos(From, s) \in Nat
         /\ \A s \in Filled : Pos(From, s) < Pos(From, kpb_first)
         /\ From # kpb_first => From \in Filled
         /\ \A s \in Filled : s # From => Pos(From, From) < Pos(From, s)
<1>1. /\ kpb_first \in Slot /\ kpb_last \in 0..Size /\ (emul.pc # "wrap" => kpb_last < Size)
  BY TypeFacts DEF EmulInv
<1>2. From \in Slot
  BY <1>1, SizeFacts DEF From, Wrap, Slot
<1>3. Filled \subseteq Slot /\ kpb_first \notin Filled /\ (From # kpb_first => From \in Filled)
  BY <1>1, <1>2, SizeFacts DEF Filled, Slot
<1>4. \A s \in Slot : Pos(From, s) \in Nat
  BY <1>2, SizeFacts DEF Pos, Slot
<1>5. \A s \in Filled : Pos(From, s) < Pos(From, kpb_first)
  BY <1>1, <1>2, SizeFacts DEF Filled, Pos, Slot
<1>6. \A s \in Filled : s # From => Pos(From, From) < Pos(From, s)
  BY <1>1, <1>2, SizeFacts DEF Filled, Pos, Slot
<1> QED
  BY <1>2, <1>3, <1>4, <1>5, <1>6

(* At the start no key is pressed and the ring is empty.                     *)
THEOREM KbInitially == KbInit => KbInv
<1> SUFFICES ASSUME KbInit PROVE KbInv
  OBVIOUS
<1>1. KbTypeOK
  <2>1. 0 \in 0 .. Size - 1 /\ 0 \in 0..Size /\ 0 \in 0..MaxKeys /\ 0 \in 0 .. GiveUp - 1 /\ 0 \in 0..MaxKbResets
    BY SizeFacts
  <2>2. keybuf \in [0 .. Size - 1 -> Key \cup {0}]
    BY DEF KbInit
  <2>3. host \in [pc : {"idle", "store", "advance"}, next : 0 .. Size - 1]
    BY <2>1 DEF KbInit, HostIdle
  <2>4. emul \in [pc : {"idle", "step", "wrap"}, key : Key \cup {0}]
    BY DEF KbInit
  <2>5. /\ spFlag \in BOOLEAN /\ craOut \in BOOLEAN /\ beyond \in BOOLEAN
        /\ isr \in {"idle", "read", "turn", "turned"}
    BY DEF KbInit
  <2>6. /\ kbstate \in 0..2 /\ ciaasdr_unread \in 0..2 /\ sleepyhead \in 0 .. GiveUp - 1
        /\ waited \in Nat /\ kbResets \in 0..MaxKbResets /\ pressed \in 0..MaxKeys
        /\ kpb_first \in 0 .. Size - 1 /\ kpb_last \in 0..Size
    BY <2>1 DEF KbInit
  <2>7. /\ taken \subseteq Key /\ refused \subseteq Key /\ dropped \subseteq Key /\ lost \subseteq Key
        /\ ciaasdr \in Key \cup {0}
    BY DEF KbInit
  <2> QED
    BY <2>2, <2>3, <2>4, <2>5, <2>6, <2>7 DEF KbTypeOK
<1>2. Filled = {} /\ From = 0
  BY SizeFacts DEF KbInit, Filled, From, Wrap
<1>3. HostInv /\ EmulInv /\ FullInv /\ HeldInv
  BY SizeFacts DEF KbInit, HostInv, EmulInv, FullInv, HeldInv, Busy, HostIdle
<1>4. OrderInv
  BY <1>2 DEF KbInit, OrderInv, Behind
<1>5. KeysConserved
  BY DEF KbInit, KeysConserved
<1> QED
  BY <1>1, <1>3, <1>4, <1>5 DEF KbInv

-----------------------------------------------------------------------------
(* Steps of the 68k, of a reset and of the handler between two keys leave    *)
(* the ring alone, and move a key only from the register.                    *)
LEMMA QuietStep ==
  ASSUME KbInv, KbTypeOK', UNCHANGED <<ringVars, hostVars, emul, beyond, lost>>,
         emul.pc = "idle", taken \subseteq taken', taken' \subseteq taken \cup ({ciaasdr} \ {0}),
         dropped \subseteq dropped', ciaasdr' \in {ciaasdr, 0},
         ciaasdr' = ciaasdr \/ ciaasdr \in taken' \cup dropped' \cup {0}
  PROVE  HostInv' /\ FullInv' /\ OrderInv' /\ KeysConserved'
<1>1. From' = From /\ Filled' = Filled /\ InRing' = InRing /\ Busy' = Busy
  BY DEF From, Filled, InRing, Busy, ringVars, hostVars
<1>2. HostInv'
  BY <1>1 DEF KbInv, HostInv, ringVars, hostVars
<1>3. FullInv'
  BY <1>1 DEF KbInv, FullInv, ringVars, hostVars
<1>4. Behind' \subseteq Behind
  BY DEF Behind
<1>5. OrderInv'
  <2>1. /\ \A s, t \in Filled' : Pos(From', s) < Pos(From', t) => keybuf'[s] < keybuf'[t]
        /\ \A s \in Filled' : keybuf'[s] \in 1..pressed' /\ (Busy' => keybuf'[s] < pressed')
    BY <1>1 DEF KbInv, OrderInv, ringVars, hostVars
  <2>2. /\ \A s \in Filled' : \A k \in Behind' : k < keybuf'[s]
        /\ \A k \in Behind' : k <= pressed' /\ (Busy' => k < pressed')
    BY <1>1, <1>4 DEF KbInv, OrderInv, ringVars, hostVars
  <2>3. emul'.key = 0
    BY DEF KbInv, EmulInv
  <2>4. ciaasdr' # 0 => \A k \in taken' : k <= ciaasdr'
    <3>1. ciaasdr \in Nat /\ ciaasdr # 0 => \A k \in taken : k <= ciaasdr
      BY DEF KbInv, OrderInv
    <3> QED
      BY <3>1, TypeFacts DEF KbInv
  <2> QED
    BY <2>1, <2>2, <2>3, <2>4 DEF OrderInv
<1>6. KeysConserved'
  BY <1>1 DEF KbInv, KeysConserved, hostVars
<1> QED
  BY <1>2, <1>3, <1>5, <1>6

(* Every step keeps the types.                                               *)
LEMMA TypesKept == ASSUME KbInv, KbNext PROVE KbTypeOK'
<1> DEFINE Places == [pc : {"idle", "store", "advance"}, next : 0 .. Size - 1]
           Stations == [pc : {"idle", "step", "wrap"}, key : Key \cup {0}]
<1>1. KbTypeOK
  BY DEF KbInv
<1>2. /\ Slot = 0 .. Size - 1 /\ 0 \in Slot /\ 0 \in 0..2 /\ 1 \in 0..2 /\ 2 \in 0..2
      /\ 0 \in 0 .. GiveUp - 1
  BY SizeFacts DEF Slot
<1>3. \A i \in Slot : Wrap(i + 1) \in Slot /\ i + 1 \in 0..Size /\ Wrap(i + 1) \in 0..Size
  BY SizeFacts DEF Slot, Wrap
<1>4. HostIdle \in Places
  BY <1>2 DEF HostIdle
<1>5. [pc |-> "idle", key |-> 0] \in Stations
  OBVIOUS
<1> HIDE DEF Places, Stations
<1>7. CASE record_key
  <2>1. pressed' \in 0..MaxKeys /\ pressed' \in Key
    BY <1>1, <1>7, SizeFacts DEF record_key, KbTypeOK, Key
  <2>2. host' \in Places
    <3>1. Wrap(kpb_first + 1) \in 0 .. Size - 1
      BY <1>1, <1>2, <1>3 DEF KbTypeOK
    <3>2. host \in Places
      BY <1>1 DEF KbTypeOK, Places
    <3>3. [pc |-> "store", next |-> Wrap(kpb_first + 1)] \in Places
      BY <3>1 DEF Places
    <3> QED
      BY <3>2, <3>3, <1>7 DEF record_key, hostVars
  <2>3. refused' \subseteq Key
    BY <1>1, <1>7, <2>1 DEF record_key, KbTypeOK
  <2>4. beyond' \in BOOLEAN
    BY <1>1, <1>7 DEF record_key, KbTypeOK
  <2> QED
    BY <1>1, <1>7, <2>1, <2>2, <2>3, <2>4 DEF record_key, KbTypeOK, ringVars, regVars, cpuVars, Places
<1>8. CASE HostStores
  <2>1. pressed \in Key \cup {0}
    BY <1>1, SizeFacts DEF KbTypeOK, Key
  <2>2. keybuf' \in [0 .. Size - 1 -> Key \cup {0}]
    BY <1>1, <1>8, <2>1 DEF HostStores, KbTypeOK
  <2>3. host' \in Places
    BY <1>1, <1>8 DEF HostStores, KbTypeOK, Places
  <2> QED
    BY <1>1, <1>8, <2>2, <2>3 DEF HostStores, KbTypeOK, regVars, cpuVars, Places
<1>9. CASE HostAdvances
  <2>1. host.next \in 0 .. Size - 1
    BY <1>1 DEF KbTypeOK
  <2>2. lost' \subseteq Key
    <3>1. pressed \in Key
      <4>1. pressed >= 1
        BY <1>9 DEF KbInv, HostInv, HostAdvances, Busy
      <4> QED
        BY <4>1, <1>1, SizeFacts DEF KbTypeOK, Key
    <3>2. InRing \subseteq Key
      BY <1>1, SizeFacts DEF KbInv, OrderInv, InRing, KbTypeOK, Key
    <3> QED
      BY <1>1, <1>9, <3>1, <3>2 DEF HostAdvances, KbTypeOK
  <2> QED
    BY <1>1, <1>4, <1>9, <2>1, <2>2 DEF HostAdvances, KbTypeOK, regVars, cpuVars, Places
<1>10. CASE WasTaken
  BY <1>1, <1>2, <1>10 DEF WasTaken, KbTypeOK, ringVars, hostVars, cpuVars
<1>11. CASE PowerUpCode
  <2>1. kbstate' \in 0..2
    BY <1>1, <1>11 DEF PowerUpCode, KbTypeOK
  <2>2. dropped' \subseteq Key
    BY <1>1, <1>11 DEF PowerUpCode, KbTypeOK
  <2> QED
    BY <1>1, <1>2, <1>11, <2>1, <2>2 DEF PowerUpCode, KbTypeOK, ringVars, hostVars, cpuVars
<1>12. CASE NextKey
  <2>1. kpb_last \in 0 .. Size - 1
    BY <1>1, <1>12, SizeFacts DEF NextKey, Chance, KbInv, EmulInv, KbTypeOK
  <2>2. emul' \in Stations
    BY <1>1, <1>12, <2>1 DEF NextKey, KbTypeOK, Stations
  <2> QED
    BY <1>1, <1>12, <2>2 DEF NextKey, KbTypeOK, ringVars, hostVars, regVars, cpuVars, Stations
<1>13. CASE EmulSteps
  <2>1. kpb_last \in Slot
    BY <1>1, <1>2, <1>13, SizeFacts DEF EmulSteps, KbInv, EmulInv, KbTypeOK
  <2>2. kpb_last' \in 0..Size
    BY <1>3, <1>13, <2>1 DEF EmulSteps
  <2>3. emul' \in Stations
    BY <1>1, <1>13 DEF EmulSteps, KbTypeOK, Stations
  <2> QED
    BY <1>1, <1>13, <2>2, <2>3 DEF EmulSteps, KbTypeOK, hostVars, regVars, cpuVars, Stations
<1>14. CASE Presents
  <2>1. kpb_last' \in 0..Size
    BY <1>1, <1>14, SizeFacts DEF Presents, KbTypeOK, Wrap
  <2>2. dropped' \subseteq Key
    BY <1>1, <1>14 DEF Presents, KbTypeOK
  <2>3. ciaasdr' \in Key \cup {0}
    BY <1>1, <1>14 DEF Presents, KbTypeOK
  <2> QED
    BY <1>1, <1>2, <1>5, <1>14, <2>1, <2>2, <2>3 DEF Presents, KbTypeOK, hostVars, cpuVars, Stations
<1>15. CASE Waits
  <2>1. sleepyhead' \in 0 .. GiveUp - 1
    BY <1>1, <1>15, SizeFacts DEF Waits, KbTypeOK
  <2>2. waited' \in Nat
    BY <1>1, <1>15 DEF Waits, KbTypeOK
  <2>3. ciaasdr_unread' \in 0..2
    BY <1>2, <1>15 DEF Waits
  <2> QED
    BY <1>1, <1>15, <2>1, <2>2, <2>3 DEF Waits, KbTypeOK, ringVars, hostVars, cpuVars
<1>16. CASE IsrBegins
  BY <1>1, <1>16 DEF IsrBegins, KbTypeOK, ringVars, hostVars
<1>17. CASE ReadSdr
  <2>1. taken' \subseteq Key
    BY <1>1, <1>17 DEF ReadSdr, KbTypeOK
  <2>2. ciaasdr_unread' \in 0..2
    BY <1>1, <1>2, <1>17 DEF ReadSdr, KbTypeOK
  <2> QED
    BY <1>1, <1>17, <2>1, <2>2 DEF ReadSdr, KbTypeOK, ringVars, hostVars
<1>18. CASE HandshakeBegins \/ HandshakeEnds
  BY <1>1, <1>18 DEF HandshakeBegins, HandshakeEnds, KbTypeOK, ringVars, hostVars, regVars
<1>19. CASE KbReset
  <2>1. kbResets' \in 0..MaxKbResets
    BY <1>1, <1>19, SizeFacts DEF KbReset, KbTypeOK
  <2>2. dropped' \subseteq Key
    BY <1>1, <1>19 DEF KbReset, KbTypeOK
  <2> QED
    BY <1>1, <1>2, <1>19, <2>1, <2>2 DEF KbReset, KbTypeOK, ringVars, hostVars
<1> QED
  BY <1>7, <1>8, <1>9, <1>10, <1>11, <1>12, <1>13, <1>14, <1>15, <1>16, <1>17, <1>18, <1>19
     DEF KbNext, HsyncHandler, Isr

(* The 68k, a reset, and chances of the handler that go by.                  *)
LEMMA QuietSteps ==
  ASSUME KbInv, KbTypeOK', WasTaken \/ PowerUpCode \/ Waits \/ Isr \/ KbReset
  PROVE  KbInv'
<1>1. KbTypeOK /\ emul.pc = "idle" /\ UNCHANGED <<ringVars, hostVars, emul, beyond, lost>>
  BY DEF KbInv, WasTaken, PowerUpCode, Waits, Isr, IsrBegins, ReadSdr, HandshakeBegins,
         HandshakeEnds, KbReset, Chance
<1>2. ciaasdr \in Nat /\ taken \subseteq Key
  BY <1>1, TypeFacts
<1>3. /\ taken \subseteq taken' /\ taken' \subseteq taken \cup ({ciaasdr} \ {0})
      /\ dropped \subseteq dropped' /\ ciaasdr' \in {ciaasdr, 0}
      /\ ciaasdr' = ciaasdr \/ ciaasdr \in taken' \cup dropped' \cup {0}
  <2>1. CASE WasTaken \/ Waits \/ IsrBegins \/ HandshakeBegins \/ HandshakeEnds
    BY <2>1 DEF WasTaken, Waits, IsrBegins, HandshakeBegins, HandshakeEnds, cpuVars, regVars
  <2>2. CASE PowerUpCode
    BY <2>2 DEF PowerUpCode, cpuVars
  <2>3. CASE ReadSdr
    BY <2>3 DEF ReadSdr
  <2>4. CASE KbReset
    BY <2>4 DEF KbReset
  <2> QED
    BY <2>1, <2>2, <2>3, <2>4 DEF Isr
<1>4. HostInv' /\ FullInv' /\ OrderInv' /\ KeysConserved'
  BY <1>1, <1>3, QuietStep
<1>5. EmulInv'
  <2>1. emul.key = 0 /\ kpb_last < Size /\ (kbstate < 2 => ciaasdr = 0)
    BY <1>1 DEF KbInv, EmulInv
  <2>2. kbstate' < 2 => ciaasdr' = 0
    <3>1. CASE PowerUpCode \/ KbReset
      BY <3>1 DEF PowerUpCode, KbReset
    <3>2. CASE WasTaken \/ Waits \/ Isr
      BY <2>1, <3>2 DEF WasTaken, Waits, Isr, IsrBegins, ReadSdr, HandshakeBegins, HandshakeEnds,
                        regVars
    <3> QED
      BY <3>1, <3>2
  <2> QED
    BY <1>1, <2>1, <2>2 DEF EmulInv, ringVars
<1>6. HeldInv'
  <2>1. HeldInv /\ waited \in Nat /\ sleepyhead \in 0 .. GiveUp - 1 /\ ciaasdr_unread \in 0..2
    BY DEF KbInv, KbTypeOK
  <2>2. CASE WasTaken
    BY <2>1, <2>2 DEF HeldInv, WasTaken, cpuVars
  <2>3. CASE PowerUpCode \/ KbReset
    BY <2>1, <2>3 DEF HeldInv, PowerUpCode, KbReset
  <2>4. CASE Waits
    BY <2>1, <2>4, SizeFacts DEF HeldInv, Waits, cpuVars
  <2>5. CASE Isr
    BY <2>1, <2>5 DEF HeldInv, Isr, IsrBegins, ReadSdr, HandshakeBegins, HandshakeEnds, regVars
  <2> QED
    BY <2>2, <2>3, <2>4, <2>5
<1> QED
  BY <1>4, <1>5, <1>6 DEF KbInv

(* A key is pressed: it is the latest, and the ring's slots are as they were.*)
LEMMA RecordStep == ASSUME KbInv, KbTypeOK', record_key PROVE KbInv'
<1>1. /\ KbTypeOK /\ ~Busy /\ pressed' = pressed + 1 /\ pressed \in Nat
      /\ UNCHANGED <<ringVars, emul, kbstate, regVars, cpuVars, dropped, waited, lost, kbResets>>
  BY TypeFacts DEF KbInv, record_key, Busy
<1>2. From' = From /\ Filled' = Filled /\ InRing' = InRing /\ Behind' = Behind
  BY <1>1 DEF From, Filled, InRing, Behind, ringVars, cpuVars, regVars
<1>3. HostInv'
  BY <1>1 DEF KbInv, HostInv, record_key, Busy, ringVars
<1>4. EmulInv' /\ HeldInv'
  BY <1>1 DEF KbInv, EmulInv, HeldInv, ringVars, regVars, cpuVars
<1>5. FullInv'
  <2> SUFFICES ASSUME ~beyond' PROVE
        /\ Busy' => host'.next # From /\ (emul.pc # "wrap" => host'.next # kpb_last)
        /\ emul.pc = "step" => kpb_first # kpb_last
    BY <1>1, <1>2 DEF FullInv, ringVars
  <2>1. ~beyond
    BY DEF record_key
  <2>2. emul.pc = "step" => kpb_first # kpb_last
    BY <2>1 DEF KbInv, FullInv
  <2>3. ASSUME Busy' PROVE host'.next # From /\ host'.next # kpb_last
    <3>1. host'.next = Wrap(kpb_first + 1) /\ host'.next # kpb_last /\ host'.next # Wrap(kpb_last)
      <4>1. Wrap(kpb_first + 1) # kpb_last
        BY <2>3, <1>1 DEF record_key, Busy
      <4>2. host' = [pc |-> "store", next |-> Wrap(kpb_first + 1)]
        BY <4>1 DEF record_key
      <4>3. beyond' = (beyond \/ Wrap(kpb_first + 1) = Wrap(kpb_last))
        BY <4>1 DEF record_key
      <4>4. Wrap(kpb_first + 1) # Wrap(kpb_last)
        BY <4>3, Zenon
      <4> QED
        BY <4>1, <4>2, <4>4
    <3>2. CASE emul.pc = "step"
      BY <3>1, <3>2, <2>2, <1>1, TypeFacts, SizeFacts DEF From, Wrap, Slot, KbInv, EmulInv
    <3>3. CASE emul.pc # "step"
      BY <3>1, <3>3 DEF From
    <3> QED
      BY <3>1, <3>2, <3>3
  <2> QED
    BY <2>2, <2>3
<1>6. OrderInv'
  <2>1. \A s \in Filled : keybuf[s] \in 1..pressed
    BY DEF KbInv, OrderInv
  <2>2. \A s \in Filled : keybuf[s] \in 1..(pressed + 1) /\ keybuf[s] < pressed + 1
    BY <2>1, <1>1
  <2>3. \A k \in Behind : k <= pressed + 1 /\ k < pressed + 1
    <3>1. \A k \in Behind : k <= pressed /\ k \in Nat
      BY <1>1, TypeFacts DEF KbInv, OrderInv, Behind
    <3> QED
      BY <3>1, <1>1
  <2> QED
    BY <1>1, <1>2, <2>2, <2>3 DEF KbInv, OrderInv, ringVars, regVars, cpuVars
<1>7. KeysConserved'
  <2>1. \A k \in 1..pressed' : k \in 1..pressed \/ k = pressed'
    BY <1>1
  <2>2. pressed' \in refused' \/ (host'.pc # "idle")
    BY DEF record_key
  <2>3. \A k \in 1..pressed : k \in refused \cup dropped \cup taken \cup InRing \cup lost
                              \/ k = ciaasdr \/ k = emul.key
    BY <1>1 DEF KbInv, KeysConserved, Busy
  <2>4. refused \subseteq refused' /\ (beyond => beyond')
    BY DEF record_key
  <2>5. lost' # {} => beyond'
    BY <1>1, <2>4 DEF KbInv, KeysConserved
  <2> QED
    BY <1>1, <1>2, <2>1, <2>2, <2>3, <2>4, <2>5 DEF KeysConserved, cpuVars, regVars
<1> QED
  BY <1>3, <1>4, <1>5, <1>6, <1>7 DEF KbInv

(* The key goes into the slot at kpb_first, which nobody reads.              *)
LEMMA StoreStep == ASSUME KbInv, KbTypeOK', HostStores PROVE KbInv'
<1>1. /\ KbTypeOK /\ host.pc = "store" /\ Busy /\ Busy' /\ host' = [host EXCEPT !.pc = "advance"]
      /\ keybuf' = [keybuf EXCEPT ![kpb_first] = pressed]
      /\ UNCHANGED <<kpb_first, kpb_last, pressed, refused, emul, kbstate, regVars, cpuVars,
                     dropped, waited, beyond, lost, kbResets>>
  BY DEF KbInv, HostStores, Busy
<1>2. From' = From /\ Filled' = Filled /\ Behind' = Behind
  BY <1>1 DEF From, Filled, Behind, cpuVars, regVars
<1>3. /\ keybuf \in [Slot -> Key \cup {0}] /\ kpb_first \in Slot
      /\ Filled \subseteq Slot /\ kpb_first \notin Filled
  BY <1>1, TypeFacts, RingFacts DEF KbInv
<1>4. (\A s \in Filled : keybuf'[s] = keybuf[s]) /\ keybuf'[kpb_first] = pressed
  BY <1>1, <1>3
<1>5. host'.next = host.next /\ host'.pc = "advance"
  BY <1>1 DEF KbTypeOK
<1>6. HostInv'
  BY <1>1, <1>4, <1>5 DEF KbInv, HostInv
<1>7. EmulInv' /\ HeldInv'
  BY <1>1 DEF KbInv, EmulInv, HeldInv, regVars, cpuVars
<1>8. FullInv'
  BY <1>1, <1>2, <1>5 DEF KbInv, FullInv
<1>9. OrderInv'
  BY <1>1, <1>2, <1>4 DEF KbInv, OrderInv, regVars, cpuVars
<1>10. KeysConserved'
  <2>1. InRing' = InRing
    BY <1>2, <1>4 DEF InRing
  <2> QED
    BY <1>1, <1>5, <2>1 DEF KbInv, KeysConserved, regVars, cpuVars
<1> QED
  BY <1>6, <1>7, <1>8, <1>9, <1>10 DEF KbInv

(* The slot becomes part of the ring, as its last; or it fills the ring up,  *)
(* and then the ring looks empty.                                            *)
LEMMA AdvanceStep == ASSUME KbInv, KbTypeOK', HostAdvances PROVE KbInv'
<1>1. /\ KbTypeOK /\ EmulInv /\ host.pc = "advance" /\ Busy /\ ~Busy' /\ host' = HostIdle
      /\ kpb_first' = host.next
      /\ lost' = (IF host.next = From THEN lost \cup InRing \cup {pressed} ELSE lost)
      /\ UNCHANGED <<keybuf, kpb_last, pressed, refused, emul, kbstate, regVars, cpuVars,
                     dropped, waited, beyond, kbResets>>
  BY DEF KbInv, HostAdvances, Busy, HostIdle
<1>2. From' = From /\ Behind' = Behind
  BY <1>1 DEF From, Behind, cpuVars, regVars
<1>3. /\ keybuf \in [Slot -> Key \cup {0}] /\ kpb_first \in Slot /\ host.next \in Slot
      /\ From \in Slot /\ Filled \subseteq Slot /\ kpb_first \notin Filled
      /\ \A s \in Filled : Pos(From, s) < Pos(From, kpb_first)
      /\ \A s \in Slot : Pos(From, s) \in Nat
  BY <1>1, TypeFacts, RingFacts
<1>4. /\ host.next = Wrap(kpb_first + 1) /\ keybuf[kpb_first] = pressed /\ pressed >= 1
      /\ pressed \in Nat
  BY <1>1, TypeFacts DEF KbInv, HostInv
<1>5. HostInv' /\ EmulInv' /\ HeldInv'
  <2>1. HostInv'
    BY <1>1 DEF HostInv, HostIdle
  <2>2. EmulInv'
    BY <1>1 DEF EmulInv, regVars
  <2>3. HeldInv'
    BY <1>1 DEF KbInv, HeldInv, regVars, cpuVars
  <2> QED
    BY <2>1, <2>2, <2>3
<1>6. FullInv'
  BY <1>1, <1>2 DEF KbInv, FullInv
<1>7. \A k \in Behind' : k <= pressed' /\ (Busy' => k < pressed')
  BY <1>1, <1>2 DEF KbInv, OrderInv
<1>8. /\ emul'.key # 0 => \A k \in taken' \cup {ciaasdr'} : k < emul'.key
      /\ ciaasdr' # 0 => \A k \in taken' : k <= ciaasdr'
  BY <1>1 DEF KbInv, OrderInv, regVars, cpuVars
<1>9. CASE host.next = From
  <2>1. Filled' = {}
    BY <1>1, <1>2, <1>3, <1>9, SizeFacts DEF Filled, Slot
  <2>2. OrderInv'
    BY <1>7, <1>8, <2>1 DEF OrderInv
  <2>3. beyond
    BY <1>1, <1>9 DEF KbInv, FullInv
  <2>4. KeysConserved'
    BY <1>1, <1>9, <2>3 DEF KbInv, KeysConserved, regVars, cpuVars
  <2> QED
    BY <1>5, <1>6, <2>2, <2>4 DEF KbInv
<1>10. CASE host.next # From
  <2>1. Filled' = Filled \cup {kpb_first}
    BY <1>1, <1>2, <1>3, <1>4, <1>10, SizeFacts DEF Filled, Wrap, Slot
  <2>2. \A s \in Filled : keybuf[s] \in 1..pressed /\ keybuf[s] < pressed
    BY <1>1 DEF KbInv, OrderInv
  <2>3. \A s, t \in Filled' : Pos(From', s) < Pos(From', t) => keybuf'[s] < keybuf'[t]
    <3> SUFFICES ASSUME NEW s \in Filled \cup {kpb_first}, NEW t \in Filled \cup {kpb_first},
                        Pos(From, s) < Pos(From, t)
                 PROVE  keybuf[s] < keybuf[t]
      BY <1>1, <1>2, <2>1
    <3>1. CASE s \in Filled /\ t \in Filled
      BY <3>1 DEF KbInv, OrderInv
    <3>2. CASE s \in Filled /\ t = kpb_first
      BY <3>2, <1>4, <2>2
    <3>3. CASE s = kpb_first
      <4>1. t = kpb_first \/ Pos(From, t) < Pos(From, kpb_first)
        BY <1>3
      <4>2. Pos(From, kpb_first) \in Nat /\ Pos(From, t) \in Nat
        BY <1>3
      <4> QED
        BY <3>3, <4>1, <4>2
    <3> QED
      BY <3>1, <3>2, <3>3
  <2>4. \A s \in Filled' : keybuf'[s] \in 1..pressed' /\ (Busy' => keybuf'[s] < pressed')
    <3>1. pressed \in 1..pressed
      BY <1>4
    <3> QED
      BY <1>1, <1>4, <2>1, <2>2, <3>1
  <2>5. \A s \in Filled' : \A k \in Behind' : k < keybuf'[s]
    <3>1. \A k \in Behind : k < pressed
      BY <1>1 DEF KbInv, OrderInv
    <3>2. \A s \in Filled : \A k \in Behind : k < keybuf[s]
      BY DEF KbInv, OrderInv
    <3> QED
      BY <1>1, <1>2, <1>4, <2>1, <3>1, <3>2
  <2>6. OrderInv'
    BY <1>7, <1>8, <2>3, <2>4, <2>5 DEF OrderInv
  <2>7. InRing' = InRing \cup {pressed}
    BY <1>1, <1>4, <2>1 DEF InRing
  <2>8. KeysConserved'
    BY <1>1, <1>10, <2>7 DEF KbInv, KeysConserved, regVars, cpuVars
  <2> QED
    BY <1>5, <1>6, <2>6, <2>8 DEF KbInv
<1> QED
  BY <1>9, <1>10

(* The first key of the ring is taken out of it.                             *)
LEMMA NextKeyStep == ASSUME KbInv, KbTypeOK', NextKey PROVE KbInv'
<1>1. /\ KbTypeOK /\ EmulInv /\ emul.pc = "idle" /\ kpb_first # kpb_last /\ kbstate = 2
      /\ ciaasdr_unread = 0 /\ emul' = [pc |-> "step", key |-> keybuf[kpb_last]]
      /\ UNCHANGED <<ringVars, hostVars, kbstate, regVars, cpuVars, dropped, waited, beyond, lost,
                     kbResets>>
  BY DEF KbInv, NextKey, Chance
<1>2. /\ keybuf \in [Slot -> Key \cup {0}] /\ kpb_first \in Slot /\ kpb_last \in Slot
      /\ pressed \in Nat
  BY <1>1, TypeFacts, SizeFacts DEF EmulInv, Slot
<1>3. From = kpb_last /\ From' = Wrap(kpb_last + 1)
  BY <1>1, <1>2, SizeFacts DEF From, Wrap, Slot, ringVars
<1>4. /\ kpb_last \in Filled /\ Filled \subseteq Slot
      /\ \A s \in Filled : s # kpb_last => Pos(From, From) < Pos(From, s)
  BY <1>1, <1>3, RingFacts
<1>5. Filled' = Filled \ {kpb_last}
  BY <1>1, <1>2, <1>3, SizeFacts DEF Filled, Wrap, Slot, ringVars
<1>6. \A s, t \in Filled' : Pos(From', s) < Pos(From', t) => Pos(From, s) < Pos(From, t)
  BY <1>2, <1>3, <1>4, <1>5, SizeFacts DEF Pos, Wrap, Slot
<1>7. emul'.key = keybuf[kpb_last] /\ emul'.pc = "step" /\ keybuf[kpb_last] \in 1..pressed
  BY <1>1, <1>4 DEF KbInv, OrderInv
<1>8. Behind' = Behind \cup {keybuf[kpb_last]} /\ Busy' = Busy
  <2>1. emul.key = 0 /\ keybuf[kpb_last] # 0
    BY <1>1, <1>7 DEF EmulInv
  <2> QED
    BY <1>1, <1>7, <2>1 DEF Behind, Busy, regVars, cpuVars, hostVars
<1>9. HostInv'
  BY <1>1, <1>8 DEF KbInv, HostInv, hostVars, ringVars
<1>10. EmulInv'
  <2>1. kpb_last < Size
    BY <1>2, SizeFacts DEF Slot
  <2> QED
    BY <1>1, <1>7, <2>1 DEF EmulInv, ringVars, regVars
<1>11. FullInv'
  <2> SUFFICES ASSUME ~beyond
               PROVE  Busy => host.next # From' /\ host.next # kpb_last
    BY <1>1, <1>7, <1>8 DEF FullInv, hostVars, ringVars
  <2>1. ASSUME Busy PROVE host.next # kpb_last /\ host.next = Wrap(kpb_first + 1)
    BY <1>1, <2>1 DEF KbInv, FullInv, HostInv
  <2>2. Wrap(kpb_first + 1) # Wrap(kpb_last + 1)
    BY <1>1, <1>2, SizeFacts DEF Wrap, Slot
  <2> QED
    BY <1>3, <2>1, <2>2
<1>12. HeldInv'
  BY <1>1 DEF KbInv, HeldInv, regVars, cpuVars
<1>13. OrderInv'
  <2>1. OrderInv
    BY DEF KbInv
  <2>2. \A s, t \in Filled' : Pos(From', s) < Pos(From', t) => keybuf'[s] < keybuf'[t]
    BY <1>1, <1>5, <1>6, <2>1 DEF OrderInv, ringVars
  <2>3. \A s \in Filled' : keybuf'[s] \in 1..pressed' /\ (Busy' => keybuf'[s] < pressed')
    BY <1>1, <1>5, <1>8, <2>1 DEF OrderInv, ringVars, hostVars
  <2>4. \A s \in Filled' : \A k \in Behind' : k < keybuf'[s]
    <3>1. \A s \in Filled' : \A k \in Behind : k < keybuf[s]
      BY <1>5, <2>1 DEF OrderInv
    <3>2. \A s \in Filled' : keybuf[kpb_last] < keybuf[s]
      BY <1>3, <1>4, <1>5, <2>1 DEF OrderInv
    <3> QED
      BY <1>1, <1>8, <3>1, <3>2 DEF ringVars
  <2>5. \A k \in Behind' : k <= pressed' /\ (Busy' => k < pressed')
    <3>1. keybuf[kpb_last] <= pressed /\ (Busy => keybuf[kpb_last] < pressed)
      BY <1>2, <1>4, <1>7, <2>1 DEF OrderInv
    <3> QED
      BY <1>1, <1>8, <2>1, <3>1 DEF OrderInv, hostVars
  <2>6. \A k \in taken \cup {ciaasdr} : k < keybuf[kpb_last]
    <3>1. \A k \in Behind : k < keybuf[kpb_last]
      BY <1>4, <2>1 DEF OrderInv
    <3>2. 0 < keybuf[kpb_last]
      BY <1>7, <1>2
    <3> QED
      BY <3>1, <3>2 DEF Behind
  <2>7. ciaasdr # 0 => \A k \in taken : k <= ciaasdr
    BY <2>1 DEF OrderInv
  <2> QED
    BY <1>1, <1>7, <2>2, <2>3, <2>4, <2>5, <2>6, <2>7 DEF OrderInv, regVars, cpuVars
<1>14. KeysConserved'
  <2>1. InRing = InRing' \cup {emul'.key}
    BY <1>1, <1>4, <1>5, <1>7 DEF InRing, ringVars
  <2>2. emul.key = 0
    BY <1>1 DEF EmulInv
  <2>3. \A k \in 1..pressed : k # 0
    BY <1>2
  <2> QED
    BY <1>1, <2>1, <2>2, <2>3 DEF KbInv, KeysConserved, regVars, cpuVars, hostVars
<1> QED
  BY <1>9, <1>10, <1>11, <1>12, <1>13, <1>14 DEF KbInv

(* kpb_last goes on, by way of Size or not: the ring is the same.            *)
LEMMA EmulStepsStep == ASSUME KbInv, KbTypeOK', EmulSteps PROVE KbInv'
<1>1. /\ KbTypeOK /\ EmulInv /\ emul.pc = "step" /\ emul' = [emul EXCEPT !.pc = "wrap"]
      /\ kpb_last' \in {kpb_last + 1, Wrap(kpb_last + 1)}
      /\ UNCHANGED <<keybuf, kpb_first, hostVars, kbstate, regVars, cpuVars, dropped, waited,
                     beyond, lost, kbResets>>
  BY DEF KbInv, EmulSteps
<1>2. emul'.pc = "wrap" /\ emul'.key = emul.key
  BY <1>1 DEF KbTypeOK
<1>3. kpb_last \in 0 .. (Size - 1)
  BY <1>1, TypeFacts, SizeFacts DEF EmulInv
<1>4. From' = From
  <2>1. From = Wrap(kpb_last + 1) /\ From' = Wrap(kpb_last')
    BY <1>1, <1>2 DEF From
  <2> QED
    BY <1>1, <1>3, <2>1, SizeFacts DEF Wrap
<1>5. Filled' = Filled /\ InRing' = InRing /\ Behind' = Behind /\ Busy' = Busy
  BY <1>1, <1>2, <1>4 DEF Filled, InRing, Behind, Busy, regVars, cpuVars, hostVars
<1>6. HostInv' /\ FullInv'
  BY <1>1, <1>2, <1>4, <1>5 DEF KbInv, HostInv, FullInv, hostVars
<1>7. EmulInv' /\ HeldInv'
  BY <1>1, <1>2 DEF KbInv, EmulInv, HeldInv, regVars, cpuVars
<1>8. OrderInv'
  BY <1>1, <1>2, <1>4, <1>5 DEF KbInv, OrderInv, regVars, cpuVars, hostVars
<1>9. KeysConserved'
  BY <1>1, <1>2, <1>5 DEF KbInv, KeysConserved, regVars, cpuVars, hostVars
<1> QED
  BY <1>6, <1>7, <1>8, <1>9 DEF KbInv

(* The key goes into the register, whose key was read or is dropped.         *)
LEMMA PresentsStep == ASSUME KbInv, KbTypeOK', Presents PROVE KbInv'
<1>1. /\ KbTypeOK /\ EmulInv /\ emul.pc = "wrap" /\ emul' = [pc |-> "idle", key |-> 0]
      /\ kpb_last' = Wrap(kpb_last) /\ ciaasdr' = emul.key
      /\ dropped' = (IF ciaasdr \in taken \cup {0} THEN dropped ELSE dropped \cup {ciaasdr})
      /\ ciaasdr_unread' = 1 /\ sleepyhead' = 0 /\ waited' = 0
      /\ UNCHANGED <<keybuf, kpb_first, hostVars, kbstate, cpuVars, beyond, lost, kbResets>>
  BY DEF KbInv, Presents
<1>2. emul'.pc = "idle" /\ emul'.key = 0
  BY <1>1
<1>3. From = Wrap(kpb_last) /\ kpb_last' < Size /\ Wrap(kpb_last') = kpb_last'
  <2>1. kpb_last \in Nat /\ kpb_last <= Size
    BY <1>1, TypeFacts, SizeFacts
  <2>2. From = Wrap(kpb_last)
    BY <1>1 DEF From
  <2> QED
    BY <1>1, <2>1, <2>2, SizeFacts DEF Wrap
<1>4. From' = From /\ kpb_last' = From
  <2>1. From' = Wrap(kpb_last')
    BY <1>2 DEF From
  <2> QED
    BY <1>1, <1>3, <2>1
<1>5. Filled' = Filled /\ InRing' = InRing /\ Behind' \subseteq Behind /\ Busy' = Busy
  BY <1>1, <1>2, <1>4 DEF Filled, InRing, Behind, Busy, cpuVars, hostVars
<1>6. HostInv'
  BY <1>1, <1>5 DEF KbInv, HostInv, hostVars
<1>7. FullInv'
  BY <1>1, <1>2, <1>4, <1>5 DEF KbInv, FullInv, hostVars
<1>8. EmulInv' /\ HeldInv'
  BY <1>1, <1>2, <1>3 DEF EmulInv, HeldInv
<1>9. OrderInv'
  <2>1. OrderInv
    BY DEF KbInv
  <2>2. /\ \A s, t \in Filled' : Pos(From', s) < Pos(From', t) => keybuf'[s] < keybuf'[t]
        /\ \A s \in Filled' : keybuf'[s] \in 1..pressed' /\ (Busy' => keybuf'[s] < pressed')
    BY <1>1, <1>4, <1>5, <2>1 DEF OrderInv, hostVars
  <2>3. /\ \A s \in Filled' : \A k \in Behind' : k < keybuf'[s]
        /\ \A k \in Behind' : k <= pressed' /\ (Busy' => k < pressed')
    BY <1>1, <1>5, <2>1 DEF OrderInv, hostVars
  <2>4. \A k \in taken' : k <= ciaasdr'
    <3>1. \A k \in taken : k < emul.key /\ k \in Nat
      BY <1>1, <2>1, TypeFacts DEF OrderInv, EmulInv
    <3>2. emul.key \in Nat
      BY <1>1, TypeFacts
    <3> QED
      BY <1>1, <3>1, <3>2 DEF cpuVars
  <2> QED
    BY <1>2, <2>2, <2>3, <2>4 DEF OrderInv
<1>10. KeysConserved'
  <2>1. ciaasdr \in taken \cup {0} \cup dropped' /\ dropped \subseteq dropped'
    BY <1>1
  <2>2. \A k \in 1..pressed : k # 0
    BY <1>1, TypeFacts
  <2> QED
    BY <1>1, <1>5, <2>1, <2>2 DEF KbInv, KeysConserved, cpuVars, hostVars
<1> QED
  BY <1>6, <1>7, <1>8, <1>9, <1>10 DEF KbInv

-----------------------------------------------------------------------------
(* The invariant is inductive: every step of the three parties keeps it.     *)
THEOREM KbInductive == KbInv /\ [KbNext]_kbVars => KbInv'
<1> SUFFICES ASSUME KbInv, [KbNext]_kbVars PROVE KbInv'
  OBVIOUS
<1>1. CASE KbNext
  <2>1. KbTypeOK'
    BY <1>1, TypesKept
  <2>2. CASE record_key
    BY <2>1, <2>2, RecordStep
  <2>3. CASE HostStores
    BY <2>1, <2>3, StoreStep
  <2>4. CASE HostAdvances
    BY <2>1, <2>4, AdvanceStep
  <2>5. CASE NextKey
    BY <2>1, <2>5, NextKeyStep
  <2>6. CASE EmulSteps
    BY <2>1, <2>6, EmulStepsStep
  <2>7. CASE Presents
    BY <2>1, <2>7, PresentsStep
  <2>8. CASE WasTaken \/ PowerUpCode \/ Waits \/ Isr \/ KbReset
    BY <2>1, <2>8, QuietSteps
  <2> QED
    BY <1>1, <2>2, <2>3, <2>4, <2>5, <2>6, <2>7, <2>8 DEF KbNext, HsyncHandler
<1>2. CASE UNCHANGED kbVars
  <2>1. From' = From /\ Filled' = Filled /\ InRing' = InRing /\ Behind' = Behind /\ Busy' = Busy
    BY <1>2 DEF From, Filled, InRing, Behind, Busy, kbVars, ringVars, hostVars, regVars, cpuVars
  <2>2. KbTypeOK'
    BY <1>2 DEF KbInv, KbTypeOK, kbVars, ringVars, hostVars, regVars, cpuVars
  <2>3. HostInv' /\ EmulInv' /\ FullInv' /\ HeldInv'
    BY <1>2, <2>1 DEF KbInv, HostInv, EmulInv, FullInv, HeldInv, kbVars, ringVars, hostVars,
                      regVars, cpuVars
  <2>4. OrderInv' /\ KeysConserved'
    BY <1>2, <2>1 DEF KbInv, OrderInv, KeysConserved, kbVars, ringVars, hostVars, regVars, cpuVars
  <2> QED
    BY <2>2, <2>3, <2>4 DEF KbInv
<1> QED
  BY <1>1, <1>2

(* So it holds throughout.                                                   *)
THEOREM KbInvariant == KbSpec => []KbInv
BY KbInitially, KbInductive, PTL DEF KbSpec

(* The ring's pointers, the register and the handshake keep to their values. *)
THEOREM KbTypes == KbSpec => []KbTypeOK
<1>1. KbInv => KbTypeOK
  BY DEF KbInv
<1> QED
  BY <1>1, KbInvariant, PTL

(* "This code should be perfectly thread safe" (keybuf.c:6), with the one    *)
(* exception that KeysConserved names: for a ring of any size and any number *)
(* of keys, none is lost unless record_key took a full ring for another.     *)
THEOREM KeysAreConserved == KbSpec => []KeysConserved
<1>1. KbInv => KeysConserved
  BY DEF KbInv
<1> QED
  BY <1>1, KbInvariant, PTL

(* A key the 68k reads for the first time was pressed after all it has read. *)
THEOREM KeysAreReadInOrder == KbSpec => KeysInOrder
<1>1. ASSUME KbInv, [KbNext]_kbVars, NEW k \in taken' \ taken, NEW j \in taken PROVE j < k
  <2>1. ReadSdr
    BY <1>1 DEF KbNext, HsyncHandler, Isr, record_key, HostStores, HostAdvances, WasTaken,
                PowerUpCode, NextKey, EmulSteps, Presents, Waits, IsrBegins, HandshakeBegins,
                HandshakeEnds, KbReset, kbVars, cpuVars
  <2>2. k = ciaasdr /\ ciaasdr # 0
    BY <1>1, <2>1 DEF ReadSdr
  <2>3. j <= ciaasdr /\ j # k
    BY <1>1, <2>2 DEF KbInv, OrderInv
  <2>4. j \in Nat /\ ciaasdr \in Nat
    BY <1>1, TypeFacts DEF KbInv
  <2> QED
    BY <2>2, <2>3, <2>4
<1>2. KbInv /\ [KbNext]_kbVars => [\A k \in taken' \ taken : \A j \in taken : j < k]_kbVars
  BY <1>1
<1> QED
  BY <1>2, KbInvariant, PTL DEF KbSpec, KeysInOrder

(* A key the 68k has not read is replaced only after GiveUp chances, or by a *)
(* reset, whatever the two threads and the 68k's interrupt do meanwhile.     *)
THEOREM UnreadKeysWait == KbSpec => UnreadKeysAreHeld
<1>1. ASSUME KbInv, [KbNext]_kbVars, NEW k \in dropped' \ dropped
      PROVE  waited >= GiveUp \/ kbResets' # kbResets
  <2>1. CASE PowerUpCode \/ Presents
    <3>1. ciaasdr_unread = 0
      BY <1>1, <2>1 DEF PowerUpCode, Presents, KbInv, EmulInv
    <3>2. ciaasdr \notin taken \cup {0}
      BY <1>1, <2>1 DEF PowerUpCode, Presents
    <3> QED
      BY <1>1, <3>1, <3>2 DEF KbInv, HeldInv
  <2>2. CASE KbReset
    BY <1>1, <2>2 DEF KbReset, KbInv, KbTypeOK
  <2>3. ~ UNCHANGED dropped
    BY <1>1
  <2> QED
    BY <1>1, <2>1, <2>2, <2>3
       DEF KbNext, HsyncHandler, Isr, record_key, HostStores, HostAdvances, WasTaken, NextKey,
           EmulSteps, Waits, IsrBegins, ReadSdr, HandshakeBegins, HandshakeEnds, kbVars
<1>2. KbInv /\ [KbNext]_kbVars
      => [\A k \in dropped' \ dropped : waited >= GiveUp \/ kbResets' # kbResets]_kbVars
  BY <1>1
<1> QED
  BY <1>2, KbInvariant, PTL DEF KbSpec, UnreadKeysAreHeld

-----------------------------------------------------------------------------
(* Arithmetic of ticks: a time in cycles is so many ticks and a rest.        *)
LEMMA TickSplit ==
  ASSUME NEW d \in Nat, d > 0, NEW x \in Nat
  PROVE  x \div d \in Nat /\ x % d \in 0 .. d - 1 /\ x = d * (x \div d) + (x % d)
<1>1. x \div d \in Nat
  OBVIOUS
<1>2. x % d \in 0 .. d - 1
  OBVIOUS
<1>3. x = d * (x \div d) + (x % d)
  OBVIOUS
<1> QED
  BY <1>1, <1>2, <1>3

(* A time that is given as ticks and a rest has these ticks.                 *)
LEMMA TicksOf ==
  ASSUME NEW d \in Nat, d > 0, NEW q \in Nat, NEW r \in 0 .. d - 1
  PROVE  (d * q + r) \div d = q /\ (d * q + r) % d = r
<1>1. (d * q + r) \div d = q
  OBVIOUS
<1>2. (d * q + r) % d = r
  OBVIOUS
<1> QED
  BY <1>1, <1>2

(* Multiplication keeps order.                                               *)
LEMMA TimesOrder ==
  ASSUME NEW d \in Nat, d > 0, NEW p \in Nat, NEW q \in Nat
  PROVE  d * p \in Nat /\ (p < q => d * p + d <= d * q) /\ (p <= q => d * p <= d * q)
         /\ d * (p + 1) = d * p + d
<1>1. d * p \in Nat /\ d * q \in Nat
  OBVIOUS
<1>2. p < q => d * p + d <= d * q
  OBVIOUS
<1>3. d * (p + 1) = d * p + d
  OBVIOUS
<1>4. p <= q => d * p <= d * q
  BY <1>1, <1>2
<1> QED
  BY <1>1, <1>2, <1>3, <1>4

(* Before the end of a tick its number is not exceeded.                      *)
LEMMA TicksBelow ==
  ASSUME NEW d \in Nat, d > 0, NEW x \in Nat, NEW n \in Nat, x < d * n + d
  PROVE  x \div d <= n
<1> DEFINE q == x \div d
<1>1. q \in Nat /\ d * q <= x
  BY TickSplit
<1> HIDE DEF q
<1>2. n < q => d * n + d <= d * q
  BY <1>1, TimesOrder
<1>3. d * n \in Nat /\ d * q \in Nat
  BY <1>1, TimesOrder
<1>4. q <= n
  BY <1>1, <1>2, <1>3
<1> QED
  BY <1>4 DEF q

(* One cycle more is one tick more when it ends the tick.                    *)
LEMMA NextCycle ==
  ASSUME NEW d \in Nat, d > 0, NEW x \in Nat
  PROVE  /\ (x + 1) % d = ((x % d) + 1) % d
         /\ (x + 1) % d = 0 => (x + 1) \div d = x \div d + 1
         /\ (x + 1) % d # 0 => (x + 1) \div d = x \div d
<1> DEFINE q == x \div d
           r == x % d
<1>1. q \in Nat /\ r \in 0 .. d - 1 /\ x = d * q + r
  BY TickSplit
<1> HIDE DEF q, r
<1>2. CASE r + 1 < d
  <2>1. x + 1 = d * q + (r + 1) /\ r + 1 \in 0 .. d - 1 /\ r + 1 # 0
    BY <1>1, <1>2, TimesOrder
  <2>2. (x + 1) \div d = q /\ (x + 1) % d = r + 1
    BY <1>1, <2>1, TicksOf
  <2>3. (r + 1) % d = r + 1
    BY <1>1, <2>1
  <2> QED
    BY <2>1, <2>2, <2>3 DEF q, r
<1>3. CASE r + 1 = d
  <2>1. x + 1 = d * (q + 1) + 0 /\ 0 \in 0 .. d - 1 /\ q + 1 \in Nat
    BY <1>1, <1>3, TimesOrder
  <2>2. (d * (q + 1) + 0) \div d = q + 1 /\ (d * (q + 1) + 0) % d = 0
    BY <2>1, TicksOf
  <2>3. (r + 1) % d = 0
    BY <1>3, <1>1
  <2> QED
    BY <2>1, <2>2, <2>3 DEF q, r
<1> QED
  BY <1>1, <1>2, <1>3

(* The least of a set of numbers is in it.                                   *)
LEMMA LeastIsIn ==
  ASSUME NEW S, S \subseteq Nat, S # {}
  PROVE  Min(S) \in S /\ \A x \in S : Min(S) <= x
<1>1. PICK x \in S : \A y \in S : ~(<<y, x>> \in OpToRel(<, Nat))
  BY NatLessThanWellFounded, WFMin
<1>2. ASSUME NEW y \in S PROVE x <= y
  <2>1. x \in Nat /\ y \in Nat
    OBVIOUS
  <2>2. OpToRel(<, Nat) = {ss \in Nat \X Nat : ss[1] < ss[2]}
    BY DEF OpToRel
  <2>3. ~ (y < x)
    BY <1>1, <2>1, <2>2
  <2> QED
    BY <2>1, <2>3
<1> QED
  BY <1>2 DEF Min

-----------------------------------------------------------------------------
(* What is assumed of the constants.                                         *)
LEMMA CiaFacts ==
  /\ DIV10 \in Nat /\ DIV10 > 0 /\ HsyncTime \in Nat /\ HsyncTime > 0 /\ Byte \in Nat /\ Byte > 0
  /\ SdrBits \in Nat /\ SdrBits > 0 /\ ResetLatch \in Timer /\ Timer \subseteq Nat
  /\ \A c \in Chip : Writes[c] \subseteq RegWrites
  /\ MaskVals \subseteq SUBSET IcrBits /\ Flags \subseteq IcrBits
<1>1. Byte \in Nat /\ Byte > 0 /\ SdrBits \in Nat /\ SdrBits > 0 /\ ResetLatch \in Timer
  BY CiaChipAssumption DEF CiaChipAssumption
<1>2. DIV10 \in Nat /\ DIV10 > 0 /\ HsyncTime \in Nat /\ HsyncTime > 0
      /\ (\A c \in Chip : Writes[c] \subseteq RegWrites)
      /\ MaskVals \subseteq SUBSET IcrBits /\ Flags \subseteq IcrBits
  BY CiaAssumption DEF CiaAssumption
<1>3. Timer \subseteq Nat
  BY DEF Timer
<1> QED
  BY <1>1, <1>2, <1>3

-----------------------------------------------------------------------------
(* What the timers' events depend on.                                        *)
SameTimers(j, k) == j.ta = k.ta /\ j.tb = k.tb /\ j.cra = k.cra /\ j.crb = k.crb

(* The parts of a CIA's registers.                                           *)
LEMMA RegisterFacts ==
  ASSUME NEW k \in Registers
  PROVE  /\ k.ta \in Timer /\ k.tb \in Timer /\ k.la \in Timer /\ k.lb \in Timer
         /\ k.cra \subseteq CraBits /\ k.crb \subseteq CrbBits /\ k.sdr_cnt \in 0..SdrBits
         /\ k.icr \subseteq IcrBits /\ k.imask \subseteq IcrBits /\ k.ir \in BOOLEAN
         /\ k.ta \in Nat /\ k.tb \in Nat /\ k.ta + 1 <= Byte * Byte /\ k.tb + 1 <= Byte * Byte
<1>1. /\ k.ta \in Timer /\ k.tb \in Timer /\ k.la \in Timer /\ k.lb \in Timer
      /\ k.cra \subseteq CraBits /\ k.crb \subseteq CrbBits /\ k.sdr_cnt \in 0..SdrBits
      /\ k.icr \subseteq IcrBits /\ k.imask \subseteq IcrBits /\ k.ir \in BOOLEAN
  BY DEF Registers
<1>2. Byte * Byte \in Nat
  BY CiaFacts, TimesOrder
<1> DEFINE m == Byte * Byte
<1>3. m \in Nat /\ k.ta \in 0 .. m - 1 /\ k.tb \in 0 .. m - 1
  BY <1>1, <1>2 DEF Timer
<1> HIDE DEF m
<1>4. k.ta \in Nat /\ k.tb \in Nat /\ k.ta + 1 <= m /\ k.tb + 1 <= m
  BY <1>3
<1> QED
  BY <1>1, <1>4 DEF m

(* RethinkICR changes bit 7 only.                                            *)
LEMMA RethinkKeeps ==
  ASSUME NEW k \in Registers
  PROVE  /\ RethinkICR(k) \in Registers /\ SameTimers(RethinkICR(k), k)
         /\ RethinkICR(k).ir <=> k.imask \cap k.icr # {}
<1>1. (k.imask \cap k.icr # {}) \in BOOLEAN
  OBVIOUS
<1> DEFINE b == k.imask \cap k.icr # {}
<1>2. b \in BOOLEAN
  OBVIOUS
<1>3. RethinkICR(k) = [k EXCEPT !.ir = b]
  BY DEF RethinkICR
<1> HIDE DEF b
<1>4. [k EXCEPT !.ir = b] \in Registers /\ SameTimers([k EXCEPT !.ir = b], k) /\ [k EXCEPT !.ir = b].ir = b
  BY <1>2 DEF Registers, SameTimers
<1> QED
  BY <1>3, <1>4 DEF b

(* A flag that is raised does not change the timers.                         *)
LEMMA RaiseKeeps ==
  ASSUME NEW k \in Registers, NEW F \in SUBSET IcrBits
  PROVE  Raise(k, F) \in Registers /\ SameTimers(Raise(k, F), k)
<1> DEFINE icr == k.icr \cup F
           j == [k EXCEPT !.icr = icr]
<1>1. icr \in SUBSET IcrBits
  BY RegisterFacts
<1>2. Raise(k, F) = RethinkICR(j)
  BY DEF Raise
<1>3. j \in Registers /\ SameTimers(j, k)
  <2> HIDE DEF icr
  <2> QED
    BY <1>1 DEF Registers, SameTimers
<1> HIDE DEF j
<1> QED
  BY <1>2, <1>3, RethinkKeeps DEF SameTimers

(* Nor does a write of the mask, or a read of the flags.                     *)
LEMMA MaskKeeps ==
  ASSUME NEW k \in Registers, NEW s \in BOOLEAN, NEW b \in SUBSET IcrBits
  PROVE  WriteMask(k, s, b) \in Registers /\ SameTimers(WriteMask(k, s, b), k) /\ WriteMask(k, s, b).ir = k.ir
<1> DEFINE m == IF s THEN k.imask \cup b ELSE k.imask \ b
<1>1. m \in SUBSET IcrBits
  BY RegisterFacts
<1>2. WriteMask(k, s, b) = [k EXCEPT !.imask = m]
  BY DEF WriteMask
<1> HIDE DEF m
<1> QED
  BY <1>1, <1>2 DEF Registers, SameTimers

(* A read of the flags clears them.                                          *)
LEMMA ReadIcrKeeps ==
  ASSUME NEW k \in Registers
  PROVE  ReadIcr(k) \in Registers /\ SameTimers(ReadIcr(k), k) /\ ~ReadIcr(k).ir
<1> DEFINE j == [k EXCEPT !.icr = {}]
<1>1. j \in Registers /\ SameTimers(j, k) /\ j.icr = {}
  BY DEF Registers, SameTimers
<1>2. ReadIcr(k) = RethinkICR(j)
  BY DEF ReadIcr
<1> HIDE DEF j
<1> QED
  BY <1>1, <1>2, RethinkKeeps DEF SameTimers

(* A byte that replaces one of a timer's two.                                *)
LEMMA BytesFit ==
  ASSUME NEW x \in Timer, NEW v \in 0 .. Byte - 1
  PROVE  WithLo(x, v) \in Timer /\ WithHi(x, v) \in Timer
<1>1. x \in Nat /\ Byte \in Nat /\ Byte > 0 /\ Byte * Byte \in Nat
  BY CiaFacts, TimesOrder
<1> DEFINE q == x \div Byte
           r == x % Byte
           m == Byte * Byte
<1>2. q \in Nat /\ r \in 0 .. Byte - 1 /\ x = Byte * q + r
  BY <1>1, TickSplit
<1>3. m \in Nat /\ x < m
  BY <1>1 DEF Timer
<1> HIDE DEF q, r
<1>4. /\ Byte * q \in Nat /\ (Byte <= q => Byte * Byte <= Byte * q)
      /\ (q < Byte => Byte * q + Byte <= m)
      /\ Byte * v \in Nat /\ (v < Byte => Byte * v + Byte <= m)
  BY <1>1, <1>2, TimesOrder
<1>5. q * Byte = Byte * q /\ v * Byte = Byte * v
  BY <1>1, <1>2
<1> DEFINE z == Byte * q
           w == Byte * v
<1>6. WithLo(x, v) = z + v /\ WithHi(x, v) = r + w
  BY <1>5 DEF WithLo, WithHi, q, r
<1>7. Timer = 0 .. m - 1
  BY DEF Timer
<1>8. z \in Nat /\ w \in Nat /\ (Byte <= q => m <= z) /\ (q < Byte => z + Byte <= m) /\ w + Byte <= m
  BY <1>1, <1>4
<1>9. x = z + r
  BY <1>2
<1> HIDE DEF z, w, m
<1>10. q < Byte
  BY <1>1, <1>2, <1>3, <1>8, <1>9
<1> QED
  BY <1>1, <1>2, <1>3, <1>6, <1>7, <1>8, <1>10

(* A write to a register of a timer gives registers, and leaves bit 7.       *)
LEMMA WritesKeep ==
  ASSUME NEW k \in Registers, NEW w \in RegWrites
  PROVE  WriteReg(k, w.reg, w.val) \in Registers /\ WriteReg(k, w.reg, w.val).ir = k.ir
<1> USE RegisterFacts
<1>1. CASE w.reg \in {"talo", "tahi", "tblo", "tbhi", "sdr"}
  <2>1. w.val \in 0 .. Byte - 1
    BY <1>1 DEF RegWrites
  <2> DEFINE v == w.val
             lal == WithLo(k.la, v)
             lah == WithHi(k.la, v)
             lbl == WithLo(k.lb, v)
             lbh == WithHi(k.lb, v)
             ta == IF "start" \notin k.cra \/ "oneshot" \in k.cra THEN lah ELSE k.ta
             tb == IF "start" \notin k.crb \/ "oneshot" \in k.crb THEN lbh ELSE k.tb
             cra == IF "oneshot" \in k.cra THEN k.cra \cup {"start"} ELSE k.cra
             crb == IF "oneshot" \in k.crb THEN k.crb \cup {"start"} ELSE k.crb
             left == IF "out" \in k.cra THEN k.sdr_cnt ELSE 0
             sdr == IF {"out", "start"} \subseteq k.cra /\ left = 0 THEN SdrBits ELSE left
  <2>2. lal \in Timer /\ lah \in Timer /\ lbl \in Timer /\ lbh \in Timer
    BY <2>1, BytesFit
  <2>3. ta \in Timer /\ tb \in Timer
    BY <2>2
  <2>4. cra \subseteq CraBits /\ crb \subseteq CrbBits
    BY DEF CraBits, CrbBits
  <2>5. sdr \in 0..SdrBits
    BY CiaFacts
  <2>6. WriteReg(k, w.reg, w.val) \in
          {[k EXCEPT !.la = lal], [k EXCEPT !.la = lah, !.ta = ta, !.cra = cra],
           [k EXCEPT !.lb = lbl], [k EXCEPT !.lb = lbh, !.tb = tb, !.crb = crb],
           [k EXCEPT !.sdr_cnt = sdr]}
    BY <1>1 DEF WriteReg, WriteTaHi, WriteTbHi, WriteSdr
  <2> HIDE DEF lal, lah, lbl, lbh, ta, tb, cra, crb, sdr
  <2>7. /\ [k EXCEPT !.la = lal] \in Registers /\ [k EXCEPT !.lb = lbl] \in Registers
        /\ [k EXCEPT !.la = lal].ir = k.ir /\ [k EXCEPT !.lb = lbl].ir = k.ir
    BY <2>2 DEF Registers
  <2>8. /\ [k EXCEPT !.la = lah, !.ta = ta, !.cra = cra] \in Registers
        /\ [k EXCEPT !.la = lah, !.ta = ta, !.cra = cra].ir = k.ir
    BY <2>2, <2>3, <2>4 DEF Registers
  <2>9. /\ [k EXCEPT !.lb = lbh, !.tb = tb, !.crb = crb] \in Registers
        /\ [k EXCEPT !.lb = lbh, !.tb = tb, !.crb = crb].ir = k.ir
    BY <2>2, <2>3, <2>4 DEF Registers
  <2>10. [k EXCEPT !.sdr_cnt = sdr] \in Registers /\ [k EXCEPT !.sdr_cnt = sdr].ir = k.ir
    BY <2>5 DEF Registers
  <2> QED
    BY <2>6, <2>7, <2>8, <2>9, <2>10, Zenon
<1>2. CASE w.reg = "cra"
  <2>1. w.val.bits \subseteq CraBits
    BY <1>2 DEF RegWrites
  <2> DEFINE ta == IF w.val.load THEN k.la ELSE k.ta
             bits == w.val.bits
  <2>2. WriteReg(k, w.reg, w.val) = [k EXCEPT !.cra = bits, !.ta = ta]
    BY <1>2 DEF WriteReg
  <2>3. ta \in Timer
    OBVIOUS
  <2> HIDE DEF ta, bits
  <2>4. bits \in SUBSET CraBits
    BY <2>1 DEF bits
  <2> QED
    BY <2>2, <2>3, <2>4 DEF Registers
<1>3. CASE w.reg = "crb"
  <2>1. w.val.bits \subseteq CrbBits
    BY <1>3 DEF RegWrites
  <2> DEFINE tb == IF w.val.load THEN k.lb ELSE k.tb
             bits == w.val.bits
  <2>2. WriteReg(k, w.reg, w.val) = [k EXCEPT !.crb = bits, !.tb = tb]
    BY <1>3 DEF WriteReg
  <2>3. tb \in Timer
    OBVIOUS
  <2> HIDE DEF tb, bits
  <2>4. bits \in SUBSET CrbBits
    BY <2>1 DEF bits
  <2> QED
    BY <2>2, <2>3, <2>4 DEF Registers
<1> QED
  BY <1>1, <1>2, <1>3 DEF RegWrites

(* An update after n ticks is not late for a chip, or even before any        *)
(* underflow; and the registers with ticks taken off the timers.             *)
InTime(k, n) == (CountsA(k) => n <= k.ta + 1) /\ (CountsB(k) => n <= k.tb + 1)
Before(k, n) == (CountsA(k) => n <= k.ta) /\ (CountsB(k) => n <= k.tb)
Minus(k, a, b) == [k EXCEPT !.ta = @ - a, !.tb = @ - b]
ShownBy(k, n) == Minus(k, IF CountsA(k) THEN n ELSE 0, IF CountsB(k) THEN n ELSE 0)

(* Counting in time gives registers again, and only flags that exist.        *)
LEMMA CountedKeeps ==
  ASSUME NEW k \in Registers, NEW n \in Nat, InTime(k, n)
  PROVE  counted(k, n) \in Registers /\ counted(k, n).ir = k.ir /\ raised(k, n) \subseteq IcrBits
<1> USE RegisterFacts
<1> DEFINE ta == IF aovf(k, n) THEN k.la ELSE IF CountsA(k) THEN k.ta - n ELSE k.ta
           tb == IF bovf(k, n) THEN k.lb ELSE k.tb - tbPulses(k, n)
           sdr == IF sdrShifts(k, n) THEN k.sdr_cnt - 1 ELSE k.sdr_cnt
           cra == IF aovf(k, n) /\ "oneshot" \in k.cra THEN k.cra \ {"start"} ELSE k.cra
           crb == IF bovf(k, n) /\ "oneshot" \in k.crb THEN k.crb \ {"start"} ELSE k.crb
           m == Byte * Byte
<1>1. Timer = 0 .. m - 1 /\ m \in Nat
  BY CiaFacts, TimesOrder DEF Timer
<1> HIDE DEF m
<1>2. ta \in Timer
  BY <1>1 DEF aovf, InTime
<1>3. tb \in Timer
  <2>1. tbPulses(k, n) \in Nat
    BY DEF tbPulses
  <2>2. ~bovf(k, n) => tbPulses(k, n) <= k.tb
    <3>1. CountsB(k) => tbPulses(k, n) = n /\ n <= k.tb + 1
      BY DEF tbPulses, InTime
    <3>2. ~CountsB(k) => tbPulses(k, n) \in {0, 1}
      BY DEF tbPulses
    <3> QED
      BY <3>1, <3>2 DEF bovf
  <2> QED
    BY <1>1, <2>1, <2>2
<1>4. sdr \in 0..SdrBits
  BY CiaFacts DEF sdrShifts
<1>5. cra \in SUBSET CraBits /\ crb \in SUBSET CrbBits
  OBVIOUS
<1>6. counted(k, n) = [k EXCEPT !.ta = ta, !.tb = tb, !.sdr_cnt = sdr, !.cra = cra, !.crb = crb]
  BY DEF counted
<1>7. raised(k, n) \subseteq IcrBits
  BY DEF raised, IcrBits
<1> HIDE DEF ta, tb, sdr, cra, crb
<1> QED
  BY <1>2, <1>3, <1>4, <1>5, <1>6, <1>7 DEF Registers

(* CIA_update in time gives registers again.                                 *)
LEMMA UpdateKeeps ==
  ASSUME NEW k \in Registers, NEW n \in Nat, InTime(k, n)
  PROVE  CIA_update(k, n) \in Registers /\ (raised(k, n) = {} => CIA_update(k, n).ir = k.ir)
<1>1. counted(k, n) \in Registers /\ counted(k, n).ir = k.ir /\ raised(k, n) \in SUBSET IcrBits
  BY CountedKeeps
<1> QED
  BY <1>1, RaiseKeeps DEF CIA_update

(* Before the underflow CIA_update only takes the ticks off.                 *)
LEMMA UpdateBefore ==
  ASSUME NEW k \in Registers, NEW n \in Nat, Before(k, n)
  PROVE  /\ raised(k, n) = {} /\ CIA_update(k, n) = ShownBy(k, n)
         /\ ShownBy(k, n) \in Registers /\ ShownBy(k, n).ir = k.ir
<1> USE RegisterFacts
<1>1. ~aovf(k, n)
  BY DEF aovf, Before
<1>2. tbPulses(k, n) = IF CountsB(k) THEN n ELSE 0
  BY <1>1 DEF tbPulses
<1>3. ~bovf(k, n)
  BY <1>2 DEF bovf, Before
<1>4. ~sdrShifts(k, n)
  BY <1>1 DEF sdrShifts
<1>5. raised(k, n) = {}
  BY <1>1, <1>3, <1>4 DEF raised
<1>6. /\ (IF aovf(k, n) THEN k.la ELSE IF CountsA(k) THEN k.ta - n ELSE k.ta) = k.ta - (IF CountsA(k) THEN n ELSE 0)
      /\ (IF bovf(k, n) THEN k.lb ELSE k.tb - tbPulses(k, n)) = k.tb - (IF CountsB(k) THEN n ELSE 0)
  BY <1>1, <1>2, <1>3
<1>7. counted(k, n) = ShownBy(k, n)
  <2> DEFINE x == k.ta - (IF CountsA(k) THEN n ELSE 0)
             y == k.tb - (IF CountsB(k) THEN n ELSE 0)
  <2>1. counted(k, n) = [k EXCEPT !.ta = x, !.tb = y, !.sdr_cnt = k.sdr_cnt, !.cra = k.cra, !.crb = k.crb]
    BY <1>1, <1>3, <1>4, <1>6 DEF counted
  <2>2. ShownBy(k, n) = [k EXCEPT !.ta = x, !.tb = y]
    BY DEF ShownBy, Minus
  <2> HIDE DEF x, y
  <2> QED
    BY <2>1, <2>2 DEF Registers
<1>8. InTime(k, n)
  BY DEF Before, InTime
<1> QED
  BY <1>5, <1>7, <1>8, CountedKeeps DEF CIA_update

-----------------------------------------------------------------------------
(* CiaTicks' operators on registers are those of the same name here.         *)
LEMMA SameChip ==
  ASSUME NEW k
  PROVE  /\ Ticks!CountsA(k) = CountsA(k) /\ Ticks!CountsB(k) = CountsB(k) /\ Ticks!Cascades(k) = Cascades(k)
         /\ Ticks!RethinkICR(k) = RethinkICR(k) /\ Ticks!ReadIcr(k) = ReadIcr(k)
         /\ \A F : Ticks!Raise(k, F) = Raise(k, F)
         /\ \A s, b : Ticks!WriteMask(k, s, b) = WriteMask(k, s, b)
         /\ \A r, v : Ticks!WriteReg(k, r, v) = WriteReg(k, r, v)
<1>1. Ticks!CountsA(k) = CountsA(k) /\ Ticks!CountsB(k) = CountsB(k) /\ Ticks!Cascades(k) = Cascades(k)
  BY DEF Ticks!CountsA, CountsA, Ticks!CountsB, CountsB, Ticks!Cascades, Cascades
<1>2. Ticks!RethinkICR(k) = RethinkICR(k) /\ Ticks!ReadIcr(k) = ReadIcr(k)
  BY DEF Ticks!RethinkICR, RethinkICR, Ticks!ReadIcr, ReadIcr
<1>3. ASSUME NEW F PROVE Ticks!Raise(k, F) = Raise(k, F)
  BY DEF Ticks!RethinkICR, RethinkICR, Ticks!Raise, Raise
<1>4. ASSUME NEW s, NEW b PROVE Ticks!WriteMask(k, s, b) = WriteMask(k, s, b)
  BY DEF Ticks!WriteMask, WriteMask
<1>5. ASSUME NEW r, NEW v PROVE Ticks!WriteReg(k, r, v) = WriteReg(k, r, v)
  BY DEF Ticks!WriteReg, WriteReg, Ticks!WriteTaHi, WriteTaHi, Ticks!WriteTbHi, WriteTbHi, Ticks!WriteSdr,
         WriteSdr, Ticks!WithLo, WithLo, Ticks!WithHi, WithHi
<1> QED
  BY <1>1, <1>2, <1>3, <1>4, <1>5

(* The tick after n: timers counted down from what is shown after n ticks    *)
(* are what CIA_update makes of n + 1, with an underflow or without.         *)
LEMMA TickIsUpdate ==
  ASSUME NEW k \in Registers, NEW n \in Nat, InTime(k, n + 1)
  PROVE  Ticks!CountDown(ShownBy(k, n)) = CIA_update(k, n + 1)
<1> USE RegisterFacts
<1> DEFINE m == ShownBy(k, n)
           a == IF CountsA(k) THEN n ELSE 0
           b == IF CountsB(k) THEN n ELSE 0
<1>1. /\ m.ta = k.ta - a /\ m.tb = k.tb - b /\ m.la = k.la /\ m.lb = k.lb /\ m.cra = k.cra /\ m.crb = k.crb
      /\ m.sdr_cnt = k.sdr_cnt
  BY DEF ShownBy, Minus, Registers
<1>2. CountsA(m) = CountsA(k) /\ CountsB(m) = CountsB(k) /\ Cascades(m) = Cascades(k)
  BY <1>1 DEF CountsA, CountsB, Cascades
<1>3. CountsB(k) => ~Cascades(k)
  BY DEF CountsB, Cascades
<1> DEFINE aUnder == CountsA(m) /\ m.ta = 0
           bUnder == (CountsB(m) \/ (Cascades(m) /\ aUnder)) /\ m.tb = 0
           shift == aUnder /\ m.sdr_cnt > 0 /\ "out" \in m.cra /\ "oneshot" \notin m.cra
           flags == {f \in {"ta", "tb", "sp"} : \/ f = "ta" /\ aUnder
                                                \/ f = "tb" /\ bUnder
                                                \/ f = "sp" /\ shift /\ m.sdr_cnt = 1}
           ta == IF aUnder THEN m.la ELSE IF CountsA(m) THEN m.ta - 1 ELSE m.ta
           tb == IF bUnder THEN m.lb ELSE IF CountsB(m) \/ (Cascades(m) /\ aUnder) THEN m.tb - 1 ELSE m.tb
           sdr == IF shift THEN m.sdr_cnt - 1 ELSE m.sdr_cnt
           cra == IF aUnder /\ "oneshot" \in m.cra THEN m.cra \ {"start"} ELSE m.cra
           crb == IF bUnder /\ "oneshot" \in m.crb THEN m.crb \ {"start"} ELSE m.crb
           down == [m EXCEPT !.ta = ta, !.tb = tb, !.sdr_cnt = sdr, !.cra = cra, !.crb = crb]
<1> HIDE DEF m
<1>4. Ticks!CountDown(m) = IF flags = {} THEN down ELSE Raise(down, flags)
  <2>1. Ticks!CountsA(m) = CountsA(m) /\ Ticks!CountsB(m) = CountsB(m) /\ Ticks!Cascades(m) = Cascades(m)
    BY SameChip
  <2>2. Ticks!Raise(down, flags) = Raise(down, flags)
    BY SameChip
  <2> QED
    BY <2>1, <2>2 DEF Ticks!CountDown
<1>5. aUnder <=> aovf(k, n + 1)
  BY <1>1, <1>2 DEF aovf
<1>6. bUnder <=> bovf(k, n + 1)
  <2>1. CASE CountsB(k)
    BY <1>1, <1>2, <2>1 DEF bovf, tbPulses
  <2>2. CASE ~CountsB(k)
    BY <1>1, <1>2, <1>5, <2>2 DEF bovf, tbPulses
  <2> QED
    BY <2>1, <2>2
<1>7. shift <=> sdrShifts(k, n + 1)
  BY <1>1, <1>5 DEF sdrShifts
<1>8. flags = raised(k, n + 1)
  <2>1. m.sdr_cnt = k.sdr_cnt
    BY <1>1
  <2> HIDE DEF aUnder, bUnder, shift
  <2> QED
    BY <1>5, <1>6, <1>7, <2>1 DEF raised
<1>9. ta = IF aovf(k, n + 1) THEN k.la ELSE IF CountsA(k) THEN k.ta - (n + 1) ELSE k.ta
  <2>1. CountsA(m) = CountsA(k) /\ m.la = k.la /\ (CountsA(k) => m.ta = k.ta - n) /\ (~CountsA(k) => m.ta = k.ta)
    BY <1>1, <1>2
  <2> HIDE DEF aUnder
  <2> QED
    BY <1>5, <2>1
<1>10. tb = IF bovf(k, n + 1) THEN k.lb ELSE k.tb - tbPulses(k, n + 1)
  <2>1. m.lb = k.lb /\ (CountsB(k) => m.tb = k.tb - n) /\ (~CountsB(k) => m.tb = k.tb)
    BY <1>1
  <2> HIDE DEF aUnder, bUnder
  <2>2. CASE CountsB(k)
    BY <1>2, <1>6, <2>1, <2>2 DEF tbPulses
  <2>3. CASE ~CountsB(k)
    BY <1>2, <1>5, <1>6, <2>1, <2>3 DEF tbPulses
  <2> QED
    BY <2>2, <2>3
<1>11. /\ sdr = IF sdrShifts(k, n + 1) THEN k.sdr_cnt - 1 ELSE k.sdr_cnt
       /\ cra = IF aovf(k, n + 1) /\ "oneshot" \in k.cra THEN k.cra \ {"start"} ELSE k.cra
       /\ crb = IF bovf(k, n + 1) /\ "oneshot" \in k.crb THEN k.crb \ {"start"} ELSE k.crb
  <2>1. m.sdr_cnt = k.sdr_cnt /\ m.cra = k.cra /\ m.crb = k.crb
    BY <1>1
  <2> HIDE DEF aUnder, bUnder, shift
  <2> QED
    BY <1>5, <1>6, <1>7, <2>1
<1>12. down = counted(k, n + 1)
  <2>1. counted(k, n + 1) = [k EXCEPT !.ta = ta, !.tb = tb, !.sdr_cnt = sdr, !.cra = cra, !.crb = crb]
    <3> HIDE DEF ta, tb, sdr, cra, crb
    <3> QED
      BY <1>9, <1>10, <1>11 DEF counted
  <2> DEFINE x == k.ta - a
             y == k.tb - b
  <2>2. m = [k EXCEPT !.ta = x, !.tb = y]
    BY DEF m, ShownBy, Minus
  <2> HIDE DEF ta, tb, sdr, cra, crb, x, y
  <2> QED
    BY <2>1, <2>2 DEF Registers
<1> HIDE DEF down, flags
<1> QED
  BY <1>4, <1>8, <1>12 DEF CIA_update, m

-----------------------------------------------------------------------------
(* The inductive invariant. The event table: the line's event is always set, *)
(* and that of the CIAs, s cycles after the timers were last computed, is    *)
(* the earliest underflow of a timer that counts, or is not set if none does.*)
Tabs == [{"hsync", "cia"} -> [active : BOOLEAN, due : Nat]]
LineInv(tab) == tab \in Tabs /\ tab["hsync"].active /\ tab["hsync"].due \in 1..HsyncTime

UnderflowInv(tab, chips, d10, s) ==
  IF tab["cia"].active
  THEN /\ tab["cia"].due > 0 /\ tab["cia"].due + s \in CIA_timers(chips, d10)
       /\ \A t \in CIA_timers(chips, d10) : tab["cia"].due + s <= t
  ELSE CIA_timers(chips, d10) = {} /\ tab["cia"].due = 0 /\ s < DIV10

CiaInv ==
  /\ chip \in [Chip -> Registers] /\ intreq \subseteq Chip /\ div10 \in 0 .. DIV10 - 1 /\ since \in Nat
  /\ LineInv(eventtab) /\ UnderflowInv(eventtab, chip, div10, since)
  /\ nextevent = events_schedule(eventtab) /\ InterruptStaysRaised

(* Which of the two events is next.                                          *)
LEMMA ScheduleIs ==
  ASSUME NEW tab, LineInv(tab)
  PROVE  events_schedule(tab) = IF tab["cia"].active /\ tab["cia"].due < tab["hsync"].due
                                THEN tab["cia"].due ELSE tab["hsync"].due
<1> DEFINE E == {x \in DOMAIN tab : tab[x].active /\ tab[x].due >= 0}
           S == {tab[e].due : e \in E}
           h == tab["hsync"].due
           c == tab["cia"].due
<1>1. DOMAIN tab = {"hsync", "cia"} /\ h \in Nat /\ c \in Nat /\ tab["hsync"].active
  BY DEF LineInv, Tabs
<1>2. E = IF tab["cia"].active THEN {"hsync", "cia"} ELSE {"hsync"}
  BY <1>1
<1>3. S = IF tab["cia"].active THEN {h, c} ELSE {h}
  BY <1>2
<1>4. events_schedule(tab) = Min(S)
  BY DEF events_schedule
<1> HIDE DEF S, h, c
<1>5. S \subseteq Nat /\ S # {}
  BY <1>1, <1>3
<1>6. Min(S) \in S /\ \A x \in S : Min(S) <= x
  BY <1>5, LeastIsIn
<1> QED
  BY <1>1, <1>3, <1>4, <1>6 DEF h, c

(* The times to the underflows.                                              *)
LEMMA TimerTimes ==
  ASSUME NEW chips \in [Chip -> Registers], NEW d10 \in 0 .. DIV10 - 1
  PROVE  /\ CIA_timers(chips, d10) \subseteq 1 .. DIV10 * Byte * Byte
         /\ \A c \in Chip : /\ CountsA(chips[c]) => DIV10 - d10 + DIV10 * chips[c].ta \in CIA_timers(chips, d10)
                            /\ CountsB(chips[c]) => DIV10 - d10 + DIV10 * chips[c].tb \in CIA_timers(chips, d10)
<1>1. DIV10 \in Nat /\ DIV10 > 0 /\ Byte * Byte \in Nat /\ DIV10 * Byte * Byte = DIV10 * (Byte * Byte)
  BY CiaFacts, TimesOrder
<1> DEFINE m == Byte * Byte
           M == DIV10 * m
<1>2. ASSUME NEW x \in Nat, x + 1 <= m PROVE DIV10 - d10 + DIV10 * x \in 1..M
  <2>1. m \in Nat
    BY <1>1
  <2> HIDE DEF m
  <2>2. DIV10 * x \in Nat /\ DIV10 * m \in Nat /\ DIV10 * x + DIV10 <= DIV10 * m
    BY <1>1, <1>2, <2>1, TimesOrder
  <2> QED
    BY <1>1, <2>2
<1>3. ASSUME NEW c \in Chip PROVE DIV10 - d10 + DIV10 * chips[c].ta \in 1..M /\ DIV10 - d10 + DIV10 * chips[c].tb \in 1..M
  <2>1. /\ chips[c].ta \in Nat /\ chips[c].tb \in Nat
        /\ chips[c].ta + 1 <= Byte * Byte /\ chips[c].tb + 1 <= Byte * Byte
    BY RegisterFacts
  <2> HIDE DEF M
  <2> QED
    BY <1>2, <2>1
<1>4. CIA_timers(chips, d10) \subseteq 1..M
  <2> HIDE DEF M
  <2> QED
    BY <1>3 DEF CIA_timers
<1>5. ASSUME NEW c \in Chip
      PROVE  /\ CountsA(chips[c]) => DIV10 - d10 + DIV10 * chips[c].ta \in CIA_timers(chips, d10)
             /\ CountsB(chips[c]) => DIV10 - d10 + DIV10 * chips[c].tb \in CIA_timers(chips, d10)
  BY DEF CIA_timers
<1>6. M = DIV10 * Byte * Byte
  BY <1>1
<1> QED
  BY <1>4, <1>5, <1>6

(* Events as of the timers' underflows, whatever the timers are.             *)
LEMMA EventIsUnderflow ==
  ASSUME NEW tab, LineInv(tab), NEW chips \in [Chip -> Registers], NEW d10 \in 0 .. DIV10 - 1
  PROVE  /\ LineInv(CIA_calctimers(tab, chips, d10))
         /\ UnderflowInv(CIA_calctimers(tab, chips, d10), chips, d10, 0)
<1> DEFINE times == CIA_timers(chips, d10)
           new == IF times = {} THEN [active |-> FALSE, due |-> 0] ELSE [active |-> TRUE, due |-> Min(times)]
           tab1 == CIA_calctimers(tab, chips, d10)
<1>1. times \subseteq 1 .. DIV10 * Byte * Byte
  BY TimerTimes
<1>2. times \subseteq Nat /\ \A t \in times : t > 0
  <2>1. DIV10 * Byte * Byte \in Nat
    BY CiaFacts
  <2> QED
    BY <1>1, <2>1
<1> HIDE DEF times
<1>3. times # {} => Min(times) \in times /\ \A t \in times : Min(times) <= t
  BY <1>2, LeastIsIn
<1>4. new \in [active : BOOLEAN, due : Nat]
  BY <1>2, <1>3
<1>5. tab1 = [tab EXCEPT !["cia"] = new]
  BY DEF CIA_calctimers, times
<1> HIDE DEF new, tab1
<1>6. tab1 \in Tabs /\ tab1["hsync"] = tab["hsync"] /\ tab1["cia"] = new
  BY <1>4, <1>5 DEF LineInv, Tabs
<1>7. LineInv(tab1)
  BY <1>6 DEF LineInv
<1>8. UnderflowInv(tab1, chips, d10, 0)
  <2>1. CASE times = {}
    <3>1. ~tab1["cia"].active /\ tab1["cia"].due = 0
      BY <1>6, <2>1 DEF new
    <3> QED
      BY <2>1, <3>1, CiaFacts DEF UnderflowInv, times
  <2>2. CASE times # {}
    <3>1. tab1["cia"].active /\ tab1["cia"].due = Min(times)
      BY <1>6, <2>2 DEF new
    <3>2. Min(times) + 0 = Min(times) /\ Min(times) > 0
      <4> DEFINE x == Min(times)
      <4>1. x \in times
        BY <1>3, <2>2
      <4> HIDE DEF x
      <4>2. x \in Nat /\ x > 0
        BY <1>2, <4>1
      <4>3. x + 0 = x
        BY <4>2
      <4> QED
        BY <4>2, <4>3 DEF x
    <3> QED
      BY <1>3, <2>2, <3>1, <3>2 DEF UnderflowInv, times
  <2> QED
    BY <2>1, <2>2
<1> QED
  BY <1>7, <1>8 DEF tab1

(* Before the time of the earliest underflow no timer has underflowed, and   *)
(* at that time none is late.                                                *)
LEMMA NoneIsLate ==
  ASSUME NEW chips \in [Chip -> Registers], NEW d10 \in 0 .. DIV10 - 1, NEW s \in Nat, NEW c \in Chip,
         \A t \in CIA_timers(chips, d10) : s <= t
  PROVE  /\ (d10 + s) \div DIV10 \in Nat /\ InTime(chips[c], (d10 + s) \div DIV10)
         /\ (\A t \in CIA_timers(chips, d10) : s < t) => Before(chips[c], (d10 + s) \div DIV10)
<1> DEFINE n == (d10 + s) \div DIV10
<1>1. DIV10 \in Nat /\ DIV10 > 0 /\ d10 + s \in Nat /\ d10 \in Nat /\ d10 < DIV10
  BY CiaFacts
<1>2. n \in Nat
  BY <1>1, TickSplit
<1>3. ASSUME NEW x \in Nat, DIV10 - d10 + DIV10 * x \in CIA_timers(chips, d10)
      PROVE  n <= x + 1 /\ ((\A t \in CIA_timers(chips, d10) : s < t) => n <= x)
  <2>1. DIV10 * x \in Nat /\ DIV10 * (x + 1) = DIV10 * x + DIV10
    BY <1>1, TimesOrder
  <2> DEFINE y == DIV10 * x
  <2>2. y \in Nat /\ s <= DIV10 - d10 + y /\ ((\A t \in CIA_timers(chips, d10) : s < t) => s < DIV10 - d10 + y)
    BY <1>3, <2>1
  <2>3. DIV10 * (x + 1) = y + DIV10
    BY <2>1
  <2>4. (d10 + s < DIV10 * (x + 1) + DIV10 => n <= x + 1) /\ (d10 + s < y + DIV10 => n <= x)
    BY <1>1, TicksBelow
  <2> HIDE DEF y, n
  <2>5. d10 + s < DIV10 * (x + 1) + DIV10
    BY <1>1, <2>2, <2>3
  <2>6. (\A t \in CIA_timers(chips, d10) : s < t) => d10 + s < y + DIV10
    BY <1>1, <2>2
  <2> QED
    BY <2>4, <2>5, <2>6
<1>4. /\ chips[c].ta \in Nat /\ chips[c].tb \in Nat
      /\ CountsA(chips[c]) => DIV10 - d10 + DIV10 * chips[c].ta \in CIA_timers(chips, d10)
      /\ CountsB(chips[c]) => DIV10 - d10 + DIV10 * chips[c].tb \in CIA_timers(chips, d10)
  BY TimerTimes, RegisterFacts
<1> HIDE DEF n
<1>5. InTime(chips[c], n)
  BY <1>3, <1>4 DEF InTime
<1>6. (\A t \in CIA_timers(chips, d10) : s < t) => Before(chips[c], n)
  BY <1>3, <1>4 DEF Before
<1> QED
  BY <1>2, <1>5, <1>6 DEF n

-----------------------------------------------------------------------------
(* What the invariant says about the moment.                                 *)
LEMMA OnTime ==
  ASSUME CiaInv
  PROVE  /\ \A t \in CIA_timers(chip, div10) : since < t
         /\ nextevent \in 1..HsyncTime /\ nextevent <= eventtab["hsync"].due
         /\ eventtab["cia"].active => nextevent <= eventtab["cia"].due
         /\ nextevent \in {eventtab["hsync"].due, eventtab["cia"].due}
         /\ eventtab["hsync"] \in [active : BOOLEAN, due : Nat] /\ eventtab["cia"] \in [active : BOOLEAN, due : Nat]
<1>1. /\ LineInv(eventtab) /\ UnderflowInv(eventtab, chip, div10, since) /\ since \in Nat
      /\ nextevent = events_schedule(eventtab) /\ chip \in [Chip -> Registers] /\ div10 \in 0 .. DIV10 - 1
  BY DEF CiaInv
<1>2. eventtab["hsync"].due \in 1..HsyncTime /\ HsyncTime \in Nat
  BY <1>1, CiaFacts DEF LineInv
<1>3. eventtab["hsync"] \in [active : BOOLEAN, due : Nat] /\ eventtab["cia"] \in [active : BOOLEAN, due : Nat]
  BY <1>1 DEF LineInv, Tabs
<1>4. eventtab["cia"].due \in Nat /\ (eventtab["cia"].active => eventtab["cia"].due > 0)
  BY <1>1, <1>3 DEF UnderflowInv
<1>5. CIA_timers(chip, div10) \subseteq Nat
  <2>1. DIV10 * Byte * Byte \in Nat
    BY CiaFacts
  <2> QED
    BY <1>1, <2>1, TimerTimes
<1>6. \A t \in CIA_timers(chip, div10) : since < t
  BY <1>1, <1>4, <1>5 DEF UnderflowInv
<1> QED
  BY <1>1, <1>2, <1>3, <1>4, <1>6, ScheduleIs

(* No timer is late, now or after one more cycle.                            *)
LEMMA ChipsOnTime ==
  ASSUME CiaInv
  PROVE  /\ ciaclocks(since) \in Nat /\ ciaclocks(since + 1) \in Nat
         /\ \A c \in Chip : Before(chip[c], ciaclocks(since)) /\ InTime(chip[c], ciaclocks(since + 1))
<1>1. chip \in [Chip -> Registers] /\ div10 \in 0 .. DIV10 - 1 /\ since \in Nat /\ since + 1 \in Nat
  BY DEF CiaInv
<1>2. ciaclocks(since) = (div10 + since) \div DIV10 /\ ciaclocks(since + 1) = (div10 + (since + 1)) \div DIV10
  BY DEF ciaclocks, ccount
<1>3. CIA_timers(chip, div10) \subseteq Nat
  <2>1. DIV10 * Byte * Byte \in Nat
    BY CiaFacts
  <2> QED
    BY <1>1, <2>1, TimerTimes
<1>4. \A t \in CIA_timers(chip, div10) : since < t /\ since <= t /\ since + 1 <= t
  BY <1>1, <1>3, OnTime
<1>5. ciaclocks(since) \in Nat /\ ciaclocks(since + 1) \in Nat
  <2>1. div10 + since \in Nat /\ div10 + (since + 1) \in Nat
    BY <1>1, CiaFacts
  <2> QED
    BY <1>2, <2>1, TickSplit, CiaFacts
<1>6. ASSUME NEW c \in Chip PROVE Before(chip[c], ciaclocks(since)) /\ InTime(chip[c], ciaclocks(since + 1))
  BY <1>1, <1>2, <1>4, NoneIsLate
<1> QED
  BY <1>5, <1>6

(* What has passed is what reads take off the timers.                        *)
LEMMA PassedIs ==
  ASSUME NEW c \in Chip
  PROVE  [chip[c] EXCEPT !.ta = @ - TaPassed(c), !.tb = @ - TbPassed(c)] = ShownBy(chip[c], ciaclocks(since))
BY DEF ShownBy, Minus, TaPassed, TbPassed

(* The events one cycle on.                                                  *)
LEMMA AgedIs ==
  ASSUME CiaInv
  PROVE  /\ aged(1) \in [{"hsync", "cia"} -> [active : BOOLEAN, due : Nat]]
         /\ aged(1)["hsync"].active /\ aged(1)["hsync"].due = eventtab["hsync"].due - 1
         /\ aged(1)["cia"].active = eventtab["cia"].active
         /\ aged(1)["cia"].due = IF eventtab["cia"].active THEN eventtab["cia"].due - 1 ELSE eventtab["cia"].due
<1>1. LineInv(eventtab)
  BY DEF CiaInv
<1>2. DOMAIN eventtab = {"hsync", "cia"} /\ eventtab["hsync"].active /\ eventtab["hsync"].due \in Nat \ {0}
  BY <1>1, CiaFacts DEF LineInv, Tabs
<1>3. eventtab["cia"] \in [active : BOOLEAN, due : Nat] /\ eventtab["hsync"] \in [active : BOOLEAN, due : Nat]
  BY OnTime
<1>4. eventtab["cia"].active => eventtab["cia"].due > 0
  BY DEF CiaInv, UnderflowInv
<1> DEFINE hd == eventtab["hsync"].due - 1
           cd == IF eventtab["cia"].active THEN eventtab["cia"].due - 1 ELSE eventtab["cia"].due
<1>5. hd \in Nat /\ cd \in Nat
  BY <1>2, <1>3, <1>4
<1>6. aged(1)["hsync"] = [eventtab["hsync"] EXCEPT !.due = hd] /\ aged(1)["cia"] = [eventtab["cia"] EXCEPT !.due = cd]
      /\ aged(1) = [e \in {"hsync", "cia"} |-> aged(1)[e]]
  BY <1>2 DEF aged
<1>7. hd = eventtab["hsync"].due - 1 /\ cd = IF eventtab["cia"].active THEN eventtab["cia"].due - 1 ELSE eventtab["cia"].due
  OBVIOUS
<1> HIDE DEF hd, cd
<1>8. aged(1)["hsync"] \in [active : BOOLEAN, due : Nat] /\ aged(1)["cia"] \in [active : BOOLEAN, due : Nat]
  BY <1>3, <1>5, <1>6
<1>9. aged(1) \in [{"hsync", "cia"} -> [active : BOOLEAN, due : Nat]]
  BY <1>6, <1>8
<1>10. /\ aged(1)["hsync"].active = eventtab["hsync"].active /\ aged(1)["hsync"].due = hd
       /\ aged(1)["cia"].active = eventtab["cia"].active /\ aged(1)["cia"].due = cd
  BY <1>3, <1>6
<1> QED
  BY <1>2, <1>7, <1>9, <1>10

(* A cycle in which no timer underflows: the events come nearer. An idle     *)
(* count of cycles is kept below one tick.                                   *)
NextSince == IF eventtab["cia"].active \/ since + 1 < DIV10 THEN since + 1 ELSE since + 1 - DIV10

(* The CIA event stays the first underflow when a cycle passes.              *)
LEMMA UnderflowNearer ==
  ASSUME CiaInv, eventtab["cia"].active => eventtab["cia"].due > 1, NEW tab, tab["cia"] = aged(1)["cia"]
  PROVE  NextSince \in Nat /\ UnderflowInv(tab, chip, div10, NextSince)
<1>1. since \in Nat /\ UnderflowInv(eventtab, chip, div10, since) /\ DIV10 \in Nat /\ DIV10 > 0
  BY CiaFacts DEF CiaInv
<1>2. eventtab["cia"].due \in Nat
  BY OnTime
<1>3. CASE eventtab["cia"].active
  <2>1. tab["cia"].active /\ tab["cia"].due = eventtab["cia"].due - 1
    BY <1>3, AgedIs
  <2>2. NextSince = since + 1
    BY <1>3 DEF NextSince
  <2>3. tab["cia"].due > 0 /\ tab["cia"].due + NextSince = eventtab["cia"].due + since
    BY <1>1, <1>2, <1>3, <2>1, <2>2
  <2> QED
    BY <1>1, <1>3, <2>1, <2>2, <2>3 DEF UnderflowInv
<1>4. CASE ~eventtab["cia"].active
  <2>1. ~tab["cia"].active /\ tab["cia"].due = eventtab["cia"].due
    BY <1>4, AgedIs
  <2>2. since < DIV10 /\ eventtab["cia"].due = 0 /\ CIA_timers(chip, div10) = {}
    BY <1>1, <1>4 DEF UnderflowInv
  <2>3. NextSince \in Nat /\ NextSince < DIV10
    BY <1>1, <2>2 DEF NextSince
  <2> QED
    BY <2>1, <2>2, <2>3 DEF UnderflowInv
<1> QED
  BY <1>3, <1>4

-----------------------------------------------------------------------------
(* At the start no timer counts.                                             *)
THEOREM CiaInitially == CiaInit => CiaInv
<1> SUFFICES ASSUME CiaInit PROVE CiaInv
  OBVIOUS
<1>1. AfterReset \in Registers /\ ~CountsA(AfterReset) /\ ~CountsB(AfterReset) /\ ~AfterReset.ir
  BY CiaFacts DEF AfterReset, Registers, CountsA, CountsB
<1>2. chip \in [Chip -> Registers] /\ \A c \in Chip : ~CountsA(chip[c]) /\ ~CountsB(chip[c]) /\ ~chip[c].ir
  BY <1>1 DEF CiaInit
<1>3. CIA_timers(chip, div10) = {}
  BY <1>2 DEF CIA_timers
<1>4. LineInv(eventtab) /\ ~eventtab["cia"].active /\ eventtab["cia"].due = 0 /\ eventtab["hsync"].due = HsyncTime
  <2> DEFINE line == [active |-> TRUE, due |-> HsyncTime]
             none == [active |-> FALSE, due |-> 0]
  <2>1. /\ line \in [active : BOOLEAN, due : Nat] /\ line.active /\ line.due = HsyncTime
        /\ none \in [active : BOOLEAN, due : Nat] /\ ~none.active /\ none.due = 0
    BY CiaFacts
  <2>2. eventtab = [hsync |-> line, cia |-> none]
    BY DEF CiaInit
  <2> HIDE DEF line, none
  <2>3. eventtab["hsync"] = line /\ eventtab["cia"] = none /\ eventtab \in Tabs
    BY <2>1, <2>2 DEF Tabs
  <2> QED
    BY <2>1, <2>3, CiaFacts DEF LineInv
<1>5. UnderflowInv(eventtab, chip, div10, since)
  BY <1>3, <1>4, CiaFacts DEF UnderflowInv, CiaInit
<1>6. nextevent = events_schedule(eventtab)
  BY <1>4, ScheduleIs DEF CiaInit
<1>7. intreq \subseteq Chip /\ div10 \in 0 .. DIV10 - 1 /\ since \in Nat
  BY CiaFacts DEF CiaInit
<1>8. InterruptStaysRaised
  BY <1>2 DEF InterruptStaysRaised
<1> QED
  BY <1>2, <1>4, <1>5, <1>6, <1>7, <1>8 DEF CiaInv

(* A cycle without an event brings the events one nearer.                    *)
LEMMA CyclePassesKeeps == ASSUME CiaInv, CyclePasses PROVE CiaInv'
<1>1. /\ chip' = chip /\ intreq' = intreq /\ div10' = div10 /\ since' = NextSince
      /\ eventtab' = aged(1) /\ nextevent' = nextevent - 1 /\ nextevent > 1
  BY DEF CyclePasses, NextSince
<1>2. LineInv(eventtab) /\ nextevent = events_schedule(eventtab) /\ HsyncTime \in Nat
  BY CiaFacts DEF CiaInv
<1>3. /\ nextevent \in 1..HsyncTime /\ nextevent <= eventtab["hsync"].due
      /\ eventtab["cia"].active => nextevent <= eventtab["cia"].due
      /\ eventtab["hsync"].due \in 1..HsyncTime /\ eventtab["cia"].due \in Nat
  BY <1>2, OnTime DEF LineInv
<1>4. LineInv(aged(1))
  <2>1. aged(1)["hsync"].due \in 1..HsyncTime
    BY <1>1, <1>2, <1>3, AgedIs
  <2> QED
    BY <2>1, AgedIs DEF LineInv, Tabs
<1>5. eventtab["cia"].active => eventtab["cia"].due > 1
  BY <1>1, <1>2, <1>3
<1>6. NextSince \in Nat /\ UnderflowInv(aged(1), chip, div10, NextSince)
  BY <1>5, UnderflowNearer
<1>7. nextevent - 1 = events_schedule(aged(1))
  <2>1. nextevent = IF eventtab["cia"].active /\ eventtab["cia"].due < eventtab["hsync"].due
                    THEN eventtab["cia"].due ELSE eventtab["hsync"].due
    BY <1>2, ScheduleIs
  <2>2. events_schedule(aged(1)) = IF aged(1)["cia"].active /\ aged(1)["cia"].due < aged(1)["hsync"].due
                                   THEN aged(1)["cia"].due ELSE aged(1)["hsync"].due
    BY <1>4, ScheduleIs
  <2> QED
    BY <1>2, <1>3, <2>1, <2>2, AgedIs
<1>8. LineInv(eventtab') /\ UnderflowInv(eventtab', chip', div10', since') /\ nextevent' = events_schedule(eventtab')
  BY <1>1, <1>4, <1>6, <1>7
<1> QED
  BY <1>1, <1>6, <1>8 DEF CiaInv, InterruptStaysRaised

(* The line's event is set again when it is due.                             *)
LEMMA LineAgain ==
  ASSUME CiaInv
  PROVE  LineInv(hsync_due(aged(1))) /\ hsync_due(aged(1))["cia"] = aged(1)["cia"]
<1> DEFINE tab == aged(1)
<1>1. /\ tab \in [{"hsync", "cia"} -> [active : BOOLEAN, due : Nat]] /\ tab["hsync"].active
      /\ tab["hsync"].due = eventtab["hsync"].due - 1
  BY AgedIs
<1>2. eventtab["hsync"].due \in 1..HsyncTime /\ HsyncTime \in Nat /\ HsyncTime > 0
  BY CiaFacts DEF CiaInv, LineInv
<1> HIDE DEF tab
<1>3. CASE tab["hsync"].due = 0
  <2> DEFINE line == [tab["hsync"] EXCEPT !.due = HsyncTime]
  <2>1. hsync_due(tab) = [tab EXCEPT !["hsync"] = line]
    BY <1>3 DEF hsync_due
  <2>2. line \in [active : BOOLEAN, due : Nat] /\ line.active /\ line.due = HsyncTime
    BY <1>1, <1>2
  <2> HIDE DEF line
  <2>3. hsync_due(tab) \in Tabs /\ hsync_due(tab)["hsync"] = line /\ hsync_due(tab)["cia"] = tab["cia"]
    BY <1>1, <2>1, <2>2 DEF Tabs
  <2> QED
    BY <1>2, <2>2, <2>3 DEF LineInv, tab
<1>4. CASE tab["hsync"].due # 0
  <2>1. hsync_due(tab) = tab
    BY <1>4 DEF hsync_due
  <2> QED
    BY <1>1, <1>2, <1>4, <2>1 DEF LineInv, Tabs, tab
<1> QED
  BY <1>3, <1>4

(* Who computes the timers finds registers, and no interrupt is overlooked.  *)
LEMMA UpdatedIs ==
  ASSUME CiaInv, NEW s \in {since, since + 1}
  PROVE  /\ Updated(s) \in [Chip -> Registers] /\ NewIrqs(s) \subseteq Chip
         /\ \A c \in Chip : Updated(s)[c].ir => c \in intreq \cup NewIrqs(s)
<1>1. chip \in [Chip -> Registers] /\ InterruptStaysRaised
  BY DEF CiaInv
<1>2. ciaclocks(s) \in Nat /\ \A c \in Chip : InTime(chip[c], ciaclocks(s))
  <2>1. \A c \in Chip : Before(chip[c], ciaclocks(since)) => InTime(chip[c], ciaclocks(since))
    BY <1>1, ChipsOnTime, RegisterFacts DEF Before, InTime
  <2> QED
    BY <2>1, ChipsOnTime
<1>3. \A c \in Chip : /\ CIA_update(chip[c], ciaclocks(s)) \in Registers
                      /\ raised(chip[c], ciaclocks(s)) = {} => CIA_update(chip[c], ciaclocks(s)).ir = chip[c].ir
  BY <1>1, <1>2, UpdateKeeps
<1>4. \A c \in Chip : Updated(s)[c] = CIA_update(chip[c], ciaclocks(s))
  BY DEF Updated
<1>5. Updated(s) \in [Chip -> Registers]
  BY <1>3 DEF Updated
<1>6. ASSUME NEW c \in Chip, Updated(s)[c].ir PROVE c \in intreq \cup NewIrqs(s)
  BY <1>1, <1>3, <1>4, <1>6 DEF NewIrqs, InterruptStaysRaised
<1> QED
  BY <1>5, <1>6 DEF NewIrqs

(* The rest of the time, in a tick.                                          *)
LEMMA RestIs ==
  ASSUME CiaInv, NEW s \in {since, since + 1}
  PROVE  ccount(s) \in Nat /\ ccount(s) % DIV10 \in 0 .. DIV10 - 1
<1>1. ccount(s) \in Nat
  BY CiaFacts DEF CiaInv, ccount
<1> QED
  BY <1>1, TickSplit, CiaFacts

(* An event is due: the line's, the CIAs', or both.                          *)
LEMMA EventsDueKeeps == ASSUME CiaInv, EventsDue PROVE CiaInv'
<1> DEFINE tab == hsync_due(aged(1))
<1>1. nextevent = 1
  <2>1. nextevent \in 1..HsyncTime /\ nextevent <= 1
    BY OnTime DEF EventsDue
  <2> QED
    BY <2>1, CiaFacts
<1>2. /\ nextevent' = events_schedule(eventtab')
      /\ IF tab["cia"].active /\ tab["cia"].due = 0
         THEN /\ chip' = Updated(since + 1) /\ div10' = ccount(since + 1) % DIV10 /\ since' = 0
              /\ intreq' = intreq \cup NewIrqs(since + 1)
              /\ eventtab' = CIA_calctimers(tab, chip', div10')
         ELSE /\ since' = IF tab["cia"].active \/ since + 1 < DIV10 THEN since + 1 ELSE since + 1 - DIV10
              /\ eventtab' = tab /\ UNCHANGED <<chip, intreq, div10>>
  <2> DEFINE first == hsync_due(aged(nextevent))
             now == since + nextevent
  <2>1. /\ nextevent' = events_schedule(eventtab')
        /\ IF first["cia"].active /\ first["cia"].due = 0
           THEN /\ chip' = Updated(now) /\ div10' = ccount(now) % DIV10 /\ since' = 0
                /\ intreq' = intreq \cup NewIrqs(now)
                /\ eventtab' = CIA_calctimers(first, chip', div10')
           ELSE /\ since' = IF first["cia"].active \/ now < DIV10 THEN now ELSE now - DIV10
                /\ eventtab' = first /\ UNCHANGED <<chip, intreq, div10>>
    BY DEF EventsDue
  <2>2. first = tab /\ now = since + 1
    BY <1>1
  <2> HIDE DEF first, now, tab
  <2>3. now - DIV10 = since + 1 - DIV10
    BY <2>2, CiaFacts DEF CiaInv
  <2> QED
    BY <2>1, <2>2, <2>3, Zenon
<1>3. LineInv(tab) /\ tab["cia"] = aged(1)["cia"]
  BY LineAgain
<1>4. tab["cia"].active = eventtab["cia"].active
      /\ tab["cia"].due = IF eventtab["cia"].active THEN eventtab["cia"].due - 1 ELSE eventtab["cia"].due
  BY <1>3, AgedIs
<1> HIDE DEF tab
<1>5. intreq \subseteq Chip
  BY DEF CiaInv
<1>6. CASE tab["cia"].active /\ tab["cia"].due = 0
  <2>1. /\ chip' = Updated(since + 1) /\ div10' = ccount(since + 1) % DIV10 /\ since' = 0
        /\ intreq' = intreq \cup NewIrqs(since + 1) /\ eventtab' = CIA_calctimers(tab, chip', div10')
    BY <1>2, <1>6
  <2>2. chip' \in [Chip -> Registers] /\ intreq' \subseteq Chip /\ InterruptStaysRaised'
    BY <1>5, <2>1, UpdatedIs DEF InterruptStaysRaised
  <2>3. div10' \in 0 .. DIV10 - 1
    BY <2>1, RestIs
  <2>4. LineInv(eventtab') /\ UnderflowInv(eventtab', chip', div10', since')
    BY <1>3, <2>1, <2>2, <2>3, EventIsUnderflow
  <2> QED
    BY <1>2, <2>1, <2>2, <2>3, <2>4 DEF CiaInv
<1>7. CASE ~(tab["cia"].active /\ tab["cia"].due = 0)
  <2>1. since' = NextSince /\ eventtab' = tab /\ chip' = chip /\ intreq' = intreq /\ div10' = div10
    BY <1>2, <1>4, <1>7 DEF NextSince
  <2>2. eventtab["cia"].active => eventtab["cia"].due > 1
    <3>1. eventtab["cia"].due \in Nat
      BY OnTime
    <3>2. eventtab["cia"].active => eventtab["cia"].due > 0
      BY DEF CiaInv, UnderflowInv
    <3> QED
      BY <1>4, <1>7, <3>1, <3>2
  <2>3. since' \in Nat /\ UnderflowInv(eventtab', chip', div10', since')
    BY <1>3, <2>1, <2>2, UnderflowNearer
  <2> QED
    BY <1>2, <1>3, <2>1, <2>3 DEF CiaInv, InterruptStaysRaised
<1> QED
  BY <1>6, <1>7

(* A write to a timer's register finds the timers as they are shown, and     *)
(* leaves the event of the new ones.                                         *)
LEMMA WriteTimerKeeps ==
  ASSUME CiaInv, NEW c \in Chip, WriteTimer(c)
  PROVE  CiaInv'
<1>1. PICK w \in Writes[c] : chip' = [Updated(since) EXCEPT ![c] = WriteReg(@, w.reg, w.val)]
  BY DEF WriteTimer
<1>2. /\ div10' = ccount(since) % DIV10 /\ since' = 0 /\ intreq' = intreq \cup NewIrqs(since)
      /\ eventtab' = CIA_calctimers(eventtab, chip', div10') /\ nextevent' = events_schedule(eventtab')
  BY DEF WriteTimer
<1>3. w \in RegWrites
  BY CiaFacts
<1>4. Updated(since) \in [Chip -> Registers] /\ NewIrqs(since) \subseteq Chip
      /\ \A d \in Chip : Updated(since)[d].ir => d \in intreq \cup NewIrqs(since)
  BY UpdatedIs
<1> DEFINE k == Updated(since)[c]
           j == WriteReg(k, w.reg, w.val)
<1>5. j \in Registers /\ j.ir = k.ir
  BY <1>3, <1>4, WritesKeep
<1>6. chip' = [Updated(since) EXCEPT ![c] = j]
  BY <1>1
<1> HIDE DEF j
<1>7. chip' \in [Chip -> Registers] /\ intreq' \subseteq Chip
  BY <1>2, <1>4, <1>5, <1>6 DEF CiaInv
<1>8. InterruptStaysRaised'
  BY <1>2, <1>4, <1>5, <1>6 DEF InterruptStaysRaised
<1>9. div10' \in 0 .. DIV10 - 1
  BY <1>2, RestIs
<1>10. LineInv(eventtab') /\ UnderflowInv(eventtab', chip', div10', since')
  <2>1. LineInv(eventtab)
    BY DEF CiaInv
  <2> QED
    BY <1>2, <1>7, <1>9, <2>1, EventIsUnderflow
<1> QED
  BY <1>2, <1>7, <1>8, <1>9, <1>10 DEF CiaInv

(* What leaves the timers alone keeps the invariant, if bit 7 goes with      *)
(* INTREQ.                                                                   *)
LEMMA TimersAloneKeeps ==
  ASSUME CiaInv, UNCHANGED clockVars, chip' \in [Chip -> Registers], intreq' \subseteq Chip,
         \A c \in Chip : SameTimers(chip'[c], chip[c]), InterruptStaysRaised'
  PROVE  CiaInv'
<1>1. \A c \in Chip : /\ CountsA(chip'[c]) = CountsA(chip[c]) /\ CountsB(chip'[c]) = CountsB(chip[c])
                      /\ chip'[c].ta = chip[c].ta /\ chip'[c].tb = chip[c].tb
  BY DEF SameTimers, CountsA, CountsB
<1>2. CIA_timers(chip', div10) = CIA_timers(chip, div10)
  BY <1>1 DEF CIA_timers
<1>3. UnderflowInv(eventtab, chip', div10, since)
  BY <1>2 DEF CiaInv, UnderflowInv
<1> QED
  BY <1>3 DEF CiaInv, clockVars

-----------------------------------------------------------------------------
(* The flags and the mask, which no event waits for.                         *)
LEMMA WriteImaskKeeps ==
  ASSUME CiaInv, NEW c \in Chip, WriteImask(c)
  PROVE  CiaInv'
<1>1. PICK s \in BOOLEAN, b \in MaskVals : chip' = [chip EXCEPT ![c] = WriteMask(@, s, b)]
  BY DEF WriteImask
<1> DEFINE j == WriteMask(chip[c], s, b)
<1>2. chip \in [Chip -> Registers] /\ b \in SUBSET IcrBits
  BY CiaFacts DEF CiaInv
<1>3. j \in Registers /\ SameTimers(j, chip[c]) /\ j.ir = chip[c].ir
  BY <1>2, MaskKeeps
<1>4. chip' = [chip EXCEPT ![c] = j] /\ intreq' = intreq /\ UNCHANGED clockVars
  BY <1>1 DEF WriteImask
<1> HIDE DEF j
<1>5. chip' \in [Chip -> Registers] /\ \A d \in Chip : SameTimers(chip'[d], chip[d]) /\ chip'[d].ir = chip[d].ir
  BY <1>2, <1>3, <1>4 DEF SameTimers
<1>6. InterruptStaysRaised' /\ intreq' \subseteq Chip
  BY <1>4, <1>5 DEF CiaInv, InterruptStaysRaised
<1> QED
  BY <1>4, <1>5, <1>6, TimersAloneKeeps

(* A read of the interrupt control register keeps the invariant.             *)
LEMMA ReadICRKeeps ==
  ASSUME CiaInv, NEW c \in Chip, ReadICR(c)
  PROVE  CiaInv'
<1> DEFINE j == ReadIcr(chip[c])
<1>1. chip \in [Chip -> Registers]
  BY DEF CiaInv
<1>2. j \in Registers /\ SameTimers(j, chip[c]) /\ ~j.ir
  BY <1>1, ReadIcrKeeps
<1>3. chip' = [chip EXCEPT ![c] = j] /\ intreq' = intreq /\ UNCHANGED clockVars
  BY DEF ReadICR
<1> HIDE DEF j
<1>4. chip' \in [Chip -> Registers] /\ \A d \in Chip : SameTimers(chip'[d], chip[d]) /\ (chip'[d].ir => chip[d].ir)
  BY <1>1, <1>2, <1>3 DEF SameTimers
<1>5. InterruptStaysRaised' /\ intreq' \subseteq Chip
  BY <1>3, <1>4 DEF CiaInv, InterruptStaysRaised
<1> QED
  BY <1>3, <1>4, <1>5, TimersAloneKeeps

(* So does an interrupt from outside.                                        *)
LEMMA RaiseFlagKeeps ==
  ASSUME CiaInv, NEW c \in Chip, NEW f \in Flags, RaiseFlag(c, f)
  PROVE  CiaInv'
<1> DEFINE j == Raise(chip[c], {f})
<1>1. chip \in [Chip -> Registers] /\ {f} \in SUBSET IcrBits
  BY CiaFacts DEF CiaInv
<1>2. j \in Registers /\ SameTimers(j, chip[c])
  BY <1>1, RaiseKeeps
<1>3. /\ chip' = [chip EXCEPT ![c] = j] /\ UNCHANGED clockVars
      /\ intreq' = IF chip'[c].ir THEN intreq \cup {c} ELSE intreq
  BY DEF RaiseFlag
<1> HIDE DEF j
<1>4. /\ chip' \in [Chip -> Registers] /\ \A d \in Chip : SameTimers(chip'[d], chip[d])
      /\ \A d \in Chip : d # c => chip'[d] = chip[d]
  BY <1>1, <1>2, <1>3 DEF SameTimers
<1>5. InterruptStaysRaised' /\ intreq' \subseteq Chip
  BY <1>3, <1>4 DEF CiaInv, InterruptStaysRaised
<1> QED
  BY <1>3, <1>4, <1>5, TimersAloneKeeps

(* So does the 68k clearing the bit in INTREQ, as rethink_cias sets it again.*)
LEMMA AcknowledgeKeeps ==
  ASSUME CiaInv, NEW c \in Chip, Acknowledge(c)
  PROVE  CiaInv'
<1>1. chip \in [Chip -> Registers]
  BY DEF CiaInv
<1>2. /\ chip' = [d \in Chip |-> RethinkICR(chip[d])] /\ UNCHANGED clockVars
      /\ intreq' = (intreq \ {c}) \cup Interrupts(chip')
  BY DEF Acknowledge
<1>3. chip' \in [Chip -> Registers] /\ \A d \in Chip : SameTimers(chip'[d], chip[d])
  BY <1>1, <1>2, RethinkKeeps
<1>4. InterruptStaysRaised' /\ intreq' \subseteq Chip
  BY <1>2 DEF CiaInv, InterruptStaysRaised, Interrupts
<1> QED
  BY <1>2, <1>3, <1>4, TimersAloneKeeps

(* The invariant is kept by every step.                                      *)
LEMMA CiaInvKept == CiaInv /\ [CiaNext]_ciaVars => CiaInv'
<1> SUFFICES ASSUME CiaInv, [CiaNext]_ciaVars PROVE CiaInv'
  OBVIOUS
<1>1. CASE CyclePasses
  BY <1>1, CyclePassesKeeps
<1>2. CASE EventsDue
  BY <1>2, EventsDueKeeps
<1>3. CASE \E c \in Chip : WriteTimer(c)
  BY <1>3, WriteTimerKeeps
<1>4. CASE \E c \in Chip : WriteImask(c)
  BY <1>4, WriteImaskKeeps
<1>5. CASE \E c \in Chip : ReadICR(c)
  BY <1>5, ReadICRKeeps
<1>6. CASE \E c \in Chip : Acknowledge(c)
  BY <1>6, AcknowledgeKeeps
<1>7. CASE \E c \in Chip : \E f \in Flags : RaiseFlag(c, f)
  BY <1>7, RaiseFlagKeeps
<1>8. CASE UNCHANGED ciaVars
  BY <1>8 DEF ciaVars, clockVars, CiaInv, InterruptStaysRaised
<1> QED
  BY <1>1, <1>2, <1>3, <1>4, <1>5, <1>6, <1>7, <1>8 DEF CiaNext

(* The invariant always holds.                                               *)
LEMMA CiaInvHolds == CiaSpec => []CiaInv
BY CiaInitially, CiaInvKept, PTL DEF CiaSpec

-----------------------------------------------------------------------------
(* The types: the time since the timers were computed is within the longest  *)
(* a timer can count.                                                        *)
LEMMA InvTypes == CiaInv => CiaTypeOK
<1> SUFFICES ASSUME CiaInv PROVE CiaTypeOK
  OBVIOUS
<1> DEFINE M == DIV10 * Byte * Byte
<1>1. M \in Nat /\ DIV10 <= M
  <2>1. DIV10 \in Nat /\ DIV10 > 0 /\ Byte \in Nat /\ Byte > 0
    BY CiaFacts
  <2>2. M = DIV10 * (Byte * Byte) /\ Byte * Byte \in Nat /\ Byte * 1 <= Byte * Byte /\ Byte * 1 = Byte
    BY <2>1, TimesOrder
  <2>3. 1 <= Byte * Byte
    BY <2>1, <2>2
  <2>4. DIV10 * 1 <= DIV10 * (Byte * Byte) /\ DIV10 * 1 = DIV10
    BY <2>1, <2>2, <2>3, TimesOrder
  <2>5. DIV10 * (Byte * Byte) \in Nat
    BY <2>1, <2>2, TimesOrder
  <2> QED
    BY <2>2, <2>4, <2>5
<1>2. /\ chip \in [Chip -> Registers] /\ intreq \subseteq Chip /\ div10 \in 0 .. DIV10 - 1 /\ since \in Nat
      /\ LineInv(eventtab) /\ UnderflowInv(eventtab, chip, div10, since)
  BY DEF CiaInv
<1>3. CIA_timers(chip, div10) \subseteq 1..M
  BY <1>2, TimerTimes
<1> HIDE DEF M
<1>4. eventtab["cia"] \in [active : BOOLEAN, due : Nat] /\ nextevent \in 1..HsyncTime
  BY OnTime
<1>5. eventtab["cia"].due \in 0..M /\ since \in 0..M
  <2>1. CASE eventtab["cia"].active
    <3>1. eventtab["cia"].due + since \in 1..M
      BY <1>2, <1>3, <2>1 DEF UnderflowInv
    <3> QED
      BY <1>1, <1>2, <1>4, <3>1
  <2>2. CASE ~eventtab["cia"].active
    BY <1>1, <1>2, <2>2, CiaFacts DEF UnderflowInv
  <2> QED
    BY <2>1, <2>2
<1>6. eventtab["cia"] \in [active : BOOLEAN, due : 0..M]
  BY <1>4, <1>5
<1> QED
  BY <1>2, <1>4, <1>5, <1>6 DEF CiaTypeOK, LineInv, M

(* No timer is shown below zero, and the next event is the earliest.         *)
LEMMA InvKeptUp == CiaInv => TimersKeptUp
<1> SUFFICES ASSUME CiaInv PROVE TimersKeptUp
  OBVIOUS
<1>1. chip \in [Chip -> Registers] /\ LineInv(eventtab) /\ nextevent = events_schedule(eventtab)
      /\ InterruptStaysRaised
  BY DEF CiaInv
<1>2. TimersNotPastUnderflow
  <2>1. ASSUME NEW c \in Chip PROVE TaPassed(c) <= chip[c].ta /\ TbPassed(c) <= chip[c].tb
    <3>1. chip[c].ta \in Nat /\ chip[c].tb \in Nat
      BY <1>1, RegisterFacts
    <3>2. Before(chip[c], ciaclocks(since))
      BY ChipsOnTime
    <3> QED
      BY <3>1, <3>2 DEF Before, TaPassed, TbPassed
  <2> QED
    BY <2>1 DEF TimersNotPastUnderflow
<1>3. \A e \in DOMAIN eventtab : eventtab[e].active => eventtab[e].due > 0
  <2>1. DOMAIN eventtab = {"hsync", "cia"} /\ eventtab["hsync"].due > 0
    BY <1>1, CiaFacts DEF LineInv, Tabs
  <2>2. eventtab["cia"].active => eventtab["cia"].due > 0
    BY DEF CiaInv, UnderflowInv
  <2> QED
    BY <2>1, <2>2
<1> QED
  BY <1>1, <1>2, <1>3 DEF TimersKeptUp, NextEventIsEarliest

(* The registers, times and events stay in their ranges.                     *)
THEOREM CiaTypes == CiaSpec => []CiaTypeOK
BY CiaInvHolds, InvTypes, PTL

(* The lazy timers are brought up to date in time, and an interrupt that was *)
(* acknowledged but not read is raised again.                                *)
THEOREM TimersAreKeptUp == CiaSpec => []TimersKeptUp
BY CiaInvHolds, InvKeptUp, PTL

-----------------------------------------------------------------------------
(* The refinement: what the timers show now, and the phase of the E clock.   *)
Shown == [c \in Chip |-> [chip[c] EXCEPT !.ta = @ - TaPassed(c), !.tb = @ - TbPassed(c)]]
Phase == ccount(since) % DIV10

(* What is shown of each chip.                                               *)
LEMMA ShownIs == Shown = [c \in Chip |-> ShownBy(chip[c], ciaclocks(since))]
BY PassedIs DEF Shown

(* The same after a step.                                                    *)
LEMMA ShownIsNext == Shown' = [c \in Chip |-> ShownBy(chip'[c], ciaclocks(since)')]
<1>1. \A c \in Chip : [chip'[c] EXCEPT !.ta = @ - TaPassed(c)', !.tb = @ - TbPassed(c)']
                        = ShownBy(chip'[c], ciaclocks(since)')
  BY DEF ShownBy, Minus, TaPassed, TbPassed
<1> QED
  BY <1>1 DEF Shown

(* What is shown is the registers, but for the two timers.                   *)
LEMMA ShownInterrupts ==
  ASSUME NEW k \in Registers, NEW n \in Nat
  PROVE  ShownBy(k, n).ir = k.ir /\ ShownBy(k, 0) = k
<1> DEFINE a == k.ta - (IF CountsA(k) THEN n ELSE 0)
           b == k.tb - (IF CountsB(k) THEN n ELSE 0)
<1>1. ShownBy(k, n) = [k EXCEPT !.ta = a, !.tb = b]
  BY DEF ShownBy, Minus
<1>2. [k EXCEPT !.ta = a, !.tb = b].ir = k.ir
  <2> HIDE DEF a, b
  <2> QED
    BY DEF Registers
<1>3. ShownBy(k, 0) = [k EXCEPT !.ta = k.ta - 0, !.tb = k.tb - 0]
  BY DEF ShownBy, Minus
<1>4. k.ta - 0 = k.ta /\ k.tb - 0 = k.tb
  BY RegisterFacts
<1>5. ShownBy(k, 0) = [k EXCEPT !.ta = k.ta, !.tb = k.tb]
  BY <1>3, <1>4
<1>6. [k EXCEPT !.ta = k.ta, !.tb = k.tb] = k
  BY DEF Registers
<1> QED
  BY <1>1, <1>2, <1>5, <1>6

(* The E clock's step, told of what is shown.                                *)
LEMMA ElapseIs ==
  ASSUME Phase' = (Phase + 1) % DIV10,
         Shown' = IF Phase' = 0 THEN [c \in Chip |-> Ticks!CountDown(Shown[c])] ELSE Shown,
         intreq' = intreq \cup {c \in Chip : Shown'[c].ir}
  PROVE  Ticks!Elapse
BY DEF Ticks!Elapse, Shown, Phase, Ticks!Interrupts

(* A cycle without underflow, of what is shown: with the E clock's tick all  *)
(* timers have counted down by one.                                          *)
LEMMA QuietCycle ==
  ASSUME CiaInv, UNCHANGED <<chip, intreq, div10>>, since' = NextSince,
         eventtab["cia"].active => eventtab["cia"].due > 1
  PROVE  Ticks!Elapse
<1>1. /\ chip \in [Chip -> Registers] /\ div10 \in Nat /\ since \in Nat
      /\ DIV10 \in Nat /\ DIV10 > 0 /\ UnderflowInv(eventtab, chip, div10, since)
      /\ div10 \in 0 .. DIV10 - 1 /\ InterruptStaysRaised
  BY CiaFacts DEF CiaInv
<1> DEFINE x == ccount(since)
           n == ciaclocks(since)
           n1 == ciaclocks(since + 1)
<1>2. x \in Nat /\ ccount(since + 1) = x + 1
  BY <1>1 DEF ccount
<1>3. /\ (x + 1) % DIV10 = ((x % DIV10) + 1) % DIV10
      /\ (x + 1) % DIV10 = 0 => n1 = n + 1
      /\ (x + 1) % DIV10 # 0 => n1 = n
  BY <1>1, <1>2, NextCycle DEF ciaclocks
<1>4. n \in Nat /\ n1 \in Nat /\ \A c \in Chip : Before(chip[c], n) /\ InTime(chip[c], n1)
  BY ChipsOnTime
<1>5. Phase' = (x + 1) % DIV10 /\ Shown' = [c \in Chip |-> ShownBy(chip[c], n1)]
  <2>1. CASE since' = since + 1
    <3>1. ccount(since)' = x + 1 /\ ciaclocks(since)' = n1
      BY <1>2, <2>1 DEF ccount, ciaclocks
    <3> QED
      BY <3>1, ShownIsNext DEF Phase
  <2>2. CASE since' # since + 1
    <3>1. ~eventtab["cia"].active /\ since + 1 >= DIV10 /\ since' = since + 1 - DIV10
      BY <1>1, <2>2 DEF NextSince
    <3>2. CIA_timers(chip, div10) = {}
      BY <1>1, <3>1 DEF UnderflowInv
    <3>3. \A c \in Chip : ~CountsA(chip[c]) /\ ~CountsB(chip[c])
      BY <3>2 DEF CIA_timers
    <3>4. \A c \in Chip : \A a, b : ShownBy(chip[c], a) = ShownBy(chip[c], b)
      BY <3>3 DEF ShownBy
    <3>5. Shown' = [c \in Chip |-> ShownBy(chip[c], n1)]
      BY <3>4, ShownIsNext
    <3>6. ccount(since)' \in Nat /\ x + 1 = ccount(since)' + DIV10
      BY <1>1, <3>1 DEF ccount
    <3>7. (x + 1) % DIV10 = ccount(since)' % DIV10
      <4> DEFINE y == ccount(since)'
                 q == y \div DIV10
                 r == y % DIV10
      <4>1. y \in Nat /\ q \in Nat /\ r \in 0 .. DIV10 - 1 /\ y = DIV10 * q + r
        BY <1>1, <3>6, TickSplit
      <4>2. x + 1 = y + DIV10
        BY <3>6
      <4> HIDE DEF y, q, r
      <4>3. DIV10 * (q + 1) = DIV10 * q + DIV10 /\ DIV10 * q \in Nat /\ q + 1 \in Nat
        BY <1>1, <4>1, TimesOrder
      <4>4. x + 1 = DIV10 * (q + 1) + r
        <5> DEFINE p == DIV10 * q
                   z == DIV10 * (q + 1)
        <5>1. z = p + DIV10 /\ p \in Nat /\ y = p + r
          BY <4>1, <4>3
        <5> HIDE DEF p, z
        <5>2. x + 1 = z + r
          BY <1>1, <4>1, <4>2, <5>1
        <5> QED
          BY <5>2 DEF z
      <4>5. (DIV10 * (q + 1) + r) % DIV10 = r
        BY <1>1, <4>1, <4>3, TicksOf
      <4> QED
        BY <4>4, <4>5 DEF r, y
    <3>8. Phase' = (x + 1) % DIV10
      BY <1>1, <3>7 DEF Phase
    <3> QED
      BY <3>5, <3>8
  <2> QED
    BY <2>1, <2>2
<1>6. Phase' = (Phase + 1) % DIV10
  BY <1>3, <1>5 DEF Phase
<1>7. \A c \in Chip : Before(chip[c], n1)
  <2>1. \A t \in CIA_timers(chip, div10) : since + 1 < t /\ since + 1 <= t
    <3>1. CIA_timers(chip, div10) \subseteq Nat
      <4>1. DIV10 * Byte * Byte \in Nat
        BY CiaFacts
      <4> QED
        BY <1>1, <4>1, TimerTimes
    <3>2. eventtab["cia"].due \in Nat
      BY OnTime
    <3> QED
      BY <1>1, <3>1, <3>2 DEF UnderflowInv
  <2>2. n1 = (div10 + (since + 1)) \div DIV10 /\ since + 1 \in Nat
    BY <1>1 DEF ciaclocks, ccount
  <2> QED
    BY <1>1, <2>1, <2>2, NoneIsLate
<1>8. Shown' = IF Phase' = 0 THEN [c \in Chip |-> Ticks!CountDown(Shown[c])] ELSE Shown
  <2>1. CASE Phase' = 0
    <3>1. n1 = n + 1
      BY <1>3, <1>5, <2>1
    <3>2. ASSUME NEW c \in Chip PROVE Ticks!CountDown(Shown[c]) = ShownBy(chip[c], n1)
      <4>1. Ticks!CountDown(ShownBy(chip[c], n)) = CIA_update(chip[c], n + 1)
        BY <1>1, <1>4, <3>1, TickIsUpdate
      <4>2. CIA_update(chip[c], n1) = ShownBy(chip[c], n1)
        BY <1>1, <1>4, <1>7, UpdateBefore
      <4> QED
        BY <3>1, <4>1, <4>2, ShownIs
    <3> QED
      BY <1>5, <2>1, <3>2
  <2>2. CASE Phase' # 0
    BY <1>3, <1>5, <2>2, ShownIs
  <2> QED
    BY <2>1, <2>2
<1>9. intreq' = intreq \cup {c \in Chip : Shown'[c].ir}
  <2>1. \A c \in Chip : Shown'[c].ir = chip[c].ir
    BY <1>1, <1>4, <1>5, ShownInterrupts
  <2> QED
    BY <1>1, <2>1 DEF InterruptStaysRaised
<1> QED
  BY <1>6, <1>8, <1>9, ElapseIs

-----------------------------------------------------------------------------
(* The cycle of the earliest underflow: what CIA_update does to timers left  *)
(* alone for so long is what the last tick does to those that counted.       *)
LEMMA UnderflowCycle ==
  ASSUME CiaInv, eventtab["cia"].active, eventtab["cia"].due = 1,
         chip' = Updated(since + 1), div10' = ccount(since + 1) % DIV10, since' = 0,
         intreq' = intreq \cup NewIrqs(since + 1)
  PROVE  Ticks!Elapse
<1>1. /\ chip \in [Chip -> Registers] /\ div10 \in 0 .. DIV10 - 1 /\ since \in Nat /\ InterruptStaysRaised
      /\ DIV10 \in Nat /\ DIV10 > 0 /\ UnderflowInv(eventtab, chip, div10, since)
  BY CiaFacts DEF CiaInv
<1> DEFINE x == ccount(since)
           n == ciaclocks(since)
           n1 == ciaclocks(since + 1)
<1>2. x \in Nat /\ ccount(since + 1) = x + 1
  BY <1>1 DEF ccount
<1>3. n \in Nat /\ n1 \in Nat /\ \A c \in Chip : InTime(chip[c], n1)
  BY ChipsOnTime
<1>4. (x + 1) % DIV10 = 0
  <2>1. since + 1 \in CIA_timers(chip, div10)
    BY <1>1 DEF UnderflowInv
  <2>2. PICK m \in Nat : since + 1 = DIV10 - div10 + DIV10 * m
    <3>1. \A c \in Chip : chip[c].ta \in Nat /\ chip[c].tb \in Nat
      BY <1>1, RegisterFacts
    <3> QED
      BY <2>1, <3>1 DEF CIA_timers
  <2>3. DIV10 * (m + 1) = DIV10 * m + DIV10 /\ DIV10 * m \in Nat /\ m + 1 \in Nat
    BY <1>1, TimesOrder
  <2>4. x + 1 = DIV10 * (m + 1) + 0
    <3> DEFINE p == DIV10 * m
               z == DIV10 * (m + 1)
    <3>1. z = p + DIV10 /\ p \in Nat /\ since + 1 = DIV10 - div10 + p /\ x = div10 + since
      BY <2>2, <2>3 DEF ccount
    <3> HIDE DEF p, z, x
    <3>2. x + 1 = z + 0
      BY <1>1, <3>1
    <3> QED
      BY <3>2 DEF z
  <2>5. (DIV10 * (m + 1) + 0) % DIV10 = 0
    BY <1>1, <2>3, TicksOf
  <2> QED
    BY <2>4, <2>5
<1>5. n1 = n + 1 /\ ((x % DIV10) + 1) % DIV10 = 0
  BY <1>1, <1>2, <1>4, NextCycle DEF ciaclocks
<1>6. div10' = 0 /\ Phase' = 0 /\ ciaclocks(since)' = 0
  <2>1. div10' = 0
    BY <1>2, <1>4
  <2>2. DIV10 * 0 = 0 /\ (DIV10 * 0 + 0) \div DIV10 = 0 /\ (DIV10 * 0 + 0) % DIV10 = 0
    BY <1>1, TicksOf
  <2>3. ccount(since)' = 0
    BY <2>1 DEF ccount
  <2> QED
    BY <2>1, <2>2, <2>3 DEF Phase, ciaclocks
<1>7. Phase' = (Phase + 1) % DIV10
  BY <1>5, <1>6 DEF Phase
<1>8. Shown' = chip'
  <2>1. chip' \in [Chip -> Registers]
    BY UpdatedIs
  <2>2. \A c \in Chip : ShownBy(chip'[c], 0) = chip'[c]
    BY <2>1, ShownInterrupts
  <2>3. Shown' = [c \in Chip |-> chip'[c]]
    BY <1>6, <2>2, ShownIsNext
  <2> QED
    BY <2>1, <2>3
<1>9. Shown' = [c \in Chip |-> Ticks!CountDown(Shown[c])]
  <2>1. \A c \in Chip : Ticks!CountDown(ShownBy(chip[c], n)) = CIA_update(chip[c], n1)
    BY <1>1, <1>3, <1>5, TickIsUpdate
  <2>2. chip' = [c \in Chip |-> CIA_update(chip[c], n1)]
    BY DEF Updated
  <2> QED
    BY <1>8, <2>1, <2>2, ShownIs
<1>10. intreq' = intreq \cup {c \in Chip : Shown'[c].ir}
  <2>1. \A c \in Chip : Updated(since + 1)[c].ir => c \in intreq \cup NewIrqs(since + 1)
    BY UpdatedIs
  <2>2. \A c \in NewIrqs(since + 1) : c \in Chip /\ Updated(since + 1)[c].ir
    BY DEF NewIrqs
  <2> QED
    BY <1>8, <2>1, <2>2
<1> QED
  BY <1>6, <1>7, <1>9, <1>10, ElapseIs

(* Every cycle, with an event or without, is a cycle of the E clock.         *)
LEMMA CyclesElapse ==
  ASSUME CiaInv, CyclePasses \/ EventsDue
  PROVE  Ticks!Elapse
<1> DEFINE tab == hsync_due(aged(1))
<1>1. eventtab["cia"].due \in Nat /\ nextevent \in 1..HsyncTime /\ HsyncTime \in Nat
      /\ (eventtab["cia"].active => nextevent <= eventtab["cia"].due)
  BY OnTime, CiaFacts
<1>2. CASE CyclePasses
  <2>1. UNCHANGED <<chip, intreq, div10>> /\ since' = NextSince /\ nextevent > 1
    BY <1>2 DEF CyclePasses, NextSince
  <2>2. eventtab["cia"].active => eventtab["cia"].due > 1
    BY <1>1, <2>1
  <2> QED
    BY <2>1, <2>2, QuietCycle
<1>3. CASE EventsDue
  <2>1. nextevent = 1
    BY <1>1, <1>3 DEF EventsDue
  <2>2. IF tab["cia"].active /\ tab["cia"].due = 0
        THEN /\ chip' = Updated(since + 1) /\ div10' = ccount(since + 1) % DIV10 /\ since' = 0
             /\ intreq' = intreq \cup NewIrqs(since + 1)
        ELSE /\ since' = IF tab["cia"].active \/ since + 1 < DIV10 THEN since + 1 ELSE since + 1 - DIV10
             /\ UNCHANGED <<chip, intreq, div10>>
    <3> DEFINE first == hsync_due(aged(nextevent))
               now == since + nextevent
    <3>1. IF first["cia"].active /\ first["cia"].due = 0
          THEN /\ chip' = Updated(now) /\ div10' = ccount(now) % DIV10 /\ since' = 0
               /\ intreq' = intreq \cup NewIrqs(now)
          ELSE /\ since' = IF first["cia"].active \/ now < DIV10 THEN now ELSE now - DIV10
               /\ UNCHANGED <<chip, intreq, div10>>
      BY <1>3 DEF EventsDue
    <3>2. first = tab /\ now = since + 1
      BY <2>1
    <3> HIDE DEF first, now, tab
    <3>3. now - DIV10 = since + 1 - DIV10
      BY <3>2, CiaFacts DEF CiaInv
    <3> QED
      BY <3>1, <3>2, <3>3, Zenon
  <2>3. /\ tab["cia"].active = eventtab["cia"].active
        /\ tab["cia"].due = IF eventtab["cia"].active THEN eventtab["cia"].due - 1 ELSE eventtab["cia"].due
    BY LineAgain, AgedIs
  <2> HIDE DEF tab
  <2>4. CASE tab["cia"].active /\ tab["cia"].due = 0
    <3>1. eventtab["cia"].active /\ eventtab["cia"].due = 1
      BY <1>1, <2>3, <2>4
    <3> QED
      BY <2>2, <2>4, <3>1, UnderflowCycle
  <2>5. CASE ~(tab["cia"].active /\ tab["cia"].due = 0)
    <3>1. eventtab["cia"].active => eventtab["cia"].due > 1
      BY <1>1, <2>1, <2>3, <2>5
    <3>2. since' = NextSince /\ UNCHANGED <<chip, intreq, div10>>
      BY <2>2, <2>3, <2>5 DEF NextSince
    <3> QED
      BY <3>1, <3>2, QuietCycle
  <2> QED
    BY <2>4, <2>5
<1> QED
  BY <1>2, <1>3

(* A write finds the timers as they are shown.                               *)
LEMMA WriteIsWrite ==
  ASSUME CiaInv, NEW c \in Chip, WriteTimer(c)
  PROVE  Ticks!TicksWrite(c)
<1>1. PICK w \in Writes[c] : chip' = [Updated(since) EXCEPT ![c] = WriteReg(@, w.reg, w.val)]
  BY DEF WriteTimer
<1>2. div10' = ccount(since) % DIV10 /\ since' = 0 /\ intreq' = intreq \cup NewIrqs(since)
  BY DEF WriteTimer
<1>3. chip \in [Chip -> Registers] /\ w \in RegWrites /\ DIV10 \in Nat /\ DIV10 > 0
  BY CiaFacts DEF CiaInv
<1>4. /\ ciaclocks(since) \in Nat
      /\ \A d \in Chip : /\ raised(chip[d], ciaclocks(since)) = {}
                         /\ CIA_update(chip[d], ciaclocks(since)) = ShownBy(chip[d], ciaclocks(since))
  BY <1>3, ChipsOnTime, UpdateBefore
<1>5. Updated(since) = Shown /\ NewIrqs(since) = {} /\ Shown \in [Chip -> Registers]
  BY <1>4, ShownIs, UpdatedIs DEF Updated, NewIrqs
<1>6. ccount(since)' = div10' /\ div10' \in 0 .. DIV10 - 1
  <2>1. div10' \in 0 .. DIV10 - 1
    BY <1>2, RestIs
  <2> QED
    BY <1>2, <1>3, <2>1 DEF ccount
<1>7. ciaclocks(since)' = 0 /\ Phase' = Phase
  <2>1. (DIV10 * 0 + div10') \div DIV10 = 0 /\ (DIV10 * 0 + div10') % DIV10 = div10'
    BY <1>3, <1>6, TicksOf
  <2>2. DIV10 * 0 + div10' = div10'
    <3>1. DIV10 * 0 = 0 /\ div10' \in Nat
      BY <1>3, <1>6
    <3> QED
      BY <3>1
  <2> QED
    BY <1>2, <1>6, <2>1, <2>2 DEF ciaclocks, Phase
<1> DEFINE k == Shown[c]
           j == WriteReg(k, w.reg, w.val)
<1>8. j \in Registers
  BY <1>3, <1>5, WritesKeep
<1>9. chip' = [Shown EXCEPT ![c] = j]
  BY <1>1, <1>5
<1>10. Shown' = chip'
  <2> HIDE DEF j
  <2>1. chip' \in [Chip -> Registers]
    BY <1>5, <1>8, <1>9
  <2>2. \A d \in Chip : ShownBy(chip'[d], 0) = chip'[d]
    BY <2>1, ShownInterrupts
  <2>3. Shown' = [d \in Chip |-> chip'[d]]
    BY <1>7, <2>2, ShownIsNext
  <2> QED
    BY <2>1, <2>3
<1>11. Shown' = [Shown EXCEPT ![c] = Ticks!WriteReg(@, w.reg, w.val)]
  BY <1>9, <1>10, SameChip
<1>12. UNCHANGED <<intreq, Phase>>
  BY <1>2, <1>5, <1>7
<1> QED
  BY <1>11, <1>12 DEF Ticks!TicksWrite, Shown, Phase

(* What does not touch the timers does the same to what is shown of them.    *)
LEMMA ShownAlone ==
  ASSUME CiaInv, UNCHANGED clockVars, NEW c \in Chip, NEW j \in Registers, chip' = [chip EXCEPT ![c] = j],
         SameTimers(j, chip[c])
  PROVE  /\ UNCHANGED Phase /\ Shown' = [Shown EXCEPT ![c] = ShownBy(j, ciaclocks(since))]
         /\ Shown[c] = ShownBy(chip[c], ciaclocks(since)) /\ ciaclocks(since) \in Nat
         /\ \A d \in Chip : Shown'[d].ir = chip'[d].ir
<1>1. UNCHANGED <<div10, since>> /\ chip \in [Chip -> Registers] /\ chip' \in [Chip -> Registers]
  BY DEF clockVars, CiaInv
<1>2. UNCHANGED Phase /\ ciaclocks(since)' = ciaclocks(since)
  BY <1>1 DEF Phase, ciaclocks, ccount
<1>3. ciaclocks(since) \in Nat
  BY ChipsOnTime
<1>4. Shown' = [d \in Chip |-> ShownBy(chip'[d], ciaclocks(since))]
  BY <1>2, ShownIsNext
<1>5. Shown' = [Shown EXCEPT ![c] = ShownBy(j, ciaclocks(since))]
  <2>1. \A d \in Chip : chip'[d] = IF d = c THEN j ELSE chip[d]
    BY <1>1
  <2> QED
    BY <1>4, <2>1, ShownIs
<1>6. \A d \in Chip : Shown'[d].ir = chip'[d].ir
  BY <1>1, <1>3, <1>4, ShownInterrupts
<1> QED
  BY <1>2, <1>3, <1>5, <1>6, ShownIs

(* The registers with other flags, interrupt bit and mask.                   *)
WithFlags(k, F, y, m) == [k EXCEPT !.icr = F, !.ir = y, !.imask = m]

(* Registers whose timers are any integers, as a difference may be.          *)
WideRegisters == [ta : Int, tb : Int, la : Timer, lb : Timer, cra : SUBSET CraBits, crb : SUBSET CrbBits,
                  sdr_cnt : 0..SdrBits, icr : SUBSET IcrBits, ir : BOOLEAN, imask : SUBSET IcrBits]

(* Taking passed time off the timers goes with what is done to the flags.    *)
LEMMA FlagsApart ==
  ASSUME NEW k \in Registers, NEW n \in Nat, NEW F \in SUBSET IcrBits, NEW y \in BOOLEAN, NEW m \in SUBSET IcrBits
  PROVE  ShownBy(WithFlags(k, F, y, m), n) = WithFlags(ShownBy(k, n), F, y, m)
<1> DEFINE j == WithFlags(k, F, y, m)
           a == k.ta - (IF CountsA(k) THEN n ELSE 0)
           b == k.tb - (IF CountsB(k) THEN n ELSE 0)
<1>1. j.ta = k.ta /\ j.tb = k.tb /\ j.cra = k.cra /\ j.crb = k.crb
  BY DEF Registers, WithFlags
<1>2. CountsA(j) = CountsA(k) /\ CountsB(j) = CountsB(k)
  BY <1>1 DEF CountsA, CountsB
<1> HIDE DEF j
<1>3. ShownBy(j, n) = [j EXCEPT !.ta = a, !.tb = b]
  BY <1>1, <1>2 DEF ShownBy, Minus
<1>4. ShownBy(k, n) = [k EXCEPT !.ta = a, !.tb = b]
  BY DEF ShownBy, Minus
<1> HIDE DEF a, b
<1> QED
  BY <1>3, <1>4 DEF Registers, j, WithFlags

(* What is shown are registers, with the flags of those it is made from.     *)
LEMMA ShownFlags ==
  ASSUME NEW k \in Registers, NEW n \in Nat
  PROVE  /\ ShownBy(k, n) \in WideRegisters
         /\ ShownBy(k, n).icr = k.icr /\ ShownBy(k, n).ir = k.ir /\ ShownBy(k, n).imask = k.imask
<1> DEFINE a == k.ta - (IF CountsA(k) THEN n ELSE 0)
           b == k.tb - (IF CountsB(k) THEN n ELSE 0)
<1>1. ShownBy(k, n) = [k EXCEPT !.ta = a, !.tb = b]
  BY DEF ShownBy, Minus
<1>2. a \in Int /\ b \in Int
  BY RegisterFacts
<1> HIDE DEF a, b
<1> QED
  BY <1>1, <1>2 DEF Registers, WideRegisters

(* What the four operators on the flags make of them.                        *)
LEMMA FlagsOf ==
  ASSUME NEW k \in WideRegisters
  PROVE  /\ RethinkICR(k) = WithFlags(k, k.icr, k.imask \cap k.icr # {}, k.imask)
         /\ \A F \in SUBSET IcrBits :
              Raise(k, F) = WithFlags(k, k.icr \cup F, k.imask \cap (k.icr \cup F) # {}, k.imask)
         /\ ReadIcr(k) = WithFlags(k, {}, FALSE, k.imask)
         /\ \A b \in SUBSET IcrBits :
              /\ WriteMask(k, TRUE, b) = WithFlags(k, k.icr, k.ir, k.imask \cup b)
              /\ WriteMask(k, FALSE, b) = WithFlags(k, k.icr, k.ir, k.imask \ b)
<1>1. ASSUME NEW j \in WideRegisters
      PROVE  RethinkICR(j) = WithFlags(j, j.icr, j.imask \cap j.icr # {}, j.imask)
  <2> DEFINE y == j.imask \cap j.icr # {}
  <2>1. RethinkICR(j) = [j EXCEPT !.ir = y]
    BY DEF RethinkICR
  <2> HIDE DEF y
  <2> QED
    BY <2>1 DEF WithFlags, WideRegisters, y
<1>2. ASSUME NEW F \in SUBSET IcrBits
      PROVE  RethinkICR([k EXCEPT !.icr = F]) = WithFlags(k, F, k.imask \cap F # {}, k.imask)
  <2> DEFINE j == [k EXCEPT !.icr = F]
             y == k.imask \cap F # {}
  <2>1. j.imask \cap j.icr # {} <=> y
    BY DEF WideRegisters
  <2>2. RethinkICR(j) = [j EXCEPT !.ir = y]
    BY <2>1 DEF RethinkICR
  <2> HIDE DEF y
  <2>3. [j EXCEPT !.ir = y] = WithFlags(k, F, y, k.imask)
    BY DEF WithFlags, WideRegisters
  <2> QED
    BY <2>2, <2>3 DEF y
<1>3. ASSUME NEW F \in SUBSET IcrBits
      PROVE  Raise(k, F) = WithFlags(k, k.icr \cup F, k.imask \cap (k.icr \cup F) # {}, k.imask)
  <2> DEFINE G == k.icr \cup F
  <2>1. G \in SUBSET IcrBits
    BY DEF WideRegisters
  <2>2. Raise(k, F) = RethinkICR([k EXCEPT !.icr = G])
    BY DEF Raise
  <2> HIDE DEF G
  <2>3. RethinkICR([k EXCEPT !.icr = G]) = WithFlags(k, G, k.imask \cap G # {}, k.imask)
    BY <2>1, <1>2
  <2> QED
    BY <2>2, <2>3 DEF G
<1>4. ReadIcr(k) = WithFlags(k, {}, FALSE, k.imask)
  <2>1. RethinkICR([k EXCEPT !.icr = {}]) = WithFlags(k, {}, k.imask \cap {} # {}, k.imask)
    BY <1>2
  <2>2. (k.imask \cap {} # {}) = FALSE
    OBVIOUS
  <2> QED
    BY <2>1, <2>2 DEF ReadIcr
<1>5. ASSUME NEW b \in SUBSET IcrBits
      PROVE  /\ WriteMask(k, TRUE, b) = WithFlags(k, k.icr, k.ir, k.imask \cup b)
             /\ WriteMask(k, FALSE, b) = WithFlags(k, k.icr, k.ir, k.imask \ b)
  BY DEF WriteMask, WithFlags, WideRegisters
<1> QED
  BY <1>1, <1>3, <1>4, <1>5

(* The operators on flags give the same of what is shown.                    *)
LEMMA FlagsCommute ==
  ASSUME NEW k \in Registers, NEW n \in Nat
  PROVE  /\ ShownBy(RethinkICR(k), n) = RethinkICR(ShownBy(k, n))
         /\ \A F \in SUBSET IcrBits : ShownBy(Raise(k, F), n) = Raise(ShownBy(k, n), F)
         /\ ShownBy(ReadIcr(k), n) = ReadIcr(ShownBy(k, n))
         /\ \A s \in BOOLEAN, b \in SUBSET IcrBits : ShownBy(WriteMask(k, s, b), n) = WriteMask(ShownBy(k, n), s, b)
<1> DEFINE j == ShownBy(k, n)
<1>1. k \in WideRegisters /\ k.icr \in SUBSET IcrBits /\ k.ir \in BOOLEAN /\ k.imask \in SUBSET IcrBits
  BY RegisterFacts DEF Registers, WideRegisters, Timer
<1>2. j \in WideRegisters /\ j.icr = k.icr /\ j.ir = k.ir /\ j.imask = k.imask
  BY ShownFlags
<1>3. ASSUME NEW F \in SUBSET IcrBits, NEW y \in BOOLEAN, NEW m \in SUBSET IcrBits
      PROVE  ShownBy(WithFlags(k, F, y, m), n) = WithFlags(j, F, y, m)
  BY FlagsApart
<1> HIDE DEF j
<1>4. ShownBy(RethinkICR(k), n) = RethinkICR(j)
  <2> DEFINE y == k.imask \cap k.icr # {}
  <2>1. RethinkICR(k) = WithFlags(k, k.icr, y, k.imask) /\ RethinkICR(j) = WithFlags(j, k.icr, y, k.imask)
    BY <1>1, <1>2, FlagsOf
  <2>2. y \in BOOLEAN
    OBVIOUS
  <2> HIDE DEF y
  <2> QED
    BY <1>1, <1>3, <2>1, <2>2
<1>5. ASSUME NEW F \in SUBSET IcrBits PROVE ShownBy(Raise(k, F), n) = Raise(j, F)
  <2> DEFINE G == k.icr \cup F
             y == k.imask \cap G # {}
  <2>1. Raise(k, F) = WithFlags(k, G, y, k.imask) /\ Raise(j, F) = WithFlags(j, G, y, k.imask)
    <3>1. Raise(k, F) = WithFlags(k, G, y, k.imask)
      BY <1>1, FlagsOf
    <3>2. Raise(j, F) = WithFlags(j, j.icr \cup F, j.imask \cap (j.icr \cup F) # {}, j.imask)
      BY <1>2, FlagsOf
    <3> QED
      BY <1>2, <3>1, <3>2
  <2>2. y \in BOOLEAN /\ G \in SUBSET IcrBits
    BY <1>1
  <2> HIDE DEF y, G
  <2> QED
    BY <1>1, <1>3, <2>1, <2>2
<1>6. ShownBy(ReadIcr(k), n) = ReadIcr(j)
  <2>1. ReadIcr(k) = WithFlags(k, {}, FALSE, k.imask) /\ ReadIcr(j) = WithFlags(j, {}, FALSE, k.imask)
    BY <1>1, <1>2, FlagsOf
  <2>2. {} \in SUBSET IcrBits /\ FALSE \in BOOLEAN
    OBVIOUS
  <2> QED
    BY <1>1, <1>3, <2>1, <2>2
<1>7. ASSUME NEW b \in SUBSET IcrBits
      PROVE  /\ ShownBy(WriteMask(k, TRUE, b), n) = WriteMask(j, TRUE, b)
             /\ ShownBy(WriteMask(k, FALSE, b), n) = WriteMask(j, FALSE, b)
  <2>1. /\ WriteMask(k, TRUE, b) = WithFlags(k, k.icr, k.ir, k.imask \cup b)
        /\ WriteMask(k, FALSE, b) = WithFlags(k, k.icr, k.ir, k.imask \ b)
    BY <1>1, FlagsOf
  <2>2. /\ WriteMask(j, TRUE, b) = WithFlags(j, k.icr, k.ir, k.imask \cup b)
        /\ WriteMask(j, FALSE, b) = WithFlags(j, k.icr, k.ir, k.imask \ b)
    <3>1. /\ WriteMask(j, TRUE, b) = WithFlags(j, j.icr, j.ir, j.imask \cup b)
          /\ WriteMask(j, FALSE, b) = WithFlags(j, j.icr, j.ir, j.imask \ b)
      BY <1>2, FlagsOf
    <3> QED
      BY <1>2, <3>1
  <2>3. k.imask \cup b \in SUBSET IcrBits /\ k.imask \ b \in SUBSET IcrBits
    BY <1>1
  <2> DEFINE x == k.imask \cup b
             y == k.imask \ b
  <2>4. /\ WriteMask(k, TRUE, b) = WithFlags(k, k.icr, k.ir, x)
        /\ WriteMask(j, TRUE, b) = WithFlags(j, k.icr, k.ir, x)
    BY <2>1, <2>2
  <2>5. /\ WriteMask(k, FALSE, b) = WithFlags(k, k.icr, k.ir, y)
        /\ WriteMask(j, FALSE, b) = WithFlags(j, k.icr, k.ir, y)
    BY <2>1, <2>2
  <2> HIDE DEF x, y
  <2>6. x \in SUBSET IcrBits /\ y \in SUBSET IcrBits
    BY <2>3 DEF x, y
  <2>7. /\ ShownBy(WithFlags(k, k.icr, k.ir, x), n) = WithFlags(j, k.icr, k.ir, x)
        /\ ShownBy(WithFlags(k, k.icr, k.ir, y), n) = WithFlags(j, k.icr, k.ir, y)
    BY <1>1, <1>3, <2>6
  <2> QED
    BY <2>4, <2>5, <2>7, Zenon
<1>8. \A s \in BOOLEAN : s = TRUE \/ s = FALSE
  OBVIOUS
<1> QED
  BY <1>4, <1>5, <1>6, <1>7, <1>8 DEF j

(* A write of the mask is one of the ticking timers.                         *)
LEMMA MaskIsMask ==
  ASSUME CiaInv, NEW c \in Chip, WriteImask(c)
  PROVE  Ticks!TicksWriteMask(c)
<1>1. PICK s \in BOOLEAN, b \in MaskVals : chip' = [chip EXCEPT ![c] = WriteMask(@, s, b)]
  BY DEF WriteImask
<1> DEFINE j == WriteMask(chip[c], s, b)
           n == ciaclocks(since)
<1>2. chip \in [Chip -> Registers] /\ b \in SUBSET IcrBits
  BY CiaFacts DEF CiaInv
<1>3. j \in Registers /\ SameTimers(j, chip[c]) /\ chip' = [chip EXCEPT ![c] = j] /\ UNCHANGED clockVars
  BY <1>1, <1>2, MaskKeeps DEF WriteImask
<1>4. n \in Nat
  BY ChipsOnTime
<1>5. ShownBy(j, n) = WriteMask(ShownBy(chip[c], n), s, b)
  BY <1>2, <1>4, FlagsCommute
<1> HIDE DEF j
<1>6. /\ UNCHANGED Phase /\ Shown' = [Shown EXCEPT ![c] = ShownBy(j, n)] /\ Shown[c] = ShownBy(chip[c], n)
  BY <1>3, ShownAlone
<1>7. Shown' = [Shown EXCEPT ![c] = Ticks!WriteMask(@, s, b)] /\ UNCHANGED intreq
  <2>1. Ticks!WriteMask(Shown[c], s, b) = WriteMask(Shown[c], s, b)
    BY SameChip
  <2> QED
    BY <1>5, <1>6, <2>1 DEF WriteImask
<1> QED
  BY <1>6, <1>7 DEF Ticks!TicksWriteMask, Shown, Phase

(* So is a read of the interrupt control register,                           *)
LEMMA ReadIsRead ==
  ASSUME CiaInv, NEW c \in Chip, ReadICR(c)
  PROVE  Ticks!TicksReadIcr(c)
<1> DEFINE j == ReadIcr(chip[c])
           n == ciaclocks(since)
<1>2. chip \in [Chip -> Registers]
  BY DEF CiaInv
<1>3. j \in Registers /\ SameTimers(j, chip[c]) /\ chip' = [chip EXCEPT ![c] = j] /\ UNCHANGED clockVars
  BY <1>2, ReadIcrKeeps DEF ReadICR
<1>4. n \in Nat
  BY ChipsOnTime
<1>5. ShownBy(j, n) = ReadIcr(ShownBy(chip[c], n))
  BY <1>2, <1>4, FlagsCommute
<1> HIDE DEF j
<1>6. /\ UNCHANGED Phase /\ Shown' = [Shown EXCEPT ![c] = ShownBy(j, n)] /\ Shown[c] = ShownBy(chip[c], n)
  BY <1>3, ShownAlone
<1>7. Shown' = [Shown EXCEPT ![c] = Ticks!ReadIcr(@)] /\ UNCHANGED intreq
  BY <1>5, <1>6, SameChip DEF ReadICR
<1> QED
  BY <1>6, <1>7 DEF Ticks!TicksReadIcr, Shown, Phase

(* an interrupt from outside,                                                *)
LEMMA RaiseIsRaise ==
  ASSUME CiaInv, NEW c \in Chip, NEW f \in Flags, RaiseFlag(c, f)
  PROVE  Ticks!TicksRaise(c, f)
<1> DEFINE j == Raise(chip[c], {f})
           n == ciaclocks(since)
<1>2. chip \in [Chip -> Registers] /\ {f} \in SUBSET IcrBits /\ InterruptStaysRaised
  BY CiaFacts DEF CiaInv
<1>3. j \in Registers /\ SameTimers(j, chip[c]) /\ chip' = [chip EXCEPT ![c] = j] /\ UNCHANGED clockVars
  BY <1>2, RaiseKeeps DEF RaiseFlag
<1>4. n \in Nat
  BY ChipsOnTime
<1>5. ShownBy(j, n) = Raise(ShownBy(chip[c], n), {f})
  BY <1>2, <1>4, FlagsCommute
<1> HIDE DEF j
<1>6. /\ UNCHANGED Phase /\ Shown' = [Shown EXCEPT ![c] = ShownBy(j, n)] /\ Shown[c] = ShownBy(chip[c], n)
      /\ \A d \in Chip : Shown'[d].ir = chip'[d].ir
  BY <1>3, ShownAlone
<1>7. Shown' = [Shown EXCEPT ![c] = Ticks!Raise(@, {f})]
  BY <1>5, <1>6, SameChip
<1>8. intreq' = intreq \cup {d \in Chip : Shown'[d].ir}
  <2>1. intreq' = IF chip'[c].ir THEN intreq \cup {c} ELSE intreq
    BY DEF RaiseFlag
  <2>2. \A d \in Chip : d # c => chip'[d] = chip[d]
    BY <1>2, <1>3
  <2> QED
    BY <1>2, <1>6, <2>1, <2>2 DEF InterruptStaysRaised
<1> QED
  BY <1>6, <1>7, <1>8 DEF Ticks!TicksRaise, Ticks!Interrupts, Shown, Phase

(* and the clearing of the bit in INTREQ.                                    *)
LEMMA AcknowledgeIs ==
  ASSUME CiaInv, NEW c \in Chip, Acknowledge(c)
  PROVE  Ticks!TicksAcknowledge(c)
<1> DEFINE n == ciaclocks(since)
<1>1. /\ chip' = [d \in Chip |-> RethinkICR(chip[d])] /\ UNCHANGED clockVars
      /\ intreq' = (intreq \ {c}) \cup Interrupts(chip')
  BY DEF Acknowledge
<1>2. chip \in [Chip -> Registers] /\ n \in Nat
  BY ChipsOnTime DEF CiaInv
<1>3. UNCHANGED Phase /\ ciaclocks(since)' = n
  BY <1>1 DEF Phase, ciaclocks, ccount, clockVars
<1>4. \A d \in Chip : chip'[d] = RethinkICR(chip[d]) /\ chip'[d] \in Registers
  BY <1>1, <1>2, RethinkKeeps
<1> HIDE DEF n
<1>5. Shown' = [d \in Chip |-> ShownBy(chip'[d], n)]
  BY <1>3, ShownIsNext
<1>6. \A d \in Chip : ShownBy(chip'[d], n) = RethinkICR(Shown[d])
  BY <1>2, <1>4, FlagsCommute, ShownIs DEF n
<1>7. Shown' = [d \in Chip |-> Ticks!RethinkICR(Shown[d])]
  BY <1>5, <1>6, SameChip
<1>8. \A d \in Chip : Shown'[d].ir = chip'[d].ir
  BY <1>2, <1>4, <1>5, ShownInterrupts
<1>9. intreq' = (intreq \ {c}) \cup {d \in Chip : Shown'[d].ir}
  BY <1>1, <1>8 DEF Interrupts
<1> QED
  BY <1>3, <1>7, <1>9 DEF Ticks!TicksAcknowledge, Ticks!Interrupts, Shown, Phase

(* At the start both show the registers after a reset.                       *)
LEMMA StartsAsTicks == CiaInit => Ticks!TicksInit
<1> SUFFICES ASSUME CiaInit PROVE Ticks!TicksInit
  OBVIOUS
<1>1. DIV10 \in Nat /\ DIV10 > 0
  BY CiaFacts
<1>2. (DIV10 * 0 + 0) \div DIV10 = 0 /\ (DIV10 * 0 + 0) % DIV10 = 0 /\ DIV10 * 0 + 0 = 0
  BY <1>1, TicksOf
<1>3. ccount(since) = 0
  BY DEF CiaInit, ccount
<1>4. Phase = 0 /\ ciaclocks(since) = 0
  BY <1>2, <1>3 DEF Phase, ciaclocks
<1>5. AfterReset \in Registers
  BY CiaFacts DEF AfterReset, Registers
<1>6. Shown = [c \in Chip |-> AfterReset]
  BY <1>4, <1>5, ShownIs, ShownInterrupts DEF CiaInit
<1>7. Ticks!AfterReset = AfterReset
  BY DEF Ticks!AfterReset, AfterReset
<1> QED
  BY <1>4, <1>6, <1>7 DEF Ticks!TicksInit, Shown, Phase, CiaInit

(* Every step is a step of the ticking timers.                               *)
LEMMA StepsAreTicks == CiaInv /\ [CiaNext]_ciaVars => [Ticks!TicksNext]_(Ticks!ticksVars)
<1> SUFFICES ASSUME CiaInv, [CiaNext]_ciaVars PROVE [Ticks!TicksNext]_(Ticks!ticksVars)
  OBVIOUS
<1>1. CASE CyclePasses \/ EventsDue
  BY <1>1, CyclesElapse DEF Ticks!TicksNext
<1>2. CASE \E c \in Chip : WriteTimer(c)
  BY <1>2, WriteIsWrite DEF Ticks!TicksNext
<1>3. CASE \E c \in Chip : WriteImask(c)
  BY <1>3, MaskIsMask DEF Ticks!TicksNext
<1>4. CASE \E c \in Chip : ReadICR(c)
  BY <1>4, ReadIsRead DEF Ticks!TicksNext
<1>5. CASE \E c \in Chip : Acknowledge(c)
  BY <1>5, AcknowledgeIs DEF Ticks!TicksNext
<1>6. CASE \E c \in Chip : \E f \in Flags : RaiseFlag(c, f)
  BY <1>6, RaiseIsRaise DEF Ticks!TicksNext
<1>7. CASE UNCHANGED ciaVars
  <2>1. Shown' = Shown /\ Phase' = Phase /\ intreq' = intreq
    BY <1>7 DEF ciaVars, clockVars, Shown, Phase, TaPassed, TbPassed, ciaclocks, ccount
  <2> QED
    BY <2>1 DEF Ticks!ticksVars, Shown, Phase
<1> QED
  BY <1>1, <1>2, <1>3, <1>4, <1>5, <1>6, <1>7 DEF CiaNext

(* Nobody can tell the lazy timers from timers that count at every tick.     *)
THEOREM LazyTimersTick == CiaSpec => ImplementsTicks
BY StartsAsTicks, StepsAreTicks, CiaInvHolds, PTL DEF CiaSpec, ImplementsTicks, Ticks!TicksSpec

-----------------------------------------------------------------------------
(* The time of day is three digits, one per register.                        *)
Digits == 0 .. TodByte - 1
OfDigits(h, m, l) == TodByte * (TodByte * h + m) + l

(* Every value of the counter is its three bytes.                            *)
LEMMA DigitsOf ==
  ASSUME NEW x \in Tod
  PROVE  /\ Hi(x) \in Digits /\ Mid(x) \in Digits /\ Lo(x) \in Digits
         /\ x = OfDigits(Hi(x), Mid(x), Lo(x))
<1> DEFINE y == x \div TodByte
           q == y \div TodByte
<1>1. TodByte \in Nat /\ TodByte > 0 /\ x \in Nat
  BY CiaTodAssumption DEF CiaTodAssumption, Tod
<1>2. y \in Nat /\ Lo(x) \in Digits /\ x = TodByte * y + Lo(x)
  BY <1>1, TickSplit DEF Lo, Digits
<1> HIDE DEF y
<1>3. q \in Nat /\ Mid(x) \in Digits /\ y = TodByte * q + Mid(x)
  BY <1>1, <1>2, TickSplit DEF Mid, Digits, y
<1> HIDE DEF q
<1> DEFINE m == Mid(x)
           l == Lo(x)
           s == TodByte * TodByte
           r == TodByte * m + l
<1>4. x = TodByte * (TodByte * q + m) + l /\ m \in Digits /\ l \in Digits
  BY <1>2, <1>3
<1> HIDE DEF m, l
<1>5. s \in Nat /\ s > 0 /\ r \in 0 .. s - 1
  <2>1. TodByte * (m + 1) = TodByte * m + TodByte /\ TodByte * m \in Nat /\ s \in Nat
    BY <1>1, <1>4, TimesOrder DEF Digits
  <2>2. m + 1 <= TodByte => TodByte * (m + 1) <= TodByte * TodByte
    BY <1>1, <1>4, TimesOrder DEF Digits
  <2> DEFINE p == TodByte * m
  <2> HIDE DEF p
  <2>3. p + TodByte <= s /\ p \in Nat
    BY <1>1, <1>4, <2>1, <2>2 DEF Digits, p
  <2>4. p + l \in 0 .. s - 1 /\ s > 0
    BY <1>1, <1>4, <2>1, <2>3 DEF Digits
  <2> QED
    BY <2>1, <2>4 DEF p
<1>6. x = s * q + r
  <2>1. TodByte * (TodByte * q + m) = s * q + TodByte * m
    BY <1>1, <1>3, <1>4 DEF Digits
  <2> DEFINE u == s * q
             v == TodByte * m
  <2>2. u \in Nat /\ v \in Nat /\ x = (u + v) + l
    BY <1>1, <1>3, <1>4, <1>5, <2>1 DEF Digits
  <2> HIDE DEF u, v
  <2>3. x = u + (v + l)
    BY <1>4, <2>2 DEF Digits
  <2> QED
    BY <2>3 DEF u, v
<1> HIDE DEF s, r
<1>7. x \div s = q
  BY <1>3, <1>5, <1>6, TicksOf
<1>8. Hi(x) = q
  BY <1>7 DEF Hi, s
<1>9. q < TodByte
  <2>1. s * TodByte \in Nat /\ x < s * TodByte
    BY <1>1, <1>5 DEF Tod, s
  <2>2. TodByte <= q => s * TodByte <= s * q
    BY <1>1, <1>3, <1>5, TimesOrder
  <2> DEFINE u == s * q
  <2>3. u \in Nat
    BY <1>3, <1>5, TimesOrder
  <2> HIDE DEF u
  <2>4. u <= x
    BY <1>5, <1>6, <2>3 DEF u
  <2> QED
    BY <1>1, <1>3, <2>1, <2>2, <2>3, <2>4 DEF u
<1>10. q \in Digits
  BY <1>1, <1>3, <1>9 DEF Digits
<1> QED
  BY <1>4, <1>8, <1>10 DEF OfDigits, m, l

(* Three bytes are a value of the counter, which has these bytes.            *)
LEMMA OfDigitsIs ==
  ASSUME NEW h \in Digits, NEW m \in Digits, NEW l \in Digits
  PROVE  /\ OfDigits(h, m, l) \in Tod
         /\ Hi(OfDigits(h, m, l)) = h /\ Mid(OfDigits(h, m, l)) = m /\ Lo(OfDigits(h, m, l)) = l
<1> DEFINE x == OfDigits(h, m, l)
           y == TodByte * h + m
           s == TodByte * TodByte
<1>1. TodByte \in Nat /\ TodByte > 0
  BY CiaTodAssumption DEF CiaTodAssumption
<1>2. y \in Nat /\ y \div TodByte = h /\ y % TodByte = m
  BY <1>1, TicksOf, TimesOrder DEF Digits
<1>3. y + 1 <= s /\ s \in Nat
  <2>1. TodByte * h + TodByte <= TodByte * TodByte /\ TodByte * h \in Nat /\ s \in Nat
    BY <1>1, TimesOrder DEF Digits
  <2> DEFINE p == TodByte * h
  <2> HIDE DEF p
  <2>2. p + m + 1 <= s
    BY <1>1, <2>1 DEF Digits, p
  <2> QED
    BY <2>1, <2>2 DEF p
<1>4. x = TodByte * y + l
  BY DEF OfDigits
<1> HIDE DEF x, y
<1>5. x \div TodByte = y /\ x % TodByte = l
  BY <1>1, <1>2, <1>4, TicksOf DEF Digits
<1>6. Mid(x) = m /\ Lo(x) = l
  BY <1>2, <1>5 DEF Mid, Lo
<1>7. x \in Tod
  <2> DEFINE u == TodByte * y
             v == TodByte * s
  <2>1. u \in Nat /\ u + TodByte <= v /\ v \in Nat
    BY <1>1, <1>2, <1>3, TimesOrder
  <2>2. TodByte * TodByte * TodByte = v
    BY <1>1, <1>3
  <2> HIDE DEF u, v
  <2>3. u + l \in 0 .. v - 1
    BY <1>1, <2>1 DEF Digits
  <2> QED
    BY <1>4, <2>2, <2>3 DEF Tod, u
<1>8. Hi(x) = h
  <2>1. /\ Hi(x) \in Digits /\ Mid(x) = m /\ Lo(x) = l
        /\ x = OfDigits(Hi(x), Mid(x), Lo(x))
    BY <1>6, <1>7, DigitsOf
  <2> DEFINE z == TodByte * Hi(x) + m
  <2>2. z \in Nat /\ z \div TodByte = Hi(x)
    <3>1. Hi(x) \in Nat /\ m \in 0 .. TodByte - 1
      BY <1>1, <2>1 DEF Digits
    <3>2. TodByte * Hi(x) \in Nat
      BY <1>1, <3>1, TimesOrder
    <3>3. z \div TodByte = Hi(x)
      BY <1>1, <3>1, TicksOf
    <3> QED
      BY <1>1, <3>1, <3>2, <3>3
  <2>3. x = TodByte * z + l
    BY <2>1 DEF OfDigits
  <2> HIDE DEF z
  <2>4. x \div TodByte = z
    BY <1>1, <2>2, <2>3, TicksOf DEF Digits
  <2> QED
    BY <1>2, <1>5, <2>2, <2>4
<1> QED
  BY <1>6, <1>7, <1>8 DEF x

(* A value is known by its bytes.                                            *)
LEMMA SameDigits ==
  ASSUME NEW x \in Tod, NEW y \in Tod, Hi(x) = Hi(y), Mid(x) = Mid(y), Lo(x) = Lo(y)
  PROVE  x = y
BY DigitsOf

(* A write of one register replaces that byte alone.                         *)
LEMMA PutIs ==
  ASSUME NEW x \in Tod, NEW v \in Digits
  PROVE  /\ Put(x, "lo", v) = OfDigits(Hi(x), Mid(x), v)
         /\ Put(x, "mid", v) = OfDigits(Hi(x), v, Lo(x))
         /\ Put(x, "hi", v) = OfDigits(v, Mid(x), Lo(x))
<1> DEFINE h == Hi(x)
           m == Mid(x)
           l == Lo(x)
           B == TodByte
<1>1. B \in Nat /\ B > 0
  BY CiaTodAssumption DEF CiaTodAssumption
<1>2. h \in Digits /\ m \in Digits /\ l \in Digits /\ x = OfDigits(h, m, l)
  BY DigitsOf
<1> HIDE DEF h, m, l
<1>3. ASSUME NEW a \in Digits, NEW b \in Digits, NEW c \in Digits
      PROVE  OfDigits(a, b, c) = a * B * B + b * B + c
  <2> DEFINE p == B * a
  <2>1. p \in Nat /\ p * B = a * B * B
    BY <1>1 DEF Digits
  <2> HIDE DEF p
  <2>2. B * (p + b) = p * B + b * B
    BY <1>1, <2>1 DEF Digits
  <2> QED
    BY <2>1, <2>2 DEF OfDigits, p
<1> DEFINE hh == h * B * B
           mm == m * B
           vh == v * B * B
           vm == v * B
<1>4. hh \in Nat /\ mm \in Nat /\ vh \in Nat /\ vm \in Nat /\ l \in Nat /\ v \in Nat
  BY <1>1, <1>2 DEF Digits
<1>5. /\ OfDigits(h, m, l) = hh + mm + l /\ OfDigits(h, m, v) = hh + mm + v
      /\ OfDigits(h, v, l) = hh + vm + l /\ OfDigits(v, m, l) = vh + mm + l
  BY <1>2, <1>3
<1>6. Put(x, "lo", v) = x - l + v
  BY DEF Put, l
<1>7. Put(x, "mid", v) = x - mm + vm
  BY DEF Put, m
<1>8. Put(x, "hi", v) = x - hh + vh
  BY DEF Put, h
<1> HIDE DEF hh, mm, vh, vm
<1>9. Put(x, "lo", v) = OfDigits(h, m, v)
  BY <1>2, <1>4, <1>5, <1>6
<1>10. Put(x, "mid", v) = OfDigits(h, v, l)
  BY <1>2, <1>4, <1>5, <1>7
<1>11. Put(x, "hi", v) = OfDigits(v, m, l)
  BY <1>2, <1>4, <1>5, <1>8
<1> QED
  BY <1>9, <1>10, <1>11 DEF h, m, l

(* So the registers written one by one are those of the value.               *)
LEMMA PutsDigits ==
  ASSUME NEW x \in Tod, NEW v \in Tod
  PROVE  /\ Put(x, "hi", Hi(v)) \in Tod /\ Hi(Put(x, "hi", Hi(v))) = Hi(v)
         /\ Put(x, "mid", Mid(v)) \in Tod /\ Mid(Put(x, "mid", Mid(v))) = Mid(v)
         /\ Hi(Put(x, "mid", Mid(v))) = Hi(x)
         /\ Put(x, "lo", Lo(v)) \in Tod
         /\ Hi(x) = Hi(v) /\ Mid(x) = Mid(v) => Put(x, "lo", Lo(v)) = v
<1>1. /\ Hi(v) \in Digits /\ Mid(v) \in Digits /\ Lo(v) \in Digits
      /\ Hi(x) \in Digits /\ Mid(x) \in Digits /\ Lo(x) \in Digits
  BY DigitsOf
<1>2. /\ Put(x, "lo", Lo(v)) = OfDigits(Hi(x), Mid(x), Lo(v))
      /\ Put(x, "mid", Mid(v)) = OfDigits(Hi(x), Mid(v), Lo(x))
      /\ Put(x, "hi", Hi(v)) = OfDigits(Hi(v), Mid(x), Lo(x))
  BY <1>1, PutIs
<1>3. Put(x, "hi", Hi(v)) \in Tod /\ Hi(Put(x, "hi", Hi(v))) = Hi(v)
  BY <1>1, <1>2, OfDigitsIs
<1>4. /\ Put(x, "mid", Mid(v)) \in Tod /\ Mid(Put(x, "mid", Mid(v))) = Mid(v)
      /\ Hi(Put(x, "mid", Mid(v))) = Hi(x)
  BY <1>1, <1>2, OfDigitsIs
<1>5. Put(x, "lo", Lo(v)) \in Tod
  BY <1>1, <1>2, OfDigitsIs
<1>6. Hi(x) = Hi(v) /\ Mid(x) = Mid(v) => Put(x, "lo", Lo(v)) = v
  BY <1>2, DigitsOf
<1> QED
  BY <1>3, <1>4, <1>5, <1>6

(* What is left of a latched value in 16 bits: its lower two bytes.          *)
LEMMA SavedDigits ==
  ASSUME NEW x \in Tod
  PROVE  /\ x % (TodByte * TodByte) \in Tod
         /\ Lo(x % (TodByte * TodByte)) = Lo(x) /\ Mid(x % (TodByte * TodByte)) = Mid(x)
<1> DEFINE h == Hi(x)
           m == Mid(x)
           l == Lo(x)
           s == TodByte * TodByte
           r == TodByte * m + l
           p == TodByte * h
<1>1. TodByte \in Nat /\ TodByte > 0 /\ 0 \in Digits /\ s \in Nat
  BY CiaTodAssumption DEF CiaTodAssumption, Digits
<1>2. h \in Digits /\ m \in Digits /\ l \in Digits /\ x = TodByte * (TodByte * h + m) + l
  BY DigitsOf DEF OfDigits
<1> HIDE DEF h, m, l
<1>3. p \in Nat /\ TodByte * p = s * h
  BY <1>1, <1>2 DEF Digits
<1>4. r = OfDigits(0, m, l)
  BY <1>1, <1>2 DEF OfDigits, Digits
<1>5. r \in Tod /\ Lo(r) = l /\ Mid(r) = m /\ Hi(r) = 0
  BY <1>1, <1>2, <1>4, OfDigitsIs
<1>6. r \in 0 .. s - 1
  <2>1. r \in Nat
    BY <1>5 DEF Tod
  <2>2. s > 0
    BY <1>1
  <2>3. r \div s = 0
    BY <1>5 DEF Hi
  <2> HIDE DEF r, s
  <2> QED
    BY <1>1, <2>1, <2>2, <2>3
<1>7. x = s * h + r
  <2>1. TodByte * (p + m) = TodByte * p + TodByte * m
    BY <1>1, <1>2, <1>3 DEF Digits
  <2> DEFINE u == TodByte * p
             v == TodByte * m
  <2>2. u \in Nat /\ v \in Nat /\ x = (u + v) + l
    BY <1>1, <1>2, <1>3, <2>1 DEF Digits
  <2>3. u = s * h /\ r = v + l
    BY <1>3
  <2> HIDE DEF u, v, s, r, p
  <2> QED
    BY <1>2, <2>2, <2>3 DEF Digits
<1> HIDE DEF r, s
<1>8. s > 0 /\ h \in Nat
  BY <1>1, <1>2 DEF s, Digits
<1>9. x % s = r
  BY <1>1, <1>6, <1>7, <1>8, TicksOf
<1> QED
  BY <1>5, <1>9 DEF s, m, l

(* The clock is latched exactly while the program reads it, and stands while *)
(* the program sets it; what was read or written so far is of one value.     *)
ReadInv ==
  /\ tlatch <=> prog.op \in {"readMid", "readLo"}
  /\ prog.op = "readMid" => Mid(tol) = Mid(prog.val)
  /\ prog.op \in {"readMid", "readLo"} => Lo(tol) = Lo(prog.val)

WriteInv ==
  LET target == IF setAlarm THEN alarm ELSE tod
  IN  /\ prog.op \in {"writeMid", "writeLo"} => Hi(target) = Hi(prog.val) /\ (~setAlarm => ~todon)
      /\ prog.op = "writeLo" => Mid(target) = Mid(prog.val)

TodInv == TodTypeOK /\ ReadInv /\ WriteInv

(* Midnight is a time of day.                                                *)
LEMMA ZeroIsTod == 0 \in Tod
<1>1. TodByte \in Nat /\ TodByte > 0 /\ 0 \in Digits
  BY CiaTodAssumption DEF CiaTodAssumption, Digits
<1>2. OfDigits(0, 0, 0) \in Tod
  BY <1>1, OfDigitsIs
<1> QED
  BY <1>1, <1>2 DEF OfDigits

(* After a reset nothing is being read or written.                           *)
LEMMA TodInitially == TodInit => TodInv
<1> SUFFICES ASSUME TodInit PROVE TodInv
  OBVIOUS
<1>2. TodTypeOK
  BY ZeroIsTod DEF TodInit, TodTypeOK, Idle
<1>3. ReadInv /\ WriteInv
  BY DEF TodInit, ReadInv, WriteInv, Idle
<1> QED
  BY <1>2, <1>3 DEF TodInv

(* A program that is not in the middle of a read leaves the latch alone, and *)
(* one that is not in the middle of a write may find the clock changed.      *)
LEMMA CountsKeep == ASSUME TodInv, Counts \/ FollowsHost PROVE TodInv'
<1>1. TodTypeOK /\ ReadInv /\ WriteInv
  BY DEF TodInv
<1>2. PICK t \in Tod, inc \in BOOLEAN : CountTo(t, inc) /\ todon /\ UNCHANGED <<todon, tol, tlatch, alarm, setAlarm, prog>>
  <2>1. CASE Counts
    <3> DEFINE s == TodByte * TodByte * TodByte
               t == (tod + 1) % s
    <3>1. s \in Nat /\ s > 0 /\ tod \in Nat
      BY <1>1, CiaTodAssumption DEF CiaTodAssumption, TodTypeOK, Tod
    <3>2. CountTo(t, TRUE) /\ todon /\ UNCHANGED <<todon, tol, tlatch, alarm, setAlarm, prog>>
      BY <2>1 DEF Counts
    <3>3. Tod = 0 .. s - 1
      BY DEF Tod
    <3> HIDE DEF s
    <3>4. t \in Tod
      BY <3>1, <3>3
    <3> HIDE DEF t
    <3> QED
      BY <3>2, <3>4
  <2>2. CASE FollowsHost
    BY <2>2 DEF FollowsHost
  <2> QED
    BY <2>1, <2>2
<1>3. TodTypeOK'
  BY <1>1, <1>2 DEF TodTypeOK, CountTo
<1>4. ReadInv' /\ WriteInv'
  BY <1>1, <1>2 DEF ReadInv, WriteInv
<1> QED
  BY <1>3, <1>4 DEF TodInv

(* Reading: the first read latches the value all three see.                  *)
LEMMA ReadsKeep == ASSUME TodInv, ReadHi \/ ReadMid \/ ReadLo PROVE TodInv'
<1>1. TodTypeOK /\ ReadInv /\ WriteInv /\ prog \in [op : {"idle", "readMid", "readLo", "writeMid", "writeLo"}, val : Tod]
  BY DEF TodInv, TodTypeOK
<1>2. CASE ReadHi
  <2>1. tol' = tod /\ tlatch' = TRUE /\ prog' = [op |-> "readMid", val |-> tod]
        /\ UNCHANGED <<tod, todon, alarm, setAlarm, alarmFlag>>
    BY <1>1, <1>2 DEF ReadHi, ReadInv
  <2>2. TodTypeOK'
    BY <1>1, <2>1 DEF TodTypeOK
  <2> QED
    BY <1>1, <2>1, <2>2 DEF TodInv, ReadInv, WriteInv
<1>3. CASE ReadMid
  <2>1. prog.op = "readMid" /\ prog' = [prog EXCEPT !.op = "readLo"]
        /\ UNCHANGED <<tod, todon, tol, tlatch, alarm, setAlarm, alarmFlag>>
    BY <1>3 DEF ReadMid
  <2>2. prog'.op = "readLo" /\ prog'.val = prog.val
    BY <1>1, <2>1
  <2>3. TodTypeOK'
    BY <1>1, <2>1 DEF TodTypeOK
  <2> QED
    BY <1>1, <2>1, <2>2, <2>3 DEF TodInv, ReadInv, WriteInv
<1>4. CASE ReadLo
  <2>1. prog.op = "readLo" /\ prog' = Idle /\ tlatch' = FALSE
        /\ UNCHANGED <<tod, todon, tol, alarm, setAlarm, alarmFlag>>
    BY <1>4 DEF ReadLo
  <2>2. Idle.val \in Tod
    BY ZeroIsTod DEF Idle
  <2>3. TodTypeOK'
    BY <1>1, <2>1, <2>2 DEF TodTypeOK, Idle
  <2> QED
    BY <1>1, <2>1, <2>3 DEF TodInv, ReadInv, WriteInv, Idle
<1> QED
  BY <1>2, <1>3, <1>4

(* The first write, of the high byte, stops the counter.                     *)
LEMMA WriteHiKeeps == ASSUME TodInv, NEW v \in Tod, WriteHi(v) PROVE TodInv'
<1>1. TodTypeOK /\ ReadInv /\ WriteInv /\ tod \in Tod /\ alarm \in Tod
  BY DEF TodInv, TodTypeOK
<1>2. /\ prog.op = "idle" /\ prog' = [op |-> "writeMid", val |-> v] /\ UNCHANGED <<tol, tlatch, setAlarm, alarmFlag>>
      /\ setAlarm => alarm' = Put(alarm, "hi", Hi(v)) /\ UNCHANGED <<tod, todon>>
      /\ ~setAlarm => tod' = Put(tod, "hi", Hi(v)) /\ todon' = FALSE /\ UNCHANGED alarm
  BY DEF WriteHi
<1>3. tod' \in Tod /\ alarm' \in Tod /\ todon' \in BOOLEAN
  <2>1. Put(alarm, "hi", Hi(v)) \in Tod /\ Put(tod, "hi", Hi(v)) \in Tod
    BY <1>1, PutsDigits
  <2>2. todon \in BOOLEAN
    BY <1>1 DEF TodTypeOK
  <2> QED
    BY <1>1, <1>2, <2>1, <2>2
<1>4. TodTypeOK'
  BY <1>1, <1>2, <1>3 DEF TodTypeOK
<1>5. Hi(IF setAlarm THEN alarm' ELSE tod') = Hi(v)
  BY <1>1, <1>2, PutsDigits
<1>6. ReadInv' /\ WriteInv'
  BY <1>1, <1>2, <1>5 DEF ReadInv, WriteInv
<1> QED
  BY <1>4, <1>6 DEF TodInv

(* The second write finds the counter as the first one left it.              *)
LEMMA WriteMidKeeps == ASSUME TodInv, WriteMid PROVE TodInv'
<1>1. TodTypeOK /\ ReadInv /\ WriteInv /\ tod \in Tod /\ alarm \in Tod
      /\ prog \in [op : {"idle", "readMid", "readLo", "writeMid", "writeLo"}, val : Tod]
  BY DEF TodInv, TodTypeOK
<1>2. /\ prog.op = "writeMid" /\ prog' = [prog EXCEPT !.op = "writeLo"]
      /\ UNCHANGED <<todon, tol, tlatch, setAlarm, alarmFlag>>
      /\ setAlarm => alarm' = Put(alarm, "mid", Mid(prog.val)) /\ UNCHANGED tod
      /\ ~setAlarm => tod' = Put(tod, "mid", Mid(prog.val)) /\ UNCHANGED alarm
  BY DEF WriteMid
<1>3. prog'.op = "writeLo" /\ prog'.val = prog.val /\ prog.val \in Tod
      /\ prog' \in [op : {"idle", "readMid", "readLo", "writeMid", "writeLo"}, val : Tod]
  BY <1>1, <1>2
<1>4. tod' \in Tod /\ alarm' \in Tod
  BY <1>1, <1>2, <1>3, PutsDigits
<1>5. TodTypeOK'
  BY <1>1, <1>2, <1>3, <1>4 DEF TodTypeOK
<1> DEFINE old == IF setAlarm THEN alarm ELSE tod
           new == IF setAlarm THEN alarm' ELSE tod'
<1>6. Hi(old) = Hi(prog.val) /\ (~setAlarm => ~todon)
  BY <1>1, <1>2 DEF WriteInv
<1>7. Mid(new) = Mid(prog.val) /\ Hi(new) = Hi(old)
  <2>1. old \in Tod /\ new = Put(old, "mid", Mid(prog.val))
    BY <1>1, <1>2
  <2> HIDE DEF old, new
  <2> QED
    BY <1>3, <2>1, PutsDigits
<1>8. ReadInv' /\ WriteInv'
  BY <1>1, <1>2, <1>3, <1>6, <1>7 DEF ReadInv, WriteInv
<1> QED
  BY <1>5, <1>8 DEF TodInv

(* The third write completes the value, and starts the counter.              *)
LEMMA WriteLoSets ==
  ASSUME TodInv, WriteLo
  PROVE  TodInv' /\ (IF setAlarm THEN alarm' = prog.val ELSE tod' = prog.val)
<1>1. TodTypeOK /\ ReadInv /\ WriteInv /\ tod \in Tod /\ alarm \in Tod /\ prog.val \in Tod
  BY DEF TodInv, TodTypeOK
<1>2. /\ prog.op = "writeLo" /\ prog' = Idle /\ UNCHANGED <<tol, tlatch, setAlarm>>
      /\ setAlarm => alarm' = Put(alarm, "lo", Lo(prog.val)) /\ UNCHANGED <<tod, todon, alarmFlag>>
      /\ ~setAlarm => CountTo(Put(tod, "lo", Lo(prog.val)), FALSE) /\ todon' = TRUE /\ UNCHANGED alarm
  BY DEF WriteLo
<1>3. ~setAlarm => tod' = Put(tod, "lo", Lo(prog.val)) /\ alarmFlag' \in BOOLEAN
  BY <1>2 DEF CountTo
<1> DEFINE old == IF setAlarm THEN alarm ELSE tod
<1>4. old \in Tod /\ Hi(old) = Hi(prog.val) /\ Mid(old) = Mid(prog.val)
  BY <1>1, <1>2 DEF WriteInv
<1>5. IF setAlarm THEN alarm' = prog.val ELSE tod' = prog.val
  BY <1>1, <1>2, <1>3, <1>4, PutsDigits
<1>6. TodTypeOK'
  BY <1>1, <1>2, <1>3, <1>5, ZeroIsTod DEF TodTypeOK, Idle
<1>7. ReadInv' /\ WriteInv'
  BY <1>1, <1>2 DEF ReadInv, WriteInv, Idle
<1> QED
  BY <1>5, <1>6, <1>7 DEF TodInv

(* The rest leaves the program's place alone. The latched value's bytes that *)
(* are still to be read survive the state file.                              *)
LEMMA RestKeeps == ASSUME TodInv, WriteCrb \/ ReadAlarmFlag \/ SaveRestore PROVE TodInv'
<1>1. TodTypeOK /\ ReadInv /\ WriteInv /\ tol \in Tod
  BY DEF TodInv, TodTypeOK
<1>2. CASE WriteCrb
  BY <1>1, <1>2 DEF WriteCrb, TodInv, TodTypeOK, ReadInv, WriteInv
<1>3. CASE ReadAlarmFlag
  BY <1>1, <1>3 DEF ReadAlarmFlag, TodInv, TodTypeOK, ReadInv, WriteInv
<1>4. CASE SaveRestore
  <2>1. tol' \in Tod /\ Lo(tol') = Lo(tol) /\ Mid(tol') = Mid(tol)
    BY <1>1, <1>4, SavedDigits DEF SaveRestore
  <2> QED
    BY <1>1, <1>4, <2>1 DEF SaveRestore, TodInv, TodTypeOK, ReadInv, WriteInv
<1> QED
  BY <1>2, <1>3, <1>4

(* What is read, set and raised in one step from such a state.               *)
LEMMA TodSteps ==
  ASSUME TodInv, TodNext
  PROVE  TodInv' /\ SetsExactly /\ AlarmGoesOff
<1>1. TodTypeOK /\ ReadInv /\ WriteInv
  BY DEF TodInv
<1>2. CASE Counts \/ FollowsHost
  <2>1. SetsExactly
    <3>1. prog' = prog
      BY <1>2 DEF Counts, FollowsHost
    <3> QED
      BY <3>1 DEF SetsExactly, Idle
  <2>2. AlarmGoesOff
    BY <1>2 DEF Counts, FollowsHost, CountTo, checkalarm, AlarmGoesOff
  <2> QED
    BY <1>2, <2>1, <2>2, CountsKeep
<1>3. CASE ReadHi \/ ReadMid \/ ReadLo
  <2>1. SetsExactly /\ AlarmGoesOff
    BY <1>3 DEF ReadHi, ReadMid, ReadLo, SetsExactly, AlarmGoesOff
  <2> QED
    BY <1>3, <2>1, ReadsKeep
<1>4. CASE \E v \in Tod : WriteHi(v)
  <2>1. SetsExactly /\ AlarmGoesOff
    BY <1>4 DEF WriteHi, SetsExactly, AlarmGoesOff
  <2> QED
    BY <1>4, <2>1, WriteHiKeeps
<1>5. CASE WriteMid
  <2>1. SetsExactly
    BY <1>5 DEF WriteMid, SetsExactly
  <2>2. AlarmGoesOff
    BY <1>1, <1>5 DEF WriteMid, WriteInv, AlarmGoesOff
  <2> QED
    BY <1>5, <2>1, <2>2, WriteMidKeeps
<1>6. CASE WriteLo
  <2>1. SetsExactly
    BY <1>6, WriteLoSets DEF SetsExactly
  <2>2. AlarmGoesOff
    BY <1>6 DEF WriteLo, CountTo, checkalarm, AlarmGoesOff
  <2> QED
    BY <1>6, <2>1, <2>2, WriteLoSets
<1>7. CASE WriteCrb \/ ReadAlarmFlag \/ SaveRestore
  <2>1. SetsExactly /\ AlarmGoesOff
    BY <1>7 DEF WriteCrb, ReadAlarmFlag, SaveRestore, SetsExactly, AlarmGoesOff, Idle
  <2> QED
    BY <1>7, <2>1, RestKeeps
<1> QED
  BY <1>2, <1>3, <1>4, <1>5, <1>6, <1>7 DEF TodNext

(* The invariant always holds.                                               *)
LEMMA TodInvHolds == TodSpec => []TodInv
<1>1. TodInv /\ [TodNext]_todVars => TodInv'
  <2> SUFFICES ASSUME TodInv, [TodNext]_todVars PROVE TodInv'
    OBVIOUS
  <2>1. CASE TodNext
    BY <2>1, TodSteps
  <2>2. CASE UNCHANGED todVars
    BY <2>2 DEF todVars, TodInv, TodTypeOK, ReadInv, WriteInv
  <2> QED
    BY <2>1, <2>2
<1> QED
  BY <1>1, TodInitially, PTL DEF TodSpec

(* The registers, the alarm and the latch stay within their widths.          *)
THEOREM TodTypes == TodSpec => []TodTypeOK
<1>1. TodInv => TodTypeOK
  BY DEF TodInv
<1> QED
  BY <1>1, TodInvHolds, PTL

(* Reading the clock gives one value and setting it sets that value, however *)
(* the counting, the alarm and a saved state come in between, and no running *)
(* clock gets to the alarm's time unnoticed (CIA_hsync_handler, ReadCIAA,    *)
(* WriteCIAA, save_cia).                                                     *)
THEOREM ClockIsAtomic == TodSpec => TodIsAtomic
<1>1. TodInv => ReadsAreOneValue
  BY DEF TodInv, ReadInv, ReadsAreOneValue, Seen
<1>2. TodInv' => ReadsAreOneValue'
  BY <1>1, PTL
<1>3. TodInv /\ [TodNext]_todVars => [ReadsAreOneValue' /\ SetsExactly /\ AlarmGoesOff]_todVars
  BY <1>2, TodSteps
<1> QED
  BY <1>3, TodInvHolds, PTL DEF TodSpec, TodIsAtomic
================================================================================

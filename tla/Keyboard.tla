------------------------------ MODULE Keyboard ------------------------------
(* Keys on their way to the 68k: the ring of keybuf.c, which the host fills  *)
(* (record_key) and the emulator empties (get_next_key) without a lock,      *)
(* perhaps from two threads; and the handshake of cia.c, which puts one key  *)
(* after the other into the serial register of CIA A, each until the 68k has *)
(* read it or has not cared for a long time.                                 *)
EXTENDS Naturals, FiniteSets

CONSTANTS Size,      \* slots of keybuf (256)
          GiveUp,    \* chances an unread key blocks the next one (16)
          MaxKeys,   \* bound on the keys pressed
          MaxKbResets

ASSUME KeyboardAssumption ==
  /\ Size \in Nat \ {0, 1} /\ GiveUp \in Nat \ {0} /\ {MaxKeys, MaxKbResets} \subseteq Nat

VARIABLES
  keybuf, kpb_first, kpb_last,
  host,        \* record_key: its pc and kpb_next
  pressed,     \* keys pressed so far; key k is the k-th
  emul,        \* get_next_key within CIA_hsync_handler: its pc and key
  kbstate, ciaasdr_unread, sleepyhead,
  ciaasdr,     \* what the 68k would read: a key, or 0 for anything else
  spFlag,      \* bit 8 of ciaaicr
  craOut,      \* bit 0x40 of ciaacra
  isr,         \* the 68k's keyboard interrupt
  taken,       \* the keys the 68k has read
  refused,     \* keys record_key dropped: "Keyboard buffer overrun"
  dropped,     \* keys that left the register unread
  waited,      \* chances since the key in the register was put there
  beyond,      \* record_key took a full ring for one that is not
  lost,        \* keys in the ring when it was filled up and so looked empty
  kbResets

ringVars == <<keybuf, kpb_first, kpb_last>>
hostVars == <<host, pressed, refused>>
regVars == <<ciaasdr_unread, sleepyhead, ciaasdr, spFlag>>
cpuVars == <<craOut, isr, taken>>
Wrap(i) == IF i = Size THEN 0 ELSE i

kbVars == <<ringVars, hostVars, emul, kbstate, regVars, cpuVars, dropped, waited, beyond, lost,
            kbResets>>

HostIdle == [pc |-> "idle", next |-> 0]

(* slots from kpb_last up to kpb_first, but for the one being taken          *)
From == Wrap(IF emul.pc = "step" THEN kpb_last + 1 ELSE kpb_last)
Filled == IF From <= kpb_first THEN From .. (kpb_first - 1)
          ELSE (From .. (Size - 1)) \cup (0 .. (kpb_first - 1))
InRing == {keybuf[s] : s \in Filled}

KbInit ==
  /\ keybuf = [i \in 0 .. Size - 1 |-> 0] /\ kpb_first = 0 /\ kpb_last = 0
  /\ host = HostIdle /\ pressed = 0 /\ refused = {} /\ beyond = FALSE /\ lost = {}
  /\ emul = [pc |-> "idle", key |-> 0] /\ kbstate = 0
  /\ ciaasdr_unread = 0 /\ sleepyhead = 0 /\ ciaasdr = 0 /\ spFlag = FALSE
  /\ craOut = FALSE /\ isr = "idle" /\ taken = {} /\ dropped = {} /\ waited = 0
  /\ kbResets = 0

-----------------------------------------------------------------------------
(* record_key, by whichever thread sees the host's keyboard                  *)
record_key_NotFull ==   \* mutant: no overrun check
  /\ host.pc = "idle" /\ pressed < MaxKeys /\ pressed' = pressed + 1
  /\ host' = [pc |-> "store", next |-> Wrap(kpb_first + 1)]
  /\ UNCHANGED <<ringVars, refused, emul, kbstate, regVars, cpuVars, dropped, waited, beyond,
                 lost, kbResets>>

record_key ==
  /\ host.pc = "idle" /\ pressed < MaxKeys /\ pressed' = pressed + 1
  /\ LET next == Wrap(kpb_first + 1)
     IN  IF next = kpb_last
         THEN refused' = refused \cup {pressed'} /\ UNCHANGED <<host, beyond>>
         ELSE /\ host' = [pc |-> "store", next |-> next] /\ UNCHANGED refused
              /\ beyond' = (beyond \/ next = Wrap(kpb_last))
  /\ UNCHANGED <<ringVars, emul, kbstate, regVars, cpuVars, dropped, waited, lost, kbResets>>

HostStores ==
  /\ host.pc = "store"
  /\ keybuf' = [keybuf EXCEPT ![kpb_first] = pressed]
  /\ host' = [host EXCEPT !.pc = "advance"]
  /\ UNCHANGED <<kpb_first, kpb_last, pressed, refused, emul, kbstate, regVars, cpuVars,
                 dropped, waited, beyond, lost, kbResets>>

HostAdvances ==
  /\ host.pc = "advance"
  /\ kpb_first' = host.next /\ host' = HostIdle
  /\ lost' = IF host.next = From THEN lost \cup InRing \cup {pressed} ELSE lost
  /\ UNCHANGED <<keybuf, kpb_last, pressed, refused, emul, kbstate, regVars, cpuVars,
                 dropped, waited, beyond, kbResets>>

-----------------------------------------------------------------------------
(* CIA_hsync_handler, every sixteenth line, if there is a key and the 68k is *)
(* not in its handshake (kback is never cleared)                             *)
Chance == /\ emul.pc = "idle" /\ kpb_first # kpb_last /\ ~craOut

WasTaken ==        \* 2: this chance goes by
  /\ Chance /\ ciaasdr_unread = 2
  /\ ciaasdr_unread' = 0 /\ waited' = waited + 1
  /\ UNCHANGED <<ringVars, hostVars, emul, kbstate, sleepyhead, ciaasdr, spFlag, cpuVars,
                 dropped, beyond, lost, kbResets>>

PowerUpCode ==     \* 0xFB, then 0xFD, each sent whether it was read or not
  /\ Chance /\ ciaasdr_unread = 0 /\ kbstate < 2
  /\ kbstate' = kbstate + 1 /\ ciaasdr' = 0 /\ spFlag' = TRUE /\ sleepyhead' = 0
  /\ dropped' = IF ciaasdr \in taken \cup {0} THEN dropped ELSE dropped \cup {ciaasdr}
  /\ waited' = 0
  /\ UNCHANGED <<ringVars, hostVars, emul, ciaasdr_unread, cpuVars, beyond, lost, kbResets>>

NextKey ==         \* get_next_key reads the slot ...
  /\ Chance /\ ciaasdr_unread = 0 /\ kbstate = 2
  /\ emul' = [pc |-> "step", key |-> keybuf[kpb_last]]
  /\ UNCHANGED <<ringVars, hostVars, kbstate, regVars, cpuVars, dropped, waited, beyond, lost, kbResets>>

EmulSteps ==       \* ... increments kpb_last, for a moment beyond the ring if the
                   \* compiler stores it twice ...
  /\ emul.pc = "step"
  /\ kpb_last' \in {kpb_last + 1, Wrap(kpb_last + 1)} /\ emul' = [emul EXCEPT !.pc = "wrap"]
  /\ UNCHANGED <<keybuf, kpb_first, hostVars, kbstate, regVars, cpuVars, dropped, waited,
                 beyond, lost, kbResets>>

Presents ==        \* ... and the key goes into the register
  /\ emul.pc = "wrap"
  /\ kpb_last' = Wrap(kpb_last)
  /\ dropped' = IF ciaasdr \in taken \cup {0} THEN dropped ELSE dropped \cup {ciaasdr}
  /\ ciaasdr' = emul.key /\ ciaasdr_unread' = 1 /\ spFlag' = TRUE /\ sleepyhead' = 0
  /\ emul' = [pc |-> "idle", key |-> 0] /\ waited' = 0
  /\ UNCHANGED <<keybuf, kpb_first, hostVars, kbstate, cpuVars, beyond, lost, kbResets>>

Waits_Short ==     \* mutant: gives up at once
  /\ Chance /\ ciaasdr_unread = 1
  /\ ciaasdr_unread' = 0 /\ waited' = waited + 1
  /\ UNCHANGED <<ringVars, hostVars, emul, kbstate, sleepyhead, ciaasdr, spFlag, cpuVars,
                 dropped, beyond, lost, kbResets>>

Waits ==           \* unread: given up after GiveUp chances
  /\ Chance /\ ciaasdr_unread = 1
  /\ sleepyhead' = (IF sleepyhead + 1 = GiveUp THEN 0 ELSE sleepyhead + 1)
  /\ ciaasdr_unread' = IF sleepyhead' = 0 THEN 0 ELSE 1
  /\ waited' = waited + 1
  /\ UNCHANGED <<ringVars, hostVars, emul, kbstate, ciaasdr, spFlag, cpuVars, dropped, beyond, lost,
                 kbResets>>

HsyncHandler == WasTaken \/ PowerUpCode \/ NextKey \/ EmulSteps \/ Presents \/ Waits

-----------------------------------------------------------------------------
(* The 68k, between two lines: its interrupt reads ICR, then the key, then   *)
(* acknowledges by turning the serial port round for a while.                *)
IsrBegins ==
  /\ emul.pc = "idle" /\ isr = "idle" /\ spFlag
  /\ spFlag' = FALSE /\ isr' = "read"
  /\ UNCHANGED <<ringVars, hostVars, emul, kbstate, ciaasdr_unread, sleepyhead, ciaasdr,
                 craOut, taken, dropped, waited, beyond, lost, kbResets>>

ReadSdr ==         \* ReadCIAA, register 12
  /\ emul.pc = "idle" /\ isr = "read"
  /\ ciaasdr_unread' = IF ciaasdr_unread = 1 THEN 2 ELSE ciaasdr_unread
  /\ taken' = IF ciaasdr = 0 THEN taken ELSE taken \cup {ciaasdr}
  /\ isr' = "turn"
  /\ UNCHANGED <<ringVars, hostVars, emul, kbstate, sleepyhead, ciaasdr, spFlag, craOut,
                 dropped, waited, beyond, lost, kbResets>>

HandshakeBegins ==
  /\ emul.pc = "idle" /\ isr = "turn"
  /\ craOut' = TRUE /\ isr' = "turned"
  /\ UNCHANGED <<ringVars, hostVars, emul, kbstate, regVars, taken, dropped, waited, beyond, lost, kbResets>>

HandshakeEnds ==
  /\ emul.pc = "idle" /\ isr = "turned"
  /\ craOut' = FALSE /\ isr' = "idle"
  /\ UNCHANGED <<ringVars, hostVars, emul, kbstate, regVars, taken, dropped, waited, beyond, lost, kbResets>>

Isr == IsrBegins \/ ReadSdr \/ HandshakeBegins \/ HandshakeEnds

(* CIA_reset; the ring is left as it is                                      *)
KbReset ==
  /\ emul.pc = "idle" /\ kbResets < MaxKbResets /\ kbResets' = kbResets + 1
  /\ dropped' = IF ciaasdr \in taken \cup {0} THEN dropped ELSE dropped \cup {ciaasdr}
  /\ kbstate' = 0 /\ ciaasdr_unread' = 0 /\ ciaasdr' = 0 /\ spFlag' = FALSE
  /\ craOut' = FALSE /\ isr' = "idle" /\ waited' = 0
  /\ UNCHANGED <<ringVars, hostVars, emul, sleepyhead, taken, beyond, lost>>

KbNext ==
  \/ record_key \/ HostStores \/ HostAdvances \/ HsyncHandler \/ Isr \/ KbReset

KbSpec == KbInit /\ [][KbNext]_kbVars

(* Lines and interrupts go on, and a key begun to be recorded gets there.    *)
KbFairness ==
  WF_kbVars(HsyncHandler) /\ WF_kbVars(Isr) /\ WF_kbVars(HostStores \/ HostAdvances)
KbFairSpec == KbSpec /\ KbFairness
-----------------------------------------------------------------------------
Key == 1..MaxKeys

KbTypeOK ==
  /\ keybuf \in [0 .. Size - 1 -> Key \cup {0}] /\ kpb_first \in 0 .. Size - 1
  /\ kpb_last \in 0..Size
  /\ host \in [pc : {"idle", "store", "advance"}, next : 0 .. Size - 1]
  /\ pressed \in 0..MaxKeys /\ taken \subseteq Key /\ refused \subseteq Key
  /\ dropped \subseteq Key /\ lost \subseteq Key
  /\ emul \in [pc : {"idle", "step", "wrap"}, key : Key \cup {0}]
  /\ kbstate \in 0..2 /\ ciaasdr_unread \in 0..2 /\ sleepyhead \in 0 .. GiveUp - 1
  /\ ciaasdr \in Key \cup {0} /\ spFlag \in BOOLEAN /\ craOut \in BOOLEAN
  /\ isr \in {"idle", "read", "turn", "turned"} /\ waited \in Nat
  /\ beyond \in BOOLEAN /\ kbResets \in 0..MaxKbResets

(* "This code should be perfectly thread safe" (keybuf.c:6): every key       *)
(* pressed is, at each step of the two threads, in the recorder's hands, in  *)
(* the ring, on its way to the register, in it, read, or known to be lost.   *)
(* Lost they are, all that are in the ring, if record_key compares with a    *)
(* kpb_last that is Size for a moment, and then only.                        *)
KeysConserved ==
  /\ \A k \in 1..pressed :
       \/ k \in refused \cup dropped \cup taken \cup InRing \cup lost
       \/ k = ciaasdr \/ k = emul.key
       \/ host.pc # "idle" /\ k = pressed
  /\ lost # {} => beyond

(* The 68k reads the keys in the order they were pressed, each key once: a   *)
(* key that is read for the first time is later than all read before.        *)
KeysInOrder == [][\A k \in taken' \ taken : \A j \in taken : j < k]_kbVars

(* A key is replaced in the register unread only after GiveUp chances to     *)
(* replace it went by, or by a reset: the interlock of cia.c:394.            *)
UnreadKeysAreHeld ==
  [][\A k \in dropped' \ dropped : waited >= GiveUp \/ kbResets' # kbResets]_kbVars

(* A key in the ring gets to the 68k, or is given up: the queue never jams.  *)
RingDrains == \A k \in Key : k \in InRing ~> k \in taken \cup dropped \cup lost \cup {ciaasdr}

(* Keys get to the 68k one after the other, each in its time.                *)
KeysGetThrough == KeysInOrder /\ UnreadKeysAreHeld /\ RingDrains
=============================================================================

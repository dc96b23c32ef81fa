--------------------------- MODULE HardfileProofs ---------------------------
(* Proofs about Hardfile, for any units, requests, slots and resets: no      *)
(* request is replied twice or unasked, a unit is cleared by a reset only    *)
(* when its thread is gone, and its table of requests, which two threads     *)
(* write without a lock, has each request that is held in one slot.          *)
EXTENDS Hardfile, TLAPS, FiniteSetTheorems, FunctionTheorems, WellFoundedInduction

-----------------------------------------------------------------------------
(* How often a request is in a sequence.                                     *)
Places(r, seq) == {i \in DOMAIN seq : seq[i] = r}

(* The places are finitely many.                                             *)
LEMMA PlacesFinite ==
  ASSUME NEW S, NEW r, NEW seq \in Seq(S)
  PROVE  /\ IsFiniteSet(Places(r, seq)) /\ Times(r, seq) = Cardinality(Places(r, seq))
         /\ Times(r, seq) \in Nat
<1>1. IsFiniteSet(1..Len(seq)) /\ DOMAIN seq = 1..Len(seq)
  BY FS_Interval
<1>2. Places(r, seq) \in SUBSET (1..Len(seq))
  BY <1>1 DEF Places
<1>3. IsFiniteSet(Places(r, seq))
  BY <1>1, <1>2, FS_Subset
<1>4. Times(r, seq) = Cardinality(Places(r, seq))
  BY DEF Times, Places
<1> QED
  BY <1>3, <1>4, FS_CardinalityType

(* One that is nowhere in it is there no times, and the other way round.     *)
LEMMA TimesZero ==
  ASSUME NEW S, NEW r, NEW seq \in Seq(S)
  PROVE  Times(r, seq) = 0 <=> \A i \in 1..Len(seq) : seq[i] # r
<1>1. Times(r, seq) = 0 <=> Places(r, seq) = {}
  BY PlacesFinite, FS_EmptySet
<1>2. DOMAIN seq = 1..Len(seq)
  OBVIOUS
<1> QED
  BY <1>1, <1>2 DEF Places

(* Appending counts what is appended.                                        *)
LEMMA TimesAppend ==
  ASSUME NEW S, NEW r, NEW seq \in Seq(S), NEW x \in S
  PROVE  Times(r, Append(seq, x)) = Times(r, seq) + One(x = r)
<1>1. Append(seq, x) \in Seq(S)
  OBVIOUS
<1>2. CASE x = r
  <2>1. Places(r, Append(seq, x)) = Places(r, seq) \cup {Len(seq) + 1}
    BY <1>2 DEF Places
  <2>2. Len(seq) + 1 \notin Places(r, seq)
    BY DEF Places
  <2>3. Cardinality(Places(r, seq) \cup {Len(seq) + 1}) = Cardinality(Places(r, seq)) + 1
    BY <2>2, PlacesFinite, FS_AddElement
  <2> QED
    BY <1>1, <1>2, <2>1, <2>3, PlacesFinite DEF One
<1>3. CASE x # r
  <2>1. Places(r, Append(seq, x)) = Places(r, seq)
    BY <1>3 DEF Places
  <2>2. Times(r, Append(seq, x)) = Times(r, seq) /\ Times(r, seq) \in Nat
    BY <1>1, <2>1, PlacesFinite
  <2>3. One(x = r) = 0
    BY <1>3 DEF One
  <2> QED
    BY <2>2, <2>3
<1> QED
  BY <1>2, <1>3

(* Taking the first one out counts it out.                                   *)
LEMMA TimesTail ==
  ASSUME NEW S, NEW r, NEW seq \in Seq(S), seq # <<>>
  PROVE  Times(r, seq) = One(Head(seq) = r) + Times(r, Tail(seq))
<1>1. Tail(seq) \in Seq(S) /\ Len(seq) >= 1 /\ Len(Tail(seq)) = Len(seq) - 1 /\ Len(seq) \in Nat
  OBVIOUS
<1> DEFINE T == Places(r, Tail(seq))
           U == Places(r, seq) \ {1}
           f == [i \in T |-> i + 1]
<1>2. \A i \in 1..Len(Tail(seq)) : Tail(seq)[i] = seq[i + 1]
  OBVIOUS
<1>3. /\ T = {i \in 1..Len(Tail(seq)) : seq[i + 1] = r}
      /\ U = {i \in 2..Len(seq) : seq[i] = r}
  BY <1>1, <1>2 DEF Places
<1>4. f \in Bijection(T, U)
  <2>1. f \in [T -> U]
    BY <1>1, <1>3
  <2>2. \A a, b \in T : f[a] = f[b] => a = b
    BY <1>1, <1>3
  <2>3. \A u \in U : \E t \in T : f[t] = u
    <3> TAKE u \in U
    <3>1. u - 1 \in T /\ f[u - 1] = u
      BY <1>1, <1>3
    <3> QED
      BY <3>1
  <2> QED
    BY <2>1, <2>2, <2>3 DEF Bijection, Injection, Surjection, IsInjective
<1> HIDE DEF f
<1>5. Cardinality(U) = Cardinality(T)
  BY <1>1, <1>4, PlacesFinite, FS_Bijection DEF ExistsBijection
<1>6. 1 \in Places(r, seq) <=> Head(seq) = r
  BY <1>1 DEF Places
<1>7. /\ IsFiniteSet(Places(r, seq)) /\ Times(r, seq) = Cardinality(Places(r, seq))
      /\ Times(r, seq) \in Nat
  BY PlacesFinite
<1>8. Cardinality(U) = IF Head(seq) = r THEN Times(r, seq) - 1 ELSE Times(r, seq)
  BY <1>6, <1>7, FS_RemoveElement
<1>9. Times(r, Tail(seq)) = Cardinality(T) /\ Times(r, Tail(seq)) \in Nat
  BY <1>1, PlacesFinite
<1> QED
  BY <1>5, <1>7, <1>8, <1>9 DEF One

(* The least of a set of slots is one of them.                               *)
LEMMA FirstFacts ==
  ASSUME NEW S \in SUBSET HfSlot, S # {}
  PROVE  First(S) \in S
<1>1. S \subseteq Nat
  BY HardfileAssumption DEF HardfileAssumption, HfSlot
<1>2. PICK n \in S : \A k \in S : ~ (<<k, n>> \in OpToRel(<, Nat))
  BY <1>1, NatLessThanWellFounded, WFMin
<1>3. ASSUME NEW x \in S PROVE n <= x
  <2>1. n \in Nat /\ x \in Nat
    BY <1>1
  <2>2. OpToRel(<, Nat) = {ss \in Nat \X Nat : ss[1] < ss[2]}
    BY DEF OpToRel
  <2>3. ~ (x < n)
    BY <1>2, <2>1, <2>2
  <2> QED
    BY <2>1, <2>3
<1> QED
  BY <1>3 DEF First

-----------------------------------------------------------------------------
(* A thread serves requests from its start until it takes the zero one.      *)
Going(d, t) ==
  /\ t.pc \in Working \cup {"read", "lock"} /\ (t.pc = "read" <=> t.req = None)
  /\ d.running /\ d.sync = 0

(* What the emulator thread waits for with a unit, and whether it resets.    *)
Wait(u) == IF emu.unit = u /\ emu.pc \in {"open", "close", "resetWait"} THEN emu.pc ELSE "no"
Resetting == emu.pc \in {"resetUnit", "resetWait"} \/ emu.next = "resetUnit"

(* A unit is closed, open, being opened, or being closed. While it is closed *)
(* its thread, its pipe and its semaphore are gone; being closed it has one  *)
(* zero request, the last of the pipe, then with the thread, which is gone   *)
(* when the semaphore says so.                                               *)
ClosedUnit(d, t) == d.open = 0 /\ t = Off /\ d.requests = <<>> /\ ~d.running /\ d.sync = 0
OpenUnit(d, t) == d.open > 0 /\ Going(d, t) /\ \A i \in 1..Len(d.requests) : d.requests[i] # None
Starting(d, t) ==
  /\ d.open = 0 /\ d.requests = <<>> /\ t.req = None
  /\ \/ t.pc = "start" /\ ~d.running /\ d.sync = 0
     \/ t.pc = "read" /\ d.running /\ d.sync = 1
LastIsZero(q) == \A i \in 1..Len(q) : (q[i] = None <=> i = Len(q))
Stopping(d, t) ==
  \/ Going(d, t) /\ d.requests # <<>> /\ LastIsZero(d.requests)
  \/ /\ t.pc \in {"lock", "stop", "stopped"} /\ t.req = None /\ d.requests = <<>> /\ d.sync = 0
     /\ (d.running <=> t.pc # "stopped")
  \/ t = Off /\ d.requests = <<>> /\ ~d.running /\ d.sync = 1
UnitOK(d, t, w) ==
  \/ w = "no" /\ (ClosedUnit(d, t) \/ OpenUnit(d, t))
  \/ w = "open" /\ Starting(d, t)
  \/ w \in {"close", "resetWait"} /\ (w = "close" <=> d.open = 0) /\ Stopping(d, t)
UnitsInv == \A u \in Unit : UnitOK(dev[u], thread[u], Wait(u))

(* Requests are where they belong.                                           *)
HomeInv ==
  \A u \in Unit :
    /\ \A i \in 1..Len(dev[u].requests) :
         dev[u].requests[i] # None => Home[dev[u].requests[i]] = u
    /\ thread[u].req # None => Home[thread[u].req] = u
    /\ thread[u].pc = "releaseType" => thread[u].next # "off"

(* change_sem is held by one thread at a time.                               *)
Holds(u) == thread[u].pc \in Working \cup {"stop", "stopped"}
LockInv ==
  /\ \A u \in Unit : Holds(u) => change_sem = 0
  /\ \A u, v \in Unit : Holds(u) /\ Holds(v) => u = v

(* What the emulator thread has in hand; the units a reset has passed.       *)
EmuInv ==
  /\ emu.pc \in {"addRequest", "addType", "send"} =>
       emu.req # None /\ Home[emu.req] = emu.unit /\ dev[emu.unit].open > 0
  /\ emu.pc \in {"abort", "abortType"} => emu.req # None /\ dev[emu.unit].open > 0
  /\ emu.pc \notin {"abort", "abortType", "resetUnit", "resetWait"} => emu.next = "run"
  /\ Resetting => \A v \in Unit : v < emu.unit => dev[v] = Cleared /\ thread[v] = Off

HfInv == HfTypeOK /\ UnitsInv /\ HomeInv /\ LockInv /\ EmuInv /\ RepliedOnce

-----------------------------------------------------------------------------
(* Zero is a unit and a slot, and each unit a slot's number.                 *)
LEMMA NumberFacts ==
  /\ Units \in Nat /\ Units > 0 /\ Slots \in Nat /\ Units <= Slots /\ Unit \subseteq Nat
  /\ HfSlot \subseteq Nat /\ Unit \subseteq HfSlot /\ 0 \in Unit /\ 0 \in HfSlot
  /\ Home \in [Request -> Unit] /\ None \notin Request /\ Stale \notin Request
BY HardfileAssumption DEF HardfileAssumption, Unit, HfSlot

(* A unit's fields have their types.                                         *)
LEMMA UnitParts ==
  ASSUME HfTypeOK, NEW u \in Unit
  PROVE  /\ dev[u].req \in [HfSlot -> Request \cup {None}]
         /\ dev[u].type \in [HfSlot -> {"none", "temp", "changeint"}]
         /\ dev[u].requests \in Seq(Request \cup {None}) /\ dev[u].running \in BOOLEAN
         /\ dev[u].sync \in 0..1 /\ dev[u].open \in Nat
         /\ thread[u].pc \in {"off", "start", "read", "lock", "stop", "stopped"} \cup Working
         /\ thread[u].req \in Request \cup {None} /\ thread[u].slot \in HfSlot
         /\ thread[u].next \in {"off", "release", "reply"}
<1>1. dev[u] \in Device /\ thread[u] \in ThreadState
  BY DEF HfTypeOK
<1>2. /\ dev[u].req \in [HfSlot -> Request \cup {None}]
      /\ dev[u].type \in [HfSlot -> {"none", "temp", "changeint"}]
      /\ dev[u].requests \in Seq(Request \cup {None}) /\ dev[u].running \in BOOLEAN
      /\ dev[u].sync \in 0..1 /\ dev[u].open \in Nat
  BY <1>1 DEF Device
<1>3. /\ thread[u].pc \in {"off", "start", "read", "lock", "stop", "stopped"} \cup Working
      /\ thread[u].req \in Request \cup {None} /\ thread[u].slot \in HfSlot
      /\ thread[u].next \in {"off", "release", "reply"}
  BY <1>1 DEF ThreadState
<1> QED
  BY <1>2, <1>3

(* So have the emulator thread's.                                            *)
LEMMA EmuParts ==
  ASSUME HfTypeOK
  PROVE  /\ emu.unit \in Unit /\ emu.req \in Request \cup {None} /\ emu.slot \in HfSlot
         /\ emu.next \in {"run", "resetUnit"}
         /\ emu.pc \in {"run", "open", "close", "addRequest", "addType", "send", "abort",
                        "abortType", "resetUnit", "resetWait"}
<1>1. emu \in EmuState
  BY DEF HfTypeOK
<1> QED
  BY <1>1 DEF EmuState

(* The states that are set as a whole.                                       *)
LEMMA WholeStates == Cleared \in Device /\ AtRest \in EmuState /\ Off \in ThreadState
<1>1. <<>> \in Seq(Request \cup {None}) /\ 0 \in Nat /\ 0 \in 0..1
  OBVIOUS
<1>2. Cleared \in Device
  BY <1>1 DEF Cleared, Device
<1>3. AtRest \in EmuState /\ Off \in ThreadState
  BY NumberFacts DEF AtRest, Off, EmuState, ThreadState
<1> QED
  BY <1>2, <1>3

(* Changing a field of a unit changes that field.                            *)
LEMMA DeviceUpdates ==
  ASSUME NEW d \in Device
  PROVE  /\ \A x \in [HfSlot -> Request \cup {None}] :
              /\ [d EXCEPT !.req = x] \in Device /\ [d EXCEPT !.req = x].req = x
              /\ [d EXCEPT !.req = x].type = d.type /\ [d EXCEPT !.req = x].requests = d.requests
              /\ [d EXCEPT !.req = x].running = d.running /\ [d EXCEPT !.req = x].sync = d.sync
              /\ [d EXCEPT !.req = x].open = d.open
         /\ \A x \in [HfSlot -> {"none", "temp", "changeint"}] :
              /\ [d EXCEPT !.type = x] \in Device /\ [d EXCEPT !.type = x].type = x
              /\ [d EXCEPT !.type = x].req = d.req /\ [d EXCEPT !.type = x].requests = d.requests
              /\ [d EXCEPT !.type = x].running = d.running /\ [d EXCEPT !.type = x].sync = d.sync
              /\ [d EXCEPT !.type = x].open = d.open
         /\ \A x \in Seq(Request \cup {None}) :
              /\ [d EXCEPT !.requests = x] \in Device /\ [d EXCEPT !.requests = x].requests = x
              /\ [d EXCEPT !.requests = x].req = d.req /\ [d EXCEPT !.requests = x].type = d.type
              /\ [d EXCEPT !.requests = x].running = d.running /\ [d EXCEPT !.requests = x].sync = d.sync
              /\ [d EXCEPT !.requests = x].open = d.open
         /\ \A x \in BOOLEAN :
              /\ [d EXCEPT !.running = x] \in Device /\ [d EXCEPT !.running = x].running = x
              /\ [d EXCEPT !.running = x].req = d.req /\ [d EXCEPT !.running = x].type = d.type
              /\ [d EXCEPT !.running = x].requests = d.requests /\ [d EXCEPT !.running = x].sync = d.sync
              /\ [d EXCEPT !.running = x].open = d.open
         /\ \A x \in 0..1 :
              /\ [d EXCEPT !.sync = x] \in Device /\ [d EXCEPT !.sync = x].sync = x
              /\ [d EXCEPT !.sync = x].req = d.req /\ [d EXCEPT !.sync = x].type = d.type
              /\ [d EXCEPT !.sync = x].requests = d.requests /\ [d EXCEPT !.sync = x].running = d.running
              /\ [d EXCEPT !.sync = x].open = d.open
         /\ \A x \in Nat :
              /\ [d EXCEPT !.open = x] \in Device /\ [d EXCEPT !.open = x].open = x
              /\ [d EXCEPT !.open = x].req = d.req /\ [d EXCEPT !.open = x].type = d.type
              /\ [d EXCEPT !.open = x].requests = d.requests /\ [d EXCEPT !.open = x].running = d.running
              /\ [d EXCEPT !.open = x].sync = d.sync
BY DEF Device

(* The scan of the table finds a slot, if it finds one.                      *)
LEMMA ScanFacts ==
  ASSUME NEW u \in Unit, NEW r, SlotsOf(u, r) # {}
  PROVE  First(SlotsOf(u, r)) \in SlotsOf(u, r) /\ First(SlotsOf(u, r)) \in HfSlot
<1>1. SlotsOf(u, r) \in SUBSET HfSlot
  BY DEF SlotsOf
<1> QED
  BY <1>1, FirstFacts

-----------------------------------------------------------------------------
(* Every step of the emulator thread keeps the types.                        *)
LEMMA EmuTypes ==
  ASSUME HfInv, Amiga \/ Interrupt \/ Reset \/ Emulator
  PROVE  HfTypeOK'
<1>1. /\ client \in [Request -> {"idle", "sent", "held"}]
      /\ command \in [Request -> {"io", "add", "rem"}]
      /\ dev \in [Unit -> Device] /\ thread \in [Unit -> ThreadState] /\ emu \in EmuState
      /\ change_sem \in 0..1 /\ native \in Seq(Request \cup {Stale})
      /\ Len(native) <= NativeRecords /\ resets \in 0..MaxResets /\ HfTypeOK
  BY DEF HfInv, HfTypeOK
<1>2. Cleared \in Device /\ AtRest \in EmuState /\ Off \in ThreadState
  BY WholeStates
<1>3. /\ emu.unit \in Unit /\ emu.req \in Request \cup {None} /\ emu.slot \in HfSlot
      /\ emu.next \in {"run", "resetUnit"}
  BY <1>1, EmuParts
<1>4. \A u \in Unit : /\ dev[u].req \in [HfSlot -> Request \cup {None}]
                      /\ dev[u].requests \in Seq(Request \cup {None}) /\ dev[u].open \in Nat
                      /\ dev[u].sync \in 0..1
  BY <1>1, UnitParts
<1>5. \A u \in Unit : UnitOK(dev[u], thread[u], Wait(u))
  BY DEF HfInv, UnitsInv
<1>6. ASSUME NEW u \in Unit, OpenFirst(u) PROVE HfTypeOK'
  <2>1. dev' \in [Unit -> Device]
    BY <1>1, <1>2, <1>6 DEF OpenFirst
  <2>2. [Off EXCEPT !.pc = "start"] \in ThreadState
    BY <1>2 DEF ThreadState
  <2>3. thread' \in [Unit -> ThreadState]
    BY <1>1, <1>6, <2>2 DEF OpenFirst
  <2>4. emu' \in EmuState
    BY <1>2, <1>6 DEF OpenFirst, EmuState
  <2> QED
    BY <1>1, <1>6, <2>1, <2>3, <2>4 DEF HfTypeOK, OpenFirst, clientVars
<1>7. CASE OpenEnds \/ CloseEnds
  <2>1. dev[emu.unit].sync - 1 \in 0..1 /\ dev[emu.unit].open + 1 \in Nat
    BY <1>3, <1>4, <1>7 DEF OpenEnds, CloseEnds
  <2> DEFINE e == emu.unit
             d == dev[e]
  <2>2. /\ [d EXCEPT !.sync = @ - 1, !.open = @ + 1] \in Device
        /\ [d EXCEPT !.sync = @ - 1] \in Device
    <3> d \in Device
      BY <1>1, <1>3
    <3> HIDE DEF d, e
    <3>1. dev[emu.unit].sync - 1 \in 0..1 /\ dev[emu.unit].open + 1 \in Nat
      BY <2>1
    <3> QED
      BY <2>1 DEF Device, d, e
  <2>3. \/ dev' = [dev EXCEPT ![e] = [d EXCEPT !.sync = @ - 1, !.open = @ + 1]]
        \/ dev' = [dev EXCEPT ![e] = [d EXCEPT !.sync = @ - 1]]
    BY <1>7 DEF OpenEnds, CloseEnds
  <2>4. dev' \in [Unit -> Device]
    BY <1>1, <2>2, <2>3
  <2> QED
    BY <1>1, <1>2, <1>7, <2>4 DEF HfTypeOK, OpenEnds, CloseEnds, clientVars
<1>8. ASSUME NEW u \in Unit, OpenAgain(u) PROVE HfTypeOK'
  <2>1. dev[u].open + 1 \in Nat
    BY <1>4
  <2>2. [dev[u] EXCEPT !.open = @ + 1] \in Device
    BY ZenonT(40), <1>1, <2>1 DEF Device
  <2>3. dev' = [dev EXCEPT ![u] = [dev[u] EXCEPT !.open = @ + 1]]
    BY <1>8 DEF OpenAgain
  <2>4. dev' \in [Unit -> Device]
    BY <1>1, <2>2, <2>3
  <2> QED
    BY <1>1, <1>8, <2>4 DEF HfTypeOK, OpenAgain, clientVars
<1>9. ASSUME NEW u \in Unit, Close(u) PROVE HfTypeOK'
  <2>1. dev[u].open - 1 \in Nat /\ Append(dev[u].requests, None) \in Seq(Request \cup {None})
    BY <1>4, <1>9 DEF Close
  <2> DEFINE q == IF dev[u].open = 1 THEN Append(dev[u].requests, None) ELSE dev[u].requests
  <2>2. [dev[u] EXCEPT !.open = @ - 1, !.requests = q] \in Device
    BY ZenonT(40), <1>1, <2>1 DEF Device
  <2>4. dev' = [dev EXCEPT ![u] = [dev[u] EXCEPT !.open = @ - 1, !.requests = q]]
    BY <1>9 DEF Close
  <2>5. dev' \in [Unit -> Device]
    BY <1>1, <2>2, <2>4
  <2>3. emu' \in EmuState
    BY <1>1, <1>2, <1>9 DEF Close, EmuState
  <2> QED
    BY <1>1, <1>9, <2>3, <2>5 DEF HfTypeOK, Close, clientVars
<1>10. ASSUME NEW r \in Request, NEW c \in {"io", "add", "rem"}, BeginIO(r, c) PROVE HfTypeOK'
  <2> DEFINE u == Home[r]
             S == IF SlotsOf(u, r) # {} THEN SlotsOf(u, r) ELSE SlotsOf(u, None)
             slot == IF S = {} THEN 0 ELSE First(S)
             pc == IF S = {} THEN "send" ELSE IF SlotsOf(u, r) = {} THEN "addRequest" ELSE "addType"
  <2>1. u \in Unit
    BY NumberFacts
  <2>2. slot \in HfSlot
    BY <2>1, ScanFacts, NumberFacts
  <2>3. /\ emu' = [AtRest EXCEPT !.pc = pc, !.unit = u, !.req = r, !.slot = slot]
        /\ client' = [client EXCEPT ![r] = "sent"] /\ command' = [command EXCEPT ![r] = c]
        /\ UNCHANGED <<dev, thread, change_sem, native, resets>>
    BY <1>10 DEF BeginIO
  <2>4. pc \in {"send", "addRequest", "addType"}
    OBVIOUS
  <2> HIDE DEF u, slot, pc
  <2>5. emu' \in EmuState
    BY <1>2, <2>1, <2>2, <2>3, <2>4 DEF EmuState
  <2>6. client' \in [Request -> {"idle", "sent", "held"}] /\ command' \in [Request -> {"io", "add", "rem"}]
    BY <1>1, <2>3
  <2> QED
    BY <1>1, <2>3, <2>5, <2>6 DEF HfTypeOK
<1>11. CASE AddRequest
  <2> DEFINE e == emu.unit
             q == [dev[e].req EXCEPT ![emu.slot] = emu.req]
  <2>3. q \in [HfSlot -> Request \cup {None}]
    BY <1>3, <1>4
  <2>4. [dev[e] EXCEPT !.req = q] \in Device
    <3> dev[e] \in Device
      BY <1>1, <1>3
    <3> HIDE DEF q, e
    <3> QED
      BY <2>3, DeviceUpdates
  <2>5. dev' = [dev EXCEPT ![e] = [dev[e] EXCEPT !.req = q]]
    BY <1>11 DEF AddRequest
  <2>1. dev' \in [Unit -> Device]
    BY <1>1, <2>4, <2>5
  <2>2. emu' \in EmuState
    BY <1>1, <1>11 DEF AddRequest, EmuState
  <2> QED
    BY <1>1, <1>11, <2>1, <2>2 DEF HfTypeOK, AddRequest, clientVars
<1>12. CASE AddType \/ AbortType
  <2> DEFINE e == emu.unit
             t(x) == [dev[e].type EXCEPT ![emu.slot] = x]
  <2>3. t("temp") \in [HfSlot -> {"none", "temp", "changeint"}] /\ t("none") \in [HfSlot -> {"none", "temp", "changeint"}]
    BY <1>1, <1>3, UnitParts
  <2>4. [dev[e] EXCEPT !.type = t("temp")] \in Device /\ [dev[e] EXCEPT !.type = t("none")] \in Device
    <3> dev[e] \in Device
      BY <1>1, <1>3
    <3> HIDE DEF t, e
    <3> QED
      BY <2>3, DeviceUpdates
  <2>5. \/ dev' = [dev EXCEPT ![e] = [dev[e] EXCEPT !.type = t("temp")]]
        \/ dev' = [dev EXCEPT ![e] = [dev[e] EXCEPT !.type = t("none")]]
    BY <1>12 DEF AddType, AbortType
  <2>1. dev' \in [Unit -> Device]
    BY <1>1, <2>4, <2>5
  <2>2. emu' \in EmuState
    BY <1>1, <1>3, <1>12 DEF AddType, AbortType, EmuState
  <2> QED
    BY <1>1, <1>12, <2>1, <2>2 DEF HfTypeOK, AddType, AbortType, clientVars
<1>13. CASE SendRequest
  <2>1. Append(dev[emu.unit].requests, emu.req) \in Seq(Request \cup {None})
    BY <1>3, <1>4
  <2> DEFINE e == emu.unit
             q == Append(dev[e].requests, emu.req)
  <2>3. [dev[e] EXCEPT !.requests = q] \in Device
    <3> dev[e] \in Device
      BY <1>1, <1>3
    <3> q \in Seq(Request \cup {None})
      BY <2>1
    <3> HIDE DEF q, e
    <3> QED
      BY DeviceUpdates
  <2>4. dev' = [dev EXCEPT ![e] = [dev[e] EXCEPT !.requests = q]]
    BY <1>13 DEF SendRequest
  <2>2. dev' \in [Unit -> Device]
    BY <1>1, <2>3, <2>4
  <2> QED
    BY <1>1, <1>2, <1>13, <2>2 DEF HfTypeOK, SendRequest, clientVars
<1>14. ASSUME NEW r \in Request, AbortIO(r) PROVE HfTypeOK'
  <2>1. Home[r] \in Unit
    BY NumberFacts
  <2>2. emu' \in EmuState
    BY <1>2, <1>14, <2>1 DEF AbortIO, EmuState
  <2> QED
    BY <1>1, <1>14, <2>2 DEF HfTypeOK, AbortIO, clientVars
<1>15. CASE AbortAsync
  <2> DEFINE S == SlotsOf(emu.unit, emu.req)
  <2>1. CASE S = {}
    <3>1. emu' = [emu EXCEPT !.pc = emu.next] /\ dev' = dev
      BY <1>15, <2>1 DEF AbortAsync
    <3>2. emu' \in EmuState
      BY <1>1, <1>3, <3>1 DEF EmuState
    <3>3. client' \in [Request -> {"idle", "sent", "held"}]
      BY <1>1, <1>15 DEF AbortAsync
    <3> QED
      BY <1>1, <1>15, <3>1, <3>2, <3>3 DEF HfTypeOK, AbortAsync
  <2>2. CASE S # {}
    <3>1. First(S) \in HfSlot
      BY <1>3, <2>2, ScanFacts
    <3>2. /\ emu' = [emu EXCEPT !.pc = "abortType", !.slot = First(S)]
          /\ dev' = [dev EXCEPT ![emu.unit].req[First(S)] = None]
      BY <1>15, <2>2 DEF AbortAsync
    <3> HIDE DEF S
    <3>3. emu' \in EmuState
      BY <1>1, <3>1, <3>2 DEF EmuState
    <3> DEFINE e == emu.unit
               q == [dev[e].req EXCEPT ![First(S)] = None]
    <3>6. q \in [HfSlot -> Request \cup {None}]
      BY <1>3, <1>4, <3>1
    <3>7. [dev[e] EXCEPT !.req = q] \in Device
      <4> dev[e] \in Device
        BY <1>1, <1>3
      <4> HIDE DEF q, e
      <4> QED
        BY <3>6, DeviceUpdates
    <3>8. dev' = [dev EXCEPT ![e] = [dev[e] EXCEPT !.req = q]]
      BY <3>2
    <3>4. dev' \in [Unit -> Device]
      BY <1>1, <3>7, <3>8
    <3>5. client' \in [Request -> {"idle", "sent", "held"}]
      BY <1>1, <1>15 DEF AbortAsync
    <3> QED
      BY <1>1, <1>15, <3>3, <3>4, <3>5 DEF HfTypeOK, AbortAsync
  <2> QED
    BY <2>1, <2>2
<1>16. CASE Interrupt
  <2>1. Tail(native) \in Seq(Request \cup {Stale}) /\ Len(Tail(native)) <= NativeRecords
    BY <1>1, <1>16, HardfileAssumption DEF Interrupt, HardfileAssumption
  <2>2. client' \in [Request -> {"idle", "sent", "held"}]
    BY <1>1, <1>16 DEF Interrupt
  <2> QED
    BY <1>1, <1>16, <2>1, <2>2 DEF HfTypeOK, Interrupt
<1>17. CASE Reset
  <2>1. resets' \in 0..MaxResets
    BY <1>1, <1>17, HardfileAssumption DEF Reset, HardfileAssumption
  <2>2. emu' \in EmuState
    BY <1>2, <1>17 DEF Reset, EmuState
  <2> QED
    BY <1>1, <1>17, <2>1, <2>2 DEF HfTypeOK, Reset, clientVars
<1>18. ASSUME NEW u \in Unit, ClearUnit(u) PROVE HfTypeOK'
  <2>1. dev' \in [Unit -> Device]
    BY <1>1, <1>2, <1>18 DEF ClearUnit
  <2>2. emu' \in EmuState
    BY <1>2, <1>18 DEF ClearUnit, EmuState
  <2>3. client' \in [Request -> {"idle", "sent", "held"}]
    BY <1>1, <1>18 DEF ClearUnit
  <2>4. native' \in Seq(Request \cup {Stale}) /\ Len(native') <= NativeRecords
    <3>1. native' = native \/ native' = [i \in 1..Len(native) |-> Stale]
      BY <1>1, <1>18 DEF ClearUnit
    <3>2. [i \in 1..Len(native) |-> Stale] \in Seq(Request \cup {Stale})
      BY <1>1
    <3>3. Len([i \in 1..Len(native) |-> Stale]) = Len(native)
      BY <1>1
    <3> QED
      BY <1>1, <3>1, <3>2, <3>3
  <2> QED
    BY <1>1, <1>18, <2>1, <2>2, <2>3, <2>4 DEF HfTypeOK, ClearUnit
<1>19. CASE ResetAborts
  <2>1. dev[emu.unit].req[emu.unit] \in Request \cup {None}
    BY <1>3, <1>4, NumberFacts
  <2>2. emu' \in EmuState
    BY <1>1, <1>19, <2>1 DEF ResetAborts, EmuState
  <2> QED
    BY <1>1, <1>19, <2>2 DEF HfTypeOK, ResetAborts, clientVars
<1>20. CASE ResetStops
  <2>1. Append(dev[emu.unit].requests, None) \in Seq(Request \cup {None})
    BY <1>3, <1>4
  <2> DEFINE e == emu.unit
             q == Append(dev[e].requests, None)
  <2>4. [dev[e] EXCEPT !.requests = q] \in Device
    <3> dev[e] \in Device
      BY <1>1, <1>3
    <3> q \in Seq(Request \cup {None})
      BY <2>1
    <3> HIDE DEF q, e
    <3> QED
      BY DeviceUpdates
  <2>5. dev' = [dev EXCEPT ![e] = [dev[e] EXCEPT !.requests = q]]
    BY <1>20 DEF ResetStops
  <2>2. dev' \in [Unit -> Device]
    BY <1>1, <2>4, <2>5
  <2>3. emu' \in EmuState
    BY <1>1, <1>20 DEF ResetStops, EmuState
  <2> QED
    BY <1>1, <1>20, <2>2, <2>3 DEF HfTypeOK, ResetStops, clientVars
<1> QED
  BY <1>3, <1>6, <1>7, <1>8, <1>9, <1>10, <1>11, <1>12, <1>13, <1>14, <1>15, <1>16, <1>17, <1>18,
     <1>19, <1>20 DEF Amiga, Emulator, ResetClosed, ResetClears

(* A thread's step changes its place, and the fields that go with it.        *)
PC == {"off", "start", "read", "lock", "stop", "stopped"} \cup Working

(* Changing a thread's place or slot changes that.                           *)
LEMMA ThreadUpdates ==
  ASSUME NEW t \in ThreadState, NEW p \in PC
  PROVE  /\ [t EXCEPT !.pc = p] \in ThreadState /\ [t EXCEPT !.pc = p].pc = p
         /\ [t EXCEPT !.pc = p].req = t.req /\ [t EXCEPT !.pc = p].next = t.next
         /\ [t EXCEPT !.pc = p].slot = t.slot
         /\ \A r \in Request \cup {None} :
              /\ [t EXCEPT !.pc = p, !.req = r] \in ThreadState
              /\ [t EXCEPT !.pc = p, !.req = r].pc = p /\ [t EXCEPT !.pc = p, !.req = r].req = r
         /\ \A s \in HfSlot :
              /\ [t EXCEPT !.pc = p, !.slot = s] \in ThreadState
              /\ [t EXCEPT !.pc = p, !.slot = s].pc = p
              /\ [t EXCEPT !.pc = p, !.slot = s].req = t.req
              /\ [t EXCEPT !.pc = p, !.slot = s].slot = s
BY DEF ThreadState, PC

(* Every step of a unit's thread keeps the types.                            *)
LEMMA ThreadTypes ==
  ASSUME HfInv, NEW u \in Unit, UnitThread(u)
  PROVE  HfTypeOK'
<1> DEFINE t == thread[u]
           d == dev[u]
<1>1. /\ client \in [Request -> {"idle", "sent", "held"}]
      /\ command \in [Request -> {"io", "add", "rem"}]
      /\ dev \in [Unit -> Device] /\ thread \in [Unit -> ThreadState] /\ emu \in EmuState
      /\ change_sem \in 0..1 /\ native \in Seq(Request \cup {Stale})
      /\ Len(native) <= NativeRecords /\ resets \in 0..MaxResets /\ HfTypeOK
  BY DEF HfInv, HfTypeOK
<1>2. Off \in ThreadState
  BY WholeStates
<1>3. /\ d.req \in [HfSlot -> Request \cup {None}] /\ d.sync \in 0..1
      /\ d.type \in [HfSlot -> {"none", "temp", "changeint"}]
      /\ d.requests \in Seq(Request \cup {None})
      /\ t.pc \in PC /\ t.req \in Request \cup {None} /\ t.slot \in HfSlot
      /\ t.next \in {"off", "release", "reply"}
  BY <1>1, UnitParts DEF PC
<1>4. UnitOK(d, t, Wait(u))
  BY DEF HfInv, UnitsInv
<1>5. d \in Device /\ t \in ThreadState
  BY <1>1
<1>6. \A p \in PC : thread' = [thread EXCEPT ![u].pc = p] => thread' \in [Unit -> ThreadState]
  <2> TAKE p \in PC
  <2>1. [t EXCEPT !.pc = p] \in ThreadState
    BY <1>5, ThreadUpdates
  <2>2. [thread EXCEPT ![u].pc = p] = [thread EXCEPT ![u] = [t EXCEPT !.pc = p]]
    OBVIOUS
  <2> QED
    BY <1>1, <2>1, <2>2
<1>7. ASSUME NEW x \in Device, dev' = [dev EXCEPT ![u] = x] PROVE dev' \in [Unit -> Device]
  BY <1>1, <1>7
<1>8. /\ "read" \in PC /\ "release" \in PC /\ "unlock" \in PC /\ "reply" \in PC /\ "off" \in PC
      /\ "stopped" \in PC /\ "stop" \in PC /\ "io" \in PC /\ "add" \in PC /\ "rem" \in PC
      /\ "releaseType" \in PC /\ "holdType" \in PC /\ "holdRequest" \in PC /\ "lock" \in PC
  BY DEF PC, Working
<1>9. CASE ThreadStarts(u)
  <2>1. d.sync = 0
    BY <1>4, <1>9 DEF ThreadStarts, ThreadAt, UnitOK, ClosedUnit, OpenUnit, Starting, Stopping, Going, Off, Working
  <2>2. [d EXCEPT !.running = TRUE, !.sync = @ + 1] \in Device
    <3>1. d.sync + 1 \in 0..1
      BY <2>1
    <3> HIDE DEF d
    <3> QED
      BY <1>5, <3>1 DEF Device
  <2>3. dev' = [dev EXCEPT ![u] = [d EXCEPT !.running = TRUE, !.sync = @ + 1]]
    BY <1>9 DEF ThreadStarts
  <2>4. thread' \in [Unit -> ThreadState]
    BY <1>6, <1>8, <1>9 DEF ThreadStarts, ThreadGoes
  <2>5. dev' \in [Unit -> Device]
    BY <1>7, <2>2, <2>3
  <2> QED
    BY <1>1, <1>9, <2>4, <2>5 DEF HfTypeOK, ThreadStarts, clientVars
<1>10. CASE ThreadReads(u)
  <2>1. Tail(d.requests) \in Seq(Request \cup {None}) /\ Head(d.requests) \in Request \cup {None}
    BY <1>3, <1>10 DEF ThreadReads
  <2>2. [d EXCEPT !.requests = Tail(d.requests)] \in Device
    BY <1>5, <2>1, DeviceUpdates
  <2>3. dev' = [dev EXCEPT ![u] = [d EXCEPT !.requests = Tail(d.requests)]]
    BY <1>10 DEF ThreadReads
  <2>4. [t EXCEPT !.pc = "lock", !.req = Head(d.requests)] \in ThreadState
    BY <1>5, <1>8, <2>1, ThreadUpdates
  <2>5. thread' = [thread EXCEPT ![u] = [t EXCEPT !.pc = "lock", !.req = Head(d.requests)]]
    BY <1>10 DEF ThreadReads
  <2>6. dev' \in [Unit -> Device] /\ thread' \in [Unit -> ThreadState]
    BY <1>1, <1>7, <2>2, <2>3, <2>4, <2>5
  <2> QED
    BY <1>1, <1>10, <2>6 DEF HfTypeOK, ThreadReads, clientVars
<1>11. CASE ThreadLocks(u)
  <2>1. (IF t.req = None THEN "stop" ELSE command[t.req]) \in PC
    BY <1>1, <1>3, <1>8
  <2>2. thread' \in [Unit -> ThreadState]
    BY <1>6, <1>11, <2>1 DEF ThreadLocks, ThreadGoes
  <2>3. change_sem' \in 0..1
    BY <1>1, <1>11 DEF ThreadLocks
  <2> QED
    BY <1>1, <1>11, <2>2, <2>3 DEF HfTypeOK, ThreadLocks, clientVars
<1>12. CASE ThreadStops(u)
  <2>1. [d EXCEPT !.running = FALSE] \in Device
    BY <1>5, DeviceUpdates
  <2>2. dev' = [dev EXCEPT ![u] = [d EXCEPT !.running = FALSE]]
    BY <1>12 DEF ThreadStops
  <2>3. dev' \in [Unit -> Device] /\ thread' \in [Unit -> ThreadState]
    BY <1>6, <1>7, <1>8, <1>12, <2>1, <2>2 DEF ThreadStops, ThreadGoes
  <2> QED
    BY <1>1, <1>12, <2>3 DEF HfTypeOK, ThreadStops, clientVars
<1>13. CASE ThreadEnds(u)
  <2>1. d.sync = 0
    BY <1>4, <1>13 DEF ThreadEnds, ThreadAt, UnitOK, ClosedUnit, OpenUnit, Starting, Stopping, Going, Off, Working
  <2>2. [d EXCEPT !.sync = d.sync + 1] \in Device
    <3>1. d.sync + 1 \in 0..1
      BY <2>1
    <3> QED
      BY <1>5, <3>1, DeviceUpdates
  <2>3. dev' = [dev EXCEPT ![u] = [d EXCEPT !.sync = d.sync + 1]]
    BY <1>13 DEF ThreadEnds
  <2>4. dev' \in [Unit -> Device]
    BY <1>7, <2>2, <2>3
  <2>5. thread' \in [Unit -> ThreadState]
    BY <1>1, <1>2, <1>13 DEF ThreadEnds
  <2>6. change_sem' \in 0..1
    BY <1>13 DEF ThreadEnds, ThreadAt, HfInv, LockInv, Holds
  <2> QED
    BY <1>1, <1>13, <2>4, <2>5, <2>6 DEF HfTypeOK, ThreadEnds, clientVars
<1>14. CASE DoIO(u)
  <2>1. thread' \in [Unit -> ThreadState]
    BY <1>6, <1>8, <1>14 DEF DoIO, ThreadGoes
  <2> QED
    BY <1>1, <1>14, <2>1 DEF HfTypeOK, DoIO, clientVars
<1>15. CASE Release(u)
  <2> DEFINE S == SlotsOf(u, t.req)
             next == IF ThreadAt(u, "rem") THEN "release" ELSE "reply"
             q == [d.req EXCEPT ![First(S)] = None]
  <2>1. next \in PC /\ next \in {"off", "release", "reply"}
    BY <1>8
  <2>2. CASE S = {}
    <3>1. dev' = dev /\ thread' = [thread EXCEPT ![u].pc = next]
      BY <1>15, <2>2 DEF Release, ThreadGoes
    <3> HIDE DEF next
    <3>2. thread' \in [Unit -> ThreadState]
      BY <1>6, <2>1, <3>1
    <3> QED
      BY <1>1, <1>15, <3>1, <3>2 DEF HfTypeOK, Release, clientVars
  <2>3. CASE S # {}
    <3>1. First(S) \in HfSlot
      BY <2>3, ScanFacts
    <3>2. /\ dev' = [dev EXCEPT ![u] = [d EXCEPT !.req = q]]
          /\ thread' = [thread EXCEPT ![u] = [t EXCEPT !.pc = "releaseType", !.slot = First(S),
                                                       !.next = next]]
      BY <1>15, <2>3 DEF Release
    <3> HIDE DEF next, S
    <3>3. q \in [HfSlot -> Request \cup {None}]
      BY <1>3, <3>1
    <3> HIDE DEF q
    <3>4. [d EXCEPT !.req = q] \in Device
      BY <1>5, <3>3, DeviceUpdates
    <3>5. [t EXCEPT !.pc = "releaseType", !.slot = First(S), !.next = next] \in ThreadState
      <4>1. PICK x : x = [t EXCEPT !.pc = "releaseType", !.slot = First(S), !.next = next]
        OBVIOUS
      <4>3. t \in ThreadState /\ First(S) \in HfSlot /\ next \in {"off", "release", "reply"}
        BY <1>5, <2>1, <3>1
      <4> HIDE DEF t
      <4>2. x \in ThreadState
        BY <4>1, <4>3 DEF ThreadState, Working
      <4> QED
        BY <4>1, <4>2
    <3>6. dev' \in [Unit -> Device] /\ thread' \in [Unit -> ThreadState]
      BY <1>1, <1>7, <3>2, <3>4, <3>5
    <3> QED
      BY <1>1, <1>15, <3>6 DEF HfTypeOK, Release, clientVars
  <2> QED
    BY <2>2, <2>3
<1>16. CASE ReleaseType(u)
  <2>1. t.next \in PC
    BY <1>3, <1>8
  <2>2. thread' \in [Unit -> ThreadState]
    BY <1>6, <1>16, <2>1 DEF ReleaseType, ThreadGoes
  <2> DEFINE q == [d.type EXCEPT ![t.slot] = "none"]
  <2>3. q \in [HfSlot -> {"none", "temp", "changeint"}]
    BY <1>3
  <2>4. dev' = [dev EXCEPT ![u] = [d EXCEPT !.type = q]]
    BY <1>16 DEF ReleaseType
  <2> HIDE DEF q
  <2>5. [d EXCEPT !.type = q] \in Device
    BY <1>5, <2>3, DeviceUpdates
  <2>6. dev' \in [Unit -> Device]
    BY <1>7, <2>4, <2>5
  <2> QED
    BY <1>1, <1>16, <2>2, <2>6 DEF HfTypeOK, ReleaseType, clientVars
<1>17. CASE DoAdd(u)
  <2> DEFINE S == IF SlotsOf(u, t.req) # {} THEN SlotsOf(u, t.req) ELSE SlotsOf(u, None)
             pc == IF S = {} THEN "release"
                   ELSE IF SlotsOf(u, t.req) = {} THEN "holdRequest" ELSE "holdType"
             slot == IF S = {} THEN 0 ELSE First(S)
  <2>1. slot \in HfSlot
    BY ScanFacts, NumberFacts
  <2>2. pc \in PC
    BY <1>8
  <2>3. thread' = [thread EXCEPT ![u] = [t EXCEPT !.pc = pc, !.slot = slot]]
    BY <1>17 DEF DoAdd
  <2> HIDE DEF pc, slot
  <2>4. [t EXCEPT !.pc = pc, !.slot = slot] \in ThreadState
    BY <1>5, <2>1, <2>2, ThreadUpdates
  <2>5. thread' \in [Unit -> ThreadState]
    BY <1>1, <2>3, <2>4
  <2> QED
    BY <1>1, <1>17, <2>5 DEF HfTypeOK, DoAdd, clientVars
<1>18. CASE Hold(u)
  <2>1. thread' \in [Unit -> ThreadState]
    BY <1>6, <1>8, <1>18 DEF Hold, ThreadGoes
  <2>2. client' \in [Request -> {"idle", "sent", "held"}]
    BY <1>1, <1>18 DEF Hold
  <2>3. dev' \in [Unit -> Device]
    <3> DEFINE q == [d.req EXCEPT ![t.slot] = t.req]
               y == [d.type EXCEPT ![t.slot] = "changeint"]
    <3>1. q \in [HfSlot -> Request \cup {None}] /\ y \in [HfSlot -> {"none", "temp", "changeint"}]
      BY <1>3
    <3>2. \/ dev' = [dev EXCEPT ![u] = [d EXCEPT !.req = q]]
          \/ dev' = [dev EXCEPT ![u] = [d EXCEPT !.type = y]]
      BY <1>18 DEF Hold
    <3> HIDE DEF q, y
    <3>3. [d EXCEPT !.req = q] \in Device /\ [d EXCEPT !.type = y] \in Device
      BY <1>5, <3>1, DeviceUpdates
    <3> QED
      BY <1>7, <3>2, <3>3
  <2> QED
    BY <1>1, <1>18, <2>1, <2>2, <2>3 DEF HfTypeOK, Hold
<1>19. CASE Reply(u)
  <2>1. t.req \in Request
    BY <1>3, <1>4, <1>19 DEF Reply, ThreadAt, UnitOK, ClosedUnit, OpenUnit, Starting, Stopping, Going, Off
  <2>2. native' \in Seq(Request \cup {Stale}) /\ Len(native') <= NativeRecords
    BY <1>1, <1>19, <2>1, HardfileAssumption DEF Reply, HardfileAssumption
  <2>3. thread' \in [Unit -> ThreadState]
    BY <1>6, <1>8, <1>19 DEF Reply, ThreadGoes
  <2> QED
    BY <1>1, <1>19, <2>2, <2>3 DEF HfTypeOK, Reply, clientVars
<1>20. CASE ThreadUnlocks(u)
  <2>1. change_sem' \in 0..1
    BY <1>20 DEF ThreadUnlocks, ThreadAt, HfInv, LockInv, Holds, Working
  <2>2. thread' \in [Unit -> ThreadState]
    <3>1. [Off EXCEPT !.pc = "read"] \in ThreadState
      BY <1>2, <1>8, ThreadUpdates
    <3> QED
      BY <1>1, <1>20, <3>1 DEF ThreadUnlocks
  <2> QED
    BY <1>1, <1>20, <2>1, <2>2 DEF HfTypeOK, ThreadUnlocks, clientVars
<1> QED
  BY <1>9, <1>10, <1>11, <1>12, <1>13, <1>14, <1>15, <1>16, <1>17, <1>18, <1>19, <1>20
     DEF UnitThread

-----------------------------------------------------------------------------
(* The counts are numbers.                                                   *)
LEMMA CountTypes ==
  ASSUME HfTypeOK, NEW r \in Request
  PROVE  /\ Times(r, dev[Home[r]].requests) \in Nat /\ Times(r, native) \in Nat
         /\ Home[r] \in Unit
<1>1. Home[r] \in Unit
  BY NumberFacts
<1>2. dev[Home[r]].requests \in Seq(Request \cup {None})
  BY <1>1, UnitParts
<1>3. native \in Seq(Request \cup {Stale})
  BY DEF HfTypeOK
<1> QED
  BY <1>1, <1>2, <1>3, PlacesFinite

(* Where a thread has a request that is not yet replied.                     *)
InHand(t, r) == One(t.req = r /\ t.pc # "unlock")
InEmu(e, r) == One(e.req = r /\ e.pc \in {"addRequest", "addType", "send"})
Sent(c, r) == One(c[r] = "sent")

(* A step of a unit's thread keeps the invariant, if it leaves the other     *)
(* units and the emulator thread alone, keeps its own unit in one of its     *)
(* states, passes change_sem on, and moves requests without losing one.      *)
LEMMA ThreadFrame ==
  ASSUME HfInv, HfTypeOK', NEW u \in Unit, thread[u].pc # "off", UNCHANGED emu,
         \A v \in Unit \ {u} : dev'[v] = dev[v] /\ thread'[v] = thread[v],
         dev'[u].open = dev[u].open, UnitOK(dev'[u], thread'[u], Wait(u)),
         \A i \in 1..Len(dev'[u].requests) :
           dev'[u].requests[i] # None => Home[dev'[u].requests[i]] = u,
         thread'[u].req # None => Home[thread'[u].req] = u,
         thread'[u].pc = "releaseType" => thread'[u].next # "off",
         Holds(u)' => change_sem' = 0 /\ (Holds(u) \/ change_sem > 0),
         ~Holds(u)' => change_sem' = change_sem \/ Holds(u),
         \A r \in Request : Home[r] # u => client'[r] = client[r] /\ Times(r, native') = Times(r, native),
         \A r \in Request : Home[r] = u =>
           Times(r, dev'[u].requests) + Times(r, native') + InHand(thread'[u], r) + Sent(client, r)
           = Times(r, dev[u].requests) + Times(r, native) + InHand(thread[u], r) + Sent(client', r)
  PROVE  HfInv'
<1>1. \A v \in Unit : Wait(v)' = Wait(v)
  BY DEF Wait
<1>2. UnitsInv'
  BY <1>1 DEF HfInv, UnitsInv
<1>3. HomeInv'
  BY DEF HfInv, HomeInv
<1>4. EmuInv'
  <2>1. Resetting' = Resetting
    BY DEF Resetting
  <2>2. \A v \in Unit : dev'[v].open = dev[v].open
    OBVIOUS
  <2>3. emu.unit \in Unit
    BY EmuParts DEF HfInv
  <2>4. Resetting => \A v \in Unit : v < emu.unit => v # u
    BY DEF HfInv, EmuInv, Off
  <2> QED
    BY <2>1, <2>2, <2>3, <2>4 DEF HfInv, EmuInv
<1>5. LockInv'
  <2>1. \A v \in Unit \ {u} : Holds(v)' <=> Holds(v)
    BY DEF Holds
  <2>2. \A v \in Unit \ {u} : Holds(v) => change_sem = 0 /\ ~Holds(u)
    BY DEF HfInv, LockInv
  <2>3. \A v, w \in Unit \ {u} : Holds(v) /\ Holds(w) => v = w
    BY DEF HfInv, LockInv
  <2>4. change_sem \in 0..1
    BY DEF HfInv, HfTypeOK
  <2>5. \A v \in Unit : Holds(v)' => change_sem' = 0
    BY <2>1, <2>2
  <2>6. \A v \in Unit \ {u} : Holds(v)' => ~Holds(u)'
    BY <2>1, <2>2, <2>4
  <2> QED
    BY <2>1, <2>3, <2>5, <2>6 DEF LockInv
<1>6. RepliedOnce'
  <2> SUFFICES ASSUME NEW r \in Request
               PROVE  Times(r, dev'[Home[r]].requests) + Times(r, native') + InEmu(emu', r)
                        + InHand(thread'[Home[r]], r) = Sent(client', r)
    BY DEF RepliedOnce, InEmu, InHand, Sent
  <2>1. Times(r, dev[Home[r]].requests) + Times(r, native) + InEmu(emu, r)
          + InHand(thread[Home[r]], r) = Sent(client, r)
    BY DEF HfInv, RepliedOnce, InEmu, InHand, Sent
  <2>2. /\ Times(r, dev[Home[r]].requests) \in Nat /\ Times(r, native) \in Nat
        /\ Home[r] \in Unit
    BY CountTypes DEF HfInv
  <2>3. Times(r, dev'[Home[r]].requests) \in Nat /\ Times(r, native') \in Nat
    <3>1. dev' \in [Unit -> Device] /\ native' \in Seq(Request \cup {Stale})
      BY DEF HfTypeOK
    <3>2. dev'[Home[r]].requests \in Seq(Request \cup {None})
      BY <2>2, <3>1 DEF Device
    <3> QED
      BY <3>1, <3>2, PlacesFinite
  <2>4. /\ InEmu(emu, r) \in Nat /\ InHand(thread[Home[r]], r) \in Nat
        /\ InHand(thread'[Home[r]], r) \in Nat /\ Sent(client, r) \in Nat /\ Sent(client', r) \in Nat
    BY DEF InEmu, InHand, Sent, One
  <2>5. CASE Home[r] # u
    <3>1. Sent(client', r) = Sent(client, r) /\ InHand(thread'[Home[r]], r) = InHand(thread[Home[r]], r)
      BY <2>2, <2>5 DEF Sent
    <3> QED
      BY <2>1, <2>2, <2>5, <3>1
  <2>6. CASE Home[r] = u
    <3>1. Times(r, dev'[Home[r]].requests) + Times(r, native') + InHand(thread'[Home[r]], r) + Sent(client, r)
           = Times(r, dev[Home[r]].requests) + Times(r, native) + InHand(thread[Home[r]], r) + Sent(client', r)
      BY <2>6
    <3> DEFINE a == Times(r, dev[Home[r]].requests)
               b == Times(r, native)
               c == InEmu(emu, r)
               d == InHand(thread[Home[r]], r)
               e == Sent(client, r)
               x == Times(r, dev'[Home[r]].requests)
               y == Times(r, native')
               z == InHand(thread'[Home[r]], r)
               w == Sent(client', r)
    <3>2. InEmu(emu', r) = c
      OBVIOUS
    <3>3. /\ a \in Nat /\ b \in Nat /\ c \in Nat /\ d \in Nat /\ e \in Nat
          /\ x \in Nat /\ y \in Nat /\ z \in Nat /\ w \in Nat
      BY <2>2, <2>3, <2>4
    <3>4. a + b + c + d = e /\ x + y + z + e = a + b + d + w
      BY <2>1, <3>1
    <3> HIDE DEF a, b, c, d, e, x, y, z, w
    <3>5. x + y + c + z = w
      BY <3>3, <3>4
    <3> QED
      BY <3>2, <3>5 DEF x, y, z, w
  <2> QED
    BY <2>5, <2>6
<1> QED
  BY <1>2, <1>3, <1>4, <1>5, <1>6 DEF HfInv

(* A thread that works has a request.                                        *)
LEMMA WorkFacts ==
  ASSUME HfInv, NEW u \in Unit, thread[u].pc \in Working
  PROVE  /\ thread[u].req \in Request /\ Home[thread[u].req] = u
         /\ thread[u].pc # "off" /\ Holds(u)
<1>1. UnitOK(dev[u], thread[u], Wait(u)) /\ thread[u].req \in Request \cup {None}
  BY UnitParts DEF HfInv, UnitsInv
<1>2. thread[u].req # None
  BY <1>1 DEF UnitOK, ClosedUnit, OpenUnit, Starting, Stopping, Going, Off, Working
<1>3. Home[thread[u].req] = u
  BY <1>2 DEF HfInv, HomeInv
<1> QED
  BY <1>1, <1>2, <1>3 DEF Holds, Working

(* As long as it serves requests, its unit is in the state it was.           *)
LEMMA GoesOn ==
  ASSUME NEW d, NEW d2, NEW t, NEW t2, NEW w, UnitOK(d, t, w),
         t.pc \in Working, t2.pc \in Working \cup {"read"}, t2.pc = "read" <=> t2.req = None,
         d2.requests = d.requests, d2.running = d.running, d2.sync = d.sync, d2.open = d.open
  PROVE  UnitOK(d2, t2, w)
<1>1. t # Off /\ t.pc \notin {"lock", "stop", "stopped", "start", "read"}
  BY DEF Off, Working
<1>2. \/ w = "no" /\ OpenUnit(d, t)
      \/ /\ w \in {"close", "resetWait"} /\ (w = "close" <=> d.open = 0)
         /\ Going(d, t) /\ d.requests # <<>> /\ LastIsZero(d.requests)
  BY <1>1 DEF UnitOK, ClosedUnit, Starting, Stopping
<1>3. Going(d, t) => Going(d2, t2)
  BY DEF Going
<1> QED
  BY <1>2, <1>3 DEF UnitOK, OpenUnit, Stopping

(* A step within the work on a request.                                      *)
LEMMA WorkStep ==
  ASSUME HfInv, HfTypeOK', NEW u \in Unit, thread[u].pc \in Working \ {"unlock"},
         thread'[u].pc \in Working \ {"unlock"}, thread'[u].req = thread[u].req,
         thread'[u].pc = "releaseType" => thread'[u].next # "off",
         UNCHANGED <<emu, native, client, change_sem>>,
         \A v \in Unit \ {u} : dev'[v] = dev[v] /\ thread'[v] = thread[v],
         dev'[u].requests = dev[u].requests, dev'[u].running = dev[u].running,
         dev'[u].sync = dev[u].sync, dev'[u].open = dev[u].open
  PROVE  HfInv'
<1>1. /\ thread[u].req \in Request /\ Home[thread[u].req] = u /\ thread[u].pc # "off" /\ Holds(u)
      /\ thread[u].req # None
  BY WorkFacts, NumberFacts
<1>2. UnitOK(dev'[u], thread'[u], Wait(u))
  <2>1. UnitOK(dev[u], thread[u], Wait(u))
    BY DEF HfInv, UnitsInv
  <2>2. thread'[u].pc # "read" /\ thread'[u].req # None
    BY <1>1 DEF Working
  <2> QED
    BY <2>1, <2>2, GoesOn
<1>3. \A i \in 1..Len(dev'[u].requests) :
        dev'[u].requests[i] # None => Home[dev'[u].requests[i]] = u
  BY DEF HfInv, HomeInv
<1>4. Holds(u)' /\ change_sem' = 0
  BY <1>1 DEF HfInv, LockInv, Holds
<1>5. \A r : InHand(thread'[u], r) = InHand(thread[u], r) /\ Sent(client', r) = Sent(client, r)
  BY DEF InHand, Sent
<1>6. \A r \in Request : Home[r] = u =>
           Times(r, dev'[u].requests) + Times(r, native') + InHand(thread'[u], r) + Sent(client, r)
           = Times(r, dev[u].requests) + Times(r, native) + InHand(thread[u], r) + Sent(client', r)
  BY <1>5
<1> QED
  BY <1>1, <1>2, <1>3, <1>4, <1>6, ThreadFrame

(* The work on a request, but for its end.                                   *)
LEMMA WorkSteps ==
  ASSUME HfInv, NEW u \in Unit,
         DoIO(u) \/ Release(u) \/ ReleaseType(u) \/ DoAdd(u) \/ (ThreadAt(u, "holdRequest") /\ Hold(u))
  PROVE  HfInv'
<1>1. HfTypeOK'
  BY ThreadTypes DEF UnitThread
<1>2. /\ dev \in [Unit -> Device] /\ thread \in [Unit -> ThreadState] /\ dev[u] \in Device
      /\ thread[u] \in ThreadState
  BY DEF HfInv, HfTypeOK
<1>3. UNCHANGED <<emu, native, client, change_sem>>
  BY DEF DoIO, Release, ReleaseType, DoAdd, Hold, ThreadAt, clientVars
<1>4. \A v \in Unit \ {u} : dev'[v] = dev[v] /\ thread'[v] = thread[v]
  BY <1>2 DEF DoIO, Release, ReleaseType, DoAdd, Hold, ThreadGoes
<1>5. thread[u].pc \in Working \ {"unlock"}
  BY DEF DoIO, Release, ReleaseType, DoAdd, ThreadAt, Working
<1>6. /\ dev'[u].requests = dev[u].requests /\ dev'[u].running = dev[u].running
      /\ dev'[u].sync = dev[u].sync /\ dev'[u].open = dev[u].open
  BY <1>2 DEF DoIO, Release, ReleaseType, DoAdd, Hold, ThreadGoes, Device
<1>7. thread'[u].req = thread[u].req
  BY <1>2 DEF DoIO, Release, ReleaseType, DoAdd, Hold, ThreadGoes, ThreadState
<1>8. thread'[u].pc \in Working \ {"unlock"} /\ (thread'[u].pc = "releaseType" => thread'[u].next # "off")
  <2>1. CASE DoIO(u)
    BY <1>2, <2>1 DEF DoIO, ThreadGoes, Working, ThreadState
  <2>2. CASE Release(u)
    BY <1>2, <2>2 DEF Release, ThreadGoes, Working, ThreadState
  <2>3. CASE ReleaseType(u)
    <3>1. thread'[u].pc = thread[u].next
      BY <1>2, <2>3 DEF ReleaseType, ThreadGoes, ThreadState
    <3>2. thread[u].next \in {"release", "reply"}
      BY <2>3, UnitParts DEF ReleaseType, ThreadAt, HfInv, HomeInv
    <3> QED
      BY <3>1, <3>2 DEF Working
  <2>4. CASE DoAdd(u)
    BY <1>2, <2>4 DEF DoAdd, Working, ThreadState
  <2>5. CASE ThreadAt(u, "holdRequest") /\ Hold(u)
    BY <1>2, <2>5 DEF Hold, ThreadAt, ThreadGoes, Working, ThreadState
  <2> QED
    BY <2>1, <2>2, <2>3, <2>4, <2>5
<1> QED
  BY <1>1, <1>3, <1>4, <1>5, <1>6, <1>7, <1>8, WorkStep

(* A request in a thread's hands is one that was sent.                       *)
LEMMA InHandIsSent ==
  ASSUME HfInv, NEW u \in Unit, thread[u].pc \in Working \ {"unlock"}
  PROVE  client[thread[u].req] = "sent"
<1> DEFINE r == thread[u].req
<1>1. r \in Request /\ Home[r] = u
  BY WorkFacts
<1>2. Times(r, dev[u].requests) + Times(r, native) + InEmu(emu, r) + InHand(thread[u], r) = Sent(client, r)
  BY <1>1 DEF HfInv, RepliedOnce, InEmu, InHand, Sent
<1>3. InHand(thread[u], r) = 1
  BY DEF InHand, One
<1>4. Times(r, dev[u].requests) \in Nat /\ Times(r, native) \in Nat
  BY <1>1, CountTypes DEF HfInv
<1>5. InEmu(emu, r) \in Nat
  BY DEF InEmu, One
<1> HIDE DEF r
<1>6. Sent(client, r) # 0
  BY <1>2, <1>3, <1>4, <1>5
<1> QED
  BY <1>6 DEF Sent, One, r

(* A thread that is done with a request: it is held, or replied, ...         *)
LEMMA HeldStep ==
  ASSUME HfInv, NEW u \in Unit, ThreadAt(u, "holdType"), Hold(u)
  PROVE  HfInv'
<1> DEFINE q == thread[u].req
<1>1. HfTypeOK'
  BY ThreadTypes DEF UnitThread
<1>2. /\ dev \in [Unit -> Device] /\ thread \in [Unit -> ThreadState] /\ dev[u] \in Device
      /\ thread[u] \in ThreadState /\ client \in [Request -> {"idle", "sent", "held"}]
  BY DEF HfInv, HfTypeOK
<1>3. thread[u].pc = "holdType" /\ thread[u].pc \in Working \ {"unlock"}
  BY DEF ThreadAt, Working
<1>4. q \in Request /\ Home[q] = u /\ q # None /\ Holds(u) /\ client[q] = "sent"
  BY <1>3, WorkFacts, InHandIsSent, NumberFacts
<1>5. /\ UNCHANGED <<emu, native, change_sem>> /\ client' = [client EXCEPT ![q] = "held"]
      /\ \A v \in Unit \ {u} : dev'[v] = dev[v] /\ thread'[v] = thread[v]
  BY <1>2, <1>3 DEF Hold, ThreadAt, ThreadGoes
<1>6. /\ dev'[u].requests = dev[u].requests /\ dev'[u].running = dev[u].running
      /\ dev'[u].sync = dev[u].sync /\ dev'[u].open = dev[u].open
  BY <1>2 DEF Hold, Device
<1>7. thread'[u].req = q /\ thread'[u].pc = "unlock"
  BY <1>2, <1>3 DEF Hold, ThreadAt, ThreadGoes, ThreadState
<1> HIDE DEF q
<1>8. UnitOK(dev'[u], thread'[u], Wait(u))
  <2>1. UnitOK(dev[u], thread[u], Wait(u))
    BY DEF HfInv, UnitsInv
  <2>2. thread'[u].pc \in Working
    BY <1>7 DEF Working
  <2> QED
    BY <1>3, <1>4, <1>6, <1>7, <2>1, <2>2, GoesOn
<1>9. Holds(u)' /\ change_sem' = 0
  BY <1>4, <1>5, <1>7 DEF HfInv, LockInv, Holds, Working
<1>10. \A i \in 1..Len(dev'[u].requests) :
        dev'[u].requests[i] # None => Home[dev'[u].requests[i]] = u
  BY <1>6 DEF HfInv, HomeInv
<1>11. \A r \in Request : r # q => client'[r] = client[r]
  BY <1>2, <1>4, <1>5
<1>12. ASSUME NEW r \in Request, Home[r] = u
       PROVE  Times(r, dev'[u].requests) + Times(r, native') + InHand(thread'[u], r) + Sent(client, r)
              = Times(r, dev[u].requests) + Times(r, native) + InHand(thread[u], r) + Sent(client', r)
  <2>1. Times(r, dev'[u].requests) = Times(r, dev[u].requests) /\ Times(r, native') = Times(r, native)
    BY <1>5, <1>6
  <2>2. Times(r, dev[u].requests) \in Nat /\ Times(r, native) \in Nat
    BY <1>12, CountTypes DEF HfInv
  <2>3. InHand(thread'[u], r) = 0
    BY <1>7 DEF InHand, One
  <2>4. Sent(client, r) = InHand(thread[u], r) + Sent(client', r)
    <3>1. CASE r = q
      BY <1>2, <1>3, <1>4, <1>5, <3>1 DEF Sent, InHand, One, q
    <3>2. CASE r # q
      <4>1. InHand(thread[u], r) = 0 /\ Sent(client', r) = Sent(client, r) /\ Sent(client, r) \in Nat
        BY <1>11, <3>2 DEF Sent, InHand, One, q
      <4> QED
        BY <4>1
    <3> QED
      BY <3>1, <3>2
  <2>5. InHand(thread[u], r) \in Nat /\ Sent(client', r) \in Nat
    BY DEF InHand, Sent, One
  <2> QED
    BY <2>1, <2>2, <2>3, <2>4, <2>5
<1>13. \A r \in Request : Home[r] # u => client'[r] = client[r] /\ Times(r, native') = Times(r, native)
  BY <1>4, <1>5, <1>11
<1> QED
  BY <1>1, <1>3, <1>4, <1>5, <1>6, <1>7, <1>8, <1>9, <1>10, <1>12, <1>13, ThreadFrame, WorkFacts

(* ... or replied, through native2amiga_pending, ...                         *)
LEMMA ReplyStep ==
  ASSUME HfInv, NEW u \in Unit, Reply(u)
  PROVE  HfInv'
<1> DEFINE q == thread[u].req
<1>1. HfTypeOK'
  BY ThreadTypes DEF UnitThread
<1>2. /\ thread \in [Unit -> ThreadState] /\ thread[u] \in ThreadState
      /\ native \in Seq(Request \cup {Stale})
  BY DEF HfInv, HfTypeOK
<1>3. thread[u].pc = "reply" /\ thread[u].pc \in Working
  BY DEF Reply, ThreadAt, Working
<1>4. q \in Request /\ Home[q] = u /\ q # None /\ Holds(u) /\ thread[u].pc # "off"
  BY <1>3, WorkFacts, NumberFacts
<1>5. /\ UNCHANGED <<emu, client, change_sem, dev>> /\ native' = Append(native, q)
      /\ \A v \in Unit \ {u} : dev'[v] = dev[v] /\ thread'[v] = thread[v]
  BY <1>2 DEF Reply, ThreadGoes, clientVars
<1>6. thread'[u].req = q /\ thread'[u].pc = "unlock"
  BY <1>2 DEF Reply, ThreadGoes, ThreadState
<1> HIDE DEF q
<1>7. UnitOK(dev'[u], thread'[u], Wait(u))
  <2>1. UnitOK(dev[u], thread[u], Wait(u))
    BY DEF HfInv, UnitsInv
  <2>2. thread'[u].pc \in Working
    BY <1>6 DEF Working
  <2> QED
    BY <1>3, <1>4, <1>5, <1>6, <2>1, <2>2, GoesOn
<1>8. Holds(u)' /\ change_sem' = 0
  BY <1>4, <1>5, <1>6 DEF HfInv, LockInv, Holds, Working
<1>9. \A i \in 1..Len(dev'[u].requests) :
        dev'[u].requests[i] # None => Home[dev'[u].requests[i]] = u
  BY <1>5 DEF HfInv, HomeInv
<1>10. ASSUME NEW r \in Request
       PROVE  /\ Times(r, native') = Times(r, native) + InHand(thread[u], r)
              /\ InHand(thread'[u], r) = 0 /\ InHand(thread[u], r) \in Nat
              /\ (r # q => Times(r, native') = Times(r, native))
  <2>1. Times(r, native') = Times(r, native) + One(q = r)
    BY <1>2, <1>4, <1>5, TimesAppend
  <2>2. InHand(thread[u], r) = One(q = r) /\ InHand(thread'[u], r) = 0 /\ One(q = r) \in Nat
    BY <1>3, <1>6 DEF InHand, One, q
  <2>3. Times(r, native) \in Nat
    BY <1>2, PlacesFinite
  <2>4. r # q => One(q = r) = 0
    BY DEF One
  <2> QED
    BY <2>1, <2>2, <2>3, <2>4
<1>11. ASSUME NEW r \in Request, Home[r] = u
       PROVE  Times(r, dev'[u].requests) + Times(r, native') + InHand(thread'[u], r) + Sent(client, r)
              = Times(r, dev[u].requests) + Times(r, native) + InHand(thread[u], r) + Sent(client', r)
  <2>1. Times(r, dev[u].requests) \in Nat /\ Times(r, native) \in Nat /\ Sent(client, r) \in Nat
    BY <1>11, CountTypes DEF HfInv, Sent, One
  <2>2. Sent(client', r) = Sent(client, r) /\ Times(r, dev'[u].requests) = Times(r, dev[u].requests)
    BY <1>5 DEF Sent
  <2> QED
    BY <1>10, <2>1, <2>2
<1>12. \A r \in Request : Home[r] # u => client'[r] = client[r] /\ Times(r, native') = Times(r, native)
  BY <1>4, <1>5, <1>10
<1> QED
  BY <1>1, <1>4, <1>5, <1>6, <1>7, <1>8, <1>9, <1>11, <1>12, ThreadFrame

(* ... and lets the other threads go on.                                     *)
LEMMA UnlockStep ==
  ASSUME HfInv, NEW u \in Unit, ThreadUnlocks(u)
  PROVE  HfInv'
<1>1. HfTypeOK'
  BY ThreadTypes DEF UnitThread
<1>2. thread \in [Unit -> ThreadState] /\ thread[u] \in ThreadState
  BY DEF HfInv, HfTypeOK
<1>3. thread[u].pc = "unlock" /\ thread[u].pc \in Working
  BY DEF ThreadUnlocks, ThreadAt, Working
<1>4. thread[u].pc # "off" /\ Holds(u)
  BY <1>3, WorkFacts
<1>5. /\ UNCHANGED <<emu, client, native, dev>> /\ change_sem' = change_sem + 1
      /\ \A v \in Unit \ {u} : dev'[v] = dev[v] /\ thread'[v] = thread[v]
  BY <1>2 DEF ThreadUnlocks, clientVars
<1>6. thread'[u].req = None /\ thread'[u].pc = "read"
  BY <1>2 DEF ThreadUnlocks, Off
<1>7. UnitOK(dev'[u], thread'[u], Wait(u))
  <2>1. UnitOK(dev[u], thread[u], Wait(u))
    BY DEF HfInv, UnitsInv
  <2> QED
    BY <1>3, <1>5, <1>6, <2>1, GoesOn
<1>8. ~Holds(u)'
  BY <1>6 DEF Holds, Working
<1>9. \A i \in 1..Len(dev'[u].requests) :
        dev'[u].requests[i] # None => Home[dev'[u].requests[i]] = u
  BY <1>5 DEF HfInv, HomeInv
<1>10. ASSUME NEW r \in Request
       PROVE  Times(r, dev'[u].requests) + Times(r, native') + InHand(thread'[u], r) + Sent(client, r)
              = Times(r, dev[u].requests) + Times(r, native) + InHand(thread[u], r) + Sent(client', r)
  <2>1. InHand(thread'[u], r) = 0 /\ InHand(thread[u], r) = 0
    BY <1>3, <1>6, NumberFacts DEF InHand, One
  <2> QED
    BY <1>5, <2>1 DEF Sent
<1> QED
  BY <1>1, <1>4, <1>5, <1>6, <1>7, <1>8, <1>9, <1>10, ThreadFrame

(* The thread takes what is first in the pipe.                               *)
LEMMA ReadStep ==
  ASSUME HfInv, NEW u \in Unit, ThreadReads(u)
  PROVE  HfInv'
<1> DEFINE Q == dev[u].requests
<1>1. HfTypeOK'
  BY ThreadTypes DEF UnitThread
<1>2. /\ dev \in [Unit -> Device] /\ thread \in [Unit -> ThreadState] /\ dev[u] \in Device
      /\ thread[u] \in ThreadState /\ Q \in Seq(Request \cup {None}) /\ Q # <<>>
      /\ thread[u].pc = "read"
  BY UnitParts DEF HfInv, HfTypeOK, ThreadReads, ThreadAt
<1>3. /\ UNCHANGED <<emu, client, native, change_sem>>
      /\ \A v \in Unit \ {u} : dev'[v] = dev[v] /\ thread'[v] = thread[v]
  BY <1>2 DEF ThreadReads, clientVars
<1>4. /\ dev'[u].requests = Tail(Q) /\ dev'[u].running = dev[u].running
      /\ dev'[u].sync = dev[u].sync /\ dev'[u].open = dev[u].open
  BY <1>2 DEF ThreadReads, Device
<1>5. thread'[u].req = Head(Q) /\ thread'[u].pc = "lock"
  BY <1>2 DEF ThreadReads, ThreadState
<1>6. /\ Len(Q) \in Nat /\ Len(Q) >= 1 /\ Head(Q) = Q[1] /\ Len(Tail(Q)) = Len(Q) - 1
      /\ \A i \in 1..Len(Tail(Q)) : Tail(Q)[i] = Q[i + 1]
  BY <1>2
<1>7. thread[u].req = None /\ Going(dev[u], thread[u]) /\ UnitOK(dev[u], thread[u], Wait(u))
  BY <1>2 DEF HfInv, UnitsInv, UnitOK, ClosedUnit, OpenUnit, Starting, Stopping, Going, Off
<1> HIDE DEF Q
<1>8. UnitOK(dev'[u], thread'[u], Wait(u))
  <2>1. CASE Wait(u) = "no"
    <3>1. OpenUnit(dev[u], thread[u])
      BY <1>2, <1>7, <2>1 DEF UnitOK, ClosedUnit, Off, Q
    <3>2. Head(Q) # None /\ \A i \in 1..Len(Tail(Q)) : Tail(Q)[i] # None
      BY <1>6, <3>1 DEF OpenUnit, Q
    <3>3. OpenUnit(dev'[u], thread'[u])
      BY <1>4, <1>5, <1>7, <3>1, <3>2 DEF OpenUnit, Going
    <3> QED
      BY <2>1, <3>3 DEF UnitOK
  <2>2. CASE Wait(u) # "no"
    <3>1. /\ Wait(u) \in {"close", "resetWait"} /\ (Wait(u) = "close" <=> dev[u].open = 0)
          /\ LastIsZero(Q)
      BY <1>2, <1>7, <2>2 DEF UnitOK, Starting, Stopping, Off, Q
    <3>2. CASE Len(Q) = 1
      <4>1. Head(Q) = None
        BY <1>6, <3>1, <3>2 DEF LastIsZero
      <4>2. Len(Tail(Q)) = 0 /\ Tail(Q) \in Seq(Request \cup {None})
        BY <1>2, <1>6, <3>2
      <4>3. Tail(Q) = <<>>
        <5>1. ASSUME NEW q \in Seq(Request \cup {None}), Len(q) = 0 PROVE q = <<>>
          BY <5>1
        <5> QED
          BY <4>2, <5>1
      <4> QED
        BY <1>4, <1>5, <1>7, <3>1, <4>1, <4>3 DEF UnitOK, Stopping, Going
    <3>3. CASE Len(Q) # 1
      <4>3. \A i \in 1..Len(Q) : Q[i] = None <=> i = Len(Q)
        BY <3>1 DEF LastIsZero
      <4>4. Head(Q) # None
        <5>1. 1 \in 1..Len(Q) /\ 1 # Len(Q)
          BY <1>6, <3>3
        <5>2. Q[1] # None
          BY <4>3, <5>1
        <5> QED
          BY <1>6, <5>2
      <4>5. Tail(Q) # <<>>
        BY SMTT(30), <1>2, <1>6, <3>3
      <4>6. ASSUME NEW i \in 1..Len(Tail(Q)) PROVE Tail(Q)[i] = None <=> i = Len(Tail(Q))
        <5>1. Tail(Q)[i] = Q[i + 1] /\ i + 1 \in 1..Len(Q)
          BY <1>6
        <5>2. Q[i + 1] = None <=> i + 1 = Len(Q)
          BY <4>3, <5>1
        <5> QED
          BY <1>6, <5>1, <5>2
      <4>1. Head(Q) # None /\ Tail(Q) # <<>> /\ LastIsZero(Tail(Q))
        BY <4>4, <4>5, <4>6 DEF LastIsZero
      <4>2. Going(dev'[u], thread'[u])
        BY <1>4, <1>5, <1>7, <4>1 DEF Going
      <4> QED
        BY <1>4, <3>1, <4>1, <4>2 DEF UnitOK, Stopping
    <3> QED
      BY <3>2, <3>3
  <2> QED
    BY <2>1, <2>2
<1>9. \A i \in 1..Len(Q) : Q[i] # None => Home[Q[i]] = u
  BY DEF HfInv, HomeInv, Q
<1>10. /\ \A i \in 1..Len(Tail(Q)) : Tail(Q)[i] # None => Home[Tail(Q)[i]] = u
       /\ Head(Q) # None => Home[Head(Q)] = u
  BY <1>6, <1>9
<1>11. ~Holds(u)' /\ ~Holds(u)
  BY <1>2, <1>5 DEF Holds, Working
<1>12. ASSUME NEW r \in Request
       PROVE  Times(r, dev'[u].requests) + Times(r, native') + InHand(thread'[u], r) + Sent(client, r)
              = Times(r, dev[u].requests) + Times(r, native) + InHand(thread[u], r) + Sent(client', r)
  <2>1. Times(r, Q) = One(Head(Q) = r) + Times(r, Tail(Q))
    BY <1>2, TimesTail DEF Q
  <2>2. InHand(thread[u], r) = 0 /\ InHand(thread'[u], r) = One(Head(Q) = r) /\ One(Head(Q) = r) \in Nat
    BY <1>5, <1>7, NumberFacts DEF InHand, One
  <2>3. Times(r, Tail(Q)) \in Nat /\ Times(r, native) \in Nat /\ Sent(client, r) \in Nat
    <3>1. Tail(Q) \in Seq(Request \cup {None}) /\ native \in Seq(Request \cup {Stale})
      BY <1>2 DEF Q, HfInv, HfTypeOK
    <3> QED
      BY <3>1, PlacesFinite DEF Sent, One
  <2>4. Sent(client', r) = Sent(client, r) /\ Times(r, native') = Times(r, native)
    BY <1>3 DEF Sent
  <2> QED
    BY <1>4, <2>1, <2>2, <2>3, <2>4 DEF Q
<1>13. thread[u].pc # "off" /\ thread'[u].pc # "releaseType" /\ change_sem' = change_sem
  BY <1>2, <1>3, <1>5
<1>14. /\ \A i \in 1..Len(dev'[u].requests) :
            dev'[u].requests[i] # None => Home[dev'[u].requests[i]] = u
       /\ thread'[u].req # None => Home[thread'[u].req] = u
  BY <1>4, <1>5, <1>10
<1>15. dev'[u].open = dev[u].open
  BY <1>4
<1> QED
  BY <1>1, <1>3, <1>8, <1>11, <1>12, <1>13, <1>14, <1>15, ThreadFrame

(* It takes change_sem, and begins with the command, or with its end.        *)
LEMMA LockStep ==
  ASSUME HfInv, NEW u \in Unit, ThreadLocks(u)
  PROVE  HfInv'
<1> DEFINE q == thread[u].req
<1>1. HfTypeOK'
  BY ThreadTypes DEF UnitThread
<1>2. /\ thread \in [Unit -> ThreadState] /\ thread[u] \in ThreadState
      /\ command \in [Request -> {"io", "add", "rem"}] /\ q \in Request \cup {None}
      /\ thread[u].pc = "lock" /\ change_sem \in 0..1 /\ change_sem > 0
  BY UnitParts DEF HfInv, HfTypeOK, ThreadLocks, ThreadAt
<1>3. /\ UNCHANGED <<emu, client, native, dev>> /\ change_sem' = change_sem - 1
      /\ \A v \in Unit \ {u} : dev'[v] = dev[v] /\ thread'[v] = thread[v]
  BY <1>2 DEF ThreadLocks, ThreadGoes, clientVars
<1>4. /\ thread'[u].req = q
      /\ thread'[u].pc = IF q = None THEN "stop" ELSE command[q]
  BY <1>2 DEF ThreadLocks, ThreadGoes, ThreadState
<1>5. q # None => thread'[u].pc \in {"io", "add", "rem"}
  BY <1>2, <1>4
<1> HIDE DEF q
<1>6. UnitOK(dev'[u], thread'[u], Wait(u))
  <2>1. UnitOK(dev[u], thread[u], Wait(u))
    BY DEF HfInv, UnitsInv
  <2>2. CASE q = None
    <3>1. /\ Wait(u) \in {"close", "resetWait"} /\ (Wait(u) = "close" <=> dev[u].open = 0)
          /\ dev[u].requests = <<>> /\ dev[u].sync = 0 /\ dev[u].running
      BY <1>2, <2>1, <2>2 DEF UnitOK, ClosedUnit, OpenUnit, Starting, Stopping, Going, Off, q
    <3> QED
      BY <1>3, <1>4, <2>2, <3>1 DEF UnitOK, Stopping
  <2>3. CASE q # None
    <3>1. Going(dev[u], thread[u]) /\ Going(dev'[u], thread'[u])
      BY <1>2, <1>3, <1>4, <1>5, <2>1, <2>3
         DEF UnitOK, ClosedUnit, OpenUnit, Starting, Stopping, Going, Off, q, Working
    <3> QED
      BY <1>2, <1>3, <2>1, <2>3, <3>1 DEF UnitOK, ClosedUnit, OpenUnit, Starting, Stopping, Off, q
  <2> QED
    BY <2>2, <2>3
<1>7. \A i \in 1..Len(dev'[u].requests) :
        dev'[u].requests[i] # None => Home[dev'[u].requests[i]] = u
  BY <1>3 DEF HfInv, HomeInv
<1>8. Holds(u)' /\ change_sem' = 0
  BY <1>2, <1>3, <1>4, <1>5 DEF Holds, Working
<1>9. \A r : InHand(thread'[u], r) = InHand(thread[u], r)
  BY <1>2, <1>4, <1>5 DEF InHand, q
<1>10. thread[u].pc # "off" /\ thread'[u].pc # "releaseType" /\ (q # None => Home[q] = u)
  BY <1>2, <1>4, <1>5 DEF HfInv, HomeInv, q
<1>11. \A r \in Request : Home[r] = u =>
         Times(r, dev'[u].requests) + Times(r, native') + InHand(thread'[u], r) + Sent(client, r)
         = Times(r, dev[u].requests) + Times(r, native) + InHand(thread[u], r) + Sent(client', r)
  BY <1>3, <1>9 DEF Sent
<1> QED
  BY <1>1, <1>2, <1>3, <1>4, <1>6, <1>7, <1>8, <1>10, <1>11, ThreadFrame

(* The thread's start and its end: no request is with it.                    *)
LEMMA LifeStep ==
  ASSUME HfInv, NEW u \in Unit, ThreadStarts(u) \/ ThreadStops(u) \/ ThreadEnds(u)
  PROVE  HfInv'
<1>1. HfTypeOK'
  BY ThreadTypes DEF UnitThread
<1>2. /\ dev \in [Unit -> Device] /\ thread \in [Unit -> ThreadState] /\ dev[u] \in Device
      /\ thread[u] \in ThreadState /\ thread[u].pc \in {"start", "stop", "stopped"}
  BY DEF HfInv, HfTypeOK, ThreadStarts, ThreadStops, ThreadEnds, ThreadAt
<1>3. /\ UNCHANGED <<emu, client, native>>
      /\ \A v \in Unit \ {u} : dev'[v] = dev[v] /\ thread'[v] = thread[v]
  BY <1>2 DEF ThreadStarts, ThreadStops, ThreadEnds, ThreadGoes, clientVars
<1>4. /\ dev'[u].requests = dev[u].requests /\ dev'[u].open = dev[u].open
      /\ dev'[u].running = (IF ThreadStarts(u) THEN TRUE ELSE IF ThreadStops(u) THEN FALSE
                             ELSE dev[u].running)
      /\ dev'[u].sync = IF ThreadStops(u) THEN dev[u].sync ELSE dev[u].sync + 1
  <2>1. CASE ThreadStarts(u)
    BY <1>2, <2>1 DEF ThreadStarts, ThreadStops, ThreadAt, Device
  <2>2. CASE ThreadStops(u)
    BY <1>2, <2>2 DEF ThreadStarts, ThreadStops, ThreadAt, Device
  <2>3. CASE ThreadEnds(u)
    BY <1>2, <2>3 DEF ThreadStarts, ThreadStops, ThreadEnds, ThreadAt, Device
  <2> QED
    BY <2>1, <2>2, <2>3
<1>5. UnitOK(dev[u], thread[u], Wait(u)) /\ thread[u].req = None
  BY <1>2 DEF HfInv, UnitsInv, UnitOK, ClosedUnit, OpenUnit, Starting, Stopping, Going, Off, Working
<1>6. thread'[u].req = None /\ thread'[u].pc \in {"read", "stopped", "off"}
  BY <1>2, <1>5 DEF ThreadStarts, ThreadStops, ThreadEnds, ThreadGoes, ThreadState, Off
<1>7. UnitOK(dev'[u], thread'[u], Wait(u))
  <2>1. CASE ThreadStarts(u)
    <3>1. thread[u].pc = "start" /\ thread'[u].pc = "read"
      BY <1>2, <2>1 DEF ThreadStarts, ThreadAt, ThreadGoes, ThreadState
    <3>2. Wait(u) = "open" /\ Starting(dev[u], thread[u])
      BY <1>5, <3>1 DEF UnitOK, ClosedUnit, OpenUnit, Stopping, Going, Off, Working
    <3>3. dev[u].sync = 0
      BY <3>1, <3>2 DEF Starting
    <3>4. dev'[u].running /\ dev'[u].sync = 1
      BY <1>4, <2>1, <3>1, <3>3 DEF ThreadStops, ThreadAt
    <3>5. Starting(dev'[u], thread'[u])
      BY <1>4, <1>6, <3>1, <3>2, <3>4 DEF Starting
    <3> QED
      BY <3>2, <3>5 DEF UnitOK
  <2>2. CASE ThreadStops(u)
    <3>1. thread[u].pc = "stop" /\ thread'[u].pc = "stopped"
      BY <1>2, <2>2 DEF ThreadStops, ThreadAt, ThreadGoes, ThreadState
    <3>2. /\ Wait(u) \in {"close", "resetWait"} /\ (Wait(u) = "close" <=> dev[u].open = 0)
          /\ dev[u].requests = <<>> /\ dev[u].sync = 0
      BY <1>5, <3>1 DEF UnitOK, ClosedUnit, OpenUnit, Starting, Stopping, Going, Off, Working
    <3>3. dev'[u].running = FALSE
      BY <1>4, <2>2, <3>1 DEF ThreadStarts, ThreadAt
    <3> QED
      BY <1>4, <1>6, <2>2, <3>1, <3>2, <3>3 DEF UnitOK, Stopping
  <2>3. CASE ThreadEnds(u)
    <3>1. thread[u].pc = "stopped" /\ thread'[u] = Off
      BY <1>2, <2>3 DEF ThreadEnds, ThreadAt
    <3>2. /\ Wait(u) \in {"close", "resetWait"} /\ (Wait(u) = "close" <=> dev[u].open = 0)
          /\ dev[u].requests = <<>> /\ dev[u].sync = 0 /\ ~dev[u].running
      BY <1>5, <3>1 DEF UnitOK, ClosedUnit, OpenUnit, Starting, Stopping, Going, Off, Working
    <3>3. dev'[u].running = dev[u].running /\ dev'[u].sync = 1
      BY <1>4, <2>3, <3>1, <3>2 DEF ThreadStarts, ThreadStops, ThreadAt
    <3> QED
      BY <1>4, <3>1, <3>2, <3>3 DEF UnitOK, Stopping
  <2> QED
    BY <2>1, <2>2, <2>3
<1>8. \A i \in 1..Len(dev'[u].requests) :
        dev'[u].requests[i] # None => Home[dev'[u].requests[i]] = u
  BY <1>4 DEF HfInv, HomeInv
<1>9. /\ Holds(u)' => change_sem' = 0 /\ (Holds(u) \/ change_sem > 0)
      /\ ~Holds(u)' => change_sem' = change_sem \/ Holds(u)
  <2>1. CASE ThreadStarts(u)
    BY <1>2, <2>1 DEF ThreadStarts, ThreadGoes, Holds, Working, ThreadState
  <2>2. CASE ThreadStops(u)
    <3>1. Holds(u) /\ change_sem' = change_sem
      BY <2>2 DEF ThreadStops, ThreadAt, Holds
    <3> QED
      BY <3>1 DEF HfInv, LockInv
  <2>3. CASE ThreadEnds(u)
    <3>1. Holds(u) /\ ~Holds(u)'
      BY <1>2, <2>3 DEF ThreadEnds, ThreadAt, Holds, Working, Off
    <3> QED
      BY <3>1
  <2> QED
    BY <2>1, <2>2, <2>3
<1>10. \A r \in Request : InHand(thread'[u], r) = 0 /\ InHand(thread[u], r) = 0
  BY <1>5, <1>6, NumberFacts DEF InHand, One
<1>11. \A r \in Request : Home[r] = u =>
         Times(r, dev'[u].requests) + Times(r, native') + InHand(thread'[u], r) + Sent(client, r)
         = Times(r, dev[u].requests) + Times(r, native) + InHand(thread[u], r) + Sent(client', r)
  BY <1>3, <1>4, <1>10 DEF Sent
<1>12. thread[u].pc # "off" /\ thread'[u].pc # "releaseType"
  BY <1>2, <1>6
<1> QED
  BY <1>1, <1>3, <1>4, <1>6, <1>7, <1>8, <1>9, <1>11, <1>12, ThreadFrame

(* So every step of a unit's thread keeps the invariant.                     *)
LEMMA ThreadKeeps == ASSUME HfInv, NEW u \in Unit, UnitThread(u) PROVE HfInv'
<1>1. Hold(u) => ThreadAt(u, "holdRequest") \/ ThreadAt(u, "holdType")
  BY DEF Hold, ThreadAt
<1> QED
  BY <1>1, WorkSteps, HeldStep, ReplyStep, UnlockStep, ReadStep, LockStep, LifeStep DEF UnitThread

-----------------------------------------------------------------------------
(* Requests are counted right as long as what changes, changes in step.      *)
LEMMA CountKept ==
  ASSUME HfInv, HfTypeOK',
         \A r \in Request :
           Times(r, dev'[Home[r]].requests) + Times(r, native') + InEmu(emu', r)
             + InHand(thread'[Home[r]], r) + Sent(client, r)
           = Times(r, dev[Home[r]].requests) + Times(r, native) + InEmu(emu, r)
             + InHand(thread[Home[r]], r) + Sent(client', r)
  PROVE  RepliedOnce'
<1> SUFFICES ASSUME NEW r \in Request
             PROVE  Times(r, dev'[Home[r]].requests) + Times(r, native') + InEmu(emu', r)
                      + InHand(thread'[Home[r]], r) = Sent(client', r)
  BY DEF RepliedOnce, InEmu, InHand, Sent
<1> DEFINE a == Times(r, dev[Home[r]].requests)
           b == Times(r, native)
           c == InEmu(emu, r)
           d == InHand(thread[Home[r]], r)
           e == Sent(client, r)
           x == Times(r, dev'[Home[r]].requests)
           y == Times(r, native')
           z == InEmu(emu', r)
           v == InHand(thread'[Home[r]], r)
           w == Sent(client', r)
<1>1. a + b + c + d = e
  BY DEF HfInv, RepliedOnce, InEmu, InHand, Sent
<1>2. a \in Nat /\ b \in Nat /\ Home[r] \in Unit
  BY CountTypes DEF HfInv
<1>3. x \in Nat /\ y \in Nat
  <2>1. dev' \in [Unit -> Device] /\ native' \in Seq(Request \cup {Stale})
    BY DEF HfTypeOK
  <2>2. dev'[Home[r]].requests \in Seq(Request \cup {None})
    BY <1>2, <2>1 DEF Device
  <2> QED
    BY <2>1, <2>2, PlacesFinite
<1>4. c \in Nat /\ d \in Nat /\ e \in Nat /\ z \in Nat /\ v \in Nat /\ w \in Nat
  BY DEF InEmu, InHand, Sent, One
<1>5. x + y + z + v + e = a + b + c + d + w
  OBVIOUS
<1> HIDE DEF a, b, c, d, e, x, y, z, v, w
<1>6. x + y + z + v = w
  BY <1>1, <1>2, <1>3, <1>4, <1>5
<1> QED
  BY <1>6 DEF x, y, z, v, w

(* A step of the emulator thread keeps the invariant, if it leaves the other *)
(* units alone, keeps the one in hand in one of its states and has what it   *)
(* holds itself right.                                                       *)
LEMMA EmuFrame ==
  ASSUME HfInv, HfTypeOK', NEW u \in Unit, UNCHANGED change_sem, EmuInv', RepliedOnce',
         \A v \in Unit \ {u} : dev'[v] = dev[v] /\ thread'[v] = thread[v],
         emu.unit = u \/ emu.pc \notin {"open", "close", "resetWait"},
         emu'.unit = u \/ emu'.pc \notin {"open", "close", "resetWait"},
         thread'[u] = thread[u] \/ (thread'[u].pc = "start" /\ thread'[u].req = None),
         UnitOK(dev'[u], thread'[u], Wait(u)'),
         \A i \in 1..Len(dev'[u].requests) :
           dev'[u].requests[i] # None => Home[dev'[u].requests[i]] = u
  PROVE  HfInv'
<1>0. \A v \in Unit \ {u} : Wait(v)' = Wait(v)
  BY DEF Wait
<1>1. UnitsInv'
  BY <1>0 DEF HfInv, UnitsInv
<1>2. HomeInv'
  BY DEF HfInv, HomeInv
<1>3. LockInv'
  <2>1. \A v \in Unit : Holds(v)' => Holds(v)
    BY DEF Holds, Working
  <2> QED
    BY <2>1 DEF HfInv, LockInv
<1> QED
  BY <1>1, <1>2, <1>3 DEF HfInv

(* Open: a thread is started, awaited, or there already.                     *)
LEMMA OpenSteps ==
  ASSUME HfInv, NEW u \in Unit, OpenFirst(u) \/ OpenAgain(u) \/ (OpenEnds /\ u = emu.unit)
  PROVE  HfInv'
<1>1. HfTypeOK'
  BY EmuTypes DEF Amiga, Emulator
<1>2. /\ dev \in [Unit -> Device] /\ thread \in [Unit -> ThreadState] /\ dev[u] \in Device
      /\ dev[u].open \in Nat /\ emu \in EmuState /\ emu.unit \in Unit /\ dev[u].sync \in 0..1
  BY UnitParts, EmuParts DEF HfInv, HfTypeOK
<1>3. UnitOK(dev[u], thread[u], Wait(u))
  BY DEF HfInv, UnitsInv
<1>4. /\ UNCHANGED <<client, native, change_sem>>
      /\ \A v \in Unit \ {u} : dev'[v] = dev[v] /\ thread'[v] = thread[v]
  BY <1>2 DEF OpenFirst, OpenAgain, OpenEnds, clientVars
<1>9. /\ emu.pc \in {"run", "open"} /\ emu'.pc \in {"run", "open"}
      /\ emu.pc = "open" => emu.unit = u
      /\ emu'.pc = "open" => emu'.unit = u
  <2>1. CASE OpenFirst(u)
    BY <2>1 DEF OpenFirst, EmuAt, AtRest
  <2>2. CASE OpenAgain(u)
    BY <2>2 DEF OpenAgain, EmuAt
  <2>3. CASE OpenEnds /\ u = emu.unit
    BY <2>3 DEF OpenEnds, EmuAt, AtRest
  <2> QED
    BY <2>1, <2>2, <2>3
<1>5. EmuInv'
  <2>1. CASE OpenFirst(u)
    BY <2>1 DEF OpenFirst, EmuInv, AtRest, Resetting
  <2>2. CASE OpenAgain(u)
    BY <2>2 DEF OpenAgain, EmuAt, HfInv, EmuInv, Resetting
  <2>3. CASE OpenEnds
    BY <2>3 DEF OpenEnds, EmuInv, AtRest, Resetting
  <2> QED
    BY <2>1, <2>2, <2>3
<1>6. /\ dev'[u].requests = dev[u].requests /\ UnitOK(dev'[u], thread'[u], Wait(u)')
      /\ thread'[u] = thread[u] \/ (thread'[u].pc = "start" /\ thread'[u].req = None)
      /\ \A r \in Request : InHand(thread'[u], r) = InHand(thread[u], r)
  <2>1. CASE OpenFirst(u)
    <3>1. Wait(u) = "no" /\ Wait(u)' = "open"
      BY <2>1 DEF OpenFirst, Wait, EmuAt, AtRest
    <3>2. ClosedUnit(dev[u], thread[u])
      BY <1>3, <2>1, <3>1 DEF OpenFirst, UnitOK, OpenUnit, Going
    <3>3. dev'[u] = Cleared /\ thread'[u] = [Off EXCEPT !.pc = "start"]
      BY <1>2, <2>1 DEF OpenFirst
    <3>4. /\ Cleared.open = 0 /\ Cleared.requests = <<>> /\ Cleared.sync = 0 /\ ~Cleared.running
          /\ thread'[u].pc = "start" /\ thread'[u].req = None
      BY <3>3 DEF Cleared, Off
    <3>5. \A r \in Request : InHand(thread'[u], r) = 0 /\ InHand(thread[u], r) = 0
      BY <3>2, <3>4, NumberFacts DEF InHand, One, ClosedUnit, Off
    <3> QED
      BY <3>1, <3>2, <3>3, <3>4, <3>5 DEF UnitOK, Starting, ClosedUnit
  <2>2. CASE OpenAgain(u)
    <3>1. Wait(u) = "no" /\ Wait(u)' = "no"
      BY <2>2 DEF OpenAgain, Wait, EmuAt
    <3>2. OpenUnit(dev[u], thread[u])
      BY <1>3, <2>2, <3>1 DEF OpenAgain, UnitOK, ClosedUnit
    <3>3. /\ dev'[u].requests = dev[u].requests /\ dev'[u].open = dev[u].open + 1
          /\ dev'[u].running = dev[u].running /\ dev'[u].sync = dev[u].sync /\ thread' = thread
      BY <1>2, <2>2 DEF OpenAgain, Device
    <3>4. dev'[u].open > 0
      BY <1>2, <3>3
    <3>5. OpenUnit(dev'[u], thread'[u])
      BY <3>2, <3>3, <3>4 DEF OpenUnit, Going
    <3> QED
      BY <3>1, <3>3, <3>5 DEF UnitOK
  <2>3. CASE OpenEnds /\ u = emu.unit
    <3>1. Wait(u) = "open" /\ Wait(u)' = "no"
      BY <2>3 DEF OpenEnds, Wait, EmuAt, AtRest
    <3>2. Starting(dev[u], thread[u]) /\ dev[u].sync > 0
      BY <1>3, <2>3, <3>1 DEF OpenEnds, UnitOK
    <3>3. /\ dev'[u].requests = dev[u].requests /\ dev'[u].open = dev[u].open + 1
          /\ dev'[u].running = dev[u].running /\ dev'[u].sync = dev[u].sync - 1 /\ thread' = thread
      BY <1>2, <2>3 DEF OpenEnds, Device
    <3>4. dev'[u].sync = 0 /\ dev'[u].open > 0
      BY <1>2, <3>2, <3>3 DEF Starting
    <3>5. thread[u].pc = "read" /\ dev[u].running /\ dev[u].requests = <<>> /\ thread[u].req = None
      BY <3>2 DEF Starting
    <3>6. Going(dev'[u], thread'[u])
      BY <3>3, <3>4, <3>5 DEF Going
    <3>7. \A i \in 1..Len(dev'[u].requests) : dev'[u].requests[i] # None
      BY <3>3, <3>5
    <3>8. OpenUnit(dev'[u], thread'[u])
      BY <3>4, <3>6, <3>7 DEF OpenUnit
    <3> QED
      BY <3>1, <3>3, <3>8 DEF UnitOK
  <2> QED
    BY <2>1, <2>2, <2>3
<1>7. \A i \in 1..Len(dev'[u].requests) :
        dev'[u].requests[i] # None => Home[dev'[u].requests[i]] = u
  BY <1>6 DEF HfInv, HomeInv
<1>8. RepliedOnce'
  <2>1. \A r \in Request : InEmu(emu', r) = InEmu(emu, r)
    BY <1>9 DEF InEmu, One
  <2>2. ASSUME NEW r \in Request
        PROVE  /\ Times(r, dev'[Home[r]].requests) = Times(r, dev[Home[r]].requests)
               /\ InHand(thread'[Home[r]], r) = InHand(thread[Home[r]], r)
    BY <1>4, <1>6, NumberFacts
  <2> QED
    BY <1>1, <1>4, <2>1, <2>2, CountKept DEF Sent
<1> QED
  BY <1>1, <1>4, <1>5, <1>6, <1>7, <1>8, <1>9, EmuFrame

(* The zero request at the end of a pipe: the thread is to stop after those  *)
(* before it, and no request is in the pipe more often.                      *)
LEMMA ZeroIsLast ==
  ASSUME HfInv, NEW u \in Unit, OpenUnit(dev[u], thread[u]), NEW d,
         d.requests = Append(dev[u].requests, None), d.running = dev[u].running,
         d.sync = dev[u].sync
  PROVE  /\ Stopping(d, thread[u])
         /\ \A i \in 1..Len(d.requests) : d.requests[i] # None => Home[d.requests[i]] = u
         /\ \A r \in Request : Times(r, d.requests) = Times(r, dev[u].requests)
<1> DEFINE Q == dev[u].requests
           P == Append(Q, None)
<1>1. Q \in Seq(Request \cup {None})
  BY UnitParts DEF HfInv
<1>2. \A i \in 1..Len(Q) : Q[i] # None /\ Home[Q[i]] = u
  BY DEF OpenUnit, HfInv, HomeInv
<1> HIDE DEF Q
<1>3. /\ P # <<>> /\ Len(P) = Len(Q) + 1 /\ Len(Q) \in Nat /\ P[Len(P)] = None
      /\ \A i \in 1..Len(Q) : P[i] = Q[i]
  BY <1>1
<1>4. \A i \in 1..Len(P) : i # Len(P) => i \in 1..Len(Q)
  BY <1>3
<1>5. \A i \in 1..Len(P) : i # Len(P) => P[i] # None /\ Home[P[i]] = u
  BY <1>2, <1>3, <1>4
<1>6. Going(d, thread[u])
  BY DEF OpenUnit, Going
<1>7. d.requests = P
  BY DEF Q
<1>8. ASSUME NEW r \in Request PROVE Times(r, P) = Times(r, Q)
  <2>1. Times(r, P) = Times(r, Q) + One(None = r) /\ Times(r, Q) \in Nat
    <3>1. None \in Request \cup {None}
      OBVIOUS
    <3>2. Times(r, Append(Q, None)) = Times(r, Q) + One(None = r)
      BY <1>1, <3>1, TimesAppend
    <3>3. Times(r, Q) \in Nat
      BY <1>1, PlacesFinite
    <3> QED
      BY <3>2, <3>3
  <2>2. One(None = r) = 0
    BY NumberFacts DEF One
  <2> QED
    BY <2>1, <2>2
<1> HIDE DEF P
<1>9. Stopping(d, thread[u])
  BY <1>3, <1>5, <1>6, <1>7 DEF Stopping, LastIsZero
<1>10. \A i \in 1..Len(P) : P[i] # None => Home[P[i]] = u
  BY <1>3, <1>5
<1> QED
  BY <1>7, <1>8, <1>9, <1>10 DEF Q

(* Close: others have the unit open, or its thread is told to stop, ...      *)
LEMMA CloseStep ==
  ASSUME HfInv, NEW u \in Unit, Close(u)
  PROVE  HfInv'
<1>1. HfTypeOK'
  BY EmuTypes DEF Amiga
<1>2. /\ dev \in [Unit -> Device] /\ dev[u] \in Device /\ dev[u].open \in Nat
  BY UnitParts DEF HfInv, HfTypeOK
<1>3. /\ UNCHANGED <<client, native, change_sem, thread>> /\ emu.pc = "run" /\ dev[u].open > 0
      /\ \A v \in Unit \ {u} : dev'[v] = dev[v]
  BY <1>2 DEF Close, clientVars, EmuAt
<1>4. /\ dev'[u].open = dev[u].open - 1 /\ dev'[u].running = dev[u].running
      /\ dev'[u].sync = dev[u].sync
      /\ dev'[u].requests = IF dev[u].open = 1 THEN Append(dev[u].requests, None)
                                               ELSE dev[u].requests
  BY <1>2 DEF Close, Device
<1>5. OpenUnit(dev[u], thread[u]) /\ Wait(u) = "no"
  BY <1>3 DEF HfInv, UnitsInv, UnitOK, ClosedUnit, Wait
<1>6. /\ emu'.pc = (IF dev[u].open = 1 THEN "close" ELSE "run")
      /\ emu'.pc = "close" => emu'.unit = u
      /\ emu'.next = "run"
  BY <1>3 DEF Close, AtRest, EmuAt, HfInv, EmuInv
<1>7. EmuInv'
  BY <1>6 DEF EmuInv, Resetting
<1>8. /\ UnitOK(dev'[u], thread'[u], Wait(u)')
      /\ \A i \in 1..Len(dev'[u].requests) :
           dev'[u].requests[i] # None => Home[dev'[u].requests[i]] = u
      /\ \A r \in Request : Times(r, dev'[u].requests) = Times(r, dev[u].requests)
  <2>1. CASE dev[u].open = 1
    <3>1. Wait(u)' = "close" /\ dev'[u].open = 0
      BY <1>4, <1>6, <2>1 DEF Wait
    <3>2. dev'[u].requests = Append(dev[u].requests, None)
      BY <1>4, <2>1
    <3>3. /\ Stopping(dev'[u], thread[u])
          /\ \A i \in 1..Len(dev'[u].requests) :
               dev'[u].requests[i] # None => Home[dev'[u].requests[i]] = u
          /\ \A r \in Request : Times(r, dev'[u].requests) = Times(r, dev[u].requests)
      BY <1>4, <1>5, <3>2, ZeroIsLast
    <3> QED
      BY <1>3, <3>1, <3>3 DEF UnitOK
  <2>2. CASE dev[u].open # 1
    <3>1. Wait(u)' = "no" /\ dev'[u].open > 0
      BY <1>2, <1>3, <1>4, <1>6, <2>2 DEF Wait
    <3>2. OpenUnit(dev'[u], thread'[u])
      BY <1>3, <1>4, <1>5, <2>2, <3>1 DEF OpenUnit, Going
    <3> QED
      BY <1>4, <2>2, <3>1, <3>2 DEF UnitOK, HfInv, HomeInv
  <2> QED
    BY <2>1, <2>2
<1>9. RepliedOnce'
  <2>1. \A r \in Request : InEmu(emu', r) = InEmu(emu, r)
    BY <1>3, <1>6 DEF InEmu, One
  <2>2. \A r \in Request : Times(r, dev'[Home[r]].requests) = Times(r, dev[Home[r]].requests)
    BY <1>3, <1>8, NumberFacts
  <2> QED
    BY <1>1, <1>3, <2>1, <2>2, CountKept DEF Sent
<1> QED
  BY <1>1, <1>3, <1>6, <1>7, <1>8, <1>9, EmuFrame

(* ... which is awaited.                                                     *)
LEMMA CloseEndsStep ==
  ASSUME HfInv, NEW u \in Unit, CloseEnds, u = emu.unit
  PROVE  HfInv'
<1>1. HfTypeOK'
  BY EmuTypes DEF Emulator
<1>2. /\ dev \in [Unit -> Device] /\ dev[u] \in Device /\ dev[u].sync \in 0..1
      /\ dev[u].open \in Nat
  BY UnitParts DEF HfInv, HfTypeOK
<1>3. /\ UNCHANGED <<client, native, change_sem, thread>> /\ emu.pc = "close"
      /\ dev[u].sync > 0 /\ emu'.pc = "run" /\ emu'.next = "run"
      /\ \A v \in Unit \ {u} : dev'[v] = dev[v]
  BY <1>2 DEF CloseEnds, clientVars, EmuAt, AtRest
<1>4. /\ dev'[u].open = dev[u].open /\ dev'[u].running = dev[u].running
      /\ dev'[u].sync = dev[u].sync - 1 /\ dev'[u].requests = dev[u].requests
  BY <1>2 DEF CloseEnds, Device
<1>5. Wait(u) = "close" /\ Wait(u)' = "no"
  BY <1>3 DEF Wait
<1>6. Stopping(dev[u], thread[u]) /\ dev[u].open = 0
  BY <1>2, <1>5 DEF HfInv, UnitsInv, UnitOK
<1>7. thread[u] = Off /\ dev[u].requests = <<>> /\ ~dev[u].running /\ dev[u].sync = 1
  BY <1>2, <1>3, <1>6 DEF Stopping, Going
<1>8. UnitOK(dev'[u], thread'[u], Wait(u)')
  BY <1>3, <1>4, <1>5, <1>6, <1>7 DEF UnitOK, ClosedUnit
<1>9. EmuInv'
  BY <1>3 DEF EmuInv, Resetting
<1>10. RepliedOnce'
  <2>1. \A r \in Request : InEmu(emu', r) = InEmu(emu, r)
    BY <1>3 DEF InEmu, One
  <2>2. \A r \in Request : Times(r, dev'[Home[r]].requests) = Times(r, dev[Home[r]].requests)
    BY <1>3, <1>4, NumberFacts
  <2> QED
    BY <1>1, <1>3, <2>1, <2>2, CountKept DEF Sent
<1>11. \A i \in 1..Len(dev'[u].requests) :
         dev'[u].requests[i] # None => Home[dev'[u].requests[i]] = u
  BY <1>2, <1>4 DEF HfInv, HomeInv
<1> QED
  BY <1>1, <1>2, <1>3, <1>8, <1>9, <1>10, <1>11, EmuFrame

(* A step of the emulator thread that leaves the threads, the pipes and who  *)
(* has which unit open as they are keeps the invariant, if it counts right.  *)
LEMMA QuietFrame ==
  ASSUME HfInv, HfTypeOK', UNCHANGED <<change_sem, thread>>, EmuInv',
         emu.pc \notin {"open", "close", "resetWait"},
         emu'.pc \notin {"open", "close", "resetWait"},
         \A v \in Unit : /\ dev'[v].requests = dev[v].requests /\ dev'[v].sync = dev[v].sync
                         /\ dev'[v].running = dev[v].running /\ dev'[v].open = dev[v].open,
         \A r \in Request : Times(r, native') + InEmu(emu', r) + Sent(client, r)
                            = Times(r, native) + InEmu(emu, r) + Sent(client', r)
  PROVE  HfInv'
<1>1. \A v \in Unit : Wait(v) = "no" /\ Wait(v)' = "no"
  BY DEF Wait
<1>2. UnitsInv'
  <2> SUFFICES ASSUME NEW v \in Unit PROVE UnitOK(dev'[v], thread'[v], "no")
    BY <1>1 DEF UnitsInv
  <2>1. UnitOK(dev[v], thread[v], "no")
    BY <1>1 DEF HfInv, UnitsInv
  <2>2. ClosedUnit(dev[v], thread[v]) => ClosedUnit(dev'[v], thread'[v])
    BY DEF ClosedUnit
  <2>3. OpenUnit(dev[v], thread[v]) => OpenUnit(dev'[v], thread'[v])
    BY DEF OpenUnit, Going
  <2> QED
    BY <2>1, <2>2, <2>3 DEF UnitOK
<1>3. HomeInv'
  BY DEF HfInv, HomeInv
<1>4. LockInv'
  BY DEF HfInv, LockInv, Holds
<1>5. RepliedOnce'
  <2> SUFFICES ASSUME NEW r \in Request
               PROVE  Times(r, dev'[Home[r]].requests) + Times(r, native') + InEmu(emu', r)
                        + InHand(thread'[Home[r]], r) + Sent(client, r)
                      = Times(r, dev[Home[r]].requests) + Times(r, native) + InEmu(emu, r)
                        + InHand(thread[Home[r]], r) + Sent(client', r)
    BY CountKept
  <2> DEFINE a == Times(r, dev[Home[r]].requests)
             b == Times(r, native)
             c == InEmu(emu, r)
             d == InHand(thread[Home[r]], r)
             e == Sent(client, r)
             y == Times(r, native')
             z == InEmu(emu', r)
             w == Sent(client', r)
  <2>1. a \in Nat /\ b \in Nat /\ Home[r] \in Unit
    BY CountTypes DEF HfInv
  <2>2. y \in Nat
    <3>1. native' \in Seq(Request \cup {Stale})
      BY DEF HfTypeOK
    <3> QED
      BY <3>1, PlacesFinite
  <2>3. c \in Nat /\ d \in Nat /\ e \in Nat /\ z \in Nat /\ w \in Nat
    BY DEF InEmu, InHand, Sent, One
  <2>4. Times(r, dev'[Home[r]].requests) = a /\ InHand(thread'[Home[r]], r) = d
    BY <2>1
  <2>5. y + z + e = b + c + w
    OBVIOUS
  <2> HIDE DEF a, b, c, d, e, y, z, w
  <2>6. a + y + z + d + e = a + b + c + d + w
    BY <2>1, <2>2, <2>3, <2>5
  <2> QED
    BY <2>4, <2>6 DEF a, b, c, d, e, y, z, w
<1> QED
  BY <1>2, <1>3, <1>4, <1>5 DEF HfInv

(* BeginIO takes a request that its program has.                             *)
LEMMA BeginStep ==
  ASSUME HfInv, Hasty = FALSE, NEW q \in Request, NEW c \in {"io", "add", "rem"}, BeginIO(q, c)
  PROVE  HfInv'
<1> DEFINE u == Home[q]
           S == IF SlotsOf(u, q) # {} THEN SlotsOf(u, q) ELSE SlotsOf(u, None)
           slot == IF S = {} THEN 0 ELSE First(S)
           pc == IF S = {} THEN "send" ELSE IF SlotsOf(u, q) = {} THEN "addRequest" ELSE "addType"
<1>1. HfTypeOK'
  BY EmuTypes DEF Amiga
<1>2. pc \in {"send", "addRequest", "addType"}
  OBVIOUS
<1>3. /\ UNCHANGED <<native, change_sem, thread, dev>> /\ emu.pc = "run" /\ dev[u].open > 0
      /\ emu' = [AtRest EXCEPT !.pc = pc, !.unit = u, !.req = q, !.slot = slot]
      /\ client' = [client EXCEPT ![q] = "sent"] /\ client[q] \in {"idle", "held"}
  BY DEF BeginIO, EmuAt
<1> HIDE DEF slot, pc
<1>4. emu'.pc = pc /\ emu'.unit = u /\ emu'.req = q /\ emu'.next = "run" /\ q # None
  BY <1>3, NumberFacts DEF AtRest
<1>5. EmuInv'
  BY <1>2, <1>3, <1>4 DEF EmuInv, Resetting
<1>6. ASSUME NEW r \in Request
      PROVE  Times(r, native') + InEmu(emu', r) + Sent(client, r)
             = Times(r, native) + InEmu(emu, r) + Sent(client', r)
  <2>1. Times(r, native') = Times(r, native) /\ Times(r, native) \in Nat
    BY <1>3, CountTypes DEF HfInv
  <2>2. InEmu(emu, r) = 0
    BY <1>3 DEF InEmu, One
  <2>3. client \in [Request -> {"idle", "sent", "held"}]
    BY DEF HfInv, HfTypeOK
  <2>4. InEmu(emu', r) + Sent(client, r) = Sent(client', r) /\ Sent(client', r) \in Nat
    <3>1. CASE r = q
      <4>1. InEmu(emu', r) = 1 /\ Sent(client, r) = 0 /\ Sent(client', r) = 1
        BY <1>2, <1>3, <1>4, <2>3, <3>1 DEF InEmu, Sent, One
      <4> QED
        BY <4>1
    <3>2. CASE r # q
      <4>1. InEmu(emu', r) = 0 /\ Sent(client, r) = Sent(client', r) /\ Sent(client', r) \in Nat
        BY <1>2, <1>3, <1>4, <2>3, <3>2 DEF InEmu, Sent, One
      <4> QED
        BY <4>1
    <3> QED
      BY <3>1, <3>2
  <2>5. InEmu(emu', r) \in Nat /\ Sent(client, r) \in Nat
    BY DEF InEmu, Sent, One
  <2> QED
    BY <2>1, <2>2, <2>4, <2>5
<1> QED
  BY <1>1, <1>2, <1>3, <1>4, <1>5, <1>6, QuietFrame

(* Its way through the table and AbortIO's send and answer nothing.          *)
LEMMA TableSteps ==
  ASSUME HfInv, \/ AddRequest \/ AddType \/ AbortType \/ Reset \/ ResetAborts
                \/ \E r \in Request : AbortIO(r)
  PROVE  HfInv'
<1>1. HfTypeOK'
  BY EmuTypes DEF Amiga, Emulator
<1>2. /\ dev \in [Unit -> Device] /\ emu \in EmuState /\ emu.unit \in Unit /\ dev[emu.unit] \in Device
      /\ emu.next \in {"run", "resetUnit"}
  BY EmuParts DEF HfInv, HfTypeOK
<1>3. UNCHANGED <<native, change_sem, thread, client>>
  BY DEF AddRequest, AddType, AbortType, Reset, ResetAborts, AbortIO, clientVars
<1>4. \A v \in Unit : /\ dev'[v].requests = dev[v].requests /\ dev'[v].sync = dev[v].sync
                      /\ dev'[v].running = dev[v].running /\ dev'[v].open = dev[v].open
  <2>1. CASE UNCHANGED dev
    BY <2>1
  <2>2. CASE AddRequest \/ AddType \/ AbortType
    <3>1. \E x : dev' = [dev EXCEPT ![emu.unit].req = x] \/ dev' = [dev EXCEPT ![emu.unit].type = x]
      BY <2>2 DEF AddRequest, AddType, AbortType
    <3>2. ASSUME NEW x, dev' = [dev EXCEPT ![emu.unit].req = x]
          PROVE  \A v \in Unit : /\ dev'[v].requests = dev[v].requests /\ dev'[v].sync = dev[v].sync
                                 /\ dev'[v].running = dev[v].running /\ dev'[v].open = dev[v].open
      BY <1>2, <3>2 DEF Device
    <3>3. ASSUME NEW x, dev' = [dev EXCEPT ![emu.unit].type = x]
          PROVE  \A v \in Unit : /\ dev'[v].requests = dev[v].requests /\ dev'[v].sync = dev[v].sync
                                 /\ dev'[v].running = dev[v].running /\ dev'[v].open = dev[v].open
      BY <1>2, <3>3 DEF Device
    <3> QED
      BY <3>1, <3>2, <3>3
  <2> QED
    BY <2>1, <2>2 DEF Reset, ResetAborts, AbortIO
<1>5. \A v \in Unit : v # emu.unit => dev'[v] = dev[v]
  BY <1>2 DEF AddRequest, AddType, AbortType, Reset, ResetAborts, AbortIO
<1>6. CASE AddRequest \/ AddType
  <2>1. /\ emu.pc \in {"addRequest", "addType"} /\ emu'.pc \in {"addType", "send"}
        /\ emu'.unit = emu.unit /\ emu'.req = emu.req /\ emu'.next = emu.next
    BY <1>2, <1>6 DEF AddRequest, AddType, EmuAt, EmuState
  <2>2. emu.next = "run"
    BY <2>1 DEF HfInv, EmuInv
  <2>3. EmuInv'
    BY <1>2, <1>4, <2>1, <2>2 DEF HfInv, EmuInv, Resetting
  <2>4. \A r \in Request : InEmu(emu', r) = InEmu(emu, r)
    BY <2>1 DEF InEmu, One
  <2> QED
    BY <1>1, <1>3, <1>4, <2>1, <2>3, <2>4, QuietFrame DEF Sent
<1>7. CASE AbortType
  <2>1. /\ emu.pc = "abortType" /\ emu'.pc = emu.next
        /\ emu'.unit = emu.unit /\ emu'.req = emu.req /\ emu'.next = emu.next
    BY <1>2, <1>7 DEF AbortType, EmuAt, EmuState
  <2>2. EmuInv'
    <3>1. Resetting' => Resetting
      BY <1>2, <2>1 DEF Resetting
    <3>2. Resetting => \A v \in Unit : v < emu.unit => dev[v] = Cleared /\ thread[v] = Off
      BY DEF HfInv, EmuInv
    <3>3. Resetting => \A v \in Unit : v < emu.unit => dev'[v] = Cleared /\ thread'[v] = Off
      BY <1>2, <1>3, <1>5, <3>2, NumberFacts
    <3> QED
      BY <1>2, <2>1, <3>1, <3>3 DEF EmuInv
  <2>3. \A r \in Request : InEmu(emu', r) = InEmu(emu, r)
    BY <1>2, <2>1 DEF InEmu, One
  <2> QED
    BY <1>1, <1>2, <1>3, <1>4, <2>1, <2>2, <2>3, QuietFrame DEF Sent
<1>8. CASE Reset
  <2>1. emu.pc = "run" /\ emu'.pc = "resetUnit" /\ emu'.unit = 0
    BY <1>8 DEF Reset, EmuAt, AtRest
  <2>2. EmuInv'
    BY <2>1, NumberFacts DEF EmuInv
  <2>3. \A r \in Request : InEmu(emu', r) = InEmu(emu, r)
    BY <2>1 DEF InEmu, One
  <2> QED
    BY <1>1, <1>3, <1>4, <2>1, <2>2, <2>3, QuietFrame DEF Sent
<1>9. CASE ResetAborts
  <2>1. /\ emu.pc = "resetUnit" /\ emu'.pc = "abort" /\ emu'.unit = emu.unit /\ emu'.req # None
        /\ dev[emu.unit].open > 0
    BY <1>2, <1>9 DEF ResetAborts, EmuAt, EmuState
  <2>2. Resetting /\ UNCHANGED dev
    BY <1>9, <2>1 DEF Resetting, ResetAborts
  <2>3. EmuInv'
    BY <1>3, <2>1, <2>2 DEF HfInv, EmuInv
  <2>4. \A r \in Request : InEmu(emu', r) = InEmu(emu, r)
    BY <2>1 DEF InEmu, One
  <2> QED
    BY <1>1, <1>3, <1>4, <2>1, <2>3, <2>4, QuietFrame DEF Sent
<1>10. ASSUME NEW q \in Request, AbortIO(q) PROVE HfInv'
  <2>1. /\ emu.pc = "run" /\ emu'.pc = "abort" /\ emu'.unit = Home[q] /\ emu'.req # None
        /\ dev'[Home[q]].open > 0 /\ emu'.next = "run"
    BY <1>10, NumberFacts DEF AbortIO, EmuAt, AtRest
  <2>2. EmuInv'
    BY <2>1 DEF EmuInv, Resetting
  <2>3. \A r \in Request : InEmu(emu', r) = InEmu(emu, r)
    BY <2>1 DEF InEmu, One
  <2> QED
    BY <1>1, <1>3, <1>4, <2>1, <2>2, <2>3, QuietFrame DEF Sent
<1> QED
  BY <1>6, <1>7, <1>8, <1>9, <1>10

(* AbortAsync gives a request that is held back to its program.              *)
LEMMA AbortStep == ASSUME HfInv, AbortAsync PROVE HfInv'
<1>1. HfTypeOK'
  BY EmuTypes DEF Emulator
<1>2. /\ dev \in [Unit -> Device] /\ emu \in EmuState /\ emu.unit \in Unit /\ dev[emu.unit] \in Device
      /\ emu.next \in {"run", "resetUnit"} /\ client \in [Request -> {"idle", "sent", "held"}]
      /\ emu.req \in Request \cup {None}
  BY EmuParts DEF HfInv, HfTypeOK
<1>3. /\ UNCHANGED <<native, change_sem, thread>> /\ emu.pc = "abort"
      /\ client' = [client EXCEPT ![emu.req] = IF @ = "held" THEN "idle" ELSE @]
  BY DEF AbortAsync, EmuAt
<1>4. \E x : dev' = [dev EXCEPT ![emu.unit].req = x] \/ dev' = dev
  BY DEF AbortAsync
<1>5. \A v \in Unit : /\ dev'[v].requests = dev[v].requests /\ dev'[v].sync = dev[v].sync
                      /\ dev'[v].running = dev[v].running /\ dev'[v].open = dev[v].open
                      /\ v # emu.unit => dev'[v] = dev[v]
  BY SMTT(30), <1>2, <1>4 DEF Device
<1>6. /\ emu'.unit = emu.unit /\ emu'.req = emu.req /\ emu'.next = emu.next
      /\ emu'.pc \in {"abortType", emu.next}
  BY <1>2 DEF AbortAsync, EmuState
<1>7. EmuInv'
  <2>1. Resetting' => Resetting
    BY <1>2, <1>6 DEF Resetting
  <2>2. Resetting => \A v \in Unit : v < emu.unit => dev[v] = Cleared /\ thread[v] = Off
    BY DEF HfInv, EmuInv
  <2>3. Resetting => \A v \in Unit : v < emu.unit => dev'[v] = Cleared /\ thread'[v] = Off
    BY <1>2, <1>3, <1>5, <2>2, NumberFacts
  <2>4. emu.req # None /\ dev[emu.unit].open > 0
    BY <1>3 DEF HfInv, EmuInv
  <2>5. emu'.req # None /\ dev'[emu'.unit].open > 0
    BY <1>2, <1>5, <1>6, <2>4
  <2>6. emu'.pc = emu.next => emu'.pc \in {"run", "resetUnit"} /\ emu'.next = emu'.pc
    BY <1>2, <1>6
  <2> QED
    BY <1>2, <1>6, <2>1, <2>3, <2>5, <2>6 DEF EmuInv
<1>8. ASSUME NEW r \in Request
      PROVE  Times(r, native') + InEmu(emu', r) + Sent(client, r)
             = Times(r, native) + InEmu(emu, r) + Sent(client', r)
  <2>1. Times(r, native') = Times(r, native) /\ InEmu(emu', r) = InEmu(emu, r)
    BY <1>2, <1>3, <1>6 DEF InEmu, One
  <2>2. client'[r] = "sent" <=> client[r] = "sent"
    BY <1>2, <1>3
  <2> QED
    BY <2>1, <2>2 DEF Sent
<1> QED
  BY <1>1, <1>2, <1>3, <1>5, <1>6, <1>7, <1>8, QuietFrame

(* A reply that comes is one for a request that was sent.                    *)
LEMMA InterruptStep == ASSUME HfInv, Interrupt PROVE HfInv'
<1> DEFINE q == Head(native)
<1>1. HfTypeOK'
  BY EmuTypes
<1>2. /\ native \in Seq(Request \cup {Stale}) /\ native # <<>>
      /\ client \in [Request -> {"idle", "sent", "held"}] /\ q \in Request \cup {Stale}
  BY DEF HfInv, HfTypeOK, Interrupt
<1>3. /\ UNCHANGED <<dev, emu, change_sem, thread>> /\ native' = Tail(native)
      /\ client' = [r \in Request |-> IF r = q THEN "idle" ELSE client[r]] /\ emu.pc = "run"
  BY DEF Interrupt, EmuAt
<1> HIDE DEF q
<1>4. EmuInv'
  BY <1>3 DEF HfInv, EmuInv, Resetting
<1>5. ASSUME NEW r \in Request
      PROVE  Times(r, native') + InEmu(emu', r) + Sent(client, r)
             = Times(r, native) + InEmu(emu, r) + Sent(client', r)
  <2>1. Times(r, native) = One(q = r) + Times(r, native')
    BY <1>2, <1>3, TimesTail DEF q
  <2>2. Times(r, native') \in Nat
    <3>1. native' \in Seq(Request \cup {Stale})
      BY <1>1 DEF HfTypeOK
    <3> QED
      BY <3>1, PlacesFinite
  <2>3. InEmu(emu', r) = 0 /\ InEmu(emu, r) = 0
    BY <1>3 DEF InEmu, One
  <2>4. CASE r = q
    <3>1. One(q = r) = 1 /\ Sent(client', r) = 0
      BY <1>3, <2>4 DEF One, Sent
    <3>2. client[r] = "sent"
      <4>1. Times(r, dev[Home[r]].requests) + Times(r, native) + InEmu(emu, r)
              + InHand(thread[Home[r]], r) = Sent(client, r)
        BY DEF HfInv, RepliedOnce, InEmu, InHand, Sent
      <4>2. Times(r, dev[Home[r]].requests) \in Nat /\ Times(r, native) \in Nat
        BY CountTypes DEF HfInv
      <4>3. InHand(thread[Home[r]], r) \in Nat
        BY DEF InHand, One
      <4>4. Sent(client, r) # 0
        BY <2>1, <2>2, <2>3, <3>1, <4>1, <4>2, <4>3
      <4> QED
        BY <4>4 DEF Sent, One
    <3>3. Sent(client, r) = 1
      BY <3>2 DEF Sent, One
    <3> QED
      BY <2>1, <2>2, <2>3, <3>1, <3>3
  <2>5. CASE r # q
    <3>1. One(q = r) = 0 /\ Sent(client', r) = Sent(client, r) /\ Sent(client, r) \in Nat
      BY <1>3, <2>5 DEF One, Sent
    <3> QED
      BY <2>1, <2>2, <2>3, <3>1
  <2> QED
    BY <2>4, <2>5
<1> QED
  BY <1>1, <1>3, <1>4, <1>5, QuietFrame

(* The request goes into the pipe.                                           *)
LEMMA SendStep ==
  ASSUME HfInv, NEW u \in Unit, SendRequest, u = emu.unit
  PROVE  HfInv'
<1> DEFINE Q == dev[u].requests
           q == emu.req
<1>1. HfTypeOK'
  BY EmuTypes DEF Emulator
<1>2. /\ dev \in [Unit -> Device] /\ dev[u] \in Device /\ Q \in Seq(Request \cup {None})
      /\ q \in Request \cup {None}
  BY UnitParts, EmuParts DEF HfInv, HfTypeOK
<1>3. /\ UNCHANGED <<client, native, change_sem, thread>> /\ emu.pc = "send"
      /\ emu'.pc = "run" /\ emu'.next = "run"
      /\ \A v \in Unit \ {u} : dev'[v] = dev[v]
  BY <1>2 DEF SendRequest, clientVars, EmuAt, AtRest
<1>4. /\ dev'[u].open = dev[u].open /\ dev'[u].running = dev[u].running
      /\ dev'[u].sync = dev[u].sync /\ dev'[u].requests = Append(Q, q)
  BY <1>2 DEF SendRequest, Device
<1>5. q # None /\ q \in Request /\ Home[q] = u /\ dev[u].open > 0
  BY <1>2, <1>3 DEF HfInv, EmuInv
<1>6. EmuInv'
  BY <1>3 DEF EmuInv, Resetting
<1>7. Wait(u) = "no" /\ Wait(u)' = "no" /\ OpenUnit(dev[u], thread[u])
  BY <1>3, <1>5 DEF HfInv, UnitsInv, UnitOK, ClosedUnit, Wait
<1>8. RepliedOnce'
  <2> SUFFICES ASSUME NEW r \in Request
               PROVE  Times(r, dev'[Home[r]].requests) + Times(r, native') + InEmu(emu', r)
                        + InHand(thread'[Home[r]], r) + Sent(client, r)
                      = Times(r, dev[Home[r]].requests) + Times(r, native) + InEmu(emu, r)
                        + InHand(thread[Home[r]], r) + Sent(client', r)
    BY <1>1, CountKept
  <2>1. /\ Times(r, dev[Home[r]].requests) \in Nat /\ Times(r, native) \in Nat /\ Home[r] \in Unit
    BY CountTypes DEF HfInv
  <2>2. /\ Times(r, dev'[Home[r]].requests) = Times(r, dev[Home[r]].requests) + InEmu(emu, r)
        /\ InEmu(emu, r) \in Nat
    <3>1. CASE Home[r] = u
      <4>1. Times(r, Append(Q, q)) = Times(r, Q) + One(q = r)
        BY <1>2, TimesAppend
      <4>2. InEmu(emu, r) = One(q = r) /\ One(q = r) \in Nat
        BY <1>3 DEF InEmu, One
      <4> QED
        BY <1>4, <3>1, <4>1, <4>2
    <3>2. CASE Home[r] # u
      <4>1. dev'[Home[r]] = dev[Home[r]]
        BY <1>3, <2>1, <3>2
      <4>2. InEmu(emu, r) = 0
        BY <1>5, <3>2 DEF InEmu, One
      <4> QED
        BY <2>1, <4>1, <4>2
    <3> QED
      BY <3>1, <3>2
  <2>3. InEmu(emu', r) = 0 /\ InHand(thread[Home[r]], r) \in Nat /\ Sent(client, r) \in Nat
    BY <1>3 DEF InEmu, InHand, Sent, One
  <2>4. /\ Times(r, native') = Times(r, native) /\ Sent(client', r) = Sent(client, r)
        /\ InHand(thread'[Home[r]], r) = InHand(thread[Home[r]], r)
    BY <1>3 DEF Sent
  <2> QED
    BY <2>1, <2>2, <2>3, <2>4
<1> HIDE DEF Q, q
<1>9. ASSUME NEW i \in 1..Len(Append(Q, q)), Append(Q, q)[i] # None
      PROVE  Home[Append(Q, q)[i]] = u
  <2>1. Append(Q, q)[i] = IF i = Len(Q) + 1 THEN q ELSE Q[i]
    BY <1>2
  <2>2. i # Len(Q) + 1 => i \in 1..Len(Q)
    BY <1>2
  <2>3. \A j \in 1..Len(Q) : Q[j] # None => Home[Q[j]] = u
    BY DEF HfInv, HomeInv, Q
  <2> QED
    BY <1>5, <1>9, <2>1, <2>2, <2>3
<1>10. OpenUnit(dev'[u], thread'[u])
  <2>1. \A j \in 1..Len(Q) : Q[j] # None
    BY <1>7 DEF OpenUnit, Q
  <2>2. \A j \in 1..Len(Append(Q, q)) : Append(Q, q)[j] = IF j = Len(Q) + 1 THEN q ELSE Q[j]
    BY <1>2
  <2>3. \A j \in 1..Len(Append(Q, q)) : j # Len(Q) + 1 => j \in 1..Len(Q)
    BY <1>2
  <2>4. \A j \in 1..Len(Append(Q, q)) : Append(Q, q)[j] # None
    BY <1>5, <2>1, <2>2, <2>3
  <2>5. Going(dev'[u], thread'[u])
    BY <1>3, <1>4, <1>7 DEF OpenUnit, Going
  <2> QED
    BY <1>4, <1>5, <2>4, <2>5 DEF OpenUnit
<1>11. UnitOK(dev'[u], thread'[u], Wait(u)')
  BY <1>7, <1>10 DEF UnitOK
<1>12. \A i \in 1..Len(dev'[u].requests) :
         dev'[u].requests[i] # None => Home[dev'[u].requests[i]] = u
  BY <1>4, <1>9
<1> QED
  BY <1>1, <1>3, <1>6, <1>8, <1>11, <1>12, EmuFrame

(* A unit that is reset has no thread any more, and nothing in its pipe.     *)
LEMMA ClearedIsOff ==
  ASSUME HfInv, ResetClosed \/ ResetClears
  PROVE  /\ thread[emu.unit] = Off /\ dev[emu.unit].requests = <<>> /\ emu.unit \in Unit
         /\ Resetting
<1> DEFINE u == emu.unit
<1>1. u \in Unit /\ dev[u].sync \in 0..1 /\ dev[u].open \in Nat /\ UnitOK(dev[u], thread[u], Wait(u))
  BY EmuParts, UnitParts DEF HfInv, UnitsInv
<1>2. CASE ResetClosed
  <2>1. emu.pc = "resetUnit" /\ dev[u].open = 0
    BY <1>2 DEF ResetClosed, EmuAt
  <2>2. Wait(u) = "no"
    BY <2>1 DEF Wait
  <2> QED
    BY <1>1, <2>1, <2>2 DEF UnitOK, ClosedUnit, OpenUnit, Resetting
<1>3. CASE ResetClears
  <2>1. emu.pc = "resetWait" /\ dev[u].sync > 0
    BY <1>3 DEF ResetClears, EmuAt
  <2>2. Wait(u) = "resetWait"
    BY <2>1 DEF Wait
  <2>3. Stopping(dev[u], thread[u])
    BY <1>1, <2>2 DEF UnitOK
  <2>4. dev[u].sync # 0
    BY <1>1, <2>1
  <2> HIDE DEF u
  <2>5. thread[u] = Off /\ dev[u].requests = <<>>
    BY <2>3, <2>4 DEF Stopping, Going
  <2> QED
    BY <1>1, <2>1, <2>5 DEF Resetting, u
<1> QED
  BY <1>2, <1>3

(* The reset goes on with the next unit, ...                                 *)
LEMMA NextUnitStep ==
  ASSUME HfInv, ResetClosed \/ ResetClears, NEW u \in Unit, u = emu.unit, u + 1 \in Unit
  PROVE  HfInv'
<1>1. HfTypeOK'
  BY EmuTypes DEF Emulator
<1>2. /\ dev \in [Unit -> Device] /\ thread[u] = Off /\ dev[u].requests = <<>> /\ Resetting
  BY ClearedIsOff DEF HfInv, HfTypeOK
<1>3. /\ UNCHANGED <<client, native, change_sem, thread>>
      /\ dev'[u] = Cleared /\ \A v \in Unit \ {u} : dev'[v] = dev[v]
      /\ emu'.pc = "resetUnit" /\ emu'.unit = u + 1
  BY <1>2 DEF ResetClosed, ResetClears, ClearUnit, AtRest
<1>4. EmuInv'
  <2>1. \A v \in Unit : v < u => dev[v] = Cleared /\ thread[v] = Off
    BY <1>2 DEF HfInv, EmuInv
  <2>2. \A v \in Unit : v < u + 1 => v < u \/ v = u
    BY NumberFacts
  <2>3. \A v \in Unit : v < u + 1 => dev'[v] = Cleared /\ thread'[v] = Off
    BY <1>2, <1>3, <2>1, <2>2
  <2> QED
    BY <1>3, <2>3 DEF EmuInv
<1>5. Cleared.requests = <<>> /\ Cleared.open = 0 /\ ~Cleared.running /\ Cleared.sync = 0
  BY DEF Cleared
<1>6. UnitOK(dev'[u], thread'[u], Wait(u)')
  <2>1. Wait(u)' = "no"
    BY <1>3 DEF Wait
  <2>2. ClosedUnit(dev'[u], thread'[u])
    BY <1>2, <1>3, <1>5 DEF ClosedUnit
  <2> QED
    BY <2>1, <2>2 DEF UnitOK
<1>7. RepliedOnce'
  <2>1. \A r \in Request : Times(r, dev'[Home[r]].requests) = Times(r, dev[Home[r]].requests)
    BY <1>2, <1>3, <1>5, NumberFacts
  <2>2. \A r \in Request : InEmu(emu', r) = InEmu(emu, r)
    <3>1. emu.pc \in {"resetUnit", "resetWait"}
      BY DEF ResetClosed, ResetClears, EmuAt
    <3> QED
      BY <1>3, <3>1 DEF InEmu, One
  <2> QED
    BY <1>1, <1>3, <2>1, <2>2, CountKept DEF Sent
<1>8. \A i \in 1..Len(dev'[u].requests) :
        dev'[u].requests[i] # None => Home[dev'[u].requests[i]] = u
  BY <1>3, <1>5
<1> QED
  BY <1>1, <1>3, <1>4, <1>6, <1>7, <1>8, EmuFrame

(* ... and after the last all units are closed and the machine starts anew.  *)
LEMMA LastUnitStep ==
  ASSUME HfInv, ResetClosed \/ ResetClears, emu.unit + 1 \notin Unit
  PROVE  HfInv'
<1>1. HfTypeOK'
  BY EmuTypes DEF Emulator
<1>2. /\ dev \in [Unit -> Device] /\ thread[emu.unit] = Off /\ emu.unit \in Unit /\ Resetting
      /\ native \in Seq(Request \cup {Stale})
  BY ClearedIsOff DEF HfInv, HfTypeOK
<1>3. /\ UNCHANGED <<change_sem, thread>> /\ emu' = AtRest
      /\ dev' = [dev EXCEPT ![emu.unit] = Cleared]
      /\ client' = [r \in Request |-> "idle"] /\ native' = [i \in DOMAIN native |-> Stale]
  BY DEF ResetClosed, ResetClears, ClearUnit
<1>4. ASSUME NEW v \in Unit PROVE dev'[v] = Cleared /\ thread'[v] = Off
  <2>1. v < emu.unit \/ v = emu.unit
    <3>1. emu.unit = Units - 1
      BY <1>2, NumberFacts DEF Unit
    <3> QED
      BY <3>1, NumberFacts DEF Unit
  <2>2. v < emu.unit => dev[v] = Cleared /\ thread[v] = Off
    BY <1>2 DEF HfInv, EmuInv
  <2> QED
    BY <1>2, <1>3, <2>1, <2>2
<1>5. Cleared.requests = <<>> /\ Cleared.open = 0 /\ ~Cleared.running /\ Cleared.sync = 0
  BY DEF Cleared
<1>6. emu'.pc = "run" /\ emu'.next = "run" /\ Off.req = None /\ Off.pc = "off"
  BY <1>3 DEF AtRest, Off
<1>7. UnitsInv'
  <2> SUFFICES ASSUME NEW v \in Unit PROVE UnitOK(dev'[v], thread'[v], Wait(v)')
    BY DEF UnitsInv
  <2>1. Wait(v)' = "no"
    BY <1>6 DEF Wait
  <2>2. ClosedUnit(dev'[v], thread'[v])
    BY <1>4, <1>5 DEF ClosedUnit
  <2> QED
    BY <2>1, <2>2 DEF UnitOK
<1>8. HomeInv'
  <2>1. \A v \in Unit : dev'[v].requests = <<>> /\ thread'[v].req = None /\ thread'[v].pc = "off"
    BY <1>4, <1>5, <1>6
  <2>2. \A i \in 1..Len(<<>>) : FALSE
    OBVIOUS
  <2> QED
    BY <2>1, <2>2 DEF HomeInv
<1>9. LockInv'
  BY <1>4, <1>6 DEF LockInv, Holds, Working
<1>10. EmuInv'
  BY <1>6 DEF EmuInv, Resetting
<1>11. RepliedOnce'
  <2> SUFFICES ASSUME NEW r \in Request
               PROVE  Times(r, dev'[Home[r]].requests) + Times(r, native') + InEmu(emu', r)
                        + InHand(thread'[Home[r]], r) = Sent(client', r)
    BY DEF RepliedOnce, InEmu, InHand, Sent
  <2>1. Home[r] \in Unit /\ r # None /\ r # Stale
    BY NumberFacts
  <2>2. InEmu(emu', r) = 0 /\ InHand(thread'[Home[r]], r) = 0 /\ Sent(client', r) = 0
    BY <1>3, <1>4, <1>6, <2>1 DEF InEmu, InHand, Sent, One
  <2>3. Times(r, dev'[Home[r]].requests) = 0
    <3>1. dev'[Home[r]].requests = <<>> /\ <<>> \in Seq(Request)
      BY <1>4, <1>5, <2>1
    <3>2. \A i \in 1..Len(<<>>) : <<>>[i] # r
      OBVIOUS
    <3>3. Times(r, <<>>) = 0
      BY <3>1, <3>2, TimesZero
    <3> QED
      BY <3>1, <3>3
  <2>4. Times(r, native') = 0
    <3>1. native' \in Seq(Request \cup {Stale})
      BY <1>1 DEF HfTypeOK
    <3>2. Len(native') = Len(native) /\ \A i \in 1..Len(native) : native'[i] = Stale
      BY <1>2, <1>3
    <3> QED
      BY <2>1, <3>1, <3>2, TimesZero
  <2> QED
    BY <2>2, <2>3, <2>4
<1> QED
  BY <1>1, <1>7, <1>8, <1>9, <1>10, <1>11 DEF HfInv

(* A unit somebody has open is stopped first, like by its last Close.        *)
LEMMA ResetStopsStep ==
  ASSUME HfInv, ResetStops
  PROVE  HfInv'
<1>0. PICK u \in Unit : u = emu.unit
  BY EmuParts DEF HfInv
<1>1. HfTypeOK'
  BY EmuTypes DEF Emulator
<1>2. /\ dev \in [Unit -> Device] /\ dev[u] \in Device /\ dev[u].open \in Nat /\ emu \in EmuState
  BY UnitParts DEF HfInv, HfTypeOK
<1>3. /\ UNCHANGED <<client, native, change_sem, thread>> /\ emu.pc = "resetUnit"
      /\ emu'.pc = "resetWait" /\ emu'.unit = u /\ dev[u].open > 0
      /\ \A v \in Unit \ {u} : dev'[v] = dev[v]
  BY <1>0, <1>2 DEF ResetStops, clientVars, EmuAt, EmuState
<1>4. /\ dev'[u].open = dev[u].open /\ dev'[u].running = dev[u].running
      /\ dev'[u].sync = dev[u].sync /\ dev'[u].requests = Append(dev[u].requests, None)
  BY <1>0, <1>2 DEF ResetStops, Device
<1>5. Wait(u) = "no" /\ Wait(u)' = "resetWait" /\ OpenUnit(dev[u], thread[u])
  BY <1>3 DEF HfInv, UnitsInv, UnitOK, ClosedUnit, Wait
<1>6. /\ Stopping(dev'[u], thread[u])
      /\ \A i \in 1..Len(dev'[u].requests) :
           dev'[u].requests[i] # None => Home[dev'[u].requests[i]] = u
      /\ \A r \in Request : Times(r, dev'[u].requests) = Times(r, dev[u].requests)
  <2>1. /\ OpenUnit(dev[u], thread[u]) /\ dev'[u].requests = Append(dev[u].requests, None)
        /\ dev'[u].running = dev[u].running /\ dev'[u].sync = dev[u].sync
    BY <1>4, <1>5
  <2>2. Stopping(dev'[u], thread[u])
    BY <2>1, ZeroIsLast
  <2>3. \A i \in 1..Len(dev'[u].requests) :
          dev'[u].requests[i] # None => Home[dev'[u].requests[i]] = u
    BY <2>1, ZeroIsLast
  <2>4. ASSUME NEW r \in Request
        PROVE  Times(r, dev'[u].requests) = Times(r, dev[u].requests)
    <3>1. /\ dev[u].requests \in Seq(Request \cup {None}) /\ None \in Request \cup {None}
          /\ None # r
      BY UnitParts, NumberFacts DEF HfInv
    <3>2. Times(r, Append(dev[u].requests, None)) = Times(r, dev[u].requests) + One(None = r)
      BY <3>1, TimesAppend
    <3>3. Times(r, dev[u].requests) \in Nat
      BY <3>1, PlacesFinite
    <3>4. One(None = r) = 0
      BY <3>1 DEF One
    <3> QED
      BY <2>1, <3>2, <3>3, <3>4
  <2> QED
    BY <2>2, <2>3, <2>4
<1>7. UnitOK(dev'[u], thread'[u], Wait(u)')
  BY <1>2, <1>3, <1>4, <1>5, <1>6 DEF UnitOK
<1>8. EmuInv'
  <2>1. \A v \in Unit : v < u => dev[v] = Cleared /\ thread[v] = Off
    BY <1>0, <1>3 DEF HfInv, EmuInv, Resetting
  <2>2. \A v \in Unit : v < u => dev'[v] = Cleared /\ thread'[v] = Off
    BY <1>3, <2>1, NumberFacts
  <2> QED
    BY <1>3, <2>2 DEF EmuInv
<1>9. RepliedOnce'
  <2>1. \A r \in Request : InEmu(emu', r) = InEmu(emu, r)
    BY <1>3 DEF InEmu, One
  <2>2. \A r \in Request : Times(r, dev'[Home[r]].requests) = Times(r, dev[Home[r]].requests)
    BY <1>3, <1>6, NumberFacts
  <2> QED
    BY <1>1, <1>3, <2>1, <2>2, CountKept DEF Sent
<1> QED
  BY <1>0, <1>1, <1>3, <1>6, <1>7, <1>8, <1>9, EmuFrame

(* So every step of the emulator thread keeps the invariant.                 *)
LEMMA EmuKeeps ==
  ASSUME HfInv, Hasty = FALSE, Amiga \/ Interrupt \/ Reset \/ Emulator
  PROVE  HfInv'
<1>1. emu.unit \in Unit
  BY EmuParts DEF HfInv
<1>2. CASE Amiga
  BY <1>2, OpenSteps, CloseStep, BeginStep, TableSteps DEF Amiga
<1>3. CASE Interrupt \/ Reset
  BY <1>3, InterruptStep, TableSteps
<1>4. CASE Emulator
  <2>1. OpenEnds => HfInv'
    BY <1>1, OpenSteps
  <2>2. CloseEnds \/ SendRequest \/ ResetStops => HfInv'
    BY <1>1, CloseEndsStep, SendStep, ResetStopsStep
  <2>3. AddRequest \/ AddType \/ AbortType \/ ResetAborts \/ AbortAsync => HfInv'
    BY TableSteps, AbortStep
  <2>4. ResetClosed \/ ResetClears => HfInv'
    BY <1>1, NextUnitStep, LastUnitStep
  <2> QED
    BY <1>4, <2>1, <2>2, <2>3, <2>4 DEF Emulator
<1> QED
  BY <1>2, <1>3, <1>4

-----------------------------------------------------------------------------
(* At the start all units are closed and no request is sent.                 *)
LEMMA HfInitially == HfInit => HfInv
<1> SUFFICES ASSUME HfInit PROVE HfInv
  OBVIOUS
<1>1. /\ Cleared.requests = <<>> /\ Cleared.open = 0 /\ ~Cleared.running /\ Cleared.sync = 0
      /\ Off.req = None /\ Off.pc = "off" /\ emu.pc = "run" /\ emu.next = "run"
  BY DEF Cleared, Off, AtRest, HfInit
<1>2. HfTypeOK
  <2>1. <<>> \in Seq(Request \cup {Stale}) /\ Len(<<>>) = 0 /\ 1 \in 0..1
    OBVIOUS
  <2>2. Len(native) <= NativeRecords /\ 0 \in 0..MaxResets
    BY <2>1, HardfileAssumption DEF HfInit, HardfileAssumption
  <2> QED
    BY <2>1, <2>2, WholeStates DEF HfInit, HfTypeOK
<1>3. UnitsInv
  <2> SUFFICES ASSUME NEW u \in Unit PROVE UnitOK(dev[u], thread[u], Wait(u))
    BY DEF UnitsInv
  <2>1. Wait(u) = "no" /\ ClosedUnit(dev[u], thread[u])
    BY <1>1 DEF Wait, ClosedUnit, HfInit
  <2> QED
    BY <2>1 DEF UnitOK
<1>4. HomeInv
  <2>1. \A u \in Unit : dev[u].requests = <<>> /\ thread[u].req = None /\ thread[u].pc = "off"
    BY <1>1 DEF HfInit
  <2>2. \A i \in 1..Len(<<>>) : FALSE
    OBVIOUS
  <2> QED
    BY <2>1, <2>2 DEF HomeInv
<1>5. LockInv
  BY <1>1 DEF HfInit, LockInv, Holds, Working
<1>6. EmuInv
  BY <1>1 DEF EmuInv, Resetting
<1>7. RepliedOnce
  <2> SUFFICES ASSUME NEW r \in Request
               PROVE  Times(r, dev[Home[r]].requests) + Times(r, native) + InEmu(emu, r)
                        + InHand(thread[Home[r]], r) = Sent(client, r)
    BY DEF RepliedOnce, InEmu, InHand, Sent
  <2>1. dev[Home[r]].requests = <<>> /\ native = <<>> /\ r # None /\ Home[r] \in Unit
    BY <1>1, NumberFacts DEF HfInit
  <2>2. InEmu(emu, r) = 0 /\ InHand(thread[Home[r]], r) = 0 /\ Sent(client, r) = 0
    BY <1>1, <2>1 DEF InEmu, InHand, Sent, One, HfInit
  <2>3. Times(r, <<>>) = 0
    <3>1. <<>> \in Seq(Request) /\ \A i \in 1..Len(<<>>) : <<>>[i] # r
      OBVIOUS
    <3> QED
      BY <3>1, TimesZero
  <2> QED
    BY <2>1, <2>2, <2>3
<1> QED
  BY <1>2, <1>3, <1>4, <1>5, <1>6, <1>7 DEF HfInv

(* Every step of HfNext keeps HfInv, if programs wait for their              *)
(* ADDCHANGEINTs (hardfile.c:1114-1184): its induction step.                 *)
LEMMA HfInductive ==
  ASSUME Hasty = FALSE, HfInv, [HfNext]_hfVars
  PROVE  HfInv'
<1>1. CASE HfNext
  BY <1>1, EmuKeeps, ThreadKeeps DEF HfNext
<1>2. CASE UNCHANGED hfVars
  BY <1>2 DEF hfVars, clientVars, HfInv, HfTypeOK, UnitsInv, HomeInv, LockInv, EmuInv, RepliedOnce,
              Wait, Holds, Resetting
<1> QED
  BY <1>1, <1>2

(* HfInv holds in every state of HfSpec.                                     *)
LEMMA HfInvariant == ASSUME Hasty = FALSE PROVE HfSpec => []HfInv
<1>1. HfInv /\ [HfNext]_hfVars => HfInv'
  BY HfInductive
<1> QED
  BY HfInitially, <1>1, PTL DEF HfSpec

(* The device's state keeps its types: sync_sem and change_sem are never     *)
(* posted twice and a reply always finds room in native2amiga_pending.       *)
THEOREM HfTypes == ASSUME Hasty = FALSE PROVE HfSpec => []HfTypeOK
<1>1. HfInv => HfTypeOK
  BY DEF HfInv
<1> QED
  BY HfInvariant, <1>1, PTL

(* For any units, requests, slots and resets: a request that is sent is on   *)
(* its way to one reply, and a request its program has or the device holds   *)
(* to none (hardfile_beginio, hardfile_thread, uae_ReplyMsg).                *)
THEOREM RequestsAreRepliedOnce == ASSUME Hasty = FALSE PROVE HfSpec => []RepliedOnce
<1>1. HfInv => RepliedOnce
  BY DEF HfInv
<1> QED
  BY HfInvariant, <1>1, PTL

(* start_thread and hardfile_reset never clear a unit under its thread's     *)
(* hands: this part of TableIsRight holds for tables of any size.            *)
THEOREM UnitsAreClearedWhenStopped == ASSUME Hasty = FALSE PROVE HfSpec => []ClearedWhenStopped
<1>1. HfInv => ClearedWhenStopped
  <2> SUFFICES ASSUME HfInv PROVE ClearedWhenStopped
    OBVIOUS
  <2>1. emu.unit \in Unit /\ \A u \in Unit : dev[u].sync \in 0..1 /\ dev[u].open \in Nat
    BY EmuParts, UnitParts DEF HfInv
  <2>2. \A u \in Unit : UnitOK(dev[u], thread[u], Wait(u))
    BY DEF HfInv, UnitsInv
  <2>3. ASSUME NEW u \in Unit, emu.pc \in {"run", "resetUnit"}, dev[u].open = 0
        PROVE  thread[u].pc = "off"
    <3>1. Wait(u) = "no"
      BY <2>3 DEF Wait
    <3>2. ClosedUnit(dev[u], thread[u])
      BY <2>2, <2>3, <3>1 DEF UnitOK, OpenUnit
    <3> QED
      BY <3>2 DEF ClosedUnit, Off
  <2>4. ASSUME emu.pc = "resetWait", dev[emu.unit].sync > 0
        PROVE  thread[emu.unit].pc = "off"
    <3>1. Wait(emu.unit) = "resetWait"
      BY <2>4 DEF Wait
    <3>2. Stopping(dev[emu.unit], thread[emu.unit]) /\ dev[emu.unit].sync # 0
      BY <2>1, <2>2, <2>4, <3>1 DEF UnitOK
    <3> QED
      BY <3>2 DEF Stopping, Going, Off
  <2> QED
    BY <2>1, <2>3, <2>4 DEF ClearedWhenStopped, EmuAt, ThreadAt
<1> QED
  BY HfInvariant, <1>1, PTL

-----------------------------------------------------------------------------
(* The table. A slot in use is of a request of the unit that its program     *)
(* does not have and that is not on its way back, and of one only.           *)
InTable ==
  \A u \in Unit, s \in HfSlot : dev[u].req[s] # None =>
    /\ Home[dev[u].req[s]] = u /\ client[dev[u].req[s]] # "idle"
    /\ Times(dev[u].req[s], native) = 0
OneSlot ==
  \A u \in Unit, s, x \in HfSlot :
    dev[u].req[s] # None /\ dev[u].req[s] = dev[u].req[x] => s = x

(* What the emulator thread and the unit's thread know of the slot in hand   *)
(* between a scan and the stores that follow. A thread only looks for a free *)
(* slot when a reset has taken its request out of the table; a slot that it  *)
(* has emptied, and whose type it is about to clear, may be taken again by a *)
(* request that is sent, but not by one that is held.                        *)
Absent(u, r) == \A s \in HfSlot : dev[u].req[s] # r
Present(u, r) == \E s \in HfSlot : dev[u].req[s] = r
EmuSlot ==
  /\ emu.pc = "addRequest" => /\ dev[emu.unit].req[emu.slot] = None
                              /\ Absent(emu.unit, emu.req)
  /\ emu.pc = "addType" => dev[emu.unit].req[emu.slot] = emu.req
  /\ emu.pc = "abort" => Home[emu.req] = emu.unit
  /\ emu.pc = "abort" /\ ~Resetting => client[emu.req] = "held" \/ command[emu.req] # "add"
  /\ emu.pc = "abortType" /\ ~Resetting => dev[emu.unit].req[emu.slot] = None
ThreadSlot(u) ==
  LET t == thread[u]
  IN  /\ t.pc = "holdRequest" => /\ Resetting /\ dev[u].req[t.slot] = None
                                 /\ Absent(u, t.req)
      /\ t.pc = "holdType" /\ ~Resetting => dev[u].req[t.slot] = t.req
      /\ t.pc = "releaseType" /\ dev[u].req[t.slot] # None =>
           client[dev[u].req[t.slot]] = "sent"
      /\ t.pc = "reply" \/ (t.pc = "releaseType" /\ t.next = "reply") => Absent(u, t.req)
      /\ t.pc \in {"io", "add", "rem"} => command[t.req] = t.pc
      /\ t.pc \in {"holdRequest", "holdType"} => command[t.req] = "add"
      /\ t.pc \in {"release", "releaseType", "reply"} /\ ~Resetting => command[t.req] # "add"

(* Between resets what is held is registered, and so is an ADDCHANGEINT on   *)
(* its way to be held; a closed unit has no requests.                        *)
HeldIn(r) ==
  client[r] = "held" =>
    \E s \in HfSlot : dev[Home[r]].req[s] = r /\ dev[Home[r]].type[s] = "changeint"
AddIn(r) ==
  client[r] = "sent" /\ command[r] = "add" /\ ~(emu.pc = "addRequest" /\ emu.req = r) =>
    Present(Home[r], r)
ClosedIdle(r) == dev[Home[r]].open = 0 => client[r] = "idle"
Registered == \A r \in Request : HeldIn(r) /\ AddIn(r) /\ ClosedIdle(r)

TableInv == /\ InTable /\ OneSlot /\ EmuSlot /\ (\A u \in Unit : ThreadSlot(u))
            /\ (~Resetting => Registered)

-----------------------------------------------------------------------------
(* The table after a store into a slot of a unit.                            *)
ReqStored(u, s, x) == [dev EXCEPT ![u].req[s] = x]
TypeStored(u, s, x) == [dev EXCEPT ![u].type[s] = x]

(* A store into a slot changes that slot.                                    *)
LEMMA StoreReq ==
  ASSUME HfTypeOK, NEW u \in Unit, NEW s \in HfSlot, NEW x,
         dev' = ReqStored(u, s, x)
  PROVE  /\ \A v \in Unit, i \in HfSlot :
              dev'[v].req[i] = IF v = u /\ i = s THEN x ELSE dev[v].req[i]
         /\ \A v \in Unit : dev'[v].type = dev[v].type /\ dev'[v].open = dev[v].open
<1>1. dev \in [Unit -> Device] /\ dev[u] \in Device /\ dev[u].req \in [HfSlot -> Request \cup {None}]
  BY UnitParts DEF HfTypeOK
<1> DEFINE q == [dev[u].req EXCEPT ![s] = x]
           d == [dev[u] EXCEPT !.req = q]
<1>2. dev' = [dev EXCEPT ![u] = d]
  BY <1>1 DEF ReqStored
<1>3. q[s] = x /\ \A i \in HfSlot : i # s => q[i] = dev[u].req[i]
  BY <1>1
<1> HIDE DEF q
<1>4. d.req = q /\ d.type = dev[u].type /\ d.open = dev[u].open
  BY <1>1 DEF Device
<1> HIDE DEF d
<1>5. dev'[u] = d /\ \A v \in Unit : v # u => dev'[v] = dev[v]
  BY <1>1, <1>2
<1>6. /\ dev'[u].type = dev[u].type /\ dev'[u].open = dev[u].open
      /\ dev'[u].req[s] = x /\ \A i \in HfSlot : i # s => dev'[u].req[i] = dev[u].req[i]
  BY ONLY <1>3, <1>4, <1>5
<1> QED
  BY <1>5, <1>6

(* So does the store of a type.                                              *)
LEMMA StoreType ==
  ASSUME HfTypeOK, NEW u \in Unit, NEW s \in HfSlot, NEW x,
         dev' = TypeStored(u, s, x)
  PROVE  /\ \A v \in Unit : dev'[v].req = dev[v].req /\ dev'[v].open = dev[v].open
         /\ \A v \in Unit, i \in HfSlot :
              dev'[v].type[i] = IF v = u /\ i = s THEN x ELSE dev[v].type[i]
<1>1. /\ dev \in [Unit -> Device] /\ dev[u] \in Device
      /\ dev[u].type \in [HfSlot -> {"none", "temp", "changeint"}]
  BY UnitParts DEF HfTypeOK
<1> DEFINE q == [dev[u].type EXCEPT ![s] = x]
           d == [dev[u] EXCEPT !.type = q]
<1>2. dev' = [dev EXCEPT ![u] = d]
  BY <1>1 DEF TypeStored
<1>3. q[s] = x /\ \A i \in HfSlot : i # s => q[i] = dev[u].type[i]
  BY <1>1
<1> HIDE DEF q
<1>4. d.type = q /\ d.req = dev[u].req /\ d.open = dev[u].open
  BY <1>1 DEF Device
<1> HIDE DEF d
<1>5. dev'[u] = d /\ \A v \in Unit : v # u => dev'[v] = dev[v]
  BY <1>1, <1>2
<1>6. /\ dev'[u].req = dev[u].req /\ dev'[u].open = dev[u].open
      /\ dev'[u].type[s] = x /\ \A i \in HfSlot : i # s => dev'[u].type[i] = dev[u].type[i]
  BY ONLY <1>3, <1>4, <1>5
<1> QED
  BY <1>5, <1>6

(* A request in a thread's or the emulator thread's hands is sent, is not on *)
(* its way back, and is not in the other's hands.                            *)
LEMMA HandFacts ==
  ASSUME HfInv, NEW u \in Unit, thread[u].pc \in Working \ {"unlock"}
  PROVE  /\ thread[u].req \in Request /\ Home[thread[u].req] = u /\ thread[u].req # None
         /\ client[thread[u].req] = "sent" /\ Times(thread[u].req, native) = 0
         /\ ~(emu.req = thread[u].req /\ emu.pc \in {"addRequest", "addType", "send"})
<1> DEFINE r == thread[u].req
<1>1. r \in Request /\ Home[r] = u /\ client[r] = "sent" /\ r # None
  BY WorkFacts, InHandIsSent, NumberFacts
<1>2. Times(r, dev[u].requests) + Times(r, native) + InEmu(emu, r) + InHand(thread[u], r) = Sent(client, r)
  BY <1>1 DEF HfInv, RepliedOnce, InEmu, InHand, Sent
<1>3. InHand(thread[u], r) = 1 /\ Sent(client, r) = 1
  BY <1>1 DEF InHand, Sent, One
<1>4. Times(r, dev[u].requests) \in Nat /\ Times(r, native) \in Nat
  BY <1>1, CountTypes DEF HfInv
<1>5. InEmu(emu, r) \in Nat
  BY DEF InEmu, One
<1> HIDE DEF r
<1>6. Times(r, native) = 0 /\ InEmu(emu, r) = 0
  BY <1>2, <1>3, <1>4, <1>5
<1> QED
  BY <1>1, <1>6 DEF InEmu, One, r

(* So is one in the emulator thread's hands, and there is no reset then.     *)
LEMMA EmuFacts ==
  ASSUME HfInv, emu.pc \in {"addRequest", "addType", "send"}
  PROVE  /\ emu.req \in Request /\ Home[emu.req] = emu.unit /\ emu.req # None
         /\ emu.unit \in Unit /\ emu.slot \in HfSlot /\ ~Resetting
         /\ client[emu.req] = "sent" /\ Times(emu.req, native) = 0
<1> DEFINE r == emu.req
<1>1. r \in Request /\ Home[r] = emu.unit /\ emu.unit \in Unit /\ emu.slot \in HfSlot /\ r # None
      /\ ~Resetting
  BY EmuParts DEF HfInv, EmuInv, Resetting
<1>2. Times(r, dev[Home[r]].requests) + Times(r, native) + InEmu(emu, r)
        + InHand(thread[Home[r]], r) = Sent(client, r)
  BY <1>1 DEF HfInv, RepliedOnce, InEmu, InHand, Sent
<1>3. InEmu(emu, r) = 1 /\ Sent(client, r) \in {0, 1}
  BY DEF InEmu, Sent, One
<1>4. Times(r, dev[Home[r]].requests) \in Nat /\ Times(r, native) \in Nat
  BY <1>1, CountTypes DEF HfInv
<1>5. InHand(thread[Home[r]], r) \in Nat
  BY DEF InHand, One
<1> HIDE DEF r
<1>6. Times(r, native) = 0 /\ Sent(client, r) = 1
  BY <1>2, <1>3, <1>4, <1>5
<1> QED
  BY <1>1, <1>6 DEF Sent, One, r

(* A step that leaves the requests in the table and their programs, and the  *)
(* types of those the device holds.                                          *)
LEMMA TableFrame ==
  ASSUME TableInv, UNCHANGED <<client, command, native>>,
         \A v \in Unit : dev'[v].req = dev[v].req,
         EmuSlot', \A v \in Unit : ThreadSlot(v)',
         ~Resetting' =>
           /\ ~Resetting
           /\ \A r \in Request :
                /\ ClosedIdle(r)'
                /\ emu.pc = "addRequest" /\ emu.req = r =>
                     emu'.pc = "addRequest" /\ emu'.req = r
                /\ client[r] = "held" =>
                     \A s \in HfSlot : dev[Home[r]].req[s] = r =>
                       dev'[Home[r]].type[s] = dev[Home[r]].type[s]
  PROVE  TableInv'
<1>1. InTable' /\ OneSlot'
  BY DEF TableInv, InTable, OneSlot
<1>2. ASSUME ~Resetting' PROVE Registered'
  <2> SUFFICES ASSUME NEW r \in Request PROVE HeldIn(r)' /\ AddIn(r)'
    BY <1>2 DEF Registered
  <2>1. HeldIn(r) /\ AddIn(r) /\ Home[r] \in Unit
    BY <1>2, NumberFacts DEF TableInv, Registered
  <2> QED
    BY <1>2, <2>1 DEF HeldIn, AddIn, Present
<1> QED
  BY <1>1, <1>2 DEF TableInv

(* A thread's step that leaves the requests in the table too.                *)
LEMMA ThreadTable ==
  ASSUME HfInv, TableInv, NEW u \in Unit, UNCHANGED <<client, command, native, emu>>,
         \A v \in Unit : dev'[v].req = dev[v].req /\ dev'[v].open = dev[v].open,
         \A v \in Unit \ {u} : thread'[v] = thread[v], ThreadSlot(u)',
         \A r \in Request : ~Resetting /\ client[r] = "held" =>
           \A s \in HfSlot : dev[Home[r]].req[s] = r =>
             dev'[Home[r]].type[s] = dev[Home[r]].type[s]
  PROVE  TableInv'
<1>1. Resetting' <=> Resetting
  BY DEF Resetting
<1>2. EmuSlot'
  <2>1. EmuSlot /\ emu.unit \in Unit
    BY EmuParts DEF HfInv, TableInv
  <2> QED
    BY <1>1, <2>1 DEF EmuSlot, Absent
<1>3. ASSUME NEW v \in Unit PROVE ThreadSlot(v)'
  <2>1. ThreadSlot(v)
    BY DEF TableInv
  <2>2. CASE v # u
    BY <1>1, <2>1, <2>2 DEF ThreadSlot, Absent
  <2> QED
    BY <2>2
<1>4. ~Resetting => \A r \in Request : ClosedIdle(r)'
  BY NumberFacts DEF TableInv, Registered, ClosedIdle
<1> QED
  BY <1>1, <1>2, <1>3, <1>4, TableFrame

-----------------------------------------------------------------------------
(* The thread's start, its end and what it does between requests.            *)
LEMMA LifeTable ==
  ASSUME HfInv, TableInv, NEW u \in Unit,
         ThreadStarts(u) \/ ThreadReads(u) \/ ThreadStops(u) \/ ThreadEnds(u) \/ ThreadUnlocks(u)
  PROVE  TableInv'
<1>1. /\ dev \in [Unit -> Device] /\ thread \in [Unit -> ThreadState] /\ dev[u] \in Device
      /\ thread[u] \in ThreadState
  BY DEF HfInv, HfTypeOK
<1>2. UNCHANGED <<emu, client, command, native>>
  BY DEF ThreadStarts, ThreadReads, ThreadStops, ThreadEnds, ThreadUnlocks, clientVars
<1>3. \A v \in Unit \ {u} : thread'[v] = thread[v]
  BY <1>1 DEF ThreadStarts, ThreadReads, ThreadStops, ThreadEnds, ThreadUnlocks, ThreadGoes
<1>4. \A v \in Unit : /\ dev'[v].req = dev[v].req /\ dev'[v].type = dev[v].type
                      /\ dev'[v].open = dev[v].open
  <2>1. CASE ThreadStarts(u)
    BY <1>1, <2>1 DEF ThreadStarts, Device
  <2>2. CASE ThreadReads(u)
    BY <1>1, <2>2 DEF ThreadReads, Device
  <2>3. CASE ThreadStops(u)
    BY <1>1, <2>3 DEF ThreadStops, Device
  <2>4. CASE ThreadEnds(u)
    BY <1>1, <2>4 DEF ThreadEnds, Device
  <2> QED
    BY <2>1, <2>2, <2>3, <2>4 DEF ThreadUnlocks
<1>5. thread'[u].pc \in {"read", "lock", "stopped", "off"}
  BY <1>1 DEF ThreadStarts, ThreadReads, ThreadStops, ThreadEnds, ThreadUnlocks, ThreadGoes,
              ThreadState, Off
<1>6. ThreadSlot(u)'
  BY <1>5 DEF ThreadSlot
<1> QED
  BY <1>2, <1>3, <1>4, <1>6, NumberFacts, ThreadTable

(* The thread looks at the command of the request it has.                    *)
LEMMA LockTable ==
  ASSUME HfInv, TableInv, NEW u \in Unit, ThreadLocks(u)
  PROVE  TableInv'
<1> DEFINE q == thread[u].req
<1>1. /\ thread \in [Unit -> ThreadState] /\ thread[u] \in ThreadState
      /\ command \in [Request -> {"io", "add", "rem"}] /\ q \in Request \cup {None}
  BY UnitParts DEF HfInv, HfTypeOK
<1>2. /\ UNCHANGED <<emu, client, command, native, dev>>
      /\ \A v \in Unit \ {u} : thread'[v] = thread[v]
      /\ thread'[u].req = q /\ thread'[u].pc = IF q = None THEN "stop" ELSE command[q]
  BY <1>1 DEF ThreadLocks, ThreadGoes, clientVars, ThreadState
<1> HIDE DEF q
<1>3. ThreadSlot(u)'
  <2>1. q # None => thread'[u].pc \in {"io", "add", "rem"} /\ command'[q] = thread'[u].pc
    BY <1>1, <1>2
  <2> QED
    BY <1>2, <2>1 DEF ThreadSlot
<1> QED
  BY <1>2, <1>3, ThreadTable

(* Between resets an ADDCHANGEINT that is done has its slot already.         *)
LEMMA DoneTable ==
  ASSUME HfInv, TableInv, NEW u \in Unit, DoIO(u) \/ DoAdd(u)
  PROVE  TableInv'
<1> DEFINE q == thread[u].req
<1>1. /\ thread \in [Unit -> ThreadState] /\ thread[u] \in ThreadState
  BY UnitParts DEF HfInv, HfTypeOK
<1>2. /\ UNCHANGED <<emu, client, command, native, dev>>
      /\ \A v \in Unit \ {u} : thread'[v] = thread[v]
  BY <1>1 DEF DoIO, DoAdd, ThreadGoes, clientVars
<1>3. thread'[u].req = q
  BY <1>1 DEF DoIO, DoAdd, ThreadGoes, ThreadState
<1>4. thread[u].pc \in {"io", "add"} /\ command[q] = thread[u].pc
  BY DEF DoIO, DoAdd, ThreadAt, TableInv, ThreadSlot
<1>5. /\ q \in Request /\ Home[q] = u /\ client[q] = "sent"
      /\ ~(emu.req = q /\ emu.pc = "addRequest")
  BY <1>4, HandFacts DEF Working
<1>6. ThreadSlot(u)'
  <2>1. CASE DoIO(u)
    <3>1. thread'[u].pc = "release"
      BY <1>1, <2>1 DEF DoIO, ThreadGoes, ThreadState
    <3>2. command'[q] = "io"
      BY <1>2, <1>4, <2>1 DEF DoIO, ThreadAt
    <3> QED
      BY <1>3, <3>1, <3>2 DEF ThreadSlot
  <2>2. CASE DoAdd(u)
    <3>1. thread[u].pc = "add" /\ (~Resetting => SlotsOf(u, q) # {})
      <4>1. thread[u].pc = "add"
        BY <2>2 DEF DoAdd, ThreadAt
      <4>2. ~Resetting => Present(u, q)
        BY <1>4, <1>5, <4>1 DEF TableInv, Registered, AddIn
      <4> QED
        BY <4>1, <4>2 DEF Present, SlotsOf
    <3> DEFINE S == IF SlotsOf(u, q) # {} THEN SlotsOf(u, q) ELSE SlotsOf(u, None)
               pc == IF S = {} THEN "release" ELSE IF SlotsOf(u, q) = {} THEN "holdRequest"
                     ELSE "holdType"
               slot == IF S = {} THEN 0 ELSE First(S)
    <3>2. thread' = [thread EXCEPT ![u].pc = pc, ![u].slot = slot]
      BY <2>2 DEF DoAdd
    <3>3. S # {} => First(S) \in S
      BY ScanFacts
    <3>4. /\ S # {} => slot = First(S)
          /\ S = SlotsOf(u, q) \/ (S = SlotsOf(u, None) /\ SlotsOf(u, q) = {})
      OBVIOUS
    <3>5. pc \in {"release", "holdRequest", "holdType"}
      OBVIOUS
    <3>6. /\ (pc = "release" => S = {}) /\ (pc # "release" => S # {})
          /\ (pc = "holdRequest" => SlotsOf(u, q) = {}) /\ (pc = "holdType" => SlotsOf(u, q) # {})
      OBVIOUS
    <3> HIDE DEF pc, slot
    <3>7. thread'[u].pc = pc /\ thread'[u].slot = slot
      BY <1>1, <3>2 DEF ThreadState
    <3>8. Resetting' <=> Resetting
      BY <1>2 DEF Resetting
    <3>9. CASE pc = "release"
      <4>1. Resetting
        BY <3>1, <3>4, <3>6, <3>9
      <4> QED
        BY <3>7, <3>8, <3>9, <4>1 DEF ThreadSlot
    <3>10. CASE pc = "holdRequest"
      <4>1. Resetting /\ dev[u].req[slot] = None /\ Absent(u, q)
        BY <3>1, <3>3, <3>4, <3>6, <3>10 DEF SlotsOf, Absent
      <4> QED
        BY <1>2, <1>3, <1>4, <3>1, <3>7, <3>8, <3>10, <4>1 DEF ThreadSlot, Absent
    <3>11. CASE pc = "holdType"
      <4>1. dev[u].req[slot] = q
        BY <3>3, <3>4, <3>6, <3>11 DEF SlotsOf
      <4> QED
        BY <1>2, <1>3, <1>4, <3>1, <3>7, <3>11, <4>1 DEF ThreadSlot
    <3> QED
      BY <3>5, <3>9, <3>10, <3>11
  <2> QED
    BY <2>1, <2>2
<1> QED
  BY <1>2, <1>6, ThreadTable

(* A slot the thread has emptied is at most of a request just sent.          *)
LEMMA ReleaseTypeTable ==
  ASSUME HfInv, TableInv, NEW u \in Unit, ReleaseType(u)
  PROVE  TableInv'
<1> DEFINE t == thread[u]
<1>1. /\ thread \in [Unit -> ThreadState] /\ t \in ThreadState /\ t.slot \in HfSlot
      /\ t.pc = "releaseType" /\ HfTypeOK
  BY UnitParts DEF HfInv, HfTypeOK, ReleaseType, ThreadAt
<1>2. /\ UNCHANGED <<emu, client, command, native>>
      /\ \A v \in Unit \ {u} : thread'[v] = thread[v]
      /\ dev' = [dev EXCEPT ![u].type[t.slot] = "none"]
  BY <1>1 DEF ReleaseType, ThreadGoes, clientVars
<1>3. /\ \A v \in Unit : dev'[v].req = dev[v].req /\ dev'[v].open = dev[v].open
      /\ \A v \in Unit, i \in HfSlot :
           dev'[v].type[i] = IF v = u /\ i = t.slot THEN "none" ELSE dev[v].type[i]
  <2>1. dev' = TypeStored(u, t.slot, "none")
    BY <1>2 DEF TypeStored
  <2> HIDE DEF t
  <2> QED
    BY <1>1, <2>1, StoreType
<1>4. thread'[u].pc = t.next /\ thread'[u].req = t.req /\ t.next \in {"release", "reply"}
  BY <1>1, UnitParts DEF ReleaseType, ThreadGoes, ThreadState, HfInv, HomeInv
<1>5. ThreadSlot(u)
  BY DEF TableInv
<1>6. Resetting' <=> Resetting
  BY <1>2 DEF Resetting
<1>7. ThreadSlot(u)'
  BY <1>1, <1>2, <1>3, <1>4, <1>5, <1>6 DEF ThreadSlot, Absent
<1>8. ASSUME NEW r \in Request, client[r] = "held", NEW s \in HfSlot, dev[Home[r]].req[s] = r
      PROVE  dev'[Home[r]].type[s] = dev[Home[r]].type[s]
  <2>1. Home[r] \in Unit /\ r # None
    BY NumberFacts
  <2>2. ~(Home[r] = u /\ s = t.slot)
    BY <1>1, <1>5, <1>8, <2>1 DEF ThreadSlot
  <2> HIDE DEF t
  <2> QED
    BY <1>3, <2>1, <2>2
<1> QED
  BY <1>2, <1>3, <1>7, <1>8, ThreadTable

-----------------------------------------------------------------------------
(* The emulator thread's steps that leave the requests in the table.         *)
LEMMA EmuTable ==
  ASSUME HfInv, TableInv, UNCHANGED <<client, command, native, thread>>, emu.pc # "addRequest",
         \A v \in Unit : dev'[v].req = dev[v].req, EmuSlot',
         ~Resetting' =>
           /\ ~Resetting /\ \A r \in Request : ClosedIdle(r)'
           /\ \A r \in Request : client[r] = "held" =>
                \A s \in HfSlot : dev[Home[r]].req[s] = r =>
                  dev'[Home[r]].type[s] = dev[Home[r]].type[s]
  PROVE  TableInv'
<1>1. ASSUME NEW v \in Unit PROVE ThreadSlot(v)'
  <2>1. ThreadSlot(v)
    BY DEF TableInv
  <2> QED
    BY <2>1 DEF ThreadSlot, Absent
<1> QED
  BY <1>1, TableFrame

(* Open, Close and the request on its way into the pipe.                     *)
LEMMA OpenTable ==
  ASSUME HfInv, TableInv, NEW u \in Unit,
         OpenEnds \/ OpenAgain(u) \/ Close(u) \/ CloseEnds \/ SendRequest
  PROVE  TableInv'
<1>1. dev \in [Unit -> Device] /\ emu.unit \in Unit /\ \A v \in Unit : dev[v] \in Device
  BY EmuParts DEF HfInv, HfTypeOK
<1>2. UNCHANGED <<client, command, native, thread>>
  BY DEF OpenEnds, OpenAgain, Close, CloseEnds, SendRequest, clientVars
<1>3. emu.pc \notin {"addRequest", "addType", "abort", "abortType", "resetUnit", "resetWait"}
  BY DEF OpenEnds, OpenAgain, Close, CloseEnds, SendRequest, EmuAt
<1>4. emu.next = "run" /\ ~Resetting
  BY <1>3 DEF HfInv, EmuInv, Resetting
<1>5. emu'.pc \in {"run", "close"}
  <2>1. AtRest.pc = "run" /\ [AtRest EXCEPT !.pc = "close", !.unit = u].pc = "close"
    BY DEF AtRest
  <2>2. OpenEnds \/ CloseEnds \/ SendRequest => emu' = AtRest
    BY DEF OpenEnds, CloseEnds, SendRequest
  <2>3. OpenAgain(u) \/ Close(u) =>
          emu.pc = "run" /\ emu' \in {emu, [AtRest EXCEPT !.pc = "close", !.unit = u]}
    BY DEF OpenAgain, Close, EmuAt
  <2> QED
    BY <2>1, <2>2, <2>3
<1>6. EmuSlot'
  BY <1>5 DEF EmuSlot
<1>7. \A v \in Unit : dev'[v].req = dev[v].req /\ dev'[v].type = dev[v].type
  <2>1. CASE OpenEnds
    BY <1>1, <2>1 DEF OpenEnds, Device
  <2>2. CASE OpenAgain(u)
    BY <1>1, <2>2 DEF OpenAgain, Device
  <2>3. CASE Close(u)
    BY <1>1, <2>3 DEF Close, Device
  <2>4. CASE CloseEnds
    BY <1>1, <2>4 DEF CloseEnds, Device
  <2>5. CASE SendRequest
    BY <1>1, <2>5 DEF SendRequest, Device
  <2> QED
    BY <2>1, <2>2, <2>3, <2>4, <2>5
<1>8. ASSUME NEW r \in Request PROVE ClosedIdle(r)'
  <2>1. ClosedIdle(r) /\ Home[r] \in Unit /\ dev[Home[r]].open \in Nat
    BY <1>1, <1>4, NumberFacts DEF TableInv, Registered, Device
  <2>2. CASE OpenEnds
    <3>1. dev'[Home[r]].open = IF Home[r] = emu.unit THEN dev[Home[r]].open + 1 ELSE dev[Home[r]].open
      BY <1>1, <2>1, <2>2 DEF OpenEnds, Device
    <3> QED
      BY <1>2, <2>1, <3>1 DEF ClosedIdle
  <2>3. CASE OpenAgain(u)
    <3>1. dev'[Home[r]].open = IF Home[r] = u THEN dev[Home[r]].open + 1 ELSE dev[Home[r]].open
      BY <1>1, <2>1, <2>3 DEF OpenAgain, Device
    <3> QED
      BY <1>2, <2>1, <3>1 DEF ClosedIdle
  <2>4. CASE Close(u)
    <3>1. dev'[Home[r]].open = IF Home[r] = u THEN dev[Home[r]].open - 1 ELSE dev[Home[r]].open
      BY <1>1, <2>1, <2>4 DEF Close, Device
    <3>2. dev[u].open = 1 /\ Home[r] = u => client[r] = "idle"
      BY <2>4 DEF Close, AllBack
    <3> QED
      BY <1>2, <2>1, <3>1, <3>2 DEF ClosedIdle
  <2>5. CASE CloseEnds
    <3>1. dev'[Home[r]].open = dev[Home[r]].open
      BY <1>1, <2>1, <2>5 DEF CloseEnds, Device
    <3> QED
      BY <1>2, <2>1, <3>1 DEF ClosedIdle
  <2>6. CASE SendRequest
    <3>1. dev'[Home[r]].open = dev[Home[r]].open
      BY <1>1, <2>1, <2>6 DEF SendRequest, Device
    <3> QED
      BY <1>2, <2>1, <3>1 DEF ClosedIdle
  <2> QED
    BY <2>2, <2>3, <2>4, <2>5, <2>6
<1> QED
  BY <1>2, <1>3, <1>4, <1>6, <1>7, <1>8, NumberFacts, EmuTable

(* AbortIO's call and the reset's way to the next request or unit.           *)
LEMMA ResetTable ==
  ASSUME HfInv, TableInv, Hasty = FALSE,
         Reset \/ ResetAborts \/ ResetStops \/ \E r \in Request : AbortIO(r)
  PROVE  TableInv'
<1>1. /\ dev \in [Unit -> Device] /\ emu.unit \in Unit /\ emu \in EmuState
      /\ \A v \in Unit : dev[v] \in Device
  BY EmuParts DEF HfInv, HfTypeOK
<1>2. UNCHANGED <<client, command, native, thread>>
  BY DEF Reset, ResetAborts, ResetStops, AbortIO, clientVars
<1>3. emu.pc # "addRequest"
  BY DEF Reset, ResetAborts, ResetStops, AbortIO, EmuAt
<1>4. \A v \in Unit : dev'[v].req = dev[v].req /\ dev'[v].type = dev[v].type /\ dev'[v].open = dev[v].open
  <2>1. CASE UNCHANGED dev
    BY <2>1
  <2>2. CASE ResetStops
    BY <1>1, <2>2 DEF ResetStops, Device
  <2> QED
    BY <2>1, <2>2 DEF Reset, ResetAborts, AbortIO
<1>5. CASE Reset \/ ResetStops
  <2>1. emu'.pc \in {"resetUnit", "resetWait"}
    BY <1>1, <1>5 DEF Reset, ResetStops, EmuState, AtRest
  <2>2. EmuSlot' /\ Resetting'
    BY <2>1 DEF EmuSlot, Resetting
  <2> QED
    BY <1>2, <1>3, <1>4, <2>2, EmuTable
<1>6. CASE ResetAborts
  <2>1. /\ emu'.pc = "abort" /\ emu'.next = "resetUnit" /\ emu'.unit = emu.unit
        /\ emu'.req = dev[emu.unit].req[emu.unit] /\ emu'.req # None
    BY <1>1, <1>6 DEF ResetAborts, EmuState
  <2>2. Home[emu'.req] = emu'.unit
    <3>1. emu.unit \in HfSlot /\ InTable
      BY <1>1, NumberFacts DEF TableInv
    <3> QED
      BY <1>1, <2>1, <3>1 DEF InTable
  <2>3. EmuSlot' /\ Resetting'
    BY <2>1, <2>2 DEF EmuSlot, Resetting
  <2> QED
    BY <1>2, <1>3, <1>4, <2>3, EmuTable
<1>7. ASSUME NEW q \in Request, AbortIO(q) PROVE TableInv'
  <2>1. /\ emu'.pc = "abort" /\ emu'.next = "run" /\ emu'.unit = Home[q] /\ emu'.req = q
        /\ emu.pc = "run"
    BY <1>7 DEF AbortIO, EmuAt, AtRest
  <2>2. client[q] = "held" \/ command[q] # "add"
    BY <1>7 DEF AbortIO
  <2>3. EmuSlot'
    BY <1>2, <2>1, <2>2 DEF EmuSlot
  <2>4. ~Resetting
    BY <2>1 DEF HfInv, EmuInv, Resetting
  <2>5. \A r \in Request : ClosedIdle(r)'
    BY <1>2, <1>4, <2>4, NumberFacts DEF TableInv, Registered, ClosedIdle
  <2> QED
    BY <1>2, <1>3, <1>4, <2>3, <2>4, <2>5, NumberFacts, EmuTable
<1> QED
  BY <1>5, <1>6, <1>7

(* A store of a type: AddType's is of a request that was sent, AbortType's   *)
(* into a slot that is empty.                                                *)
LEMMA TypeTable ==
  ASSUME HfInv, TableInv, AddType \/ AbortType
  PROVE  TableInv'
<1>1. /\ emu.unit \in Unit /\ emu \in EmuState /\ emu.slot \in HfSlot /\ HfTypeOK
      /\ emu.next \in {"run", "resetUnit"}
  BY EmuParts DEF HfInv, HfTypeOK
<1>2. /\ UNCHANGED <<client, command, native, thread>> /\ emu.pc \in {"addType", "abortType"}
      /\ (AddType => emu.pc = "addType") /\ (AbortType => emu.pc = "abortType")
  BY DEF AddType, AbortType, EmuAt, clientVars
<1>3. PICK x \in {"temp", "none"} : dev' = TypeStored(emu.unit, emu.slot, x)
  BY DEF AddType, AbortType, TypeStored
<1>4. /\ \A v \in Unit : dev'[v].req = dev[v].req /\ dev'[v].open = dev[v].open
      /\ \A v \in Unit, i \in HfSlot :
           dev'[v].type[i] = IF v = emu.unit /\ i = emu.slot THEN x ELSE dev[v].type[i]
  BY <1>1, <1>3, StoreType
<1>5. emu'.pc \in {"send", "run", "resetUnit"} /\ emu'.next = emu.next
  BY <1>1 DEF AddType, AbortType, EmuState
<1>6. EmuSlot' /\ EmuSlot
  BY <1>5 DEF EmuSlot, TableInv
<1>7. Resetting => Resetting'
  <2>1. CASE AddType
    <3>1. emu.next = "run" /\ ~Resetting
      BY <1>2, <2>1 DEF HfInv, EmuInv, Resetting
    <3> QED
      BY <3>1
  <2>2. CASE AbortType
    <3>1. Resetting => emu.next = "resetUnit"
      BY <1>2, <2>2 DEF Resetting
    <3> QED
      BY <1>5, <3>1 DEF Resetting
  <2> QED
    BY <2>1, <2>2
<1>8. ASSUME ~Resetting, NEW r \in Request, client[r] = "held", NEW s \in HfSlot,
             dev[Home[r]].req[s] = r
      PROVE  dev'[Home[r]].type[s] = dev[Home[r]].type[s]
  <2>1. Home[r] \in Unit /\ r # None
    BY NumberFacts
  <2>2. ~(Home[r] = emu.unit /\ s = emu.slot)
    <3>1. CASE emu.pc = "addType"
      <4>1. client[emu.req] = "sent" /\ dev[emu.unit].req[emu.slot] = emu.req
        BY <1>6, <3>1, EmuFacts DEF EmuSlot
      <4> QED
        BY <1>8, <4>1
    <3>2. CASE emu.pc = "abortType"
      BY <1>6, <1>8, <2>1, <3>2 DEF EmuSlot
    <3> QED
      BY <1>2, <3>1, <3>2
  <2> QED
    BY <1>4, <2>1, <2>2
<1>9. ~Resetting => \A r \in Request : ClosedIdle(r)'
  BY <1>2, <1>4, NumberFacts DEF TableInv, Registered, ClosedIdle
<1> QED
  BY <1>2, <1>4, <1>6, <1>7, <1>8, <1>9, EmuTable

-----------------------------------------------------------------------------
(* A request that is sent takes a free slot.                                 *)
LEMMA StoreTable ==
  ASSUME HfInv, TableInv, NEW u \in Unit, NEW s \in HfSlot, NEW q \in Request,
         Home[q] = u, client[q] = "sent", Times(q, native) = 0,
         dev[u].req[s] = None, Absent(u, q), dev' = ReqStored(u, s, q),
         UNCHANGED <<client, command, native>>, EmuSlot', \A v \in Unit : ThreadSlot(v)',
         ~Resetting' =>
           ~Resetting /\ \A r \in Request : emu.pc = "addRequest" /\ emu.req = r => r = q
  PROVE  TableInv'
<1>1. /\ \A v \in Unit, i \in HfSlot : dev'[v].req[i] = IF v = u /\ i = s THEN q ELSE dev[v].req[i]
      /\ \A v \in Unit : dev'[v].type = dev[v].type /\ dev'[v].open = dev[v].open
  BY StoreReq DEF HfInv
<1>2. InTable'
  BY <1>1 DEF TableInv, InTable
<1>3. OneSlot'
  BY <1>1 DEF TableInv, OneSlot, Absent
<1>4. ASSUME ~Resetting' PROVE Registered'
  <2> SUFFICES ASSUME NEW r \in Request PROVE HeldIn(r)' /\ AddIn(r)' /\ ClosedIdle(r)'
    BY DEF Registered
  <2>1. HeldIn(r) /\ AddIn(r) /\ ClosedIdle(r) /\ Home[r] \in Unit /\ r # None
    BY <1>4, NumberFacts DEF TableInv, Registered
  <2>2. \A i \in HfSlot : dev[Home[r]].req[i] = r => dev'[Home[r]].req[i] = r
    BY <1>1, <2>1
  <2>3. HeldIn(r)'
    BY <1>1, <2>1, <2>2 DEF HeldIn
  <2>4. AddIn(r)'
    <3>1. CASE r = q
      <4>1. dev'[Home[r]].req[s] = r
        BY <1>1, <3>1
      <4> QED
        BY <4>1 DEF AddIn, Present
    <3>2. CASE r # q
      BY <1>4, <2>1, <2>2, <3>2 DEF AddIn, Present
    <3> QED
      BY <3>1, <3>2
  <2>5. ClosedIdle(r)'
    BY <1>1, <2>1 DEF ClosedIdle
  <2> QED
    BY <2>3, <2>4, <2>5
<1> QED
  BY <1>2, <1>3, <1>4 DEF TableInv

(* add_async_request on the emulator thread: its slot is free still, no      *)
(* thread has its request yet, and none is between DoAdd and its stores for  *)
(* want of a slot.                                                           *)
LEMMA AddTable ==
  ASSUME HfInv, TableInv, AddRequest
  PROVE  TableInv'
<1>1. emu.pc = "addRequest" /\ UNCHANGED <<client, command, native, thread>> /\ emu \in EmuState
  BY DEF AddRequest, EmuAt, clientVars, HfInv, HfTypeOK
<1>2. PICK u \in Unit, s \in HfSlot, q \in Request : u = emu.unit /\ s = emu.slot /\ q = emu.req
  BY <1>1, EmuFacts
<1>3. Home[q] = u /\ client[q] = "sent" /\ Times(q, native) = 0 /\ ~Resetting
  BY <1>1, <1>2, EmuFacts
<1>4. dev[u].req[s] = None /\ Absent(u, q)
  BY <1>1, <1>2 DEF TableInv, EmuSlot
<1>5. dev' = ReqStored(u, s, q)
  BY <1>2 DEF AddRequest, ReqStored
<1>6. /\ emu'.pc = "addType" /\ emu'.unit = u /\ emu'.slot = s /\ emu'.req = q /\ emu'.next = emu.next
  BY <1>1, <1>2 DEF AddRequest, EmuState
<1>7. \A v \in Unit, i \in HfSlot : dev'[v].req[i] = IF v = u /\ i = s THEN q ELSE dev[v].req[i]
  BY <1>5, StoreReq DEF HfInv
<1>8. EmuSlot'
  BY <1>6, <1>7 DEF EmuSlot
<1>9. ~Resetting'
  BY <1>3, <1>6 DEF Resetting
<1>10. ASSUME NEW v \in Unit PROVE ThreadSlot(v)'
  <2>1. ThreadSlot(v) /\ thread[v].slot \in HfSlot
    BY UnitParts DEF TableInv, HfInv
  <2>2. thread[v].pc \in {"holdType", "releaseType", "reply"} =>
          thread[v].req # None /\ thread[v].req # q
    BY <1>1, <1>2, HandFacts DEF Working
  <2> QED
    BY <1>1, <1>3, <1>4, <1>7, <1>9, <2>1, <2>2 DEF ThreadSlot, Absent
<1> QED
  BY <1>1, <1>2, <1>3, <1>4, <1>5, <1>8, <1>9, <1>10, StoreTable

(* A thread's store of its request, which a reset has taken out of the table.*)
LEMMA HoldTable ==
  ASSUME HfInv, TableInv, NEW u \in Unit, ThreadAt(u, "holdRequest"), Hold(u)
  PROVE  TableInv'
<1>1. /\ thread \in [Unit -> ThreadState] /\ thread[u] \in ThreadState /\ thread[u].pc = "holdRequest"
      /\ thread[u].slot \in HfSlot
  BY UnitParts DEF HfInv, HfTypeOK, ThreadAt
<1>2. PICK s \in HfSlot, q \in Request : s = thread[u].slot /\ q = thread[u].req
  BY <1>1, HandFacts DEF Working
<1>3. Home[q] = u /\ client[q] = "sent" /\ Times(q, native) = 0
  BY <1>1, <1>2, HandFacts DEF Working
<1>4. /\ Resetting /\ dev[u].req[s] = None /\ Absent(u, q) /\ command[q] = "add"
  BY <1>1, <1>2 DEF TableInv, ThreadSlot
<1>5. /\ dev' = ReqStored(u, s, q) /\ UNCHANGED <<client, command, native, emu>>
      /\ \A v \in Unit \ {u} : thread'[v] = thread[v]
      /\ thread'[u].pc = "holdType" /\ thread'[u].req = q
  BY <1>1, <1>2 DEF Hold, ThreadAt, ThreadGoes, ReqStored, ThreadState
<1>6. Resetting'
  BY <1>4, <1>5 DEF Resetting
<1>7. EmuSlot'
  <2>1. emu.pc \notin {"addRequest", "addType"}
    BY <1>4 DEF HfInv, EmuInv, Resetting
  <2>2. EmuSlot
    BY DEF TableInv
  <2> QED
    BY <1>5, <1>6, <2>1, <2>2 DEF EmuSlot
<1>8. ASSUME NEW v \in Unit PROVE ThreadSlot(v)'
  <2>1. CASE v = u
    BY <1>4, <1>5, <1>6, <2>1 DEF ThreadSlot
  <2>2. CASE v # u
    <3>1. \A i \in HfSlot : dev'[v].req[i] = dev[v].req[i]
      BY <1>5, <2>2, StoreReq DEF HfInv
    <3>2. ThreadSlot(v) /\ thread'[v] = thread[v] /\ thread[v].slot \in HfSlot
      BY <1>5, <2>2, UnitParts DEF TableInv, HfInv
    <3> QED
      BY <1>4, <1>5, <1>6, <3>1, <3>2 DEF ThreadSlot, Absent
  <2> QED
    BY <2>1, <2>2
<1> QED
  BY <1>2, <1>3, <1>4, <1>5, <1>6, <1>7, <1>8, StoreTable

(* The device holds the request now: its slot says so.                       *)
LEMMA HeldTable ==
  ASSUME HfInv, TableInv, NEW u \in Unit, ThreadAt(u, "holdType"), Hold(u)
  PROVE  TableInv'
<1>1. /\ thread \in [Unit -> ThreadState] /\ thread[u] \in ThreadState /\ thread[u].pc = "holdType"
      /\ thread[u].slot \in HfSlot /\ client \in [Request -> {"idle", "sent", "held"}]
  BY UnitParts DEF HfInv, HfTypeOK, ThreadAt
<1>2. PICK s \in HfSlot, q \in Request : s = thread[u].slot /\ q = thread[u].req
  BY <1>1, HandFacts DEF Working
<1>3. Home[q] = u /\ client[q] = "sent" /\ command[q] = "add" /\ (~Resetting => dev[u].req[s] = q)
      /\ ~(emu.pc \in {"addRequest", "addType"} /\ emu.req = q)
  BY <1>1, <1>2, HandFacts DEF Working, TableInv, ThreadSlot
<1>4. /\ dev' = TypeStored(u, s, "changeint") /\ UNCHANGED <<command, native, emu>>
      /\ \A v \in Unit \ {u} : thread'[v] = thread[v]
      /\ client' = [client EXCEPT ![q] = "held"] /\ thread'[u].pc = "unlock"
  BY <1>1, <1>2 DEF Hold, ThreadAt, ThreadGoes, TypeStored, ThreadState
<1>5. /\ \A v \in Unit : dev'[v].req = dev[v].req /\ dev'[v].open = dev[v].open
      /\ \A v \in Unit, i \in HfSlot :
           dev'[v].type[i] = IF v = u /\ i = s THEN "changeint" ELSE dev[v].type[i]
  BY <1>4, StoreType DEF HfInv
<1>6. client'[q] = "held" /\ \A r \in Request : r # q => client'[r] = client[r]
  BY <1>1, <1>4
<1>7. Resetting' <=> Resetting
  BY <1>4 DEF Resetting
<1>8. InTable' /\ OneSlot'
  <2>1. \A v \in Unit, i \in HfSlot : dev[v].req[i] # None => dev[v].req[i] \in Request
    BY UnitParts DEF HfInv
  <2> QED
    BY <1>4, <1>5, <1>6, <2>1 DEF TableInv, InTable, OneSlot
<1>9. EmuSlot'
  <2>1. EmuSlot /\ emu.unit \in Unit
    BY EmuParts DEF HfInv, TableInv
  <2>2. emu.pc = "abort" => emu.req \in Request
    BY EmuParts DEF HfInv, EmuInv
  <2> QED
    BY <1>4, <1>5, <1>6, <1>7, <2>1, <2>2 DEF EmuSlot, Absent
<1>10. ASSUME NEW v \in Unit PROVE ThreadSlot(v)'
  <2>1. CASE v = u
    BY <1>4, <2>1 DEF ThreadSlot
  <2>2. CASE v # u
    <3>1. ThreadSlot(v) /\ thread'[v] = thread[v] /\ thread[v].slot \in HfSlot
      BY <1>4, <2>2, UnitParts DEF TableInv, HfInv
    <3>2. \A i \in HfSlot : dev[v].req[i] # None => dev[v].req[i] \in Request /\ dev[v].req[i] # q
      BY <1>3, <2>2, UnitParts DEF HfInv, TableInv, InTable
    <3> QED
      BY <1>4, <1>5, <1>6, <1>7, <3>1, <3>2 DEF ThreadSlot, Absent
  <2> QED
    BY <2>1, <2>2
<1>11. ASSUME ~Resetting' PROVE Registered'
  <2> SUFFICES ASSUME NEW r \in Request PROVE HeldIn(r)' /\ AddIn(r)' /\ ClosedIdle(r)'
    BY DEF Registered
  <2>1. HeldIn(r) /\ AddIn(r) /\ ClosedIdle(r) /\ Home[r] \in Unit
    BY <1>7, <1>11, NumberFacts DEF TableInv, Registered
  <2>2. HeldIn(r)'
    <3>1. CASE r = q
      <4>1. dev'[Home[r]].req[s] = r /\ dev'[Home[r]].type[s] = "changeint"
        BY <1>3, <1>5, <1>7, <1>11, <3>1
      <4> QED
        BY <4>1 DEF HeldIn
    <3>2. CASE r # q
      BY <1>5, <1>6, <2>1, <3>2 DEF HeldIn
    <3> QED
      BY <3>1, <3>2
  <2>3. AddIn(r)'
    BY <1>4, <1>5, <1>6, <2>1 DEF AddIn, Present
  <2>4. ClosedIdle(r)'
    <3>1. dev'[Home[r]].open = dev[Home[r]].open
      BY <1>5, <2>1
    <3> QED
      BY <1>3, <1>6, <2>1, <3>1 DEF ClosedIdle
  <2> QED
    BY <2>2, <2>3, <2>4
<1> QED
  BY <1>8, <1>9, <1>10, <1>11 DEF TableInv

-----------------------------------------------------------------------------
(* A request is taken out of the table by emptying the first slot it has.    *)
LEMMA TakenOut ==
  ASSUME HfTypeOK, InTable, OneSlot, NEW u \in Unit, NEW q \in Request, Home[q] = u,
         \/ SlotsOf(u, q) = {} /\ UNCHANGED dev
         \/ SlotsOf(u, q) # {} /\ dev' = ReqStored(u, First(SlotsOf(u, q)), None)
  PROVE  /\ \A v \in Unit, i \in HfSlot :
              dev'[v].req[i] = IF dev[v].req[i] = q THEN None ELSE dev[v].req[i]
         /\ \A v \in Unit : dev'[v].type = dev[v].type /\ dev'[v].open = dev[v].open
<1>1. q # None
  BY NumberFacts
<1>2. \A v \in Unit, i \in HfSlot : dev[v].req[i] = q => v = u
  BY <1>1 DEF InTable
<1>3. CASE SlotsOf(u, q) = {} /\ UNCHANGED dev
  BY <1>2, <1>3 DEF SlotsOf
<1>4. CASE SlotsOf(u, q) # {} /\ dev' = ReqStored(u, First(SlotsOf(u, q)), None)
  <2>1. PICK s \in HfSlot : s = First(SlotsOf(u, q)) /\ dev[u].req[s] = q
    BY <1>4, ScanFacts DEF SlotsOf
  <2>2. dev' = ReqStored(u, s, None)
    BY <1>4, <2>1
  <2>3. /\ \A v \in Unit, i \in HfSlot :
             dev'[v].req[i] = IF v = u /\ i = s THEN None ELSE dev[v].req[i]
        /\ \A v \in Unit : dev'[v].type = dev[v].type /\ dev'[v].open = dev[v].open
    BY <2>2, StoreReq
  <2>4. \A v \in Unit, i \in HfSlot : dev[v].req[i] = q <=> v = u /\ i = s
    BY <1>1, <1>2, <2>1 DEF OneSlot
  <2> QED
    BY <2>3, <2>4
<1> QED
  BY <1>3, <1>4

(* No invariant of the table is lost when a request leaves it that is        *)
(* neither held any more nor an ADDCHANGEINT to be held.                     *)
LEMMA TakeTable ==
  ASSUME HfInv, TableInv, NEW q \in Request, UNCHANGED <<command, native>>,
         \A v \in Unit, i \in HfSlot :
           dev'[v].req[i] = IF dev[v].req[i] = q THEN None ELSE dev[v].req[i],
         \A v \in Unit : dev'[v].type = dev[v].type /\ dev'[v].open = dev[v].open,
         \A r \in Request : r # q => client'[r] = client[r],
         client'[q] \in {client[q], "idle"},
         EmuSlot', \A v \in Unit : ThreadSlot(v)',
         ~Resetting' =>
           /\ ~Resetting /\ client'[q] # "held" /\ (client'[q] = "sent" => command[q] # "add")
           /\ \A r \in Request : emu.pc = "addRequest" /\ emu.req = r =>
                emu'.pc = "addRequest" /\ emu'.req = r
  PROVE  TableInv'
<1>1. InTable' /\ OneSlot'
  <2>1. \A v \in Unit, i \in HfSlot : dev[v].req[i] # None => dev[v].req[i] \in Request
    BY UnitParts DEF HfInv
  <2>2. InTable'
    BY <2>1 DEF TableInv, InTable
  <2>3. OneSlot'
    BY DEF TableInv, OneSlot
  <2> QED
    BY <2>2, <2>3
<1>2. ASSUME ~Resetting' PROVE Registered'
  <2> SUFFICES ASSUME NEW r \in Request PROVE HeldIn(r)' /\ AddIn(r)' /\ ClosedIdle(r)'
    BY DEF Registered
  <2>1. HeldIn(r) /\ AddIn(r) /\ ClosedIdle(r) /\ Home[r] \in Unit
    BY <1>2, NumberFacts DEF TableInv, Registered
  <2>2. ClosedIdle(r)'
    BY <2>1 DEF ClosedIdle
  <2>3. CASE r = q
    BY <1>2, <2>2, <2>3 DEF HeldIn, AddIn
  <2>4. CASE r # q
    BY <1>2, <2>1, <2>2, <2>4 DEF HeldIn, AddIn, Present
  <2> QED
    BY <2>3, <2>4
<1> QED
  BY <1>1, <1>2 DEF TableInv

(* The table step of REMCHANGEINT and of every reply.                        *)
LEMMA ReleaseTable ==
  ASSUME HfInv, TableInv, NEW u \in Unit, Release(u)
  PROVE  TableInv'
<1> DEFINE t == thread[u]
           next == IF t.pc = "rem" THEN "release" ELSE "reply"
<1>1. /\ thread \in [Unit -> ThreadState] /\ t \in ThreadState /\ t.pc \in {"rem", "release"}
      /\ UNCHANGED <<client, command, native, emu>> /\ next \in {"release", "reply"}
  BY DEF HfInv, HfTypeOK, Release, clientVars
<1>2. PICK q \in Request : q = t.req
  BY <1>1, HandFacts DEF Working
<1>3. Home[q] = u /\ client[q] = "sent" /\ ~(emu.pc \in {"addRequest", "addType"} /\ emu.req = q)
  BY <1>1, <1>2, HandFacts DEF Working
<1>4. ~Resetting => command[q] # "add"
  BY <1>1, <1>2 DEF TableInv, ThreadSlot
<1>5. /\ \A v \in Unit \ {u} : thread'[v] = thread[v]
      /\ thread'[u].req = q
      /\ \/ SlotsOf(u, q) = {} /\ UNCHANGED dev /\ thread'[u].pc = next
         \/ /\ SlotsOf(u, q) # {} /\ dev' = ReqStored(u, First(SlotsOf(u, q)), None)
            /\ thread'[u].pc = "releaseType" /\ thread'[u].slot = First(SlotsOf(u, q))
            /\ thread'[u].next = next
  BY <1>1, <1>2 DEF Release, ThreadAt, ThreadGoes, ReqStored, ThreadState
<1> HIDE DEF t
<1>6. /\ \A v \in Unit, i \in HfSlot :
           dev'[v].req[i] = IF dev[v].req[i] = q THEN None ELSE dev[v].req[i]
      /\ \A v \in Unit : dev'[v].type = dev[v].type /\ dev'[v].open = dev[v].open
  BY <1>3, <1>5, TakenOut DEF HfInv, TableInv
<1>7. Resetting' <=> Resetting
  BY <1>1 DEF Resetting
<1>8. EmuSlot'
  <2>1. EmuSlot /\ emu.unit \in Unit /\ emu.slot \in HfSlot
    BY EmuParts DEF HfInv, TableInv
  <2> QED
    BY <1>1, <1>3, <1>6, <1>7, <2>1 DEF EmuSlot, Absent
<1>9. ASSUME NEW v \in Unit PROVE ThreadSlot(v)'
  <2>1. CASE v = u
    <3>1. Absent(u, q)'
      <4>1. q # None
        BY NumberFacts
      <4>2. \A i \in HfSlot : dev'[u].req[i] # q
        BY <1>6, <4>1
      <4> QED
        BY <4>2 DEF Absent
    <3>2. thread'[u].pc = "releaseType" => dev'[u].req[thread'[u].slot] = None
      <4>1. SlotsOf(u, q) # {} =>
              First(SlotsOf(u, q)) \in HfSlot /\ dev[u].req[First(SlotsOf(u, q))] = q
        BY ScanFacts DEF SlotsOf
      <4> QED
        BY <1>1, <1>5, <1>6, <4>1
    <3>3. thread'[u].pc \in {"release", "releaseType", "reply"}
      BY <1>1, <1>5
    <3>4. \A i \in HfSlot : dev'[u].req[i] # thread'[u].req
      BY <1>5, <3>1 DEF Absent
    <3>5. ~Resetting' => command'[thread'[u].req] # "add"
      BY <1>1, <1>4, <1>5, <1>7
    <3> QED
      BY <2>1, <3>2, <3>3, <3>4, <3>5 DEF ThreadSlot, Absent
  <2>2. CASE v # u
    <3>1. ThreadSlot(v) /\ thread'[v] = thread[v] /\ thread[v].slot \in HfSlot
      BY <1>5, <2>2, UnitParts DEF TableInv, HfInv
    <3>2. \A i \in HfSlot : dev'[v].req[i] = dev[v].req[i]
      BY <1>3, <1>6, <2>2, NumberFacts DEF TableInv, InTable
    <3> QED
      BY <1>1, <1>7, <3>1, <3>2 DEF ThreadSlot, Absent
  <2> QED
    BY <2>1, <2>2
<1> QED
  BY <1>1, <1>3, <1>4, <1>6, <1>7, <1>8, <1>9, TakeTable

(* AbortIO and the reset take a request out of the table; what was held is   *)
(* its program's again.                                                      *)
LEMMA AbortTable ==
  ASSUME HfInv, TableInv, AbortAsync
  PROVE  TableInv'
<1>1. /\ emu \in EmuState /\ emu.pc = "abort" /\ emu.next \in {"run", "resetUnit"}
      /\ client \in [Request -> {"idle", "sent", "held"}] /\ HfTypeOK
  BY EmuParts DEF AbortAsync, EmuAt, HfInv, HfTypeOK
<1>2. PICK u \in Unit, q \in Request : u = emu.unit /\ q = emu.req
  BY <1>1, EmuParts DEF HfInv, EmuInv
<1>3. Home[q] = u /\ (~Resetting => client[q] = "held" \/ command[q] # "add")
  BY <1>1, <1>2 DEF TableInv, EmuSlot
<1>4. /\ UNCHANGED <<command, native, thread>>
      /\ client' = [client EXCEPT ![q] = IF @ = "held" THEN "idle" ELSE @]
  BY <1>2 DEF AbortAsync
<1>5. /\ emu'.unit = u /\ emu'.req = q /\ emu'.next = emu.next
      /\ \/ SlotsOf(u, q) = {} /\ UNCHANGED dev /\ emu'.pc = emu.next
         \/ /\ SlotsOf(u, q) # {} /\ dev' = ReqStored(u, First(SlotsOf(u, q)), None)
            /\ emu'.pc = "abortType" /\ emu'.slot = First(SlotsOf(u, q))
  BY <1>1, <1>2 DEF AbortAsync, EmuState, ReqStored
<1>6. /\ \A v \in Unit, i \in HfSlot :
           dev'[v].req[i] = IF dev[v].req[i] = q THEN None ELSE dev[v].req[i]
      /\ \A v \in Unit : dev'[v].type = dev[v].type /\ dev'[v].open = dev[v].open
  BY <1>1, <1>3, <1>5, TakenOut DEF TableInv
<1>7. Resetting' <=> Resetting
  BY <1>1, <1>5 DEF Resetting
<1>8. /\ client'[q] = IF client[q] = "held" THEN "idle" ELSE client[q]
      /\ \A r \in Request : r # q => client'[r] = client[r]
  BY <1>1, <1>4
<1>9. EmuSlot'
  <2>1. CASE emu'.pc = emu.next
    BY <1>1, <2>1 DEF EmuSlot
  <2>2. CASE emu'.pc = "abortType"
    <3>1. SlotsOf(u, q) # {} /\ emu'.slot = First(SlotsOf(u, q))
      BY <1>1, <1>5, <2>2
    <3>2. emu'.slot \in HfSlot /\ dev[u].req[emu'.slot] = q
      BY <3>1, ScanFacts DEF SlotsOf
    <3> QED
      BY <1>5, <1>6, <2>2, <3>2 DEF EmuSlot
  <2> QED
    BY <1>5, <2>1, <2>2
<1>10. ASSUME NEW v \in Unit PROVE ThreadSlot(v)'
  <2>1. ThreadSlot(v) /\ thread'[v] = thread[v] /\ thread[v].slot \in HfSlot
    BY <1>1, <1>4, UnitParts DEF TableInv
  <2>2. thread[v].pc = "holdType" /\ ~Resetting => thread[v].req # q
    <3>1. ASSUME thread[v].pc = "holdType", ~Resetting, thread[v].req = q PROVE FALSE
      <4>1. client[q] = "sent"
        BY <3>1, HandFacts DEF Working
      <4>2. command[q] = "add"
        BY <2>1, <3>1 DEF ThreadSlot
      <4> QED
        BY <1>3, <3>1, <4>1, <4>2
    <3> QED
      BY <3>1
  <2>3. \A i \in HfSlot : dev'[v].req[i] # None =>
          dev[v].req[i] = dev'[v].req[i] /\ client'[dev[v].req[i]] = client[dev[v].req[i]]
    <3>1. \A i \in HfSlot : dev[v].req[i] # None => dev[v].req[i] \in Request
      BY UnitParts DEF HfInv
    <3> QED
      BY <1>6, <1>8, <3>1
  <2>4. \A i \in HfSlot : dev[v].req[i] = None => dev'[v].req[i] = None
    BY <1>6
  <2>5. \A r : Absent(v, r) /\ r # None => Absent(v, r)'
    BY <1>6 DEF Absent
  <2>6. thread[v].pc \in {"holdRequest", "releaseType", "reply"} => thread[v].req # None
    BY HandFacts DEF Working
  <2>7. thread[v].pc = "holdType" /\ ~Resetting => dev'[v].req[thread[v].slot] = thread[v].req
    BY <1>6, <2>1, <2>2 DEF ThreadSlot
  <2> QED
    BY <1>4, <1>7, <2>1, <2>3, <2>4, <2>5, <2>6, <2>7 DEF ThreadSlot, Absent
<1>11. ~Resetting => client'[q] # "held" /\ (client'[q] = "sent" => command[q] # "add")
  BY <1>1, <1>3, <1>8
<1> QED
  BY <1>1, <1>4, <1>6, <1>7, <1>8, <1>9, <1>10, <1>11, TakeTable

-----------------------------------------------------------------------------
(* A reply is of a request that the table has no more.                       *)
LEMMA ReplyTable ==
  ASSUME HfInv, TableInv, NEW u \in Unit, Reply(u)
  PROVE  TableInv'
<1>1. /\ thread \in [Unit -> ThreadState] /\ thread[u] \in ThreadState /\ thread[u].pc = "reply"
      /\ native \in Seq(Request \cup {Stale})
  BY UnitParts DEF HfInv, HfTypeOK, Reply, ThreadAt
<1>2. PICK q \in Request : q = thread[u].req
  BY <1>1, HandFacts DEF Working
<1>3. Home[q] = u /\ Absent(u, q)
  BY <1>1, <1>2, HandFacts DEF Working, TableInv, ThreadSlot
<1>4. /\ UNCHANGED <<client, command, dev, emu>> /\ native' = Append(native, q)
      /\ \A v \in Unit \ {u} : thread'[v] = thread[v]
      /\ thread'[u].pc = "unlock"
  BY <1>1, <1>2 DEF Reply, ThreadGoes, clientVars, ThreadState
<1>5. InTable'
  <2> SUFFICES ASSUME NEW v \in Unit, NEW i \in HfSlot, dev[v].req[i] # None
               PROVE  /\ Home[dev[v].req[i]] = v /\ client[dev[v].req[i]] # "idle"
                      /\ Times(dev[v].req[i], native') = 0
    BY <1>4 DEF InTable
  <2>1. /\ Home[dev[v].req[i]] = v /\ client[dev[v].req[i]] # "idle"
        /\ Times(dev[v].req[i], native) = 0
    BY DEF TableInv, InTable
  <2>2. dev[v].req[i] # q
    BY <1>3, <2>1 DEF Absent
  <2>3. Times(dev[v].req[i], native') = 0
    BY <1>1, <1>4, <2>1, <2>2, TimesAppend DEF One
  <2> QED
    BY <2>1, <2>3
<1>6. Resetting' <=> Resetting
  BY <1>4 DEF Resetting
<1>7. OneSlot' /\ EmuSlot'
  BY <1>4, <1>6 DEF TableInv, OneSlot, EmuSlot, Absent
<1>8. ASSUME NEW v \in Unit PROVE ThreadSlot(v)'
  <2>1. CASE v = u
    BY <1>4, <2>1 DEF ThreadSlot
  <2>2. CASE v # u
    BY <1>4, <1>6, <2>2 DEF TableInv, ThreadSlot, Absent
  <2> QED
    BY <2>1, <2>2
<1>9. ~Resetting' => Registered'
  BY <1>4, <1>6 DEF TableInv, Registered, HeldIn, AddIn, ClosedIdle, Present
<1> QED
  BY <1>5, <1>7, <1>8, <1>9 DEF TableInv

(* The message that the interrupt takes has no slot either.                  *)
LEMMA InterruptTable ==
  ASSUME HfInv, TableInv, Interrupt
  PROVE  TableInv'
<1> DEFINE q == Head(native)
<1>1. /\ native \in Seq(Request \cup {Stale}) /\ native # <<>> /\ emu.pc = "run"
      /\ UNCHANGED <<command, dev, thread, emu>> /\ native' = Tail(native)
      /\ client' = [r \in Request |-> IF r = q THEN "idle" ELSE client[r]]
  BY DEF HfInv, HfTypeOK, Interrupt, EmuAt
<1>2. ASSUME NEW r, Times(r, native) = 0 PROVE r # q /\ Times(r, native') = 0
  <2>1. Times(r, native) = One(q = r) + Times(r, native')
    BY <1>1, TimesTail
  <2>2. Times(r, native') \in Nat
    <3>1. native' \in Seq(Request \cup {Stale})
      BY <1>1
    <3> QED
      BY <3>1, PlacesFinite
  <2>3. One(q = r) = IF q = r THEN 1 ELSE 0
    BY DEF One
  <2> HIDE DEF q
  <2> QED
    BY <1>2, <2>1, <2>2, <2>3
<1> HIDE DEF q
<1>3. \A v \in Unit, i \in HfSlot : dev[v].req[i] # None =>
        dev[v].req[i] \in Request /\ dev[v].req[i] # q
  BY <1>2, UnitParts DEF HfInv, TableInv, InTable
<1>4. InTable' /\ OneSlot'
  BY <1>1, <1>2, <1>3 DEF TableInv, InTable, OneSlot
<1>5. EmuSlot' /\ ~Resetting /\ ~Resetting'
  BY <1>1 DEF EmuSlot, HfInv, EmuInv, Resetting
<1>6. ASSUME NEW v \in Unit PROVE ThreadSlot(v)'
  <2>1. ThreadSlot(v) /\ thread[v].slot \in HfSlot
    BY UnitParts DEF TableInv, HfInv
  <2> QED
    BY <1>1, <1>3, <1>5, <2>1 DEF ThreadSlot, Absent
<1>7. Registered'
  <2> SUFFICES ASSUME NEW r \in Request PROVE HeldIn(r)' /\ AddIn(r)' /\ ClosedIdle(r)'
    BY DEF Registered
  <2>1. HeldIn(r) /\ AddIn(r) /\ ClosedIdle(r) /\ client'[r] \in {client[r], "idle"}
    BY <1>1, <1>5 DEF TableInv, Registered
  <2> QED
    BY <1>1, <2>1 DEF HeldIn, AddIn, ClosedIdle, Present
<1> QED
  BY <1>4, <1>5, <1>6, <1>7 DEF TableInv

(* The table has room for every request of its unit at once.                 *)
RequestsOf(u) == {r \in Request : Home[r] = u}
TableHasRoom ==
  \A u \in Unit : IsFiniteSet(RequestsOf(u)) /\ Cardinality(RequestsOf(u)) <= Slots

(* So there is a slot for a request that its program has.                    *)
LEMMA FreeSlot ==
  ASSUME TableHasRoom, HfTypeOK, InTable, OneSlot, NEW q \in Request, client[q] = "idle"
  PROVE  SlotsOf(Home[q], None) # {}
<1> DEFINE u == Home[q]
           T == RequestsOf(u) \ {q}
           f == [s \in HfSlot |-> dev[u].req[s]]
<1>1. /\ u \in Unit /\ Slots \in Nat
      /\ IsFiniteSet(RequestsOf(u)) /\ Cardinality(RequestsOf(u)) <= Slots
  BY NumberFacts DEF TableHasRoom
<1>2. SUFFICES ASSUME \A s \in HfSlot : dev[u].req[s] # None PROVE FALSE
  BY DEF SlotsOf
<1>3. \A s \in HfSlot : f[s] \in T
  BY <1>1, <1>2, UnitParts DEF InTable, RequestsOf
<1>4. f \in [HfSlot -> T]
  BY <1>3
<1>5. \A s, x \in HfSlot : f[s] = f[x] => s = x
  BY <1>1, <1>2 DEF OneSlot
<1>6. IsFiniteSet(T) /\ Cardinality(T) = Cardinality(RequestsOf(u)) - 1
      /\ Cardinality(RequestsOf(u)) \in Nat
  <2>1. q \in RequestsOf(u)
    BY DEF RequestsOf
  <2> QED
    BY <1>1, <2>1, FS_RemoveElement, FS_CardinalityType
<1>7. IsFiniteSet(HfSlot) /\ Cardinality(HfSlot) = Slots
  BY <1>1, FS_Interval DEF HfSlot
<1> HIDE DEF f, T
<1>8. Cardinality(T) < Cardinality(HfSlot)
  BY <1>1, <1>6, <1>7
<1> QED
  BY <1>4, <1>5, <1>6, <1>7, <1>8, FS_PigeonHole

(* BeginIO's scan finds the slot the request has, or a free one.             *)
LEMMA BeginTable ==
  ASSUME HfInv, TableInv, TableHasRoom, Hasty = FALSE,
         NEW q \in Request, NEW c \in {"io", "add", "rem"}, BeginIO(q, c)
  PROVE  TableInv'
<1> DEFINE u == Home[q]
           S == IF SlotsOf(u, q) # {} THEN SlotsOf(u, q) ELSE SlotsOf(u, None)
           slot == IF S = {} THEN 0 ELSE First(S)
           pc == IF S = {} THEN "send" ELSE IF SlotsOf(u, q) = {} THEN "addRequest" ELSE "addType"
<1>1. /\ UNCHANGED <<native, thread, dev>> /\ emu.pc = "run" /\ dev[u].open > 0
      /\ emu' = [AtRest EXCEPT !.pc = pc, !.unit = u, !.req = q, !.slot = slot]
      /\ client' = [client EXCEPT ![q] = "sent"] /\ command' = [command EXCEPT ![q] = c]
      /\ (client[q] = "idle" \/ (client[q] = "held" /\ c = "rem")) /\ u \in Unit
  BY NumberFacts DEF BeginIO, EmuAt
<1>2. pc \in {"send", "addRequest", "addType"} /\ (pc = "send" <=> S = {})
      /\ (pc = "addRequest" => SlotsOf(u, q) = {} /\ S = SlotsOf(u, None))
      /\ (pc = "addType" => S = SlotsOf(u, q))
  OBVIOUS
<1>3. S # {} => slot \in S /\ slot \in HfSlot
  BY <1>1, ScanFacts
<1>4. pc = "send" => client[q] # "idle"
  <2>1. client[q] = "idle" => S # {}
    BY FreeSlot DEF HfInv, TableInv
  <2> QED
    BY <1>2, <2>1
<1> HIDE DEF slot, pc
<1>5. emu'.pc = pc /\ emu'.unit = u /\ emu'.req = q /\ emu'.slot = slot /\ emu'.next = "run"
  BY <1>1 DEF AtRest
<1>6. /\ client \in [Request -> {"idle", "sent", "held"}]
      /\ command \in [Request -> {"io", "add", "rem"}]
      /\ ~Resetting /\ ~Resetting'
  BY <1>1, <1>2, <1>5 DEF HfInv, HfTypeOK, EmuInv, Resetting
<1>7. /\ client'[q] = "sent" /\ command'[q] = c
      /\ \A r \in Request : r # q => client'[r] = client[r] /\ command'[r] = command[r]
  BY <1>1, <1>6
<1>8. \A v \in Unit, i \in HfSlot : dev[v].req[i] # None => dev[v].req[i] \in Request
  BY UnitParts DEF HfInv
<1>9. InTable' /\ OneSlot'
  BY <1>1, <1>7, <1>8 DEF TableInv, InTable, OneSlot
<1>10. EmuSlot'
  <2>1. pc = "addRequest" => dev[u].req[slot] = None /\ Absent(u, q)
    BY <1>2, <1>3 DEF SlotsOf, Absent
  <2>2. pc = "addType" => dev[u].req[slot] = q
    BY <1>2, <1>3 DEF SlotsOf
  <2> QED
    BY <1>1, <1>2, <1>5, <2>1, <2>2 DEF EmuSlot, Absent
<1>11. ASSUME NEW v \in Unit PROVE ThreadSlot(v)'
  <2>1. ThreadSlot(v) /\ thread[v].slot \in HfSlot
    BY UnitParts DEF TableInv, HfInv
  <2>2. thread[v].pc \in Working \ {"unlock"} => thread[v].req \in Request /\ thread[v].req # q
    <3>1. client[q] # "sent"
      BY <1>1
    <3> QED
      BY <3>1, HandFacts
  <2>3. thread[v].pc \in Working \ {"unlock"} => command'[thread[v].req] = command[thread[v].req]
    BY <1>7, <2>2
  <2>4. \A i \in HfSlot : dev[v].req[i] # None =>
          client'[dev[v].req[i]] \in {"sent", client[dev[v].req[i]]}
    BY <1>7, <1>8
  <2> QED
    BY <1>1, <1>6, <2>1, <2>3, <2>4 DEF ThreadSlot, Absent, Working
<1>12. Registered'
  <2> SUFFICES ASSUME NEW r \in Request PROVE HeldIn(r)' /\ AddIn(r)' /\ ClosedIdle(r)'
    BY DEF Registered
  <2>1. HeldIn(r) /\ AddIn(r) /\ ClosedIdle(r) /\ Home[r] \in Unit
    BY <1>6, NumberFacts DEF TableInv, Registered
  <2>2. CASE r # q
    BY <1>1, <1>7, <2>1, <2>2 DEF HeldIn, AddIn, ClosedIdle, Present
  <2>3. CASE r = q
    <3>1. HeldIn(r)' /\ ClosedIdle(r)'
      <4>1. dev'[Home[r]].open # 0
        <5>1. dev[u].open \in Nat
          BY <1>1, UnitParts DEF HfInv
        <5> QED
          BY <1>1, <2>3, <5>1
      <4> QED
        BY <1>7, <2>3, <4>1 DEF HeldIn, ClosedIdle
    <3>2. pc = "addType" => Present(u, q)'
      BY <1>1, <1>2, <1>3 DEF SlotsOf, Present
    <3>3. pc = "send" => c # "add"
      BY <1>1, <1>4
    <3>4. AddIn(r)'
      BY <1>2, <1>5, <1>7, <2>3, <3>2, <3>3 DEF AddIn
    <3> QED
      BY <3>1, <3>4
  <2> QED
    BY <2>2, <2>3
<1> QED
  BY <1>9, <1>10, <1>11, <1>12 DEF TableInv

-----------------------------------------------------------------------------
(* A unit that is cleared has no thread, and no slots in use.                *)
LEMMA ClearedTable ==
  ASSUME HfInv, TableInv, NEW u \in Unit, dev' = [dev EXCEPT ![u] = Cleared],
         thread'[u].pc \in {"off", "start"}, \A v \in Unit \ {u} : thread'[v] = thread[v],
         UNCHANGED <<command, client, native>>, EmuSlot', ~Resetting => ~Resetting',
         ~Resetting' => ~Resetting /\ emu.pc = "run" /\ dev[u].open = 0
  PROVE  TableInv'
<1>1. /\ dev \in [Unit -> Device] /\ dev'[u] = Cleared /\ \A v \in Unit : v # u => dev'[v] = dev[v]
      /\ Cleared.req = [s \in HfSlot |-> None] /\ Cleared.open = 0
  BY DEF HfInv, HfTypeOK, Cleared
<1>2. InTable' /\ OneSlot'
  BY <1>1 DEF TableInv, InTable, OneSlot
<1>3. ASSUME NEW v \in Unit PROVE ThreadSlot(v)'
  <2>1. CASE v = u
    BY <2>1 DEF ThreadSlot
  <2>2. CASE v # u
    BY <1>1, <2>2 DEF TableInv, ThreadSlot, Absent
  <2> QED
    BY <2>1, <2>2
<1>4. ASSUME ~Resetting' PROVE Registered'
  <2> SUFFICES ASSUME NEW r \in Request PROVE HeldIn(r)' /\ AddIn(r)' /\ ClosedIdle(r)'
    BY DEF Registered
  <2>1. HeldIn(r) /\ AddIn(r) /\ ClosedIdle(r) /\ Home[r] \in Unit
    BY <1>4, NumberFacts DEF TableInv, Registered
  <2>2. CASE Home[r] = u
    <3>1. client'[r] = "idle"
      BY <1>4, <2>1, <2>2 DEF ClosedIdle
    <3> QED
      BY <3>1 DEF HeldIn, AddIn, ClosedIdle
  <2>3. CASE Home[r] # u
    BY <1>1, <1>4, <2>1, <2>3 DEF HeldIn, AddIn, ClosedIdle, Present
  <2> QED
    BY <2>2, <2>3
<1> QED
  BY <1>2, <1>3, <1>4 DEF TableInv

(* start_thread clears a unit whose programs have their requests back.       *)
LEMMA FirstOpenTable ==
  ASSUME HfInv, TableInv, NEW u \in Unit, OpenFirst(u)
  PROVE  TableInv'
<1>1. /\ thread \in [Unit -> ThreadState] /\ emu.pc = "run" /\ ~dev[u].running
      /\ dev' = [dev EXCEPT ![u] = Cleared] /\ UNCHANGED <<command, client, native>>
  BY DEF HfInv, HfTypeOK, OpenFirst, EmuAt, clientVars
<1>2. thread'[u].pc = "start" /\ \A v \in Unit \ {u} : thread'[v] = thread[v]
  BY <1>1 DEF OpenFirst, Off
<1>3. emu'.pc = "open" /\ emu'.next = "run"
  BY DEF OpenFirst, AtRest
<1>4. dev[u].open = 0
  <2>1. UnitOK(dev[u], thread[u], Wait(u)) /\ Wait(u) = "no"
    BY <1>1 DEF HfInv, UnitsInv, Wait
  <2> QED
    BY <1>1, <2>1 DEF UnitOK, ClosedUnit, OpenUnit, Going
<1>5. EmuSlot' /\ ~Resetting /\ ~Resetting'
  BY <1>1, <1>3 DEF EmuSlot, Resetting, HfInv, EmuInv
<1> QED
  BY <1>1, <1>2, <1>4, <1>5, ClearedTable

(* hardfile_reset clears one after the other, and then nothing is held.      *)
LEMMA ClearTable ==
  ASSUME HfInv, TableInv, ResetClosed \/ ResetClears
  PROVE  TableInv'
<1>1. PICK u \in Unit : u = emu.unit
  BY ClearedIsOff
<1>2. /\ thread[u] = Off /\ Resetting /\ ClearUnit(u) /\ UNCHANGED <<thread, command>>
      /\ dev' = [dev EXCEPT ![u] = Cleared]
  BY <1>1, ClearedIsOff DEF ResetClosed, ResetClears, ClearUnit
<1>3. Off.pc = "off" /\ emu'.pc \in {"run", "resetUnit"}
  <2>1. AtRest.pc = "run" /\ [AtRest EXCEPT !.pc = "resetUnit", !.unit = u + 1].pc = "resetUnit"
    BY DEF AtRest
  <2> QED
    BY <1>2, <2>1 DEF Off, ClearUnit
<1>4. EmuSlot'
  BY <1>3 DEF EmuSlot
<1>5. CASE u + 1 \in Unit
  <2>1. emu'.pc = "resetUnit" /\ UNCHANGED <<client, native>>
    BY <1>2, <1>5 DEF ClearUnit, AtRest
  <2>2. Resetting'
    BY <2>1 DEF Resetting
  <2> QED
    BY <1>2, <1>3, <1>4, <2>1, <2>2, ClearedTable
<1>6. CASE u + 1 \notin Unit
  <2>1. client' = [r \in Request |-> "idle"]
    BY <1>2, <1>6 DEF ClearUnit
  <2>2. ASSUME NEW v \in Unit PROVE dev'[v] = Cleared /\ thread'[v] = Off
    <3>1. v < u => dev[v] = Cleared /\ thread[v] = Off
      BY <1>1, <1>2 DEF HfInv, EmuInv
    <3>2. v < u \/ v = u
      <4>1. u = Units - 1
        BY <1>6, NumberFacts DEF Unit
      <4> QED
        BY <4>1, NumberFacts DEF Unit
    <3>3. dev \in [Unit -> Device]
      BY DEF HfInv, HfTypeOK
    <3> QED
      BY <1>2, <3>1, <3>2, <3>3
  <2>3. Cleared.req = [s \in HfSlot |-> None]
    BY DEF Cleared
  <2>4. InTable' /\ OneSlot'
    BY <2>2, <2>3 DEF InTable, OneSlot
  <2>5. \A v \in Unit : ThreadSlot(v)'
    BY <1>3, <2>2 DEF ThreadSlot
  <2>6. Registered'
    BY <2>1 DEF Registered, HeldIn, AddIn, ClosedIdle
  <2> QED
    BY <1>4, <2>4, <2>5, <2>6 DEF TableInv
<1> QED
  BY <1>5, <1>6

-----------------------------------------------------------------------------
(* At the start the table is empty.                                          *)
LEMMA TableInitially == HfInit => TableInv
<1> SUFFICES ASSUME HfInit PROVE TableInv
  OBVIOUS
<1>1. \A u \in Unit : dev[u] = Cleared /\ thread[u] = Off
  BY DEF HfInit
<1>2. /\ Cleared.req = [s \in HfSlot |-> None] /\ Off.pc = "off" /\ emu.pc = "run"
  BY DEF Cleared, Off, AtRest, HfInit
<1>3. InTable /\ OneSlot
  BY <1>1, <1>2 DEF InTable, OneSlot
<1>4. EmuSlot /\ \A u \in Unit : ThreadSlot(u)
  BY <1>1, <1>2 DEF EmuSlot, ThreadSlot
<1>5. Registered
  BY DEF HfInit, Registered, HeldIn, AddIn, ClosedIdle
<1> QED
  BY <1>3, <1>4, <1>5 DEF TableInv

(* Every step of HfNext keeps the table right.                               *)
LEMMA TableInductive ==
  ASSUME Hasty = FALSE, TableHasRoom, HfInv, TableInv, [HfNext]_hfVars
  PROVE  TableInv'
<1>1. CASE Amiga
  BY <1>1, FirstOpenTable, OpenTable, BeginTable, ResetTable DEF Amiga
<1>2. CASE Interrupt \/ Reset
  BY <1>2, InterruptTable, ResetTable
<1>3. CASE Emulator
  <2>1. OpenEnds \/ CloseEnds \/ SendRequest => TableInv'
    BY NumberFacts, OpenTable
  <2>2. AddRequest \/ AddType \/ AbortAsync \/ AbortType => TableInv'
    BY AddTable, TypeTable, AbortTable
  <2>3. ResetClosed \/ ResetAborts \/ ResetStops \/ ResetClears => TableInv'
    BY ClearTable, ResetTable
  <2> QED
    BY <1>3, <2>1, <2>2, <2>3 DEF Emulator
<1>4. ASSUME NEW u \in Unit, UnitThread(u) PROVE TableInv'
  <2>1. Hold(u) => ThreadAt(u, "holdRequest") \/ ThreadAt(u, "holdType")
    BY DEF Hold, ThreadAt
  <2> QED
    BY <1>4, <2>1, LifeTable, LockTable, DoneTable, ReleaseTable, ReleaseTypeTable, HoldTable,
       HeldTable, ReplyTable DEF UnitThread
<1>5. CASE UNCHANGED hfVars
  BY <1>5 DEF hfVars, clientVars, TableInv, InTable, OneSlot, EmuSlot, ThreadSlot, Registered,
              HeldIn, AddIn, ClosedIdle, Present, Absent, Resetting
<1> QED
  BY <1>1, <1>2, <1>3, <1>4, <1>5 DEF HfNext

(* The table knows what the device has, and nothing else: a change interrupt *)
(* that is held is in one slot, as such, and a slot in use is of a request   *)
(* that the device has (hardfile_thread and hardfile_abortio, which both     *)
(* write the table, without a lock). Programs wait for their ADDCHANGEINTs   *)
(* and have at most MAX_ASYNC_REQUESTS requests per unit.                    *)
THEOREM TableStaysRight ==
  ASSUME Hasty = FALSE, TableHasRoom PROVE HfSpec => []TableIsRight
<1>1. HfInv /\ TableInv /\ [HfNext]_hfVars => TableInv'
  BY TableInductive
<1>2. HfSpec => [](HfInv /\ TableInv)
  BY HfInvariant, TableInitially, <1>1, PTL DEF HfSpec
<1>3. HfInv /\ TableInv => HeldIsRegistered /\ SlotsAreInUse
  <2> SUFFICES ASSUME HfInv, TableInv PROVE HeldIsRegistered /\ SlotsAreInUse
    OBVIOUS
  <2>1. SlotsAreInUse
    BY DEF TableInv, InTable, SlotsAreInUse
  <2>2. ASSUME NEW r \in Request, emu.pc = "run", client[r] = "held"
        PROVE  \E s \in HfSlot : SlotsOf(Home[r], r) = {s} /\ dev[Home[r]].type[s] = "changeint"
    <3>1. ~Resetting /\ Home[r] \in Unit /\ r # None
      BY <2>2, NumberFacts DEF HfInv, EmuInv, Resetting
    <3>2. PICK s \in HfSlot : dev[Home[r]].req[s] = r /\ dev[Home[r]].type[s] = "changeint"
      BY <2>2, <3>1 DEF TableInv, Registered, HeldIn
    <3>3. SlotsOf(Home[r], r) = {s}
      BY <3>1, <3>2 DEF SlotsOf, TableInv, OneSlot
    <3> QED
      BY <3>2, <3>3
  <2> QED
    BY <2>1, <2>2 DEF HeldIsRegistered, EmuAt
<1> QED
  BY <1>2, <1>3, UnitsAreClearedWhenStopped, PTL DEF TableIsRight
=============================================================================

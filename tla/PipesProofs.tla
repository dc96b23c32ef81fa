---------------------------- MODULE PipesProofs ----------------------------
(* Proofs about the pipes between the threads of the emulator, for every set *)
(* of items or threads and every size. CommPipe: type correctness, the       *)
(* exclusion of the two threads from the ring, the absence of underrun,      *)
(* overrun, lost wakeup and stale token, and that the pipe implements the    *)
(* bounded queue. Native2Amiga: that words in the pipe have an interrupt to  *)
(* come, and that the machine gets whole records in the order in which the   *)
(* threads got n2asem. UaeState: how the states of the machine follow one   *)
(* another, whoever asks for what, and that one box is shown at a time.      *)
EXTENDS CommPipe, Native2Amiga, UaeState, FiniteSetTheorems, SequenceTheorems, TLAPS

-----------------------------------------------------------------------------
(* Cursor arithmetic: with both cursors in range the code's two uses of %    *)
(* are one conditional subtraction.                                          *)
LEMMA ModSmall ==
  ASSUME NEW n \in Nat \ {0}, NEW k \in 0..(2 * n - 1)
  PROVE  k % n = IF k < n THEN k ELSE k - n
BY SMT

(* Taking numbers below 2 * Size modulo Size.                                *)
LEMMA ModSize ==
  \A k \in 0..(2 * Size - 1) : k % Size = IF k < Size THEN k ELSE k - Size
<1>1. Size \in Nat \ {0}
  BY PipeAssumption
<1> QED
  BY <1>1, ModSmall

(* The slot after a slot, round the ring.                                    *)
LEMMA NextValue ==
  ASSUME NEW i \in Slot
  PROVE  Next1(i) = IF i = Size - 1 THEN 0 ELSE i + 1
<1>1. i + 1 \in 0..(2 * Size - 1)
  BY PipeAssumption DEF Slot
<1>2. (i + 1) % Size = IF i + 1 < Size THEN i + 1 ELSE i + 1 - Size
  BY <1>1, ModSize, PipeAssumption DEF Slot
<1> QED
  BY <1>2, PipeAssumption DEF Next1, Slot

(* How far one slot is from another, round the ring.                         *)
LEMMA DistanceValue ==
  ASSUME NEW r \in Slot, NEW w \in Slot
  PROVE  Distance(r, w) = IF w >= r THEN w - r ELSE w - r + Size
<1>1. w - r + Size \in 0..(2 * Size - 1)
  BY PipeAssumption DEF Slot
<1>2. (w - r + Size) % Size = IF w - r + Size < Size
                                THEN w - r + Size ELSE w - r + Size - Size
  BY <1>1, ModSize, PipeAssumption DEF Slot
<1> QED
  BY <1>2, PipeAssumption DEF Distance, Slot

(* The cursors seen as a count of items: what a store and a take do to it.   *)
LEMMA CursorFacts ==
  ASSUME NEW r \in Slot, NEW w \in Slot
  PROVE  /\ Next1(w) \in Slot
         /\ Distance(r, w) \in Slot
         /\ Distance(r, w) = 0 <=> r = w
         /\ Distance(r, w) = Size - 1 <=> Next1(w) = r
         /\ Next1(w) # r => Distance(r, Next1(w)) = Distance(r, w) + 1
         /\ r # w => Distance(Next1(r), w) = Distance(r, w) - 1
         /\ r # w => Next1(w) # Next1(r)
<1>1. Next1(w) \in Slot /\ Next1(r) \in Slot
  BY NextValue, PipeAssumption DEF Slot
<1>2. /\ Distance(r, w) = IF w >= r THEN w - r ELSE w - r + Size
      /\ Distance(r, Next1(w)) = IF Next1(w) >= r THEN Next1(w) - r ELSE Next1(w) - r + Size
      /\ Distance(Next1(r), w) = IF w >= Next1(r) THEN w - Next1(r) ELSE w - Next1(r) + Size
  BY <1>1, DistanceValue
<1>3. /\ Next1(w) = IF w = Size - 1 THEN 0 ELSE w + 1
      /\ Next1(r) = IF r = Size - 1 THEN 0 ELSE r + 1
  BY NextValue
<1> QED
  BY <1>1, <1>2, <1>3, PipeAssumption DEF Slot

-----------------------------------------------------------------------------
(* The inductive invariant. Who holds the lock follows from the two program  *)
(* counters; so does who sleeps, and a sleeper is in one of two states: its  *)
(* flag is up and no token was posted, or its flag is down and one token is  *)
(* there for it.                                                             *)
WriterHolds == pcW \in {"inside", "store", "wake", "unlock"}
ReaderHolds == pcR \in {"inside", "leave", "take", "unlock"}
WriterStores == pcW \in {"fastWake", "wake"}     \* stored, wakeup still to come

LockInv ==
  /\ ~ (WriterHolds /\ ReaderHolds)
  /\ lock = IF WriterHolds \/ ReaderHolds THEN 0 ELSE 1

SleepInv ==
  /\ pcR \in {"leave", "blocked"} => readerWaiting + readerWait = 1
  /\ pcR \notin {"leave", "blocked"} => readerWaiting = 0 /\ readerWait = 0
  /\ pcW = "blocked" => writerWaiting + writerWait = 1
  /\ pcW # "blocked" => writerWaiting = 0 /\ writerWait = 0
  /\ pcW \in {"fast", "fastWake"} => readerWaiting = 1

DataInv ==
  /\ pcR \in {"relock", "take"} => rdp # wrp
  /\ pcR \in {"leave", "blocked"} /\ readerWaiting = 0 => rdp # wrp
  /\ WriterStores => rdp # wrp
  /\ polled = 1 => pcR \in {"idle", "lock", "inside", "take", "unlock"}
  /\ polled = 1 /\ pcR # "unlock" => rdp # wrp

SpaceInv ==
  /\ pcW \in {"store", "relock"} => Next1(wrp) # rdp
  /\ pcW = "blocked" /\ writerWaiting = 0 => Next1(wrp) # rdp

WakeInv ==
  /\ readerWaiting = 1 /\ ~WriterStores => Count < Chunks
  /\ readerWaiting = 1 /\ pcW \in {"idle", "unlock"} /\ rdp # wrp => noBuffer = 0

IInv == TypeOK /\ LockInv /\ SleepInv /\ DataInv /\ SpaceInv /\ WakeInv

(* SlotAt the start the pipe is empty and nobody waits.                          *)
LEMMA InitIInv == Init => IInv
<1> SUFFICES ASSUME Init PROVE IInv
  OBVIOUS
<1>1. TypeOK
  BY PipeAssumption DEF Init, TypeOK, Slot, WriterPC, ReaderPC
<1>2. Count = 0
  BY <1>1, CursorFacts DEF TypeOK, Init, Count
<1> QED
  BY <1>1, <1>2, PipeAssumption
  DEF Init, IInv, LockInv, SleepInv, DataInv, SpaceInv, WakeInv, WriterHolds,
      ReaderHolds, WriterStores

(* Every step of the reader and the writer keeps the invariant.              *)
LEMMA NextIInv == IInv /\ [Next]_vars => IInv'
<1> SUFFICES ASSUME IInv, [Next]_vars PROVE IInv'
  OBVIOUS
<1> USE PipeAssumption DEF IInv, vars, sems, ring, flags, writerVars, readerVars
<1>0. /\ Next1(wrp) \in Slot /\ Next1(rdp) \in Slot
      /\ Count \in Slot
      /\ Count = 0 <=> rdp = wrp
      /\ Count = Size - 1 <=> Next1(wrp) = rdp
      /\ Next1(wrp) # rdp => Distance(rdp, Next1(wrp)) = Count + 1
      /\ rdp # wrp => Distance(Next1(rdp), wrp) = Count - 1
      /\ rdp # wrp => Next1(wrp) # Next1(rdp)
  BY CursorFacts DEF TypeOK, Count
<1> USE DEF TypeOK, WriterPC, ReaderPC, LockInv, SleepInv, DataInv, SpaceInv,
        WakeInv, WriterHolds, ReaderHolds, WriterStores, Count
<1>1. ASSUME NEW x \in Item, NEW nb \in {0, 1}, WriteCall(x, nb)
      PROVE  IInv'
  BY <1>1 DEF WriteCall
<1>2. CASE WriteTest
  BY <1>0, <1>2 DEF WriteTest
<1>3. CASE WriteFast
  BY <1>0, <1>3 DEF WriteFast, Store
<1>4. CASE WriteFastWake
  <2>1. CASE readerWaiting = 1 /\ (noBuffer = 1 \/ Count >= Chunks)
    <3>1. readerWaiting' = 0 /\ readerWait' = readerWait + 1
      BY <1>4, <2>1 DEF WriteFastWake, MaybeWakeReader
    <3> QED
      BY <1>0, <1>4, <2>1, <3>1 DEF WriteFastWake
  <2>2. CASE ~ (readerWaiting = 1 /\ (noBuffer = 1 \/ Count >= Chunks))
    <3>1. UNCHANGED <<readerWaiting, readerWait>>
      BY <1>4, <2>2 DEF WriteFastWake, MaybeWakeReader
    <3>2. readerWaiting = 1 => noBuffer = 0 /\ Count < Chunks
      BY <1>0, <2>2 DEF Slot
    <3> QED
      BY <1>0, <1>4, <3>1, <3>2 DEF WriteFastWake
  <2> QED
    BY <2>1, <2>2
<1>5. CASE WriteLock
  BY <1>0, <1>5 DEF WriteLock
<1>6. CASE WriteInside
  BY <1>0, <1>6 DEF WriteInside
<1>7. CASE WriteBlocked
  BY <1>0, <1>7 DEF WriteBlocked
<1>8. CASE WriteRelock
  BY <1>0, <1>8 DEF WriteRelock
<1>9. CASE WriteStore
  BY <1>0, <1>9 DEF WriteStore, Store
<1>10. CASE WriteWake
  <2>1. CASE readerWaiting = 1 /\ (noBuffer = 1 \/ Count >= Chunks)
    <3>1. readerWaiting' = 0 /\ readerWait' = readerWait + 1
      BY <1>10, <2>1 DEF WriteWake, MaybeWakeReader
    <3> QED
      BY <1>0, <1>10, <2>1, <3>1 DEF WriteWake
  <2>2. CASE ~ (readerWaiting = 1 /\ (noBuffer = 1 \/ Count >= Chunks))
    <3>1. UNCHANGED <<readerWaiting, readerWait>>
      BY <1>10, <2>2 DEF WriteWake, MaybeWakeReader
    <3>2. readerWaiting = 1 => noBuffer = 0 /\ Count < Chunks
      BY <1>0, <2>2 DEF Slot
    <3> QED
      BY <1>0, <1>10, <3>1, <3>2 DEF WriteWake
  <2> QED
    BY <2>1, <2>2
<1>11. CASE WriteUnlock
  BY <1>0, <1>11 DEF WriteUnlock
<1>12. CASE Poll
  BY <1>0, <1>12 DEF Poll
<1>13. CASE ReadCall
  BY <1>0, <1>13 DEF ReadCall
<1>14. CASE ReadLock
  BY <1>0, <1>14 DEF ReadLock
<1>15. CASE ReadInside
  BY <1>0, <1>15 DEF ReadInside
<1>16. CASE ReadLeave
  BY <1>0, <1>16 DEF ReadLeave
<1>17. CASE ReadBlocked
  BY <1>0, <1>17 DEF ReadBlocked
<1>18. CASE ReadRelock
  BY <1>0, <1>18 DEF ReadRelock
<1>19. CASE ReadTake
  BY <1>0, <1>19 DEF ReadTake
<1>20. CASE ReadUnlock
  BY <1>0, <1>20 DEF ReadUnlock
<1>21. CASE UNCHANGED vars
  BY <1>21
<1> QED
  BY <1>1, <1>2, <1>3, <1>4, <1>5, <1>6, <1>7, <1>8, <1>9, <1>10, <1>11,
     <1>12, <1>13, <1>14, <1>15, <1>16, <1>17, <1>18, <1>19, <1>20, <1>21
  DEF Next, WriterNext, ReaderNext

(* IInv is an invariant, and each safety property the runs check follows     *)
(* from it.                                                                  *)
THEOREM Invariance == Spec => []IInv
<1>1. Init => IInv
  BY InitIInv
<1>2. IInv /\ [Next]_vars => IInv'
  BY NextIInv
<1> QED
  BY <1>1, <1>2, PTL DEF Spec

(* Every variable keeps its type: in particular no semaphore of the pipe     *)
(* ever counts above one.                                                    *)
THEOREM TypeCorrect == Spec => []TypeOK
<1>1. IInv => TypeOK
  BY DEF IInv
<1> QED
  BY <1>1, Invariance, PTL

(* The lock-free fast path of write_comm_pipe_pt and its locked path both    *)
(* keep off the ring while the reader takes a datum.                         *)
THEOREM RingIsExclusive == Spec => []RingExclusive
<1>1. IInv => RingExclusive
  BY DEF IInv, RingExclusive, LockInv, SleepInv, WriterHolds, ReaderHolds
<1> QED
  BY <1>1, Invariance, PTL

(* No read of an empty pipe, no write over unread data, although neither     *)
(* thread tests again after its sleep.                                       *)
THEOREM NoUnderrunOrOverrun == Spec => [](NoUnderrun /\ NoOverrun)
<1>1. IInv => NoUnderrun
  BY DEF IInv, NoUnderrun, DataInv
<1>2. IInv => NoOverrun
  <2> SUFFICES ASSUME IInv, pcW = "fast" PROVE Next1(wrp) # rdp
    BY DEF IInv, NoOverrun, SpaceInv
  <2>1. Count < Chunks
    BY DEF IInv, SleepInv, WakeInv, WriterStores
  <2>2. Count = Size - 1 <=> Next1(wrp) = rdp
    BY CursorFacts DEF IInv, TypeOK, Count
  <2> QED
    BY <2>1, <2>2, PipeAssumption
<1> QED
  BY <1>1, <1>2, Invariance, PTL

(* Between writes the reader sleeps on data only if it was told to.          *)
THEOREM WakeupsAreNotLost == Spec => []NoLostWakeup
<1>1. IInv => NoLostWakeup
  BY DEF IInv, NoLostWakeup, WakeInv, WriterStores
<1> QED
  BY <1>1, Invariance, PTL

(* No post on a sleep semaphore outlives the sleep it was meant for.         *)
THEOREM TokensAreNotStale == Spec => []NoStaleToken
<1>1. IInv => NoStaleToken
  BY DEF IInv, NoStaleToken, SleepInv, TypeOK
<1> QED
  BY <1>1, Invariance, PTL

(* After comm_pipe_has_data said yes the next read does not block.           *)
THEOREM PolledReadsDoNotSleep == Spec => []PolledReadNeverSleeps
<1>1. IInv => PolledReadNeverSleeps
  BY DEF IInv, PolledReadNeverSleeps, DataInv
<1> QED
  BY <1>1, Invariance, PTL

(* The ring is never used by both sides, nor beyond what is in it or free.   *)
THEOREM RingIsSafe == Spec => []RingSafe
<1>1. RingExclusive /\ NoUnderrun /\ NoOverrun => RingSafe
  BY DEF RingSafe
<1> QED
  BY <1>1, RingIsExclusive, NoUnderrunOrOverrun, PTL

(* Every wakeup that is due is given, and no other.                          *)
THEOREM WakeupsAreExact == Spec => []WakeupsExact
<1>1. NoLostWakeup /\ NoStaleToken /\ PolledReadNeverSleeps => WakeupsExact
  BY DEF WakeupsExact
<1> QED
  BY <1>1, WakeupsAreNotLost, TokensAreNotStale, PolledReadsDoNotSleep, PTL

-----------------------------------------------------------------------------
(* Refinement of Fifo. Slots r, r+1, ... of the ring are the queue.          *)
SlotAt(r, i) == (r + (i - 1)) % Size

(* The slots from one on, up to another, are that many, and end before it.   *)
LEMMA AtFacts ==
  ASSUME NEW r \in Slot, NEW w \in Slot
  PROVE  /\ \A i \in 1..Distance(r, w) : SlotAt(r, i) \in Slot /\ SlotAt(r, i) # w
         /\ SlotAt(r, Distance(r, w) + 1) = w
         /\ SlotAt(r, 1) = r
         /\ \A i \in 1..Distance(r, w) : SlotAt(Next1(r), i) = SlotAt(r, i + 1)
<1>1. Distance(r, w) = IF w >= r THEN w - r ELSE w - r + Size
  BY DistanceValue
<1>2. \A i \in 1..(Size + 1) : SlotAt(r, i) = IF r + (i - 1) < Size
                                         THEN r + (i - 1) ELSE r + (i - 1) - Size
  <2> TAKE i \in 1..(Size + 1)
  <2>1. r + (i - 1) \in 0..(2 * Size - 1)
    BY PipeAssumption DEF Slot
  <2> QED
    BY <2>1, ModSize, PipeAssumption DEF Slot, SlotAt
<1>3. Next1(r) \in Slot /\ Next1(r) = IF r = Size - 1 THEN 0 ELSE r + 1
  BY NextValue, PipeAssumption DEF Slot
<1>4. \A i \in 1..Size : SlotAt(Next1(r), i) = IF Next1(r) + (i - 1) < Size
                           THEN Next1(r) + (i - 1) ELSE Next1(r) + (i - 1) - Size
  <2> TAKE i \in 1..Size
  <2>1. Next1(r) + (i - 1) \in 0..(2 * Size - 1)
    BY <1>3, PipeAssumption DEF Slot
  <2> QED
    BY <1>3, <2>1, ModSize, PipeAssumption DEF Slot, SlotAt
<1>5. \A i \in 1..Distance(r, w) : SlotAt(r, i) \in Slot /\ SlotAt(r, i) # w
  BY <1>1, <1>2, PipeAssumption DEF Slot
<1>6. SlotAt(r, Distance(r, w) + 1) = w
  BY <1>1, <1>2, PipeAssumption DEF Slot
<1>7. SlotAt(r, 1) = r
  BY <1>2, PipeAssumption DEF Slot
<1>8. \A i \in 1..Distance(r, w) : SlotAt(Next1(r), i) = SlotAt(r, i + 1)
  BY <1>1, <1>2, <1>3, <1>4, PipeAssumption DEF Slot
<1> QED
  BY <1>5, <1>6, <1>7, <1>8

ContentsShape ==
  /\ Contents \in Seq(Item) /\ Len(Contents) = Count /\ Count \in Slot
  /\ \A i \in 1..Count : Contents[i] = data[SlotAt(rdp, i)]

(* The words between the cursors are a sequence of items.                    *)
LEMMA ContentsSeq == TypeOK => ContentsShape
<1> SUFFICES ASSUME TypeOK PROVE ContentsShape
  OBVIOUS
<1>1. Count \in Slot
  BY CursorFacts DEF TypeOK, Count
<1>2. \A i \in 1..Count : data[SlotAt(rdp, i)] \in Item
  BY AtFacts DEF TypeOK, Count
<1>3. Contents \in [1..Count -> Item]
  BY <1>2 DEF Contents, SlotAt
<1>4. Count \in Nat
  BY <1>1, PipeAssumption DEF Slot
<1>5. Contents \in Seq(Item) /\ Len(Contents) = Count
  BY <1>3, <1>4
<1> QED
  BY <1>1, <1>5 DEF ContentsShape, Contents, SlotAt

(* A store, on either path, is the abstract Put of the writer's argument.    *)
LEMMA StoreIsPut ==
  ASSUME IInv, IInv', Store, Next1(wrp) # rdp, arg \in Item, got' = got
  PROVE  Queue!Put(arg)
<1>1. /\ Contents \in Seq(Item) /\ Len(Contents) = Count /\ Count \in Slot
      /\ \A i \in 1..Count : Contents[i] = data[SlotAt(rdp, i)]
  BY ContentsSeq DEF IInv, ContentsShape
<1>2. /\ Contents' \in Seq(Item) /\ Len(Contents') = Count'
      /\ \A i \in 1..Count' : Contents'[i] = data'[SlotAt(rdp', i)]
  <2>1. TypeOK'
    BY DEF IInv
  <2>2. ContentsShape'
    BY <2>1, ContentsSeq, PTL
  <2> QED
    BY <2>2 DEF ContentsShape
<1>3. Count' = Count + 1 /\ Count # Size - 1
  BY CursorFacts DEF IInv, TypeOK, Store, Count
<1>4. \A i \in 1..Count : data'[SlotAt(rdp, i)] = data[SlotAt(rdp, i)]
  BY AtFacts DEF IInv, TypeOK, Store, Count
<1>5. data'[SlotAt(rdp, Count + 1)] = arg
  BY AtFacts DEF IInv, TypeOK, Store, Count
<1>6. /\ Append(Contents, arg) \in Seq(Item)
      /\ Len(Append(Contents, arg)) = Count + 1
      /\ \A i \in 1..Count : Append(Contents, arg)[i] = Contents[i]
      /\ Append(Contents, arg)[Count + 1] = arg
  BY <1>1, AppendProperties
<1>7. \A i \in 1..(Count + 1) : Contents'[i] = Append(Contents, arg)[i]
  BY <1>1, <1>2, <1>3, <1>4, <1>5, <1>6 DEF Store, Slot
<1>8. Contents' = Append(Contents, arg)
  BY <1>2, <1>3, <1>6, <1>7, SeqEqual
<1> QED
  BY <1>1, <1>3, <1>8, PipeAssumption DEF Queue!Put, Slot

(* A take is the abstract Get.                                               *)
LEMMA TakeIsGet ==
  ASSUME IInv, IInv', ReadTake
  PROVE  Queue!Get
<1>0. rdp # wrp
  BY DEF IInv, DataInv, ReadTake
<1>1. /\ Contents \in Seq(Item) /\ Len(Contents) = Count /\ Count \in Slot
      /\ \A i \in 1..Count : Contents[i] = data[SlotAt(rdp, i)]
  BY ContentsSeq DEF IInv, ContentsShape
<1>2. /\ Contents' \in Seq(Item) /\ Len(Contents') = Count'
      /\ \A i \in 1..Count' : Contents'[i] = data'[SlotAt(rdp', i)]
  <2>1. TypeOK'
    BY DEF IInv
  <2>2. ContentsShape'
    BY <2>1, ContentsSeq, PTL
  <2> QED
    BY <2>2 DEF ContentsShape
<1>3. Count' = Count - 1 /\ Count >= 1
  <2>1. Count # 0 /\ Count' = Count - 1
    BY <1>0, CursorFacts DEF IInv, TypeOK, ReadTake, Count
  <2> QED
    BY <1>1, <2>1, PipeAssumption DEF Slot
<1>4. \A i \in 1..Count' : data'[SlotAt(rdp', i)] = data[SlotAt(rdp, i + 1)]
  <2>1. rdp' = Next1(rdp) /\ data' = data
    BY DEF ReadTake
  <2>2. \A i \in 1..Count : SlotAt(Next1(rdp), i) = SlotAt(rdp, i + 1)
    BY AtFacts DEF IInv, TypeOK, Count
  <2>3. \A i \in 1..Count' : i \in 1..Count
    BY <1>1, <1>3, PipeAssumption DEF Slot
  <2> QED
    BY <2>1, <2>2, <2>3
<1>5. Contents # <<>> /\ Head(Contents) = Contents[1]
  BY <1>1, <1>3
<1>6. got' = Contents[1]
  BY <1>1, <1>3, AtFacts DEF IInv, TypeOK, ReadTake, Slot
<1>7. /\ Tail(Contents) \in Seq(Item) /\ Len(Tail(Contents)) = Count - 1
      /\ \A i \in 1..(Count - 1) : Tail(Contents)[i] = Contents[i + 1]
  BY <1>1, <1>5, HeadTailProperties
<1>8. \A i \in 1..(Count - 1) : Contents'[i] = Tail(Contents)[i]
  BY <1>1, <1>2, <1>3, <1>4, <1>7, PipeAssumption DEF Slot
<1>9. Contents' = Tail(Contents)
  BY <1>2, <1>3, <1>7, <1>8, SeqEqual
<1> QED
  BY <1>5, <1>6, <1>9 DEF Queue!Get

(* Any step that leaves the ring and the returned value alone stutters.      *)
LEMMA RingUnchanged ==
  ASSUME UNCHANGED <<data, rdp, wrp, got>>
  PROVE  UNCHANGED Queue!fifoVars
BY DEF Queue!fifoVars, Contents, Count

(* An empty pipe is an empty queue.                                          *)
LEMMA InitRefines == Init => Queue!FifoInit
<1> SUFFICES ASSUME Init PROVE Queue!FifoInit
  OBVIOUS
<1>1. Count = 0
  BY CursorFacts, PipeAssumption DEF Init, Count, Slot
<1>2. Contents = <<>>
  BY <1>1 DEF Contents
<1> QED
  BY <1>2 DEF Init, Queue!FifoInit

(* Every step of the pipe appends to the queue, takes from it, or leaves it. *)
LEMMA StepRefines == IInv /\ IInv' /\ [Next]_vars => [Queue!FifoNext]_(Queue!fifoVars)
<1> SUFFICES ASSUME IInv, IInv', [Next]_vars
             PROVE  Queue!FifoNext \/ UNCHANGED Queue!fifoVars
  OBVIOUS
<1> USE DEF vars, sems, ring, flags, writerVars, readerVars
<1>1. CASE WriteFast
  <2>1. Next1(wrp) # rdp
    <3>1. Count < Chunks
      BY <1>1 DEF IInv, SleepInv, WakeInv, WriterStores, WriteFast
    <3>2. Count = Size - 1 <=> Next1(wrp) = rdp
      BY CursorFacts DEF IInv, TypeOK, Count
    <3> QED
      BY <3>1, <3>2, PipeAssumption
  <2>2. Store /\ got' = got /\ arg \in Item
    BY <1>1 DEF WriteFast, IInv, TypeOK
  <2>3. Queue!Put(arg)
    BY <2>1, <2>2, StoreIsPut
  <2> QED
    BY <2>2, <2>3 DEF Queue!FifoNext
<1>2. CASE WriteStore
  <2>1. Next1(wrp) # rdp /\ Store /\ got' = got /\ arg \in Item
    BY <1>2 DEF WriteStore, IInv, SpaceInv, TypeOK
  <2>2. Queue!Put(arg)
    BY <2>1, StoreIsPut
  <2> QED
    BY <2>1, <2>2 DEF Queue!FifoNext
<1>3. CASE ReadTake
  BY <1>3, TakeIsGet DEF Queue!FifoNext
<1>4. CASE ~ (WriteFast \/ WriteStore \/ ReadTake)
  <2>1. UNCHANGED <<data, rdp, wrp, got>>
    BY <1>4 DEF Next, WriterNext, ReaderNext, WriteCall, WriteTest, WriteFastWake, WriteLock,
       WriteInside, WriteBlocked, WriteRelock, WriteWake, WriteUnlock, Poll, ReadCall,
       ReadLock, ReadInside, ReadLeave, ReadBlocked, ReadRelock, ReadUnlock
  <2> QED
    BY <2>1, RingUnchanged
<1> QED
  BY <1>1, <1>2, <1>3, <1>4

(* The pipe implements the bounded queue: nothing is lost, repeated,         *)
(* reordered or overwritten, whatever the interleaving of the two threads.   *)
THEOREM PipeImplementsFifo == Spec => ImplementsFifo
<1>1. Init => Queue!FifoInit
  BY InitRefines
<1>2. IInv /\ IInv' /\ [Next]_vars => [Queue!FifoNext]_(Queue!fifoVars)
  BY StepRefines
<1> QED
  BY <1>1, <1>2, Invariance, PTL DEF Spec, ImplementsFifo, Queue!FifoSpec

-----------------------------------------------------------------------------
(* Native2Amiga, of which safety needs no fairness.                          *)
N2aSpec == N2aInit /\ [][N2aNext]_n2aVars

-----------------------------------------------------------------------------
(* The inductive invariant. Who holds n2asem follows from the threads' places*)
(* and the words between the last one read and the last one sent are, one    *)
(* after the other, those of the records in the order of n2asem.             *)
Waiting == {t \in Thread : sender[t] = "wait"}
Holding == {t \in Thread : sender[t] \in {"words", "request", "post"}}
Writing == {t \in Thread : sender[t] = "words"}

Follows(w) ==
  IF w.place < length[w.of] THEN [of |-> w.of, place |-> w.place + 1]
                            ELSE [of |-> w.of + 1, place |-> 1]
NextRead == [of |-> Len(arrived) + 1, place |-> Len(read) + 1]
NextSent ==
  IF Writing = {} THEN [of |-> Len(length) + 1, place |-> 1]
  ELSE [of |-> Len(length), place |-> toSend[CHOOSE t \in Writing : TRUE].sent + 1]

RecordsInv ==
  /\ Len(length) + Cardinality(Waiting) <= MaxRecords
  /\ \A t \in Thread : sender[t] # "idle" => toSend[t].length \in RecordLength
  /\ \A t \in Thread : sender[t] = "wait" => toSend[t].sent = 0

SemInv ==
  /\ n2asem = 1 => Holding = {}
  /\ \A t, u \in Holding : t = u

WritingInv ==
  \A t \in Writing : /\ toSend[t].record = Len(length) /\ Len(length) > 0
                     /\ toSend[t].length = length[Len(length)] /\ toSend[t].sent < toSend[t].length

PipeInv ==
  /\ \A i \in 1..Len(pending) : pending[i].of \in 1..Len(length) /\ pending[i].place \in 1..length[pending[i].of]
  /\ \A i \in 1..(Len(pending) - 1) : pending[i + 1] = Follows(pending[i])
  /\ NextSent = IF pending = <<>> THEN NextRead ELSE Follows(pending[Len(pending)])
  /\ pending # <<>> => pending[1] = NextRead

ReadInv ==
  /\ exter = "words" <=> read # <<>>
  /\ \A i \in 1..Len(read) : read[i] = [of |-> Len(arrived) + 1, place |-> i]
  /\ read # <<>> => Len(arrived) + 1 <= Len(length) /\ Len(read) < length[Len(arrived) + 1]
  /\ arrived \in Seq(Seq(Word))

N2aInv == N2aTypeOK /\ RecordsInv /\ SemInv /\ WritingInv /\ PipeInv /\ ReadInv /\ RecordsWhole

-----------------------------------------------------------------------------
(* The word the writing thread sends next.                                   *)
LEMMA NextSentIs ==
  ASSUME NEW t \in Writing, \A u \in Writing : u = t
  PROVE  NextSent = [of |-> Len(length), place |-> toSend[t].sent + 1]
<1>1. (CHOOSE u \in Writing : TRUE) = t
  OBVIOUS
<1> QED
  BY <1>1 DEF NextSent

(* The threads that wait for the semaphore can be counted.                   *)
LEMMA WaitingIsFinite == IsFiniteSet(Waiting) /\ Cardinality(Waiting) \in Nat
<1>1. IsFiniteSet(Waiting)
  BY NativeAssumption, FS_Subset DEF Waiting
<1> QED
  BY <1>1, FS_CardinalityType

(* At the start nothing is sent.                                             *)
LEMMA InitInv == N2aInit => N2aInv
<1> SUFFICES ASSUME N2aInit PROVE N2aInv
  OBVIOUS
<1>1. N2aTypeOK
  <2>1. <<>> \in Seq(RecordLength) /\ <<>> \in Seq(Word) /\ Len(<<>>) = 0
    OBVIOUS
  <2>2. [t \in Thread |-> [length |-> 0, sent |-> 0, record |-> 0]]
          \in [Thread -> [length : {0} \cup RecordLength, sent : 0..3, record : 0..MaxRecords]]
    BY NativeAssumption
  <2>3. asleep \in BOOLEAN /\ uaeIntRequested \in BOOLEAN
    BY DEF N2aInit
  <2>4. sender \in [Thread -> {"idle", "wait", "words", "request", "post"}]
    BY DEF N2aInit
  <2> QED
    BY <2>1, <2>2, <2>3, <2>4, NativeAssumption DEF N2aInit, N2aTypeOK
<1>2. Waiting = {} /\ Holding = {} /\ Writing = {}
  BY DEF N2aInit, Waiting, Holding, Writing
<1>3. RecordsInv
  BY <1>2, FS_EmptySet, NativeAssumption DEF RecordsInv, N2aInit
<1>4. SemInv /\ WritingInv /\ ReadInv /\ RecordsWhole
  BY <1>2 DEF SemInv, WritingInv, ReadInv, RecordsWhole, N2aInit
<1>5. PipeInv
  BY <1>2 DEF PipeInv, N2aInit, NextSent, NextRead
<1> QED
  BY <1>1, <1>3, <1>4, <1>5 DEF N2aInv

(* Nothing but the threads' places before they have n2asem changes.          *)
LEMMA SendsKeeps ==
  ASSUME N2aInv, NEW t \in Thread, NEW n \in RecordLength, Sends(t, n)
  PROVE  N2aInv'
<1> USE DEF RecordLength
<1>1. N2aTypeOK'
  BY NativeAssumption DEF N2aInv, N2aTypeOK, Sends, exterVars
<1>2. Waiting' = Waiting \cup {t} /\ t \notin Waiting
  BY DEF N2aInv, N2aTypeOK, Sends, Waiting
<1>3. Cardinality(Waiting') = Cardinality(Waiting) + 1
  BY <1>2, WaitingIsFinite, FS_AddElement
<1>4. Writing' = Writing /\ Holding' = Holding /\ t \notin Writing
  BY DEF N2aInv, N2aTypeOK, Sends, Writing, Holding
<1>5. RecordsInv'
  <2>1. Len(length') + Cardinality(Waiting') <= MaxRecords
    <3>1. {u \in Thread : sender[u] = "wait"} = Waiting
      BY DEF Waiting
    <3>2. Len(length) \in Nat /\ length' = length
      BY DEF N2aInv, N2aTypeOK, Sends
    <3>3. Len(length) + Cardinality(Waiting) < MaxRecords
      BY <3>1 DEF Sends
    <3> QED
      BY <1>3, <3>2, <3>3, WaitingIsFinite, NativeAssumption
  <2> QED
    BY <2>1 DEF N2aInv, N2aTypeOK, RecordsInv, Sends
<1>6. SemInv' /\ ReadInv' /\ RecordsWhole'
  BY <1>4 DEF N2aInv, SemInv, ReadInv, RecordsWhole, Whole, Sends, exterVars
<1>7. \A u \in Writing : toSend'[u] = toSend[u]
  BY <1>4 DEF N2aInv, N2aTypeOK, Sends, Writing
<1>8. WritingInv'
  BY <1>4, <1>7 DEF N2aInv, WritingInv, Sends
<1>9. NextSent' = NextSent
  <2>1. CASE Writing = {}
    BY <2>1, <1>4 DEF NextSent, Sends
  <2>2. CASE Writing # {}
    <3> PICK u \in Writing : TRUE
      BY <2>2
    <3>1. (CHOOSE v \in Writing : TRUE) \in Writing
      OBVIOUS
    <3> QED
      BY <2>2, <3>1, <1>4, <1>7 DEF NextSent, Sends
  <2> QED
    BY <2>1, <2>2
<1>10. PipeInv'
  BY <1>9 DEF N2aInv, PipeInv, Sends, exterVars, NextRead, Follows
<1> QED
  BY <1>1, <1>5, <1>6, <1>8, <1>10 DEF N2aInv

(* A record begins: the place after the last word sent has a name at last.   *)
LEMMA EntersKeeps ==
  ASSUME N2aInv, NEW t \in Thread, Enters(t)
  PROVE  N2aInv'
<1> USE DEF RecordLength
<1> DEFINE n == toSend[t].length
<1>1. n \in RecordLength /\ length' = Append(length, n) /\ Len(length') = Len(length) + 1 /\ length \in Seq(RecordLength)
  BY DEF N2aInv, N2aTypeOK, RecordsInv, Enters
<1>2. length'[Len(length')] = n /\ \A i \in 1..Len(length) : length'[i] = length[i]
  BY <1>1
<1>3. Waiting' = Waiting \ {t} /\ t \in Waiting
  BY DEF N2aInv, N2aTypeOK, Enters, Waiting
<1>4. Cardinality(Waiting') = Cardinality(Waiting) - 1 /\ Cardinality(Waiting) > 0
  BY <1>3, WaitingIsFinite, FS_RemoveElement, FS_EmptySet
<1>5. Len(length') + Cardinality(Waiting') <= MaxRecords /\ Len(length') \in 1..MaxRecords
  BY <1>1, <1>4, WaitingIsFinite, NativeAssumption DEF N2aInv, RecordsInv
<1>6. N2aTypeOK'
  <2>1. length' \in Seq(RecordLength)
    BY <1>1
  <2>2. toSend' \in [Thread -> [length : {0} \cup RecordLength, sent : 0..3, record : 0..MaxRecords]]
    <3>1. /\ toSend \in [Thread -> [length : {0} \cup RecordLength, sent : 0..3, record : 0..MaxRecords]]
          /\ toSend' = [toSend EXCEPT ![t].record = Len(length')]
      BY DEF N2aInv, N2aTypeOK, Enters
    <3>2. Len(length') \in 0..MaxRecords
      BY <1>5, NativeAssumption
    <3> QED
      BY <3>1, <3>2
  <2> QED
    BY <1>5, <2>1, <2>2, NativeAssumption DEF N2aInv, N2aTypeOK, Enters, exterVars
<1>7. Holding = {} /\ Writing = {}
  BY DEF N2aInv, SemInv, Enters, Holding, Writing
<1>8. Holding' = {t} /\ Writing' = {t}
  BY <1>7 DEF N2aInv, N2aTypeOK, Enters, Holding, Writing
<1>9. RecordsInv' /\ SemInv'
  BY <1>5, <1>8 DEF N2aInv, N2aTypeOK, RecordsInv, SemInv, Enters
<1>10. WritingInv'
  <2>1. toSend'[t].record = Len(length') /\ toSend'[t].length = n /\ toSend'[t].sent = 0
    BY DEF N2aInv, N2aTypeOK, RecordsInv, Enters
  <2>2. Len(length') > 0 /\ n > 0
    BY <1>1, <1>5, NativeAssumption
  <2> QED
    BY <1>2, <1>8, <2>1, <2>2 DEF WritingInv
<1>11. ReadInv' /\ RecordsWhole'
  <2>1. Len(arrived) \in Nat /\ Len(length) \in Nat
    BY DEF N2aInv, ReadInv, N2aTypeOK
  <2>2. arrived' = arrived /\ read' = read /\ exter' = exter
    BY DEF Enters, exterVars
  <2>3. RecordsWhole'
    <3>1. \A i \in 1..Len(arrived) : i \in 1..Len(length) /\ arrived[i] = Whole(i)
      BY <2>1 DEF N2aInv, RecordsWhole
    <3>2. ASSUME NEW i \in 1..Len(length) PROVE Whole(i)' = Whole(i)
      BY <1>2 DEF Whole
    <3>3. \A i \in 1..Len(arrived) : i <= Len(length') /\ arrived[i] = Whole(i)'
      BY <2>1, <3>1, <3>2, <1>1
    <3> QED
      BY <2>2, <3>3 DEF RecordsWhole
  <2>4. read # <<>> => Len(arrived) + 1 \in 1..Len(length)
    BY <2>1 DEF N2aInv, ReadInv
  <2> QED
    BY <2>1, <2>2, <2>3, <2>4, <1>1, <1>2 DEF N2aInv, ReadInv
<1>12. PipeInv'
  <2>1. NextSent = [of |-> Len(length) + 1, place |-> 1]
    BY <1>7 DEF NextSent
  <2>2. (CHOOSE u \in Writing' : TRUE) = t
    BY <1>8
  <2>3. NextSent' = [of |-> Len(length'), place |-> toSend'[t].sent + 1]
    BY <1>8, <2>2 DEF NextSent
  <2>4. toSend'[t].sent = 0
    BY DEF N2aInv, N2aTypeOK, RecordsInv, Enters
  <2>5. NextSent' = NextSent
    BY <2>1, <2>3, <2>4, <1>1
  <2>6. pending' = pending /\ NextRead' = NextRead
    BY DEF Enters, exterVars, NextRead
  <2>7. \A i \in 1..Len(pending) : Follows(pending[i])' = Follows(pending[i])
    BY <1>1, <1>2, <2>6 DEF N2aInv, PipeInv, Follows
  <2>8. Len(pending) \in Nat /\ (pending # <<>> => Len(pending) \in 1..Len(pending))
    BY DEF N2aInv, N2aTypeOK
  <2>9. \A i \in 1..Len(pending) : pending[i].of \in 1..Len(length') /\ pending[i].place \in 1..length'[pending[i].of]
    BY <1>1, <1>2 DEF N2aInv, PipeInv
  <2>10. \A i \in 1..(Len(pending') - 1) : pending'[i + 1] = Follows(pending[i])'
    <3>1. \A i \in 1..(Len(pending) - 1) : pending[i + 1] = Follows(pending[i])
      BY DEF N2aInv, PipeInv
    <3>2. \A i \in 1..(Len(pending) - 1) : i \in 1..Len(pending)
      BY <2>8
    <3> QED
      BY <2>6, <2>7, <3>1, <3>2
  <2>11. NextSent' = IF pending' = <<>> THEN NextRead' ELSE Follows(pending[Len(pending)])'
    <3>1. NextSent = IF pending = <<>> THEN NextRead ELSE Follows(pending[Len(pending)])
      BY DEF N2aInv, PipeInv
    <3> QED
      BY <2>5, <2>6, <2>7, <2>8, <3>1
  <2>12. pending' # <<>> => pending'[1] = NextRead'
    BY <2>6 DEF N2aInv, PipeInv
  <2>13. \A i \in 1..Len(pending') : pending'[i].of \in 1..Len(length') /\ pending'[i].place \in 1..length'[pending'[i].of]
    BY <2>6, <2>9
  <2> QED
    BY <2>10, <2>11, <2>12, <2>13 DEF PipeInv
<1> QED
  BY <1>6, <1>9, <1>10, <1>11, <1>12 DEF N2aInv

(* A word is sent: it is the one NextSent named.                             *)
LEMMA SendsWordKeeps ==
  ASSUME N2aInv, NEW t \in Thread, SendsWord(t)
  PROVE  N2aInv'
<1> USE DEF RecordLength
<1> DEFINE r == toSend[t].record
           s == toSend[t].sent
           n == toSend[t].length
           w == [of |-> r, place |-> s + 1]
<1>1. Writing = {t} /\ t \in Holding
  BY DEF N2aInv, SemInv, SendsWord, Writing, Holding
<1>2. r = Len(length) /\ r \in 1..MaxRecords /\ n = length[r] /\ s < n /\ s \in Nat /\ n \in {2, 3}
  <2>1. toSend[t] \in [length : {0} \cup RecordLength, sent : 0..3, record : 0..MaxRecords]
    BY DEF N2aInv, N2aTypeOK
  <2>2. sender[t] = "words"
    BY DEF SendsWord
  <2>3. r = Len(length) /\ Len(length) > 0 /\ n = length[Len(length)] /\ s < n
    BY <1>1 DEF N2aInv, WritingInv
  <2>4. n \in RecordLength
    BY <2>2 DEF N2aInv, RecordsInv
  <2> QED
    BY <2>1, <2>3, <2>4, NativeAssumption
<1>3. pending' = Append(pending, w) /\ pending \in Seq(Word) /\ w \in Word /\ Len(pending) < WordSlots
  BY <1>2 DEF N2aInv, N2aTypeOK, SendsWord, Word
<1>4. NextSent = w
  BY <1>1, <1>2, NextSentIs
<1>5. length' = length /\ arrived' = arrived /\ read' = read /\ exter' = exter /\ n2asem' = n2asem
  BY DEF SendsWord, exterVars
<1>6. /\ sender' = [sender EXCEPT ![t] = IF s + 1 = n THEN "request" ELSE "words"]
      /\ toSend' = [toSend EXCEPT ![t].sent = s + 1]
  BY DEF N2aInv, N2aTypeOK, SendsWord
<1>7. N2aTypeOK'
  <2>1. pending' \in Seq(Word) /\ Len(pending') <= WordSlots
    BY <1>3, NativeAssumption
  <2>2. toSend' \in [Thread -> [length : {0} \cup RecordLength, sent : 0..3, record : 0..MaxRecords]]
    BY <1>2, <1>6 DEF N2aInv, N2aTypeOK
  <2>3. sender' \in [Thread -> {"idle", "wait", "words", "request", "post"}]
    BY <1>6 DEF N2aInv, N2aTypeOK
  <2>4. asleep' \in BOOLEAN /\ uaeIntRequested' = uaeIntRequested
    BY DEF N2aInv, N2aTypeOK, SendsWord
  <2> QED
    BY <1>5, <2>1, <2>2, <2>3, <2>4 DEF N2aInv, N2aTypeOK
<1>8. Waiting' = Waiting /\ Holding' = Holding /\ Writing' = IF s + 1 = n THEN {} ELSE {t}
  BY <1>1, <1>6 DEF N2aInv, N2aTypeOK, Waiting, Holding, Writing, SendsWord
<1>9. RecordsInv' /\ SemInv' /\ ReadInv' /\ RecordsWhole'
  <2>1. SemInv' /\ ReadInv' /\ RecordsWhole'
    BY <1>5, <1>8 DEF N2aInv, SemInv, ReadInv, RecordsWhole, Whole
  <2>2. \A u \in Thread : toSend'[u].length = toSend[u].length /\ (u # t => toSend'[u] = toSend[u] /\ sender'[u] = sender[u])
    BY <1>6 DEF N2aInv, N2aTypeOK
  <2>3. sender[t] = "words" /\ sender'[t] \in {"words", "request"}
    BY <1>6 DEF N2aInv, N2aTypeOK, SendsWord
  <2>4. RecordsInv'
    BY <1>5, <1>8, <2>2, <2>3 DEF N2aInv, RecordsInv
  <2> QED
    BY <2>1, <2>4
<1>10. WritingInv'
  BY <1>2, <1>5, <1>6, <1>8 DEF N2aInv, N2aTypeOK, WritingInv
<1>11. NextSent' = Follows(w)
  <2>1. CASE s + 1 = n
    BY <2>1, <1>2, <1>5, <1>8 DEF NextSent, Follows
  <2>2. CASE s + 1 # n
    <3>1. (CHOOSE u \in Writing' : TRUE) = t
      BY <2>2, <1>8
    <3>2. NextSent' = [of |-> Len(length'), place |-> toSend'[t].sent + 1]
      BY <2>2, <1>8, <3>1 DEF NextSent
    <3>3. toSend'[t].sent = s + 1
      BY <1>6 DEF N2aInv, N2aTypeOK
    <3> QED
      BY <2>2, <3>2, <3>3, <1>2, <1>5 DEF Follows
  <2> QED
    BY <2>1, <2>2
<1>12. PipeInv'
  <2> DEFINE k == Len(pending)
  <2>1. k \in Nat /\ Len(pending') = k + 1 /\ pending'[k + 1] = w /\ \A i \in 1..k : pending'[i] = pending[i]
    BY <1>3
  <2>3. NextRead' = NextRead
    BY <1>5 DEF NextRead
  <2>5. \A i \in 1..(k + 1) : pending'[i].of \in 1..Len(length') /\ pending'[i].place \in 1..length'[pending'[i].of]
    <3>1. w.of \in 1..Len(length') /\ w.place \in 1..length'[w.of]
      BY <1>2, <1>5
    <3>2. \A i \in 1..k : pending[i].of \in 1..Len(length) /\ pending[i].place \in 1..length[pending[i].of]
      BY DEF N2aInv, PipeInv
    <3>3. ASSUME NEW i \in 1..k PROVE pending'[i].of \in 1..Len(length') /\ pending'[i].place \in 1..length'[pending'[i].of]
      BY <1>5, <2>1, <3>2
    <3>4. \A i \in 1..(k + 1) : i \in 1..k \/ i = k + 1
      BY <2>1
    <3> QED
      BY <2>1, <3>1, <3>3, <3>4
  <2>6. \A i \in 1..k : pending'[i + 1] = Follows(pending[i])'
    <3>1. ASSUME NEW i \in 1..k, i < k PROVE pending'[i + 1] = Follows(pending[i])
      BY <3>1, <2>1 DEF N2aInv, PipeInv
    <3>2. k > 0 => w = Follows(pending[k])
      BY <1>4, <2>1 DEF N2aInv, PipeInv
    <3>3. ASSUME NEW i \in 1..k PROVE Follows(pending[i])' = Follows(pending[i])
      BY <1>5, <2>1 DEF Follows
    <3> QED
      BY <3>1, <3>2, <3>3, <2>1
  <2>7. NextSent' = Follows(pending'[k + 1])
    BY <1>11, <2>1
  <2>8. pending'[1] = NextRead'
    BY <1>4, <2>1, <2>3 DEF N2aInv, PipeInv
  <2>9. pending' # <<>> /\ Len(pending') - 1 = k
    BY <2>1
  <2>10. \A i \in 1..(Len(pending') - 1) : pending'[i + 1] = Follows(pending[i])'
    BY <2>6, <2>9
  <2>11. NextSent' = Follows(pending[Len(pending)])'
    BY <2>1, <2>7, <1>5 DEF Follows
  <2> QED
    BY <2>1, <2>5, <2>8, <2>9, <2>10, <2>11 DEF PipeInv
<1> QED
  BY <1>7, <1>9, <1>10, <1>12 DEF N2aInv

(* The end of a record's words leaves the places of all others as they are.  *)
LEMMA LeavesKeep ==
  ASSUME N2aInv, NEW t \in Thread, RequestsInt(t) \/ Leaves(t)
  PROVE  N2aInv'
<1>1. /\ length' = length /\ toSend' = toSend /\ pending' = pending /\ asleep' = asleep
      /\ arrived' = arrived /\ read' = read /\ exter' = exter
  BY DEF RequestsInt, Leaves, exterVars
<1>2. /\ sender[t] \in {"request", "post"} /\ sender'[t] \in {"post", "idle"}
      /\ \A u \in Thread : u # t => sender'[u] = sender[u]
  BY DEF N2aInv, N2aTypeOK, RequestsInt, Leaves
<1>3. N2aTypeOK'
  <2>1. sender' \in [Thread -> {"idle", "wait", "words", "request", "post"}]
    BY DEF N2aInv, N2aTypeOK, RequestsInt, Leaves
  <2>2. n2asem' \in {0, 1}
    BY DEF N2aInv, N2aTypeOK, RequestsInt, Leaves
  <2>3. uaeIntRequested' \in BOOLEAN
    BY DEF N2aInv, N2aTypeOK, RequestsInt, Leaves
  <2> QED
    BY <1>1, <2>1, <2>2, <2>3 DEF N2aInv, N2aTypeOK
<1>4. Waiting' = Waiting /\ Writing' = Writing /\ Holding' \subseteq Holding
  BY <1>2 DEF Waiting, Writing, Holding
<1>5. RecordsInv' /\ WritingInv' /\ ReadInv' /\ RecordsWhole'
  <2>1. RecordsInv'
    BY <1>1, <1>2, <1>4 DEF N2aInv, RecordsInv
  <2>2. WritingInv'
    BY <1>1, <1>4 DEF N2aInv, WritingInv
  <2> QED
    BY <1>1, <2>1, <2>2 DEF N2aInv, ReadInv, RecordsWhole, Whole
<1>6. SemInv'
  <2>1. CASE RequestsInt(t)
    <3>1. Holding' = Holding /\ n2asem' = n2asem
      BY <2>1 DEF N2aInv, N2aTypeOK, RequestsInt, Holding
    <3> QED
      BY <3>1 DEF N2aInv, SemInv
  <2>2. CASE Leaves(t)
    <3>1. t \in Holding /\ t \notin Holding'
      BY <1>2, <2>2 DEF N2aInv, N2aTypeOK, Leaves, Holding
    <3> QED
      BY <1>4, <3>1 DEF N2aInv, SemInv
  <2> QED
    BY <2>1, <2>2
<1>7. PipeInv'
  BY <1>1, <1>4 DEF N2aInv, PipeInv, NextSent, NextRead, Follows
<1> QED
  BY <1>3, <1>5, <1>6, <1>7 DEF N2aInv

(* A word read is the one NextRead named, and the last of a record makes the *)
(* record whole.                                                             *)
LEMMA TakesKeep ==
  ASSUME N2aInv, pending # <<>>, Takes, UNCHANGED <<sendVars, asleep, uaeIntRequested>>
  PROVE  N2aInv'
<1> USE DEF RecordLength
<1> DEFINE r == Len(arrived) + 1
           words == Append(read, Head(pending))
<1>1. /\ length' = length /\ toSend' = toSend /\ sender' = sender /\ n2asem' = n2asem
      /\ asleep' = asleep /\ uaeIntRequested' = uaeIntRequested
  BY DEF sendVars
<1>2. pending \in Seq(Word) /\ Len(pending) \in 1..WordSlots /\ read \in Seq(Word) /\ arrived \in Seq(Seq(Word))
  BY NativeAssumption DEF N2aInv, N2aTypeOK, ReadInv
<1>3. Head(pending) = pending[1] /\ pending[1] = [of |-> r, place |-> Len(read) + 1]
  BY <1>2 DEF N2aInv, PipeInv, NextRead
<1>4. r \in 1..Len(length) /\ Len(read) + 1 \in 1..length[r] /\ length \in Seq(RecordLength)
  BY <1>2, <1>3 DEF N2aInv, N2aTypeOK, PipeInv
<1>5. words \in Seq(Word) /\ Len(words) = Len(read) + 1 /\ words[Len(read) + 1] = [of |-> r, place |-> Len(read) + 1]
  BY <1>2, <1>3, <1>4
<1>6. \A i \in 1..Len(words) : words[i] = [of |-> r, place |-> i]
  <2>1. \A i \in 1..Len(read) : words[i] = read[i] /\ read[i] = [of |-> r, place |-> i]
    BY <1>2 DEF N2aInv, ReadInv
  <2> QED
    BY <1>2, <1>5, <2>1
<1>7. words[1].of = r
  <2>1. Len(words) \in Nat /\ Len(words) > 0
    BY <1>2, <1>5
  <2>2. words[1] = [of |-> r, place |-> 1]
    BY <1>6, <2>1
  <2> QED
    BY <2>2
<1>8. pending' = Tail(pending) /\ Len(pending') = Len(pending) - 1 /\ pending' \in Seq(Word)
      /\ \A i \in 1..Len(pending') : pending'[i] = pending[i + 1]
  BY <1>2 DEF Takes
<1>9. /\ Len(words) = length[r] => arrived' = Append(arrived, words) /\ read' = <<>> /\ exter' = "loop"
      /\ Len(words) # length[r] => arrived' = arrived /\ read' = words /\ exter' = "words"
  BY <1>7 DEF Takes
<1> HIDE DEF words
<1>10. N2aTypeOK'
  <2>1. read' \in Seq(Word) /\ exter' \in {"out", "loop", "words", "leave"}
    <3>1. CASE Len(words) = length[r]
      <4>1. read' = <<>> /\ exter' = "loop"
        BY <1>9, <3>1
      <4> QED
        BY <4>1
    <3>2. CASE Len(words) # length[r]
      <4>1. read' = words /\ exter' = "words"
        BY <1>9, <3>2
      <4>2. read' \in Seq(Word)
        BY <1>5, <4>1
      <4> QED
        BY <4>1, <4>2
    <3> QED
      BY <3>1, <3>2
  <2>2. Len(pending') <= WordSlots
    BY <1>2, <1>8, NativeAssumption
  <2> QED
    BY <1>1, <1>8, <2>1, <2>2 DEF N2aInv, N2aTypeOK
<1>11. RecordsInv' /\ SemInv' /\ WritingInv' /\ NextSent' = NextSent
  BY <1>1 DEF N2aInv, RecordsInv, SemInv, WritingInv, Waiting, Holding, Writing, NextSent
<1>12. ReadInv'
  <2>1. CASE Len(words) = length[r]
    <3>1. read' = <<>> /\ exter' = "loop" /\ arrived' = Append(arrived, words)
      BY <1>9, <2>1
    <3>2. words \in Seq(Word)
      BY <1>5
    <3>3. arrived' \in Seq(Seq(Word))
      BY <1>2, <3>1, <3>2
    <3> QED
      BY <3>1, <3>3 DEF ReadInv
  <2>2. CASE Len(words) # length[r]
    <3>1. Len(read) \in Nat /\ Len(words) = Len(read) + 1
      BY <1>2, <1>5
    <3>2. Len(words) < length[r]
      BY <1>4, <2>2, <3>1
    <3>3. words # <<>>
      BY <3>1
    <3>4. arrived' = arrived /\ read' = words /\ exter' = "words"
      BY <1>9, <2>2
    <3>5. \A i \in 1..Len(read') : read'[i] = [of |-> Len(arrived') + 1, place |-> i]
      BY <1>6, <3>4
    <3>6. read' # <<>> => Len(arrived') + 1 <= Len(length') /\ Len(read') < length'[Len(arrived') + 1]
      BY <1>1, <1>4, <3>2, <3>4
    <3> QED
      BY <1>2, <3>3, <3>4, <3>5, <3>6 DEF ReadInv
  <2> QED
    BY <2>1, <2>2
<1>13. RecordsWhole'
  <2>1. \A i \in 1..Len(arrived) : i <= Len(length) /\ arrived[i] = Whole(i)
    BY DEF N2aInv, RecordsWhole
  <2>2. CASE Len(words) = length[r]
    <3>1. words = Whole(r)
      <4> HIDE DEF r
      <4>1. words = [i \in 1..Len(words) |-> words[i]]
        BY <1>5
      <4>2. words = [i \in 1..Len(words) |-> [of |-> r, place |-> i]]
        BY <1>6, <4>1
      <4> QED
        BY <2>2, <4>2 DEF Whole
    <3>2. Len(arrived') = r /\ arrived'[r] = words /\ \A i \in 1..Len(arrived) : arrived'[i] = arrived[i]
      <4>1. arrived' = Append(arrived, words)
        BY <1>9, <2>2
      <4>2. words \in Seq(Word)
        BY <1>5
      <4> QED
        BY <1>2, <4>1, <4>2
    <3>3. ASSUME NEW i \in 1..Len(arrived') PROVE i <= Len(length) /\ arrived'[i] = Whole(i)
      <4>1. CASE i \in 1..Len(arrived)
        BY <2>1, <3>2, <4>1
      <4>2. CASE i = r
        BY <1>4, <3>1, <3>2, <4>2
      <4>3. Len(arrived) \in Nat
        BY <1>2
      <4> QED
        BY <3>2, <4>1, <4>2, <4>3
    <3> QED
      BY <1>1, <3>3 DEF RecordsWhole, Whole
  <2>3. CASE Len(words) # length[r]
    BY <1>1, <1>9, <2>1, <2>3 DEF RecordsWhole, Whole
  <2> QED
    BY <2>2, <2>3
<1>14. NextRead' = Follows(pending[1])
  <2>1. CASE Len(words) = length[r]
    <3>1. Len(arrived') = r /\ read' = <<>>
      BY <1>2, <1>5, <1>9, <2>1
    <3> QED
      BY <1>2, <1>3, <1>4, <1>5, <2>1, <3>1 DEF NextRead, Follows
  <2>2. CASE Len(words) # length[r]
    <3>1. arrived' = arrived /\ Len(read') = Len(read) + 1 /\ Len(read) + 1 < length[r]
      BY <1>2, <1>4, <1>5, <1>9, <2>2
    <3> QED
      BY <1>2, <1>3, <1>4, <3>1 DEF NextRead, Follows
  <2> QED
    BY <2>1, <2>2
<1>15. PipeInv'
  <2>1. \A i \in 1..Len(pending') : pending'[i].of \in 1..Len(length') /\ pending'[i].place \in 1..length'[pending'[i].of]
    BY <1>1, <1>2, <1>8 DEF N2aInv, PipeInv
  <2>2. \A i \in 1..(Len(pending') - 1) : pending'[i + 1] = Follows(pending[i])'
    <3>1. ASSUME NEW i \in 1..(Len(pending') - 1) PROVE pending'[i + 1] = Follows(pending[i + 1])
      BY <1>2, <1>8 DEF N2aInv, PipeInv
    <3> QED
      BY <1>1, <1>2, <1>8, <3>1 DEF Follows
  <2>3. pending' # <<>> => pending'[1] = NextRead'
    BY <1>2, <1>8, <1>14 DEF N2aInv, PipeInv
  <2>4. CASE Len(pending) = 1
    <3>1. NextSent = Follows(pending[1])
      BY <1>2, <2>4 DEF N2aInv, PipeInv
    <3>2. pending' = <<>>
      BY <1>2, <1>8, <2>4
    <3> QED
      BY <1>11, <1>14, <2>1, <2>2, <3>1, <3>2 DEF PipeInv
  <2>5. CASE Len(pending) > 1
    <3>1. NextSent = Follows(pending[Len(pending)]) /\ pending' # <<>> /\ pending'[Len(pending')] = pending[Len(pending)]
      <4>1. Len(pending') = Len(pending) - 1 /\ Len(pending) \in Nat
        BY <1>2, <1>8
      <4>2. pending' # <<>> /\ Len(pending') \in 1..Len(pending')
        <5>1. Len(pending') > 0 /\ Len(pending') \in Nat
          BY <2>5, <4>1
        <5> QED
          BY <5>1
      <4>3. pending'[Len(pending')] = pending[Len(pending)]
        BY <1>8, <4>1, <4>2
      <4>4. NextSent = Follows(pending[Len(pending)])
        BY DEF N2aInv, PipeInv
      <4> QED
        BY <4>2, <4>3, <4>4
    <3>2. NextSent' = Follows(pending[Len(pending)])'
      BY <1>1, <1>11, <3>1 DEF Follows
    <3> QED
      BY <2>1, <2>2, <2>3, <3>1, <3>2 DEF PipeInv
  <2>6. Len(pending) = 1 \/ Len(pending) > 1
    <3>1. Len(pending) \in Nat /\ Len(pending) # 0
      BY <1>2
    <3> QED
      BY <3>1
  <2> QED
    BY <2>4, <2>5, <2>6
<1> QED
  BY <1>10, <1>11, <1>12, <1>13, <1>15 DEF N2aInv

(* The interrupt's other steps move no word.                                 *)
LEMMA ExterKeeps ==
  ASSUME N2aInv, ExterBegins \/ FindsNothing \/ ExterEnds \/ (ReadsWord /\ pending = <<>>) \/ UNCHANGED n2aVars
  PROVE  N2aInv'
<1>1. /\ length' = length /\ toSend' = toSend /\ sender' = sender /\ n2asem' = n2asem /\ pending' = pending
      /\ read' = read /\ arrived' = arrived /\ (exter' = "words" <=> exter = "words")
  BY DEF ExterBegins, FindsNothing, ExterEnds, ReadsWord, sendVars, exterVars, n2aVars
<1>2. asleep' \in BOOLEAN
  BY DEF N2aInv, N2aTypeOK, ExterBegins, FindsNothing, ExterEnds, ReadsWord, exterVars, n2aVars
<1>3. uaeIntRequested' \in BOOLEAN
  BY DEF N2aInv, N2aTypeOK, ExterBegins, FindsNothing, ExterEnds, ReadsWord, n2aVars
<1>4. exter' \in {"out", "loop", "words", "leave"}
  BY DEF N2aInv, N2aTypeOK, ExterBegins, FindsNothing, ExterEnds, ReadsWord, exterVars, n2aVars
<1>5. N2aTypeOK'
  BY <1>1, <1>2, <1>3, <1>4 DEF N2aInv, N2aTypeOK
<1>6. RecordsInv' /\ SemInv' /\ WritingInv' /\ RecordsWhole'
  BY <1>1 DEF N2aInv, RecordsInv, SemInv, WritingInv, RecordsWhole, Whole, Waiting, Holding, Writing
<1>7. PipeInv' /\ ReadInv'
  BY <1>1 DEF N2aInv, PipeInv, ReadInv, NextSent, NextRead, Follows, Writing
<1> QED
  BY <1>5, <1>6, <1>7 DEF N2aInv

(* Every step of the threads and the interrupt keeps the invariant.          *)
LEMMA NextKeeps == N2aInv /\ [N2aNext]_n2aVars => N2aInv'
<1> SUFFICES ASSUME N2aInv, [N2aNext]_n2aVars PROVE N2aInv'
  OBVIOUS
<1>1. ASSUME NEW t \in Thread, NEW n \in RecordLength, Sends(t, n) PROVE N2aInv'
  BY <1>1, SendsKeeps
<1>2. ASSUME NEW t \in Thread, Enters(t) PROVE N2aInv'
  BY <1>2, EntersKeeps
<1>3. ASSUME NEW t \in Thread, SendsWord(t) PROVE N2aInv'
  BY <1>3, SendsWordKeeps
<1>4. ASSUME NEW t \in Thread, RequestsInt(t) \/ Leaves(t) PROVE N2aInv'
  BY <1>4, LeavesKeep
<1>5. CASE Polls
  <2>1. UNCHANGED <<sendVars, asleep, uaeIntRequested>>
    BY <1>5 DEF Polls
  <2> QED
    BY <1>5, <2>1, TakesKeep DEF Polls
<1>6. CASE ReadsWord /\ pending # <<>>
  <2>1. UNCHANGED <<sendVars, asleep, uaeIntRequested>>
    BY <1>6 DEF ReadsWord
  <2> QED
    BY <1>6, <2>1, TakesKeep DEF ReadsWord
<1>7. CASE ExterBegins \/ FindsNothing \/ ExterEnds \/ (ReadsWord /\ pending = <<>>) \/ UNCHANGED n2aVars
  BY <1>7, ExterKeeps
<1> QED
  BY <1>1, <1>2, <1>3, <1>4, <1>5, <1>6, <1>7 DEF N2aNext, Sender, Exter

-----------------------------------------------------------------------------
(* So the invariant always holds.                                            *)
LEMMA N2aInvariance == N2aSpec => []N2aInv
  BY InitInv, NextKeeps, PTL DEF N2aSpec

(* The pipe, the threads and the interrupt stay within their types: no more  *)
(* words in the pipe than it holds, no word of a record that was not called  *)
(* for.                                                                      *)
THEOREM RecordTypes == N2aSpec => []N2aTypeOK
<1>1. N2aInv => N2aTypeOK
  BY DEF N2aInv
<1> QED
  BY N2aInvariance, <1>1, PTL

(* The machine gets every record whole and in the order of n2asem, whatever  *)
(* the threads, the size of the pipe and the number of records.              *)
THEOREM RecordsArriveWhole == N2aSpec => []RecordsWhole
<1>1. N2aInv => RecordsWhole
  BY DEF N2aInv
<1> QED
  BY N2aInvariance, <1>1, PTL

(* "never not enough": words in the pipe have an interrupt to come.          *)
THEOREM InterruptToCome == N2aSpec => []NeverNotEnough
<1>1. N2aInit => NeverNotEnough
  BY DEF N2aInit, NeverNotEnough
<1>2. N2aInv /\ NeverNotEnough /\ [N2aNext]_n2aVars => NeverNotEnough'
  <2> SUFFICES ASSUME N2aInv, NeverNotEnough, [N2aNext]_n2aVars PROVE NeverNotEnough'
    OBVIOUS
  <2>1. ASSUME NEW t \in Thread, NEW n \in RecordLength, Sends(t, n) PROVE NeverNotEnough'
    BY <2>1 DEF N2aInv, N2aTypeOK, NeverNotEnough, Sends, exterVars
  <2>2. ASSUME NEW t \in Thread, Enters(t) PROVE NeverNotEnough'
    BY <2>2 DEF N2aInv, N2aTypeOK, NeverNotEnough, Enters, exterVars
  <2>3. ASSUME NEW t \in Thread, SendsWord(t) PROVE NeverNotEnough'
    <3>1. sender'[t] \in {"words", "request"}
      BY <2>3 DEF N2aInv, N2aTypeOK, SendsWord
    <3> QED
      BY <3>1 DEF NeverNotEnough
  <2>4. ASSUME NEW t \in Thread, RequestsInt(t) PROVE NeverNotEnough'
    BY <2>4 DEF NeverNotEnough, RequestsInt
  <2>5. ASSUME NEW t \in Thread, Leaves(t) PROVE NeverNotEnough'
    <3>1. sender[t] = "post" /\ \A u \in Thread : u # t => sender'[u] = sender[u]
      BY <2>5 DEF N2aInv, N2aTypeOK, Leaves
    <3>2. pending' = pending /\ uaeIntRequested' = uaeIntRequested /\ exter' = exter
      BY <2>5 DEF Leaves, exterVars
    <3> QED
      BY <3>1, <3>2 DEF NeverNotEnough
  <2>6. CASE Exter
    BY <2>6 DEF NeverNotEnough, Exter, ExterBegins, Polls, ReadsWord, Takes, FindsNothing, ExterEnds,
      sendVars, exterVars
  <2>7. CASE UNCHANGED n2aVars
    BY <2>7 DEF NeverNotEnough, n2aVars, sendVars, exterVars
  <2> QED
    BY <2>1, <2>2, <2>3, <2>4, <2>5, <2>6, <2>7 DEF N2aNext, Sender
<1> QED
  BY N2aInvariance, <1>1, <1>2, PTL DEF N2aSpec

-----------------------------------------------------------------------------
(* UaeState, of which safety needs no fairness.                              *)
UsSpec == UsInit /\ [][UsNext]_usVars

(* Where real_main is, from which the states follow: the place it goes on to *)
(* while it notifies the GUI, and the loop it polls in.                      *)
Where ==
  CASE At("notify") /\ emulator.next # "poll" -> emulator.next
    [] At("poll") \/ At("check") \/ (At("notify") /\ emulator.next = "poll") -> emulator.loop
    [] At("box") \/ At("boxWait") \/ At("restart") -> IF emulator.next = "machine" THEN "init" ELSE "reset"
    [] OTHER -> emulator.pc

MainPC == {"begin", "preinit", "poll", "check", "start", "init", "machine", "reset", "resetEnd",
           "running", "notify", "box", "boxWait", "restart", "ended"}
NextPC == {"begin", "preinit", "reset", "poll", "machine", "resetEnd"}
Loops == {"none", "gui", "run", "paused"}
Messages == UaeStates \cup {"box", "show"}

MainTypeOK == emulator \in [pc : MainPC, next : NextPC, loop : Loops]

PlacesInv ==
  /\ At("notify") => emulator.next \in {"preinit", "reset", "poll"}
  /\ At("box") \/ At("boxWait") \/ At("restart") => emulator.next \in {"machine", "resetEnd"}
  /\ At("poll") \/ At("check") => emulator.loop # "none"
  /\ At("notify") /\ emulator.next = "poll" => emulator.loop \in {"run", "paused"}

StatesInv ==
  CASE Where = "begin" -> uaeState # "QUITTING" /\ target \in {"STOPPED", "QUITTING"}
    [] Where = "preinit" -> uaeState = "STOPPED" /\ target = "STOPPED"
    [] Where \in {"gui", "start"} -> uaeState = "STOPPED" /\ target \in {"STOPPED", "COLD_START", "QUITTING"}
    [] Where = "init" -> uaeState = "STOPPED" /\ target = "COLD_START"
    [] Where = "machine" -> /\ uaeState # "QUITTING" /\ target \in {"COLD_START", "WARM_START", "STOPPED", "QUITTING"}
                            /\ target = "WARM_START" => uaeState \in {"RUNNING", "PAUSED"}
    [] Where = "reset" -> uaeState \in {"COLD_START", "WARM_START"} /\ target = uaeState
    [] Where = "resetEnd" -> uaeState \in {"COLD_START", "WARM_START"}
    [] Where = "running" -> uaeState \in {"COLD_START", "WARM_START", "PAUSED"} /\ target = "RUNNING"
    [] Where = "run" -> uaeState = "RUNNING"
    [] Where = "paused" -> uaeState = "PAUSED"
    [] OTHER -> Where = "ended"

(* The emulator thread waits for one box at a time: the message is on its    *)
(* way, the box is shown, or it was closed.                                  *)
NoBox(q) == \A i \in 1..Len(q) : q[i] # "box"
OneBox(q) == \E i \in 1..Len(q) : q[i] = "box" /\ \A j \in 1..Len(q) : q[j] = "box" => j = i

BoxInv ==
  \/ ~At("boxWait") /\ boxSem = 0 /\ ~gui.box /\ NoBox(toGui)
  \/ At("boxWait") /\ boxSem = 1 /\ ~gui.box /\ NoBox(toGui)
  \/ At("boxWait") /\ boxSem = 0 /\ gui.box /\ NoBox(toGui)
  \/ At("boxWait") /\ boxSem = 0 /\ ~gui.box /\ OneBox(toGui)

UsInv == UsTypeOK /\ MainTypeOK /\ PlacesInv /\ StatesInv /\ BoxInv

(* What a request makes of the target, and that a window not started yet     *)
(* asks for no pause and no reset.                                           *)
LEMMA AfterFacts ==
  ASSUME NEW c \in Commands \cup {"HARDRESET"}, target \in UaeStates
  PROVE  /\ After(c) \in UaeStates
         /\ LET Stopped == {"STOPPED", "COLD_START", "QUITTING"} IN target \in Stopped => After(c) \in Stopped
BY SMT DEF After, Commands, UaeStates

(* The two requests that real_main makes itself.                             *)
LEMMA QuitAndStop ==
  After("QUIT") = "QUITTING" /\ After("STOP") = (IF target = "QUITTING" THEN target ELSE "STOPPED")
BY SMT DEF After

(* The parts of the records.                                                 *)
LEMMA UsFacts ==
  ASSUME UsTypeOK, MainTypeOK
  PROVE  /\ emulator.pc \in MainPC /\ emulator.next \in NextPC /\ emulator.loop \in Loops
         /\ uaeState \in UaeStates /\ target \in UaeStates /\ restart \in 0..3
         /\ toGui \in Seq(Messages) /\ fromGui \in Seq(Commands)
         /\ gui.writing \in Commands \cup {"none"} /\ gui.shows \in UaeStates \cup {"none"}
         /\ gui.box \in BOOLEAN /\ gui.pauseDown \in BOOLEAN
BY DEF UsTypeOK, MainTypeOK, Messages

(* A step of real_main to another place.                                     *)
LEMMA GoToFacts ==
  ASSUME MainTypeOK, NEW pc \in MainPC, GoTo(pc)
  PROVE  MainTypeOK' /\ emulator'.pc = pc /\ emulator'.next = emulator.next /\ emulator'.loop = emulator.loop
BY DEF MainTypeOK, GoTo

(* set_state, after which the GUI may be told first.                         *)
LEMMA SetStateFacts ==
  ASSUME MainTypeOK, NEW s, NEW next \in {"preinit", "reset"}, SetState(s, next)
  PROVE  /\ MainTypeOK' /\ emulator'.pc \in {"notify", next} /\ emulator'.next = next
         /\ emulator'.loop = emulator.loop /\ uaeState' = s
<1>1. PICK pc \in {"notify", next} : emulator' = [emulator EXCEPT !.pc = pc, !.next = next]
  BY DEF SetState
<1> QED
  BY <1>1 DEF SetState, MainTypeOK, MainPC, NextPC

(* A message more or less in a pipe.                                         *)
LEMMA PipeFacts ==
  ASSUME NEW S, NEW q \in Seq(S), NEW x \in S
  PROVE  /\ Append(q, x) \in Seq(S) /\ Len(Append(q, x)) = Len(q) + 1 /\ Len(q) \in Nat
         /\ \A i \in 1..Len(q) : Append(q, x)[i] = q[i]
         /\ Append(q, x)[Len(q) + 1] = x
         /\ q # <<>> => /\ Head(q) \in S /\ Head(q) = q[1] /\ Tail(q) \in Seq(S) /\ Len(Tail(q)) = Len(q) - 1 /\ Len(q) > 0
                        /\ \A i \in 1..(Len(q) - 1) : Tail(q)[i] = q[i + 1]
OBVIOUS

UsValues == uaeState \in UaeStates /\ target \in UaeStates /\ restart \in 0..3 /\ boxSem \in 0..1
PipesOK ==
  /\ toGui \in Seq(Messages) /\ Len(toGui) <= GuiSlots
  /\ fromGui \in Seq(Commands) /\ Len(fromGui) <= CmdSlots
GuiOK ==
  gui \in [writing : Commands \cup {"none"}, shows : UaeStates \cup {"none"}, pauseDown : BOOLEAN, box : BOOLEAN]

(* The type invariant, in parts.                                             *)
LEMMA UsTypesApart == UsTypeOK /\ MainTypeOK <=> UsValues /\ MainTypeOK /\ PipesOK /\ GuiOK
BY UsFacts DEF UsTypeOK, MainTypeOK, UsValues, PipesOK, GuiOK, MainPC, Loops, Messages

(* The same in the next state.                                               *)
LEMMA UsTypesApartNext == UsTypeOK' /\ MainTypeOK' <=> UsValues' /\ MainTypeOK' /\ PipesOK' /\ GuiOK'
BY DEF UsTypeOK, MainTypeOK, UsValues, PipesOK, GuiOK, MainPC, Loops, Messages

(* At the start the machine is stopped and nothing was asked for.            *)
LEMMA UsInitially == UsInit => UsInv
<1> SUFFICES ASSUME UsInit PROVE UsInv
  OBVIOUS
<1>1. UsTypeOK /\ MainTypeOK
  <2>1. UsValues /\ MainTypeOK
    BY DEF UsInit, UsValues, MainTypeOK, UaeStates, MainPC, NextPC, Loops
  <2>2. PipesOK
    BY UaeStateAssumption DEF UsInit, PipesOK, UaeStateAssumption
  <2>3. GuiOK
    BY DEF UsInit, GuiOK
  <2> QED
    BY <2>1, <2>2, <2>3, UsTypesApart
<1>2. PlacesInv /\ StatesInv
  BY DEF UsInit, PlacesInv, StatesInv, Where, At
<1>3. BoxInv
  BY DEF UsInit, BoxInv, NoBox, At
<1> QED
  BY <1>1, <1>2, <1>3 DEF UsInv

(* Every step keeps the types, real_main's places and the states at them.    *)
LEMMA UsKeeps == ASSUME UsInv, UsNext PROVE UsTypeOK' /\ MainTypeOK' /\ PlacesInv' /\ StatesInv'
<1> USE DEF At, mainVars, guiVars, setupVars, askVars
<1>0. UsTypeOK /\ MainTypeOK /\ PlacesInv /\ StatesInv /\ BoxInv /\ UsValues /\ PipesOK /\ GuiOK
  BY UsTypesApart DEF UsInv
<1>a. \A c \in Commands \cup {"HARDRESET"} : 
         /\ After(c) \in UaeStates
         /\ target \in {"STOPPED", "COLD_START", "QUITTING"} => After(c) \in {"STOPPED", "COLD_START", "QUITTING"}
  BY <1>0, AfterFacts DEF UsTypeOK
<1>f. GuiSlots \in Nat \ {0} /\ CmdSlots \in Nat \ {0}
  BY UaeStateAssumption DEF UaeStateAssumption
<1> SUFFICES UsValues' /\ MainTypeOK' /\ PipesOK' /\ GuiOK' /\ PlacesInv' /\ StatesInv'
  BY UsTypesApartNext
<1>1. CASE Notifies
  <2> USE <1>1 DEF Notifies
  <2>1. /\ MainTypeOK' /\ emulator'.pc = emulator.next /\ emulator'.next = emulator.next /\ emulator'.loop = emulator.loop
    BY <1>0, UsFacts, GoToFacts DEF MainPC, NextPC
  <2>2. UsValues'
    BY <1>0, <1>a, <2>1, QuitAndStop, UsFacts DEF UsValues, BoxInv, UaeStates, Commands, Keys
  <2>3. PipesOK'
    BY <1>0, <1>f, UsFacts, PipeFacts DEF PipesOK, Messages
  <2>4. GuiOK'
    BY <1>0, UsFacts, PipeFacts DEF GuiOK, Messages, UaeStates, Commands
  <2>5. PlacesInv'
    BY <1>0, <2>1, UsFacts DEF PlacesInv
  <2>6. StatesInv'
    BY <1>0, <1>a, <2>1, UsFacts, QuitAndStop
    DEF StatesInv, PlacesInv, UaeStates, Commands, Keys, Where
  <2> QED
    BY <2>1, <2>2, <2>3, <2>4, <2>5, <2>6
<1>2. CASE Begins
  <2> USE <1>2 DEF Begins
  <2>1. /\ MainTypeOK' /\ emulator'.loop = emulator.loop
        /\ \/ emulator'.pc = "ended" /\ emulator'.next = emulator.next /\ target = "QUITTING" /\ uaeState' = uaeState
           \/ emulator'.pc \in {"notify", "preinit"} /\ emulator'.next = "preinit"
              /\ target # "QUITTING" /\ uaeState' = target
    BY <1>0, GoToFacts, SetStateFacts DEF MainPC
  <2>2. UsValues'
    BY <1>0, <1>a, <2>1, QuitAndStop, UsFacts DEF UsValues, BoxInv, UaeStates, Commands, Keys
  <2>3. PipesOK'
    BY <1>0, <1>f, UsFacts, PipeFacts DEF PipesOK, Messages
  <2>4. GuiOK'
    BY <1>0, UsFacts, PipeFacts DEF GuiOK, Messages, UaeStates, Commands
  <2>5. PlacesInv'
    BY <1>0, <2>1, UsFacts DEF PlacesInv
  <2>6. StatesInv'
    BY <1>0, <1>a, <2>1, UsFacts, QuitAndStop
    DEF StatesInv, PlacesInv, UaeStates, Commands, Keys, Where
  <2> QED
    BY <2>1, <2>2, <2>3, <2>4, <2>5, <2>6
<1>3. CASE OpensGui
  <2> USE <1>3 DEF OpensGui
  <2>1. /\ MainTypeOK' /\ emulator'.next = emulator.next
        /\ \/ emulator'.pc = "poll" /\ emulator'.loop = "gui" /\ UNCHANGED <<target, restart>>
           \/ emulator'.pc = "start" /\ emulator'.loop = emulator.loop
    BY <1>0 DEF MainTypeOK, MainPC, NextPC, Loops, GoTo
  <2>2. UsValues'
    BY <1>0, <1>a, <2>1, QuitAndStop, UsFacts DEF UsValues, BoxInv, UaeStates, Commands, Keys
  <2>3. PipesOK'
    <3>1. \/ toGui' = Append(toGui, "show") /\ Len(toGui) < GuiSlots
          \/ toGui' = toGui
      OBVIOUS
    <3> QED
      BY <1>0, <1>f, <3>1, UsFacts, PipeFacts DEF PipesOK, Messages
  <2>4. GuiOK'
    BY <1>0, UsFacts, PipeFacts DEF GuiOK, Messages, UaeStates, Commands
  <2>5. PlacesInv'
    BY <1>0, <2>1, UsFacts DEF PlacesInv
  <2>6. StatesInv'
    BY <1>0, <1>a, <2>1, UsFacts, QuitAndStop
    DEF StatesInv, PlacesInv, UaeStates, Commands, Keys, Where
  <2> QED
    BY <2>1, <2>2, <2>3, <2>4, <2>5, <2>6
<1>4. CASE Starts
  <2> USE <1>4 DEF Starts
  <2>1. /\ MainTypeOK' /\ emulator'.next = emulator.next /\ emulator'.loop = emulator.loop
        /\ \/ emulator'.pc = "ended" 
           \/ emulator'.pc = "init" /\ target' = "COLD_START"
    BY <1>0, GoToFacts DEF MainPC
  <2>2. UsValues'
    BY <1>0, <1>a, <2>1, QuitAndStop, UsFacts DEF UsValues, BoxInv, UaeStates, Commands, Keys
  <2>3. PipesOK'
    BY <1>0, <1>f, UsFacts, PipeFacts DEF PipesOK, Messages
  <2>4. GuiOK'
    BY <1>0, UsFacts, PipeFacts DEF GuiOK, Messages, UaeStates, Commands
  <2>5. PlacesInv'
    BY <1>0, <2>1, UsFacts DEF PlacesInv
  <2>6. StatesInv'
    BY <1>0, <1>a, <2>1, UsFacts, QuitAndStop
    DEF StatesInv, PlacesInv, UaeStates, Commands, Keys, Where
  <2> QED
    BY <2>1, <2>2, <2>3, <2>4, <2>5, <2>6
<1>5. CASE Resets
  <2> USE <1>5 DEF Resets
  <2>1. /\ MainTypeOK' /\ emulator'.loop = emulator.loop
        /\ \/ emulator'.pc = "begin" /\ emulator'.next = emulator.next
              /\ target \in {"QUITTING", "STOPPED"} /\ uaeState' = uaeState
           \/ emulator'.pc \in {"notify", "reset"} /\ emulator'.next = "reset"
              /\ target \notin {"QUITTING", "STOPPED"} /\ uaeState' = target
    BY <1>0, GoToFacts, SetStateFacts DEF MainPC
  <2>2. UsValues'
    BY <1>0, <1>a, <2>1, QuitAndStop, UsFacts DEF UsValues, BoxInv, UaeStates, Commands, Keys
  <2>3. PipesOK'
    BY <1>0, <1>f, UsFacts, PipeFacts DEF PipesOK, Messages
  <2>4. GuiOK'
    BY <1>0, UsFacts, PipeFacts DEF GuiOK, Messages, UaeStates, Commands
  <2>5. PlacesInv'
    BY <1>0, <2>1, UsFacts DEF PlacesInv
  <2>6. StatesInv'
    BY <1>0, <1>a, <2>1, UsFacts, QuitAndStop
    DEF StatesInv, PlacesInv, UaeStates, Commands, Keys, Where
  <2> QED
    BY <2>1, <2>2, <2>3, <2>4, <2>5, <2>6
<1>6. CASE RomFails
  <2> USE <1>6 DEF RomFails
  <2>1. /\ MainTypeOK' /\ emulator'.loop = emulator.loop /\ emulator'.pc \in {"box", "restart"}
        /\ emulator'.next = (IF At("init") THEN "machine" ELSE "resetEnd")
    BY <1>0 DEF MainTypeOK, MainPC, NextPC, Loops, GoTo
  <2>2. UsValues'
    BY <1>0, <1>a, <2>1, QuitAndStop, UsFacts DEF UsValues, BoxInv, UaeStates, Commands, Keys
  <2>3. PipesOK'
    BY <1>0, <1>f, UsFacts, PipeFacts DEF PipesOK, Messages
  <2>4. GuiOK'
    BY <1>0, UsFacts, PipeFacts DEF GuiOK, Messages, UaeStates, Commands
  <2>5. PlacesInv'
    BY <1>0, <2>1, UsFacts DEF PlacesInv
  <2>6. StatesInv'
    BY <1>0, <1>a, <2>1, UsFacts, QuitAndStop
    DEF StatesInv, PlacesInv, UaeStates, Commands, Keys, Where
  <2> QED
    BY <2>1, <2>2, <2>3, <2>4, <2>5, <2>6
<1>7. CASE WritesBox
  <2> USE <1>7 DEF WritesBox
  <2>1. /\ MainTypeOK' /\ emulator'.pc = "boxWait" /\ emulator'.next = emulator.next /\ emulator'.loop = emulator.loop
    BY <1>0, GoToFacts DEF MainPC
  <2>2. UsValues'
    BY <1>0, <1>a, <2>1, QuitAndStop, UsFacts DEF UsValues, BoxInv, UaeStates, Commands, Keys
  <2>3. PipesOK'
    BY <1>0, <1>f, UsFacts, PipeFacts DEF PipesOK, Messages
  <2>4. GuiOK'
    BY <1>0, UsFacts, PipeFacts DEF GuiOK, Messages, UaeStates, Commands
  <2>5. PlacesInv'
    BY <1>0, <2>1, UsFacts DEF PlacesInv
  <2>6. StatesInv'
    BY <1>0, <1>a, <2>1, UsFacts, QuitAndStop
    DEF StatesInv, PlacesInv, UaeStates, Commands, Keys, Where
  <2> QED
    BY <2>1, <2>2, <2>3, <2>4, <2>5, <2>6
<1>8. CASE BoxReturns
  <2> USE <1>8 DEF BoxReturns
  <2>1. /\ MainTypeOK' /\ emulator'.pc = "restart" /\ emulator'.next = emulator.next /\ emulator'.loop = emulator.loop
    BY <1>0, GoToFacts DEF MainPC
  <2>2. UsValues'
    BY <1>0, <1>a, <2>1, QuitAndStop, UsFacts DEF UsValues, BoxInv, UaeStates, Commands, Keys
  <2>3. PipesOK'
    BY <1>0, <1>f, UsFacts, PipeFacts DEF PipesOK, Messages
  <2>4. GuiOK'
    BY <1>0, UsFacts, PipeFacts DEF GuiOK, Messages, UaeStates, Commands
  <2>5. PlacesInv'
    BY <1>0, <2>1, UsFacts DEF PlacesInv
  <2>6. StatesInv'
    BY <1>0, <1>a, <2>1, UsFacts, QuitAndStop
    DEF StatesInv, PlacesInv, UaeStates, Commands, Keys, Where
  <2> QED
    BY <2>1, <2>2, <2>3, <2>4, <2>5, <2>6
<1>9. CASE Restarts
  <2> USE <1>9 DEF Restarts
  <2>1. /\ MainTypeOK' /\ emulator'.pc = emulator.next /\ emulator'.next = emulator.next /\ emulator'.loop = emulator.loop
    BY <1>0, UsFacts, GoToFacts DEF MainPC, NextPC
  <2>2. UsValues'
    BY <1>0, <1>a, <2>1, QuitAndStop, UsFacts DEF UsValues, BoxInv, UaeStates, Commands, Keys
  <2>3. PipesOK'
    BY <1>0, <1>f, UsFacts, PipeFacts DEF PipesOK, Messages
  <2>4. GuiOK'
    BY <1>0, UsFacts, PipeFacts DEF GuiOK, Messages, UaeStates, Commands
  <2>5. PlacesInv'
    BY <1>0, <2>1, UsFacts DEF PlacesInv
  <2>6. StatesInv'
    BY <1>0, <1>a, <2>1, UsFacts, QuitAndStop
    DEF StatesInv, PlacesInv, UaeStates, Commands, Keys, Where
  <2> QED
    BY <2>1, <2>2, <2>3, <2>4, <2>5, <2>6
<1>10. CASE Initialised
  <2> USE <1>10 DEF Initialised
  <2>1. /\ MainTypeOK' /\ emulator'.pc \in {"machine", "ended"} /\ emulator'.next = emulator.next /\ emulator'.loop = emulator.loop
    BY <1>0, GoToFacts DEF MainPC
  <2>2. UsValues'
    BY <1>0, <1>a, <2>1, QuitAndStop, UsFacts DEF UsValues, BoxInv, UaeStates, Commands, Keys
  <2>3. PipesOK'
    BY <1>0, <1>f, UsFacts, PipeFacts DEF PipesOK, Messages
  <2>4. GuiOK'
    BY <1>0, UsFacts, PipeFacts DEF GuiOK, Messages, UaeStates, Commands
  <2>5. PlacesInv'
    BY <1>0, <2>1, UsFacts DEF PlacesInv
  <2>6. StatesInv'
    BY <1>0, <1>a, <2>1, UsFacts, QuitAndStop
    DEF StatesInv, PlacesInv, UaeStates, Commands, Keys, Where
  <2> QED
    BY <2>1, <2>2, <2>3, <2>4, <2>5, <2>6
<1>11. CASE WasReset
  <2> USE <1>11 DEF WasReset
  <2>1. /\ MainTypeOK' /\ emulator'.pc = "running" /\ emulator'.next = emulator.next /\ emulator'.loop = emulator.loop
    BY <1>0, GoToFacts DEF MainPC
  <2>2. UsValues'
    BY <1>0, <1>a, <2>1, QuitAndStop, UsFacts DEF UsValues, BoxInv, UaeStates, Commands, Keys
  <2>3. PipesOK'
    BY <1>0, <1>f, UsFacts, PipeFacts DEF PipesOK, Messages
  <2>4. GuiOK'
    BY <1>0, UsFacts, PipeFacts DEF GuiOK, Messages, UaeStates, Commands
  <2>5. PlacesInv'
    BY <1>0, <2>1, UsFacts DEF PlacesInv
  <2>6. StatesInv'
    BY <1>0, <1>a, <2>1, UsFacts, QuitAndStop
    DEF StatesInv, PlacesInv, UaeStates, Commands, Keys, Where
  <2> QED
    BY <2>1, <2>2, <2>3, <2>4, <2>5, <2>6
<1>12. CASE Runs
  <2> USE <1>12 DEF Runs
  <2>1. /\ MainTypeOK' /\ emulator'.pc \in {"notify", "poll"} /\ emulator'.next = "poll" /\ emulator'.loop = "run"
    BY <1>0 DEF MainTypeOK, MainPC, NextPC, Loops
  <2>2. UsValues'
    BY <1>0, <1>a, <2>1, QuitAndStop, UsFacts DEF UsValues, BoxInv, UaeStates, Commands, Keys
  <2>3. PipesOK'
    BY <1>0, <1>f, UsFacts, PipeFacts DEF PipesOK, Messages
  <2>4. GuiOK'
    BY <1>0, UsFacts, PipeFacts DEF GuiOK, Messages, UaeStates, Commands
  <2>5. PlacesInv'
    BY <1>0, <2>1, UsFacts DEF PlacesInv
  <2>6. StatesInv'
    BY <1>0, <1>a, <2>1, UsFacts, QuitAndStop
    DEF StatesInv, PlacesInv, UaeStates, Commands, Keys, Where
  <2> QED
    BY <2>1, <2>2, <2>3, <2>4, <2>5, <2>6
<1>13. CASE Handles
  <2> USE <1>13 DEF Handles
  <2>1. /\ MainTypeOK'
    BY <1>0 DEF MainTypeOK, MainPC, NextPC, Loops, GoTo
  <2>2. UsValues'
    BY <1>0, <1>a, <2>1, QuitAndStop, UsFacts DEF UsValues, BoxInv, UaeStates, Commands, Keys
  <2>3. PipesOK'
    BY <1>0, <1>f, UsFacts, PipeFacts DEF PipesOK, Messages
  <2>4. GuiOK'
    BY <1>0, UsFacts, PipeFacts DEF GuiOK, Messages, UaeStates, Commands
  <2>5. PlacesInv'
    BY <1>0, <2>1, UsFacts DEF PlacesInv
  <2>6. StatesInv'
    <3>1. Head(fromGui) \in Commands
      BY UsFacts, <1>0, PipeFacts
    <3>2. Where = emulator.loop /\ Where' = emulator.loop /\ emulator.loop \in {"gui", "run", "paused"}
      BY <1>0, UsFacts DEF Where, PlacesInv, Loops
    <3>3. target \in {"STOPPED", "COLD_START", "QUITTING"} => target' \in {"STOPPED", "COLD_START", "QUITTING"}
      BY <1>a, <3>1
    <3> QED
      BY <1>0, <3>2, <3>3 DEF StatesInv
  <2> QED
    BY <2>1, <2>2, <2>3, <2>4, <2>5, <2>6
<1>14. CASE HandlesAll
  <2> USE <1>14 DEF HandlesAll
  <2>1. /\ MainTypeOK' /\ emulator'.pc = "check" /\ emulator'.next = emulator.next /\ emulator'.loop = emulator.loop
    BY <1>0, GoToFacts DEF MainPC
  <2>2. UsValues'
    BY <1>0, <1>a, <2>1, QuitAndStop, UsFacts DEF UsValues, BoxInv, UaeStates, Commands, Keys
  <2>3. PipesOK'
    BY <1>0, <1>f, UsFacts, PipeFacts DEF PipesOK, Messages
  <2>4. GuiOK'
    BY <1>0, UsFacts, PipeFacts DEF GuiOK, Messages, UaeStates, Commands
  <2>5. PlacesInv'
    BY <1>0, <2>1, UsFacts DEF PlacesInv
  <2>6. StatesInv'
    BY <1>0, <1>a, <2>1, UsFacts, QuitAndStop
    DEF StatesInv, PlacesInv, UaeStates, Commands, Keys, Where
  <2> QED
    BY <2>1, <2>2, <2>3, <2>4, <2>5, <2>6
<1>15. CASE LeavesLoop
  <2> USE <1>15 DEF LeavesLoop
  <2>1. /\ MainTypeOK'
        /\ \/ emulator' = [emulator EXCEPT !.pc = "poll"] /\ ~Pending /\ UNCHANGED uaeState
           \/ emulator' = [emulator EXCEPT !.pc = "start"] /\ Pending /\ emulator.loop = "gui" /\ UNCHANGED uaeState
           \/ /\ emulator'.pc \in {"notify", "poll"} /\ emulator'.next = "poll" /\ emulator'.loop = "paused"
              /\ uaeState' = "PAUSED"
           \/ /\ emulator' = [emulator EXCEPT !.pc = IF target = "RUNNING" THEN "running" ELSE "machine"]
              /\ Pending /\ emulator.loop # "gui" /\ UNCHANGED uaeState /\ ~(emulator.loop = "run" /\ target = "PAUSED")
    BY <1>0 DEF MainTypeOK, MainPC, NextPC, Loops, GoTo
  <2>2. UsValues'
    BY <1>0, <1>a, <2>1, QuitAndStop, UsFacts DEF UsValues, BoxInv, UaeStates, Commands, Keys
  <2>3. PipesOK'
    BY <1>0, <1>f, UsFacts, PipeFacts DEF PipesOK, Messages
  <2>4. GuiOK'
    BY <1>0, UsFacts, PipeFacts DEF GuiOK, Messages, UaeStates, Commands
  <2>5. PlacesInv'
    BY <1>0, <2>1, UsFacts DEF PlacesInv, MainTypeOK
  <2>6. StatesInv'
    <3>1. Where = emulator.loop /\ emulator.loop \in {"gui", "run", "paused"} /\ target' = target
      BY <1>0, UsFacts DEF Where, PlacesInv, Loops
    <3>2. /\ Where = "gui" => uaeState = "STOPPED" /\ target \in {"STOPPED", "COLD_START", "QUITTING"}
          /\ Where = "run" => uaeState = "RUNNING"
          /\ Where = "paused" => uaeState = "PAUSED"
      BY <1>0 DEF StatesInv
    <3>3. CASE emulator' = [emulator EXCEPT !.pc = "poll"] /\ UNCHANGED uaeState
      <4>1. Where' = emulator.loop
        BY <1>0, <3>3 DEF Where, MainTypeOK
      <4> QED
        BY <3>1, <3>2, <3>3, <4>1 DEF StatesInv
    <3>4. CASE emulator' = [emulator EXCEPT !.pc = "start"] /\ emulator.loop = "gui" /\ UNCHANGED uaeState
      <4>1. Where' = "start"
        BY <1>0, <3>4 DEF Where, MainTypeOK
      <4> QED
        BY <3>1, <3>2, <3>4, <4>1 DEF StatesInv
    <3>5. CASE /\ emulator'.pc \in {"notify", "poll"} /\ emulator'.next = "poll" /\ emulator'.loop = "paused"
               /\ uaeState' = "PAUSED"
      <4>1. Where' = "paused"
        BY <3>5 DEF Where
      <4> QED
        BY <3>5, <4>1 DEF StatesInv
    <3>6. CASE /\ emulator' = [emulator EXCEPT !.pc = IF target = "RUNNING" THEN "running" ELSE "machine"]
               /\ Pending /\ emulator.loop # "gui" /\ UNCHANGED uaeState /\ ~(emulator.loop = "run" /\ target = "PAUSED")
      <4>1. Where' = (IF target = "RUNNING" THEN "running" ELSE "machine")
        BY <1>0, <3>6 DEF Where, MainTypeOK
      <4>2. target \in UaeStates
        BY <1>0, UsFacts
      <4> QED
        BY <3>1, <3>2, <3>6, <4>1, <4>2 DEF StatesInv, Pending, UaeStates
    <3> QED
      BY <2>1, <3>3, <3>4, <3>5, <3>6
  <2> QED
    BY <2>1, <2>2, <2>3, <2>4, <2>5, <2>6
<1>16. CASE \E c \in Keys : HandlesKey(c)
  <2> USE <1>16 DEF HandlesKey, Asks
  <2>1. /\ MainTypeOK'
    BY <1>0 DEF MainTypeOK, MainPC, NextPC, Loops, GoTo
  <2>2. UsValues'
    BY <1>0, <1>a, <2>1, QuitAndStop, UsFacts DEF UsValues, BoxInv, UaeStates, Commands, Keys
  <2>3. PipesOK'
    BY <1>0, <1>f, UsFacts, PipeFacts DEF PipesOK, Messages
  <2>4. GuiOK'
    BY <1>0, UsFacts, PipeFacts DEF GuiOK, Messages, UaeStates, Commands
  <2>5. PlacesInv'
    BY <1>0, <2>1, UsFacts DEF PlacesInv
  <2>6. StatesInv'
    BY <1>0, <1>a, <2>1, UsFacts, QuitAndStop
    DEF StatesInv, PlacesInv, UaeStates, Commands, Keys, Where
  <2> QED
    BY <2>1, <2>2, <2>3, <2>4, <2>5, <2>6
<1>17. CASE \E c \in Commands : Clicks(c)
  <2> USE <1>17 DEF Clicks, Asks
  <2>1. /\ MainTypeOK'
    BY <1>0 DEF MainTypeOK, MainPC, NextPC, Loops, GoTo
  <2>2. UsValues'
    BY <1>0, <1>a, <2>1, QuitAndStop, UsFacts DEF UsValues, BoxInv, UaeStates, Commands, Keys
  <2>3. PipesOK'
    BY <1>0, <1>f, UsFacts, PipeFacts DEF PipesOK, Messages
  <2>4. GuiOK'
    BY <1>0, UsFacts, PipeFacts DEF GuiOK, Messages, UaeStates, Commands
  <2>5. PlacesInv'
    BY <1>0, <2>1, UsFacts DEF PlacesInv
  <2>6. StatesInv'
    BY <1>0, <1>a, <2>1, UsFacts, QuitAndStop
    DEF StatesInv, PlacesInv, UaeStates, Commands, Keys, Where
  <2> QED
    BY <2>1, <2>2, <2>3, <2>4, <2>5, <2>6
<1>18. CASE WritesCommand
  <2> USE <1>18 DEF WritesCommand
  <2>1. /\ MainTypeOK'
    BY <1>0 DEF MainTypeOK, MainPC, NextPC, Loops, GoTo
  <2>2. UsValues'
    BY <1>0, <1>a, <2>1, QuitAndStop, UsFacts DEF UsValues, BoxInv, UaeStates, Commands, Keys
  <2>3. PipesOK'
    BY <1>0, <1>f, UsFacts, PipeFacts DEF PipesOK, Messages
  <2>4. GuiOK'
    BY <1>0, UsFacts, PipeFacts DEF GuiOK, Messages, UaeStates, Commands
  <2>5. PlacesInv'
    BY <1>0, <2>1, UsFacts DEF PlacesInv
  <2>6. StatesInv'
    BY <1>0, <1>a, <2>1, UsFacts, QuitAndStop
    DEF StatesInv, PlacesInv, UaeStates, Commands, Keys, Where
  <2> QED
    BY <2>1, <2>2, <2>3, <2>4, <2>5, <2>6
<1>19. CASE ShowsState
  <2> USE <1>19 DEF ShowsState
  <2>1. /\ MainTypeOK'
    BY <1>0 DEF MainTypeOK, MainPC, NextPC, Loops, GoTo
  <2>2. UsValues'
    BY <1>0, <1>a, <2>1, QuitAndStop, UsFacts DEF UsValues, BoxInv, UaeStates, Commands, Keys
  <2>3. PipesOK'
    BY <1>0, <1>f, UsFacts, PipeFacts DEF PipesOK, Messages
  <2>4. GuiOK'
    <3>1. Head(toGui) \in Messages
      BY UsFacts, <1>0, PipeFacts
    <3>2. ASSUME NEW s \in UaeStates
          PROVE  Shown(s) \in [writing : Commands \cup {"none"}, shows : UaeStates \cup {"none"},
                               pauseDown : BOOLEAN, box : BOOLEAN]
      <4>1. PICK b \in BOOLEAN : b <=> s = "PAUSED"
        OBVIOUS
      <4>2. PICK w \in Commands \cup {"none"} : Shown(s) = [gui EXCEPT !.shows = s, !.pauseDown = (s = "PAUSED"), !.writing = w]
        BY Zenon DEF Commands, Shown
      <4>3. (s = "PAUSED") = b
        BY <4>1
      <4>4. Shown(s) = [gui EXCEPT !.shows = s, !.pauseDown = b, !.writing = w]
        BY <4>2, <4>3, Zenon
      <4> QED
        BY <1>0, <4>4 DEF GuiOK
    <3>3. uaeState \in UaeStates
      BY <1>0, UsFacts
    <3>4. CASE Head(toGui) \in {"box", "show"}
      <4>1. gui' \in {gui, [gui EXCEPT !.box = TRUE], Shown(uaeState)}
        BY <3>4 DEF UaeStates
      <4> QED
        BY <1>0, <3>2, <3>3, <4>1 DEF GuiOK
    <3>5. CASE Head(toGui) \in UaeStates
      <4>1. gui' \in {gui, Shown(Head(toGui))}
        BY <3>5 DEF UaeStates
      <4> QED
        BY <1>0, <3>2, <3>5, <4>1 DEF GuiOK
    <3> QED
      BY <3>1, <3>4, <3>5 DEF Messages
  <2>5. PlacesInv'
    BY <1>0, <2>1, UsFacts DEF PlacesInv
  <2>6. StatesInv'
    BY <1>0, <1>a, <2>1, UsFacts, QuitAndStop
    DEF StatesInv, PlacesInv, UaeStates, Commands, Keys, Where
  <2> QED
    BY <2>1, <2>2, <2>3, <2>4, <2>5, <2>6
<1>20. CASE ClicksOkay
  <2> USE <1>20 DEF ClicksOkay
  <2>1. /\ MainTypeOK'
    BY <1>0 DEF MainTypeOK, MainPC, NextPC, Loops, GoTo
  <2>2. UsValues'
    BY <1>0, <1>a, <2>1, QuitAndStop, UsFacts DEF UsValues, BoxInv, UaeStates, Commands, Keys
  <2>3. PipesOK'
    BY <1>0, <1>f, UsFacts, PipeFacts DEF PipesOK, Messages
  <2>4. GuiOK'
    BY <1>0, UsFacts, PipeFacts DEF GuiOK, Messages, UaeStates, Commands
  <2>5. PlacesInv'
    BY <1>0, <2>1, UsFacts DEF PlacesInv
  <2>6. StatesInv'
    BY <1>0, <1>a, <2>1, UsFacts, QuitAndStop
    DEF StatesInv, PlacesInv, UaeStates, Commands, Keys, Where
  <2> QED
    BY <2>1, <2>2, <2>3, <2>4, <2>5, <2>6
<1> QED
  BY <1>1, <1>2, <1>3, <1>4, <1>5, <1>6, <1>7, <1>8, <1>9, <1>10, <1>11,
     <1>12, <1>13, <1>14, <1>15, <1>16, <1>17, <1>18, <1>19, <1>20
  DEF UsNext, MainLoop, GuiThread

(* Messages put in and taken out, with and without a box.                    *)
LEMMA BoxFacts ==
  ASSUME NEW q \in Seq(Messages), NEW x \in Messages
  PROVE  /\ NoBox(q) /\ x # "box" => NoBox(Append(q, x))
         /\ NoBox(q) => OneBox(Append(q, "box"))
         /\ NoBox(q) /\ q # <<>> => NoBox(Tail(q)) /\ Head(q) # "box"
         /\ OneBox(q) /\ q # <<>> /\ Head(q) = "box" => NoBox(Tail(q))
         /\ OneBox(q) /\ q # <<>> /\ Head(q) # "box" => OneBox(Tail(q))
<1>0. "box" \in Messages
  BY DEF Messages
<1>1. /\ Append(q, x) \in Seq(Messages) /\ Len(Append(q, x)) = Len(q) + 1 /\ Len(q) \in Nat
      /\ (\A i \in 1..Len(q) : Append(q, x)[i] = q[i]) /\ Append(q, x)[Len(q) + 1] = x
  BY PipeFacts
<1>2. /\ Len(Append(q, "box")) = Len(q) + 1
      /\ (\A i \in 1..Len(q) : Append(q, "box")[i] = q[i]) /\ Append(q, "box")[Len(q) + 1] = "box"
  BY <1>0, PipeFacts
<1>3. q # <<>> => /\ Head(q) = q[1] /\ Len(Tail(q)) = Len(q) - 1 /\ Len(q) > 0
                  /\ \A i \in 1..(Len(q) - 1) : Tail(q)[i] = q[i + 1]
  BY <1>0, PipeFacts
<1>4. NoBox(q) /\ x # "box" => NoBox(Append(q, x))
  BY <1>1 DEF NoBox
<1>5. NoBox(q) => OneBox(Append(q, "box"))
  BY <1>1, <1>2 DEF NoBox, OneBox
<1>6. NoBox(q) /\ q # <<>> => NoBox(Tail(q)) /\ Head(q) # "box"
  BY <1>1, <1>3 DEF NoBox
<1>7. OneBox(q) /\ q # <<>> /\ Head(q) = "box" => NoBox(Tail(q))
  BY <1>1, <1>3 DEF NoBox, OneBox
<1>8. ASSUME OneBox(q), q # <<>>, Head(q) # "box" PROVE OneBox(Tail(q))
  <2>1. PICK i \in 1..Len(q) : q[i] = "box" /\ \A j \in 1..Len(q) : q[j] = "box" => j = i
    BY <1>8 DEF OneBox
  <2>2. i - 1 \in 1..(Len(q) - 1) /\ Tail(q)[i - 1] = "box"
    BY <1>1, <1>3, <1>8, <2>1
  <2>3. \A j \in 1..(Len(q) - 1) : Tail(q)[j] = "box" => j = i - 1
    BY <1>1, <1>3, <1>8, <2>1
  <2> QED
    BY <1>3, <1>8, <2>2, <2>3 DEF OneBox
<1> QED
  BY <1>4, <1>5, <1>6, <1>7, <1>8

(* One box at a time: real_main writes the next when the last was closed.    *)
LEMMA BoxKeeps == ASSUME UsInv, UsNext PROVE BoxInv'
<1> USE DEF At, mainVars, guiVars, setupVars, askVars
<1>0. UsTypeOK /\ MainTypeOK /\ PlacesInv /\ BoxInv /\ GuiOK
  BY UsTypesApart DEF UsInv
<1>1. /\ emulator.pc \in MainPC /\ emulator.next \in NextPC /\ uaeState \in UaeStates
      /\ toGui \in Seq(Messages) /\ gui.box \in BOOLEAN
  BY <1>0, UsFacts
<1>2. uaeState \in Messages /\ "show" \in Messages /\ uaeState # "box"
  BY <1>1 DEF Messages, UaeStates
<1>3. CASE Notifies \/ OpensGui
  <2>1. emulator.pc # "boxWait" /\ emulator'.pc # "boxWait"
    BY <1>0, <1>1, <1>3 DEF Notifies, OpensGui, GoTo, MainTypeOK, PlacesInv
  <2>2. toGui' \in {toGui, Append(toGui, uaeState), Append(toGui, "show")} /\ boxSem' = boxSem /\ gui' = gui
    BY <1>3 DEF Notifies, OpensGui
  <2> QED
    BY <1>0, <1>1, <1>2, <2>1, <2>2, BoxFacts DEF BoxInv
<1>4. CASE WritesBox
  <2>1. emulator.pc = "box" /\ emulator'.pc = "boxWait"
    BY <1>0, <1>4, GoToFacts DEF WritesBox, MainPC
  <2> QED
    BY <1>0, <1>1, <1>2, <1>4, <2>1, BoxFacts DEF BoxInv, WritesBox
<1>5. CASE BoxReturns
  <2>1. emulator.pc = "boxWait" /\ emulator'.pc = "restart" /\ boxSem > 0
    BY <1>0, <1>5, GoToFacts DEF BoxReturns, MainPC
  <2> QED
    BY <1>0, <1>5, <2>1 DEF BoxInv, BoxReturns
<1>6. CASE \/ Begins \/ Starts \/ Resets \/ RomFails \/ Restarts \/ Initialised
         \/ WasReset \/ Runs \/ HandlesAll \/ LeavesLoop
  <2>1. UNCHANGED <<toGui, gui, boxSem>> /\ emulator.pc # "boxWait"
    BY <1>6 DEF Begins, Starts, Resets, RomFails, Restarts, Initialised, WasReset, Runs, HandlesAll, LeavesLoop
  <2>2. emulator'.pc # "boxWait"
    <3>1. CASE Begins \/ Resets
      BY <1>0, <3>1, GoToFacts, SetStateFacts DEF Begins, Resets, MainPC
    <3>2. CASE RomFails \/ Runs \/ LeavesLoop
      <4>1. PICK pc \in {"box", "restart", "notify", "poll", "start", "running", "machine"} : emulator'.pc = pc
        <5>1. CASE RomFails
          BY <1>0, <5>1 DEF RomFails, MainTypeOK
        <5>2. CASE Runs
          BY <5>2 DEF Runs
        <5>3. CASE LeavesLoop
          BY <1>0, <5>3 DEF LeavesLoop, GoTo, MainTypeOK
        <5> QED
          BY <3>2, <5>1, <5>2, <5>3
      <4> QED
        BY <4>1
    <3>3. CASE Starts \/ Restarts \/ Initialised \/ WasReset \/ HandlesAll
      BY <1>0, <1>1, <3>3, GoToFacts DEF Starts, Restarts, Initialised, WasReset, HandlesAll, MainPC, NextPC
    <3> QED
      BY <1>6, <3>1, <3>2, <3>3
  <2> QED
    BY <1>0, <2>1, <2>2 DEF BoxInv
<1>7. CASE Handles \/ (\E c \in Keys : HandlesKey(c)) \/ (\E c \in Commands : Clicks(c)) \/ WritesCommand
  <2>1. UNCHANGED <<toGui, emulator, boxSem>>
    BY <1>7 DEF Handles, HandlesKey, Clicks, WritesCommand
  <2>2. gui'.box = gui.box
    BY <1>0, <1>7 DEF Handles, HandlesKey, Clicks, WritesCommand, GuiOK
  <2> QED
    BY <1>0, <2>1, <2>2 DEF BoxInv
<1>8. CASE ShowsState
  <2>1. toGui # <<>> /\ toGui' = Tail(toGui) /\ UNCHANGED <<emulator, boxSem>>
    BY <1>8 DEF ShowsState
  <2>2. Head(toGui) = "box" => gui'.box
    BY <1>0, <1>8 DEF ShowsState, GuiOK
  <2>3. Head(toGui) # "box" => gui'.box = gui.box
    <3>1. \A s : Shown(s).box = gui.box
      BY <1>0 DEF Shown, GuiOK
    <3> QED
      BY <1>8, <3>1 DEF ShowsState
  <2> QED
    BY <1>0, <1>1, <1>2, <2>1, <2>2, <2>3, BoxFacts DEF BoxInv
<1>9. CASE ClicksOkay
  <2>1. gui.box /\ ~gui'.box /\ boxSem' = boxSem + 1 /\ UNCHANGED <<emulator, toGui>>
    BY <1>0, <1>9 DEF ClicksOkay, GuiOK
  <2> QED
    BY <1>0, <2>1 DEF BoxInv
<1> QED
  BY <1>3, <1>4, <1>5, <1>6, <1>7, <1>8, <1>9 DEF UsNext, MainLoop, GuiThread

(* The invariant of the machine's states and its window.                     *)
THEOREM UsInvariant == UsSpec => []UsInv
<1>1. UsInv /\ [UsNext]_usVars => UsInv'
  <2> SUFFICES ASSUME UsInv, [UsNext]_usVars PROVE UsInv'
    OBVIOUS
  <2>1. CASE UsNext
    BY <2>1, UsKeeps, BoxKeeps DEF UsInv
  <2>2. CASE UNCHANGED usVars
    BY <2>2 DEF UsInv, UsTypeOK, MainTypeOK, PlacesInv, StatesInv, BoxInv, Where, At, usVars
  <2> QED
    BY <2>1, <2>2
<1> QED
  BY UsInitially, <1>1, PTL DEF UsSpec

(* Type correctness of UaeState: among others, no message overruns its pipe, *)
(* and msg_quit_sem is posted once for each box.                             *)
THEOREM UsTypes == UsSpec => []UsTypeOK
<1>1. UsInv => UsTypeOK
  BY DEF UsInv
<1> QED
  BY UsInvariant, <1>1, PTL

(* A machine runs only after a reset of the stopped or the old one, and only *)
(* a running machine is paused, whatever was asked for, and by whom.         *)
THEOREM MachineRunsAfterReset == UsSpec => RunsAfterReset
<1>1. ASSUME UsInv, UsNext, uaeState' # uaeState
      PROVE  CASE uaeState' = "RUNNING" -> uaeState \in {"COLD_START", "WARM_START", "PAUSED"}
               [] uaeState' = "PAUSED" -> uaeState = "RUNNING"
               [] uaeState' = "WARM_START" -> uaeState \in {"RUNNING", "PAUSED"}
               [] uaeState' = "COLD_START" -> uaeState # "QUITTING"
               [] OTHER -> TRUE
  <2> USE DEF At
  <2>1. StatesInv /\ PlacesInv /\ MainTypeOK /\ UsTypeOK
    BY <1>1 DEF UsInv
  <2>2. uaeState \in UaeStates /\ target \in UaeStates /\ emulator.loop \in Loops
    BY <2>1, UsFacts
  <2>3. Begins \/ Resets \/ Runs \/ LeavesLoop
    BY <1>1 DEF UsNext, MainLoop, GuiThread, Notifies, OpensGui, Starts, RomFails, WritesBox, BoxReturns, Restarts,
                Initialised, WasReset, Handles, HandlesAll, HandlesKey, Clicks, WritesCommand, ShowsState, ClicksOkay,
                mainVars
  <2>4. CASE Begins
    BY <1>1, <2>1, <2>4 DEF Begins, SetState, StatesInv, Where
  <2>5. CASE Resets
    BY <1>1, <2>1, <2>2, <2>5 DEF Resets, SetState, StatesInv, Where, UaeStates
  <2>6. CASE Runs
    BY <1>1, <2>1, <2>6 DEF Runs, StatesInv, Where
  <2>7. CASE LeavesLoop
    <3>1. Where = emulator.loop /\ uaeState' = "PAUSED" /\ emulator.loop = "run"
      BY <1>1, <2>7 DEF LeavesLoop, Where, Pending
    <3> QED
      BY <2>1, <3>1 DEF StatesInv
  <2> QED
    BY <2>3, <2>4, <2>5, <2>6, <2>7
<1>2. UsInv /\ [UsNext]_usVars =>
        [uaeState' # uaeState => CASE uaeState' = "RUNNING" -> uaeState \in {"COLD_START", "WARM_START", "PAUSED"}
                                   [] uaeState' = "PAUSED" -> uaeState = "RUNNING"
                                   [] uaeState' = "WARM_START" -> uaeState \in {"RUNNING", "PAUSED"}
                                   [] uaeState' = "COLD_START" -> uaeState # "QUITTING"
                                   [] OTHER -> TRUE]_usVars
  BY <1>1
<1> QED
  BY UsInvariant, <1>2, PTL DEF UsSpec, RunsAfterReset
=============================================================================

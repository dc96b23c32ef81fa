------------------------------ MODULE CommPipe ------------------------------
(* The pipe between two host threads (include/commpipe.h) on POSIX           *)
(* semaphores (td-posix/thread.h). One thread writes, one reads. Outside the *)
(* lock every access to a shared field is a step of its own; the code between*)
(* uae_sem_wait(&p->lock) and uae_sem_post(&p->lock) is split where the other*)
(* thread's unlocked accesses (reader_waiting, and the fast path of a write) *)
(* can tell the difference.                                                  *)
EXTENDS Integers, Sequences

CONSTANTS Item,     \* the values that travel in the pipe
          Size,     \* p->size, the number of slots (one stays free)
          Chunks    \* p->chunks, how much is buffered before the reader is woken

ASSUME PipeAssumption ==
  /\ Size \in Nat /\ Size >= 2
  /\ Chunks \in 1..(Size - 1)
  /\ Item # {}

VARIABLES
  lock, readerWait, writerWait,      \* the three semaphores' counts
  data, rdp, wrp,                    \* ring buffer and its two cursors
  readerWaiting, writerWaiting,      \* the volatile flags
  pcW, arg, noBuffer,                \* writer: where it is and its call's arguments
  pcR, polled, got                   \* reader: where it is, comm_pipe_has_data's
                                     \* last answer, the value last returned

sems == <<lock, readerWait, writerWait>>
ring == <<data, rdp, wrp>>
flags == <<readerWaiting, writerWaiting>>
writerVars == <<pcW, arg, noBuffer>>
readerVars == <<pcR, polled, got>>
vars == <<sems, ring, flags, writerVars, readerVars>>

Slot == 0..(Size - 1)
WriterPC == {"idle", "test", "fast", "fastWake", "lock", "inside", "blocked", "relock",
             "store", "wake", "unlock"}
ReaderPC == {"idle", "lock", "inside", "leave", "blocked", "relock", "take", "unlock"}

Next1(i) == (i + 1) % Size
Distance(r, w) == (w - r + Size) % Size
Count == Distance(rdp, wrp)

Init ==
  /\ lock = 1 /\ readerWait = 0 /\ writerWait = 0
  /\ data \in [Slot -> Item] /\ rdp = 0 /\ wrp = 0
  /\ readerWaiting = 0 /\ writerWaiting = 0
  /\ pcW = "idle" /\ arg \in Item /\ noBuffer = 0
  /\ pcR = "idle" /\ polled = 0 /\ got \in Item

-----------------------------------------------------------------------------
(* Faulty variants, each a plausible slip in the definition it precedes.     *)
MaybeWakeReader_IgnoresNoBuffer ==
  IF readerWaiting = 1 /\ Count >= Chunks
    THEN readerWaiting' = 0 /\ readerWait' = readerWait + 1
    ELSE UNCHANGED <<readerWaiting, readerWait>>

(* maybe_wake_reader *)
MaybeWakeReader ==
  IF readerWaiting = 1 /\ (noBuffer = 1 \/ Count >= Chunks)
    THEN readerWaiting' = 0 /\ readerWait' = readerWait + 1
    ELSE UNCHANGED <<readerWaiting, readerWait>>

WriteCall(x, nb) ==
  /\ pcW = "idle"
  /\ pcW' = "test" /\ arg' = x /\ noBuffer' = nb
  /\ UNCHANGED <<sems, ring, flags, readerVars>>

WriteTest_AlwaysFast ==
  /\ pcW = "test"
  /\ pcW' = "fast"
  /\ UNCHANGED <<sems, ring, flags, arg, noBuffer, readerVars>>

(* `if (p->reader_waiting)', read without the lock *)
WriteTest ==
  /\ pcW = "test"
  /\ pcW' = IF readerWaiting = 1 THEN "fast" ELSE "lock"
  /\ UNCHANGED <<sems, ring, flags, arg, noBuffer, readerVars>>

Store ==
  /\ data' = [data EXCEPT ![wrp] = arg]
  /\ wrp' = Next1(wrp)
  /\ UNCHANGED rdp

(* The reader is asleep: no locking *)
WriteFast ==
  /\ pcW = "fast"
  /\ Store
  /\ pcW' = "fastWake"
  /\ UNCHANGED <<sems, flags, arg, noBuffer, readerVars>>

WriteFastWake ==
  /\ pcW = "fastWake"
  /\ MaybeWakeReader
  /\ pcW' = "idle"
  /\ UNCHANGED <<lock, writerWait, ring, writerWaiting, arg, noBuffer, readerVars>>

WriteLock ==
  /\ pcW = "lock" /\ lock > 0
  /\ lock' = lock - 1 /\ pcW' = "inside"
  /\ UNCHANGED <<readerWait, writerWait, ring, flags, arg, noBuffer, readerVars>>

(* `if (nxwrp == p->rdp)': full, so announce and leave the lock *)
WriteInside ==
  /\ pcW = "inside"
  /\ IF Next1(wrp) = rdp
       THEN writerWaiting' = 1 /\ lock' = lock + 1 /\ pcW' = "blocked"
       ELSE UNCHANGED <<writerWaiting, lock>> /\ pcW' = "store"
  /\ UNCHANGED <<readerWait, writerWait, ring, readerWaiting, arg, noBuffer, readerVars>>

WriteBlocked ==
  /\ pcW = "blocked" /\ writerWait > 0
  /\ writerWait' = writerWait - 1 /\ pcW' = "relock"
  /\ UNCHANGED <<lock, readerWait, ring, flags, arg, noBuffer, readerVars>>

WriteRelock ==
  /\ pcW = "relock" /\ lock > 0
  /\ lock' = lock - 1 /\ pcW' = "store"
  /\ UNCHANGED <<readerWait, writerWait, ring, flags, arg, noBuffer, readerVars>>

WriteStore ==
  /\ pcW = "store"
  /\ Store
  /\ pcW' = "wake"
  /\ UNCHANGED <<sems, flags, arg, noBuffer, readerVars>>

WriteWake_FastPathOnly ==
  /\ pcW = "wake" /\ pcW' = "unlock"
  /\ UNCHANGED <<sems, ring, flags, arg, noBuffer, readerVars>>

WriteWake ==
  /\ pcW = "wake"
  /\ MaybeWakeReader
  /\ pcW' = "unlock"
  /\ UNCHANGED <<lock, writerWait, ring, writerWaiting, arg, noBuffer, readerVars>>

WriteUnlock ==
  /\ pcW = "unlock"
  /\ lock' = lock + 1 /\ pcW' = "idle"
  /\ UNCHANGED <<readerWait, writerWait, ring, flags, arg, noBuffer, readerVars>>

WriterNext ==
  \/ WriteTest \/ WriteFast \/ WriteFastWake \/ WriteLock \/ WriteInside
  \/ WriteBlocked \/ WriteRelock \/ WriteStore \/ WriteWake \/ WriteUnlock

-----------------------------------------------------------------------------
(* comm_pipe_has_data, without the lock *)
Poll ==
  /\ pcR = "idle"
  /\ polled' = IF rdp # wrp THEN 1 ELSE 0
  /\ UNCHANGED <<sems, ring, flags, writerVars, pcR, got>>

ReadCall ==
  /\ pcR = "idle" /\ pcR' = "lock"
  /\ UNCHANGED <<sems, ring, flags, writerVars, polled, got>>

ReadLock ==
  /\ pcR = "lock" /\ lock > 0
  /\ lock' = lock - 1 /\ pcR' = "inside"
  /\ UNCHANGED <<readerWait, writerWait, ring, flags, writerVars, polled, got>>

(* `if (p->rdp == p->wrp)': empty, so announce. The writer's unlocked test   *)
(* may see the flag before the lock is left.                                 *)
ReadInside ==
  /\ pcR = "inside"
  /\ IF rdp = wrp
       THEN readerWaiting' = 1 /\ pcR' = "leave"
       ELSE UNCHANGED readerWaiting /\ pcR' = "take"
  /\ UNCHANGED <<sems, ring, writerWaiting, writerVars, polled, got>>

ReadLeave ==
  /\ pcR = "leave"
  /\ lock' = lock + 1 /\ pcR' = "blocked"
  /\ UNCHANGED <<readerWait, writerWait, ring, flags, writerVars, polled, got>>

ReadBlocked ==
  /\ pcR = "blocked" /\ readerWait > 0
  /\ readerWait' = readerWait - 1 /\ pcR' = "relock"
  /\ UNCHANGED <<lock, writerWait, ring, flags, writerVars, polled, got>>

ReadRelock ==
  /\ pcR = "relock" /\ lock > 0
  /\ lock' = lock - 1 /\ pcR' = "take"
  /\ UNCHANGED <<readerWait, writerWait, ring, flags, writerVars, polled, got>>

ReadTake_AdvancesFirst ==
  /\ pcR = "take"
  /\ rdp' = Next1(rdp) /\ got' = data[Next1(rdp)]
  /\ IF writerWaiting = 1
       THEN writerWaiting' = 0 /\ writerWait' = writerWait + 1
       ELSE UNCHANGED <<writerWaiting, writerWait>>
  /\ pcR' = "unlock"
  /\ UNCHANGED <<lock, readerWait, data, wrp, readerWaiting, writerVars, polled>>

(* take the datum, advance, and let a waiting writer go on *)
ReadTake ==
  /\ pcR = "take"
  /\ got' = data[rdp] /\ rdp' = Next1(rdp)
  /\ IF writerWaiting = 1
       THEN writerWaiting' = 0 /\ writerWait' = writerWait + 1
       ELSE UNCHANGED <<writerWaiting, writerWait>>
  /\ pcR' = "unlock"
  /\ UNCHANGED <<lock, readerWait, data, wrp, readerWaiting, writerVars, polled>>

ReadUnlock ==
  /\ pcR = "unlock"
  /\ lock' = lock + 1 /\ pcR' = "idle" /\ polled' = 0
  /\ UNCHANGED <<readerWait, writerWait, ring, flags, writerVars, got>>

ReaderNext ==
  \/ ReadCall \/ ReadLock \/ ReadInside \/ ReadLeave \/ ReadBlocked
  \/ ReadRelock \/ ReadTake \/ ReadUnlock

Next ==
  \/ \E x \in Item, nb \in {0, 1} : WriteCall(x, nb)
  \/ WriterNext \/ Poll \/ ReaderNext

Spec == Init /\ [][Next]_vars

(* Both threads are host threads that the scheduler runs; the reader thread  *)
(* calls read in an endless loop, the writer writes only when it wants to.   *)
FairSpec == Spec /\ WF_vars(WriterNext) /\ WF_vars(ReaderNext)
-----------------------------------------------------------------------------
TypeOK ==
  /\ lock \in 0..1 /\ readerWait \in 0..1 /\ writerWait \in 0..1
  /\ data \in [Slot -> Item] /\ rdp \in Slot /\ wrp \in Slot
  /\ readerWaiting \in 0..1 /\ writerWaiting \in 0..1
  /\ pcW \in WriterPC /\ arg \in Item /\ noBuffer \in 0..1
  /\ pcR \in ReaderPC /\ polled \in 0..1 /\ got \in Item

(* "No need to do all the locking" (commpipe.h:68): the writer's lock-free   *)
(* path and its locked one never touch the ring while the reader does.       *)
RingExclusive ==
  ~ (pcW \in {"fast", "fastWake", "store", "wake"} /\ pcR = "take")

(* The reader does not re-test for empty after its sleep, nor the writer for *)
(* full, and the fast path never tests: no read of an empty pipe, no write   *)
(* over unread data.                                                         *)
NoUnderrun == pcR = "take" => rdp # wrp
NoOverrun == pcW \in {"fast", "store"} => Next1(wrp) # rdp

(* With no write in progress, the reader sleeps on a non-empty pipe only for *)
(* data the writer asked to buffer and fewer than chunks of it: no wakeup is *)
(* lost between the reader's test and its sleep (commpipe.h:80-82).          *)
NoLostWakeup ==
  (pcW = "idle" /\ readerWaiting = 1 /\ rdp # wrp) => (noBuffer = 0 /\ Count < Chunks)

(* A post on reader_wait or writer_wait is always consumed by the sleep it   *)
(* was meant for: none is left over to end a later sleep too early.          *)
NoStaleToken ==
  /\ readerWait = 1 => (pcR \in {"leave", "blocked"} /\ readerWaiting = 0)
  /\ writerWait = 1 => (pcW = "blocked" /\ writerWaiting = 0)

(* A thread that polled with comm_pipe_has_data and found data may call the  *)
(* blocking read and not block, as the emulator thread does on back_pipe.    *)
PolledReadNeverSleeps == polled = 1 => pcR \notin {"leave", "blocked", "relock"}

(* The pipe implements the bounded queue: a write takes effect when wrp      *)
(* moves, a read when rdp moves.                                             *)
Contents == [i \in 1..Count |-> data[(rdp + (i - 1)) % Size]]
Queue == INSTANCE Fifo WITH Capacity <- Size - 1, queue <- Contents, taken <- got
ImplementsFifo == Queue!FifoSpec

(* A writer that met a full pipe gets its datum in.                          *)
FullWriterResumes == pcW = "blocked" ~> pcW = "idle"

(* A reader asleep when a no_buffer write is stored returns from its call.   *)
FlushedReadReturns ==
  (pcR = "blocked" /\ noBuffer = 1 /\ pcW \in {"fastWake", "wake"}) ~> (pcR = "unlock")

(* The ring is used by one side at a time, and never beyond what is in it or *)
(* free in it.                                                               *)
RingSafe == RingExclusive /\ NoUnderrun /\ NoOverrun

(* Who has to be woken is, and nobody else; who polled does not sleep.       *)
WakeupsExact == NoLostWakeup /\ NoStaleToken /\ PolledReadNeverSleeps

(* Neither side's call blocks for good once the other has done its part.     *)
PipeCallsReturn == FullWriterResumes /\ FlushedReadReturns
=============================================================================

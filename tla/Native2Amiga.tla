---------------------------- MODULE Native2Amiga ----------------------------
(* native2amiga_pending at the level of words. Host threads send records of  *)
(* two or three words to the emulated machine, one thread at a time under    *)
(* n2asem; the machine's EXTER interrupt reads them (exter_int_helper) on the*)
(* emulator thread, which polls before a record and blocks inside one. The   *)
(* pipe is the queue that CommPipe implements, with its rule of waking a     *)
(* reader: after a no_buffer write, or when a chunk is in it.                *)
EXTENDS Naturals, Sequences, FiniteSets

CONSTANTS Thread,        \* host threads that send
          MaxRecords,    \* bound on the records
          WordSlots,     \* the words native2amiga_pending holds (9)
          WordChunk      \* p->chunks (2)

ASSUME NativeAssumption ==
  /\ IsFiniteSet(Thread) /\ MaxRecords \in Nat /\ WordSlots \in Nat \ {0} /\ WordChunk \in 1..WordSlots

VARIABLES
  length,          \* of the records called for, in the order of n2asem
  pending,         \* the words in the pipe: which record's, and its place there
  asleep,          \* p->reader_waiting, with the reader in uae_sem_wait
  n2asem,
  sender,          \* per thread: "idle", "wait" for n2asem, "words", "request", "post"
  toSend,          \* per thread: the length of its record, and the words sent
  uaeIntRequested, \* uae_int_requested
  exter,           \* exter_server: "out", "loop" of exter_int_helper, "words" of
                   \* a record, "leave"
  read,            \* the words read of the record
  arrived          \* the records handed to the machine, as their words

sendVars == <<length, n2asem, sender, toSend>>
exterVars == <<exter, read, arrived>>
n2aVars == <<sendVars, pending, asleep, uaeIntRequested, exterVars>>

RecordLength == {2, 3}     \* ReplyMsg, Cause; Signal, PutMsg, NotificationHack
Word == [of : 1..MaxRecords, place : 1..3]
Whole(r) == [i \in 1..length[r] |-> [of |-> r, place |-> i]]

N2aInit ==
  /\ length = <<>> /\ pending = <<>> /\ asleep = FALSE /\ n2asem = 1
  /\ sender = [t \in Thread |-> "idle"] /\ toSend = [t \in Thread |-> [length |-> 0, sent |-> 0, record |-> 0]]
  /\ uaeIntRequested = FALSE /\ exter = "out" /\ read = <<>> /\ arrived = <<>>

-----------------------------------------------------------------------------
(* uae_Cause, uae_ReplyMsg, uae_PutMsg, uae_Signal, uae_NotificationHack     *)
Busy == {t \in Thread : sender[t] # "idle"}

Sends(t, n) ==
  /\ sender[t] = "idle" /\ Len(length) + Cardinality({u \in Thread : sender[u] = "wait"}) < MaxRecords
  /\ sender' = [sender EXCEPT ![t] = "wait"]
  /\ toSend' = [toSend EXCEPT ![t] = [length |-> n, sent |-> 0, record |-> 0]]
  /\ UNCHANGED <<length, n2asem, pending, asleep, uaeIntRequested, exterVars>>

Enters_Unlocked(t) ==   \* mutant: no n2asem
  /\ sender[t] = "wait"
  /\ length' = Append(length, toSend[t].length)
  /\ sender' = [sender EXCEPT ![t] = "words"] /\ toSend' = [toSend EXCEPT ![t].record = Len(length')]
  /\ UNCHANGED <<n2asem, pending, asleep, uaeIntRequested, exterVars>>

Enters(t) ==
  /\ sender[t] = "wait" /\ n2asem = 1 /\ n2asem' = 0
  /\ length' = Append(length, toSend[t].length)
  /\ sender' = [sender EXCEPT ![t] = "words"] /\ toSend' = [toSend EXCEPT ![t].record = Len(length')]
  /\ UNCHANGED <<pending, asleep, uaeIntRequested, exterVars>>

(* maybe_wake_reader; only the last word of a record is sent with no_buffer  *)
Wakes_Buffered(p, last) == Len(p) >= WordChunk   \* mutant: no word is

Wakes(p, last) == last \/ Len(p) >= WordChunk

SendsWord_NotFull(t) ==   \* mutant: the pipe is not looked at first
  LET s == toSend[t]
      last == s.sent + 1 = s.length
  IN /\ sender[t] = "words"
     /\ pending' = Append(pending, [of |-> s.record, place |-> s.sent + 1])
     /\ asleep' = (asleep /\ ~Wakes(pending', last))
     /\ toSend' = [toSend EXCEPT ![t].sent = @ + 1]
     /\ sender' = [sender EXCEPT ![t] = IF last THEN "request" ELSE @]
     /\ UNCHANGED <<length, n2asem, uaeIntRequested, exterVars>>

SendsWord(t) ==
  LET s == toSend[t]
      last == s.sent + 1 = s.length
  IN /\ sender[t] = "words" /\ Len(pending) < WordSlots
     /\ pending' = Append(pending, [of |-> s.record, place |-> s.sent + 1])
     /\ asleep' = (asleep /\ ~Wakes(pending', last))
     /\ toSend' = [toSend EXCEPT ![t].sent = @ + 1]
     /\ sender' = [sender EXCEPT ![t] = IF last THEN "request" ELSE @]
     /\ UNCHANGED <<length, n2asem, uaeIntRequested, exterVars>>

RequestsInt(t) ==   \* do_uae_int_requested
  /\ sender[t] = "request" /\ sender' = [sender EXCEPT ![t] = "post"]
  /\ uaeIntRequested' = TRUE
  /\ UNCHANGED <<length, n2asem, toSend, pending, asleep, exterVars>>

Leaves(t) ==
  /\ sender[t] = "post" /\ sender' = [sender EXCEPT ![t] = "idle"] /\ n2asem' = 1
  /\ UNCHANGED <<length, toSend, pending, asleep, uaeIntRequested, exterVars>>

Sender(t) == Enters(t) \/ SendsWord(t) \/ RequestsInt(t) \/ Leaves(t)
-----------------------------------------------------------------------------
(* exter_server and exter_int_helper                                         *)
ExterBegins ==   \* case 0: "Clear the interrupt flag _before_ we do any processing."
  /\ exter = "out" /\ uaeIntRequested
  /\ exter' = "loop" /\ uaeIntRequested' = FALSE
  /\ UNCHANGED <<sendVars, pending, asleep, read, arrived>>

(* A word tells, as the command, how many more there are.                    *)
Takes ==
  LET words == Append(read, Head(pending))
  IN /\ pending' = Tail(pending)
     /\ IF Len(words) = length[words[1].of]
        THEN arrived' = Append(arrived, words) /\ read' = <<>> /\ exter' = "loop"
        ELSE read' = words /\ exter' = "words" /\ UNCHANGED arrived

Polls ==   \* case 2: the loop on comm_pipe_has_data
  /\ exter = "loop" /\ pending # <<>> /\ Takes
  /\ UNCHANGED <<sendVars, asleep, uaeIntRequested>>

ReadsWord ==   \* read_comm_pipe_..._blocking
  /\ exter = "words" /\ ~asleep
  /\ IF pending # <<>> THEN Takes /\ UNCHANGED asleep
     ELSE asleep' = TRUE /\ UNCHANGED <<pending, exterVars>>
  /\ UNCHANGED <<sendVars, uaeIntRequested>>

FindsNothing ==   \* case 2
  /\ exter = "loop" /\ pending = <<>> /\ exter' = "leave"
  /\ UNCHANGED <<sendVars, pending, asleep, uaeIntRequested, read, arrived>>

ExterEnds ==   \* case 4
  /\ exter = "leave" /\ exter' = "out"
  /\ UNCHANGED <<sendVars, pending, asleep, uaeIntRequested, read, arrived>>

Exter == ExterBegins \/ Polls \/ ReadsWord \/ FindsNothing \/ ExterEnds

N2aNext ==
  \/ \E t \in Thread : (\E n \in RecordLength : Sends(t, n)) \/ Sender(t)
  \/ Exter
-----------------------------------------------------------------------------
N2aTypeOK ==
  /\ length \in Seq(RecordLength) /\ Len(length) <= MaxRecords
  /\ pending \in Seq(Word) /\ Len(pending) <= WordSlots
  /\ asleep \in BOOLEAN /\ uaeIntRequested \in BOOLEAN /\ n2asem \in {0, 1}
  /\ sender \in [Thread -> {"idle", "wait", "words", "request", "post"}]
  /\ toSend \in [Thread -> [length : {0} \cup RecordLength, sent : 0..3, record : 0..MaxRecords]]
  /\ exter \in {"out", "loop", "words", "leave"} /\ read \in Seq(Word)

(* The machine gets every record whole, in the order the threads got n2asem, *)
(* and none twice.                                                           *)
RecordsWhole == \A i \in 1..Len(arrived) : i <= Len(length) /\ arrived[i] = Whole(i)

(* "we can get too many interrupts, but never not enough": words that lie in *)
(* the pipe have an interrupt under way or requested, or their sender is     *)
(* about to request one.                                                     *)
NeverNotEnough ==
  pending # <<>> => uaeIntRequested \/ exter \in {"loop", "words"} \/ \E t \in Thread : sender[t] \in {"words", "request"}

(* The emulator thread does not stay in the middle of a record.              *)
ExterReturns == asleep ~> exter = "loop"

(* A thread gets its record into the machine, also when the pipe is full or  *)
(* other threads are sending.                                                *)
SendersFinish == \A t \in Thread : sender[t] = "wait" ~> sender[t] = "idle"

(* Neither end of the pipe stays blocked.                                    *)
RecordsArrive == ExterReturns /\ SendersFinish
=============================================================================

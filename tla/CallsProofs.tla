---------------------------- MODULE CallsProofs ----------------------------
(* Proofs about the calls that threads of the emulator serve. BsdSocket, for *)
(* any number of tasks, sockets, calls and signals: its types, and that a    *)
(* call that ended leaves nothing behind. ScsiDevice, for any number of      *)
(* units, requests, handles and places: its types, and that the units that   *)
(* are open are served, over any opens, closes, requests and resets.         *)
EXTENDS BsdSocket, ScsiDevice, FiniteSetTheorems, WellFoundedInduction, SequenceTheorems, TLAPS

-----------------------------------------------------------------------------
AtWork == sbThread.pc \notin {"wait", "off"}
Left == caller.pc \in {"closing", "closed"}      \* the base is being given back

(* What the numbers in the types rest on: each call posts the semaphore once,*)
(* is carried out once and gives one record, and a byte is written for a     *)
(* signal only, one for each call since the pipe was emptied and a second    *)
(* for a select that is broken off.                                          *)
CallsCounted ==
  /\ sb.action = "die" <=> Left
  /\ calls > 0 /\ ~Left => sb.action \in Blocking
  /\ ~Left => sbThread.pc # "off" /\ sbSem + records + (IF AtWork THEN 1 ELSE 0) <= calls
  /\ Left => sbSem <= calls + 1 /\ records + (IF AtWork THEN 1 ELSE 0) <= calls

BytesCounted ==
  /\ sigs \cap {"break", "user"} # {} \/ broken \/ sockabort > 0 => signalled > 0
  /\ caller.pc \in {"idle", "waitAborted"} => sockabort <= calls
  /\ caller.pc \in {"waitsig", "waitSelect"} => sockabort + 1 <= calls
  /\ caller.pc = "clear" => sockabort <= calls + 1
  /\ Left => sockabort = 0

(* A call in progress is in one place: the semaphore, the thread, a record,  *)
(* or the signal. The thread has its parameters, the record its result.      *)
Nowhere == sbSem = 0 /\ sbThread.pc = "wait" /\ records = 0 /\ "done" \notin sigs
Posted == sbSem = 1 /\ sbThread.pc = "wait" /\ records = 0 /\ "done" \notin sigs
CarriedOut ==
  /\ sbSem = 0 /\ AtWork /\ records = 0 /\ "done" \notin sigs
  /\ sbThread.pc \in {"block", "sets", "clear", "done"} => sbThread.of = sb.call
Answered ==
  /\ sbSem = 0 /\ sbThread.pc = "wait" /\ sb.result = sb.call
  /\ \/ records = 1 /\ "done" \notin sigs
     \/ records = 0 /\ "done" \in sigs

CallInOnePlace ==
  ~broken /\ ~Left =>
    /\ caller.call = sb.call
    /\ caller.pc \in {"idle", "clear"} => Nowhere /\ caller.got \in {caller.call, NoCall}
    /\ caller.pc \in {"waitsig", "waitSelect", "waitAborted"} => Posted \/ CarriedOut \/ Answered
    /\ caller.pc \in {"idle", "waitsig", "waitSelect"} => sockabort = 0

BsdInv == BsdTypeOK /\ CallsCounted /\ BytesCounted /\ CallInOnePlace

(* The parts of the records, each with its values.                           *)
LEMMA BsdFacts ==
  ASSUME BsdTypeOK
  PROVE  /\ MaxCalls \in Nat /\ MaxSignals \in Nat
         /\ sb.call \in 0..MaxCalls /\ sb.action \in Blocking \cup {"none", "die"} /\ sb.result \in 0..MaxCalls
         /\ sbSem \in Nat /\ sockabort \in Nat /\ records \in Nat /\ calls \in 0..MaxCalls
         /\ signalled \in 0..MaxSignals /\ broken \in BOOLEAN /\ sigs \subseteq {"done", "break", "user"}
         /\ sbThread.pc \in Blocking \cup {"wait", "block", "sets", "clear", "done", "off"}
         /\ sbThread.of \in 0..MaxCalls
         /\ caller.pc \in {"idle", "waitsig", "waitSelect", "waitAborted", "clear", "closing", "closed"}
         /\ caller.call \in 0..MaxCalls /\ caller.got \in 0..MaxCalls
BY BsdSocketAssumption DEF BsdTypeOK, BsdSocketAssumption

(* The bounds in the types follow from the counting.                         *)
LEMMA BoundsFollow ==
  ASSUME MaxCalls \in Nat, MaxSignals \in Nat, calls \in 0..MaxCalls, signalled \in 0..MaxSignals,
         sbSem \in Nat, records \in Nat, sockabort \in Nat, CallsCounted, BytesCounted,
         caller.pc \in {"idle", "waitsig", "waitSelect", "waitAborted", "clear", "closing", "closed"}
  PROVE  sbSem \in 0 .. MaxCalls + 1 /\ records \in 0..MaxCalls /\ sockabort \in 0 .. 2 * MaxSignals + MaxCalls
<1>1. sbSem <= calls + 1 /\ records <= calls
  BY DEF CallsCounted
<1>2. sockabort <= calls + 1 /\ (sockabort > 0 => signalled > 0)
  BY DEF BytesCounted, Left
<1> QED
  BY <1>1, <1>2

(* At the start there is no call.                                            *)
LEMMA BsdInitially == BsdInit => BsdInv
<1> SUFFICES ASSUME BsdInit PROVE BsdInv
  OBVIOUS
<1>1. MaxCalls \in Nat /\ MaxSignals \in Nat
  BY BsdSocketAssumption DEF BsdSocketAssumption
<1>2. BsdTypeOK
  <2>1. 0 \in 0..MaxCalls /\ 0 \in 0..MaxSignals /\ 0 \in 0 .. MaxCalls + 1 /\ 0 \in 0 .. 2 * MaxSignals + MaxCalls
    BY <1>1
  <2>2. sb = [call |-> 0, action |-> "none", result |-> 0] /\ sbThread = [pc |-> "wait", of |-> 0]
        /\ caller = [pc |-> "idle", call |-> 0, got |-> 0]
    BY DEF BsdInit, NoCall
  <2>3. /\ sb \in [call : 0..MaxCalls, action : Blocking \cup {"none", "die"}, result : 0..MaxCalls]
        /\ sbThread \in [pc : Blocking \cup {"wait", "block", "sets", "clear", "done", "off"}, of : 0..MaxCalls]
        /\ caller \in [pc : {"idle", "waitsig", "waitSelect", "waitAborted", "clear", "closing", "closed"},
                       call : 0..MaxCalls, got : 0..MaxCalls]
    BY <2>1, <2>2
  <2> QED
    BY <2>1, <2>3 DEF BsdInit, BsdTypeOK
<1>3. CallsCounted /\ BytesCounted
  BY DEF BsdInit, CallsCounted, BytesCounted, Left, AtWork
<1>4. CallInOnePlace
  BY DEF BsdInit, CallInOnePlace, Nowhere, NoCall
<1> QED
  BY <1>2, <1>3, <1>4 DEF BsdInv

(* A step of the thread in the middle of a call: it has the call's           *)
(* parameters, read now or before.                                           *)
LEMMA ThreadWorks ==
  ASSUME BsdInv, AtWork, sbThread'.pc \in Blocking \cup {"block", "sets", "clear", "done"},
         sbThread' \in [pc : Blocking \cup {"wait", "block", "sets", "clear", "done", "off"}, of : 0..MaxCalls],
         \/ sbThread'.of = sb.call
         \/ sbThread'.of = sbThread.of /\ sbThread.pc \in {"block", "sets", "clear", "done"},
         sockabort' \in {0, sockabort},
         UNCHANGED <<sb, sbSem, records, sigs, caller, calls, signalled, broken>>
  PROVE  BsdInv'
<1>1. BsdTypeOK /\ CallsCounted /\ BytesCounted /\ CallInOnePlace
  BY DEF BsdInv
<1>2. AtWork'
  BY DEF AtWork, Blocking
<1>3. BsdTypeOK'
  BY <1>1, BsdFacts DEF BsdTypeOK
<1>4. CallsCounted'
  BY <1>1, <1>2 DEF CallsCounted, Left, AtWork, Blocking
<1>5. BytesCounted'
  BY <1>1, BsdFacts DEF BytesCounted, Left
<1>6. CallInOnePlace'
  BY <1>1, <1>2, BsdFacts DEF CallInOnePlace, Left, AtWork, Nowhere, Posted, CarriedOut, Answered
<1> QED
  BY <1>3, <1>4, <1>5, <1>6 DEF BsdInv

(* The steps of the thread that carries a call out, and of its sockets.      *)
LEMMA ThreadWorkSteps ==
  ASSUME BsdInv, Lookup \/ Try \/ WaitSelect \/ SocketReady \/ SelectAborted \/ SelectClosed \/ ClearAbort
  PROVE  BsdInv'
<1>1. sbThread \in [pc : Blocking \cup {"wait", "block", "sets", "clear", "done", "off"}, of : 0..MaxCalls]
      /\ sb.call \in 0..MaxCalls
  BY BsdFacts DEF BsdInv, BsdTypeOK
<1>2. CASE Lookup \/ Try \/ WaitSelect
  <2>1. PICK pc \in {"done", "block", "sets"} : sbThread' = [pc |-> pc, of |-> sb.call]
    BY <1>2 DEF Lookup, Try, WaitSelect, ThreadTries
  <2>2. AtWork /\ UNCHANGED <<sb, sbSem, sockabort, records, sigs, caller, calls, signalled, broken>>
    BY <1>2 DEF Lookup, Try, WaitSelect, AtWork
  <2>3. sbThread'.pc = pc /\ sbThread'.of = sb.call
        /\ sbThread' \in [pc : Blocking \cup {"wait", "block", "sets", "clear", "done", "off"}, of : 0..MaxCalls]
    BY <1>1, <2>1
  <2> QED
    BY <2>2, <2>3, ThreadWorks
<1>3. CASE SocketReady \/ SelectAborted \/ SelectClosed \/ ClearAbort
  <2>1. PICK pc \in {"io", "done", "clear"} : sbThread' = [sbThread EXCEPT !.pc = pc]
    BY <1>3 DEF SocketReady, SelectAborted, SelectClosed, ClearAbort, ThreadGoes
  <2>2. /\ sbThread.pc \in {"block", "sets", "clear", "done"} /\ AtWork /\ sockabort' \in {0, sockabort}
        /\ UNCHANGED <<sb, sbSem, records, sigs, caller, calls, signalled, broken>>
    BY <1>3 DEF SocketReady, SelectAborted, SelectClosed, ClearAbort, AtWork
  <2>3. sbThread'.pc = pc /\ sbThread'.of = sbThread.of /\ pc \in Blocking \cup {"block", "sets", "clear", "done"}
        /\ sbThread' \in [pc : Blocking \cup {"wait", "block", "sets", "clear", "done", "off"}, of : 0..MaxCalls]
    BY <1>1, <2>1 DEF Blocking
  <2> QED
    BY <2>2, <2>3, ThreadWorks
<1> QED
  BY <1>2, <1>3

(* The thread takes a call, or the order to end.                             *)
LEMMA ThreadTakesStep == ASSUME BsdInv, ThreadTakes PROVE BsdInv'
<1>1. BsdTypeOK /\ CallsCounted /\ BytesCounted /\ CallInOnePlace
  BY DEF BsdInv
<1> DEFINE pc == IF sb.action = "die" THEN "off" ELSE sb.action
<1>2. /\ sbThread.pc = "wait" /\ sbSem > 0 /\ sbSem' = sbSem - 1 /\ sbThread' = [sbThread EXCEPT !.pc = pc]
      /\ UNCHANGED <<sb, sockabort, records, sigs, caller, calls, signalled, broken>>
  BY DEF ThreadTakes, ThreadGoes
<1>3. pc \in Blocking \cup {"off"} /\ (pc = "off" <=> Left)
  <2>1. ~Left => calls > 0
    BY <1>1, <1>2, BsdFacts DEF CallsCounted
  <2> QED
    BY <1>1, <2>1 DEF CallsCounted, Blocking
<1> HIDE DEF pc
<1>4. sbThread'.pc = pc /\ sbThread'.of = sbThread.of
      /\ sbThread' \in [pc : Blocking \cup {"wait", "block", "sets", "clear", "done", "off"}, of : 0..MaxCalls]
  BY <1>1, <1>2, <1>3 DEF BsdTypeOK
<1>5. CallsCounted'
  <2>1. AtWork' <=> ~Left
    BY <1>3, <1>4 DEF AtWork, Blocking
  <2> QED
    BY <1>1, <1>2, <1>3, <1>4, <2>1, BsdFacts DEF CallsCounted, Left, AtWork
<1>6. BytesCounted'
  BY <1>1, <1>2 DEF BytesCounted, Left
<1>7. BsdTypeOK'
  BY <1>1, <1>2, <1>4, BsdFacts DEF BsdTypeOK
<1>8. CallInOnePlace'
  <2>1. ~broken /\ ~Left => Posted
    BY <1>1, <1>2, BsdFacts DEF CallInOnePlace, Left, Nowhere, Posted, CarriedOut, Answered, AtWork
  <2>2. ~broken /\ ~Left => CarriedOut'
    BY <1>2, <1>3, <1>4, <2>1 DEF Posted, CarriedOut, AtWork, Blocking
  <2> QED
    BY <1>1, <1>2, <2>1, <2>2 DEF CallInOnePlace, Left, Nowhere, Posted
<1> QED
  BY <1>5, <1>6, <1>7, <1>8 DEF BsdInv

(* The thread answers: the result is the call's it carried out.              *)
LEMMA AnswersStep == ASSUME BsdInv, Answers PROVE BsdInv'
<1>1. BsdTypeOK /\ CallsCounted /\ BytesCounted /\ CallInOnePlace
  BY DEF BsdInv
<1>2. /\ sbThread.pc = "done" /\ sb' = [sb EXCEPT !.result = sbThread.of] /\ records' = records + 1
      /\ sbThread' = [sbThread EXCEPT !.pc = "wait"]
      /\ UNCHANGED <<sbSem, sockabort, sigs, caller, calls, signalled, broken>>
  BY DEF Answers, ThreadGoes
<1>3. /\ sb'.call = sb.call /\ sb'.action = sb.action /\ sb'.result = sbThread.of
      /\ sb' \in [call : 0..MaxCalls, action : Blocking \cup {"none", "die"}, result : 0..MaxCalls]
  BY <1>1, <1>2, BsdFacts DEF BsdTypeOK
<1>4. sbThread'.pc = "wait" /\ sbThread'.of = sbThread.of
      /\ sbThread' \in [pc : Blocking \cup {"wait", "block", "sets", "clear", "done", "off"}, of : 0..MaxCalls]
  BY <1>1, <1>2 DEF BsdTypeOK
<1>5. CallsCounted'
  BY <1>1, <1>2, <1>3, <1>4, BsdFacts DEF CallsCounted, Left, AtWork
<1>6. BytesCounted'
  BY <1>1, <1>2 DEF BytesCounted, Left
<1>7. records' \in 0..MaxCalls
  BY <1>1, <1>2, BsdFacts DEF CallsCounted, AtWork
<1>8. BsdTypeOK'
  BY <1>1, <1>2, <1>3, <1>4, <1>7 DEF BsdTypeOK
<1>9. CallInOnePlace'
  <2>1. ~broken /\ ~Left => CarriedOut
    BY <1>1, <1>2, BsdFacts DEF CallInOnePlace, Left, Nowhere, Posted, Answered
  <2>2. ~broken /\ ~Left => Answered'
    BY <1>2, <1>3, <1>4, <2>1 DEF CarriedOut, Answered
  <2> QED
    BY <1>1, <1>2, <1>3, <2>1, <2>2 DEF CallInOnePlace, Left, Nowhere, CarriedOut
<1> QED
  BY <1>5, <1>6, <1>8, <1>9 DEF BsdInv

(* The interrupt turns the record into the signal.                           *)
LEMMA InterruptStep == ASSUME BsdInv, SignalInterrupt PROVE BsdInv'
<1>1. BsdTypeOK /\ CallsCounted /\ BytesCounted /\ CallInOnePlace
  BY DEF BsdInv
<1>2. /\ records > 0 /\ records' = records - 1 /\ sigs' = sigs \cup {"done"}
      /\ UNCHANGED <<sb, sbSem, sockabort, sbThread, caller, calls, signalled, broken>>
  BY DEF SignalInterrupt
<1>3. CallsCounted'
  BY <1>1, <1>2, BsdFacts DEF CallsCounted, Left, AtWork
<1>4. BytesCounted'
  BY <1>1, <1>2 DEF BytesCounted, Left
<1>5. BsdTypeOK'
  <2>1. records' \in 0..MaxCalls
    BY <1>1, <1>2, BsdFacts DEF BsdTypeOK
  <2> QED
    BY <1>1, <1>2, <2>1 DEF BsdTypeOK
<1>6. CallInOnePlace'
  <2>1. ~broken /\ ~Left => Answered
    BY <1>1, <1>2, BsdFacts DEF CallInOnePlace, Left, Nowhere, Posted, CarriedOut
  <2>2. ~broken /\ ~Left => Answered'
    BY <1>2, <2>1 DEF Answered
  <2> QED
    BY <1>1, <1>2, <2>1, <2>2 DEF CallInOnePlace, Left, Nowhere
<1> QED
  BY <1>3, <1>4, <1>5, <1>6 DEF BsdInv

(* Signals of others come and go without a call being told.                  *)
LEMMA OthersStep == ASSUME BsdInv, Signalled \/ TakesBreak PROVE BsdInv'
<1>1. BsdTypeOK /\ CallsCounted /\ BytesCounted /\ CallInOnePlace
  BY DEF BsdInv
<1>2. /\ signalled' \in 0..MaxSignals /\ signalled <= signalled' /\ ("done" \in sigs' <=> "done" \in sigs)
      /\ sigs' \subseteq {"done", "break", "user"} /\ (sigs' \cap {"break", "user"} # {} => signalled' > 0)
      /\ UNCHANGED <<sb, sbSem, sockabort, sbThread, records, caller, calls, broken>>
  <2>1. CASE Signalled
    BY <1>1, <2>1, BsdFacts DEF Signalled
  <2>2. CASE TakesBreak
    BY <1>1, <2>2, BsdFacts DEF TakesBreak, BytesCounted
  <2> QED
    BY <2>1, <2>2
<1>3. CallsCounted'
  BY <1>1, <1>2 DEF CallsCounted, Left, AtWork
<1>4. BytesCounted'
  BY <1>1, <1>2, BsdFacts DEF BytesCounted, Left
<1>5. BsdTypeOK'
  BY <1>1, <1>2 DEF BsdTypeOK
<1>6. CallInOnePlace'
  BY <1>1, <1>2 DEF CallInOnePlace, Left, AtWork, Nowhere, Posted, CarriedOut, Answered
<1> QED
  BY <1>3, <1>4, <1>5, <1>6 DEF BsdInv

(* A call is posted when nothing is left of the one before.                  *)
LEMMA CallStep == ASSUME BsdInv, NEW a \in Blocking, host_call(a) PROVE BsdInv'
<1>1. BsdTypeOK /\ CallsCounted /\ BytesCounted /\ CallInOnePlace
  BY DEF BsdInv
<1> DEFINE pc == IF a = "select" THEN "waitSelect" ELSE "waitsig"
<1>2. /\ caller.pc = "idle" /\ calls < MaxCalls /\ calls' = calls + 1 /\ sbSem' = sbSem + 1
      /\ sb' = [sb EXCEPT !.call = calls', !.action = a]
      /\ caller' = [pc |-> pc, call |-> calls', got |-> NoCall]
      /\ UNCHANGED <<sockabort, sbThread, records, sigs, signalled, broken>>
  BY DEF host_call
<1>3. pc \in {"waitsig", "waitSelect"}
  OBVIOUS
<1> HIDE DEF pc
<1>4. calls' \in 0..MaxCalls /\ 0 \in 0..MaxCalls
  BY <1>1, <1>2, BsdFacts
<1>5. /\ sb'.call = calls' /\ sb'.action = a /\ sb'.result = sb.result
      /\ sb' \in [call : 0..MaxCalls, action : Blocking \cup {"none", "die"}, result : 0..MaxCalls]
  BY <1>1, <1>2, <1>4 DEF BsdTypeOK
<1>6. /\ caller'.pc = pc /\ caller'.call = calls' /\ caller'.got = NoCall
      /\ caller' \in [pc : {"idle", "waitsig", "waitSelect", "waitAborted", "clear", "closing", "closed"},
                      call : 0..MaxCalls, got : 0..MaxCalls]
  BY <1>2, <1>3, <1>4 DEF NoCall
<1>7. ~Left /\ ~Left' /\ a # "die"
  BY <1>2, <1>3, <1>6 DEF Left, Blocking
<1>8. CallsCounted'
  BY <1>1, <1>2, <1>5, <1>7, BsdFacts DEF CallsCounted, AtWork
<1>9. BytesCounted'
  BY <1>1, <1>2, <1>3, <1>6, <1>7, BsdFacts DEF BytesCounted
<1>10. BsdTypeOK'
  <2>1. sbSem' \in 0 .. MaxCalls + 1
    BY <1>1, <1>2, <1>7, BsdFacts DEF CallsCounted
  <2> QED
    BY <1>1, <1>2, <1>4, <1>5, <1>6, <2>1 DEF BsdTypeOK
<1>11. CallInOnePlace'
  <2>1. ~broken => Nowhere /\ sockabort = 0
    BY <1>1, <1>2, <1>7 DEF CallInOnePlace
  <2>2. ~broken => Posted'
    BY <1>2, <2>1 DEF Nowhere, Posted
  <2> QED
    BY <1>2, <1>3, <1>5, <1>6, <2>1, <2>2 DEF CallInOnePlace
<1> QED
  BY <1>8, <1>9, <1>10, <1>11 DEF BsdInv

(* A step of the program that only changes where it is: what it waits for,   *)
(* its signals and the pipe are given.                                       *)
LEMMA CallerMoves ==
  ASSUME BsdInv, NEW pc \in {"idle", "waitsig", "waitSelect", "waitAborted", "clear"}, NEW got \in 0..MaxCalls,
         caller' = [caller EXCEPT !.pc = pc, !.got = got], ~Left, sigs' \subseteq sigs, sockabort' \in Nat,
         broken' \in BOOLEAN, UNCHANGED <<sb, sbSem, sbThread, records, calls, signalled>>,
         BytesCounted', CallInOnePlace'
  PROVE  BsdInv'
<1>1. BsdTypeOK /\ CallsCounted
  BY DEF BsdInv
<1>2. /\ caller'.pc = pc
      /\ caller' \in [pc : {"idle", "waitsig", "waitSelect", "waitAborted", "clear", "closing", "closed"},
                      call : 0..MaxCalls, got : 0..MaxCalls]
  BY <1>1 DEF BsdTypeOK
<1>3. ~Left'
  BY <1>2 DEF Left
<1>4. CallsCounted'
  BY <1>1, <1>3 DEF CallsCounted, AtWork
<1>5. sockabort' \in 0 .. 2 * MaxSignals + MaxCalls
  <2>1. sockabort' <= calls + 1
    BY <1>1, <1>2, BsdFacts DEF BytesCounted, Left
  <2>2. sockabort' > 0 => signalled > 0
    BY DEF BytesCounted
  <2> QED
    BY <1>1, <2>1, <2>2, BsdFacts
<1>6. BsdTypeOK'
  BY <1>1, <1>2, <1>5, BsdFacts DEF BsdTypeOK
<1> QED
  BY <1>4, <1>6 DEF BsdInv

(* waitsig returns: with the call answered, or broken off.                   *)
LEMMA WaitsigStep ==
  ASSUME BsdInv, caller.pc \in {"waitsig", "waitAborted"}, NEW got \in 0..MaxCalls, waitsig(got),
         got \in {sb.result, NoCall}
  PROVE  BsdInv'
<1>1. BsdTypeOK /\ CallsCounted /\ BytesCounted /\ CallInOnePlace
  BY DEF BsdInv
<1> DEFINE pc == IF caller.pc = "waitsig" THEN "idle" ELSE "clear"
<1>2. /\ sigs \cap {"done", "break"} # {} /\ sigs' = sigs \ {"done"}
      /\ "break" \in sigs => sockabort' = sockabort + 1 /\ broken' = TRUE
      /\ "break" \notin sigs => sockabort' = sockabort /\ broken' = broken
      /\ caller' = [caller EXCEPT !.pc = pc, !.got = got]
      /\ UNCHANGED <<sb, sbSem, sbThread, records, calls, signalled>>
  BY DEF waitsig
<1>3. caller'.pc = pc /\ caller'.got = got /\ caller'.call = caller.call
  BY <1>1, <1>2 DEF BsdTypeOK
<1>4. /\ caller.pc = "waitsig" => pc = "idle"
      /\ caller.pc = "waitAborted" => pc = "clear"
  OBVIOUS
<1>5. pc \in {"idle", "clear"} /\ ~Left /\ ~Left'
  BY <1>3 DEF Left
<1> HIDE DEF pc
<1>6. BytesCounted'
  <2>1. sockabort' <= sockabort + 1 /\ sockabort' \in Nat /\ (sockabort' > 0 \/ broken' => signalled > 0)
    BY <1>1, <1>2, BsdFacts DEF BytesCounted
  <2>2. /\ pc = "idle" => sockabort' <= calls
        /\ pc = "clear" => sockabort' <= calls + 1
    BY <1>1, <1>4, <1>5, <2>1, BsdFacts DEF BytesCounted
  <2>3. sigs' \cap {"break", "user"} # {} => signalled > 0
    BY <1>1, <1>2 DEF BytesCounted
  <2> QED
    BY <1>2, <1>3, <1>5, <2>1, <2>2, <2>3 DEF BytesCounted
<1>7. CallInOnePlace'
  <2> SUFFICES ASSUME ~broken' PROVE CallInOnePlace'
    BY DEF CallInOnePlace
  <2>1. "break" \notin sigs /\ "done" \in sigs /\ ~broken /\ sockabort' = sockabort
    BY <1>2
  <2>2. Answered /\ caller.call = sb.call
    BY <1>1, <1>5, <2>1 DEF CallInOnePlace, Nowhere, Posted, CarriedOut
  <2>3. Nowhere'
    BY <1>2, <2>1, <2>2 DEF Answered, Nowhere
  <2>4. got \in {caller.call, NoCall}
    BY <2>2 DEF Answered
  <2>5. pc = "idle" => sockabort' = 0
    BY <1>1, <1>4, <1>5, <2>1 DEF CallInOnePlace
  <2> QED
    BY <1>2, <1>3, <1>5, <2>2, <2>3, <2>4, <2>5 DEF CallInOnePlace
<1>8. broken' \in BOOLEAN /\ sockabort' \in Nat
  <2>1. broken \in BOOLEAN /\ sockabort \in Nat
    BY <1>1, BsdFacts
  <2>2. CASE "break" \in sigs
    BY <1>2, <2>1, <2>2
  <2>3. CASE "break" \notin sigs
    BY <1>2, <2>1, <2>3
  <2> QED
    BY <2>2, <2>3
<1> QED
  BY <1>2, <1>5, <1>6, <1>7, <1>8, CallerMoves

(* WaitSelect wakes: the thread is done, or told to stop.                    *)
LEMMA WakesStep == ASSUME BsdInv, WaitSelectWakes PROVE BsdInv'
<1>1. BsdTypeOK /\ CallsCounted /\ BytesCounted /\ CallInOnePlace
  BY DEF BsdInv
<1>2. /\ caller.pc = "waitSelect" /\ sigs # {} /\ sigs' = {} /\ ~Left
      /\ UNCHANGED <<sb, sbSem, sbThread, records, calls, signalled, broken>>
  BY DEF WaitSelectWakes, Left
<1>3. CASE "done" \in sigs
  <2> DEFINE got == IF sigs = {"done"} THEN sb.result ELSE NoCall
  <2>1. caller' = [caller EXCEPT !.pc = "clear", !.got = got] /\ sockabort' = sockabort
    BY <1>3 DEF WaitSelectWakes
  <2>2. got \in 0..MaxCalls /\ got \in {sb.result, NoCall}
    BY <1>1, BsdFacts DEF NoCall
  <2> HIDE DEF got
  <2>3. caller'.pc = "clear" /\ caller'.got = got /\ caller'.call = caller.call /\ ~Left'
    BY <1>1, <2>1 DEF BsdTypeOK, Left
  <2>4. BytesCounted'
    BY <1>1, <1>2, <2>1, <2>3, BsdFacts DEF BytesCounted
  <2>5. CallInOnePlace'
    <3>1. ~broken => Answered /\ caller.call = sb.call
      BY <1>1, <1>2, <1>3 DEF CallInOnePlace, Posted, CarriedOut
    <3>2. ~broken => Nowhere'
      BY <1>2, <1>3, <3>1 DEF Answered, Nowhere
    <3> QED
      BY <1>2, <2>2, <2>3, <3>1, <3>2 DEF CallInOnePlace, Answered
  <2> QED
    BY <1>1, <1>2, <2>1, <2>2, <2>4, <2>5, BsdFacts, CallerMoves
<1>4. CASE "done" \notin sigs
  <2>1. caller' = [caller EXCEPT !.pc = "waitAborted"] /\ sockabort' = sockabort + 1
    BY <1>4 DEF WaitSelectWakes
  <2>2. caller' = [caller EXCEPT !.pc = "waitAborted", !.got = caller.got]
    BY <1>1, <2>1 DEF BsdTypeOK
  <2>3. caller'.pc = "waitAborted" /\ caller'.call = caller.call /\ ~Left'
    BY <1>1, <2>1 DEF BsdTypeOK, Left
  <2>4. BytesCounted'
    <3>1. sigs \cap {"break", "user"} # {}
      BY <1>1, <1>2, <1>4, BsdFacts
    <3> QED
      BY <1>1, <1>2, <2>1, <2>3, <3>1, BsdFacts DEF BytesCounted
  <2>5. CallInOnePlace'
    <3>1. ~broken => (Posted \/ CarriedOut \/ Answered) /\ caller.call = sb.call
      BY <1>1, <1>2 DEF CallInOnePlace
    <3>2. ~broken => (Posted \/ CarriedOut \/ Answered)'
      BY <1>2, <1>4, <3>1 DEF Posted, CarriedOut, Answered, AtWork
    <3> QED
      BY <1>2, <2>3, <3>1, <3>2 DEF CallInOnePlace
  <2>6. caller.got \in 0..MaxCalls /\ sockabort' \in Nat /\ broken' \in BOOLEAN /\ sigs' \subseteq sigs
    BY <1>1, <1>2, <2>1, BsdFacts
  <2> QED
    BY <1>2, <2>2, <2>4, <2>5, <2>6, CallerMoves
<1> QED
  BY <1>3, <1>4

(* WaitSelect returns: the pipe is emptied for the next call.                *)
LEMMA ReturnsStep == ASSUME BsdInv, WaitSelectReturns PROVE BsdInv'
<1>1. BsdTypeOK /\ CallsCounted /\ BytesCounted /\ CallInOnePlace
  BY DEF BsdInv
<1>2. /\ caller.pc = "clear" /\ sockabort' = 0 /\ caller' = [caller EXCEPT !.pc = "idle"] /\ ~Left
      /\ UNCHANGED <<sb, sbSem, sbThread, records, sigs, calls, signalled, broken>>
  BY DEF WaitSelectReturns, Left
<1>3. caller' = [caller EXCEPT !.pc = "idle", !.got = caller.got]
  BY <1>1, <1>2 DEF BsdTypeOK
<1>4. caller'.pc = "idle" /\ caller'.call = caller.call /\ caller'.got = caller.got /\ ~Left'
  BY <1>1, <1>2 DEF BsdTypeOK, Left
<1>5. BytesCounted'
  BY <1>1, <1>2, <1>4, BsdFacts DEF BytesCounted
<1>6. CallInOnePlace'
  BY <1>1, <1>2, <1>4 DEF CallInOnePlace, Nowhere
<1> QED
  BY <1>1, <1>2, <1>3, <1>5, <1>6, BsdFacts, CallerMoves

(* The base is given back, at any time.                                      *)
LEMMA CleanupStep == ASSUME BsdInv, host_sbcleanup \/ Joins PROVE BsdInv'
<1>1. BsdTypeOK /\ CallsCounted /\ BytesCounted
  BY DEF BsdInv
<1>2. CASE host_sbcleanup
  <2>1. /\ ~Left /\ sb' = [sb EXCEPT !.action = "die"] /\ sbSem' = sbSem + 1 /\ sockabort' = 0
        /\ caller' = [caller EXCEPT !.pc = "closing"]
        /\ UNCHANGED <<sbThread, records, sigs, calls, signalled, broken>>
    BY <1>2 DEF host_sbcleanup, Left
  <2>2. /\ sb'.action = "die"
        /\ sb' \in [call : 0..MaxCalls, action : Blocking \cup {"none", "die"}, result : 0..MaxCalls]
    BY <1>1, <2>1 DEF BsdTypeOK
  <2>3. /\ caller'.pc = "closing"
        /\ caller' \in [pc : {"idle", "waitsig", "waitSelect", "waitAborted", "clear", "closing", "closed"},
                        call : 0..MaxCalls, got : 0..MaxCalls]
    BY <1>1, <2>1 DEF BsdTypeOK
  <2>4. Left'
    BY <2>3 DEF Left
  <2>5. CallsCounted'
    BY <1>1, <2>1, <2>2, <2>4, BsdFacts DEF CallsCounted, AtWork
  <2>6. BytesCounted'
    BY <1>1, <2>1, <2>3, <2>4, BsdFacts DEF BytesCounted
  <2>7. sbSem' \in 0 .. MaxCalls + 1 /\ 0 \in 0 .. 2 * MaxSignals + MaxCalls
    BY <1>1, <2>1, BsdFacts DEF CallsCounted
  <2>8. BsdTypeOK'
    BY <1>1, <2>1, <2>2, <2>3, <2>7 DEF BsdTypeOK
  <2>9. CallInOnePlace'
    BY <2>4 DEF CallInOnePlace
  <2> QED
    BY <2>5, <2>6, <2>8, <2>9 DEF BsdInv
<1>3. CASE Joins
  <2>1. /\ caller.pc = "closing" /\ caller' = [caller EXCEPT !.pc = "closed"]
        /\ UNCHANGED <<sb, sbSem, sockabort, sbThread, records, sigs, calls, signalled, broken>>
    BY <1>3 DEF Joins
  <2>2. /\ caller'.pc = "closed"
        /\ caller' \in [pc : {"idle", "waitsig", "waitSelect", "waitAborted", "clear", "closing", "closed"},
                        call : 0..MaxCalls, got : 0..MaxCalls]
    BY <1>1, <2>1 DEF BsdTypeOK
  <2>3. Left /\ Left'
    BY <2>1, <2>2 DEF Left
  <2>4. CallsCounted' /\ BytesCounted'
    BY <1>1, <2>1, <2>2, <2>3 DEF CallsCounted, BytesCounted, AtWork
  <2>5. BsdTypeOK' /\ CallInOnePlace'
    BY <1>1, <2>1, <2>2, <2>3 DEF BsdTypeOK, CallInOnePlace
  <2> QED
    BY <2>4, <2>5 DEF BsdInv
<1> QED
  BY <1>2, <1>3

(* The invariant is kept by every step, and so always holds.                 *)
LEMMA BsdInductive == BsdSpec => []BsdInv
<1>1. BsdInv /\ [BsdNext]_bsVars => BsdInv'
  <2> SUFFICES ASSUME BsdInv, [BsdNext]_bsVars PROVE BsdInv'
    OBVIOUS
  <2>1. CASE \E a \in Blocking : host_call(a)
    BY <2>1, CallStep
  <2>2. CASE TakesBreak \/ Signalled
    BY <2>2, OthersStep
  <2>3. CASE host_sbcleanup \/ Joins
    BY <2>3, CleanupStep
  <2>4. CASE SocketCallReturns \/ WaitSelectAborted
    <3>1. sb.result \in 0..MaxCalls /\ NoCall \in 0..MaxCalls
      BY BsdFacts DEF BsdInv, NoCall
    <3> QED
      BY <2>4, <3>1, WaitsigStep DEF SocketCallReturns, WaitSelectAborted
  <2>5. CASE WaitSelectWakes
    BY <2>5, WakesStep
  <2>6. CASE WaitSelectReturns
    BY <2>6, ReturnsStep
  <2>7. CASE ThreadTakes
    BY <2>7, ThreadTakesStep
  <2>8. CASE Lookup \/ Try \/ WaitSelect \/ SocketReady \/ SelectAborted \/ SelectClosed \/ ClearAbort
    BY <2>8, ThreadWorkSteps
  <2>9. CASE Answers
    BY <2>9, AnswersStep
  <2>10. CASE SignalInterrupt
    BY <2>10, InterruptStep
  <2>11. CASE UNCHANGED bsVars
    BY <2>11 DEF bsVars, BsdInv, BsdTypeOK, CallsCounted, BytesCounted, CallInOnePlace, Left, AtWork, Nowhere,
                 Posted, CarriedOut, Answered
  <2> QED
    BY <2>1, <2>2, <2>3, <2>4, <2>5, <2>6, <2>7, <2>8, <2>9, <2>10, <2>11 DEF BsdNext, Caller, SocketThread
<1> QED
  BY <1>1, BsdInitially, PTL DEF BsdSpec

(* The counts stay within the bounds, the pipe's bytes included.             *)
THEOREM BsdTypes == BsdSpec => []BsdTypeOK
<1>1. BsdInv => BsdTypeOK
  BY DEF BsdInv
<1> QED
  BY <1>1, BsdInductive, PTL

(* For any number of calls and signals, and whatever the sockets do: as long *)
(* as no call was broken off in waitsig, a call leaves nothing of itself to  *)
(* the next one (waitsig, host_WaitSelect, bsdlib_threadfunc).               *)
THEOREM NothingIsLeft == BsdSpec => []CallsLeaveNothing
<1>1. BsdInv => CallsLeaveNothing
  BY DEF BsdInv, CallInOnePlace, CallsLeaveNothing, Nowhere, Left
<1> QED
  BY <1>1, BsdInductive, PTL

-----------------------------------------------------------------------------
(* ScsiDevice, of which safety needs no fairness.                            *)
ScSpec == ScInit /\ [][ScNext]_scVars

(* The life of a unit's thread: none, started by the open that is under way, *)
(* serving those who have the unit open, or with the zero request to come,   *)
(* at hand or taken; that is the last of its requests. One that has posted   *)
(* its end is as good as none.                                               *)
Exiting == machine.pc \in {"exit", "exitWait", "anew"}
Cleared(u) == machine.pc = "anew" \/ (machine.pc \in {"exit", "exitWait"} /\ u < machine.unit)
OpenedAt(u) == machine.pc = "open" /\ machine.unit = u
StoppedAt(u) == machine.pc = "exitWait" /\ machine.unit = u
Serves == {"read", "lock", "io", "release", "reply", "unlock"}
NoZero(q) == \A i \in 1..Len(q) : q[i] # NoReq
ZeroLast(q) == q # <<>> /\ q[Len(q)] = NoReq /\ \A i \in 1..(Len(q) - 1) : q[i] # NoReq
Busy(u) ==
  devThread[u].pc \in Serves /\ (devThread[u].pc = "read" <=> devThread[u].req = NoReq)

Off(u) ==
  /\ devThread[u].pc \in {"posted", "closing", "off"} /\ devThread[u].req = NoReq
  /\ devst[u].requests = <<>> /\ ~devst[u].running
Starting(u) ==
  /\ devst[u].opencnt = 1 /\ devst[u].requests = <<>> /\ devThread[u].req = NoReq
  /\ \/ devThread[u].pc = "start" /\ ~devst[u].running /\ devst[u].sync = 0
     \/ devThread[u].pc = "read" /\ devst[u].running /\ devst[u].sync = 1
Serving(u) == devst[u].running /\ devst[u].sync = 0 /\ Busy(u) /\ NoZero(devst[u].requests)
Ending(u) ==
  /\ devst[u].sync = 0
  /\ \/ devst[u].running /\ Busy(u) /\ ZeroLast(devst[u].requests)
     \/ devThread[u].req = NoReq /\ devst[u].requests = <<>>
        /\ \/ devThread[u].pc \in {"lock", "stop"} /\ devst[u].running
           \/ devThread[u].pc = "stopped" /\ ~devst[u].running

Life(u) ==
  /\ devst[u].opencnt = 0 \/ StoppedAt(u) => Off(u) \/ Ending(u)
  /\ OpenedAt(u) => Starting(u)
  /\ devst[u].opencnt > 0 /\ ~StoppedAt(u) /\ ~OpenedAt(u) => Serving(u)
LifeInv == \A u \in ScsiUnit : Life(u)

ExitInv ==
  Exiting =>
    /\ \A u \in ScsiUnit : devst[u].opencnt = 0 => devThread[u].pc \in {"posted", "closing", "off"}
    /\ \A u \in ScsiUnit : Cleared(u) => devst[u] = Zeroed
    /\ machine.pc = "exitWait" => devst[machine.unit].opencnt > 0

(* Who has a unit open, by which handle; a handle is in use for one unit.    *)
CountInv ==
  \A u \in ScsiUnit :
    /\ devst[u].opencnt = Cardinality(OpenAt(u)) \/ Cleared(u)
    /\ u \in hostOpen <=> devst[u].opencnt > 0
HandleInv ==
  /\ HandlesAreUnits
  /\ \A p \in Handle : pdevst[p].inuse => OpenAt(pdevst[p].unit) # {}
  /\ \A p, q \in Handle : pdevst[p].inuse /\ pdevst[q].inuse /\ pdevst[p].unit = pdevst[q].unit => p = q

(* A request is with the unit it is open on. Until a reset it is on one way  *)
(* there, and has a place in that unit's table only as what it is.           *)
HasIt(u, r) == devThread[u].req = r /\ ~ThreadAt(u, "unlock")
AtReply(u, r) == devThread[u].req = r /\ ThreadAt(u, "reply")
HomeInv ==
  \A u \in ScsiUnit, r \in Ioreq :
    OccursIn(r, devst[u].requests) > 0 \/ HasIt(u, r) => ioreq[r].unit = u /\ ioreq[r].state # "closed"
WayInv ==
  \A r \in Ioreq :
    LET u == ioreq[r].unit
    IN OccursIn(r, devst[u].requests) + OccursIn(r, replies) + (IF HasIt(u, r) THEN 1 ELSE 0)
         = (IF ioreq[r].state = "sent" THEN 1 ELSE 0)
Entry(u, i) ==
  LET e == devst[u].table[i]
  IN /\ ioreq[e.req].unit = u
     /\ \/ e.type = "temp" /\ ioreq[e.req].state = "sent"
         /\ OccursIn(e.req, replies) = 0 /\ ~AtReply(u, e.req)
        \/ e.type = "changeint" /\ ioreq[e.req].state = "held"
     /\ \A j \in Place : devst[u].table[j].req = e.req => j = i
TableInv == \A u \in ScsiUnit, i \in Place : devst[u].table[i].req \in Ioreq => Entry(u, i)
HeldInv ==
  \A r \in Ioreq : ioreq[r].state = "held" => PlacesOf(ioreq[r].unit, r) # {}
AbortInv ==
  machine.pc = "abort" =>
    machine.req \in Ioreq /\ ioreq[machine.req].state \in {"sent", "held"}
    /\ ioreq[machine.req].unit = machine.unit

RequestInv == ~Exiting => WayInv /\ TableInv /\ HeldInv /\ AbortInv
ScInv == DeviceTypeOK /\ LifeInv /\ ExitInv /\ CountInv /\ HandleInv /\ HomeInv /\ RequestInv

(* The values of the records.                                                *)
Req == Ioreq \cup {NoReq}
Request == [state : {"closed", "open", "sent", "held"}, unit : ScsiUnit,
            handle : Handle, command : {"io", "add", "rem"}]
Table == [Place -> [req : Req, type : {"none", "temp", "changeint"}]]
DevState == [opencnt : 0..Cardinality(Ioreq), table : Table,
             requests : Seq(Req), running : BOOLEAN, sync : 0..1]
ThreadPC == {"off", "start", "read", "lock", "io", "release", "reply", "unlock", "stop", "stopped", "posted",
             "closing"}
ThreadState == [pc : ThreadPC, req : Req]
HandleState == [inuse : BOOLEAN, unit : ScsiUnit, scsi : BOOLEAN]
MachineState == [pc : {"run", "open", "abort", "exit", "exitWait", "anew"}, unit : ScsiUnit, req : Req]

(* The types, with names for their sets.                                     *)
LEMMA ScTypesAre ==
  DeviceTypeOK <=>
    /\ ioreq \in [Ioreq -> Request] /\ devst \in [ScsiUnit -> DevState]
    /\ pdevst \in [Handle -> HandleState] /\ hostOpen \subseteq ScsiUnit
    /\ devThread \in [ScsiUnit -> ThreadState] /\ changeSem \in 0..Nobody /\ replies \in Seq(Req)
    /\ machine \in MachineState /\ scsiResets \in 0..MaxScsiResets /\ commands \in 0..MaxCommands
BY Zenon DEF DeviceTypeOK, Req, Request, Table, DevState, ThreadPC, ThreadState, HandleState, MachineState

(* The same after a step.                                                    *)
LEMMA ScTypesAreNext ==
  DeviceTypeOK' <=>
    /\ ioreq' \in [Ioreq -> Request] /\ devst' \in [ScsiUnit -> DevState]
    /\ pdevst' \in [Handle -> HandleState] /\ hostOpen' \subseteq ScsiUnit
    /\ devThread' \in [ScsiUnit -> ThreadState] /\ changeSem' \in 0..Nobody /\ replies' \in Seq(Req)
    /\ machine' \in MachineState /\ scsiResets' \in 0..MaxScsiResets /\ commands' \in 0..MaxCommands
BY Zenon DEF DeviceTypeOK, Req, Request, Table, DevState, ThreadPC, ThreadState, HandleState, MachineState

(* The constants, and the sets of units, handles and places.                 *)
LEMMA ScConstants ==
  /\ ScsiUnits \in Nat /\ ScsiUnits > 0 /\ Handles \in Nat /\ ScsiUnits <= Handles
  /\ AsyncRequests \in Nat /\ MaxScsiResets \in Nat /\ MaxCommands \in Nat
  /\ IsFiniteSet(Ioreq) /\ Cardinality(Ioreq) \in Nat /\ NoReq \notin Ioreq
  /\ ScsiUnit = 0..(ScsiUnits - 1) /\ ScsiUnit \subseteq Nat /\ 0 \in ScsiUnit
  /\ Handle = 0..(Handles - 1) /\ Handle \subseteq Nat /\ 0 \in Handle /\ Place \subseteq Nat
<1>1. /\ ScsiUnits \in Nat /\ ScsiUnits > 0 /\ Handles \in Nat /\ ScsiUnits <= Handles
      /\ AsyncRequests \in Nat /\ MaxScsiResets \in Nat /\ MaxCommands \in Nat
      /\ IsFiniteSet(Ioreq) /\ NoReq \notin Ioreq
  BY ScsiAssumption DEF ScsiAssumption
<1>2. Cardinality(Ioreq) \in Nat
  BY <1>1, FS_CardinalityType
<1> QED
  BY <1>1, <1>2 DEF ScsiUnit, Handle, Place

(* The parts of a unit, of its thread, of a request and of the emulator      *)
(* thread's place.                                                           *)
LEMMA UnitFacts ==
  ASSUME DeviceTypeOK, NEW u \in ScsiUnit
  PROVE  /\ devst[u] \in DevState /\ devThread[u] \in ThreadState
         /\ devst[u].opencnt \in 0..Cardinality(Ioreq) /\ devst[u].opencnt \in Nat
         /\ devst[u].table \in Table
         /\ devst[u].requests \in Seq(Req) /\ devst[u].running \in BOOLEAN /\ devst[u].sync \in {0, 1}
         /\ devThread[u].pc \in ThreadPC /\ devThread[u].req \in Req
<1>1. devst[u] \in DevState /\ devThread[u] \in ThreadState
  BY ScTypesAre
<1>2. devst[u].opencnt \in 0..Cardinality(Ioreq) /\ devst[u].table \in Table
      /\ devst[u].requests \in Seq(Req) /\ devst[u].running \in BOOLEAN /\ devst[u].sync \in 0..1
  BY <1>1 DEF DevState
<1>3. devThread[u].pc \in ThreadPC /\ devThread[u].req \in Req
  BY <1>1 DEF ThreadState
<1> QED
  BY <1>1, <1>2, <1>3, ScConstants

(* The parts of a request.                                                   *)
LEMMA RequestFacts ==
  ASSUME DeviceTypeOK, NEW r \in Ioreq
  PROVE  /\ ioreq[r] \in Request /\ ioreq[r].state \in {"closed", "open", "sent", "held"}
         /\ ioreq[r].unit \in ScsiUnit /\ ioreq[r].handle \in Handle
         /\ ioreq[r].command \in {"io", "add", "rem"}
BY ScTypesAre DEF Request

(* Where the emulator thread may be.                                         *)
LEMMA MachineFacts ==
  ASSUME DeviceTypeOK
  PROVE  /\ machine.pc \in {"run", "open", "abort", "exit", "exitWait", "anew"}
         /\ machine.unit \in ScsiUnit /\ machine.req \in Req
         /\ Running \in MachineState /\ Running.pc = "run" /\ Running.unit = 0 /\ Running.req = NoReq
<1>1. machine \in MachineState
  BY ScTypesAre
<1>2. Running \in MachineState
  BY ScConstants DEF Running, MachineState, Req
<1> QED
  BY <1>1, <1>2 DEF MachineState, Running

(* The first place found is one of those looked for.                         *)
LEMMA FirstIsIn ==
  ASSUME NEW S, S \subseteq Nat, S # {}
  PROVE  FirstOf(S) \in S /\ \A j \in S : FirstOf(S) <= j
<1>1. PICK x \in S : \A y \in S : ~(<<y, x>> \in OpToRel(<, Nat))
  BY NatLessThanWellFounded, WFMin
<1>2. ASSUME NEW y \in S PROVE x <= y
  <2>1. x \in Nat /\ y \in Nat
    OBVIOUS
  <2>2. OpToRel(<, Nat) = {ss \in Nat \X Nat : ss[1] < ss[2]}
    BY DEF OpToRel
  <2>3. ~ (y < x)
    BY <1>1, <2>1, <2>2
  <2> QED
    BY <2>1, <2>3
<1> QED
  BY <1>2 DEF FirstOf

(* The table with a request added has it in one place of those it had, or in *)
(* one that was free, unless there is none; releasing clears one it had.     *)
LEMMA AddedIs ==
  ASSUME DeviceTypeOK, NEW u \in ScsiUnit, NEW r \in Ioreq, NEW type \in {"temp", "changeint"}
  PROVE  /\ Added(u, r, type) \in Table
         /\ CanAdd(u, r) => \E k \in Place :
              /\ devst[u].table[k].req \in {r, NoReq} /\ (PlacesOf(u, r) # {} => devst[u].table[k].req = r)
              /\ Added(u, r, type)[k].req = r /\ Added(u, r, type)[k].type = type
              /\ \A i \in Place : i # k => Added(u, r, type)[i] = devst[u].table[i]
         /\ ~CanAdd(u, r) => Added(u, r, type) = devst[u].table /\ PlacesOf(u, r) = {}
<1> DEFINE T == devst[u].table
           S == IF PlacesOf(u, r) # {} THEN PlacesOf(u, r) ELSE PlacesOf(u, NoReq)
           e == [req |-> r, type |-> type]
<1>1. T \in Table /\ e \in [req : Req, type : {"none", "temp", "changeint"}]
  BY UnitFacts DEF Req
<1>2. S \subseteq Place /\ Place \subseteq Nat
  BY ScConstants DEF PlacesOf
<1>3. CASE S = {}
  BY <1>1, <1>3 DEF Added, CanAdd
<1>4. CASE S # {}
  <2> DEFINE k == FirstOf(S)
  <2>1. k \in S /\ k \in Place
    BY <1>2, <1>4, FirstIsIn
  <2>2. Added(u, r, type) = [T EXCEPT ![k] = e]
    BY <1>4 DEF Added
  <2>3. T[k].req \in {r, NoReq} /\ (PlacesOf(u, r) # {} => T[k].req = r)
    BY <2>1 DEF PlacesOf
  <2> HIDE DEF k, S
  <2>4. Added(u, r, type) \in Table /\ Added(u, r, type)[k] = e
        /\ \A i \in Place : i # k => Added(u, r, type)[i] = T[i]
    BY <1>1, <2>1, <2>2 DEF Table
  <2>5. CanAdd(u, r)
    BY <1>4 DEF S, CanAdd
  <2> QED
    BY <2>1, <2>3, <2>4, <2>5
<1> QED
  BY <1>3, <1>4

(* The table with a request released, which only clears a place it had.      *)
LEMMA ReleasedIs ==
  ASSUME DeviceTypeOK, NEW u \in ScsiUnit, NEW r \in Ioreq
  PROVE  /\ Released(u, r) \in Table
         /\ PlacesOf(u, r) # {} => \E k \in Place :
              /\ devst[u].table[k].req = r /\ Released(u, r)[k].req = NoReq
              /\ \A i \in Place : i # k => Released(u, r)[i] = devst[u].table[i]
         /\ PlacesOf(u, r) = {} => Released(u, r) = devst[u].table
<1> DEFINE T == devst[u].table
           k == FirstOf(PlacesOf(u, r))
<1>1. T \in Table /\ Empty \in [req : Req, type : {"none", "temp", "changeint"}] /\ Empty.req = NoReq
  BY UnitFacts DEF Req, Empty
<1>2. PlacesOf(u, r) \subseteq Place /\ Place \subseteq Nat
  BY ScConstants DEF PlacesOf
<1>3. CASE PlacesOf(u, r) = {}
  BY <1>1, <1>3 DEF Released
<1>4. CASE PlacesOf(u, r) # {}
  <2>1. k \in PlacesOf(u, r) /\ k \in Place
    BY <1>2, <1>4, FirstIsIn
  <2>2. Released(u, r) = [T EXCEPT ![k] = Empty]
    BY <1>4 DEF Released
  <2>3. T[k].req = r
    BY <2>1 DEF PlacesOf
  <2> HIDE DEF k
  <2>4. Released(u, r) \in Table /\ Released(u, r)[k] = Empty
        /\ \A i \in Place : i # k => Released(u, r)[i] = T[i]
    BY <1>1, <2>1, <2>2 DEF Table
  <2> QED
    BY <1>1, <1>4, <2>1, <2>3, <2>4
<1> QED
  BY <1>3, <1>4

-----------------------------------------------------------------------------
(* How often a request occurs in a sequence of them.                         *)
SitesOf(m, seq) == {i \in 1..Len(seq) : seq[i] = m}

(* They are as many as it occurs.                                            *)
LEMMA SitesCounted ==
  ASSUME NEW S, NEW m, NEW seq \in Seq(S)
  PROVE  /\ IsFiniteSet(SitesOf(m, seq)) /\ OccursIn(m, seq) = Cardinality(SitesOf(m, seq))
         /\ OccursIn(m, seq) \in Nat
<1>1. DOMAIN seq = 1..Len(seq) /\ IsFiniteSet(1..Len(seq))
  BY FS_Interval
<1>2. SitesOf(m, seq) \subseteq 1..Len(seq)
  BY DEF SitesOf
<1>3. IsFiniteSet(SitesOf(m, seq))
  BY <1>1, <1>2, FS_Subset
<1>4. OccursIn(m, seq) = Cardinality(SitesOf(m, seq))
  BY <1>1 DEF OccursIn, SitesOf
<1> QED
  BY <1>3, <1>4, FS_CardinalityType

(* One that occurs no times is nowhere.                                      *)
LEMMA OccursNowhere ==
  ASSUME NEW S, NEW m, NEW seq \in Seq(S)
  PROVE  OccursIn(m, seq) = 0 <=> \A i \in 1..Len(seq) : seq[i] # m
<1>1. OccursIn(m, seq) = 0 <=> SitesOf(m, seq) = {}
  BY SitesCounted, FS_EmptySet
<1> QED
  BY <1>1 DEF SitesOf

(* None occurs in the empty one.                                             *)
LEMMA OccursEmpty ==
  ASSUME NEW m
  PROVE  OccursIn(m, <<>>) = 0
<1>1. <<>> \in Seq({m}) /\ Len(<<>>) = 0
  OBVIOUS
<1>2. OccursIn(m, <<>>) = 0 <=> \A i \in 1..Len(<<>>) : <<>>[i] # m
  BY <1>1, OccursNowhere
<1>3. 1..Len(<<>>) = {}
  BY <1>1
<1> QED
  BY <1>2, <1>3

(* Appending adds one of what is appended.                                   *)
LEMMA OccursAppended ==
  ASSUME NEW S, NEW m, NEW seq \in Seq(S), NEW x \in S
  PROVE  OccursIn(m, Append(seq, x)) = OccursIn(m, seq) + (IF x = m THEN 1 ELSE 0)
<1>1. Append(seq, x) \in Seq(S)
  OBVIOUS
<1>2. CASE x = m
  <2>1. SitesOf(m, Append(seq, x)) = SitesOf(m, seq) \cup {Len(seq) + 1}
    BY <1>2 DEF SitesOf
  <2>2. Len(seq) + 1 \notin SitesOf(m, seq)
    BY DEF SitesOf
  <2>3. Cardinality(SitesOf(m, seq) \cup {Len(seq) + 1}) = Cardinality(SitesOf(m, seq)) + 1
    BY <2>2, SitesCounted, FS_AddElement
  <2> QED
    BY <1>1, <1>2, <2>1, <2>3, SitesCounted
<1>3. CASE x # m
  <2>1. SitesOf(m, Append(seq, x)) = SitesOf(m, seq)
    BY <1>3 DEF SitesOf
  <2>2. OccursIn(m, Append(seq, x)) = OccursIn(m, seq) /\ OccursIn(m, seq) \in Nat
    BY <1>1, <2>1, SitesCounted
  <2> QED
    BY <1>3, <2>2
<1> QED
  BY <1>2, <1>3

(* Reading takes one of what is read.                                        *)
LEMMA OccursRead ==
  ASSUME NEW S, NEW m, NEW seq \in Seq(S), seq # <<>>
  PROVE  OccursIn(m, seq) = OccursIn(m, Tail(seq)) + (IF Head(seq) = m THEN 1 ELSE 0)
<1> DEFINE n == Len(seq)
           A == SitesOf(m, Tail(seq))
           B == SitesOf(m, seq) \ {1}
<1>1. Tail(seq) \in Seq(S) /\ Len(Tail(seq)) = n - 1 /\ n \in Nat /\ n > 0 /\ Head(seq) = seq[1]
      /\ \A i \in 1..(n - 1) : Tail(seq)[i] = seq[i + 1]
  OBVIOUS
<1>2. IsFiniteSet(A) /\ IsFiniteSet(B) /\ IsFiniteSet(SitesOf(m, seq))
  BY <1>1, SitesCounted, FS_RemoveElement
<1>3. Cardinality(A) = Cardinality(B)
  <2> DEFINE f == [i \in A |-> i + 1]
  <2>1. f \in [A -> B]
    BY <1>1 DEF SitesOf
  <2>2. \A i, j \in A : f[i] = f[j] => i = j
    BY <1>1 DEF SitesOf
  <2>3. ASSUME NEW j \in B PROVE \E i \in A : f[i] = j
    <3>1. j \in 2..n /\ seq[j] = m
      BY <1>1 DEF SitesOf
    <3>2. j - 1 \in 1..(n - 1) /\ Tail(seq)[j - 1] = m
      BY <1>1, <3>1
    <3>3. j - 1 \in A
      BY <1>1, <3>2 DEF SitesOf
    <3>4. f[j - 1] = j
      BY <3>1, <3>3
    <3> QED
      BY <3>3, <3>4
  <2>4. f \in Bijection(A, B)
    BY <2>1, <2>2, <2>3 DEF Bijection, Injection, Surjection, IsInjective
  <2>5. ExistsBijection(A, B)
    BY <2>4 DEF ExistsBijection
  <2> QED
    BY <1>2, <2>5, FS_Bijection
<1>4. CASE Head(seq) = m
  <2>1. 1 \in SitesOf(m, seq)
    BY <1>1, <1>4 DEF SitesOf
  <2>2. Cardinality(B) = Cardinality(SitesOf(m, seq)) - 1
    BY <1>2, <2>1, FS_RemoveElement
  <2> QED
    <3>1. OccursIn(m, seq) = Cardinality(SitesOf(m, seq)) /\ OccursIn(m, seq) \in Nat
      BY SitesCounted
    <3>2. OccursIn(m, Tail(seq)) = Cardinality(A)
      BY <1>1, SitesCounted
    <3> QED
      BY <1>3, <1>4, <2>2, <3>1, <3>2
<1>5. CASE Head(seq) # m
  <2>1. B = SitesOf(m, seq)
    BY <1>1, <1>5 DEF SitesOf
  <2>2. OccursIn(m, seq) = OccursIn(m, Tail(seq)) /\ OccursIn(m, seq) \in Nat
    BY <1>1, <1>3, <2>1, SitesCounted
  <2> QED
    BY <1>5, <2>2
<1> QED
  BY <1>4, <1>5

(* Where the zero request is in a unit's pipe, after a write and a read.     *)
LEMMA ZeroFollows ==
  ASSUME NEW q \in Seq(Req)
  PROVE  /\ NoZero(q) => ZeroLast(Append(q, NoReq)) /\ \A r \in Ioreq : NoZero(Append(q, r))
         /\ NoZero(q) /\ q # <<>> => NoZero(Tail(q)) /\ Head(q) \in Ioreq
         /\ ZeroLast(q) => \/ Head(q) = NoReq /\ Tail(q) = <<>>
                           \/ Head(q) \in Ioreq /\ ZeroLast(Tail(q))
         /\ NoZero(<<>>) /\ Append(q, NoReq) \in Seq(Req) /\ \A r \in Ioreq : Append(q, r) \in Seq(Req)
         /\ q # <<>> => Tail(q) \in Seq(Req) /\ Head(q) \in Req
<1>1. Len(q) \in Nat /\ \A i \in 1..Len(q) : q[i] \in Req
  OBVIOUS
<1>2. q # <<>> => /\ Len(q) > 0 /\ Head(q) = q[1] /\ Len(Tail(q)) = Len(q) - 1 /\ Tail(q) \in Seq(Req)
                  /\ \A i \in 1..(Len(q) - 1) : Tail(q)[i] = q[i + 1]
  OBVIOUS
<1>3. ASSUME NEW x \in Req
      PROVE  /\ Append(q, x) \in Seq(Req) /\ Len(Append(q, x)) = Len(q) + 1 /\ Append(q, x)[Len(q) + 1] = x
             /\ \A i \in 1..Len(q) : Append(q, x)[i] = q[i]
  OBVIOUS
<1>4. NoReq \in Req /\ Ioreq \subseteq Req /\ NoReq \notin Ioreq /\ \A x \in Req : x # NoReq => x \in Ioreq
  BY ScConstants DEF Req
<1>5. ASSUME NoZero(q) PROVE ZeroLast(Append(q, NoReq)) /\ \A r \in Ioreq : NoZero(Append(q, r))
  <2>1. ZeroLast(Append(q, NoReq))
    <3>1. Append(q, NoReq) # <<>>
      BY <1>1, <1>3, <1>4
    <3> QED
      BY <1>1, <1>3, <1>4, <1>5, <3>1 DEF ZeroLast, NoZero
  <2>2. ASSUME NEW r \in Ioreq PROVE NoZero(Append(q, r))
    BY <1>1, <1>3, <1>4, <1>5 DEF NoZero
  <2> QED
    BY <2>1, <2>2
<1>6. ASSUME NoZero(q), q # <<>> PROVE NoZero(Tail(q)) /\ Head(q) \in Ioreq
  BY <1>1, <1>2, <1>4, <1>6 DEF NoZero
<1>7. ASSUME ZeroLast(q)
      PROVE  \/ Head(q) = NoReq /\ Tail(q) = <<>>
             \/ Head(q) \in Ioreq /\ ZeroLast(Tail(q))
  <2>1. q # <<>> /\ q[Len(q)] = NoReq /\ \A i \in 1..(Len(q) - 1) : q[i] # NoReq
    BY <1>7 DEF ZeroLast
  <2>2. CASE Len(q) = 1
    <3>1. Tail(q) \in Seq(Req) /\ Len(Tail(q)) = 0
      BY <1>2, <2>1, <2>2
    <3>2. Tail(q) = <<>>
      BY <3>1, EmptySeq
    <3> QED
      BY <1>2, <2>1, <2>2, <3>2
  <2>3. CASE Len(q) > 1
    <3>1. Head(q) \in Ioreq
      BY <1>1, <1>2, <1>4, <2>1, <2>3
    <3>2. Tail(q) # <<>>
      <4>1. Tail(q) \in Seq(Req) /\ Len(Tail(q)) # 0
        BY <1>2, <2>1, <2>3
      <4> QED
        BY <4>1, EmptySeq
    <3>3. Tail(q)[Len(Tail(q))] = NoReq
      BY <1>1, <1>2, <2>1, <2>3
    <3>4. \A i \in 1..(Len(Tail(q)) - 1) : Tail(q)[i] # NoReq
      BY <1>1, <1>2, <2>1, <2>3
    <3> QED
      BY <3>1, <3>2, <3>3, <3>4 DEF ZeroLast
  <2> QED
    BY <1>1, <1>2, <2>1, <2>2, <2>3
<1>8. NoZero(<<>>)
  BY DEF NoZero
<1> QED
  BY <1>2, <1>3, <1>4, <1>5, <1>6, <1>7, <1>8

-----------------------------------------------------------------------------
(* A step of a unit: it has these fields, and the other units are as before. *)
UnitIs(u, c, t, q, b, s) ==
  /\ devst' \in [ScsiUnit -> DevState]
  /\ \A v \in ScsiUnit : v # u => devst'[v] = devst[v]
  /\ devst'[u].opencnt = c /\ devst'[u].table = t /\ devst'[u].requests = q
  /\ devst'[u].running = b /\ devst'[u].sync = s

(* Records of some sets stay in them when fields are set to members.         *)
LEMMA UnitOpensTyped ==
  ASSUME NEW A, NEW B, NEW C, NEW D, NEW E,
         NEW d \in [opencnt : A, table : B, requests : C, running : D, sync : E],
         NEW x \in A, NEW y \in C, NEW z \in E
  PROVE  [d EXCEPT !.opencnt = x, !.requests = y, !.sync = z]
           \in [opencnt : A, table : B, requests : C, running : D, sync : E]
OBVIOUS

(* The first to open it.                                                     *)
LEMMA UnitOpens ==
  ASSUME DeviceTypeOK, NEW u \in ScsiUnit, NEW x \in 0..Cardinality(Ioreq), NEW y \in Seq(Req), NEW z \in 0..1,
         devst' = [devst EXCEPT ![u].opencnt = x, ![u].requests = y, ![u].sync = z]
  PROVE  UnitIs(u, x, devst[u].table, y, devst[u].running, z)
<1>1. devst \in [ScsiUnit -> DevState] /\ devst[u] \in DevState
  BY ScTypesAre, UnitFacts
<1>2. devst'[u] = [devst[u] EXCEPT !.opencnt = x, !.requests = y, !.sync = z]
      /\ \A v \in ScsiUnit : v # u => devst'[v] = devst[v]
  BY <1>1
<1>3. [devst[u] EXCEPT !.opencnt = x, !.requests = y, !.sync = z] \in DevState
  BY <1>1, UnitOpensTyped DEF DevState
<1>4. /\ devst'[u].opencnt = x /\ devst'[u].table = devst[u].table /\ devst'[u].requests = y
      /\ devst'[u].running = devst[u].running /\ devst'[u].sync = z
  BY <1>1, <1>2 DEF DevState
<1>5. devst' \in [ScsiUnit -> DevState]
  BY <1>1, <1>2, <1>3
<1> QED
  BY <1>2, <1>4, <1>5, Zenon DEF UnitIs

(* For UnitPosted.                                                           *)
LEMMA UnitPostedTyped ==
  ASSUME NEW A, NEW B, NEW C, NEW D, NEW E,
         NEW d \in [opencnt : A, table : B, requests : C, running : D, sync : E],
         NEW x \in E
  PROVE  [d EXCEPT !.sync = x] \in [opencnt : A, table : B, requests : C, running : D, sync : E]
OBVIOUS

(* A post or wait of sync_sem.                                               *)
LEMMA UnitPosted ==
  ASSUME DeviceTypeOK, NEW u \in ScsiUnit, NEW x \in 0..1,
         devst' = [devst EXCEPT ![u].sync = x]
  PROVE  UnitIs(u, devst[u].opencnt, devst[u].table, devst[u].requests, devst[u].running, x)
<1>1. devst \in [ScsiUnit -> DevState] /\ devst[u] \in DevState
  BY ScTypesAre, UnitFacts
<1>2. devst'[u] = [devst[u] EXCEPT !.sync = x] /\ \A v \in ScsiUnit : v # u => devst'[v] = devst[v]
  BY <1>1
<1>3. [devst[u] EXCEPT !.sync = x] \in DevState
  BY <1>1, UnitPostedTyped DEF DevState
<1>4. /\ devst'[u].opencnt = devst[u].opencnt /\ devst'[u].table = devst[u].table
      /\ devst'[u].requests = devst[u].requests
      /\ devst'[u].running = devst[u].running /\ devst'[u].sync = x
  BY <1>1, <1>2 DEF DevState
<1>5. devst' \in [ScsiUnit -> DevState]
  BY <1>1, <1>2, <1>3
<1> QED
  BY <1>2, <1>4, <1>5, Zenon DEF UnitIs

(* For UnitCounted.                                                          *)
LEMMA UnitCountedTyped ==
  ASSUME NEW A, NEW B, NEW C, NEW D, NEW E,
         NEW d \in [opencnt : A, table : B, requests : C, running : D, sync : E],
         NEW x \in A
  PROVE  [d EXCEPT !.opencnt = x] \in [opencnt : A, table : B, requests : C, running : D, sync : E]
OBVIOUS

(* One more opens it.                                                        *)
LEMMA UnitCounted ==
  ASSUME DeviceTypeOK, NEW u \in ScsiUnit, NEW x \in 0..Cardinality(Ioreq),
         devst' = [devst EXCEPT ![u].opencnt = x]
  PROVE  UnitIs(u, x, devst[u].table, devst[u].requests, devst[u].running, devst[u].sync)
<1>1. devst \in [ScsiUnit -> DevState] /\ devst[u] \in DevState
  BY ScTypesAre, UnitFacts
<1>2. devst'[u] = [devst[u] EXCEPT !.opencnt = x] /\ \A v \in ScsiUnit : v # u => devst'[v] = devst[v]
  BY <1>1
<1>3. [devst[u] EXCEPT !.opencnt = x] \in DevState
  BY <1>1, UnitCountedTyped DEF DevState
<1>4. /\ devst'[u].opencnt = x /\ devst'[u].table = devst[u].table /\ devst'[u].requests = devst[u].requests
      /\ devst'[u].running = devst[u].running /\ devst'[u].sync = devst[u].sync
  BY <1>1, <1>2 DEF DevState
<1>5. devst' \in [ScsiUnit -> DevState]
  BY <1>1, <1>2, <1>3
<1> QED
  BY <1>2, <1>4, <1>5, Zenon DEF UnitIs

(* For UnitCloses.                                                           *)
LEMMA UnitClosesTyped ==
  ASSUME NEW A, NEW B, NEW C, NEW D, NEW E,
         NEW d \in [opencnt : A, table : B, requests : C, running : D, sync : E],
         NEW x \in A, NEW y \in C
  PROVE  [d EXCEPT !.opencnt = x, !.requests = y]
           \in [opencnt : A, table : B, requests : C, running : D, sync : E]
OBVIOUS

(* One closes it, perhaps the last.                                          *)
LEMMA UnitCloses ==
  ASSUME DeviceTypeOK, NEW u \in ScsiUnit, NEW x \in 0..Cardinality(Ioreq), NEW y \in Seq(Req),
         devst' = [devst EXCEPT ![u].opencnt = x, ![u].requests = y]
  PROVE  UnitIs(u, x, devst[u].table, y, devst[u].running, devst[u].sync)
<1>1. devst \in [ScsiUnit -> DevState] /\ devst[u] \in DevState
  BY ScTypesAre, UnitFacts
<1>2. devst'[u] = [devst[u] EXCEPT !.opencnt = x, !.requests = y]
      /\ \A v \in ScsiUnit : v # u => devst'[v] = devst[v]
  BY <1>1
<1>3. [devst[u] EXCEPT !.opencnt = x, !.requests = y] \in DevState
  BY <1>1, UnitClosesTyped DEF DevState
<1>4. /\ devst'[u].opencnt = x /\ devst'[u].table = devst[u].table /\ devst'[u].requests = y
      /\ devst'[u].running = devst[u].running /\ devst'[u].sync = devst[u].sync
  BY <1>1, <1>2 DEF DevState
<1>5. devst' \in [ScsiUnit -> DevState]
  BY <1>1, <1>2, <1>3
<1> QED
  BY <1>2, <1>4, <1>5, Zenon DEF UnitIs

(* For UnitBegins.                                                           *)
LEMMA UnitBeginsTyped ==
  ASSUME NEW A, NEW B, NEW C, NEW D, NEW E,
         NEW d \in [opencnt : A, table : B, requests : C, running : D, sync : E],
         NEW x \in B, NEW y \in C
  PROVE  [d EXCEPT !.table = x, !.requests = y]
           \in [opencnt : A, table : B, requests : C, running : D, sync : E]
OBVIOUS

(* A request is sent to it.                                                  *)
LEMMA UnitBegins ==
  ASSUME DeviceTypeOK, NEW u \in ScsiUnit, NEW x \in Table, NEW y \in Seq(Req),
         devst' = [devst EXCEPT ![u].table = x, ![u].requests = y]
  PROVE  UnitIs(u, devst[u].opencnt, x, y, devst[u].running, devst[u].sync)
<1>1. devst \in [ScsiUnit -> DevState] /\ devst[u] \in DevState
  BY ScTypesAre, UnitFacts
<1>2. devst'[u] = [devst[u] EXCEPT !.table = x, !.requests = y]
      /\ \A v \in ScsiUnit : v # u => devst'[v] = devst[v]
  BY <1>1
<1>3. [devst[u] EXCEPT !.table = x, !.requests = y] \in DevState
  BY <1>1, UnitBeginsTyped DEF DevState
<1>4. /\ devst'[u].opencnt = devst[u].opencnt /\ devst'[u].table = x /\ devst'[u].requests = y
      /\ devst'[u].running = devst[u].running /\ devst'[u].sync = devst[u].sync
  BY <1>1, <1>2 DEF DevState
<1>5. devst' \in [ScsiUnit -> DevState]
  BY <1>1, <1>2, <1>3
<1> QED
  BY <1>2, <1>4, <1>5, Zenon DEF UnitIs

(* For TableSet.                                                             *)
LEMMA TableSetTyped ==
  ASSUME NEW A, NEW B, NEW C, NEW D, NEW E,
         NEW d \in [opencnt : A, table : B, requests : C, running : D, sync : E],
         NEW x \in B
  PROVE  [d EXCEPT !.table = x] \in [opencnt : A, table : B, requests : C, running : D, sync : E]
OBVIOUS

(* Its table changes.                                                        *)
LEMMA TableSet ==
  ASSUME DeviceTypeOK, NEW u \in ScsiUnit, NEW x \in Table,
         devst' = [devst EXCEPT ![u].table = x]
  PROVE  UnitIs(u, devst[u].opencnt, x, devst[u].requests, devst[u].running, devst[u].sync)
<1>1. devst \in [ScsiUnit -> DevState] /\ devst[u] \in DevState
  BY ScTypesAre, UnitFacts
<1>2. devst'[u] = [devst[u] EXCEPT !.table = x] /\ \A v \in ScsiUnit : v # u => devst'[v] = devst[v]
  BY <1>1
<1>3. [devst[u] EXCEPT !.table = x] \in DevState
  BY <1>1, TableSetTyped DEF DevState
<1>4. /\ devst'[u].opencnt = devst[u].opencnt /\ devst'[u].table = x /\ devst'[u].requests = devst[u].requests
      /\ devst'[u].running = devst[u].running /\ devst'[u].sync = devst[u].sync
  BY <1>1, <1>2 DEF DevState
<1>5. devst' \in [ScsiUnit -> DevState]
  BY <1>1, <1>2, <1>3
<1> QED
  BY <1>2, <1>4, <1>5, Zenon DEF UnitIs

(* For UnitStarts.                                                           *)
LEMMA UnitStartsTyped ==
  ASSUME NEW A, NEW B, NEW C, NEW D, NEW E,
         NEW d \in [opencnt : A, table : B, requests : C, running : D, sync : E],
         NEW x \in D, NEW y \in E
  PROVE  [d EXCEPT !.running = x, !.sync = y]
           \in [opencnt : A, table : B, requests : C, running : D, sync : E]
OBVIOUS

(* Its thread starts.                                                        *)
LEMMA UnitStarts ==
  ASSUME DeviceTypeOK, NEW u \in ScsiUnit, NEW x \in BOOLEAN, NEW y \in 0..1,
         devst' = [devst EXCEPT ![u].running = x, ![u].sync = y]
  PROVE  UnitIs(u, devst[u].opencnt, devst[u].table, devst[u].requests, x, y)
<1>1. devst \in [ScsiUnit -> DevState] /\ devst[u] \in DevState
  BY ScTypesAre, UnitFacts
<1>2. devst'[u] = [devst[u] EXCEPT !.running = x, !.sync = y]
      /\ \A v \in ScsiUnit : v # u => devst'[v] = devst[v]
  BY <1>1
<1>3. [devst[u] EXCEPT !.running = x, !.sync = y] \in DevState
  BY <1>1, UnitStartsTyped DEF DevState
<1>4. /\ devst'[u].opencnt = devst[u].opencnt /\ devst'[u].table = devst[u].table
      /\ devst'[u].requests = devst[u].requests
      /\ devst'[u].running = x /\ devst'[u].sync = y
  BY <1>1, <1>2 DEF DevState
<1>5. devst' \in [ScsiUnit -> DevState]
  BY <1>1, <1>2, <1>3
<1> QED
  BY <1>2, <1>4, <1>5, Zenon DEF UnitIs

(* For PipeSet.                                                              *)
LEMMA PipeSetTyped ==
  ASSUME NEW A, NEW B, NEW C, NEW D, NEW E,
         NEW d \in [opencnt : A, table : B, requests : C, running : D, sync : E],
         NEW x \in C
  PROVE  [d EXCEPT !.requests = x] \in [opencnt : A, table : B, requests : C, running : D, sync : E]
OBVIOUS

(* Its pipe is written or read.                                              *)
LEMMA PipeSet ==
  ASSUME DeviceTypeOK, NEW u \in ScsiUnit, NEW x \in Seq(Req),
         devst' = [devst EXCEPT ![u].requests = x]
  PROVE  UnitIs(u, devst[u].opencnt, devst[u].table, x, devst[u].running, devst[u].sync)
<1>1. devst \in [ScsiUnit -> DevState] /\ devst[u] \in DevState
  BY ScTypesAre, UnitFacts
<1>2. devst'[u] = [devst[u] EXCEPT !.requests = x] /\ \A v \in ScsiUnit : v # u => devst'[v] = devst[v]
  BY <1>1
<1>3. [devst[u] EXCEPT !.requests = x] \in DevState
  BY <1>1, PipeSetTyped DEF DevState
<1>4. /\ devst'[u].opencnt = devst[u].opencnt /\ devst'[u].table = devst[u].table /\ devst'[u].requests = x
      /\ devst'[u].running = devst[u].running /\ devst'[u].sync = devst[u].sync
  BY <1>1, <1>2 DEF DevState
<1>5. devst' \in [ScsiUnit -> DevState]
  BY <1>1, <1>2, <1>3
<1> QED
  BY <1>2, <1>4, <1>5, Zenon DEF UnitIs

(* For UnitStops.                                                            *)
LEMMA UnitStopsTyped ==
  ASSUME NEW A, NEW B, NEW C, NEW D, NEW E,
         NEW d \in [opencnt : A, table : B, requests : C, running : D, sync : E],
         NEW x \in D
  PROVE  [d EXCEPT !.running = x] \in [opencnt : A, table : B, requests : C, running : D, sync : E]
OBVIOUS

(* Its thread stops.                                                         *)
LEMMA UnitStops ==
  ASSUME DeviceTypeOK, NEW u \in ScsiUnit, NEW x \in BOOLEAN,
         devst' = [devst EXCEPT ![u].running = x]
  PROVE  UnitIs(u, devst[u].opencnt, devst[u].table, devst[u].requests, x, devst[u].sync)
<1>1. devst \in [ScsiUnit -> DevState] /\ devst[u] \in DevState
  BY ScTypesAre, UnitFacts
<1>2. devst'[u] = [devst[u] EXCEPT !.running = x] /\ \A v \in ScsiUnit : v # u => devst'[v] = devst[v]
  BY <1>1
<1>3. [devst[u] EXCEPT !.running = x] \in DevState
  BY <1>1, UnitStopsTyped DEF DevState
<1>4. /\ devst'[u].opencnt = devst[u].opencnt /\ devst'[u].table = devst[u].table
      /\ devst'[u].requests = devst[u].requests
      /\ devst'[u].running = x /\ devst'[u].sync = devst[u].sync
  BY <1>1, <1>2 DEF DevState
<1>5. devst' \in [ScsiUnit -> DevState]
  BY <1>1, <1>2, <1>3
<1> QED
  BY <1>2, <1>4, <1>5, Zenon DEF UnitIs

(* A unit cleared.                                                           *)
LEMMA UnitCleared ==
  ASSUME DeviceTypeOK, NEW u \in ScsiUnit, devst' = [devst EXCEPT ![u] = Zeroed]
  PROVE  UnitIs(u, 0, Zeroed.table, <<>>, FALSE, 0) /\ devst'[u] = Zeroed
<1>1. devst \in [ScsiUnit -> DevState]
  BY ScTypesAre
<1>2. Zeroed \in DevState
  <2>1. [i \in Place |-> Empty] \in Table /\ <<>> \in Seq(Req) /\ 0 \in 0..Cardinality(Ioreq)
    BY ScConstants DEF Table, Empty, Req
  <2> QED
    BY <2>1 DEF Zeroed, DevState
<1>3. devst'[u] = Zeroed /\ \A v \in ScsiUnit : v # u => devst'[v] = devst[v]
  BY <1>1
<1>4. devst' \in [ScsiUnit -> DevState]
  BY <1>1, <1>2
<1>5. Zeroed.opencnt = 0 /\ Zeroed.requests = <<>> /\ Zeroed.running = FALSE /\ Zeroed.sync = 0
  BY DEF Zeroed
<1> QED
  BY <1>3, <1>4, <1>5, Zenon DEF UnitIs

(* A step of a unit's thread, and of no other.                               *)
ThreadIs(u, pc, req) ==
  /\ devThread' \in [ScsiUnit -> ThreadState]
  /\ \A v \in ScsiUnit : v # u => devThread'[v] = devThread[v]
  /\ devThread'[u].pc = pc /\ devThread'[u].req = req

(* It goes to another place, with the request it has.                        *)
LEMMA UnitThreadGoes ==
  ASSUME DeviceTypeOK, NEW u \in ScsiUnit, NEW pc \in ThreadPC, GoesTo(u, pc)
  PROVE  ThreadIs(u, pc, devThread[u].req)
<1>1. devThread \in [ScsiUnit -> ThreadState] /\ devThread[u] \in ThreadState
  BY ScTypesAre, UnitFacts
<1>2. devThread'[u] = [devThread[u] EXCEPT !.pc = pc]
      /\ \A v \in ScsiUnit : v # u => devThread'[v] = devThread[v]
  BY <1>1 DEF GoesTo
<1>3. devThread'[u] \in ThreadState /\ devThread'[u].pc = pc /\ devThread'[u].req = devThread[u].req
  BY <1>1, <1>2 DEF ThreadState
<1>4. devThread' \in [ScsiUnit -> ThreadState]
  BY <1>1, <1>3 DEF GoesTo
<1> QED
  BY <1>2, <1>3, <1>4 DEF ThreadIs

(* It goes there with another request, or none.                              *)
LEMMA ThreadSet ==
  ASSUME DeviceTypeOK, NEW u \in ScsiUnit, NEW t \in ThreadState, devThread' = [devThread EXCEPT ![u] = t]
  PROVE  ThreadIs(u, t.pc, t.req)
BY ScTypesAre DEF ThreadIs

(* What threads may be.                                                      *)
LEMMA ThreadStates ==
  /\ NoThread \in ThreadState /\ NoThread.pc = "off" /\ NoThread.req = NoReq
  /\ \A pc \in ThreadPC : /\ [NoThread EXCEPT !.pc = pc] \in ThreadState
                          /\ [NoThread EXCEPT !.pc = pc].pc = pc /\ [NoThread EXCEPT !.pc = pc].req = NoReq
  /\ \A pc \in ThreadPC, r \in Req : [pc |-> pc, req |-> r] \in ThreadState
BY DEF NoThread, ThreadState, ThreadPC, Req

(* A step of a request: it has these fields, the others are as before.       *)
RequestIs(r, state, unit, handle) ==
  /\ ioreq' \in [Ioreq -> Request]
  /\ \A s \in Ioreq : s # r => ioreq'[s] = ioreq[s]
  /\ ioreq'[r].state = state /\ ioreq'[r].unit = unit /\ ioreq'[r].handle = handle

(* A record of some sets stays in them when fields are set to members.       *)
LEMMA RequestTyped ==
  ASSUME NEW A, NEW B, NEW C, NEW D, NEW d \in [state : A, unit : B, handle : C, command : D],
         NEW x \in A, NEW y \in B, NEW z \in C
  PROVE  LET e == [d EXCEPT !.state = x, !.unit = y, !.handle = z]
         IN  e \in [state : A, unit : B, handle : C, command : D] /\ e.state = x /\ e.unit = y /\ e.handle = z
OBVIOUS

(* Its program opens the unit.                                               *)
LEMMA RequestOpens ==
  ASSUME DeviceTypeOK, NEW r \in Ioreq, NEW u \in ScsiUnit, NEW p \in Handle,
         ioreq' = [ioreq EXCEPT ![r] = [Closed EXCEPT !.state = "open", !.unit = u, !.handle = p]]
  PROVE  RequestIs(r, "open", u, p)
<1> DEFINE e == [Closed EXCEPT !.state = "open", !.unit = u, !.handle = p]
<1>1. Closed \in Request /\ "open" \in {"closed", "open", "sent", "held"}
  BY ScConstants DEF Closed, Request
<1>2. e \in Request /\ e.state = "open" /\ e.unit = u /\ e.handle = p
  BY <1>1, RequestTyped DEF Request
<1> HIDE DEF e
<1>3. ioreq' = [ioreq EXCEPT ![r] = e]
  BY DEF e
<1> QED
  BY <1>2, <1>3, ScTypesAre DEF RequestIs

(* Its program closes the unit.                                              *)
LEMMA RequestCloses ==
  ASSUME DeviceTypeOK, NEW r \in Ioreq, ioreq' = [ioreq EXCEPT ![r] = Closed]
  PROVE  RequestIs(r, "closed", 0, 0)
<1>1. Closed \in Request /\ Closed.state = "closed" /\ Closed.unit = 0 /\ Closed.handle = 0
  BY ScConstants DEF Closed, Request
<1> QED
  BY <1>1, ScTypesAre DEF RequestIs

(* It is sent, with a command.                                               *)
LEMMA RequestSent ==
  ASSUME DeviceTypeOK, NEW r \in Ioreq, NEW c \in {"io", "add", "rem"},
         ioreq' = [ioreq EXCEPT ![r].state = "sent", ![r].command = c]
  PROVE  RequestIs(r, "sent", ioreq[r].unit, ioreq[r].handle)
<1>1. ioreq \in [Ioreq -> Request] /\ ioreq[r] \in Request
  BY ScTypesAre
<1>2. ioreq'[r] = [ioreq[r] EXCEPT !.state = "sent", !.command = c]
      /\ \A s \in Ioreq : s # r => ioreq'[s] = ioreq[s]
  BY <1>1
<1>3. ioreq'[r] \in Request /\ ioreq'[r].state = "sent" /\ ioreq'[r].unit = ioreq[r].unit
      /\ ioreq'[r].handle = ioreq[r].handle
  BY <1>1, <1>2 DEF Request
<1>4. ioreq' \in [Ioreq -> Request]
  BY <1>1, <1>2, <1>3
<1> QED
  BY <1>2, <1>3, <1>4 DEF RequestIs

(* It is held, or its program's again.                                       *)
LEMMA RequestSet ==
  ASSUME DeviceTypeOK, NEW r \in Ioreq, NEW s \in {"closed", "open", "sent", "held"},
         ioreq' = [ioreq EXCEPT ![r].state = s]
  PROVE  RequestIs(r, s, ioreq[r].unit, ioreq[r].handle)
<1>1. ioreq \in [Ioreq -> Request] /\ ioreq[r] \in Request
  BY ScTypesAre
<1>2. ioreq'[r] = [ioreq[r] EXCEPT !.state = s] /\ \A x \in Ioreq : x # r => ioreq'[x] = ioreq[x]
  BY <1>1
<1>3. ioreq'[r] \in Request /\ ioreq'[r].state = s /\ ioreq'[r].unit = ioreq[r].unit
      /\ ioreq'[r].handle = ioreq[r].handle
  BY <1>1, <1>2 DEF Request
<1>4. ioreq' \in [Ioreq -> Request]
  BY <1>1, <1>2, <1>3
<1> QED
  BY <1>2, <1>3, <1>4 DEF RequestIs

-----------------------------------------------------------------------------
(* A unit of which nothing changes goes on as it did.                        *)
LEMMA LifeGoesOn ==
  ASSUME LifeInv, NEW v \in ScsiUnit, devst'[v] = devst[v], devThread'[v] = devThread[v],
         OpenedAt(v)' <=> OpenedAt(v), StoppedAt(v)' <=> StoppedAt(v)
  PROVE  Life(v)'
<1>1. Life(v)
  BY DEF LifeInv
<1>2. Off(v)' <=> Off(v)
  BY DEF Off
<1>3. Busy(v)' <=> Busy(v)
  BY DEF Busy
<1>4. (Starting(v)' <=> Starting(v)) /\ (Serving(v)' <=> Serving(v)) /\ (Ending(v)' <=> Ending(v))
  BY <1>3 DEF Starting, Serving, Ending
<1> QED
  BY <1>1, <1>2, <1>4 DEF Life

(* A step of a unit's thread, which is there, changes neither who has it open*)
(* nor where the emulator thread is.                                         *)
SameOpens ==
  \A r \in Ioreq :
    /\ ioreq'[r].unit = ioreq[r].unit /\ ioreq'[r].handle = ioreq[r].handle
    /\ ioreq'[r].state = "closed" <=> ioreq[r].state = "closed"

(* When nobody opens or closes, units are open as before.                    *)
LEMMA OpensSame ==
  ASSUME SameOpens
  PROVE  /\ \A u \in ScsiUnit : OpenAt(u)' = OpenAt(u)
         /\ HandlesAreUnits /\ pdevst' = pdevst => HandlesAreUnits'
<1>1. \A u \in ScsiUnit : OpenAt(u)' = OpenAt(u)
  BY DEF OpenAt, SameOpens
<1>2. ASSUME HandlesAreUnits, pdevst' = pdevst PROVE HandlesAreUnits'
  BY <1>1, <1>2 DEF HandlesAreUnits, SameOpens, OpenAt
<1> QED
  BY <1>1, <1>2

(* Then handles are in use as before.                                        *)
LEMMA HandlesSame ==
  ASSUME DeviceTypeOK, HandleInv, SameOpens, pdevst' = pdevst
  PROVE  HandleInv'
<1>1. \A p \in Handle : pdevst[p].unit \in ScsiUnit
  BY ScTypesAre DEF HandleState
<1>2. \A p \in Handle : OpenAt(pdevst[p].unit)' = OpenAt(pdevst[p].unit)
  BY <1>1, OpensSame
<1> QED
  BY <1>1, <1>2, OpensSame DEF HandleInv

(* A step of a thread that is there leaves opens, handles and the exit as    *)
(* they are.                                                                 *)
LEMMA UnitThreadWorks ==
  ASSUME ScInv, NEW u \in ScsiUnit, devThread[u].pc \notin {"posted", "closing", "off"}, SameOpens, Life(u)',
         \A v \in ScsiUnit : v # u => devst'[v] = devst[v] /\ devThread'[v] = devThread[v],
         devst'[u].opencnt = devst[u].opencnt, machine' = machine, pdevst' = pdevst, hostOpen' = hostOpen
  PROVE  LifeInv' /\ ExitInv' /\ CountInv' /\ HandleInv'
<1>1. \A v \in ScsiUnit : v # u => Life(v)'
  BY LifeGoesOn DEF ScInv, OpenedAt, StoppedAt
<1>2. LifeInv'
  BY <1>1 DEF LifeInv
<1>3. \A v \in ScsiUnit : devst'[v].opencnt = devst[v].opencnt
  OBVIOUS
<1>4. ExitInv'
  <2> SUFFICES ASSUME Exiting PROVE ExitInv'
    BY DEF ExitInv, Exiting
  <2>1. ExitInv /\ machine.unit \in ScsiUnit
    BY MachineFacts DEF ScInv
  <2>2. devst[u].opencnt # 0
    BY <2>1 DEF ExitInv
  <2>3. \A v \in ScsiUnit : Cleared(v)' => devst[v] = Zeroed /\ v # u
    <3>1. Zeroed.opencnt = 0
      BY DEF Zeroed
    <3> QED
      BY <2>1, <2>2, <3>1 DEF ExitInv, Cleared
  <2> QED
    BY <2>1, <2>2, <2>3, <1>3 DEF ExitInv
<1>5. CountInv'
  BY <1>3, OpensSame DEF ScInv, CountInv, Cleared
<1> QED
  BY <1>2, <1>4, <1>5, HandlesSame DEF ScInv

(* Nothing changes of where the requests are.                                *)
SamePlaces ==
  /\ ioreq' = ioreq
  /\ \A r \in Ioreq, u \in ScsiUnit :
       /\ OccursIn(r, devst'[u].requests) = OccursIn(r, devst[u].requests)
       /\ HasIt(u, r)' <=> HasIt(u, r)

(* Requests stay with the unit they are open on.                             *)
LEMMA HomeSame ==
  ASSUME HomeInv, SamePlaces
  PROVE  HomeInv'
BY DEF HomeInv, SamePlaces

(* They stay on their ways.                                                  *)
LEMMA RequestsSame ==
  ASSUME DeviceTypeOK, RequestInv, SamePlaces, replies' = replies, Exiting => Exiting',
         \A u \in ScsiUnit : devst'[u].table = devst[u].table,
         \A r \in Ioreq, u \in ScsiUnit : AtReply(u, r)' => AtReply(u, r),
         machine' = machine \/ machine'.pc # "abort"
  PROVE  RequestInv'
<1> SUFFICES ASSUME ~Exiting' PROVE WayInv' /\ TableInv' /\ HeldInv' /\ AbortInv'
  BY DEF RequestInv
<1>1. WayInv /\ TableInv /\ HeldInv /\ AbortInv /\ \A r \in Ioreq : ioreq[r].unit \in ScsiUnit
  BY RequestFacts DEF RequestInv
<1>2. WayInv'
  BY <1>1 DEF WayInv, SamePlaces
<1>3. TableInv'
  BY <1>1 DEF TableInv, Entry, SamePlaces
<1>4. HeldInv'
  BY <1>1 DEF HeldInv, SamePlaces, PlacesOf
<1>5. AbortInv'
  BY <1>1 DEF AbortInv, SamePlaces
<1> QED
  BY <1>2, <1>3, <1>4, <1>5

-----------------------------------------------------------------------------
(* What the place of a unit's thread says of its life.                       *)
LEMMA LifeByPlace ==
  ASSUME ScInv, NEW u \in ScsiUnit
  PROVE  /\ devThread[u].pc = "start" => Starting(u) /\ OpenedAt(u)
         /\ devThread[u].pc \in {"lock", "io", "release", "reply", "unlock"} =>
              \/ Busy(u) /\ (Serving(u) \/ Ending(u))
              \/ devThread[u].pc = "lock" /\ devThread[u].req = NoReq /\ Ending(u)
         /\ devThread[u].pc = "read" => devThread[u].req = NoReq
         /\ devThread[u].pc = "read" /\ devst[u].requests # <<>> => Serving(u) \/ Ending(u)
         /\ devThread[u].pc \in {"stop", "stopped"} => Ending(u)
         /\ devThread[u].pc \in {"posted", "closing"} => Off(u)
         /\ Off(u) \/ Starting(u) \/ Serving(u) \/ Ending(u)
<1>1. devst[u].opencnt \in Nat /\ Life(u)
  BY UnitFacts DEF ScInv, LifeInv
<1>2. Off(u) \/ Ending(u) \/ (Starting(u) /\ OpenedAt(u)) \/ Serving(u)
  BY <1>1 DEF Life
<1>3. CASE Off(u)
  BY <1>3 DEF Off
<1>4. CASE Ending(u)
  BY <1>4 DEF Ending, Busy, Serves
<1>5. CASE Starting(u) /\ OpenedAt(u)
  BY <1>5 DEF Starting
<1>6. CASE Serving(u)
  BY <1>6 DEF Serving, Busy, Serves
<1> QED
  BY <1>2, <1>3, <1>4, <1>5, <1>6

(* The thread starts, and posts sync_sem for the open that waits.            *)
LEMMA StartsKeeps ==
  ASSUME ScInv, NEW u \in ScsiUnit, DevThreadStarts(u)
  PROVE  ScInv'
<1>1. DeviceTypeOK /\ Starting(u) /\ devst[u].sync = 0 /\ OpenedAt(u) /\ devThread[u].req = NoReq
  BY LifeByPlace DEF ScInv, DevThreadStarts, ThreadAt, Starting
<1>2. UnitIs(u, devst[u].opencnt, devst[u].table, devst[u].requests, TRUE, 1)
  <2>1. devst' = [devst EXCEPT ![u].running = TRUE, ![u].sync = 1]
    BY <1>1 DEF DevThreadStarts
  <2>2. TRUE \in BOOLEAN /\ 1 \in 0..1
    OBVIOUS
  <2> QED
    BY <1>1, <2>1, <2>2, UnitStarts, Zenon
<1>3. ThreadIs(u, "read", NoReq)
  BY <1>1, UnitThreadGoes DEF DevThreadStarts, ThreadPC
<1>4. DeviceTypeOK'
  BY <1>1, <1>2, <1>3, ScTypesAre, ScTypesAreNext DEF DevThreadStarts, UnitIs, ThreadIs
<1>5. Life(u)'
  <2>1. devst'[u].opencnt = 1 /\ devst'[u].requests = <<>> /\ devst'[u].running /\ devst'[u].sync = 1
    BY <1>1, <1>2 DEF UnitIs, Starting
  <2>2. Starting(u)'
    BY <1>3, <2>1 DEF ThreadIs, Starting
  <2>3. OpenedAt(u)' /\ ~StoppedAt(u)'
    BY <1>1 DEF DevThreadStarts, OpenedAt, StoppedAt
  <2> QED
    BY <2>1, <2>2, <2>3 DEF Life
<1>6. LifeInv' /\ ExitInv' /\ CountInv' /\ HandleInv'
  BY <1>2, <1>3, <1>5, UnitThreadWorks DEF DevThreadStarts, ThreadAt, UnitIs, ThreadIs, SameOpens
<1>7. SamePlaces
  BY <1>1, <1>2, <1>3 DEF SamePlaces, DevThreadStarts, ThreadAt, UnitIs, ThreadIs, HasIt
<1>8. HomeInv'
  BY <1>7, HomeSame DEF ScInv
<1>9. RequestInv'
  <2>1. \A v \in ScsiUnit : devst'[v].table = devst[v].table
    BY <1>2 DEF UnitIs
  <2>2. \A r \in Ioreq, v \in ScsiUnit : AtReply(v, r)' => AtReply(v, r)
    BY <1>3 DEF ThreadIs, AtReply, ThreadAt
  <2>3. replies' = replies /\ machine' = machine
    BY DEF DevThreadStarts
  <2> QED
    BY <1>7, <2>1, <2>2, <2>3, RequestsSame DEF ScInv, Exiting
<1> QED
  BY <1>4, <1>6, <1>8, <1>9 DEF ScInv

(* It takes change_sem, with a request or to stop.                           *)
LEMMA LocksKeeps ==
  ASSUME ScInv, NEW u \in ScsiUnit, Locks(u)
  PROVE  ScInv'
<1> DEFINE pc == IF devThread[u].req = NoReq THEN "stop" ELSE "io"
<1>1. DeviceTypeOK /\ devThread[u].pc = "lock" /\ UNCHANGED <<ioreq, devst, pdevst, hostOpen, replies, machine,
                                                          scsiResets, commands>>
  BY DEF ScInv, Locks, ThreadAt
<1>2. ThreadIs(u, pc, devThread[u].req)
  BY <1>1, UnitThreadGoes DEF Locks, ThreadPC
<1>3. DeviceTypeOK'
  <2>1. changeSem' \in 0..Nobody
    BY ScConstants DEF Locks, Nobody
  <2> QED
    BY <1>1, <1>2, <2>1, ScTypesAre, ScTypesAreNext DEF ThreadIs
<1>4. Life(u)'
  <2>1. Life(u)
    BY DEF ScInv, LifeInv
  <2>2. (OpenedAt(u)' <=> OpenedAt(u)) /\ (StoppedAt(u)' <=> StoppedAt(u))
    BY <1>1 DEF OpenedAt, StoppedAt
  <2>3. CASE devThread[u].req # NoReq
    <3>1. Busy(u) /\ Busy(u)'
      BY <1>1, <1>2, <2>3, LifeByPlace DEF ThreadIs, Busy, Serves
    <3>2. ~Off(u) /\ ~Starting(u) /\ (Serving(u) => Serving(u)') /\ (Ending(u) => Ending(u)')
      BY <1>1, <1>2, <2>3, <3>1 DEF ThreadIs, Off, Starting, Serving, Ending
    <3> QED
      BY <1>1, <2>1, <2>2, <3>2 DEF Life
  <2>4. CASE devThread[u].req = NoReq
    <3>1. Ending(u) /\ ~Busy(u)
      BY <1>1, <2>4, LifeByPlace DEF Busy
    <3>2. Ending(u)' /\ ~Off(u) /\ ~Starting(u) /\ ~Serving(u)
      BY <1>1, <1>2, <2>4, <3>1 DEF ThreadIs, Off, Starting, Serving, Ending
    <3> QED
      BY <1>1, <2>1, <2>2, <3>2 DEF Life
  <2> QED
    BY <2>3, <2>4
<1>5. LifeInv' /\ ExitInv' /\ CountInv' /\ HandleInv'
  BY <1>1, <1>2, <1>4, UnitThreadWorks DEF ThreadIs, SameOpens
<1>6. SamePlaces /\ \A r \in Ioreq, v \in ScsiUnit : AtReply(v, r)' => AtReply(v, r)
  BY <1>1, <1>2 DEF SamePlaces, ThreadIs, HasIt, AtReply, ThreadAt
<1> QED
  BY <1>1, <1>3, <1>5, <1>6, HomeSame, RequestsSame DEF ScInv, Exiting

(* It gives change_sem back.                                                 *)
LEMMA UnlocksKeeps ==
  ASSUME ScInv, NEW u \in ScsiUnit, Unlocks(u)
  PROVE  ScInv'
<1>1. DeviceTypeOK /\ devThread[u].pc = "unlock" /\ UNCHANGED <<ioreq, devst, pdevst, hostOpen, replies, machine,
                                                            scsiResets, commands>>
  BY DEF ScInv, Unlocks, ThreadAt
<1>2. ThreadIs(u, "read", NoReq)
  <2>1. "read" \in ThreadPC
    BY DEF ThreadPC
  <2> QED
    BY <1>1, <2>1, ThreadSet, ThreadStates DEF Unlocks
<1>3. DeviceTypeOK'
  <2>1. changeSem' \in 0..Nobody
    BY ScConstants DEF Unlocks, Nobody
  <2> QED
    BY <1>1, <1>2, <2>1, ScTypesAre, ScTypesAreNext DEF ThreadIs
<1>4. Life(u)'
  <2>1. Life(u)
    BY DEF ScInv, LifeInv
  <2>2. (OpenedAt(u)' <=> OpenedAt(u)) /\ (StoppedAt(u)' <=> StoppedAt(u))
    BY <1>1 DEF OpenedAt, StoppedAt
  <2>3. Busy(u) /\ Busy(u)'
    BY <1>1, <1>2, LifeByPlace DEF ThreadIs, Busy, Serves
  <2>4. ~Off(u) /\ ~Starting(u) /\ (Serving(u) => Serving(u)') /\ (Ending(u) => Ending(u)')
    BY <1>1, <1>2, <2>3 DEF ThreadIs, Off, Starting, Serving, Ending
  <2> QED
    BY <1>1, <2>1, <2>2, <2>4 DEF Life
<1>5. LifeInv' /\ ExitInv' /\ CountInv' /\ HandleInv'
  BY <1>1, <1>2, <1>4, UnitThreadWorks DEF ThreadIs, SameOpens
<1>6. SamePlaces /\ \A r \in Ioreq, v \in ScsiUnit : AtReply(v, r)' => AtReply(v, r)
  BY <1>1, <1>2, ScConstants DEF SamePlaces, ThreadIs, HasIt, AtReply, ThreadAt
<1> QED
  BY <1>1, <1>3, <1>5, <1>6, HomeSame, RequestsSame DEF ScInv, Exiting

(* The thread that took the zero request is not running any more.            *)
LEMMA StopsKeeps ==
  ASSUME ScInv, NEW u \in ScsiUnit, Stops(u)
  PROVE  ScInv'
<1>1. /\ DeviceTypeOK /\ devThread[u].pc = "stop" /\ Ending(u)
      /\ UNCHANGED <<ioreq, pdevst, hostOpen, changeSem, replies, machine, scsiResets, commands>>
  BY LifeByPlace DEF ScInv, Stops, ThreadAt
<1>2. ThreadIs(u, "stopped", devThread[u].req)
  BY <1>1, UnitThreadGoes DEF Stops, ThreadPC
<1>3. UnitIs(u, devst[u].opencnt, devst[u].table, devst[u].requests, FALSE, devst[u].sync)
  <2>1. FALSE \in BOOLEAN /\ devst' = [devst EXCEPT ![u].running = FALSE]
    BY DEF Stops
  <2> QED
    BY <1>1, <2>1, UnitStops, Zenon
<1>4. DeviceTypeOK'
  BY <1>1, <1>2, <1>3, ScTypesAre, ScTypesAreNext DEF ThreadIs, UnitIs
<1>5. Life(u)'
  <2>1. Life(u)
    BY DEF ScInv, LifeInv
  <2>2. (OpenedAt(u)' <=> OpenedAt(u)) /\ (StoppedAt(u)' <=> StoppedAt(u))
    BY <1>1 DEF OpenedAt, StoppedAt
  <2>3. devThread[u].req = NoReq /\ devst[u].requests = <<>> /\ devst[u].sync = 0
    BY <1>1 DEF Ending, Busy, Serves
  <2>4. Ending(u)'
    BY <1>2, <1>3, <2>3 DEF ThreadIs, UnitIs, Ending
  <2>5. ~Starting(u) /\ ~Serving(u) /\ devst'[u].opencnt = devst[u].opencnt
    BY <1>1, <1>3 DEF UnitIs, Starting, Serving, Busy, Serves
  <2> QED
    BY <2>1, <2>2, <2>4, <2>5 DEF Life
<1>6. LifeInv' /\ ExitInv' /\ CountInv' /\ HandleInv'
  BY <1>1, <1>2, <1>3, <1>5, UnitThreadWorks DEF ThreadIs, UnitIs, SameOpens
<1>7. SamePlaces /\ \A r \in Ioreq, v \in ScsiUnit : AtReply(v, r)' => AtReply(v, r)
  BY <1>1, <1>2, <1>3 DEF SamePlaces, ThreadIs, UnitIs, HasIt, AtReply, ThreadAt
<1>8. \A v \in ScsiUnit : devst'[v].table = devst[v].table
  BY <1>3 DEF UnitIs
<1> QED
  BY <1>1, <1>4, <1>6, <1>7, <1>8, HomeSame, RequestsSame DEF ScInv, Exiting

(* It posts sync_sem for who waits, and has done with its unit.              *)
LEMMA PostsEndKeeps ==
  ASSUME ScInv, NEW u \in ScsiUnit, PostsEnd(u)
  PROVE  ScInv'
<1>1. /\ DeviceTypeOK /\ devThread[u].pc = "stopped" /\ Ending(u)
      /\ UNCHANGED <<ioreq, pdevst, hostOpen, changeSem, replies, machine, scsiResets, commands>>
  BY LifeByPlace DEF ScInv, PostsEnd, ThreadAt
<1>2. devThread[u].req = NoReq /\ devst[u].requests = <<>> /\ devst[u].sync = 0 /\ ~devst[u].running
  BY <1>1 DEF Ending, Busy, Serves
<1>3. ThreadIs(u, "posted", NoReq)
  BY <1>1, <1>2, UnitThreadGoes DEF PostsEnd, ThreadPC
<1>4. UnitIs(u, devst[u].opencnt, devst[u].table, devst[u].requests, devst[u].running, 1)
  <2>1. devst' = [devst EXCEPT ![u].sync = 1] /\ 1 \in 0..1
    BY <1>2 DEF PostsEnd
  <2> QED
    BY <1>1, <2>1, UnitPosted
<1>5. DeviceTypeOK'
  BY <1>1, <1>3, <1>4, ScTypesAre, ScTypesAreNext DEF ThreadIs, UnitIs
<1>6. Life(u)'
  <2>1. Life(u)
    BY DEF ScInv, LifeInv
  <2>2. (OpenedAt(u)' <=> OpenedAt(u)) /\ (StoppedAt(u)' <=> StoppedAt(u))
    BY <1>1 DEF OpenedAt, StoppedAt
  <2>3. Off(u)'
    BY <1>2, <1>3, <1>4 DEF ThreadIs, UnitIs, Off
  <2>4. ~Starting(u) /\ ~Serving(u) /\ devst'[u].opencnt = devst[u].opencnt
    BY <1>1, <1>4 DEF UnitIs, Starting, Serving, Busy, Serves
  <2> QED
    BY <2>1, <2>2, <2>3, <2>4 DEF Life
<1>7. LifeInv' /\ ExitInv' /\ CountInv' /\ HandleInv'
  BY <1>1, <1>3, <1>4, <1>6, UnitThreadWorks DEF ThreadIs, UnitIs, SameOpens
<1>8. SamePlaces /\ \A r \in Ioreq, v \in ScsiUnit : AtReply(v, r)' => AtReply(v, r)
  <2> SUFFICES ASSUME NEW v \in ScsiUnit, NEW r \in Ioreq
               PROVE  /\ OccursIn(r, devst'[v].requests) = OccursIn(r, devst[v].requests)
                      /\ HasIt(v, r)' <=> HasIt(v, r)
                      /\ AtReply(v, r)' => AtReply(v, r)
    BY <1>1 DEF SamePlaces
  <2>1. CASE v = u
    <3>1. devst'[v].requests = devst[v].requests
      BY <1>4, <2>1 DEF UnitIs
    <3>2. devThread'[v].req # r /\ devThread[v].req # r
      BY <1>2, <1>3, <2>1, ScConstants DEF ThreadIs
    <3> QED
      BY <3>1, <3>2 DEF HasIt, AtReply
  <2>2. CASE v # u
    <3>1. devst'[v] = devst[v] /\ devThread'[v] = devThread[v]
      BY <1>3, <1>4, <2>2 DEF ThreadIs, UnitIs
    <3> QED
      BY <3>1 DEF HasIt, AtReply, ThreadAt
  <2> QED
    BY <2>1, <2>2
<1>9. \A v \in ScsiUnit : devst'[v].table = devst[v].table
  BY <1>4 DEF UnitIs
<1> QED
  BY <1>1, <1>5, <1>7, <1>8, <1>9, HomeSame, RequestsSame DEF ScInv, Exiting

(* What it does from there on, letting go of change_sem and closing its      *)
(* context, is nothing to its unit.                                          *)
LEMMA GoneKeeps ==
  ASSUME ScInv, NEW u \in ScsiUnit, LetsGo(u) \/ Ends(u)
  PROVE  ScInv'
<1>1. /\ DeviceTypeOK /\ devThread[u].pc \in {"posted", "closing"} /\ Off(u) /\ changeSem' \in {changeSem, Nobody}
      /\ UNCHANGED <<ioreq, devst, pdevst, hostOpen, replies, machine, scsiResets, commands>>
  BY LifeByPlace DEF ScInv, LetsGo, Ends, ThreadAt
<1>2. PICK pc \in {"closing", "off"} : ThreadIs(u, pc, NoReq)
  <2>1. CASE LetsGo(u)
    BY <1>1, <2>1, UnitThreadGoes DEF LetsGo, ThreadPC, Off
  <2>2. CASE Ends(u)
    BY <1>1, <2>2, ThreadSet, ThreadStates DEF Ends
  <2> QED
    BY <2>1, <2>2
<1>3. DeviceTypeOK'
  <2>1. changeSem' \in 0..Nobody
    BY <1>1, ScConstants, ScTypesAre DEF Nobody
  <2> QED
    BY <1>1, <1>2, <2>1, ScTypesAre, ScTypesAreNext DEF ThreadIs
<1>4. LifeInv'
  <2>1. ASSUME NEW v \in ScsiUnit, v # u PROVE Life(v)'
    BY <1>1, <1>2, <2>1, LifeGoesOn DEF ScInv, ThreadIs, OpenedAt, StoppedAt
  <2>2. Off(u)' /\ Life(u) /\ ~Starting(u) /\ ~Serving(u)
    BY <1>1, <1>2 DEF ScInv, LifeInv, ThreadIs, Off, Starting, Serving, Busy, Serves
  <2>3. Life(u)'
    BY <1>1, <2>2 DEF Life, OpenedAt, StoppedAt
  <2> QED
    BY <2>1, <2>3 DEF LifeInv
<1>5. ExitInv'
  <2>1. \A v \in ScsiUnit : devThread[v].pc \in {"posted", "closing", "off"}
                              => devThread'[v].pc \in {"posted", "closing", "off"}
    BY <1>2 DEF ThreadIs
  <2> QED
    BY <1>1, <2>1 DEF ScInv, ExitInv, Exiting, Cleared
<1>6. SameOpens /\ SamePlaces /\ \A r \in Ioreq, v \in ScsiUnit : AtReply(v, r)' => AtReply(v, r)
  <2> SUFFICES ASSUME NEW v \in ScsiUnit, NEW r \in Ioreq
               PROVE  (HasIt(v, r)' <=> HasIt(v, r)) /\ (AtReply(v, r)' => AtReply(v, r))
    BY <1>1 DEF SameOpens, SamePlaces
  <2>1. CASE v = u
    <3>1. devThread'[v].req # r /\ devThread[v].req # r
      BY <1>1, <1>2, <2>1, ScConstants DEF ThreadIs, Off
    <3> QED
      BY <3>1 DEF HasIt, AtReply
  <2>2. CASE v # u
    BY <1>2, <2>2 DEF ThreadIs, HasIt, AtReply, ThreadAt
  <2> QED
    BY <2>1, <2>2
<1>7. CountInv' /\ HandleInv' /\ HomeInv'
  BY <1>1, <1>6, OpensSame, HandlesSame, HomeSame DEF ScInv, CountInv, Cleared
<1>8. RequestInv'
  BY <1>1, <1>6, RequestsSame DEF ScInv, Exiting
<1> QED
  BY <1>3, <1>4, <1>5, <1>7, <1>8 DEF ScInv

(* What is read or replied goes on to the next place.                        *)
Ways(r, v) == OccursIn(r, devst[v].requests) + OccursIn(r, replies) + (IF HasIt(v, r) THEN 1 ELSE 0)

(* The ways of a request are counted.                                        *)
LEMMA WaysCounted ==
  ASSUME DeviceTypeOK, NEW r \in Ioreq, NEW v \in ScsiUnit
  PROVE  OccursIn(r, devst[v].requests) \in Nat /\ OccursIn(r, replies) \in Nat /\ Ways(r, v) \in Nat
<1>1. OccursIn(r, devst[v].requests) \in Nat /\ OccursIn(r, replies) \in Nat
  BY UnitFacts, ScTypesAre, SitesCounted
<1> QED
  BY <1>1 DEF Ways

(* On one way when sent, on none when not: said with their count.            *)
LEMMA WayIs ==
  /\ WayInv <=> \A r \in Ioreq : Ways(r, ioreq[r].unit) = (IF ioreq[r].state = "sent" THEN 1 ELSE 0)
  /\ WayInv' <=> \A r \in Ioreq : Ways(r, ioreq[r].unit)' = (IF ioreq'[r].state = "sent" THEN 1 ELSE 0)
BY DEF WayInv, Ways

(* A request read is the thread's.                                           *)
LEMMA ReadsKeeps ==
  ASSUME ScInv, NEW u \in ScsiUnit, Reads(u)
  PROVE  ScInv'
<1> DEFINE q == devst[u].requests
           h == Head(q)
<1>1. /\ DeviceTypeOK /\ devThread[u].pc = "read" /\ devThread[u].req = NoReq /\ q # <<>>
      /\ (Serving(u) \/ Ending(u))
      /\ UNCHANGED <<ioreq, pdevst, hostOpen, changeSem, replies, machine, scsiResets, commands>>
  BY LifeByPlace DEF ScInv, Reads, ThreadAt
<1>2. q \in Seq(Req) /\ Tail(q) \in Seq(Req) /\ h \in Req
  BY <1>1, UnitFacts, ZeroFollows
<1>3. ThreadIs(u, "lock", h)
  <2>1. [pc |-> "lock", req |-> h] \in ThreadState
    BY <1>2, ThreadStates DEF ThreadPC
  <2> QED
    BY <1>1, <2>1, ThreadSet DEF Reads
<1>4. UnitIs(u, devst[u].opencnt, devst[u].table, Tail(q), devst[u].running, devst[u].sync)
  <2>1. devst' = [devst EXCEPT ![u].requests = Tail(q)]
    BY DEF Reads
  <2> QED
    BY <1>1, <1>2, <2>1, PipeSet
<1>5. DeviceTypeOK'
  BY <1>1, <1>3, <1>4, ScTypesAre, ScTypesAreNext DEF ThreadIs, UnitIs
<1>6. Life(u)'
  <2>1. Life(u)
    BY DEF ScInv, LifeInv
  <2>2. (OpenedAt(u)' <=> OpenedAt(u)) /\ (StoppedAt(u)' <=> StoppedAt(u))
    BY <1>1 DEF OpenedAt, StoppedAt
  <2>3. ~Starting(u) /\ ~Off(u) /\ devst'[u].opencnt = devst[u].opencnt
    BY <1>1, <1>4 DEF UnitIs, Starting, Off
  <2>4. ASSUME Serving(u) PROVE Serving(u)'
    <3>1. NoZero(q)
      BY <2>4 DEF Serving
    <3>2. NoZero(Tail(q)) /\ h # NoReq
      BY <1>1, <1>2, <3>1, ZeroFollows, ScConstants
    <3> QED
      BY <1>3, <1>4, <2>4, <3>2 DEF ThreadIs, UnitIs, Serving, Busy, Serves
  <2>5. ASSUME Ending(u) PROVE Ending(u)'
    <3>1. devst[u].sync = 0 /\ devst[u].running /\ ZeroLast(q)
      BY <1>1, <2>5 DEF Ending
    <3>2. (h = NoReq /\ Tail(q) = <<>>) \/ (h # NoReq /\ ZeroLast(Tail(q)))
      BY <1>2, <3>1, ZeroFollows, ScConstants
    <3> QED
      BY <1>3, <1>4, <3>1, <3>2 DEF ThreadIs, UnitIs, Ending, Busy, Serves
  <2> QED
    BY <2>1, <2>2, <2>3, <2>4, <2>5 DEF Life
<1>7. LifeInv' /\ ExitInv' /\ CountInv' /\ HandleInv'
  BY <1>1, <1>3, <1>4, <1>6, UnitThreadWorks DEF ThreadIs, UnitIs, SameOpens
<1>8. ASSUME NEW r \in Ioreq
      PROVE  /\ OccursIn(r, q) = OccursIn(r, Tail(q)) + (IF h = r THEN 1 ELSE 0)
             /\ OccursIn(r, q) \in Nat /\ OccursIn(r, Tail(q)) \in Nat
             /\ ~HasIt(u, r) /\ (HasIt(u, r)' <=> h = r)
  <2>1. ~HasIt(u, r) /\ (HasIt(u, r)' <=> h = r)
    BY <1>1, <1>3, ScConstants DEF ThreadIs, HasIt, ThreadAt
  <2> QED
    BY <1>1, <1>2, <2>1, OccursRead, SitesCounted
<1>9. ASSUME NEW r \in Ioreq, NEW v \in ScsiUnit, v # u
      PROVE  devst'[v].requests = devst[v].requests /\ (HasIt(v, r)' <=> HasIt(v, r))
  BY <1>3, <1>4, <1>9 DEF ThreadIs, UnitIs, HasIt, ThreadAt
<1>10. devst'[u].requests = Tail(q)
  BY <1>4 DEF UnitIs
<1>11. HomeInv'
  <2> SUFFICES ASSUME NEW v \in ScsiUnit, NEW r \in Ioreq, OccursIn(r, devst'[v].requests) > 0 \/ HasIt(v, r)'
               PROVE  ioreq[r].unit = v /\ ioreq[r].state # "closed"
    BY <1>1 DEF HomeInv
  <2>1. OccursIn(r, devst[v].requests) > 0 \/ HasIt(v, r)
    BY <1>8, <1>9, <1>10
  <2> QED
    BY <2>1 DEF ScInv, HomeInv
<1>12. ASSUME ~Exiting PROVE WayInv'
  <2> SUFFICES ASSUME NEW r \in Ioreq PROVE Ways(r, ioreq[r].unit)' = Ways(r, ioreq[r].unit)
    BY <1>1, <1>12, WayIs DEF ScInv, RequestInv
  <2>1. ioreq[r].unit \in ScsiUnit /\ OccursIn(r, replies) \in Nat
    BY <1>1, RequestFacts, WaysCounted
  <2>2. CASE ioreq[r].unit = u
    BY <1>1, <1>8, <1>10, <2>1, <2>2 DEF Ways
  <2>3. CASE ioreq[r].unit # u
    BY <1>1, <1>9, <2>1, <2>3 DEF Ways
  <2> QED
    BY <2>2, <2>3
<1>13. ASSUME ~Exiting PROVE TableInv' /\ HeldInv' /\ AbortInv'
  <2>1. \A v \in ScsiUnit : devst'[v].table = devst[v].table
    BY <1>4 DEF UnitIs
  <2>2. \A r \in Ioreq, v \in ScsiUnit : AtReply(v, r)' => AtReply(v, r)
    BY <1>3 DEF ThreadIs, AtReply, ThreadAt
  <2>3. TableInv /\ HeldInv /\ AbortInv
    BY <1>13 DEF ScInv, RequestInv
  <2>4. TableInv'
    BY <1>1, <2>1, <2>2, <2>3 DEF TableInv, Entry
  <2>5. HeldInv'
    BY <1>1, <2>1, <2>3, RequestFacts DEF HeldInv, PlacesOf
  <2>6. AbortInv'
    BY <1>1, <2>3 DEF AbortInv
  <2> QED
    BY <2>4, <2>5, <2>6
<1> QED
  BY <1>1, <1>5, <1>7, <1>11, <1>12, <1>13 DEF ScInv, RequestInv, Exiting

(* A request the thread replied is among the replies.                        *)
LEMMA RepliesKeeps ==
  ASSUME ScInv, NEW u \in ScsiUnit, RepliesMsg(u)
  PROVE  ScInv'
<1> DEFINE m == devThread[u].req
<1>1. /\ DeviceTypeOK /\ devThread[u].pc = "reply" /\ Busy(u) /\ (Serving(u) \/ Ending(u))
      /\ replies' = Append(replies, m)
      /\ UNCHANGED <<ioreq, devst, pdevst, hostOpen, changeSem, machine, scsiResets, commands>>
  BY LifeByPlace DEF ScInv, RepliesMsg, ThreadAt
<1>2. m \in Ioreq /\ m \in Req /\ m # NoReq
  BY <1>1, UnitFacts DEF Busy, Req
<1>3. ThreadIs(u, "unlock", m)
  BY <1>1, UnitThreadGoes DEF RepliesMsg, ThreadPC
<1>4. DeviceTypeOK'
  <2>1. replies' \in Seq(Req)
    BY <1>1, <1>2, ScTypesAre
  <2> QED
    BY <1>1, <1>3, <2>1, ScTypesAre, ScTypesAreNext DEF ThreadIs
<1>5. Life(u)'
  <2>1. Life(u)
    BY DEF ScInv, LifeInv
  <2>2. (OpenedAt(u)' <=> OpenedAt(u)) /\ (StoppedAt(u)' <=> StoppedAt(u))
    BY <1>1 DEF OpenedAt, StoppedAt
  <2>3. Busy(u)'
    BY <1>2, <1>3 DEF ThreadIs, Busy, Serves
  <2>4. ~Off(u) /\ ~Starting(u) /\ (Serving(u) => Serving(u)') /\ (Ending(u) => Ending(u)')
    BY <1>1, <1>3, <2>3 DEF ThreadIs, Off, Starting, Serving, Ending
  <2> QED
    BY <1>1, <2>1, <2>2, <2>4 DEF Life
<1>6. LifeInv' /\ ExitInv' /\ CountInv' /\ HandleInv'
  BY <1>1, <1>3, <1>5, UnitThreadWorks DEF ThreadIs, SameOpens
<1>7. ASSUME NEW r \in Ioreq
      PROVE  /\ OccursIn(r, replies') = OccursIn(r, replies) + (IF m = r THEN 1 ELSE 0)
             /\ OccursIn(r, replies) \in Nat
             /\ ~HasIt(u, r)' /\ (HasIt(u, r) <=> m = r)
             /\ \A v \in ScsiUnit : v # u => (HasIt(v, r)' <=> HasIt(v, r))
  <2>1. ~HasIt(u, r)' /\ (HasIt(u, r) <=> m = r)
        /\ \A v \in ScsiUnit : v # u => (HasIt(v, r)' <=> HasIt(v, r))
    BY <1>1, <1>3 DEF ThreadIs, HasIt, ThreadAt
  <2>2. replies \in Seq(Req)
    BY <1>1, ScTypesAre
  <2>3. OccursIn(r, Append(replies, m)) = OccursIn(r, replies) + (IF m = r THEN 1 ELSE 0)
    BY <1>2, <2>2, OccursAppended
  <2>4. OccursIn(r, replies) \in Nat
    BY <2>2, SitesCounted
  <2> QED
    BY <1>1, <2>1, <2>3, <2>4
<1>8. ioreq[m].unit = u
  BY <1>2, <1>7 DEF ScInv, HomeInv
<1>9. HomeInv'
  BY <1>1, <1>7 DEF ScInv, HomeInv
<1>10. ASSUME ~Exiting PROVE WayInv'
  <2> SUFFICES ASSUME NEW r \in Ioreq PROVE Ways(r, ioreq[r].unit)' = Ways(r, ioreq[r].unit)
    BY <1>1, <1>10, WayIs DEF ScInv, RequestInv
  <2>1. ioreq[r].unit \in ScsiUnit /\ OccursIn(r, devst[ioreq[r].unit].requests) \in Nat
    BY <1>1, RequestFacts, WaysCounted
  <2>2. CASE r = m
    BY <1>1, <1>7, <1>8, <2>1, <2>2 DEF Ways
  <2>3. CASE r # m
    BY <1>1, <1>7, <2>1, <2>3 DEF Ways
  <2> QED
    BY <2>2, <2>3
<1>11. ASSUME ~Exiting PROVE TableInv' /\ HeldInv' /\ AbortInv'
  <2>1. TableInv /\ HeldInv /\ AbortInv
    BY <1>11 DEF ScInv, RequestInv
  <2>2. TableInv'
    <3> SUFFICES ASSUME NEW v \in ScsiUnit, NEW i \in Place, devst[v].table[i].req \in Ioreq,
                        devst[v].table[i].type = "temp", ioreq[devst[v].table[i].req].unit = v,
                        OccursIn(devst[v].table[i].req, replies) = 0, ~AtReply(v, devst[v].table[i].req)
                 PROVE  OccursIn(devst[v].table[i].req, replies') = 0 /\ ~AtReply(v, devst[v].table[i].req)'
      BY <1>1, <2>1 DEF TableInv, Entry
    <3>1. devst[v].table[i].req # m
      BY <1>1, <1>8 DEF AtReply, ThreadAt
    <3>2. ~AtReply(v, devst[v].table[i].req)'
      <4>1. CASE v = u
        BY <1>3, <4>1 DEF ThreadIs, AtReply, ThreadAt
      <4>2. CASE v # u
        BY <1>1, <1>3, <4>2 DEF ThreadIs, AtReply, ThreadAt
      <4> QED
        BY <4>1, <4>2
    <3> QED
      BY <1>7, <3>1, <3>2
  <2>3. HeldInv'
    BY <1>1, <2>1 DEF HeldInv, PlacesOf
  <2>4. AbortInv'
    BY <1>1, <2>1 DEF AbortInv
  <2> QED
    BY <2>2, <2>3, <2>4
<1> QED
  BY <1>1, <1>4, <1>6, <1>9, <1>10, <1>11 DEF ScInv, RequestInv, Exiting

(* What is released has no place left, and the others have theirs.           *)
LEMMA ReleasedOnce ==
  ASSUME DeviceTypeOK, TableInv, NEW u \in ScsiUnit, NEW r \in Ioreq, NEW i \in Place
  PROVE  /\ Released(u, r)[i].req \in Ioreq
              => Released(u, r)[i] = devst[u].table[i] /\ devst[u].table[i].req # r
         /\ devst[u].table[i].req \in Ioreq \ {r} => Released(u, r)[i] = devst[u].table[i]
<1>1. CASE PlacesOf(u, r) = {}
  BY <1>1, ReleasedIs DEF PlacesOf
<1>2. CASE PlacesOf(u, r) # {}
  <2>1. PICK k \in Place : /\ devst[u].table[k].req = r /\ Released(u, r)[k].req = NoReq
                           /\ \A j \in Place : j # k => Released(u, r)[j] = devst[u].table[j]
    BY <1>2, ReleasedIs
  <2>2. i # k => devst[u].table[i].req # r
    BY <2>1 DEF TableInv, Entry
  <2> QED
    BY <2>1, <2>2, ScConstants
<1> QED
  BY <1>1, <1>2

(* A request done leaves the table before it is replied.                     *)
LEMMA ReleasesKeeps ==
  ASSUME ScInv, NEW u \in ScsiUnit, ReleasesDone(u)
  PROVE  ScInv'
<1> DEFINE m == devThread[u].req
<1>1. /\ DeviceTypeOK /\ devThread[u].pc = "release" /\ Busy(u) /\ (Serving(u) \/ Ending(u))
      /\ UNCHANGED <<ioreq, pdevst, hostOpen, changeSem, replies, machine, scsiResets, commands>>
  BY LifeByPlace DEF ScInv, ReleasesDone, ThreadAt
<1>2. m \in Ioreq /\ m # NoReq
  BY <1>1, UnitFacts DEF Busy, Req
<1>3. ThreadIs(u, "reply", m)
  BY <1>1, UnitThreadGoes DEF ReleasesDone, ThreadPC
<1>4. Released(u, m) \in Table
  BY <1>1, <1>2, ReleasedIs
<1>5. UnitIs(u, devst[u].opencnt, Released(u, m), devst[u].requests, devst[u].running, devst[u].sync)
  <2>1. devst' = [devst EXCEPT ![u].table = Released(u, m)]
    BY DEF ReleasesDone
  <2> QED
    BY <1>1, <1>4, <2>1, TableSet
<1>6. DeviceTypeOK'
  BY <1>1, <1>3, <1>5, ScTypesAre, ScTypesAreNext DEF ThreadIs, UnitIs
<1>7. Life(u)'
  <2>1. Life(u)
    BY DEF ScInv, LifeInv
  <2>2. (OpenedAt(u)' <=> OpenedAt(u)) /\ (StoppedAt(u)' <=> StoppedAt(u))
        /\ devst'[u].opencnt = devst[u].opencnt
    BY <1>1, <1>5 DEF UnitIs, OpenedAt, StoppedAt
  <2>3. Busy(u)'
    BY <1>2, <1>3 DEF ThreadIs, Busy, Serves
  <2>4. ~Off(u) /\ ~Starting(u) /\ (Serving(u) => Serving(u)') /\ (Ending(u) => Ending(u)')
    BY <1>1, <1>3, <1>5, <2>3 DEF ThreadIs, UnitIs, Off, Starting, Serving, Ending
  <2> QED
    BY <2>1, <2>2, <2>4 DEF Life
<1>8. LifeInv' /\ ExitInv' /\ CountInv' /\ HandleInv'
  BY <1>1, <1>3, <1>5, <1>7, UnitThreadWorks DEF ThreadIs, UnitIs, SameOpens
<1>9. SamePlaces
  BY <1>1, <1>3, <1>5 DEF SamePlaces, ThreadIs, UnitIs, HasIt, ThreadAt
<1>10. HomeInv'
  BY <1>9, HomeSame DEF ScInv
<1>11. ASSUME ~Exiting PROVE WayInv' /\ TableInv' /\ HeldInv' /\ AbortInv'
  <2>1. WayInv /\ TableInv /\ HeldInv /\ AbortInv
    BY <1>11 DEF ScInv, RequestInv
  <2>2. HasIt(u, m) /\ ioreq[m].unit = u
    BY <1>1, <1>2 DEF ScInv, HomeInv, HasIt, ThreadAt
  <2>3. ioreq[m].state = "sent"
    <3>1. Ways(m, u) > 0
      BY <1>1, <1>2, <2>2, WaysCounted DEF Ways
    <3> QED
      BY <1>2, <2>1, <2>2, <3>1, WayIs
  <2>4. WayInv'
    <3>1. \A r \in Ioreq : Ways(r, ioreq[r].unit)' = Ways(r, ioreq[r].unit)
      BY <1>1, <1>9, RequestFacts DEF SamePlaces, Ways
    <3> QED
      BY <1>1, <2>1, <3>1, WayIs
  <2>5. ASSUME NEW i \in Place, devst'[u].table[i].req \in Ioreq
        PROVE  devst'[u].table[i] = devst[u].table[i] /\ devst[u].table[i].req # m
    <3>1. devst'[u].table = Released(u, m)
      BY <1>5 DEF UnitIs
    <3> QED
      BY <1>1, <1>2, <2>1, <2>5, <3>1, ReleasedOnce
  <2>6. TableInv'
    <3> SUFFICES ASSUME NEW v \in ScsiUnit, NEW i \in Place, devst'[v].table[i].req \in Ioreq
                 PROVE  Entry(v, i)'
      BY <1>1 DEF TableInv
    <3>1. devst'[v].table[i] = devst[v].table[i] /\ (v = u => devst[v].table[i].req # m)
      BY <1>5, <2>5 DEF UnitIs
    <3>2. \A j \in Place : devst'[v].table[j].req = devst[v].table[i].req
                => devst'[v].table[j] = devst[v].table[j]
      BY <1>5, <2>5, <3>1 DEF UnitIs
    <3>3. ~AtReply(v, devst[v].table[i].req)' \/ AtReply(v, devst[v].table[i].req)
      BY <1>3, <3>1 DEF ThreadIs, AtReply, ThreadAt
    <3>4. Entry(v, i)
      BY <2>1, <3>1 DEF TableInv
    <3> QED
      BY <1>1, <3>1, <3>2, <3>3, <3>4 DEF Entry
  <2>7. HeldInv'
    <3> SUFFICES ASSUME NEW r \in Ioreq, ioreq[r].state = "held" PROVE PlacesOf(ioreq[r].unit, r)' # {}
      BY <1>1 DEF HeldInv
    <3>1. PICK i \in Place : devst[ioreq[r].unit].table[i].req = r
      BY <2>1 DEF HeldInv, PlacesOf
    <3>2. r # m /\ ioreq[r].unit \in ScsiUnit
      BY <1>1, <2>3, RequestFacts
    <3>3. devst'[ioreq[r].unit].table[i].req = r
      <4>1. CASE ioreq[r].unit # u
        BY <1>5, <3>1, <3>2, <4>1 DEF UnitIs
      <4>2. CASE ioreq[r].unit = u
        <5>1. devst'[u].table = Released(u, m)
          BY <1>5 DEF UnitIs
        <5>2. Released(u, m)[i] = devst[u].table[i]
          BY <1>1, <1>2, <3>1, <3>2, <4>2, ReleasedIs
        <5> QED
          BY <3>1, <4>2, <5>1, <5>2
      <4> QED
        BY <4>1, <4>2
    <3> QED
      BY <1>1, <3>3 DEF PlacesOf
  <2>8. AbortInv'
    BY <1>1, <2>1 DEF AbortInv
  <2> QED
    BY <2>4, <2>6, <2>7, <2>8
<1> QED
  BY <1>1, <1>6, <1>8, <1>10, <1>11 DEF ScInv, RequestInv, Exiting

(* A request added is in one place, and the others are as they were.         *)
LEMMA AddedOnce ==
  ASSUME DeviceTypeOK, TableInv, NEW u \in ScsiUnit, NEW r \in Ioreq, NEW type \in {"temp", "changeint"},
         CanAdd(u, r)
  PROVE  \E k \in Place :
           /\ Added(u, r, type)[k].req = r /\ Added(u, r, type)[k].type = type
           /\ devst[u].table[k].req \in {r, NoReq}
           /\ \A i \in Place : i # k => Added(u, r, type)[i] = devst[u].table[i] /\ devst[u].table[i].req # r
<1>1. PICK k \in Place :
        /\ devst[u].table[k].req \in {r, NoReq} /\ (PlacesOf(u, r) # {} => devst[u].table[k].req = r)
        /\ Added(u, r, type)[k].req = r /\ Added(u, r, type)[k].type = type
        /\ \A i \in Place : i # k => Added(u, r, type)[i] = devst[u].table[i]
  BY AddedIs
<1>2. ASSUME NEW i \in Place, i # k PROVE devst[u].table[i].req # r
  <2>1. CASE PlacesOf(u, r) = {}
    BY <2>1 DEF PlacesOf
  <2>2. CASE PlacesOf(u, r) # {}
    BY <1>1, <1>2, <2>2 DEF TableInv, Entry
  <2> QED
    BY <2>1, <2>2
<1> QED
  BY <1>1, <1>2

(* What is done is kept or goes on to its reply.                             *)
LEMMA DoesEffect ==
  ASSUME ScInv, NEW u \in ScsiUnit, Does(u)
  PROVE  LET m == devThread[u].req
             kept == ioreq[m].command = "add" /\ CanAdd(u, m)
         IN  /\ devThread[u].pc = "io" /\ Busy(u) /\ (Serving(u) \/ Ending(u)) /\ m \in Ioreq /\ HasIt(u, m)
             /\ ioreq[m].unit = u /\ ioreq[m].state # "closed"
             /\ ThreadIs(u, IF kept THEN "unlock" ELSE "release", m)
             /\ UnitIs(u, devst[u].opencnt, IF kept THEN Added(u, m, "changeint") ELSE devst[u].table,
                       devst[u].requests, devst[u].running, devst[u].sync)
             /\ kept => RequestIs(m, "held", u, ioreq[m].handle)
             /\ ~kept => ioreq' = ioreq
<1> DEFINE m == devThread[u].req
           add == ioreq[m].command = "add"
           kept == add /\ CanAdd(u, m)
           t == IF add THEN Added(u, m, "changeint") ELSE devst[u].table
<1>1. DeviceTypeOK /\ devThread[u].pc = "io" /\ Busy(u) /\ (Serving(u) \/ Ending(u))
  BY LifeByPlace DEF ScInv, Does, ThreadAt
<1>2. m \in Ioreq /\ HasIt(u, m)
  BY <1>1, UnitFacts DEF Busy, Req, HasIt, ThreadAt
<1>3. ioreq[m].unit = u /\ ioreq[m].state # "closed"
  BY <1>2 DEF ScInv, HomeInv
<1>4. ThreadIs(u, IF kept THEN "unlock" ELSE "release", m)
  BY <1>1, UnitThreadGoes DEF Does, ThreadPC
<1>5. t \in Table /\ t = IF kept THEN Added(u, m, "changeint") ELSE devst[u].table
  BY <1>1, <1>2, UnitFacts, AddedIs
<1>6. UnitIs(u, devst[u].opencnt, t, devst[u].requests, devst[u].running, devst[u].sync)
  <2>1. devst' = [devst EXCEPT ![u].table = t]
    BY DEF Does
  <2> HIDE DEF t
  <2> QED
    BY <1>1, <1>5, <2>1, TableSet
<1>7. ASSUME kept PROVE RequestIs(m, "held", u, ioreq[m].handle)
  <2>1. ioreq' = [ioreq EXCEPT ![m].state = "held"]
    BY <1>7 DEF Does
  <2> QED
    BY <1>1, <1>2, <1>3, <2>1, RequestSet
<1>8. ASSUME ~kept PROVE ioreq' = ioreq
  <2>1. ioreq' = [ioreq EXCEPT ![m].state = ioreq[m].state]
    BY <1>8 DEF Does
  <2>2. ioreq \in [Ioreq -> Request] /\ ioreq[m] \in Request
    BY <1>1, <1>2, ScTypesAre, RequestFacts
  <2>3. [ioreq[m] EXCEPT !.state = ioreq[m].state] = ioreq[m]
    BY <2>2 DEF Request
  <2> QED
    BY <2>1, <2>2, <2>3
<1> QED
  BY <1>1, <1>2, <1>3, <1>4, <1>5, <1>6, <1>7, <1>8

(* The command is done: it is held if it is to be and there is room.         *)
LEMMA DoesKeeps ==
  ASSUME ScInv, NEW u \in ScsiUnit, Does(u)
  PROVE  ScInv'
<1> DEFINE m == devThread[u].req
           kept == ioreq[m].command = "add" /\ CanAdd(u, m)
           pc == IF kept THEN "unlock" ELSE "release"
           t == IF kept THEN Added(u, m, "changeint") ELSE devst[u].table
<1>1. /\ DeviceTypeOK /\ devThread[u].pc = "io" /\ Busy(u) /\ (Serving(u) \/ Ending(u)) /\ m \in Ioreq
      /\ HasIt(u, m)
      /\ ioreq[m].unit = u /\ ioreq[m].state # "closed"
      /\ UNCHANGED <<pdevst, hostOpen, changeSem, replies, machine, scsiResets, commands>>
  BY DoesEffect DEF ScInv, Does
<1>2. ThreadIs(u, pc, m) /\ UnitIs(u, devst[u].opencnt, t, devst[u].requests, devst[u].running, devst[u].sync)
  BY DoesEffect
<1>3. (kept => RequestIs(m, "held", u, ioreq[m].handle)) /\ (~kept => ioreq' = ioreq)
  BY DoesEffect
<1>k. kept => ioreq[m].command = "add" /\ CanAdd(u, m) /\ t = Added(u, m, "changeint") /\ pc = "unlock"
  OBVIOUS
<1>n. ~kept => t = devst[u].table /\ pc = "release"
  OBVIOUS
<1> HIDE DEF kept, t, pc
<1>4. SameOpens /\ ioreq' \in [Ioreq -> Request]
  BY <1>1, <1>3, ScTypesAre DEF SameOpens, RequestIs
<1>5. DeviceTypeOK'
  BY <1>1, <1>2, <1>4, ScTypesAre, ScTypesAreNext DEF ThreadIs, UnitIs
<1>6. Life(u)'
  <2>1. Life(u)
    BY DEF ScInv, LifeInv
  <2>2. (OpenedAt(u)' <=> OpenedAt(u)) /\ (StoppedAt(u)' <=> StoppedAt(u))
        /\ devst'[u].opencnt = devst[u].opencnt
    BY <1>1, <1>2 DEF UnitIs, OpenedAt, StoppedAt
  <2>3. Busy(u)'
    BY <1>1, <1>2, <1>k, <1>n, ScConstants DEF ThreadIs, Busy, Serves
  <2>4. ~Off(u) /\ ~Starting(u) /\ (Serving(u) => Serving(u)') /\ (Ending(u) => Ending(u)')
    BY <1>1, <1>2, <2>3 DEF ThreadIs, UnitIs, Off, Starting, Serving, Ending
  <2> QED
    BY <2>1, <2>2, <2>4 DEF Life
<1>7. LifeInv' /\ ExitInv' /\ CountInv' /\ HandleInv'
  BY <1>1, <1>2, <1>4, <1>6, UnitThreadWorks DEF ThreadIs, UnitIs
<1>8. CASE ~kept
  <2>1. SamePlaces /\ \A r \in Ioreq, v \in ScsiUnit : AtReply(v, r)' => AtReply(v, r)
    BY <1>1, <1>2, <1>3, <1>n, <1>8 DEF SamePlaces, ThreadIs, UnitIs, HasIt, AtReply, ThreadAt
  <2>2. \A v \in ScsiUnit : devst'[v].table = devst[v].table
    BY <1>2, <1>n, <1>8 DEF UnitIs
  <2> QED
    BY <1>1, <1>5, <1>7, <2>1, <2>2, HomeSame, RequestsSame DEF ScInv, Exiting
<1>9. CASE kept
  <2>1. RequestIs(m, "held", u, ioreq[m].handle) /\ t = Added(u, m, "changeint") /\ pc = "unlock"
        /\ CanAdd(u, m)
    BY <1>3, <1>k, <1>9
  <2>2. ASSUME NEW r \in Ioreq, NEW v \in ScsiUnit
        PROVE  /\ devst'[v].requests = devst[v].requests
               /\ HasIt(v, r)' <=> HasIt(v, r) /\ ~(v = u /\ r = m)
    BY <1>1, <1>2, <2>1 DEF ThreadIs, UnitIs, HasIt, ThreadAt
  <2>3. HomeInv'
    BY <1>4, <2>2 DEF ScInv, HomeInv, SameOpens
  <2>4. ASSUME ~Exiting PROVE WayInv' /\ TableInv' /\ HeldInv' /\ AbortInv'
    <3>1. WayInv /\ TableInv /\ HeldInv /\ AbortInv
      BY <2>4 DEF ScInv, RequestInv
    <3>2. Ways(m, u) = 1 /\ ioreq[m].state = "sent"
      <4>1. Ways(m, u) > 0
        BY <1>1, WaysCounted DEF Ways
      <4> QED
        BY <1>1, <3>1, <4>1, WayIs
    <3>3. WayInv'
      <4> SUFFICES ASSUME NEW r \in Ioreq
                   PROVE  Ways(r, ioreq[r].unit)' = (IF ioreq'[r].state = "sent" THEN 1 ELSE 0)
        BY WayIs
      <4>1. ioreq[r].unit \in ScsiUnit /\ ioreq'[r].unit = ioreq[r].unit
        BY <1>1, <1>4, RequestFacts DEF SameOpens
      <4>2. CASE r = m
        <5>1. OccursIn(m, devst[u].requests) = 0 /\ OccursIn(m, replies) = 0
          BY <1>1, <3>2, WaysCounted DEF Ways
        <5>2. ~HasIt(u, r)' /\ devst'[u].requests = devst[u].requests
          BY <2>2, <4>2
        <5>3. ioreq'[r].unit = u /\ ioreq'[r].state = "held" /\ ioreq[r].unit = u
          BY <1>1, <2>1, <4>2 DEF RequestIs
        <5> QED
          BY <1>1, <4>2, <5>1, <5>2, <5>3 DEF Ways
      <4>3. CASE r # m
        <5>1. Ways(r, ioreq[r].unit)' = Ways(r, ioreq[r].unit) /\ ioreq'[r] = ioreq[r]
          BY <1>1, <2>1, <2>2, <4>1, <4>3 DEF Ways, RequestIs
        <5> QED
          BY <3>1, <4>3, <5>1, WayIs
      <4> QED
        BY <4>2, <4>3
    <3>4. PICK k \in Place :
            /\ t[k].req = m /\ t[k].type = "changeint" /\ devst[u].table[k].req \in {m, NoReq}
            /\ \A i \in Place : i # k => t[i] = devst[u].table[i] /\ devst[u].table[i].req # m
      BY <1>1, <2>1, <3>1, AddedOnce
    <3>5. devst'[u].table = t /\ ioreq'[m].state = "held" /\ ioreq'[m].unit = u
      BY <1>2, <2>1 DEF UnitIs, RequestIs
    <3>6. ASSUME NEW v \in ScsiUnit, NEW i \in Place, devst'[v].table[i].req \in Ioreq PROVE Entry(v, i)'
      <4>1. CASE v = u /\ i = k
        BY <3>4, <3>5, <4>1 DEF Entry
      <4>2. CASE ~(v = u /\ i = k)
        <5>1. devst'[v].table[i] = devst[v].table[i]
          BY <1>2, <3>4, <3>5, <4>2 DEF UnitIs
        <5>2. Entry(v, i)
          BY <3>1, <3>6, <5>1 DEF TableInv
        <5>3. devst[v].table[i].req # m
          <6>1. CASE v = u
            BY <3>4, <4>2, <6>1
          <6>2. CASE v # u
            BY <1>1, <5>2, <6>2 DEF Entry
          <6> QED
            BY <6>1, <6>2
        <5>4. ioreq'[devst[v].table[i].req] = ioreq[devst[v].table[i].req]
          BY <2>1, <3>6, <5>1, <5>3 DEF RequestIs
        <5>5. AtReply(v, devst[v].table[i].req)' => AtReply(v, devst[v].table[i].req)
          BY <1>2, <2>1, <5>1 DEF ThreadIs, AtReply, ThreadAt
        <5>6. \A j \in Place : devst'[v].table[j].req = devst[v].table[i].req
                    => devst'[v].table[j] = devst[v].table[j]
          BY <1>2, <3>4, <3>5, <5>3 DEF UnitIs
        <5> QED
          BY <1>1, <5>1, <5>2, <5>4, <5>5, <5>6 DEF Entry
      <4> QED
        BY <4>1, <4>2
    <3>7. HeldInv'
      <4> SUFFICES ASSUME NEW r \in Ioreq, ioreq'[r].state = "held"
                   PROVE  \E i \in Place : devst'[ioreq'[r].unit].table[i].req = r
        BY DEF HeldInv, PlacesOf
      <4>1. CASE r = m
        BY <3>4, <3>5, <4>1
      <4>2. CASE r # m
        <5>1. ioreq'[r] = ioreq[r] /\ ioreq[r].unit \in ScsiUnit
          BY <1>1, <2>1, <4>2, RequestFacts DEF RequestIs
        <5>2. PICK i \in Place : devst[ioreq[r].unit].table[i].req = r
          BY <3>1, <5>1 DEF HeldInv, PlacesOf
        <5>3. devst'[ioreq[r].unit].table[i] = devst[ioreq[r].unit].table[i]
          <6>1. CASE ioreq[r].unit = u
            BY <3>4, <3>5, <4>2, <5>2, <6>1, ScConstants
          <6>2. CASE ioreq[r].unit # u
            BY <1>2, <5>1, <6>2 DEF UnitIs
          <6> QED
            BY <6>1, <6>2
        <5> QED
          BY <5>1, <5>2, <5>3
      <4> QED
        BY <4>1, <4>2
    <3>8. AbortInv'
      <4>1. ASSUME NEW r \in Ioreq, ioreq[r].state \in {"sent", "held"}
            PROVE  ioreq'[r].state \in {"sent", "held"} /\ ioreq'[r].unit = ioreq[r].unit
        BY <1>4, <2>1, <4>1 DEF RequestIs, SameOpens
      <4> QED
        BY <1>1, <3>1, <4>1 DEF AbortInv
    <3> QED
      BY <3>3, <3>6, <3>7, <3>8 DEF TableInv
  <2> QED
    BY <1>1, <1>5, <1>7, <2>3, <2>4 DEF ScInv, RequestInv, Exiting
<1> QED
  BY <1>8, <1>9

(* The emulator thread's steps between resets.                               *)
LEMMA MachineWorks ==
  ASSUME ScInv, NEW u \in ScsiUnit, ~Exiting, ~Exiting', SameOpens, Life(u)',
         \A v \in ScsiUnit : v # u => devst'[v] = devst[v] /\ devThread'[v] = devThread[v],
         \A v \in ScsiUnit : v # u => (OpenedAt(v)' <=> OpenedAt(v)),
         devst'[u].opencnt = devst[u].opencnt, pdevst' = pdevst, hostOpen' = hostOpen
  PROVE  LifeInv' /\ ExitInv' /\ CountInv' /\ HandleInv'
<1>1. ASSUME NEW v \in ScsiUnit, v # u PROVE Life(v)'
  <2>1. ~StoppedAt(v) /\ ~StoppedAt(v)'
    BY DEF Exiting, StoppedAt
  <2> QED
    BY <1>1, <2>1, LifeGoesOn DEF ScInv
<1>2. LifeInv'
  BY <1>1 DEF LifeInv
<1>3. \A v \in ScsiUnit : devst'[v].opencnt = devst[v].opencnt
  OBVIOUS
<1>4. ExitInv'
  BY DEF ExitInv, Exiting
<1>5. CountInv'
  BY <1>3, OpensSame DEF ScInv, CountInv, Cleared, Exiting
<1> QED
  BY <1>2, <1>4, <1>5, HandlesSame DEF ScInv

(* The open that waited for its thread goes on.                              *)
LEMMA StartedKeeps ==
  ASSUME ScInv, ThreadStarted
  PROVE  ScInv'
<1>0. PICK u \in ScsiUnit : u = machine.unit
  BY MachineFacts DEF ScInv
<1>1. /\ DeviceTypeOK /\ machine.pc = "open" /\ devst[u].sync > 0 /\ machine' = Running
      /\ devst' = [devst EXCEPT ![u].sync = devst[u].sync - 1]
      /\ UNCHANGED <<ioreq, pdevst, hostOpen, devThread, changeSem, replies, scsiResets, commands>>
  BY <1>0 DEF ScInv, ThreadStarted
<1>2. Running \in MachineState /\ machine'.pc = "run"
  BY <1>1, MachineFacts
<1>3. Starting(u) /\ devst[u].sync = 1
  <2>1. Life(u) /\ OpenedAt(u)
    BY <1>0, <1>1 DEF ScInv, LifeInv, OpenedAt
  <2> QED
    BY <1>1, <2>1 DEF Life, Starting
<1>4. UnitIs(u, devst[u].opencnt, devst[u].table, devst[u].requests, devst[u].running, 0)
  <2>1. devst' = [devst EXCEPT ![u].sync = 0] /\ 0 \in 0..1
    BY <1>1, <1>3
  <2> QED
    BY <1>1, <2>1, UnitPosted
<1>5. DeviceTypeOK'
  BY <1>1, <1>2, <1>4, ScTypesAre, ScTypesAreNext DEF UnitIs
<1>6. Life(u)'
  <2>1. devst[u].running /\ devst[u].requests = <<>> /\ devst[u].opencnt = 1 /\ Busy(u)
    BY <1>3 DEF Starting, Busy, Serves
  <2>2. devst'[u].running /\ devst'[u].requests = <<>> /\ devst'[u].opencnt = 1 /\ devst'[u].sync = 0
        /\ Busy(u)'
    BY <1>1, <1>4, <2>1 DEF UnitIs, Busy
  <2>3. NoZero(devst'[u].requests)
    BY <2>2 DEF NoZero
  <2>4. Serving(u)'
    BY <2>2, <2>3 DEF Serving
  <2>5. ~OpenedAt(u)' /\ ~StoppedAt(u)'
    BY <1>2 DEF OpenedAt, StoppedAt
  <2> QED
    BY <2>2, <2>4, <2>5 DEF Life
<1>7. ~Exiting /\ ~Exiting' /\ \A v \in ScsiUnit : v # u => ~OpenedAt(v) /\ ~OpenedAt(v)'
  BY <1>0, <1>1, <1>2 DEF Exiting, OpenedAt
<1>8. LifeInv' /\ ExitInv' /\ CountInv' /\ HandleInv'
  BY <1>1, <1>4, <1>6, <1>7, MachineWorks DEF UnitIs, SameOpens
<1>9. SamePlaces /\ \A r \in Ioreq, v \in ScsiUnit : AtReply(v, r)' => AtReply(v, r)
  BY <1>1, <1>4 DEF SamePlaces, UnitIs, HasIt, AtReply, ThreadAt
<1>10. \A v \in ScsiUnit : devst'[v].table = devst[v].table
  BY <1>4 DEF UnitIs
<1> QED
  BY <1>1, <1>2, <1>5, <1>7, <1>8, <1>9, <1>10, HomeSame, RequestsSame DEF ScInv

(* AbortIO begins.                                                           *)
LEMMA AbortsKeeps ==
  ASSUME ScInv, NEW r \in Ioreq, AbortsIO(r)
  PROVE  ScInv'
<1>1. /\ DeviceTypeOK /\ machine.pc = "run" /\ ioreq[r].state \in {"sent", "held"}
      /\ machine' = [pc |-> "abort", unit |-> ioreq[r].unit, req |-> r]
      /\ UNCHANGED <<ioreq, devst, pdevst, hostOpen, devThread, changeSem, replies, scsiResets, commands>>
  BY DEF ScInv, AbortsIO
<1>2. machine' \in MachineState
  BY <1>1, RequestFacts DEF MachineState, Req
<1>3. DeviceTypeOK'
  BY <1>1, <1>2, ScTypesAre, ScTypesAreNext
<1>4. ~Exiting /\ ~Exiting'
      /\ \A v \in ScsiUnit : ~OpenedAt(v) /\ ~OpenedAt(v)' /\ ~StoppedAt(v) /\ ~StoppedAt(v)'
  BY <1>1 DEF Exiting, OpenedAt, StoppedAt
<1>5. \A v \in ScsiUnit : Life(v)'
  BY <1>1, <1>4, LifeGoesOn DEF ScInv
<1>6. 0 \in ScsiUnit
  BY ScConstants
<1>7. LifeInv' /\ ExitInv' /\ CountInv' /\ HandleInv'
  BY <1>1, <1>4, <1>5, <1>6, MachineWorks DEF SameOpens
<1>8. SamePlaces
  BY <1>1 DEF SamePlaces, HasIt, ThreadAt
<1>9. WayInv' /\ TableInv' /\ HeldInv'
  <2>1. WayInv /\ TableInv /\ HeldInv
    BY <1>4 DEF ScInv, RequestInv
  <2> QED
    BY <1>1, <2>1 DEF WayInv, TableInv, Entry, HeldInv, PlacesOf, HasIt, AtReply, ThreadAt
<1>10. AbortInv'
  BY <1>1 DEF AbortInv
<1> QED
  BY <1>3, <1>7, <1>8, <1>9, <1>10, HomeSame DEF ScInv, RequestInv

(* AbortIO ends: what is TEMP no more is taken out.                          *)
LEMMA AbortEndsKeeps ==
  ASSUME ScInv, AbortEnds
  PROVE  ScInv'
<1>0. PICK u \in ScsiUnit, r \in Ioreq : u = machine.unit /\ r = machine.req
      /\ ioreq[r].state \in {"sent", "held"}
                                         /\ ioreq[r].unit = u
  <2>1. AbortInv /\ machine.pc = "abort"
    BY DEF ScInv, RequestInv, Exiting, AbortEnds
  <2> QED
    BY <2>1, MachineFacts DEF ScInv, AbortInv
<1> DEFINE s == IF PlacesOf(u, r) # {} THEN "open" ELSE ioreq[r].state
<1>1. /\ DeviceTypeOK /\ machine.pc = "abort" /\ machine' = Running /\ ~IsTemp(u, r)
      /\ devst' = [devst EXCEPT ![u].table = Released(u, r)] /\ ioreq' = [ioreq EXCEPT ![r].state = s]
      /\ UNCHANGED <<pdevst, hostOpen, devThread, changeSem, replies, scsiResets, commands>>
  BY <1>0 DEF ScInv, AbortEnds
<1>2. Running \in MachineState /\ machine'.pc = "run"
  BY <1>1, MachineFacts
<1>3. UnitIs(u, devst[u].opencnt, Released(u, r), devst[u].requests, devst[u].running, devst[u].sync)
  BY <1>1, ReleasedIs, TableSet
<1>4. RequestIs(r, s, u, ioreq[r].handle)
  <2>1. s \in {"closed", "open", "sent", "held"}
    BY <1>0
  <2> HIDE DEF s
  <2> QED
    BY <1>0, <1>1, <2>1, RequestSet
<1>5. DeviceTypeOK'
  BY <1>1, <1>2, <1>3, <1>4, ScTypesAre, ScTypesAreNext DEF UnitIs, RequestIs
<1>6. ~Exiting /\ ~Exiting'
      /\ \A v \in ScsiUnit : ~OpenedAt(v) /\ ~OpenedAt(v)' /\ ~StoppedAt(v) /\ ~StoppedAt(v)'
  BY <1>1, <1>2 DEF Exiting, OpenedAt, StoppedAt
<1>7. Life(u)'
  <2>1. Life(u)
    BY DEF ScInv, LifeInv
  <2>2. devst'[u].opencnt = devst[u].opencnt /\ (Off(u) => Off(u)') /\ (Ending(u) => Ending(u)')
        /\ (Serving(u) => Serving(u)')
    BY <1>1, <1>3 DEF UnitIs, Off, Ending, Serving, Busy
  <2> QED
    BY <1>6, <2>1, <2>2 DEF Life
<1>8. SameOpens
  BY <1>0, <1>4 DEF RequestIs, SameOpens
<1>9. LifeInv' /\ ExitInv' /\ CountInv' /\ HandleInv'
  BY <1>1, <1>3, <1>6, <1>7, <1>8, MachineWorks DEF UnitIs
<1>10. WayInv /\ TableInv /\ HeldInv
  BY <1>6 DEF ScInv, RequestInv
<1>11. ASSUME NEW x \in Ioreq, NEW v \in ScsiUnit
       PROVE  devst'[v].requests = devst[v].requests /\ (HasIt(v, x)' <=> HasIt(v, x))
              /\ (AtReply(v, x)' <=> AtReply(v, x))
  BY <1>1, <1>3 DEF UnitIs, HasIt, AtReply, ThreadAt
<1>12. HomeInv'
  BY <1>8, <1>11 DEF ScInv, HomeInv, SameOpens
(* What is in the table can only be held; what is not is as it was.          *)
<1>13. /\ PlacesOf(u, r) # {} => ioreq[r].state = "held" /\ ioreq'[r].state = "open"
       /\ PlacesOf(u, r) = {} => ioreq[r].state = "sent" /\ ioreq'[r].state = "sent"
  <2>1. ASSUME PlacesOf(u, r) # {} PROVE ioreq[r].state = "held" /\ ioreq'[r].state = "open"
    <3>1. PICK k \in Place : devst[u].table[k].req = r
      BY <2>1 DEF PlacesOf
    <3>2. devst[u].table[k].type # "temp"
      <4>1. devst[u].table[k] \in [req : Req, type : {"none", "temp", "changeint"}]
        BY <1>1, UnitFacts DEF Table
      <4> QED
        BY <1>1, <3>1, <4>1 DEF IsTemp
    <3> QED
      BY <1>4, <1>10, <2>1, <3>1, <3>2 DEF TableInv, Entry, RequestIs
  <2>2. ASSUME PlacesOf(u, r) = {} PROVE ioreq[r].state = "sent" /\ ioreq'[r].state = "sent"
    BY <1>0, <1>4, <1>10, <2>2 DEF HeldInv, RequestIs
  <2> QED
    BY <2>1, <2>2
<1>14. WayInv'
  <2> SUFFICES ASSUME NEW x \in Ioreq
               PROVE  Ways(x, ioreq[x].unit)' = (IF ioreq'[x].state = "sent" THEN 1 ELSE 0)
    BY WayIs
  <2>1. Ways(x, ioreq[x].unit)' = Ways(x, ioreq[x].unit)
    BY <1>1, <1>8, <1>11, RequestFacts DEF Ways, SameOpens
  <2>2. ioreq'[x].state = "sent" <=> ioreq[x].state = "sent"
    BY <1>4, <1>13 DEF RequestIs
  <2> QED
    BY <1>10, <2>1, <2>2, WayIs
<1>15. devst'[u].table = Released(u, r) /\ \A v \in ScsiUnit : v # u => devst'[v].table = devst[v].table
  BY <1>3 DEF UnitIs
<1>16. TableInv'
  <2> SUFFICES ASSUME NEW v \in ScsiUnit, NEW i \in Place, devst'[v].table[i].req \in Ioreq PROVE Entry(v, i)'
    BY DEF TableInv
  <2>1. ASSUME NEW j \in Place, devst'[v].table[j].req \in Ioreq
        PROVE  devst'[v].table[j] = devst[v].table[j] /\ devst[v].table[j].req # r
    <3>1. CASE v = u
      BY <1>1, <1>10, <1>15, <2>1, <3>1, ReleasedOnce
    <3>2. CASE v # u
      BY <1>0, <1>10, <1>15, <2>1, <3>2 DEF TableInv, Entry
    <3> QED
      BY <3>1, <3>2
  <2>2. Entry(v, i) /\ devst'[v].table[i] = devst[v].table[i] /\ devst[v].table[i].req # r
    BY <1>10, <2>1 DEF TableInv
  <2>3. ioreq'[devst[v].table[i].req] = ioreq[devst[v].table[i].req]
    BY <1>4, <2>2 DEF RequestIs
  <2>4. \A j \in Place : devst'[v].table[j].req = devst[v].table[i].req
              => devst'[v].table[j] = devst[v].table[j]
    BY <2>1, <2>2
  <2> QED
    BY <1>1, <1>11, <2>2, <2>3, <2>4 DEF Entry
<1>17. HeldInv'
  <2> SUFFICES ASSUME NEW x \in Ioreq, ioreq'[x].state = "held"
               PROVE  \E i \in Place : devst'[ioreq'[x].unit].table[i].req = x
    BY DEF HeldInv, PlacesOf
  <2>1. x # r /\ ioreq'[x] = ioreq[x] /\ ioreq[x].unit \in ScsiUnit
    BY <1>1, <1>4, <1>13, RequestFacts DEF RequestIs
  <2>2. PICK i \in Place : devst[ioreq[x].unit].table[i].req = x
    BY <1>10, <2>1 DEF HeldInv, PlacesOf
  <2>3. devst'[ioreq[x].unit].table[i] = devst[ioreq[x].unit].table[i]
    BY <1>1, <1>10, <1>15, <2>1, <2>2, ReleasedOnce
  <2> QED
    BY <2>1, <2>2, <2>3
<1>18. AbortInv'
  BY <1>2 DEF AbortInv
<1> QED
  BY <1>5, <1>9, <1>12, <1>14, <1>16, <1>17, <1>18 DEF ScInv, RequestInv

(* A reply that is not of before a reset ends the way of its request.        *)
LEMMA IntRepliesKeeps ==
  ASSUME ScInv, IntReplies
  PROVE  ScInv'
<1> DEFINE h == Head(replies)
<1>1. /\ DeviceTypeOK /\ machine.pc = "run" /\ replies # <<>> /\ replies' = Tail(replies)
      /\ ioreq' = [r \in Ioreq |-> IF r = h THEN [ioreq[r] EXCEPT !.state = "open"] ELSE ioreq[r]]
      /\ UNCHANGED <<devst, pdevst, hostOpen, devThread, changeSem, machine, scsiResets, commands>>
  BY DEF ScInv, IntReplies
<1>2. replies \in Seq(Req) /\ Tail(replies) \in Seq(Req) /\ h \in Req
  BY <1>1, ScTypesAre, ZeroFollows
<1>3. ~Exiting /\ ~Exiting' /\ WayInv /\ TableInv /\ HeldInv
  BY <1>1 DEF Exiting, ScInv, RequestInv
<1>4. ASSUME NEW r \in Ioreq
      PROVE  /\ OccursIn(r, replies) = OccursIn(r, replies') + (IF h = r THEN 1 ELSE 0)
             /\ OccursIn(r, replies) \in Nat /\ OccursIn(r, replies') \in Nat
  BY <1>1, <1>2, OccursRead, SitesCounted
<1>5. ASSUME NEW r \in Ioreq, r = h
      PROVE  /\ ioreq[r].state = "sent" /\ Ways(r, ioreq[r].unit) = 1
             /\ OccursIn(r, replies') = 0 /\ OccursIn(r, devst[ioreq[r].unit].requests) = 0
             /\ ~HasIt(ioreq[r].unit, r)
  <2>1. ioreq[r].unit \in ScsiUnit
    BY <1>1, RequestFacts
  <2>2. OccursIn(r, replies) > 0
    BY <1>4, <1>5
  <2>3. Ways(r, ioreq[r].unit) > 0 /\ OccursIn(r, devst[ioreq[r].unit].requests) \in Nat
    BY <1>1, <2>1, <2>2, WaysCounted DEF Ways
  <2>4. ioreq[r].state = "sent" /\ Ways(r, ioreq[r].unit) = 1
    BY <1>3, <2>3, WayIs
  <2> QED
    BY <1>4, <1>5, <2>2, <2>3, <2>4 DEF Ways
<1>6. ASSUME NEW r \in Ioreq
      PROVE  /\ ioreq'[r] \in Request /\ ioreq'[r].unit = ioreq[r].unit /\ ioreq'[r].handle = ioreq[r].handle
             /\ r # h => ioreq'[r] = ioreq[r]
             /\ r = h => ioreq'[r].state = "open"
  <2>1. ioreq[r] \in Request /\ "open" \in {"closed", "open", "sent", "held"}
    BY <1>1, RequestFacts
  <2>2. [ioreq[r] EXCEPT !.state = "open"] \in Request
    BY <2>1 DEF Request
  <2>3. /\ [ioreq[r] EXCEPT !.state = "open"].unit = ioreq[r].unit
        /\ [ioreq[r] EXCEPT !.state = "open"].handle = ioreq[r].handle
        /\ [ioreq[r] EXCEPT !.state = "open"].state = "open"
    BY <2>1 DEF Request
  <2>4. ioreq'[r] = IF r = h THEN [ioreq[r] EXCEPT !.state = "open"] ELSE ioreq[r]
    BY <1>1
  <2> QED
    BY <2>1, <2>2, <2>3, <2>4
<1>7. DeviceTypeOK'
  <2>1. ioreq' \in [Ioreq -> Request]
    BY <1>1, <1>6
  <2> QED
    BY <1>1, <1>2, <2>1, ScTypesAre, ScTypesAreNext
<1>8. SameOpens
  BY <1>5, <1>6 DEF SameOpens
<1>9. LifeInv' /\ ExitInv' /\ CountInv' /\ HandleInv'
  <2>1. 0 \in ScsiUnit /\ \A v \in ScsiUnit : OpenedAt(v)' <=> OpenedAt(v)
    BY <1>1, ScConstants DEF OpenedAt
  <2>2. Life(0)'
    BY <1>1, <2>1, LifeGoesOn DEF ScInv, StoppedAt
  <2> QED
    BY <1>1, <1>3, <1>8, <2>1, <2>2, MachineWorks
<1>10. ASSUME NEW x \in Ioreq, NEW v \in ScsiUnit
       PROVE  (HasIt(v, x)' <=> HasIt(v, x)) /\ (AtReply(v, x)' <=> AtReply(v, x))
  BY <1>1 DEF HasIt, AtReply, ThreadAt
<1>11. HomeInv'
  BY <1>1, <1>8, <1>10 DEF ScInv, HomeInv, SameOpens
<1>12. WayInv'
  <2> SUFFICES ASSUME NEW r \in Ioreq
               PROVE  Ways(r, ioreq[r].unit)' = (IF ioreq'[r].state = "sent" THEN 1 ELSE 0)
    BY WayIs
  <2>1. ioreq[r].unit \in ScsiUnit /\ ioreq'[r].unit = ioreq[r].unit
    BY <1>1, <1>6, RequestFacts
  <2>2. CASE r = h
    <3>1. ioreq'[r].state = "open"
      BY <1>6, <2>2
    <3> QED
      BY <1>1, <1>5, <1>10, <2>1, <2>2, <3>1 DEF Ways
  <2>3. CASE r # h
    <3>1. Ways(r, ioreq[r].unit)' = Ways(r, ioreq[r].unit)
      BY <1>1, <1>4, <1>10, <2>1, <2>3 DEF Ways
    <3> QED
      BY <1>3, <1>6, <2>3, <3>1, WayIs
  <2> QED
    BY <2>2, <2>3
<1>13. TableInv'
  <2> SUFFICES ASSUME NEW v \in ScsiUnit, NEW i \in Place, devst[v].table[i].req \in Ioreq PROVE Entry(v, i)'
    BY <1>1 DEF TableInv
  <2>1. Entry(v, i)
    BY <1>3 DEF TableInv
  <2>2. devst[v].table[i].req # h
    BY <1>4, <1>5, <2>1 DEF Entry
  <2>3. ioreq'[devst[v].table[i].req] = ioreq[devst[v].table[i].req]
    BY <1>6, <2>2
  <2>4. OccursIn(devst[v].table[i].req, replies') = OccursIn(devst[v].table[i].req, replies)
    BY <1>4, <2>2
  <2> QED
    BY <1>1, <1>10, <2>1, <2>3, <2>4 DEF Entry
<1>14. HeldInv'
  <2> SUFFICES ASSUME NEW r \in Ioreq, ioreq'[r].state = "held" PROVE PlacesOf(ioreq[r].unit, r) # {}
    BY <1>1, <1>6 DEF HeldInv, PlacesOf
  <2> QED
    BY <1>3, <1>6 DEF HeldInv
<1>15. AbortInv'
  BY <1>1 DEF AbortInv
<1> QED
  BY <1>7, <1>9, <1>11, <1>12, <1>13, <1>14, <1>15 DEF ScInv, RequestInv

(* Who has a unit open.                                                      *)
LEMMA OpenFacts ==
  ASSUME DeviceTypeOK, CountInv, ~Exiting, NEW u \in ScsiUnit
  PROVE  /\ IsFiniteSet(OpenAt(u)) /\ OpenAt(u) \subseteq Ioreq /\ devst[u].opencnt = Cardinality(OpenAt(u))
         /\ Cardinality(OpenAt(u)) \in Nat /\ Cardinality(OpenAt(u)) <= Cardinality(Ioreq)
         /\ devst[u].opencnt > 0 <=> OpenAt(u) # {}
<1>1. OpenAt(u) \subseteq Ioreq /\ IsFiniteSet(Ioreq)
  BY ScConstants DEF OpenAt
<1>2. IsFiniteSet(OpenAt(u)) /\ Cardinality(OpenAt(u)) <= Cardinality(Ioreq)
  BY <1>1, FS_Subset
<1>3. Cardinality(OpenAt(u)) \in Nat /\ (Cardinality(OpenAt(u)) = 0 <=> OpenAt(u) = {})
  BY <1>2, FS_CardinalityType, FS_EmptySet
<1>4. devst[u].opencnt = Cardinality(OpenAt(u))
  BY DEF CountInv, Cleared, Exiting
<1> QED
  BY <1>1, <1>2, <1>3, <1>4

(* A unit that some program has open serves, between the calls.              *)
LEMMA OpenServes ==
  ASSUME ScInv, machine.pc = "run", NEW u \in ScsiUnit, OpenAt(u) # {}
  PROVE  Serving(u) /\ devst[u].opencnt > 0
<1>1. ~Exiting /\ ~OpenedAt(u) /\ ~StoppedAt(u)
  BY DEF Exiting, OpenedAt, StoppedAt
<1>2. devst[u].opencnt > 0 /\ Life(u)
  BY <1>1, OpenFacts DEF ScInv, LifeInv
<1> QED
  BY <1>1, <1>2 DEF Life

(* What is not sent is nowhere.                                              *)
LEMMA NotSentNowhere ==
  ASSUME ScInv, ~Exiting, NEW r \in Ioreq, ioreq[r].state # "sent"
  PROVE  /\ OccursIn(r, replies) = 0
         /\ \A v \in ScsiUnit : OccursIn(r, devst[v].requests) = 0 /\ ~HasIt(v, r) /\ ~AtReply(v, r)
<1>1. DeviceTypeOK /\ WayInv /\ HomeInv /\ ioreq[r].unit \in ScsiUnit
  BY RequestFacts DEF ScInv, RequestInv
<1>2. Ways(r, ioreq[r].unit) = 0
  BY <1>1, WayIs
<1>3. OccursIn(r, replies) = 0 /\ OccursIn(r, devst[ioreq[r].unit].requests) = 0 /\ ~HasIt(ioreq[r].unit, r)
  BY <1>1, <1>2, WaysCounted DEF Ways
<1>4. ASSUME NEW v \in ScsiUnit PROVE OccursIn(r, devst[v].requests) = 0 /\ ~HasIt(v, r)
  BY <1>1, <1>3, WaysCounted DEF HomeInv
<1> QED
  BY <1>3, <1>4 DEF AtReply, HasIt, ThreadAt

(* A request sent is in the pipe, and in one place of the table if there is  *)
(* room.                                                                     *)
LEMMA BeginsKeeps ==
  ASSUME ScInv, NEW r \in Ioreq, NEW c \in {"io", "add", "rem"}, BeginsIO(r, c)
  PROVE  ScInv'
<1>0. PICK u \in ScsiUnit : u = ioreq[r].unit
  BY RequestFacts DEF ScInv
<1> DEFINE t == Added(u, r, "temp")
           q == devst[u].requests
<1>1. /\ DeviceTypeOK /\ machine.pc = "run" /\ commands < MaxCommands /\ ioreq[r].state \in {"open", "held"}
      /\ devst' = [devst EXCEPT ![u].table = t, ![u].requests = Append(q, r)]
      /\ ioreq' = [ioreq EXCEPT ![r].state = "sent", ![r].command = c] /\ commands' = commands + 1
      /\ UNCHANGED <<pdevst, hostOpen, devThread, changeSem, replies, machine, scsiResets>>
  BY <1>0 DEF ScInv, BeginsIO
<1>2. ~Exiting /\ ~Exiting' /\ WayInv /\ TableInv /\ HeldInv
  BY <1>1 DEF Exiting, ScInv, RequestInv
<1>3. RequestIs(r, "sent", u, ioreq[r].handle)
  BY <1>0, <1>1, RequestSent
<1>4. q \in Seq(Req) /\ Append(q, r) \in Seq(Req) /\ t \in Table
  BY <1>1, UnitFacts, ZeroFollows, AddedIs
<1>5. UnitIs(u, devst[u].opencnt, t, Append(q, r), devst[u].running, devst[u].sync)
  <2> HIDE DEF t
  <2> QED
    BY <1>1, <1>4, UnitBegins
<1>6. DeviceTypeOK'
  <2>1. commands' \in 0..MaxCommands
    BY <1>1, ScTypesAre, ScConstants
  <2> QED
    BY <1>1, <1>3, <1>5, <2>1, ScTypesAre, ScTypesAreNext DEF UnitIs, RequestIs
<1>7. Serving(u) /\ devst[u].opencnt > 0
  <2>1. r \in OpenAt(u)
    BY <1>0, <1>1 DEF OpenAt
  <2> QED
    BY <1>1, <2>1, OpenServes
<1>8. Life(u)'
  <2>1. NoZero(Append(q, r))
    BY <1>4, <1>7, ZeroFollows DEF Serving
  <2>2. Serving(u)' /\ devst'[u].opencnt > 0
    BY <1>1, <1>5, <1>7, <2>1 DEF UnitIs, Serving, Busy
  <2>3. ~OpenedAt(u)' /\ ~StoppedAt(u)' /\ devst'[u].opencnt # 0
    BY <1>1, <2>2 DEF OpenedAt, StoppedAt
  <2> QED
    BY <2>2, <2>3 DEF Life
<1>9. SameOpens
  BY <1>0, <1>1, <1>3 DEF RequestIs, SameOpens
<1>10. LifeInv' /\ ExitInv' /\ CountInv' /\ HandleInv'
  <2>1. \A v \in ScsiUnit : OpenedAt(v)' <=> OpenedAt(v)
    BY <1>1 DEF OpenedAt
  <2> QED
    BY <1>1, <1>2, <1>5, <1>8, <1>9, <2>1, MachineWorks DEF UnitIs
<1>11. /\ OccursIn(r, replies) = 0
       /\ \A v \in ScsiUnit : OccursIn(r, devst[v].requests) = 0 /\ ~HasIt(v, r) /\ ~AtReply(v, r)
  BY <1>1, <1>2, NotSentNowhere
<1>12. ASSUME NEW x \in Ioreq, NEW v \in ScsiUnit
       PROVE  /\ HasIt(v, x)' <=> HasIt(v, x)
              /\ AtReply(v, x)' <=> AtReply(v, x)
              /\ x # r \/ v # u => OccursIn(x, devst'[v].requests) = OccursIn(x, devst[v].requests)
              /\ x = r /\ v = u => OccursIn(x, devst'[v].requests) = 1
  <2>1. (HasIt(v, x)' <=> HasIt(v, x)) /\ (AtReply(v, x)' <=> AtReply(v, x))
    BY <1>1 DEF HasIt, AtReply, ThreadAt
  <2> DEFINE w == Append(q, r)
  <2>2. r \in Req /\ OccursIn(x, q) \in Nat
    BY <1>4, SitesCounted DEF Req
  <2>3. OccursIn(x, w) = OccursIn(x, q) + (IF r = x THEN 1 ELSE 0)
    BY <1>4, <2>2, OccursAppended
  <2>4. devst'[u].requests = w /\ (v # u => devst'[v].requests = devst[v].requests)
    BY <1>5 DEF UnitIs
  <2> HIDE DEF w
  <2>5. CASE v # u
    BY <2>1, <2>4, <2>5
  <2>6. CASE v = u /\ x # r
    <3>1. OccursIn(x, devst'[v].requests) = OccursIn(x, q)
      BY <2>2, <2>3, <2>4, <2>6
    <3> QED
      BY <2>1, <2>6, <3>1
  <2>7. CASE v = u /\ x = r
    <3>1. OccursIn(x, q) = 0
      BY <1>11, <2>7
    <3>2. OccursIn(x, devst'[v].requests) = 1
      BY <2>3, <2>4, <2>7, <3>1
    <3> QED
      BY <2>1, <2>7, <3>2
  <2> QED
    BY <2>5, <2>6, <2>7
<1>13. HomeInv'
  <2> SUFFICES ASSUME NEW v \in ScsiUnit, NEW x \in Ioreq, OccursIn(x, devst'[v].requests) > 0 \/ HasIt(v, x)'
               PROVE  ioreq'[x].unit = v /\ ioreq'[x].state # "closed"
    BY DEF HomeInv
  <2>1. CASE x = r /\ v = u
    BY <1>3, <2>1 DEF RequestIs
  <2>2. CASE x # r \/ v # u
    <3>1. ioreq[x].unit = v /\ ioreq[x].state # "closed"
      BY <1>12, <2>2 DEF ScInv, HomeInv
    <3> QED
      BY <1>9, <3>1 DEF SameOpens
  <2> QED
    BY <2>1, <2>2
<1>14. WayInv'
  <2> SUFFICES ASSUME NEW x \in Ioreq
               PROVE  Ways(x, ioreq[x].unit)' = (IF ioreq'[x].state = "sent" THEN 1 ELSE 0)
    BY WayIs
  <2>1. ioreq[x].unit \in ScsiUnit /\ ioreq'[x].unit = ioreq[x].unit
    BY <1>1, <1>9, RequestFacts DEF SameOpens
  <2>2. CASE x = r
    <3>1. ioreq'[x].state = "sent" /\ ioreq[x].unit = u
      BY <1>0, <1>3, <2>2 DEF RequestIs
    <3>2. OccursIn(x, devst'[u].requests) = 1 /\ OccursIn(x, replies') = 0 /\ ~HasIt(u, x)'
      BY <1>1, <1>11, <1>12, <2>2
    <3> QED
      BY <2>1, <3>1, <3>2 DEF Ways
  <2>3. CASE x # r
    <3>1. ioreq'[x] = ioreq[x]
      BY <1>3, <2>3 DEF RequestIs
    <3>2. Ways(x, ioreq[x].unit)' = Ways(x, ioreq[x].unit)
      BY <1>1, <1>12, <2>1, <2>3 DEF Ways
    <3> QED
      BY <1>2, <3>1, <3>2, WayIs
  <2> QED
    BY <2>2, <2>3
<1>15. /\ devst'[u].table = t /\ \A v \in ScsiUnit : v # u => devst'[v].table = devst[v].table
       /\ ioreq'[r].state = "sent" /\ ioreq'[r].unit = u /\ \A x \in Ioreq : x # r => ioreq'[x] = ioreq[x]
  BY <1>3, <1>5 DEF UnitIs, RequestIs
(* It has the one place it found, or none.                                   *)
<1>16. PICK S \in SUBSET Place :
         /\ \A k \in S : t[k].req = r /\ t[k].type = "temp" /\ devst[u].table[k].req \in {r, NoReq}
         /\ \A k, j \in S : k = j
         /\ \A i \in Place \ S : t[i] = devst[u].table[i] /\ devst[u].table[i].req # r
  <2>1. CASE CanAdd(u, r)
    <3>1. PICK k \in Place : /\ t[k].req = r /\ t[k].type = "temp" /\ devst[u].table[k].req \in {r, NoReq}
                             /\ \A i \in Place : i # k
                                      => t[i] = devst[u].table[i] /\ devst[u].table[i].req # r
      BY <1>1, <1>2, <2>1, AddedOnce
    <3> WITNESS {k} \in SUBSET Place
    <3> QED
      BY <3>1
  <2>2. CASE ~CanAdd(u, r)
    <3>1. t = devst[u].table /\ PlacesOf(u, r) = {}
      BY <1>1, <2>2, AddedIs
    <3> WITNESS {} \in SUBSET Place
    <3> QED
      BY <3>1 DEF PlacesOf
  <2> QED
    BY <2>1, <2>2
<1> HIDE DEF t
<1>17. TableInv'
  <2> SUFFICES ASSUME NEW v \in ScsiUnit, NEW i \in Place, devst'[v].table[i].req \in Ioreq PROVE Entry(v, i)'
    BY DEF TableInv
  <2>1. CASE v = u /\ i \in S
    <3>1. \A j \in Place : devst'[u].table[j].req = r => j = i
      BY <1>15, <1>16, <2>1
    <3>2. devst'[v].table[i].req = r /\ devst'[v].table[i].type = "temp"
      BY <1>15, <1>16, <2>1
    <3>3. OccursIn(r, replies') = 0 /\ ~AtReply(v, r)'
      BY <1>1, <1>11, <1>12
    <3> QED
      BY <1>15, <2>1, <3>1, <3>2, <3>3 DEF Entry
  <2>2. CASE ~(v = u /\ i \in S)
    <3>1. devst'[v].table[i] = devst[v].table[i]
      BY <1>15, <1>16, <2>2
    <3>2. Entry(v, i)
      BY <1>2, <3>1 DEF TableInv
    <3>3. devst[v].table[i].req # r
      <4>1. CASE v = u
        BY <1>16, <2>2, <4>1
      <4>2. CASE v # u
        BY <1>0, <3>2, <4>2 DEF Entry
      <4> QED
        BY <4>1, <4>2
    <3>4. \A j \in Place : devst'[v].table[j].req = devst[v].table[i].req
                => devst'[v].table[j] = devst[v].table[j]
      BY <1>15, <1>16, <3>3
    <3>5. AtReply(v, devst[v].table[i].req)' => AtReply(v, devst[v].table[i].req)
      BY <1>1, <3>1 DEF AtReply, ThreadAt
    <3>6. ioreq'[devst[v].table[i].req] = ioreq[devst[v].table[i].req]
      BY <1>15, <3>1, <3>3
    <3> QED
      BY <1>1, <3>1, <3>2, <3>4, <3>5, <3>6 DEF Entry
  <2> QED
    BY <2>1, <2>2
<1>18. HeldInv'
  <2> SUFFICES ASSUME NEW x \in Ioreq, ioreq'[x].state = "held"
               PROVE  \E i \in Place : devst'[ioreq'[x].unit].table[i].req = x
    BY DEF HeldInv, PlacesOf
  <2>1. x # r /\ ioreq'[x] = ioreq[x] /\ ioreq[x].unit \in ScsiUnit
    BY <1>1, <1>15, RequestFacts
  <2>2. PICK i \in Place : devst[ioreq[x].unit].table[i].req = x
    BY <1>2, <2>1 DEF HeldInv, PlacesOf
  <2>3. devst'[ioreq[x].unit].table[i] = devst[ioreq[x].unit].table[i]
    BY <1>15, <1>16, <2>1, <2>2, ScConstants
  <2> QED
    BY <2>1, <2>2, <2>3
<1>19. AbortInv'
  BY <1>1 DEF AbortInv
<1> QED
  BY <1>6, <1>10, <1>13, <1>14, <1>17, <1>18, <1>19 DEF ScInv, RequestInv

(* Opening and closing concern no request that is on its way.                *)
LEMMA OpensOrCloses ==
  ASSUME ScInv, ~Exiting, ~Exiting', machine'.pc # "abort",
         NEW r \in Ioreq, ioreq[r].state \in {"closed", "open"},
         NEW st \in {"closed", "open"}, NEW u \in ScsiUnit, NEW p, RequestIs(r, st, u, p), replies' = replies,
         \A x \in Ioreq, v \in ScsiUnit : /\ OccursIn(x, devst'[v].requests) = OccursIn(x, devst[v].requests)
                                          /\ HasIt(v, x)' <=> HasIt(v, x)
                                          /\ AtReply(v, x)' => AtReply(v, x),
         \A v \in ScsiUnit : devst'[v].table = devst[v].table
  PROVE  HomeInv' /\ RequestInv'
<1>1. DeviceTypeOK /\ HomeInv /\ WayInv /\ TableInv /\ HeldInv
  BY DEF ScInv, RequestInv
<1>2. /\ OccursIn(r, replies) = 0
      /\ \A v \in ScsiUnit : OccursIn(r, devst[v].requests) = 0 /\ ~HasIt(v, r) /\ ~AtReply(v, r)
  BY NotSentNowhere
<1>3. ioreq'[r].state = st /\ ioreq'[r].unit = u /\ \A x \in Ioreq : x # r => ioreq'[x] = ioreq[x]
  BY DEF RequestIs
<1>4. HomeInv'
  BY <1>1, <1>2, <1>3 DEF HomeInv
<1>5. WayInv'
  <2> SUFFICES ASSUME NEW x \in Ioreq
               PROVE  Ways(x, ioreq[x].unit)' = (IF ioreq'[x].state = "sent" THEN 1 ELSE 0)
    BY WayIs
  <2>1. CASE x = r
    BY <1>2, <1>3, <2>1 DEF Ways
  <2>2. CASE x # r
    <3>1. ioreq'[x] = ioreq[x] /\ ioreq[x].unit \in ScsiUnit
      BY <1>1, <1>3, <2>2, RequestFacts
    <3>2. Ways(x, ioreq[x].unit)' = Ways(x, ioreq[x].unit)
      BY <3>1 DEF Ways
    <3> QED
      BY <1>1, <3>1, <3>2, WayIs
  <2> QED
    BY <2>1, <2>2
<1>6. TableInv'
  <2> SUFFICES ASSUME NEW v \in ScsiUnit, NEW i \in Place, devst[v].table[i].req \in Ioreq PROVE Entry(v, i)'
    BY DEF TableInv
  <2>1. Entry(v, i)
    BY <1>1 DEF TableInv
  <2>2. devst[v].table[i].req # r
    BY <2>1 DEF Entry
  <2>3. ioreq'[devst[v].table[i].req] = ioreq[devst[v].table[i].req]
    BY <1>3, <2>2
  <2>4. devst'[v].table = devst[v].table
    OBVIOUS
  <2> QED
    BY <2>1, <2>3, <2>4 DEF Entry
<1>7. HeldInv'
  BY <1>1, <1>3, RequestFacts DEF HeldInv, PlacesOf
<1>8. AbortInv'
  BY DEF AbortInv
<1> QED
  BY <1>4, <1>5, <1>6, <1>7, <1>8 DEF RequestInv

(* One more has the unit open.                                               *)
LEMMA OneMoreOpen ==
  ASSUME DeviceTypeOK, CountInv, ~Exiting, NEW r \in Ioreq, ioreq[r].state = "closed",
         NEW u \in ScsiUnit, NEW p, RequestIs(r, "open", u, p)
  PROVE  /\ OpenAt(u)' = OpenAt(u) \cup {r} /\ r \in OpenAt(u)'
         /\ \A v \in ScsiUnit : (v # u => OpenAt(v)' = OpenAt(v)) /\ r \notin OpenAt(v)
         /\ Cardinality(OpenAt(u)') = devst[u].opencnt + 1 /\ devst[u].opencnt + 1 \in 0..Cardinality(Ioreq)
<1>1. OpenAt(u)' = OpenAt(u) \cup {r} /\ \A v \in ScsiUnit : r \notin OpenAt(v)
  BY DEF RequestIs, OpenAt
<1>2. \A v \in ScsiUnit : v # u => OpenAt(v)' = OpenAt(v)
  BY DEF RequestIs, OpenAt
<1>3. IsFiniteSet(OpenAt(u)) /\ OpenAt(u) \subseteq Ioreq /\ devst[u].opencnt = Cardinality(OpenAt(u))
      /\ Cardinality(OpenAt(u)) \in Nat
  BY OpenFacts
<1>4. Cardinality(OpenAt(u) \cup {r}) = Cardinality(OpenAt(u)) + 1
  BY <1>1, <1>3, FS_AddElement
<1>5. Cardinality(OpenAt(u) \cup {r}) <= Cardinality(Ioreq)
  BY <1>3, ScConstants, FS_Subset
<1> QED
  BY <1>1, <1>2, <1>3, <1>4, <1>5, ScConstants

(* A unit that is open is opened by the handle it has.                       *)
LEMMA OpensAgainKeeps ==
  ASSUME ScInv, NEW r \in Ioreq, NEW u \in ScsiUnit, OpensAgain(r, u)
  PROVE  ScInv'
<1> DEFINE S == {p \in Handle : pdevst[p].inuse /\ pdevst[p].unit = u}
           n == devst[u].opencnt + 1
<1>1. /\ DeviceTypeOK /\ machine.pc = "run" /\ ioreq[r].state = "closed" /\ devst[u].opencnt > 0 /\ S # {}
      /\ ioreq' = [ioreq EXCEPT ![r] = [Closed EXCEPT !.state = "open", !.unit = u, !.handle = FirstOf(S)]]
      /\ devst' = [devst EXCEPT ![u].opencnt = n]
      /\ UNCHANGED <<pdevst, hostOpen, devThread, changeSem, replies, machine, scsiResets, commands>>
  BY DEF ScInv, OpensAgain
<1>2. PICK p \in Handle : p = FirstOf(S) /\ pdevst[p].inuse /\ pdevst[p].unit = u
  <2>1. S \subseteq Handle /\ Handle \subseteq Nat
    BY ScConstants
  <2>2. FirstOf(S) \in S
    BY <1>1, <2>1, FirstIsIn
  <2> QED
    BY <2>2
<1>3. RequestIs(r, "open", u, p)
  BY <1>1, <1>2, RequestOpens
<1>4. ~Exiting /\ ~Exiting'
      /\ \A v \in ScsiUnit : ~OpenedAt(v) /\ ~OpenedAt(v)' /\ ~StoppedAt(v) /\ ~StoppedAt(v)'
  BY <1>1 DEF Exiting, OpenedAt, StoppedAt
<1>5. /\ OpenAt(u)' = OpenAt(u) \cup {r} /\ r \in OpenAt(u)'
      /\ \A v \in ScsiUnit : (v # u => OpenAt(v)' = OpenAt(v)) /\ r \notin OpenAt(v)
      /\ Cardinality(OpenAt(u)') = n /\ n \in 0..Cardinality(Ioreq)
  BY <1>1, <1>3, <1>4, OneMoreOpen DEF ScInv
<1>6. UnitIs(u, n, devst[u].table, devst[u].requests, devst[u].running, devst[u].sync)
  BY <1>1, <1>5, UnitCounted
<1>7. DeviceTypeOK'
  BY <1>1, <1>3, <1>6, ScTypesAre, ScTypesAreNext DEF UnitIs, RequestIs
<1>8. LifeInv'
  <2>1. ASSUME NEW v \in ScsiUnit, v # u PROVE Life(v)'
    BY <1>1, <1>4, <1>6, <2>1, LifeGoesOn DEF ScInv, UnitIs
  <2>2. Life(u)'
    <3>1. Serving(u)
      <4>1. OpenAt(u) # {}
        BY <1>1, <1>4, OpenFacts DEF ScInv
      <4> QED
        BY <1>1, <4>1, OpenServes
    <3>2. Serving(u)'
      BY <1>1, <1>6, <3>1 DEF UnitIs, Serving, Busy
    <3>3. devst'[u].opencnt # 0
      BY <1>1, <1>6, UnitFacts DEF UnitIs
    <3> QED
      BY <1>4, <3>2, <3>3 DEF Life
  <2> QED
    BY <2>1, <2>2 DEF LifeInv
<1>9. ExitInv'
  BY <1>4 DEF ExitInv
<1>10. CountInv'
  <2> SUFFICES ASSUME NEW v \in ScsiUnit
               PROVE  devst'[v].opencnt = Cardinality(OpenAt(v)')
                      /\ (v \in hostOpen <=> devst'[v].opencnt > 0)
    BY <1>1 DEF CountInv
  <2>1. devst[v].opencnt = Cardinality(OpenAt(v)) /\ (v \in hostOpen <=> devst[v].opencnt > 0)
    BY <1>4 DEF ScInv, CountInv, Cleared, Exiting
  <2>2. CASE v = u
    <3>1. devst[u].opencnt \in Nat /\ devst[u].opencnt > 0 /\ u \in hostOpen
      BY <1>1, <2>1, <2>2, UnitFacts
    <3>2. devst'[u].opencnt = devst[u].opencnt + 1
      BY <1>6 DEF UnitIs
    <3>3. devst'[u].opencnt > 0
      BY <3>1, <3>2
    <3> QED
      BY <1>1, <1>5, <2>2, <3>1, <3>2, <3>3
  <2>3. CASE v # u
    <3>1. devst'[v] = devst[v] /\ OpenAt(v)' = OpenAt(v)
      BY <1>5, <1>6, <2>3 DEF UnitIs
    <3> QED
      BY <1>1, <2>1, <3>1
  <2> QED
    BY <2>2, <2>3
<1>11. HandleInv'
  <2>1. HandlesAreUnits'
    <3> SUFFICES ASSUME NEW v \in ScsiUnit, NEW s \in OpenAt(v)'
                 PROVE  pdevst[ioreq'[s].handle].inuse /\ pdevst[ioreq'[s].handle].unit = v
      BY <1>1 DEF HandlesAreUnits
    <3>1. CASE s = r
      BY <1>2, <1>3, <1>5, <3>1 DEF RequestIs
    <3>2. CASE s # r
      <4>1. s \in OpenAt(v) /\ ioreq'[s] = ioreq[s]
        BY <1>3, <1>5, <3>2 DEF RequestIs, OpenAt
      <4> QED
        BY <4>1 DEF ScInv, HandleInv, HandlesAreUnits
    <3> QED
      BY <3>1, <3>2
  <2>2. \A h \in Handle : pdevst[h].unit \in ScsiUnit
    BY <1>1, ScTypesAre DEF HandleState
  <2>3. ASSUME NEW h \in Handle, pdevst'[h].inuse PROVE OpenAt(pdevst[h].unit)' # {}
    <3>1. PICK v \in ScsiUnit : v = pdevst[h].unit
      BY <2>2
    <3>2. OpenAt(v) # {} /\ pdevst'[h].unit = v
      BY <1>1, <2>3, <3>1 DEF ScInv, HandleInv
    <3>3. OpenAt(v)' # {}
      BY <1>5, <3>2
    <3> QED
      BY <3>1, <3>2, <3>3
  <2> QED
    BY <1>1, <2>1, <2>3 DEF ScInv, HandleInv
<1>12. HomeInv' /\ RequestInv'
  <2>1. \A x \in Ioreq, v \in ScsiUnit : /\ OccursIn(x, devst'[v].requests) = OccursIn(x, devst[v].requests)
                                         /\ HasIt(v, x)' <=> HasIt(v, x)
                                         /\ AtReply(v, x)' => AtReply(v, x)
    BY <1>1, <1>6 DEF UnitIs, HasIt, AtReply, ThreadAt
  <2>2. \A v \in ScsiUnit : devst'[v].table = devst[v].table
    BY <1>6 DEF UnitIs
  <2>3. machine'.pc # "abort" /\ ioreq[r].state \in {"closed", "open"} /\ replies' = replies
    BY <1>1
  <2> QED
    BY <1>3, <1>4, <2>1, <2>2, <2>3, OpensOrCloses
<1> QED
  BY <1>7, <1>8, <1>9, <1>10, <1>11, <1>12 DEF ScInv

(* The last close takes the handle from nobody else, and the thread ends     *)
(* after the requests that are before the zero request.                      *)
LEMMA ClosesKeeps ==
  ASSUME ScInv, NEW r \in Ioreq, Closes(r)
  PROVE  ScInv'
<1>0. PICK u \in ScsiUnit : u = ioreq[r].unit
  BY RequestFacts DEF ScInv
<1>1. PICK p \in Handle : p = ioreq[r].handle
  BY RequestFacts DEF ScInv
<1> DEFINE last == devst[u].opencnt = 1
           n == devst[u].opencnt - 1
           q == devst[u].requests
           w == IF last THEN Append(q, NoReq) ELSE q
<1>2. DeviceTypeOK /\ machine.pc = "run" /\ ioreq[r].state = "open" /\ ~Exiting /\ ~Exiting'
  BY DEF ScInv, Closes, Exiting
<1>3. r \in OpenAt(u) /\ pdevst[p].inuse /\ pdevst[p].unit = u
  BY <1>0, <1>1, <1>2 DEF ScInv, HandleInv, HandlesAreUnits, OpenAt
<1>4. /\ devst' = [devst EXCEPT ![u].opencnt = n, ![u].requests = w]
      /\ hostOpen' = (IF last THEN hostOpen \ {u} ELSE hostOpen)
      /\ pdevst' = [pdevst EXCEPT ![p].inuse = ~last] /\ ioreq' = [ioreq EXCEPT ![r] = Closed]
      /\ UNCHANGED <<devThread, changeSem, replies, machine, scsiResets, commands>>
  BY <1>1, <1>3 DEF Closes
<1>5. RequestIs(r, "closed", 0, 0)
  BY <1>2, <1>4, RequestCloses
<1>6. OpenAt(u)' = OpenAt(u) \ {r} /\ \A v \in ScsiUnit : v # u => OpenAt(v)' = OpenAt(v)
  <2>1. OpenAt(u)' = OpenAt(u) \ {r}
    BY <1>5 DEF RequestIs, OpenAt
  <2>2. \A v \in ScsiUnit : v # u => r \notin OpenAt(v)
    BY <1>0 DEF OpenAt
  <2>3. \A v \in ScsiUnit : OpenAt(v)' = OpenAt(v) \ {r}
    BY <1>5 DEF RequestIs, OpenAt
  <2> QED
    BY <2>1, <2>2, <2>3
<1>7. /\ Cardinality(OpenAt(u)') = n /\ n \in 0..Cardinality(Ioreq) /\ (n > 0 <=> ~last)
      /\ (last <=> OpenAt(u)' = {})
  <2>1. /\ IsFiniteSet(OpenAt(u)) /\ devst[u].opencnt = Cardinality(OpenAt(u)) /\ devst[u].opencnt > 0
        /\ Cardinality(OpenAt(u)) \in Nat /\ Cardinality(OpenAt(u)) <= Cardinality(Ioreq)
    BY <1>2, <1>3, OpenFacts DEF ScInv
  <2>2. IsFiniteSet(OpenAt(u) \ {r}) /\ Cardinality(OpenAt(u) \ {r}) = Cardinality(OpenAt(u)) - 1
    BY <1>3, <2>1, FS_RemoveElement
  <2>3. Cardinality(OpenAt(u) \ {r}) = 0 <=> OpenAt(u) \ {r} = {}
    BY <2>2, FS_EmptySet
  <2> QED
    BY <1>6, <2>1, <2>2, <2>3, ScConstants
<1>8. q \in Seq(Req) /\ w \in Seq(Req)
  BY <1>2, UnitFacts, ZeroFollows
<1>9. UnitIs(u, n, devst[u].table, w, devst[u].running, devst[u].sync)
  <2> HIDE DEF w, n
  <2> QED
    BY <1>2, <1>4, <1>7, <1>8, UnitCloses
<1>10. /\ pdevst' \in [Handle -> HandleState] /\ (pdevst'[p].inuse <=> ~last) /\ pdevst'[p].unit = u
       /\ \A h \in Handle : h # p => pdevst'[h] = pdevst[h]
  <2>1. pdevst \in [Handle -> HandleState] /\ pdevst[p] \in HandleState
    BY <1>2, ScTypesAre
  <2>2. PICK b \in BOOLEAN : b = ~last
    OBVIOUS
  <2>3. pdevst' = [pdevst EXCEPT ![p].inuse = b]
    BY <1>4, <2>2
  <2>4. pdevst'[p] = [pdevst[p] EXCEPT !.inuse = b] /\ \A h \in Handle : h # p => pdevst'[h] = pdevst[h]
    BY <2>1, <2>3
  <2>5. pdevst'[p] \in HandleState /\ pdevst'[p].inuse = b /\ pdevst'[p].unit = u
    BY <1>3, <2>1, <2>4 DEF HandleState
  <2>6. pdevst' \in [Handle -> HandleState]
    BY <2>1, <2>3, <2>5
  <2> QED
    BY <2>2, <2>4, <2>5, <2>6, Zenon
<1>11. DeviceTypeOK'
  BY <1>2, <1>4, <1>5, <1>9, <1>10, ScTypesAre, ScTypesAreNext DEF UnitIs, RequestIs
<1>12. \A v \in ScsiUnit : ~OpenedAt(v) /\ ~OpenedAt(v)' /\ ~StoppedAt(v) /\ ~StoppedAt(v)'
  BY <1>2, <1>4 DEF OpenedAt, StoppedAt
<1>13. LifeInv'
  <2>1. ASSUME NEW v \in ScsiUnit, v # u PROVE Life(v)'
    BY <1>4, <1>9, <1>12, <2>1, LifeGoesOn DEF ScInv, UnitIs
  <2>2. Life(u)'
    <3>1. Serving(u)
      BY <1>2, <1>3, OpenServes
    <3>2. CASE last
      <4>1. ZeroLast(w)
        BY <1>8, <3>1, <3>2, ZeroFollows DEF Serving
      <4>2. Ending(u)'
        BY <1>4, <1>9, <3>1, <4>1 DEF UnitIs, Serving, Ending, Busy
      <4>3. devst'[u].opencnt = 0
        BY <1>9, <3>2 DEF UnitIs
      <4> QED
        BY <1>12, <4>2, <4>3 DEF Life
    <3>3. CASE ~last
      <4>1. Serving(u)'
        BY <1>4, <1>9, <3>1, <3>3 DEF UnitIs, Serving, Busy
      <4>2. devst'[u].opencnt # 0
        BY <1>7, <1>9, <3>3 DEF UnitIs
      <4> QED
        BY <1>12, <4>1, <4>2 DEF Life
    <3> QED
      BY <3>2, <3>3
  <2> QED
    BY <2>1, <2>2 DEF LifeInv
<1>14. ExitInv'
  BY <1>2 DEF ExitInv
<1>15. CountInv'
  <2> SUFFICES ASSUME NEW v \in ScsiUnit
               PROVE  devst'[v].opencnt = Cardinality(OpenAt(v)')
                      /\ (v \in hostOpen' <=> devst'[v].opencnt > 0)
    BY DEF CountInv
  <2>1. devst[v].opencnt = Cardinality(OpenAt(v)) /\ (v \in hostOpen <=> devst[v].opencnt > 0)
    BY <1>2 DEF ScInv, CountInv, Cleared, Exiting
  <2>2. CASE v = u
    <3>1. devst'[u].opencnt = n
      BY <1>9 DEF UnitIs
    <3>2. u \in hostOpen
      BY <1>2, <1>3, <2>1, <2>2, OpenFacts DEF ScInv
    <3> HIDE DEF n, last
    <3> QED
      BY <1>4, <1>7, <2>2, <3>1, <3>2
  <2>3. CASE v # u
    <3>1. devst'[v] = devst[v] /\ OpenAt(v)' = OpenAt(v)
      BY <1>6, <1>9, <2>3 DEF UnitIs
    <3> QED
      BY <1>4, <2>1, <2>3, <3>1
  <2> QED
    BY <2>2, <2>3
<1>16. HandleInv'
  <2>0. HandleInv /\ HandlesAreUnits
        /\ \A h \in Handle : pdevst[h].unit \in ScsiUnit /\ pdevst'[h].unit = pdevst[h].unit
    BY <1>2, <1>3, <1>10, ScTypesAre DEF ScInv, HandleInv, HandleState
  <2>1. HandlesAreUnits'
    <3> SUFFICES ASSUME NEW v \in ScsiUnit, NEW s \in OpenAt(v)'
                 PROVE  pdevst'[ioreq'[s].handle].inuse /\ pdevst'[ioreq'[s].handle].unit = v
      BY DEF HandlesAreUnits
    <3>1. s \in OpenAt(v) /\ s # r /\ ioreq'[s] = ioreq[s] /\ s \in Ioreq
      BY <1>5 DEF RequestIs, OpenAt
    <3>2. PICK h \in Handle : h = ioreq[s].handle
      BY <1>2, <3>1, RequestFacts
    <3>3. pdevst[h].inuse /\ pdevst[h].unit = v
      BY <2>0, <3>1, <3>2 DEF HandlesAreUnits
    <3>4. pdevst'[h].inuse
      <4>1. CASE h = p
        <5>1. v = u /\ OpenAt(u)' # {}
          BY <1>3, <3>3, <4>1
        <5> QED
          BY <1>7, <1>10, <4>1, <5>1
      <4>2. CASE h # p
        BY <1>10, <3>3, <4>2
      <4> QED
        BY <4>1, <4>2
    <3> QED
      BY <2>0, <3>1, <3>2, <3>3, <3>4
  <2>2. ASSUME NEW h \in Handle, pdevst'[h].inuse PROVE pdevst[h].inuse /\ OpenAt(pdevst[h].unit)' # {}
    <3>1. pdevst[h].inuse
      BY <1>3, <1>10, <2>2
    <3>2. PICK v \in ScsiUnit : v = pdevst[h].unit /\ pdevst'[h].unit = v
      BY <2>0
    <3>3. OpenAt(v) # {}
      BY <2>0, <3>1, <3>2 DEF HandleInv
    <3>4. OpenAt(v)' # {}
      <4>1. CASE v = u
        <5>1. h = p
          BY <1>3, <2>0, <3>1, <3>2, <4>1 DEF HandleInv
        <5> QED
          BY <1>7, <1>10, <2>2, <4>1, <5>1
      <4>2. CASE v # u
        BY <1>6, <3>3, <4>2
      <4> QED
        BY <4>1, <4>2
    <3> QED
      BY <3>1, <3>2, <3>4
  <2> QED
    BY <2>0, <2>1, <2>2 DEF HandleInv
<1>17. HomeInv' /\ RequestInv'
  <2>1. ASSUME NEW x \in Ioreq, NEW v \in ScsiUnit
        PROVE  OccursIn(x, devst'[v].requests) = OccursIn(x, devst[v].requests)
    <3>1. CASE v # u \/ ~last
      BY <1>9, <3>1 DEF UnitIs
    <3>2. CASE v = u /\ last
      <4>1. OccursIn(x, q) \in Nat /\ NoReq \in Req /\ NoReq # x
        BY <1>8, SitesCounted, ScConstants DEF Req
      <4>2. OccursIn(x, Append(q, NoReq)) = OccursIn(x, q)
        BY <1>8, <4>1, OccursAppended
      <4>3. devst'[v].requests = Append(q, NoReq)
        BY <1>9, <3>2 DEF UnitIs
      <4> QED
        BY <3>2, <4>2, <4>3
    <3> QED
      BY <3>1, <3>2
  <2>2. \A x \in Ioreq, v \in ScsiUnit : (HasIt(v, x)' <=> HasIt(v, x)) /\ (AtReply(v, x)' => AtReply(v, x))
    BY <1>4 DEF HasIt, AtReply, ThreadAt
  <2>3. \A v \in ScsiUnit : devst'[v].table = devst[v].table
    BY <1>9 DEF UnitIs
  <2>4. machine'.pc # "abort" /\ ioreq[r].state \in {"closed", "open"} /\ replies' = replies /\ 0 \in ScsiUnit
    BY <1>2, <1>4, ScConstants
  <2> QED
    BY <1>2, <1>5, <2>1, <2>2, <2>3, <2>4, OpensOrCloses
<1> QED
  BY <1>11, <1>13, <1>14, <1>15, <1>16, <1>17 DEF ScInv

(* There are more handles than units that others have open.                  *)
LEMMA FreeIsFree ==
  ASSUME DeviceTypeOK, HandleInv, NEW u \in ScsiUnit, OpenAt(u) = {}
  PROVE  FreeHandle \in Handle /\ ~pdevst[FreeHandle].inuse
<1> DEFINE F == {p \in Handle : ~pdevst[p].inuse}
<1>1. F # {}
  <2> SUFFICES ASSUME \A p \in Handle : pdevst[p].inuse PROVE FALSE
    OBVIOUS
  <2> DEFINE f == [p \in Handle |-> pdevst[p].unit]
             T == ScsiUnit \ {u}
  <2>1. \A p \in Handle : pdevst[p].unit \in T
    BY ScTypesAre DEF HandleState, HandleInv
  <2>2. f \in [Handle -> T]
    BY <2>1
  <2>3. IsFiniteSet(ScsiUnit) /\ IsFiniteSet(Handle) /\ Cardinality(ScsiUnit) = ScsiUnits
        /\ Cardinality(Handle) = Handles
    BY ScConstants, FS_Interval
  <2>4. IsFiniteSet(T) /\ Cardinality(T) = ScsiUnits - 1
    BY <2>3, FS_RemoveElement
  <2>5. Cardinality(T) < Cardinality(Handle)
    BY <2>3, <2>4, ScConstants
  <2>6. PICK x, y \in Handle : x # y /\ f[x] = f[y]
    <3> HIDE DEF f, T
    <3> QED
      BY <2>2, <2>3, <2>4, <2>5, FS_PigeonHole
  <2> QED
    BY <2>6 DEF HandleInv
<1>2. F \subseteq Nat /\ Handle \subseteq Nat
  BY ScConstants
<1>3. PICK k \in F : \A j \in F : k <= j
  BY <1>1, <1>2, FirstIsIn
<1>4. \A q \in 0 .. k - 1 : pdevst[q].inuse
  <2> TAKE q \in 0 .. k - 1
  <2>1. k \in 0..(Handles - 1) /\ Handles \in Nat
    BY <1>3, ScConstants
  <2>2. q \in Handle /\ ~(k <= q)
    BY <2>1, ScConstants
  <2> QED
    BY <1>3, <2>2
<1>5. \A p \in Handle : (pdevst[p].inuse => p = Handles - 1)
             /\ (\A q \in 0 .. p - 1 : pdevst[q].inuse) => p = k
  <2> TAKE p \in Handle
  <2> HAVE (pdevst[p].inuse => p = Handles - 1) /\ (\A q \in 0 .. p - 1 : pdevst[q].inuse)
  <2>1. k \in 0..(Handles - 1) /\ p \in 0..(Handles - 1) /\ Handles \in Nat
    BY <1>3, ScConstants
  <2>2. ~(k < p)
    <3> SUFFICES ASSUME k < p PROVE FALSE
      OBVIOUS
    <3>1. k \in 0 .. p - 1
      BY <2>1
    <3> QED
      BY <1>3, <3>1
  <2>3. ~(p < k)
    <3> SUFFICES ASSUME p < k PROVE FALSE
      OBVIOUS
    <3>1. pdevst[p].inuse
      BY <1>4, <2>1
    <3> QED
      BY <2>1, <3>1
  <2> QED
    BY <2>1, <2>2, <2>3
<1>6. FreeHandle = k
  BY <1>3, <1>4, <1>5 DEF FreeHandle
<1> QED
  BY <1>3, <1>6

(* A unit that nobody has open, its thread gone, gets a handle of its own.   *)
LEMMA OpensFirstKeeps ==
  ASSUME ScInv, Beyond = {}, NEW r \in Ioreq, NEW u \in ScsiUnit, OpensFirst(r, u)
  PROVE  ScInv'
<1>0. PICK p : p = FreeHandle
  OBVIOUS
<1> DEFINE e == [inuse |-> TRUE, unit |-> u, scsi |-> TRUE]
           t == [NoThread EXCEPT !.pc = "start"]
           m == [Running EXCEPT !.pc = "open", !.unit = u]
<1>1. /\ DeviceTypeOK /\ machine.pc = "run" /\ ioreq[r].state = "closed" /\ devst[u].opencnt = 0
      /\ devThread[u].pc = "off"
      /\ pdevst' = [pdevst EXCEPT ![p] = e] /\ hostOpen' = hostOpen \cup {u}
      /\ ioreq' = [ioreq EXCEPT ![r] = [Closed EXCEPT !.state = "open", !.unit = u, !.handle = p]]
      /\ StartsThread(u)
      /\ UNCHANGED <<changeSem, replies, scsiResets, commands>>
  BY <1>0 DEF ScInv, OpensFirst
<1>2. Off(u)
  <2>1. Life(u)
    BY DEF ScInv, LifeInv
  <2>2. ~Ending(u)
    BY <1>1 DEF Ending, Busy, Serves
  <2> QED
    BY <1>1, <2>1, <2>2 DEF Life
<1>3. /\ devst' = [devst EXCEPT ![u].opencnt = 1, ![u].requests = <<>>, ![u].sync = 0]
      /\ devThread' = [devThread EXCEPT ![u] = t] /\ machine' = m
  BY <1>1, <1>2 DEF Off, StartsThread
<1>4. m \in MachineState /\ m.pc = "open" /\ m.unit = u
  BY <1>1, MachineFacts DEF MachineState
<1>5. ThreadIs(u, "start", NoReq)
  <2>1. t \in ThreadState /\ t.pc = "start" /\ t.req = NoReq
    BY ThreadStates DEF ThreadPC
  <2> HIDE DEF t
  <2> QED
    BY <1>1, <1>3, <2>1, ThreadSet
<1>6. ~Exiting /\ ~Exiting' /\ OpenAt(u) = {}
  <2>1. ~Exiting /\ ~Exiting'
    BY <1>1, <1>3, <1>4 DEF Exiting
  <2> QED
    BY <1>1, <2>1, OpenFacts DEF ScInv
<1>7. p \in Handle /\ ~pdevst[p].inuse
  BY <1>0, <1>1, <1>6, FreeIsFree DEF ScInv
<1>8. RequestIs(r, "open", u, p)
  BY <1>1, <1>7, RequestOpens
<1>9. /\ OpenAt(u)' = OpenAt(u) \cup {r} /\ r \in OpenAt(u)'
      /\ \A v \in ScsiUnit : (v # u => OpenAt(v)' = OpenAt(v)) /\ r \notin OpenAt(v)
      /\ Cardinality(OpenAt(u)') = 1 /\ 1 \in 0..Cardinality(Ioreq)
  <2>1. CountInv
    BY DEF ScInv
  <2> QED
    BY <1>1, <1>6, <1>8, <2>1, OneMoreOpen
<1>10. UnitIs(u, 1, devst[u].table, <<>>, FALSE, 0)
  <2>1. <<>> \in Seq(Req) /\ 0 \in 0..1
    OBVIOUS
  <2>2. UnitIs(u, 1, devst[u].table, <<>>, devst[u].running, 0)
    BY <1>1, <1>3, <1>9, <2>1, UnitOpens
  <2>3. devst[u].running = FALSE
    BY <1>1, <1>2, UnitFacts DEF Off
  <2> QED
    BY <2>2, <2>3
<1>11. /\ pdevst' \in [Handle -> HandleState] /\ pdevst'[p].inuse /\ pdevst'[p].unit = u
       /\ \A h \in Handle : h # p => pdevst'[h] = pdevst[h]
  <2>1. pdevst \in [Handle -> HandleState]
    BY <1>1, ScTypesAre
  <2>2. e \in HandleState /\ e.inuse /\ e.unit = u
    BY DEF HandleState
  <2> HIDE DEF e
  <2> QED
    BY <1>1, <1>7, <2>1, <2>2
<1>12. DeviceTypeOK'
  <2>1. hostOpen' \subseteq ScsiUnit
    BY <1>1, ScTypesAre
  <2> QED
    BY <1>1, <1>3, <1>4, <1>5, <1>8, <1>10, <1>11, <2>1, ScTypesAre, ScTypesAreNext
    DEF UnitIs, RequestIs, ThreadIs
<1>13. /\ \A v \in ScsiUnit : ~OpenedAt(v) /\ ~StoppedAt(v) /\ ~StoppedAt(v)' /\ (OpenedAt(v)' <=> v = u)
  BY <1>1, <1>3, <1>4 DEF OpenedAt, StoppedAt
<1>14. LifeInv'
  <2>1. ASSUME NEW v \in ScsiUnit, v # u PROVE Life(v)'
    BY <1>5, <1>10, <1>13, <2>1, LifeGoesOn DEF ScInv, UnitIs, ThreadIs
  <2>2. Starting(u)'
    BY <1>5, <1>10 DEF UnitIs, ThreadIs, Starting
  <2>3. Life(u)'
    BY <1>10, <1>13, <2>2 DEF UnitIs, Life
  <2> QED
    BY <2>1, <2>3 DEF LifeInv
<1>15. ExitInv'
  BY <1>6 DEF ExitInv
<1>16. CountInv'
  <2> SUFFICES ASSUME NEW v \in ScsiUnit
               PROVE  devst'[v].opencnt = Cardinality(OpenAt(v)')
                      /\ (v \in hostOpen' <=> devst'[v].opencnt > 0)
    BY DEF CountInv
  <2>1. CASE v = u
    <3>1. devst'[u].opencnt = 1
      BY <1>10 DEF UnitIs
    <3>2. u \in hostOpen' /\ 1 > 0
      BY <1>1
    <3> QED
      BY <1>9, <2>1, <3>1, <3>2
  <2>2. CASE v # u
    <3>1. devst[v].opencnt = Cardinality(OpenAt(v)) /\ (v \in hostOpen <=> devst[v].opencnt > 0)
      BY <1>6 DEF ScInv, CountInv, Cleared, Exiting
    <3>2. devst'[v] = devst[v] /\ OpenAt(v)' = OpenAt(v)
      BY <1>9, <1>10, <2>2 DEF UnitIs
    <3> QED
      BY <1>1, <2>2, <3>1, <3>2
  <2> QED
    BY <2>1, <2>2
<1>17. HandleInv'
  <2>0. HandleInv /\ HandlesAreUnits /\ \A h \in Handle : pdevst[h].unit \in ScsiUnit
    BY <1>1, ScTypesAre DEF ScInv, HandleInv, HandleState
  <2>1. HandlesAreUnits'
    <3> SUFFICES ASSUME NEW v \in ScsiUnit, NEW s \in OpenAt(v)'
                 PROVE  pdevst'[ioreq'[s].handle].inuse /\ pdevst'[ioreq'[s].handle].unit = v
      BY DEF HandlesAreUnits
    <3>1. CASE s = r
      <4>1. v = u
        BY <1>8, <3>1 DEF RequestIs, OpenAt
      <4> QED
        BY <1>8, <1>11, <3>1, <4>1 DEF RequestIs
    <3>2. CASE s # r
      <4>1. s \in OpenAt(v) /\ ioreq'[s] = ioreq[s] /\ s \in Ioreq
        BY <1>8, <3>2 DEF RequestIs, OpenAt
      <4>2. PICK h \in Handle : h = ioreq[s].handle
        BY <1>1, <4>1, RequestFacts
      <4>3. pdevst[h].inuse /\ pdevst[h].unit = v
        BY <2>0, <4>1, <4>2 DEF HandlesAreUnits
      <4> QED
        BY <1>7, <1>11, <4>1, <4>2, <4>3
    <3> QED
      BY <3>1, <3>2
  <2>2. ASSUME NEW h \in Handle, pdevst'[h].inuse, h # p
        PROVE  pdevst[h].inuse /\ pdevst'[h].unit = pdevst[h].unit /\ pdevst[h].unit \in ScsiUnit
               /\ pdevst[h].unit # u /\ OpenAt(pdevst[h].unit) # {}
    <3>1. pdevst'[h] = pdevst[h] /\ pdevst[h].inuse
      BY <1>11, <2>2
    <3> QED
      BY <1>6, <2>0, <3>1 DEF HandleInv
  <2>3. ASSUME NEW h \in Handle, pdevst'[h].inuse, NEW v, v = pdevst'[h].unit PROVE OpenAt(v)' # {}
    <3>1. CASE h = p
      BY <1>9, <1>11, <2>3, <3>1
    <3>2. CASE h # p
      BY <1>9, <2>2, <2>3, <3>2
    <3> QED
      BY <3>1, <3>2
  <2>4. ASSUME NEW h \in Handle, NEW k \in Handle, pdevst'[h].inuse, pdevst'[k].inuse,
               pdevst'[h].unit = pdevst'[k].unit
        PROVE  h = k
    BY <1>11, <2>0, <2>2, <2>4 DEF HandleInv
  <2>5. \A h \in Handle : pdevst'[h].inuse => (OpenAt(pdevst[h].unit) # {})'
    BY <2>3 DEF OpenAt
  <2> QED
    BY <2>1, <2>4, <2>5 DEF HandleInv
<1>18. HomeInv' /\ RequestInv'
  <2>1. ASSUME NEW x \in Ioreq, NEW v \in ScsiUnit
        PROVE  /\ OccursIn(x, devst'[v].requests) = OccursIn(x, devst[v].requests)
               /\ HasIt(v, x)' <=> HasIt(v, x)
               /\ AtReply(v, x)' => AtReply(v, x)
    <3>1. CASE v = u
      <4>1. devst'[u].requests = devst[u].requests
        BY <1>2, <1>10 DEF UnitIs, Off
      <4>2. devThread'[u].req # x /\ devThread[u].req # x
        BY <1>2, <1>5, ScConstants DEF ThreadIs, Off
      <4> QED
        BY <3>1, <4>1, <4>2 DEF HasIt, AtReply
    <3>2. CASE v # u
      <4>1. devst'[v] = devst[v] /\ devThread'[v] = devThread[v]
        BY <1>5, <1>10, <3>2 DEF UnitIs, ThreadIs
      <4> QED
        BY <4>1 DEF HasIt, AtReply, ThreadAt
    <3> QED
      BY <3>1, <3>2
  <2>2. \A v \in ScsiUnit : devst'[v].table = devst[v].table
    BY <1>10 DEF UnitIs
  <2>3. machine'.pc # "abort" /\ ioreq[r].state \in {"closed", "open"} /\ replies' = replies
    BY <1>1, <1>3, <1>4
  <2> QED
    BY <1>6, <1>8, <2>1, <2>2, <2>3, OpensOrCloses
<1> QED
  BY <1>12, <1>14, <1>15, <1>16, <1>17, <1>18 DEF ScInv

(* A reset begins when the threads of the units nobody has open are gone.    *)
LEMMA ResetKeeps ==
  ASSUME ScInv, Beyond = {}, ScsiReset
  PROVE  ScInv'
<1> DEFINE m == [Running EXCEPT !.pc = "exit"]
<1>1. /\ DeviceTypeOK /\ machine.pc = "run" /\ scsiResets < MaxScsiResets
      /\ \A u \in ScsiUnit : devst[u].opencnt = 0 => ThreadAt(u, "off")
      /\ machine' = m /\ scsiResets' = scsiResets + 1
      /\ UNCHANGED <<ioreq, devst, pdevst, hostOpen, devThread, changeSem, replies, commands>>
  BY DEF ScInv, ScsiReset
<1>2. m \in MachineState /\ m.pc = "exit" /\ m.unit = 0
  BY <1>1, MachineFacts DEF MachineState
<1>3. DeviceTypeOK'
  <2>1. scsiResets' \in 0..MaxScsiResets
    BY <1>1, ScTypesAre, ScConstants
  <2> QED
    BY <1>1, <1>2, <2>1, ScTypesAre, ScTypesAreNext
<1>4. ~Exiting /\ Exiting'
  BY <1>1, <1>2 DEF Exiting
<1>5. LifeInv'
  <2>1. ASSUME NEW v \in ScsiUnit PROVE Life(v)'
    <3>1. ~OpenedAt(v) /\ ~OpenedAt(v)' /\ ~StoppedAt(v) /\ ~StoppedAt(v)'
      BY <1>1, <1>2 DEF OpenedAt, StoppedAt
    <3> QED
      BY <1>1, <3>1, LifeGoesOn DEF ScInv
  <2> QED
    BY <2>1 DEF LifeInv
<1>6. ExitInv'
  <2>1. machine'.pc = "exit" /\ machine'.unit = 0
    BY <1>1, <1>2
  <2>2. \A v \in ScsiUnit : ~Cleared(v)'
    BY <2>1, ScConstants DEF Cleared
  <2> QED
    BY <1>1, <2>1, <2>2 DEF ExitInv, ThreadAt
<1>7. SameOpens /\ SamePlaces
  BY <1>1 DEF SameOpens, SamePlaces, HasIt, ThreadAt
<1>8. CountInv'
  BY <1>1, <1>4, <1>7, OpensSame DEF ScInv, CountInv, Cleared, Exiting
<1>9. HandleInv' /\ HomeInv'
  BY <1>1, <1>7, HandlesSame, HomeSame DEF ScInv
<1>10. RequestInv'
  BY <1>4 DEF RequestInv
<1> QED
  BY <1>3, <1>5, <1>6, <1>8, <1>9, <1>10 DEF ScInv

(* The exit's abort takes a request out of the table, no more.               *)
LEMMA ExitAbortsKeeps ==
  ASSUME ScInv, ExitAborts
  PROVE  ScInv'
<1>0. PICK u \in ScsiUnit : u = machine.unit
  BY MachineFacts DEF ScInv
<1>1. PICK r : r = devst[u].table[u + 1].req
  OBVIOUS
<1>2. /\ DeviceTypeOK /\ machine.pc = "exit" /\ devst[u].opencnt > 0 /\ u + 1 \in Place /\ r # NoReq
      /\ devst' = [devst EXCEPT ![u].table = Released(u, r)]
      /\ UNCHANGED <<ioreq, pdevst, hostOpen, devThread, changeSem, replies, machine, scsiResets, commands>>
  BY <1>0, <1>1 DEF ScInv, ExitAborts
<1>3. r \in Ioreq
  <2>1. devst[u].table \in [Place -> [req : Req, type : {"none", "temp", "changeint"}]]
    BY <1>2, UnitFacts DEF Table
  <2> QED
    BY <1>1, <1>2, <2>1 DEF Req
<1>4. UnitIs(u, devst[u].opencnt, Released(u, r), devst[u].requests, devst[u].running, devst[u].sync)
  BY <1>2, <1>3, ReleasedIs, TableSet
<1>5. DeviceTypeOK'
  BY <1>2, <1>4, ScTypesAre, ScTypesAreNext DEF UnitIs
<1>6. Life(u) /\ Serving(u) /\ ~OpenedAt(u) /\ ~StoppedAt(u) /\ ~OpenedAt(u)' /\ ~StoppedAt(u)'
  <2>1. Life(u) /\ ~OpenedAt(u) /\ ~StoppedAt(u) /\ ~OpenedAt(u)' /\ ~StoppedAt(u)'
    BY <1>2 DEF ScInv, LifeInv, OpenedAt, StoppedAt
  <2> QED
    BY <1>2, <2>1 DEF Life
<1>7. Life(u)'
  <2>1. Serving(u)' /\ devst'[u].opencnt > 0
    BY <1>2, <1>4, <1>6 DEF UnitIs, Serving, Busy
  <2>2. devst'[u].opencnt # 0
    BY <2>1
  <2> QED
    BY <1>6, <2>1, <2>2 DEF Life
<1>8. SameOpens /\ SamePlaces
  BY <1>2, <1>4 DEF UnitIs, SameOpens, SamePlaces, HasIt, ThreadAt
<1>9. LifeInv' /\ ExitInv' /\ CountInv' /\ HandleInv'
  <2>1. devThread[u].pc \notin {"posted", "closing", "off"}
    BY <1>6 DEF Serving, Busy, Serves
  <2> QED
    BY <1>2, <1>4, <1>7, <1>8, <2>1, UnitThreadWorks DEF UnitIs
<1>10. HomeInv' /\ RequestInv'
  BY <1>2, <1>8, HomeSame DEF ScInv, RequestInv, Exiting
<1> QED
  BY <1>5, <1>9, <1>10 DEF ScInv

(* The zero request follows what the unit's thread has yet to do.            *)
LEMMA ExitStopsKeeps ==
  ASSUME ScInv, ExitStops
  PROVE  ScInv'
<1>0. PICK u \in ScsiUnit : u = machine.unit
  BY MachineFacts DEF ScInv
<1> DEFINE q == devst[u].requests
           m == [machine EXCEPT !.pc = "exitWait"]
<1>1. /\ DeviceTypeOK /\ machine.pc = "exit" /\ devst[u].opencnt > 0
      /\ devst' = [devst EXCEPT ![u].requests = Append(q, NoReq)] /\ machine' = m
      /\ UNCHANGED <<ioreq, pdevst, hostOpen, devThread, changeSem, replies, scsiResets, commands>>
  BY <1>0 DEF ScInv, ExitStops
<1>2. m \in MachineState /\ m.pc = "exitWait" /\ m.unit = u
  BY <1>0, <1>1, ScTypesAre DEF MachineState
<1>3. q \in Seq(Req) /\ Append(q, NoReq) \in Seq(Req)
  BY <1>1, UnitFacts, ZeroFollows
<1>4. UnitIs(u, devst[u].opencnt, devst[u].table, Append(q, NoReq), devst[u].running, devst[u].sync)
  BY <1>1, <1>3, PipeSet
<1>5. DeviceTypeOK'
  BY <1>1, <1>2, <1>4, ScTypesAre, ScTypesAreNext DEF UnitIs
<1>6. /\ Exiting /\ Exiting' /\ StoppedAt(u)'
      /\ \A v \in ScsiUnit : ~OpenedAt(v) /\ ~StoppedAt(v) /\ ~OpenedAt(v)' /\ (v # u => ~StoppedAt(v)')
  BY <1>1, <1>2 DEF Exiting, OpenedAt, StoppedAt
<1>7. LifeInv'
  <2>1. ASSUME NEW v \in ScsiUnit, v # u PROVE Life(v)'
    BY <1>1, <1>4, <1>6, <2>1, LifeGoesOn DEF ScInv, UnitIs
  <2>2. Serving(u)
    BY <1>1, <1>6 DEF ScInv, LifeInv, Life
  <2>3. ZeroLast(Append(q, NoReq))
    BY <1>3, <2>2, ZeroFollows DEF Serving
  <2>4. Ending(u)'
    BY <1>1, <1>4, <2>2, <2>3 DEF UnitIs, Serving, Ending, Busy
  <2>5. Life(u)'
    BY <1>6, <2>4 DEF Life
  <2> QED
    BY <2>1, <2>5 DEF LifeInv
<1>8. \A v \in ScsiUnit : devst'[v].opencnt = devst[v].opencnt /\ (v # u => devst'[v] = devst[v])
  BY <1>4 DEF UnitIs
<1>9. ExitInv'
  <2>1. ExitInv /\ machine'.unit = u /\ machine'.pc = "exitWait"
    BY <1>1, <1>2 DEF ScInv
  <2>2. \A v \in ScsiUnit : Cleared(v)' => Cleared(v) /\ v # u
    BY <1>0, <1>1, <2>1, ScConstants DEF Cleared
  <2> QED
    BY <1>0, <1>1, <1>6, <1>8, <2>1, <2>2 DEF ExitInv
<1>10. SameOpens
  BY <1>1 DEF SameOpens
<1>11. CountInv'
  <2>1. \A v \in ScsiUnit : Cleared(v) => Cleared(v)'
    BY <1>0, <1>1, <1>2 DEF Cleared
  <2> QED
    BY <1>1, <1>6, <1>8, <1>10, <2>1, OpensSame DEF ScInv, CountInv
<1>12. SamePlaces
  <2>1. ASSUME NEW x \in Ioreq, NEW v \in ScsiUnit
        PROVE  OccursIn(x, devst'[v].requests) = OccursIn(x, devst[v].requests)
    <3>1. CASE v # u
      BY <1>8, <3>1
    <3>2. CASE v = u
      <4>1. OccursIn(x, q) \in Nat /\ NoReq \in Req /\ NoReq # x
        BY <1>3, SitesCounted, ScConstants DEF Req
      <4>2. OccursIn(x, Append(q, NoReq)) = OccursIn(x, q)
        BY <1>3, <4>1, OccursAppended
      <4>3. devst'[v].requests = Append(q, NoReq)
        BY <1>4, <3>2 DEF UnitIs
      <4> QED
        BY <3>2, <4>2, <4>3
    <3> QED
      BY <3>1, <3>2
  <2> QED
    BY <1>1, <2>1 DEF SamePlaces, HasIt, ThreadAt
<1>13. HandleInv' /\ HomeInv' /\ RequestInv'
  BY <1>1, <1>6, <1>10, <1>12, HandlesSame, HomeSame DEF ScInv, RequestInv
<1> QED
  BY <1>5, <1>7, <1>9, <1>11, <1>13 DEF ScInv

(* What a reset leaves of a unit: its thread has done with it.               *)
LEMMA ClearsDead ==
  ASSUME ScInv, ExitClears
  PROVE  Exiting /\ Off(machine.unit)
<1>0. PICK u \in ScsiUnit : u = machine.unit
  BY MachineFacts DEF ScInv
<1>1. Life(u) /\ ExitInv /\ DeviceTypeOK
  BY DEF ScInv, LifeInv
<1>2. CASE machine.pc = "exit" /\ devst[u].opencnt = 0
  <2>1. Exiting /\ devThread[u].pc \in {"posted", "closing", "off"}
    BY <1>1, <1>2 DEF Exiting, ExitInv
  <2>2. ~Ending(u)
    BY <2>1 DEF Ending, Busy, Serves
  <2> QED
    BY <1>0, <1>1, <1>2, <2>1, <2>2 DEF Life
<1>3. CASE machine.pc = "exitWait" /\ devst[u].sync > 0
  <2>1. Exiting /\ StoppedAt(u)
    BY <1>0, <1>3 DEF Exiting, StoppedAt
  <2>2. ~Ending(u)
    BY <1>3 DEF Ending
  <2> QED
    BY <1>0, <1>1, <2>1, <2>2 DEF Life
<1> QED
  BY <1>0, <1>2, <1>3 DEF ExitClears

(* A unit is cleared, the last or one after which there are more.            *)
LEMMA ClearsKeeps ==
  ASSUME ScInv, ExitClears
  PROVE  ScInv'
<1>0. PICK u \in ScsiUnit : u = machine.unit
  BY MachineFacts DEF ScInv
<1> DEFINE last == u = ScsiUnits - 1
           m == IF last THEN [Running EXCEPT !.pc = "anew"] ELSE [machine EXCEPT !.pc = "exit", !.unit = u + 1]
<1>1. /\ DeviceTypeOK /\ devst' = [devst EXCEPT ![u] = Zeroed]
      /\ hostOpen' = IF devst[u].opencnt > 0 THEN hostOpen \ {u} ELSE hostOpen
      /\ machine' = m
      /\ UNCHANGED <<pdevst, ioreq, replies, devThread, changeSem, scsiResets, commands>>
  BY <1>0 DEF ScInv, ExitClears
<1>2. Exiting /\ Off(u)
  BY <1>0, ClearsDead
<1>3. m \in MachineState /\ (IF last THEN m.pc = "anew" ELSE m.pc = "exit" /\ m.unit = u + 1)
  <2>1. CASE last
    BY <1>1, <2>1, MachineFacts DEF MachineState
  <2>2. CASE ~last
    <3>1. u + 1 \in ScsiUnit
      BY <2>2, ScConstants
    <3> QED
      BY <1>1, <2>2, <3>1, ScTypesAre DEF MachineState
  <2> QED
    BY <2>1, <2>2
<1>cleared. \A v \in ScsiUnit : Cleared(v)' <=> v = u \/ Cleared(v)
  <2>1. machine.pc \in {"exit", "exitWait"} /\ u \in Nat
    BY <1>0, ScConstants DEF ExitClears
  <2>2. CASE last
    <3>1. \A v \in ScsiUnit : v = u \/ v < u
      BY <2>2, ScConstants
    <3> QED
      BY <1>0, <1>1, <1>3, <2>1, <2>2, <3>1 DEF Cleared
  <2>3. CASE ~last
    <3>1. \A v \in ScsiUnit : v < u + 1 <=> v = u \/ v < u
      BY <2>1, ScConstants
    <3> QED
      BY <1>0, <1>1, <1>3, <2>1, <2>3, <3>1 DEF Cleared
  <2> QED
    BY <2>2, <2>3
<1>4. UnitIs(u, 0, Zeroed.table, <<>>, FALSE, 0) /\ devst'[u] = Zeroed
  BY <1>1, UnitCleared
<1>5. DeviceTypeOK'
  <2>1. hostOpen' \subseteq ScsiUnit
    BY <1>1, ScTypesAre
  <2> QED
    BY <1>1, <1>3, <1>4, <2>1, ScTypesAre, ScTypesAreNext DEF UnitIs
<1>6. /\ Exiting'
      /\ \A v \in ScsiUnit : ~OpenedAt(v) /\ ~OpenedAt(v)' /\ ~StoppedAt(v)' /\ (v # u => ~StoppedAt(v))
  BY <1>0, <1>1, <1>2, <1>3 DEF Exiting, OpenedAt, StoppedAt
<1>7. LifeInv'
  <2>1. ASSUME NEW v \in ScsiUnit, v # u PROVE Life(v)'
    BY <1>1, <1>4, <1>6, <2>1, LifeGoesOn DEF ScInv, UnitIs
  <2>2. devst'[u].opencnt = 0 /\ devst'[u].requests = <<>> /\ devst'[u].running = FALSE
    BY <1>4 DEF UnitIs
  <2>3. Off(u)'
    BY <1>1, <1>2, <2>2 DEF Off
  <2>4. ~(devst'[u].opencnt > 0)
    BY <2>2
  <2>5. Life(u)'
    BY <1>6, <2>3, <2>4 DEF Life
  <2> QED
    BY <2>1, <2>5 DEF LifeInv
<1>8. ExitInv'
  <2>1. ASSUME NEW v \in ScsiUnit, devst'[v].opencnt = 0
        PROVE  devThread'[v].pc \in {"posted", "closing", "off"}
    <3>1. CASE v = u
      BY <1>1, <1>2, <3>1 DEF Off
    <3>2. CASE v # u
      <4>1. devst[v].opencnt = 0
        BY <1>4, <2>1, <3>2 DEF UnitIs
      <4> QED
        BY <1>1, <1>2, <4>1 DEF ScInv, ExitInv
    <3> QED
      BY <3>1, <3>2
  <2>2. ASSUME NEW v \in ScsiUnit, Cleared(v)' PROVE devst'[v] = Zeroed
    <3>1. CASE v = u
      BY <1>4, <3>1
    <3>2. CASE v # u
      BY <1>2, <1>4, <1>cleared, <2>2, <3>2 DEF ScInv, ExitInv, UnitIs
    <3> QED
      BY <3>1, <3>2
  <2>3. machine'.pc # "exitWait"
    BY <1>1, <1>3
  <2> QED
    BY <2>1, <2>2, <2>3 DEF ExitInv
<1>9. SameOpens
  BY <1>1 DEF SameOpens
<1>10. CountInv'
  <2> SUFFICES ASSUME NEW v \in ScsiUnit
               PROVE  /\ devst'[v].opencnt = Cardinality(OpenAt(v)') \/ v = u \/ Cleared(v)
                      /\ v \in hostOpen' <=> devst'[v].opencnt > 0
    BY <1>cleared DEF CountInv
  <2>1. (devst[v].opencnt = Cardinality(OpenAt(v)) \/ Cleared(v)) /\ (v \in hostOpen <=> devst[v].opencnt > 0)
    BY DEF ScInv, CountInv
  <2>3. CASE v = u
    <3>1. devst'[u].opencnt = 0
      BY <1>4 DEF UnitIs
    <3>2. u \notin hostOpen'
      BY <1>1, <2>1, <2>3
    <3> QED
      BY <2>3, <3>1, <3>2
  <2>4. CASE v # u
    <3>1. devst'[v] = devst[v] /\ OpenAt(v)' = OpenAt(v) /\ (v \in hostOpen' <=> v \in hostOpen)
      BY <1>1, <1>4, <1>9, <2>4, OpensSame DEF UnitIs
    <3> QED
      BY <2>1, <3>1
  <2> QED
    BY <2>3, <2>4
<1>11. HomeInv'
  <2> SUFFICES ASSUME NEW v \in ScsiUnit, NEW x \in Ioreq, OccursIn(x, devst'[v].requests) > 0 \/ HasIt(v, x)'
               PROVE  ioreq[x].unit = v /\ ioreq[x].state # "closed"
    BY <1>1 DEF HomeInv
  <2>1. v # u
    <3> SUFFICES ASSUME v = u PROVE FALSE
      OBVIOUS
    <3>1. devst'[u].requests = <<>> /\ devThread'[u].req = NoReq
      BY <1>1, <1>2, <1>4 DEF UnitIs, Off
    <3>2. ~(OccursIn(x, devst'[v].requests) > 0)
      BY <3>1, OccursEmpty
    <3> QED
      BY <3>1, <3>2, ScConstants DEF HasIt
  <2>2. devst'[v] = devst[v]
    BY <1>4, <2>1 DEF UnitIs
  <2> QED
    BY <1>1, <2>2 DEF ScInv, HomeInv, HasIt, ThreadAt
<1>12. HandleInv' /\ RequestInv'
  BY <1>1, <1>6, <1>9, HandlesSame DEF ScInv, RequestInv
<1> QED
  BY <1>5, <1>7, <1>8, <1>10, <1>11, <1>12 DEF ScInv

(* The devices anew: nobody has anything open, and threads have done with    *)
(* their units.                                                              *)
LEMMA AnewKeeps ==
  ASSUME ScInv, DevicesAnew
  PROVE  ScInv'
<1> DEFINE h == [inuse |-> FALSE, unit |-> 0, scsi |-> FALSE]
<1>1. /\ DeviceTypeOK /\ machine.pc = "anew" /\ machine' = Running /\ pdevst' = [p \in Handle |-> h]
      /\ ioreq' = [r \in Ioreq |-> Closed] /\ replies' = [i \in DOMAIN replies |-> NoReq]
      /\ UNCHANGED <<devst, hostOpen, devThread, changeSem, scsiResets, commands>>
  BY DEF ScInv, DevicesAnew
<1>4. \A v \in ScsiUnit : devst'[v] = Zeroed /\ v \notin hostOpen'
  <2> TAKE v \in ScsiUnit
  <2>1. devst[v] = Zeroed /\ (v \in hostOpen <=> devst[v].opencnt > 0)
    BY <1>1 DEF ScInv, CountInv, ExitInv, Exiting, Cleared
  <2>2. ~(devst[v].opencnt > 0)
    BY <2>1 DEF Zeroed
  <2> QED
    BY <1>1, <2>1, <2>2
<1>5. \A v \in ScsiUnit : devThread[v].pc \in {"posted", "closing", "off"} /\ devThread[v].req = NoReq
  <2> TAKE v \in ScsiUnit
  <2>1. devst[v].opencnt = 0
    BY <1>1, <1>4 DEF Zeroed
  <2>2. Life(v) /\ devThread[v].pc \in {"posted", "closing", "off"}
    BY <1>1, <2>1 DEF ScInv, LifeInv, ExitInv, Exiting
  <2>3. ~Ending(v)
    BY <2>2 DEF Ending, Busy, Serves
  <2> QED
    BY <2>1, <2>2, <2>3 DEF Life, Off
<1>6. /\ Zeroed.opencnt = 0 /\ Zeroed.requests = <<>> /\ Zeroed.running = FALSE
      /\ \A i \in Place : Zeroed.table[i].req = NoReq
  BY DEF Zeroed, Empty
<1>7. Closed \in Request /\ Closed.state = "closed" /\ Running \in MachineState /\ Running.pc = "run"
  BY <1>1, MachineFacts, ScConstants DEF Closed, Request
<1>8. replies' \in Seq(Req) /\ \A i \in 1..Len(replies') : replies'[i] = NoReq
  <2>1. replies \in Seq(Req) /\ NoReq \in Req
    BY <1>1, ScTypesAre DEF Req
  <2>2. DOMAIN replies = 1..Len(replies) /\ Len(replies) \in Nat
    BY <2>1
  <2>3. replies' = [i \in 1..Len(replies) |-> NoReq]
    BY <1>1, <2>2
  <2>4. replies' \in Seq(Req)
    BY <2>1, <2>2, <2>3
  <2>5. Len(replies') = Len(replies)
    BY <2>2, <2>3, <2>4
  <2> QED
    BY <2>3, <2>4, <2>5
<1>9. DeviceTypeOK'
  <2>1. hostOpen' \subseteq ScsiUnit
    BY <1>1, ScTypesAre
  <2>2. pdevst' \in [Handle -> HandleState]
    BY <1>1, ScConstants DEF HandleState
  <2>3. ioreq' \in [Ioreq -> Request]
    BY <1>1, <1>7
  <2> QED
    BY <1>1, <1>7, <1>8, <2>1, <2>2, <2>3, ScTypesAre, ScTypesAreNext
<1>10. ~Exiting' /\ \A v \in ScsiUnit : ~OpenedAt(v)' /\ ~StoppedAt(v)'
  BY <1>1, <1>7 DEF Exiting, OpenedAt, StoppedAt
<1>11. LifeInv'
  <2> SUFFICES ASSUME NEW v \in ScsiUnit PROVE Life(v)'
    BY DEF LifeInv
  <2>1. Off(v)'
    BY <1>1, <1>4, <1>5, <1>6 DEF Off
  <2>2. ~(devst'[v].opencnt > 0)
    BY <1>4, <1>6
  <2> QED
    BY <1>10, <2>1, <2>2 DEF Life
<1>12. ExitInv'
  BY <1>10 DEF ExitInv
<1>13. \A v \in ScsiUnit : OpenAt(v)' = {}
  BY <1>1, <1>7 DEF OpenAt
<1>14. CountInv'
  <2> SUFFICES ASSUME NEW v \in ScsiUnit
               PROVE  devst'[v].opencnt = Cardinality(OpenAt(v)')
                      /\ (v \in hostOpen' <=> devst'[v].opencnt > 0)
    BY DEF CountInv
  <2>1. devst'[v].opencnt = 0 /\ v \notin hostOpen' /\ Cardinality({}) = 0 /\ ~(0 > 0)
    BY <1>4, <1>6, FS_EmptySet
  <2> QED
    BY <1>13, <2>1
<1>15. HandleInv'
  BY <1>1, <1>13 DEF HandleInv, HandlesAreUnits
<1>16. \A v \in ScsiUnit, x \in Ioreq : OccursIn(x, devst'[v].requests) = 0 /\ ~HasIt(v, x)'
  BY <1>1, <1>4, <1>5, <1>6, OccursEmpty, ScConstants DEF HasIt
<1>17. HomeInv'
  <2>1. ~(0 > 0)
    OBVIOUS
  <2> QED
    BY <1>16, <2>1 DEF HomeInv
<1>18. WayInv'
  <2> SUFFICES ASSUME NEW x \in Ioreq
               PROVE  Ways(x, ioreq[x].unit)' = (IF ioreq'[x].state = "sent" THEN 1 ELSE 0)
    BY WayIs
  <2>1. ioreq'[x].state = "closed" /\ ioreq'[x].unit \in ScsiUnit
    BY <1>1, <1>7 DEF Request
  <2>2. OccursIn(x, replies') = 0
    <3>1. x # NoReq
      BY ScConstants
    <3> QED
      BY <1>8, <3>1, OccursNowhere
  <2>3. OccursIn(x, devst'[ioreq'[x].unit].requests) = 0 /\ ~HasIt(ioreq[x].unit, x)'
    BY <1>1, <1>4, <1>5, <1>6, <2>1, OccursEmpty, ScConstants DEF HasIt
  <2> QED
    BY <2>1, <2>2, <2>3 DEF Ways
<1>19. TableInv'
  BY <1>4, <1>6, ScConstants DEF TableInv
<1>20. HeldInv' /\ AbortInv'
  BY <1>1, <1>7 DEF HeldInv, AbortInv
<1> QED
  BY <1>9, <1>11, <1>12, <1>14, <1>15, <1>17, <1>18, <1>19, <1>20 DEF ScInv, RequestInv

(* The beginning.                                                            *)
LEMMA ScStarts ==
  ASSUME ScInit
  PROVE  ScInv
<1>1. /\ ioreq = [r \in Ioreq |-> Closed] /\ devst = [u \in ScsiUnit |-> Zeroed]
      /\ pdevst = [p \in Handle |-> [inuse |-> FALSE, unit |-> 0, scsi |-> FALSE]] /\ hostOpen = {}
      /\ devThread = [u \in ScsiUnit |-> NoThread] /\ changeSem = Nobody /\ replies = <<>>
      /\ machine = Running /\ scsiResets = 0 /\ commands = 0
  BY DEF ScInit
<1>2. Closed \in Request /\ Closed.state = "closed" /\ Closed.unit \in ScsiUnit
  BY ScConstants DEF Closed, Request
<1>3. Running \in MachineState /\ Running.pc = "run"
  BY ScConstants DEF Running, MachineState, Req
<1>4. /\ Zeroed.opencnt = 0 /\ Zeroed.requests = <<>> /\ Zeroed.running = FALSE
      /\ \A i \in Place : Zeroed.table[i].req = NoReq
  BY DEF Zeroed, Empty
<1>5. DeviceTypeOK
  <2>1. Zeroed \in DevState
    <3>1. [i \in Place |-> Empty] \in Table /\ <<>> \in Seq(Req) /\ 0 \in 0..Cardinality(Ioreq)
      BY ScConstants DEF Table, Empty, Req
    <3> QED
      BY <3>1 DEF Zeroed, DevState
  <2>2. [p \in Handle |-> [inuse |-> FALSE, unit |-> 0, scsi |-> FALSE]] \in [Handle -> HandleState]
    BY ScConstants DEF HandleState
  <2>3. Nobody \in 0..Nobody /\ 0 \in 0..MaxScsiResets /\ 0 \in 0..MaxCommands /\ <<>> \in Seq(Req)
    BY ScConstants DEF Nobody
  <2> QED
    BY <1>1, <1>2, <1>3, <2>1, <2>2, <2>3, ThreadStates, ScTypesAre
<1>6. ~Exiting /\ \A v \in ScsiUnit : ~OpenedAt(v) /\ ~StoppedAt(v)
  BY <1>1, <1>3 DEF Exiting, OpenedAt, StoppedAt
<1>7. LifeInv
  <2> SUFFICES ASSUME NEW v \in ScsiUnit PROVE Life(v)
    BY DEF LifeInv
  <2>1. Off(v)
    BY <1>1, <1>4, ThreadStates DEF Off
  <2>2. ~(devst[v].opencnt > 0)
    BY <1>1, <1>4
  <2> QED
    BY <1>6, <2>1, <2>2 DEF Life
<1>8. ExitInv
  BY <1>6 DEF ExitInv
<1>9. \A v \in ScsiUnit : OpenAt(v) = {}
  BY <1>1, <1>2 DEF OpenAt
<1>10. CountInv
  <2> SUFFICES ASSUME NEW v \in ScsiUnit
               PROVE  devst[v].opencnt = Cardinality(OpenAt(v)) /\ (v \in hostOpen <=> devst[v].opencnt > 0)
    BY DEF CountInv
  <2>1. devst[v].opencnt = 0 /\ v \notin hostOpen /\ Cardinality({}) = 0 /\ ~(0 > 0)
    BY <1>1, <1>4, FS_EmptySet
  <2> QED
    BY <1>9, <2>1
<1>11. HandleInv
  BY <1>1, <1>9 DEF HandleInv, HandlesAreUnits
<1>12. \A v \in ScsiUnit, x \in Ioreq : OccursIn(x, devst[v].requests) = 0 /\ ~HasIt(v, x)
  BY <1>1, <1>4, ThreadStates, OccursEmpty, ScConstants DEF HasIt
<1>13. HomeInv
  <2>1. ~(0 > 0)
    OBVIOUS
  <2> QED
    BY <1>12, <2>1 DEF HomeInv
<1>14. WayInv
  <2> SUFFICES ASSUME NEW x \in Ioreq
               PROVE  Ways(x, ioreq[x].unit) = (IF ioreq[x].state = "sent" THEN 1 ELSE 0)
    BY WayIs
  <2>1. ioreq[x].state = "closed" /\ ioreq[x].unit \in ScsiUnit
    BY <1>1, <1>2
  <2>2. OccursIn(x, replies) = 0
    BY <1>1, OccursEmpty
  <2> QED
    BY <1>12, <2>1, <2>2 DEF Ways
<1>15. TableInv
  BY <1>1, <1>4, ScConstants DEF TableInv
<1>16. HeldInv /\ AbortInv
  BY <1>1, <1>2, <1>3 DEF HeldInv, AbortInv
<1> QED
  BY <1>5, <1>7, <1>8, <1>10, <1>11, <1>13, <1>14, <1>15, <1>16 DEF ScInv, RequestInv

(* Doing nothing.                                                            *)
LEMMA ScStutters ==
  ASSUME ScInv, UNCHANGED scVars
  PROVE  ScInv'
<1>1. /\ ioreq' = ioreq /\ devst' = devst /\ pdevst' = pdevst /\ hostOpen' = hostOpen
      /\ devThread' = devThread
      /\ changeSem' = changeSem /\ replies' = replies /\ machine' = machine /\ scsiResets' = scsiResets
      /\ commands' = commands
  BY DEF scVars
<1>2. DeviceTypeOK'
  BY <1>1, ScTypesAre, ScTypesAreNext DEF ScInv
<1>3. SameOpens /\ SamePlaces
  BY <1>1 DEF SameOpens, SamePlaces, HasIt, ThreadAt
<1>4. LifeInv'
  <2>1. ASSUME NEW v \in ScsiUnit PROVE Life(v)'
    BY <1>1, LifeGoesOn DEF ScInv, OpenedAt, StoppedAt
  <2> QED
    BY <2>1 DEF LifeInv
<1>5. ExitInv'
  BY <1>1 DEF ScInv, ExitInv, Exiting, Cleared
<1>6. CountInv'
  BY <1>1, <1>3, OpensSame DEF ScInv, CountInv, Cleared
<1>7. HandleInv' /\ HomeInv'
  BY <1>1, <1>3, HandlesSame, HomeSame DEF ScInv
<1>8. RequestInv'
  BY <1>1, <1>3, RequestsSame DEF ScInv, Exiting, AtReply, ThreadAt
<1> QED
  BY <1>2, <1>4, <1>5, <1>6, <1>7, <1>8 DEF ScInv

(* Every step of a program that calls, of a unit's thread or of the emulator *)
(* thread keeps the invariant, in the circumstances the code is up to.       *)
LEMMA ScStepKeeps ==
  ASSUME ScInv, Beyond = {}, ScNext
  PROVE  ScInv'
<1>1. CASE Programs
  BY <1>1, OpensFirstKeeps, OpensAgainKeeps, ClosesKeeps, AbortsKeeps, BeginsKeeps DEF Programs
<1>2. CASE IntReplies
  BY <1>2, IntRepliesKeeps
<1>3. CASE Machine
  BY <1>3, StartedKeeps, AbortEndsKeeps, ExitAbortsKeeps, ExitStopsKeeps, ClearsKeeps, AnewKeeps DEF Machine
<1>4. CASE ScsiReset
  BY <1>4, ResetKeeps
<1>5. CASE \E u \in ScsiUnit : DevThread(u)
  <2> PICK u \in ScsiUnit : DevThread(u)
    BY <1>5
  <2> QED
    BY StartsKeeps, ReadsKeeps, LocksKeeps, DoesKeeps, ReleasesKeeps, RepliesKeeps, UnlocksKeeps, StopsKeeps,
       PostsEndKeeps, GoneKeeps
    DEF DevThread
<1> QED
  BY <1>1, <1>2, <1>3, <1>4, <1>5 DEF ScNext

(* The numbers of the units, which a reset takes and gives back, and the     *)
(* contexts of their threads: each is closed by the number it was opened by  *)
(* while there was no reset.                                                 *)
NumberInv ==
  /\ unitnum \subseteq ScsiUnit /\ hostThread \subseteq ScsiUnit
  /\ scsiResets = 0 => /\ unitnum = ScsiUnit /\ ~Exiting
                       /\ \A u \in hostThread : ~ThreadAt(u, "off")

(* A thread's step ends it only in closing its context.                      *)
LEMMA ThreadKeepsNumber ==
  ASSUME ScInv, NumberInv, NEW u \in ScsiUnit, DevThread(u)
  PROVE  NumberInv'
<1>1. unitnum' = unitnum /\ machine' = machine /\ scsiResets' = scsiResets
  BY DEF DevThread, unitVars, DevThreadStarts, Reads, Locks, Does, ReleasesDone, RepliesMsg, Unlocks, Stops,
         PostsEnd, LetsGo, Ends
<1>2. devThread \in [ScsiUnit -> ThreadState]
  BY ScTypesAre DEF ScInv
<1>3. \A v \in ScsiUnit : v # u => devThread'[v] = devThread[v]
  BY <1>2 DEF DevThread, GoesTo, DevThreadStarts, Reads, Locks, Does, ReleasesDone, RepliesMsg, Unlocks, Stops,
              PostsEnd, LetsGo, Ends
<1>4. CASE DevThreadStarts(u)
  <2>1. hostThread' = hostThread \cup ({u} \cap unitnum) /\ devThread'[u].pc = "read"
    BY <1>2, <1>4 DEF DevThreadStarts, GoesTo, ThreadState
  <2> QED
    BY <1>1, <1>3, <2>1 DEF NumberInv, Exiting, ThreadAt
<1>5. CASE Ends(u)
  <2>1. hostThread' = hostThread \ ({u} \cap unitnum)
    BY <1>5 DEF Ends
  <2> QED
    BY <1>1, <1>3, <2>1 DEF NumberInv, Exiting, ThreadAt
<1>6. CASE ~DevThreadStarts(u) /\ ~Ends(u)
  <2>1. hostThread' = hostThread
    BY <1>6 DEF DevThread, unitVars, Reads, Locks, Does, ReleasesDone, RepliesMsg, Unlocks, Stops,
                PostsEnd, LetsGo
  <2>2. devThread'[u].pc # "off"
    <3>1. devThread[u] \in ThreadState
      BY <1>2
    <3> QED
      BY <1>2, <1>6, <3>1 DEF DevThread, GoesTo, NoThread, ThreadState, Reads, Locks, Does, ReleasesDone,
                              RepliesMsg, Unlocks, Stops, PostsEnd, LetsGo
  <2> QED
    BY <1>1, <1>3, <2>1, <2>2 DEF NumberInv, Exiting, ThreadAt
<1> QED
  BY <1>4, <1>5, <1>6

(* The emulator thread's steps leave threads and contexts as they are, but   *)
(* for the thread an open starts; only in a reset are units without number.  *)
LEMMA MachineKeepsNumber ==
  ASSUME ScInv, NumberInv, Programs \/ IntReplies \/ Machine \/ ScsiReset
  PROVE  NumberInv'
<1>1. hostThread' = hostThread
  BY DEF Programs, IntReplies, Machine, ScsiReset, unitVars, OpensFirst, OpensAgain, Closes, AbortsIO, BeginsIO,
         ThreadStarted, AbortEnds, ExitAborts, ExitStops, ExitClears, DevicesAnew
<1>2. devThread \in [ScsiUnit -> ThreadState] /\ scsiResets \in Nat
  BY ScTypesAre, ScConstants DEF ScInv
<1>3. \A v \in ScsiUnit : devThread[v].pc # "off" => devThread'[v].pc # "off"
  <2>1. CASE \E r \in Ioreq, u \in ScsiUnit : OpensFirst(r, u)
    <3>1. PICK r \in Ioreq, u \in ScsiUnit : OpensFirst(r, u)
      BY <2>1
    <3>2. devThread' = devThread \/ devThread' = [devThread EXCEPT ![u] = [NoThread EXCEPT !.pc = "start"]]
      BY <3>1 DEF OpensFirst, StartsThread
    <3>3. [NoThread EXCEPT !.pc = "start"].pc = "start"
      BY DEF NoThread
    <3> QED
      BY <1>2, <3>2, <3>3
  <2>2. CASE ~\E r \in Ioreq, u \in ScsiUnit : OpensFirst(r, u)
    <3>1. devThread' = devThread
      BY <2>2 DEF Programs, IntReplies, Machine, ScsiReset, OpensAgain, Closes, AbortsIO, BeginsIO,
                  ThreadStarted, AbortEnds, ExitAborts, ExitStops, ExitClears, DevicesAnew
    <3> QED
      BY <3>1
  <2> QED
    BY <2>1, <2>2
<1>4. unitnum' \subseteq ScsiUnit
  BY DEF NumberInv, Programs, IntReplies, Machine, ScsiReset, unitVars, OpensFirst, OpensAgain, Closes, AbortsIO,
         BeginsIO, ThreadStarted, AbortEnds, ExitAborts, ExitStops, ExitClears, DevicesAnew
<1>5. ASSUME scsiResets' = 0 PROVE scsiResets = 0 /\ unitnum' = ScsiUnit /\ ~Exiting'
  <2>1. ~ScsiReset
    BY <1>2, <1>5 DEF ScsiReset
  <2>2. scsiResets = 0
    BY <1>5, <2>1 DEF Programs, IntReplies, Machine, OpensFirst, OpensAgain, Closes, AbortsIO, BeginsIO,
                      ThreadStarted, AbortEnds, ExitAborts, ExitStops, ExitClears, DevicesAnew
  <2>3. unitnum = ScsiUnit /\ ~Exiting
    BY <2>2 DEF NumberInv
  <2>4. Programs \/ IntReplies \/ ThreadStarted \/ AbortEnds
    BY <2>1, <2>3 DEF Machine, Exiting, ExitAborts, ExitStops, ExitClears, DevicesAnew
  <2>5. unitnum' = unitnum
    BY <2>4 DEF Programs, IntReplies, unitVars, OpensFirst, OpensAgain, Closes, AbortsIO, BeginsIO,
                ThreadStarted, AbortEnds
  <2>6. machine' = machine \/ machine'.pc \in {"run", "open", "abort"}
    <3>1. Running.pc = "run" /\ \A u \in ScsiUnit : [Running EXCEPT !.pc = "open", !.unit = u].pc = "open"
      BY DEF Running
    <3>2. ASSUME NEW r \in Ioreq, NEW u \in ScsiUnit, OpensFirst(r, u)
          PROVE  machine' = machine \/ machine' = [Running EXCEPT !.pc = "open", !.unit = u]
      BY <3>2 DEF OpensFirst, StartsThread
    <3>3. ASSUME NEW r \in Ioreq, AbortsIO(r) PROVE machine'.pc = "abort"
      BY <3>3 DEF AbortsIO
    <3>4. CASE \E r \in Ioreq, u \in ScsiUnit : OpensFirst(r, u)
      BY <3>1, <3>2, <3>4
    <3>5. CASE ~\E r \in Ioreq, u \in ScsiUnit : OpensFirst(r, u)
      BY <2>4, <3>1, <3>3, <3>5 DEF Programs, IntReplies, OpensAgain, Closes, BeginsIO, ThreadStarted, AbortEnds
    <3> QED
      BY <3>4, <3>5
  <2> QED
    BY <2>2, <2>3, <2>5, <2>6 DEF Exiting
<1> QED
  BY <1>1, <1>3, <1>4, <1>5 DEF NumberInv, ThreadAt

(* The invariant holds in every state.                                       *)
LEMMA ScInvHolds ==
  ASSUME Beyond = {}
  PROVE  ScSpec => [](ScInv /\ NumberInv)
<1>1. ScInit => ScInv /\ NumberInv
  <2>1. ASSUME ScInit PROVE NumberInv
    BY <2>1 DEF ScInit, NumberInv, Exiting, Running
  <2> QED
    BY <2>1, ScStarts
<1>2. ASSUME ScInv, NumberInv, [ScNext]_scVars PROVE ScInv' /\ NumberInv'
  <2>1. CASE ScNext
    BY <1>2, <2>1, ScStepKeeps, ThreadKeepsNumber, MachineKeepsNumber DEF ScNext
  <2>2. CASE UNCHANGED scVars
    <3>1. NumberInv'
      BY <1>2, <2>2 DEF scVars, unitVars, NumberInv, Exiting, ThreadAt
    <3> QED
      BY <1>2, <2>2, <3>1, ScStutters
  <2> QED
    BY <1>2, <2>1, <2>2
<1> QED
  BY <1>1, <1>2, PTL DEF ScSpec

(* The variables keep their types; in particular no unit is opened more often*)
(* than there are requests, and sync_sem is posted once at a time.           *)
THEOREM ScTypes ==
  ASSUME Beyond = {}
  PROVE  ScSpec => []ScTypeOK
<1>1. ScInv /\ NumberInv => ScTypeOK
  BY DEF ScInv, NumberInv, ScTypeOK
<1> QED
  BY <1>1, ScInvHolds, PTL

(* What the invariant says of a request sent, and of one that is held.       *)
LEMMA SentIsOnOneWay ==
  ASSUME ScInv
  PROVE  SentIsOnItsWay
<1> SUFFICES ASSUME NEW r \in Ioreq, ~Exiting
             PROVE  /\ Ways(r, ioreq[r].unit) = (IF ioreq[r].state = "sent" THEN 1 ELSE 0)
                    /\ ioreq[r].state = "held" =>
                         \E i \in Place : devst[ioreq[r].unit].table[i] = [req |-> r, type |-> "changeint"]
  BY DEF SentIsOnItsWay, Ways, HasIt, Exiting
<1>1. DeviceTypeOK /\ WayInv /\ TableInv /\ HeldInv
  BY DEF ScInv, RequestInv
<1>2. ASSUME ioreq[r].state = "held"
      PROVE  \E i \in Place : devst[ioreq[r].unit].table[i] = [req |-> r, type |-> "changeint"]
  <2>1. PICK u \in ScsiUnit : u = ioreq[r].unit
    BY <1>1, RequestFacts
  <2>2. PICK i \in Place : devst[u].table[i].req = r
    BY <1>1, <1>2, <2>1 DEF HeldInv, PlacesOf
  <2>3. devst[u].table[i].type = "changeint"
    BY <1>1, <1>2, <2>2 DEF TableInv, Entry
  <2>4. devst[u].table[i] \in [req : Req, type : {"none", "temp", "changeint"}]
    BY <1>1, UnitFacts DEF Table
  <2>5. devst[u].table[i] = [req |-> r, type |-> "changeint"]
    BY <2>2, <2>3, <2>4
  <2> QED
    BY <2>1, <2>5
<1> QED
  BY <1>1, <1>2, WayIs

(* An open request leads to its own unit by a handle in use, and the unit to *)
(* a thread that no zero request awaits and to a device the host has open; a *)
(* request sent is in one place on its way to one reply, one that is held is *)
(* in the table and nowhere else; when a unit is cleared its thread has      *)
(* posted its end, and reads no more of it than its number; and a thread has *)
(* closed its host's context when it ends, unless the machine was reset      *)
(* (dev_open_2, dev_close_3, dev_thread, dev_exit).                          *)
THEOREM UnitsStayServed ==
  ASSUME Beyond = {}
  PROVE  ScSpec => []UnitsAreServed
<1>1. ASSUME ScInv PROVE OpenIsServed
  <2> SUFFICES ASSUME machine.pc = "run", NEW u \in ScsiUnit
               PROVE  /\ devst[u].opencnt = Cardinality(OpenAt(u)) /\ (u \in hostOpen <=> OpenAt(u) # {})
                      /\ OpenAt(u) # {} =>
                           /\ ~ThreadAt(u, "off") /\ devst[u].running
                           /\ devThread[u] # [pc |-> "lock", req |-> NoReq]
                           /\ \A i \in 1..Len(devst[u].requests) : devst[u].requests[i] # NoReq
    BY DEF OpenIsServed
  <2>1. DeviceTypeOK /\ CountInv /\ ~Exiting
    BY <1>1 DEF ScInv, Exiting
  <2>2. devst[u].opencnt = Cardinality(OpenAt(u)) /\ (u \in hostOpen <=> OpenAt(u) # {})
    BY <2>1, OpenFacts DEF CountInv
  <2>3. ASSUME OpenAt(u) # {}
        PROVE  /\ ~ThreadAt(u, "off") /\ devst[u].running /\ devThread[u] # [pc |-> "lock", req |-> NoReq]
               /\ \A i \in 1..Len(devst[u].requests) : devst[u].requests[i] # NoReq
    <3>1. Serving(u)
      BY <1>1, <2>3, OpenServes
    <3>2. devThread[u].pc # "lock" \/ devThread[u].req # NoReq
      BY <3>1 DEF Serving, Busy
    <3> QED
      BY <3>1, <3>2 DEF Serving, Busy, Serves, NoZero, ThreadAt
  <2> QED
    BY <2>2, <2>3
<1>2. ASSUME ScInv PROVE KilledBeforeCleared
  <2>1. PICK u \in ScsiUnit : u = machine.unit
    BY <1>2, MachineFacts DEF ScInv
  <2>2. Life(u) /\ ExitInv
    BY <1>2 DEF ScInv, LifeInv
  <2>3. ASSUME machine.pc = "exit", devst[u].opencnt = 0
        PROVE  devThread[u].pc \in {"posted", "closing", "off"}
    BY <2>2, <2>3 DEF ExitInv, Exiting
  <2>4. ASSUME machine.pc = "exitWait", devst[u].sync > 0
        PROVE  devThread[u].pc \in {"posted", "closing", "off"}
    <3>1. StoppedAt(u) /\ ~Ending(u)
      BY <2>1, <2>4 DEF StoppedAt, Ending
    <3> QED
      BY <2>2, <3>1 DEF Life, Off
  <2> QED
    BY <2>1, <2>3, <2>4 DEF KilledBeforeCleared
<1>3. ScInv /\ NumberInv => UnitsAreServed
  BY <1>1, <1>2, SentIsOnOneWay DEF ScInv, NumberInv, HandleInv, UnitsAreServed, ContextsAreClosed
<1> QED
  BY <1>3, ScInvHolds, PTL
=============================================================================

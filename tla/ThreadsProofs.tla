--------------------------- MODULE ThreadsProofs ---------------------------
(* Proofs about the threads of sound and CD. SdlSound, for any number of     *)
(* threads that failed opens left behind: its types, and that the buffer is  *)
(* only copied when it is full. CdBuffer, for buffers of any size, any       *)
(* number of slots, discs and seeks: a slot of the program is given the      *)
(* sector it asked for, or another answer of the drive, but no other sector. *)
EXTENDS SdlSound, CdBuffer, TLAPS

-----------------------------------------------------------------------------
(* The sound threads and their pipe. One thread at the most is not waiting;  *)
(* a word that was written is in the pipe, or a thread does as it says, or   *)
(* the semaphore tells that it was done.                                     *)
Busy(t) == sndAt[t] \in {"read", "opens", "quits"}
NoneBusy == \A t \in SoundThread : ~Busy(t)
NoneWorks == \A t \in SoundThread : sndAt[t] \notin {"opens", "quits"}
Idle == toSound = <<>> /\ initSem = 0 /\ NoneWorks
InPipe(word) == toSound = <<word>> /\ initSem = 0 /\ NoneWorks
Doing(at) == toSound = <<>> /\ initSem = 0 /\ \E t \in SoundThread : sndAt[t] = at
Reported == toSound = <<>> /\ initSem = 1 /\ NoneWorks

WaitInv ==
  /\ \A t, u \in SoundThread : Busy(t) /\ Busy(u) => t = u
  /\ wake = 1 => toSound # <<>> /\ ~readerWaits /\ NoneBusy
  /\ readerWaits => toSound = <<>> /\ wake = 0 /\ NoneBusy
WordInv ==
  /\ emuAt \in {"off", "begins", "run", "finish", "test", "join"} => Idle
  /\ emuAt = "opening" => InPipe(0) \/ Doing("opens") \/ Reported
  /\ emuAt = "told" => InPipe(1) \/ Doing("quits") \/ Reported

(* SDL has a callback as long as the device is open.                         *)
DeviceInv ==
  /\ have <=> cbAt # "none"
  /\ emuAt \in {"off", "begins"} => ~have
  /\ emuAt = "opening" => cbAt \in {"none", "idle"} /\ (have => Reported /\ paused)
  /\ emuAt \in {"run", "finish", "test", "told", "join"} => have
  /\ emuAt \in {"test", "told", "join"} => paused
  /\ inCallback <=> cbAt \in {"wait", "check", "copied", "leave"}

(* A full buffer is one token: in data_available, with the callback, or in   *)
(* callback_done. One more is given to a callback that is to end.            *)
Token ==
  dataSem + doneSem + (IF cbAt \in {"check", "copied"} THEN 1 ELSE 0)

TokenInv ==
  /\ emuAt \in {"begins", "opening", "run", "finish", "test"} =>
       ~closing /\ Token = (IF emuAt = "finish" THEN 1 ELSE 0)
  /\ fresh <=> emuAt = "finish" /\ (dataSem = 1 \/ cbAt = "check")
  /\ emuAt \in {"told", "join"} /\ ~closing => Token = 0
  /\ emuAt \in {"told", "join"} /\ closing =>
       /\ Token <= 1 /\ doneSem = 0 /\ cbAt \in {"idle", "wait", "check", "leave"}
       /\ cbAt = "wait" => dataSem = 1

SndInv == SndTypeOK /\ WaitInv /\ WordInv /\ DeviceInv /\ TokenInv

(* to_sound_pipe holds a word at the most, 0 or 1.                           *)
LEMMA WordFacts ==
  /\ <<>> # <<0>> /\ <<>> # <<1>> /\ <<0>> # <<1>>
  /\ Head(<<0>>) = 0 /\ Head(<<1>>) = 1 /\ Tail(<<0>>) = <<>> /\ Tail(<<1>>) = <<>>
  /\ Append(<<>>, 0) = <<0>> /\ Append(<<>>, 1) = <<1>>
OBVIOUS

SndPlaces ==
  /\ emuAt \in {"off", "begins", "opening", "run", "finish", "test", "told", "join"}
  /\ sndAt \in [SoundThread -> {"none", "read", "wait", "lost", "opens", "quits"}]
  /\ cbAt \in {"none", "idle", "enter", "mark", "wait", "check", "copied", "leave"}
  /\ dataSem \in 0..1 /\ doneSem \in 0..1 /\ initSem \in 0..1 /\ wake \in 0..1
  /\ toSound \in {<<>>, <<0>>, <<1>>}
SndFlags ==
  /\ readerWaits \in BOOLEAN /\ inCallback \in BOOLEAN /\ closing \in BOOLEAN
  /\ have \in BOOLEAN /\ paused \in BOOLEAN /\ fresh \in BOOLEAN

(* The type invariant, one variable at a time.                               *)
LEMMA TypesApart == SndTypeOK <=> SndPlaces /\ SndFlags
BY DEF SndTypeOK, SndPlaces, SndFlags

(* The same in the next state.                                               *)
LEMMA TypesApartNext == SndTypeOK' <=> SndPlaces' /\ SndFlags'
BY DEF SndTypeOK, SndPlaces, SndFlags

(* At the start nothing is open and no thread but the emulator's runs.       *)
LEMMA SndInitially == SndInit => SndInv
<1> SUFFICES ASSUME SndInit PROVE SndInv
  OBVIOUS
<1> USE WordFacts DEF SndInit
<1>1. SndPlaces
  BY SMT DEF SndPlaces
<1>2. SndFlags
  BY Zenon DEF SndFlags
<1>3. WaitInv /\ WordInv /\ DeviceInv /\ TokenInv
  BY SMT DEF WaitInv, WordInv, DeviceInv, TokenInv, Busy, NoneBusy, NoneWorks, Idle, Token
<1> QED
  BY <1>1, <1>2, <1>3, TypesApart DEF SndInv

(* Every step keeps it. First the steps of the emulator thread and of the    *)
(* sound threads, which use the pipe.                                        *)
LEMMA SndThreadsKeep ==
  ASSUME SndInv, Starts \/ EmuWaits \/ SoundThreads
  PROVE SndInv'
<1> USE WordFacts DEF sndSems, sndPipe
<1>0. SndPlaces /\ SndFlags /\ WaitInv /\ WordInv /\ DeviceInv /\ TokenInv
  BY TypesApart DEF SndInv
<1>t. SUFFICES SndPlaces' /\ SndFlags' /\ WaitInv' /\ WordInv' /\ DeviceInv' /\ TokenInv'
  BY TypesApartNext DEF SndInv
<1>1. ASSUME NEW t \in SoundThread, NEW lost \in BOOLEAN, InitSound(t, lost)
     PROVE SndPlaces' /\ SndFlags' /\ WaitInv' /\ WordInv' /\ DeviceInv' /\ TokenInv'
  <2> USE <1>1 DEF InitSound, Settled
  <2>1. SndPlaces'
    BY <1>0, SMTT(60) DEF SndPlaces, WaitInv, WordInv, DeviceInv, TokenInv, Idle, InPipe, Doing,
                          Reported, NoneWorks, NoneBusy, Busy, Token
  <2>2. SndFlags'
    BY <1>0, Zenon DEF SndFlags
  <2>3. WaitInv'
    BY <1>0, <2>1, SMTT(60) DEF SndPlaces, SndFlags, WaitInv, WordInv, Busy, NoneBusy,
                                NoneWorks, Idle, InPipe, Doing, Reported
  <2>4. WordInv'
    BY <1>0, <2>1, SMTT(60) DEF SndPlaces, SndFlags, WaitInv, WordInv, Busy, NoneBusy,
                                NoneWorks, Idle, InPipe, Doing, Reported
  <2>5. DeviceInv'
    BY <1>0, <2>1, SMTT(60) DEF DeviceInv, SndPlaces, SndFlags, WaitInv, WordInv, Busy,
                                NoneBusy, NoneWorks, Idle, InPipe, Doing, Reported
  <2>6. TokenInv'
    BY <1>0, <2>1, SMTT(60) DEF SndPlaces, SndFlags, WordInv, DeviceInv, TokenInv, Idle, InPipe,
                                Doing, Reported, Token
  <2> QED
    BY <2>1, <2>2, <2>3, <2>4, <2>5, <2>6
<1>2. CASE AsksToOpen
  <2> USE <1>2 DEF AsksToOpen, Writes
  <2>1. SndPlaces'
    BY <1>0, SMTT(60) DEF SndPlaces, WaitInv, WordInv, DeviceInv, TokenInv, Idle, InPipe, Doing,
                          Reported, NoneWorks, NoneBusy, Busy, Token
  <2>2. SndFlags'
    BY <1>0, Zenon DEF SndFlags
  <2>3. WaitInv'
    BY <1>0, <2>1, SMTT(60) DEF SndPlaces, SndFlags, WaitInv, WordInv, Busy, NoneBusy,
                                NoneWorks, Idle, InPipe, Doing, Reported
  <2>4. WordInv'
    BY <1>0, <2>1, SMTT(60) DEF SndPlaces, SndFlags, WaitInv, WordInv, Busy, NoneBusy,
                                NoneWorks, Idle, InPipe, Doing, Reported
  <2>5. DeviceInv'
    BY <1>0, <2>1, SMTT(60) DEF DeviceInv, SndPlaces, SndFlags, WaitInv, WordInv, Busy,
                                NoneBusy, NoneWorks, Idle, InPipe, Doing, Reported
  <2>6. TokenInv'
    BY <1>0, <2>1, SMTT(60) DEF SndPlaces, SndFlags, WordInv, DeviceInv, TokenInv, Idle, InPipe,
                                Doing, Reported, Token
  <2> QED
    BY <2>1, <2>2, <2>3, <2>4, <2>5, <2>6
<1>3. CASE Opened
  <2> USE <1>3 DEF Opened
  <2>1. SndPlaces'
    BY <1>0, SMTT(60) DEF SndPlaces, WaitInv, WordInv, DeviceInv, TokenInv, Idle, InPipe, Doing,
                          Reported, NoneWorks, NoneBusy, Busy, Token
  <2>2. SndFlags'
    BY <1>0, Zenon DEF SndFlags
  <2>3. WaitInv'
    BY <1>0, <2>1, SMTT(60) DEF SndPlaces, SndFlags, WaitInv, WordInv, Busy, NoneBusy,
                                NoneWorks, Idle, InPipe, Doing, Reported
  <2>4. WordInv'
    BY <1>0, <2>1, SMTT(60) DEF SndPlaces, SndFlags, WaitInv, WordInv, Busy, NoneBusy,
                                NoneWorks, Idle, InPipe, Doing, Reported
  <2>5. DeviceInv'
    BY <1>0, <2>1, SMTT(60) DEF DeviceInv, SndPlaces, SndFlags, WaitInv, WordInv, Busy,
                                NoneBusy, NoneWorks, Idle, InPipe, Doing, Reported
  <2>6. TokenInv'
    BY <1>0, <2>1, SMTT(60) DEF SndPlaces, SndFlags, WordInv, DeviceInv, TokenInv, Idle, InPipe,
                                Doing, Reported, Token
  <2> QED
    BY <2>1, <2>2, <2>3, <2>4, <2>5, <2>6
<1>4. CASE BufferFinished
  <2> USE <1>4 DEF BufferFinished
  <2>1. SndPlaces'
    BY <1>0, SMTT(60) DEF SndPlaces, WaitInv, WordInv, DeviceInv, TokenInv, Idle, InPipe, Doing,
                          Reported, NoneWorks, NoneBusy, Busy, Token
  <2>2. SndFlags'
    BY <1>0, Zenon DEF SndFlags
  <2>3. WaitInv'
    BY <1>0, <2>1, SMTT(60) DEF SndPlaces, SndFlags, WaitInv, WordInv, Busy, NoneBusy,
                                NoneWorks, Idle, InPipe, Doing, Reported
  <2>4. WordInv'
    BY <1>0, <2>1, SMTT(60) DEF SndPlaces, SndFlags, WaitInv, WordInv, Busy, NoneBusy,
                                NoneWorks, Idle, InPipe, Doing, Reported
  <2>5. DeviceInv'
    BY <1>0, <2>1, SMTT(60) DEF DeviceInv, SndPlaces, SndFlags, WaitInv, WordInv, Busy,
                                NoneBusy, NoneWorks, Idle, InPipe, Doing, Reported
  <2>6. TokenInv'
    BY <1>0, <2>1, SMTT(60) DEF SndPlaces, SndFlags, WordInv, DeviceInv, TokenInv, Idle, InPipe,
                                Doing, Reported, Token
  <2> QED
    BY <2>1, <2>2, <2>3, <2>4, <2>5, <2>6
<1>5. CASE Tells
  <2> USE <1>5 DEF Tells, Writes
  <2>1. SndPlaces'
    BY <1>0, SMTT(60) DEF SndPlaces, WaitInv, WordInv, DeviceInv, TokenInv, Idle, InPipe, Doing,
                          Reported, NoneWorks, NoneBusy, Busy, Token
  <2>2. SndFlags'
    BY <1>0, Zenon DEF SndFlags
  <2>3. WaitInv'
    BY <1>0, <2>1, SMTT(60) DEF SndPlaces, SndFlags, WaitInv, WordInv, Busy, NoneBusy,
                                NoneWorks, Idle, InPipe, Doing, Reported
  <2>4. WordInv'
    BY <1>0, <2>1, SMTT(60) DEF SndPlaces, SndFlags, WaitInv, WordInv, Busy, NoneBusy,
                                NoneWorks, Idle, InPipe, Doing, Reported
  <2>5. DeviceInv'
    BY <1>0, <2>1, SMTT(60) DEF DeviceInv, SndPlaces, SndFlags, WaitInv, WordInv, Busy,
                                NoneBusy, NoneWorks, Idle, InPipe, Doing, Reported
  <2>6. TokenInv'
    BY <1>0, <2>1, SMTT(60) DEF SndPlaces, SndFlags, WordInv, DeviceInv, TokenInv, Idle, InPipe,
                                Doing, Reported, Token
  <2> QED
    BY <2>1, <2>2, <2>3, <2>4, <2>5, <2>6
<1>6. CASE ThreadEnded
  <2> USE <1>6 DEF ThreadEnded
  <2>1. SndPlaces'
    BY <1>0, SMTT(60) DEF SndPlaces, WaitInv, WordInv, DeviceInv, TokenInv, Idle, InPipe, Doing,
                          Reported, NoneWorks, NoneBusy, Busy, Token
  <2>2. SndFlags'
    BY <1>0, Zenon DEF SndFlags
  <2>3. WaitInv'
    BY <1>0, <2>1, SMTT(60) DEF SndPlaces, SndFlags, WaitInv, WordInv, Busy, NoneBusy,
                                NoneWorks, Idle, InPipe, Doing, Reported
  <2>4. WordInv'
    BY <1>0, <2>1, SMTT(60) DEF SndPlaces, SndFlags, WaitInv, WordInv, Busy, NoneBusy,
                                NoneWorks, Idle, InPipe, Doing, Reported
  <2>5. DeviceInv'
    BY <1>0, <2>1, SMTT(60) DEF DeviceInv, SndPlaces, SndFlags, WaitInv, WordInv, Busy,
                                NoneBusy, NoneWorks, Idle, InPipe, Doing, Reported
  <2>6. TokenInv'
    BY <1>0, <2>1, SMTT(60) DEF SndPlaces, SndFlags, WordInv, DeviceInv, TokenInv, Idle, InPipe,
                                Doing, Reported, Token
  <2> QED
    BY <2>1, <2>2, <2>3, <2>4, <2>5, <2>6
<1>7. CASE Joins
  <2> USE <1>7 DEF Joins
  <2>1. SndPlaces'
    BY <1>0, SMTT(60) DEF SndPlaces, WaitInv, WordInv, DeviceInv, TokenInv, Idle, InPipe, Doing,
                          Reported, NoneWorks, NoneBusy, Busy, Token
  <2>2. SndFlags'
    BY <1>0, Zenon DEF SndFlags
  <2>3. WaitInv'
    BY <1>0, <2>1, SMTT(60) DEF SndPlaces, SndFlags, WaitInv, WordInv, Busy, NoneBusy,
                                NoneWorks, Idle, InPipe, Doing, Reported
  <2>4. WordInv'
    BY <1>0, <2>1, SMTT(60) DEF SndPlaces, SndFlags, WaitInv, WordInv, Busy, NoneBusy,
                                NoneWorks, Idle, InPipe, Doing, Reported
  <2>5. DeviceInv'
    BY <1>0, <2>1, SMTT(60) DEF DeviceInv, SndPlaces, SndFlags, WaitInv, WordInv, Busy,
                                NoneBusy, NoneWorks, Idle, InPipe, Doing, Reported
  <2>6. TokenInv'
    BY <1>0, <2>1, SMTT(60) DEF SndPlaces, SndFlags, WordInv, DeviceInv, TokenInv, Idle, InPipe,
                                Doing, Reported, Token
  <2> QED
    BY <2>1, <2>2, <2>3, <2>4, <2>5, <2>6
<1>8. ASSUME NEW t \in SoundThread, Reads(t)
     PROVE SndPlaces' /\ SndFlags' /\ WaitInv' /\ WordInv' /\ DeviceInv' /\ TokenInv'
  <2> USE <1>8 DEF Reads, Obeys
  <2>1. SndPlaces'
    <3>2. toSound' \in {<<>>, <<0>>, <<1>>}
      BY <1>0 DEF SndPlaces
    <3>3. sndAt' \in [SoundThread -> {"none", "read", "wait", "lost", "opens", "quits"}]
      BY <1>0 DEF SndPlaces
    <3>4. wake' \in 0..1
      BY <1>0 DEF SndPlaces
    <3> QED
      BY <1>0, <3>2, <3>3, <3>4 DEF SndPlaces
  <2>2. SndFlags'
    BY <1>0, Zenon DEF SndFlags
  <2>3. WaitInv'
    BY <1>0, <2>1, SMTT(60) DEF SndPlaces, SndFlags, WaitInv, WordInv, Busy, NoneBusy,
                                NoneWorks, Idle, InPipe, Doing, Reported
  <2>4. WordInv'
    BY <1>0, <2>1, SMTT(60) DEF SndPlaces, SndFlags, WaitInv, WordInv, Busy, NoneBusy,
                                NoneWorks, Idle, InPipe, Doing, Reported
  <2>5. DeviceInv'
    BY <1>0, <2>1, SMTT(60) DEF DeviceInv, SndPlaces, SndFlags, WaitInv, WordInv, Busy,
                                NoneBusy, NoneWorks, Idle, InPipe, Doing, Reported
  <2>6. TokenInv'
    BY <1>0, <2>1, SMTT(60) DEF SndPlaces, SndFlags, WordInv, DeviceInv, TokenInv, Idle, InPipe,
                                Doing, Reported, Token
  <2> QED
    BY <2>1, <2>2, <2>3, <2>4, <2>5, <2>6
<1>9. ASSUME NEW t \in SoundThread, ReadsWoken(t)
     PROVE SndPlaces' /\ SndFlags' /\ WaitInv' /\ WordInv' /\ DeviceInv' /\ TokenInv'
  <2> USE <1>9 DEF ReadsWoken, Obeys
  <2>1. SndPlaces'
    <3>1. toSound # <<>>
      BY <1>0 DEF SndPlaces, WaitInv
    <3>2. toSound' \in {<<>>, <<0>>, <<1>>}
      BY <1>0, <3>1 DEF SndPlaces
    <3>3. sndAt' \in [SoundThread -> {"none", "read", "wait", "lost", "opens", "quits"}]
      BY <1>0 DEF SndPlaces
    <3>4. wake' \in 0..1
      BY <1>0 DEF SndPlaces
    <3> QED
      BY <1>0, <3>2, <3>3, <3>4 DEF SndPlaces
  <2>2. SndFlags'
    BY <1>0, Zenon DEF SndFlags
  <2>3. WaitInv'
    BY <1>0, <2>1, SMTT(60) DEF SndPlaces, SndFlags, WaitInv, WordInv, Busy, NoneBusy,
                                NoneWorks, Idle, InPipe, Doing, Reported
  <2>4. WordInv'
    BY <1>0, <2>1, SMTT(60) DEF SndPlaces, SndFlags, WaitInv, WordInv, Busy, NoneBusy,
                                NoneWorks, Idle, InPipe, Doing, Reported
  <2>5. DeviceInv'
    BY <1>0, <2>1, SMTT(60) DEF DeviceInv, SndPlaces, SndFlags, WaitInv, WordInv, Busy,
                                NoneBusy, NoneWorks, Idle, InPipe, Doing, Reported
  <2>6. TokenInv'
    BY <1>0, <2>1, SMTT(60) DEF SndPlaces, SndFlags, WordInv, DeviceInv, TokenInv, Idle, InPipe,
                                Doing, Reported, Token
  <2> QED
    BY <2>1, <2>2, <2>3, <2>4, <2>5, <2>6
<1>10. ASSUME NEW t \in SoundThread, OpensSound(t)
     PROVE SndPlaces' /\ SndFlags' /\ WaitInv' /\ WordInv' /\ DeviceInv' /\ TokenInv'
  <2> USE <1>10 DEF OpensSound
  <2>1. SndPlaces'
    BY <1>0, SMTT(60) DEF SndPlaces, WaitInv, WordInv, DeviceInv, TokenInv, Idle, InPipe, Doing,
                          Reported, NoneWorks, NoneBusy, Busy, Token
  <2>2. SndFlags'
    BY <1>0, Zenon DEF SndFlags
  <2>3. WaitInv'
    BY <1>0, <2>1, SMTT(60) DEF SndPlaces, SndFlags, WaitInv, WordInv, Busy, NoneBusy,
                                NoneWorks, Idle, InPipe, Doing, Reported
  <2>4. WordInv'
    BY <1>0, <2>1, SMTT(60) DEF SndPlaces, SndFlags, WaitInv, WordInv, Busy, NoneBusy,
                                NoneWorks, Idle, InPipe, Doing, Reported
  <2>5. DeviceInv'
    BY <1>0, <2>1, SMTT(60) DEF DeviceInv, SndPlaces, SndFlags, WaitInv, WordInv, Busy,
                                NoneBusy, NoneWorks, Idle, InPipe, Doing, Reported
  <2>6. TokenInv'
    <3>1. emuAt = "opening" /\ cbAt \in {"none", "idle"}
      BY <1>0, SMTT(60) DEF SndPlaces, WaitInv, WordInv, DeviceInv, Busy, NoneWorks, Idle,
                            InPipe, Doing, Reported
    <3> QED
      BY <1>0, <3>1, SMTT(60) DEF SndPlaces, TokenInv, Token
  <2> QED
    BY <2>1, <2>2, <2>3, <2>4, <2>5, <2>6
<1>11. ASSUME NEW t \in SoundThread, Quits(t)
     PROVE SndPlaces' /\ SndFlags' /\ WaitInv' /\ WordInv' /\ DeviceInv' /\ TokenInv'
  <2> USE <1>11 DEF Quits
  <2>1. SndPlaces'
    BY <1>0, SMTT(60) DEF SndPlaces, WaitInv, WordInv, DeviceInv, TokenInv, Idle, InPipe, Doing,
                          Reported, NoneWorks, NoneBusy, Busy, Token
  <2>2. SndFlags'
    BY <1>0, Zenon DEF SndFlags
  <2>3. WaitInv'
    BY <1>0, <2>1, SMTT(60) DEF SndPlaces, SndFlags, WaitInv, WordInv, Busy, NoneBusy,
                                NoneWorks, Idle, InPipe, Doing, Reported
  <2>4. WordInv'
    BY <1>0, <2>1, SMTT(60) DEF SndPlaces, SndFlags, WaitInv, WordInv, Busy, NoneBusy,
                                NoneWorks, Idle, InPipe, Doing, Reported
  <2>5. DeviceInv'
    BY <1>0, <2>1, SMTT(60) DEF DeviceInv, SndPlaces, SndFlags, WaitInv, WordInv, Busy,
                                NoneBusy, NoneWorks, Idle, InPipe, Doing, Reported
  <2>6. TokenInv'
    BY <1>0, <2>1, SMTT(60) DEF SndPlaces, SndFlags, WordInv, DeviceInv, TokenInv, Idle, InPipe,
                                Doing, Reported, Token
  <2> QED
    BY <2>1, <2>2, <2>3, <2>4, <2>5, <2>6
<1> QED
  BY <1>1, <1>2, <1>3, <1>4, <1>5, <1>6, <1>7, <1>8, <1>9, <1>10, <1>11
  DEF Starts, EmuWaits, SoundThreads

(* Then the steps that leave the pipe alone: the emulator thread's others    *)
(* and the callback's.                                                       *)
LEMMA SndOthersKeep ==
  ASSUME SndInv, FinishBuffer \/ PauseSound \/ CloseSound \/ CallsBack \/ Callback
  PROVE SndInv'
<1> USE DEF sndSems, sndPipe
<1>0. SndPlaces /\ SndFlags /\ WaitInv /\ WordInv /\ DeviceInv /\ TokenInv
  BY TypesApart DEF SndInv
<1>t. SUFFICES SndPlaces' /\ SndFlags' /\ WaitInv' /\ WordInv' /\ DeviceInv' /\ TokenInv'
  BY TypesApartNext DEF SndInv
<1>a. SUFFICES ASSUME FinishBuffer \/ PauseSound \/ CloseSound \/ CallsBack \/ Callback
               PROVE SndPlaces' /\ SndFlags' /\ DeviceInv' /\ TokenInv'
  <2>1. /\ UNCHANGED <<sndAt, sndPipe, initSem>>
        /\ emuAt' = emuAt \/ {emuAt, emuAt'} \subseteq {"run", "finish", "test"}
    BY DEF FinishBuffer, PauseSound, CloseSound, CallsBack, Callback, CbStep, Declines, Passes, Marks,
           GetsData, GivesUp, Copies, NotifiesDone, Returns
  <2> QED
    BY <1>0, <2>1 DEF WaitInv, WordInv, Busy, NoneBusy, NoneWorks, Idle, InPipe, Doing, Reported
<1>1. CASE FinishBuffer
  <2> USE <1>1 DEF FinishBuffer
  <2>1. SndPlaces'
    BY <1>0, SMTT(60) DEF SndPlaces, WordInv, DeviceInv, TokenInv, Idle, Reported, Token
  <2>2. SndFlags'
    BY <1>0, Zenon DEF SndFlags
  <2>3. DeviceInv'
    BY <1>0, SMTT(60) DEF SndPlaces, SndFlags, DeviceInv, NoneWorks, Reported
  <2>4. TokenInv'
    BY <1>0, SMTT(60) DEF SndPlaces, SndFlags, WordInv, DeviceInv, TokenInv, Idle, Reported,
                          Token
  <2> QED
    BY <2>1, <2>2, <2>3, <2>4
<1>2. CASE PauseSound
  <2> USE <1>2 DEF PauseSound
  <2>1. SndPlaces'
    BY <1>0, SMTT(60) DEF SndPlaces, WordInv, DeviceInv, TokenInv, Idle, Reported, Token
  <2>2. SndFlags'
    BY <1>0, Zenon DEF SndFlags
  <2>3. DeviceInv'
    BY <1>0, SMTT(60) DEF SndPlaces, SndFlags, DeviceInv, NoneWorks, Reported
  <2>4. TokenInv'
    BY <1>0, SMTT(60) DEF SndPlaces, SndFlags, WordInv, DeviceInv, TokenInv, Idle, Reported,
                          Token
  <2> QED
    BY <2>1, <2>2, <2>3, <2>4
<1>3. CASE CloseSound
  <2> USE <1>3 DEF CloseSound
  <2>1. SndPlaces'
    BY <1>0, SMTT(60) DEF SndPlaces, WordInv, DeviceInv, TokenInv, Idle, Reported, Token
  <2>2. SndFlags'
    BY <1>0, Zenon DEF SndFlags
  <2>3. DeviceInv'
    BY <1>0, SMTT(60) DEF SndPlaces, SndFlags, DeviceInv, NoneWorks, Reported
  <2>4. TokenInv'
    BY <1>0, SMTT(60) DEF SndPlaces, SndFlags, WordInv, DeviceInv, TokenInv, Idle, Reported,
                          Token
  <2> QED
    BY <2>1, <2>2, <2>3, <2>4
<1>4. CASE CallsBack
  <2> USE <1>4 DEF CallsBack, CbStep
  <2>1. SndPlaces'
    BY <1>0, SMTT(60) DEF SndPlaces, WordInv, DeviceInv, TokenInv, Idle, Reported, Token
  <2>2. SndFlags'
    BY <1>0, Zenon DEF SndFlags
  <2>3. DeviceInv'
    BY <1>0, SMTT(60) DEF SndPlaces, SndFlags, DeviceInv, NoneWorks, Reported
  <2>4. TokenInv'
    BY <1>0, SMTT(60) DEF SndPlaces, SndFlags, WordInv, DeviceInv, TokenInv, Idle, Reported,
                          Token
  <2> QED
    BY <2>1, <2>2, <2>3, <2>4
<1>5. CASE Declines
  <2> USE <1>5 DEF Declines, CbStep
  <2>1. SndPlaces'
    BY <1>0, SMTT(60) DEF SndPlaces, WordInv, DeviceInv, TokenInv, Idle, Reported, Token
  <2>2. SndFlags'
    BY <1>0, Zenon DEF SndFlags
  <2>3. DeviceInv'
    BY <1>0, SMTT(60) DEF SndPlaces, SndFlags, DeviceInv, NoneWorks, Reported
  <2>4. TokenInv'
    BY <1>0, SMTT(60) DEF SndPlaces, SndFlags, WordInv, DeviceInv, TokenInv, Idle, Reported,
                          Token
  <2> QED
    BY <2>1, <2>2, <2>3, <2>4
<1>6. CASE Passes
  <2> USE <1>6 DEF Passes, CbStep
  <2>1. SndPlaces'
    BY <1>0, SMTT(60) DEF SndPlaces, WordInv, DeviceInv, TokenInv, Idle, Reported, Token
  <2>2. SndFlags'
    BY <1>0, Zenon DEF SndFlags
  <2>3. DeviceInv'
    BY <1>0, SMTT(60) DEF SndPlaces, SndFlags, DeviceInv, NoneWorks, Reported
  <2>4. TokenInv'
    BY <1>0, SMTT(60) DEF SndPlaces, SndFlags, WordInv, DeviceInv, TokenInv, Idle, Reported,
                          Token
  <2> QED
    BY <2>1, <2>2, <2>3, <2>4
<1>7. CASE Marks
  <2> USE <1>7 DEF Marks, CbStep
  <2>1. SndPlaces'
    BY <1>0, SMTT(60) DEF SndPlaces, WordInv, DeviceInv, TokenInv, Idle, Reported, Token
  <2>2. SndFlags'
    BY <1>0, Zenon DEF SndFlags
  <2>3. DeviceInv'
    BY <1>0, SMTT(60) DEF SndPlaces, SndFlags, DeviceInv, NoneWorks, Reported
  <2>4. TokenInv'
    BY <1>0, SMTT(60) DEF SndPlaces, SndFlags, WordInv, DeviceInv, TokenInv, Idle, Reported,
                          Token
  <2> QED
    BY <2>1, <2>2, <2>3, <2>4
<1>8. CASE GetsData
  <2> USE <1>8 DEF GetsData, CbStep
  <2>1. SndPlaces'
    BY <1>0, SMTT(60) DEF SndPlaces, WordInv, DeviceInv, TokenInv, Idle, Reported, Token
  <2>2. SndFlags'
    BY <1>0, Zenon DEF SndFlags
  <2>3. DeviceInv'
    BY <1>0, SMTT(60) DEF SndPlaces, SndFlags, DeviceInv, NoneWorks, Reported
  <2>4. TokenInv'
    BY <1>0, SMTT(60) DEF SndPlaces, SndFlags, WordInv, DeviceInv, TokenInv, Idle, Reported,
                          Token
  <2> QED
    BY <2>1, <2>2, <2>3, <2>4
<1>9. CASE GivesUp
  <2> USE <1>9 DEF GivesUp, CbStep
  <2>1. SndPlaces'
    BY <1>0, SMTT(60) DEF SndPlaces, WordInv, DeviceInv, TokenInv, Idle, Reported, Token
  <2>2. SndFlags'
    BY <1>0, Zenon DEF SndFlags
  <2>3. DeviceInv'
    BY <1>0, SMTT(60) DEF SndPlaces, SndFlags, DeviceInv, NoneWorks, Reported
  <2>4. TokenInv'
    BY <1>0, SMTT(60) DEF SndPlaces, SndFlags, WordInv, DeviceInv, TokenInv, Idle, Reported,
                          Token
  <2> QED
    BY <2>1, <2>2, <2>3, <2>4
<1>10. CASE Copies
  <2> USE <1>10 DEF Copies, CbStep
  <2>1. SndPlaces'
    BY <1>0, SMTT(60) DEF SndPlaces, WordInv, DeviceInv, TokenInv, Idle, Reported, Token
  <2>2. SndFlags'
    BY <1>0, Zenon DEF SndFlags
  <2>3. DeviceInv'
    BY <1>0, SMTT(60) DEF SndPlaces, SndFlags, DeviceInv, NoneWorks, Reported
  <2>4. TokenInv'
    BY <1>0, SMTT(60) DEF SndPlaces, SndFlags, WordInv, DeviceInv, TokenInv, Idle, Reported,
                          Token
  <2> QED
    BY <2>1, <2>2, <2>3, <2>4
<1>11. CASE NotifiesDone
  <2> USE <1>11 DEF NotifiesDone, CbStep
  <2>1. SndPlaces'
    BY <1>0, SMTT(60) DEF SndPlaces, WordInv, DeviceInv, TokenInv, Idle, Reported, Token
  <2>2. SndFlags'
    BY <1>0, Zenon DEF SndFlags
  <2>3. DeviceInv'
    BY <1>0, SMTT(60) DEF SndPlaces, SndFlags, DeviceInv, NoneWorks, Reported
  <2>4. TokenInv'
    BY <1>0, SMTT(60) DEF SndPlaces, SndFlags, WordInv, DeviceInv, TokenInv, Idle, Reported,
                          Token
  <2> QED
    BY <2>1, <2>2, <2>3, <2>4
<1>12. CASE Returns
  <2> USE <1>12 DEF Returns, CbStep
  <2>1. SndPlaces'
    BY <1>0, SMTT(60) DEF SndPlaces, WordInv, DeviceInv, TokenInv, Idle, Reported, Token
  <2>2. SndFlags'
    BY <1>0, Zenon DEF SndFlags
  <2>3. DeviceInv'
    BY <1>0, SMTT(60) DEF SndPlaces, SndFlags, DeviceInv, NoneWorks, Reported
  <2>4. TokenInv'
    BY <1>0, SMTT(60) DEF SndPlaces, SndFlags, WordInv, DeviceInv, TokenInv, Idle, Reported,
                          Token
  <2> QED
    BY <2>1, <2>2, <2>3, <2>4
<1> QED
  BY <1>a, <1>1, <1>2, <1>3, <1>4, <1>5, <1>6, <1>7, <1>8, <1>9, <1>10, <1>11, <1>12
     DEF Callback

(* The invariant of the sound threads.                                       *)
THEOREM SndInvariant == SndSpec => []SndInv
<1>1. SndInv /\ [SndNext]_sndVars => SndInv'
  <2> SUFFICES ASSUME SndInv, [SndNext]_sndVars PROVE SndInv'
    OBVIOUS
  <2>1. CASE Starts \/ EmuWaits \/ SoundThreads
    BY <2>1, SndThreadsKeep
  <2>2. CASE FinishBuffer \/ PauseSound \/ CloseSound \/ CallsBack \/ Callback
    BY <2>2, SndOthersKeep
  <2>3. CASE UNCHANGED sndVars
    BY <2>3 DEF SndInv, SndTypeOK, WaitInv, WordInv, DeviceInv, TokenInv, Busy, NoneBusy,
                NoneWorks, Idle, InPipe, Doing, Reported, Token, sndVars, sndSems, sndPipe
  <2> QED
    BY <2>1, <2>2, <2>3 DEF SndNext, Emulates
<1> QED
  BY SndInitially, <1>1, PTL DEF SndSpec

(* Type correctness of SdlSound: no semaphore is posted twice, and the pipe  *)
(* to the sound thread never holds two words.                                *)
THEOREM SndTypes == SndSpec => []SndTypeOK
<1>1. SndInv => SndTypeOK
  BY DEF SndInv
<1> QED
  BY SndInvariant, <1>1, PTL

(* SDL's callback copies a buffer that finish_sound_buffer filled and is     *)
(* waiting for, and finish_sound_buffer returns when it was copied.          *)
THEOREM BufferStaysShared == SndSpec => []BufferIsShared
<1>1. SndInv => BufferIsShared
  BY DEF SndInv, SndTypeOK, DeviceInv, TokenInv, Token, BufferIsShared
<1> QED
  BY SndInvariant, <1>1, PTL

-----------------------------------------------------------------------------
(* CdBuffer                                                                  *)
(* What is in the first buffer is what its info and sector say, or another   *)
(* answer, except while the thread exchanges the two; then the parts not     *)
(* exchanged yet are in the second. A sector that the drive has in its       *)
(* buffer for the thread is the one that the thread asked for.               *)
Holds(info, holds, sector) == \A i \in Index : info[i] > 0 => holds[i] \in {sector + i, Other}

BuffersInv ==
  /\ reader.at \notin {"swapData", "swapSector"} => Holds(buf1.info, buf1.holds, buf1.sector)
  /\ reader.at \in {"fill", "take"} =>
       /\ buf2.sector = reader.sector /\ Holds(buf2.info, buf2.holds, buf2.sector)
       /\ \A i \in Index : i >= reader.next => buf2.info[i] = 0
  /\ reader.at = "take" /\ answer \in Nat => answer = reader.sector + reader.next
  /\ reader.at = "swapData" => Holds(buf1.info, buf2.holds, buf2.sector)
  /\ reader.at = "swapSector" => Holds(buf1.info, buf1.holds, buf2.sector)

(* akiko_sem keeps the copy and the exchange apart. An answer is taken for a *)
(* place of the buffer.                                                      *)
SemInv ==
  /\ cpu.at = "copy" => akiko_sem = 0 /\ reader.at \notin {"swapData", "swapSector"}
  /\ reader.at \in {"swapData", "swapSector"} => akiko_sem = 0
  /\ reader.at = "take" => reader.next < BufferSize

CopyInv == cpu.at = "copy" => buf1.sector + cpu.sec = Sector

(* The buffers are only freed when the thread has ended.                     *)
LifeInv ==
  /\ running = -1 => reader.at = "off"
  /\ cpu.at = "init" => reader.at = "off"
  /\ cpu.at # "init" => alloc

CdInv == CdTypeOK /\ BuffersInv /\ SemInv /\ CopyInv /\ LifeInv

(* The buffer has places, the first of them 0.                               *)
LEMMA IndexFacts == BufferSize \in Nat \ {0} /\ Index = 0..(BufferSize - 1) /\ 0 \in Index
BY CdAssumption DEF CdAssumption, Index

(* A buffer that was just allocated holds no sector.                         *)
LEMMA EmptyFacts ==
  /\ Empty \in [sector : Int, info : [Index -> -1..Uses], holds : [Index -> Int]]
  /\ Empty.sector = -1 /\ Holds(Empty.info, Empty.holds, -1)
  /\ \A i \in Index : Empty.info[i] = 0
<1>1. Uses \in Nat /\ 0 \in -1..Uses /\ -1 \in Int
  BY CdAssumption DEF CdAssumption
<1>2. [i \in Index |-> 0] \in [Index -> -1..Uses] /\ [i \in Index |-> Nothing] \in [Index -> Int]
  BY <1>1 DEF Nothing
<1> QED
  BY <1>1, <1>2 DEF Empty, Holds

(* At the start the drive has no buffers, no thread and no sector asked for. *)
THEOREM CdInitially == CdInit => CdInv
<1> SUFFICES ASSUME CdInit PROVE CdInv
  OBVIOUS
<1> USE IndexFacts
<1>1. CdTypeOK
  <2>1. /\ cdrom_disk \in BOOLEAN /\ EndOf(disc) \in Garbled \cup {-1, LeadOut} /\ disc \in Discs
        /\ enabled \in BOOLEAN /\ alloc \in BOOLEAN
    BY DEF CdInit, EndOf
  <2>2. offset \in Offsets \cup {-1, 0} /\ counter \in Nat /\ current \in Int
        /\ akiko_sem \in 0..1 /\ running \in {1, 0, -1} /\ todo \subseteq SlotNo
        /\ answer \in Int
    BY CdAssumption DEF CdInit, CdAssumption, Other
  <2>3. buf1 = Empty /\ buf2 = Empty
    BY DEF CdInit
  <2>4. cpu \in [at : {"run", "toc", "parse", "copy", "join", "init"}, sec : Index]
    BY DEF CdInit, CpuAt
  <2>5. reader \in [at : {"off", "sleep", "test", "fill", "take", "swapData", "swapSector"},
                    sector : Int, next : 0..BufferSize]
    BY DEF CdInit, ReaderAt
  <2> QED
    BY <2>1, <2>2, <2>3, <2>4, <2>5, EmptyFacts DEF CdTypeOK, CdInit
<1>2. BuffersInv
  BY EmptyFacts DEF CdInit, BuffersInv, ReaderAt
<1>3. SemInv /\ CopyInv /\ LifeInv
  BY DEF CdInit, SemInv, CopyInv, LifeInv, ReaderAt, CpuAt
<1> QED
  BY <1>1, <1>2, <1>3 DEF CdInv

(* The type invariant, action by action.                                     *)
LEMMA TypeStep == ASSUME CdTypeOK, SemInv, [CdNext]_cdVars PROVE CdTypeOK'
<1> USE IndexFacts
<1> DEFINE Buffer == [sector : Int, info : [Index -> -1..Uses], holds : [Index -> Int]]
           Cpu == [at : {"run", "toc", "parse", "copy", "join", "init"}, sec : Index]
           Reader == [at : {"off", "sleep", "test", "fill", "take", "swapData", "swapSector"},
                      sector : Int, next : 0..BufferSize]
<1> USE DEF program, toc, bufs
<1>0. LeadOut \in Nat \ {0} /\ Uses \in Nat \ {0} /\ DmaSlots \in Nat \ {0} /\ Offsets \subseteq Nat
      /\ Garbled \subseteq Nat
  BY CdAssumption DEF CdAssumption
<1>t. /\ offset \in Int /\ counter \in Nat /\ current \in Int /\ cdrom_data_end \in Int
      /\ buf1 \in Buffer /\ buf2 \in Buffer /\ cpu \in Cpu /\ reader \in Reader
      /\ akiko_sem \in {0, 1}
  <2>1. offset \in Int /\ cdrom_data_end \in Int
    BY <1>0 DEF CdTypeOK
  <2>2. akiko_sem \in {0, 1}
    BY DEF CdTypeOK
  <2> QED
    BY <2>1, <2>2 DEF CdTypeOK
<1>s. Sector \in Int
  BY <1>t DEF Sector
<1>r. ASSUME NEW to \in {"off", "sleep", "test", "fill", "take", "swapData", "swapSector"}
      PROVE  ReaderAt(to) \in Reader
  BY DEF ReaderAt
<1>c. ASSUME NEW at \in {"run", "toc", "parse", "copy", "join", "init"} PROVE CpuAt(at) \in Cpu
  BY DEF CpuAt
<1>a. ASSUME NEW d PROVE Toc(d) \in Int
  BY DEF Toc
<1>1. ASSUME NEW o \in Offsets, Seek(o) PROVE CdTypeOK'
  BY <1>1 DEF Seek, CdTypeOK
<1>2. ASSUME NEW on \in BOOLEAN, Enables(on) PROVE CdTypeOK'
  <2>1. counter' \in Nat
    BY <1>2, <1>t DEF Enables
  <2> QED
    BY SMTT(30), <1>2, <2>1 DEF Enables, CdTypeOK
<1>3. ASSUME NEW S \in SUBSET SlotNo, AsksFor(S) PROVE CdTypeOK'
  BY <1>3 DEF AsksFor, CdTypeOK
<1>4. CASE DiscChanges
  BY <1>4 DEF DiscChanges, CdTypeOK
<1>5. CASE TocBegins
  <2>1. cpu' \in Cpu /\ answer' \in Int
    BY <1>5, <1>c, <1>a DEF TocBegins
  <2> QED
    BY <1>5, <2>1 DEF TocBegins, CdTypeOK
<1>6. CASE Parsing
  <2>1. cpu' \in Cpu
    <3>1. cpu' = CpuAt("run") \/ cpu' = CpuAt("parse")
      BY <1>6 DEF Parsing, TocFails, TocComes, TocEnds
    <3> QED
      BY <3>1, <1>c
  <2>3. answer' \in Int
    <3>1. answer' = answer \/ answer' = Other
      BY <1>6 DEF Parsing, TocFails, TocComes, TocEnds
    <3> QED
      BY <3>1 DEF CdTypeOK, Other
  <2>2. cdrom_data_end' \in Garbled \cup {-1, LeadOut}
    BY <1>6 DEF Parsing, TocFails, TocComes, TocEnds, EndOf, CdTypeOK
  <2> QED
    BY <1>6, <2>1, <2>2, <2>3 DEF Parsing, TocFails, TocComes, TocEnds, CdTypeOK
<1>20. CASE AsksPosition
  <2>1. answer' \in Int
    BY <1>20 DEF AsksPosition, Other
  <2> QED
    BY <1>20, <2>1 DEF AsksPosition, CdTypeOK
<1>7. CASE ReadPasses
  <2>1. counter' \in Nat
    BY <1>t, <1>7 DEF ReadPasses
  <2> QED
    BY <1>7, <2>1 DEF ReadPasses, CdTypeOK
<1>8. CASE ReadTests
  <2>1. cpu' \in Cpu /\ akiko_sem' \in 0..1
    <3>1. CASE buf1.sector >= 0 /\ Sector - buf1.sector \in Index
      <4>1. cpu' = [at |-> "copy", sec |-> Sector - buf1.sector] /\ akiko_sem' = akiko_sem - 1
        BY <3>1, <1>8 DEF ReadTests
      <4>2. cpu' \in Cpu
        BY <3>1, <4>1
      <4>3. akiko_sem > 0
        BY <1>8 DEF ReadTests
      <4> QED
        BY <4>1, <4>2, <4>3, <1>t
    <3>2. CASE ~(buf1.sector >= 0 /\ Sector - buf1.sector \in Index)
      <4>1. cpu' = cpu /\ akiko_sem' = akiko_sem
        BY <3>2, <1>8 DEF ReadTests
      <4> QED
        BY <4>1, <1>t
    <3> QED
      BY <3>1, <3>2
  <2>2. current' \in Int
    BY <1>8, <1>s DEF ReadTests
  <2> QED
    BY <1>8, <2>1, <2>2 DEF ReadTests, CdTypeOK
<1>9. CASE ReadCopies
  <2>1. buf1' \in Buffer
    <3>1. cpu.sec \in Index /\ buf1.info[cpu.sec] \in -1..Uses
      BY <1>t
    <3>2. PICK n : n = (IF buf1.info[cpu.sec] = Spent THEN buf1.info[cpu.sec]
                  ELSE buf1.info[cpu.sec] - 1)
      OBVIOUS
    <3>3. n \in -1..Uses
      BY <1>0, <3>1, <3>2 DEF Spent
    <3>4. buf1' = [buf1 EXCEPT !.info[cpu.sec] = n, !.holds[cpu.sec] = LastHeld]
      BY <1>9, <3>2 DEF ReadCopies
    <3>5. LastHeld \in Int
      <4>1. buf1.holds[cpu.sec] \in Int /\ -6 \in Int
        BY <3>1, <1>t
      <4>2. LastHeld \in {buf1.holds[cpu.sec], -6}
        BY DEF LastHeld, Nothing
      <4> QED
        BY <4>1, <4>2
    <3> QED
      BY <3>1, <3>3, <3>4, <3>5, <1>t
  <2>2. cpu' \in Cpu
    BY <1>9, <1>c DEF ReadCopies
  <2>3. akiko_sem' \in 0..1
    BY <1>9, <1>t DEF ReadCopies, SemInv
  <2>4. todo' \subseteq SlotNo
    BY <1>9 DEF ReadCopies, CdTypeOK
  <2>5. counter' \in Nat
    <3>1. counter' = counter + 1
      BY <1>9 DEF ReadCopies
    <3> QED
      BY <3>1, <1>t
  <2> QED
    BY <1>9, <2>1, <2>2, <2>3, <2>4, <2>5 DEF ReadCopies, CdTypeOK
<1>10. CASE ReaderTests
  <2>1. reader' \in Reader /\ buf2' \in Buffer
    <3>1. CASE reader' = ReaderAt("sleep") /\ buf2' = buf2
      BY <3>1, <1>t, <1>r
    <3>2. CASE /\ reader' = [at |-> "fill", sector |-> current, next |-> 0]
               /\ buf2' = [buf2 EXCEPT !.sector = current, !.info = Empty.info]
      <4>1. Empty.info \in [Index -> -1..Uses]
        BY EmptyFacts
      <4>2. reader' \in Reader
        BY <3>2, <1>t
      <4> QED
        BY <4>1, <4>2, <3>2, <1>t
    <3> QED
      BY <1>10, <3>1, <3>2 DEF ReaderTests
  <2> QED
    BY <1>10, <2>1 DEF ReaderTests, CdTypeOK
<1>f. ASSUME NEW ok \in BOOLEAN, reader.next \in Index, Filled(ok)
      PROVE  reader' \in Reader /\ buf2' \in Buffer
  <2>1. reader.next + 1 \in 0..BufferSize /\ Uses \in -1..Uses /\ 0 \in -1..Uses
    BY <1>f, <1>0
  <2>2. PICK h : h = (IF answer \in Nat THEN answer ELSE Other)
    OBVIOUS
  <2>3. h \in Int
    BY <2>2 DEF Other
  <2>4. reader' \in Reader
    BY <1>f, <1>t, <2>1 DEF Filled
  <2>5. CASE ok
    <3>1. buf2' = [buf2 EXCEPT !.info[reader.next] = Uses, !.holds[reader.next] = h]
      BY <1>f, <2>2, <2>5 DEF Filled
    <3> QED
      BY <1>f, <1>t, <2>1, <2>3, <2>4, <3>1
  <2>6. CASE ~ok
    <3>1. buf2' = [buf2 EXCEPT !.info[reader.next] = 0]
      BY <1>f, <2>6 DEF Filled
    <3> QED
      BY <1>f, <1>t, <2>1, <2>4, <3>1
  <2> QED
    BY <2>5, <2>6
<1>11. CASE Fills
  <2>1. reader.next \in Index
    BY <1>11, <1>t DEF Fills
  <2>2. reader' \in Reader /\ buf2' \in Buffer /\ answer' \in Int
    <3>1. CASE reader.sector + reader.next < cdrom_data_end
      <4>1. answer' \in Int
        BY <1>11, <3>1, <1>t DEF Fills, Unread
      <4> QED
        BY <1>11, <3>1, <4>1, <1>t DEF Fills
    <3>2. CASE ~(reader.sector + reader.next < cdrom_data_end)
      <4>1. Filled(FALSE) /\ answer' = answer
        BY <1>11, <3>2 DEF Fills
      <4> QED
        BY <4>1, <2>1, <1>f DEF CdTypeOK
    <3> QED
      BY <3>1, <3>2
  <2> QED
    BY <1>11, <2>2 DEF Fills, CdTypeOK
<1>21. CASE Takes
  <2>1. reader.next \in Index
    BY <1>21, <1>t DEF Takes, SemInv
  <2>2. PICK ok \in BOOLEAN : Filled(ok)
    BY <1>21 DEF Takes
  <2>3. reader' \in Reader /\ buf2' \in Buffer
    BY <2>1, <2>2, <1>f
  <2>4. answer' \in Int
    BY <1>21 DEF Takes, CdTypeOK, Other
  <2> QED
    BY <1>21, <2>3, <2>4 DEF Takes, CdTypeOK
<1>12. CASE SwapInfo
  <2>1. reader' \in Reader /\ buf1' \in Buffer /\ buf2' \in Buffer
    BY <1>12, <1>t, <1>r, EmptyFacts DEF SwapInfo, Swaps
  <2>2. akiko_sem' \in 0..1
    BY <1>12, <1>t DEF SwapInfo
  <2> QED
    BY <1>12, <2>1, <2>2 DEF SwapInfo, Swaps, CdTypeOK
<1>13. CASE SwapData
  <2>1. reader' \in Reader /\ buf1' \in Buffer /\ buf2' \in Buffer
    BY <1>13, <1>t, <1>r, EmptyFacts DEF SwapData, Swaps
  <2> QED
    BY <1>13, <2>1 DEF SwapData, Swaps, CdTypeOK
<1>14. CASE SwapSector
  <2>1. reader' \in Reader /\ buf1' \in Buffer /\ buf2' \in Buffer
    BY <1>14, <1>t, <1>r, EmptyFacts DEF SwapSector, Swaps
  <2>2. akiko_sem' \in 0..1
    BY <1>14, <1>t DEF SwapSector, Swaps, SemInv
  <2> QED
    BY <1>14, <2>1, <2>2 DEF SwapSector, Swaps, CdTypeOK
<1>15. CASE ReaderWakes
  <2>1. reader' \in Reader
    BY <1>15, <1>r DEF ReaderWakes
  <2>2. running' \in {1, 0, -1}
    BY <1>15 DEF ReaderWakes, CdTypeOK
  <2> QED
    BY <1>15, <2>1, <2>2 DEF ReaderWakes, CdTypeOK
<1>16. CASE AkikoResets
  <2>1. cpu' \in Cpu
    BY <1>16, <1>c DEF AkikoResets
  <2>2. running' \in {1, 0, -1} /\ current' \in Int
    BY <1>16 DEF AkikoResets
  <2> QED
    BY <1>16, <2>1, <2>2 DEF AkikoResets, CdTypeOK
<1>17. CASE AkikoFrees
  <2>1. cpu' \in Cpu /\ buf1' \in Buffer /\ buf2' \in Buffer
    BY <1>17, <1>c, EmptyFacts DEF AkikoFrees
  <2> QED
    BY <1>17, <2>1 DEF AkikoFrees, CdTypeOK
<1>18. ASSUME NEW restoring \in BOOLEAN, AkikoRestarts(restoring) PROVE CdTypeOK'
  <2>1. cpu' \in Cpu /\ reader' \in Reader
    BY <1>18, <1>c, <1>r DEF AkikoRestarts
  <2>2. buf1' \in Buffer /\ buf2' \in Buffer /\ answer' \in Int
    BY <1>18, EmptyFacts DEF AkikoRestarts, Other
  <2>3. cdrom_data_end' \in Garbled \cup {-1, LeadOut}
    BY <1>18 DEF AkikoRestarts, EndOf, CdTypeOK
  <2>4. /\ offset' \in Offsets \cup {-1, 0} /\ akiko_sem' \in 0..1
        /\ enabled' \in BOOLEAN /\ todo' \subseteq SlotNo
    <3>1. CASE restoring
      BY <1>18, <3>1 DEF AkikoRestarts, CdTypeOK
    <3>2. CASE ~restoring
      BY <1>18, <3>2 DEF AkikoRestarts, CdTypeOK
    <3> QED
      BY <3>1, <3>2
  <2> QED
    BY <1>18, <2>1, <2>2, <2>3, <2>4 DEF AkikoRestarts, CdTypeOK
<1>19. CASE UNCHANGED cdVars
  BY <1>19 DEF cdVars, CdTypeOK
<1> QED
  BY <1>1, <1>2, <1>3, <1>4, <1>5, <1>6, <1>7, <1>8, <1>9, <1>10, <1>11, <1>12, <1>13, <1>14,
     <1>15, <1>16, <1>17, <1>18, <1>19, <1>20, <1>21
     DEF CdNext, Asking, Asks, Reading, Locking, Filling, Restarting

(* Every step passes akiko_sem and the threads' life on as they should be.   *)
LEMMA SemStep == ASSUME CdTypeOK, SemInv, LifeInv, [CdNext]_cdVars PROVE SemInv' /\ LifeInv'
<1> USE DEF SemInv, LifeInv, program, toc, bufs
<1>t. /\ akiko_sem \in {0, 1} /\ running \in {1, 0, -1}
      /\ cpu.at \in {"run", "toc", "parse", "copy", "join", "init"}
      /\ reader.at \in {"off", "sleep", "test", "fill", "take", "swapData", "swapSector"}
      /\ cpu = [at |-> cpu.at, sec |-> cpu.sec]
      /\ reader = [at |-> reader.at, sector |-> reader.sector, next |-> reader.next]
  <2>1. akiko_sem \in {0, 1}
    BY DEF CdTypeOK
  <2> QED
    BY <2>1 DEF CdTypeOK
<1>1. CASE Asking \/ DiscChanges
  BY <1>1 DEF Asking, Seek, Enables, AsksFor, DiscChanges
<1>2. CASE Asks
  BY <1>2 DEF Asks, TocBegins, AsksPosition, Running, CpuAt
<1>3. CASE Parsing
  <2>1. cpu'.at \in {"run", "parse"}
    BY <1>3 DEF Parsing, TocFails, TocComes, TocEnds, CpuAt
  <2> QED
    BY <1>3, <2>1 DEF Parsing, TocFails, TocComes, TocEnds
<1>4. CASE Reading
  <2>1. CASE ReadPasses
    BY <2>1 DEF ReadPasses
  <2>2. CASE ReadTests
    <3>1. CASE cpu' = cpu /\ akiko_sem' = akiko_sem
      BY <2>2, <3>1 DEF ReadTests
    <3>2. CASE cpu' = [at |-> "copy", sec |-> Sector - buf1.sector] /\ akiko_sem' = akiko_sem - 1
      <4>1. akiko_sem = 1 /\ akiko_sem' = 0
        BY <2>2, <3>2, <1>t DEF ReadTests
      <4> QED
        BY <2>2, <3>2, <4>1 DEF ReadTests, MayRead, Running
    <3> QED
      BY <2>2, <3>1, <3>2 DEF ReadTests
  <2>3. CASE ReadCopies
    <3>1. cpu'.at = "run"
      BY <2>3 DEF ReadCopies, CpuAt
    <3> QED
      BY <2>3, <3>1 DEF ReadCopies
  <2> QED
    BY <1>4, <2>1, <2>2, <2>3 DEF Reading
<1>5. CASE Locking
  <2>1. CASE ReaderTests
    <3>1. reader'.at \in {"sleep", "fill"}
      BY <2>1 DEF ReaderTests, ReaderAt
    <3> QED
      BY <2>1, <3>1 DEF ReaderTests
  <2>2. CASE SwapInfo
    <3>1. reader'.at = "swapData" /\ akiko_sem = 1 /\ akiko_sem' = 0
      BY <2>2, <1>t DEF SwapInfo, Swaps, ReaderAt
    <3> QED
      BY <2>2, <3>1 DEF SwapInfo, Swaps
  <2> QED
    BY <1>5, <2>1, <2>2 DEF Locking
<1>6. CASE Filling
  <2>1. CASE Fills \/ Takes
    <3>1. reader.at \in {"fill", "take"}
      BY <2>1 DEF Fills, Takes
    <3>2. \/ reader'.at = "fill"
          \/ reader'.at = "take" /\ reader'.next = reader.next /\ reader.next < BufferSize
      <4>1. CASE reader' = [reader EXCEPT !.at = "take"] /\ reader.next < BufferSize
        BY <4>1, <1>t
      <4>2. CASE reader' = [reader EXCEPT !.at = "fill", !.next = @ + 1]
        BY <4>2, <1>t
      <4> QED
        BY <2>1, <4>1, <4>2 DEF Fills, Takes, Filled
    <3> QED
      BY <2>1, <3>1, <3>2 DEF Fills, Takes
  <2>2. CASE SwapData
    BY <2>2 DEF SwapData, Swaps, ReaderAt
  <2>3. CASE SwapSector
    BY <2>3 DEF SwapSector, Swaps, ReaderAt
  <2>4. CASE ReaderWakes
    BY <2>4 DEF ReaderWakes, ReaderAt
  <2> QED
    BY <1>6, <2>1, <2>2, <2>3, <2>4 DEF Filling
<1>7. CASE AkikoResets
  BY <1>7 DEF AkikoResets, Running, CpuAt
<1>8. CASE Restarting
  <2>1. CASE AkikoFrees
    <3>1. cpu'.at = "init"
      BY <2>1 DEF AkikoFrees, CpuAt
    <3> QED
      BY <2>1, <3>1 DEF AkikoFrees
  <2>2. ASSUME NEW restoring \in BOOLEAN, AkikoRestarts(restoring) PROVE SemInv' /\ LifeInv'
    <3>1. cpu'.at = "run" /\ reader'.at = "sleep"
      BY <2>2 DEF AkikoRestarts, ReaderAt, CpuAt
    <3> QED
      BY <2>2, <3>1 DEF AkikoRestarts
  <2> QED
    BY <1>8, <2>1, <2>2 DEF Restarting
<1>9. CASE UNCHANGED cdVars
  BY <1>9 DEF cdVars
<1> QED
  BY <1>1, <1>2, <1>3, <1>4, <1>5, <1>6, <1>7, <1>8, <1>9 DEF CdNext

(* The sector about to be copied stays the one tested for: in between the    *)
(* program does not run, and the thread does not get akiko_sem.              *)
LEMMA CopyStep == ASSUME CdInv, [CdNext]_cdVars PROVE CopyInv'
<1> USE DEF CopyInv, SemInv, program, toc, bufs
<1>t. /\ buf1.sector \in Int /\ offset \in Int /\ counter \in Nat /\ akiko_sem \in 0..1
      /\ cpu = [at |-> cpu.at, sec |-> cpu.sec]
  <2>1. offset \in Int
    BY CdAssumption DEF CdAssumption, CdInv, CdTypeOK
  <2> QED
    BY <2>1 DEF CdInv, CdTypeOK
<1>i. CopyInv /\ SemInv
  BY DEF CdInv
<1>1. CASE UNCHANGED <<cpu, buf1, offset, counter>>
  BY <1>1, <1>i DEF Sector
<1>2. CASE cpu'.at # "copy"
  BY <1>2
<1>3. CASE cpu' = cpu /\ cpu.at # "copy"
  BY <1>3
<1>4. CASE ReadTests
  <2>1. CASE cpu' = cpu
    BY <1>3, <1>4, <2>1 DEF ReadTests, MayRead, Running
  <2>2. CASE cpu' = [at |-> "copy", sec |-> Sector - buf1.sector]
    BY <1>4, <1>t, <2>2 DEF ReadTests, Sector
  <2> QED
    BY <1>4, <2>1, <2>2 DEF ReadTests
<1>5. CASE Asking \/ ReadPasses
  <2>1. cpu' = cpu /\ cpu.at = "run"
    BY <1>5 DEF Asking, Seek, Enables, AsksFor, ReadPasses, MayRead, Running
  <2> QED
    BY <2>1
<1>6. CASE DiscChanges \/ AsksPosition \/ ReaderTests \/ Fills \/ Takes \/ ReaderWakes
           \/ UNCHANGED cdVars
  BY <1>1, <1>6 DEF DiscChanges, AsksPosition, ReaderTests, Fills, Takes, ReaderWakes, cdVars
<1>7. CASE TocBegins
  <2>1. cpu'.at # "copy"
    BY <1>7 DEF TocBegins, CpuAt
  <2> QED
    BY <2>1
<1>8. CASE SwapInfo \/ SwapData \/ SwapSector
  <2>1. cpu' = cpu /\ cpu.at # "copy"
    BY <1>8, <1>i, <1>t DEF SwapInfo, SwapData, SwapSector, Swaps
  <2> QED
    BY <2>1
<1>9. CASE Parsing \/ ReadCopies \/ AkikoResets \/ Restarting
  BY <1>2, <1>9 DEF Parsing, TocFails, TocComes, TocEnds, ReadCopies, AkikoResets, Restarting, AkikoFrees,
                    AkikoRestarts, CpuAt
<1> QED
  BY <1>4, <1>5, <1>6, <1>7, <1>8, <1>9 DEF CdNext, Asks, Reading, Locking, Filling

(* What the buffers hold stays what their info and sectors say: the second   *)
(* is only filled by the thread, the first only changed by the copy, which   *)
(* lowers one info, and by the exchange.                                     *)
LEMMA BuffersStep == ASSUME CdInv, [CdNext]_cdVars PROVE BuffersInv'
<1> USE IndexFacts
<1> USE DEF program, toc, bufs
<1> DEFINE Buffer == [sector : Int, info : [Index -> -1..Uses], holds : [Index -> Int]]
<1>t. /\ buf1 \in Buffer /\ buf2 \in Buffer
      /\ reader = [at |-> reader.at, sector |-> reader.sector, next |-> reader.next]
      /\ reader.sector \in Int /\ reader.next \in 0..BufferSize
      /\ cpu.sec \in Index /\ cpu.at \in {"run", "toc", "parse", "copy", "join", "init"}
  BY DEF CdInv, CdTypeOK
<1>i. BuffersInv /\ SemInv
  BY DEF CdInv
<1>1. CASE UNCHANGED <<reader, buf1, buf2>> /\ (answer' = answer \/ answer' \notin Nat)
  BY <1>1, <1>i DEF BuffersInv, Holds
<1>a. Other \notin Nat /\ \A d : Toc(d) \notin Nat
  BY DEF Other, Toc
<1>2. CASE Asking \/ DiscChanges \/ Asks \/ Parsing \/ ReadPasses \/ ReadTests \/ AkikoResets
           \/ UNCHANGED cdVars
  BY <1>1, <1>2, <1>a DEF Asking, Seek, Enables, AsksFor, DiscChanges, Asks, TocBegins, AsksPosition,
                    Parsing, TocFails, TocComes, TocEnds, ReadPasses, ReadTests, AkikoResets, cdVars
<1>11. CASE AkikoFrees
  <2>1. buf1' = Empty /\ reader'.at = "off"
    BY <1>11 DEF AkikoFrees, LifeInv, CdInv
  <2> QED
    BY <2>1, EmptyFacts DEF BuffersInv
<1>3. CASE ReadCopies
  <2>1. /\ reader' = reader /\ buf2' = buf2 /\ answer' = answer
        /\ reader.at \notin {"swapData", "swapSector"}
    BY <1>3, <1>i DEF ReadCopies, SemInv
  <2>2. PICK n : n = (IF buf1.info[cpu.sec] = Spent THEN buf1.info[cpu.sec]
                  ELSE buf1.info[cpu.sec] - 1)
    OBVIOUS
  <2>3. buf1' = [buf1 EXCEPT !.info[cpu.sec] = n, !.holds[cpu.sec] = LastHeld]
    BY <1>3, <2>2 DEF ReadCopies
  <2>4. buf1'.sector = buf1.sector /\ buf1'.holds = [buf1.holds EXCEPT ![cpu.sec] = LastHeld]
        /\ buf1'.info = [buf1.info EXCEPT ![cpu.sec] = n]
    BY <2>3, <1>t
  <2>5. n > 0 => buf1.info[cpu.sec] > 0 /\ LastHeld = buf1.holds[cpu.sec]
    <3>1. buf1.info[cpu.sec] \in Int
      BY SMTT(30), <1>t, CdAssumption DEF CdAssumption
    <3> QED
      BY <2>2, <3>1 DEF LastHeld, Spent
  <2>6. Holds(buf1.info, buf1.holds, buf1.sector)
    BY <1>i, <2>1 DEF BuffersInv
  <2>7. Holds(buf1'.info, buf1'.holds, buf1'.sector)
    BY <2>4, <2>5, <2>6, <1>t DEF Holds
  <2> QED
    BY <1>i, <2>1, <2>7 DEF BuffersInv
<1>4. CASE ReaderTests
  <2>1. buf1' = buf1 /\ Holds(buf1.info, buf1.holds, buf1.sector)
    BY <1>4, <1>i DEF ReaderTests, BuffersInv
  <2>2. CASE reader' = ReaderAt("sleep")
    BY <2>1, <2>2 DEF BuffersInv, ReaderAt
  <2>3. CASE /\ reader' = [at |-> "fill", sector |-> current, next |-> 0]
             /\ buf2' = [buf2 EXCEPT !.sector = current, !.info = Empty.info]
    <3>1. buf2'.sector = current /\ buf2'.info = Empty.info
      BY <2>3, <1>t
    <3>2. Holds(buf2'.info, buf2'.holds, buf2'.sector) /\ \A i \in Index : buf2'.info[i] = 0
      BY <3>1, EmptyFacts DEF Holds
    <3> QED
      BY <2>1, <2>3, <3>1, <3>2 DEF BuffersInv
  <2> QED
    BY <1>4, <2>2, <2>3 DEF ReaderTests
<1>f. ASSUME NEW ok \in BOOLEAN, Filled(ok), reader.at \in {"fill", "take"}, reader.next \in Index,
             buf1' = buf1, ok => answer \notin Nat \/ answer = reader.sector + reader.next
      PROVE  BuffersInv'
  <2> DEFINE s == reader.sector + reader.next
             h == IF answer \in Nat THEN answer ELSE Other
  <2>1. /\ Holds(buf1.info, buf1.holds, buf1.sector)
        /\ buf2.sector = reader.sector /\ Holds(buf2.info, buf2.holds, buf2.sector)
        /\ \A i \in Index : i >= reader.next => buf2.info[i] = 0
    BY <1>f, <1>i DEF BuffersInv
  <2>2. reader'.at = "fill" /\ reader'.sector = reader.sector /\ reader'.next = reader.next + 1
    BY <1>f, <1>t DEF Filled
  <2>3. /\ buf2'.sector = buf2.sector
        /\ \A i \in Index : i # reader.next =>
             buf2'.info[i] = buf2.info[i] /\ buf2'.holds[i] = buf2.holds[i]
        /\ buf2'.info[reader.next] > 0 => buf2'.holds[reader.next] \in {s, Other}
    <3>1. CASE ok
      <4>1. buf2' = [buf2 EXCEPT !.info[reader.next] = Uses, !.holds[reader.next] = h]
        BY <1>f, <3>1 DEF Filled
      <4>2. h \in {s, Other}
        BY <1>f, <3>1
      <4> HIDE DEF h, s
      <4> QED
        BY <4>1, <4>2, <1>f, <1>t
    <3>2. CASE ~ok
      <4>1. buf2' = [buf2 EXCEPT !.info[reader.next] = 0]
        BY <1>f, <3>2 DEF Filled
      <4> QED
        BY <4>1, <1>f, <1>t
    <3> QED
      BY <3>1, <3>2
  <2>4. Holds(buf2'.info, buf2'.holds, buf2'.sector)
    BY <2>1, <2>3 DEF Holds
  <2>5. \A i \in Index : i >= reader'.next => buf2'.info[i] = 0
    <3>1. ASSUME NEW i \in Index, i >= reader'.next PROVE i # reader.next /\ i >= reader.next
      BY <1>f, <2>2, <3>1
    <3> QED
      BY <2>1, <2>3, <3>1
  <2> QED
    BY <1>f, <2>1, <2>2, <2>3, <2>4, <2>5 DEF BuffersInv
<1>5. CASE Fills
  <2>1. buf1' = buf1 /\ reader.at = "fill" /\ reader.next \in Index
    BY <1>5, <1>t DEF Fills
  <2>2. CASE reader.sector + reader.next < cdrom_data_end
    <3>1. /\ reader'.at = "take" /\ reader'.sector = reader.sector /\ reader'.next = reader.next
          /\ buf2' = buf2 /\ answer' \in {reader.sector + reader.next, Unread}
      BY <1>5, <2>2, <1>t DEF Fills
    <3> QED
      BY <1>i, <2>1, <3>1 DEF BuffersInv, Unread
  <2>3. CASE ~(reader.sector + reader.next < cdrom_data_end)
    <3>1. Filled(FALSE)
      BY <1>5, <2>3 DEF Fills
    <3> QED
      BY <2>1, <3>1, <1>f
  <2> QED
    BY <2>2, <2>3
<1>12. CASE Takes
  <2>1. buf1' = buf1 /\ reader.at = "take" /\ reader.next \in Index
    BY <1>12, <1>t, <1>i DEF Takes, SemInv
  <2>2. answer \in Nat => answer = reader.sector + reader.next
    BY <1>i, <2>1 DEF BuffersInv
  <2>3. PICK ok \in BOOLEAN : Filled(ok)
    BY <1>12 DEF Takes
  <2> QED
    BY <2>1, <2>2, <2>3, <1>f
<1>6. CASE SwapInfo
  <2>1. /\ reader.at = "fill" /\ reader'.at = "swapData"
        /\ Holds(buf2.info, buf2.holds, buf2.sector)
    BY <1>6, <1>i DEF SwapInfo, Swaps, ReaderAt, BuffersInv
  <2>2. /\ buf1'.info = buf2.info /\ buf2'.holds = buf2.holds /\ buf2'.sector = buf2.sector
    BY <1>6, <1>t DEF SwapInfo, Swaps
  <2> QED
    BY <2>1, <2>2 DEF BuffersInv
<1>7. CASE SwapData
  <2>1. /\ reader'.at = "swapSector" /\ Holds(buf1.info, buf2.holds, buf2.sector)
    BY <1>7, <1>i DEF SwapData, Swaps, ReaderAt, BuffersInv
  <2>2. /\ buf1'.info = buf1.info /\ buf1'.holds = buf2.holds /\ buf2'.sector = buf2.sector
    BY <1>7, <1>t DEF SwapData, Swaps
  <2> QED
    BY <2>1, <2>2 DEF BuffersInv
<1>8. CASE SwapSector
  <2>1. /\ reader'.at = "sleep" /\ Holds(buf1.info, buf1.holds, buf2.sector)
    BY <1>8, <1>i DEF SwapSector, Swaps, ReaderAt, BuffersInv
  <2>2. /\ buf1'.info = buf1.info /\ buf1'.holds = buf1.holds /\ buf1'.sector = buf2.sector
    BY <1>8, <1>t DEF SwapSector, Swaps
  <2> QED
    BY <2>1, <2>2 DEF BuffersInv
<1>9. CASE ReaderWakes
  <2>1. /\ reader.at = "sleep" /\ reader'.at \in {"test", "off"} /\ buf1' = buf1
    BY <1>9 DEF ReaderWakes, ReaderAt
  <2> QED
    BY <1>i, <2>1 DEF BuffersInv
<1>10. ASSUME NEW restoring \in BOOLEAN, AkikoRestarts(restoring) PROVE BuffersInv'
  <2>1. reader'.at = "sleep" /\ buf1' = Empty
    BY <1>10 DEF AkikoRestarts, ReaderAt
  <2> QED
    BY <2>1, EmptyFacts DEF BuffersInv
<1> QED
  BY <1>2, <1>3, <1>4, <1>5, <1>6, <1>7, <1>8, <1>9, <1>10, <1>11, <1>12
     DEF CdNext, Reading, Locking, Filling, Restarting

(* Together they are inductive.                                              *)
THEOREM CdInductive == CdSpec => []CdInv
<1>1. CdInit => CdInv
  BY CdInitially
<1>2. CdInv /\ [CdNext]_cdVars => CdInv'
  <2> SUFFICES ASSUME CdInv, [CdNext]_cdVars PROVE CdInv'
    OBVIOUS
  <2>1. CdTypeOK /\ SemInv /\ LifeInv
    BY DEF CdInv
  <2>2. CdTypeOK'
    BY <2>1, TypeStep
  <2>3. SemInv' /\ LifeInv'
    BY <2>1, SemStep
  <2>4. CopyInv' /\ BuffersInv'
    BY CopyStep, BuffersStep
  <2> QED
    BY <2>2, <2>3, <2>4 DEF CdInv
<1> QED
  BY <1>1, <1>2, PTL DEF CdSpec

(* Every variable keeps the range its C type and its uses give it: the info  *)
(* of a sector never leaves 0xff..3 (akiko.c:943-959, 1002-1004), and        *)
(* akiko_sem, a semaphore, is 0 or 1 however copies and exchanges meet.      *)
THEOREM CdTypes == CdSpec => []CdTypeOK
<1>1. CdInv => CdTypeOK
  BY DEF CdInv
<1> QED
  BY <1>1, CdInductive, PTL

(* The slot the program asked for is given the sector at its place, or an    *)
(* answer to another command that came between the drive's answer and the    *)
(* copy of it (akiko.c:991-993), though the thread replaces the buffer it is *)
(* read from (cdrom_run_read and akiko_thread), but never another sector;    *)
(* and akiko_free waits for the thread to end before it frees what the       *)
(* thread works on.                                                          *)
THEOREM SectorsRight == CdSpec => []SectorsAreRight
<1>1. CdInv => SectorsAreRight
  <2> SUFFICES ASSUME CdInv PROVE SectorsAreRight
    OBVIOUS
  <2>1. reader.at # "off" => alloc
    BY DEF CdInv, LifeInv
  <2>2. ASSUME cpu.at = "copy"
        PROVE  buf1.sector + cpu.sec = Sector /\ (Given => buf1.holds[cpu.sec] \in {Sector, Other})
    <3>1. buf1.sector + cpu.sec = Sector
      BY <2>2 DEF CdInv, CopyInv
    <3>2. Holds(buf1.info, buf1.holds, buf1.sector) /\ cpu.sec \in Index
      BY <2>2 DEF CdInv, SemInv, BuffersInv, CdTypeOK
    <3> QED
      BY <3>1, <3>2 DEF Holds, Given
  <2> QED
    BY <2>1, <2>2 DEF SectorsAreRight
<1> QED
  BY <1>1, CdInductive, PTL
=============================================================================

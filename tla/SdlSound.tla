------------------------------ MODULE SdlSound ------------------------------
(* The SDL sound back end (sd-sdl/sound.c): the emulator thread fills one    *)
(* buffer and waits until the callback on SDL's audio thread has copied it;  *)
(* a sound thread of its own opens the device. SDL calls back while the      *)
(* device is open and not paused, SDL_CloseAudio waits for a callback to     *)
(* end, SDL_PauseAudio does not. in_callback and closing_sound are plain     *)
(* variables.                                                                *)
(*                                                                           *)
(* A device that failed to open is tried again (audio.c, 895-925), with the  *)
(* pipe and the semaphores made anew while the thread that failed waits in   *)
(* the pipe: with semaphores of SDL it waits in one that nobody knows any    *)
(* more, with those of POSIX in the new one, and may take the new thread's   *)
(* word. The steps of the pipe are those of CommPipe, taken together.        *)
EXTENDS Naturals, Sequences

CONSTANT SoundThread   \* threads: each open that fails leaves one behind

VARIABLES
  emuAt,         \* the emulator thread: "off", "begins", "opening", "run", "finish",
                 \* "test", "told", "join"
  sndAt,         \* each sound_thread: "none", "read", "wait", "opens", "quits", or
                 \* "lost" in a semaphore that was replaced
  cbAt,          \* SDL's thread: "none", "idle", or a place in sound_callback
  dataSem, doneSem, initSem,        \* data_available, callback_done, sound_init
  toSound, readerWaits, wake,       \* to_sound_pipe, its reader_waiting and reader_wait
  inCallback, closing, have,        \* in_callback, closing_sound, have_sound
  paused,                           \* SDL's own
  fresh                             \* sndbuffer holds samples not yet copied

sndSems == <<dataSem, doneSem, initSem>>
sndPipe == <<toSound, readerWaits, wake>>
sndVars == <<emuAt, sndAt, cbAt, sndSems, sndPipe, inCallback, closing, have, paused, fresh>>

SndInit ==
  /\ emuAt = "off" /\ sndAt = [t \in SoundThread |-> "none"] /\ cbAt = "none"
  /\ dataSem = 0 /\ doneSem = 0 /\ initSem = 0 /\ toSound = <<>> /\ readerWaits = FALSE /\ wake = 0
  /\ inCallback = FALSE /\ closing = FALSE /\ have = FALSE
  /\ paused = TRUE /\ fresh = FALSE

-----------------------------------------------------------------------------
(* The emulator thread                                                       *)
Writes(word) ==        \* write_comm_pipe_int
  /\ toSound' = Append(toSound, word) /\ readerWaits' = FALSE
  /\ wake' = (IF readerWaits THEN wake + 1 ELSE wake)

(* A bound of the model: when init_sound is called again, at the next frame  *)
(* at the earliest, the thread that failed has come to wait in the pipe.     *)
Settled == \A t \in SoundThread : sndAt[t] # "read"

(* init_sound, with init_sound_thread                                        *)
InitSound(t, lost) ==
  /\ emuAt = "off" /\ emuAt' = "begins" /\ sndAt[t] = "none" /\ Settled
  /\ sndAt' = [u \in SoundThread |-> IF u = t THEN "read"
                 ELSE IF lost /\ sndAt[u] = "wait" THEN "lost" ELSE sndAt[u]]
  /\ toSound' = <<>> /\ readerWaits' = FALSE /\ wake' = 0
  /\ dataSem' = 0 /\ doneSem' = 0 /\ initSem' = 0 /\ inCallback' = FALSE /\ closing' = FALSE
  /\ UNCHANGED <<cbAt, have, paused, fresh>>

AsksToOpen ==
  /\ emuAt = "begins" /\ emuAt' = "opening" /\ Writes(0)
  /\ UNCHANGED <<sndAt, cbAt, sndSems, inCallback, closing, have, paused, fresh>>

Opened ==              \* its sound_init_sem, and SDL_PauseAudio (0)
  /\ emuAt = "opening" /\ initSem > 0 /\ initSem' = initSem - 1 /\ paused' = FALSE
  /\ emuAt' = (IF have THEN "run" ELSE "off")
  /\ UNCHANGED <<sndAt, cbAt, dataSem, doneSem, sndPipe, inCallback, closing, have, fresh>>

FinishBuffer ==        \* finish_sound_buffer
  /\ emuAt = "run" /\ emuAt' = "finish" /\ fresh' = TRUE /\ dataSem' = dataSem + 1
  /\ UNCHANGED <<sndAt, cbAt, doneSem, initSem, sndPipe, inCallback, closing, have, paused>>

BufferFinished_NotAwaited ==   \* mutant: the next samples go where the last are read
  /\ emuAt = "finish" /\ emuAt' = "run"
  /\ UNCHANGED <<sndAt, cbAt, sndSems, sndPipe, inCallback, closing, have, paused, fresh>>

BufferFinished ==
  /\ emuAt = "finish" /\ doneSem > 0 /\ doneSem' = doneSem - 1 /\ emuAt' = "run"
  /\ UNCHANGED <<sndAt, cbAt, dataSem, initSem, sndPipe, inCallback, closing, have, paused, fresh>>

(* audio_pause and audio_resume: with the machine, and by warp mode, which   *)
(* goes on making samples                                                    *)
PauseSound ==
  /\ emuAt = "run" /\ paused' = ~paused
  /\ UNCHANGED <<emuAt, sndAt, cbAt, sndSems, sndPipe, inCallback, closing, have, fresh>>

CloseSound ==          \* close_sound
  /\ emuAt = "run" /\ emuAt' = "test" /\ paused' = TRUE /\ fresh' = FALSE
  /\ UNCHANGED <<sndAt, cbAt, sndSems, sndPipe, inCallback, closing, have>>

Tells_NotWoken ==      \* mutant: the callback is not given its semaphore
  /\ emuAt = "test" /\ emuAt' = "told" /\ Writes(1)
  /\ closing' = inCallback
  /\ UNCHANGED <<sndAt, cbAt, sndSems, inCallback, have, paused, fresh>>

Tells ==
  /\ emuAt = "test" /\ emuAt' = "told" /\ Writes(1)
  /\ closing' = inCallback /\ dataSem' = (IF inCallback THEN dataSem + 1 ELSE dataSem)
  /\ UNCHANGED <<sndAt, cbAt, doneSem, initSem, inCallback, have, paused, fresh>>

ThreadEnded ==
  /\ emuAt = "told" /\ initSem > 0 /\ initSem' = initSem - 1 /\ emuAt' = "join"
  /\ UNCHANGED <<sndAt, cbAt, dataSem, doneSem, sndPipe, inCallback, closing, have, paused, fresh>>

Joins ==               \* SDL_CloseAudio returns
  /\ emuAt = "join" /\ cbAt = "idle" /\ cbAt' = "none" /\ emuAt' = "off" /\ have' = FALSE
  /\ UNCHANGED <<sndAt, sndSems, sndPipe, inCallback, closing, paused, fresh>>

-----------------------------------------------------------------------------
(* sound_thread, from read_comm_pipe_int_blocking on                         *)
Obeys(t) ==
  /\ sndAt' = [sndAt EXCEPT ![t] = IF Head(toSound) = 0 THEN "opens" ELSE "quits"]
  /\ toSound' = Tail(toSound)

Reads(t) ==
  /\ sndAt[t] = "read"
  /\ IF toSound = <<>>
     THEN sndAt' = [sndAt EXCEPT ![t] = "wait"] /\ readerWaits' = TRUE /\ UNCHANGED toSound
     ELSE Obeys(t) /\ UNCHANGED readerWaits
  /\ UNCHANGED <<emuAt, cbAt, sndSems, wake, inCallback, closing, have, paused, fresh>>

ReadsWoken(t) ==       \* whichever of the threads that wait
  /\ sndAt[t] = "wait" /\ wake > 0 /\ wake' = wake - 1 /\ Obeys(t)
  /\ UNCHANGED <<emuAt, cbAt, sndSems, readerWaits, inCallback, closing, have, paused, fresh>>

OpensSound(t) ==       \* open_sound: SDL opens the device paused, or fails
  /\ sndAt[t] = "opens" /\ sndAt' = [sndAt EXCEPT ![t] = "read"] /\ initSem' = initSem + 1
  /\ \/ have' = TRUE /\ cbAt' = "idle" /\ paused' = TRUE
     \/ UNCHANGED <<have, cbAt, paused>>
  /\ UNCHANGED <<emuAt, dataSem, doneSem, sndPipe, inCallback, closing, fresh>>

Quits(t) ==
  /\ sndAt[t] = "quits" /\ sndAt' = [sndAt EXCEPT ![t] = "none"] /\ initSem' = initSem + 1
  /\ UNCHANGED <<emuAt, cbAt, dataSem, doneSem, sndPipe, inCallback, closing, have, paused, fresh>>

-----------------------------------------------------------------------------
(* sound_callback. Its test of closing_sound, the mark in in_callback and    *)
(* what follows are separate steps.                                          *)
CbStep(from, to) == cbAt = from /\ cbAt' = to /\ UNCHANGED <<emuAt, sndAt, sndPipe, have, paused>>

CallsBack ==           \* SDL, which looked at its pause flag
  /\ CbStep("idle", "enter") /\ ~paused /\ UNCHANGED <<sndSems, inCallback, closing, fresh>>
Declines ==
  /\ CbStep("enter", "idle") /\ closing /\ UNCHANGED <<sndSems, inCallback, closing, fresh>>
Passes ==
  /\ CbStep("enter", "mark") /\ ~closing /\ UNCHANGED <<sndSems, inCallback, closing, fresh>>
Marks ==
  /\ CbStep("mark", "wait") /\ inCallback' = TRUE /\ UNCHANGED <<sndSems, closing, fresh>>
GetsData ==
  /\ CbStep("wait", "check") /\ dataSem > 0 /\ dataSem' = dataSem - 1
  /\ UNCHANGED <<doneSem, initSem, inCallback, closing, fresh>>
GivesUp ==
  /\ CbStep("check", "leave") /\ closing /\ UNCHANGED <<sndSems, inCallback, closing, fresh>>
Copies ==
  /\ CbStep("check", "copied") /\ ~closing /\ fresh' = FALSE
  /\ UNCHANGED <<sndSems, inCallback, closing>>
NotifiesDone ==
  /\ CbStep("copied", "leave") /\ doneSem' = doneSem + 1
  /\ UNCHANGED <<dataSem, initSem, inCallback, closing, fresh>>
Returns ==
  /\ CbStep("leave", "idle") /\ inCallback' = FALSE /\ UNCHANGED <<sndSems, closing, fresh>>

Starts == \E t \in SoundThread, lost \in BOOLEAN : InitSound(t, lost)
Emulates == Starts \/ FinishBuffer \/ PauseSound \/ CloseSound
EmuWaits == AsksToOpen \/ Opened \/ BufferFinished \/ Tells \/ ThreadEnded \/ Joins
SoundThreads == \E t \in SoundThread : Reads(t) \/ ReadsWoken(t) \/ OpensSound(t) \/ Quits(t)
Callback == Declines \/ Passes \/ Marks \/ GetsData \/ GivesUp \/ Copies \/ NotifiesDone \/ Returns

SndNext == Emulates \/ EmuWaits \/ SoundThreads \/ CallsBack \/ Callback

(* The host runs its threads, SDL calls back as long as it may; when the     *)
(* emulator thread begins something is its own choice.                       *)
SndFairness == /\ WF_sndVars(EmuWaits) /\ WF_sndVars(SoundThreads)
               /\ WF_sndVars(CallsBack) /\ WF_sndVars(Callback)

SndSpec == SndInit /\ [][SndNext]_sndVars /\ SndFairness

-----------------------------------------------------------------------------
SndTypeOK ==
  /\ emuAt \in {"off", "begins", "opening", "run", "finish", "test", "told", "join"}
  /\ sndAt \in [SoundThread -> {"none", "read", "wait", "lost", "opens", "quits"}]
  /\ cbAt \in {"none", "idle", "enter", "mark", "wait", "check", "copied", "leave"}
  /\ dataSem \in 0..1 /\ doneSem \in 0..1 /\ initSem \in 0..1 /\ wake \in 0..1
  /\ toSound \in {<<>>, <<0>>, <<1>>}
  /\ {readerWaits, inCallback, closing, have, paused, fresh} \subseteq BOOLEAN

(* Whatever threads earlier tries left behind, the callback copies a buffer  *)
(* that is full and that the emulator thread leaves alone, and               *)
(* finish_sound_buffer returns when that has happened.                       *)
BufferIsShared ==
  /\ cbAt = "check" /\ ~closing => emuAt = "finish" /\ fresh
  /\ emuAt # "finish" => ~fresh

(* The emulator thread comes back from init_sound, with a device or without  *)
(* one and whatever threads wait in the same semaphore; from                 *)
(* finish_sound_buffer, unless SDL is paused and not in a callback, which is *)
(* where warp mode leaves it for good; and from close_sound, unless the      *)
(* callback passed its test of closing_sound and set in_callback only after  *)
(* close_sound had looked: it then waits for samples and SDL_CloseAudio for  *)
(* it.                                                                       *)
Stuck == \/ emuAt = "finish" /\ paused /\ cbAt = "idle"
         \/ emuAt = "join" /\ cbAt = "wait" /\ ~closing
SoundGoesOn == []<>(emuAt \in {"run", "off"} \/ Stuck)
=============================================================================

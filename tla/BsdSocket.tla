----------------------------- MODULE BsdSocket ------------------------------
(* One socketbase of bsdsocket.library: a 68k program opens the library and  *)
(* makes calls that may block; each is carried out by the base's own host    *)
(* thread (bsdsocket-posix-new.c), told by a semaphore, while the program    *)
(* waits for a signal that the thread sends through native2amiga_pending. A  *)
(* signal of the user ends the call early: a byte in the pipe sockabort gets *)
(* the thread out of its select.                                             *)
EXTENDS Naturals, FiniteSets

CONSTANTS MaxCalls,       \* bound on the calls
          MaxSignals,     \* bound on the signals the program gets from others
          ClosingWakes    \* a select notices that its descriptors were closed
                          \* by another thread, which POSIX leaves open

ASSUME BsdSocketAssumption ==
  {MaxCalls, MaxSignals} \subseteq Nat /\ ClosingWakes \in BOOLEAN

VARIABLES
  sb,          \* the parameters of the call, the action, resultval
  sbSem,       \* sb->sem
  sockabort,   \* bytes in the pipe
  sbThread,    \* bsdlib_threadfunc: its pc and the call it read the parameters of
  records,     \* Signal records in native2amiga_pending
  sigs,        \* the program's signals: of sb->signal, sb->eintrsigs, and the
               \* ones it waits for in WaitSelect
  caller,      \* the program, in a trap: its pc, call, and the call it got the result of
  calls, signalled,
  broken       \* some call was left by waitsig because of eintrsigs

bsVars == <<sb, sbSem, sockabort, sbThread, records, sigs, caller, calls, signalled, broken>>

NoCall == 0
Blocking == {"io", "name", "select"}   \* actions 1, 2, 3, 6; 4, 7; 5

BsdInit ==   \* alloc_socketbase, host_sbinit
  /\ sb = [call |-> NoCall, action |-> "none", result |-> NoCall] /\ sbSem = 0
  /\ sockabort = 0 /\ sbThread = [pc |-> "wait", of |-> NoCall] /\ records = 0
  /\ sigs = {} /\ caller = [pc |-> "idle", call |-> NoCall, got |-> NoCall]
  /\ calls = 0 /\ signalled = 0 /\ broken = FALSE

-----------------------------------------------------------------------------
(* The program's side                                                        *)
host_call_PostsTwice(a) ==   \* mutant: the semaphore is posted twice
  /\ caller.pc = "idle" /\ calls < MaxCalls
  /\ calls' = calls + 1
  /\ sb' = [sb EXCEPT !.call = calls', !.action = a] /\ sbSem' = sbSem + 2
  /\ caller' = [pc |-> IF a = "select" THEN "waitSelect" ELSE "waitsig", call |-> calls', got |-> NoCall]
  /\ UNCHANGED <<sockabort, sbThread, records, sigs, signalled, broken>>

(* host_connect, host_sendto, host_recvfrom, host_accept, host_gethost...,   *)
(* host_WaitSelect (which returns at once when a signal waited for is there) *)
host_call(a) ==
  /\ caller.pc = "idle" /\ calls < MaxCalls /\ (a = "select" => "user" \notin sigs)
  /\ calls' = calls + 1
  /\ sb' = [sb EXCEPT !.call = calls', !.action = a] /\ sbSem' = sbSem + 1
  /\ caller' = [pc |-> IF a = "select" THEN "waitSelect" ELSE "waitsig", call |-> calls', got |-> NoCall]
  /\ UNCHANGED <<sockabort, sbThread, records, sigs, signalled, broken>>

(* waitsig: a break is signalled again for the program to see, and the call  *)
(* left to the thread                                                        *)
waitsig(got) ==
  /\ sigs \cap {"done", "break"} # {}
  /\ sigs' = sigs \ {"done"}
  /\ IF "break" \in sigs
     THEN sockabort' = sockabort + 1 /\ broken' = TRUE
     ELSE UNCHANGED <<sockabort, broken>>
  /\ caller' = [caller EXCEPT !.pc = IF @ = "waitsig" THEN "idle" ELSE "clear", !.got = got]
  /\ UNCHANGED <<sb, sbSem, sbThread, records, calls, signalled>>

SocketCallReturns == caller.pc = "waitsig" /\ waitsig(sb.result)

WaitSelectWakes_NotAwaited ==   \* mutant: the thread is told, not waited for
  /\ caller.pc = "waitSelect" /\ sigs # {}
  /\ sigs' = {}
  /\ IF sigs = {"done"}
     THEN caller' = [caller EXCEPT !.pc = "clear", !.got = sb.result] /\ UNCHANGED sockabort
     ELSE /\ caller' = [caller EXCEPT !.pc = "clear"]
          /\ sockabort' = sockabort + 1
  /\ UNCHANGED <<sb, sbSem, sbThread, records, calls, signalled, broken>>

WaitSelectWakes_NoByte ==   \* mutant: sockabort is not called
  /\ caller.pc = "waitSelect" /\ sigs # {}
  /\ sigs' = {}
  /\ IF "done" \in sigs
     THEN caller' = [caller EXCEPT !.pc = "clear", !.got = IF sigs = {"done"} THEN sb.result ELSE NoCall]
     ELSE caller' = [caller EXCEPT !.pc = "waitAborted"]
  /\ UNCHANGED <<sb, sbSem, sockabort, sbThread, records, calls, signalled, broken>>

(* host_WaitSelect after Wait(): unless the thread is done, it is told to    *)
(* stop and waited for; an interrupted call has results of its own           *)
WaitSelectWakes ==
  /\ caller.pc = "waitSelect" /\ sigs # {}
  /\ sigs' = {}
  /\ IF "done" \in sigs
     THEN /\ caller' = [caller EXCEPT !.pc = "clear", !.got = IF sigs = {"done"} THEN sb.result ELSE NoCall]
          /\ UNCHANGED sockabort
     ELSE caller' = [caller EXCEPT !.pc = "waitAborted"] /\ sockabort' = sockabort + 1
  /\ UNCHANGED <<sb, sbSem, sbThread, records, calls, signalled, broken>>

WaitSelectAborted == caller.pc = "waitAborted" /\ waitsig(NoCall)

WaitSelectReturns ==   \* clearsockabort
  /\ caller.pc = "clear" /\ sockabort' = 0 /\ caller' = [caller EXCEPT !.pc = "idle"]
  /\ UNCHANGED <<sb, sbSem, sbThread, records, sigs, calls, signalled, broken>>

TakesBreak ==   \* the program's own Wait or CheckSignal
  /\ caller.pc = "idle" /\ "break" \in sigs /\ sigs' = sigs \ {"break"}
  /\ UNCHANGED <<sb, sbSem, sockabort, sbThread, records, caller, calls, signalled, broken>>

(* CloseLibrary by an idle program, or a reset at any time: host_sbcleanup   *)
host_sbcleanup ==
  /\ caller.pc \notin {"closing", "closed"}
  /\ sb' = [sb EXCEPT !.action = "die"] /\ sbSem' = sbSem + 1 /\ sockabort' = 0
  /\ caller' = [caller EXCEPT !.pc = "closing"]
  /\ UNCHANGED <<sbThread, records, sigs, calls, signalled, broken>>

Joins ==   \* uae_wait_thread
  /\ caller.pc = "closing" /\ sbThread.pc = "off"
  /\ caller' = [caller EXCEPT !.pc = "closed"]
  /\ UNCHANGED <<sb, sbSem, sockabort, sbThread, records, sigs, calls, signalled, broken>>

-----------------------------------------------------------------------------
(* bsdlib_threadfunc. Every try reads the parameters anew.                   *)
ThreadGoes(pc) == sbThread' = [sbThread EXCEPT !.pc = pc]
ThreadTries(pc) == sbThread' = [pc |-> pc, of |-> sb.call]

ThreadTakes ==
  /\ sbThread.pc = "wait" /\ sbSem > 0 /\ sbSem' = sbSem - 1
  /\ ThreadGoes(IF sb.action = "die" THEN "off" ELSE sb.action)
  /\ UNCHANGED <<sb, sockabort, records, sigs, caller, calls, signalled, broken>>

Lookup ==   \* gethostbyname, gethostbyaddr
  /\ sbThread.pc = "name" /\ ThreadTries("done")
  /\ UNCHANGED <<sb, sbSem, sockabort, records, sigs, caller, calls, signalled, broken>>

Try ==   \* bsdthr_blockingstuff: done, or to be waited for unless the socket is closed
  /\ sbThread.pc = "io"
  /\ \E pc \in {"done"} \cup (IF caller.pc = "closing" THEN {} ELSE {"block"}) : ThreadTries(pc)
  /\ UNCHANGED <<sb, sbSem, sockabort, records, sigs, caller, calls, signalled, broken>>

WaitSelect ==   \* bsdthr_WaitSelect reads the sets
  /\ sbThread.pc = "select" /\ ThreadTries("sets")
  /\ UNCHANGED <<sb, sbSem, sockabort, records, sigs, caller, calls, signalled, broken>>

SocketReady ==   \* select returns for a socket, or because of its timeout
  /\ sbThread.pc \in {"block", "sets"} /\ sockabort = 0
  /\ ThreadGoes(IF sbThread.pc = "block" THEN "io" ELSE "done")
  /\ UNCHANGED <<sb, sbSem, sockabort, records, sigs, caller, calls, signalled, broken>>

SelectAborted ==   \* select returns for the pipe
  /\ sbThread.pc \in {"block", "sets"} /\ sockabort > 0
  /\ ThreadGoes("clear")
  /\ UNCHANGED <<sb, sbSem, sockabort, records, sigs, caller, calls, signalled, broken>>

SelectClosed ==   \* select returns an error, or the closed pipe as ready
  /\ sbThread.pc \in {"block", "sets"} /\ caller.pc = "closing" /\ ClosingWakes
  /\ ThreadGoes("done")
  /\ UNCHANGED <<sb, sbSem, sockabort, records, sigs, caller, calls, signalled, broken>>

ClearAbort ==   \* clearsockabort
  /\ sbThread.pc = "clear" /\ sockabort' = 0 /\ ThreadGoes("done")
  /\ UNCHANGED <<sb, sbSem, records, sigs, caller, calls, signalled, broken>>

Answers ==   \* resultval, SETERRNO, SETSIGNAL
  /\ sbThread.pc = "done"
  /\ sb' = [sb EXCEPT !.result = sbThread.of] /\ records' = records + 1
  /\ ThreadGoes("wait")
  /\ UNCHANGED <<sbSem, sockabort, sigs, caller, calls, signalled, broken>>

-----------------------------------------------------------------------------
SignalInterrupt ==   \* exter_int_helper: Signal(); not while the emulator thread joins
  /\ records > 0 /\ caller.pc # "closing"
  /\ records' = records - 1 /\ sigs' = sigs \cup {"done"}
  /\ UNCHANGED <<sb, sbSem, sockabort, sbThread, caller, calls, signalled, broken>>

Signalled ==   \* by the user, or another program
  /\ signalled < MaxSignals /\ signalled' = signalled + 1
  /\ \E s \in {"break", "user"} : sigs' = sigs \cup {s}
  /\ UNCHANGED <<sb, sbSem, sockabort, sbThread, records, caller, calls, broken>>

Caller == SocketCallReturns \/ WaitSelectWakes \/ WaitSelectAborted \/ WaitSelectReturns \/ Joins
SocketThread ==
  ThreadTakes \/ Lookup \/ Try \/ WaitSelect \/ SelectAborted \/ SelectClosed \/ ClearAbort \/ Answers

BsdNext ==
  \/ (\E a \in Blocking : host_call(a)) \/ TakesBreak \/ host_sbcleanup
  \/ Caller \/ SocketThread \/ SocketReady \/ SignalInterrupt \/ Signalled

(* Sockets need not become ready, and nobody has to signal.                  *)
BsdFairness == WF_bsVars(Caller) /\ WF_bsVars(SocketThread) /\ WF_bsVars(SignalInterrupt)
BsdSpec == BsdInit /\ [][BsdNext]_bsVars /\ BsdFairness
-----------------------------------------------------------------------------
BsdTypeOK ==
  /\ sb \in [call : 0..MaxCalls, action : Blocking \cup {"none", "die"}, result : 0..MaxCalls]
  /\ sbSem \in 0 .. MaxCalls + 1 /\ sockabort \in 0 .. 2 * MaxSignals + MaxCalls
  /\ sbThread \in [pc : Blocking \cup {"wait", "block", "sets", "clear", "done", "off"}, of : 0..MaxCalls]
  /\ records \in 0..MaxCalls /\ sigs \subseteq {"done", "break", "user"}
  /\ caller \in [pc : {"idle", "waitsig", "waitSelect", "waitAborted", "clear", "closing", "closed"},
                 call : 0..MaxCalls, got : 0..MaxCalls]
  /\ calls \in 0..MaxCalls /\ signalled \in 0..MaxSignals /\ broken \in BOOLEAN

(* As long as no call was broken off in waitsig, a call returns with its own *)
(* result, and nothing of it is left behind for the next one: no signal, no  *)
(* record, no byte in the pipe, no token, and the thread waits. This covers  *)
(* WaitSelect ended by signals it waits for.                                 *)
CallsLeaveNothing ==
  caller.pc = "idle" /\ ~broken =>
    /\ caller.got \in {caller.call, NoCall}
    /\ sbThread.pc = "wait" /\ sbSem = 0 /\ sockabort = 0 /\ records = 0 /\ "done" \notin sigs

(* A call that a signal should end does end, whatever the sockets do and     *)
(* whatever was broken off before.                                           *)
SignalEndsCall ==
  (\/ caller.pc = "waitsig" /\ "break" \in sigs
   \/ caller.pc = "waitSelect" /\ sigs # {}) ~> caller.pc \notin {"waitsig", "waitSelect", "waitAborted"}

(* The library can be closed, and the machine reset, at any time: the thread *)
(* ends and is joined.                                                       *)
CloseReturns == caller.pc = "closing" ~> caller.pc = "closed"

(* No call of the library, its closing included, is waited for in vain.      *)
SocketCallsEnd == SignalEndsCall /\ CloseReturns
=============================================================================

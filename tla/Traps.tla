-------------------------------- MODULE Traps -------------------------------
(* Extended emulator traps (traps.c): host code that 68k code calls and that *)
(* may call 68k code back. Each trap runs on a thread of its own, the trap   *)
(* context; the emulator thread and the contexts hand the 68k state to each  *)
(* other over two semaphores per context and one mutex.                      *)
(* 68k side: tasks, each with a stack, preempted by the task scheduler and by*)
(* one interrupt whenever the interrupt mask allows. A trap may be entered   *)
(* from a task, from an interrupt, or from a 68k function another trap calls.*)
EXTENDS Naturals, Sequences

CONSTANTS Task,       \* AmigaOS tasks
          Ctx,        \* ExtendedTrapContext blocks: bounds the traps alive at once
          None,       \* no context, no value
          MaxResets   \* bound on machine resets

ASSUME TrapsAssumption == None \notin Ctx /\ MaxResets \in Nat

VARIABLES
  regs,           \* the emulator's regs: running task, where its pc is, intmask, D0,
                  \* and the function being run for a context
  parked,         \* per task, the registers the task scheduler saved for it
  stack,          \* per task, what is on its 68k stack, innermost first: return
                  \* frames of calls and frames of interrupts
  emu, emuCtx,    \* where the emulator thread is, and the context it serves there
  mutex, current, \* trap_mutex and current_context
  ctx,            \* the ExtendedTrapContext blocks; None for one not allocated
  entered,        \* history: per task, the contexts of the traps it is inside,
                  \* innermost first
  resets

cpuVars == <<regs, parked, stack>>
emuVars == <<emu, emuCtx>>
lockVars == <<mutex, current>>
vars == <<cpuVars, emuVars, lockVars, ctx, entered, resets>>

Value == Ctx \cup {None}
IrqMask == 2          \* the level of the PORTS interrupt
Regs == [task : Task, at : {"code", "func", "callTrap", "returnTrap", "exitTrap"},
         mask : {0, IrqMask, 7}, d0 : Value, fn : Value]
Frame == [kind : {"call"}, ctx : Ctx] \cup [kind : {"irq"}, regs : Regs]
ThreadPC == {"start", "handler", "callLock", "callWait", "callDone", "exitLock",
             "finishing", "exited"}
Context ==            \* pc is where the context's thread is
  [pc : ThreadPC, regs : Regs, saved_regs : Regs, has_retval : BOOLEAN,
   func_addr : Value, call_retval : Value, trap_retval : Value,
   switch_to_emu : 0..1, switch_to_trap : 0..1]

ASSUME NoneAssumption == None \notin Context

Fresh(t) == [task |-> t, at |-> "code", mask |-> 0, d0 |-> None, fn |-> None]

Init ==
  /\ regs \in {Fresh(t) : t \in Task}
  /\ parked = [t \in Task |-> Fresh(t)]
  /\ stack = [t \in Task |-> <<>>]
  /\ emu = "run" /\ emuCtx = None
  /\ mutex = 1 /\ current = None
  /\ ctx = [c \in Ctx |-> None]
  /\ entered = [t \in Task |-> <<>>]
  /\ resets = 0

Self == regs.task
Push(f) == stack' = [stack EXCEPT ![Self] = <<f>> \o @]
Pop == stack' = [stack EXCEPT ![Self] = Tail(@)]
Alive(c) == ctx[c] # None
At(c, place) == Alive(c) /\ ctx[c].pc = place

-----------------------------------------------------------------------------
(* 68k code between traps. Interrupts and task switches happen between any   *)
(* two instructions that run with interrupts enabled, the emulator's own     *)
(* trap instructions included.                                               *)
SwitchTask(t) ==
  /\ emu = "run" /\ regs.mask = 0 /\ t # Self
  /\ parked' = [parked EXCEPT ![Self] = regs]
  /\ regs' = parked[t]
  /\ UNCHANGED <<stack, emuVars, lockVars, ctx, entered, resets>>

Interrupt ==
  /\ emu = "run" /\ regs.mask < IrqMask
  /\ Push([kind |-> "irq", regs |-> regs])
  /\ regs' = [regs EXCEPT !.at = "code", !.mask = IrqMask]
  /\ UNCHANGED <<parked, emuVars, lockVars, ctx, entered, resets>>

InterruptEnd ==
  /\ emu = "run" /\ regs.at = "code"
  /\ stack[Self] # <<>> /\ Head(stack[Self]).kind = "irq"
  /\ regs' = Head(stack[Self]).regs
  /\ Pop
  /\ UNCHANGED <<parked, emuVars, lockVars, ctx, entered, resets>>

(* RTS of the function called for a context: its result is in D0.            *)
FunctionReturns ==
  /\ emu = "run" /\ regs.at = "func"
  /\ regs' = [regs EXCEPT !.at = "returnTrap", !.d0 = regs.fn]
  /\ UNCHANGED <<parked, stack, emuVars, lockVars, ctx, entered, resets>>

(* uae_reset, acted upon between two instructions: the 68k side starts       *)
(* afresh, the host side of the traps is not told.                           *)
Reset ==
  /\ emu = "run" /\ resets < MaxResets
  /\ regs' \in {Fresh(t) : t \in Task}
  /\ parked' = [t \in Task |-> Fresh(t)]
  /\ stack' = [t \in Task |-> <<>>] /\ entered' = [t \in Task |-> <<>>]
  /\ resets' = resets + 1
  /\ UNCHANGED <<emuVars, lockVars, ctx>>

-----------------------------------------------------------------------------
(* The emulator thread's side of the traps.                                  *)
(* trap_HandleExtendedTrap, up to its wait                                   *)
EnterTrap(c, ret) ==
  /\ emu = "run" /\ regs.at \in {"code", "func"} /\ ~Alive(c)
  /\ ctx' = [ctx EXCEPT ![c] =
       [pc |-> "start", regs |-> regs, saved_regs |-> regs, has_retval |-> ret,
        func_addr |-> None, call_retval |-> None, trap_retval |-> None,
        switch_to_emu |-> 0, switch_to_trap |-> 1]]
  /\ emu' = "handoff" /\ emuCtx' = c
  /\ entered' = [entered EXCEPT ![Self] = <<c>> \o @]
  /\ UNCHANGED <<cpuVars, lockVars, resets>>

Resume_NoWait ==      \* mutant: the emulator does not wait for the switch back
  /\ emu = "handoff"
  /\ regs' = ctx[emuCtx].regs
  /\ emu' = "run" /\ emuCtx' = None
  /\ UNCHANGED <<parked, stack, lockVars, ctx, entered, resets>>

(* the context switched back: go on with its registers                       *)
Resume ==
  /\ emu = "handoff" /\ ctx[emuCtx].switch_to_emu > 0
  /\ ctx' = [ctx EXCEPT ![emuCtx].switch_to_emu = @ - 1]
  /\ regs' = ctx[emuCtx].regs
  /\ emu' = "run" /\ emuCtx' = None
  /\ UNCHANGED <<parked, stack, lockVars, entered, resets>>

m68k_call_handler ==
  /\ emu = "run" /\ regs.at = "callTrap"
  /\ Push([kind |-> "call", ctx |-> current])
  /\ regs' = [regs EXCEPT !.at = "func", !.fn = ctx[current].func_addr,
                          !.mask = ctx[current].saved_regs.mask]
  /\ mutex' = mutex + 1
  /\ UNCHANGED <<parked, emuVars, current, ctx, entered, resets>>

(* m68k_return_handler: wait for the mutex ...                               *)
ReturnTrap ==
  /\ emu = "run" /\ regs.at = "returnTrap"
  /\ emu' = "returnLock"
  /\ UNCHANGED <<cpuVars, emuCtx, lockVars, ctx, entered, resets>>

Return(c) ==          \* switch to c with the result of its function
  /\ ctx' = [ctx EXCEPT ![c].call_retval = regs.d0, ![c].regs = regs,
                        ![c].switch_to_trap = @ + 1]
  /\ emuCtx' = c /\ emu' = "handoff"
  /\ UNCHANGED <<regs, parked, current, entered, resets>>

m68k_return_handler_FrameLeft == \* mutant: sp is not moved past the context
  /\ emu = "returnLock" /\ mutex > 0
  /\ mutex' = mutex - 1
  /\ Return(Head(stack[Self]).ctx) /\ UNCHANGED stack

m68k_return_handler_Current ==   \* mutant: returns to current_context
  /\ emu = "returnLock" /\ mutex > 0 /\ current \in Ctx /\ Alive(current)
  /\ mutex' = mutex - 1
  /\ Return(current) /\ Pop

(* ... then find the context on the stack and switch to it                   *)
m68k_return_handler ==
  /\ emu = "returnLock" /\ mutex > 0
  /\ mutex' = mutex - 1
  /\ Return(Head(stack[Self]).ctx) /\ Pop

(* exit_trap_handler: join the thread ...                                    *)
ExitTrap ==
  /\ emu = "run" /\ regs.at = "exitTrap"
  /\ emu' = "join" /\ emuCtx' = current
  /\ UNCHANGED <<cpuVars, lockVars, ctx, entered, resets>>

exit_trap_handler_AlwaysD0 ==    \* mutant: trap_has_retval is not looked at
  /\ emu = "join" /\ At(emuCtx, "exited")
  /\ regs' = [ctx[emuCtx].saved_regs EXCEPT !.d0 = ctx[emuCtx].trap_retval]
  /\ ctx' = [ctx EXCEPT ![emuCtx] = None]
  /\ mutex' = mutex + 1
  /\ emu' = "run" /\ emuCtx' = None
  /\ entered' = [entered EXCEPT ![Self] = Tail(@)]
  /\ UNCHANGED <<parked, stack, current, resets>>

(* ... then restore the state at entry, put the result in D0 and free        *)
exit_trap_handler ==
  /\ emu = "join" /\ At(emuCtx, "exited")
  /\ LET c == ctx[emuCtx]
     IN  regs' = [c.saved_regs EXCEPT !.d0 = IF c.has_retval THEN c.trap_retval ELSE @]
  /\ ctx' = [ctx EXCEPT ![emuCtx] = None]
  /\ mutex' = mutex + 1
  /\ emu' = "run" /\ emuCtx' = None
  /\ entered' = [entered EXCEPT ![Self] = Tail(@)]
  /\ UNCHANGED <<parked, stack, current, resets>>

-----------------------------------------------------------------------------
(* A context's thread: trap_thread, and trap_Call68k called by its handler   *)
StartHandler(c) ==
  /\ At(c, "start") /\ ctx[c].switch_to_trap > 0
  /\ ctx' = [ctx EXCEPT ![c].pc = "handler", ![c].switch_to_trap = @ - 1]
  /\ UNCHANGED <<cpuVars, emuVars, lockVars, entered, resets>>

HandlerCalls(c) ==
  /\ At(c, "handler")
  /\ ctx' = [ctx EXCEPT ![c].pc = "callLock"]
  /\ UNCHANGED <<cpuVars, emuVars, lockVars, entered, resets>>

Call68k_IrqsOn(c) ==  \* mutant: intmask is left as it is
  /\ At(c, "callLock") /\ mutex > 0
  /\ mutex' = mutex - 1 /\ current' = c
  /\ ctx' = [ctx EXCEPT ![c].pc = "callWait", ![c].func_addr = c,
                        ![c].regs.at = "callTrap", ![c].switch_to_emu = @ + 1]
  /\ UNCHANGED <<cpuVars, emuVars, entered, resets>>

(* trap_Call68k, from taking the mutex to its wait. The function called for  *)
(* context c, and its result, are known by c.                                *)
Call68k(c) ==
  /\ At(c, "callLock") /\ mutex > 0
  /\ mutex' = mutex - 1 /\ current' = c
  /\ ctx' = [ctx EXCEPT ![c].pc = "callWait", ![c].func_addr = c, ![c].regs.mask = 7,
                        ![c].regs.at = "callTrap", ![c].switch_to_emu = @ + 1]
  /\ UNCHANGED <<cpuVars, emuVars, entered, resets>>

CallReturns(c) ==
  /\ At(c, "callWait") /\ ctx[c].switch_to_trap > 0
  /\ ctx' = [ctx EXCEPT ![c].pc = "callDone", ![c].switch_to_trap = @ - 1]
  /\ UNCHANGED <<cpuVars, emuVars, lockVars, entered, resets>>

CallUnlock(c) ==
  /\ At(c, "callDone")
  /\ mutex' = mutex + 1
  /\ ctx' = [ctx EXCEPT ![c].pc = "handler"]
  /\ UNCHANGED <<cpuVars, emuVars, current, entered, resets>>

(* The value a handler returns on context c is known by c.                   *)
HandlerReturns(c) ==
  /\ At(c, "handler")
  /\ ctx' = [ctx EXCEPT ![c].pc = "exitLock", ![c].trap_retval = c]
  /\ UNCHANGED <<cpuVars, emuVars, lockVars, entered, resets>>

ThreadExits(c) ==
  /\ At(c, "exitLock") /\ mutex > 0
  /\ mutex' = mutex - 1 /\ current' = c
  /\ ctx' = [ctx EXCEPT ![c].pc = "finishing", ![c].regs.mask = 7,
                        ![c].regs.at = "exitTrap", ![c].switch_to_emu = @ + 1]
  /\ UNCHANGED <<cpuVars, emuVars, entered, resets>>

ThreadEnds(c) ==
  /\ At(c, "finishing")
  /\ ctx' = [ctx EXCEPT ![c].pc = "exited"]
  /\ UNCHANGED <<cpuVars, emuVars, lockVars, entered, resets>>

-----------------------------------------------------------------------------
Code68k == (\E t \in Task : SwitchTask(t)) \/ Interrupt \/ InterruptEnd \/ FunctionReturns
Traps == Resume \/ m68k_call_handler \/ ReturnTrap \/ m68k_return_handler \/ ExitTrap
         \/ exit_trap_handler
ThreadStep(c) ==
  \/ StartHandler(c) \/ HandlerCalls(c) \/ Call68k(c) \/ CallReturns(c) \/ CallUnlock(c)
  \/ HandlerReturns(c) \/ ThreadExits(c) \/ ThreadEnds(c)

Next ==
  \/ Code68k \/ Reset \/ Traps
  \/ \E c \in Ctx, ret \in BOOLEAN : EnterTrap(c, ret)
  \/ \E c \in Ctx : ThreadStep(c)

Spec == Init /\ [][Next]_vars

(* The host schedules the emulator thread and every trap thread.             *)
FairSpec == Spec /\ WF_vars(Traps) /\ \A c \in Ctx : WF_vars(ThreadStep(c))

-----------------------------------------------------------------------------
TypeOK ==
  /\ regs \in Regs /\ parked \in [Task -> Regs] /\ stack \in [Task -> Seq(Frame)]
  /\ emu \in {"run", "handoff", "returnLock", "join"} /\ emuCtx \in Value
  /\ mutex \in 0..1 /\ current \in Value
  /\ ctx \in [Ctx -> Context \cup {None}]
  /\ entered \in [Task -> Seq(Ctx)] /\ resets \in 0..MaxResets

Active(c) ==
  Alive(c) /\ ctx[c].pc \in {"handler", "callLock", "callDone", "exitLock"}

(* The 68k state has one user at a time: while the emulator interprets, no   *)
(* trap handler runs, and never do two handlers run (they read and write     *)
(* Amiga memory without any lock).                                           *)
OneRunner ==
  /\ emu = "run" => \A c \in Ctx : ~Active(c)
  /\ \A c, d \in Ctx : Active(c) /\ Active(d) => c = d

(* When the interpreter reaches the call or exit trap, current_context is    *)
(* the innermost trap of the running task, and it asked for that trap.       *)
CurrentIsCaller ==
  (emu = "run" /\ regs.at \in {"callTrap", "exitTrap"}) =>
    /\ entered[Self] # <<>> /\ current = Head(entered[Self])
    /\ At(current, "callWait") <=> regs.at = "callTrap"

(* The context pointers on 68k stacks point at contexts not yet freed, in    *)
(* the middle of a call, each on one stack only.                             *)
FramesAlive ==
  \A t, u \in Task : \A i \in DOMAIN stack[t], j \in DOMAIN stack[u] :
    stack[t][i].kind = "call" =>
      /\ At(stack[t][i].ctx, "callWait")
      /\ stack[u][j] = stack[t][i] => (t = u /\ i = j)

(* "Don't allow an interrupt and thus potentially another trap to be invoked *)
(* while we hold the above mutex" (traps.c:226, 295): no trap is entered     *)
(* while trap_mutex is taken.                                                *)
TrapsEnterUnlocked ==
  [][\A c \in Ctx : (~Alive(c) /\ Alive(c)') => mutex = 1]_vars

(* A handler gets the result of the function it called, whatever ran while   *)
(* that function was waiting on another task.                                *)
CallGetsOwnResult == \A c \in Ctx : At(c, "callDone") => ctx[c].call_retval = c

(* A finished trap gives the running task back its own registers and         *)
(* interrupt mask, and its own result in D0.                                 *)
ExitReturnsToCaller ==
  [][\A c \in Ctx : (Alive(c) /\ ~Alive(c)') =>
       LET saved == ctx[c].saved_regs
       IN  /\ c = Head(entered[Self]) /\ regs'.task = Self
           /\ regs'.at = saved.at /\ regs'.mask = saved.mask
           /\ regs'.d0 = IF ctx[c].has_retval THEN c ELSE saved.d0]_vars

(* The emulator thread always gets the 68k state back.                       *)
EmulatorResumes == emu # "run" ~> emu = "run"

(* A call goes to the trap that asked for it, and its result to the same.    *)
CallsAreOwn == CurrentIsCaller /\ CallGetsOwnResult

(* The emulator thread and the traps take turns, one trap in a call at a time*)
(* and the emulator thread again after each (with no reset in between).      *)
TrapsTakeTurns == TrapsEnterUnlocked /\ EmulatorResumes
=============================================================================

------------------------------ MODULE UaeState -------------------------------
(* The states of the machine (main.c) and the GTK window that shows and      *)
(* commands them (gtkui.c): real_main on the emulator thread, the requests   *)
(* that set uae_target_state, and the GUI thread, with a pipe each way.      *)
EXTENDS Naturals, Sequences

CONSTANTS GuiSlots,    \* messages that fit in to_gui_pipe
          CmdSlots,    \* commands that fit in from_gui_pipe
          MaxRequests, \* bound on what the user asks for, and on boxes
          StateBeyond  \* circumstances the code is not up to

ASSUME UaeStateAssumption ==
  /\ {GuiSlots, CmdSlots} \subseteq Nat \ {0} /\ MaxRequests \in Nat
  /\ StateBeyond \subseteq {"startAfterQuit", "romGoneAtReset"}

VARIABLES
  uaeState, target,      \* uae_state, uae_target_state
  restart,               \* restart_program
  emulator,              \* real_main: its pc, its next pc, and the loop it polls in
  toGui, fromGui,
  gui,                   \* the GUI thread: the command it is writing, what its buttons
                         \* show, whether Pause is down, and boxes shown
  boxSem,                \* msg_quit_sem of the box the emulator thread waits for
  guiOpens, startGui,    \* gui_available, currprefs.start_gui
  asked, quitAsked,
  hurried                \* something was asked for before the window showed what came of the last

usVars == <<uaeState, target, restart, emulator, toGui, fromGui, gui, boxSem, guiOpens, startGui, asked, quitAsked, hurried>>
mainVars == <<uaeState, target, restart, emulator>>
guiVars == <<fromGui, gui, boxSem>>
setupVars == <<guiOpens, startGui>>
askVars == <<asked, quitAsked, hurried>>

UaeStates == {"STOPPED", "RUNNING", "PAUSED", "COLD_START", "WARM_START", "QUITTING"}
Commands == {"START", "STOP", "PAUSE", "RESUME", "RESET", "QUIT"}   \* of the buttons
Keys == (Commands \ {"START"}) \cup {"HARDRESET"}

UsInit ==
  /\ uaeState = "STOPPED" /\ target = "STOPPED" /\ restart = 1
  /\ emulator = [pc |-> "begin", next |-> "begin", loop |-> "none"]
  /\ toGui = <<>> /\ fromGui = <<>> /\ boxSem = 0
  /\ gui = [writing |-> "none", shows |-> "none", pauseDown |-> FALSE, box |-> FALSE]
  /\ guiOpens \in BOOLEAN /\ startGui \in BOOLEAN /\ asked = 0 /\ quitAsked = FALSE /\ hurried = FALSE

Pending == uaeState # target     \* uae_state_change_pending
At(pc) == emulator.pc = pc
GoTo(pc) == emulator' = [emulator EXCEPT !.pc = pc]

-----------------------------------------------------------------------------
(* What a request makes of uae_target_state                                  *)
After_QuitLost(c) ==   \* mutant: uae_stop and uae_reset do not look for a quit
  CASE c = "START" -> "COLD_START"
    [] c = "PAUSE" -> IF target = "RUNNING" THEN "PAUSED" ELSE target
    [] c = "RESUME" -> IF target = "PAUSED" THEN "RUNNING" ELSE target
    [] c = "QUIT" -> "QUITTING"
    [] c = "STOP" -> "STOPPED"
    [] c \in {"RESET", "HARDRESET"} -> IF target \notin {"RUNNING", "PAUSED", "QUITTING"} THEN target
                                      ELSE IF c = "RESET" THEN "WARM_START" ELSE "COLD_START"

After(c) ==   \* uae_start, uae_pause, uae_resume, uae_quit, uae_stop, uae_reset
  CASE c = "START" -> "COLD_START"
    [] c = "PAUSE" -> IF target = "RUNNING" THEN "PAUSED" ELSE target
    [] c = "RESUME" -> IF target = "PAUSED" THEN "RUNNING" ELSE target
    [] c = "QUIT" -> "QUITTING"
    [] c = "STOP" -> IF target = "QUITTING" THEN target ELSE "STOPPED"
    [] c \in {"RESET", "HARDRESET"} -> IF target \notin {"RUNNING", "PAUSED"} THEN target
                                      ELSE IF c = "RESET" THEN "WARM_START" ELSE "COLD_START"

-----------------------------------------------------------------------------
(* real_main                                                                 *)
SetState(s, next) ==   \* set_state, gui_notify_state
  /\ uaeState' = s
  /\ emulator' = [emulator EXCEPT !.pc = IF guiOpens THEN "notify" ELSE next, !.next = next]

Notifies ==
  /\ At("notify") /\ Len(toGui) < GuiSlots /\ toGui' = Append(toGui, uaeState)
  /\ GoTo(emulator.next)
  /\ UNCHANGED <<uaeState, target, restart, guiVars, setupVars, askVars>>

Begins ==   \* the head of the outer loop
  /\ At("begin")
  /\ IF target = "QUITTING" THEN GoTo("ended") /\ UNCHANGED uaeState ELSE SetState(target, "preinit")
  /\ UNCHANGED <<target, restart, toGui, guiVars, setupVars, askVars>>

WantsGui == restart = 3 \/ (restart # 2 /\ startGui)

(* with no GUI to ask it in, the second round quits                          *)
OpensGui ==
  /\ At("preinit")
  /\ IF WantsGui /\ guiOpens
     THEN /\ Len(toGui) < GuiSlots /\ toGui' = Append(toGui, "show")
          /\ emulator' = [emulator EXCEPT !.pc = "poll", !.loop = "gui"] /\ UNCHANGED <<target, restart>>
     ELSE /\ GoTo("start") /\ UNCHANGED toGui
          /\ IF restart = 3 THEN restart' = 0 /\ target' = After("QUIT") ELSE UNCHANGED <<target, restart>>
  /\ UNCHANGED <<uaeState, guiVars, setupVars, askVars>>

(* do_init_machine follows, in which a missing ROM asks for a restart        *)
Starts ==
  /\ At("start") /\ restart' = 0
  /\ IF target = "QUITTING" THEN GoTo("ended") /\ UNCHANGED target
     ELSE GoTo("init") /\ target' = "COLD_START"
  /\ UNCHANGED <<uaeState, toGui, guiVars, setupVars, askVars>>

Resets ==   \* the head of the loop on resets, or do_exit_machine
  /\ At("machine")
  /\ IF target \in {"QUITTING", "STOPPED"} THEN restart' = 3 /\ GoTo("begin") /\ UNCHANGED uaeState
     ELSE UNCHANGED restart /\ SetState(target, "reset")
  /\ UNCHANGED <<target, toGui, guiVars, setupVars, askVars>>

(* gui_message ("Failed to load Kickstart image ..."), then uae_restart      *)
RomFails ==
  /\ At("init") \/ (At("reset") /\ "romGoneAtReset" \in StateBeyond)
  /\ asked < MaxRequests /\ asked' = asked + 1
  /\ emulator' = [emulator EXCEPT !.pc = IF guiOpens THEN "box" ELSE "restart",
                                 !.next = IF At("init") THEN "machine" ELSE "resetEnd"]
  /\ UNCHANGED <<uaeState, target, restart, toGui, guiVars, setupVars, quitAsked, hurried>>

WritesBox ==   \* do_message_box
  /\ At("box") /\ Len(toGui) < GuiSlots /\ toGui' = Append(toGui, "box") /\ GoTo("boxWait")
  /\ UNCHANGED <<uaeState, target, restart, guiVars, setupVars, askVars>>

BoxReturns ==
  /\ At("boxWait") /\ boxSem > 0 /\ boxSem' = 0 /\ GoTo("restart")
  /\ UNCHANGED <<uaeState, target, restart, toGui, fromGui, gui, setupVars, askVars>>

Restarts ==   \* uae_restart (-1, NULL)
  /\ At("restart") /\ target' = After("STOP") /\ restart' = 3 /\ GoTo(emulator.next)
  /\ UNCHANGED <<uaeState, toGui, guiVars, setupVars, askVars>>

Initialised ==   \* do_init_machine returns; without graphics, the program ends
  /\ At("init") /\ \E pc \in {"machine", "ended"} : GoTo(pc)
  /\ UNCHANGED <<uaeState, target, restart, toGui, guiVars, setupVars, askVars>>

WasReset ==   \* do_reset_machine returns
  /\ (At("reset") \/ At("resetEnd"))
  /\ target' = "RUNNING" /\ GoTo("running")
  /\ UNCHANGED <<uaeState, restart, toGui, guiVars, setupVars, askVars>>

Runs ==   \* the head of the main loop
  /\ At("running") /\ uaeState' = target
  /\ emulator' = [pc |-> IF guiOpens THEN "notify" ELSE "poll", next |-> "poll", loop |-> "run"]
  /\ UNCHANGED <<target, restart, toGui, guiVars, setupVars, askVars>>

(* gui_handle_events, at each vertical blank, or each turn of a waiting loop *)
Handles ==
  /\ At("poll") /\ fromGui # <<>>
  /\ target' = After(Head(fromGui)) /\ fromGui' = Tail(fromGui)
  /\ UNCHANGED <<uaeState, restart, emulator, toGui, gui, boxSem, setupVars, askVars>>

HandlesAll ==
  /\ At("poll") /\ fromGui = <<>> /\ GoTo("check")
  /\ UNCHANGED <<uaeState, target, restart, toGui, guiVars, setupVars, askVars>>

Asks(c) ==
  /\ asked < MaxRequests /\ asked' = asked + 1 /\ quitAsked' = (quitAsked \/ c = "QUIT")
  /\ hurried' = (hurried \/ toGui # <<>> \/ fromGui # <<>> \/ gui.writing # "none" \/ Pending
                          \/ gui.shows \notin {"none", uaeState})

MayStart == "startAfterQuit" \in StateBeyond \/ ~quitAsked
MayQuit == "startAfterQuit" \in StateBeyond
           \/ (gui.writing # "START" /\ \A i \in 1..Len(fromGui) : fromGui[i] # "START")

(* handle_events and the 68k: keys, the window's close button, uaelib        *)
HandlesKey(c) ==
  /\ At("check") /\ emulator.loop \in {"run", "paused"} /\ (c = "QUIT" => MayQuit)
  /\ Asks(c) /\ target' = After(c)
  /\ UNCHANGED <<uaeState, restart, emulator, toGui, guiVars, setupVars>>

(* on to pause, back to run, or out to a reset, a stop or the end            *)
LeavesLoop ==
  /\ At("check")
  /\ CASE ~Pending -> GoTo("poll") /\ UNCHANGED uaeState
       [] Pending /\ emulator.loop = "gui" -> GoTo("start") /\ UNCHANGED uaeState
       [] Pending /\ emulator.loop = "run" /\ target = "PAUSED" ->
            /\ uaeState' = "PAUSED"
            /\ emulator' = [pc |-> IF guiOpens THEN "notify" ELSE "poll", next |-> "poll", loop |-> "paused"]
       [] OTHER -> GoTo(IF target = "RUNNING" THEN "running" ELSE "machine") /\ UNCHANGED uaeState
  /\ UNCHANGED <<target, restart, toGui, guiVars, setupVars, askVars>>

-----------------------------------------------------------------------------
(* The GUI thread                                                            *)
Sensitive(c) ==   \* update_buttons
  CASE c = "START" -> gui.shows \notin {"none", "RUNNING", "PAUSED"} /\ MayStart
    [] c \in {"STOP", "PAUSE", "RESUME"} -> gui.shows \in {"RUNNING", "PAUSED"} /\ (c = "PAUSE" => ~gui.pauseDown)
                                            /\ (c = "RESUME" => gui.pauseDown)
    [] c = "RESET" -> gui.shows = "RUNNING"
    [] c = "QUIT" -> gui.shows # "none" /\ MayQuit

Clicks(c) ==
  /\ guiOpens /\ gui.writing = "none" /\ ~gui.box /\ Sensitive(c)
  /\ Asks(c)
  /\ gui' = [gui EXCEPT !.writing = c,
                        !.pauseDown = IF c \in {"PAUSE", "RESUME"} THEN ~@ ELSE @]
  /\ UNCHANGED <<mainVars, toGui, fromGui, boxSem, setupVars>>

WritesCommand ==
  /\ gui.writing # "none" /\ Len(fromGui) < CmdSlots
  /\ fromGui' = Append(fromGui, gui.writing) /\ gui' = [gui EXCEPT !.writing = "none"]
  /\ UNCHANGED <<mainVars, toGui, boxSem, setupVars, askVars>>

Shown(s) ==   \* update_buttons: setting the Pause button clicks it if it was not as it should be
  [gui EXCEPT !.shows = s, !.pauseDown = (s = "PAUSED"),
              !.writing = IF gui.pauseDown = (s = "PAUSED") THEN "none" ELSE IF s = "PAUSED" THEN "PAUSE" ELSE "RESUME"]

ShowsState_First ==   \* mutant: the window shows what it was made with
  /\ gui.writing = "none" /\ toGui # <<>> /\ toGui' = Tail(toGui)
  /\ gui' = CASE Head(toGui) = "box" -> [gui EXCEPT !.box = TRUE]
              [] Head(toGui) = "show" -> IF gui.shows = "none" THEN Shown(uaeState) ELSE gui
              [] OTHER -> gui
  /\ UNCHANGED <<mainVars, fromGui, boxSem, setupVars, askVars>>

(* my_idle: a state is shown if there is a window, and the window is made    *)
(* with the state of the moment, which messages still on their way precede   *)
ShowsState ==
  /\ gui.writing = "none" /\ toGui # <<>> /\ toGui' = Tail(toGui)
  /\ gui' = CASE Head(toGui) = "box" -> [gui EXCEPT !.box = TRUE]
              [] Head(toGui) = "show" -> IF gui.shows = "none" THEN Shown(uaeState) ELSE gui
              [] OTHER -> IF gui.shows = "none" THEN gui ELSE Shown(Head(toGui))
  /\ UNCHANGED <<mainVars, fromGui, boxSem, setupVars, askVars>>

ClicksOkay ==   \* on_message_box_quit
  /\ gui.box /\ gui.writing = "none" /\ gui' = [gui EXCEPT !.box = FALSE] /\ boxSem' = boxSem + 1
  /\ UNCHANGED <<mainVars, toGui, fromGui, setupVars, askVars>>

-----------------------------------------------------------------------------
MainLoop ==
  \/ Notifies \/ Begins \/ OpensGui \/ Starts \/ Resets \/ WritesBox \/ BoxReturns \/ Restarts
  \/ Initialised \/ WasReset \/ Runs \/ Handles \/ HandlesAll \/ LeavesLoop
GuiThread == WritesCommand \/ ShowsState \/ ClicksOkay

UsNext ==
  \/ MainLoop \/ GuiThread \/ RomFails
  \/ (\E c \in Keys : HandlesKey(c)) \/ (\E c \in Commands : Clicks(c))
-----------------------------------------------------------------------------
UsTypeOK ==
  /\ {uaeState, target} \subseteq UaeStates /\ restart \in 0..3 /\ boxSem \in 0..1
  /\ emulator.pc \in {"begin", "preinit", "poll", "check", "start", "init", "machine", "reset", "resetEnd",
                      "running", "notify", "box", "boxWait", "restart", "ended"}
  /\ emulator.loop \in {"none", "gui", "run", "paused"}
  /\ toGui \in Seq(UaeStates \cup {"box", "show"}) /\ Len(toGui) <= GuiSlots
  /\ fromGui \in Seq(Commands) /\ Len(fromGui) <= CmdSlots
  /\ gui \in [writing : Commands \cup {"none"}, shows : UaeStates \cup {"none"}, pauseDown : BOOLEAN, box : BOOLEAN]

(* A machine runs only after a reset of the stopped or the old one, and only *)
(* a running machine is paused.                                              *)
RunsAfterReset ==
  [][uaeState' # uaeState => CASE uaeState' = "RUNNING" -> uaeState \in {"COLD_START", "WARM_START", "PAUSED"}
                               [] uaeState' = "PAUSED" -> uaeState = "RUNNING"
                               [] uaeState' = "WARM_START" -> uaeState \in {"RUNNING", "PAUSED"}
                               [] uaeState' = "COLD_START" -> uaeState # "QUITTING"
                               [] OTHER -> TRUE]_usVars

(* Once the user asked to quit, by whatever way and whatever else is asked   *)
(* for later, the program ends.                                              *)
QuitEnds == quitAsked ~> At("ended")

(* A stop asked for is followed by the stopped state, or the end, unless the *)
(* user starts the machine meanwhile.                                        *)
StopStops == target = "STOPPED" ~> (uaeState = "STOPPED" \/ target # "STOPPED" \/ At("ended"))

(* A reset asked for while the machine runs is made, unless it is stopped.   *)
ResetResets ==
  \A s \in {"WARM_START", "COLD_START"} : target = s ~> (uaeState = s \/ target \in {"STOPPED", "QUITTING"} \/ At("ended"))

(* The window shows the state the machine is in once it stays in it.         *)
StateIsShown ==
  \A s \in UaeStates : gui.shows # "none" /\ uaeState = s ~> (gui.shows = s \/ uaeState # s \/ At("ended"))

(* The window commands what it is told to show: the Pause button clicks      *)
(* itself. When requests are made one at a time, the machine comes to rest   *)
(* all the same. (In a hurry, a pause and a resume can go round for ever.)   *)
MachineSettles == <>hurried \/ \E s \in UaeStates : <>[](uaeState = s)

(* The box about a missing ROM does not hold the emulator thread for ever.   *)
BoxIsClosed == At("box") ~> At("restart")

(* What is asked for comes to be, whatever is asked for after it, by way of  *)
(* the states that lead there.                                               *)
RequestsAreMet == RunsAfterReset /\ QuitEnds /\ StopStops /\ ResetResets

(* The window and the machine agree in the end, boxes included.              *)
WindowKeepsUp == StateIsShown /\ MachineSettles /\ BoxIsClosed
=============================================================================

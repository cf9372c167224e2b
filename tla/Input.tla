---------------------------------- MODULE Input ----------------------------------
(***************************************************************************)
(* meek-compositor, input: the panel's touches (input.c), the requests     *)
(* with which the shell routes taps, keys and text to apps and kills them  *)
(* (meek_shell_v1.c), and the processes behind the clients.                *)
(*                                                                         *)
(* Windows are what XdgShell shows of them: a handle names one window.     *)
(* The shell flushes the press and the release of a key at once, and       *)
(* libwayland dispatches them without another client in between: one step  *)
(* here.  The times of touches and keys are left out.                      *)
(***************************************************************************)
EXTENDS Seat

CONSTANTS
  MaxHandle,      \* bound: windows that open
  Pids,           \* process ids; one is free again once its process is dead
  Gone,           \* no window has the handle
  MaxTimers       \* bound: kill requests under way for a process

ASSUME InputAssumption ==
  /\ MaxHandle \in Nat /\ MaxTimers \in Nat
  /\ 0 \notin Pids

VARIABLES
  pid,            \* client -> its process, 0 once that is dead
  credentials,    \* client -> the pid it had when it connected
  connected,      \* clients whose wl_client exists
  next_client,
  windows,        \* handle -> its client, surface and whether its toplevel lives
  next_handle,
  bound,          \* a shell is bound to meek_shell_v1
  announced,      \* a shell has sent announce_ready, this one or one before
  osk,            \* ghost: the shell was asked to show its keyboard
  raw_down,       \* ghost: the slots down for the shell's recognizer
  fingers,        \* slots that are down on the panel
  timers,         \* pid -> pending SIGKILLs
  asked,          \* ghost: clients with a window the shell asked to kill
  exposed,        \* ghost: clients hit for want of a tie from pid to process
  stray           \* ghost: a SIGKILL hit any other client

procVars == <<pid, credentials, connected, next_client>>
windowVars == <<windows, next_handle>>
shellVars == <<bound, announced, osk, raw_down>>
killVars == <<timers, asked, exposed, stray>>
vars == <<seatVars, procVars, windowVars, fingers, shellVars, killVars>>

Handles == 1 .. MaxHandle
Open == {h \in Handles : windows[h] # Gone}
OwnedBy(c) == {h \in Open : windows[h].client = c}
Running == {c \in Clients : pid[c] # 0}
With(p) == {c \in Running : pid[c] = p}

Init ==
  /\ SeatInit
  /\ pid = [c \in Clients |-> 0] /\ credentials = pid
  /\ connected = {} /\ next_client = 1
  /\ windows = [h \in Handles |-> Gone] /\ next_handle = 1
  /\ bound = FALSE /\ announced = FALSE /\ osk = FALSE /\ raw_down = {}
  /\ fingers = {}
  /\ timers = [p \in Pids |-> 0]
  /\ asked = {} /\ exposed = {} /\ stray = FALSE

-----------------------------------------------------------------------------
(* Apps. *)

Connect ==
  /\ next_client \in Clients
  /\ \E p \in Pids \ {pid[c] : c \in Running} :
       /\ pid' = [pid EXCEPT ![next_client] = p]
       /\ credentials' = [credentials EXCEPT ![next_client] = p]
       /\ exposed' = IF timers[p] > 0 THEN exposed \cup {next_client} ELSE exposed
  /\ connected' = connected \cup {next_client}
  /\ next_client' = next_client + 1
  /\ UNCHANGED <<seatVars, windowVars, fingers, shellVars, timers, asked, stray>>

OpensWindow(c) ==
  /\ next_handle \in Handles
  /\ \E s \in Surfaces \ {windows[h].surface : h \in Open} :
       windows' = [windows EXCEPT ![next_handle] =
         [client |-> c, surface |-> s, toplevel |-> TRUE]]
  /\ next_handle' = next_handle + 1
  /\ UNCHANGED <<seatVars, procVars, fingers, shellVars, killVars>>

(* The toplevel goes before its xdg_surface, whose pointer to it dangles.   *)
ToplevelGoes(h) ==
  /\ windows[h].toplevel
  /\ windows' = [windows EXCEPT ![h].toplevel = FALSE]
  /\ UNCHANGED <<seatVars, procVars, next_handle, fingers, shellVars, killVars>>

(* The last of a window's objects goes.                                     *)
ClosesWindow(h) ==
  /\ windows' = [windows EXCEPT ![h] = Gone]
  /\ SurfaceForgotten(windows[h].client, windows[h].surface)
  /\ UNCHANGED <<textVars, shell_down, procVars, next_handle, fingers, shellVars,
                 killVars>>

KeyboardRequest(c) ==
  /\ \/ GetKeyboard(c)
     \/ keyboards[c] # NoKeyboard /\ KeyboardReleased(c)
  /\ UNCHANGED <<textVars, shell_down, procVars, windowVars, fingers, shellVars,
                 killVars>>

(* ime_request_on and _off go to a bound shell once one has announced itself. *)
FireImeRequest(on) == osk' = IF bound /\ announced THEN on ELSE osk

TextInputRequest(c) ==
  /\ \/ GetTextInput(c) /\ UNCHANGED osk
     \/ \E t \in Live :
          /\ text_inputs[t] = c
          /\ \/ Enable(t) /\ FireImeRequest(TRUE)
             \/ Disable(t) /\ FireImeRequest(FALSE)
             \/ TextInputsGone({t}) /\ UNCHANGED osk
  /\ UNCHANGED <<keyboardVars, shell_down, procVars, windowVars, fingers, bound,
                 announced, raw_down, killVars>>

Exits(c) ==
  /\ pid' = [pid EXCEPT ![c] = 0]
  /\ UNCHANGED <<seatVars, credentials, connected, next_client, windowVars, fingers,
                 shellVars, killVars>>

(* libwayland finds the connection closed and destroys what the client had. *)
ClientDestroyed(c) ==
  /\ c \in connected \ Running
  /\ connected' = connected \ {c}
  /\ windows' = [h \in Handles |-> IF h \in OwnedBy(c) THEN Gone ELSE windows[h]]
  /\ KeyboardReleased(c)
  /\ TextInputsGone({t \in Live : text_inputs[t] = c})
  /\ UNCHANGED <<shell_down, pid, credentials, next_client, next_handle, fingers,
                 shellVars, killVars>>

-----------------------------------------------------------------------------
(* The panel. *)

PanelDown(slot) ==
  /\ slot \notin fingers
  /\ fingers' = fingers \cup {slot}
  /\ SendTouchDown(slot, bound)
  /\ raw_down' = IF bound THEN raw_down \cup {slot} ELSE raw_down
  /\ UNCHANGED <<keyboardVars, textVars, procVars, windowVars, bound, announced, osk,
                 killVars>>

PanelUp(slot) ==
  /\ slot \in fingers
  /\ fingers' = fingers \ {slot}
  /\ SendTouchUp(slot, bound)
  /\ raw_down' = IF bound THEN raw_down \ {slot} ELSE raw_down
  /\ UNCHANGED <<keyboardVars, textVars, procVars, windowVars, bound, announced, osk,
                 killVars>>

(* A cancel reaches the shell's wl_touch and not its recognizer.            *)
PanelCancel ==
  /\ fingers # {}
  /\ fingers' = {}
  /\ SendTouchCancel(bound)
  /\ UNCHANGED <<keyboardVars, textVars, procVars, windowVars, shellVars,
                 killVars>>

-----------------------------------------------------------------------------
(* The shell. *)

(* bind: whatever an earlier shell announced still counts.                  *)
ShellBinds ==
  /\ ~bound /\ bound' = TRUE
  /\ UNCHANGED <<seatVars, procVars, windowVars, fingers, announced, osk, raw_down,
                 killVars>>

ShellAnnounces ==
  /\ bound /\ announced' = TRUE
  /\ UNCHANGED <<seatVars, procVars, windowVars, fingers, bound, osk, raw_down,
                 killVars>>

ShellDies ==
  /\ bound /\ bound' = FALSE
  /\ shell_down' = {} /\ raw_down' = {} /\ osk' = FALSE
  /\ UNCHANGED <<keyboardVars, textVars, procVars, windowVars, fingers, announced,
                 killVars>>

(* route_keyboard_key of the press and the release.                         *)
KeyTyped(h) ==
  /\ RouteKey(windows[h].client, windows[h].surface)
  /\ UNCHANGED <<textVars, shell_down, procVars, windowVars, fingers, shellVars,
                 killVars>>

(* The clients whose pid on_kill_toplevel may read: the window's, or, of a   *)
(* toplevel that was freed, that of any resource that is in its place now.  *)
ClientsRead(h) ==
  IF windows[h].toplevel THEN {windows[h].client} ELSE connected

Condemned(h, c) ==
  LET heirs == With(credentials[c]) \ {c}
  IN  IF windows[h].toplevel
      THEN asked' = asked \cup {c} /\ exposed' = exposed \cup heirs
      ELSE exposed' = exposed \cup heirs \cup {c} /\ UNCHANGED asked

(* kill(p, SIGKILL)                                                         *)
Sigkill(p) ==
  /\ stray' = (stray \/ ~(With(p) \subseteq asked' \cup exposed'))
  /\ pid' = [c \in Clients |-> IF c \in With(p) THEN 0 ELSE pid[c]]

(* Mutant: nothing is scheduled for an app that has another window. *)
KillToplevel_LastOnly(h) ==
  /\ \E c \in ClientsRead(h) :
       /\ Condemned(h, c)
       /\ timers' = IF OwnedBy(c) = {h}
                    THEN [timers EXCEPT ![credentials[c]] = @ + 1] ELSE timers
  /\ UNCHANGED <<seatVars, procVars, windowVars, fingers, shellVars, stray>>

(* A polite close, and a timer for the pid that the window's client had     *)
(* when it connected, dead or not; without memory for a timer, the signal.  *)
KillToplevel(h) ==
  /\ \E c \in ClientsRead(h) :
       /\ Condemned(h, c)
       /\ \/ /\ timers' = [timers EXCEPT ![credentials[c]] = @ + 1]
             /\ UNCHANGED <<pid, stray>>
          \/ /\ Sigkill(credentials[c])
             /\ UNCHANGED timers
  /\ UNCHANGED <<seatVars, credentials, connected, next_client, windowVars, fingers,
                 shellVars>>

(* Mutant: the signal goes to the process group. *)
OnKillTimer_Group(p) ==
  /\ stray' = (stray \/ ~(Running \subseteq asked \cup exposed))
  /\ pid' = [c \in Clients |-> 0]
  /\ timers' = [timers EXCEPT ![p] = @ - 1]
  /\ UNCHANGED <<seatVars, credentials, connected, next_client, windowVars, fingers,
                 shellVars, asked, exposed>>

(* Two seconds later, whatever happened meanwhile.                          *)
OnKillTimer(p) ==
  /\ timers' = [timers EXCEPT ![p] = @ - 1]
  /\ UNCHANGED <<seatVars, credentials, connected, next_client, windowVars, fingers,
                 shellVars, asked, exposed>>
  /\ Sigkill(p)

ShellRequest(h) ==
  /\ bound
  /\ \/ KeyTyped(h)
     \/ (\A p \in Pids : timers[p] < MaxTimers) /\ KillToplevel(h)

-----------------------------------------------------------------------------
AppStep(c) ==
  \/ OpensWindow(c) \/ KeyboardRequest(c) \/ TextInputRequest(c) \/ Exits(c)

WindowGoes(h) ==
  /\ windows[h].client \in Running
  /\ ToplevelGoes(h) \/ ClosesWindow(h)

KillTimerFires == \E p \in Pids : timers[p] > 0 /\ OnKillTimer(p)

Next ==
  \/ Connect
  \/ \E c \in connected \cap Running : AppStep(c)
  \/ \E c \in connected : ClientDestroyed(c)
  \/ \E h \in Open : WindowGoes(h) \/ ShellRequest(h)
  \/ \E slot \in Slots : PanelDown(slot) \/ PanelUp(slot)
  \/ PanelCancel
  \/ ShellBinds \/ ShellAnnounces \/ ShellDies
  \/ KillTimerFires

(* The event loop runs a timer that is due, and notices a closed            *)
(* connection.                                                              *)
Fairness ==
  /\ WF_vars(KillTimerFires)
  /\ \A c \in Clients : WF_vars(ClientDestroyed(c))

Spec == Init /\ [][Next]_vars /\ Fairness

-----------------------------------------------------------------------------
InputTypeOK ==
  /\ SeatTypeOK
  /\ pid \in [Clients -> Pids \cup {0}] /\ connected \in SUBSET Clients
  /\ credentials \in [Clients -> Pids \cup {0}]
  /\ next_client \in 1 .. MaxClients + 1
  /\ windows \in [Handles -> [client : Clients, surface : Surfaces, toplevel : BOOLEAN]
                            \cup {Gone}]
  /\ next_handle \in 1 .. MaxHandle + 1
  /\ bound \in BOOLEAN /\ announced \in BOOLEAN /\ osk \in BOOLEAN
  /\ raw_down \in SUBSET Slots /\ fingers \in SUBSET Slots
  /\ timers \in [Pids -> 0 .. MaxTimers]
  /\ asked \in SUBSET Clients /\ exposed \in SUBSET Clients /\ stray \in BOOLEAN

(* A client never believes that two of its surfaces have the keyboard, nor  *)
(* one that the compositor does not think focused: over windows that close  *)
(* while focused, keyboards released and asked for again, and addresses     *)
(* that are reused.                                                         *)
EnteredIsFocused ==
  \A c \in Clients : entered[c] # {} => entered[c] = {keyboards[c]}

(* wl_touch never leaves the shell believing that a finger is down which is *)
(* not, and its recognizer sees every touch that its widgets see: over      *)
(* cancels, and shells that start and die in the middle of a touch.         *)
TouchesEnd == shell_down \subseteq fingers /\ shell_down \subseteq raw_down

(* SIGKILL hits the process of a window the shell asked to kill.  Nothing   *)
(* ties the signal to the process, so that it may also hit who inherited    *)
(* the pid after that process ended, before the request or within the two   *)
(* seconds, and whoever is read out of a toplevel that was freed before its *)
(* xdg_surface; but never anybody else: over apps with several windows,     *)
(* requests repeated, exits and signals at once for want of memory.         *)
KillHitsTheAsked == ~stray

(* kill_toplevel: "the user expects the app to be GONE": an app that was    *)
(* asked to close disappears with all its windows, whatever it does.        *)
KilledAppDies ==
  \A c \in Clients : c \in asked ~> c \notin connected /\ OwnedBy(c) = {}

-----------------------------------------------------------------------------
(* meek-shell-v1.xml, ime_request_off: it "fires when the app's text_input  *)
(* is disabled, destroyed, or loses focus"; text_input_v3.c says of the     *)
(* active one that it is "cleared when the resource is destroyed".          *)
KeyboardServesALiveTextInput == osk => active \in Live
=============================================================================

------------------------------ MODULE Input_proofs ------------------------------
(***************************************************************************)
(* Proofs about Input, for any clients, surfaces, slots and processes: who *)
(* believes to have the keyboard, which touches the shell believes to be   *)
(* down, and whom a SIGKILL hits.                                          *)
(***************************************************************************)
EXTENDS Input, TLAPS

(* Nobody who is not bound is sent a touch: the shell that starts in the   *)
(* middle of one begins with none.                                         *)
DeafShellHasNoTouch == ~bound => shell_down = {}

(* No two living processes have the same pid.                              *)
PidsAreDistinct == \A c, d \in Running : pid[c] = pid[d] => c = d

(* While a SIGKILL is pending for a pid, who has it was asked to die, got   *)
(* the pid of one that was, or was read out of a freed toplevel.           *)
TimersAwaitTheAsked ==
  \A c \in Running : timers[pid[c]] > 0 => c \in asked \cup exposed

(* Whose window is open is connected, and had a pid when it connected.      *)
OwnersHavePids ==
  /\ \A h \in Open : windows[h].client \in connected
  /\ \A c \in connected : credentials[c] \in Pids

IInv ==
  /\ InputTypeOK /\ OwnersHavePids
  /\ EnteredIsFocused
  /\ DeafShellHasNoTouch /\ TouchesEnd
  /\ PidsAreDistinct /\ TimersAwaitTheAsked /\ KillHitsTheAsked

-----------------------------------------------------------------------------
LEMMA InitEstablishes == Init => IInv
<1> SUFFICES ASSUME Init PROVE IInv
  OBVIOUS
<1> USE DEF Init, SeatInit
<1>1. SeatTypeOK
  BY SeatAssumption DEF SeatAssumption, SeatTypeOK
<1>2. InputTypeOK
  <2>1. next_client \in 1 .. MaxClients + 1 /\ next_handle \in 1 .. MaxHandle + 1
    BY SeatAssumption, InputAssumption DEF SeatAssumption, InputAssumption
  <2>2. timers \in [Pids -> 0 .. MaxTimers]
    BY InputAssumption DEF InputAssumption
  <2> QED
    BY <1>1, <2>1, <2>2 DEF InputTypeOK
<1>3. EnteredIsFocused /\ DeafShellHasNoTouch /\ TouchesEnd
  BY DEF EnteredIsFocused, DeafShellHasNoTouch, TouchesEnd
<1>4. Running = {} /\ Open = {}
  BY DEF Running, Open
<1> QED
  BY <1>2, <1>3, <1>4 DEF IInv, OwnersHavePids, PidsAreDistinct, TimersAwaitTheAsked, KillHitsTheAsked

-----------------------------------------------------------------------------
(* Types. *)
LEMMA SeatTypesNext == InputTypeOK /\ [Next]_vars => SeatTypeOK'
<1> SUFFICES ASSUME InputTypeOK, [Next]_vars PROVE SeatTypeOK'
  OBVIOUS
<1> USE DEF InputTypeOK, SeatTypeOK, vars, seatVars, keyboardVars, textVars
<1>1. ASSUME NEW c \in Clients, KeyboardReleased(c)
      PROVE  /\ keyboards' \in [Clients -> Surfaces \cup {NULL, NoKeyboard}]
             /\ entered' \in [Clients -> SUBSET Surfaces]
  BY <1>1 DEF KeyboardReleased
<1>2. ASSUME NEW gone \in SUBSET TextInputs, TextInputsGone(gone)
      PROVE  /\ text_inputs' \in [TextInputs -> 0 .. MaxClients]
             /\ active' \in TextInputs \cup {NULL}
  BY <1>2, SeatAssumption DEF TextInputsGone, SeatAssumption
<1>3. Live \in SUBSET TextInputs
  BY DEF Live
<1>4. ASSUME NEW c \in Clients, AppStep(c) PROVE SeatTypeOK'
  <2>1. CASE OpensWindow(c) \/ Exits(c)
    BY <2>1 DEF OpensWindow, Exits
  <2>2. CASE KeyboardRequest(c)
    BY <2>2, <1>1 DEF KeyboardRequest, GetKeyboard
  <2>3. CASE TextInputRequest(c)
    <3>1. CASE GetTextInput(c)
      <4>1. c \in 0 .. MaxClients
        BY SeatAssumption DEF Clients, SeatAssumption
      <4> QED
        BY <2>3, <3>1, <4>1 DEF TextInputRequest, GetTextInput
    <3>2. ASSUME NEW t \in Live, Enable(t) \/ Disable(t) \/ TextInputsGone({t})
          PROVE  SeatTypeOK'
      <4>1. {t} \in SUBSET TextInputs /\ t \in TextInputs
        BY <1>3
      <4> QED
        BY <2>3, <3>2, <4>1, <1>2 DEF TextInputRequest, Enable, Disable
    <3> QED
      BY <2>3, <3>1, <3>2 DEF TextInputRequest
  <2> QED
    BY <1>4, <2>1, <2>2, <2>3 DEF AppStep
<1>5. ASSUME NEW c \in Clients, ClientDestroyed(c) PROVE SeatTypeOK'
  <2>1. {t \in Live : text_inputs[t] = c} \in SUBSET TextInputs
    BY <1>3
  <2> QED
    BY <1>1, <1>2, <1>5, <2>1 DEF ClientDestroyed
<1>6. ASSUME NEW h \in Open
      PROVE  windows[h].client \in Clients /\ windows[h].surface \in Surfaces
  BY <1>6 DEF Open
<1>7. ASSUME NEW h \in Open, WindowGoes(h) PROVE SeatTypeOK'
  BY <1>6, <1>7 DEF WindowGoes, ToplevelGoes, ClosesWindow, SurfaceForgotten
<1>8. ASSUME NEW h \in Open, ShellRequest(h) PROVE SeatTypeOK'
  BY <1>6, <1>8 DEF ShellRequest, KeyTyped, RouteKey, KillToplevel
<1>9. ASSUME NEW slot \in Slots, PanelDown(slot) \/ PanelUp(slot) PROVE SeatTypeOK'
  BY <1>9 DEF PanelDown, PanelUp, SendTouchDown, SendTouchUp
<1>10. CASE PanelCancel \/ ShellBinds \/ ShellAnnounces \/ ShellDies \/ KillTimerFires \/ Connect
  BY <1>10 DEF Sigkill, PanelCancel, SendTouchCancel, ShellBinds, ShellAnnounces, ShellDies, KillTimerFires,
     OnKillTimer, Connect
<1>11. connected \in SUBSET Clients
  OBVIOUS
<1> QED
  BY <1>4, <1>5, <1>7, <1>8, <1>9, <1>10, <1>11 DEF Next

LEMMA TypesNext == InputTypeOK /\ OwnersHavePids /\ [Next]_vars => InputTypeOK'
<1> SUFFICES ASSUME InputTypeOK, OwnersHavePids, [Next]_vars PROVE InputTypeOK'
  OBVIOUS
<1>0. SeatTypeOK'
  BY SeatTypesNext
<1> USE DEF InputTypeOK, vars, procVars, windowVars, shellVars, killVars
<1>1. CASE Connect
  <2>1. next_client' \in 1 .. MaxClients + 1
    BY <1>1, SeatAssumption DEF Connect, Clients, SeatAssumption
  <2> QED
    BY <1>0, <1>1, <2>1 DEF Connect
<1>2. ASSUME NEW c \in Clients, AppStep(c) PROVE InputTypeOK'
  <2>1. CASE OpensWindow(c)
    <3>1. next_handle' \in 1 .. MaxHandle + 1
      BY <2>1, InputAssumption DEF OpensWindow, Handles, InputAssumption
    <3>2. PICK s \in Surfaces :
            windows' = [windows EXCEPT ![next_handle] =
              [client |-> c, surface |-> s, toplevel |-> TRUE]]
      BY <2>1 DEF OpensWindow
    <3>3. windows' \in [Handles -> [client : Clients, surface : Surfaces,
                                    toplevel : BOOLEAN] \cup {Gone}]
      BY <3>2
    <3> QED
      BY <1>0, <2>1, <3>1, <3>3 DEF OpensWindow
  <2>2. CASE KeyboardRequest(c)
    BY <1>0, <2>2 DEF KeyboardRequest
  <2>3. CASE TextInputRequest(c)
    BY <1>0, <2>3 DEF TextInputRequest, FireImeRequest
  <2>4. CASE Exits(c)
    BY <1>0, <2>4 DEF Exits
  <2> QED
    BY <1>2, <2>1, <2>2, <2>3, <2>4 DEF AppStep
<1>3. ASSUME NEW c \in Clients, ClientDestroyed(c) PROVE InputTypeOK'
  BY <1>0, <1>3 DEF ClientDestroyed
<1>4. ASSUME NEW h \in Open, WindowGoes(h) PROVE InputTypeOK'
  <2>1. CASE ToplevelGoes(h)
    BY <1>0, <2>1 DEF ToplevelGoes, Open
  <2>2. CASE ClosesWindow(h)
    BY <1>0, <2>2 DEF ClosesWindow, Open
  <2> QED
    BY <1>4, <2>1, <2>2 DEF WindowGoes
<1>5. ASSUME NEW h \in Open, ShellRequest(h) PROVE InputTypeOK'
  <2>1. CASE KeyTyped(h)
    BY <1>0, <2>1 DEF KeyTyped
  <2>2. CASE (\A p \in Pids : timers[p] < MaxTimers) /\ KillToplevel(h)
    <3>1. PICK c \in ClientsRead(h) :
            /\ Condemned(h, c)
            /\ \/ timers' = [timers EXCEPT ![credentials[c]] = @ + 1] /\ UNCHANGED <<pid, stray>>
               \/ Sigkill(credentials[c]) /\ UNCHANGED timers
      BY <2>2 DEF KillToplevel
    <3>2. c \in Clients /\ credentials[c] \in Pids
      BY DEF ClientsRead, OwnersHavePids
    <3>3. timers[credentials[c]] + 1 \in 0 .. MaxTimers
      BY <2>2, <3>2, InputAssumption DEF InputAssumption
    <3>4. timers' \in [Pids -> 0 .. MaxTimers]
      BY <3>1, <3>2, <3>3
    <3>5. pid' \in [Clients -> Pids \cup {0}] /\ stray' \in BOOLEAN
      BY <3>1 DEF Sigkill
    <3>6. asked' \in SUBSET Clients /\ exposed' \in SUBSET Clients
      BY <3>1, <3>2 DEF Condemned, With, Running
    <3> QED
      BY <1>0, <2>2, <3>4, <3>5, <3>6 DEF KillToplevel
  <2> QED
    BY <1>5, <2>1, <2>2 DEF ShellRequest
<1>6. ASSUME NEW slot \in Slots, PanelDown(slot) \/ PanelUp(slot) PROVE InputTypeOK'
  BY <1>0, <1>6 DEF PanelDown, PanelUp
<1>7. CASE PanelCancel \/ ShellBinds \/ ShellAnnounces \/ ShellDies
  BY <1>0, <1>7 DEF PanelCancel, ShellBinds, ShellAnnounces, ShellDies
<1>8. ASSUME NEW p \in Pids, timers[p] > 0, OnKillTimer(p) PROVE InputTypeOK'
  <2>1. timers[p] - 1 \in 0 .. MaxTimers
    BY <1>8, InputAssumption DEF InputAssumption
  <2>2. pid' \in [Clients -> Pids \cup {0}] /\ stray' \in BOOLEAN
    BY <1>8 DEF OnKillTimer, Sigkill
  <2> QED
    BY <1>0, <1>8, <2>1, <2>2 DEF OnKillTimer
<1>9. CASE UNCHANGED vars
  BY <1>0, <1>9
<1>10. connected \in SUBSET Clients
  OBVIOUS
<1> QED
  BY <1>1, <1>2, <1>3, <1>4, <1>5, <1>6, <1>7, <1>8, <1>9, <1>10 DEF Next, KillTimerFires

-----------------------------------------------------------------------------
(* The keyboards.  Only one client's is touched by a step.                 *)
LEMMA KeyboardNext ==
  ASSUME InputTypeOK, EnteredIsFocused, [Next]_vars
  PROVE  EnteredIsFocused'
<1> USE DEF vars, seatVars, keyboardVars
<1>1. /\ keyboards \in [Clients -> Surfaces \cup {NULL, NoKeyboard}]
      /\ entered \in [Clients -> SUBSET Surfaces]
  BY DEF InputTypeOK, SeatTypeOK
<1>2. ASSUME NEW c \in Clients,
             \A d \in Clients \ {c} : keyboards'[d] = keyboards[d] /\ entered'[d] = entered[d],
             entered'[c] # {} => entered'[c] = {keyboards'[c]}
      PROVE  EnteredIsFocused'
  BY <1>2 DEF EnteredIsFocused
<1>3. ASSUME UNCHANGED keyboardVars PROVE EnteredIsFocused'
  BY <1>3 DEF EnteredIsFocused
<1>4. ASSUME NEW c \in Clients, KeyboardReleased(c) PROVE EnteredIsFocused'
  BY <1>1, <1>2, <1>4 DEF KeyboardReleased
<1>5. ASSUME NEW c \in Clients, GetKeyboard(c) PROVE EnteredIsFocused'
  <2>1. entered[c] = {}
    BY <1>1, <1>5, SeatAssumption DEF GetKeyboard, EnteredIsFocused, SeatAssumption
  <2> QED
    BY <1>1, <1>2, <1>5, <2>1 DEF GetKeyboard
<1>6. ASSUME NEW c \in Clients, NEW s \in Surfaces, RouteKey(c, s) PROVE EnteredIsFocused'
  <2>1. CASE keyboards[c] \in {NoKeyboard, s}
    BY <1>3, <1>6, <2>1 DEF RouteKey
  <2>2. CASE keyboards[c] \notin {NoKeyboard, s}
    <3>1. entered[c] \ {keyboards[c]} = {}
      BY DEF EnteredIsFocused
    <3>2. keyboards'[c] = s /\ entered'[c] = {s}
      BY <1>1, <1>6, <2>2, <3>1 DEF RouteKey
    <3> QED
      BY <1>1, <1>2, <1>6, <2>2, <3>2 DEF RouteKey
  <2> QED
    BY <2>1, <2>2
<1>7. ASSUME NEW c \in Clients, NEW s \in Surfaces, SurfaceForgotten(c, s)
      PROVE  EnteredIsFocused'
  BY <1>1, <1>2, <1>7 DEF SurfaceForgotten, EnteredIsFocused
<1>8. \A h \in Open : windows[h].client \in Clients /\ windows[h].surface \in Surfaces
  BY DEF Open, InputTypeOK
<1>9. connected \in SUBSET Clients
  BY DEF InputTypeOK
<1>10. ASSUME NEW c \in Clients, AppStep(c) PROVE EnteredIsFocused'
  BY <1>3, <1>4, <1>5, <1>10 DEF AppStep, OpensWindow, KeyboardRequest, TextInputRequest,
     Exits
<1>11. ASSUME NEW c \in Clients, ClientDestroyed(c) PROVE EnteredIsFocused'
  BY <1>4, <1>11 DEF ClientDestroyed
<1>12. ASSUME NEW h \in Open, WindowGoes(h) PROVE EnteredIsFocused'
  BY <1>3, <1>7, <1>8, <1>12 DEF WindowGoes, ToplevelGoes, ClosesWindow
<1>13. ASSUME NEW h \in Open, ShellRequest(h) PROVE EnteredIsFocused'
  BY <1>3, <1>6, <1>8, <1>13 DEF ShellRequest, KeyTyped, KillToplevel
<1>14. CASE \/ \E slot \in Slots : PanelDown(slot) \/ PanelUp(slot)
            \/ PanelCancel \/ ShellBinds \/ ShellAnnounces \/ ShellDies \/ KillTimerFires \/ Connect
  BY <1>3, <1>14 DEF PanelDown, PanelUp, PanelCancel, ShellBinds, ShellAnnounces, ShellDies,
     KillTimerFires, OnKillTimer, Connect
<1> QED
  BY <1>3, <1>9, <1>10, <1>11, <1>12, <1>13, <1>14 DEF Next

-----------------------------------------------------------------------------
(* The touches. *)
LEMMA TouchNext ==
  ASSUME InputTypeOK, DeafShellHasNoTouch, TouchesEnd, [Next]_vars
  PROVE  DeafShellHasNoTouch' /\ TouchesEnd'
<1> USE DEF vars, seatVars, shellVars, DeafShellHasNoTouch, TouchesEnd
<1>1. ASSUME NEW slot \in Slots, PanelDown(slot)
      PROVE  DeafShellHasNoTouch' /\ TouchesEnd'
  BY <1>1 DEF PanelDown, SendTouchDown
<1>2. ASSUME NEW slot \in Slots, PanelUp(slot)
      PROVE  DeafShellHasNoTouch' /\ TouchesEnd'
  BY <1>2 DEF PanelUp, SendTouchUp
<1>3. CASE PanelCancel
  BY <1>3 DEF PanelCancel, SendTouchCancel
<1>4. CASE ShellBinds \/ ShellAnnounces \/ ShellDies
  BY <1>4 DEF ShellBinds, ShellAnnounces, ShellDies
<1>5. ASSUME NEW c, AppStep(c) \/ ClientDestroyed(c)
      PROVE  UNCHANGED <<shell_down, fingers, bound, raw_down>>
  BY <1>5 DEF AppStep, OpensWindow, KeyboardRequest, TextInputRequest, Exits, ClientDestroyed
<1>6. ASSUME NEW h, WindowGoes(h) \/ ShellRequest(h)
      PROVE  UNCHANGED <<shell_down, fingers, bound, raw_down>>
  BY <1>6 DEF WindowGoes, ToplevelGoes, ClosesWindow, ShellRequest, KeyTyped, KillToplevel
<1>7. CASE Connect \/ KillTimerFires
  BY <1>7 DEF Connect, KillTimerFires, OnKillTimer
<1> QED
  BY <1>1, <1>2, <1>3, <1>4, <1>5, <1>6, <1>7 DEF Next

-----------------------------------------------------------------------------
(* The processes. *)
LEMMA KillNext ==
  ASSUME InputTypeOK, OwnersHavePids, PidsAreDistinct, TimersAwaitTheAsked,
         KillHitsTheAsked, [Next]_vars
  PROVE  PidsAreDistinct' /\ TimersAwaitTheAsked' /\ KillHitsTheAsked'
<1> USE DEF procVars, killVars
<1>0. /\ pid \in [Clients -> Pids \cup {0}] /\ timers \in [Pids -> 0 .. MaxTimers]
      /\ 0 \notin Pids /\ MaxTimers \in Nat
  BY InputAssumption DEF InputTypeOK, InputAssumption
<1>1. ASSUME UNCHANGED killVars, \A c \in Clients : pid'[c] \in {pid[c], 0}
      PROVE  PidsAreDistinct' /\ TimersAwaitTheAsked' /\ KillHitsTheAsked'
  BY <1>1 DEF Running, PidsAreDistinct, TimersAwaitTheAsked, KillHitsTheAsked
<1>2. CASE Connect
  <2>1. PICK p \in Pids \ {pid[c] : c \in Running} :
          /\ pid' = [pid EXCEPT ![next_client] = p]
          /\ exposed' = IF timers[p] > 0 THEN exposed \cup {next_client} ELSE exposed
    BY <1>2 DEF Connect
  <2>2. \A c \in Clients : pid'[c] = IF c = next_client THEN p ELSE pid[c]
    BY <1>0, <2>1
  <2>3. PidsAreDistinct'
    BY <1>0, <2>1, <2>2 DEF PidsAreDistinct, Running
  <2>4. UNCHANGED <<timers, asked, stray>>
    BY <1>2 DEF Connect
  <2>5. TimersAwaitTheAsked'
    BY <1>0, <2>1, <2>2, <2>4 DEF TimersAwaitTheAsked, Running
  <2> QED
    BY <2>3, <2>4, <2>5 DEF KillHitsTheAsked
<1>3. ASSUME NEW c \in Clients, AppStep(c) \/ ClientDestroyed(c)
      PROVE  UNCHANGED killVars /\ \A d \in Clients : pid'[d] \in {pid[d], 0}
  BY <1>0, <1>3 DEF AppStep, OpensWindow, KeyboardRequest, TextInputRequest, Exits,
     ClientDestroyed
<1>4. ASSUME NEW h \in Open, WindowGoes(h) \/ KeyTyped(h)
      PROVE  UNCHANGED <<pid, timers, asked, exposed, stray>>
  BY <1>4 DEF WindowGoes, ToplevelGoes, ClosesWindow, KeyTyped
<1>5. ASSUME NEW p \in Pids, Sigkill(p),
             With(p) \subseteq asked' \cup exposed',
             asked \cup exposed \subseteq asked' \cup exposed',
             \A q \in Pids \ {p} : timers'[q] = timers[q]
      PROVE  PidsAreDistinct' /\ TimersAwaitTheAsked' /\ KillHitsTheAsked'
  <2>1. ~stray'
    BY <1>5 DEF Sigkill, KillHitsTheAsked
  <2>2. /\ \A c \in Clients : pid'[c] \in {pid[c], 0}
        /\ \A c \in Clients : pid'[c] # 0 => pid'[c] # p
    BY <1>0, <1>5 DEF Sigkill, With, Running
  <2>3. PidsAreDistinct'
    BY <2>2 DEF PidsAreDistinct, Running
  <2>4. TimersAwaitTheAsked'
    <3> SUFFICES ASSUME NEW c \in Running', timers'[pid'[c]] > 0
                 PROVE  c \in asked' \cup exposed'
      BY DEF TimersAwaitTheAsked
    <3>1. c \in Running /\ pid'[c] = pid[c] /\ pid[c] \in Pids \ {p}
      BY <1>0, <2>2 DEF Running
    <3> QED
      BY <1>5, <3>1 DEF TimersAwaitTheAsked
  <2> QED
    BY <2>1, <2>3, <2>4 DEF KillHitsTheAsked
<1>6. ASSUME NEW h \in Open, KillToplevel(h)
      PROVE  PidsAreDistinct' /\ TimersAwaitTheAsked' /\ KillHitsTheAsked'
  <2>1. PICK c \in ClientsRead(h) :
          /\ Condemned(h, c)
          /\ \/ timers' = [timers EXCEPT ![credentials[c]] = @ + 1] /\ UNCHANGED <<pid, stray>>
             \/ Sigkill(credentials[c]) /\ UNCHANGED timers
    BY <1>6 DEF KillToplevel
  <2>2. credentials[c] \in Pids
    BY DEF ClientsRead, OwnersHavePids
  <2>3. /\ asked \cup exposed \subseteq asked' \cup exposed'
        /\ With(credentials[c]) \subseteq asked' \cup exposed'
    BY <2>1 DEF Condemned
  <2>4. CASE timers' = [timers EXCEPT ![credentials[c]] = @ + 1] /\ UNCHANGED <<pid, stray>>
    <3>1. \A q \in Pids \ {credentials[c]} : timers'[q] = timers[q]
      BY <1>0, <2>4
    <3>2. Running' = Running
      BY <2>4 DEF Running
    <3>3. ASSUME NEW d \in Running, timers'[pid[d]] > 0
          PROVE  d \in asked' \cup exposed'
      <4>1. CASE pid[d] = credentials[c]
        BY <2>3, <4>1 DEF With
      <4>2. CASE pid[d] # credentials[c]
        BY <1>0, <2>3, <3>1, <3>3, <4>2 DEF TimersAwaitTheAsked, Running
      <4> QED
        BY <4>1, <4>2
    <3> QED
      BY <2>4, <3>2, <3>3 DEF PidsAreDistinct, TimersAwaitTheAsked, KillHitsTheAsked
  <2>5. CASE Sigkill(credentials[c]) /\ UNCHANGED timers
    BY <1>5, <2>2, <2>3, <2>5
  <2> QED
    BY <2>1, <2>4, <2>5
<1>7. ASSUME NEW p \in Pids, timers[p] > 0, OnKillTimer(p)
      PROVE  PidsAreDistinct' /\ TimersAwaitTheAsked' /\ KillHitsTheAsked'
  <2>1. With(p) \subseteq asked \cup exposed
    BY <1>7 DEF TimersAwaitTheAsked, With
  <2>2. Sigkill(p) /\ UNCHANGED <<asked, exposed>>
        /\ \A q \in Pids \ {p} : timers'[q] = timers[q]
    BY <1>0, <1>7 DEF OnKillTimer
  <2> QED
    BY <1>5, <2>1, <2>2
<1>8. CASE \/ \E slot \in Slots : PanelDown(slot) \/ PanelUp(slot)
           \/ PanelCancel \/ ShellBinds \/ ShellAnnounces \/ ShellDies \/ UNCHANGED vars
  <2>1. UNCHANGED <<pid, timers, asked, exposed, stray>>
    BY <1>8 DEF PanelDown, PanelUp, PanelCancel, ShellBinds, ShellAnnounces, ShellDies, vars
  <2> QED
    BY <1>1, <2>1
<1>9. connected \in SUBSET Clients
  BY DEF InputTypeOK
<1> QED
  BY <1>1, <1>2, <1>3, <1>4, <1>6, <1>7, <1>8, <1>9 DEF Next, KillTimerFires, ShellRequest

-----------------------------------------------------------------------------
(* The owners of the windows. *)
LEMMA OwnersNext == InputTypeOK /\ OwnersHavePids /\ [Next]_vars => OwnersHavePids'
<1> SUFFICES ASSUME InputTypeOK, OwnersHavePids, [Next]_vars PROVE OwnersHavePids'
  OBVIOUS
<1> USE DEF OwnersHavePids, Open, InputTypeOK
<1>1. CASE Connect
  BY <1>1 DEF Connect, windowVars
<1>2. ASSUME NEW c \in connected \cap Running, AppStep(c) PROVE OwnersHavePids'
  <2>1. CASE OpensWindow(c)
    BY <2>1 DEF OpensWindow, procVars
  <2>2. CASE KeyboardRequest(c) \/ TextInputRequest(c) \/ Exits(c)
    BY <2>2 DEF KeyboardRequest, TextInputRequest, Exits, procVars, windowVars
  <2> QED
    BY <1>2, <2>1, <2>2 DEF AppStep
<1>3. ASSUME NEW c \in connected, ClientDestroyed(c) PROVE OwnersHavePids'
  BY <1>3 DEF ClientDestroyed, OwnedBy
<1>4. ASSUME NEW h \in Open, WindowGoes(h) PROVE OwnersHavePids'
  BY <1>4 DEF WindowGoes, ToplevelGoes, ClosesWindow, procVars
<1>5. ASSUME NEW h \in Open, ShellRequest(h) PROVE OwnersHavePids'
  BY <1>5 DEF ShellRequest, KeyTyped, KillToplevel, procVars, windowVars
<1>6. CASE \/ \E slot \in Slots : PanelDown(slot) \/ PanelUp(slot)
           \/ PanelCancel \/ ShellBinds \/ ShellAnnounces \/ ShellDies \/ KillTimerFires
           \/ UNCHANGED vars
  BY <1>6 DEF PanelDown, PanelUp, PanelCancel, ShellBinds, ShellAnnounces, ShellDies,
     KillTimerFires, OnKillTimer, procVars, windowVars, vars
<1> QED
  BY <1>1, <1>2, <1>3, <1>4, <1>5, <1>6 DEF Next

-----------------------------------------------------------------------------
LEMMA NextPreserves == IInv /\ [Next]_vars => IInv'
BY TypesNext, OwnersNext, KeyboardNext, TouchNext, KillNext DEF IInv

LEMMA Inductive == Spec => []IInv
BY InitEstablishes, NextPreserves, PTL DEF Spec

(* Types of the seat, the windows, the shell and the processes.            *)
THEOREM InputTypes == Spec => []InputTypeOK
<1>1. IInv => InputTypeOK
  BY DEF IInv
<1> QED
  BY <1>1, Inductive, PTL

(* route_keyboard_key: at most one surface of a client believes to have    *)
(* the keyboard, and it is the one focused_surface points at.              *)
THEOREM EnteredIsFocusedCorrect == Spec => []EnteredIsFocused
<1>1. IInv => EnteredIsFocused
  BY DEF IInv
<1> QED
  BY <1>1, Inductive, PTL

(* Touch routing: no touch outlives its finger for the shell's widgets,    *)
(* nor do they follow one that its recognizer was not told of.             *)
THEOREM TouchesEndCorrect == Spec => []TouchesEnd
<1>1. IInv => TouchesEnd
  BY DEF IInv
<1> QED
  BY <1>1, Inductive, PTL

(* kill_toplevel and on_kill_timer, with processes that are gone before the *)
(* request or before the timer, and pids that are reused.                  *)
THEOREM KillsHitTheAsked == Spec => []KillHitsTheAsked
<1>1. IInv => KillHitsTheAsked
  BY DEF IInv
<1> QED
  BY <1>1, Inductive, PTL
=================================================================================

---------------------------------- MODULE Seat ----------------------------------
(***************************************************************************)
(* meek-compositor, the seat (seat.c) and text_input_v3.c: the resources   *)
(* of the clients, and what the compositor keeps by bare pointers, the     *)
(* surface a wl_keyboard is focused on and the active text_input.          *)
(*                                                                         *)
(* An operator is what a function does when a handler of Input calls it.   *)
(* Addresses are those of malloc: one is free to be handed out again once  *)
(* its object is gone.                                                     *)
(***************************************************************************)
EXTENDS Naturals, FiniteSets

CONSTANTS
  MaxClients,     \* bound: clients that connect
  Surfaces,       \* addresses a wl_surface can get
  TextInputs,     \* addresses a zwp_text_input_v3 can get
  NULL, NoKeyboard,
  Slots           \* touch slots of the panel

ASSUME SeatAssumption ==
  /\ MaxClients \in Nat
  /\ NULL \notin Surfaces \cup TextInputs /\ NoKeyboard \notin Surfaces \cup {NULL}

VARIABLES
  keyboards,      \* client -> focused_surface of its wl_keyboard
  entered,        \* ghost: the surfaces each client was told its keys are for
  text_inputs,    \* address -> the client that owns it, 0 for none
  active,         \* the text_input enabled last
  shell_down      \* ghost: the slots that the shell's wl_touch says are down

keyboardVars == <<keyboards, entered>>
textVars == <<text_inputs, active>>
seatVars == <<keyboardVars, textVars, shell_down>>

Clients == 1 .. MaxClients
Live == {t \in TextInputs : text_inputs[t] # 0}

SeatInit ==
  /\ keyboards = [c \in Clients |-> NoKeyboard]
  /\ entered = [c \in Clients |-> {}]
  /\ text_inputs = [t \in TextInputs |-> 0]
  /\ active = NULL
  /\ shell_down = {}

-----------------------------------------------------------------------------
(* wl_keyboard. *)
GetKeyboard(c) ==
  /\ keyboards[c] = NoKeyboard
  /\ keyboards' = [keyboards EXCEPT ![c] = NULL]
  /\ UNCHANGED entered

KeyboardReleased(c) ==
  /\ keyboards' = [keyboards EXCEPT ![c] = NoKeyboard]
  /\ entered' = [entered EXCEPT ![c] = {}]

(* Mutant: the surface that loses the keys is sent no leave. *)
RouteKey_NoLeave(c, s) ==
  IF keyboards[c] \in {NoKeyboard, s}
  THEN UNCHANGED keyboardVars
  ELSE /\ keyboards' = [keyboards EXCEPT ![c] = s]
       /\ entered' = [entered EXCEPT ![c] = @ \cup {s}]

(* A key for surface s of client c: leave, enter and the key.               *)
RouteKey(c, s) ==
  IF keyboards[c] \in {NoKeyboard, s}
  THEN UNCHANGED keyboardVars
  ELSE /\ keyboards' = [keyboards EXCEPT ![c] = s]
       /\ entered' = [entered EXCEPT ![c] = (@ \ {keyboards[c]}) \cup {s}]

(* A client that destroys a surface expects no more keys for it; nothing    *)
(* tells the keyboard, which keeps the pointer.                             *)
SurfaceForgotten(c, s) ==
  /\ entered' = [entered EXCEPT ![c] = @ \ {s}]
  /\ UNCHANGED keyboards

-----------------------------------------------------------------------------
(* text_input_v3. *)
GetTextInput(c) ==
  /\ \E t \in TextInputs \ Live : text_inputs' = [text_inputs EXCEPT ![t] = c]
  /\ UNCHANGED active

Enable(t) == active' = t /\ UNCHANGED text_inputs

Disable(t) ==
  /\ active' = IF active = t THEN NULL ELSE active
  /\ UNCHANGED text_inputs

(* No destroy handler: the active pointer stays.                            *)
TextInputsGone(gone) ==
  /\ text_inputs' = [t \in TextInputs |-> IF t \in gone THEN 0 ELSE text_inputs[t]]
  /\ UNCHANGED active

-----------------------------------------------------------------------------
(* wl_touch goes to the client of the bound shell only, which has had its   *)
(* wl_touch and its surface since before it bound.                          *)
SendTouchDown(slot, to_shell) ==
  shell_down' = IF to_shell THEN shell_down \cup {slot} ELSE shell_down

(* Mutant: a touch that ends is not reported. *)
SendTouchUp_None(slot, to_shell) == UNCHANGED shell_down

SendTouchUp(slot, to_shell) ==
  shell_down' = IF to_shell THEN shell_down \ {slot} ELSE shell_down

SendTouchCancel(to_shell) ==
  shell_down' = IF to_shell THEN {} ELSE shell_down

-----------------------------------------------------------------------------
SeatTypeOK ==
  /\ keyboards \in [Clients -> Surfaces \cup {NULL, NoKeyboard}]
  /\ entered \in [Clients -> SUBSET Surfaces]
  /\ text_inputs \in [TextInputs -> 0 .. MaxClients]
  /\ active \in TextInputs \cup {NULL}
  /\ shell_down \in SUBSET Slots
=============================================================================

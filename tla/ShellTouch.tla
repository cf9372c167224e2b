-------------------------------- MODULE ShellTouch --------------------------------
(***************************************************************************)
(* meek-shell, touch.  Every touch reaches the shell twice: as wl_touch,   *)
(* which meek-ui turns into a press and a click on the node under the      *)
(* finger, and raw, for the edge-swipe recognizer (gesture_recognizer.c)   *)
(* and the switcher's card drag (card_drag.c).  The two events of a touch  *)
(* are adjacent in the stream and handled in one step here, wl_touch first.*)
(*                                                                         *)
(* A finger's way is abstracted to how far it is from where it started:    *)
(* nowhere, sideways past the slop, or up by less than a swipe, by a swipe *)
(* or past the dismiss threshold.                                          *)
(***************************************************************************)
EXTENDS ShellClient

CONSTANTS
  Fingers,    \* touch ids; card_drag follows 0 only
  NoFinger,
  Moves       \* bound: how far fingers move

ASSUME ShellTouchAssumption ==
  /\ Fingers \subseteq Nat /\ NoFinger \notin Nat
  /\ Moves \subseteq {"side", "up", "up_travel", "up_dismiss"}

VARIABLES
  fingers,            \* the touches that are down
  touch_active_id,    \* the finger meek-ui follows
  pressed,            \* the node it pressed
  slot0,              \* the recognizer's touch
  drag,               \* the card drag
  both                \* ghost: fingers one touch of which tapped and dismissed

touchVars == <<fingers, touch_active_id, pressed, slot0, drag, both>>

Places == {"none"} \cup Moves
Swipes == {"up_travel", "up_dismiss"}

NoNode == "nothing"
Controls == {"app", "launcher_tile", "wallpaper", "switcher_bg", "deck"}
Nodes == Cards \cup Controls \cup {NoNode}

(* The cards are nodes of their own. *)
ASSUME CardsAssumption == Cards \cap (Controls \cup {NoNode}) = {}

NoTouch == [active |-> FALSE, id |-> 0, bottom |-> FALSE, last |-> "none"]
NoDrag == [active |-> FALSE, card |-> NoCard, handle |-> 0, axis |-> "none",
           last |-> "none"]

TouchInit ==
  /\ fingers = {}
  /\ touch_active_id = NoFinger
  /\ pressed = NoNode
  /\ slot0 = NoTouch
  /\ drag = NoDrag
  /\ both = {}

(* Fingers come and go while there is no shell. *)
TouchStart ==
  /\ fingers' \in SUBSET Fingers
  /\ touch_active_id' = NoFinger
  /\ pressed' = NoNode
  /\ slot0' = NoTouch
  /\ drag' = NoDrag
  /\ both' = {}

(* What a finger can be on, in the frame that is on the screen; the cards   *)
(* keep clear of the bottom edge.                                           *)
HitTest ==
  CASE view.fullscreen -> {"app"}
    [] ~view.fullscreen /\ view.home /\ view.switcher ->
         {"switcher_bg", "deck"} \cup InDeck
    [] OTHER -> {"launcher_tile", "wallpaper"}

SwipeInProgress == slot0.active /\ slot0.bottom

-----------------------------------------------------------------------------
(* Finger f comes down on node n, at the bottom edge or not. *)
PressBy(f, n) ==
  IF touch_active_id = NoFinger
  THEN touch_active_id' = f /\ pressed' = n /\ RequestRender
  ELSE UNCHANGED <<touch_active_id, pressed, force_render>>

GestureDown(f, bottom) ==
  slot0' = IF slot0.active THEN slot0
           ELSE [active |-> TRUE, id |-> f, bottom |-> bottom, last |-> "none"]

DragDown(f, n) ==
  drag' = IF f # 0 \/ ~switcher THEN drag
          ELSE [active |-> TRUE, axis |-> "none", last |-> "none",
                card |-> IF n \in Cards THEN n ELSE NoCard,
                handle |-> IF n \in Cards THEN deck[n].handle ELSE 0]

TouchDown(f, n, bottom) ==
  /\ f \notin fingers /\ fingers' = fingers \cup {f}
  /\ n \in HitTest
  /\ bottom => n \notin Cards \cup {"deck"}
  /\ PressBy(f, n)
  /\ GestureDown(f, bottom)
  /\ DragDown(f, n)
  /\ UNCHANGED <<registry, navVars, app, switcher, launch, anim, view, linger,
                 clientVars, both>>

-----------------------------------------------------------------------------
(* It moves.  The drag that leaves the slop takes the touch over: it locks  *)
(* its axis and cancels the press.                                          *)
Drags(f) == drag.active /\ f = 0

(* Mutant: the drag that takes the touch over does not cancel the press. *)
TouchMotion_KeepsPress(f, move) ==
  /\ f \in fingers
  /\ slot0' = IF slot0.active /\ slot0.id = f THEN [slot0 EXCEPT !.last = move]
                                              ELSE slot0
  /\ LET axis == IF move = "side" THEN "horizontal" ELSE "vertical"
     IN drag' = IF Drags(f)
                THEN [drag EXCEPT !.last = move,
                        !.axis = IF @ = "none" THEN axis ELSE @]
                ELSE drag
  /\ force_render' = (force_render \/ touch_active_id = f \/ Drags(f))
  /\ UNCHANGED <<registry, navVars, app, switcher, launch, anim, view, linger,
                 clientVars, fingers, touch_active_id, pressed, both>>

TouchMotion(f, move) ==
  /\ f \in fingers
  /\ slot0' = IF slot0.active /\ slot0.id = f THEN [slot0 EXCEPT !.last = move]
                                              ELSE slot0
  /\ LET locks == Drags(f) /\ drag.axis = "none"
         axis == IF move = "side" THEN "horizontal" ELSE "vertical"
     IN /\ drag' = IF Drags(f)
                   THEN [drag EXCEPT !.last = move,
                           !.axis = IF locks THEN axis ELSE @]
                   ELSE drag
        /\ pressed' = IF locks THEN NoNode ELSE pressed
        /\ force_render' = (force_render \/ touch_active_id = f \/ Drags(f))
  /\ UNCHANGED <<registry, navVars, app, switcher, launch, anim, view, linger,
                 clientVars, fingers, touch_active_id, both>>

-----------------------------------------------------------------------------
(* It goes up.  The click is dispatched first, then the swipe, then the     *)
(* dismissal.                                                               *)

(* The release may be over the node that was pressed, if that is still on   *)
(* the screen; a launcher tile is too small to swipe on.                    *)
Recognized(f) ==
  slot0.active /\ slot0.id = f /\ slot0.bottom /\ slot0.last \in Swipes

Clicks(f) ==
  IF /\ touch_active_id = f /\ pressed \in HitTest
     /\ pressed = "launcher_tile" => ~Recognized(f)
  THEN BOOLEAN ELSE {FALSE}

NoClickEffect == UNCHANGED <<registry, navVars, app, switcher, launch, anim>>

(* on_click of the node; a launch may fail, and a tap on #fullscreen-app is *)
(* routed to its window.                                                    *)
Click(n) ==
  CASE n \in Cards -> OnTileTap(deck[n].handle)
    [] n = "launcher_tile" -> OnAppTileTap \/ NoClickEffect
    [] n = "switcher_bg" -> OnTaskSwitcherBgTap
    [] OTHER -> NoClickEffect

Dismisses(f) ==
  /\ Drags(f)
  /\ drag.axis = "vertical" /\ drag.last = "up_dismiss" /\ drag.handle # 0

(* A swipe starts at the bottom edge, where the one click whose effect it   *)
(* sees is that on the switcher's background.                               *)
Released(f, clicks) ==
  IF Recognized(f)
  THEN \E long_fast \in BOOLEAN :
         OnSwipeUpBottom(long_fast, switcher /\ ~(clicks /\ pressed = "switcher_bg"))
  ELSE IF clicks THEN Click(pressed) ELSE NoClickEffect

TouchUp(f) ==
  /\ f \in fingers /\ fingers' = fingers \ {f}
  /\ \E clicks \in Clicks(f) :
       /\ Released(f, clicks)
       /\ both' = IF clicks /\ Dismisses(f) THEN both \cup {f} ELSE both
  /\ IF touch_active_id = f
     THEN touch_active_id' = NoFinger /\ pressed' = NoNode
     ELSE UNCHANGED <<touch_active_id, pressed>>
  /\ slot0' = IF slot0.active /\ slot0.id = f THEN NoTouch ELSE slot0
  /\ drag' = IF Drags(f) THEN NoDrag ELSE drag
  /\ RequestRender
  /\ UNCHANGED <<view, linger, clientVars>>

(* All touches are cancelled: for meek-ui a release like any other; the     *)
(* recognizer and the card drag do not hear of it.                          *)
TouchCancel ==
  /\ fingers # {} /\ fingers' = {}
  /\ IF touch_active_id = NoFinger
     THEN NoClickEffect /\ UNCHANGED <<touch_active_id, pressed, force_render>>
     ELSE /\ \E clicks \in Clicks(touch_active_id) :
               IF clicks THEN Click(pressed) ELSE NoClickEffect
          /\ touch_active_id' = NoFinger /\ pressed' = NoNode
          /\ RequestRender
  /\ UNCHANGED <<slot0, drag, both, view, linger, clientVars>>

(* Mutant: the freed node stays pressed. *)
NodesFreed_KeepsPress == UNCHANGED touchVars

(* scene__on_node_freed: a node that is freed is no longer pressed; the     *)
(* drag keeps its pointer.                                                  *)
NodesFreed ==
  /\ pressed' = IF pressed \in Cards /\ deck'[pressed] = FreeNode THEN NoNode
                ELSE pressed
  /\ UNCHANGED <<fingers, touch_active_id, slot0, drag, both>>

-----------------------------------------------------------------------------
TouchTypeOK ==
  /\ fingers \in SUBSET Fingers
  /\ touch_active_id \in Fingers \cup {NoFinger}
  /\ pressed \in Nodes
  /\ slot0 \in [active : BOOLEAN, id : Fingers \cup {0}, bottom : BOOLEAN,
                last : Places]
  /\ drag \in [active : BOOLEAN, card : Cards \cup {NoCard},
               handle : 0 .. MaxHandle,
               axis : {"none", "horizontal", "vertical"}, last : Places]
  /\ both \in SUBSET Fingers
=============================================================================

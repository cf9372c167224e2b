--------------------------------- MODULE Scene ---------------------------------
(***************************************************************************)
(* The widget tree of meek-ui and its input state: scene.c, scene_input.c  *)
(* and the widgets that keep state of their own or free nodes              *)
(* (widget_input, widget_select, widget_popup, widget_keyboard,            *)
(* widget_canvas).  The tree is the root window and its children, in       *)
(* order; how they look, scroll and are laid out is left out, but that a   *)
(* node has no extent before its first layout is not.                      *)
(*                                                                         *)
(* A node is named by the allocation it lives in.  Every pointer that the  *)
(* code keeps outside the tree is a field of ui.  What may free a node     *)
(* through a stale pointer has several outcomes, so the operators on ui    *)
(* that can do so return the set of its possible values.                   *)
(***************************************************************************)
EXTENDS Integers, Sequences, FiniteSets, SequencesExt

CONSTANTS
  NoNode,    \* NULL
  Dangling,  \* a pointer to freed memory
  NoId,      \* a widget without an id
  NoBlob,    \* a canvas that has no user_data
  Hash,      \* scene__hash_name of every id
  MapCap,    \* how many ids the map of a reconciliation holds: 256
  MaxNodes   \* bound on the nodes of a tree that the host adds one to

ASSUME SceneAssumption ==
  /\ NoNode \notin Nat /\ Dangling \notin Nat /\ NoNode # Dangling
  /\ NoBlob \notin Nat
  /\ MapCap \in Nat /\ MaxNodes \in Nat

VARIABLE ui  \* the scene, its input state and its keyboard

WidgetTypes ==
  {"window", "input", "select", "popup", "keyboard", "canvas", "button", "other"}
IsText(n)        == n.type = "input"
ConsumesClick(n) == n.type \in {"select", "popup", "keyboard", "canvas"}

Names(tree)   == {n.name : n \in Range(tree)}
Blobs(nodes)  == {n.data : n \in nodes} \ {NoBlob}
Live(u)       == Names(u.tree)
Index(u, x)   == CHOOSE i \in DOMAIN u.tree : u.tree[i].name = x
Node(u, x)    == u.tree[Index(u, x)]
Root(u)       == u.tree[1].name
IsA(u, x, type) == x \in Live(u) /\ Node(u, x).type = type
OpenPopups(u) == {i \in DOMAIN u.tree : u.tree[i].type = "popup" /\ u.tree[i].open}
Greatest(S)   == CHOOSE i \in S : \A j \in S : j <= i
Least(S)      == CHOOSE i \in S : \A j \in S : i <= j

(* The allocator hands out what is free, the lowest first.                 *)
Fresh(used, k) ==
  [i \in 1..k |-> CHOOSE x \in 1..(k + Cardinality(used)) :
                    x \notin used /\ Cardinality((1..x) \ used) = i]

(* A node that is late was allocated while the keyboard was dangling.       *)
NewNode(w, x, blob, late) ==
  [name |-> x, type |-> w.type, id |-> w.id, open |-> w.open, laid |-> FALSE,
   late |-> late,
   closing |-> FALSE, once |-> FALSE, held |-> FALSE, text |-> "initial",
   data |-> IF w.type = "canvas" THEN blob ELSE NoBlob]

Widget(type) == [type |-> type, id |-> NoId, open |-> FALSE]

(* scene__add_child to the root.                                           *)
AddChild(u, n) == [u EXCEPT !.tree = Append(@, n)]
NewChild(u, type) == NewNode(Widget(type), Fresh(Live(u), 1)[1], NoBlob,
                             u.keyboard = Dangling)

EachNode(u, Op(_)) == [u EXCEPT !.tree = [i \in DOMAIN @ |-> Op(@[i])]]

Changed(u, n) ==
  EachNode(u, LAMBDA m : IF m.name = n.name THEN n ELSE m)
NoneLate(u) == EachNode(u, LAMBDA m : [m EXCEPT !.late = FALSE])

(* Mutant: the pressed node keeps its slot when it is freed.                *)
Freed_Pressed(u, nodes) ==
  LET gone == {n.name : n \in nodes}
      v == IF u.keyboard \in gone THEN NoneLate([u EXCEPT !.asked = FALSE]) ELSE u
      Unless(x) == IF x \in gone THEN NoNode ELSE x
  IN  [v EXCEPT !.focus = Unless(@), !.hover = Unless(@),
                !.overlay = Unless(@), !.bared = @ \/ u.overlay \in gone,
                !.short = @ /\ u.overlay \notin gone,
                !.blobs = @ \ Blobs(nodes),
                !.keyboard = IF @ \in gone THEN Dangling ELSE @]

(* scene__node_free of nodes that are no longer in the tree: each slot that *)
(* names one is cleared, except the keyboard's own.                         *)
Freed(u, nodes) ==
  LET gone == {n.name : n \in nodes}
      v == IF u.keyboard \in gone THEN NoneLate([u EXCEPT !.asked = FALSE]) ELSE u
      Unless(x) == IF x \in gone THEN NoNode ELSE x
  IN  [v EXCEPT !.focus = Unless(@), !.pressed = Unless(@), !.hover = Unless(@),
                !.overlay = Unless(@), !.bared = @ \/ u.overlay \in gone,
                !.short = @ /\ u.overlay \notin gone,
                !.blobs = @ \ Blobs(nodes),
                !.keyboard = IF @ \in gone THEN Dangling ELSE @]

Removed(u, x) ==
  Freed([u EXCEPT !.tree = RemoveAt(@, Index(u, x))], {Node(u, x)})

(* The root is freed with all its children: there is no scene any more.     *)
Uprooted(u) ==
  [u EXCEPT !.tree = <<>>, !.focus = NoNode, !.pressed = NoNode, !.hover = NoNode,
            !.overlay = NoNode, !.short = FALSE, !.keyboard = NoNode, !.blobs = {}]

-----------------------------------------------------------------------------
(* The virtual keyboard.                                                    *)

ShowKeyboard(u) ==
  IF u.keyboard # NoNode \/ u.tree = <<>> THEN u
  ELSE LET kb == NewChild(u, "keyboard")
       IN  [AddChild(u, kb) EXCEPT !.keyboard = kb.name]

(* The host's own scene__show_keyboard, as the shell's for an app that asks *)
(* for an input method.                                                     *)
AskKeyboard(u) ==
  LET v == ShowKeyboard(u) IN [v EXCEPT !.asked = u.asked \/ v # u]

(* A keyboard that was freed with its tree is detached and freed again: the *)
(* program crashes, or it goes unnoticed, or whichever node was given the   *)
(* memory since is freed.                                                   *)
HideKeyboard(u) ==
  LET v    == NoneLate([u EXCEPT !.keyboard = NoNode, !.asked = FALSE])
      late == {n.name : n \in {m \in Range(u.tree) : m.late}}
  IN  CASE u.keyboard = NoNode    -> {u}
        [] u.keyboard \in Live(u) -> {Removed(v, u.keyboard)}
        [] u.keyboard = Dangling  ->
             {v, [v EXCEPT !.crashed = TRUE]}
               \cup {IF x = Root(u) THEN Uprooted(v) ELSE Removed(v, x) : x \in late}

(* Mutant: the keyboard is hidden only when nothing gets the focus.         *)
SetFocus_Hide(u, x) ==
  LET wasText == IsA(u, u.focus, "input")
      isText  == IsA(u, x, "input")
      v       == [u EXCEPT !.focus = x]
  IN  IF u.focus = x \/ ~u.enabled \/ wasText = isText THEN {v}
      ELSE IF isText THEN {ShowKeyboard(v)}
      ELSE {v}

SetFocus(u, x) ==
  LET wasText == IsA(u, u.focus, "input")
      isText  == IsA(u, x, "input")
      v       == [u EXCEPT !.focus = x]
  IN  IF u.focus = x \/ ~u.enabled \/ wasText = isText THEN {v}
      ELSE IF isText THEN {ShowKeyboard(v)}
      ELSE HideKeyboard(v)

(* on_toggle_vkb, a handler of the hosts.                                   *)
ToggleKeyboard(u) ==
  IF u.enabled THEN HideKeyboard([u EXCEPT !.enabled = FALSE])
  ELSE {[u EXCEPT !.enabled = TRUE]}

-----------------------------------------------------------------------------
(* Characters and keys, from the keyboard of either kind, go to the focus.  *)
(* Those that a host takes for itself (scene__set_char_redirect) are left   *)
(* out.                                                                     *)

Type(u, key) ==
  IF ~IsA(u, u.focus, "input") THEN {u}
  ELSE LET n == Node(u, u.focus)
       IN  IF key = "char" THEN {Changed(u, [n EXCEPT !.text = "edited"])}
           ELSE IF n.text = "empty" THEN {u}
           ELSE {Changed(u, [n EXCEPT !.text = t]) : t \in {"edited", "empty"}}

-----------------------------------------------------------------------------
(* Popups, and the host.                                                    *)

(* scene__popup_confirm.                                                    *)
PopupConfirm(u) ==
  LET n == [NewChild(u, "popup") EXCEPT !.open = TRUE, !.once = TRUE]
  IN  IF u.tree = <<>> THEN u
      ELSE [AddChild(u, n) EXCEPT !.overlay = n.name, !.bared = FALSE, !.short = FALSE]

(* What a handler of the host may do to the scene.                          *)
Handled(u) ==
  {u} \cup HideKeyboard(u) \cup ToggleKeyboard(u)
    \cup (IF Len(u.tree) < MaxNodes THEN {PopupConfirm(u), AskKeyboard(u)} ELSE {})

(* The popup gives the overlay back before its handler runs, and what the   *)
(* handler did is done when it frees itself.                                *)
FinalizeClose(u, x) ==
  LET n == Node(u, x)
      v == [Changed(u, [n EXCEPT !.open = FALSE])
              EXCEPT !.overlay = NoNode, !.bared = TRUE, !.short = FALSE]
      Dismissed(w) == IF w.crashed \/ x \notin Live(w) THEN [w EXCEPT !.crashed = TRUE]
                      ELSE IF n.once THEN Removed(w, x) ELSE w
  IN  IF n.open THEN {Dismissed(w) : w \in Handled(v)} ELSE {u}

(* Mutant: layout leaves the overlay to whoever opened the popup.           *)
LaidOut_NoOverlay(u) ==
  {[EachNode(u, LAMBDA m : [m EXCEPT !.laid = TRUE]) EXCEPT !.bared = FALSE]}

(* scene__layout.  Every node gets its extent, and each open popup takes    *)
(* the overlay from the one before it, with the bounds of the window as it  *)
(* is now.  The one popup that has the overlay already keeps the bounds     *)
(* that it has: after a resize they may fall short of the window.           *)
LaidOut(u) ==
  LET v    == [EachNode(u, LAMBDA m : [m EXCEPT !.laid = TRUE]) EXCEPT !.bared = FALSE]
      open == {v.tree[i].name : i \in OpenPopups(v)}
  IN  IF open = {} THEN {v}
      ELSE IF open = {u.overlay} THEN {[v EXCEPT !.short = b] : b \in BOOLEAN}
      ELSE {[v EXCEPT !.overlay = v.tree[Greatest(OpenPopups(v))].name, !.short = FALSE]}

(* scene__emit_draws.  A held backspace of the keyboard may repeat, and the *)
(* popup on top may have come to the end of its closing animation.          *)
Repeated(u) ==
  IF \E n \in Range(u.tree) : n.held THEN {u} \cup Type(u, "backspace") ELSE {u}

Drawn(u) ==
  IF IsA(u, u.overlay, "popup") /\ Node(u, u.overlay).closing
    THEN {u} \cup FinalizeClose(u, u.overlay) ELSE {u}

FrameOf(u) == UNION {UNION {Drawn(w) : w \in Repeated(v)} : v \in LaidOut(u)}

-----------------------------------------------------------------------------
(* The pointer.  A place is a widget under the pointer, the part of it, or  *)
(* of the overlay that reaches beyond it, that the pointer is at, and       *)
(* whether that is beyond the bounds of a popup that falls short of the     *)
(* window.                                                                  *)

Nowhere == [node |-> NoNode, part |-> "body", beyond |-> FALSE]

Places(u) ==
  LET laid == {n \in Range(u.tree) : n.laid}
      on(nodes, parts, far) ==
        [node : {n.name : n \in nodes}, part : parts, beyond : far]
      anywhere == {FALSE, u.short /\ IsA(u, u.overlay, "popup")}
  IN  {Nowhere}
      \cup on({n \in laid : n.type # "popup"}, {"body"}, anywhere)
      \cup on({n \in laid : n.type = "keyboard"}, {"char", "backspace"}, anywhere)
      \cup on({n \in laid : n.name = u.overlay}, {"choice"}, {FALSE})

HitTest(u, p) ==
  IF p # Nowhere /\ IsA(u, u.overlay, "popup") /\ ~p.beyond THEN u.overlay ELSE p.node

PopupDown(u, n, p) ==
  IF n.open /\ ~n.closing /\ p.part = "choice"
    THEN Changed(u, [n EXCEPT !.closing = TRUE]) ELSE u

KeyboardDown(u, n, p) ==
  IF p.part = "body" THEN {u}
  ELSE Type(Changed(u, [n EXCEPT !.held = p.part = "backspace"]), p.part)

(* The second half of a press, on the node it hit before the focus moved.   *)
WidgetDown(u, x, p) ==
  CASE u.crashed \/ x \notin Live(u) -> {[u EXCEPT !.crashed = TRUE]}
    [] IsA(u, x, "popup")            -> {PopupDown(u, Node(u, x), p)}
    [] IsA(u, x, "keyboard")         -> KeyboardDown(u, Node(u, x), p)
    [] OTHER                         -> {u}

MouseDown(u, p) ==
  LET x == HitTest(u, p)
      v == [u EXCEPT !.pressed = x]
  IN  IF x = NoNode THEN SetFocus(u, NoNode)
      ELSE UNION {WidgetDown(w, x, p) :
             w \in IF IsA(u, x, "keyboard") THEN {v}
                   ELSE SetFocus(v, IF IsA(u, x, "input") THEN x ELSE NoNode)}

(* A select toggles when the pointer comes up on it and closes when it      *)
(* comes up elsewhere, on one of its options or not.  It takes the overlay  *)
(* from another select, which it closes, and from a popup that opened while *)
(* it was pressed.                                                          *)
SelectUp(u, n, p) ==
  LET opens   == p.node = n.name /\ p.part = "body" /\ ~n.open
      yielded == IF IsA(u, u.overlay, "select")
                   THEN Changed(u, [Node(u, u.overlay) EXCEPT !.open = FALSE]) ELSE u
  IN  IF opens THEN [Changed(yielded, [n EXCEPT !.open = TRUE])
                       EXCEPT !.overlay = n.name,
                              !.bared = @ \/ IsA(u, u.overlay, "popup"), !.short = FALSE]
      ELSE [Changed(u, [n EXCEPT !.open = FALSE])
              EXCEPT !.overlay = IF @ = n.name THEN NoNode ELSE @]

WidgetUp(u, n, p) ==
  CASE n.type = "select"   -> SelectUp(u, n, p)
    [] n.type = "keyboard" -> Changed(u, [n EXCEPT !.held = FALSE])
    [] OTHER               -> u

Clicked(u, n) == IF n.type = "button" THEN Handled(u) ELSE {u}

MouseUp(u, p) ==
  LET x == u.pressed
      n == Node(u, x)
      v == WidgetUp(u, n, p)
      Released(w) == [w EXCEPT !.pressed = NoNode, !.crashed = @ \/ x \notin Live(w)]
  IN  IF x = NoNode THEN {u}
      ELSE {Released(w) : w \in IF ~ConsumesClick(n) /\ HitTest(u, p) = x
                                  THEN Clicked(v, n) ELSE {v}}

(* A drag that starts on the keyboard may be the swipe that dismisses it.   *)
MouseMove(u, p) ==
  CASE IsA(u, u.pressed, "keyboard") -> {u} \cup HideKeyboard(u)
    [] IsA(u, u.pressed, "canvas") \/ IsA(u, u.pressed, "popup") -> {u}
    [] OTHER -> {[u EXCEPT !.hover = HitTest(u, p)]}

-----------------------------------------------------------------------------
(* Hot reload: a tree from the file takes over the state of the old one.    *)

(* The tree a file describes, next to one that uses names and blobs.        *)
Parsed(widgets, names, blobs, late) ==
  LET nodes == <<Widget("window")>> \o widgets
      name  == Fresh(names, Len(nodes))
      blob  == Fresh(blobs, Len(nodes))
  IN  [i \in DOMAIN nodes |-> NewNode(nodes[i], name[i], blob[i], late)]

(* The nodes of the old tree that the map of ids has room for.              *)
Mapped(old) ==
  {j \in DOMAIN old : /\ old[j].id # NoId
                     /\ Cardinality({k \in 1..j : old[k].id # NoId}) <= MapCap}

(* The old node, if any, that node i of the new tree takes its state from:  *)
(* the roots go together, an id finds the first node in the map that hashes *)
(* alike, and a node without one looks at its own place as long as the      *)
(* types agree.                                                             *)
Donor(old, new, i) ==
  LET alike == {j \in Mapped(old) : Hash[old[j].id] = Hash[new[i].id]}
      place == {j \in {i} : j <= Len(old) /\ \A k \in 1..j : old[k].type = new[k].type}
  IN  IF i > 1 /\ new[i].id # NoId
        THEN {j \in alike : j = Least(alike) /\ old[j].type = new[i].type}
        ELSE place

(* Ids go first, then places.  A canvas that a node has taken from its old  *)
(* owner is gone for the next one.                                          *)
Earlier(new, k, i) ==
  LET byId(j) == j > 1 /\ new[j].id # NoId
  IN  IF byId(k) = byId(i) THEN k < i ELSE byId(k)

Heir(old, new, j) ==
  {i \in DOMAIN new : /\ j \in Donor(old, new, i)
                      /\ \A k \in DOMAIN new :
                           j \in Donor(old, new, k) => ~Earlier(new, k, i)}

(* Mutant: the text of the file wins over what was typed.                   *)
Transferred_Text(old, new, i) ==
  IF Donor(old, new, i) = {} THEN new[i]
  ELSE LET j == Greatest(Donor(old, new, i))
       IN  [new[i] EXCEPT
              !.open = old[j].open,
              !.data = IF i \in Heir(old, new, j) THEN old[j].data ELSE NoBlob]

Transferred(old, new, i) ==
  IF Donor(old, new, i) = {} THEN new[i]
  ELSE LET j == Greatest(Donor(old, new, i))
       IN  [new[i] EXCEPT
              !.open = old[j].open,
              !.text = IF IsText(new[i]) /\ old[j].text # "empty" THEN old[j].text ELSE @,
              !.data = IF i \in Heir(old, new, j) THEN old[j].data ELSE NoBlob]

(* Mutant: the old node keeps the canvas that the new one has taken.        *)
GivenUp_Kept(old, new, j) == old[j]

GivenUp(old, new, j) ==
  IF Heir(old, new, j) = {} THEN old[j] ELSE [old[j] EXCEPT !.data = NoBlob]

(* scene__reconcile_tree, scene__set_root and scene__node_free of the old   *)
(* tree: nodes of the new one drop the canvas they were parsed with for the *)
(* one that they take over.                                                 *)
Reconciled(u, new) ==
  LET old   == u.tree
      tree  == [i \in DOMAIN new |-> Transferred(old, new, i)]
      freed == {GivenUp(old, new, j) : j \in DOMAIN old}
      drop  == Blobs(Range(new)) \ Blobs(Range(tree))
  IN  Freed([u EXCEPT !.tree = tree, !.blobs = (@ \cup Blobs(Range(new))) \ drop], freed)

(* _hot_reload_internal__reload_ui, once the file is parsed.  If the old    *)
(* tree is gone the watch frees it again: the program crashes, or it goes   *)
(* unnoticed, or the new tree, given the memory, is freed in its place.     *)
Reload(u, new) ==
  LET v     == Reconciled(u, new)
      id    == IF u.focus = NoNode THEN NoId ELSE Node(u, u.focus).id
      found == {i \in DOMAIN new : new[i].id = id}
  IN  IF u.tree = <<>> THEN {v, [v EXCEPT !.crashed = TRUE], u}
      ELSE IF id = NoId \/ found = {} THEN {v}
      ELSE SetFocus(v, new[Least(found)].name)

-----------------------------------------------------------------------------
Blank ==
  [tree |-> <<>>, focus |-> NoNode, pressed |-> NoNode, hover |-> NoNode,
   overlay |-> NoNode,
   short |-> FALSE,    \* the bounds of the overlay do not cover the window
   bared |-> FALSE,    \* history: the overlay was given up since the last layout
   keyboard |-> NoNode,
   asked |-> FALSE,    \* history: the host itself asked for the keyboard
   enabled |-> FALSE, blobs |-> {}, crashed |-> FALSE]
=============================================================================

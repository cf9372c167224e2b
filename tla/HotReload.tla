------------------------------- MODULE HotReload -------------------------------
(***************************************************************************)
(* The main loop of a meek-ui program (platform__tick, then                *)
(* hot_reload__tick) over a Scene, with a .style and a .ui file that       *)
(* somebody edits meanwhile.                                               *)
(*                                                                         *)
(* A poll reads a file to hash it; a reload reads it again to parse it,    *)
(* and once more to hash what it has loaded.  The file may be saved        *)
(* between any two reads, and cannot be read while it is being saved.      *)
(* Hashes do not collide: the hash of a content is the content.            *)
(***************************************************************************)
EXTENDS Scene

CONSTANTS
  UiContents,  \* the contents of the .ui file that parse
  Widgets,     \* what each of them describes
  Styles,      \* the contents of the .style file that parse
  Broken,      \* a content that does not parse
  Nothing,     \* no content: not loaded, no hash
  Redraws,     \* the host asks for a frame when a tick reports a reload
  MaxSaves,    \* bound on the number of saves
  Gestures     \* the kinds of event of an instance

Ids == {NoId} \cup UNION {{w.id : w \in Range(Widgets[c])} : c \in UiContents}

ASSUME HotReloadAssumption ==
  /\ Widgets \in [UiContents -> Seq([type : WidgetTypes, id : Ids, open : BOOLEAN])]
  /\ \A id \in Ids \ {NoId} : Hash[id] \in Nat
  /\ Broken \notin UiContents \cup Styles /\ Nothing \notin UiContents \cup Styles
  /\ Redraws \in BOOLEAN /\ MaxSaves \in Nat

VARIABLES
  file,          \* what each file contains
  saving,        \* the files that cannot be read now
  saves,         \* how many saves there were
  last_hash,     \* of each watch: what the code takes for loaded
  loaded,        \* history: what each file contained when it was loaded
  torn,          \* history: the files saved during their last reload
  pc,            \* where the program is
  reloads,       \* reloads_pending is not zero
  force_render,  \* a frame was asked for
  stale          \* history: the files loaded since the screen was drawn

fileVars == <<file, saving, saves>>
loopVars == <<pc, reloads, force_render>>
vars     == <<ui, file, saving, saves, last_hash, loaded, torn, pc, reloads,
              force_render, stale>>

Kinds       == {"style", "ui"}
Contents(k) == IF k = "ui" THEN UiContents ELSE Styles

At(step, k) == pc = <<step, k>>

(* After the watch of one file comes that of the other.                     *)
AfterWatch(k) == IF k = "style" THEN <<"watch", "ui">> ELSE <<"tick", "loop">>
AfterPoll(k)  == IF k = "style" THEN <<"poll", "ui">> ELSE <<"report", "loop">>

Init ==
  /\ ui = Blank
  /\ file \in [Kinds -> UiContents \cup Styles]
  /\ \A k \in Kinds : file[k] \in Contents(k)
  /\ saving = {}
  /\ saves = 0
  /\ last_hash = [k \in Kinds |-> Nothing]
  /\ loaded = [k \in Kinds |-> Nothing]
  /\ torn = {}
  /\ pc = <<"watch", "style">>
  /\ reloads = FALSE
  /\ force_render = TRUE
  /\ stale = {}

-----------------------------------------------------------------------------
(* The person who edits.                                                    *)

TornBy(k) == IF pc \in {<<"load", k>>, <<"reload", k>>, <<"rehash", k>>}
               THEN torn \cup {k} ELSE torn

BeginSave(k) ==
  /\ saves < MaxSaves
  /\ k \notin saving
  /\ saving' = saving \cup {k}
  /\ saves' = saves + 1
  /\ torn' = TornBy(k)
  /\ UNCHANGED <<ui, file, last_hash, loaded, loopVars, stale>>

EndSave(k, c) ==
  /\ k \in saving
  /\ saving' = saving \ {k}
  /\ file' = [file EXCEPT ![k] = c]
  /\ torn' = TornBy(k)
  /\ UNCHANGED <<ui, saves, last_hash, loaded, loopVars, stale>>

-----------------------------------------------------------------------------
(* Start-up: hot_reload__watch_style, then hot_reload__watch_ui.  A style   *)
(* that does not parse is watched all the same.                             *)

Watch(k) ==
  /\ At("watch", k)
  /\ IF k \in saving
       THEN pc' = <<"down", "loop">> /\ UNCHANGED last_hash
       ELSE pc' = <<"load", k>> /\ last_hash' = [last_hash EXCEPT ![k] = file[k]]
  /\ torn' = torn \ {k}
  /\ UNCHANGED <<ui, fileVars, loaded, reloads, force_render, stale>>

Parses(k) == k \notin saving /\ file[k] # Broken

LoadStyle ==
  /\ At("load", "style")
  /\ loaded' = [loaded EXCEPT !["style"] = IF Parses("style") THEN file["style"] ELSE Nothing]
  /\ stale' = stale \cup {"style"}
  /\ pc' = AfterWatch("style")
  /\ UNCHANGED <<ui, fileVars, last_hash, torn, reloads, force_render>>

LoadUi ==
  /\ At("load", "ui")
  /\ IF Parses("ui")
       THEN LET tree == Parsed(Widgets[file["ui"]], {}, {}, FALSE)
            IN  /\ ui' = [ui EXCEPT !.tree = tree, !.blobs = Blobs(Range(tree))]
                /\ loaded' = [loaded EXCEPT !["ui"] = file["ui"]]
                /\ pc' = AfterWatch("ui")
       ELSE pc' = <<"down", "loop">> /\ UNCHANGED <<ui, loaded>>
  /\ stale' = stale \cup {"ui"}
  /\ UNCHANGED <<fileVars, last_hash, torn, reloads, force_render>>

-----------------------------------------------------------------------------
(* platform__tick: events, each of which asks for a frame, and the frame,   *)
(* which a tick leaves out when nothing asks for it and nothing has moved   *)
(* for a while.  The host reacts to events of its own, such as a request of *)
(* the compositor.                                                          *)

Event(kind, outcomes) ==
  /\ At("tick", "loop")
  /\ kind \in Gestures
  /\ ui' \in outcomes
  /\ force_render' = TRUE
  /\ pc' = IF ui'.crashed THEN <<"down", "loop">> ELSE pc
  /\ UNCHANGED <<fileVars, last_hash, loaded, torn, reloads, stale>>

Press   == \E p \in Places(ui) : Event("button", MouseDown(ui, p))
Release == \E p \in Places(ui) : Event("button", MouseUp(ui, p))
Move    == \E p \in Places(ui) : Event("move", MouseMove(ui, p))
Host    == Event("host", Handled(ui))
Key     == \E key \in {"char", "backspace"} : Event("key", Type(ui, key))

Frame ==
  /\ At("tick", "loop")
  /\ ui' \in FrameOf(ui)
  /\ force_render' = FALSE
  /\ stale' = {}
  /\ pc' = IF ui'.crashed THEN <<"down", "loop">> ELSE <<"hot", "loop">>
  /\ UNCHANGED <<fileVars, last_hash, loaded, torn, reloads>>

Skip ==
  /\ At("tick", "loop")
  /\ ~force_render
  /\ pc' = <<"hot", "loop">>
  /\ UNCHANGED <<ui, fileVars, last_hash, loaded, torn, reloads, force_render, stale>>

-----------------------------------------------------------------------------
(* hot_reload__tick: at most one sweep a second.                            *)

Throttled ==
  /\ At("hot", "loop")
  /\ pc' = <<"tick", "loop">>
  /\ UNCHANGED <<ui, fileVars, last_hash, loaded, torn, reloads, force_render, stale>>

Sweep ==
  /\ At("hot", "loop")
  /\ pc' = <<"poll", "style">>
  /\ UNCHANGED <<ui, fileVars, last_hash, loaded, torn, reloads, force_render, stale>>

Poll(k) ==
  /\ At("poll", k)
  /\ IF k \notin saving /\ file[k] # last_hash[k]
       THEN pc' = <<"reload", k>> /\ torn' = torn \ {k}
       ELSE pc' = AfterPoll(k) /\ UNCHANGED torn
  /\ UNCHANGED <<ui, fileVars, last_hash, loaded, reloads, force_render, stale>>

(* A style that does not parse leaves the table cleared, or with a part of  *)
(* its rules; a tree that does not parse leaves the old one.                *)
ReloadStyle ==
  /\ At("reload", "style")
  /\ loaded' = [loaded EXCEPT !["style"] = IF Parses("style") THEN file["style"] ELSE Nothing]
  /\ stale' = stale \cup {"style"}
  /\ pc' = IF Parses("style") THEN <<"rehash", "style">> ELSE AfterPoll("style")
  /\ UNCHANGED <<ui, fileVars, last_hash, torn, reloads, force_render>>

ReloadUi ==
  /\ At("reload", "ui")
  /\ IF Parses("ui")
       THEN /\ ui' \in Reload(ui, Parsed(Widgets[file["ui"]], Live(ui), ui.blobs,
                                      ui.keyboard = Dangling))
            /\ loaded' = [loaded EXCEPT !["ui"] = file["ui"]]
            /\ stale' = stale \cup {"ui"}
            /\ pc' = IF ui'.crashed THEN <<"down", "loop">> ELSE <<"rehash", "ui">>
       ELSE pc' = AfterPoll("ui") /\ UNCHANGED <<ui, loaded, stale>>
  /\ UNCHANGED <<fileVars, last_hash, torn, reloads, force_render>>

Rehash(k) ==
  /\ At("rehash", k)
  /\ last_hash' = IF k \in saving THEN last_hash ELSE [last_hash EXCEPT ![k] = file[k]]
  /\ reloads' = TRUE
  /\ pc' = AfterPoll(k)
  /\ UNCHANGED <<ui, fileVars, loaded, torn, force_render, stale>>

(* Mutant: the count is reset before the host has seen it.                  *)
Report_Reset ==
  /\ At("report", "loop")
  /\ UNCHANGED force_render
  /\ reloads' = FALSE
  /\ pc' = <<"tick", "loop">>
  /\ UNCHANGED <<ui, fileVars, last_hash, loaded, torn, stale>>

(* The sweep's count goes to the host.                                      *)
Report ==
  /\ At("report", "loop")
  /\ force_render' = (force_render \/ (Redraws /\ reloads))
  /\ reloads' = FALSE
  /\ pc' = <<"tick", "loop">>
  /\ UNCHANGED <<ui, fileVars, last_hash, loaded, torn, stale>>

(* Somebody starts the program again after it has ended.                    *)
Restart ==
  /\ At("down", "loop")
  /\ ui' = Blank
  /\ last_hash' = [k \in Kinds |-> Nothing]
  /\ loaded' = [k \in Kinds |-> Nothing]
  /\ torn' = {}
  /\ pc' = <<"watch", "style">>
  /\ reloads' = FALSE
  /\ force_render' = TRUE
  /\ stale' = {}
  /\ UNCHANGED fileVars

-----------------------------------------------------------------------------
Edit == \E k \in Kinds : BeginSave(k) \/ \E c \in Contents(k) \cup {Broken} : EndSave(k, c)
Input == Press \/ Release \/ Move \/ Key \/ Host
Startup == (\E k \in Kinds : Watch(k)) \/ LoadStyle \/ LoadUi
Reloading ==
  \/ \E k \in Kinds : Poll(k) \/ Rehash(k)
  \/ ReloadStyle \/ ReloadUi \/ Report
Next == Edit \/ Input \/ Startup \/ Frame \/ Skip \/ Throttled \/ Sweep \/ Reloading \/ Restart

Spec == Init /\ [][Next]_vars

(* The program does not stay at one place for ever, and every so often a    *)
(* second has passed.                                                       *)
Steps == ({"watch", "load", "poll", "reload", "rehash"} \X Kinds)
              \cup ({"tick", "hot", "report", "down"} \X {"loop"})
Proceeds == ~At("down", "loop") /\ pc' \in Steps \ {pc}

Fairness == WF_pc(Proceeds) /\ SF_vars(Sweep)

LiveSpec == Spec /\ Fairness

-----------------------------------------------------------------------------
(* The type invariant.                                                      *)
Nodes ==
  [name : Nat, type : WidgetTypes, id : Ids, open : BOOLEAN, laid : BOOLEAN,
   late : BOOLEAN, closing : BOOLEAN, once : BOOLEAN, held : BOOLEAN,
   text : {"initial", "edited", "empty"}, data : Nat \cup {NoBlob}]
Pointers == Nat \cup {NoNode}
Scenes ==
  [tree : Seq(Nodes), focus : Pointers, pressed : Pointers, hover : Pointers,
   overlay : Pointers, short : BOOLEAN, bared : BOOLEAN,
   keyboard : Pointers \cup {Dangling}, asked : BOOLEAN, enabled : BOOLEAN,
   blobs : SUBSET Nat, crashed : BOOLEAN]

SceneTypeOK ==
  /\ ui \in Scenes
  /\ \A i, j \in DOMAIN ui.tree : ui.tree[i].name = ui.tree[j].name => i = j
  /\ file \in [Kinds -> UiContents \cup Styles \cup {Broken}]
  /\ last_hash \in [Kinds -> UiContents \cup Styles \cup {Broken, Nothing}]
  /\ loaded \in [Kinds -> UiContents \cup Styles \cup {Nothing}]
  /\ \A k \in Kinds :
       /\ file[k] \in Contents(k) \cup {Broken}
       /\ loaded[k] \in Contents(k) \cup {Nothing}
  /\ saving \subseteq Kinds /\ torn \subseteq Kinds /\ stale \subseteq Kinds
  /\ saves \in 0 .. MaxSaves
  /\ pc \in Steps
  /\ force_render \in BOOLEAN /\ reloads \in BOOLEAN

(* scene__node_free: whatever frees nodes - a reload, a popup that is done, *)
(* a keyboard swiped away - the focused, pressed and hovered nodes and the  *)
(* owner of the overlay are in the tree afterwards.                         *)
PointersAreLive ==
  {ui.focus, ui.pressed, ui.hover, ui.overlay} \subseteq Live(ui) \cup {NoNode}

(* widget_popup.c, "modal semantics": however many popups the host and the  *)
(* files open, in whatever order they close, while one is open and on       *)
(* screen every press within the overlay's bounds goes to a popup.  Two     *)
(* exceptions are the code's: from the moment a popup is dismissed, or a    *)
(* select that was pressed before takes the overlay, to the next layout,    *)
(* and the part of the window that a resize has added.                      *)
ModalPopup ==
  (\E i \in OpenPopups(ui) : ui.tree[i].laid) /\ ~ui.bared =>
    \A p \in Places(ui) \ {Nowhere} : ~p.beyond => IsA(ui, HitTest(ui, p), "popup")

(* scene__reconcile_tree: the pixels of a canvas have one owner, in the     *)
(* tree on screen, and what has no owner is freed; a reload that moves them *)
(* between trees neither leaks nor shares them.                             *)
BlobsOwnedOnce ==
  /\ Blobs(Range(ui.tree)) = ui.blobs
  /\ \A m, n \in Range(ui.tree) : m.data = n.data /\ m.data # NoBlob => m = n

(* scene__set_focus and its callers: a keyboard that the host has not asked *)
(* for itself is in the tree for a text widget that has the focus, and not  *)
(* once it has been switched off.  One that the host asked for goes when    *)
(* the host or the next text widget to lose the focus hides it.             *)
KeyboardServesFocus ==
  \A n \in Range(ui.tree) :
    n.type = "keyboard" => ui.asked \/ (ui.enabled /\ IsA(ui, ui.focus, "input"))

(* hot_reload.c, reload_ui: "typing into an <input> survives a hot reload". *)
(* Whichever way the file moved an input that has an id of its own, a       *)
(* reload keeps what was typed in it, and the focus if it had that, unless  *)
(* more ids come before it than the map has room for or another id hashes   *)
(* alike.                                                                   *)
Editing(u, n) == IsText(n) /\ n.id # NoId /\ \A m \in Range(u.tree) : m.id = n.id => m = n
Found(u, n) ==
  /\ Index(u, n.name) \in Mapped(u.tree)
  /\ \A m \in Range(u.tree) : m.id # NoId /\ Hash[m.id] = Hash[n.id] => m = n
EditingSurvives ==
  [][ReloadUi /\ Parses("ui") /\ ~ui'.crashed =>
       \A n \in Range(ui.tree), m \in Range(ui'.tree) :
         Editing(ui, n) /\ Found(ui, n) /\ Editing(ui', m) /\ m.id = n.id
           => /\ n.text = "edited" => m.text = "edited"
              /\ ui.focus = n.name => ui'.focus = m.name]_vars

(* An edit that stays in the file is loaded and stays on screen, unless the *)
(* file was saved again while it was being reloaded, a broken style had     *)
(* been loaded before, or a stale keyboard has taken the tree with it.      *)
Shown(k) == loaded[k] = file[k] /\ k \notin stale
EditsAreShown ==
  \A k \in Kinds :
    <>[]Parses(k)
      => []<>(\/ Shown(k) \/ k \in torn \/ At("down", "loop")
              \/ k = "style" /\ loaded[k] = Nothing
              \/ k = "ui" /\ ui.tree = <<>>)

-----------------------------------------------------------------------------
(* What comments of the code say and the code does not do.                  *)

(* scene.c, at on_node_freed: "Defensive clear of every file-scope slot     *)
(* that might point at a node about to be freed."                           *)
KeyboardIsLive == ui.keyboard # Dangling

(* hot_reload.c, watch_style: "the watcher stays live, and the next file    *)
(* change triggers a re-parse (which may succeed and apply styles)".        *)
NextChangeReparses ==
  \A c \in Styles :
    <>[](file["style"] = c /\ "style" \notin saving)
      => []<>(loaded["style"] = c \/ "style" \in torn \/ At("down", "loop"))

(* scene.c, at reconciliation: "is_open -- select dropdowns stay open".     *)
OpenSelectIsDrawn ==
  \A n \in Range(ui.tree) : n.type = "select" /\ n.open /\ n.laid => ui.overlay = n.name

(* hot_reload.c, reload_ui, of every input that has an id.                  *)
EveryEditSurvives ==
  [][ReloadUi /\ Parses("ui") /\ ~ui'.crashed =>
       \A n \in Range(ui.tree), m \in Range(ui'.tree) :
         Editing(ui, n) /\ Editing(ui', m) /\ m.id = n.id /\ n.text = "edited"
           => m.text = "edited"]_vars

(* widget_popup.c: "When the popup is open, it installs itself as the scene *)
(* overlay [...] content behind the popup is effectively modal-blocked":    *)
(* while one is open, whatever is pressed is a popup.                       *)
ContentBehindIsBlocked ==
  (\E i \in OpenPopups(ui) : ui.tree[i].laid) =>
    \A p \in Places(ui) \ {Nowhere} : IsA(ui, HitTest(ui, p), "popup")
=============================================================================

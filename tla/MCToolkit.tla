------------------------------- MODULE MCToolkit -------------------------------
(***************************************************************************)
(* An instance of HotReload: a few contents of the .ui file, chosen so     *)
(* that widgets with state move, change type under the same id, lose their *)
(* id, and vanish.                                                         *)
(***************************************************************************)
EXTENDS HotReload, TLC

W(type, id) == [type |-> type, id |-> id, open |-> FALSE]

MCWidgets ==
  [field |-> <<W("input", "a")>>,
   paint |-> <<W("canvas", "c"), W("input", "a")>>,
   twice |-> <<W("canvas", NoId), W("canvas", "c"), W("button", "a")>>,
   menu  |-> <<W("select", "c")>>,
   sure  |-> <<[W("popup", NoId) EXCEPT !.open = TRUE]>>,
   many  |-> <<W("other", "b"), W("other", "c"), W("input", "a")>>]
MCUiContents == DOMAIN MCWidgets

(* The map of a reconciliation has room for two ids, and two ids hash alike. *)
MCHash == [a |-> 1, b |-> 2, c |-> 2]
=============================================================================

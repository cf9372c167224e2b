--------------------------------- MODULE Device --------------------------------
(***************************************************************************)
(* Handles, as the set-up and tear-down code of meek-ui keeps them: every  *)
(* one of its renderers and platforms is a static record of them, filled   *)
(* one by one on the way up and released one by one on the way down.  An   *)
(* object is named by the field that holds its handle.                     *)
(*                                                                         *)
(* A world is a record.  This module uses its fields held, the objects     *)
(* whose handle the code still has; lost, the objects that were created    *)
(* and that no field names any more; ok, whether the set-up under way has  *)
(* not failed; and fails, the failures so far.  A program is a sequence of *)
(* steps, and running it leads to a set of worlds, for a step may fail.    *)
(***************************************************************************)
EXTENDS Naturals, Sequences, FiniteSets, SequencesExt

CONSTANT MaxFailures  \* bound: calls of the system that fail

ASSUME DeviceAssumption == MaxFailures \in Nat

Step(does, objects) == <<[does |-> does, objects |-> objects]>>

Get(S)     == Step("get", S)      \* create all of S, or fail and create none
Gen(S)     == Step("gen", S)      \* create all of S; never fails
Compile(S) == Step("compile", S)  \* compile S for a link that deletes them
Maybe(S)   == Step("maybe", S)    \* create S if possible; goes on without
Check      == Get({})             \* a call that may fail and creates nothing

(* What is created over a handle that is still held is created twice.      *)
Created(w, S) == [w EXCEPT !.held = @ \cup S, !.lost = @ \cup (S \cap w.held)]
Without(w, S) == [w EXCEPT !.held = @ \ S]
Failed(w) ==
  IF w.fails < MaxFailures THEN {[w EXCEPT !.ok = FALSE, !.fails = @ + 1]} ELSE {}

Outcomes(w, step) ==
  CASE step.does = "get"     -> {Created(w, step.objects)} \cup Failed(w)
    [] step.does = "gen"     -> {Created(w, step.objects)}
    [] step.does = "maybe"   -> {w, Created(w, step.objects)}
    [] step.does = "compile" ->
         {w} \cup {[v EXCEPT !.lost = @ \cup T] :
                     v \in Failed(w), T \in SUBSET step.objects \ {step.objects}}

Then(W, Op(_)) == UNION {IF w.ok THEN Op(w) ELSE {w} : w \in W}

Run(W, program) ==
  FoldLeft(LAMBDA V, step : Then(V, LAMBDA w : Outcomes(w, step)), W, program)

(* A call or a program, and the clean-up of its failure.                   *)
OrUndo(W, Op(_), Undo(_)) ==
  Then(W, LAMBDA w : {IF v.ok THEN v ELSE Undo(v) : v \in Op(w)})
Try(W, program, Undo(_)) == OrUndo(W, LAMBDA w : Run({w}, program), Undo)

(* The failure was logged, and the program goes on.                        *)
Fine(W) == {[w EXCEPT !.ok = TRUE] : w \in W}

Objects(program) == UNION {program[i].objects : i \in DOMAIN program}
=============================================================================

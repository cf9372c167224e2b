-------------------------------- MODULE Markup --------------------------------
(***************************************************************************)
(* parser_xml.c: the recursive-descent parser that turns a .ui file into a *)
(* tree of nodes.  The file is a sequence of tokens, chosen at the start;  *)
(* the C stack of parse_element is a variable, and so is the heap, since   *)
(* what is at stake is who frees which node when a file is malformed or    *)
(* memory runs out.                                                        *)
(***************************************************************************)
EXTENDS Integers, Sequences, SequencesExt, FiniteSets

CONSTANTS
  Tags,   \* the names of elements
  Files,  \* the files that may be loaded
  NoNode

(* What a file is made of.  "broken" is a tag whose name is read and whose  *)
(* attributes are not; "nameless" is a '<' that no name follows; "unclosed" *)
(* is a comment without an end, "badclose" a closing tag without one.       *)
Tokens == [k : {"open", "void", "broken", "close"}, tag : Tags]
            \cup [k : {"nameless", "badclose", "text", "comment", "unclosed"}]
Eof == [k |-> "eof"]

MarkupAssumption == Files \subseteq Seq(Tokens)

VARIABLES
  file,   \* the tokens of the file
  pos,    \* lx.pos
  ok,     \* lx.ok
  stack,  \* the active calls of parse_element that have a node, outermost first
  kids,   \* the nodes that have been allocated, and the children of each
  frees,  \* how often each of them has been freed
  root,   \* what the call has returned
  starved,\* whether an allocation has failed
  pc      \* "lead", "element", "content", "unwind", "parsed", "done"

vars == <<file, pos, ok, stack, kids, frees, root, starved, pc>>

Peek == IF pos <= Len(file) THEN file[pos] ELSE Eof

Init ==
  /\ file \in Files
  /\ pos = 1
  /\ ok = TRUE
  /\ stack = <<>>
  /\ kids = <<>>
  /\ frees = <<>>
  /\ root = NoNode
  /\ starved = FALSE
  /\ pc = "lead"

-----------------------------------------------------------------------------
(* The heap: nodes are numbered as they are allocated.                      *)

AddChild(ks, parent, n) == [ks EXCEPT ![parent] = Append(@, n)]

Below(ks, n) ==
  LET Under[d \in 0 .. Len(ks)] ==
        IF d = 0 THEN {n} ELSE Under[d - 1] \cup UNION {ToSet(ks[m]) : m \in Under[d - 1]}
  IN  Under[Len(ks)]

(* Mutant: only the node itself is freed, and its children are lost.        *)
NodeFree_Alone(ks, fs, n) == [fs EXCEPT ![n] = @ + 1]

NodeFree(ks, fs, n) == [m \in DOMAIN fs |-> IF m \in Below(ks, n) THEN fs[m] + 1 ELSE fs[m]]

-----------------------------------------------------------------------------
(* parse_element returns a node, or frees its own and returns NULL.         *)

Return(ks, n, calls) ==
  /\ stack' = calls
  /\ IF calls = <<>>
       THEN kids' = ks /\ root' = n /\ pc' = "parsed"
       ELSE kids' = AddChild(ks, Last(calls).node, n) /\ pc' = "content" /\ UNCHANGED root

Fail ==
  /\ ok' = FALSE
  /\ frees' = NodeFree(kids, frees, Last(stack).node)
  /\ stack' = Front(stack)
  /\ pc' = "unwind"
  /\ UNCHANGED <<file, pos, kids, root, starved>>

Unwind ==
  /\ pc = "unwind"
  /\ IF stack = <<>>
       THEN pc' = "parsed" /\ UNCHANGED <<stack, frees>>
       ELSE /\ frees' = NodeFree(kids, frees, Last(stack).node)
            /\ stack' = Front(stack)
            /\ UNCHANGED pc
  /\ UNCHANGED <<file, pos, ok, kids, root, starved>>

-----------------------------------------------------------------------------
(* load_ui skips the comments before the root element.                      *)

Lead ==
  /\ pc = "lead"
  /\ CASE Peek.k = "comment"  -> pos' = pos + 1 /\ UNCHANGED <<ok, pc>>
       [] Peek.k = "unclosed" -> pos' = Len(file) + 1 /\ ok' = FALSE /\ pc' = "element"
       [] OTHER               -> pc' = "element" /\ UNCHANGED <<pos, ok>>
  /\ UNCHANGED <<file, stack, kids, frees, root, starved>>

(* The opening tag.  There is no node before its name has been read.        *)
NoElement ==
  /\ pc = "element"
  /\ Peek.k \notin {"open", "void", "broken"}
  /\ ok' = FALSE
  /\ pc' = "unwind"
  /\ UNCHANGED <<file, pos, stack, kids, frees, root, starved>>

OutOfMemory ==
  /\ pc = "element"
  /\ Peek.k \in {"open", "void", "broken"}
  /\ starved' = TRUE
  /\ ok' = FALSE
  /\ pc' = "unwind"
  /\ UNCHANGED <<file, pos, stack, kids, frees, root>>

Element ==
  /\ pc = "element"
  /\ Peek.k \in {"open", "void", "broken"}
  /\ LET n == Len(kids) + 1
         with == Append(kids, <<>>)
     IN  CASE Peek.k = "open" ->
                /\ stack' = Append(stack, [node |-> n, tag |-> Peek.tag])
                /\ kids' = with
                /\ frees' = Append(frees, 0)
                /\ pc' = "content"
                /\ UNCHANGED <<ok, root>>
           [] Peek.k = "void" ->
                /\ Return(with, n, stack)
                /\ frees' = Append(frees, 0)
                /\ UNCHANGED ok
           [] Peek.k = "broken" ->
                /\ ok' = FALSE
                /\ kids' = with
                /\ frees' = Append(frees, 1)
                /\ pc' = "unwind"
                /\ UNCHANGED <<stack, root>>
  /\ pos' = pos + 1
  /\ UNCHANGED <<file, starved>>

-----------------------------------------------------------------------------
(* What stands between an opening tag and its closing tag.                  *)

Skip ==
  /\ pc = "content"
  /\ Peek.k \in {"comment", "text", "unclosed"}
  /\ IF Peek.k = "unclosed"
       THEN pos' = Len(file) + 1 /\ ok' = FALSE
       ELSE pos' = pos + 1 /\ UNCHANGED ok
  /\ UNCHANGED <<file, stack, kids, frees, root, pc, starved>>

Child ==
  /\ pc = "content"
  /\ Peek.k \in {"open", "void", "broken", "nameless"}
  /\ pc' = "element"
  /\ UNCHANGED <<file, pos, ok, stack, kids, frees, root, starved>>

(* Mutant: the name in a closing tag is read and not compared.              *)
Closes_Any == Peek.k = "close"

Closes == Peek.k = "close" /\ Peek.tag = Last(stack).tag

Close ==
  /\ pc = "content"
  /\ Closes
  /\ Return(kids, Last(stack).node, Front(stack))
  /\ pos' = pos + 1
  /\ UNCHANGED <<file, ok, frees, starved>>

Malformed ==
  /\ pc = "content"
  /\ Peek.k \in {"close", "badclose", "eof"}
  /\ ~Closes
  /\ Fail

(* load_ui gives the tree to its caller, or NULL when ok has been lost.     *)
Finish ==
  /\ pc = "parsed"
  /\ IF ~ok /\ root # NoNode
       THEN frees' = NodeFree(kids, frees, root) /\ root' = NoNode
       ELSE UNCHANGED <<frees, root>>
  /\ pc' = "done"
  /\ UNCHANGED <<file, pos, ok, stack, kids, starved>>

Next ==
  \/ Lead \/ NoElement \/ OutOfMemory \/ Element
  \/ Skip \/ Child \/ Close \/ Malformed
  \/ Unwind \/ Finish

Spec == Init /\ [][Next]_vars

-----------------------------------------------------------------------------
(* The variables have their types.                                          *)
TypeOK ==
  /\ file \in Seq(Tokens)
  /\ pos \in 1 .. Len(file) + 1
  /\ {ok, starved} \subseteq BOOLEAN
  /\ stack \in Seq([node : DOMAIN kids, tag : Tags])
  /\ kids \in Seq(Seq(DOMAIN kids))
  /\ frees \in Seq(Nat) /\ Len(frees) = Len(kids)
  /\ root \in DOMAIN kids \cup {NoNode}
  /\ pc \in {"lead", "element", "content", "unwind", "parsed", "done"}

(* "On any error path AFTER the allocation, we scene__node_free(node)       *)
(* before returning NULL so we never leak partial trees": a node that no    *)
(* active call and no caller answers for has been freed, exactly once, and  *)
(* one that somebody answers for has not, whatever the file and wherever    *)
(* memory runs out.                                                         *)
Answered ==
  UNION {Below(kids, n) : n \in {stack[i].node : i \in DOMAIN stack} \cup ({root} \ {NoNode})}
FreedExactlyOnce ==
  \A n \in DOMAIN kids : frees[n] = IF n \in Answered THEN 0 ELSE 1

-----------------------------------------------------------------------------
(* The document that a file is, told without a parser: by how many elements *)
(* are open after each token.                                               *)

Kinds(ks) == {i \in DOMAIN file : file[i].k \in ks}
Upto(S, i) == Cardinality(S \cap 1 .. i)
Depth(i) == Upto(Kinds({"open"}), i) - Upto(Kinds({"close"}), i)

Start == Min(1 .. Len(file) + 1 \ Kinds({"comment"}))
Ends == {e \in Start .. Len(file) : Depth(e) = 0}

(* The element that the token at place i stands in, or closes.              *)
Enclosing(i) ==
  Max({o \in Kinds({"open"}) \cap 1 .. i - 1 : \A x \in o .. i - 1 : Depth(x) >= Depth(o)})

IsDocument ==
  /\ Start \in Kinds({"open", "void"})
  /\ Ends # {}
  /\ \A i \in Start .. Min(Ends) :
       /\ i \in Kinds({"open", "void", "close", "text", "comment"})
       /\ i \in Kinds({"close"}) => file[Enclosing(i)].tag = file[i].tag

(* A file whose root element is well formed gives the tree of its elements, *)
(* each under the one that encloses it and after its elder siblings, unless *)
(* memory runs out; any other file gives no tree at all.                    *)
TreeIsTheDocument ==
  LET places == Kinds({"open", "void"}) \cap Start .. Min(Ends)
      Name(i) == Upto(places, i)
      ChildrenOf(o) == {i \in places \ {Start} : Enclosing(i) = o}
  IN  pc = "done" =>
        IF IsDocument /\ ~starved
          THEN /\ root = 1
               /\ Len(kids) = Cardinality(places)
               /\ \A o \in places :
                    kids[Name(o)] = SetToSortSeq({Name(i) : i \in ChildrenOf(o)}, <)
          ELSE root = NoNode
=============================================================================

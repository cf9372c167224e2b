------------------------------- MODULE MCParsers -------------------------------
(***************************************************************************)
(* Instances of Markup and StyleSheet, composed: hot reload reads one file *)
(* at a time, a .ui file or a .style file, on one thread, and no parser    *)
(* looks at what the other keeps.  A behaviour reads a document, or a      *)
(* sheet for what the parser makes of it, or a few sheets for what the     *)
(* frames make of them.  The lexer is a local of the call that reads.      *)
(***************************************************************************)
EXTENDS Integers, Sequences, SequencesExt, FiniteSets, TLC

CONSTANTS NoNode, Unset

VARIABLES
  reading,                              \* "document", "sheet", "cascade"
  file, pos, ok, pc,                    \* the lexer of the file that is read
  stack, kids, frees, root, starved,    \* Markup
  list, at, start, blocks, table, style, loads   \* StyleSheet

markupVars == <<stack, kids, frees, root, starved>>
sheetVars == <<list, at, start, blocks, table, style, loads>>
vars == <<reading, file, pos, ok, pc, markupVars, sheetVars>>

-----------------------------------------------------------------------------
(* Every document of up to four tokens, and every one of up to six in which *)
(* only opening, empty and closing tags occur.                              *)
Tags == {"a", "b"}
Element(kinds, tags) == [k : kinds, tag : tags]
MCDocuments ==
  BoundedSeq(Element({"open", "void", "broken", "close"}, Tags)
               \cup [k : {"nameless", "badclose", "text", "comment", "unclosed"}], 4)
    \cup BoundedSeq(Element({"open", "close"}, Tags) \cup Element({"void"}, {"a"}), 6)

Document == INSTANCE Markup WITH Files <- MCDocuments

-----------------------------------------------------------------------------
Sel(name)         == [k |-> "sel", name |-> name, states |-> <<>>]
SelHover(name)    == [k |-> "sel", name |-> name, states |-> <<"hover">>]
Set(field, value) == [k |-> "decl", field |-> field, value |-> value]
Named             == [k |-> "named", field |-> "transition", value |-> 1]
Hover             == [k |-> "pseudo", state |-> "hover"]
Mark(kind)        == [k |-> kind]
Marks(kinds)      == {Mark(kind) : kind \in kinds}

(* Every file of up to four tokens, and every file that opens a block for a *)
(* list of two selectors and goes on with up to five pieces of a sheet, or  *)
(* four when a named transition is among them.                              *)
Short == BoundedSeq({Sel("a"), Set("bg", 1), Hover}
                      \cup Marks({"comma", "open", "close", "semi", "junk", "unclosed"}), 4)
TwoSelectors == <<Sel("a"), Mark("comma"), SelHover("b"), Mark("open")>>
Pieces == {<<Set("bg", 1), Mark("semi")>>, <<Set("bg", 0), Mark("semi")>>,
           <<Set("unknown", 1)>>, <<Hover, Mark("open")>>,
           <<Mark("close")>>, <<Mark("close"), Sel("a"), Mark("open")>>, <<Mark("unclosed")>>}
Long == {TwoSelectors \o FlattenSeq(g) : g \in BoundedSeq(Pieces, 5)
                                            \cup BoundedSeq(Pieces \cup {<<Named, Mark("semi")>>}, 4)}
Readable(f) == \A i \in 1 .. Len(f) - 1 : ~(f[i].k = "sel" /\ f[i + 1].k = "pseudo")
MCFiles == {f \in Short \cup Long : Readable(f)}

MCStates == {"default", "hover"}

Sheet == INSTANCE StyleSheet WITH
  Files <- MCFiles, Fields <- {"bg", "transition"}, Flagged <- {"bg"},
  Signed <- {}, Uncopied <- {}, Timed <- <<>>, Preserved <- {}, Driven <- {},
  Values <- {0, 1}, States <- MCStates, MaxList <- 2, MaxStyles <- 2, MaxLoads <- 1,
  Nodes <- {"n"}, Matches <- [n |-> {"a"}], Tier <- [a |-> 0, b |-> 1]

(* Sheets of two rules: a type, a class and an id that match one node.      *)
Rule(s, ds) == <<s, Mark("open")>> \o FlattenSeq([i \in DOMAIN ds |-> <<ds[i], Mark("semi")>>])
                 \o <<Mark("close")>>
First == {<<Set("radius", v)>> : v \in {0, 1}}
           \cup {<<Set("appear_ms", v), Set("appear_easing", 1)>> : v \in {-1, 1}}
Second == {<<Set(f, 2)>> : f \in {"bg", "radius", "appear_ms", "appear_easing"}}
            \cup {<<Set("margin_t", 1)>>}
MCSheets ==
  {Rule(Sel(n), ds) \o Rule(Sel(m), es) :
     n \in {"id", "type"}, m \in {"class", "type"}, ds \in First, es \in Second} \cup {<<>>}
MCDriven == {<<"default", "bg">>}

Cascade == INSTANCE StyleSheet WITH
  Files <- MCSheets, Flagged <- {"bg"}, Signed <- {}, Uncopied <- {"margin_t"},
  Fields <- {"bg", "radius", "margin_t", "appear_ms", "appear_easing"},
  Timed <- [appear_easing |-> "appear_ms"], Preserved <- MCDriven, Driven <- MCDriven,
  Values <- -1 .. 2, States <- MCStates, MaxList <- 2, MaxStyles <- 4, MaxLoads <- 2,
  Nodes <- {"n", "m"}, Matches <- [n |-> {"type", "class", "id"}, m |-> {"type"}],
  Tier <- [type |-> 0, class |-> 1, id |-> 2]

ASSUME ParsersAssumption ==
  Document!MarkupAssumption /\ Sheet!StyleSheetAssumption /\ Cascade!StyleSheetAssumption

-----------------------------------------------------------------------------
NoDocument == stack = <<>> /\ kids = <<>> /\ frees = <<>> /\ root = NoNode /\ starved = FALSE
NoSheet ==
  /\ list = <<>> /\ at = 0 /\ start = 0 /\ blocks = <<>>
  /\ table = <<>> /\ style = <<>> /\ loads = 0

Init ==
  \/ reading = "document" /\ Document!Init /\ NoSheet
  \/ reading = "sheet" /\ Sheet!Init /\ NoDocument
  \/ reading = "cascade" /\ Cascade!Init /\ NoDocument

Next ==
  /\ UNCHANGED reading
  /\ \/ reading = "document" /\ Document!Next /\ UNCHANGED sheetVars
     \/ reading = "sheet" /\ Sheet!Next /\ UNCHANGED markupVars
     \/ reading = "cascade" /\ Cascade!Next /\ UNCHANGED markupVars

Spec == Init /\ [][Next]_vars

-----------------------------------------------------------------------------
(* scene__node_free in parse_element: every node of a malformed document,   *)
(* or of one for which memory runs out, is freed once (Markup).             *)
FreedExactlyOnce == reading = "document" => Document!FreedExactlyOnce

(* parser_xml__load_ui: a document gives the tree of its elements, anything *)
(* else no tree (Markup).                                                   *)
TreeIsTheDocument == reading = "document" => Document!TreeIsTheDocument

(* parse_rule and parse_block: a sheet registers its rules with the lists   *)
(* of selectors written out, a truncated one is refused (StyleSheet).       *)
SheetMeansItsRules ==
  /\ reading = "sheet" => Sheet!SheetMeansItsRules
  /\ reading = "cascade" => Cascade!SheetMeansItsRules

(* scene__resolve_styles: "id beats class beats type. within one tier, last *)
(* registered wins" (StyleSheet).                                           *)
WinnerIsDrawn == reading = "cascade" => Cascade!WinnerIsDrawn
=============================================================================

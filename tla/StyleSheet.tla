------------------------------ MODULE StyleSheet ------------------------------
(***************************************************************************)
(* parser_style.c and scene_style.c: a .style file is parsed into a table  *)
(* of rules, and every frame the table is applied to the nodes of the      *)
(* tree.  The file is a sequence of tokens; white space and comments that  *)
(* end are not among them.                                                 *)
(***************************************************************************)
EXTENDS Integers, Sequences, SequencesExt, FiniteSets

CONSTANTS
  Files,      \* the files that may be loaded
  Fields,     \* the fields of a style
  Flagged,    \* those with a flag of their own: the others are set when they are not 0
  Signed,     \* those without a flag that may be negative: a z-index
  Uncopied,   \* those that overlay_style has no line for: margins, animation
  Timed,      \* an easing -> the duration that it is copied with
  Preserved,  \* the slots that apply_rules_to_node saves around its memset
  Driven,     \* the slots that the program writes itself
  Values,     \* what a field may be set to
  Unset,
  States,     \* the pseudo-states that scene.c knows
  MaxList,    \* _PARSER_STYLE_INTERNAL_MAX_SELECTOR_LIST
  MaxStyles,  \* _SCENE_STYLE_INTERNAL__MAX_STYLES
  Nodes,
  Matches,    \* the selectors that match each node
  Tier,       \* 0, 1 or 2: a selector of a type, with a class, with an id
  MaxLoads    \* how often the file is loaded

Selectors == DOMAIN Tier

(* A selector may carry a pseudo-state of its own.  A declaration sets one   *)
(* field, a shorthand being several, or has a property that the parser does *)
(* not know; "named" is the transition of a property other than "all".      *)
(* "junk" is what no declaration starts with, "unclosed" the start of a     *)
(* comment without end.                                                     *)
Tokens ==
  [k : {"sel"}, name : Selectors, states : {<<>>} \cup {<<s>> : s \in States}]
    \cup [k : {"pseudo"}, state : STRING]
    \cup [k : {"decl"}, field : Fields \cup {"unknown"}, value : Values]
    \cup [k : {"named"}, field : Fields, value : Values]
    \cup [k : {"comma", "open", "close", "semi", "junk", "unclosed"}]
Eof  == [k |-> "eof"]
Junk == [k |-> "junk"]

StyleSheetAssumption ==
  /\ Files \subseteq Seq(Tokens)
  /\ Flagged \cup Signed \cup Uncopied \subseteq Fields
  /\ DOMAIN Timed \subseteq Fields
  /\ \A f \in DOMAIN Timed : Timed[f] \in Fields \ (Uncopied \cup DOMAIN Timed)
  /\ Values \subseteq Int
  /\ "unknown" \notin Fields
  /\ Preserved \subseteq States \X Fields
  /\ Driven \subseteq Preserved
  /\ Unset \notin Values
  /\ "default" \in States
  /\ Matches \in [Nodes -> SUBSET Selectors]
  /\ Tier \in [Selectors -> 0 .. 2]
  /\ {MaxList, MaxStyles, MaxLoads} \subseteq Nat \ {0}

VARIABLES
  file,    \* the tokens of the file
  pos,     \* lx.pos
  ok,      \* lx.ok
  list,    \* the selectors of the rule at hand
  at,      \* which of them its block is being read for
  start,   \* block_pos
  blocks,  \* the active calls of parse_block, outermost first
  table,   \* the registered rules
  style,   \* the style of each node in each state
  loads,   \* how often a file has been loaded
  pc       \* "top", "list", "open", "block", "loaded", "drawn"

lexVars  == <<file, loads>>
ruleVars == <<list, at, start>>
vars == <<lexVars, ruleVars, pos, ok, blocks, table, style, pc>>

Blank == [f \in Fields |-> Unset]

Init ==
  /\ file \in Files
  /\ pos = 1
  /\ ok = TRUE
  /\ list = <<>> /\ at = 0 /\ start = 0
  /\ blocks = <<>>
  /\ table = <<>>
  /\ style = [n \in Nodes |-> [s \in States |-> Blank]]
  /\ loads = 1
  /\ pc = "top"

-----------------------------------------------------------------------------
(* The lexer.  An unclosed comment swallows the file but for its last       *)
(* character, and the caller goes on from there.                            *)

LastOf(t) == IF t.k \in {"comma", "open", "close", "semi", "sel"} THEN t ELSE Junk
TokenAt(p, good) ==
  CASE p > Len(file) -> Eof
    [] good          -> file[p]
    [] OTHER         -> LastOf(file[p])

(* Mutant: a comment without an end is skipped like any other.              *)
Skipped_Quiet(p, good) ==
  IF TokenAt(p, good).k = "unclosed"
    THEN [pos |-> Len(file) + 1, ok |-> good, token |-> Eof]
    ELSE [pos |-> p, ok |-> good, token |-> TokenAt(p, good)]

Skipped(p, good) ==
  IF TokenAt(p, good).k = "unclosed"
    THEN LET q == IF p < Len(file) THEN Len(file) ELSE Len(file) + 1
         IN  [pos |-> q, ok |-> FALSE, token |-> TokenAt(q, FALSE)]
    ELSE [pos |-> p, ok |-> good, token |-> TokenAt(p, good)]

-----------------------------------------------------------------------------
(* scene__register_style: a selector that scene.c cannot parse and a table  *)
(* that is full are logged, and the rule is left out.                       *)

(* A selector names at most one pseudo-state, its own or that of a block    *)
(* nested in its block.                                                     *)
StatesOf(t, block) == t.states \o block.states
Registrable(t, block) ==
  t.k = "sel" /\ Len(StatesOf(t, block)) <= 1 /\ ToSet(StatesOf(t, block)) \subseteq States

Registered(rows, t, block) ==
  IF block.has /\ Registrable(t, block) /\ Len(rows) < MaxStyles
    THEN Append(rows, [name |-> t.name,
                       state |-> IF StatesOf(t, block) = <<>> THEN "default" ELSE StatesOf(t, block)[1],
                       style |-> block.style])
    ELSE rows

-----------------------------------------------------------------------------
(* parse_rule: the list of selectors, then the block, once for each.        *)

Stop == ok' = FALSE /\ pc' = "top" /\ list' = <<>> /\ at' = 0 /\ start' = 0

Top ==
  /\ pc = "top"
  /\ LET s == Skipped(pos, ok)
     IN  IF ~ok \/ s.token.k = "eof"
           THEN /\ pc' = "loaded"
                /\ ok' = (ok /\ s.ok)
                /\ UNCHANGED pos
           ELSE pc' = "list" /\ pos' = s.pos /\ ok' = s.ok
  /\ UNCHANGED <<lexVars, ruleVars, blocks, table, style>>

Selector ==
  /\ pc = "list"
  /\ LET t == TokenAt(pos, ok)
         after == Skipped(pos + 1, ok)
         next == Skipped(after.pos + 1, after.ok)
     IN  IF t.k \in {"comma", "open", "eof"}
           THEN Stop /\ UNCHANGED pos
           ELSE IF after.token.k = "comma"
             THEN IF Len(list) + 1 >= MaxList
               THEN Stop /\ UNCHANGED pos
               ELSE /\ list' = Append(list, t)
                    /\ pos' = next.pos
                    /\ ok' = next.ok
                    /\ UNCHANGED <<at, start, pc>>
             ELSE /\ list' = Append(list, t)
                  /\ pos' = after.pos
                  /\ ok' = after.ok
                  /\ at' = 1
                  /\ start' = after.pos
                  /\ pc' = "open"
  /\ UNCHANGED <<lexVars, blocks, table, style>>

(* A call of parse_block is over.  Mutant: the next selector goes on where  *)
(* the block has ended.                                                     *)
Return_NoRewind(p, good) ==
  /\ blocks' = Front(blocks)
  /\ IF Len(blocks) > 1
       THEN pos' = p /\ ok' = good /\ pc' = "block" /\ UNCHANGED ruleVars
       ELSE IF good /\ at < Len(list)
         THEN pos' = p /\ at' = at + 1 /\ pc' = "open" /\ ok' = good /\ UNCHANGED <<list, start>>
         ELSE /\ pos' = p /\ ok' = good /\ pc' = "top"
              /\ list' = <<>> /\ at' = 0 /\ start' = 0

Return(p, good) ==
  /\ blocks' = Front(blocks)
  /\ IF Len(blocks) > 1
       THEN pos' = p /\ ok' = good /\ pc' = "block" /\ UNCHANGED ruleVars
       ELSE IF good /\ at < Len(list)
         THEN pos' = start /\ at' = at + 1 /\ pc' = "open" /\ ok' = good /\ UNCHANGED <<list, start>>
         ELSE /\ pos' = p /\ ok' = good /\ pc' = "top"
              /\ list' = <<>> /\ at' = 0 /\ start' = 0

-----------------------------------------------------------------------------
(* parse_block.                                                             *)

Block(states) == [states |-> states, style |-> Blank, has |-> FALSE]

Open ==
  /\ pc = "open"
  /\ IF TokenAt(pos, ok).k = "open"
       THEN /\ blocks' = <<Block(<<>>)>>
            /\ pos' = pos + 1
            /\ pc' = "block"
            /\ UNCHANGED <<ok, ruleVars>>
       ELSE Stop /\ UNCHANGED <<pos, blocks>>
  /\ UNCHANGED <<lexVars, table, style>>

(* The loop ends at a '}', and also when a block inside it has failed: the  *)
(* rule is then registered with the declarations that have been read.       *)
CloseBlock ==
  /\ pc = "block"
  /\ LET s == Skipped(pos, ok)
     IN  /\ ~ok \/ s.token.k = "close"
         /\ table' = Registered(table, list[at], Last(blocks))
         /\ IF ok THEN Return(s.pos + 1, s.ok) ELSE Return(pos, ok)
  /\ UNCHANGED <<lexVars, style>>

Nested ==
  /\ pc = "block"
  /\ ok
  /\ LET s == Skipped(pos, ok)
         head == Skipped(s.pos + 1, s.ok)
         states == Append(Last(blocks).states, s.token.state)
     IN  /\ s.token.k = "pseudo"
         /\ IF head.token.k = "open"
              THEN /\ blocks' = Append(blocks, Block(states))
                   /\ pos' = head.pos + 1
                   /\ ok' = head.ok
              ELSE pos' = head.pos /\ ok' = FALSE /\ UNCHANGED blocks
  /\ UNCHANGED <<lexVars, ruleVars, table, style, pc>>

(* parse_decl: a declaration and its ';'.  A field without a flag that is   *)
(* set to 0 is one that is not set (gui.h: "zero floats are treated as "not *)
(* specified" by the overlay logic").  The value of a property that is not  *)
(* known is whatever comes before the next ';' or '}'.  A named transition  *)
(* is stored, and the error that is reported for it ends the parse.         *)
Known(t) == t.field \in Fields
Declared(st, t) ==
  IF Known(t)
    THEN [st EXCEPT ![t.field] = IF t.value = 0 /\ t.field \notin Flagged THEN Unset ELSE t.value]
    ELSE st

Latches(t) == t.k = "named"

EndOfDecl(s) ==
  IF Known(s.token) THEN Skipped(s.pos + 1, s.ok)
    ELSE LET ends == {q \in s.pos + 1 .. Len(file) : file[q].k \in {"semi", "close"}}
         IN  Skipped(Min(ends \cup {Len(file) + 1}), s.ok)

Decl ==
  /\ pc = "block"
  /\ ok
  /\ LET s == Skipped(pos, ok)
         whole == s.token.k \in {"decl", "named"} /\ EndOfDecl(s).token.k = "semi"
         top == Last(blocks)
     IN  /\ s.token.k \notin {"close", "pseudo"}
         /\ IF whole
              THEN /\ blocks' = Append(Front(blocks),
                         [top EXCEPT !.style = Declared(@, s.token), !.has = TRUE])
                   /\ pos' = EndOfDecl(s).pos + 1
                   /\ ok' = (EndOfDecl(s).ok /\ ~Latches(s.token))
                   /\ UNCHANGED <<ruleVars, pc>>
              ELSE Return(s.pos, FALSE)
  /\ UNCHANGED <<lexVars, table, style>>

-----------------------------------------------------------------------------
(* scene__resolve_styles, once a frame: the slots are wiped unless the      *)
(* table is empty, the runtime-driven fields are put back, and the rules    *)
(* overlaid tier by tier.                                                   *)

(* Whether a rule sets a field, for overlay_style: a number without a flag  *)
(* must be positive, an easing comes with a duration of the same rule.      *)
Counts(st, f) == st[f] # Unset /\ (f \in Flagged \cup Signed \/ st[f] > 0)
Sets(st, f) ==
  f \notin Uncopied /\ Counts(st, IF f \in DOMAIN Timed THEN Timed[f] ELSE f)

Overlay(dst, src) == [f \in Fields |-> IF Sets(src, f) THEN src[f] ELSE dst[f]]

(* Mutant: one pass over the table instead of one for each tier.            *)
Overlaid_OnePass(slots, n, rows) ==
  FoldLeft(LAMBDA ss, r : IF r.name \in Matches[n]
                            THEN [ss EXCEPT ![r.state] = Overlay(@, r.style)] ELSE ss,
           slots, rows)

Overlaid(slots, n, rows) ==
  FoldLeft(LAMBDA ss, r : IF r.name \in Matches[n]
                            THEN [ss EXCEPT ![r.state] = Overlay(@, r.style)] ELSE ss,
           slots,
           FlattenSeq([t \in 1 .. 3 |-> SelectSeq(rows, LAMBDA r : Tier[r.name] = t - 1)]))

Wiped(slots, rows) ==
  IF rows = <<>> THEN slots
    ELSE [s \in States |-> [f \in Fields |->
            IF <<s, f>> \in Preserved THEN slots[s][f] ELSE Unset]]

Frame ==
  /\ pc \in {"loaded", "drawn"}
  /\ style' = [n \in Nodes |-> Overlaid(Wiped(style[n], table), n, table)]
  /\ pc' = "drawn"
  /\ UNCHANGED <<lexVars, ruleVars, pos, ok, blocks, table>>

(* The program writes a slot of a node between two frames.                  *)
HostWrites ==
  /\ pc = "drawn"
  /\ \E n \in Nodes, slot \in Driven, v \in Values :
       style' = [style EXCEPT ![n][slot[1]][slot[2]] = v]
  /\ pc' = "loaded"
  /\ UNCHANGED <<lexVars, ruleVars, pos, ok, blocks, table>>

(* reload_style: the table is cleared and the file read again.              *)
Reload ==
  /\ pc = "drawn"
  /\ loads < MaxLoads
  /\ loads' = loads + 1
  /\ file' \in Files
  /\ pos' = 1
  /\ ok' = TRUE
  /\ table' = <<>>
  /\ pc' = "top"
  /\ UNCHANGED <<ruleVars, blocks, style>>

Next ==
  \/ Top \/ Selector \/ Open \/ CloseBlock \/ Nested \/ Decl
  \/ Frame \/ HostWrites \/ Reload

Spec == Init /\ [][Next]_vars

-----------------------------------------------------------------------------
(* The sheet that a file is, told without a parser: by how many blocks are  *)
(* open after each token.                                                   *)

Places(ks) == {i \in DOMAIN file : file[i].k \in ks}
Upto(S, i) == Cardinality(S \cap 1 .. i)
Depth(i) == Upto(Places({"open"}), i) - Upto(Places({"close"}), i)
Sorted(S) == SetToSortSeq(S, <)

(* The block that the token at place i stands in, or closes.                *)
Enclosing(i) ==
  Max({o \in Places({"open"}) \cap 1 .. i - 1 : \A x \in o .. i - 1 : Depth(x) >= Depth(o)})

(* The rules, each by the place where its block opens, and their selectors. *)
Rules == {o \in Places({"open"}) : Depth(o) = 1}
SelectorsOf(o) ==
  {i \in Places({"sel"}) : i < o /\ \A x \in i .. o - 1 : file[x].k \in {"sel", "comma"}}

IsSheet ==
  /\ Places({"junk", "unclosed"}) = {}
  /\ \A i \in DOMAIN file : Depth(i) >= 0
  /\ Depth(Len(file)) = 0
  /\ file # <<>> => Last(file).k = "close"
  /\ \A i \in DOMAIN file :
       LET before == IF i = 1 THEN "close" ELSE file[i - 1].k
           Within(ks) == before \in ks /\ Depth(i - 1) > 0
       IN  CASE file[i].k = "sel"    -> before \in {"close", "comma"} /\ Depth(i - 1) = 0
             [] file[i].k = "comma"  -> before = "sel"
             [] file[i].k = "open"   -> before \in {"sel", "pseudo"}
             [] file[i].k = "semi"   -> before \in {"decl", "named"}
             [] file[i].k = "close"  -> Within({"open", "semi", "close"})
             [] file[i].k \in {"decl", "named", "pseudo"} -> Within({"open", "semi", "close"})
  /\ \A o \in Rules : Cardinality(SelectorsOf(o)) <= MaxList

(* A copy of the block for every selector in turn; in a copy the blocks in  *)
(* the order in which they end, each with the pseudo-states that it is      *)
(* nested in, and none without a declaration of its own.                    *)
Copy(o, i) ==
  LET ends == {c \in Places({"close"}) : c > o /\ \A x \in o .. c - 1 : Depth(x) >= 1}
      Decls(c) == {d \in Places({"decl", "named"}) : d < c /\ Enclosing(d) = Enclosing(c)}
      Around(c) == {p \in Places({"pseudo"}) : p > o /\ p < c
                      /\ \A x \in p + 1 .. c - 1 : Depth(x) >= Depth(p + 1)}
      Body(c) == [states |-> [x \in DOMAIN Sorted(Around(c)) |-> file[Sorted(Around(c))[x]].state],
                  style |-> FoldLeft(LAMBDA st, d : Declared(st, file[d]), Blank, Sorted(Decls(c))),
                  has |-> Decls(c) # {}]
  IN  [x \in DOMAIN Sorted(ends) |-> [t |-> file[i], block |-> Body(Sorted(ends)[x])]]
Meaning ==
  LET Each(S, Op(_)) == FlattenSeq([x \in DOMAIN Sorted(S) |-> Op(Sorted(S)[x])])
      all == Each(Rules, LAMBDA o : Each(SelectorsOf(o), LAMBDA i : Copy(o, i)))
  IN  FoldLeft(LAMBDA rows, b : Registered(rows, b.t, b.block), <<>>, all)

-----------------------------------------------------------------------------
(* The variables have their types.                                          *)
Styles == [Fields -> Values \cup {Unset}]
TypeOK ==
  /\ file \in Seq(Tokens)
  /\ pos \in 1 .. Len(file) + 1
  /\ ok \in BOOLEAN
  /\ list \in Seq(Tokens) /\ Len(list) <= MaxList
  /\ at \in 0 .. Len(list)
  /\ start \in 0 .. Len(file) + 1
  /\ blocks \in Seq([states : Seq(STRING), style : Styles, has : BOOLEAN])
  /\ table \in Seq([name : Selectors, state : States, style : Styles])
  /\ Len(table) <= MaxStyles
  /\ style \in [Nodes -> [States -> Styles]]
  /\ loads \in 1 .. MaxLoads
  /\ pc \in {"top", "list", "open", "block", "loaded", "drawn"}

(* "the block is applied to every listed selector, equivalent to            *)
(* copy-pasting the block under each one": a file that is a sheet, without  *)
(* a named transition, is accepted, and registers the rules of the sheet in *)
(* which every list has been written out, up to the capacity of the table.  *)
(* A file that stops within a comment or within a block, as when an editor  *)
(* has written a part of it, is refused, unless the value of an unknown     *)
(* property has swallowed what would show it.                               *)
Truncated ==
  /\ \A d \in Places({"decl", "named"}) : Known(file[d])
  /\ \/ Places({"unclosed"}) # {}
     \/ Cardinality(Places({"open"})) > Cardinality(Places({"close"}))
SheetMeansItsRules ==
  pc = "loaded" =>
    /\ IsSheet /\ Places({"named"}) = {} => ok /\ table = Meaning
    /\ Truncated => ~ok

-----------------------------------------------------------------------------
(* What the rules of the table say of a field: the winner is the last of    *)
(* the highest tier among those that match and set it.  A margin and the    *)
(* animation no rule sets, whatever it declares (Sets).                     *)
Setting(n, s, f) ==
  {i \in DOMAIN table : table[i].name \in Matches[n] /\ table[i].state = s
                          /\ Sets(table[i].style, f)}
Beats(i, j) ==
  LET ti == Tier[table[i].name] tj == Tier[table[j].name] IN ti > tj \/ (ti = tj /\ i >= j)

(* "id beats class beats type. within one tier, last registered wins", for  *)
(* every slot that some rule sets, whatever the order in which the sheet    *)
(* lists the rules, and whatever the slot held before; an easing is that of *)
(* the rule which wins for its duration.                                    *)
WinnerIsDrawn ==
  pc = "drawn" =>
    \A n \in Nodes, s \in States, f \in Fields : \A i \in Setting(n, s, f) :
      (\A j \in Setting(n, s, f) : Beats(i, j)) => style[n][s][f] = table[i].style[f]

-----------------------------------------------------------------------------
(* What comments of the code say and the code does not do.                  *)

(* parser_style.c: "First error logs "filename:line: message" and sets ok = *)
(* FALSE; helpers short circuit. [...] any rules successfully registered    *)
(* before the error are already committed": a rule whose block the file     *)
(* does not close was not registered before the error, and is not in the    *)
(* table.                                                                   *)
UnclosedIsNotRegistered == pc = "loaded" /\ Places({"close"}) = {} => table = <<>>

(* parser_style.c, of the transition of a named property: "Warn but accept  *)
(* [...] Not a hard error; fall through and keep parsing."                  *)
NamedTransitionIsAccepted == pc = "loaded" /\ IsSheet => ok

(* parser_style.c: "CSS-aligned margin: space AROUND this element"; and of  *)
(* appear-easing: "Useful when the duration is inherited from a parent rule *)
(* but you want a different easing on this node": what only one rule        *)
(* declares is drawn.                                                       *)
DeclaredIsDrawn ==
  pc = "drawn" =>
    \A n \in Nodes, f \in Fields, i \in DOMAIN table :
      LET declare == {j \in DOMAIN table : table[j].name \in Matches[n]
                                             /\ table[j].style[f] # Unset}
      IN  declare = {i} => style[n][table[i].state][f] = table[i].style[f]

(* hot_reload.h: "Subsequent reloads call scene__clear_styles before        *)
(* reparsing, so removing a rule from the file actually un-registers it":   *)
(* what a rule had set is gone in the frame after the reload that removes   *)
(* the rule.                                                                *)
RemovedRuleIsGone ==
  pc = "drawn" => \A n \in Nodes, s \in States, f \in Fields :
                    Setting(n, s, f) = {} => style[n][s][f] = Unset
=============================================================================

--------------------------- MODULE HotReload_proofs ---------------------------
(***************************************************************************)
(* Proofs about HotReload: whatever is pressed, typed, saved and reloaded, *)
(* the pointers into the tree of widgets are live, pixels have one owner,  *)
(* a keyboard serves the focus or the host, a popup is modal, and an edit  *)
(* survives.                                                               *)
(* First trees and scenes, with a lemma for each operation of Scene, then  *)
(* files and reloads, then the program.                                    *)
(***************************************************************************)
EXTENDS HotReload, FiniteSetTheorems, WellFoundedInduction, TLAPS

-----------------------------------------------------------------------------
(* The allocator.                                                          *)

LEMMA NatLeast ==
  ASSUME NEW S \in SUBSET Nat, S # {}
  PROVE  \E m \in S : \A n \in S : m <= n
<1>1. PICK m \in S : \A n \in S : <<n, m>> \notin OpToRel(<, Nat)
  BY WFMin, NatLessThanWellFounded, Zenon
<1>2. \A n, k \in Nat : n < k => <<n, k>> \in OpToRel(<, Nat)
  BY Zenon DEF OpToRel
<1>3. \A n \in S : ~(n < m)
  BY <1>1, <1>2, Zenon
<1>4. \A n \in S : m <= n
  BY <1>3
<1>5. QED
  BY <1>4

(* How many of the first n addresses are free.                              *)
Free(used, n) == Cardinality((1 .. n) \ used)

LEMMA FreeSteps ==
  ASSUME NEW used, NEW n \in Nat
  PROVE  /\ Free(used, 0) = 0
         /\ Free(used, n) \in Nat
         /\ n + 1 \in used => Free(used, n + 1) = Free(used, n)
         /\ n + 1 \notin used => Free(used, n + 1) = Free(used, n) + 1
<1>. USE DEF Free
<1>1. (1 .. 0) \ used = {}
  OBVIOUS
<1>2. IsFiniteSet((1 .. n) \ used)
  <2>1. IsFiniteSet(1 .. n)
    <3>1. 1 \in Int /\ n \in Int
      OBVIOUS
    <3>2. QED
      BY <3>1, FS_Interval
  <2>2. QED
    BY <2>1, FS_Difference
<1>3. Free(used, n) \in Nat
  BY <1>2, FS_CardinalityType
<1>4. ASSUME n + 1 \in used PROVE (1 .. (n + 1)) \ used = (1 .. n) \ used
  BY <1>4
<1>5. ASSUME n + 1 \notin used PROVE (1 .. (n + 1)) \ used = ((1 .. n) \ used) \cup {n + 1}
  BY <1>5
<1>6. ASSUME n + 1 \notin used PROVE Free(used, n + 1) = Free(used, n) + 1
  <2>1. n + 1 \notin (1 .. n) \ used
    OBVIOUS
  <2>2. Cardinality(((1 .. n) \ used) \cup {n + 1}) = Cardinality((1 .. n) \ used) + 1
    BY <1>2, <2>1, FS_AddElement
  <2>3. QED
    BY <1>5, <1>6, <2>2
<1>7. QED
  BY <1>1, <1>3, <1>4, <1>6, FS_EmptySet

LEMMA EnoughIsFree ==
  ASSUME NEW used, IsFiniteSet(used), NEW k \in Nat
  PROVE  Free(used, k + Cardinality(used)) >= k
<1>. DEFINE c == Cardinality(used)
            m == k + c
            I == 1 .. m
<1>1. c \in Nat
  BY FS_CardinalityType
<1>2. IsFiniteSet(I) /\ Cardinality(I) = m
  <2>1. 1 \in Int /\ m \in Int /\ m >= 0
    BY <1>1
  <2>2. IsFiniteSet(I) /\ Cardinality(I) = IF 1 > m THEN 0 ELSE m - 1 + 1
    BY <2>1, FS_Interval
  <2>3. QED
    BY <2>1, <2>2
<1>3. IsFiniteSet(I \cap used) /\ Cardinality(I \cap used) <= c
  <2>1. I \cap used \subseteq used
    OBVIOUS
  <2>2. QED
    BY <2>1, FS_Subset
<1>4. Cardinality(I \ used) = Cardinality(I) - Cardinality(I \cap used)
  BY <1>2, FS_Difference
<1>5. Cardinality(I \cap used) \in Nat
  BY <1>3, FS_CardinalityType
<1>6. QED
  BY <1>1, <1>2, <1>3, <1>4, <1>5 DEF Free

LEMMA TheIthIsThere ==
  ASSUME NEW used, IsFiniteSet(used), NEW k \in Nat, NEW i \in 1 .. k
  PROVE  \E x \in 1 .. (k + Cardinality(used)) : x \notin used /\ Free(used, x) = i
<1>. DEFINE m == k + Cardinality(used)
            S == {n \in Nat : Free(used, n) >= i}
<1>1. m \in Nat
  BY FS_CardinalityType
<1>2. Free(used, m) >= i
  BY <1>1, EnoughIsFree, FreeSteps
<1>3. PICK x \in S : \A n \in S : x <= n
  BY <1>1, <1>2, NatLeast
<1>4. x # 0
  BY FreeSteps
<1>5. x - 1 \in Nat /\ x - 1 \notin S /\ x = (x - 1) + 1
  BY <1>3, <1>4
<1>6. Free(used, x - 1) < i
  BY <1>5, FreeSteps
<1>7. x \notin used /\ Free(used, x) = i
  BY <1>3, <1>5, <1>6, FreeSteps
<1>8. x <= m
  BY <1>1, <1>2, <1>3
<1>9. QED
  BY <1>1, <1>4, <1>7, <1>8

LEMMA FreshIsFresh ==
  ASSUME NEW used, IsFiniteSet(used), NEW k \in Nat
  PROVE  /\ Fresh(used, k) \in [1 .. k -> Nat]
         /\ \A i \in 1 .. k : Fresh(used, k)[i] \notin used
         /\ \A i, j \in 1 .. k : Fresh(used, k)[i] = Fresh(used, k)[j] => i = j
<1>. DEFINE F == Fresh(used, k)
            m == k + Cardinality(used)
<1>1. ASSUME NEW i \in 1 .. k
      PROVE  F[i] \in 1 .. m /\ F[i] \notin used /\ Free(used, F[i]) = i
  <2>1. F[i] = CHOOSE x \in 1 .. m : x \notin used /\ Free(used, x) = i
    BY DEF Fresh, Free
  <2>2. \E x \in 1 .. m : x \notin used /\ Free(used, x) = i
    BY TheIthIsThere
  <2>. HIDE DEF F
  <2>3. QED
    BY <2>1, <2>2
<1>2. F = [i \in 1 .. k |-> CHOOSE x \in 1 .. m : x \notin used /\ Free(used, x) = i]
  BY DEF Fresh, Free
<1>. HIDE DEF F
<1>3. m \in Nat
  BY FS_CardinalityType
<1>4. F \in [1 .. k -> Nat]
  BY <1>1, <1>2, <1>3
<1>5. QED
  BY <1>1, <1>4 DEF F

-----------------------------------------------------------------------------
(* Scenes: what is said of one scene u at a time.                           *)

Distinct(u) == \A i, j \in DOMAIN u.tree : u.tree[i].name = u.tree[j].name => i = j
PointersInv(u) == {u.focus, u.pressed, u.hover, u.overlay} \subseteq Live(u) \cup {NoNode}
BlobsInv(u) ==
  /\ Blobs(Range(u.tree)) = u.blobs
  /\ \A m, n \in Range(u.tree) : m.data = n.data /\ m.data # NoBlob => m = n
KeyboardIsKnown(u) == u.keyboard \in Live(u) \cup {NoNode, Dangling}

SceneInv(u) ==
  u \in Scenes /\ Distinct(u) /\ PointersInv(u) /\ BlobsInv(u) /\ KeyboardIsKnown(u)

(* The keyboard of a tree is the one that ui.keyboard names.                *)
OnlyKeyboard(u) == \A n \in Range(u.tree) : n.type = "keyboard" => n.name = u.keyboard
Wanted(u) == u.asked \/ (u.enabled /\ IsA(u, u.focus, "input"))
KeyboardInv(u) == OnlyKeyboard(u) /\ (u.keyboard \in Live(u) => Wanted(u))

(* While a popup is open on screen, a popup has the overlay.                *)
OnScreen(u) == {n \in Range(u.tree) : n.type = "popup" /\ n.open /\ n.laid}
ModalInv(u) == OnScreen(u) # {} /\ ~u.bared => IsA(u, u.overlay, "popup")

(* A name that is in both trees is that of the same widget.                 *)
SameTypes(u, v) == \A n \in Range(v.tree) : n.name \in Live(u) => n.type = Node(u, n.name).type

(* What a step keeps.                                                       *)
Keeps(u, v) ==
  /\ SceneInv(v)
  /\ KeyboardInv(u) => KeyboardInv(v)
  /\ ModalInv(u) => ModalInv(v)

-----------------------------------------------------------------------------
(* Trees.                                                                   *)

LEMMA NodeIsThere ==
  ASSUME NEW u \in Scenes, NEW x \in Live(u)
  PROVE  /\ Index(u, x) \in DOMAIN u.tree
         /\ Node(u, x) = u.tree[Index(u, x)]
         /\ Node(u, x) \in Range(u.tree) /\ Node(u, x) \in Nodes
         /\ Node(u, x).name = x /\ x \in Nat
<1>1. u.tree \in Seq(Nodes)
  BY DEF Scenes
<1>2. \E i \in DOMAIN u.tree : u.tree[i].name = x
  BY DEF Live, Names, Range
<1>3. Index(u, x) \in DOMAIN u.tree /\ u.tree[Index(u, x)].name = x
  BY <1>2 DEF Index
<1>4. \A i \in DOMAIN u.tree : u.tree[i] \in Nodes
  BY <1>1
<1>5. Node(u, x) = u.tree[Index(u, x)]
  BY DEF Node
<1>. QED
  BY <1>3, <1>4, <1>5 DEF Range, Nodes

(* A node is known by its name.                                             *)
LEMMA NodesAreNamed ==
  ASSUME NEW u \in Scenes, Distinct(u), NEW n \in Range(u.tree)
  PROVE  n \in Nodes /\ n.name \in Live(u) /\ Node(u, n.name) = n
<1>1. PICK i \in DOMAIN u.tree : n = u.tree[i]
  BY DEF Range
<1>2. n.name \in Live(u)
  BY DEF Live, Names
<1>3. Index(u, n.name) \in DOMAIN u.tree /\ u.tree[Index(u, n.name)].name = n.name
  BY <1>2, NodeIsThere
<1>4. Index(u, n.name) = i
  BY <1>1, <1>3 DEF Distinct
<1>5. u.tree \in Seq(Nodes)
  BY DEF Scenes
<1>. QED
  BY <1>1, <1>2, <1>4, <1>5 DEF Node

LEMMA OneNodePerName ==
  ASSUME NEW u \in Scenes, Distinct(u),
         NEW m \in Range(u.tree), NEW n \in Range(u.tree), m.name = n.name
  PROVE  m = n
BY NodesAreNamed

LEMMA NothingIsNotLive ==
  ASSUME NEW u \in Scenes
  PROVE  NoNode \notin Live(u) /\ Dangling \notin Live(u)
BY NodeIsThere, SceneAssumption DEF SceneAssumption

(* Trees of the same widgets, in the same places.                           *)
Alike(u, v) ==
  /\ v.tree \in Seq(Nodes) /\ DOMAIN v.tree = DOMAIN u.tree
  /\ \A i \in DOMAIN u.tree :
       /\ v.tree[i].name = u.tree[i].name /\ v.tree[i].type = u.tree[i].type
       /\ v.tree[i].data = u.tree[i].data

(* Of which also the same popups are open and the same nodes laid out.      *)
Gentle(u, v) ==
  /\ Alike(u, v)
  /\ \A i \in DOMAIN u.tree :
       /\ v.tree[i].laid = u.tree[i].laid
       /\ u.tree[i].type = "popup" => v.tree[i].open = u.tree[i].open

LEMMA AlikeTrees ==
  ASSUME NEW u \in Scenes, NEW v \in Scenes, Distinct(u), Alike(u, v)
  PROVE  /\ Distinct(v) /\ Live(v) = Live(u)
         /\ \A x, type : IsA(v, x, type) <=> IsA(u, x, type)
         /\ Blobs(Range(v.tree)) = Blobs(Range(u.tree))
         /\ \A n \in Range(v.tree) :
              n.name \in Live(u) /\ n.type = Node(u, n.name).type
              /\ n.data = Node(u, n.name).data
<1>. USE DEF Alike
<1>1. Distinct(v)
  BY DEF Distinct
<1>2. Live(v) = Live(u)
  BY DEF Live, Names, Range
<1>3. ASSUME NEW x \in Live(u) PROVE Index(v, x) = Index(u, x)
  BY <1>2, <1>3, NodeIsThere DEF Distinct
<1>4. ASSUME NEW x \in Live(u)
      PROVE  Node(v, x).type = Node(u, x).type /\ Node(v, x).data = Node(u, x).data
  BY <1>3, NodeIsThere DEF Node
<1>5. \A x, type : IsA(v, x, type) <=> IsA(u, x, type)
  BY <1>2, <1>4 DEF IsA
<1>6. Blobs(Range(v.tree)) = Blobs(Range(u.tree))
  BY DEF Blobs, Range
<1>7. ASSUME NEW n \in Range(v.tree)
      PROVE  n.name \in Live(u) /\ n.type = Node(u, n.name).type
             /\ n.data = Node(u, n.name).data
  BY <1>1, <1>2, <1>4, NodesAreNamed
<1>. QED
  BY <1>1, <1>2, <1>5, <1>6, <1>7

(* All fields but the tree.                                                 *)
SameFields(u, v) ==
  /\ v.focus = u.focus /\ v.pressed = u.pressed /\ v.hover = u.hover
  /\ v.overlay = u.overlay /\ v.keyboard = u.keyboard /\ v.enabled = u.enabled
  /\ v.blobs = u.blobs /\ v.bared = u.bared /\ v.asked = u.asked

LEMMA AlikeKeeps ==
  ASSUME NEW u, SceneInv(u), NEW v \in Scenes, Alike(u, v), SameFields(u, v)
  PROVE  /\ SceneInv(v)
         /\ OnlyKeyboard(u) => OnlyKeyboard(v)
         /\ KeyboardInv(u) => KeyboardInv(v)
<1>. USE DEF SceneInv, SameFields
<1>1. /\ Distinct(v) /\ Live(v) = Live(u)
      /\ \A x, type : IsA(v, x, type) <=> IsA(u, x, type)
      /\ Blobs(Range(v.tree)) = Blobs(Range(u.tree))
      /\ \A n \in Range(v.tree) :
           n.name \in Live(u) /\ n.type = Node(u, n.name).type /\ n.data = Node(u, n.name).data
  BY AlikeTrees
<1>2. PointersInv(v) /\ KeyboardIsKnown(v)
  BY <1>1 DEF PointersInv, KeyboardIsKnown
<1>3. BlobsInv(v)
  <2>1. ASSUME NEW m \in Range(v.tree), NEW n \in Range(v.tree), m.data = n.data, m.data # NoBlob
        PROVE  m = n
    <3>1. Node(u, m.name) = Node(u, n.name)
      BY <1>1, <2>1, NodeIsThere DEF BlobsInv
    <3>2. m.name = n.name
      BY <1>1, <3>1, NodeIsThere
    <3>. QED
      BY <1>1, <3>2, OneNodePerName
  <2>. QED
    BY <1>1, <2>1 DEF BlobsInv
<1>4. ASSUME OnlyKeyboard(u) PROVE OnlyKeyboard(v)
  BY <1>1, <1>4, NodeIsThere DEF OnlyKeyboard
<1>5. ASSUME KeyboardInv(u) PROVE KeyboardInv(v)
  BY <1>1, <1>4, <1>5 DEF KeyboardInv, Wanted
<1>. QED
  BY <1>1, <1>2, <1>3, <1>4, <1>5

LEMMA GentleIsModal ==
  ASSUME NEW u \in Scenes, Distinct(u), NEW v \in Scenes, Gentle(u, v),
         v.overlay = u.overlay, v.bared = u.bared, ModalInv(u)
  PROVE  ModalInv(v)
<1>1. \A x, type : IsA(v, x, type) <=> IsA(u, x, type)
  BY AlikeTrees DEF Gentle
<1>2. OnScreen(v) # {} => OnScreen(u) # {}
  BY DEF OnScreen, Range, Gentle, Alike
<1>. QED
  BY <1>1, <1>2 DEF ModalInv

LEMMA GentleKeeps ==
  ASSUME NEW u, SceneInv(u), NEW v \in Scenes, Gentle(u, v), SameFields(u, v)
  PROVE  Keeps(u, v) /\ (OnlyKeyboard(u) => OnlyKeyboard(v))
<1>1. u \in Scenes /\ Distinct(u) /\ Alike(u, v) /\ v.overlay = u.overlay /\ v.bared = u.bared
  BY DEF SceneInv, Gentle, SameFields
<1>. QED
  BY <1>1, AlikeKeeps, GentleIsModal DEF Keeps

LEMMA KeepsIsTransitive ==
  ASSUME NEW u, NEW v, NEW w, Keeps(u, v), Keeps(v, w)
  PROVE  Keeps(u, w)
BY DEF Keeps

LEMMA KeepsItself == ASSUME NEW u, SceneInv(u) PROVE Keeps(u, u)
BY DEF Keeps

-----------------------------------------------------------------------------
(* Nodes that change and nodes that come.                                   *)

LEMMA ChangedNode ==
  ASSUME NEW u \in Scenes, Distinct(u), NEW n \in Nodes, n.name \in Live(u),
         n.type = Node(u, n.name).type, n.data = Node(u, n.name).data
  PROVE  /\ Changed(u, n) \in Scenes /\ Alike(u, Changed(u, n)) /\ SameFields(u, Changed(u, n))
         /\ n.laid = Node(u, n.name).laid
              /\ (n.type = "popup" => n.open = Node(u, n.name).open) => Gentle(u, Changed(u, n))
         /\ Node(Changed(u, n), n.name) = n
<1>. DEFINE v == Changed(u, n)
            k == Index(u, n.name)
<1>0. u.tree \in Seq(Nodes) /\ \A i \in DOMAIN u.tree : u.tree[i] \in Nodes
  BY DEF Scenes
<1>1. v = [u EXCEPT !.tree = [i \in DOMAIN u.tree |->
                                IF u.tree[i].name = n.name THEN n ELSE u.tree[i]]]
  BY DEF Changed, EachNode, Scenes
<1>2. /\ DOMAIN v.tree = DOMAIN u.tree
      /\ \A i \in DOMAIN u.tree :
           v.tree[i] = IF u.tree[i].name = n.name THEN n ELSE u.tree[i]
      /\ v.tree \in Seq(Nodes)
  BY <1>0, <1>1 DEF Scenes
<1>. HIDE DEF v
<1>3. v \in Scenes /\ SameFields(u, v)
  BY <1>1, <1>2 DEF Scenes, SameFields
<1>4. ASSUME NEW i \in DOMAIN u.tree, u.tree[i].name = n.name PROVE u.tree[i] = Node(u, n.name)
  BY <1>4, NodeIsThere DEF Distinct
<1>5. Alike(u, v)
  BY <1>2, <1>4 DEF Alike
<1>6. n.laid = Node(u, n.name).laid /\ (n.type = "popup" => n.open = Node(u, n.name).open)
        => Gentle(u, v)
  BY <1>2, <1>4, <1>5 DEF Gentle
<1>7. n \in Range(v.tree)
  BY <1>2, NodeIsThere DEF Range
<1>8. Node(v, n.name) = n
  BY <1>3, <1>5, <1>7, AlikeTrees, NodesAreNamed
<1>. QED
  BY <1>3, <1>5, <1>6, <1>8 DEF v

(* The widgets have the ids and texts that they had.                        *)
SameTexts(u, v) ==
  \A i \in DOMAIN u.tree : v.tree[i].id = u.tree[i].id /\ v.tree[i].text = u.tree[i].text

LEMMA NoneLateKeeps ==
  ASSUME NEW u \in Scenes
  PROVE  /\ NoneLate(u) \in Scenes /\ Gentle(u, NoneLate(u)) /\ SameFields(u, NoneLate(u))
         /\ SameTexts(u, NoneLate(u))
         /\ NoneLate(u).crashed = u.crashed
<1>. DEFINE v == NoneLate(u)
<1>0. u.tree \in Seq(Nodes) /\ \A i \in DOMAIN u.tree : u.tree[i] \in Nodes
  BY DEF Scenes
<1>1. v = [u EXCEPT !.tree = [i \in DOMAIN u.tree |-> [u.tree[i] EXCEPT !.late = FALSE]]]
  BY DEF NoneLate, EachNode, Scenes
<1>2. /\ DOMAIN v.tree = DOMAIN u.tree
      /\ \A i \in DOMAIN u.tree : v.tree[i] = [u.tree[i] EXCEPT !.late = FALSE]
      /\ v.tree \in Seq(Nodes)
  <2>1. \A i \in DOMAIN u.tree : [u.tree[i] EXCEPT !.late = FALSE] \in Nodes
    BY <1>0 DEF Nodes
  <2>. QED
    BY <1>0, <1>1, <2>1 DEF Scenes
<1>. HIDE DEF v
<1>3. v \in Scenes /\ SameFields(u, v) /\ v.crashed = u.crashed
  BY <1>1, <1>2 DEF Scenes, SameFields
<1>4. Gentle(u, v) /\ SameTexts(u, v)
  <2>1. ASSUME NEW i \in DOMAIN u.tree
        PROVE  /\ v.tree[i].name = u.tree[i].name /\ v.tree[i].type = u.tree[i].type
               /\ v.tree[i].data = u.tree[i].data /\ v.tree[i].laid = u.tree[i].laid
               /\ v.tree[i].open = u.tree[i].open
               /\ v.tree[i].id = u.tree[i].id /\ v.tree[i].text = u.tree[i].text
    BY <1>0, <1>2 DEF Nodes
  <2>. QED
    BY <1>2, <2>1 DEF Gentle, Alike, SameTexts
<1>. QED
  BY <1>3, <1>4 DEF v

-----------------------------------------------------------------------------
(* Nodes that come.                                                         *)

LEMMA SceneIsFinite ==
  ASSUME NEW u \in Scenes
  PROVE  IsFiniteSet(Live(u)) /\ IsFiniteSet(Blobs(Range(u.tree)))
<1>. DEFINE D == 1 .. Len(u.tree)
            f == [i \in D |-> u.tree[i].name]
            E == {i \in D : u.tree[i].data # NoBlob}
            g == [i \in E |-> u.tree[i].data]
<1>1. u.tree \in Seq(Nodes) /\ Len(u.tree) \in Nat /\ DOMAIN u.tree = D
  BY DEF Scenes
<1>2. IsFiniteSet(D)
  <2>1. 1 \in Int /\ Len(u.tree) \in Int
    BY <1>1
  <2>. QED
    BY <2>1, FS_Interval
<1>3. f \in Surjection(D, Live(u))
  BY <1>1 DEF Surjection, Live, Names, Range
<1>4. IsFiniteSet(E)
  BY <1>2, FS_Subset
<1>5. g \in Surjection(E, Blobs(Range(u.tree)))
  BY <1>1 DEF Surjection, Blobs, Range
<1>. QED
  BY <1>2, <1>3, <1>4, <1>5, FS_Surjection

LEMMA NewChildIsNew ==
  ASSUME NEW u \in Scenes, NEW type \in WidgetTypes
  PROVE  /\ NewChild(u, type) \in Nodes /\ NewChild(u, type).name \notin Live(u)
         /\ NewChild(u, type).type = type /\ NewChild(u, type).data = NoBlob
         /\ ~NewChild(u, type).laid /\ ~NewChild(u, type).open
         /\ NewChild(u, type).id = NoId
<1>1. Fresh(Live(u), 1)[1] \in Nat /\ Fresh(Live(u), 1)[1] \notin Live(u)
  BY SceneIsFinite, FreshIsFresh
<1>2. NoId \in Ids
  BY DEF Ids
<1>. QED
  BY <1>1, <1>2 DEF NewChild, NewNode, Widget, Nodes

LEMMA AddedChild ==
  ASSUME NEW u \in Scenes, Distinct(u), NEW n \in Nodes, n.name \notin Live(u)
  PROVE  LET v == AddChild(u, n) IN
         /\ v \in Scenes /\ Distinct(v) /\ SameFields(u, v)
         /\ Range(v.tree) = Range(u.tree) \cup {n} /\ Live(v) = Live(u) \cup {n.name}
         /\ \A x \in Live(u) : Node(v, x) = Node(u, x)
         /\ Node(v, n.name) = n
<1>. DEFINE v == AddChild(u, n)
<1>0. u.tree \in Seq(Nodes) /\ \A i \in DOMAIN u.tree : u.tree[i] \in Nodes
  BY DEF Scenes
<1>1. v = [u EXCEPT !.tree = Append(u.tree, n)]
  BY DEF AddChild, Scenes
<1>2. /\ v.tree \in Seq(Nodes) /\ DOMAIN v.tree = 1 .. (Len(u.tree) + 1)
      /\ DOMAIN u.tree = 1 .. Len(u.tree) /\ Len(u.tree) \in Nat
      /\ \A i \in DOMAIN u.tree : v.tree[i] = u.tree[i]
      /\ v.tree[Len(u.tree) + 1] = n
  BY <1>0, <1>1 DEF Scenes
<1>. HIDE DEF v
<1>3. v \in Scenes /\ SameFields(u, v)
  BY <1>1, <1>2 DEF Scenes, SameFields
<1>4. Range(v.tree) = Range(u.tree) \cup {n}
  BY <1>2 DEF Range
<1>5. Live(v) = Live(u) \cup {n.name}
  BY <1>4 DEF Live, Names
<1>6. Distinct(v)
  <2>1. \A i \in DOMAIN u.tree : u.tree[i].name \in Live(u)
    BY DEF Live, Names, Range
  <2>2. \A i, j \in DOMAIN u.tree : v.tree[i].name = v.tree[j].name => i = j
    BY <1>2 DEF Distinct
  <2>3. \A i \in DOMAIN u.tree : v.tree[i].name # n.name
    BY <1>2, <2>1
  <2>4. \A i \in DOMAIN v.tree : i \in DOMAIN u.tree \/ i = Len(u.tree) + 1
    BY <1>2
  <2>. QED
    BY <1>2, <2>2, <2>3, <2>4 DEF Distinct
<1>7. \A x \in Live(u) : Node(v, x) = Node(u, x)
  BY <1>3, <1>4, <1>6, NodeIsThere, NodesAreNamed
<1>8. Node(v, n.name) = n
  BY <1>3, <1>4, <1>6, NodesAreNamed
<1>. QED
  BY <1>3, <1>4, <1>5, <1>6, <1>7, <1>8 DEF v

LEMMA AddedKeeps ==
  ASSUME NEW u, SceneInv(u), NEW n \in Nodes, n.name \notin Live(u), n.data = NoBlob
  PROVE  SceneInv(AddChild(u, n))
<1>. DEFINE v == AddChild(u, n)
<1>. USE DEF SceneInv
<1>1. /\ v \in Scenes /\ Distinct(v) /\ SameFields(u, v)
      /\ Range(v.tree) = Range(u.tree) \cup {n} /\ Live(v) = Live(u) \cup {n.name}
  BY AddedChild
<1>. HIDE DEF v
<1>2. PointersInv(v) /\ KeyboardIsKnown(v)
  BY <1>1 DEF PointersInv, KeyboardIsKnown, SameFields
<1>3. BlobsInv(v)
  BY <1>1 DEF BlobsInv, Blobs, SameFields
<1>. QED
  BY <1>1, <1>2, <1>3 DEF v

-----------------------------------------------------------------------------
(* Nodes that go.                                                           *)

LEMMA RemoveAtIs ==
  ASSUME NEW S, NEW s \in Seq(S), NEW k \in 1 .. Len(s)
  PROVE  LET t == RemoveAt(s, k) IN
         /\ t \in Seq(S) /\ DOMAIN t = 1 .. (Len(s) - 1)
         /\ \A i \in 1 .. (k - 1) : t[i] = s[i]
         /\ \A i \in k .. (Len(s) - 1) : t[i] = s[i + 1]
<1>. DEFINE a == SubSeq(s, 1, k - 1)
            b == SubSeq(s, k + 1, Len(s))
<1>1. a \in Seq(S) /\ Len(a) = k - 1 /\ \A i \in 1 .. (k - 1) : a[i] = s[i]
  OBVIOUS
<1>2. b \in Seq(S) /\ Len(b) = Len(s) - k /\ \A i \in 1 .. (Len(s) - k) : b[i] = s[i + k]
  OBVIOUS
<1>3. RemoveAt(s, k) = a \o b
  BY DEF RemoveAt
<1>. HIDE DEF a, b
<1>4. /\ a \o b \in Seq(S) /\ DOMAIN (a \o b) = 1 .. (Len(s) - 1)
      /\ \A i \in 1 .. (k - 1) : (a \o b)[i] = a[i]
      /\ \A i \in k .. (Len(s) - 1) : (a \o b)[i] = b[i - (k - 1)]
  BY <1>1, <1>2
<1>5. \A i \in k .. (Len(s) - 1) : b[i - (k - 1)] = s[i + 1]
  <2>. TAKE i \in k .. (Len(s) - 1)
  <2>1. i - (k - 1) \in 1 .. (Len(s) - k) /\ i - (k - 1) + k = i + 1
    OBVIOUS
  <2>. QED
    BY <1>2, <2>1
<1>. QED
  BY <1>1, <1>3, <1>4, <1>5

LEMMA RemovedTree ==
  ASSUME NEW u \in Scenes, Distinct(u), NEW x \in Live(u)
  PROVE  LET t == RemoveAt(u.tree, Index(u, x)) IN
         /\ t \in Seq(Nodes)
         /\ \A i, j \in DOMAIN t : t[i].name = t[j].name => i = j
         /\ Range(t) = Range(u.tree) \ {Node(u, x)}
<1>. DEFINE s == u.tree
            k == Index(u, x)
            n == Len(s)
            t == RemoveAt(s, k)
<1>1. s \in Seq(Nodes) /\ n \in Nat /\ DOMAIN s = 1 .. n
  BY DEF Scenes
<1>2. k \in 1 .. n /\ s[k] = Node(u, x)
  BY <1>1, NodeIsThere
<1>3. \A i, j \in 1 .. n : s[i].name = s[j].name => i = j
  BY <1>1 DEF Distinct
<1>. HIDE DEF s, k
<1>4. /\ t \in Seq(Nodes) /\ DOMAIN t = 1 .. (n - 1)
      /\ \A i \in 1 .. (k - 1) : t[i] = s[i]
      /\ \A i \in k .. (n - 1) : t[i] = s[i + 1]
  BY <1>1, <1>2, RemoveAtIs
<1>. HIDE DEF t, n
<1>5. \A i \in 1 .. (n - 1) : \/ i \in 1 .. (k - 1) /\ t[i] = s[i]
                              \/ i \in k .. (n - 1) /\ t[i] = s[i + 1]
  BY <1>1, <1>2, <1>4
<1>6. \A i, j \in 1 .. (n - 1) : t[i].name = t[j].name => i = j
  <2>1. \A i \in 1 .. (n - 1) : \E p \in 1 .. n :
          t[i] = s[p] /\ ((i < k /\ p = i) \/ (i >= k /\ p = i + 1))
    <3>. TAKE i \in 1 .. (n - 1)
    <3>1. i \in 1 .. n /\ i + 1 \in 1 .. n
      BY <1>1
    <3>2. CASE i \in 1 .. (k - 1) /\ t[i] = s[i]
      <4>1. i < k
        BY <1>2, <3>2
      <4>. QED
        BY <3>1, <3>2, <4>1
    <3>3. CASE i \in k .. (n - 1) /\ t[i] = s[i + 1]
      <4>1. i >= k
        BY <1>2, <3>3
      <4>. QED
        BY <3>1, <3>3, <4>1
    <3>. QED
      BY <1>5, <3>2, <3>3
  <2>. SUFFICES ASSUME NEW i \in 1 .. (n - 1), NEW j \in 1 .. (n - 1),
                       t[i].name = t[j].name
                PROVE  i = j
    OBVIOUS
  <2>2. PICK p \in 1 .. n : t[i] = s[p] /\ ((i < k /\ p = i) \/ (i >= k /\ p = i + 1))
    BY <2>1
  <2>3. PICK q \in 1 .. n : t[j] = s[q] /\ ((j < k /\ q = j) \/ (j >= k /\ q = j + 1))
    BY <2>1
  <2>4. p = q
    BY <1>3, <2>2, <2>3
  <2>. QED
    BY <1>1, <1>2, <2>2, <2>3, <2>4
<1>7. ASSUME NEW m \in Range(t) PROVE m \in Range(s) \ {s[k]}
  <2>1. PICK i \in 1 .. (n - 1) : m = t[i]
    BY <1>4 DEF Range
  <2>2. PICK j \in 1 .. n : j # k /\ m = s[j]
    BY <1>1, <1>2, <1>5, <2>1
  <2>. QED
    BY <1>1, <1>2, <1>3, <2>2 DEF Range
<1>8. ASSUME NEW m \in Range(s) \ {s[k]} PROVE m \in Range(t)
  <2>1. PICK j \in 1 .. n : m = s[j] /\ j # k
    BY <1>1 DEF Range
  <2>2. CASE j < k
    <3>1. j \in 1 .. (k - 1) /\ j \in 1 .. (n - 1)
      BY <1>1, <1>2, <2>1, <2>2
    <3>. QED
      BY <1>4, <2>1, <3>1 DEF Range
  <2>3. CASE j > k
    <3>1. j - 1 \in k .. (n - 1) /\ (j - 1) + 1 = j /\ j - 1 \in 1 .. (n - 1)
      BY <1>1, <1>2, <2>1, <2>3
    <3>2. t[j - 1] = s[j]
      BY <1>4, <3>1
    <3>. QED
      BY <1>4, <2>1, <3>1, <3>2 DEF Range
  <2>. QED
    BY <1>1, <1>2, <2>1, <2>2, <2>3
<1>9. \A i, j \in DOMAIN t : t[i].name = t[j].name => i = j
  BY <1>4, <1>6
<1>. QED
  BY <1>2, <1>4, <1>7, <1>8, <1>9 DEF s, t, k

LEMMA FreedScene ==
  ASSUME NEW w \in Scenes, NEW nodes
  PROVE  LET v == Freed(w, nodes)
             gone == {n.name : n \in nodes}
         IN  /\ v \in Scenes /\ Gentle(w, v) /\ SameTexts(w, v)
             /\ v.focus = (IF w.focus \in gone THEN NoNode ELSE w.focus)
             /\ v.pressed = (IF w.pressed \in gone THEN NoNode ELSE w.pressed)
             /\ v.hover = (IF w.hover \in gone THEN NoNode ELSE w.hover)
             /\ v.overlay = (IF w.overlay \in gone THEN NoNode ELSE w.overlay)
             /\ v.keyboard = (IF w.keyboard \in gone THEN Dangling ELSE w.keyboard)
             /\ v.blobs = w.blobs \ Blobs(nodes)
             /\ v.enabled = w.enabled /\ v.crashed = w.crashed
             /\ v.bared = (w.bared \/ w.overlay \in gone)
             /\ v.asked = (w.asked /\ w.keyboard \notin gone)
<1>. DEFINE gone == {n.name : n \in nodes}
            w1 == [w EXCEPT !.asked = FALSE]
            y == IF w.keyboard \in gone THEN NoneLate(w1) ELSE w
            v == Freed(w, nodes)
<1>0. /\ w1 \in Scenes /\ w1.tree = w.tree /\ w1.focus = w.focus /\ w1.pressed = w.pressed
      /\ w1.hover = w.hover /\ w1.overlay = w.overlay /\ w1.keyboard = w.keyboard
      /\ w1.enabled = w.enabled /\ w1.blobs = w.blobs /\ w1.bared = w.bared
      /\ w1.crashed = w.crashed /\ w1.asked = FALSE
  BY DEF Scenes
<1>. HIDE DEF w1
<1>1. /\ y \in Scenes /\ Gentle(w, y) /\ SameTexts(w, y)
      /\ y.focus = w.focus /\ y.pressed = w.pressed /\ y.hover = w.hover
      /\ y.overlay = w.overlay /\ y.keyboard = w.keyboard /\ y.enabled = w.enabled
      /\ y.blobs = w.blobs /\ y.bared = w.bared /\ y.crashed = w.crashed
      /\ y.asked = (w.asked /\ w.keyboard \notin gone)
  <2>1. CASE w.keyboard \notin gone
    BY <2>1 DEF Gentle, Alike, SameTexts, Scenes
  <2>2. CASE w.keyboard \in gone
    <3>1. y = NoneLate(w1)
      BY <2>2
    <3>2. /\ y \in Scenes /\ Gentle(w1, y) /\ SameFields(w1, y) /\ SameTexts(w1, y)
          /\ y.crashed = w1.crashed
      BY <1>0, <3>1, NoneLateKeeps
    <3>3. Gentle(w, y) /\ SameTexts(w, y)
      BY <1>0, <3>2 DEF Gentle, Alike, SameTexts
    <3>. QED
      BY <1>0, <2>2, <3>2, <3>3 DEF SameFields
  <2>. QED
    BY <2>1, <2>2
<1>2. v = [y EXCEPT !.focus = IF @ \in gone THEN NoNode ELSE @,
                    !.pressed = IF @ \in gone THEN NoNode ELSE @,
                    !.hover = IF @ \in gone THEN NoNode ELSE @,
                    !.overlay = IF @ \in gone THEN NoNode ELSE @,
                    !.bared = @ \/ w.overlay \in gone,
                    !.short = @ /\ w.overlay \notin gone,
                    !.blobs = @ \ Blobs(nodes),
                    !.keyboard = IF @ \in gone THEN Dangling ELSE @]
  BY DEF Freed, w1
<1>. HIDE DEF y, v, gone
<1>3. /\ v.tree = y.tree
      /\ v.focus = (IF y.focus \in gone THEN NoNode ELSE y.focus)
      /\ v.pressed = (IF y.pressed \in gone THEN NoNode ELSE y.pressed)
      /\ v.hover = (IF y.hover \in gone THEN NoNode ELSE y.hover)
      /\ v.overlay = (IF y.overlay \in gone THEN NoNode ELSE y.overlay)
      /\ v.keyboard = (IF y.keyboard \in gone THEN Dangling ELSE y.keyboard)
      /\ v.blobs = y.blobs \ Blobs(nodes)
      /\ v.enabled = y.enabled /\ v.crashed = y.crashed /\ v.asked = y.asked
      /\ v.bared = (y.bared \/ w.overlay \in gone)
      /\ v.short = (y.short /\ w.overlay \notin gone)
  BY <1>1, <1>2 DEF Scenes
<1>4. v \in Scenes
  <2>1. NoNode \in Pointers /\ Dangling \in Pointers \cup {Dangling}
    BY DEF Pointers
  <2>2. y.blobs \ Blobs(nodes) \in SUBSET Nat
    BY <1>1 DEF Scenes
  <2>3. /\ v.tree \in Seq(Nodes) /\ v.focus \in Pointers /\ v.pressed \in Pointers
        /\ v.hover \in Pointers /\ v.overlay \in Pointers
        /\ v.keyboard \in Pointers \cup {Dangling} /\ v.enabled \in BOOLEAN
        /\ v.blobs \in SUBSET Nat /\ v.crashed \in BOOLEAN /\ v.asked \in BOOLEAN
        /\ v.bared \in BOOLEAN /\ v.short \in BOOLEAN
    BY <1>1, <1>3, <2>1, <2>2 DEF Scenes
  <2>4. v = [tree |-> v.tree, focus |-> v.focus, pressed |-> v.pressed, hover |-> v.hover,
             overlay |-> v.overlay, short |-> v.short, bared |-> v.bared,
             asked |-> v.asked, keyboard |-> v.keyboard, enabled |-> v.enabled,
             blobs |-> v.blobs, crashed |-> v.crashed]
    BY <1>1, <1>2 DEF Scenes
  <2>. QED
    BY <2>3, <2>4 DEF Scenes
<1>5. Gentle(w, v) /\ SameTexts(w, v)
  BY <1>1, <1>3 DEF Gentle, Alike, SameTexts
<1>. QED
  BY <1>1, <1>3, <1>4, <1>5 DEF v, gone

(* Everything but x is there, as it was.                                    *)
AllBut(u, x, v) ==
  /\ v \in Scenes /\ Distinct(v) /\ Live(v) = Live(u) \ {x}
  /\ \A n \in Range(v.tree) :
       /\ n.name \in Live(u) \ {x}
       /\ n.type = Node(u, n.name).type /\ n.data = Node(u, n.name).data
       /\ n.laid = Node(u, n.name).laid
       /\ n.type = "popup" => n.open = Node(u, n.name).open
  /\ v.focus = (IF u.focus = x THEN NoNode ELSE u.focus)
  /\ v.pressed = (IF u.pressed = x THEN NoNode ELSE u.pressed)
  /\ v.hover = (IF u.hover = x THEN NoNode ELSE u.hover)
  /\ v.overlay = (IF u.overlay = x THEN NoNode ELSE u.overlay)
  /\ v.keyboard = (IF u.keyboard = x THEN Dangling ELSE u.keyboard)
  /\ v.blobs = u.blobs \ Blobs({Node(u, x)})
  /\ v.enabled = u.enabled /\ v.crashed = u.crashed
  /\ v.bared = (u.bared \/ u.overlay = x)
  /\ v.asked = (u.asked /\ u.keyboard # x)

LEMMA RemovedIs ==
  ASSUME NEW u \in Scenes, Distinct(u), NEW x \in Live(u)
  PROVE  AllBut(u, x, Removed(u, x))
<1>. DEFINE t == RemoveAt(u.tree, Index(u, x))
            w == [u EXCEPT !.tree = t]
            v == Removed(u, x)
<1>1. /\ t \in Seq(Nodes)
      /\ \A i, j \in DOMAIN t : t[i].name = t[j].name => i = j
      /\ Range(t) = Range(u.tree) \ {Node(u, x)}
  BY RemovedTree
<1>2. v = Freed(w, {Node(u, x)})
  BY DEF Removed, Scenes
<1>. HIDE DEF t, v
<1>3. w \in Scenes /\ w.tree = t /\ SameFields(u, w) /\ w.crashed = u.crashed
  BY <1>1 DEF Scenes, SameFields
<1>. HIDE DEF w
<1>4. Distinct(w)
  BY <1>1, <1>3 DEF Distinct
<1>5. {n.name : n \in {Node(u, x)}} = {x}
  BY NodeIsThere
<1>6. /\ v \in Scenes /\ Gentle(w, v) /\ Alike(w, v)
      /\ v.focus = (IF u.focus = x THEN NoNode ELSE u.focus)
      /\ v.pressed = (IF u.pressed = x THEN NoNode ELSE u.pressed)
      /\ v.hover = (IF u.hover = x THEN NoNode ELSE u.hover)
      /\ v.overlay = (IF u.overlay = x THEN NoNode ELSE u.overlay)
      /\ v.keyboard = (IF u.keyboard = x THEN Dangling ELSE u.keyboard)
      /\ v.blobs = u.blobs \ Blobs({Node(u, x)})
      /\ v.enabled = u.enabled /\ v.crashed = u.crashed
      /\ v.bared = (u.bared \/ u.overlay = x)
      /\ v.asked = (u.asked /\ u.keyboard # x)
  <2>. DEFINE gone == {n.name : n \in {Node(u, x)}}
  <2>1. /\ v \in Scenes /\ Gentle(w, v)
        /\ v.focus = (IF w.focus \in gone THEN NoNode ELSE w.focus)
        /\ v.pressed = (IF w.pressed \in gone THEN NoNode ELSE w.pressed)
        /\ v.hover = (IF w.hover \in gone THEN NoNode ELSE w.hover)
        /\ v.overlay = (IF w.overlay \in gone THEN NoNode ELSE w.overlay)
        /\ v.keyboard = (IF w.keyboard \in gone THEN Dangling ELSE w.keyboard)
        /\ v.blobs = w.blobs \ Blobs({Node(u, x)})
        /\ v.enabled = w.enabled /\ v.crashed = w.crashed
        /\ v.bared = (w.bared \/ w.overlay \in gone)
        /\ v.asked = (w.asked /\ w.keyboard \notin gone)
    BY <1>2, <1>3, FreedScene
  <2>2. \A y : y \in gone <=> y = x
    BY <1>5
  <2>. HIDE DEF gone
  <2>. QED
    BY <1>3, <2>1, <2>2 DEF SameFields, Gentle
<1>7. Live(w) = Live(u) \ {x} /\ \A y \in Live(w) : Node(w, y) = Node(u, y)
  <2>1. \A m \in Range(u.tree) : m # Node(u, x) <=> m.name # x
    BY NodesAreNamed, NodeIsThere
  <2>2. Live(w) = Live(u) \ {x}
    BY <1>1, <1>3, <2>1 DEF Live, Names
  <2>3. ASSUME NEW y \in Live(w) PROVE Node(w, y) = Node(u, y)
    <3>1. Node(w, y) \in Range(u.tree) /\ Node(w, y).name = y
      BY <1>1, <1>3, NodeIsThere
    <3>. QED
      BY <3>1, NodesAreNamed
  <2>. QED
    BY <2>2, <2>3
<1>8. Distinct(v) /\ Live(v) = Live(w)
  BY <1>3, <1>4, <1>6, AlikeTrees
<1>9. ASSUME NEW n \in Range(v.tree)
      PROVE  /\ n.name \in Live(w)
             /\ n.type = Node(w, n.name).type /\ n.data = Node(w, n.name).data
             /\ n.laid = Node(w, n.name).laid
             /\ n.type = "popup" => n.open = Node(w, n.name).open
  <2>1. PICK i \in DOMAIN w.tree : n = v.tree[i]
    BY <1>6 DEF Range, Alike
  <2>2. w.tree[i] \in Range(w.tree)
    BY DEF Range
  <2>3. Node(w, w.tree[i].name) = w.tree[i] /\ w.tree[i].name \in Live(w)
    BY <1>3, <1>4, <2>2, NodesAreNamed
  <2>. QED
    BY <1>6, <2>1, <2>3 DEF Gentle, Alike
<1>. QED
  BY <1>6, <1>7, <1>8, <1>9 DEF AllBut, v

LEMMA RemovedKeeps ==
  ASSUME NEW u, SceneInv(u), NEW x \in Live(u), NEW v, AllBut(u, x, v)
  PROVE  /\ SceneInv(v)
         /\ OnlyKeyboard(u) => OnlyKeyboard(v)
         /\ ModalInv(u) => ModalInv(v)
<1>. USE DEF SceneInv
<1>1. \A y \in Live(v) : /\ y \in Live(u)
                         /\ Node(v, y).type = Node(u, y).type /\ Node(v, y).laid = Node(u, y).laid
                         /\ Node(v, y).type = "popup" => Node(v, y).open = Node(u, y).open
  BY NodeIsThere DEF AllBut
<1>2. \A y, type : IsA(v, y, type) <=> y # x /\ IsA(u, y, type)
  BY <1>1 DEF IsA, AllBut
<1>3. PointersInv(v) /\ KeyboardIsKnown(v)
  BY DEF PointersInv, KeyboardIsKnown, AllBut
<1>4. BlobsInv(v)
  <2>1. ASSUME NEW m \in Range(v.tree), NEW n \in Range(v.tree), m.data = n.data, m.data # NoBlob
        PROVE  m = n
    <3>1. Node(u, m.name) = Node(u, n.name)
      BY <2>1, NodeIsThere DEF BlobsInv, AllBut
    <3>2. m.name = n.name
      BY <3>1, NodeIsThere DEF AllBut
    <3>. QED
      BY <3>2, OneNodePerName DEF AllBut
  <2>2. ASSUME NEW b \in Blobs(Range(v.tree)) PROVE b \in v.blobs
    <3>1. PICK n \in Range(v.tree) : b = n.data /\ b # NoBlob
      BY DEF Blobs
    <3>2. /\ Node(u, n.name) \in Range(u.tree) /\ Node(u, n.name).data = b
          /\ Node(u, n.name).name # x
      BY <3>1, NodeIsThere DEF AllBut
    <3>3. b \in u.blobs
      BY <3>1, <3>2 DEF BlobsInv, Blobs
    <3>4. Node(u, x) \in Range(u.tree) /\ Node(u, x) # Node(u, n.name)
      BY <3>2, NodeIsThere
    <3>5. Node(u, x).data # b
      BY <3>1, <3>2, <3>4 DEF BlobsInv
    <3>. QED
      BY <3>3, <3>5 DEF Blobs, AllBut
  <2>3. ASSUME NEW b \in v.blobs PROVE b \in Blobs(Range(v.tree))
    <3>1. PICK n \in Range(u.tree) : b = n.data /\ b # NoBlob
      BY DEF Blobs, BlobsInv, AllBut
    <3>2. Node(u, n.name) = n /\ n.name \in Live(u) /\ n # Node(u, x)
      BY <3>1, NodesAreNamed DEF AllBut, Blobs
    <3>3. n.name \in Live(v)
      BY <3>2, NodeIsThere DEF AllBut
    <3>4. Node(v, n.name) \in Range(v.tree) /\ Node(v, n.name).data = n.data
      BY <3>2, <3>3, NodeIsThere DEF AllBut
    <3>. QED
      BY <3>1, <3>4 DEF Blobs
  <2>. QED
    BY <2>1, <2>2, <2>3 DEF BlobsInv
<1>5. ASSUME OnlyKeyboard(u) PROVE OnlyKeyboard(v)
  <2>. SUFFICES ASSUME NEW n \in Range(v.tree), n.type = "keyboard" PROVE n.name = v.keyboard
    BY DEF OnlyKeyboard
  <2>. QED
    BY <1>5, NodeIsThere DEF OnlyKeyboard, AllBut
<1>6. ASSUME ModalInv(u) PROVE ModalInv(v)
  <2>. SUFFICES ASSUME OnScreen(v) # {}, ~v.bared PROVE IsA(v, v.overlay, "popup")
    BY DEF ModalInv
  <2>1. PICK n \in OnScreen(v) : TRUE
    OBVIOUS
  <2>2. Node(u, n.name) \in OnScreen(u)
    BY <2>1, NodeIsThere DEF OnScreen, AllBut
  <2>3. ~u.bared /\ u.overlay # x
    BY DEF AllBut
  <2>. QED
    BY <1>2, <1>6, <2>2, <2>3 DEF ModalInv, AllBut
<1>. QED
  BY <1>3, <1>4, <1>5, <1>6 DEF AllBut

(* Nothing is left.                                                         *)
LEMMA UprootedKeeps ==
  ASSUME NEW u \in Scenes
  PROVE  LET v == Uprooted(u) IN
         SceneInv(v) /\ KeyboardInv(v) /\ ModalInv(v) /\ v.tree = <<>> /\ v.crashed = u.crashed
<1>. DEFINE v == Uprooted(u)
<1>1. /\ v \in Scenes /\ v.tree = <<>> /\ v.blobs = {} /\ v.keyboard = NoNode
      /\ v.focus = NoNode /\ v.pressed = NoNode /\ v.hover = NoNode /\ v.overlay = NoNode
      /\ v.crashed = u.crashed
  <2>1. <<>> \in Seq(Nodes) /\ {} \in SUBSET Nat
    OBVIOUS
  <2>. QED
    BY <2>1 DEF Uprooted, Scenes, Pointers
<1>. HIDE DEF v
<1>2. Range(v.tree) = {} /\ DOMAIN v.tree = {}
  BY <1>1 DEF Range
<1>3. Live(v) = {} /\ Blobs(Range(v.tree)) = {}
  BY <1>2 DEF Live, Names, Blobs
<1>4. SceneInv(v)
  BY <1>1, <1>2, <1>3 DEF SceneInv, Distinct, PointersInv, BlobsInv, KeyboardIsKnown
<1>5. KeyboardInv(v) /\ ModalInv(v)
  BY <1>2, <1>3 DEF KeyboardInv, OnlyKeyboard, ModalInv, OnScreen
<1>. QED
  BY <1>1, <1>4, <1>5 DEF v

-----------------------------------------------------------------------------
(* The keyboard and the focus.                                              *)

LEMMA SameTree ==
  ASSUME NEW u, NEW v, v.tree = u.tree
  PROVE  /\ Live(v) = Live(u) /\ Range(v.tree) = Range(u.tree)
         /\ \A x : Node(v, x) = Node(u, x)
         /\ \A x, type : IsA(v, x, type) <=> IsA(u, x, type)
         /\ OnScreen(v) = OnScreen(u) /\ (Distinct(v) <=> Distinct(u))
         /\ v.overlay = u.overlay /\ (u.bared => v.bared) /\ ModalInv(u) => ModalInv(v)
<1>1. Live(v) = Live(u) /\ \A x : Node(v, x) = Node(u, x)
  BY DEF Live, Node, Index
<1>2. \A x, type : IsA(v, x, type) <=> IsA(u, x, type)
  BY <1>1 DEF IsA
<1>3. OnScreen(v) = OnScreen(u) /\ (Distinct(v) <=> Distinct(u))
  BY DEF OnScreen, Distinct
<1>. QED
  BY <1>1, <1>2, <1>3 DEF ModalInv

LEMMA AddedIsModal ==
  ASSUME NEW u, SceneInv(u), NEW n \in Nodes, n.name \notin Live(u), ~n.laid,
         NEW v \in Scenes, v.tree = AddChild(u, n).tree,
         v.overlay = u.overlay, v.bared = u.bared, ModalInv(u)
  PROVE  ModalInv(v)
<1>1. u \in Scenes /\ Distinct(u)
  BY DEF SceneInv
<1>2. /\ Range(v.tree) = Range(u.tree) \cup {n} /\ Live(v) = Live(u) \cup {n.name}
      /\ \A x \in Live(u) : Node(v, x) = Node(u, x)
  BY <1>1, AddedChild, SameTree
<1>3. OnScreen(v) = OnScreen(u)
  BY <1>2 DEF OnScreen
<1>. QED
  BY <1>2, <1>3 DEF ModalInv, IsA

LEMMA ShowKeeps ==
  ASSUME NEW u, SceneInv(u)
  PROVE  LET v == ShowKeyboard(u) IN
         /\ SceneInv(v) /\ v.focus = u.focus
         /\ ModalInv(u) => ModalInv(v)
         /\ OnlyKeyboard(u) => OnlyKeyboard(v)
         /\ OnlyKeyboard(u) /\ Wanted(u) => KeyboardInv(v)
         /\ Range(u.tree) \subseteq Range(v.tree)
         /\ \A n \in Range(v.tree) : n \in Range(u.tree) \/ n.id = NoId
         /\ SameTypes(u, v)
<1>. DEFINE kb == NewChild(u, "keyboard")
            w == AddChild(u, kb)
            v == ShowKeyboard(u)
<1>1. CASE u.keyboard # NoNode \/ u.tree = <<>>
  <2>1. SameTypes(u, u)
    BY NodesAreNamed DEF SameTypes, SceneInv
  <2>. QED
    BY <1>1, <2>1 DEF ShowKeyboard, KeyboardInv
<1>2. CASE u.keyboard = NoNode /\ u.tree # <<>>
  <2>0. u \in Scenes /\ Distinct(u)
    BY DEF SceneInv
  <2>1. /\ kb \in Nodes /\ kb.name \notin Live(u) /\ kb.type = "keyboard" /\ kb.data = NoBlob
        /\ ~kb.laid /\ ~kb.open /\ kb.id = NoId
    BY <2>0, NewChildIsNew DEF WidgetTypes
  <2>2. v = [w EXCEPT !.keyboard = kb.name]
    BY <1>2 DEF ShowKeyboard
  <2>. HIDE DEF kb, w, v
  <2>3. /\ w \in Scenes /\ SceneInv(w) /\ Distinct(w) /\ SameFields(u, w)
        /\ Range(w.tree) = Range(u.tree) \cup {kb} /\ Live(w) = Live(u) \cup {kb.name}
        /\ \A x \in Live(u) : Node(w, x) = Node(u, x)
    BY <2>0, <2>1, AddedChild, AddedKeeps DEF w
  <2>4. kb.name \in Nat
    BY <2>1 DEF Nodes
  <2>5. /\ v \in Scenes /\ v.tree = w.tree /\ v.focus = u.focus /\ v.pressed = u.pressed
        /\ v.hover = u.hover /\ v.overlay = u.overlay /\ v.keyboard = kb.name
        /\ v.enabled = u.enabled /\ v.blobs = u.blobs
        /\ v.bared = u.bared /\ v.asked = u.asked
    BY <2>2, <2>3, <2>4 DEF Scenes, SameFields, Pointers
  <2>6. SceneInv(v)
    BY <2>3, <2>5, SameTree DEF SceneInv, PointersInv, BlobsInv, KeyboardIsKnown, SameFields
  <2>7. ModalInv(u) => ModalInv(v)
    BY <2>1, <2>5, AddedIsModal DEF w
  <2>8. ASSUME OnlyKeyboard(u) PROVE OnlyKeyboard(v)
    <3>1. \A n \in Range(u.tree) : n.type # "keyboard"
      BY <1>2, <2>0, <2>8, NodesAreNamed, NothingIsNotLive DEF OnlyKeyboard
    <3>. QED
      BY <2>3, <2>5, <3>1 DEF OnlyKeyboard
  <2>9. ASSUME Wanted(u) PROVE Wanted(v)
    <3>1. IsA(u, u.focus, "input") => IsA(v, v.focus, "input")
      BY <2>3, <2>5, SameTree DEF IsA
    <3>. QED
      BY <2>5, <2>9, <3>1 DEF Wanted
  <2>10. OnlyKeyboard(u) /\ Wanted(u) => KeyboardInv(v)
    BY <2>8, <2>9 DEF KeyboardInv
  <2>11. SameTypes(u, v)
    BY <2>0, <2>1, <2>3, <2>5, NodesAreNamed DEF SameTypes
  <2>. QED
    BY <2>1, <2>3, <2>5, <2>6, <2>7, <2>8, <2>10, <2>11 DEF v
<1>. QED
  BY <1>1, <1>2

LEMMA AskKeeps ==
  ASSUME NEW u, SceneInv(u)
  PROVE  Keeps(u, AskKeyboard(u)) /\ SameTypes(u, AskKeyboard(u))
<1>. DEFINE v == ShowKeyboard(u)
            w == AskKeyboard(u)
<1>1. /\ SceneInv(v) /\ (ModalInv(u) => ModalInv(v))
      /\ OnlyKeyboard(u) => OnlyKeyboard(v)
      /\ SameTypes(u, v)
  BY ShowKeeps
<1>2. w = [v EXCEPT !.asked = u.asked \/ v # u]
  BY DEF AskKeyboard
<1>3. CASE v = u
  <2>1. u \in Scenes
    BY DEF SceneInv
  <2>2. w = u
    BY <1>2, <1>3, <2>1 DEF Scenes
  <2>. QED
    BY <1>1, <1>3, <2>2, KeepsItself
<1>4. CASE v # u
  <2>. HIDE DEF v, w
  <2>1. /\ w \in Scenes /\ w.tree = v.tree /\ w.focus = v.focus /\ w.pressed = v.pressed
        /\ w.hover = v.hover /\ w.overlay = v.overlay /\ w.keyboard = v.keyboard
        /\ w.enabled = v.enabled /\ w.blobs = v.blobs
        /\ w.bared = v.bared /\ w.asked = TRUE
    BY <1>1, <1>2, <1>4 DEF SceneInv, Scenes
  <2>2. SceneInv(w) /\ (ModalInv(v) => ModalInv(w))
    BY <1>1, <2>1, SameTree DEF SceneInv, PointersInv, BlobsInv, KeyboardIsKnown
  <2>3. OnlyKeyboard(v) => KeyboardInv(w)
    BY <2>1 DEF KeyboardInv, OnlyKeyboard, Wanted
  <2>4. SameTypes(u, w)
    BY <1>1, <2>1 DEF SameTypes
  <2>. QED
    BY <1>1, <2>2, <2>3, <2>4 DEF Keeps, KeyboardInv, w
<1>. QED
  BY <1>3, <1>4

LEMMA HideKeeps ==
  ASSUME NEW u, SceneInv(u), NEW v \in HideKeyboard(u)
  PROVE  /\ SceneInv(v)
         /\ ModalInv(u) => ModalInv(v)
         /\ OnlyKeyboard(u) => KeyboardInv(v)
         /\ SameTypes(u, v)
<1>. DEFINE u1 == [u EXCEPT !.keyboard = NoNode, !.asked = FALSE]
            w == NoneLate(u1)
            late == {n.name : n \in {m \in Range(u.tree) : m.late}}
<1>0. u \in Scenes /\ Distinct(u)
  BY DEF SceneInv
<1>1. /\ u1 \in Scenes /\ u1.tree = u.tree /\ u1.keyboard = NoNode
      /\ u1.focus = u.focus /\ u1.pressed = u.pressed /\ u1.hover = u.hover
      /\ u1.overlay = u.overlay /\ u1.enabled = u.enabled /\ u1.blobs = u.blobs
      /\ u1.bared = u.bared
  BY <1>0 DEF Scenes, Pointers
<1>2. SceneInv(u1)
  BY <1>1, SameTree DEF SceneInv, PointersInv, BlobsInv, KeyboardIsKnown
<1>3. ModalInv(u) => ModalInv(u1)
  BY <1>1, SameTree
<1>. HIDE DEF u1
<1>4. w \in Scenes /\ Gentle(u1, w) /\ SameFields(u1, w)
  BY <1>1, NoneLateKeeps
<1>. HIDE DEF w
<1>5. SceneInv(w) /\ (ModalInv(u) => ModalInv(w))
  BY <1>2, <1>3, <1>4, GentleKeeps DEF Keeps
<1>6. Live(w) = Live(u) /\ \A n \in Range(w.tree) : n.type = Node(u, n.name).type
  BY <1>0, <1>1, <1>4, SameTree, AlikeTrees DEF Gentle
<1>7. ASSUME OnlyKeyboard(u), NEW n \in Range(w.tree), n.type = "keyboard"
      PROVE  n.name = u.keyboard
  <2>1. n.name \in Live(u)
    BY <1>4, <1>5, <1>6, NodesAreNamed DEF SceneInv
  <2>. QED
    BY <1>0, <1>6, <1>7, <2>1, NodeIsThere DEF OnlyKeyboard
<1>8. w.keyboard = NoNode /\ NoNode \notin Live(w)
  BY <1>1, <1>4, NothingIsNotLive DEF SameFields
<1>9. ASSUME NEW x \in Live(w)
      PROVE  LET r == Removed(w, x) IN
             /\ SceneInv(r) /\ r.keyboard = NoNode /\ NoNode \notin Live(r)
             /\ (ModalInv(u) => ModalInv(r))
             /\ \A n \in Range(r.tree) : n.name # x /\ n.name \in Live(w)
                                         /\ n.type = Node(w, n.name).type
  <2>. DEFINE r == Removed(w, x)
  <2>1. AllBut(w, x, r)
    BY <1>4, <1>5, RemovedIs DEF SceneInv
  <2>. HIDE DEF r
  <2>2. r.keyboard = NoNode /\ NoNode \notin Live(r)
    BY <1>8, <2>1, NothingIsNotLive DEF AllBut
  <2>3. SceneInv(r) /\ (ModalInv(u) => ModalInv(r))
    BY <1>5, <2>1, RemovedKeeps
  <2>4. \A n \in Range(r.tree) : n.name # x /\ n.name \in Live(w) /\ n.type = Node(w, n.name).type
    BY <2>1 DEF AllBut
  <2>. QED
    BY <2>2, <2>3, <2>4 DEF r
<1>13. ASSUME \A n \in Range(v.tree) : n.name \in Live(w) /\ n.type = Node(w, n.name).type
       PROVE  SameTypes(u, v)
  <2>. SUFFICES ASSUME NEW n \in Range(v.tree) PROVE n.type = Node(u, n.name).type
    BY DEF SameTypes
  <2>1. n.name \in Live(w) /\ n.type = Node(w, n.name).type
    BY <1>13
  <2>2. Node(w, n.name) \in Range(w.tree) /\ Node(w, n.name).name = n.name
    BY <1>4, <2>1, NodeIsThere
  <2>. QED
    BY <1>6, <2>1, <2>2
<1>10. CASE u.keyboard = NoNode
  <2>1. v = u
    BY <1>0, <1>10, NothingIsNotLive, SceneAssumption DEF HideKeyboard, SceneAssumption
  <2>2. SameTypes(u, u)
    BY <1>0, NodesAreNamed DEF SameTypes
  <2>. QED
    BY <1>0, <1>10, <2>1, <2>2, NothingIsNotLive DEF KeyboardInv
<1>11. CASE u.keyboard \in Live(u)
  <2>1. v = Removed(w, u.keyboard)
    BY <1>0, <1>11, NothingIsNotLive, SceneAssumption DEF HideKeyboard, SceneAssumption, w, u1
  <2>2. ASSUME OnlyKeyboard(u) PROVE KeyboardInv(v)
    <3>1. ASSUME NEW n \in Range(v.tree) PROVE n.type # "keyboard"
      <4>1. n.name # u.keyboard /\ n.name \in Live(w) /\ n.type = Node(w, n.name).type
        BY <1>6, <1>9, <1>11, <2>1
      <4>2. Node(w, n.name) \in Range(w.tree) /\ Node(w, n.name).name = n.name
        BY <1>4, <4>1, NodeIsThere
      <4>. QED
        BY <1>7, <2>2, <4>1, <4>2
    <3>. QED
      BY <1>6, <1>9, <1>11, <2>1, <3>1 DEF KeyboardInv, OnlyKeyboard
  <2>. QED
    BY <1>6, <1>9, <1>11, <1>13, <2>1, <2>2
<1>12. CASE u.keyboard = Dangling
  <2>1. \/ v = w \/ v = [w EXCEPT !.crashed = TRUE]
        \/ v = Uprooted(w)
        \/ \E x \in late : v = Removed(w, x)
    BY <1>0, <1>12, NothingIsNotLive, SceneAssumption DEF HideKeyboard, SceneAssumption, w, u1
  <2>2. ASSUME OnlyKeyboard(u), NEW n \in Range(w.tree) PROVE n.type # "keyboard"
    BY <1>0, <1>4, <1>5, <1>6, <1>7, <1>12, <2>2, NothingIsNotLive, NodesAreNamed DEF SceneInv
  <2>3. ASSUME v.tree = w.tree, SameFields(w, v), v \in Scenes
        PROVE  /\ SceneInv(v) /\ (ModalInv(u) => ModalInv(v))
               /\ OnlyKeyboard(u) => KeyboardInv(v)
               /\ SameTypes(u, v)
    <3>1. SceneInv(v) /\ (ModalInv(u) => ModalInv(v))
      BY <1>5, <2>3, SameTree
      DEF SceneInv, PointersInv, BlobsInv, KeyboardIsKnown, SameFields
    <3>2. OnlyKeyboard(u) => KeyboardInv(v)
      BY <1>8, <2>2, <2>3, SameTree DEF KeyboardInv, OnlyKeyboard, SameFields
    <3>3. SameTypes(u, v)
      BY <1>6, <2>3 DEF SameTypes
    <3>. QED
      BY <3>1, <3>2, <3>3
  <2>4. CASE v = w
    BY <1>4, <2>3, <2>4 DEF SameFields
  <2>5. CASE v = [w EXCEPT !.crashed = TRUE]
    <3>1. v.tree = w.tree /\ SameFields(w, v) /\ v \in Scenes
      BY <1>4, <2>5 DEF SameFields, Scenes
    <3>. QED
      BY <2>3, <3>1
  <2>7. CASE v = Uprooted(w)
    BY <1>4, <2>7, UprootedKeeps DEF SameTypes, Range
  <2>6. CASE \E x \in late : v = Removed(w, x)
    <3>1. PICK x \in late : v = Removed(w, x)
      BY <2>6
    <3>2. x \in Live(w)
      BY <1>6 DEF Live, Names
    <3>3. ASSUME OnlyKeyboard(u) PROVE KeyboardInv(v)
      <4>1. ASSUME NEW n \in Range(v.tree) PROVE n.type # "keyboard"
        <5>1. n.name \in Live(w) /\ n.type = Node(w, n.name).type
          BY <1>9, <3>1, <3>2
        <5>2. Node(w, n.name) \in Range(w.tree)
          BY <1>4, <5>1, NodeIsThere
        <5>. QED
          BY <2>2, <3>3, <5>1, <5>2
      <4>. QED
        BY <1>9, <3>1, <3>2, <4>1 DEF KeyboardInv, OnlyKeyboard
    <3>. QED
      BY <1>9, <1>13, <3>1, <3>2, <3>3
  <2>. QED
    BY <2>1, <2>4, <2>5, <2>6, <2>7
<1>. QED
  BY <1>10, <1>11, <1>12 DEF SceneInv, KeyboardIsKnown

LEMMA SetFocusKeeps ==
  ASSUME NEW u, SceneInv(u), NEW x \in Live(u) \cup {NoNode}, NEW v \in SetFocus(u, x)
  PROVE  /\ SceneInv(v)
         /\ ModalInv(u) => ModalInv(v)
         /\ KeyboardInv(u) => KeyboardInv(v)
<1>. DEFINE w == [u EXCEPT !.focus = x]
<1>0. u \in Scenes /\ Distinct(u)
  BY DEF SceneInv
<1>1. x \in Pointers
  BY <1>0, NodeIsThere DEF Pointers
<1>2. /\ w \in Scenes /\ w.tree = u.tree /\ w.focus = x /\ w.pressed = u.pressed
      /\ w.hover = u.hover /\ w.overlay = u.overlay /\ w.keyboard = u.keyboard
      /\ w.enabled = u.enabled /\ w.blobs = u.blobs
      /\ w.bared = u.bared /\ w.asked = u.asked
  BY <1>0, <1>1 DEF Scenes
<1>3. SetFocus(u, x) =
        IF u.focus = x \/ ~u.enabled \/ IsA(u, u.focus, "input") = IsA(u, x, "input") THEN {w}
        ELSE IF IsA(u, x, "input") THEN {ShowKeyboard(w)} ELSE HideKeyboard(w)
  BY DEF SetFocus
<1>. HIDE DEF w
<1>4. SceneInv(w)
  BY <1>2, SameTree DEF SceneInv, PointersInv, BlobsInv, KeyboardIsKnown
<1>5. ModalInv(u) => ModalInv(w)
  BY <1>2, SameTree
<1>6. OnlyKeyboard(u) => OnlyKeyboard(w)
  BY <1>2 DEF OnlyKeyboard
<1>7. \A y, type : IsA(w, y, type) <=> IsA(u, y, type)
  BY <1>2, SameTree
<1>8. CASE v = w /\ (u.focus = x \/ ~u.enabled \/ (IsA(u, u.focus, "input") <=> IsA(u, x, "input")))
  <2>1. KeyboardInv(u) => KeyboardInv(v)
    BY <1>2, <1>6, <1>7, <1>8, SameTree DEF KeyboardInv, Wanted
  <2>. QED
    BY <1>4, <1>5, <1>8, <2>1
<1>9. CASE v = ShowKeyboard(w) /\ u.enabled /\ IsA(u, x, "input")
  BY <1>2, <1>4, <1>5, <1>6, <1>7, <1>9, ShowKeeps DEF KeyboardInv, Wanted
<1>10. CASE v \in HideKeyboard(w)
  BY <1>4, <1>5, <1>6, <1>10, HideKeeps DEF KeyboardInv
<1>11. IsA(u, u.focus, "input") \in BOOLEAN /\ IsA(u, x, "input") \in BOOLEAN
  BY DEF IsA
<1>. QED
  BY <1>0, <1>3, <1>8, <1>9, <1>10, <1>11 DEF Scenes

-----------------------------------------------------------------------------
(* Text, popups and frames.                                                 *)

LEMMA RetouchedKeeps ==
  ASSUME NEW u, SceneInv(u), NEW n \in Nodes, n.name \in Live(u),
         n.type = Node(u, n.name).type, n.data = Node(u, n.name).data,
         n.laid = Node(u, n.name).laid,
         n.type = "popup" => n.open = Node(u, n.name).open
  PROVE  /\ Keeps(u, Changed(u, n)) /\ Live(Changed(u, n)) = Live(u)
         /\ SameFields(u, Changed(u, n)) /\ Node(Changed(u, n), n.name) = n
         /\ \A x, type : IsA(Changed(u, n), x, type) <=> IsA(u, x, type)
<1>1. u \in Scenes /\ Distinct(u)
  BY DEF SceneInv
<1>2. /\ Changed(u, n) \in Scenes /\ Gentle(u, Changed(u, n)) /\ SameFields(u, Changed(u, n))
      /\ Alike(u, Changed(u, n)) /\ Node(Changed(u, n), n.name) = n
  BY <1>1, ChangedNode
<1>. QED
  BY <1>1, <1>2, GentleKeeps, AlikeTrees

LEMMA TypeKeeps ==
  ASSUME NEW u, SceneInv(u), NEW key, NEW v \in Type(u, key)
  PROVE  Keeps(u, v)
<1>. DEFINE n == Node(u, u.focus)
<1>0. u \in Scenes
  BY DEF SceneInv
<1>1. CASE v = u
  BY <1>1, KeepsItself
<1>2. CASE IsA(u, u.focus, "input") /\ \E t \in {"edited", "empty"} : v = Changed(u, [n EXCEPT !.text = t])
  <2>1. PICK t \in {"edited", "empty"} : v = Changed(u, [n EXCEPT !.text = t])
    BY <1>2
  <2>2. n \in Nodes /\ n.name = u.focus /\ u.focus \in Live(u)
    BY <1>0, <1>2, NodeIsThere DEF IsA
  <2>3. LET m == [n EXCEPT !.text = t] IN
        /\ m \in Nodes /\ m.name = n.name /\ m.type = n.type /\ m.data = n.data
        /\ m.laid = n.laid /\ m.open = n.open
    BY <2>2 DEF Nodes
  <2>. QED
    BY <2>1, <2>2, <2>3, RetouchedKeeps
<1>. QED
  BY <1>1, <1>2 DEF Type

LEMMA LaidOutKeeps ==
  ASSUME NEW u, SceneInv(u), NEW v \in LaidOut(u)
  PROVE  Keeps(u, v)
<1>. DEFINE y == EachNode(u, LAMBDA m : [m EXCEPT !.laid = TRUE])
            w == [y EXCEPT !.bared = FALSE]
            S == OpenPopups(w)
            top == w.tree[Greatest(S)].name
<1>0. u \in Scenes /\ Distinct(u) /\ u.tree \in Seq(Nodes)
      /\ \A i \in DOMAIN u.tree : u.tree[i] \in Nodes
  BY DEF SceneInv, Scenes
<1>1. y = [u EXCEPT !.tree = [i \in DOMAIN u.tree |-> [u.tree[i] EXCEPT !.laid = TRUE]]]
  BY <1>0 DEF EachNode, Scenes
<1>2. LaidOut(u) = IF {w.tree[i].name : i \in S} = {} THEN {w}
                   ELSE IF {w.tree[i].name : i \in S} = {u.overlay}
                     THEN {[w EXCEPT !.short = b] : b \in BOOLEAN}
                   ELSE {[w EXCEPT !.overlay = top, !.short = FALSE]}
  BY DEF LaidOut
<1>3. \A i \in DOMAIN u.tree : [u.tree[i] EXCEPT !.laid = TRUE] \in Nodes
  BY <1>0 DEF Nodes
<1>. HIDE DEF y
<1>4. /\ y.tree \in Seq(Nodes) /\ DOMAIN y.tree = DOMAIN u.tree
      /\ \A i \in DOMAIN u.tree : y.tree[i] = [u.tree[i] EXCEPT !.laid = TRUE]
  BY <1>0, <1>1, <1>3 DEF Scenes
<1>5. y \in Scenes /\ SameFields(u, y)
  BY <1>0, <1>1, <1>4 DEF Scenes, SameFields
<1>6. Alike(u, y)
  BY <1>0, <1>4 DEF Alike, Nodes
<1>7. SceneInv(y) /\ (KeyboardInv(u) => KeyboardInv(y))
  BY <1>0, <1>5, <1>6, AlikeKeeps
<1>8. /\ w \in Scenes /\ w.tree = y.tree /\ w.focus = y.focus /\ w.pressed = y.pressed
      /\ w.hover = y.hover /\ w.overlay = u.overlay /\ w.keyboard = y.keyboard
      /\ w.blobs = y.blobs /\ w.enabled = y.enabled /\ w.asked = y.asked
  BY <1>5 DEF Scenes, SameFields
<1>. HIDE DEF w
<1>9. w.tree \in Seq(Nodes) /\ Distinct(w)
  BY <1>7, <1>8, SameTree DEF SceneInv, Scenes
<1>10. S \in SUBSET Nat /\ \A i \in S : i <= Len(w.tree)
  BY <1>9 DEF OpenPopups
<1>11. ASSUME S # {} PROVE Greatest(S) \in S
  <2>1. \E i \in S : \A j \in S : j <= i
    <3>. DEFINE T == {Len(w.tree) - i : i \in S}
    <3>1. T \in SUBSET Nat /\ T # {} /\ Len(w.tree) \in Nat
      BY <1>9, <1>10, <1>11
    <3>2. PICK m \in T : \A k \in T : m <= k
      BY <3>1, NatLeast
    <3>3. PICK i \in S : m = Len(w.tree) - i
      BY <3>2
    <3>4. \A j \in S : m <= Len(w.tree) - j
      BY <3>2
    <3>5. ASSUME NEW j \in S PROVE j <= i
      <4>1. i \in Nat /\ j \in Nat
        BY <1>10
      <4>2. Len(w.tree) - i <= Len(w.tree) - j
        BY <3>3, <3>4
      <4>. QED
        BY <3>1, <4>1, <4>2
    <3>. QED
      BY <3>5
  <2>. QED
    BY <2>1 DEF Greatest
<1>12. ASSUME NEW i \in S
       PROVE  IsA(w, w.tree[i].name, "popup") /\ w.tree[i].name \in Live(w)
              /\ w.tree[i].name \in Nat
  <2>1. i \in DOMAIN w.tree /\ w.tree[i].type = "popup" /\ w.tree[i] \in Range(w.tree)
    BY DEF OpenPopups, Range
  <2>2. Node(w, w.tree[i].name) = w.tree[i] /\ w.tree[i].name \in Live(w)
    BY <1>8, <1>9, <2>1, NodesAreNamed
  <2>. QED
    BY <1>8, <2>1, <2>2, NodeIsThere DEF IsA
<1>13. S = {} => OnScreen(w) = {}
  BY DEF OnScreen, OpenPopups, Range
<1>. HIDE DEF S
<1>14. ASSUME S # {} PROVE IsA(w, top, "popup") /\ top \in Live(w) /\ top \in Nat
  BY <1>11, <1>12, <1>14
<1>15. ASSUME {w.tree[i].name : i \in S} = {u.overlay}
       PROVE  IsA(w, u.overlay, "popup")
  <2>1. PICK i \in S : u.overlay = w.tree[i].name
    BY <1>15
  <2>. QED
    BY <1>12, <2>1
<1>. HIDE DEF top
<1>16. /\ v \in Scenes /\ v.tree = w.tree /\ v.focus = w.focus /\ v.pressed = w.pressed
       /\ v.hover = w.hover /\ v.keyboard = w.keyboard /\ v.blobs = w.blobs
       /\ v.enabled = w.enabled /\ v.asked = w.asked
       /\ v.overlay = u.overlay \/ (v.overlay = top /\ S # {})
       /\ S = {} \/ IsA(w, v.overlay, "popup")
  <2>0. \/ S = {} /\ v = w
        \/ S # {} /\ {w.tree[i].name : i \in S} = {u.overlay}
                  /\ \E b \in BOOLEAN : v = [w EXCEPT !.short = b]
        \/ S # {} /\ v = [w EXCEPT !.overlay = top, !.short = FALSE]
    <3>. DEFINE open == {w.tree[i].name : i \in S}
    <3>1. open = {} <=> S = {}
      OBVIOUS
    <3>. HIDE DEF open
    <3>2. CASE open = {}
      BY <1>2, <3>1, <3>2 DEF open
    <3>3. CASE open # {} /\ open = {u.overlay}
      BY <1>2, <3>1, <3>3, Zenon DEF open
    <3>4. CASE open # {} /\ open # {u.overlay}
      BY <1>2, <3>1, <3>4, Zenon DEF open
    <3>. QED
      BY <3>2, <3>3, <3>4
  <2>1. CASE S = {} /\ v = w
    BY <1>8, <2>1
  <2>2. CASE S # {} /\ {w.tree[i].name : i \in S} = {u.overlay}
                /\ \E b \in BOOLEAN : v = [w EXCEPT !.short = b]
    <3>1. PICK b \in BOOLEAN : v = [w EXCEPT !.short = b]
      BY <2>2
    <3>. QED
      BY <1>8, <1>15, <2>2, <3>1 DEF Scenes
  <2>3. CASE S # {} /\ v = [w EXCEPT !.overlay = top, !.short = FALSE]
    BY <1>8, <1>14, <2>3 DEF Scenes, Pointers
  <2>. QED
    BY <2>0, <2>1, <2>2, <2>3
<1>17. v.overlay \in Live(w) \cup {NoNode} /\ Live(w) = Live(y)
  BY <1>5, <1>7, <1>8, <1>14, <1>16, SameTree DEF SceneInv, PointersInv, SameFields
<1>18. SceneInv(v) /\ (KeyboardInv(u) => KeyboardInv(v))
  BY <1>7, <1>8, <1>16, <1>17, SameTree
  DEF SceneInv, PointersInv, BlobsInv, KeyboardIsKnown, KeyboardInv, OnlyKeyboard, Wanted
<1>19. ModalInv(v)
  BY <1>13, <1>16, SameTree DEF ModalInv
<1>. QED
  BY <1>18, <1>19 DEF Keeps

-----------------------------------------------------------------------------
(* The host and the popups.                                                *)

(* Fields that change, in a tree that stays.                                *)
LEMMA RepointedKeeps ==
  ASSUME NEW u, SceneInv(u), NEW v \in Scenes, v.tree = u.tree, v.blobs = u.blobs,
         v.keyboard = u.keyboard,
         {v.focus, v.pressed, v.hover, v.overlay} \subseteq Live(u) \cup {NoNode}
  PROVE  /\ SceneInv(v)
         /\ OnlyKeyboard(u) => OnlyKeyboard(v)
         /\ v.focus = u.focus /\ (u.enabled => v.enabled) /\ v.asked = u.asked
              => (KeyboardInv(u) => KeyboardInv(v))
         /\ v.overlay = u.overlay /\ (u.bared => v.bared) => (ModalInv(u) => ModalInv(v))
<1>1. SceneInv(v)
  BY SameTree DEF SceneInv, PointersInv, BlobsInv, KeyboardIsKnown
<1>2. OnlyKeyboard(u) => OnlyKeyboard(v)
  BY DEF OnlyKeyboard
<1>3. v.focus = u.focus /\ (u.enabled => v.enabled) /\ v.asked = u.asked
        => (KeyboardInv(u) => KeyboardInv(v))
  BY <1>2, SameTree DEF KeyboardInv, Wanted
<1>. QED
  BY <1>1, <1>2, <1>3, SameTree

LEMMA PopupConfirmKeeps ==
  ASSUME NEW u, SceneInv(u), NEW v, v = PopupConfirm(u)
  PROVE  Keeps(u, v) /\ SameTypes(u, v)
<1>. DEFINE c == NewChild(u, "popup")
            n == [c EXCEPT !.open = TRUE, !.once = TRUE]
            w == AddChild(u, n)
<1>0. u \in Scenes /\ Distinct(u)
  BY DEF SceneInv
<1>1. CASE u.tree = <<>>
  <2>1. v = u
    BY <1>1 DEF PopupConfirm
  <2>. QED
    BY <1>0, <2>1, KeepsItself, NodesAreNamed DEF SameTypes
<1>2. CASE u.tree # <<>>
  <2>1. c \in Nodes /\ c.name \notin Live(u) /\ c.type = "popup" /\ c.data = NoBlob
    BY <1>0, NewChildIsNew DEF WidgetTypes
  <2>2. v = [w EXCEPT !.overlay = n.name, !.bared = FALSE, !.short = FALSE]
    BY <1>2 DEF PopupConfirm
  <2>. HIDE DEF c
  <2>3. n \in Nodes /\ n.name = c.name /\ n.type = "popup" /\ n.data = NoBlob
    BY <2>1 DEF Nodes
  <2>. HIDE DEF n
  <2>4. /\ w \in Scenes /\ Distinct(w) /\ SameFields(u, w)
        /\ Range(w.tree) = Range(u.tree) \cup {n} /\ Live(w) = Live(u) \cup {n.name}
        /\ \A y \in Live(u) : Node(w, y) = Node(u, y)
        /\ Node(w, n.name) = n
    BY <1>0, <2>1, <2>3, AddedChild
  <2>5. SceneInv(w)
    BY <2>1, <2>3, AddedKeeps
  <2>. HIDE DEF w
  <2>6. n.name \in Pointers
    BY <2>3 DEF Nodes, Pointers
  <2>7. /\ v \in Scenes /\ v.tree = w.tree /\ v.blobs = w.blobs /\ v.keyboard = w.keyboard
        /\ v.pressed = w.pressed /\ v.focus = w.focus /\ v.hover = w.hover
        /\ v.overlay = n.name /\ v.enabled = w.enabled /\ v.asked = w.asked
    BY <2>2, <2>4, <2>6 DEF Scenes
  <2>8. {v.focus, v.pressed, v.hover, v.overlay} \subseteq Live(w) \cup {NoNode}
    BY <2>4, <2>5, <2>7 DEF SceneInv, PointersInv
  <2>9. KeyboardInv(u) => KeyboardInv(w)
    <3>. SUFFICES ASSUME KeyboardInv(u) PROVE KeyboardInv(w)
      OBVIOUS
    <3>1. OnlyKeyboard(w)
      BY <2>3, <2>4 DEF KeyboardInv, OnlyKeyboard, SameFields
    <3>2. ASSUME w.keyboard \in Live(w) PROVE w.keyboard \in Live(u)
      <4>1. u.keyboard \in Live(u) \cup {NoNode, Dangling}
        BY DEF SceneInv, KeyboardIsKnown
      <4>. QED
        BY <2>4, <3>2, <4>1, NothingIsNotLive DEF SameFields
    <3>. QED
      BY <2>4, <3>1, <3>2 DEF KeyboardInv, SameFields, IsA, Wanted
  <2>10. SceneInv(v) /\ (KeyboardInv(u) => KeyboardInv(v))
    BY <2>5, <2>7, <2>8, <2>9, RepointedKeeps
  <2>11. IsA(v, v.overlay, "popup")
    BY <2>3, <2>4, <2>7, SameTree DEF IsA
  <2>12. SameTypes(u, v)
    BY <1>0, <2>1, <2>3, <2>4, <2>7, NodesAreNamed DEF SameTypes
  <2>. QED
    BY <2>10, <2>11, <2>12 DEF Keeps, ModalInv
<1>. QED
  BY <1>1, <1>2

LEMMA ToggleKeeps ==
  ASSUME NEW u, SceneInv(u), NEW v \in ToggleKeyboard(u)
  PROVE  Keeps(u, v) /\ SameTypes(u, v)
<1>0. u \in Scenes /\ {u.focus, u.pressed, u.hover, u.overlay} \subseteq Live(u) \cup {NoNode}
  BY DEF SceneInv, PointersInv
<1>1. \A b \in BOOLEAN : LET w == [u EXCEPT !.enabled = b] IN
        /\ w \in Scenes /\ w.tree = u.tree /\ w.blobs = u.blobs /\ w.keyboard = u.keyboard
        /\ w.pressed = u.pressed /\ w.focus = u.focus /\ w.hover = u.hover
        /\ w.overlay = u.overlay /\ w.bared = u.bared /\ w.asked = u.asked
        /\ w.enabled = b
  BY <1>0 DEF Scenes
<1>2. CASE u.enabled /\ v \in HideKeyboard([u EXCEPT !.enabled = FALSE])
  <2>. DEFINE w == [u EXCEPT !.enabled = FALSE]
  <2>1. /\ w \in Scenes /\ w.tree = u.tree /\ w.blobs = u.blobs /\ w.keyboard = u.keyboard
        /\ w.pressed = u.pressed /\ w.focus = u.focus /\ w.hover = u.hover
        /\ w.overlay = u.overlay /\ w.bared = u.bared
    BY <1>1
  <2>2. v \in HideKeyboard(w)
    BY <1>2
  <2>. HIDE DEF w
  <2>3. SceneInv(w) /\ (OnlyKeyboard(u) => OnlyKeyboard(w)) /\ (ModalInv(u) => ModalInv(w))
    BY <1>0, <2>1, RepointedKeeps
  <2>4. /\ SceneInv(v) /\ (ModalInv(w) => ModalInv(v)) /\ (OnlyKeyboard(w) => KeyboardInv(v))
        /\ SameTypes(w, v)
    BY <2>2, <2>3, HideKeeps
  <2>5. SameTypes(u, v)
    BY <2>1, <2>4, SameTree DEF SameTypes
  <2>. QED
    BY <2>3, <2>4, <2>5 DEF Keeps, KeyboardInv
<1>3. CASE v = [u EXCEPT !.enabled = TRUE]
  <2>1. /\ v \in Scenes /\ v.tree = u.tree /\ v.blobs = u.blobs /\ v.keyboard = u.keyboard
        /\ v.pressed = u.pressed /\ v.focus = u.focus /\ v.hover = u.hover
        /\ v.overlay = u.overlay /\ v.bared = u.bared /\ v.asked = u.asked
        /\ v.enabled = TRUE
    BY <1>1, <1>3
  <2>2. SameTypes(u, v)
    BY <2>1, NodesAreNamed DEF SameTypes, SceneInv
  <2>. QED
    BY <1>0, <2>1, <2>2, RepointedKeeps DEF Keeps
<1>. QED
  BY <1>2, <1>3 DEF ToggleKeyboard

LEMMA HandledKeeps ==
  ASSUME NEW u, SceneInv(u), NEW v \in Handled(u)
  PROVE  Keeps(u, v) /\ SameTypes(u, v)
<1>1. CASE v = u
  BY <1>1, KeepsItself, NodesAreNamed DEF SameTypes, SceneInv
<1>2. CASE v \in HideKeyboard(u)
  BY <1>2, HideKeeps DEF Keeps, KeyboardInv
<1>3. CASE v \in ToggleKeyboard(u)
  BY <1>3, ToggleKeeps
<1>4. CASE v = PopupConfirm(u)
  BY <1>4, PopupConfirmKeeps
<1>5. CASE v = AskKeyboard(u)
  BY <1>5, AskKeeps
<1>. QED
  BY <1>1, <1>2, <1>3, <1>4, <1>5 DEF Handled

LEMMA FinalizeKeeps ==
  ASSUME NEW u, SceneInv(u), IsA(u, u.overlay, "popup"), NEW v \in FinalizeClose(u, u.overlay)
  PROVE  Keeps(u, v)
<1>. DEFINE x == u.overlay
            n == [Node(u, x) EXCEPT !.open = FALSE]
            w == Changed(u, n)
            y == [w EXCEPT !.overlay = NoNode, !.bared = TRUE, !.short = FALSE]
<1>0. u \in Scenes /\ Distinct(u) /\ x \in Live(u)
  BY DEF SceneInv, IsA
<1>1. /\ n \in Nodes /\ n.name = x /\ n.type = "popup"
      /\ n.type = Node(u, x).type /\ n.data = Node(u, x).data
  <2>1. Node(u, x) \in Nodes /\ Node(u, x).name = x /\ Node(u, x).type = "popup"
    BY <1>0, NodeIsThere DEF IsA
  <2>2. \A m \in Nodes : LET k == [m EXCEPT !.open = FALSE] IN
           k \in Nodes /\ k.name = m.name /\ k.type = m.type /\ k.data = m.data
    BY DEF Nodes
  <2>. QED
    BY <2>1, <2>2
<1>2. \/ v = u
      \/ \E z \in Handled(y) : \/ v = [z EXCEPT !.crashed = TRUE]
                               \/ x \in Live(z) /\ v = Removed(z, x)
                               \/ v = z
  BY DEF FinalizeClose
<1>3. w \in Scenes /\ Alike(u, w) /\ SameFields(u, w)
  BY <1>0, <1>1, ChangedNode
<1>4. /\ SceneInv(w) /\ (KeyboardInv(u) => KeyboardInv(w)) /\ Live(w) = Live(u)
      /\ \A t, type : IsA(w, t, type) <=> IsA(u, t, type)
  BY <1>0, <1>3, AlikeKeeps, AlikeTrees
<1>. HIDE DEF w, n
<1>5. /\ y \in Scenes /\ y.tree = w.tree /\ y.focus = w.focus /\ y.pressed = w.pressed
      /\ y.hover = w.hover /\ y.overlay = NoNode /\ y.keyboard = w.keyboard
      /\ y.blobs = w.blobs /\ y.enabled = w.enabled /\ y.asked = w.asked /\ y.bared
  BY <1>3 DEF Scenes, Pointers
<1>. HIDE DEF y
<1>6. {y.focus, y.pressed, y.hover, y.overlay} \subseteq Live(w) \cup {NoNode}
  BY <1>4, <1>5 DEF SceneInv, PointersInv
<1>7. SceneInv(y) /\ (KeyboardInv(u) => KeyboardInv(y)) /\ ModalInv(y)
  BY <1>4, <1>5, <1>6, RepointedKeeps DEF ModalInv
<1>8. /\ x \in Live(y) /\ Node(y, x).type = "popup"
  BY <1>0, <1>4, <1>5, SameTree DEF IsA
<1>9. CASE v = u
  BY <1>9, KeepsItself
<1>10. ASSUME NEW z \in Handled(y),
              v = [z EXCEPT !.crashed = TRUE] \/ (x \in Live(z) /\ v = Removed(z, x)) \/ v = z
       PROVE  Keeps(u, v)
  <2>1. Keeps(y, z) /\ SameTypes(y, z)
    BY <1>7, HandledKeeps
  <2>2. Keeps(u, z)
    BY <1>7, <2>1 DEF Keeps
  <2>3. CASE v = [z EXCEPT !.crashed = TRUE]
    <3>1. /\ v \in Scenes /\ v.tree = z.tree /\ v.blobs = z.blobs /\ v.keyboard = z.keyboard
          /\ v.pressed = z.pressed /\ v.focus = z.focus /\ v.hover = z.hover
          /\ v.overlay = z.overlay /\ v.enabled = z.enabled
          /\ v.bared = z.bared /\ v.asked = z.asked
      BY <2>1, <2>3 DEF Keeps, SceneInv, Scenes
    <3>2. {v.focus, v.pressed, v.hover, v.overlay} \subseteq Live(z) \cup {NoNode}
      BY <2>1, <3>1 DEF Keeps, SceneInv, PointersInv
    <3>. QED
      BY <2>2, <3>1, <3>2, RepointedKeeps DEF Keeps
  <2>4. CASE x \in Live(z) /\ v = Removed(z, x)
    <3>. DEFINE r == Removed(z, x)
    <3>0. z \in Scenes /\ Distinct(z) /\ SceneInv(z)
      BY <2>2 DEF Keeps, SceneInv
    <3>1. AllBut(z, x, r)
      BY <2>4, <3>0, RemovedIs
    <3>. HIDE DEF r
    <3>2. SceneInv(r) /\ (OnlyKeyboard(z) => OnlyKeyboard(r)) /\ (ModalInv(z) => ModalInv(r))
      BY <2>4, <3>0, <3>1, RemovedKeeps
    <3>3. Node(z, x).type = "popup"
      BY <1>8, <2>1, <2>4, <3>0, NodeIsThere DEF SameTypes
    <3>4. ASSUME KeyboardInv(z) PROVE KeyboardInv(r)
      <4>. SUFFICES ASSUME r.keyboard \in Live(r) PROVE Wanted(r)
        BY <3>2, <3>4 DEF KeyboardInv
      <4>1. r.keyboard = z.keyboard /\ z.keyboard \in Live(z) /\ z.keyboard # x
        BY <3>0, <3>1, NothingIsNotLive DEF AllBut
      <4>2. Wanted(z)
        BY <3>4, <4>1 DEF KeyboardInv
      <4>3. CASE z.asked
        BY <3>1, <4>1, <4>3 DEF Wanted, AllBut
      <4>4. CASE z.enabled /\ IsA(z, z.focus, "input")
        <5>1. z.focus # x
          BY <3>3, <4>4 DEF IsA
        <5>2. r.focus = z.focus /\ z.focus \in Live(r) /\ r.enabled
          BY <3>1, <4>4, <5>1 DEF AllBut, IsA
        <5>3. Node(r, r.focus).type = "input"
          BY <3>1, <4>4, <5>2, NodeIsThere DEF AllBut, IsA
        <5>. QED
          BY <5>2, <5>3 DEF Wanted, IsA
      <4>. QED
        BY <4>2, <4>3, <4>4 DEF Wanted
    <3>. QED
      BY <2>2, <2>4, <3>2, <3>4 DEF Keeps, r
  <2>. QED
    BY <1>10, <2>2, <2>3, <2>4
<1>. QED
  BY <1>2, <1>9, <1>10

LEMMA FrameKeeps ==
  ASSUME NEW u, SceneInv(u), NEW v \in FrameOf(u)
  PROVE  Keeps(u, v)
<1>1. PICK y \in LaidOut(u) : \E w \in Repeated(y) : v \in Drawn(w)
  BY DEF FrameOf
<1>2. PICK w \in Repeated(y) : v \in Drawn(w)
  BY <1>1
<1>3. Keeps(u, y)
  BY LaidOutKeeps
<1>4. Keeps(y, w)
  <2>1. SceneInv(y)
    BY <1>3 DEF Keeps
  <2>2. w = y \/ w \in Type(y, "backspace")
    BY <1>2 DEF Repeated
  <2>. QED
    BY <2>1, <2>2, KeepsItself, TypeKeeps
<1>5. Keeps(w, v)
  BY <1>2, <1>4, FinalizeKeeps, KeepsItself DEF Drawn, Keeps
<1>. QED
  BY <1>3, <1>4, <1>5, KeepsIsTransitive

-----------------------------------------------------------------------------
(* The pointer.                                                            *)

LEMMA PlacesAreLive ==
  ASSUME NEW u \in Scenes, NEW p \in Places(u)
  PROVE  /\ p.node \in Live(u) \cup {NoNode}
         /\ (\A n \in Range(u.tree) : ~n.laid) => p.node = NoNode
<1>1. \/ p = Nowhere
      \/ \E n \in Range(u.tree) : n.laid /\ p.node = n.name
  BY DEF Places
<1>. QED
  BY <1>1 DEF Nowhere, Live, Names

LEMMA HitIsLive ==
  ASSUME NEW u, SceneInv(u), NEW p \in Places(u)
  PROVE  HitTest(u, p) \in Live(u) \cup {NoNode}
BY PlacesAreLive DEF HitTest, IsA, SceneInv

LEMMA PressedKeeps ==
  ASSUME NEW u, SceneInv(u), NEW p \in Places(u)
  PROVE  Keeps(u, [u EXCEPT !.pressed = HitTest(u, p)])
<1>. DEFINE x == HitTest(u, p)
            v == [u EXCEPT !.pressed = x]
<1>0. u \in Scenes
  BY DEF SceneInv
<1>1. x \in Live(u) \cup {NoNode}
  BY HitIsLive
<1>2. x \in Pointers
  BY <1>0, <1>1, NodeIsThere DEF Pointers
<1>. HIDE DEF x
<1>3. /\ v \in Scenes /\ v.tree = u.tree /\ v.blobs = u.blobs /\ v.keyboard = u.keyboard
      /\ v.pressed = x /\ v.focus = u.focus /\ v.hover = u.hover /\ v.overlay = u.overlay
      /\ v.enabled = u.enabled /\ v.bared = u.bared /\ v.asked = u.asked
  BY <1>0, <1>2 DEF Scenes
<1>. HIDE DEF v
<1>4. {v.focus, v.pressed, v.hover, v.overlay} \subseteq Live(u) \cup {NoNode}
  BY <1>1, <1>3 DEF SceneInv, PointersInv
<1>5. Keeps(u, v)
  BY <1>3, <1>4, RepointedKeeps DEF Keeps
<1>. QED
  BY <1>5 DEF v, x

LEMMA WidgetDownKeeps ==
  ASSUME NEW u, SceneInv(u), NEW x, NEW p, NEW v \in WidgetDown(u, x, p)
  PROVE  Keeps(u, v)
<1>. DEFINE n == Node(u, x)
<1>0. u \in Scenes
  BY DEF SceneInv
<1>1. CASE v = [u EXCEPT !.crashed = TRUE]
  <2>1. /\ v \in Scenes /\ v.tree = u.tree /\ v.blobs = u.blobs /\ v.keyboard = u.keyboard
        /\ v.pressed = u.pressed /\ v.focus = u.focus /\ v.hover = u.hover
        /\ v.overlay = u.overlay /\ v.enabled = u.enabled
        /\ v.bared = u.bared /\ v.asked = u.asked
    BY <1>0, <1>1 DEF Scenes
  <2>2. {v.focus, v.pressed, v.hover, v.overlay} \subseteq Live(u) \cup {NoNode}
    BY <2>1 DEF SceneInv, PointersInv
  <2>. QED
    BY <2>1, <2>2, RepointedKeeps DEF Keeps
<1>2. CASE IsA(u, x, "popup") /\ v = PopupDown(u, n, p)
  <2>1. n \in Nodes /\ n.name = x /\ x \in Live(u)
    BY <1>0, <1>2, NodeIsThere DEF IsA
  <2>2. LET m == [n EXCEPT !.closing = TRUE] IN
        /\ m \in Nodes /\ m.name = n.name /\ m.type = n.type /\ m.data = n.data
        /\ m.laid = n.laid /\ m.open = n.open
    BY <2>1 DEF Nodes
  <2>3. v = u \/ v = Changed(u, [n EXCEPT !.closing = TRUE])
    BY <1>2 DEF PopupDown
  <2>. QED
    BY <2>1, <2>2, <2>3, RetouchedKeeps, KeepsItself
<1>3. CASE IsA(u, x, "keyboard") /\ v \in KeyboardDown(u, n, p)
  <2>. DEFINE held == p.part = "backspace"
              m == [n EXCEPT !.held = held]
  <2>1. n \in Nodes /\ n.name = x /\ x \in Live(u)
    BY <1>0, <1>3, NodeIsThere DEF IsA
  <2>2. held \in BOOLEAN
    OBVIOUS
  <2>3. \A b \in BOOLEAN : LET k == [n EXCEPT !.held = b] IN
        /\ k \in Nodes /\ k.name = n.name /\ k.type = n.type /\ k.data = n.data
        /\ k.laid = n.laid /\ k.open = n.open
    BY <2>1 DEF Nodes
  <2>4. v = u \/ v \in Type(Changed(u, m), p.part)
    BY <1>3 DEF KeyboardDown
  <2>. HIDE DEF held
  <2>5. Keeps(u, Changed(u, m))
    BY <2>1, <2>2, <2>3, RetouchedKeeps
  <2>6. ASSUME v \in Type(Changed(u, m), p.part) PROVE Keeps(u, v)
    <3>. HIDE DEF m
    <3>1. SceneInv(Changed(u, m))
      BY <2>5 DEF Keeps
    <3>2. Keeps(Changed(u, m), v)
      BY <2>6, <3>1, TypeKeeps
    <3>. QED
      BY <2>5, <3>2, KeepsIsTransitive
  <2>. QED
    BY <2>4, <2>6, KeepsItself
<1>4. CASE v = u
  BY <1>4, KeepsItself
<1>. QED
  BY <1>1, <1>2, <1>3, <1>4 DEF WidgetDown

LEMMA MouseDownKeeps ==
  ASSUME NEW u, SceneInv(u), NEW p \in Places(u), NEW v \in MouseDown(u, p)
  PROVE  Keeps(u, v)
<1>. DEFINE x == HitTest(u, p)
            w == [u EXCEPT !.pressed = x]
            y == IF IsA(u, x, "input") THEN x ELSE NoNode
<1>1. CASE v \in SetFocus(u, NoNode)
  BY <1>1, SetFocusKeeps DEF Keeps
<1>2. Keeps(u, w)
  BY PressedKeeps
<1>3. y \in Live(w) \cup {NoNode}
  <2>1. Live(w) = Live(u)
    BY SameTree DEF SceneInv, Scenes
  <2>. QED
    BY <2>1 DEF IsA
<1>4. ASSUME NEW z \in {w} \cup SetFocus(w, y), v \in WidgetDown(z, x, p) PROVE Keeps(u, v)
  <2>. HIDE DEF w, y, x
  <2>0. SceneInv(w)
    BY <1>2 DEF Keeps
  <2>1. Keeps(w, z)
    BY <1>3, <1>4, <2>0, SetFocusKeeps, KeepsItself DEF Keeps
  <2>2. Keeps(z, v)
    BY <1>4, <2>1, WidgetDownKeeps DEF Keeps
  <2>. QED
    BY <1>2, <2>1, <2>2, KeepsIsTransitive
<1>. QED
  BY <1>1, <1>4 DEF MouseDown

LEMMA MouseMoveKeeps ==
  ASSUME NEW u, SceneInv(u), NEW p \in Places(u), NEW v \in MouseMove(u, p)
  PROVE  Keeps(u, v)
<1>. DEFINE x == HitTest(u, p)
<1>0. u \in Scenes
  BY DEF SceneInv
<1>1. CASE v = u
  BY <1>1, KeepsItself
<1>2. CASE v \in HideKeyboard(u)
  BY <1>2, HideKeeps DEF Keeps, KeyboardInv
<1>3. CASE v = [u EXCEPT !.hover = x]
  <2>1. x \in Live(u) \cup {NoNode}
    BY HitIsLive
  <2>2. x \in Pointers
    BY <1>0, <2>1, NodeIsThere DEF Pointers
  <2>. HIDE DEF x
  <2>3. /\ v \in Scenes /\ v.tree = u.tree /\ v.blobs = u.blobs /\ v.keyboard = u.keyboard
        /\ v.pressed = u.pressed /\ v.focus = u.focus /\ v.hover = x
        /\ v.overlay = u.overlay /\ v.enabled = u.enabled
        /\ v.bared = u.bared /\ v.asked = u.asked
    BY <1>0, <1>3, <2>2 DEF Scenes
  <2>4. {v.focus, v.pressed, v.hover, v.overlay} \subseteq Live(u) \cup {NoNode}
    BY <2>1, <2>3 DEF SceneInv, PointersInv
  <2>. QED
    BY <2>3, <2>4, RepointedKeeps DEF Keeps
<1>. QED
  BY <1>1, <1>2, <1>3 DEF MouseMove

LEMMA SelectChanged ==
  ASSUME NEW u, SceneInv(u), NEW x \in Live(u), IsA(u, x, "select"), NEW b \in BOOLEAN
  PROVE  LET v == Changed(u, [Node(u, x) EXCEPT !.open = b]) IN
         /\ Keeps(u, v) /\ Live(v) = Live(u) /\ SameFields(u, v) /\ v \in Scenes
         /\ \A y, type : IsA(v, y, type) <=> IsA(u, y, type)
<1>. DEFINE n == [Node(u, x) EXCEPT !.open = b]
            v == Changed(u, n)
<1>1. u \in Scenes /\ Distinct(u)
  BY DEF SceneInv
<1>2. Node(u, x) \in Nodes /\ Node(u, x).name = x /\ Node(u, x).type = "select"
  BY <1>1, NodeIsThere DEF IsA
<1>3. /\ n \in Nodes /\ n.name = x /\ n.type = Node(u, x).type /\ n.data = Node(u, x).data
      /\ n.laid = Node(u, x).laid
  BY <1>2 DEF Nodes
<1>. HIDE DEF n
<1>4. /\ Keeps(u, v) /\ Live(v) = Live(u) /\ SameFields(u, v)
      /\ \A y, type : IsA(v, y, type) <=> IsA(u, y, type)
  BY <1>2, <1>3, RetouchedKeeps
<1>. QED
  BY <1>4 DEF Keeps, SceneInv, n

LEMMA SelectUpKeeps ==
  ASSUME NEW u, SceneInv(u), NEW x \in Live(u), IsA(u, x, "select"), NEW p,
         NEW v, v = SelectUp(u, Node(u, x), p)
  PROVE  Keeps(u, v)
<1>. DEFINE n == Node(u, x)
            itself == Changed(u, [n EXCEPT !.open = FALSE])
            other == Changed(u, [Node(u, u.overlay) EXCEPT !.open = FALSE])
            both(w) == Changed(w, [n EXCEPT !.open = TRUE])
            lost == IsA(u, u.overlay, "popup")
            taken(w) == [w EXCEPT !.overlay = x, !.bared = @ \/ lost, !.short = FALSE]
<1>0. u \in Scenes /\ Distinct(u) /\ n \in Nodes /\ n.name = x /\ n.type = "select"
  BY NodeIsThere DEF SceneInv, IsA
<1>1. ASSUME NEW w, Keeps(u, w), SameFields(u, w), Live(w) = Live(u),
             \A y, type : IsA(w, y, type) <=> IsA(u, y, type),
             v \in Scenes, v.tree = w.tree, v.blobs = w.blobs, v.keyboard = w.keyboard,
             v.pressed = w.pressed, v.focus = w.focus, v.hover = w.hover,
             v.enabled = w.enabled, v.asked = w.asked,
             v.overlay \in {w.overlay, NoNode, x},
             v.bared \/ (~w.bared /\ (v.overlay = w.overlay \/ ~lost))
      PROVE  Keeps(u, v)
  <2>1. {v.focus, v.pressed, v.hover, v.overlay} \subseteq Live(w) \cup {NoNode}
    BY <1>1 DEF Keeps, SceneInv, PointersInv
  <2>2. SceneInv(v) /\ (KeyboardInv(w) => KeyboardInv(v))
    BY <1>1, <2>1, RepointedKeeps DEF Keeps
  <2>3. ASSUME ModalInv(w) PROVE ModalInv(v)
    <3>1. CASE v.bared
      BY <3>1 DEF ModalInv
    <3>2. CASE v.overlay = w.overlay /\ ~w.bared
      BY <1>1, <2>3, <3>2, SameTree
    <3>3. CASE ~w.bared /\ ~lost
      <4>1. OnScreen(w) = {}
        BY <1>1, <2>3, <3>3 DEF ModalInv, SameFields
      <4>. QED
        BY <1>1, <4>1, SameTree DEF ModalInv
    <3>. QED
      BY <1>1, <3>1, <3>2, <3>3
  <2>. QED
    BY <1>1, <2>2, <2>3 DEF Keeps
<1>2. \A b \in BOOLEAN : LET w == Changed(u, [n EXCEPT !.open = b]) IN
         /\ Keeps(u, w) /\ w \in Scenes /\ SameFields(u, w) /\ Live(w) = Live(u)
         /\ \A y, type : IsA(w, y, type) <=> IsA(u, y, type)
  BY SelectChanged
<1>3. ASSUME IsA(u, u.overlay, "select")
      PROVE  /\ Keeps(u, other) /\ other \in Scenes /\ SameFields(u, other) /\ Live(other) = Live(u)
             /\ \A y, type : IsA(other, y, type) <=> IsA(u, y, type)
  <2>1. u.overlay \in Live(u)
    BY <1>3 DEF IsA
  <2>. QED
    BY <1>3, <2>1, SelectChanged
<1>4. ASSUME NEW y, Keeps(u, y), y \in Scenes, SameFields(u, y), Live(y) = Live(u),
             \A z, type : IsA(y, z, type) <=> IsA(u, z, type),
             Node(y, x).data = n.data, Node(y, x).laid = n.laid
      PROVE  LET w == both(y) IN
             /\ Keeps(u, w) /\ w \in Scenes /\ SameFields(u, w) /\ Live(w) = Live(u)
             /\ \A z, type : IsA(w, z, type) <=> IsA(u, z, type)
  <2>. DEFINE m == [n EXCEPT !.open = TRUE]
              w == Changed(y, m)
  <2>1. SceneInv(y) /\ IsA(y, x, "select")
    BY <1>4 DEF Keeps
  <2>2. /\ m \in Nodes /\ m.name = x /\ m.type = "select" /\ m.data = n.data /\ m.laid = n.laid
    BY <1>0 DEF Nodes
  <2>3. Node(y, x).type = "select"
    BY <2>1 DEF IsA
  <2>. HIDE DEF m
  <2>4. /\ Keeps(y, w) /\ Live(w) = Live(y) /\ SameFields(y, w)
        /\ \A z, type : IsA(w, z, type) <=> IsA(y, z, type)
    BY <1>4, <2>1, <2>2, <2>3, RetouchedKeeps
  <2>5. w \in Scenes /\ SameFields(u, w)
    BY <1>4, <2>4 DEF SameFields, Keeps, SceneInv
  <2>. QED
    BY <1>4, <2>4, <2>5, KeepsIsTransitive DEF m
<1>5. ASSUME IsA(u, u.overlay, "select")
      PROVE  Node(other, x).data = n.data /\ Node(other, x).laid = n.laid
  <2>. DEFINE o == Node(u, u.overlay)
              m == [o EXCEPT !.open = FALSE]
  <2>1. o \in Nodes /\ o.name = u.overlay /\ o.type = "select" /\ u.overlay \in Live(u)
    BY <1>0, <1>5, NodeIsThere DEF IsA
  <2>2. m \in Nodes /\ m.name = o.name /\ m.type = o.type /\ m.data = o.data /\ m.laid = o.laid
    BY <2>1 DEF Nodes
  <2>. HIDE DEF m
  <2>3. Gentle(u, Changed(u, m))
    BY <1>0, <2>1, <2>2, ChangedNode
  <2>4. Gentle(u, other) /\ Alike(u, other)
    BY <2>3 DEF m, Gentle
  <2>5. Distinct(other) /\ other \in Scenes
    BY <1>3, <1>5 DEF Keeps, SceneInv
  <2>. HIDE DEF other
  <2>6. Index(other, x) = Index(u, x)
    BY <1>0, <2>4, <2>5, AlikeTrees, NodeIsThere DEF Alike, Distinct
  <2>. QED
    BY <1>0, <2>4, <2>6, NodeIsThere DEF Alike, Gentle, Node
<1>6. \/ IsA(u, u.overlay, "select") /\ v = taken(both(other))
      \/ v = taken(both(u))
      \/ v = [itself EXCEPT !.overlay = IF @ = x THEN NoNode ELSE @]
  BY <1>0 DEF SelectUp
<1>7. ASSUME NEW w, Keeps(u, w), w \in Scenes, SameFields(u, w), Live(w) = Live(u),
             \A z, type : IsA(w, z, type) <=> IsA(u, z, type),
             v = taken(w)
      PROVE  Keeps(u, v)
  <2>1. lost \in BOOLEAN /\ x \in Pointers
    BY <1>0, NodeIsThere DEF IsA, Pointers
  <2>. HIDE DEF lost
  <2>2. /\ v \in Scenes /\ v.tree = w.tree /\ v.blobs = w.blobs /\ v.keyboard = w.keyboard
        /\ v.pressed = w.pressed /\ v.focus = w.focus /\ v.hover = w.hover
        /\ v.enabled = w.enabled /\ v.asked = w.asked
        /\ v.overlay = x /\ v.bared = (w.bared \/ lost)
    BY <1>7, <2>1 DEF Scenes
  <2>. QED
    BY <1>1, <1>7, <2>2
<1>8. CASE IsA(u, u.overlay, "select") /\ v = taken(both(other))
  <2>. HIDE DEF both, other, taken
  <2>. QED
    BY <1>3, <1>4, <1>5, <1>7, <1>8
<1>9. CASE v = taken(both(u))
  <2>1. Keeps(u, u) /\ SameFields(u, u)
    BY KeepsItself DEF SameFields
  <2>. HIDE DEF both, taken
  <2>. QED
    BY <1>0, <1>4, <1>7, <1>9, <2>1
<1>10. CASE v = [itself EXCEPT !.overlay = IF @ = x THEN NoNode ELSE @]
  <2>. DEFINE o == IF itself.overlay = x THEN NoNode ELSE itself.overlay
  <2>1. v = [itself EXCEPT !.overlay = o]
    BY <1>10
  <2>2. /\ Keeps(u, itself) /\ itself \in Scenes /\ SameFields(u, itself)
        /\ Live(itself) = Live(u)
        /\ \A y, type : IsA(itself, y, type) <=> IsA(u, y, type)
    BY <1>2 DEF itself
  <2>. HIDE DEF itself
  <2>3. /\ v \in Scenes /\ v.tree = itself.tree /\ v.blobs = itself.blobs
        /\ v.keyboard = itself.keyboard
        /\ v.pressed = itself.pressed /\ v.focus = itself.focus /\ v.hover = itself.hover
        /\ v.enabled = itself.enabled /\ v.asked = itself.asked
        /\ v.overlay = o /\ v.bared = itself.bared
    BY <2>1, <2>2 DEF Scenes, Pointers
  <2>4. v.overlay = itself.overlay \/ ~lost
    BY <1>0, <2>2, <2>3 DEF IsA, SameFields
  <2>. HIDE DEF lost
  <2>. QED
    BY <1>1, <2>2, <2>3, <2>4
<1>. QED
  BY <1>6, <1>8, <1>9, <1>10

LEMMA WidgetUpKeeps ==
  ASSUME NEW u, SceneInv(u), NEW x \in Live(u), NEW p, NEW v, v = WidgetUp(u, Node(u, x), p)
  PROVE  Keeps(u, v)
<1>. DEFINE n == Node(u, x)
<1>0. u \in Scenes /\ n \in Nodes /\ n.name = x
  BY NodeIsThere DEF SceneInv
<1>1. CASE n.type = "select"
  BY <1>1, SelectUpKeeps DEF WidgetUp, IsA
<1>2. CASE v = Changed(u, [n EXCEPT !.held = FALSE])
  <2>. DEFINE m == [n EXCEPT !.held = FALSE]
  <2>1. /\ m \in Nodes /\ m.name = n.name /\ m.type = n.type /\ m.data = n.data
        /\ m.laid = n.laid /\ m.open = n.open
    BY <1>0 DEF Nodes
  <2>. HIDE DEF m
  <2>2. Keeps(u, Changed(u, m))
    BY <1>0, <2>1, RetouchedKeeps
  <2>. QED
    BY <1>2, <2>2 DEF m
<1>3. CASE v = u
  BY <1>3, KeepsItself
<1>. QED
  BY <1>1, <1>2, <1>3 DEF WidgetUp

LEMMA MouseUpKeeps ==
  ASSUME NEW u, SceneInv(u), NEW p \in Places(u), NEW v \in MouseUp(u, p)
  PROVE  Keeps(u, v)
<1>. DEFINE x == u.pressed
            n == Node(u, x)
            w == WidgetUp(u, n, p)
            Released(y) == [y EXCEPT !.pressed = NoNode, !.crashed = @ \/ x \notin Live(y)]
<1>0. u \in Scenes /\ x \in Live(u) \cup {NoNode}
  BY DEF SceneInv, PointersInv
<1>1. CASE v = u
  BY <1>1, KeepsItself
<1>2. ASSUME NEW y, Keeps(u, y), v = Released(y) PROVE Keeps(u, v)
  <2>. DEFINE c == y.crashed \/ x \notin Live(y)
  <2>1. c \in BOOLEAN
    BY <1>2 DEF Keeps, SceneInv, Scenes
  <2>2. v = [y EXCEPT !.pressed = NoNode, !.crashed = c]
    BY <1>2
  <2>. HIDE DEF c, Released
  <2>3. /\ v \in Scenes /\ v.tree = y.tree /\ v.blobs = y.blobs /\ v.keyboard = y.keyboard
        /\ v.pressed = NoNode /\ v.focus = y.focus /\ v.hover = y.hover
        /\ v.overlay = y.overlay /\ v.enabled = y.enabled
        /\ v.bared = y.bared /\ v.asked = y.asked
    BY <1>2, <2>1, <2>2 DEF Keeps, SceneInv, Scenes, Pointers
  <2>4. {v.focus, v.pressed, v.hover, v.overlay} \subseteq Live(y) \cup {NoNode}
    BY <1>2, <2>3 DEF Keeps, SceneInv, PointersInv
  <2>. QED
    BY <1>2, <2>3, <2>4, RepointedKeeps DEF Keeps
<1>3. CASE x # NoNode
  <2>1. Keeps(u, w) /\ SceneInv(w)
    BY <1>0, <1>3, WidgetUpKeeps DEF Keeps
  <2>2. CASE v = Released(w)
    <3>. HIDE DEF w, Released
    <3>. QED
      BY <1>2, <2>1, <2>2
  <2>3. CASE \E y \in Clicked(w, n) : v = Released(y)
    <3>1. PICK y \in Clicked(w, n) : v = Released(y)
      BY <2>3
    <3>. HIDE DEF n, w, Released
    <3>2. Keeps(w, y)
      BY <2>1, <3>1, HandledKeeps, KeepsItself DEF Clicked
    <3>3. Keeps(u, y)
      BY <2>1, <3>2, KeepsIsTransitive
    <3>. QED
      BY <1>2, <3>1, <3>3
  <2>. QED
    BY <1>3, <2>2, <2>3 DEF MouseUp
<1>. QED
  BY <1>1, <1>3 DEF MouseUp

-----------------------------------------------------------------------------
(* Files.                                                                  *)

(* Files that describe no keyboard of their own: the library inserts the    *)
(* keyboard, and widget_keyboard.c names the only two things that do so.    *)
FilesHaveNoKeyboard ==
  \A c \in UiContents : \A i \in DOMAIN Widgets[c] : Widgets[c][i].type # "keyboard"

(* What a file describes: a new tree, of which nothing is laid out.         *)
Described(new, names, blobs) ==
  /\ new \in Seq(Nodes)
  /\ \A i, j \in DOMAIN new : new[i].name = new[j].name => i = j
  /\ \A i \in DOMAIN new : new[i].name \notin names /\ new[i].data \notin blobs /\ ~new[i].laid
  /\ \A i, j \in DOMAIN new : new[i].data = new[j].data /\ new[i].data # NoBlob => i = j
  /\ new # <<>> => new[1].id = NoId
  /\ FilesHaveNoKeyboard => \A i \in DOMAIN new : new[i].type # "keyboard"

LEMMA Prefixed ==
  ASSUME NEW S, NEW a \in S, NEW s \in Seq(S)
  PROVE  LET t == <<a>> \o s IN
         /\ t \in Seq(S) /\ Len(t) = Len(s) + 1 /\ Len(s) \in Nat
         /\ DOMAIN s = 1 .. Len(s) /\ DOMAIN t = 1 .. (Len(s) + 1)
         /\ t[1] = a
         /\ \A i \in 1 .. (Len(s) + 1) : i # 1 => i - 1 \in 1 .. Len(s) /\ t[i] = s[i - 1]
<1>1. <<a>> \in Seq(S) /\ Len(<<a>>) = 1 /\ <<a>>[1] = a
  OBVIOUS
<1>. QED
  BY <1>1

LEMMA ParsedIs ==
  ASSUME NEW c \in UiContents, NEW names, IsFiniteSet(names),
         NEW blobs \in SUBSET Nat, IsFiniteSet(blobs), NEW late \in BOOLEAN
  PROVE  Described(Parsed(Widgets[c], names, blobs, late), names, blobs)
<1>. DEFINE Kind == [type : WidgetTypes, id : Ids, open : BOOLEAN]
            ws == Widgets[c]
            nodes == <<Widget("window")>> \o ws
            k == Len(nodes)
            name == Fresh(names, k)
            blob == Fresh(blobs, k)
            new == Parsed(ws, names, blobs, late)
<1>1. ws \in Seq(Kind)
  BY HotReloadAssumption DEF HotReloadAssumption
<1>2. Widget("window") \in Kind /\ Widget("window").type = "window" /\ Widget("window").id = NoId
  BY DEF Widget, WidgetTypes, Ids
<1>. HIDE DEF ws, Kind
<1>3. /\ nodes \in Seq(Kind) /\ k = Len(ws) + 1 /\ k \in Nat /\ DOMAIN nodes = 1 .. k
      /\ nodes[1] = Widget("window") /\ DOMAIN ws = 1 .. Len(ws)
      /\ \A i \in 1 .. k : i # 1 => i - 1 \in DOMAIN ws /\ nodes[i] = ws[i - 1]
  BY <1>1, <1>2, Prefixed
<1>4. new = [i \in 1 .. k |-> NewNode(nodes[i], name[i], blob[i], late)]
  BY <1>3 DEF Parsed, ws
<1>. HIDE DEF nodes, k, new
<1>5. /\ name \in [1 .. k -> Nat] /\ \A i \in 1 .. k : name[i] \notin names
      /\ \A i, j \in 1 .. k : name[i] = name[j] => i = j
  <2>1. k \in Nat
    BY <1>3
  <2>. QED
    BY <2>1, FreshIsFresh
<1>17. /\ blob \in [1 .. k -> Nat] /\ \A i \in 1 .. k : blob[i] \notin blobs
       /\ \A i, j \in 1 .. k : blob[i] = blob[j] => i = j
  <2>1. k \in Nat
    BY <1>3
  <2>. QED
    BY <2>1, FreshIsFresh
<1>. HIDE DEF name, blob
<1>6. ASSUME NEW i \in 1 .. k
      PROVE  /\ NewNode(nodes[i], name[i], blob[i], late) \in Nodes
             /\ new[i].name = name[i] /\ new[i].type = nodes[i].type /\ new[i].id = nodes[i].id
             /\ ~new[i].laid /\ new[i].data \in {blob[i], NoBlob}
  <2>1. nodes[i] \in Kind
    BY <1>3
  <2>2. NewNode(nodes[i], name[i], blob[i], late) \in Nodes
    BY <1>5, <1>17, <2>1 DEF NewNode, Nodes, Kind
  <2>. QED
    BY <1>4, <2>2 DEF NewNode
<1>7. new \in Seq(Nodes) /\ DOMAIN new = 1 .. k
  BY <1>3, <1>4, <1>6
<1>8. NoBlob \notin Nat
  BY SceneAssumption DEF SceneAssumption
<1>9. FilesHaveNoKeyboard => \A i \in DOMAIN ws : ws[i].type # "keyboard"
  BY DEF FilesHaveNoKeyboard, ws
<1>11. \A i \in 1 .. k : nodes[i].type = "window" \/ (i - 1 \in DOMAIN ws /\ nodes[i].type = ws[i - 1].type)
  BY <1>2, <1>3
<1>13. new # <<>> => new[1].id = NoId
  BY <1>2, <1>3, <1>6
<1>14. /\ \A i, j \in DOMAIN new : new[i].name = new[j].name => i = j
       /\ \A i \in DOMAIN new : new[i].name \notin names /\ new[i].data \notin blobs /\ ~new[i].laid
       /\ \A i, j \in DOMAIN new : new[i].data = new[j].data /\ new[i].data # NoBlob => i = j
  <2>1. \A i, j \in 1 .. k : new[i].name = new[j].name => i = j
    BY <1>5, <1>6
  <2>2. \A i \in 1 .. k : new[i].name \notin names /\ ~new[i].laid
    BY <1>5, <1>6
  <2>3. \A i \in 1 .. k : new[i].data \notin blobs
    BY <1>6, <1>8, <1>17
  <2>4. ASSUME NEW i \in 1 .. k, NEW j \in 1 .. k, new[i].data = new[j].data, new[i].data # NoBlob
        PROVE  i = j
    <3>1. new[i].data = blob[i] /\ new[j].data = blob[j]
      BY <1>6, <2>4
    <3>. QED
      BY <1>17, <2>4, <3>1
  <2>. QED
    BY <1>7, <2>1, <2>2, <2>3, <2>4
<1>15. FilesHaveNoKeyboard => \A i \in DOMAIN new : new[i].type # "keyboard"
  BY <1>6, <1>7, <1>9, <1>11
<1>. QED
  BY <1>7, <1>13, <1>14, <1>15 DEF Described, new, ws

(* A tree from a file, before anything points into it, is as it should be.  *)
LEMMA DescribedScene ==
  ASSUME NEW u \in Scenes, Described(u.tree, {}, {}), u.blobs = Blobs(Range(u.tree)),
         u.focus = NoNode, u.pressed = NoNode, u.hover = NoNode, u.overlay = NoNode,
         u.keyboard \in {NoNode, Dangling}
  PROVE  /\ SceneInv(u)
         /\ FilesHaveNoKeyboard => KeyboardInv(u)
         /\ ModalInv(u)
<1>1. Distinct(u) /\ PointersInv(u) /\ KeyboardIsKnown(u)
  BY DEF Described, Distinct, PointersInv, KeyboardIsKnown
<1>2. BlobsInv(u)
  BY DEF Described, BlobsInv, Range
<1>3. NoNode \notin Live(u) /\ Dangling \notin Live(u)
  BY NothingIsNotLive
<1>4. FilesHaveNoKeyboard => KeyboardInv(u)
  BY <1>3 DEF Described, KeyboardInv, OnlyKeyboard, Range
<1>5. OnScreen(u) = {}
  BY DEF Described, OnScreen, Range
<1>. QED
  BY <1>1, <1>2, <1>4, <1>5 DEF SceneInv, ModalInv

-----------------------------------------------------------------------------
(* Reconciliation.                                                         *)

(* A node takes its state from one node at most.                            *)
LEMMA DonorIsOne ==
  ASSUME NEW old \in Seq(Nodes), NEW new \in Seq(Nodes), NEW i \in DOMAIN new,
         NEW j \in Donor(old, new, i)
  PROVE  j \in DOMAIN old /\ Donor(old, new, i) = {j} /\ Greatest(Donor(old, new, i)) = j
<1>. DEFINE alike == {k \in Mapped(old) : Hash[old[k].id] = Hash[new[i].id]}
            first == {k \in alike : k = Least(alike) /\ old[k].type = new[i].type}
            place == {k \in {i} : k <= Len(old) /\ \A l \in 1 .. k : old[l].type = new[l].type}
<1>3. Donor(old, new, i) = IF i > 1 /\ new[i].id # NoId THEN first ELSE place
  BY DEF Donor
<1>4. \A k \in first : k \in DOMAIN old /\ k = Least(alike)
  BY DEF Mapped
<1>5. \A k \in place : k = i /\ k \in DOMAIN old
  <2>1. i \in Nat /\ i >= 1 /\ DOMAIN old = 1 .. Len(old)
    OBVIOUS
  <2>. QED
    BY <2>1
<1>. HIDE DEF first, place, alike
<1>1. j \in DOMAIN old /\ Donor(old, new, i) = {j}
  BY <1>3, <1>4, <1>5
<1>2. j <= j
  BY <1>1
<1>. QED
  BY <1>1, <1>2 DEF Greatest

(* The pixels of a node go to one node at most.                             *)
LEMMA HeirIsOne ==
  ASSUME NEW old \in Seq(Nodes), NEW new \in Seq(Nodes), NEW j \in DOMAIN old,
         NEW i \in Heir(old, new, j)
  PROVE  /\ i \in DOMAIN new /\ j \in Donor(old, new, i)
         /\ \A k \in Heir(old, new, j) : k = i
<1>1. i \in DOMAIN new /\ j \in Donor(old, new, i)
  BY DEF Heir
<1>2. ASSUME NEW k \in Heir(old, new, j) PROVE k = i
  <2>1. k \in DOMAIN new /\ ~Earlier(new, k, i) /\ ~Earlier(new, i, k)
    BY <1>2 DEF Heir
  <2>2. k \in Nat /\ i \in Nat
    BY <1>1, <2>1
  <2>3. (k < i \/ i < k) => FALSE
    BY <2>1, <2>2 DEF Earlier
  <2>. QED
    BY <2>2, <2>3
<1>. QED
  BY <1>1, <1>2

(* A node of the new tree is what the file says, but for its state, and its *)
(* pixels are those of the file or those of a node that it is the heir of.  *)
LEMMA TransferredIs ==
  ASSUME NEW old \in Seq(Nodes), NEW new \in Seq(Nodes), NEW i \in DOMAIN new
  PROVE  LET n == Transferred(old, new, i) IN
         /\ n \in Nodes
         /\ n.name = new[i].name /\ n.type = new[i].type /\ n.id = new[i].id
         /\ n.laid = new[i].laid
         /\ \/ Donor(old, new, i) = {} /\ n = new[i]
            \/ n.data = NoBlob
            \/ \E j \in DOMAIN old : i \in Heir(old, new, j) /\ n.data = old[j].data
         /\ \A j \in DOMAIN old : i \in Heir(old, new, j) => n.data = old[j].data
         /\ \A j \in Donor(old, new, i) :
              IsText(new[i]) /\ old[j].text # "empty" => n.text = old[j].text
<1>. DEFINE n == Transferred(old, new, i)
<1>0. new[i] \in Nodes /\ \A j \in DOMAIN old : old[j] \in Nodes
  OBVIOUS
<1>1. CASE Donor(old, new, i) = {}
  <2>1. n = new[i]
    BY <1>1 DEF Transferred
  <2>2. \A j \in DOMAIN old : i \notin Heir(old, new, j)
    BY <1>1 DEF Heir
  <2>. QED
    BY <1>0, <1>1, <2>1, <2>2
<1>2. ASSUME NEW j \in Donor(old, new, i)
      PROVE  /\ n \in Nodes
             /\ n.name = new[i].name /\ n.type = new[i].type /\ n.id = new[i].id
             /\ n.laid = new[i].laid /\ j \in DOMAIN old /\ Donor(old, new, i) = {j}
             /\ n.data = IF i \in Heir(old, new, j) THEN old[j].data ELSE NoBlob
             /\ IsText(new[i]) /\ old[j].text # "empty" => n.text = old[j].text
  <2>1. j \in DOMAIN old /\ Donor(old, new, i) = {j} /\ Greatest(Donor(old, new, i)) = j
    BY DonorIsOne
  <2>. DEFINE text == IF IsText(new[i]) /\ old[j].text # "empty" THEN old[j].text ELSE new[i].text
              data == IF i \in Heir(old, new, j) THEN old[j].data ELSE NoBlob
  <2>2. n = [new[i] EXCEPT !.open = old[j].open, !.text = text, !.data = data]
    BY <2>1 DEF Transferred
  <2>3. text \in {"initial", "edited", "empty"} /\ data \in Nat \cup {NoBlob}
        /\ old[j].open \in BOOLEAN
    BY <1>0, <2>1 DEF Nodes
  <2>4. IsText(new[i]) /\ old[j].text # "empty" => text = old[j].text
    OBVIOUS
  <2>5. data = IF i \in Heir(old, new, j) THEN old[j].data ELSE NoBlob
    OBVIOUS
  <2>. HIDE DEF text, data, n
  <2>6. /\ n \in Nodes
        /\ n.name = new[i].name /\ n.type = new[i].type /\ n.id = new[i].id
        /\ n.laid = new[i].laid /\ n.text = text /\ n.data = data
    BY <1>0, <2>2, <2>3 DEF Nodes
  <2>. QED
    BY <2>1, <2>4, <2>5, <2>6
<1>3. CASE Donor(old, new, i) # {}
  <2>1. PICK j \in Donor(old, new, i) : TRUE
    BY <1>3
  <2>2. \A k \in DOMAIN old : i \in Heir(old, new, k) => k = j
    BY <1>2, <2>1, HeirIsOne
  <2>. HIDE DEF n
  <2>. QED
    BY <1>2, <2>1, <2>2 DEF n
<1>. QED
  BY <1>1, <1>3

LEMMA GivenUpIs ==
  ASSUME NEW old \in Seq(Nodes), NEW new \in Seq(Nodes), NEW j \in DOMAIN old
  PROVE  LET n == GivenUp(old, new, j) IN
         /\ n.name = old[j].name
         /\ n.data = IF Heir(old, new, j) = {} THEN old[j].data ELSE NoBlob
<1>1. old[j] \in Nodes
  OBVIOUS
<1>. QED
  BY <1>1 DEF GivenUp, Nodes

(* After a reload the tree is the new one, nothing points into it yet, and  *)
(* whatever no node of it owns has been freed.                              *)
LEMMA ReconciledIs ==
  ASSUME NEW u, SceneInv(u), NEW new, Described(new, Live(u), u.blobs),
         NEW v, v = Reconciled(u, new)
  PROVE  /\ SceneInv(v)
         /\ FilesHaveNoKeyboard => KeyboardInv(v)
         /\ ModalInv(v)
         /\ v.focus = NoNode /\ DOMAIN v.tree = DOMAIN new
         /\ \A i \in DOMAIN new :
              LET n == Transferred(u.tree, new, i) IN
              /\ v.tree[i].name = n.name /\ v.tree[i].type = n.type
              /\ v.tree[i].id = n.id /\ v.tree[i].text = n.text
<1>. DEFINE old == u.tree
            tree == [i \in DOMAIN new |-> Transferred(old, new, i)]
            freed == {GivenUp(old, new, j) : j \in DOMAIN old}
            drop == Blobs(Range(new)) \ Blobs(Range(tree))
            blobs == (u.blobs \cup Blobs(Range(new))) \ drop
            w == [u EXCEPT !.tree = tree, !.blobs = blobs]
            gone == {n.name : n \in freed}
<1>0. u \in Scenes /\ Distinct(u) /\ old \in Seq(Nodes) /\ new \in Seq(Nodes)
  BY DEF SceneInv, Scenes, Described
<1>1. v = Freed(w, freed)
  BY <1>0 DEF Reconciled, Scenes
<1>2. ASSUME NEW i \in DOMAIN new
      PROVE  /\ tree[i] = Transferred(old, new, i) /\ tree[i] \in Nodes
             /\ tree[i].name = new[i].name /\ tree[i].type = new[i].type /\ tree[i].id = new[i].id
             /\ ~tree[i].laid
             /\ \/ Donor(old, new, i) = {} /\ tree[i] = new[i]
                \/ tree[i].data = NoBlob
                \/ \E j \in DOMAIN old : i \in Heir(old, new, j) /\ tree[i].data = old[j].data
             /\ \A j \in DOMAIN old : i \in Heir(old, new, j) => tree[i].data = old[j].data
  BY <1>0, TransferredIs DEF Described
<1>3. tree \in Seq(Nodes) /\ DOMAIN tree = DOMAIN new
  <2>1. DOMAIN new = 1 .. Len(new) /\ Len(new) \in Nat
    BY <1>0
  <2>2. DOMAIN tree = 1 .. Len(new) /\ \A i \in 1 .. Len(new) : tree[i] \in Nodes
    BY <1>2, <2>1
  <2>3. tree = [i \in 1 .. Len(new) |-> tree[i]]
    BY <2>1
  <2>. HIDE DEF tree
  <2>. QED
    BY <2>1, <2>2, <2>3
<1>4. gone = Live(u)
  <2>1. \A j \in DOMAIN old : GivenUp(old, new, j).name = old[j].name
    BY <1>0, GivenUpIs
  <2>. QED
    BY <2>1 DEF Live, Names, Range
<1>. HIDE DEF tree
<1>5. \A i, j \in DOMAIN new : tree[i].data = tree[j].data /\ tree[i].data # NoBlob => i = j
  <2>. SUFFICES ASSUME NEW i \in DOMAIN new, NEW j \in DOMAIN new,
                       tree[i].data = tree[j].data, tree[i].data # NoBlob
                PROVE  i = j
    OBVIOUS
  <2>1. \A k \in DOMAIN old : old[k].data # NoBlob => old[k].data \in u.blobs
    BY DEF SceneInv, BlobsInv, Blobs, Range
  <2>2. \A k \in DOMAIN new : new[k].data \notin u.blobs
    BY DEF Described
  <2>3. CASE tree[i] = new[i] /\ tree[j] = new[j]
    BY <2>3 DEF Described
  <2>4. ASSUME NEW k \in DOMAIN old, NEW l \in DOMAIN old, i \in Heir(old, new, k),
               j \in Heir(old, new, l), tree[i].data = old[k].data, tree[j].data = old[l].data
        PROVE  i = j
    <3>1. old[k] = old[l]
      BY <2>4 DEF SceneInv, BlobsInv, Range
    <3>2. k = l
      BY <1>0, <3>1 DEF Distinct
    <3>. QED
      BY <1>0, <2>4, <3>2, HeirIsOne
  <2>. QED
    BY <1>2, <2>1, <2>2, <2>3, <2>4
<1>6. /\ Blobs(Range(tree)) \subseteq blobs
      /\ Blobs(Range(tree)) \cap Blobs(freed) = {}
  <2>. SUFFICES ASSUME NEW b \in Blobs(Range(tree)) PROVE b \in blobs /\ b \notin Blobs(freed)
    OBVIOUS
  <2>1. PICK i \in DOMAIN new : b = tree[i].data /\ b # NoBlob
    BY <1>3 DEF Blobs, Range
  <2>2. b \in u.blobs \cup Blobs(Range(new))
    BY <1>2, <2>1 DEF SceneInv, BlobsInv, Blobs, Range
  <2>3. ASSUME NEW k \in DOMAIN old, b = GivenUp(old, new, k).data PROVE FALSE
    <3>1. b = old[k].data /\ Heir(old, new, k) = {}
      BY <1>0, <2>1, <2>3, GivenUpIs
    <3>2. b \in u.blobs
      BY <2>1, <3>1 DEF SceneInv, BlobsInv, Blobs, Range
    <3>3. tree[i] # new[i]
      BY <2>1, <3>2 DEF Described
    <3>4. PICK j \in DOMAIN old : i \in Heir(old, new, j) /\ b = old[j].data
      BY <1>2, <2>1, <3>3
    <3>5. old[j] = old[k]
      BY <2>1, <3>1, <3>4 DEF SceneInv, BlobsInv, Range
    <3>6. j = k
      BY <1>0, <3>5 DEF Distinct
    <3>. QED
      BY <3>1, <3>4, <3>6
  <2>. QED
    BY <2>2, <2>3 DEF Blobs
<1>7. ASSUME NEW b \in blobs, b \notin Blobs(freed) PROVE b \in Blobs(Range(tree))
  <2>1. CASE b \in u.blobs
    <3>1. PICK j \in DOMAIN old : b = old[j].data /\ b # NoBlob
      BY <2>1 DEF SceneInv, BlobsInv, Blobs, Range
    <3>2. Heir(old, new, j) # {}
      <4>1. GivenUp(old, new, j) \in freed
        OBVIOUS
      <4>2. GivenUp(old, new, j).data # b
        BY <1>7, <3>1, <4>1 DEF Blobs
      <4>. QED
        BY <1>0, <3>1, <4>2, GivenUpIs
    <3>3. PICK i \in Heir(old, new, j) : TRUE
      BY <3>2
    <3>4. i \in DOMAIN new /\ tree[i].data = b
      BY <1>0, <1>2, <3>1, <3>3, HeirIsOne
    <3>. QED
      BY <1>3, <3>1, <3>4 DEF Blobs, Range
  <2>2. CASE b \in Blobs(Range(new))
    BY <1>7, <2>2
  <2>. QED
    BY <1>7, <2>1, <2>2
<1>8. blobs \in SUBSET Nat
  <2>1. u.blobs \in SUBSET Nat
    BY <1>0 DEF Scenes
  <2>2. \A i \in DOMAIN new : new[i].data \in Nat \cup {NoBlob}
    <3>1. \A i \in DOMAIN new : new[i] \in Nodes
      BY <1>0
    <3>. QED
      BY <3>1 DEF Nodes
  <2>3. Blobs(Range(new)) \in SUBSET Nat
    BY <2>2 DEF Blobs, Range
  <2>. QED
    BY <2>1, <2>3
<1>. HIDE DEF blobs, freed
<1>9. w \in Scenes /\ w.tree = tree /\ w.blobs = blobs /\ w.keyboard = u.keyboard
      /\ w.focus = u.focus /\ w.pressed = u.pressed /\ w.hover = u.hover /\ w.overlay = u.overlay
  BY <1>0, <1>3, <1>8 DEF Scenes
<1>. HIDE DEF w
<1>10. /\ v \in Scenes /\ Gentle(w, v) /\ SameTexts(w, v)
       /\ v.focus = (IF w.focus \in gone THEN NoNode ELSE w.focus)
       /\ v.pressed = (IF w.pressed \in gone THEN NoNode ELSE w.pressed)
       /\ v.hover = (IF w.hover \in gone THEN NoNode ELSE w.hover)
       /\ v.overlay = (IF w.overlay \in gone THEN NoNode ELSE w.overlay)
       /\ v.keyboard = (IF w.keyboard \in gone THEN Dangling ELSE w.keyboard)
       /\ v.blobs = w.blobs \ Blobs(freed)
  BY <1>1, <1>9, FreedScene
<1>. HIDE DEF gone
<1>11. v.focus = NoNode /\ v.pressed = NoNode /\ v.hover = NoNode /\ v.overlay = NoNode
       /\ v.keyboard \in {NoNode, Dangling}
  BY <1>4, <1>9, <1>10 DEF SceneInv, PointersInv, KeyboardIsKnown
<1>12. /\ v.tree \in Seq(Nodes) /\ DOMAIN v.tree = DOMAIN new
       /\ \A i \in DOMAIN new :
            /\ v.tree[i].name = tree[i].name /\ v.tree[i].type = tree[i].type
            /\ v.tree[i].data = tree[i].data /\ v.tree[i].laid = tree[i].laid
            /\ v.tree[i].id = tree[i].id /\ v.tree[i].text = tree[i].text
  BY <1>3, <1>9, <1>10 DEF Gentle, Alike, SameTexts
<1>13. v.blobs = Blobs(Range(v.tree))
  <2>1. v.blobs = Blobs(Range(tree))
    BY <1>6, <1>7, <1>9, <1>10
  <2>2. Blobs(Range(v.tree)) = Blobs(Range(tree))
    BY <1>3, <1>12 DEF Blobs, Range
  <2>. QED
    BY <2>1, <2>2
<1>14. Described(v.tree, {}, {})
  <2>1. \A i, j \in DOMAIN new : v.tree[i].name = v.tree[j].name => i = j
    BY <1>2, <1>12 DEF Described
  <2>2. \A i, j \in DOMAIN new : v.tree[i].data = v.tree[j].data /\ v.tree[i].data # NoBlob => i = j
    BY <1>5, <1>12
  <2>3. \A i \in DOMAIN new : ~v.tree[i].laid
    BY <1>2, <1>12
  <2>4. v.tree # <<>> => v.tree[1].id = NoId
    <3>. HAVE v.tree # <<>>
    <3>1. 1 \in DOMAIN new /\ new # <<>>
      BY <1>0, <1>12
    <3>. QED
      BY <1>2, <1>12, <3>1 DEF Described
  <2>5. FilesHaveNoKeyboard => \A i \in DOMAIN new : v.tree[i].type # "keyboard"
    BY <1>2, <1>12 DEF Described
  <2>. QED
    BY <1>12, <2>1, <2>2, <2>3, <2>4, <2>5 DEF Described
<1>15. SceneInv(v) /\ (FilesHaveNoKeyboard => KeyboardInv(v)) /\ ModalInv(v)
  BY <1>10, <1>11, <1>13, <1>14, DescribedScene
<1>. QED
  BY <1>2, <1>11, <1>12, <1>15

LEMMA LeastIsThere ==
  ASSUME NEW S \in SUBSET Nat, S # {}
  PROVE  Least(S) \in S
<1>1. \E m \in S : \A n \in S : m <= n
  BY NatLeast
<1>. QED
  BY <1>1 DEF Least

LEMMA ReloadKeeps ==
  ASSUME NEW u, SceneInv(u), NEW new, Described(new, Live(u), u.blobs), NEW v \in Reload(u, new)
  PROVE  /\ SceneInv(v)
         /\ FilesHaveNoKeyboard => KeyboardInv(v)
         /\ ModalInv(v)
<1>. DEFINE w == Reconciled(u, new)
            x == [w EXCEPT !.crashed = TRUE]
            id == IF u.focus = NoNode THEN NoId ELSE Node(u, u.focus).id
            found == {i \in DOMAIN new : new[i].id = id}
<1>1. /\ SceneInv(w) /\ (FilesHaveNoKeyboard => KeyboardInv(w)) /\ ModalInv(w)
      /\ DOMAIN w.tree = DOMAIN new
      /\ \A i \in DOMAIN new : w.tree[i].name = Transferred(u.tree, new, i).name
  BY ReconciledIs
<1>2. IF u.tree = <<>> THEN v = w \/ v = x \/ v = u
      ELSE v = w \/ (found # {} /\ v \in SetFocus(w, new[Least(found)].name))
  BY DEF Reload
<1>3. new \in Seq(Nodes) /\ u.tree \in Seq(Nodes)
  BY DEF Described, SceneInv, Scenes
<1>. HIDE DEF w, id
<1>4. ASSUME found # {} PROVE new[Least(found)].name \in Live(w)
  <2>1. found \in SUBSET Nat
    BY <1>3
  <2>2. Least(found) \in DOMAIN new
    BY <1>4, <2>1, LeastIsThere
  <2>3. w.tree[Least(found)].name = new[Least(found)].name
    BY <1>1, <1>3, <2>2, TransferredIs
  <2>. QED
    BY <1>1, <2>2, <2>3 DEF Live, Names, Range
<1>. HIDE DEF found
<1>5. CASE v = x
  <2>1. w \in Scenes /\ PointersInv(w)
    BY <1>1 DEF SceneInv
  <2>2. /\ v \in Scenes /\ v.tree = w.tree /\ v.focus = w.focus /\ v.pressed = w.pressed
        /\ v.hover = w.hover /\ v.overlay = w.overlay /\ v.keyboard = w.keyboard
        /\ v.blobs = w.blobs /\ v.bared = w.bared /\ v.asked = w.asked /\ v.enabled = w.enabled
    BY <1>5, <2>1 DEF Scenes
  <2>3. {v.focus, v.pressed, v.hover, v.overlay} \subseteq Live(w) \cup {NoNode}
    BY <2>1, <2>2 DEF PointersInv
  <2>. QED
    BY <1>1, <2>2, <2>3, RepointedKeeps
<1>6. ASSUME u.tree = <<>> PROVE KeyboardInv(u) /\ ModalInv(u)
  BY <1>6 DEF KeyboardInv, OnlyKeyboard, ModalInv, OnScreen, Live, Names, Range
<1>. HIDE DEF x
<1>. QED
  BY <1>1, <1>2, <1>4, <1>5, <1>6, SetFocusKeeps

(* What was typed in a widget with an id of its own, and the focus that it  *)
(* had, are found again in the widget with that id.                         *)
LEMMA ReloadKeepsText ==
  ASSUME NEW u, SceneInv(u), NEW new, Described(new, Live(u), u.blobs), NEW v \in Reload(u, new),
         NEW n \in Range(u.tree), NEW m \in Range(v.tree),
         Editing(u, n), Found(u, n), Editing(v, m), m.id = n.id
  PROVE  /\ n.text = "edited" => m.text = "edited"
         /\ u.focus = n.name => v.focus = m.name
<1>. DEFINE old == u.tree
            w == Reconciled(u, new)
            id == IF u.focus = NoNode THEN NoId ELSE Node(u, u.focus).id
            found == {i \in DOMAIN new : new[i].id = id}
            k == Least(found)
<1>1. /\ SceneInv(w) /\ w.focus = NoNode /\ DOMAIN w.tree = DOMAIN new
      /\ \A i \in DOMAIN new :
           LET t == Transferred(old, new, i) IN
           /\ w.tree[i].name = t.name /\ w.tree[i].type = t.type
           /\ w.tree[i].id = t.id /\ w.tree[i].text = t.text
  BY ReconciledIs
<1>2. IF id = NoId \/ found = {} THEN v = w ELSE v \in SetFocus(w, new[k].name)
  <2>1. u.tree # <<>>
    BY DEF Range
  <2>. QED
    BY <2>1 DEF Reload
<1>3. /\ new \in Seq(Nodes) /\ old \in Seq(Nodes) /\ u \in Scenes /\ Distinct(u)
      /\ w \in Scenes /\ NoNode \notin Live(w)
  BY <1>1, NothingIsNotLive DEF Described, SceneInv, Scenes
<1>. HIDE DEF w
<1>4. ASSUME NEW y \in Live(w), v \in SetFocus(w, y)
      PROVE  /\ v.focus = y
             /\ Range(w.tree) \subseteq Range(v.tree)
             /\ \A l \in Range(v.tree) : l \in Range(w.tree) \/ l.id = NoId
  <2>. DEFINE z == [w EXCEPT !.focus = y]
  <2>1. ~IsA(w, w.focus, "input")
    BY <1>1, <1>3 DEF IsA
  <2>2. v = z \/ v = ShowKeyboard(z)
    BY <1>4, <2>1 DEF SetFocus, IsA
  <2>3. y \in Pointers
    BY <1>3, NodeIsThere DEF Pointers
  <2>4. /\ z \in Scenes /\ z.tree = w.tree /\ z.focus = y /\ z.pressed = w.pressed
        /\ z.hover = w.hover /\ z.overlay = w.overlay /\ z.keyboard = w.keyboard
        /\ z.blobs = w.blobs
    BY <1>3, <2>3 DEF Scenes
  <2>. HIDE DEF z
  <2>5. {z.focus, z.pressed, z.hover, z.overlay} \subseteq Live(w) \cup {NoNode}
    BY <1>1, <2>4 DEF SceneInv, PointersInv
  <2>6. SceneInv(z)
    BY <1>1, <2>4, <2>5, RepointedKeeps
  <2>. QED
    BY <2>2, <2>4, <2>6, ShowKeeps
<1>13. ASSUME found # {}
       PROVE  k \in found /\ k \in DOMAIN new /\ new[k].name \in Live(w)
  <2>1. found \in SUBSET Nat
    BY <1>3
  <2>2. k \in found /\ k \in DOMAIN new
    BY <1>13, <2>1, LeastIsThere
  <2>3. w.tree[k].name = new[k].name
    BY <1>1, <1>3, <2>2, TransferredIs
  <2>. QED
    BY <1>1, <2>2, <2>3 DEF Live, Names, Range
<1>5. Range(w.tree) \subseteq Range(v.tree) /\ m \in Range(w.tree)
  <2>1. m.id # NoId
    BY DEF Editing
  <2>. HIDE DEF found, k, id
  <2>. QED
    BY <1>2, <1>4, <1>13, <2>1
<1>6. PICK i \in DOMAIN new : m = w.tree[i]
  BY <1>1, <1>5 DEF Range
<1>7. PICK j \in DOMAIN old : n = old[j]
  BY DEF Range
<1>8. /\ m.id = new[i].id /\ m.type = new[i].type /\ m.name = new[i].name
      /\ m.text = Transferred(old, new, i).text
  BY <1>1, <1>3, <1>6, TransferredIs
<1>9. i > 1 /\ new[i].id # NoId
  <2>1. new # <<>> /\ i >= 1 /\ i \in Nat
    BY <1>3
  <2>2. i # 1
    BY <1>8, <2>1 DEF Editing, Described
  <2>. QED
    BY <1>8, <2>1, <2>2 DEF Editing
<1>10. Donor(old, new, i) = {j}
  <2>. DEFINE alike == {l \in Mapped(old) : Hash[old[l].id] = Hash[new[i].id]}
  <2>1. j \in alike
    <3>1. n.name \in Live(u)
      BY <1>3, NodesAreNamed
    <3>2. Index(u, n.name) \in DOMAIN old /\ old[Index(u, n.name)].name = n.name
      BY <1>3, <3>1, NodeIsThere
    <3>3. Index(u, n.name) = j
      BY <1>3, <1>7, <3>2 DEF Distinct
    <3>. QED
      BY <1>7, <1>8, <3>3 DEF Found
  <2>2. \A l \in alike : l \in DOMAIN old /\ l = j
    <3>. TAKE l \in alike
    <3>1. l \in DOMAIN old /\ old[l].id # NoId
      BY DEF Mapped
    <3>2. old[l] = n
      BY <1>8, <3>1 DEF Found, Range
    <3>. QED
      BY <1>3, <1>7, <3>1, <3>2 DEF Distinct
  <2>3. alike = {j} /\ alike \in SUBSET Nat
    BY <1>3, <2>1, <2>2
  <2>4. Least(alike) = j
    BY <2>3, LeastIsThere
  <2>5. old[j].type = new[i].type
    BY <1>7, <1>8 DEF Editing, IsText
  <2>6. Donor(old, new, i) = {l \in alike : l = Least(alike) /\ old[l].type = new[i].type}
    BY <1>9 DEF Donor
  <2>. HIDE DEF alike
  <2>. QED
    BY <2>3, <2>4, <2>5, <2>6
<1>11. n.text = "edited" => m.text = "edited"
  <2>. HAVE n.text = "edited"
  <2>1. IsText(new[i])
    BY <1>8 DEF Editing, IsText
  <2>3. j \in Donor(old, new, i) /\ old[j].text # "empty"
    BY <1>7, <1>10
  <2>2. Transferred(old, new, i).text = old[j].text
    BY <1>3, <2>1, <2>3, TransferredIs
  <2>. QED
    BY <1>7, <1>8, <2>2
<1>12. u.focus = n.name => v.focus = m.name
  <2>. HAVE u.focus = n.name
  <2>1. id = n.id /\ id # NoId
    BY <1>3, NodesAreNamed, NothingIsNotLive DEF Editing
  <2>. HIDE DEF id
  <2>2. i \in found
    BY <1>8, <2>1
  <2>3. k \in found /\ k \in DOMAIN new /\ new[k].name \in Live(w)
    BY <1>13, <2>2
  <2>5. new[k].id = n.id
    BY <2>1, <2>3
  <2>. HIDE DEF k, found
  <2>4. v \in SetFocus(w, new[k].name)
    BY <1>2, <2>1, <2>2
  <2>6. w.tree[k].id = n.id /\ w.tree[k].name = new[k].name /\ w.tree[k] \in Range(w.tree)
    BY <1>1, <1>3, <2>3, <2>5, TransferredIs DEF Range
  <2>7. w.tree[k] = m
    BY <1>5, <2>6 DEF Editing
  <2>. QED
    BY <1>4, <2>3, <2>4, <2>6, <2>7
<1>. QED
  BY <1>11, <1>12

-----------------------------------------------------------------------------
(* The program.                                                            *)

StartsBlank == pc \in {"watch", "load"} \X Kinds => ui = Blank

IInv == SceneTypeOK /\ SceneInv(ui) /\ StartsBlank

(* What a step does to the scene: nothing, or it keeps what is to be kept,  *)
(* or the scene starts over.                                                *)
Good(v) ==
  /\ SceneInv(v)
  /\ FilesHaveNoKeyboard => KeyboardInv(v)
  /\ ModalInv(v)
NextScene ==
  /\ SceneInv(ui')
  /\ FilesHaveNoKeyboard /\ KeyboardInv(ui) => KeyboardInv(ui')
  /\ ModalInv(ui) => ModalInv(ui')

LEMMA KeepsIsNext == ASSUME Keeps(ui, ui') PROVE NextScene
BY DEF Keeps, NextScene

LEMMA GoodIsNext == ASSUME Good(ui') PROVE NextScene
BY DEF Good, NextScene

LEMMA SameIsNext == ASSUME SceneInv(ui), ui' = ui PROVE NextScene
BY DEF NextScene

LEMMA BlankIsGood == Good(Blank)
<1>1. Blank.tree = <<>> /\ Range(Blank.tree) = {} /\ Live(Blank) = {} /\ Blobs(Range(Blank.tree)) = {}
  BY DEF Blank, Live, Names, Range, Blobs
<1>2. Blank \in Scenes
  BY DEF Blank, Scenes, Pointers
<1>3. Described(Blank.tree, {}, {})
  BY <1>1, <1>2 DEF Described, Scenes
<1>4. /\ Blank.focus = NoNode /\ Blank.pressed = NoNode /\ Blank.hover = NoNode
      /\ Blank.overlay = NoNode /\ Blank.keyboard = NoNode /\ Blank.blobs = {}
  BY DEF Blank
<1>. QED
  BY <1>1, <1>2, <1>3, <1>4, DescribedScene DEF Good

LEMMA LoadUiIsGood ==
  ASSUME IInv, LoadUi
  PROVE  NextScene
<1>1. ui = Blank
  BY DEF IInv, StartsBlank, LoadUi, At, Kinds
<1>2. CASE Parses("ui")
  <2>. DEFINE t == Parsed(Widgets[file["ui"]], {}, {}, FALSE)
  <2>1. file["ui"] \in UiContents
    BY <1>2 DEF IInv, SceneTypeOK, Kinds, Contents, Parses
  <2>2. IsFiniteSet({}) /\ {} \in SUBSET Nat
    BY FS_EmptySet
  <2>3. Described(t, {}, {})
    BY <2>1, <2>2, ParsedIs
  <2>4. ui' = [Blank EXCEPT !.tree = t, !.blobs = Blobs(Range(t))]
    BY <1>1, <1>2 DEF LoadUi
  <2>. HIDE DEF t
  <2>5. t \in Seq(Nodes)
    BY <2>3 DEF Described
  <2>6. Blobs(Range(t)) \in SUBSET Nat
    <3>1. \A i \in DOMAIN t : t[i] \in Nodes
      BY <2>5
    <3>2. \A i \in DOMAIN t : t[i].data \in Nat \cup {NoBlob}
      BY <3>1 DEF Nodes
    <3>. QED
      BY <3>2 DEF Blobs, Range
  <2>7. /\ ui' \in Scenes /\ ui'.tree = t /\ ui'.blobs = Blobs(Range(t))
        /\ ui'.focus = NoNode /\ ui'.pressed = NoNode /\ ui'.hover = NoNode
        /\ ui'.overlay = NoNode /\ ui'.keyboard = NoNode
    BY <2>4, <2>5, <2>6 DEF Blank, Scenes, Pointers
  <2>8. Good(ui')
    BY <2>3, <2>7, DescribedScene DEF Good
  <2>. QED
    BY <2>8, GoodIsNext
<1>3. CASE ~Parses("ui")
  BY <1>3, SameIsNext DEF LoadUi, IInv
<1>. QED
  BY <1>2, <1>3

LEMMA DescribedNext ==
  ASSUME IInv, ReloadUi, Parses("ui")
  PROVE  \E new : Described(new, Live(ui), ui.blobs) /\ ui' \in Reload(ui, new)
<1>. DEFINE new == Parsed(Widgets[file["ui"]], Live(ui), ui.blobs, ui.keyboard = Dangling)
            late == ui.keyboard = Dangling
<1>1. file["ui"] \in UiContents
  BY DEF IInv, SceneTypeOK, Kinds, Contents, Parses
<1>2. IsFiniteSet(Live(ui)) /\ IsFiniteSet(ui.blobs) /\ ui.blobs \in SUBSET Nat
  BY SceneIsFinite DEF IInv, SceneInv, BlobsInv, Scenes
<1>3. late \in BOOLEAN
  OBVIOUS
<1>4. ui' \in Reload(ui, Parsed(Widgets[file["ui"]], Live(ui), ui.blobs, late))
  BY DEF ReloadUi
<1>. HIDE DEF late
<1>5. Described(Parsed(Widgets[file["ui"]], Live(ui), ui.blobs, late), Live(ui), ui.blobs)
  BY <1>1, <1>2, <1>3, ParsedIs
<1>. QED
  BY <1>4, <1>5

LEMMA ReloadUiIsGood ==
  ASSUME IInv, ReloadUi
  PROVE  NextScene
<1>1. CASE Parses("ui")
  <2>1. PICK new : Described(new, Live(ui), ui.blobs) /\ ui' \in Reload(ui, new)
    BY <1>1, DescribedNext
  <2>2. SceneInv(ui)
    BY DEF IInv
  <2>3. Good(ui')
    BY <2>1, <2>2, ReloadKeeps DEF Good
  <2>. QED
    BY <2>3, GoodIsNext
<1>2. CASE ~Parses("ui")
  BY <1>2, SameIsNext DEF ReloadUi, IInv
<1>. QED
  BY <1>1, <1>2

LEMMA NextSceneIsKept ==
  ASSUME IInv, [Next]_vars
  PROVE  NextScene
<1>0. SceneInv(ui)
  BY DEF IInv
<1>1. CASE Input
  <2>1. CASE Press
    <3>1. PICK p \in Places(ui) : ui' \in MouseDown(ui, p)
      BY <2>1 DEF Press, Event
    <3>. QED
      BY <1>0, <3>1, MouseDownKeeps, KeepsIsNext
  <2>2. CASE Release
    <3>1. PICK p \in Places(ui) : ui' \in MouseUp(ui, p)
      BY <2>2 DEF Release, Event
    <3>. QED
      BY <1>0, <3>1, MouseUpKeeps, KeepsIsNext
  <2>3. CASE Move
    <3>1. PICK p \in Places(ui) : ui' \in MouseMove(ui, p)
      BY <2>3 DEF Move, Event
    <3>. QED
      BY <1>0, <3>1, MouseMoveKeeps, KeepsIsNext
  <2>4. CASE Key
    <3>1. PICK key \in {"char", "backspace"} : ui' \in Type(ui, key)
      BY <2>4 DEF Key, Event
    <3>. QED
      BY <1>0, <3>1, TypeKeeps, KeepsIsNext
  <2>5. CASE Host
    BY <1>0, <2>5, HandledKeeps, KeepsIsNext DEF Host, Event
  <2>. QED
    BY <1>1, <2>1, <2>2, <2>3, <2>4, <2>5 DEF Input
<1>2. CASE Frame
  <2>1. ui' \in FrameOf(ui)
    BY <1>2 DEF Frame
  <2>. QED
    BY <1>0, <2>1, FrameKeeps, KeepsIsNext
<1>3. CASE LoadUi
  BY <1>3, LoadUiIsGood
<1>4. CASE ReloadUi
  BY <1>4, ReloadUiIsGood
<1>5. CASE Restart
  <2>1. ui' = Blank
    BY <1>5 DEF Restart
  <2>. QED
    BY <2>1, BlankIsGood, GoodIsNext
<1>6. CASE ui' = ui
  BY <1>0, <1>6, SameIsNext
<1>7. ASSUME Edit \/ (\E k \in Kinds : Watch(k)) \/ LoadStyle \/ Skip \/ Throttled \/ Sweep
             \/ (\E k \in Kinds : Poll(k) \/ Rehash(k)) \/ ReloadStyle \/ Report \/ UNCHANGED vars
      PROVE  ui' = ui
  BY <1>7 DEF Edit, BeginSave, EndSave, Watch, LoadStyle, Skip, Throttled, Sweep, Poll, Rehash,
              ReloadStyle, Report, vars
<1>. QED
  BY <1>1, <1>2, <1>3, <1>4, <1>5, <1>6, <1>7 DEF Next, Startup, Reloading

-----------------------------------------------------------------------------
(* Everything but the scene.                                               *)

LEMMA InitIsTyped == Init => IInv /\ KeyboardInv(ui) /\ ModalInv(ui)
<1>. SUFFICES ASSUME Init PROVE IInv /\ KeyboardInv(ui) /\ ModalInv(ui)
  OBVIOUS
<1>1. ui = Blank /\ Good(Blank)
  BY BlankIsGood DEF Init
<1>2. SceneInv(ui) /\ ui \in Scenes /\ Distinct(ui)
  BY <1>1 DEF Good, SceneInv
<1>3. Live(ui) = {} /\ Range(ui.tree) = {}
  BY <1>1 DEF Blank, Live, Names, Range
<1>4. KeyboardInv(ui) /\ ModalInv(ui)
  BY <1>3 DEF KeyboardInv, OnlyKeyboard, ModalInv, OnScreen
<1>5. SceneTypeOK
  <2>1. /\ file \in [Kinds -> UiContents \cup Styles \cup {Broken}]
        /\ \A k \in Kinds : file[k] \in Contents(k) \cup {Broken}
    BY DEF Init
  <2>2. /\ last_hash \in [Kinds -> UiContents \cup Styles \cup {Broken, Nothing}]
        /\ loaded \in [Kinds -> UiContents \cup Styles \cup {Nothing}]
        /\ \A k \in Kinds : loaded[k] = Nothing
    BY DEF Init
  <2>3. saving = {} /\ torn = {} /\ stale = {} /\ force_render = TRUE /\ reloads = FALSE
    BY DEF Init
  <2>5. saves \in 0 .. MaxSaves
    <3>1. MaxSaves \in Nat /\ saves = 0
      BY HotReloadAssumption DEF Init, HotReloadAssumption
    <3>. QED
      BY <3>1
  <2>4. pc \in Steps
    BY DEF Init, Steps, Kinds
  <2>. QED
    BY <1>2, <2>1, <2>2, <2>3, <2>4, <2>5 DEF SceneTypeOK, Distinct
<1>. QED
  BY <1>1, <1>2, <1>4, <1>5 DEF IInv, StartsBlank

(* The files, and what the program knows of them.                           *)
FilesOK ==
  /\ file \in [Kinds -> UiContents \cup Styles \cup {Broken}]
  /\ last_hash \in [Kinds -> UiContents \cup Styles \cup {Broken, Nothing}]
  /\ loaded \in [Kinds -> UiContents \cup Styles \cup {Nothing}]
  /\ \A k \in Kinds : file[k] \in Contents(k) \cup {Broken} /\ loaded[k] \in Contents(k) \cup {Nothing}
  /\ saving \subseteq Kinds /\ torn \subseteq Kinds /\ stale \subseteq Kinds
  /\ saves \in 0 .. MaxSaves
  /\ pc \in Steps
  /\ force_render \in BOOLEAN /\ reloads \in BOOLEAN

LEMMA FilesAreKept ==
  ASSUME IInv, [Next]_vars
  PROVE  FilesOK'
<1>. FilesOK /\ MaxSaves \in Nat
  BY HotReloadAssumption DEF IInv, SceneTypeOK, FilesOK, HotReloadAssumption
<1>. USE DEF FilesOK
<1>1. CASE Edit
  <2>1. ASSUME NEW k \in Kinds, BeginSave(k) PROVE FilesOK'
    BY <2>1 DEF BeginSave, TornBy, loopVars
  <2>2. ASSUME NEW k \in Kinds, NEW c \in Contents(k) \cup {Broken}, EndSave(k, c) PROVE FilesOK'
    <3>1. c \in UiContents \cup Styles \cup {Broken}
      BY DEF Contents
    <3>2. TornBy(k) \subseteq Kinds
      BY DEF TornBy
    <3>3. file' = [file EXCEPT ![k] = c] /\ saving' = saving \ {k} /\ torn' = TornBy(k)
          /\ UNCHANGED <<last_hash, loaded, stale, saves, pc, force_render, reloads>>
      BY <2>2 DEF EndSave, loopVars
    <3>4. file' \in [Kinds -> UiContents \cup Styles \cup {Broken}]
          /\ \A l \in Kinds : file'[l] \in Contents(l) \cup {Broken}
      BY <3>1, <3>3
    <3>. QED
      BY <3>2, <3>3, <3>4 DEF Contents
  <2>. QED
    BY <1>1, <2>1, <2>2 DEF Edit
<1>2. CASE Input
  <2>1. ASSUME NEW kind, NEW outcomes, Event(kind, outcomes) PROVE FilesOK'
    BY <2>1 DEF Event, fileVars, Steps, Contents
  <2>. QED
    BY <1>2, <2>1 DEF Input, Press, Release, Move, Key, Host
<1>3. CASE Startup
  <2>1. ASSUME NEW k \in Kinds, Watch(k) PROVE FilesOK'
    BY <2>1 DEF Watch, fileVars, Steps, Contents, Kinds
  <2>2. CASE LoadStyle
    BY <2>2 DEF LoadStyle, fileVars, Steps, Contents, Kinds, AfterWatch, Parses
  <2>3. CASE LoadUi
    BY <2>3 DEF LoadUi, fileVars, Steps, Contents, Kinds, AfterWatch, Parses
  <2>. QED
    BY <1>3, <2>1, <2>2, <2>3 DEF Startup
<1>4. CASE Frame
  BY <1>4 DEF Frame, fileVars, Steps, Contents
<1>5. CASE Skip \/ Throttled
  BY <1>5 DEF Skip, Throttled, fileVars, Steps, Contents
<1>6. CASE Sweep
  BY <1>6 DEF Sweep, fileVars, Steps, Contents, Kinds
<1>7. CASE Reloading
  <2>1. ASSUME NEW k \in Kinds, Poll(k) PROVE FilesOK'
    <3>1. pc' \in Steps
      BY <2>1 DEF Poll, AfterPoll, Steps, Kinds
    <3>2. torn' \subseteq Kinds
      BY <2>1 DEF Poll
    <3>3. UNCHANGED <<file, saving, saves, last_hash, loaded, reloads, force_render, stale>>
      BY <2>1 DEF Poll, fileVars
    <3>. QED
      BY <3>1, <3>2, <3>3 DEF Contents
  <2>2. ASSUME NEW k \in Kinds, Rehash(k) PROVE FilesOK'
    BY <2>2 DEF Rehash, AfterPoll, fileVars, Steps, Contents, Kinds
  <2>3. CASE ReloadStyle
    BY <2>3 DEF ReloadStyle, AfterPoll, fileVars, Steps, Contents, Kinds, Parses
  <2>4. CASE ReloadUi
    <3>1. pc' \in Steps
      BY <2>4 DEF ReloadUi, AfterPoll, Steps, Kinds
    <3>2. \/ loaded' = loaded
          \/ loaded' = [loaded EXCEPT !["ui"] = file["ui"]] /\ Parses("ui")
      BY <2>4 DEF ReloadUi
    <3>3. /\ loaded' \in [Kinds -> UiContents \cup Styles \cup {Nothing}]
          /\ \A k \in Kinds : loaded'[k] \in Contents(k) \cup {Nothing}
      BY <3>2 DEF Parses, Contents, Kinds
    <3>4. stale' \subseteq Kinds
      BY <2>4 DEF ReloadUi, Kinds
    <3>5. UNCHANGED <<file, saving, saves, last_hash, torn, reloads, force_render>>
      BY <2>4 DEF ReloadUi, fileVars
    <3>. QED
      BY <3>1, <3>3, <3>4, <3>5 DEF Contents
  <2>5. CASE Report
    BY <2>5 DEF Report, fileVars, Steps, Contents
  <2>. QED
    BY <1>7, <2>1, <2>2, <2>3, <2>4, <2>5 DEF Reloading
<1>8. CASE Restart
  BY <1>8 DEF Restart, fileVars, Steps, Contents, Kinds
<1>9. CASE UNCHANGED vars
  BY <1>9 DEF vars, Contents
<1>. QED
  BY <1>1, <1>2, <1>3, <1>4, <1>5, <1>6, <1>7, <1>8, <1>9 DEF Next

LEMMA StartIsKept ==
  ASSUME IInv, [Next]_vars
  PROVE  StartsBlank'
<1>. USE DEF StartsBlank
<1>0. StartsBlank
  BY DEF IInv
<1>1. ASSUME UNCHANGED ui, UNCHANGED pc PROVE StartsBlank'
  BY <1>0, <1>1
<1>2. ASSUME NEW k \in Kinds, Watch(k) PROVE StartsBlank'
  BY <1>0, <1>2 DEF Watch, At
<1>3. CASE LoadStyle
  BY <1>0, <1>3 DEF LoadStyle, At, Kinds
<1>4. CASE Restart
  BY <1>4 DEF Restart
<1>5. ASSUME pc' \notin {"watch", "load"} \X Kinds PROVE StartsBlank'
  BY <1>5
<1>6. ASSUME LoadUi \/ Frame \/ Skip \/ Throttled \/ Sweep \/ ReloadStyle \/ ReloadUi \/ Report
             \/ Input \/ (\E k \in Kinds : Poll(k) \/ Rehash(k))
      PROVE  pc' \notin {"watch", "load"} \X Kinds
  BY <1>6 DEF LoadUi, Frame, Skip, Throttled, Sweep, ReloadStyle, ReloadUi, Report, Input, Press,
              Release, Move, Key, Host, Event, Poll, Rehash, AfterPoll, AfterWatch, At, Kinds
<1>7. ASSUME Edit \/ UNCHANGED vars PROVE UNCHANGED ui /\ UNCHANGED pc
  BY <1>7 DEF Edit, BeginSave, EndSave, loopVars, vars
<1>. QED
  BY <1>1, <1>2, <1>3, <1>4, <1>5, <1>6, <1>7 DEF Next, Startup, Reloading

LEMMA IInvIsKept ==
  ASSUME IInv, [Next]_vars
  PROVE  IInv'
<1>1. SceneInv(ui')
  BY NextSceneIsKept DEF NextScene
<1>2. ui' \in Scenes /\ Distinct(ui')
  BY <1>1 DEF SceneInv
<1>3. SceneTypeOK'
  BY <1>2, FilesAreKept DEF FilesOK, SceneTypeOK, Distinct
<1>. QED
  BY <1>1, <1>3, StartIsKept DEF IInv

-----------------------------------------------------------------------------
(* The theorems.                                                           *)

LEMMA IInvAlways == Spec => []IInv
<1>1. Init => IInv
  BY InitIsTyped
<1>2. IInv /\ [Next]_vars => IInv'
  BY IInvIsKept
<1>. QED
  BY <1>1, <1>2, PTL DEF Spec

(* HotReload's type invariant: the tree stays a sequence of widgets with    *)
(* names of their own, through every event, frame and reload.               *)
THEOREM ScenesAreTyped == Spec => []SceneTypeOK
<1>1. IInv => SceneTypeOK
  BY DEF IInv
<1>. QED
  BY <1>1, IInvAlways, PTL

(* scene__node_free and whatever calls it leave no slot of the scene that   *)
(* names a freed node.                                                      *)
THEOREM PointersStayLive == Spec => []PointersAreLive
<1>1. IInv => PointersAreLive
  BY DEF IInv, SceneInv, PointersInv, PointersAreLive
<1>. QED
  BY <1>1, IInvAlways, PTL

(* scene__reconcile_tree: whatever tree a reload reads, and whatever nodes  *)
(* it pairs, no canvas is leaked, freed twice or shared.                    *)
THEOREM BlobsStayOwned == Spec => []BlobsOwnedOnce
<1>1. IInv => BlobsOwnedOnce
  BY DEF IInv, SceneInv, BlobsInv, BlobsOwnedOnce
<1>. QED
  BY <1>1, IInvAlways, PTL

(* scene__set_focus, the handlers that show and hide the keyboard and the   *)
(* hosts that ask for one: a keyboard is in the tree for a text widget that *)
(* has the focus, or because the host asked for it.                         *)
THEOREM TheKeyboardServes ==
  ASSUME FilesHaveNoKeyboard
  PROVE  Spec => []KeyboardServesFocus
<1>. DEFINE J == IInv /\ KeyboardInv(ui)
<1>1. Init => J
  BY InitIsTyped
<1>2. J /\ [Next]_vars => J'
  BY IInvIsKept, NextSceneIsKept DEF NextScene
<1>3. J => KeyboardServesFocus
  <2>. SUFFICES ASSUME J PROVE KeyboardServesFocus
    OBVIOUS
  <2>1. \A n \in Range(ui.tree) : n.name \in Live(ui)
    BY DEF Live, Names
  <2>. QED
    BY <2>1 DEF KeyboardInv, OnlyKeyboard, Wanted, KeyboardServesFocus
<1>. HIDE DEF J
<1>. QED
  BY <1>1, <1>2, <1>3, PTL DEF Spec

(* scene__layout, the popups and the selects that pass the overlay on:      *)
(* however many popups are open, while one of them is on screen a press     *)
(* within the bounds of the overlay goes to a popup, but for the frames in  *)
(* which the overlay was given up and nothing has been laid out since.      *)
THEOREM ThePopupIsModal == Spec => []ModalPopup
<1>. DEFINE J == IInv /\ ModalInv(ui)
<1>1. Init => J
  BY InitIsTyped
<1>2. J /\ [Next]_vars => J'
  BY IInvIsKept, NextSceneIsKept DEF NextScene
<1>3. J => ModalPopup
  <2>. SUFFICES ASSUME J, NEW i \in OpenPopups(ui), ui.tree[i].laid, ~ui.bared,
                       NEW p \in Places(ui) \ {Nowhere}, ~p.beyond
                PROVE  IsA(ui, HitTest(ui, p), "popup")
    BY DEF ModalPopup
  <2>1. ui.tree[i] \in OnScreen(ui)
    BY DEF OpenPopups, OnScreen, Range
  <2>2. IsA(ui, ui.overlay, "popup")
    BY <2>1 DEF ModalInv
  <2>. QED
    BY <2>2 DEF HitTest
<1>. HIDE DEF J
<1>. QED
  BY <1>1, <1>2, <1>3, PTL DEF Spec

(* hot_reload.c, reload_ui: what was typed into a widget with an id of its  *)
(* own, and the focus, survive a reload of whatever file, for as many ids   *)
(* as the map has room for and whatever they hash to, unless another hashes *)
(* to the same.                                                             *)
THEOREM TheEditSurvives == Spec => EditingSurvives
<1>. DEFINE A == ReloadUi /\ Parses("ui") /\ ~ui'.crashed =>
                   \A n \in Range(ui.tree), m \in Range(ui'.tree) :
                     Editing(ui, n) /\ Found(ui, n) /\ Editing(ui', m) /\ m.id = n.id
                       => /\ n.text = "edited" => m.text = "edited"
                          /\ ui.focus = n.name => ui'.focus = m.name
<1>1. IInv /\ [Next]_vars => [A]_vars
  <2>. SUFFICES ASSUME IInv, ReloadUi, Parses("ui"),
                       NEW n \in Range(ui.tree), NEW m \in Range(ui'.tree),
                       Editing(ui, n), Found(ui, n), Editing(ui', m), m.id = n.id
                PROVE  /\ n.text = "edited" => m.text = "edited"
                       /\ ui.focus = n.name => ui'.focus = m.name
    OBVIOUS
  <2>1. PICK new : Described(new, Live(ui), ui.blobs) /\ ui' \in Reload(ui, new)
    BY DescribedNext
  <2>2. SceneInv(ui)
    BY DEF IInv
  <2>. QED
    BY <2>1, <2>2, ReloadKeepsText
<1>2. [][A]_vars => EditingSurvives
  BY DEF EditingSurvives
<1>. HIDE DEF A
<1>. QED
  BY <1>1, <1>2, IInvAlways, PTL DEF Spec
=============================================================================

------------------------------ MODULE MeekShellV1 ------------------------------
(***************************************************************************)
(* The compositor's end of the private meek_shell_v1 protocol              *)
(* (meek-compositor/src/meek_shell_v1.c): which client is bound as the     *)
(* shell, whether events are forwarded to it, and the ids under which the  *)
(* wl_buffers of the apps are known to it.                                 *)
(*                                                                         *)
(* told, shown, held, shell_owes_frame and ready do not exist in the code: *)
(* they record what the event stream has told the bound shell, which is    *)
(* the state a shell that believes every event is in once it has read the  *)
(* stream.                                                                 *)
(***************************************************************************)
EXTENDS Naturals, FiniteSets

CONSTANTS
  Clients,        \* wl_clients that may connect
  NoClient,       \* the NULL wl_client
  ShellExes,      \* the clients whose /proc/<pid>/exe passes exe_allowed
  Buffers,        \* addresses of wl_buffer resources; freed ones come back
  Titles,         \* the title strings
  NoTitle,        \* a NULL title, sent as ""
  Untold,         \* told[h] while the shell does not know the handle h
  MaxHandle,      \* bound: handles given out
  MaxBufferId,    \* bound: buffer ids given out
  ForwardFaults   \* whether dup, memfd_create, mmap... may fail

ASSUME MeekShellAssumption ==
  /\ NoClient \notin Clients
  /\ ShellExes \subseteq Clients
  /\ NoTitle \in Titles
  /\ Untold \notin Titles
  /\ MaxHandle \in Nat /\ MaxBufferId \in Nat
  /\ ForwardFaults \in BOOLEAN

Handles   == 1 .. MaxHandle
BufferIds == 1 .. MaxBufferId

VARIABLES
  bound,           \* client of the bound resource
  announced,       \* announce_ready was received, from this shell or another
  buffer_id,       \* the buffer cache: the id of each cached wl_buffer, or 0
  next_buffer_id,
  ready,           \* announce_ready was received from the bound shell
  told,            \* told[h]: last title of h in the stream, or Untold
  shown,           \* shown[h]: id of the last buffer of h in the stream, or 0
  held,            \* ids given to the shell and not forgotten
  shell_owes_frame \* a buffer was sent since the shell last committed

slotVars   == <<bound, announced, ready>>
cacheVars  == <<buffer_id, next_buffer_id>>
pixelsVars == <<shown, held, shell_owes_frame>>
meekVars   == <<slotVars, cacheVars, told, pixelsVars>>

(* The view of a shell that has read nothing. *)
NothingTold  == [h \in Handles |-> Untold]
NothingShown == [h \in Handles |-> 0]

MeekInit ==
  /\ bound = NoClient
  /\ announced = FALSE
  /\ ready = FALSE
  /\ buffer_id = [b \in Buffers |-> 0]
  /\ next_buffer_id = 1
  /\ told = NothingTold
  /\ shown = NothingShown
  /\ held = {}
  /\ shell_owes_frame = FALSE

-----------------------------------------------------------------------------
(* The guard of every forwarder. *)
Listening == bound # NoClient /\ announced

(* fire_toplevel_added and fire_toplevel_title_changed: t is now told of h. *)
FireTitle(h, t) ==
  told' = IF Listening THEN [told EXCEPT ![h] = t] ELSE told

(* fire_toplevel_removed for each handle in gone. *)
FireRemoved(gone) ==
  told' = IF Listening
          THEN [h \in Handles |-> IF h \in gone THEN Untold ELSE told[h]]
          ELSE told

(* buffer_id_for: a cached id, or the next one. *)
BufferIdFor(b) == IF buffer_id[b] # 0 THEN buffer_id[b] ELSE next_buffer_id

SendBuffer(h, b) ==
  LET id == BufferIdFor(b) IN
  /\ id \in BufferIds
  /\ buffer_id' = [buffer_id EXCEPT ![b] = id]
  /\ next_buffer_id' = IF id = next_buffer_id THEN id + 1 ELSE next_buffer_id
  /\ shown' = [shown EXCEPT ![h] = id]
  /\ held' = held \cup {id}
  /\ shell_owes_frame' = TRUE

(* fire_toplevel_buffer for a non-zero handle; sent tells whether the event *)
(* went out, which it does not when nobody listens or a system call fails.  *)
FireBuffer(h, b, sent) ==
  \/ Listening /\ sent /\ SendBuffer(h, b)
  \/ (Listening => ForwardFaults) /\ ~sent /\ UNCHANGED <<cacheVars, pixelsVars>>

(* Mutant: the shell is not told. *)
FireForgotten_Silent(dead) == held' = held

(* on_buffer_destroyed for every buffer in dead: tell the shell of the id   *)
(* and drop the cache entry.                                                *)
FireForgotten(dead) ==
  held' = IF Listening THEN held \ {buffer_id[b] : b \in dead} ELSE held

DropCached(dead) ==
  /\ buffer_id' = [b \in Buffers |-> IF b \in dead THEN 0 ELSE buffer_id[b]]
  /\ UNCHANGED next_buffer_id

-----------------------------------------------------------------------------
(* bind, after the checks of the executable and of the free slot; the call  *)
(* of demote_client_toplevels is added by the composition.  announced stays *)
(* as the previous shell left it.                                           *)
TakeSlot(c) ==
  /\ c \in ShellExes
  /\ bound = NoClient
  /\ bound' = c
  /\ UNCHANGED <<announced, ready>>

(* resource_destroy: the slot is free again; announced stays. *)
FreeSlot ==
  /\ bound' = NoClient
  /\ ready' = FALSE
  /\ UNCHANGED announced
  /\ told' = NothingTold
  /\ shown' = NothingShown
  /\ held' = {}
  /\ shell_owes_frame' = FALSE
=============================================================================

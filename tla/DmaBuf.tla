---------------------------------- MODULE DmaBuf ----------------------------------
(***************************************************************************)
(* meek-compositor, linux_dmabuf.c: who owns the plane fds, EGL images and *)
(* textures of a client's dmabufs, from the params that collect the planes *)
(* to the wl_buffer that keeps them, on every failure path.                *)
(*                                                                         *)
(* An fd is a number of the process's table.  The kernel hands out the     *)
(* lowest free one, so that a number closed twice may be somebody else's   *)
(* by then; what a holder stores is the number.                            *)
(***************************************************************************)
EXTENDS Naturals, FiniteSets

CONSTANTS
  Params,         \* zwp_linux_buffer_params_v1 objects of the client
  MaxPlanes,      \* _LINUX_DMABUF_MAX_PLANES
  MaxFd,          \* bound: size of the fd table
  MaxImages       \* bound: EGL images

ASSUME DmaBufAssumption ==
  MaxPlanes \in Nat \ {0} /\ MaxFd \in Nat /\ MaxImages \in Nat

VARIABLES
  client,         \* "connected", "condemned": an error was posted, or "gone"
  params,         \* object -> its planes and whether it was used
  buffers,        \* object -> the wl_buffer made of it
  open,           \* the fds that are open
  images          \* EGL images, each with its texture

vars == <<client, params, buffers, open, images>>

Fds == 1 .. MaxFd
Images == 1 .. MaxImages
Planes == 0 .. MaxPlanes - 1
Unset == 0
NoParams == [live |-> FALSE, used |-> FALSE, fd |-> [i \in Planes |-> Unset]]
NoBuffer == [live |-> FALSE, fds |-> {}, image |-> 0]

Lowest(S) == CHOOSE n \in S : \A m \in S : n <= m
PlaneFds(p) == {params[p].fd[i] : i \in Planes} \ {Unset}
LiveParams == {p \in Params : params[p].live}
LiveBuffers == {p \in Params : buffers[p].live}

Init ==
  /\ client = "connected"
  /\ params = [p \in Params |-> NoParams]
  /\ buffers = [p \in Params |-> NoBuffer]
  /\ open = {} /\ images = {}

-----------------------------------------------------------------------------
create_params(p) ==
  /\ ~params[p].live /\ ~buffers[p].live
  /\ params' = [params EXCEPT ![p] = [NoParams EXCEPT !.live = TRUE]]
  /\ UNCHANGED <<client, buffers, open, images>>

(* Mutant: a plane that was set is replaced. *)
params_add_Replaces(p, i) ==
  /\ Fds \ open # {}
  /\ LET fd == Lowest(Fds \ open)
     IN IF ~params[p].used /\ i \in Planes
        THEN /\ params' = [params EXCEPT ![p].fd[i] = fd]
             /\ open' = open \cup {fd}
             /\ UNCHANGED client
        ELSE client' = "condemned" /\ UNCHANGED <<params, open>>
  /\ UNCHANGED <<buffers, images>>

(* The fd came with the request; with a protocol error it is closed.        *)
params_add(p, i) ==
  /\ Fds \ open # {}
  /\ LET fd == Lowest(Fds \ open)
     IN IF ~params[p].used /\ i \in Planes /\ params[p].fd[i] = Unset
        THEN /\ params' = [params EXCEPT ![p].fd[i] = fd]
             /\ open' = open \cup {fd}
             /\ UNCHANGED client
        ELSE client' = "condemned" /\ UNCHANGED <<params, open>>
  /\ UNCHANGED <<buffers, images>>

(* close_plane_fds *)
PlanesClosed(p) ==
  /\ params' = [params EXCEPT ![p] = [@ EXCEPT !.used = TRUE, !.fd = NoParams.fd]]
  /\ open' = open \ PlaneFds(p)

(* The planes move into the new buffer, in params they are unset.           *)
PlanesMoved(p, image) ==
  /\ params' = [params EXCEPT ![p] = [@ EXCEPT !.used = TRUE, !.fd = NoParams.fd]]
  /\ buffers' = [buffers EXCEPT ![p] =
                   [live |-> TRUE, fds |-> PlaneFds(p), image |-> image]]

(* wl_resource_create fails after the planes moved: they are closed in the  *)
(* buffer that is thrown away.                                              *)
ResourceFails(p) == PlanesClosed(p)

(* Mutant: the image of an allocation that failed stays. *)
AllocationFails_Leak(p) ==
  /\ images # Images
  /\ images' = images \cup {Lowest(Images \ images)}
  /\ PlanesClosed(p)

(* malloc fails with the image already made: it is destroyed.               *)
AllocationFails(p) ==
  /\ images # Images
  /\ PlanesClosed(p) /\ UNCHANGED images

(* do_import fails, with the image not made or destroyed again.             *)
ImportFails(p) == PlanesClosed(p) /\ UNCHANGED images

(* One wl_buffer of the planes of p; failed is what becomes of the client   *)
(* when there is no image, exhausted when there is no memory.               *)
BufferCreated(p, failed, exhausted) ==
  IF params[p].used
  THEN client' = "condemned" /\ UNCHANGED <<params, buffers, open, images>>
  ELSE
    \/ /\ ImportFails(p)
       /\ client' = failed
       /\ UNCHANGED buffers
    \/ /\ PlaneFds(p) # {}
       /\ AllocationFails(p)
       /\ client' = exhausted
       /\ UNCHANGED buffers
    \/ /\ PlaneFds(p) # {} /\ images # Images
       /\ ResourceFails(p)
       /\ client' = "condemned"
       /\ UNCHANGED <<buffers, images>>
    \/ /\ PlaneFds(p) # {} /\ images # Images
       /\ LET image == Lowest(Images \ images)
          IN PlanesMoved(p, image) /\ images' = images \cup {image}
       /\ UNCHANGED <<client, open>>

(* create tells the client that it failed, create_immed disconnects it.     *)
params_create(p) == BufferCreated(p, client, client)
params_create_immed(p) == BufferCreated(p, "condemned", "condemned")

(* params__destroy_resource *)
ParamsFreed(gone) ==
  params' = [p \in Params |-> IF p \in gone THEN NoParams ELSE params[p]]

params_destroy(p) ==
  /\ ParamsFreed({p})
  /\ open' = open \ PlaneFds(p)
  /\ UNCHANGED <<client, buffers, images>>

(* buffer__destroy_resource *)
BuffersFreed(gone) ==
  /\ buffers' = [p \in Params |-> IF p \in gone THEN NoBuffer ELSE buffers[p]]
  /\ images' = images \ {buffers[p].image : p \in gone}

buffer_destroy(p) ==
  /\ BuffersFreed({p})
  /\ open' = open \ buffers[p].fds
  /\ UNCHANGED <<client, params>>

(* The connection ends: libwayland destroys what is left.                   *)
disconnect ==
  /\ client # "gone"
  /\ client' = "gone"
  /\ ParamsFreed(LiveParams) /\ BuffersFreed(LiveBuffers)
  /\ open' = open \ ((UNION {PlaneFds(p) : p \in LiveParams})
                       \cup (UNION {buffers[p].fds : p \in LiveBuffers}))

reconnect ==
  /\ client = "gone"
  /\ client' = "connected"
  /\ UNCHANGED <<params, buffers, open, images>>

-----------------------------------------------------------------------------
Request ==
  \/ \E p \in Params : create_params(p)
  \/ \E p \in LiveParams :
       \/ \E i \in 0 .. MaxPlanes : params_add(p, i)
       \/ params_create(p) \/ params_create_immed(p)
       \/ params_destroy(p)
  \/ \E p \in LiveBuffers : buffer_destroy(p)

Next ==
  \/ client = "connected" /\ Request
  \/ disconnect
  \/ reconnect

Spec == Init /\ [][Next]_vars

-----------------------------------------------------------------------------
Held(p) == PlaneFds(p) \cup buffers[p].fds

(* Types; destroyed objects hold nothing, and a client that is gone left    *)
(* no object behind.                                                        *)
DmaBufTypeOK ==
  /\ client \in {"connected", "condemned", "gone"}
  /\ params \in [Params -> [live : BOOLEAN, used : BOOLEAN,
                            fd : [Planes -> Fds \cup {Unset}]]]
  /\ buffers \in [Params -> [live : BOOLEAN, fds : SUBSET Fds, image : 0 .. MaxImages]]
  /\ open \in SUBSET Fds /\ images \in SUBSET Images
  /\ \A p \in Params :
       /\ params[p].live \/ params[p] = NoParams
       /\ buffers[p].live \/ buffers[p] = NoBuffer
  /\ client = "gone" => LiveParams = {} /\ LiveBuffers = {}

(* Every open fd is held in exactly one place, by a plane of a params that  *)
(* was not used or by a buffer, and no place holds a number that was        *)
(* closed: whatever fails, nothing leaks and nothing is closed twice.       *)
FdsAreHeldOnce ==
  /\ open = UNION {Held(p) : p \in Params}
  /\ \A p, q \in Params : Held(p) \cap Held(q) # {} => p = q
  /\ \A p \in Params :
       /\ PlaneFds(p) \cap buffers[p].fds = {}
       /\ \A i, j \in Planes :
            params[p].fd[i] = params[p].fd[j] /\ params[p].fd[i] # Unset => i = j
       /\ params[p].used => PlaneFds(p) = {}

(* Every EGL image with its texture is that of exactly one live buffer.     *)
ImagesFollowBuffers ==
  /\ images = {buffers[p].image : p \in LiveBuffers}
  /\ \A p, q \in LiveBuffers : buffers[p].image = buffers[q].image => p = q

(* Of all that was imported for the client, nothing leaks, and nothing is   *)
(* released twice.                                                          *)
NothingIsSharedOrLeaks == FdsAreHeldOnce /\ ImagesFollowBuffers
=============================================================================

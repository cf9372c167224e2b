----------------------------- MODULE DmaBuf_proofs -----------------------------
(***************************************************************************)
(* Proofs about DmaBuf: for any number of params, planes, fds and images,  *)
(* and whatever fails, every fd and every EGL image has exactly one owner. *)
(***************************************************************************)
EXTENDS DmaBuf, TLAPS, WellFoundedInduction

(* Params that were not used have made no buffer: the planes of a new      *)
(* buffer never take the place of others.                                  *)
UnusedMadeNoBuffer ==
  \A p \in Params : params[p].live /\ ~params[p].used => ~buffers[p].live

IInv ==
  /\ DmaBufTypeOK
  /\ UnusedMadeNoBuffer
  /\ FdsAreHeldOnce
  /\ ImagesFollowBuffers

(* What one object holds is held by it once: the part of FdsAreHeldOnce    *)
(* that is about one object alone.                                         *)
HeldOnceBy(p) ==
  /\ PlaneFds(p) \cap buffers[p].fds = {}
  /\ \A i, j \in Planes :
       params[p].fd[i] = params[p].fd[j] /\ params[p].fd[i] # Unset => i = j
  /\ params[p].used => PlaneFds(p) = {}

-----------------------------------------------------------------------------
(* The lowest free number exists and is free.                              *)
LEMMA LowestIsLeast ==
  ASSUME NEW S \in SUBSET Nat, S # {}
  PROVE  Lowest(S) \in S /\ \A m \in S : Lowest(S) <= m
<1>1. PICK n \in S : \A m \in S : <<m, n>> \notin OpToRel(<, Nat)
  BY WFMin, NatLessThanWellFounded, Zenon
<1>2. \A m, k \in Nat : m < k => <<m, k>> \in OpToRel(<, Nat)
  BY Zenon DEF OpToRel
<1>3. \A m \in S : ~(m < n)
  BY <1>1, <1>2, Zenon
<1>4. \A m \in S : n <= m
  BY <1>3
<1> QED
  BY <1>4 DEF Lowest

LEMMA NumbersAreNaturals == Fds \in SUBSET Nat /\ Images \in SUBSET Nat /\ Unset \notin Fds
BY DmaBufAssumption DEF DmaBufAssumption, Fds, Images, Unset

LEMMA FreeFd == Fds \ open # {} => Lowest(Fds \ open) \in Fds \ open
<1>1. Fds \ open \in SUBSET Nat
  BY NumbersAreNaturals
<1> QED
  BY <1>1, LowestIsLeast

LEMMA FreeImage ==
  images \in SUBSET Images /\ images # Images => Lowest(Images \ images) \in Images \ images
<1> HAVE images \in SUBSET Images /\ images # Images
<1>1. Images \ images \in SUBSET Nat /\ Images \ images # {}
  BY NumbersAreNaturals
<1> QED
  BY <1>1, LowestIsLeast

(* The records that stand for nothing are of their type and hold nothing.  *)
LEMMA NothingTypes ==
  /\ NoParams \in [live : BOOLEAN, used : BOOLEAN, fd : [Planes -> Fds \cup {Unset}]]
  /\ NoBuffer \in [live : BOOLEAN, fds : SUBSET Fds, image : 0 .. MaxImages]
  /\ ~NoParams.live /\ ~NoParams.used /\ ~NoBuffer.live
  /\ NoParams.fd = [i \in Planes |-> Unset]
  /\ NoBuffer.fds = {} /\ NoBuffer.image = 0
BY DmaBufAssumption DEF DmaBufAssumption, NoParams, NoBuffer, Unset

(* No plane that is set is no fd.                                          *)
LEMMA NoPlanes ==
  ASSUME NEW p \in Params, params[p].fd = NoParams.fd PROVE PlaneFds(p) = {}
BY NothingTypes DEF PlaneFds

LEMMA NoPlanesNext ==
  ASSUME NEW p \in Params, params'[p].fd = NoParams.fd PROVE PlaneFds(p)' = {}
BY NothingTypes DEF PlaneFds

LEMMA PlanesAreFds ==
  ASSUME DmaBufTypeOK, NEW p \in Params
  PROVE  PlaneFds(p) \in SUBSET Fds
BY DEF DmaBufTypeOK, PlaneFds

(* A step that changes the hold of one object leaves every fd held once,   *)
(* if what it lets go of is closed and what it takes was not open.         *)
LEMMA OneHolderChanges ==
  ASSUME FdsAreHeldOnce, NEW p \in Params,
         \A q \in Params \ {p} : params'[q] = params[q] /\ buffers'[q] = buffers[q],
         open' = (open \ Held(p)) \cup Held(p)',
         Held(p)' \cap (open \ Held(p)) = {},
         HeldOnceBy(p)'
  PROVE  FdsAreHeldOnce'
<1>1. \A q \in Params \ {p} : Held(q)' = Held(q) /\ (HeldOnceBy(q) => HeldOnceBy(q)')
  BY DEF Held, PlaneFds, HeldOnceBy
<1>2. \A q \in Params : HeldOnceBy(q)
  BY DEF FdsAreHeldOnce, HeldOnceBy
<1>3. \A q \in Params \ {p} : Held(q) \cap Held(p) = {}
  BY DEF FdsAreHeldOnce
<1>4. open = UNION {Held(q) : q \in Params}
  BY DEF FdsAreHeldOnce
<1>5. open' = UNION {Held(q)' : q \in Params}
  <2>1. \A fd : fd \in open' <=> \E q \in Params : fd \in Held(q)'
    BY <1>1, <1>3, <1>4
  <2> QED
    BY <2>1
<1>6. \A q, r \in Params : Held(q)' \cap Held(r)' # {} => q = r
  <2> SUFFICES ASSUME NEW q \in Params, NEW r \in Params, q # r
               PROVE  Held(q)' \cap Held(r)' = {}
    OBVIOUS
  <2>1. CASE q # p /\ r # p
    BY <2>1, <1>1 DEF FdsAreHeldOnce
  <2>2. ASSUME NEW s \in Params \ {p} PROVE Held(s)' \cap Held(p)' = {}
    <3>1. Held(s) \subseteq open \ Held(p)
      BY <1>3, <1>4
    <3> QED
      BY <3>1, <1>1
  <2> QED
    BY <2>1, <2>2
<1>7. \A q \in Params : HeldOnceBy(q)'
  BY <1>1, <1>2
<1> QED
  BY <1>5, <1>6, <1>7 DEF FdsAreHeldOnce, HeldOnceBy

(* A protocol error, or a request that has nothing to do.                  *)
LEMMA OnlyClientChanges ==
  ASSUME IInv, UNCHANGED <<params, buffers, open, images>>,
         client' \in {"connected", "condemned", "gone"},
         client' = "gone" => client = "gone"
  PROVE  IInv'
<1>1. DmaBufTypeOK'
  BY DEF IInv, DmaBufTypeOK, LiveParams, LiveBuffers
<1>2. UnusedMadeNoBuffer'
  BY DEF IInv, UnusedMadeNoBuffer
<1>3. FdsAreHeldOnce'
  <2>1. \A p \in Params : PlaneFds(p)' = PlaneFds(p) /\ Held(p)' = Held(p)
    BY DEF PlaneFds, Held
  <2> QED
    BY <2>1 DEF IInv, FdsAreHeldOnce
<1>4. ImagesFollowBuffers'
  BY DEF IInv, ImagesFollowBuffers, LiveBuffers
<1> QED
  BY <1>1, <1>2, <1>3, <1>4 DEF IInv

(* The images stay, if the live buffers and the images of them do.         *)
LEMMA ImagesUntouched ==
  ASSUME ImagesFollowBuffers, UNCHANGED <<buffers, images>>
  PROVE  ImagesFollowBuffers'
BY DEF ImagesFollowBuffers, LiveBuffers

-----------------------------------------------------------------------------
LEMMA InitEstablishes == Init => IInv
<1> SUFFICES ASSUME Init PROVE IInv
  OBVIOUS
<1>1. DmaBufTypeOK
  BY NothingTypes DEF Init, DmaBufTypeOK, LiveParams, LiveBuffers
<1>2. UnusedMadeNoBuffer
  BY NothingTypes DEF Init, UnusedMadeNoBuffer
<1>3. \A p \in Params : PlaneFds(p) = {} /\ buffers[p].fds = {}
  BY NothingTypes, NoPlanes DEF Init
<1>4. FdsAreHeldOnce
  <2>1. \A p \in Params : Held(p) = {}
    BY <1>3 DEF Held
  <2>2. \A p \in Params, i \in Planes : params[p].fd[i] = Unset
    BY NothingTypes DEF Init
  <2> QED
    BY <1>3, <2>1, <2>2 DEF Init, FdsAreHeldOnce
<1>5. ImagesFollowBuffers
  BY NothingTypes DEF Init, ImagesFollowBuffers, LiveBuffers
<1> QED
  BY <1>1, <1>2, <1>4, <1>5 DEF IInv

-----------------------------------------------------------------------------
LEMMA CreateStep ==
  ASSUME IInv, client = "connected", NEW p \in Params, create_params(p)
  PROVE  IInv'
<1> USE DEF create_params
<1>1. params'[p] = [NoParams EXCEPT !.live = TRUE]
      /\ \A q \in Params \ {p} : params'[q] = params[q]
  BY DEF IInv, DmaBufTypeOK
<1>2. params'[p].fd = NoParams.fd /\ params'[p].live /\ ~params'[p].used
  BY <1>1, NothingTypes DEF NoParams
<1>3. DmaBufTypeOK'
  BY <1>1, NothingTypes DEF IInv, DmaBufTypeOK, NoParams
<1>4. UnusedMadeNoBuffer'
  BY <1>1 DEF IInv, UnusedMadeNoBuffer
<1>5. FdsAreHeldOnce'
  <2>1. PlaneFds(p) = {} /\ buffers[p].fds = {} /\ PlaneFds(p)' = {}
    BY <1>2, NothingTypes, NoPlanes, NoPlanesNext DEF IInv, DmaBufTypeOK
  <2>2. HeldOnceBy(p)'
    BY <1>2, <2>1, NothingTypes DEF HeldOnceBy
  <2> QED
    BY <1>1, <2>1, <2>2, OneHolderChanges DEF IInv, Held
<1> QED
  BY <1>3, <1>4, <1>5, ImagesUntouched DEF IInv

LEMMA AddStep ==
  ASSUME IInv, client = "connected", NEW p \in LiveParams, NEW i \in 0 .. MaxPlanes,
         params_add(p, i)
  PROVE  IInv'
<1> USE DEF params_add
<1>0. p \in Params /\ params[p].live
  BY DEF LiveParams
<1> DEFINE fd == Lowest(Fds \ open)
<1>1. CASE ~params[p].used /\ i \in Planes /\ params[p].fd[i] = Unset
  <2>1. fd \in Fds \ open /\ open' = open \cup {fd}
    BY <1>1, FreeFd
  <2>2. /\ params'[p] = [params[p] EXCEPT !.fd = [@ EXCEPT ![i] = fd]]
        /\ \A q \in Params \ {p} : params'[q] = params[q]
        /\ params' \in [Params -> [live : BOOLEAN, used : BOOLEAN,
                                   fd : [Planes -> Fds \cup {Unset}]]]
    <3>1. params' = [params EXCEPT ![p].fd[i] = fd]
      BY <1>1
    <3> HIDE DEF fd
    <3>2. params \in [Params -> [live : BOOLEAN, used : BOOLEAN,
                                fd : [Planes -> Fds \cup {Unset}]]]
      BY DEF IInv, DmaBufTypeOK
    <3> QED
      BY <1>0, <1>1, <2>1, <3>1, <3>2
  <2>3. /\ params'[p].live /\ ~params'[p].used
        /\ params'[p].fd = [params[p].fd EXCEPT ![i] = fd]
    BY <1>0, <1>1, <2>2 DEF IInv, DmaBufTypeOK
  <2>4. DmaBufTypeOK'
    BY <1>0, <1>1, <2>1, <2>2, <2>3 DEF IInv, DmaBufTypeOK, LiveBuffers
  <2>5. UnusedMadeNoBuffer'
    BY <1>0, <1>1, <2>2, <2>3 DEF IInv, UnusedMadeNoBuffer
  <2>6. \A j \in Planes : params'[p].fd[j] = IF j = i THEN fd ELSE params[p].fd[j]
    BY <1>0, <2>3 DEF IInv, DmaBufTypeOK
  <2>7. PlaneFds(p)' = PlaneFds(p) \cup {fd}
    BY <1>1, <2>1, <2>6, NumbersAreNaturals DEF PlaneFds
  <2>8. HeldOnceBy(p) /\ Held(p) \subseteq open
    BY <1>0 DEF IInv, FdsAreHeldOnce, HeldOnceBy
  <2>9. HeldOnceBy(p)'
    <3>1. fd \notin PlaneFds(p) /\ fd \notin buffers[p].fds
      BY <2>1, <2>8 DEF Held
    <3>2. \A j \in Planes : j # i /\ params[p].fd[j] # Unset => params[p].fd[j] \in PlaneFds(p)
      BY DEF PlaneFds
    <3>3. \A j, k \in Planes :
            params'[p].fd[j] = params'[p].fd[k] /\ params'[p].fd[j] # Unset => j = k
      BY <1>1, <2>1, <2>6, <2>8, <3>1, <3>2, NumbersAreNaturals DEF HeldOnceBy
    <3>4. PlaneFds(p)' \cap buffers'[p].fds = {}
      BY <2>7, <2>8, <3>1 DEF HeldOnceBy
    <3> QED
      BY <2>3, <3>3, <3>4 DEF HeldOnceBy
  <2>10. FdsAreHeldOnce'
    <3>1. Held(p)' = Held(p) \cup {fd}
      BY <2>7 DEF Held
    <3>2. /\ open' = (open \ Held(p)) \cup Held(p)'
          /\ Held(p)' \cap (open \ Held(p)) = {}
      BY <2>1, <2>8, <3>1
    <3>3. \A q \in Params \ {p} : params'[q] = params[q] /\ buffers'[q] = buffers[q]
      BY <2>2
    <3>4. FdsAreHeldOnce
      BY DEF IInv
    <3> QED
      BY <1>0, <2>9, <3>2, <3>3, <3>4, OneHolderChanges
  <2> QED
    BY <2>4, <2>5, <2>10, ImagesUntouched DEF IInv
<1>2. CASE ~(~params[p].used /\ i \in Planes /\ params[p].fd[i] = Unset)
  BY <1>2, OnlyClientChanges
<1> QED
  BY <1>1, <1>2

-----------------------------------------------------------------------------
(* close_plane_fds on every failure path, and when the object goes: the    *)
(* planes are closed and unset, and the buffers stay as they are.          *)
LEMMA PlanesClosedStep ==
  ASSUME IInv, NEW p \in Params,
         \/ params'[p] = [params[p] EXCEPT !.used = TRUE, !.fd = NoParams.fd]
         \/ params'[p] = NoParams,
         params' \in [Params -> [live : BOOLEAN, used : BOOLEAN,
                                fd : [Planes -> Fds \cup {Unset}]]],
         params[p].live, client # "gone",
         \A q \in Params \ {p} : params'[q] = params[q],
         open' = open \ PlaneFds(p), client' \in {"connected", "condemned"},
         UNCHANGED <<buffers, images>>
  PROVE  IInv'
<1>1. params'[p].fd = NoParams.fd /\ (params'[p].used \/ ~params'[p].live)
      /\ (params'[p].live \/ params'[p] = NoParams)
  BY NothingTypes DEF IInv, DmaBufTypeOK
<1>2. DmaBufTypeOK'
  BY <1>1 DEF IInv, DmaBufTypeOK
<1>3. UnusedMadeNoBuffer'
  BY <1>1 DEF IInv, UnusedMadeNoBuffer
<1>4. FdsAreHeldOnce'
  <2>1. PlaneFds(p)' = {} /\ Held(p)' = buffers[p].fds
    BY <1>1, NoPlanesNext DEF Held
  <2>2. PlaneFds(p) \cap buffers[p].fds = {} /\ Held(p) \subseteq open
    BY DEF IInv, FdsAreHeldOnce
  <2>3. /\ open' = (open \ Held(p)) \cup Held(p)'
        /\ Held(p)' \cap (open \ Held(p)) = {}
    BY <2>1, <2>2 DEF Held
  <2>4. HeldOnceBy(p)'
    BY <1>1, <2>1, NothingTypes DEF HeldOnceBy
  <2>5. FdsAreHeldOnce /\ \A q \in Params \ {p} : buffers'[q] = buffers[q]
    BY DEF IInv
  <2> QED
    BY <2>3, <2>4, <2>5, OneHolderChanges
<1> QED
  BY <1>2, <1>3, <1>4, ImagesUntouched DEF IInv

(* The planes become the buffer's, with an image that nobody has.          *)
LEMMA PlanesMovedStep ==
  ASSUME IInv, NEW p \in Params, params[p].live, ~params[p].used, images # Images,
         client # "gone", UNCHANGED <<client, open>>,
         PlanesMoved(p, Lowest(Images \ images)),
         images' = images \cup {Lowest(Images \ images)}
  PROVE  IInv'
<1> DEFINE image == Lowest(Images \ images)
<1>1. image \in Images \ images /\ image \in 0 .. MaxImages
  BY FreeImage DEF IInv, DmaBufTypeOK, Images
<1> HIDE DEF image
<1>2. /\ params' = [params EXCEPT ![p] = [@ EXCEPT !.used = TRUE, !.fd = NoParams.fd]]
      /\ buffers' = [buffers EXCEPT ![p] =
                       [live |-> TRUE, fds |-> PlaneFds(p), image |-> image]]
      /\ images' = images \cup {image}
  BY DEF PlanesMoved, image
<1>3. /\ params'[p].live /\ params'[p].used /\ params'[p].fd = NoParams.fd
      /\ \A q \in Params \ {p} : params'[q] = params[q]
      /\ params' \in [Params -> [live : BOOLEAN, used : BOOLEAN,
                                 fd : [Planes -> Fds \cup {Unset}]]]
  <2>1. params \in [Params -> [live : BOOLEAN, used : BOOLEAN,
                               fd : [Planes -> Fds \cup {Unset}]]]
    BY DEF IInv, DmaBufTypeOK
  <2>2. NoParams.fd \in [Planes -> Fds \cup {Unset}]
    BY NothingTypes
  <2> QED
    BY <1>2, <2>1, <2>2
<1>4. /\ buffers'[p] = [live |-> TRUE, fds |-> PlaneFds(p), image |-> image]
      /\ \A q \in Params \ {p} : buffers'[q] = buffers[q]
      /\ buffers' \in [Params -> [live : BOOLEAN, fds : SUBSET Fds,
                                  image : 0 .. MaxImages]]
  BY <1>1, <1>2, PlanesAreFds DEF IInv, DmaBufTypeOK
<1>5. DmaBufTypeOK'
  <2>1. images' \in SUBSET Images
    BY <1>1, <1>2 DEF IInv, DmaBufTypeOK
  <2>2. \A q \in Params : /\ params'[q].live \/ params'[q] = NoParams
                          /\ buffers'[q].live \/ buffers'[q] = NoBuffer
    <3>1. \A q \in Params : /\ params[q].live \/ params[q] = NoParams
                            /\ buffers[q].live \/ buffers[q] = NoBuffer
      BY DEF IInv, DmaBufTypeOK
    <3>2. params'[p].live /\ buffers'[p].live
      BY <1>3, <1>4
    <3> QED
      BY <1>3, <1>4, <3>1, <3>2
  <2> QED
    BY <1>3, <1>4, <2>1, <2>2 DEF IInv, DmaBufTypeOK
<1>6. UnusedMadeNoBuffer'
  BY <1>3, <1>4 DEF IInv, UnusedMadeNoBuffer
<1>7. ~buffers[p].live /\ buffers[p] = NoBuffer
  BY DEF IInv, UnusedMadeNoBuffer, DmaBufTypeOK
<1>8. FdsAreHeldOnce'
  <2>1. PlaneFds(p)' = {}
    BY <1>3, NoPlanesNext
  <2>2. Held(p)' = PlaneFds(p) /\ Held(p) = PlaneFds(p)
    BY <1>4, <1>7, <2>1, NothingTypes DEF Held
  <2>3. FdsAreHeldOnce /\ Held(p) \subseteq open
    BY DEF IInv, FdsAreHeldOnce
  <2>4. /\ open' = (open \ Held(p)) \cup Held(p)'
        /\ Held(p)' \cap (open \ Held(p)) = {}
    BY <2>2, <2>3
  <2>5. HeldOnceBy(p)'
    BY <1>3, <2>1, NothingTypes DEF HeldOnceBy
  <2> QED
    BY <1>3, <1>4, <2>3, <2>4, <2>5, OneHolderChanges
<1>9. ImagesFollowBuffers'
  <2>1. LiveBuffers' = LiveBuffers \cup {p} /\ p \notin LiveBuffers
    BY <1>4, <1>7 DEF LiveBuffers
  <2>2. \A q \in LiveBuffers : buffers'[q] = buffers[q] /\ buffers[q].image \in images
    BY <1>4, <2>1 DEF LiveBuffers, IInv, ImagesFollowBuffers
  <2>3. images = {buffers[q].image : q \in LiveBuffers}
    BY DEF IInv, ImagesFollowBuffers
  <2>4. buffers'[p].image = image
    BY <1>4
  <2>5. images' = {buffers'[q].image : q \in LiveBuffers'}
    BY <1>2, <2>1, <2>2, <2>3, <2>4
  <2>6. \A q, r \in LiveBuffers' : buffers'[q].image = buffers'[r].image => q = r
    BY <1>1, <2>1, <2>2, <2>4 DEF IInv, ImagesFollowBuffers
  <2> QED
    BY <2>5, <2>6 DEF ImagesFollowBuffers
<1> QED
  BY <1>5, <1>6, <1>8, <1>9 DEF IInv

(* create and create_immed: every path of the import.                      *)
LEMMA BufferCreatedStep ==
  ASSUME IInv, client = "connected", NEW p \in LiveParams,
         NEW failed \in {"connected", "condemned"},
         NEW exhausted \in {"connected", "condemned"},
         BufferCreated(p, failed, exhausted)
  PROVE  IInv'
<1>0. p \in Params /\ params[p].live /\ params[p] \in
        [live : BOOLEAN, used : BOOLEAN, fd : [Planes -> Fds \cup {Unset}]]
  BY DEF LiveParams, IInv, DmaBufTypeOK
<1>1. CASE params[p].used
  BY <1>1, OnlyClientChanges DEF BufferCreated
<1>2. ASSUME ~params[p].used, PlanesClosed(p), UNCHANGED <<buffers, images>>,
             client' \in {"connected", "condemned"}
      PROVE  IInv'
  <2>1. /\ params'[p] = [params[p] EXCEPT !.used = TRUE, !.fd = NoParams.fd]
        /\ \A q \in Params \ {p} : params'[q] = params[q]
        /\ params' \in [Params -> [live : BOOLEAN, used : BOOLEAN,
                                   fd : [Planes -> Fds \cup {Unset}]]]
    BY <1>0, <1>2, NothingTypes DEF PlanesClosed, IInv, DmaBufTypeOK
  <2> QED
    BY <1>0, <1>2, <2>1, PlanesClosedStep DEF PlanesClosed
<1>3. ASSUME ~params[p].used, images # Images, UNCHANGED <<client, open>>,
             PlanesMoved(p, Lowest(Images \ images)),
             images' = images \cup {Lowest(Images \ images)}
      PROVE  IInv'
  BY <1>0, <1>3, PlanesMovedStep
<1> QED
  BY <1>1, <1>2, <1>3 DEF BufferCreated, ImportFails, AllocationFails, ResourceFails

LEMMA ParamsDestroyStep ==
  ASSUME IInv, client = "connected", NEW p \in LiveParams, params_destroy(p)
  PROVE  IInv'
<1>1. p \in Params /\ params[p].live
  BY DEF LiveParams
<1>2. /\ params'[p] = NoParams
      /\ \A q \in Params \ {p} : params'[q] = params[q]
      /\ params' \in [Params -> [live : BOOLEAN, used : BOOLEAN,
                                 fd : [Planes -> Fds \cup {Unset}]]]
  BY <1>1, NothingTypes DEF params_destroy, ParamsFreed, IInv, DmaBufTypeOK
<1> QED
  BY <1>1, <1>2, PlanesClosedStep DEF params_destroy

LEMMA BufferDestroyStep ==
  ASSUME IInv, client = "connected", NEW p \in LiveBuffers, buffer_destroy(p)
  PROVE  IInv'
<1>1. p \in Params /\ buffers[p].live
  BY DEF LiveBuffers
<1>2. /\ buffers'[p] = NoBuffer
      /\ \A q \in Params \ {p} : buffers'[q] = buffers[q]
      /\ buffers' \in [Params -> [live : BOOLEAN, fds : SUBSET Fds,
                                  image : 0 .. MaxImages]]
      /\ images' = images \ {buffers[p].image}
      /\ open' = open \ buffers[p].fds /\ UNCHANGED <<client, params>>
  BY <1>1, NothingTypes DEF buffer_destroy, BuffersFreed, IInv, DmaBufTypeOK
<1>3. DmaBufTypeOK'
  BY <1>1, <1>2, NothingTypes DEF IInv, DmaBufTypeOK, LiveParams
<1>4. UnusedMadeNoBuffer'
  BY <1>2, NothingTypes DEF IInv, UnusedMadeNoBuffer
<1>5. FdsAreHeldOnce'
  <2>1. PlaneFds(p)' = PlaneFds(p)
    BY <1>2 DEF PlaneFds
  <2>2. Held(p)' = PlaneFds(p)
    BY <1>2, <2>1, NothingTypes DEF Held
  <2>3. FdsAreHeldOnce /\ HeldOnceBy(p) /\ Held(p) \subseteq open
    BY <1>1 DEF IInv, FdsAreHeldOnce, HeldOnceBy
  <2>4. /\ open' = (open \ Held(p)) \cup Held(p)'
        /\ Held(p)' \cap (open \ Held(p)) = {}
    BY <1>2, <2>2, <2>3 DEF Held, HeldOnceBy
  <2>5. HeldOnceBy(p)'
    BY <1>2, <2>1, <2>3, NothingTypes DEF HeldOnceBy
  <2> QED
    BY <1>1, <1>2, <2>3, <2>4, <2>5, OneHolderChanges
<1>6. ImagesFollowBuffers'
  <2>1. LiveBuffers' = LiveBuffers \ {p} /\ p \in LiveBuffers
    BY <1>1, <1>2, NothingTypes DEF LiveBuffers
  <2>2. \A q \in LiveBuffers' : buffers'[q] = buffers[q]
    BY <1>2, <2>1 DEF LiveBuffers
  <2>3. /\ images = {buffers[q].image : q \in LiveBuffers}
        /\ \A q, r \in LiveBuffers : buffers[q].image = buffers[r].image => q = r
    BY DEF IInv, ImagesFollowBuffers
  <2> QED
    BY <1>2, <2>1, <2>2, <2>3 DEF ImagesFollowBuffers
<1> QED
  BY <1>3, <1>4, <1>5, <1>6 DEF IInv

(* With the connection everything goes that was the client's.              *)
LEMMA DisconnectStep == IInv /\ disconnect => IInv'
<1> SUFFICES ASSUME IInv, disconnect PROVE IInv'
  OBVIOUS
<1>1. params' = [p \in Params |-> NoParams] /\ buffers' = [p \in Params |-> NoBuffer]
  BY DEF disconnect, ParamsFreed, BuffersFreed, LiveParams, LiveBuffers, IInv, DmaBufTypeOK
<1>2. \A p \in Params : PlaneFds(p)' = {} /\ Held(p)' = {}
  BY <1>1, NoPlanesNext, NothingTypes DEF Held
<1>3. \A p \in Params : (p \notin LiveParams => PlaneFds(p) = {})
                       /\ (p \notin LiveBuffers => buffers[p].fds = {})
  BY NoPlanes, NothingTypes DEF IInv, DmaBufTypeOK, LiveParams, LiveBuffers
<1>4. open' = {}
  <2>1. open = UNION {Held(p) : p \in Params}
    BY DEF IInv, FdsAreHeldOnce
  <2>2. \A p \in Params : Held(p) \subseteq
             (UNION {PlaneFds(q) : q \in LiveParams})
               \cup (UNION {buffers[q].fds : q \in LiveBuffers})
    BY <1>3 DEF Held
  <2> QED
    BY <2>1, <2>2 DEF disconnect
<1>5. images' = {}
  BY DEF disconnect, BuffersFreed, IInv, ImagesFollowBuffers
<1>6. client' = "gone"
  BY DEF disconnect
<1>7. DmaBufTypeOK'
  BY <1>1, <1>4, <1>5, <1>6, NothingTypes DEF DmaBufTypeOK, LiveParams, LiveBuffers
<1>8. UnusedMadeNoBuffer'
  BY <1>1, NothingTypes DEF UnusedMadeNoBuffer
<1>9. FdsAreHeldOnce'
  <2>1. \A p \in Params, i \in Planes : params'[p].fd[i] = Unset
    BY <1>1, NothingTypes
  <2>2. \A p \in Params : buffers'[p].fds = {}
    BY <1>1, NothingTypes
  <2> QED
    BY <1>2, <1>4, <2>1, <2>2 DEF FdsAreHeldOnce
<1>10. ImagesFollowBuffers'
  BY <1>1, <1>5, NothingTypes DEF ImagesFollowBuffers, LiveBuffers
<1> QED
  BY <1>7, <1>8, <1>9, <1>10 DEF IInv

-----------------------------------------------------------------------------
LEMMA NextPreserves == IInv /\ [Next]_vars => IInv'
<1> SUFFICES ASSUME IInv, [Next]_vars PROVE IInv'
  OBVIOUS
<1>1. CASE client = "connected" /\ Request
  <2>1. ASSUME NEW p \in Params, create_params(p) PROVE IInv'
    BY <1>1, <2>1, CreateStep
  <2>2. ASSUME NEW p \in LiveParams, NEW i \in 0 .. MaxPlanes, params_add(p, i) PROVE IInv'
    BY <1>1, <2>2, AddStep
  <2>3. ASSUME NEW p \in LiveParams, params_create(p) \/ params_create_immed(p) PROVE IInv'
    BY <1>1, <2>3, BufferCreatedStep DEF params_create, params_create_immed
  <2>4. ASSUME NEW p \in LiveParams, params_destroy(p) PROVE IInv'
    BY <1>1, <2>4, ParamsDestroyStep
  <2>5. ASSUME NEW p \in LiveBuffers, buffer_destroy(p) PROVE IInv'
    BY <1>1, <2>5, BufferDestroyStep
  <2> QED
    BY <1>1, <2>1, <2>2, <2>3, <2>4, <2>5 DEF Request
<1>2. CASE disconnect
  BY <1>2, DisconnectStep
<1>3. CASE reconnect \/ UNCHANGED vars
  BY <1>3, OnlyClientChanges DEF reconnect, vars, IInv, DmaBufTypeOK
<1> QED
  BY <1>1, <1>2, <1>3 DEF Next

LEMMA Inductive == Spec => []IInv
BY InitEstablishes, NextPreserves, PTL DEF Spec

-----------------------------------------------------------------------------
(* The types, and that a client which is gone left no object behind.       *)
THEOREM DmaBufTypes == Spec => []DmaBufTypeOK
<1>1. IInv => DmaBufTypeOK
  BY DEF IInv
<1> QED
  BY <1>1, Inductive, PTL

(* linux_dmabuf.c, on every path: each open fd has one holder, each EGL    *)
(* image one buffer, and nothing is left when its holder goes.             *)
THEOREM ImportsAreOwnedOnce == Spec => []NothingIsSharedOrLeaks
<1>1. IInv => NothingIsSharedOrLeaks
  BY DEF IInv, NothingIsSharedOrLeaks
<1> QED
  BY <1>1, Inductive, PTL
================================================================================

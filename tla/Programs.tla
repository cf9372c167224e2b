-------------------------------- MODULE Programs -------------------------------
(***************************************************************************)
(* The programs of the repository in their surroundings: the meek-ui       *)
(* program of Host, and meek-compositor in another display server, which   *)
(* serves the dmabufs of DmaBuf from main's set-up to the end of its       *)
(* event loop.  Without the context of egl_ctx.c every import fails; and   *)
(* the loop ends without destroying what its clients still have.           *)
(***************************************************************************)
EXTENDS Host, DmaBuf

ProgramsInit == HostInit /\ Init

Serving == Up({"nested"})

(* make_current fails when there is no context.                            *)
ImportNeedsContext == images' \subseteq images \/ "egl_ctx" \in h.held

Serve == Serving /\ Next /\ ImportNeedsContext /\ UNCHANGED h

ProgramsNext == (HostNext /\ UNCHANGED vars) \/ Serve

Programs == ProgramsInit /\ [][ProgramsNext]_<<h, vars>>
=============================================================================

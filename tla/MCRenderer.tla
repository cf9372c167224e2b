------------------------------ MODULE MCRenderer ------------------------------
(***************************************************************************)
(* Instances of Renderer: a screen of three pixels, clips that overlap.    *)
(***************************************************************************)
EXTENDS Renderer, TLC

CONSTANTS f1, f2, f3

MCFonts == {f1, f2, f3}
MCScreen == 1 .. 3
MCClips == {{1, 2}, {2, 3}}
FontSymmetry == Permutations(MCFonts)
=============================================================================

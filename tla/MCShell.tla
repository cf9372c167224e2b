--------------------------------- MODULE MCShell ---------------------------------
(***************************************************************************)
(* Instances of Shell: card addresses and texture names are                *)
(* interchangeable.                                                        *)
(***************************************************************************)
EXTENDS Shell, TLC

CONSTANTS title, tex1, tex2, card1, card2

Interchangeable == Permutations(Cards) \cup Permutations(Textures)
=============================================================================

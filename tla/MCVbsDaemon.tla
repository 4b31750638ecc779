----------------------------- MODULE MCVbsDaemon -----------------------------
(* One or two start scripts, a stop script and the two programs of the     *)
(* scripts; the second one's file may be missing.                          *)
EXTENDS VbsDaemon, TLC

CONSTANTS s1, s2, t1, vbs1, vbs2, outside

MCTwoStarts == {s1, s2}
MCOneStart == {s1}
MCStops == {t1}
MCNoStop == {}
MCOneExe == <<vbs1>>
MCTwoExes == <<vbs1, vbs2>>
MCCanFail == {vbs2}
MCNoneFails == {}
StartsAlike == Permutations(MCTwoStarts)
==============================================================================

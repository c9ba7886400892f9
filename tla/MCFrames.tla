------------------------------ MODULE MCFrames ------------------------------
(***************************************************************************)
(* What has to happen in the end: the commits of a surface are shown, the   *)
(* frames of an output arrive.  One surface with a buffer, two values of    *)
(* the persistent field and two holders of locks; one connector on the      *)
(* legacy interface.  part says which of them moves.                        *)
(***************************************************************************)
EXTENDS SurfaceCommit, DrmOutput

CONSTANTS c1, r1, h1, h2

VARIABLE part

MCBuffers == {c1}
OneRect == {r1}
TwoHolders == {h1, h2}
TwoScales == {1, 2}

FramesVars == <<part, vars, DrmVars>>

FramesInit == part \in {"surface", "output"} /\ Init /\ DrmInit

FramesNext ==
  \/ part = "surface" /\ Next /\ UNCHANGED <<part, DrmVars>>
  \/ part = "output" /\ DrmNext /\ UNCHANGED <<part, vars>>

FramesSpec == FramesInit /\ [][FramesNext]_FramesVars /\ Fairness /\ DrmFairness
=============================================================================

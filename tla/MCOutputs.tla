----------------------------- MODULE MCOutputs ------------------------------
(***************************************************************************)
(* What sits around an output.  The components share no state, so one run   *)
(* explores them side by side: part says which of them moves.  The damage   *)
(* ring has two buffers of the full screen, three cells in a row, and a     *)
(* narrower one, and regions of one rectangle; the matching is tried on     *)
(* every instance of three connectors and CRTCs; the scene has two outputs  *)
(* of two cells side by side.                                               *)
(***************************************************************************)
EXTENDS DamageRing, CrtcMatch, Scene, TLC

CONSTANTS b1, b2, b3

VARIABLE part

MCBuffer == {b1, b2, b3}
MCWidth  == (b1 :> 3) @@ (b2 :> 3) @@ (b3 :> 2)
MCHeight == (b1 :> 1) @@ (b2 :> 1) @@ (b3 :> 1)
MCSceneOutput == <<"o1", "o2">>
MCArrangeZone == {-1, 0, 1, 2}

(* The two buffers of the same size are interchangeable. *)
Symmetry == Permutations({b1, b2})

OutputsVars == <<part, vars, MatchVars, scene, stack, arrange>>

OutputsInit ==
  /\ part \in {"ring", "match", "scene", "stack", "arrange"}
  /\ Init
  /\ IF part = "scene" THEN SceneInit ELSE scene = <<>>
  /\ IF part = "stack" THEN StackInit ELSE stack = <<>>
  /\ IF part = "arrange" THEN ArrangeInit ELSE arrange = <<>>
  /\ IF part = "match" THEN MatchInit ELSE conns = <<>> /\ orig = <<>> /\ res = <<>>

OutputsNext ==
  \/ part = "ring" /\ Next /\ UNCHANGED <<part, MatchVars, scene, stack, arrange>>
  \/ part = "match" /\ Match /\ UNCHANGED <<part, vars, scene, stack, arrange>>
  \/ part = "scene" /\ SceneNext /\ UNCHANGED <<part, vars, MatchVars, stack, arrange>>
  \/ part = "stack" /\ StackNext /\ UNCHANGED <<part, vars, MatchVars, scene, arrange>>
  \/ part = "arrange" /\ ArrangeNext /\ UNCHANGED <<part, vars, MatchVars, scene, stack>>

OutputsSpec == OutputsInit /\ [][OutputsNext]_OutputsVars

(* The scene's caches are right: every cell that shows something else than  *)
(* the scene is damaged, visible regions hold what can be seen and no more, *)
(* and a valid bounding box is that of the nodes below.                     *)
PictureKept == part = "scene" => DamageComplete /\ VisibleSound /\ BoxesCached

(* What follows from the scene agrees with it: the outputs a surface was    *)
(* told, the order of sub-surfaces over commits that waited, and the areas  *)
(* that panels reserve.                                                     *)
SceneAgrees ==
  /\ part = "scene" => OutputsKnown
  /\ part = "stack" => StackingAgreed
  /\ part = "arrange" => ZonesKept
=============================================================================

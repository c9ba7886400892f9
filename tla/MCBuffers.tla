------------------------------ MODULE MCBuffers ------------------------------
(***************************************************************************)
(* Surfaces arranged in a tree, the buffers of an output, the Vulkan        *)
(* renderer that draws the ones into the others, and the fences that say    *)
(* when.  They share no state that their properties need: part says which   *)
(* of them moves.                                                           *)
(***************************************************************************)
EXTENDS Subsurface, Swapchain, StageRing, VulkanRenderer, ExplicitSync, TLC

VARIABLE part

(* The surfaces that may become sub-surfaces are interchangeable, and so    *)
(* are modes of the output.                                                 *)
Symmetry == Permutations(Surfaces \ Toplevels) \cup Permutations(Mode)

BufferVars == <<part, tree, vars, ring, vkq, vkt, es>>

BuffersInit ==
  /\ part \in {"tree", "swapchain", "ring", "queue", "targets", "sync"}
  /\ SubInit /\ Init
  /\ IF part = "ring" THEN RingInit ELSE ring = <<>>
  /\ IF part = "queue" THEN VkInit ELSE vkq = <<>>
  /\ IF part = "targets" THEN VktInit ELSE vkt = <<>>
  /\ IF part = "sync" THEN EsInit ELSE es = <<>>

BuffersNext ==
  \/ part = "tree" /\ SubNext /\ UNCHANGED <<part, vars, ring, vkq, vkt, es>>
  \/ part = "swapchain" /\ Next /\ UNCHANGED <<part, tree, ring, vkq, vkt, es>>
  \/ part = "ring" /\ RingNext /\ UNCHANGED <<part, tree, vars, vkq, vkt, es>>
  \/ part = "queue" /\ VkNext /\ UNCHANGED <<part, tree, vars, ring, vkt, es>>
  \/ part = "targets" /\ VktNext /\ UNCHANGED <<part, tree, vars, ring, vkq, es>>
  \/ part = "sync" /\ EsNext /\ UNCHANGED <<part, tree, vars, ring, vkq, vkt>>

BuffersSpec == BuffersInit /\ [][BuffersNext]_BufferVars

(* Whatever is created, re-created and destroyed, the surfaces form a tree, *)
(* and a sub-surface is mapped only with its parent.                        *)
TreeKept == Acyclic /\ MappedWithParent

(* What the Vulkan renderer hands to the device stays valid until the       *)
(* device is done with it: staging memory, textures and render buffers, the *)
(* framebuffers and descriptor sets it creates when they are first needed;  *)
(* and clients that synchronize explicitly are waited for, and told in time *)
(* that a buffer is theirs again.                                           *)
RendererSound ==
  /\ part = "ring" => StagingSound
  /\ part = "queue" => DeviceSound
  /\ part = "targets" => TargetsSound
  /\ part = "sync" => ExplicitSyncSound
=============================================================================

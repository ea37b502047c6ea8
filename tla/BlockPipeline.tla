---------------------------- MODULE BlockPipeline ----------------------------
(***************************************************************************)
(* What the streamed passes of cuda_vector_stream.cu promise about the     *)
(* order of their copies and kernels, without streams or events: the blocks*)
(* of a pass go through NSLOT device slots, each block is loaded, computed *)
(* and (where the pass writes back) drained once and in order, and a slot  *)
(* is taken again only when the block before in it needs it no more.       *)
(***************************************************************************)
EXTENDS Integers

CONSTANT NSLOT          \* device slots (GPU_VSTREAM_NSLOT)

VARIABLES
  blocks,       \* blocks of the pass under way
  writeBack,    \* whether its results go back to the host block by block
  loaded,       \* blocks copied to their slot so far
  computed,     \* blocks whose kernels are finished
  drained       \* blocks whose result is on the host

vars == <<blocks, writeBack, loaded, computed, drained>>

\* All the work of the pass is done.
Complete ==
  /\ loaded = blocks /\ computed = blocks
  /\ writeBack => drained = blocks

Init ==
  /\ blocks = 0 /\ writeBack = FALSE
  /\ loaded = 0 /\ computed = 0 /\ drained = 0

\* A pass starts when the one before is complete.
Begin ==
  /\ Complete
  /\ blocks' \in Nat /\ writeBack' \in BOOLEAN
  /\ loaded' = 0 /\ computed' = 0 /\ drained' = 0

\* The block that had the slot of the next load is computed and, if its slot holds
\* the result, drained.
Load ==
  /\ loaded < blocks
  /\ computed > loaded - NSLOT
  /\ writeBack => drained > loaded - NSLOT
  /\ loaded' = loaded + 1
  /\ UNCHANGED <<blocks, writeBack, computed, drained>>

Compute ==
  /\ computed < loaded
  /\ writeBack => drained > computed - NSLOT
  /\ computed' = computed + 1
  /\ UNCHANGED <<blocks, writeBack, loaded, drained>>

Drain ==
  /\ writeBack
  /\ drained < computed
  /\ drained' = drained + 1
  /\ UNCHANGED <<blocks, writeBack, loaded, computed>>

Next == Begin \/ Load \/ Compute \/ Drain

Spec == Init /\ [][Next]_vars
=============================================================================

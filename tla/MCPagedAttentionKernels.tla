----------------------- MODULE MCPagedAttentionKernels -----------------------
(***************************************************************************)
(* Small instances of the two kernels that the bindings launch: a          *)
(* behaviour is one thread block of one of them.                           *)
(***************************************************************************)
EXTENDS PagedAttentionKernel

CONSTANTS
  Kernels,         \* which of the two
  SingleSeqLens,   \* SeqLens of v3
  SingleMaxSeqLen  \* MAX_SEQ_LEN of v3

VARIABLE kernel    \* the one that was launched; no step changes it

(* The second sequence has the longer table; blocks are out of order. *)
Tables == <<<<2, 0, -1>>, <<1, 4, 3>>>>

V3 == INSTANCE PagedAttentionKernelV3
        WITH MaxSeqLen <- SingleMaxSeqLen, SeqLens <- SingleSeqLens,
             NumHeads <- NumKVHeads, BlockTable <- <<2, 0>>

MCInit ==
  /\ kernel \in Kernels
  /\ kernel = "v9a" => Init
  /\ kernel = "v3" => V3!Init

MCNext ==
  \/ kernel = "v9a" /\ Next /\ UNCHANGED kernel
  \/ kernel = "v3" /\ V3!Next /\ UNCHANGED kernel

MCSpec == MCInit /\ [][MCNext]_<<vars, kernel>>

(* OutputMatchesReference of the kernel that was launched: when all threads *)
(* have returned, each output element combines exactly the products, with   *)
(* the weights, that the reference attention combines.                      *)
KernelMatchesReference ==
  /\ kernel = "v9a" => OutputMatchesReference
  /\ kernel = "v3" => V3!OutputMatchesReference

=============================================================================

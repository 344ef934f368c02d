--------------------------- MODULE MCPagedServing ---------------------------
(* A small instance of PagedServing, and so of EngineScheduler. *)
EXTENDS PagedServing

Shape(prompt, max_new_tokens) ==
  [prompt |-> prompt, max_new_tokens |-> max_new_tokens]

(* In blocks of two tokens: a prompt that ends inside a block, a first      *)
(* token that fills the block and a second that needs another; a request    *)
(* with room in its first block for all it has; and one whose prompt fits   *)
(* in five blocks, but not with its output.                                 *)
PagedShapes == {Shape(3, 2), Shape(1, 1), Shape(9, 2)}

Symmetry == Permutations(Requests)

=============================================================================

---------------------------- MODULE MCLlamaEngine ----------------------------
(* A small model: two layers, four query heads that share two K/V heads. *)
EXTENDS LlamaEngine

MCPrompts == {<<1>>, <<2, 3>>, <<3, 1, 2>>}
MCBudgets == {1, 2, Unlimited}

(* The blocks of two requests take turns, from the last to the first. *)
MCBlockTable(r, num_blocks) ==
  [i \in 1 .. num_blocks |-> TotalBlocks - N * (i - 1) - r]

=============================================================================

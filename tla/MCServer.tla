------------------------------ MODULE MCServer ------------------------------
(* Small instances of Server. *)
EXTENDS Server

ServerShapes == {[prompt |-> 1, max_new_tokens |-> 1], [prompt |-> 2, max_new_tokens |-> 2]}

OneShape == {[prompt |-> 2, max_new_tokens |-> 2]}

(* Threads and requests are interchangeable (used in the safety run only). *)
ServerSymmetry == Permutations(Requests) \cup Permutations(Workers)

=============================================================================

------------------------- MODULE MCEngineScheduler -------------------------
(* Small instances of EngineScheduler: the request shapes the runs use. *)
EXTENDS EngineScheduler

Shape(prompt, max_new_tokens) ==
  [prompt |-> prompt, max_new_tokens |-> max_new_tokens]

(* Long outputs and long prompts, which together outgrow a pool of five  *)
(* blocks of one token.                                                  *)
PressureShapes == {Shape(1, 3), Shape(3, 1), Shape(3, 3)}

(* With four blocks of one token, the second can never be admitted. *)
OversizedShapes == {Shape(1, 2), Shape(3, 2)}

Symmetry == Permutations(Requests)

=============================================================================

--------------------------- MODULE PrivateKVCache ---------------------------
(***************************************************************************)
(* What a paged K/V cache stands for: every request has a cache of its own *)
(* in which position p holds, in every layer, what was computed for its    *)
(* p-th token.  The cache of a request only grows until the request ends   *)
(* and its cache is dropped; nobody else can touch it.                     *)
(***************************************************************************)
EXTENDS Integers, Sequences

CONSTANTS
  Requests,    \* the requests
  Layers       \* the layers of the model

VARIABLE private   \* the cache of each request

Token(r, position) == [request_state |-> r, token_position |-> position]

(* The first n tokens of r, in every layer. *)
Tokens(r, n) == [i \in 1 .. n |-> [l \in Layers |-> Token(r, i - 1)]]

Init == private = [r \in Requests |-> << >>]

Extend(r) ==
  LET n == Len(private'[r])
  IN  /\ n > Len(private[r])
      /\ private' = [private EXCEPT ![r] = Tokens(r, n)]

Drop(r) == private' = [private EXCEPT ![r] = << >>]

Next == \E r \in Requests : Extend(r) \/ Drop(r)

Spec == Init /\ [][Next]_private

=============================================================================

--------------------------- MODULE BlockOwnership ---------------------------
(***************************************************************************)
(* What a KV block manager promises to the scheduler that uses it: blocks  *)
(* are a shared resource, a request acquires blocks nobody holds, keeps    *)
(* every block it acquired, and gives all of them back at once.  A block   *)
(* never passes from one request to another without being free in between. *)
(***************************************************************************)

CONSTANTS
  Requests,   \* the request identifiers
  Blocks      \* the physical KV blocks of the pool

VARIABLE held   \* held[r]: the blocks of request r

Available == Blocks \ UNION {held[r] : r \in Requests}

Init == held = [r \in Requests |-> {}]

(* r takes any set of blocks nobody holds. *)
Acquire(r) ==
  \E S \in SUBSET Available : held' = [held EXCEPT ![r] = @ \cup S]

(* r gives back everything it holds. *)
Release(r) == held' = [held EXCEPT ![r] = {}]

Next == \E r \in Requests : Acquire(r) \/ Release(r)

Spec == Init /\ [][Next]_held

-----------------------------------------------------------------------------

TypeOK == held \in [Requests -> SUBSET Blocks]

(* No physical block is held by two requests. *)
Exclusive ==
  \A r, s \in Requests : r # s => held[r] \cap held[s] = {}

=============================================================================

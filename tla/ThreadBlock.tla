---------------------------- MODULE ThreadBlock ----------------------------
(***************************************************************************)
(* One CUDA thread block running a kernel of                               *)
(* cuda_backend/paged_attention_kernel.cu: its threads, __syncthreads, the *)
(* shuffles of a warp, and the device functions block_reduce_sum,          *)
(* block_reduce_max and warp_reduce_sum.  Threads run in any interleaving; *)
(* a step touches at most the shared cells that one statement touches.     *)
(*                                                                         *)
(* Numbers are symbolic: a sum is the bag of its terms and a maximum the   *)
(* set of what it was taken over, so a term that is lost, counted twice or *)
(* stale makes a different value whatever the floats would have been.      *)
(***************************************************************************)
EXTENDS Integers, FiniteSets, Bags

CONSTANTS
  WarpSize,        \* WARP_SIZE
  WarpsPerBlock    \* WARPS_PER_BLOCK

(* The halving loops need powers of two. *)
ASSUME WarpAssumption ==
  /\ WarpSize \in Nat \ {0} /\ WarpsPerBlock \in Nat \ {0}
  /\ \E n \in 0 .. 10 : WarpSize = 2^n
  /\ \E n \in 0 .. 10 : WarpsPerBlock = 2^n

ThreadsPerHead == WarpSize * WarpsPerBlock   \* THREADS_PER_HEAD

Threads == 0 .. ThreadsPerHead - 1   \* threadIdx.x

WarpOf(t) == t \div WarpSize
LaneOf(t) == t % WarpSize
LanesOf(w) == {t \in Threads : WarpOf(t) = w}

VARIABLES
  pc,         \* the statement each thread runs next
  waiting,    \* the threads that wait in __syncthreads before pc
  reg,        \* registers of each thread that the reductions use
  reduction,  \* the array `shared` of block_reduce_max and of block_reduce_sum
  accesses    \* what each thread did to shared memory since the last barrier

block_vars == <<pc, waiting, reg, reduction, accesses>>

Running(t, statement) == pc[t] = statement /\ t \notin waiting

Exited == {t \in Threads : pc[t] = "exit"}

Goto(t, statement) == pc' = [pc EXCEPT ![t] = statement] /\ UNCHANGED waiting

(* __syncthreads(), after which t goes on with the statement. *)
SyncThen(t, statement) ==
  /\ pc' = [pc EXCEPT ![t] = statement]
  /\ waiting' = waiting \cup {t}

(* A barrier opens when all threads that have not returned wait. *)
Release ==
  /\ waiting # {} /\ waiting \cup Exited = Threads
  /\ waiting' = {} /\ accesses' = {}
  /\ UNCHANGED <<pc, reg, reduction>>

Access(t, cells, write) == {[thread |-> t, cell |-> c, write |-> write] : c \in cells}

(* t reads some shared cells and then writes others. *)
Touches(t, reads, writes) ==
  accesses' = accesses \cup Access(t, reads, FALSE) \cup Access(t, writes, TRUE)

TouchesNothing == UNCHANGED accesses

Set(t, fields) ==
  reg' = [reg EXCEPT ![t] =
            [f \in DOMAIN reg[t] |-> IF f \in DOMAIN fields THEN fields[f] ELSE reg[t][f]]]

-----------------------------------------------------------------------------
(* block_reduce_sum and block_reduce_max *)

Combine(kind, a, b) == IF kind = "max" THEN a \cup b ELSE a (+) b

Cell(t, i) == <<reg[t].kind, i>>

(* The call; what it returns is in reg.value when `then` runs. *)
CallBlockReduce(t, kind, value, then) ==
  /\ Set(t, [kind |-> kind, value |-> value, then |-> then])
  /\ Goto(t, "reduce_store")

ReduceStore(t) ==
  /\ Running(t, "reduce_store")
  /\ reduction' = [reduction EXCEPT ![reg[t].kind][t] = reg[t].value]
  /\ Touches(t, {}, {Cell(t, t)})
  /\ Set(t, [stride |-> ThreadsPerHead \div 2])
  /\ SyncThen(t, "reduce_tree")

ReduceTree(t) ==
  /\ Running(t, "reduce_tree") /\ reg[t].stride > 0
  /\ IF t < reg[t].stride
     THEN LET k == reg[t].kind
              other == t + reg[t].stride
          IN  /\ reduction' = [reduction EXCEPT ![k][t] = Combine(k, @, reduction[k][other])]
              /\ Touches(t, {Cell(t, t), Cell(t, other)}, {Cell(t, t)})
     ELSE UNCHANGED reduction /\ TouchesNothing
  /\ Set(t, [stride |-> reg[t].stride \div 2])
  /\ SyncThen(t, "reduce_tree")

ReduceReturn(t) ==
  /\ Running(t, "reduce_tree") /\ reg[t].stride = 0
  /\ Set(t, [value |-> reduction[reg[t].kind][0]])
  /\ Touches(t, {Cell(t, 0)}, {})
  /\ Goto(t, reg[t].then)
  /\ UNCHANGED reduction

-----------------------------------------------------------------------------
(* warp_reduce_sum *)

CallWarpReduce(t, partial, then) ==
  /\ Set(t, [value |-> partial, stride |-> WarpSize \div 2, then |-> then])
  /\ Goto(t, "shuffle")

(* __shfl_down_sync: a lane past the end gets its own value. *)
ShflDown(t, offset) ==
  IF LaneOf(t) + offset < WarpSize THEN reg[t + offset].value ELSE reg[t].value

(* All lanes of the mask take part in each shuffle together. *)
Shuffle(w) ==
  \E offset \in 1 .. WarpSize :
    /\ \A t \in LanesOf(w) : Running(t, "shuffle") /\ reg[t].stride = offset
    /\ reg' = [t \in Threads |->
                 IF t \in LanesOf(w)
                 THEN [reg[t] EXCEPT !.value = @ (+) ShflDown(t, offset),
                                     !.stride = offset \div 2]
                 ELSE reg[t]]
    /\ UNCHANGED <<pc, waiting, reduction, accesses>>

ShuffleReturn(t) ==
  /\ Running(t, "shuffle") /\ reg[t].stride = 0
  /\ Goto(t, reg[t].then)
  /\ UNCHANGED <<reg, reduction, accesses>>

-----------------------------------------------------------------------------

(* Shared memory and registers start with anything: one value that no       *)
(* computation makes.                                                       *)
Garbage == <<-1, -1>>

BlockInit ==
  /\ pc = [t \in Threads |-> "enter"]
  /\ waiting = {}
  /\ reg = [t \in Threads |-> [value |-> EmptyBag, stride |-> 0,
                               kind |-> "sum", then |-> "exit"]]
  /\ reduction = [max |-> [t \in Threads |-> {SetToBag({Garbage})}],
                  sum |-> [t \in Threads |-> SetToBag({Garbage})]]
  /\ accesses = {}

BlockReduce ==
  \E t \in Threads : ReduceStore(t) \/ ReduceTree(t) \/ ReduceReturn(t)

WarpReduce ==
  \/ \E w \in 0 .. WarpsPerBlock - 1 : Shuffle(w)
  \/ \E t \in Threads : ShuffleReturn(t)

-----------------------------------------------------------------------------
(* Properties *)

(* No two threads touch the same cell of shared memory between two barriers *)
(* when one of them writes it: the missing barrier between score writes and *)
(* score reads of the first v7 kernel is a violation.                       *)
NoDataRace ==
  \A a, b \in accesses :
    a.thread # b.thread /\ a.cell = b.cell => ~a.write /\ ~b.write

(* __syncthreads is reached by all threads at the same statement of the     *)
(* same loop round, and no thread returns while others wait for it.         *)
BarriersConverge ==
  \A t \in waiting :
    /\ Exited = {}
    /\ \A u \in waiting : pc[u] = pc[t] /\ reg[u].stride = reg[t].stride

=============================================================================

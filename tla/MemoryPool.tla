------------------------------ MODULE MemoryPool ------------------------------
(***************************************************************************)
(* One pool of memory_pool.c: blocks of one size in a list linked through   *)
(* the free blocks themselves.  Users take blocks and give back what they   *)
(* took; an owner destroys the pool and creates it again.  mempool_destroy  *)
(* takes another mutex than the calls it pulls the memory from under: the   *)
(* model ends there (astray).                                               *)
(***************************************************************************)
EXTENDS Naturals, FiniteSets

CONSTANTS
  Users,           \* threads
  BlockCount

VARIABLES
  active,
  free_list, next, \* the first free block, and the block each one points to
  free_blocks,
  poolLock,        \* the user in the critical section, or Nobody
  doing,           \* each user: idle, alloc, pop, free
  node,            \* the block each user's call is about
  held,            \* the blocks each user was given
  astray           \* the memory of the pool was freed during a call

poolVars == <<active, free_list, next, free_blocks, poolLock, doing, node, held, astray>>

Blocks == 1..BlockCount
NULL == 0
Nobody == "nobody"

PoolInit ==
  /\ active = FALSE /\ free_list = NULL /\ next = [b \in Blocks |-> NULL]
  /\ free_blocks = 0 /\ poolLock = Nobody
  /\ doing = [u \in Users |-> "idle"] /\ node = [u \in Users |-> NULL]
  /\ held = [u \in Users |-> {}] /\ astray = FALSE

(* mempool_create: the blocks in the order of their addresses.             *)
Create ==
  /\ ~active /\ active' = TRUE
  /\ free_list' = 1 /\ next' = [b \in Blocks |-> IF b = BlockCount THEN NULL ELSE b + 1]
  /\ free_blocks' = BlockCount /\ poolLock' = Nobody
  /\ UNCHANGED <<doing, node, held, astray>>

(* mempool_destroy: blocks not given back are lost to their users.          *)
Destroy ==
  /\ active /\ active' = FALSE /\ free_list' = NULL
  /\ held' = [u \in Users |-> {}]
  /\ astray' = (\E u \in Users : doing[u] # "idle")
  /\ UNCHANGED <<next, free_blocks, poolLock, doing, node>>

-----------------------------------------------------------------------------
CallStep(u, from, to) == doing[u] = from /\ doing' = [doing EXCEPT ![u] = to]

(* mempool_alloc: check active, lock and read the list, take the first      *)
(* block off it.                                                           *)
Alloc(u) ==
  /\ CallStep(u, "idle", "alloc") /\ active
  /\ UNCHANGED <<active, free_list, next, free_blocks, poolLock, node, held, astray>>

(* Mutant: the list is read without the mutex.                             *)
ReadListUnlocked(u) ==
  /\ CallStep(u, "alloc", IF free_list = NULL THEN "idle" ELSE "pop")
  /\ node' = [node EXCEPT ![u] = free_list]
  /\ UNCHANGED <<active, free_list, next, free_blocks, poolLock, held, astray>>

ReadList(u) ==
  /\ poolLock = Nobody
  /\ CallStep(u, "alloc", IF free_list = NULL THEN "idle" ELSE "pop")
  /\ node' = [node EXCEPT ![u] = free_list]
  /\ poolLock' = IF free_list = NULL THEN Nobody ELSE u
  /\ UNCHANGED <<active, free_list, next, free_blocks, held, astray>>

Pop(u) ==
  /\ CallStep(u, "pop", "idle")
  /\ free_list' = next[node[u]] /\ free_blocks' = free_blocks - 1
  /\ held' = [held EXCEPT ![u] = @ \cup {node[u]}]
  /\ poolLock' = Nobody /\ node' = [node EXCEPT ![u] = NULL]
  /\ UNCHANGED <<active, next, astray>>

(* mempool_free: check active and the address, lock, put the block first.   *)
Free(u, b) ==
  /\ CallStep(u, "idle", "free") /\ active /\ b \in held[u]
  /\ node' = [node EXCEPT ![u] = b] /\ held' = [held EXCEPT ![u] = @ \ {b}]
  /\ UNCHANGED <<active, free_list, next, free_blocks, poolLock, astray>>

Push(u) ==
  /\ poolLock = Nobody /\ CallStep(u, "free", "idle")
  /\ next' = [next EXCEPT ![node[u]] = free_list] /\ free_list' = node[u]
  /\ free_blocks' = free_blocks + 1 /\ node' = [node EXCEPT ![u] = NULL]
  /\ UNCHANGED <<active, poolLock, held, astray>>

Use(u) == Alloc(u) \/ ReadList(u) \/ Pop(u) \/ (\E b \in Blocks : Free(u, b)) \/ Push(u)

PoolNext == ~astray /\ (Create \/ Destroy \/ \E u \in Users : Use(u))

-----------------------------------------------------------------------------
(* From free_list on, n steps along the list.                              *)
Walk[n \in 0..BlockCount] ==
  IF n = 0 THEN free_list
  ELSE IF Walk[n - 1] = NULL THEN NULL ELSE next[Walk[n - 1]]

(* The blocks the list leads to.                                           *)
FreeBlocks == {Walk[n] : n \in 0..BlockCount} \ {NULL}

(* The block a call of the user is giving back.                            *)
Returning(u) == IF doing[u] = "free" THEN {node[u]} ELSE {}

PoolTypeOK ==
  /\ {active, astray} \subseteq BOOLEAN
  /\ free_list \in Blocks \cup {NULL} /\ next \in [Blocks -> Blocks \cup {NULL}]
  /\ free_blocks \in 0..BlockCount /\ poolLock \in Users \cup {Nobody}
  /\ doing \in [Users -> {"idle", "alloc", "pop", "free"}]
  /\ node \in [Users -> Blocks \cup {NULL}] /\ held \in [Users -> SUBSET Blocks]

(* As long as nobody destroys the pool during a call, every block is in one *)
(* place: on the list, with one user, or on its way back.  No block is      *)
(* handed out twice and none is lost, and free_blocks counts the list.      *)
EachBlockOnce ==
  active /\ ~astray =>
    /\ free_blocks = Cardinality(FreeBlocks)
    /\ \A b \in Blocks :
         Cardinality({u \in Users : b \in held[u] \cup Returning(u)})
           = IF b \in FreeBlocks THEN 0 ELSE 1
===============================================================================

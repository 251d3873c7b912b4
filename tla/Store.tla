-------------------------------- MODULE Store --------------------------------
(***************************************************************************)
(* The Store trait: what the tree may assume of a store, and what each     *)
(* store is shown to implement.  A store is seen through its two           *)
(* observations, the node at a position (if any) and the number of leaves, *)
(* and changes by put alone, one contiguous run of one level at a time.    *)
(*                                                                         *)
(* The stores differ in one thing a caller can see: MemoryStore and        *)
(* FileStore refuse a run that starts past the stored prefix, the          *)
(* key-value stores do not.                                                *)
(***************************************************************************)
EXTENDS Integers, Sequences

CONSTANT
  RejectGaps   \* TRUE for MemoryStore and FileStore, FALSE for the others

ASSUME StoreAssumption == RejectGaps \in BOOLEAN

VARIABLES
  nodes,       \* nodes[l] maps the indices present at level l to nodes
  numLeaves    \* get_num_leaves()

-----------------------------------------------------------------------------
\* Definitions marked "Wrong" are plausible bugs in the definition that follows
\* them.  Nothing uses them: the runs are validated by swapping them in.

\* Wrong: the leaf count never grows.
Smaller(a, b) == IF a > b THEN b ELSE a
Larger(a, b) == IF a > b THEN a ELSE b

\* Wrong: off by one, the next free position itself must be present.
GapAtEnd(l, s) == s > 0 /\ s \notin DOMAIN nodes[l]

\* A run at s would leave a hole below it.
Gap(l, s) == s > 0 /\ s - 1 \notin DOMAIN nodes[l]

\* Wrong: no gap check; a gap check on the leaves only.
RejectsNothing(l, s) == FALSE
RejectsLeafGaps(l, s) == RejectGaps /\ l = 0 /\ Gap(l, s)

Rejects(l, s) == RejectGaps /\ Gap(l, s)

\* Wrong: a put of parents counts leaves too.
CountedAtAnyLevel(l, end) == end

\* The number of leaves after a run that ends before `end` is stored.
Counted(l, end) == IF l = 0 THEN Larger(numLeaves, end) ELSE numLeaves

\* Store::put of a whole run: rewrites what is there and extends past it.
Put(l, s, run) ==
  /\ nodes' = [nodes EXCEPT ![l] =
       [i \in DOMAIN nodes[l] \cup s..(s + Len(run) - 1) |->
          IF i \in s..(s + Len(run) - 1) THEN run[i - s + 1] ELSE nodes[l][i]]]
  /\ numLeaves' = Counted(l, s + Len(run))

-----------------------------------------------------------------------------
(* The specification of a store on its own. *)

StoreInit ==
  /\ \A l \in DOMAIN nodes : DOMAIN nodes[l] = {}
  /\ numLeaves = 0

\* One put of any run the store does not refuse.  The run is read back from
\* the result, so that its bounds are all there is to choose.
StorePut ==
  \E l \in DOMAIN nodes : \E s, e \in DOMAIN nodes'[l] :
    /\ s..e \subseteq DOMAIN nodes'[l]
    /\ ~Rejects(l, s)
    /\ Put(l, s, [k \in 1..(e - s + 1) |-> nodes'[l][s + k - 1]])

StoreSpec == StoreInit /\ [][StorePut]_<<nodes, numLeaves>>
=============================================================================

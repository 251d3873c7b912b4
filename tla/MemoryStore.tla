----------------------------- MODULE MemoryStore -----------------------------
(***************************************************************************)
(* MemoryStore: a vector of nodes per level.  A put grows the vector of    *)
(* levels first, then refuses a run that starts past the stored prefix, or *)
(* overwrites the tail of the prefix and extends it.                       *)
(***************************************************************************)
EXTENDS Integers, Sequences, SequencesExt

CONSTANTS
  Node,      \* the values of nodes
  None,      \* what get returns for a position that is not stored
  TopLevel,  \* bound: the highest level put to
  MaxNodes   \* bound: the positions of a level

ASSUME MemoryStoreAssumption ==
  None \notin Node /\ TopLevel \in Nat /\ MaxNodes \in Nat

VARIABLES
  levels,    \* levels[l + 1][i + 1] is the node at level l, index i
  call,      \* the arguments of the last put
  outcome    \* and what it returned

vars == <<levels, call, outcome>>

Calls == {c \in [level : 0..TopLevel, start : 0..MaxNodes,
                 run : BoundedSeq(Node, MaxNodes)] :
            c.start + Len(c.run) <= MaxNodes}

\* The levels up to l exist.
Resized(l) ==
  [k \in 1..(IF l < Len(levels) THEN Len(levels) ELSE l + 1) |->
     IF k <= Len(levels) THEN levels[k] ELSE <<>>]

\* Wrong: what lies behind the run is cut off.
Truncated(stored, start, run) == SubSeq(stored, 1, start) \o run

\* Wrong: what is stored already is not rewritten.
OnlyExtended(stored, start, run) ==
  stored \o SubSeq(run, Len(stored) - start + 1, Len(run))

\* The run copied over the tail of the prefix and past it.
Overlaid(stored, start, run) ==
  SubSeq(stored, 1, start) \o run
    \o SubSeq(stored, start + Len(run) + 1, Len(stored))

\* Wrong: off by one, the next free position is refused.
AtPrefixEnd(stored, start) == start >= Len(stored)
PastPrefix(stored, start) == start > Len(stored)

Get(l, i) ==
  IF l < Len(levels) /\ i < Len(levels[l + 1]) THEN levels[l + 1][i + 1] ELSE None

NumLeaves == IF levels = <<>> THEN 0 ELSE Len(levels[1])

Init ==
  /\ levels = <<>>
  /\ call = [level |-> 0, start |-> 0, run |-> <<>>]
  /\ outcome = "Ok"

PutNothing(c) ==
  /\ c.run = <<>>
  /\ outcome' = "Ok"
  /\ UNCHANGED levels

\* A refused run still leaves the empty levels below it behind.
PutRefused(c) ==
  /\ c.run # <<>>
  /\ PastPrefix(Resized(c.level)[c.level + 1], c.start)
  /\ levels' = Resized(c.level)
  /\ outcome' = "StoreError"

PutRun(c) ==
  /\ c.run # <<>>
  /\ ~PastPrefix(Resized(c.level)[c.level + 1], c.start)
  /\ levels' = [Resized(c.level) EXCEPT ![c.level + 1] = Overlaid(@, c.start, c.run)]
  /\ outcome' = "Ok"

Put(c) == call' = c /\ (PutNothing(c) \/ PutRefused(c) \/ PutRun(c))

Next == \E c \in Calls : Put(c)

Spec == Init /\ [][Next]_vars

-----------------------------------------------------------------------------
Stored(l) == {i \in 0..MaxNodes : Get(l, i) # None}

Promise == INSTANCE Store WITH
  RejectGaps <- TRUE, numLeaves <- NumLeaves,
  nodes <- [l \in 0..TopLevel |-> [i \in Stored(l) |-> Get(l, i)]]

\* The store implements the trait: what get and get_num_leaves report changes
\* only by whole accepted runs, and not at all when a run is refused, although
\* the refusal comes after the levels were grown.
ImplementsStore == Promise!StoreSpec

\* A run is refused exactly if it would leave a hole, whatever levels exist
\* when it is put.
RefusesExactlyGaps ==
  [][ outcome' = "StoreError" <=>
        call'.run # <<>> /\ Promise!Rejects(call'.level, call'.start) ]_vars
=============================================================================

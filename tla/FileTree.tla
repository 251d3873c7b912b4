------------------------------ MODULE FileTree ------------------------------
(***************************************************************************)
(* The tree over a FileStore, node by node: what happens when a write is   *)
(* taken only in part, when the process dies and the directory is opened   *)
(* again, and when the machine loses what was not yet written back.        *)
(*                                                                         *)
(* `nodes` is what the handle reads.  A level file may hold more: a write  *)
(* that fails halfway leaves nodes behind the handle's count, which the    *)
(* handle does not see and the next one, which counts from the length of   *)
(* the file, does.                                                         *)
(***************************************************************************)
EXTENDS MerkleTree, FiniteSets

CONSTANTS
  Torn,     \* what is read where a node is half overwritten
  MaxLost   \* bound: the writes a power loss may undo

ASSUME FileTreeAssumption == RejectGaps /\ MaxLost \in Nat

VARIABLES
  unseen,  \* unseen[l] is what level file l holds past the handle's count
  faults,  \* what this execution meets, failing writes or power losses; a bound
  recent   \* the files before each of the last writes

fileVars == <<vars, unseen, faults, recent>>

-----------------------------------------------------------------------------
(* Level files. *)

Joined(l) ==
  [i \in DOMAIN nodes[l] \cup DOMAIN unseen[l] |->
     IF i \in DOMAIN nodes[l] THEN nodes[l][i] ELSE unseen[l][i]]

Files == [l \in Levels |-> Joined(l)]

NothingUnseen == [l \in Levels |-> [i \in {} |-> ZERO]]

\* What a handle that shows `shown` of the files does not show.
Beyond(files, shown) ==
  [l \in Levels |-> [i \in DOMAIN files[l] \ DOMAIN shown[l] |-> files[l][i]]]

\* The first k nodes of the run are in the file and, if `half`, a part of the
\* next one is: past the end of the file that part is less than a node.
Overwritten(file, s, run, k, half) ==
  [i \in DOMAIN file \cup s..(s + k - 1) |->
     IF i \in s..(s + k - 1) THEN run[i - s + 1]
     ELSE IF half /\ i = s + k THEN Torn ELSE file[i]]

\* write_all_at returns an error, or never returns: the count is not advanced.
PartWritten(l, s, run) ==
  \E k \in 0..(Len(run) - 1), half \in BOOLEAN :
    LET file == Overwritten(Files[l], s, run, k, half) IN
    /\ nodes' = [nodes EXCEPT ![l] = [i \in DOMAIN @ |-> file[i]]]
    /\ unseen' = [unseen EXCEPT ![l] =
         [i \in DOMAIN file \ DOMAIN nodes[l] |-> file[i]]]
    /\ UNCHANGED numLeaves

\* The last writes, of which none is known to have reached the disk.
Remembered ==
  IF faults # "power" \/ Files' = Files THEN recent
  ELSE LET longer == Append(recent, Files) IN
       SubSeq(longer, Larger(1, Len(longer) - MaxLost + 1), Len(longer))

-----------------------------------------------------------------------------
FileInit ==
  /\ Init
  /\ unseen = NothingUnseen
  /\ faults \in {"writes", "power"}
  /\ recent = <<>>

\* A call, or an iteration of its loop, whose writes are taken whole.
Proceed ==
  /\ AddNothing \/ (\E b \in Batches : AddTreeFull(b) \/ AddStart(b)) \/ HashLevel
  /\ unseen' = Beyond(Files, nodes')
  /\ recent' = Remembered
  /\ UNCHANGED faults

\* An error that leaves the files alone: a refused run, a failed read or open.
Fail ==
  /\ \/ faults = "writes" /\ \E b \in Batches : AddStartFails(b)
     \/ (faults = "writes" \/ Rejects(level + 1, start \div 2)) /\ HashLevelFails
  /\ UNCHANGED <<unseen, faults, recent>>

LeavesPartWritten(b) ==
  /\ faults = "writes"
  /\ EntryFails(b)
  /\ ~Rejects(0, numLeaves)
  /\ PartWritten(0, numLeaves, b)
  /\ UNCHANGED <<faults, recent>>

ParentsPartWritten ==
  /\ faults = "writes"
  /\ LevelFails
  /\ ~Rejects(level + 1, start \div 2)
  /\ PartWritten(level + 1, start \div 2, Parents)
  /\ UNCHANGED <<faults, recent>>

\* Wrong: the last node of a file is left out, for it may be only half there.
LastLeftOut(files) ==
  [l \in Levels |->
     [i \in DOMAIN files[l] \ {Cardinality(DOMAIN files[l]) - 1} |-> files[l][i]]]

\* What a new handle shows of the files: as much as their lengths say.
Shown(files) == files

\* FileStore::new and MerkleTree::new over the directory, after the process
\* ended between two calls or anywhere inside one.
Reopen ==
  /\ nodes' = Shown(Files)
  /\ numLeaves' = Cardinality(DOMAIN nodes'[0])
  /\ unseen' = Beyond(Files, nodes')
  /\ NewTree
  /\ UNCHANGED <<faults, recent>>

\* The machine stops: each file l on its own comes back as it was before write
\* back[l] of those remembered, which wrote to it, or as it is.
PowerLoss ==
  /\ recent # <<>>
  /\ LET found == Append(recent, Files) IN
     \E back \in [Levels -> DOMAIN found] :
       /\ \A l \in Levels :
            back[l] < Len(found) => found[back[l]][l] # found[back[l] + 1][l]
       /\ nodes' = [l \in Levels |-> found[back[l]][l]]
       /\ numLeaves' = Cardinality(DOMAIN nodes'[0])
  /\ unseen' = NothingUnseen
  /\ recent' = <<>>
  /\ UNCHANGED faults
  /\ NewTree

\* Only then are the last writes no longer remembered.
PowerLost == recent # <<>> /\ recent' = <<>>

FileNext ==
  \/ Proceed
  \/ Fail
  \/ \E b \in Batches : LeavesPartWritten(b)
  \/ ParentsPartWritten
  \/ Reopen
  \/ PowerLoss

FileSpec == FileInit /\ [][FileNext]_fileVars

-----------------------------------------------------------------------------
(* Properties of every execution, partial writes, kills and power losses      *)
(* included.                                                                 *)

\* The files hold no hole a count taken from a file's length would bridge,
\* whatever was written in part, killed or, file by file, lost.
FilesContiguous ==
  \A l \in Levels : LET held == DOMAIN Joined(l) IN \A i \in held : 0..i \subseteq held

\* A node all of whose leaves were appended by calls that returned keeps its
\* place and value through failed writes, kills and new handles, which may
\* only add the node where none was stored.  Power loss alone takes it away.
StoredNodesFinal ==
  [][ \/ PowerLost
      \/ \A l \in Levels : \A i \in 0..(Shr(Frontier, l) - 1) \cap DOMAIN nodes[l] :
           i \in DOMAIN nodes'[l] /\ nodes'[l][i] = nodes[l][i] ]_fileVars

\* A handle that has fallen behind, one level shorter than the leaves need, never
\* completes a call again.  A new handle may, for it also counts what was written
\* without being acknowledged.
StuckUntilReopened ==
  [][ Behind => \/ PowerLost
                \/ Reopen
                \/ Behind' /\ ~(status = "Hashing" /\ status' = "Ok") ]_fileVars

\* A process killed after storing `level`, but not yet the level above, does no
\* lasting damage if its leaves completed no node of a level it did not reach:
\* the next append over the reopened directory rewrites what is missing.  It
\* needs a file without leaves of an earlier failed call behind its count.
KillHealable ==
  [][ /\ status = "Hashing"
      /\ Reopen
      /\ unseen[0] = [i \in {} |-> ZERO]
      /\ SoundLeftOf(base)
      /\ Shr(base, level + 1) = Shr(numLeaves, level + 1)
      => SoundLeftOf(numLeaves)' ]_fileVars

\* Whatever mix of old and new files a power loss left, a call that returns Ok
\* over a tree that is sound left of its path publishes the root of the leaves
\* in the store; nodes right of them, which only proofs read, may be stale.
RootHealed ==
  status = "Ok" /\ leaves # <<>> /\ SoundLeftOf(base) => Root = ReferenceRoot(StoredLeaves)

-----------------------------------------------------------------------------
(* Statements of the source that the code does not meet. *)

\* file_store.rs, the test reopen_keeps_everything: a handle dropped after a call
\* that stored its leaves, and opened again, shows the same leaves and nodes.
ReopenKeepsEverything ==
  [][ status = "Ok" /\ leaves # <<>> /\ Reopen =>
        numLeaves' = numLeaves /\ nodes' = nodes ]_fileVars
=============================================================================

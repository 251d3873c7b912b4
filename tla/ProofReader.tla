----------------------------- MODULE ProofReader -----------------------------
(***************************************************************************)
(* proof() through a handle of its own, next to a tree that appends: the   *)
(* two stores that several handles can open are SQLite, where one get is   *)
(* one query and sees one committed state, and FileStore, where a get is   *)
(* one read per key, bounded by the counts the handle took when it was     *)
(* opened.  In both the root is asked for after the siblings.              *)
(***************************************************************************)
EXTENDS MerkleTree, FiniteSets

CONSTANTS
  Torn,        \* what is read from a node while it is being overwritten
  None,        \* no proof is being made, or none has been made yet
  MAX_PARAMS   \* how many keys one query takes

ASSUME ProofReaderAssumption == ~StoreMayFail /\ None \notin Nat /\ MAX_PARAMS \in Nat

VARIABLES
  backend,  \* the store, "sqlite" or "file"
  counts,   \* reader handle: the lengths of the level files when it was opened
  index,    \* proof(): its argument, None outside
  fetched,  \* proof(): the nodes read so far, the leaf last
  proof,    \* the last proof made
  mixed,    \* instrumentation: the parts of the proof may be of different trees
  ends      \* instrumentation: the leaf counts at which calls returned

readerVars == <<backend, counts, index, fetched, proof, mixed>>
sharedVars == <<vars, readerVars, ends>>

Lengths == [l \in Levels |-> Cardinality(DOMAIN nodes[l])]

-----------------------------------------------------------------------------
(* What a read returns. *)

\* The writer is inside a put that covers node i of level l.
Overwriting(l, i) ==
  /\ status = "Hashing"
  /\ l = level + 1
  /\ i - start \div 2 \in 0..(NumParents - 1)

\* Wrong: what the handle does not know of is read as a leaf of padding.
FileReadsUnpadded(l, i) == IF i >= counts[l] THEN {ZERO} ELSE {NodeAt(l, i)}

\* A read of the file sees the node as it was, as it will be, or in between.
FileReads(l, i) ==
  IF i >= counts[l] THEN {Zeros[l]}
  ELSE {NodeAt(l, i)} \cup
       IF Overwriting(l, i) THEN {Torn, Parents[i - start \div 2 + 1]} ELSE {}

Reads(l, i) == IF backend = "file" THEN FileReads(l, i) ELSE {NodeAt(l, i)}

\* The keys of proof(): the siblings from the leaf upwards, then the leaf.
KeyLevel(k) == IF k > DEPTH THEN 0 ELSE k - 1

\* Wrong: the index is not shifted; the index is reduced to the tree first.
KeyUnshifted(k) == IF k > DEPTH THEN index ELSE Sibling(index)
KeyReduced(k) ==
  IF k > DEPTH THEN index % Capacity ELSE Sibling(Shr(index % Capacity, k - 1))
KeyIndex(k) == IF k > DEPTH THEN index ELSE Sibling(Shr(index, k - 1))

Keys == 1..(DEPTH + 1)

TooMany == Cardinality(Keys) > MAX_PARAMS

\* The rows of the query: the requested keys, each with its place in the request
\* as `ord`, joined with the nodes.  A set: rows have no order of their own, and
\* the same key may be asked for twice.
Rows ==
  {[level |-> KeyLevel(k), index |-> KeyIndex(k), ord |-> k,
    node |-> NodeAt(KeyLevel(k), KeyIndex(k))] : k \in Keys}

\* Wrong: the rows in the order of the primary key.
KeyBefore(r, s) ==
  \/ r.level < s.level
  \/ r.level = s.level /\ r.index < s.index

Before(r, s) == r.ord < s.ord

\* ORDER BY ord
SortedRows ==
  CHOOSE rows \in [Keys -> Rows] : \A j, k \in Keys : j < k => Before(rows[j], rows[k])

-----------------------------------------------------------------------------
ReaderInit ==
  /\ Init
  /\ backend \in {"sqlite", "file"}
  /\ counts = [l \in Levels |-> 0]
  /\ index = None
  /\ fetched = <<>>
  /\ proof = None
  /\ mixed = FALSE
  /\ ends = {0}

\* The other handle appends.
Write ==
  /\ Next
  /\ ends' = IF status = "Hashing" /\ status' = "Ok" THEN ends \cup {numLeaves} ELSE ends
  /\ mixed' = (mixed \/ (index # None /\ IF Len(fetched) > DEPTH THEN Root' # Root
                                          ELSE backend = "file" /\ nodes' # nodes))
  /\ UNCHANGED <<backend, counts, index, fetched, proof>>

\* The reader opens the directory, or opens it again; a connection is as good
\* as new at any time.
Open ==
  /\ backend = "file"
  /\ index = None
  /\ counts' = Lengths
  /\ UNCHANGED <<vars, backend, index, fetched, proof, mixed, ends>>

\* A request that is too long for a query, or an index out of bounds, is an error.
Ask(i) ==
  /\ index = None
  /\ ~ProofRejected(i)
  /\ ~(backend = "sqlite" /\ TooMany)
  /\ index' = i
  /\ proof' = None
  /\ mixed' = (backend = "file" /\ counts # Lengths)
  /\ UNCHANGED <<vars, backend, counts, fetched, ends>>

\* One query for all keys.
FetchAll ==
  /\ backend = "sqlite"
  /\ index # None
  /\ fetched = <<>>
  /\ fetched' = [k \in Keys |-> SortedRows[k].node]
  /\ mixed' = ~Idle
  /\ UNCHANGED <<vars, backend, counts, index, proof, ends>>

\* One read per key.
FetchOne ==
  /\ backend = "file"
  /\ index # None
  /\ Len(fetched) <= DEPTH
  /\ \E n \in Reads(KeyLevel(Len(fetched) + 1), KeyIndex(Len(fetched) + 1)) :
       fetched' = Append(fetched, n)
  /\ mixed' = (mixed \/ ~Idle)
  /\ UNCHANGED <<vars, backend, counts, index, proof, ends>>

\* root(), a second call of get.
FetchRoot ==
  /\ index # None
  /\ Len(fetched) = DEPTH + 1
  /\ \E r \in Reads(DEPTH, 0) :
       proof' = [proof |-> [l \in 0..(DEPTH - 1) |-> fetched[l + 1]],
                 leaf |-> fetched[DEPTH + 1], index |-> index, root |-> r]
  /\ index' = None
  /\ fetched' = <<>>
  /\ mixed' = (mixed \/ (backend = "file" /\ Overwriting(DEPTH, 0)))
  /\ UNCHANGED <<vars, backend, counts, ends>>

Read == Open \/ (\E i \in 0..(Capacity + 1) : Ask(i)) \/ FetchAll \/ FetchOne \/ FetchRoot

ReaderNext == Write \/ Read

ReaderSpec == ReaderInit /\ [][ReaderNext]_sharedVars

-----------------------------------------------------------------------------
(* Properties of every interleaving of the two handles. *)

\* The tree over the first m leaves, and what it has at position i.
RootOf(m) == ReferenceRoot(SubSeq(StoredLeaves, 1, m))
LeafOf(m, i) == IF i < m THEN nodes[0][i] ELSE ZERO

\* The sizes the tree had between calls, and the one it has or is getting.
Sizes == ends \cup {numLeaves}

\* A proof verifies against its own root although the root is read separately,
\* unless a call was in progress while the siblings were read or completed
\* before the root was; a FileStore handle must also have been opened since
\* the last append.  A batch that is begun between the two reads does no harm.
QuietProofVerifies ==
  proof # None /\ ~mixed /\ proof.index < Capacity => VerifyProof(proof)

\* Whatever the reads were interleaved with, a root handed out is the root of
\* whole calls; a reader of a file may see it torn.
RootsOfWholeCalls ==
  proof # None => proof.root = Torn \/ \E m \in Sizes : proof.root = RootOf(m)

\* Whatever the reads were interleaved with, a proof that verifies is right: its
\* leaf is at its index in the tree whose root it names.
AcceptedProofsAreOfThePast ==
  proof # None /\ VerifyProof(proof) =>
    \E m \in Sizes : proof.root = RootOf(m) /\ proof.leaf = LeafOf(m, proof.index)
=============================================================================

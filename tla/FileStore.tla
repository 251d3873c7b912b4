------------------------------ MODULE FileStore ------------------------------
(***************************************************************************)
(* FileStore: one file of fixed-size nodes per level, written in place at  *)
(* the run's offset.  A put opens (or creates) the files up to its level   *)
(* one by one, checks the start of the run against the cached count, hands *)
(* the bytes of the run to the file system, which may take them in several *)
(* pieces, and advances the count.  Each of these may fail, and between    *)
(* any two of them the process may die; what was written stays in the      *)
(* file, and a new handle takes its counts from the lengths of the files.  *)
(* Losing what the operating system has not yet synced is not modelled.    *)
(***************************************************************************)
EXTENDS Integers, Sequences, SequencesExt

CONSTANTS
  Node,      \* the values of nodes
  TopLevel,  \* bound: the highest level put to
  MaxNodes,  \* bound: the positions of a level
  NodeLen,   \* Node::LEN: how many pieces of a node can be written separately
  MayFail,   \* TRUE if a system call of put may return an error
  MayCrash   \* TRUE if the process may die, or the handle be dropped

ASSUME FileStoreAssumption ==
  /\ TopLevel \in Nat
  /\ MaxNodes \in Nat
  /\ NodeLen \in Nat \ {0}
  /\ MayFail \in BOOLEAN
  /\ MayCrash \in BOOLEAN

VARIABLES
  disk,      \* disk[l] is the contents of file level_l, for the files there are
  counts,    \* handle: counts[l + 1] is the cached number of nodes of level l
  pc,        \* "Closed", "Ready", or where in put the handle is
  call,      \* put: its arguments
  written,   \* put: how many bytes of the run the file has taken
  outcome,   \* what the last put returned
  acked      \* instrumentation: the nodes of puts that returned Ok, until a
             \* later put starts to overwrite them

vars == <<disk, counts, pc, call, written, outcome, acked>>

Levels == 0..TopLevel

Calls == {c \in [level : Levels, start : 0..MaxNodes,
                 run : BoundedSeq(Node, MaxNodes) \ {<<>>}] :
            c.start + Len(c.run) <= MaxNodes}

-----------------------------------------------------------------------------
(* Files of bytes. *)

\* Node::as_bytes: the pieces of a run of nodes, one after the other.
AsBytes(run) ==
  [u \in 1..(Len(run) * NodeLen) |->
     <<run[(u - 1) \div NodeLen + 1], (u - 1) % NodeLen>>]

\* A positioned write; a gap before it is filled with zero bytes.
WriteAt(file, at, bytes) ==
  [u \in 1..(IF at + Len(bytes) > Len(file) THEN at + Len(bytes) ELSE Len(file)) |->
     IF u > at /\ u <= at + Len(bytes) THEN bytes[u - at]
     ELSE IF u <= Len(file) THEN file[u] ELSE <<"zero", 0>>]

\* What is read at index i, a node or the pieces of two.
NodeIn(file, i) == SubSeq(file, i * NodeLen + 1, (i + 1) * NodeLen)

\* Wrong: a node that is only partly there is counted.
NodesRoundedUp(file) == (Len(file) + NodeLen - 1) \div NodeLen

\* The whole nodes of a file.
NodesOf(file) == Len(file) \div NodeLen

\* Wrong: an index used as an offset.
IndexAsOffset(start) == start
Offset(start) == start * NodeLen

-----------------------------------------------------------------------------
(* The handle. *)

\* new() probes level_000, level_001, ... up to the first that is missing.
LevelFiles == CHOOSE n \in 0..(TopLevel + 1) :
                n \notin DOMAIN disk /\ 0..(n - 1) \subseteq DOMAIN disk

Get(l, i) ==
  IF l >= Len(counts) \/ i >= counts[l + 1] THEN <<>> ELSE NodeIn(disk[l], i)

NumLeaves == IF counts = <<>> THEN 0 ELSE counts[1]

\* Wrong: the count follows a run that ends inside the prefix.
CountIsEnd(count, end) == end
CountAfter(count, end) == IF count > end THEN count ELSE end

\* ensure_level opens the next file, whichever level the run is for.
NextFile == Len(counts)

\* Opening with create(true) and truncate(false).
Created(l) == IF l \in DOMAIN disk THEN disk
              ELSE [k \in DOMAIN disk \cup {l} |-> IF k = l THEN <<>> ELSE disk[k]]

Init ==
  /\ disk = [l \in {} |-> <<>>]
  /\ counts = <<>>
  /\ pc = "Closed"
  /\ call = [level |-> 0, start |-> 0, run |-> <<>>]
  /\ written = 0
  /\ outcome = "Ok"
  /\ acked = [l \in Levels |-> [i \in {} |-> <<>>]]

\* FileStore::new over whatever files the directory holds.
New ==
  /\ pc = "Closed"
  /\ counts' = [k \in 1..LevelFiles |-> NodesOf(disk[k - 1])]
  /\ pc' = "Ready"
  /\ UNCHANGED <<disk, call, written, outcome, acked>>

Put(c) ==
  /\ pc = "Ready"
  /\ call' = c
  /\ written' = 0
  /\ pc' = "Opening"
  /\ UNCHANGED <<disk, counts, outcome, acked>>

\* One round of ensure_level.
OpenLevel ==
  /\ pc = "Opening"
  /\ Len(counts) <= call.level
  /\ disk' = Created(NextFile)
  /\ counts' = Append(counts, NodesOf(disk'[NextFile]))
  /\ UNCHANGED <<pc, call, written, outcome, acked>>

\* Opening fails, or reading the length of the file just created does.
OpenLevelFails ==
  /\ MayFail
  /\ pc = "Opening"
  /\ Len(counts) <= call.level
  /\ disk' \in {disk, Created(NextFile)}
  /\ pc' = "Ready"
  /\ outcome' = "StoreError"
  /\ UNCHANGED <<counts, call, written, acked>>

Refuse ==
  /\ pc = "Opening"
  /\ Len(counts) > call.level
  /\ call.start > counts[call.level + 1]
  /\ pc' = "Ready"
  /\ outcome' = "Gap"
  /\ UNCHANGED <<disk, counts, call, written, acked>>

RunIndices == call.start..(call.start + Len(call.run) - 1)

Accept ==
  /\ pc = "Opening"
  /\ Len(counts) > call.level
  /\ call.start <= counts[call.level + 1]
  /\ pc' = "Writing"
  /\ acked' = [acked EXCEPT ![call.level] =
                 [i \in DOMAIN @ \ RunIndices |-> @[i]]]
  /\ UNCHANGED <<disk, counts, call, written, outcome>>

Bytes == AsBytes(call.run)

\* write_all_at: the file takes some more of the bytes.
Write ==
  /\ pc = "Writing"
  /\ \E upto \in (written + 1)..Len(Bytes) :
       /\ disk' = [disk EXCEPT ![call.level] =
            WriteAt(@, Offset(call.start) + written, SubSeq(Bytes, written + 1, upto))]
       /\ written' = upto
  /\ UNCHANGED <<counts, pc, call, outcome, acked>>

WriteFails ==
  /\ MayFail
  /\ pc = "Writing"
  /\ written < Len(Bytes)
  /\ pc' = "Ready"
  /\ outcome' = "StoreError"
  /\ UNCHANGED <<disk, counts, call, written, acked>>

\* The last byte is written: the count is advanced and put returns.
PutDone ==
  /\ pc = "Writing"
  /\ written = Len(Bytes)
  /\ counts' = [counts EXCEPT ![call.level + 1] =
                  CountAfter(@, call.start + Len(call.run))]
  /\ pc' = "Ready"
  /\ outcome' = "Ok"
  /\ acked' = [acked EXCEPT ![call.level] =
       [i \in DOMAIN @ \cup RunIndices |->
          IF i \in RunIndices THEN AsBytes(<<call.run[i - call.start + 1]>>) ELSE @[i]]]
  /\ UNCHANGED <<disk, call, written>>

\* The handle is gone, from inside a put or between two.
Crash ==
  /\ MayCrash
  /\ pc # "Closed"
  /\ pc' = "Closed"
  /\ counts' = <<>>
  /\ UNCHANGED <<disk, call, written, outcome, acked>>

Next ==
  \/ New
  \/ \E c \in Calls : Put(c)
  \/ OpenLevel
  \/ OpenLevelFails
  \/ Refuse
  \/ Accept
  \/ Write
  \/ WriteFails
  \/ PutDone
  \/ Crash

Spec == Init /\ [][Next]_vars

-----------------------------------------------------------------------------
(* Properties of every execution, errors and crashes included. *)

\* The file of every open level holds as many nodes as the handle believes, so
\* a read below the count never meets the end of the file.
ReadsBacked ==
  \A l \in 0..(Len(counts) - 1) :
    l \in DOMAIN disk /\ counts[l + 1] * NodeLen <= Len(disk[l])

\* What a put acknowledged is read back, by this handle and by every later
\* one, until another put is accepted for the same position.
AckedSurvives ==
  pc # "Closed" => \A l \in Levels : \A i \in DOMAIN acked[l] : Get(l, i) = acked[l][i]

-----------------------------------------------------------------------------
(* The promise. *)

\* A put takes effect, as far as its caller can tell, when its run is accepted.
File(l) ==
  IF pc = "Writing" /\ l = call.level
  THEN WriteAt(disk[l], Offset(call.start), Bytes) ELSE disk[l]

Count(l) ==
  IF l >= Len(counts) THEN 0
  ELSE IF pc = "Writing" /\ l = call.level
  THEN CountAfter(counts[l + 1], call.start + Len(call.run)) ELSE counts[l + 1]

Seen(l) == [i \in 0..(Count(l) - 1) |-> NodeIn(File(l), i)]

Promise == INSTANCE Store WITH
  RejectGaps <- TRUE, numLeaves <- Count(0), nodes <- [l \in Levels |-> Seen(l)]

\* One handle implements the trait: accepted runs appear whole, refused ones and
\* failed calls change nothing.  The one exception is a write that fails, which
\* takes back what of its run is not yet written and leaves the rest in the file;
\* nothing outside its run changes.
ImplementsStore ==
  [][ \/ Promise!StorePut
      \/ UNCHANGED <<[l \in Levels |-> Seen(l)], Count(0)>>
      \/ /\ WriteFails
         /\ \A l \in Levels : \A i \in DOMAIN Seen(l)' :
              (l = call.level /\ i \in RunIndices) \/ Seen(l)'[i] = Seen(l)[i]
      \/ New \/ Crash ]_vars
=============================================================================

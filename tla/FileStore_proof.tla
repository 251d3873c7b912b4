---------------------------- MODULE FileStore_proof ----------------------------
(***************************************************************************)
(* Proofs about FileStore for every set of nodes, number and size of       *)
(* levels and length of a node, whether calls fail or the process dies.    *)
(*                                                                         *)
(* The files are sequences of bytes, so the argument is about offsets: a   *)
(* run of r nodes at index s is bytes s * NodeLen + 1 to                   *)
(* (s + r) * NodeLen, and node i outside it shares no byte with it         *)
(* (Outside).  The invariant (Consistent) says which bytes of the file     *)
(* being written are those of the run already, and that the nodes          *)
(* acknowledged, less those being overwritten, are in their files and      *)
(* below the counts of whoever has the files open.                         *)
(***************************************************************************)
EXTENDS FileStore, TLAPS

-----------------------------------------------------------------------------
(* The invariant. *)

IsFile(file) == Len(file) \in Nat /\ DOMAIN file = 1..Len(file)

\* Writing n bytes from offset at stays within the r nodes from index s.
WithinRun(at, n, s, r) ==
  /\ at \in Nat /\ n \in Nat /\ s \in Nat /\ r \in Nat
  /\ s * NodeLen <= at /\ at + n <= (s + r) * NodeLen

\* Node i lies within the file.
Within(file, i) == (i + 1) * NodeLen <= Len(file)

\* The bytes are in the file at the offset.
Holds(file, at, bytes) ==
  /\ at \in Nat /\ Len(bytes) \in Nat
  /\ at + Len(bytes) <= Len(file)
  /\ \A u \in 1..Len(bytes) : file[at + u] = bytes[u]

\* The level files there are, without a gap, and each a sequence of bytes.
DiskShape ==
  /\ \E n \in 0..(TopLevel + 1) : DOMAIN disk = 0..(n - 1)
  /\ \A l \in DOMAIN disk : IsFile(disk[l])

\* A handle counts whole nodes that are there, and has every file with content.
HandleShape ==
  /\ counts \in Seq(Nat)
  /\ \A l \in 0..(Len(counts) - 1) :
       l \in DOMAIN disk /\ counts[l + 1] * NodeLen <= Len(disk[l])
  /\ pc = "Closed" => Len(counts) = 0
  /\ pc # "Closed" => \A l \in DOMAIN disk : l >= Len(counts) => Len(disk[l]) = 0

\* Where a put is, and how much of its run is in the file.
CallShape ==
  /\ pc \in {"Closed", "Ready", "Opening", "Writing"}
  /\ pc \in {"Opening", "Writing"} => call \in Calls
  /\ pc = "Opening" => written = 0
  /\ pc = "Writing" =>
       /\ call.level < Len(counts)
       /\ call.start <= counts[call.level + 1]
       /\ written \in 0..Len(Bytes)
       /\ Offset(call.start) + written <= Len(disk[call.level])
       /\ \A u \in 1..written : disk[call.level][Offset(call.start) + u] = Bytes[u]

\* Acknowledged nodes are in the files, below the counts of an open handle, and
\* apart from the run being written.
AckedShape ==
  /\ DOMAIN acked = Levels
  /\ \A l \in Levels : \A i \in DOMAIN acked[l] :
       /\ i \in Nat
       /\ l \in DOMAIN disk
       /\ Within(disk[l], i)
       /\ acked[l][i] = NodeIn(disk[l], i)
       /\ pc # "Closed" => l < Len(counts) /\ i < counts[l + 1]
       /\ pc = "Writing" /\ l = call.level => i \notin RunIndices

Consistent == DiskShape /\ HandleShape /\ CallShape /\ AckedShape

-----------------------------------------------------------------------------
(* Bytes. *)

\* A product of naturals is a natural, and monotone.
LEMMA Products ==
  ASSUME NEW a \in Nat, NEW b \in Nat, NEW m \in Nat
  PROVE  /\ a * m \in Nat
         /\ (a + b) * m = a * m + b * m
         /\ (a + 1) * m = a * m + m
         /\ a <= b => a * m <= b * m
BY Z3

\* The u-th byte of the a-th node of a run.
LEMMA Digits ==
  ASSUME NEW a \in Nat, NEW m \in Nat, m > 0, NEW u \in 1..m
  PROVE  /\ (a * m + u - 1) \div m = a
         /\ (a * m + u - 1) % m = u - 1
<1>1. ASSUME NEW x \in Nat, NEW d \in Nat, x < m
      PROVE  (d * m + x) \div m = d /\ (d * m + x) % m = x
  BY <1>1, Z3
<1>2. u - 1 \in Nat /\ u - 1 < m /\ a * m + u - 1 = a * m + (u - 1)
  BY Products
<1> QED
  BY <1>1, <1>2

\* The whole nodes of a file lie in it, and they are all that do.
LEMMA WholeNodes ==
  ASSUME NEW n \in Nat
  PROVE  /\ n \div NodeLen \in Nat
         /\ (n \div NodeLen) * NodeLen <= n
         /\ \A i \in Nat : (i + 1) * NodeLen <= n => i < n \div NodeLen
         /\ n = 0 => n \div NodeLen = 0
<1>1. ASSUME NEW m \in Nat, m > 0
      PROVE  /\ n \div m \in Nat
             /\ (n \div m) * m <= n
             /\ n < (n \div m) * m + m
             /\ n = 0 => n \div m = 0
  BY <1>1, Z3
<1>2. ASSUME NEW m \in Nat, m > 0, NEW q \in Nat, n < q * m + m,
             NEW i \in Nat, (i + 1) * m <= n
      PROVE  i < q
  BY <1>2, Z3
<1> QED
  BY <1>1, <1>2, FileStoreAssumption

\* A node in a file is NodeLen bytes of it.
LEMMA NodeBytes ==
  ASSUME NEW file, IsFile(file), NEW i \in Nat, Within(file, i)
  PROVE  NodeIn(file, i) = [u \in 1..NodeLen |-> file[i * NodeLen + u]]
<1> DEFINE at == i * NodeLen
<1>1. NodeLen \in Nat /\ at \in Nat /\ (i + 1) * NodeLen = at + NodeLen
  BY Products, FileStoreAssumption
<1>2. at + NodeLen <= Len(file) /\ NodeIn(file, i) = SubSeq(file, at + 1, at + NodeLen)
  BY <1>1 DEF Within, NodeIn
<1> HIDE DEF at
<1>3. SubSeq(file, at + 1, at + NodeLen) = [u \in 1..NodeLen |-> file[at + u]]
  BY <1>1, <1>2 DEF IsFile
<1> QED
  BY <1>2, <1>3 DEF at

\* Two files with the same bytes there have the same node.
LEMMA SameNode ==
  ASSUME NEW f, NEW g, IsFile(f), IsFile(g), NEW i \in Nat, Within(f, i), Within(g, i),
         \A u \in 1..NodeLen : f[i * NodeLen + u] = g[i * NodeLen + u]
  PROVE  NodeIn(f, i) = NodeIn(g, i)
<1>1. /\ NodeIn(f, i) = [u \in 1..NodeLen |-> f[i * NodeLen + u]]
      /\ NodeIn(g, i) = [u \in 1..NodeLen |-> g[i * NodeLen + u]]
  BY NodeBytes
<1> QED
  BY <1>1

\* What a write makes of a file.
LEMMA WriteAtType ==
  ASSUME NEW file, IsFile(file), NEW at \in Nat, NEW bytes, Len(bytes) \in Nat
  PROVE  /\ IsFile(WriteAt(file, at, bytes))
         /\ Len(file) <= Len(WriteAt(file, at, bytes))
         /\ at + Len(bytes) <= Len(WriteAt(file, at, bytes))
         /\ Len(WriteAt(file, at, bytes)) \in {Len(file), at + Len(bytes)}
         /\ \A u \in 1..Len(WriteAt(file, at, bytes)) :
              WriteAt(file, at, bytes)[u] =
                IF u > at /\ u <= at + Len(bytes) THEN bytes[u - at]
                ELSE IF u <= Len(file) THEN file[u] ELSE <<"zero", 0>>
<1> DEFINE n == Len(bytes)
           len == IF at + n > Len(file) THEN at + n ELSE Len(file)
           new == WriteAt(file, at, bytes)
<1>1. new = [u \in 1..len |->
               IF u > at /\ u <= at + n THEN bytes[u - at]
               ELSE IF u <= Len(file) THEN file[u] ELSE <<"zero", 0>>]
  BY DEF WriteAt
<1>2. /\ len \in Nat /\ len \in {Len(file), at + n} /\ Len(file) <= len /\ at + n <= len
  BY DEF IsFile
<1> HIDE DEF len, new
<1>3. DOMAIN new = 1..len /\ Len(new) = len
  BY <1>1, <1>2
<1>4. \A u \in 1..len : new[u] = IF u > at /\ u <= at + n THEN bytes[u - at]
                                 ELSE IF u <= Len(file) THEN file[u] ELSE <<"zero", 0>>
  BY <1>1
<1>5. /\ IsFile(new) /\ Len(file) <= Len(new) /\ at + n <= Len(new)
      /\ Len(new) \in {Len(file), at + n}
      /\ \A u \in 1..Len(new) :
           new[u] = IF u > at /\ u <= at + n THEN bytes[u - at]
                    ELSE IF u <= Len(file) THEN file[u] ELSE <<"zero", 0>>
  BY <1>2, <1>3, <1>4 DEF IsFile
<1> QED
  BY <1>5 DEF new

\* What a part of a sequence holds.
LEMMA PartOf ==
  ASSUME NEW bytes, Len(bytes) \in Nat, DOMAIN bytes = 1..Len(bytes),
         NEW w \in Nat, NEW n \in Nat, w + n <= Len(bytes)
  PROVE  /\ Len(SubSeq(bytes, w + 1, w + n)) = n
         /\ \A v \in 1..n : SubSeq(bytes, w + 1, w + n)[v] = bytes[w + v]
<1> DEFINE s == SubSeq(bytes, w + 1, w + n)
<1>1. s = [v \in 1..((w + n) - (w + 1) + 1) |-> bytes[(w + 1) + v - 1]]
  OBVIOUS
<1> HIDE DEF s
<1>2. (w + n) - (w + 1) + 1 = n /\ \A v \in 1..n : (w + 1) + v - 1 = w + v
  OBVIOUS
<1>3. s = [v \in 1..n |-> bytes[w + v]]
  BY <1>1, <1>2
<1>4. Len(s) = n
  BY <1>3
<1>5. \A v \in 1..n : s[v] = bytes[w + v]
  BY <1>3
<1> QED
  BY <1>4, <1>5, Zenon DEF s

\* A node outside a run is not touched by writing part of the run.
LEMMA Outside ==
  ASSUME NEW file, IsFile(file), NEW at, NEW bytes, NEW s, NEW r,
         WithinRun(at, Len(bytes), s, r),
         NEW i \in Nat, i \notin s..(s + r - 1), Within(file, i)
  PROVE  /\ Within(WriteAt(file, at, bytes), i)
         /\ NodeIn(WriteAt(file, at, bytes), i) = NodeIn(file, i)
<1> DEFINE new == WriteAt(file, at, bytes)
           n == Len(bytes)
<1>0. /\ at \in Nat /\ n \in Nat /\ s \in Nat /\ r \in Nat
      /\ s * NodeLen <= at /\ at + n <= (s + r) * NodeLen
  BY DEF WithinRun
<1>1. /\ IsFile(new) /\ Len(file) <= Len(new)
      /\ \A u \in 1..Len(new) :
           new[u] = IF u > at /\ u <= at + n THEN bytes[u - at]
                    ELSE IF u <= Len(file) THEN file[u] ELSE <<"zero", 0>>
  BY <1>0, WriteAtType
<1> HIDE DEF new, n
<1>2. /\ NodeLen \in Nat /\ i * NodeLen \in Nat /\ s * NodeLen \in Nat
      /\ (s + r) * NodeLen \in Nat /\ Len(file) \in Nat /\ Len(new) \in Nat
      /\ (i + 1) * NodeLen = i * NodeLen + NodeLen
      /\ i * NodeLen + NodeLen <= Len(file) /\ Len(file) <= Len(new)
  BY <1>0, <1>1, Products, FileStoreAssumption DEF IsFile, Within
<1>3. i * NodeLen + NodeLen <= s * NodeLen \/ (s + r) * NodeLen <= i * NodeLen
  <2>1. i + 1 <= s \/ s + r <= i
    BY <1>0
  <2> QED
    BY <1>0, <1>2, <2>1, Products
<1>4. Within(new, i)
  BY <1>1, <1>2 DEF Within
<1>5. ASSUME NEW u \in 1..NodeLen PROVE new[i * NodeLen + u] = file[i * NodeLen + u]
  <2> DEFINE p == i * NodeLen
             lo == s * NodeLen
             hi == (s + r) * NodeLen
             v == p + u
  <2>0. /\ p \in Nat /\ lo \in Nat /\ hi \in Nat /\ at \in Nat /\ n \in Nat
        /\ p + NodeLen <= Len(file) /\ (p + NodeLen <= lo \/ hi <= p)
        /\ lo <= at /\ at + n <= hi
        /\ NodeLen \in Nat /\ Len(file) \in Nat /\ Len(new) \in Nat /\ Len(file) <= Len(new)
    BY <1>0, <1>2, <1>3
  <2> HIDE DEF p, lo, hi
  <2>1. v \in Nat /\ v >= 1 /\ v <= Len(file) /\ v <= Len(new)
    BY <2>0
  <2>2. ~ (v > at /\ v <= at + n)
    BY <2>0
  <2> HIDE DEF v
  <2>3. v \in 1..Len(new)
    BY <1>2, <2>1
  <2> QED
    BY <1>1, <2>1, <2>2, <2>3 DEF v, p
<1> QED
  BY <1>1, <1>4, <1>5, SameNode DEF new

\* The arguments of a put.
LEMMA CallType ==
  ASSUME call \in Calls
  PROVE  /\ call.level \in Levels /\ call.level \in Nat
         /\ call.start \in Nat
         /\ Len(call.run) \in Nat /\ Len(call.run) > 0
         /\ DOMAIN call.run = 1..Len(call.run)
         /\ call.start + Len(call.run) <= MaxNodes
<1>1. /\ call.level \in Levels /\ call.start \in 0..MaxNodes
      /\ call.run \in BoundedSeq(Node, MaxNodes) /\ call.run # <<>>
      /\ call.start + Len(call.run) <= MaxNodes
  BY DEF Calls
<1>2. PICK m \in 0..MaxNodes : call.run \in [1..m -> Node]
  BY <1>1 DEF BoundedSeq, SeqOf
<1>3. m \in Nat /\ DOMAIN call.run = 1..m /\ Len(call.run) = m
  <2>1. m \in Nat
    BY FileStoreAssumption
  <2>2. call.run \in Seq(Node)
    BY <1>2, <2>1
  <2> QED
    BY <1>2, <2>1, <2>2
<1>4. m # 0
  BY <1>1, <1>2, <1>3
<1>5. m > 0
  BY <1>3, <1>4
<1> QED
  BY <1>1, <1>3, <1>5, FileStoreAssumption DEF Levels

\* The bytes of the run: of its a-th node those from a * NodeLen + 1.
LEMMA BytesType ==
  ASSUME call \in Calls
  PROVE  /\ Len(Bytes) = Len(call.run) * NodeLen
         /\ Len(Bytes) \in Nat /\ Len(Bytes) > 0
         /\ DOMAIN Bytes = 1..Len(Bytes)
         /\ Offset(call.start) \in Nat
         /\ (call.start + Len(call.run)) * NodeLen = Offset(call.start) + Len(Bytes)
         /\ \A a \in 0..(Len(call.run) - 1) : \A u \in 1..NodeLen :
              /\ a * NodeLen + u \in 1..Len(Bytes)
              /\ Bytes[a * NodeLen + u] = <<call.run[a + 1], u - 1>>
<1> DEFINE r == Len(call.run)
<1>1. r \in Nat /\ r > 0 /\ call.start \in Nat /\ NodeLen \in Nat /\ NodeLen > 0
  BY CallType, FileStoreAssumption
<1>2. Bytes = [u \in 1..(r * NodeLen) |->
                 <<call.run[(u - 1) \div NodeLen + 1], (u - 1) % NodeLen>>]
  BY DEF Bytes, AsBytes
<1> HIDE DEF r
<1>3. r * NodeLen \in Nat /\ r * NodeLen > 0
  <2>1. 1 * NodeLen <= r * NodeLen
    BY <1>1, Products
  <2> QED
    BY <1>1, <2>1, Products
<1>4. Len(Bytes) = r * NodeLen /\ DOMAIN Bytes = 1..(r * NodeLen)
  BY <1>2, <1>3
<1>5. Offset(call.start) \in Nat /\ (call.start + r) * NodeLen = Offset(call.start) + Len(Bytes)
  BY <1>1, <1>4, Products DEF Offset
<1>6. ASSUME NEW a \in 0..(r - 1), NEW u \in 1..NodeLen
      PROVE  /\ a * NodeLen + u \in 1..(r * NodeLen)
             /\ Bytes[a * NodeLen + u] = <<call.run[a + 1], u - 1>>
  <2>1. a \in Nat /\ a + 1 <= r /\ u \in Nat
    BY <1>1
  <2>2. /\ a * NodeLen \in Nat /\ (a + 1) * NodeLen = a * NodeLen + NodeLen
        /\ (a + 1) * NodeLen <= r * NodeLen
    BY <1>1, <2>1, Products
  <2>3. a * NodeLen + u \in 1..(r * NodeLen)
    BY <1>1, <1>3, <2>1, <2>2
  <2>4. /\ (a * NodeLen + u - 1) \div NodeLen = a
        /\ (a * NodeLen + u - 1) % NodeLen = u - 1
    BY <1>1, <2>1, Digits
  <2> DEFINE v == a * NodeLen + u
             w == a * NodeLen
  <2> HIDE DEF w
  <2>5. v - 1 = w + (u - 1)
    BY <1>1, <2>1, <2>2 DEF w
  <2> HIDE DEF v
  <2>6. v \in 1..(r * NodeLen) /\ (v - 1) \div NodeLen = a /\ (v - 1) % NodeLen = u - 1
    BY <2>3, <2>4, <2>5 DEF v, w
  <2>7. Bytes[v] = <<call.run[(v - 1) \div NodeLen + 1], (v - 1) % NodeLen>>
    BY <1>2, <2>6
  <2>8. Bytes[v] = <<call.run[a + 1], u - 1>>
    BY <2>6, <2>7
  <2> QED
    BY <2>6, <2>8 DEF v
<1> QED
  BY <1>3, <1>4, <1>5, <1>6 DEF r

\* A node alone.
LEMMA OneNode ==
  ASSUME NEW x
  PROVE  AsBytes(<<x>>) = [u \in 1..NodeLen |-> <<x, u - 1>>]
<1>1. NodeLen \in Nat /\ NodeLen > 0
  BY FileStoreAssumption
<1>2. Len(<<x>>) * NodeLen = NodeLen
  BY <1>1
<1>3. AsBytes(<<x>>) = [u \in 1..NodeLen |->
                          <<<<x>>[(u - 1) \div NodeLen + 1], (u - 1) % NodeLen>>]
  BY <1>2 DEF AsBytes
<1>4. ASSUME NEW u \in 1..NodeLen
      PROVE  <<<<x>>[(u - 1) \div NodeLen + 1], (u - 1) % NodeLen>> = <<x, u - 1>>
  <2>1. (0 * NodeLen + u - 1) \div NodeLen = 0 /\ (0 * NodeLen + u - 1) % NodeLen = u - 1
    BY <1>1, Digits
  <2>2. 0 * NodeLen + u - 1 = u - 1
    BY <1>1
  <2>3. (u - 1) \div NodeLen = 0 /\ (u - 1) % NodeLen = u - 1
    BY <2>1, <2>2
  <2>4. <<x>>[0 + 1] = x
    OBVIOUS
  <2> QED
    BY <2>3, <2>4
<1> QED
  BY <1>3, <1>4

\* A file with the bytes of the run at its offset holds its nodes.
LEMMA RunInFile ==
  ASSUME call \in Calls, NEW file, IsFile(file),
         Offset(call.start) + Len(Bytes) <= Len(file),
         \A u \in 1..Len(Bytes) : file[Offset(call.start) + u] = Bytes[u],
         NEW i \in RunIndices
  PROVE  /\ i \in Nat
         /\ Within(file, i)
         /\ NodeIn(file, i) = AsBytes(<<call.run[i - call.start + 1]>>)
<1> DEFINE a == i - call.start
           r == Len(call.run)
<1>1. r \in Nat /\ call.start \in Nat /\ NodeLen \in Nat
  BY CallType, FileStoreAssumption
<1>2. i \in Nat /\ a \in 0..(r - 1) /\ i = call.start + a /\ i + 1 <= call.start + r
  BY <1>1 DEF RunIndices
<1> HIDE DEF a, r
<1>3. a \in Nat
  BY <1>1, <1>2
<1>4. i * NodeLen = Offset(call.start) + a * NodeLen /\ a * NodeLen \in Nat
  BY <1>1, <1>2, <1>3, Products DEF Offset
<1>5. Within(file, i)
  <2> DEFINE j == i + 1
             e == call.start + r
  <2>0. j \in Nat /\ e \in Nat /\ j <= e
    BY <1>1, <1>2
  <2> HIDE DEF j, e
  <2>1. j * NodeLen <= e * NodeLen /\ j * NodeLen \in Nat /\ e * NodeLen \in Nat
    BY <1>1, <2>0, Products
  <2>2. (call.start + r) * NodeLen = Offset(call.start) + Len(Bytes)
    BY BytesType DEF r
  <2>3. j * NodeLen <= Len(file)
    BY <2>1, <2>2 DEF IsFile, e
  <2> QED
    BY <2>3 DEF Within, j
<1>6. ASSUME NEW u \in 1..NodeLen
      PROVE  file[i * NodeLen + u] = <<call.run[a + 1], u - 1>>
  <2>1. /\ a * NodeLen + u \in 1..Len(Bytes)
        /\ Bytes[a * NodeLen + u] = <<call.run[a + 1], u - 1>>
    BY <1>2, BytesType DEF r
  <2> DEFINE o == Offset(call.start)
             w == a * NodeLen
             p == i * NodeLen
  <2>2. o \in Nat /\ w \in Nat /\ p = o + w
    BY <1>4, BytesType
  <2> HIDE DEF o, w, p
  <2>3. p + u = o + (w + u)
    BY <1>1, <2>2
  <2> QED
    BY <2>1, <2>3 DEF o, w, p
<1>7. NodeIn(file, i) = [u \in 1..NodeLen |-> file[i * NodeLen + u]]
  BY <1>2, <1>5, NodeBytes
<1>8. NodeIn(file, i) = AsBytes(<<call.run[a + 1]>>)
  <2> DEFINE x == call.run[a + 1]
  <2>1. NodeIn(file, i) = [u \in 1..NodeLen |-> <<x, u - 1>>]
    BY <1>6, <1>7
  <2> HIDE DEF x
  <2>2. NodeIn(file, i) = AsBytes(<<x>>)
    BY <2>1, OneNode
  <2> QED
    BY <2>2 DEF x
<1> QED
  BY <1>2, <1>5, <1>8 DEF a

-----------------------------------------------------------------------------
(* The invariant holds. *)

\* Nothing is stored and nothing is open at first.
LEMMA ConsistentInit == Init => Consistent
<1> SUFFICES ASSUME Init PROVE Consistent
  OBVIOUS
<1>1. /\ disk = [l \in {} |-> <<>>] /\ counts = <<>> /\ pc = "Closed"
      /\ acked = [l \in Levels |-> [i \in {} |-> <<>>]]
  BY DEF Init
<1>2. DOMAIN disk = {} /\ 0..(0 - 1) = {}
  BY <1>1
<1>3. DiskShape
  BY <1>2, FileStoreAssumption DEF DiskShape
<1>4. HandleShape
  BY <1>1, <1>2 DEF HandleShape
<1>5. CallShape
  BY <1>1 DEF CallShape
<1>6. AckedShape
  BY <1>1 DEF AckedShape
<1> QED
  BY <1>3, <1>4, <1>5, <1>6 DEF Consistent

\* The next file a put opens is empty or was missing.
LEMMA Creation ==
  ASSUME DiskShape, HandleShape, pc # "Closed", Len(counts) <= TopLevel,
         NEW d, d = Created(NextFile)
  PROVE  /\ \E n \in 0..(TopLevel + 1) : DOMAIN d = 0..(n - 1)
         /\ \A l \in DOMAIN d : IsFile(d[l])
         /\ DOMAIN disk \subseteq DOMAIN d
         /\ \A l \in DOMAIN disk : d[l] = disk[l]
         /\ Len(counts) \in DOMAIN d
         /\ \A l \in DOMAIN d : l >= Len(counts) => Len(d[l]) = 0
<1> DEFINE q == Len(counts)
<1>1. q \in Nat /\ q <= TopLevel /\ TopLevel \in Nat
  BY FileStoreAssumption DEF HandleShape
<1>2. /\ \A l \in 0..(q - 1) : l \in DOMAIN disk
      /\ \A l \in DOMAIN disk : l >= q => Len(disk[l]) = 0
  BY DEF HandleShape
<1>3. PICK n \in 0..(TopLevel + 1) : DOMAIN disk = 0..(n - 1)
  BY DEF DiskShape
<1>4. d = IF q \in DOMAIN disk THEN disk
          ELSE [k \in DOMAIN disk \cup {q} |-> IF k = q THEN <<>> ELSE disk[k]]
  BY DEF Created, NextFile
<1>5. \A l \in DOMAIN disk : IsFile(disk[l])
  BY DEF DiskShape
<1> HIDE DEF q
<1>6. CASE q \in DOMAIN disk
  BY <1>2, <1>3, <1>4, <1>5, <1>6 DEF q
<1>7. CASE q \notin DOMAIN disk
  <2>1. q = n
    <3>1. q >= n
      BY <1>1, <1>3, <1>7
    <3>2. CASE q > n
      <4>1. n \in 0..(q - 1)
        BY <1>1, <1>3, <3>2
      <4> QED
        BY <1>2, <1>3, <4>1
    <3> QED
      BY <1>1, <1>3, <3>1, <3>2
  <2>2. /\ DOMAIN d = 0..((n + 1) - 1)
        /\ d[q] = <<>>
        /\ \A l \in DOMAIN disk : d[l] = disk[l]
    <3>1. /\ d = [k \in DOMAIN disk \cup {q} |-> IF k = q THEN <<>> ELSE disk[k]]
          /\ q \notin DOMAIN disk
      BY <1>4, <1>7
    <3>2. DOMAIN d = DOMAIN disk \cup {q} /\ d[q] = <<>>
      BY <3>1
    <3>3. \A l \in DOMAIN disk : d[l] = disk[l]
      BY <3>1
    <3>4. n \in Nat /\ 0..((n + 1) - 1) = 0..(n - 1) \cup {q}
      BY <1>1, <1>3, <2>1
    <3> QED
      BY <1>3, <3>2, <3>3, <3>4
  <2>3. n + 1 \in 0..(TopLevel + 1)
    BY <1>1, <2>1
  <2>4. \A l \in DOMAIN d : l \in DOMAIN disk \/ l = q
    BY <1>3, <1>4, <1>7
  <2>5. IsFile(<<>>) /\ Len(<<>>) = 0
    BY DEF IsFile
  <2>6. q \in DOMAIN d /\ DOMAIN disk \subseteq DOMAIN d
    BY <1>4, <1>7
  <2>7. \A l \in DOMAIN d : IsFile(d[l])
    BY <1>5, <2>2, <2>4, <2>5
  <2>8. \A l \in DOMAIN d : l >= q => Len(d[l]) = 0
    BY <1>2, <2>2, <2>4, <2>5
  <2> QED
    BY <2>2, <2>3, <2>6, <2>7, <2>8 DEF q
<1> QED
  BY <1>6, <1>7

\* new() reads the counts of all the files there are.
LEMMA NewStep ==
  ASSUME Consistent, New
  PROVE  Consistent'
<1>1. /\ disk' = disk /\ acked' = acked /\ pc' = "Ready"
      /\ counts' = [k \in 1..LevelFiles |-> NodesOf(disk[k - 1])]
  BY DEF New
<1>2. PICK n \in 0..(TopLevel + 1) : DOMAIN disk = 0..(n - 1)
  BY DEF Consistent, DiskShape
<1>3. \A l \in DOMAIN disk : IsFile(disk[l])
  BY DEF Consistent, DiskShape
<1>4. LevelFiles = n
  <2> DEFINE OK(m) == m \notin DOMAIN disk /\ 0..(m - 1) \subseteq DOMAIN disk
  <2>1. OK(n)
    BY <1>2, FileStoreAssumption
  <2>2. LevelFiles \in 0..(TopLevel + 1) /\ OK(LevelFiles)
    BY <2>1, Zenon DEF LevelFiles
  <2>3. ASSUME NEW m \in 0..(TopLevel + 1), OK(m) PROVE m = n
    <3>1. m >= n
      BY <1>2, <2>3, FileStoreAssumption
    <3>2. CASE m > n
      <4>1. n \in 0..(m - 1)
        BY <1>2, <3>2, FileStoreAssumption
      <4> QED
        BY <1>2, <2>3, <4>1, FileStoreAssumption
    <3> QED
      BY <3>1, <3>2, FileStoreAssumption
  <2> QED
    BY <2>2, <2>3
<1>5. n \in Nat /\ \A l \in DOMAIN disk : l \in 0..(n - 1)
  BY <1>2, FileStoreAssumption
<1>6. \A l \in 0..(n - 1) :
        /\ NodesOf(disk[l]) \in Nat
        /\ NodesOf(disk[l]) * NodeLen <= Len(disk[l])
        /\ \A i \in Nat : Within(disk[l], i) => i < NodesOf(disk[l])
  BY <1>2, <1>3, WholeNodes DEF IsFile, NodesOf, Within
<1>7. /\ counts' \in Seq(Nat) /\ Len(counts') = n
      /\ \A l \in 0..(n - 1) : counts'[l + 1] = NodesOf(disk[l])
  <2>1. \A k \in 1..n : k - 1 \in 0..(n - 1)
    BY <1>5
  <2>2. counts' = [k \in 1..n |-> NodesOf(disk[k - 1])]
    BY <1>1, <1>4
  <2>3. counts' \in [1..n -> Nat]
    BY <1>6, <2>1, <2>2
  <2>4. \A l \in 0..(n - 1) : l + 1 \in 1..n /\ (l + 1) - 1 = l
    BY <1>5
  <2>5. counts' \in Seq(Nat) /\ Len(counts') = n
    BY <1>5, <2>3
  <2> QED
    BY <2>2, <2>4, <2>5
<1>8. DiskShape'
  BY <1>1 DEF Consistent, DiskShape
<1>9. HandleShape'
  <2>1. \A l \in 0..(n - 1) : l \in DOMAIN disk' /\ counts'[l + 1] * NodeLen <= Len(disk'[l])
    BY <1>1, <1>2, <1>6, <1>7
  <2>2. ASSUME NEW l \in DOMAIN disk', l >= n PROVE FALSE
    <3>1. l \in 0..(n - 1)
      BY <1>1, <1>5
    <3> QED
      BY <1>5, <2>2, <3>1
  <2> QED
    BY <1>1, <1>7, <2>1, <2>2 DEF HandleShape
<1>10. CallShape'
  BY <1>1 DEF CallShape
<1>11. AckedShape'
  <2>1. AckedShape
    BY DEF Consistent
  <2>2. ASSUME NEW l \in Levels, NEW i \in DOMAIN acked[l]
        PROVE  /\ i \in Nat /\ l \in DOMAIN disk /\ Within(disk[l], i)
               /\ acked[l][i] = NodeIn(disk[l], i)
               /\ l < n /\ i < counts'[l + 1]
    <3>1. /\ i \in Nat /\ l \in DOMAIN disk /\ Within(disk[l], i)
          /\ acked[l][i] = NodeIn(disk[l], i)
      BY <2>1 DEF AckedShape
    <3>2. l \in 0..(n - 1)
      BY <1>5, <3>1
    <3>3. i < NodesOf(disk[l]) /\ counts'[l + 1] = NodesOf(disk[l])
      BY <1>6, <1>7, <3>1, <3>2
    <3> QED
      BY <1>5, <3>1, <3>2, <3>3
  <2> QED
    BY <1>1, <1>7, <2>1, <2>2 DEF AckedShape
<1> QED
  BY <1>8, <1>9, <1>10, <1>11 DEF Consistent

\* Opening a file adds an empty one or one that was empty.
LEMMA OpenLevelStep ==
  ASSUME Consistent, OpenLevel
  PROVE  /\ Consistent'
         /\ DOMAIN disk \subseteq DOMAIN disk'
         /\ \A l \in DOMAIN disk : disk'[l] = disk[l]
         /\ Len(counts) \in Nat /\ Len(counts') = Len(counts) + 1
         /\ counts'[Len(counts) + 1] = 0
         /\ \A l \in 0..(Len(counts) - 1) : counts'[l + 1] = counts[l + 1]
<1> DEFINE q == Len(counts)
<1>1. /\ pc = "Opening" /\ q <= call.level /\ disk' = Created(NextFile)
      /\ counts' = Append(counts, NodesOf(disk'[NextFile]))
      /\ pc' = pc /\ call' = call /\ written' = written /\ acked' = acked
  BY DEF OpenLevel
<1>2. call \in Calls /\ written = 0
  BY <1>1 DEF Consistent, CallShape
<1>3. counts \in Seq(Nat) /\ q \in Nat /\ q <= TopLevel /\ TopLevel \in Nat
  BY <1>1, <1>2, CallType, FileStoreAssumption DEF Consistent, HandleShape, Levels
<1>4. DiskShape /\ HandleShape /\ pc # "Closed"
  BY <1>1 DEF Consistent
<1>5. /\ \E n \in 0..(TopLevel + 1) : DOMAIN disk' = 0..(n - 1)
      /\ \A l \in DOMAIN disk' : IsFile(disk'[l])
      /\ DOMAIN disk \subseteq DOMAIN disk'
      /\ \A l \in DOMAIN disk : disk'[l] = disk[l]
      /\ q \in DOMAIN disk'
      /\ \A l \in DOMAIN disk' : l >= q => Len(disk'[l]) = 0
  BY <1>1, <1>3, <1>4, Creation
<1>6. NodesOf(disk'[NextFile]) = 0
  <2>1. Len(disk'[q]) = 0
    BY <1>3, <1>5
  <2> QED
    BY <2>1, WholeNodes DEF NodesOf, NextFile
<1>7. /\ counts' \in Seq(Nat) /\ Len(counts') = q + 1 /\ counts'[q + 1] = 0
      /\ \A l \in 0..(q - 1) : counts'[l + 1] = counts[l + 1]
  <2>1. counts' = Append(counts, 0)
    BY <1>1, <1>6
  <2> QED
    BY <1>3, <2>1
<1> HIDE DEF q
<1>8. DiskShape'
  BY <1>5 DEF DiskShape
<1>9. HandleShape'
  <2>1. ASSUME NEW l \in 0..q
        PROVE  l \in DOMAIN disk' /\ counts'[l + 1] * NodeLen <= Len(disk'[l])
    <3>1. CASE l = q
      <4>1. 0 * NodeLen = 0
        BY FileStoreAssumption
      <4> QED
        BY <1>3, <1>5, <1>7, <3>1, <4>1
    <3>2. CASE l # q
      <4>1. l \in 0..(q - 1)
        BY <1>3, <3>2
      <4>2. l \in DOMAIN disk /\ counts[l + 1] * NodeLen <= Len(disk[l])
        BY <1>4, <4>1 DEF HandleShape, q
      <4> QED
        BY <1>5, <1>7, <4>1, <4>2
    <3> QED
      BY <3>1, <3>2
  <2>2. \A l \in 0..(Len(counts') - 1) : l \in 0..q
    BY <1>3, <1>7
  <2>3. ASSUME NEW l \in DOMAIN disk', l >= Len(counts')
        PROVE  Len(disk'[l]) = 0
    <3>1. l \in Int
      BY <1>5
    <3> QED
      BY <1>3, <1>5, <1>7, <2>3, <3>1
  <2> QED
    BY <1>1, <1>4, <1>7, <2>1, <2>2, <2>3 DEF HandleShape
<1>10. CallShape'
  BY <1>1, <1>2 DEF CallShape
<1>11. AckedShape'
  <2>1. AckedShape
    BY DEF Consistent
  <2>2. ASSUME NEW l \in Levels, NEW i \in DOMAIN acked[l]
        PROVE  /\ i \in Nat
               /\ l \in DOMAIN disk'
               /\ Within(disk'[l], i)
               /\ acked[l][i] = NodeIn(disk'[l], i)
               /\ l < Len(counts') /\ i < counts'[l + 1]
    <3>1. /\ i \in Nat /\ l \in DOMAIN disk /\ Within(disk[l], i)
          /\ acked[l][i] = NodeIn(disk[l], i) /\ l < q /\ i < counts[l + 1]
      BY <1>4, <2>1 DEF AckedShape, q
    <3>2. l \in 0..(q - 1)
      BY <1>3, <3>1 DEF Levels
    <3> QED
      BY <1>3, <1>5, <1>7, <3>1, <3>2
  <2> QED
    BY <1>1, <2>1, <2>2 DEF AckedShape
<1> QED
  BY <1>3, <1>5, <1>7, <1>8, <1>9, <1>10, <1>11 DEF Consistent, q

\* A put that cannot open its next file may have created it.
LEMMA OpenLevelFailsStep ==
  ASSUME Consistent, OpenLevelFails
  PROVE  /\ Consistent'
         /\ DOMAIN disk \subseteq DOMAIN disk'
         /\ \A l \in DOMAIN disk : disk'[l] = disk[l]
<1>1. /\ pc = "Opening" /\ Len(counts) <= call.level /\ disk' \in {disk, Created(NextFile)}
      /\ pc' = "Ready" /\ counts' = counts /\ acked' = acked
  BY DEF OpenLevelFails
<1>2. call \in Calls
  BY <1>1 DEF Consistent, CallShape
<1>3. counts \in Seq(Nat) /\ Len(counts) <= TopLevel
  BY <1>1, <1>2, CallType, FileStoreAssumption DEF Consistent, HandleShape, Levels
<1>4. DiskShape /\ HandleShape /\ AckedShape /\ pc # "Closed"
  BY <1>1 DEF Consistent
<1>5. /\ \E n \in 0..(TopLevel + 1) : DOMAIN disk' = 0..(n - 1)
      /\ \A l \in DOMAIN disk' : IsFile(disk'[l])
      /\ DOMAIN disk \subseteq DOMAIN disk'
      /\ \A l \in DOMAIN disk : disk'[l] = disk[l]
      /\ \A l \in DOMAIN disk' : l >= Len(counts) => Len(disk'[l]) = 0
  <2>1. CASE disk' = disk
    BY <1>4, <2>1 DEF DiskShape, HandleShape
  <2>2. CASE disk' = Created(NextFile)
    BY <1>3, <1>4, <2>2, Creation
  <2> QED
    BY <1>1, <2>1, <2>2
<1>6. DiskShape'
  BY <1>5 DEF DiskShape
<1>7. HandleShape'
  BY <1>1, <1>4, <1>5 DEF HandleShape
<1>8. CallShape'
  BY <1>1 DEF CallShape
<1>9. AckedShape'
  BY <1>1, <1>4, <1>5 DEF AckedShape
<1> QED
  BY <1>5, <1>6, <1>7, <1>8, <1>9 DEF Consistent

\* A run that the count admits is about to be overwritten.
LEMMA AcceptStep ==
  ASSUME Consistent, Accept
  PROVE  Consistent'
<1>1. /\ pc = "Opening" /\ Len(counts) > call.level /\ call.start <= counts[call.level + 1]
      /\ pc' = "Writing" /\ disk' = disk /\ counts' = counts /\ call' = call
      /\ written' = written
      /\ acked' = [acked EXCEPT ![call.level] =
                     [i \in DOMAIN acked[call.level] \ RunIndices |-> acked[call.level][i]]]
  BY DEF Accept
<1>2. call \in Calls /\ written = 0
  BY <1>1 DEF Consistent, CallShape
<1>3. DiskShape'
  BY <1>1 DEF Consistent, DiskShape
<1>4. HandleShape'
  BY <1>1 DEF Consistent, HandleShape
<1>5. CallShape'
  <2>1. /\ call.level \in 0..(Len(counts) - 1) /\ counts \in Seq(Nat)
    BY <1>1, <1>2, CallType DEF Consistent, HandleShape
  <2>2. /\ call.level \in DOMAIN disk
        /\ counts[call.level + 1] * NodeLen <= Len(disk[call.level])
        /\ counts[call.level + 1] \in Nat
    <3>1. \A k \in 0..(Len(counts) - 1) :
            k \in DOMAIN disk /\ counts[k + 1] * NodeLen <= Len(disk[k])
      BY DEF Consistent, HandleShape
    <3>2. counts[call.level + 1] \in Nat
      BY <2>1
    <3> QED
      BY <2>1, <3>1, <3>2
  <2>3. Offset(call.start) <= counts[call.level + 1] * NodeLen
    <3> DEFINE s == call.start
               c == counts[call.level + 1]
    <3>1. s \in Nat /\ c \in Nat /\ s <= c /\ NodeLen \in Nat
      BY <1>1, <1>2, <2>2, CallType, FileStoreAssumption
    <3> HIDE DEF s, c
    <3>2. s * NodeLen <= c * NodeLen
      BY <3>1, Products
    <3> QED
      BY <3>2 DEF Offset, s, c
  <2>4. Len(disk[call.level]) \in Nat
    BY <2>2 DEF Consistent, DiskShape, IsFile
  <2>5. counts[call.level + 1] * NodeLen \in Nat
    BY <2>2, Products, FileStoreAssumption
  <2>6. Offset(call.start) + 0 <= Len(disk[call.level])
    BY <1>2, <2>2, <2>3, <2>4, <2>5, BytesType
  <2>7. 0 \in 0..Len(Bytes) /\ 1..0 = {} /\ Bytes' = Bytes
    BY <1>1, <1>2, BytesType DEF Bytes
  <2>8. Offset(call.start)' = Offset(call.start)
    BY <1>1 DEF Offset
  <2> QED
    BY <1>1, <1>2, <2>6, <2>7, <2>8 DEF CallShape
<1>6. AckedShape'
  <2>1. AckedShape /\ RunIndices' = RunIndices /\ pc # "Closed" /\ call.level \in Levels
    BY <1>1, <1>2, CallType DEF Consistent, RunIndices
  <2>2. /\ DOMAIN acked' = Levels
        /\ \A l \in Levels : \A i \in DOMAIN acked'[l] :
             /\ i \in DOMAIN acked[l] /\ acked'[l][i] = acked[l][i]
             /\ l = call.level => i \notin RunIndices
    BY <1>1, <2>1 DEF AckedShape
  <2> QED
    BY <1>1, <2>1, <2>2 DEF AckedShape
<1> QED
  BY <1>3, <1>4, <1>5, <1>6 DEF Consistent

\* What is known of the file being written.
LEMMA BeingWritten ==
  ASSUME Consistent, pc = "Writing"
  PROVE  /\ call \in Calls
         /\ call.level \in Levels
         /\ call.level \in 0..(Len(counts) - 1)
         /\ counts \in Seq(Nat)
         /\ counts[call.level + 1] \in Nat
         /\ call.start <= counts[call.level + 1]
         /\ call.level \in DOMAIN disk
         /\ IsFile(disk[call.level])
         /\ written \in 0..Len(Bytes) /\ written \in Nat
         /\ Offset(call.start) \in Nat
         /\ Offset(call.start) + written <= Len(disk[call.level])
         /\ \A u \in 1..written : disk[call.level][Offset(call.start) + u] = Bytes[u]
<1>1. /\ call \in Calls /\ call.level < Len(counts)
      /\ call.start <= counts[call.level + 1]
      /\ written \in 0..Len(Bytes)
      /\ Offset(call.start) + written <= Len(disk[call.level])
      /\ \A u \in 1..written : disk[call.level][Offset(call.start) + u] = Bytes[u]
  BY DEF Consistent, CallShape
<1>2. call.level \in Levels /\ call.level \in Nat
  BY <1>1, CallType
<1>3. counts \in Seq(Nat) /\ call.level \in 0..(Len(counts) - 1)
  BY <1>1, <1>2 DEF Consistent, HandleShape
<1>4. call.level \in DOMAIN disk /\ counts[call.level + 1] \in Nat
  BY <1>2, <1>3 DEF Consistent, HandleShape
<1>5. IsFile(disk[call.level])
  BY <1>4 DEF Consistent, DiskShape
<1>6. written \in Nat /\ Offset(call.start) \in Nat
  BY <1>1, BytesType
<1> QED
  BY <1>1, <1>2, <1>3, <1>4, <1>5, <1>6

\* The file takes some more of the bytes of the run.
LEMMA WriteStep ==
  ASSUME Consistent, Write
  PROVE  Consistent'
<1> DEFINE l == call.level
           o == Offset(call.start)
<1>1. PICK upto \in (written + 1)..Len(Bytes) :
        /\ disk' = [disk EXCEPT ![l] =
             WriteAt(disk[l], o + written, SubSeq(Bytes, written + 1, upto))]
        /\ written' = upto
  BY DEF Write
<1>2. /\ pc = "Writing" /\ pc' = pc /\ counts' = counts /\ call' = call /\ acked' = acked
  BY DEF Write
<1>3. /\ call \in Calls
      /\ l \in Levels /\ l \in 0..(Len(counts) - 1) /\ counts \in Seq(Nat)
      /\ l \in DOMAIN disk /\ IsFile(disk[l])
      /\ written \in Nat /\ o \in Nat /\ o + written <= Len(disk[l])
      /\ \A u \in 1..written : disk[l][o + u] = Bytes[u]
  BY <1>2, BeingWritten
<1>4. Len(Bytes) \in Nat /\ DOMAIN Bytes = 1..Len(Bytes)
  BY <1>3, BytesType
<1> DEFINE sub == SubSeq(Bytes, written + 1, upto)
           at == o + written
           n == upto - written
           new == disk'[l]
<1>5. /\ upto \in Nat /\ n \in Nat /\ n > 0 /\ at \in Nat /\ at + n = o + upto
      /\ upto <= Len(Bytes)
  BY <1>3, <1>4
<1>6. Len(sub) = n /\ \A v \in 1..n : sub[v] = Bytes[written + v]
  <2>1. sub = SubSeq(Bytes, written + 1, written + n)
    <3>1. written + n = upto
      BY <1>3, <1>5
    <3> HIDE DEF n
    <3> QED
      BY <3>1, Zenon
  <2>2. n \in Nat /\ written + n <= Len(Bytes)
    BY <1>3, <1>4, <1>5
  <2> HIDE DEF sub, n
  <2> QED
    BY <1>3, <1>4, <2>1, <2>2, PartOf
<1>7. /\ DOMAIN disk' = DOMAIN disk
      /\ new = WriteAt(disk[l], at, sub)
      /\ \A k \in DOMAIN disk : k # l => disk'[k] = disk[k]
  BY <1>1, <1>3
<1> HIDE DEF l, o, sub, at, n, new
<1>8. /\ IsFile(new) /\ Len(disk[l]) <= Len(new) /\ at + n <= Len(new)
      /\ \A u \in 1..Len(new) :
           new[u] = IF u > at /\ u <= at + n THEN sub[u - at]
                    ELSE IF u <= Len(disk[l]) THEN disk[l][u] ELSE <<"zero", 0>>
  <2> DEFINE f == disk[l]
  <2>1. IsFile(f) /\ at \in Nat /\ Len(sub) \in Nat /\ Len(sub) = n
    BY <1>3, <1>5, <1>6
  <2>2. new = WriteAt(f, at, sub)
    BY <1>7
  <2> HIDE DEF f
  <2>3. /\ IsFile(WriteAt(f, at, sub)) /\ Len(f) <= Len(WriteAt(f, at, sub))
        /\ at + Len(sub) <= Len(WriteAt(f, at, sub))
        /\ \A u \in 1..Len(WriteAt(f, at, sub)) :
             WriteAt(f, at, sub)[u] = IF u > at /\ u <= at + Len(sub) THEN sub[u - at]
                                      ELSE IF u <= Len(f) THEN f[u] ELSE <<"zero", 0>>
    BY <2>1, WriteAtType
  <2> QED
    BY <2>1, <2>2, <2>3 DEF f
<1>9. \A k \in DOMAIN disk : IsFile(disk'[k]) /\ Len(disk[k]) <= Len(disk'[k])
  <2>1. ASSUME NEW k \in DOMAIN disk
        PROVE  IsFile(disk'[k]) /\ Len(disk[k]) <= Len(disk'[k])
    <3>1. CASE k = l
      BY <1>8, <3>1 DEF new
    <3>2. CASE k # l
      <4>1. IsFile(disk[k])
        BY DEF Consistent, DiskShape
      <4> QED
        BY <1>7, <3>2, <4>1 DEF IsFile
    <3> QED
      BY <3>1, <3>2
  <2> QED
    BY <2>1
<1>10. DiskShape'
  BY <1>7, <1>9 DEF Consistent, DiskShape
<1>11. HandleShape'
  <2>1. HandleShape /\ DiskShape
    BY DEF Consistent
  <2>2. ASSUME NEW k \in 0..(Len(counts) - 1)
        PROVE  k \in DOMAIN disk' /\ counts[k + 1] * NodeLen <= Len(disk'[k])
    <3>1. /\ k \in DOMAIN disk /\ counts[k + 1] * NodeLen <= Len(disk[k])
          /\ counts[k + 1] \in Nat
      BY <1>3, <2>1 DEF HandleShape
    <3>2. Len(disk[k]) \in Nat /\ Len(disk'[k]) \in Nat /\ counts[k + 1] * NodeLen \in Nat
      BY <1>9, <2>1, <3>1, Products, FileStoreAssumption DEF DiskShape, IsFile
    <3> QED
      BY <1>7, <1>9, <3>1, <3>2
  <2>3. ASSUME NEW k \in DOMAIN disk', k >= Len(counts)
        PROVE  Len(disk'[k]) = 0
    <3>1. k # l
      BY <1>3, <2>3
    <3> QED
      BY <1>2, <1>7, <2>1, <2>3, <3>1 DEF HandleShape
  <2> QED
    BY <1>2, <2>1, <2>2, <2>3 DEF HandleShape
<1>12. CallShape'
  <2>1. ASSUME NEW u \in 1..upto PROVE new[o + u] = Bytes[u]
    <3>1. o + u \in 1..Len(new) /\ u \in Nat /\ u >= 1 /\ u <= upto /\ Len(new) \in Nat
      BY <1>3, <1>5, <1>8 DEF IsFile
    <3>2. CASE u <= written
      <4>1. ~ (o + u > at) /\ o + u <= Len(disk[l]) /\ u \in 1..written
        BY <1>3, <3>1, <3>2 DEF at, IsFile
      <4> QED
        BY <1>3, <1>8, <3>1, <4>1
    <3>3. CASE u > written
      <4>1. /\ o + u > at /\ o + u <= at + n
            /\ (o + u) - at = u - written /\ u - written \in 1..n
            /\ written + (u - written) = u
        BY <1>3, <1>5, <3>1, <3>3 DEF at, n
      <4>2. new[o + u] = sub[(o + u) - at]
        BY <1>8, <3>1, <4>1
      <4>3. sub[u - written] = Bytes[u]
        BY <1>6, <4>1
      <4> QED
        BY <4>1, <4>2, <4>3
    <3> QED
      BY <1>3, <3>1, <3>2, <3>3
  <2>2. upto \in 0..Len(Bytes) /\ o + upto <= Len(new)
    BY <1>4, <1>5, <1>8
  <2>3. Bytes' = Bytes /\ Offset(call.start)' = Offset(call.start)
    BY <1>2 DEF Bytes, Offset
  <2>4. CallShape
    BY DEF Consistent
  <2> QED
    BY <1>1, <1>2, <2>1, <2>2, <2>3, <2>4 DEF CallShape, l, o, new
<1>13. AckedShape'
  <2>1. AckedShape /\ RunIndices' = RunIndices
    BY <1>2 DEF Consistent, RunIndices
  <2>2. ASSUME NEW k \in Levels, NEW i \in DOMAIN acked[k]
        PROVE  /\ k \in DOMAIN disk'
               /\ Within(disk'[k], i)
               /\ acked[k][i] = NodeIn(disk'[k], i)
    <3>1. /\ i \in Nat /\ k \in DOMAIN disk /\ Within(disk[k], i)
          /\ acked[k][i] = NodeIn(disk[k], i)
      BY <2>1 DEF AckedShape
    <3>2. CASE k = l
      <4> DEFINE r == Len(call.run)
      <4>1. i \notin call.start..(call.start + r - 1)
        BY <1>2, <2>1, <3>2 DEF AckedShape, RunIndices, l
      <4>2. /\ call.start \in Nat /\ r \in Nat
            /\ o + Len(Bytes) = (call.start + r) * NodeLen
            /\ o = call.start * NodeLen
        BY <1>3, CallType, BytesType DEF o, Offset
      <4> HIDE DEF r
      <4>3. call.start * NodeLen <= at /\ at + n <= (call.start + r) * NodeLen
        <5>1. o <= at /\ at + n <= o + Len(Bytes)
          BY <1>3, <1>4, <1>5 DEF at
        <5> QED
          BY <4>2, <5>1
      <4> DEFINE f == disk[l]
                 s == call.start
      <4>4. /\ IsFile(f) /\ at \in Nat /\ n \in Nat /\ Len(sub) = n
            /\ s \in Nat /\ r \in Nat /\ WithinRun(at, Len(sub), s, r)
            /\ i \in Nat /\ i \notin s..(s + r - 1) /\ Within(f, i)
        BY <1>3, <1>5, <1>6, <3>1, <3>2, <4>1, <4>2, <4>3 DEF WithinRun
      <4> HIDE DEF f, s
      <4>5. Within(WriteAt(f, at, sub), i) /\ NodeIn(WriteAt(f, at, sub), i) = NodeIn(f, i)
        BY <4>4, Outside
      <4> QED
        BY <1>7, <3>1, <3>2, <4>5 DEF new, f
    <3>3. CASE k # l
      BY <1>7, <3>1, <3>3
    <3> QED
      BY <3>2, <3>3
  <2> QED
    BY <1>2, <2>1, <2>2 DEF AckedShape
<1> QED
  BY <1>10, <1>11, <1>12, <1>13 DEF Consistent

\* The count after a run.
LEMMA CountBounds ==
  ASSUME NEW c \in Nat, NEW e \in Nat
  PROVE  /\ CountAfter(c, e) \in {c, e}
         /\ c <= CountAfter(c, e) /\ e <= CountAfter(c, e)
BY DEF CountAfter

\* The counts of a handle, one of them changed.
LEMMA CountChanged ==
  ASSUME NEW cs \in Seq(Nat), NEW k \in 0..(Len(cs) - 1), NEW c \in Nat,
         NEW ds, ds = [cs EXCEPT ![k + 1] = c]
  PROVE  /\ ds \in Seq(Nat)
         /\ Len(ds) = Len(cs)
         /\ \A j \in 0..(Len(cs) - 1) : ds[j + 1] = IF j = k THEN c ELSE cs[j + 1]
OBVIOUS

\* A put that has written its run counts it.
LEMMA PutDoneStep ==
  ASSUME Consistent, PutDone
  PROVE  Consistent'
<1> DEFINE l == call.level
           r == Len(call.run)
           c == counts[l + 1]
           e == call.start + r
           file == disk[l]
<1>1. /\ pc = "Writing" /\ written = Len(Bytes) /\ pc' = "Ready" /\ disk' = disk
      /\ counts' = [counts EXCEPT ![l + 1] = CountAfter(c, e)]
      /\ acked' = [acked EXCEPT ![l] =
           [i \in DOMAIN acked[l] \cup RunIndices |->
              IF i \in RunIndices THEN AsBytes(<<call.run[i - call.start + 1]>>)
              ELSE acked[l][i]]]
  BY DEF PutDone
<1>2. /\ call \in Calls
      /\ l \in Levels /\ l \in 0..(Len(counts) - 1) /\ counts \in Seq(Nat)
      /\ c \in Nat /\ l \in DOMAIN disk /\ IsFile(file)
      /\ Offset(call.start) + Len(Bytes) <= Len(file)
      /\ \A u \in 1..Len(Bytes) : file[Offset(call.start) + u] = Bytes[u]
  BY <1>1, BeingWritten
<1>3. call.start \in Nat /\ r \in Nat /\ e \in Nat
  BY <1>2, CallType
<1> HIDE DEF c
<1>4. /\ CountAfter(c, e) \in {c, e} /\ CountAfter(c, e) \in Nat
      /\ c <= CountAfter(c, e) /\ e <= CountAfter(c, e)
  BY <1>2, <1>3, CountBounds
<1>5. /\ counts' \in Seq(Nat) /\ Len(counts') = Len(counts)
      /\ \A k \in 0..(Len(counts) - 1) :
           counts'[k + 1] = IF k = l THEN CountAfter(c, e) ELSE counts[k + 1]
  <2> DEFINE d == CountAfter(c, e)
             k == call.level
  <2>1. /\ counts \in Seq(Nat) /\ k \in 0..(Len(counts) - 1) /\ d \in Nat
        /\ counts' = [counts EXCEPT ![k + 1] = d]
    BY <1>1, <1>2, <1>4
  <2> HIDE DEF d, k
  <2>2. /\ counts' \in Seq(Nat) /\ Len(counts') = Len(counts)
        /\ \A j \in 0..(Len(counts) - 1) : counts'[j + 1] = IF j = k THEN d ELSE counts[j + 1]
    BY <2>1, CountChanged
  <2> QED
    BY <2>2, Zenon DEF d, k
<1>6. DiskShape /\ HandleShape /\ AckedShape
  BY DEF Consistent
<1> HIDE DEF l, file, r, e
<1>7. CountAfter(c, e) * NodeLen <= Len(file)
  <2>1. CASE CountAfter(c, e) = c
    BY <1>2, <1>6, <2>1 DEF HandleShape, c, file
  <2>2. CASE CountAfter(c, e) = e
    <3>1. e * NodeLen = Offset(call.start) + Len(Bytes)
      BY <1>2, BytesType DEF e, r
    <3> QED
      BY <1>2, <2>2, <3>1
  <2> QED
    BY <1>4, <2>1, <2>2
<1>8. DiskShape'
  BY <1>1, <1>6 DEF DiskShape
<1>9. HandleShape'
  BY <1>1, <1>5, <1>6, <1>7 DEF HandleShape, file
<1>10. CallShape'
  BY <1>1 DEF CallShape
<1>11. AckedShape'
  <2>1. /\ DOMAIN acked' = Levels
        /\ \A k \in Levels : k # l => acked'[k] = acked[k]
        /\ acked'[l] = [i \in DOMAIN acked[l] \cup RunIndices |->
              IF i \in RunIndices THEN AsBytes(<<call.run[i - call.start + 1]>>)
              ELSE acked[l][i]]
    BY <1>1, <1>2, <1>6 DEF AckedShape
  <2>2. ASSUME NEW i \in RunIndices
        PROVE  /\ i \in Nat /\ Within(file, i) /\ i < e
               /\ NodeIn(file, i) = AsBytes(<<call.run[i - call.start + 1]>>)
    <3>1. i < e
      BY <1>3 DEF RunIndices, e, r
    <3>2. /\ i \in Nat /\ Within(file, i)
          /\ NodeIn(file, i) = AsBytes(<<call.run[i - call.start + 1]>>)
      BY <1>2, RunInFile
    <3> QED
      BY <3>1, <3>2
  <2>3. ASSUME NEW k \in Levels, NEW i \in DOMAIN acked[k]
        PROVE  /\ i \in Nat /\ k \in DOMAIN disk /\ Within(disk[k], i)
               /\ acked[k][i] = NodeIn(disk[k], i)
               /\ k \in 0..(Len(counts) - 1) /\ i < counts'[k + 1]
    <3>1. /\ i \in Nat /\ k \in DOMAIN disk /\ Within(disk[k], i)
          /\ acked[k][i] = NodeIn(disk[k], i) /\ k < Len(counts) /\ i < counts[k + 1]
      BY <1>1, <1>6 DEF AckedShape
    <3>2. k \in 0..(Len(counts) - 1) /\ counts[k + 1] \in Nat
      BY <1>2, <3>1 DEF Levels
    <3>3. i < counts'[k + 1]
      <4>1. CASE k = l
        <5>1. counts'[k + 1] = CountAfter(c, e)
          BY <1>5, <3>2, <4>1
        <5>2. i < c
          BY <3>1, <4>1 DEF c
        <5> QED
          BY <1>2, <1>4, <3>1, <5>1, <5>2
      <4>2. CASE k # l
        BY <1>5, <3>1, <3>2, <4>2
      <4> QED
        BY <4>1, <4>2
    <3> QED
      BY <3>1, <3>2, <3>3
  <2>4. ASSUME NEW i \in DOMAIN acked'[l]
        PROVE  /\ i \in Nat /\ Within(file, i) /\ acked'[l][i] = NodeIn(file, i)
               /\ i < counts'[l + 1]
    <3>1. CASE i \in RunIndices
      <4>1. i < CountAfter(c, e)
        <5>1. i \in Nat /\ i < e
          BY <2>2, <3>1
        <5> QED
          BY <1>3, <1>4, <5>1
      <4> QED
        BY <1>2, <1>5, <2>1, <2>2, <3>1, <4>1
    <3>2. CASE i \notin RunIndices
      <4>1. i \in DOMAIN acked[l] /\ acked'[l][i] = acked[l][i]
        BY <2>1, <3>2
      <4> QED
        BY <1>2, <2>3, <4>1 DEF file
    <3> QED
      BY <3>1, <3>2
  <2>5. ASSUME NEW k \in Levels, NEW i \in DOMAIN acked'[k]
        PROVE  /\ i \in Nat /\ k \in DOMAIN disk /\ Within(disk[k], i)
               /\ acked'[k][i] = NodeIn(disk[k], i)
               /\ k < Len(counts) /\ i < counts'[k + 1]
    <3>1. CASE k = l
      <4>1. l < Len(counts)
        BY <1>2
      <4> QED
        BY <1>2, <2>4, <3>1, <4>1 DEF file
    <3>2. CASE k # l
      <4>1. acked'[k] = acked[k]
        BY <2>1, <3>2
      <4> QED
        BY <1>2, <2>3, <4>1
    <3> QED
      BY <3>1, <3>2
  <2>6. disk' = disk /\ pc' = "Ready" /\ Len(counts') = Len(counts)
    BY <1>1, <1>5
  <2>7. DOMAIN acked' = Levels
    BY <2>1
  <2> QED
    BY <2>5, <2>6, <2>7 DEF AckedShape
<1> QED
  BY <1>8, <1>9, <1>10, <1>11 DEF Consistent

\* Every step preserves the invariant.
LEMMA ConsistentStep == Consistent /\ [Next]_vars => Consistent'
<1> SUFFICES ASSUME Consistent, [Next]_vars PROVE Consistent'
  OBVIOUS
<1>1. CASE New
  BY <1>1, NewStep
<1>2. ASSUME NEW c \in Calls, Put(c) PROVE Consistent'
  <2>1. /\ pc = "Ready" /\ pc' = "Opening" /\ call' = c /\ written' = 0
        /\ disk' = disk /\ counts' = counts /\ acked' = acked
    BY <1>2 DEF Put
  <2> QED
    BY <2>1 DEF Consistent, DiskShape, HandleShape, CallShape, AckedShape
<1>3. CASE OpenLevel
  BY <1>3, OpenLevelStep
<1>4. CASE OpenLevelFails
  BY <1>4, OpenLevelFailsStep
<1>5. CASE Refuse
  <2>1. /\ pc = "Opening" /\ pc' = "Ready"
        /\ disk' = disk /\ counts' = counts /\ acked' = acked
    BY <1>5 DEF Refuse
  <2> QED
    BY <2>1 DEF Consistent, DiskShape, HandleShape, CallShape, AckedShape
<1>6. CASE Accept
  BY <1>6, AcceptStep
<1>7. CASE Write
  BY <1>7, WriteStep
<1>8. CASE WriteFails
  <2>1. /\ pc = "Writing" /\ pc' = "Ready"
        /\ disk' = disk /\ counts' = counts /\ acked' = acked
    BY <1>8 DEF WriteFails
  <2> QED
    BY <2>1 DEF Consistent, DiskShape, HandleShape, CallShape, AckedShape
<1>9. CASE PutDone
  BY <1>9, PutDoneStep
<1>10. CASE Crash
  <2>1. /\ pc' = "Closed" /\ counts' = <<>> /\ disk' = disk /\ acked' = acked
    BY <1>10 DEF Crash
  <2>2. <<>> \in Seq(Nat) /\ Len(<<>>) = 0 /\ 0..(0 - 1) = {}
    OBVIOUS
  <2> QED
    BY <2>1, <2>2 DEF Consistent, DiskShape, HandleShape, CallShape, AckedShape
<1>11. CASE UNCHANGED vars
  <2>1. /\ Bytes' = Bytes /\ RunIndices' = RunIndices
        /\ Offset(call.start)' = Offset(call.start)
    BY <1>11 DEF vars, Bytes, RunIndices, Offset
  <2> QED
    BY <1>11, <2>1 DEF vars, Consistent, DiskShape, HandleShape, CallShape, AckedShape
<1> QED
  BY <1>1, <1>2, <1>3, <1>4, <1>5, <1>6, <1>7, <1>8, <1>9, <1>10, <1>11 DEF Next

\* The invariant, in every execution.
THEOREM ConsistentInvariant == Spec => []Consistent
<1> QED
  BY ConsistentInit, ConsistentStep, PTL DEF Spec

\* However calls fail and the process dies, a handle never counts a node that
\* is not wholly in its file.
THEOREM ReadsAlwaysBacked == Spec => []ReadsBacked
<1>1. Consistent => ReadsBacked
  BY DEF Consistent, HandleShape, ReadsBacked
<1> QED
  BY <1>1, ConsistentInvariant, PTL

\* What a put acknowledged is read back by every handle, whatever fails or dies
\* later, until another put is accepted for its position.
THEOREM AckedAlwaysSurvives == Spec => []AckedSurvives
<1>1. Consistent => AckedSurvives
  <2> SUFFICES ASSUME Consistent, pc # "Closed", NEW l \in Levels, NEW i \in DOMAIN acked[l]
               PROVE  Get(l, i) = acked[l][i]
    BY DEF AckedSurvives
  <2>1. /\ i \in Nat /\ acked[l][i] = NodeIn(disk[l], i)
        /\ l < Len(counts) /\ i < counts[l + 1]
    BY DEF Consistent, AckedShape
  <2>2. counts \in Seq(Nat) /\ l \in Nat
    BY FileStoreAssumption DEF Consistent, HandleShape, Levels
  <2>3. counts[l + 1] \in Nat /\ Len(counts) \in Nat
    BY <2>1, <2>2
  <2>4. ~ (l >= Len(counts) \/ i >= counts[l + 1])
    BY <2>1, <2>2, <2>3
  <2> QED
    BY <2>1, <2>4 DEF Get
<1> QED
  BY <1>1, ConsistentInvariant, PTL

-----------------------------------------------------------------------------
(* The promise is kept. *)

\* A step after which every caller reads what it read before.
SameView ==
  \A l \in Levels :
    /\ Count(l)' = Count(l)
    /\ \A i \in 0..(Count(l) - 1) : NodeIn(File(l), i)' = NodeIn(File(l), i)

\* Such a step does nothing as far as the trait is concerned.
LEMMA SameViewIsStutter ==
  ASSUME SameView
  PROVE  UNCHANGED <<[l \in Levels |-> Seen(l)], Count(0)>>
<1>1. ASSUME NEW l \in Levels PROVE Seen(l)' = Seen(l)
  <2>1. /\ Count(l)' = Count(l)
        /\ \A i \in 0..(Count(l) - 1) : NodeIn(File(l), i)' = NodeIn(File(l), i)
    BY DEF SameView
  <2>2. Seen(l)' = [i \in 0..(Count(l)' - 1) |-> NodeIn(File(l), i)']
    BY DEF Seen
  <2> QED
    BY <2>1, <2>2 DEF Seen
<1>2. 0 \in Levels
  BY FileStoreAssumption DEF Levels
<1>3. Count(0)' = Count(0)
  BY <1>2 DEF SameView
<1> QED
  BY <1>1, <1>3

\* Outside a write a caller sees the files below the counts.
LEMMA View ==
  ASSUME HandleShape, NEW l \in Levels
  PROVE  /\ l \in Nat
         /\ pc # "Writing" => File(l) = disk[l]
         /\ l # call.level => File(l) = disk[l]
         /\ pc # "Writing" => Count(l) = IF l < Len(counts) THEN counts[l + 1] ELSE 0
         /\ l # call.level => Count(l) = IF l < Len(counts) THEN counts[l + 1] ELSE 0
         /\ l < Len(counts) => /\ l \in DOMAIN disk /\ counts[l + 1] \in Nat
                               /\ l \in 0..(Len(counts) - 1)
                               /\ counts[l + 1] * NodeLen <= Len(disk[l])
<1>1. l \in Nat /\ Len(counts) \in Nat /\ counts \in Seq(Nat)
  BY FileStoreAssumption DEF Levels, HandleShape
<1>2. Count(l) = IF l >= Len(counts) THEN 0
                 ELSE IF pc = "Writing" /\ l = call.level
                 THEN CountAfter(counts[l + 1], call.start + Len(call.run)) ELSE counts[l + 1]
  BY DEF Count
<1>3. File(l) = IF pc = "Writing" /\ l = call.level
                THEN WriteAt(disk[l], Offset(call.start), Bytes) ELSE disk[l]
  BY DEF File
<1>4. l < Len(counts) => /\ l \in DOMAIN disk /\ counts[l + 1] \in Nat
                         /\ l \in 0..(Len(counts) - 1)
                         /\ counts[l + 1] * NodeLen <= Len(disk[l])
  <2>1. l < Len(counts) => l \in 0..(Len(counts) - 1) /\ l + 1 \in 1..Len(counts)
    BY <1>1
  <2> QED
    BY <1>1, <2>1 DEF HandleShape
<1> QED
  BY <1>1, <1>2, <1>3, <1>4

\* During a write a caller sees the run as written and counted.
LEMMA WritingView ==
  ASSUME pc = "Writing", call.level < Len(counts), call.level \in Nat, counts \in Seq(Nat)
  PROVE  /\ File(call.level) = WriteAt(disk[call.level], Offset(call.start), Bytes)
         /\ Count(call.level) =
              CountAfter(counts[call.level + 1], call.start + Len(call.run))
<1>1. ~ (call.level >= Len(counts))
  OBVIOUS
<1> QED
  BY <1>1 DEF File, Count

\* Writing a run again over part of itself.
LEMMA WriteTwice ==
  ASSUME NEW file, IsFile(file), NEW o \in Nat, NEW w \in Nat,
         NEW sub, NEW bytes, Len(sub) \in Nat, Len(bytes) \in Nat, w + Len(sub) <= Len(bytes)
  PROVE  WriteAt(WriteAt(file, o + w, sub), o, bytes) = WriteAt(file, o, bytes)
<1> DEFINE at == o + w
           f == WriteAt(file, at, sub)
           k == Len(sub)
           m == Len(bytes)
           one == IF o + m > Len(file) THEN o + m ELSE Len(file)
           two == IF o + m > Len(f) THEN o + m ELSE Len(f)
<1>1. /\ at \in Nat /\ k \in Nat /\ m \in Nat /\ Len(file) \in Nat
      /\ at = o + w /\ at + k <= o + m
  BY DEF IsFile
<1> HIDE DEF at
<1>2. /\ IsFile(f) /\ Len(file) <= Len(f) /\ Len(f) \in {Len(file), at + k}
      /\ \A u \in 1..Len(f) :
           f[u] = IF u > at /\ u <= at + k THEN sub[u - at]
                  ELSE IF u <= Len(file) THEN file[u] ELSE <<"zero", 0>>
  BY <1>1, WriteAtType
<1> HIDE DEF f, k, m
<1>3. /\ WriteAt(file, o, bytes) = [u \in 1..one |->
           IF u > o /\ u <= o + m THEN bytes[u - o]
           ELSE IF u <= Len(file) THEN file[u] ELSE <<"zero", 0>>]
      /\ WriteAt(f, o, bytes) = [u \in 1..two |->
           IF u > o /\ u <= o + m THEN bytes[u - o]
           ELSE IF u <= Len(f) THEN f[u] ELSE <<"zero", 0>>]
  BY DEF WriteAt, m
<1>4. Len(f) \in Nat /\ Len(file) <= Len(f) /\ (Len(f) = Len(file) \/ Len(f) = at + k)
  BY <1>2 DEF IsFile
<1>5. one = two /\ one \in Nat
  BY <1>1, <1>4
<1>6. ASSUME NEW u \in 1..one, ~ (u > o /\ u <= o + m)
      PROVE  (IF u <= Len(f) THEN f[u] ELSE <<"zero", 0>>)
               = (IF u <= Len(file) THEN file[u] ELSE <<"zero", 0>>)
  <2>1. u \in Nat /\ u >= 1 /\ ~ (u > at /\ u <= at + k)
    BY <1>1, <1>5, <1>6
  <2>2. CASE u <= Len(f)
    <3>1. u \in 1..Len(f)
      BY <1>4, <2>1, <2>2
    <3> QED
      BY <1>2, <2>1, <2>2, <3>1
  <2>3. CASE ~ (u <= Len(f))
    <3>1. ~ (u <= Len(file))
      BY <1>1, <1>4, <2>1, <2>3
    <3> QED
      BY <2>3, <3>1
  <2> QED
    BY <2>2, <2>3
<1> HIDE DEF one, two
<1>7. WriteAt(f, o, bytes) = WriteAt(file, o, bytes)
  BY <1>3, <1>5, <1>6
<1> QED
  BY <1>7 DEF f, at

\* A file that has the bytes of a run already.
LEMMA WrittenAlready ==
  ASSUME NEW file, IsFile(file), NEW o, NEW bytes, Holds(file, o, bytes),
         NEW i \in Nat, Within(file, i)
  PROVE  NodeIn(WriteAt(file, o, bytes), i) = NodeIn(file, i)
<1> DEFINE f == WriteAt(file, o, bytes)
           m == Len(bytes)
<1>0. /\ o \in Nat /\ Len(bytes) \in Nat /\ o + Len(bytes) <= Len(file)
      /\ \A u \in 1..Len(bytes) : file[o + u] = bytes[u]
  BY DEF Holds
<1>1. /\ IsFile(f) /\ Len(f) = Len(file) /\ Len(file) \in Nat
      /\ \A u \in 1..Len(f) :
           f[u] = IF u > o /\ u <= o + m THEN bytes[u - o]
                  ELSE IF u <= Len(file) THEN file[u] ELSE <<"zero", 0>>
  <2>1. /\ IsFile(f) /\ Len(file) <= Len(f) /\ Len(f) \in {Len(file), o + m}
        /\ \A u \in 1..Len(f) :
             f[u] = IF u > o /\ u <= o + m THEN bytes[u - o]
                    ELSE IF u <= Len(file) THEN file[u] ELSE <<"zero", 0>>
    BY <1>0, WriteAtType
  <2> HIDE DEF f, m
  <2>2. Len(f) \in Nat /\ Len(file) \in Nat /\ Len(f) = Len(file)
    <3>1. Len(f) \in Nat /\ Len(file) \in Nat /\ m \in Nat /\ o + m <= Len(file)
      BY <1>0, <2>1 DEF IsFile, m
    <3>2. Len(file) <= Len(f) /\ (Len(f) = Len(file) \/ Len(f) = o + m)
      BY <2>1
    <3> QED
      BY <3>1, <3>2
  <2> QED
    BY <2>1, <2>2
<1> HIDE DEF f
<1>2. ASSUME NEW v \in 1..Len(file) PROVE f[v] = file[v]
  <2>1. v \in Nat /\ v >= 1 /\ v <= Len(file) /\ v \in 1..Len(f) /\ m \in Nat
    BY <1>0, <1>1
  <2>2. CASE v > o /\ v <= o + m
    <3>1. v - o \in 1..m /\ o + (v - o) = v
      BY <1>0, <2>1, <2>2
    <3>2. f[v] = bytes[v - o]
      BY <1>1, <2>1, <2>2
    <3>3. file[o + (v - o)] = bytes[v - o]
      BY <1>0, <3>1
    <3> QED
      BY <3>1, <3>2, <3>3
  <2>3. CASE ~ (v > o /\ v <= o + m)
    BY <1>1, <2>1, <2>3
  <2> QED
    BY <2>2, <2>3
<1>3. Within(f, i)
  BY <1>1 DEF Within
<1>4. ASSUME NEW u \in 1..NodeLen PROVE f[i * NodeLen + u] = file[i * NodeLen + u]
  <2> DEFINE w == i * NodeLen
  <2>1. w \in Nat /\ NodeLen \in Nat /\ w + NodeLen <= Len(file)
    BY Products, FileStoreAssumption DEF Within
  <2> HIDE DEF w
  <2>2. w + u \in 1..Len(file)
    BY <1>1, <2>1
  <2> QED
    BY <1>2, <2>2 DEF w
<1>5. NodeIn(f, i) = NodeIn(file, i)
  BY <1>1, <1>3, <1>4, SameNode
<1> QED
  BY <1>5 DEF f

\* A node outside the run is the same in the file with the run written.
LEMMA OutsideRun ==
  ASSUME call \in Calls, NEW file, IsFile(file), NEW i \in Nat, i \notin RunIndices,
         Within(file, i)
  PROVE  NodeIn(WriteAt(file, Offset(call.start), Bytes), i) = NodeIn(file, i)
<1> DEFINE at == Offset(call.start)
           s == call.start
           r == Len(call.run)
<1>1. /\ s \in Nat /\ r \in Nat /\ at = s * NodeLen /\ at \in Nat
      /\ Len(Bytes) \in Nat /\ (s + r) * NodeLen = at + Len(Bytes)
  BY CallType, BytesType DEF Offset
<1>2. i \notin s..(s + r - 1)
  BY DEF RunIndices
<1> HIDE DEF at, s, r
<1>3. WithinRun(at, Len(Bytes), s, r)
  BY <1>1 DEF WithinRun
<1>4. NodeIn(WriteAt(file, at, Bytes), i) = NodeIn(file, i)
  BY <1>2, <1>3, Outside
<1> QED
  BY <1>4 DEF at

\* A node below a count that fits the file lies within it.
LEMMA BelowCount ==
  ASSUME NEW c \in Nat, NEW file, IsFile(file), c * NodeLen <= Len(file),
         NEW i \in 0..(c - 1)
  PROVE  i \in Nat /\ i < c /\ Within(file, i)
<1>1. i \in Nat /\ i + 1 \in Nat /\ i + 1 <= c /\ NodeLen \in Nat
  BY FileStoreAssumption
<1> DEFINE a == (i + 1) * NodeLen
           b == c * NodeLen
<1>2. a \in Nat /\ b \in Nat /\ a <= b
  BY <1>1, Products
<1>3. b <= Len(file) /\ Len(file) \in Nat
  BY DEF IsFile
<1> HIDE DEF a, b
<1>4. a <= Len(file)
  BY <1>2, <1>3
<1> QED
  BY <1>1, <1>4 DEF Within, a

\* Between writes, files only added and counts the same make the same view.
LEMMA QuietSame ==
  ASSUME Consistent, pc # "Writing", pc' # "Writing",
         \A l \in DOMAIN disk : disk'[l] = disk[l],
         \A l \in Levels : (IF l >= Len(counts') THEN 0 ELSE counts'[l + 1])
                              = (IF l >= Len(counts) THEN 0 ELSE counts[l + 1])
  PROVE  SameView
<1> SUFFICES ASSUME NEW l \in Levels
             PROVE  /\ Count(l)' = Count(l)
                    /\ \A i \in 0..(Count(l) - 1) : NodeIn(File(l), i)' = NodeIn(File(l), i)
  BY DEF SameView
<1>1. Count(l)' = Count(l)
  BY DEF Count
<1>2. ASSUME NEW i \in 0..(Count(l) - 1) PROVE NodeIn(File(l), i)' = NodeIn(File(l), i)
  <2>1. HandleShape
    BY DEF Consistent
  <2>2. l < Len(counts)
    BY <1>2, <2>1, View
  <2>3. l \in DOMAIN disk
    BY <2>1, <2>2, View
  <2>4. File(l) = disk[l] /\ File(l)' = disk[l]
    BY <2>3 DEF File
  <2> QED
    BY <2>4 DEF NodeIn
<1> QED
  BY <1>1, <1>2

\* Writing some more of the run changes nothing that was not seen already.
LEMMA WriteSame ==
  ASSUME Consistent, Write
  PROVE  SameView
<1> SUFFICES ASSUME NEW l \in Levels
             PROVE  /\ Count(l)' = Count(l)
                    /\ \A i \in 0..(Count(l) - 1) : NodeIn(File(l), i)' = NodeIn(File(l), i)
  BY DEF SameView
<1> DEFINE o == Offset(call.start)
           file == disk[call.level]
<1>1. PICK upto \in (written + 1)..Len(Bytes) :
        disk' = [disk EXCEPT ![call.level] =
             WriteAt(file, o + written, SubSeq(Bytes, written + 1, upto))]
  BY DEF Write
<1>2. pc = "Writing" /\ pc' = pc /\ counts' = counts /\ call' = call
  BY DEF Write
<1>3. /\ call \in Calls /\ call.level \in DOMAIN disk /\ IsFile(file)
      /\ written \in Nat /\ o \in Nat
  BY <1>2, BeingWritten
<1>4. Len(Bytes) \in Nat /\ DOMAIN Bytes = 1..Len(Bytes) /\ upto \in Nat /\ upto >= written
      /\ upto <= Len(Bytes)
  BY <1>3, BytesType
<1>5. Count(l)' = Count(l)
  BY <1>2 DEF Count
<1> DEFINE sub == SubSeq(Bytes, written + 1, upto)
<1>6. Len(sub) \in Nat /\ written + Len(sub) <= Len(Bytes)
  <2> DEFINE n == upto - written
  <2>1. n \in Nat /\ written + n <= Len(Bytes) /\ sub = SubSeq(Bytes, written + 1, written + n)
    <3>1. n \in Nat /\ written + n = upto
      BY <1>3, <1>4
    <3> HIDE DEF n
    <3>2. sub = SubSeq(Bytes, written + 1, written + n)
      BY <3>1, Zenon
    <3> HIDE DEF sub
    <3> QED
      BY <1>4, <3>1, <3>2
  <2> HIDE DEF n, sub
  <2>2. Len(sub) = n
    BY <1>3, <1>4, <2>1, PartOf
  <2> QED
    BY <2>1, <2>2
<1>7. disk'[call.level] = WriteAt(file, o + written, sub)
  BY <1>1, <1>3
<1> HIDE DEF sub, o, file
<1>8. WriteAt(disk'[call.level], o, Bytes) = WriteAt(file, o, Bytes)
  <2>1. /\ IsFile(file) /\ o \in Nat /\ written \in Nat /\ Len(sub) \in Nat
        /\ Len(Bytes) \in Nat /\ written + Len(sub) <= Len(Bytes)
    BY <1>3, <1>4, <1>6
  <2>2. WriteAt(WriteAt(file, o + written, sub), o, Bytes) = WriteAt(file, o, Bytes)
    BY <2>1, WriteTwice
  <2> QED
    BY <1>7, <2>2
<1>9. ASSUME NEW i \in 0..(Count(l) - 1) PROVE NodeIn(File(l), i)' = NodeIn(File(l), i)
  <2>1. File(l)' = File(l)
    <3>1. Bytes' = Bytes /\ Offset(call.start)' = Offset(call.start)
      BY <1>2 DEF Bytes, Offset
    <3>2. CASE l = call.level
      <4>1. File(l) = WriteAt(file, o, Bytes)
        BY <1>2, <3>2 DEF File, file, o
      <4>2. File(l)' = WriteAt(disk'[call.level], o, Bytes)
        BY <1>2, <3>1, <3>2 DEF File, o
      <4> QED
        BY <1>8, <4>1, <4>2
    <3>3. CASE l # call.level
      <4>1. HandleShape
        BY DEF Consistent
      <4>2. l < Len(counts)
        BY <1>9, <3>3, <4>1, View
      <4>3. l \in DOMAIN disk
        BY <4>1, <4>2, View
      <4>4. disk'[l] = disk[l]
        BY <1>1, <3>3, <4>3
      <4> QED
        BY <1>2, <3>3, <4>4 DEF File
    <3> QED
      BY <3>2, <3>3
  <2> QED
    BY <2>1 DEF NodeIn
<1> QED
  BY <1>5, <1>9

\* A run is counted once it is written: as it was seen already.
LEMMA PutDoneSame ==
  ASSUME Consistent, PutDone
  PROVE  SameView
<1> SUFFICES ASSUME NEW l \in Levels
             PROVE  /\ Count(l)' = Count(l)
                    /\ \A i \in 0..(Count(l) - 1) : NodeIn(File(l), i)' = NodeIn(File(l), i)
  BY DEF SameView
<1> DEFINE c == CountAfter(counts[call.level + 1], call.start + Len(call.run))
           file == disk[call.level]
           o == Offset(call.start)
<1>1. /\ pc = "Writing" /\ pc' = "Ready" /\ disk' = disk /\ written = Len(Bytes)
      /\ counts' = [counts EXCEPT ![call.level + 1] = c]
  BY DEF PutDone
<1>2. /\ call \in Calls /\ call.level \in 0..(Len(counts) - 1) /\ counts \in Seq(Nat)
      /\ counts[call.level + 1] \in Nat /\ IsFile(file) /\ o \in Nat
      /\ o + Len(Bytes) <= Len(file)
      /\ \A u \in 1..Len(Bytes) : file[o + u] = Bytes[u]
  BY <1>1, BeingWritten
<1>3. call.level \in Nat /\ call.level < Len(counts) /\ call.start + Len(call.run) \in Nat
  <2>1. call.level \in Nat /\ call.start \in Nat /\ Len(call.run) \in Nat
    BY <1>2, CallType
  <2>2. counts \in Seq(Nat) /\ call.level \in 0..(Len(counts) - 1)
    BY <1>2
  <2>3. call.level < Len(counts)
    BY <2>2
  <2> QED
    BY <2>1, <2>3
<1>4. c \in Nat
  BY <1>2, <1>3, CountBounds
<1>5. /\ File(call.level) = WriteAt(file, o, Bytes) /\ Count(call.level) = c
      /\ Len(Bytes) \in Nat
  BY <1>1, <1>2, <1>3, WritingView, BytesType
<1> HIDE DEF c
<1>6. Consistent'
  BY PutDoneStep
<1>7. /\ Len(counts') = Len(counts) /\ counts'[call.level + 1] = c
      /\ \A k \in 0..(Len(counts) - 1) : k # call.level => counts'[k + 1] = counts[k + 1]
  <2>1. /\ counts \in Seq(Nat) /\ call.level \in 0..(Len(counts) - 1) /\ c \in Nat
        /\ counts' = [counts EXCEPT ![call.level + 1] = c]
    BY <1>1, <1>2, <1>4
  <2>2. Len(counts') = Len(counts)
    BY <2>1, CountChanged
  <2>3. \A k \in 0..(Len(counts) - 1) :
          counts'[k + 1] = IF k = call.level THEN c ELSE counts[k + 1]
    BY <2>1, CountChanged
  <2> QED
    BY <2>1, <2>2, <2>3
<1>8. HandleShape
  BY DEF Consistent
<1>9. CASE l = call.level
  <2>1. Count(l)' = c /\ File(l)' = file
    BY <1>1, <1>2, <1>3, <1>7, <1>9 DEF Count, File
  <2>2. c * NodeLen <= Len(file)
    BY <1>1, <1>2, <1>6, <1>7, <1>9 DEF Consistent, HandleShape
  <2> HIDE DEF file, o
  <2>3. ASSUME NEW i \in 0..(c - 1) PROVE NodeIn(WriteAt(file, o, Bytes), i) = NodeIn(file, i)
    <3>1. i \in Nat /\ Within(file, i)
      BY <1>2, <1>4, <2>2, BelowCount
    <3>2. Holds(file, o, Bytes)
      BY <1>2, <1>5 DEF Holds
    <3> QED
      BY <1>2, <3>1, <3>2, WrittenAlready
  <2>4. ASSUME NEW i \in 0..(Count(l) - 1) PROVE NodeIn(File(l), i)' = NodeIn(File(l), i)
    <3>1. NodeIn(WriteAt(file, o, Bytes), i) = NodeIn(file, i)
      BY <1>5, <1>9, <2>3
    <3>2. NodeIn(File(l), i)' = NodeIn(file, i)
      BY <2>1 DEF NodeIn
    <3> QED
      BY <1>5, <1>9, <3>1, <3>2
  <2> QED
    BY <1>5, <1>9, <2>1, <2>4
<1>10. CASE l # call.level
  <2>1. File(l)' = disk[l] /\ File(l) = disk[l]
    BY <1>1, <1>10 DEF File
  <2>2. l \in Nat /\ Count(l) = IF l < Len(counts) THEN counts[l + 1] ELSE 0
    BY <1>8, <1>10, View
  <2>3. Count(l)' = IF l >= Len(counts) THEN 0 ELSE counts'[l + 1]
    BY <1>1, <1>7 DEF Count
  <2>4. Count(l)' = Count(l)
    <3>1. CASE l < Len(counts)
      <4>1. l \in 0..(Len(counts) - 1) /\ ~ (l >= Len(counts))
        BY <1>2, <2>2, <3>1
      <4> QED
        BY <1>7, <1>10, <2>2, <2>3, <3>1, <4>1
    <3>2. CASE ~ (l < Len(counts))
      <4>1. l >= Len(counts)
        BY <1>2, <2>2, <3>2
      <4> QED
        BY <2>2, <2>3, <3>2, <4>1
    <3> QED
      BY <3>1, <3>2
  <2> QED
    BY <2>1, <2>4 DEF NodeIn
<1> QED
  BY <1>9, <1>10

\* A write that fails takes back nothing but nodes of its run.
LEMMA WriteFailsPartly ==
  ASSUME Consistent, WriteFails
  PROVE  \A l \in Levels : \A i \in DOMAIN Seen(l)' :
           (l = call.level /\ i \in RunIndices) \/ Seen(l)'[i] = Seen(l)[i]
<1> SUFFICES ASSUME NEW l \in Levels, NEW i \in DOMAIN Seen(l)',
                    ~ (l = call.level /\ i \in RunIndices)
             PROVE  Seen(l)'[i] = Seen(l)[i]
  OBVIOUS
<1> DEFINE c == IF l >= Len(counts) THEN 0 ELSE counts[l + 1]
           file == disk[l]
<1>1. pc = "Writing" /\ pc' = "Ready" /\ disk' = disk /\ counts' = counts
  BY DEF WriteFails
<1>2. Seen(l)' = [j \in 0..(c - 1) |-> NodeIn(file, j)]
  BY <1>1 DEF Seen, Count, File
<1>3. i \in 0..(c - 1) /\ Seen(l)'[i] = NodeIn(file, i)
  BY <1>2
<1>4. HandleShape /\ DiskShape
  BY DEF Consistent
<1>5. /\ l < Len(counts) /\ c = counts[l + 1] /\ c \in Nat /\ IsFile(file)
      /\ c * NodeLen <= Len(file) /\ counts \in Seq(Nat) /\ l \in Nat
  <2>1. l < Len(counts)
    BY <1>3, <1>4, View DEF HandleShape
  <2>2. /\ l \in Nat /\ l \in DOMAIN disk /\ counts[l + 1] \in Nat
        /\ counts[l + 1] * NodeLen <= Len(disk[l]) /\ counts \in Seq(Nat)
    BY <1>4, <2>1, View DEF HandleShape
  <2>3. c = counts[l + 1]
    BY <2>1, <2>2
  <2> QED
    BY <1>4, <2>1, <2>2, <2>3 DEF DiskShape
<1> HIDE DEF c, file
<1>6. i \in Nat /\ i < c /\ Within(file, i)
  BY <1>3, <1>5, BelowCount
<1>7. CASE l = call.level
  <2>1. i \notin RunIndices /\ call \in Calls
    BY <1>1, <1>7, BeingWritten
  <2>2. /\ File(l) = WriteAt(file, Offset(call.start), Bytes)
        /\ Count(l) = CountAfter(c, call.start + Len(call.run))
    BY <1>1, <1>5, <1>7, WritingView DEF file
  <2>3. call.start + Len(call.run) \in Nat
    BY <2>1, CallType
  <2>4. c <= Count(l) /\ Count(l) \in Nat
    BY <1>5, <2>2, <2>3, CountBounds
  <2>5. i \in 0..(Count(l) - 1)
    BY <1>5, <1>6, <2>4
  <2>6. NodeIn(File(l), i) = NodeIn(file, i)
    BY <1>5, <1>6, <2>1, <2>2, OutsideRun
  <2> QED
    BY <1>3, <2>5, <2>6 DEF Seen
<1>8. CASE l # call.level
  <2>1. File(l) = file /\ Count(l) = c
    BY <1>4, <1>5, <1>8, View DEF file
  <2> QED
    BY <1>3, <2>1 DEF Seen
<1> QED
  BY <1>7, <1>8

\* Accepting a run is a put of the trait.
LEMMA AcceptPuts ==
  ASSUME Consistent, Accept
  PROVE  Promise!StorePut
<1> DEFINE L == call.level
           s == call.start
           r == Len(call.run)
           e == s + r - 1
           c == counts[L + 1]
           d == CountAfter(c, s + r)
           file == disk[L]
<1>1. /\ pc = "Opening" /\ Len(counts) > L /\ s <= c /\ pc' = "Writing"
      /\ disk' = disk /\ counts' = counts /\ call' = call
  BY DEF Accept
<1>2. call \in Calls /\ HandleShape /\ DiskShape
  BY <1>1 DEF Consistent, CallShape
<1>3. L \in Levels /\ L \in Nat /\ s \in Nat /\ r \in Nat /\ r > 0
  BY <1>2, CallType
<1>4. counts \in Seq(Nat) /\ L < Len(counts)
  BY <1>1, <1>2, <1>3 DEF HandleShape
<1>5. /\ c \in Nat /\ c * NodeLen <= Len(file) /\ IsFile(file)
      /\ Count(L) = c /\ File(L) = file
  <2>1. /\ L \in DOMAIN disk /\ c \in Nat /\ c * NodeLen <= Len(file)
        /\ Count(L) = c /\ File(L) = file
    BY <1>1, <1>2, <1>3, <1>4, View
  <2> QED
    BY <1>2, <2>1 DEF DiskShape
<1>6. d \in {c, s + r} /\ c <= d /\ s + r <= d /\ d \in Nat /\ (d = c \/ d = s + r)
  <2>1. s + r \in Nat
    BY <1>3
  <2> QED
    BY <1>3, <1>5, <2>1, CountBounds
<1>7. Count(L)' = d /\ File(L)' = WriteAt(file, Offset(s), Bytes)
  <2>1. ~ (L >= Len(counts))
    BY <1>3, <1>4
  <2>2. Bytes' = Bytes
    BY <1>1 DEF Bytes
  <2> QED
    BY <1>1, <2>1, <2>2 DEF Count, File, Offset
<1>8. ASSUME NEW k \in Levels, k # L PROVE Seen(k)' = Seen(k) /\ Count(k)' = Count(k)
  <2>1. Count(k)' = Count(k) /\ File(k)' = File(k)
    BY <1>1, <1>8 DEF Count, File
  <2> QED
    BY <2>1 DEF Seen
<1> DEFINE old == Seen(L)
           new == Seen(L)'
<1>9. old = [i \in 0..(c - 1) |-> NodeIn(file, i)]
  BY <1>5 DEF Seen
<1>10. new = [i \in 0..(d - 1) |-> NodeIn(WriteAt(file, Offset(s), Bytes), i)]
  <2>1. new = [i \in 0..(Count(L)' - 1) |-> NodeIn(File(L), i)']
    BY <1>1 DEF Seen
  <2>2. \A i : NodeIn(File(L), i)' = NodeIn(WriteAt(file, Offset(s), Bytes), i)
    BY <1>7 DEF NodeIn
  <2> QED
    BY <1>7, <2>1, <2>2
<1> HIDE DEF old, new, file, d
<1>11. ASSUME NEW i \in 0..(c - 1), i \notin s..e PROVE new[i] = old[i]
  <2>1. i \in Nat /\ Within(file, i)
    BY <1>5, <1>11, BelowCount
  <2>2. i \notin RunIndices
    BY <1>11 DEF RunIndices
  <2>3. NodeIn(WriteAt(file, Offset(s), Bytes), i) = NodeIn(file, i)
    BY <1>2, <1>5, <2>1, <2>2, OutsideRun
  <2>4. i \in 0..(d - 1)
    BY <1>5, <1>6, <2>1
  <2> QED
    BY <1>9, <1>10, <2>3, <2>4
<1> HIDE DEF c
<1>12. /\ DOMAIN old = 0..(c - 1) /\ DOMAIN new = 0..(d - 1)
       /\ new = [i \in 0..(d - 1) |-> new[i]]
  BY <1>9, <1>10
<1>13. /\ 0..(d - 1) = 0..(c - 1) \cup s..e
       /\ s..e \subseteq 0..(d - 1) /\ s \in 0..(d - 1) /\ e \in 0..(d - 1)
       /\ e - s + 1 = r
  <2>1. /\ s \in Nat /\ r \in Nat /\ r > 0 /\ e = s + r - 1 /\ c \in Nat /\ d \in Nat
        /\ s <= c /\ c <= d /\ s + r <= d /\ (d = c \/ d = s + r)
    BY <1>1, <1>3, <1>5, <1>6 DEF c
  <2> HIDE DEF s, r, e
  <2> QED
    BY <2>1
<1> HIDE DEF s, r, L
<1> DEFINE run == [k \in 1..(e - s + 1) |-> new[s + k - 1]]
<1>14. /\ Len(run) = r /\ s + Len(run) - 1 = e /\ s + Len(run) = s + r
       /\ \A i \in s..e : run[i - s + 1] = new[i]
  <2>1. run = [k \in 1..r |-> new[s + k - 1]]
    BY <1>13
  <2> HIDE DEF run
  <2>2. Len(run) = r
    BY <1>3, <2>1
  <2>3. \A i \in s..e : i - s + 1 \in 1..r /\ s + (i - s + 1) - 1 = i
    BY <1>3
  <2>4. \A i \in s..e : run[i - s + 1] = new[i]
    BY <2>1, <2>3
  <2> QED
    BY <1>3, <2>2, <2>4
<1> HIDE DEF run, e
<1>15. new = [i \in DOMAIN old \cup s..e |-> IF i \in s..e THEN run[i - s + 1] ELSE old[i]]
  <2>1. \A i \in 0..(d - 1) :
          new[i] = IF i \in s..e THEN run[i - s + 1] ELSE old[i]
    BY <1>11, <1>13, <1>14
  <2> QED
    BY <1>12, <1>13, <2>1
<1> DEFINE N == [k \in Levels |-> Seen(k)]
<1>16. N' = [N EXCEPT ![L] =
              [i \in DOMAIN N[L] \cup s..(s + Len(run) - 1) |->
                 IF i \in s..(s + Len(run) - 1) THEN run[i - s + 1] ELSE N[L][i]]]
  <2>1. N' = [k \in Levels |-> Seen(k)']
    OBVIOUS
  <2>2. N[L] = old /\ N'[L] = new
    BY <1>1, <1>3, <2>1 DEF old, new, L
  <2>3. \A k \in Levels : k # L => N'[k] = N[k]
    BY <1>8, <2>1
  <2> HIDE DEF N
  <2>4. DOMAIN N = Levels /\ N' = [k \in Levels |-> N'[k]]
    BY <2>1 DEF N
  <2> QED
    BY <1>3, <1>14, <1>15, <2>2, <2>3, <2>4
<1>17. Count(0)' = IF L = 0 THEN (IF Count(0) > s + Len(run) THEN Count(0) ELSE s + Len(run))
                   ELSE Count(0)
  <2>1. CASE L = 0
    <3>1. Count(0)' = d /\ Count(0) = c
      <4>1. call.level = 0 /\ call'.level = 0
        BY <1>1, <2>1 DEF L
      <4> QED
        BY <1>5, <1>7, <4>1 DEF L
    <3> QED
      BY <1>14, <2>1, <3>1 DEF d, CountAfter
  <2>2. CASE L # 0
    <3>1. 0 \in Levels
      BY FileStoreAssumption DEF Levels
    <3> QED
      BY <1>8, <2>2, <3>1
  <2> QED
    BY <2>1, <2>2
<1>18. ~ (TRUE /\ s > 0 /\ s - 1 \notin DOMAIN N[L])
  <2>1. N[L] = old
    BY <1>3 DEF old
  <2>2. s > 0 => s - 1 \in 0..(c - 1)
    BY <1>1, <1>3, <1>5 DEF s, c
  <2> QED
    BY <1>12, <2>1, <2>2
<1>19. /\ L \in DOMAIN N /\ N'[L] = new
       /\ s \in DOMAIN N'[L] /\ e \in DOMAIN N'[L] /\ s..e \subseteq DOMAIN N'[L]
       /\ run = [k \in 1..(e - s + 1) |-> N'[L][s + k - 1]]
  <2>1. N'[L] = new /\ L \in DOMAIN N
    BY <1>1, <1>3 DEF new, L
  <2> HIDE DEF N
  <2> QED
    BY <1>12, <1>13, <2>1 DEF run
<1> HIDE DEF N
<1>20. Promise!Rejects(L, s) = FALSE
  BY <1>18 DEF Promise!Rejects, Promise!Gap, N
<1>21. Promise!Put(L, s, run)
  BY <1>16, <1>17 DEF Promise!Put, Promise!Counted, Promise!Larger, N
<1> QED
  BY <1>19, <1>20, <1>21 DEF Promise!StorePut, N

\* A step of the store is a put of the trait, one of the three exceptions
\* ImplementsStore names, or nothing at all.
LEMMA PromiseStep ==
  ASSUME Consistent, Next
  PROVE  \/ Promise!StorePut
         \/ UNCHANGED <<[l \in Levels |-> Seen(l)], Count(0)>>
         \/ /\ WriteFails
            /\ \A l \in Levels : \A i \in DOMAIN Seen(l)' :
                 (l = call.level /\ i \in RunIndices) \/ Seen(l)'[i] = Seen(l)[i]
         \/ New \/ Crash
<1>1. CASE \E c \in Calls : Put(c)
  <2>1. pc = "Ready" /\ pc' = "Opening" /\ disk' = disk /\ counts' = counts
    BY <1>1 DEF Put
  <2> QED
    BY <2>1, QuietSame, SameViewIsStutter
<1>2. CASE OpenLevel
  <2>1. /\ pc = "Opening" /\ pc' = "Opening"
        /\ \A l \in DOMAIN disk : disk'[l] = disk[l]
    BY <1>2, OpenLevelStep DEF OpenLevel
  <2>2. /\ Len(counts) \in Nat /\ Len(counts') = Len(counts) + 1
        /\ counts'[Len(counts) + 1] = 0
        /\ \A l \in 0..(Len(counts) - 1) : counts'[l + 1] = counts[l + 1]
    BY <1>2, OpenLevelStep
  <2>3. ASSUME NEW l \in Levels
        PROVE  (IF l >= Len(counts') THEN 0 ELSE counts'[l + 1])
                 = (IF l >= Len(counts) THEN 0 ELSE counts[l + 1])
    <3>1. l \in Nat
      BY FileStoreAssumption DEF Levels
    <3>2. CASE l < Len(counts)
      <4>1. l \in 0..(Len(counts) - 1) /\ ~ (l >= Len(counts')) /\ ~ (l >= Len(counts))
        BY <2>2, <3>1, <3>2
      <4> QED
        BY <2>2, <4>1
    <3>3. CASE l = Len(counts)
      BY <2>2, <3>1, <3>3
    <3>4. CASE l > Len(counts)
      <4>1. l >= Len(counts') /\ l >= Len(counts)
        BY <2>2, <3>1, <3>4
      <4> QED
        BY <4>1
    <3> QED
      BY <2>2, <3>1, <3>2, <3>3, <3>4
  <2>4. SameView
    BY <2>1, <2>3, QuietSame
  <2> QED
    BY <2>4, SameViewIsStutter
<1>3. CASE OpenLevelFails
  <2>1. /\ pc = "Opening" /\ pc' = "Ready" /\ counts' = counts
        /\ \A l \in DOMAIN disk : disk'[l] = disk[l]
    BY <1>3, OpenLevelFailsStep DEF OpenLevelFails
  <2>2. SameView
    BY <2>1, QuietSame
  <2> QED
    BY <2>2, SameViewIsStutter
<1>4. CASE Refuse
  <2>1. pc = "Opening" /\ pc' = "Ready" /\ disk' = disk /\ counts' = counts
    BY <1>4 DEF Refuse
  <2> QED
    BY <2>1, QuietSame, SameViewIsStutter
<1>5. CASE Accept
  BY <1>5, AcceptPuts
<1>6. CASE Write
  BY <1>6, WriteSame, SameViewIsStutter
<1>7. CASE WriteFails
  BY <1>7, WriteFailsPartly
<1>8. CASE PutDone
  BY <1>8, PutDoneSame, SameViewIsStutter
<1>9. CASE New \/ Crash
  BY <1>9
<1> QED
  BY <1>1, <1>2, <1>3, <1>4, <1>5, <1>6, <1>7, <1>8, <1>9 DEF Next

\* A handle on the files implements the Store trait: whatever fails and whenever
\* it is dropped, a put appears whole when its run is accepted, a refused one and
\* every call that fails before the write change nothing, and a write that fails
\* changes nothing outside its run.
THEOREM StoreImplemented == Spec => ImplementsStore
<1> DEFINE Kept == \/ Promise!StorePut
                   \/ UNCHANGED <<[l \in Levels |-> Seen(l)], Count(0)>>
                   \/ /\ WriteFails
                      /\ \A l \in Levels : \A i \in DOMAIN Seen(l)' :
                           (l = call.level /\ i \in RunIndices) \/ Seen(l)'[i] = Seen(l)[i]
                   \/ New \/ Crash
<1>1. Consistent /\ [Next]_vars => [Kept]_vars
  <2> SUFFICES ASSUME Consistent, Next PROVE Kept
    OBVIOUS
  <2> QED
    BY PromiseStep
<1>2. [][Kept]_vars => ImplementsStore
  BY DEF ImplementsStore
<1> HIDE DEF Kept
<1>3. Spec => [][Kept]_vars
  BY <1>1, ConsistentInvariant, PTL DEF Spec
<1> QED
  BY <1>2, <1>3, PTL
=============================================================================

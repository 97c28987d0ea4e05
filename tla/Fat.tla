--------------------------------- MODULE Fat ----------------------------------
(***************************************************************************)
(* The FAT32 driver (fs/fat.rs): cluster chains, directory entries, and    *)
(* the order in which an operation changes the disk.                       *)
(*                                                                         *)
(* The disk is the sector of the FAT and the clusters.  A cluster is one   *)
(* sector and holds ClusterLen units; a unit stands for 32 bytes and is    *)
(* zero, a directory entry, or data.  Every change of the disk is a read   *)
(* of one sector followed by a write of it with some units replaced        *)
(* (link_clusters, update_dir, write_cluster): an operation appends such   *)
(* changes to todo[p], and ReadSector and WriteSector carry them out, so   *)
(* that other processes, or a power cut, can come between any two disk     *)
(* accesses.  The reads by which an operation follows a chain or scans the *)
(* FAT are one step.  The kernel takes no lock for the FAT or for a        *)
(* directory: the mutex of a FatNode (lock) belongs to one open or cached  *)
(* entry.                                                                  *)
(*                                                                         *)
(* The driver has known ways to lose data.  The history variable broken    *)
(* names the ones a behaviour has met:                                     *)
(*   sector  a sector was written back that had changed since it was read  *)
(*   claim   a free cluster or slot was taken that somebody else had taken *)
(*   stale   a deleted entry was read, written or deleted again            *)
(*   twin    two FatNodes stand for one directory entry                    *)
(*   empty   a file without clusters was deleted: FAT[0] was cleared       *)
(*   orphan  a directory that had children was deleted as a file           *)
(*   inside  a directory was made inside a file or written like one        *)
(*   torn    the power was cut during a deletion                           *)
(***************************************************************************)
EXTENDS Integers, FiniteSets, SequencesExt

CONSTANTS
  Procs,          \* processes (positive numbers)
  NodeId,         \* FatNodes that can be in memory
  ClusterLen,     \* units per cluster
  TotalClusters,  \* total_num_clusters of get_free_cluster
  Stored          \* Stored[n]: the 8.3 name that create_file writes for n

None == 0
Root == 2                           \* bpb.root_cluster
EOC == 1000
Cluster == Root..(TotalClusters + 1)
FatSector == 0

ASSUME FatAssumption ==
  /\ Procs \subseteq Nat \ {None} /\ NodeId \subseteq Nat \ {None}
  /\ ClusterLen \in Nat \ {0, 1} /\ TotalClusters \in 3..(EOC - 2)

VARIABLES
  disk,    \* disk[FatSector]: the FAT; disk[c]: the units of cluster c
  node,    \* node[n]: the DirEntryWithLoc in FatNode n; slot <<0, 0>> when unused
  lock,    \* lock[n]: who holds the mutex of n
  pc,      \* the next step of each process
  op,      \* the arguments and locals of each process's system call
  todo,    \* the sector changes each process still has to make
  buf,     \* the sector each process has read and will write back
  halted,  \* the kernel has panicked
  broken   \* history: see above

Zero == [t |-> "zero"]
Byte(b) == [t |-> "byte", by |-> b]
Entry(name, dir, first, size) ==
  [t |-> "entry", name |-> name, dir |-> dir, first |-> first, size |-> size]

DELETED == "E5"
DOT == "."
DOT_DOT == ".."

IsEntry(u) == u.t = "entry" /\ u.name # DELETED
Vacant(u) == u.t = "zero" \/ (u.t = "entry" /\ u.name = DELETED)

------------------------------------------------------------------------------
(* Chains and directories                                                   *)

is_eoc(v) == v >= EOC
is_valid_next(c) == c \in Cluster
get_next_cluster(c) == IF is_eoc(c) THEN c ELSE disk[FatSector][c]

\* The clusters that a walk from c visits while they are valid, in order.
RECURSIVE Walk(_, _)
Walk(c, n) ==
  IF n = 0 \/ ~is_valid_next(c) THEN << >> ELSE <<c>> \o Walk(disk[FatSector][c], n - 1)
Chain(c) == Walk(c, Cardinality(Cluster) + 1)

\* k times get_next_cluster.
RECURSIVE Hop(_, _)
Hop(c, k) == IF k = 0 THEN c ELSE Hop(get_next_cluster(c), k - 1)

\* read_dir_from_cluster: the places <<cluster, slot>> of the entries, in each cluster
\* up to the first zero entry.
read_dir(c) ==
  UNION {LET units == disk[x]
             zeros == {i \in 1..ClusterLen : units[i] = Zero}
             upto == IF zeros = {} THEN ClusterLen ELSE Min(zeros) - 1
         IN  {<<x, i>> : i \in {j \in 1..upto : ~Vacant(units[j])}} : x \in Range(Chain(c))}

Unit(loc) == disk[loc[1]][loc[2]]

\* The first place, in the order of the directory.
FirstOf(c, S) ==
  CHOOSE s \in S : \A t \in S :
    LET i(x) == CHOOSE k \in DOMAIN Chain(c) : Chain(c)[k] = x[1]
    IN  i(s) < i(t) \/ (s[1] = t[1] /\ s[2] <= t[2])

\* find compares the 8.3 name with the upper-cased name.
find(c, name) == {s \in read_dir(c) : IsEntry(Unit(s)) /\ Unit(s).name = name}

get_free_dirent_pos(c) ==
  {s \in Range(Chain(c)) \X (1..ClusterLen) : Vacant(Unit(s))}

\* The scan ends before total_num_clusters, two short of the last cluster.
get_free_cluster == {c \in (Root + 1)..(TotalClusters - 1) : disk[FatSector][c] = 0}

is_dot(u) == u.t = "entry" /\ u.name \in {DOT, DOT_DOT}

------------------------------------------------------------------------------
(* Disk accesses                                                            *)

Put(sec, at, vals) == [sec |-> sec, at |-> at, vals |-> vals, claim |-> FALSE]
Take(sec, at, val) == [sec |-> sec, at |-> at, vals |-> <<val>>, claim |-> TRUE]
link_clusters(from, to) == Put(FatSector, from, <<to>>)
update_dir(nd) == Put(nd.loc[1], nd.loc[2], <<nd.entry>>)

Ready(p, l) == ~halted /\ pc[p] = l /\ todo[p] = << >>
Goto(p, l) == pc' = [pc EXCEPT ![p] = l]
Pend(p, changes) == todo' = [todo EXCEPT ![p] = changes]
NodeOf(p) == node[op[p].node]
SetEntry(p, e) == node' = [node EXCEPT ![op[p].node].entry = e]
Met(why, test) == IF test THEN {why} ELSE {}
Stale(p) == Met("stale", NodeOf(p).entry.name = DELETED)
Panic == halted' = TRUE

ReadSector(p) ==
  /\ ~halted /\ todo[p] # << >> /\ buf[p] = << >>
  /\ buf' = [buf EXCEPT ![p] = disk[Head(todo[p]).sec]]
  /\ UNCHANGED <<disk, node, lock, pc, op, todo, halted, broken>>

\* Mutant: the zeroed rest of the sector instead of what was read.
Patched_zero(w, old) ==
  [i \in DOMAIN old |-> IF i \in w.at..(w.at + Len(w.vals) - 1) THEN w.vals[i - w.at + 1]
                        ELSE IF w.sec = FatSector THEN old[i] ELSE Zero]

Patched(w, old) ==
  [i \in DOMAIN old |-> IF i \in w.at..(w.at + Len(w.vals) - 1) THEN w.vals[i - w.at + 1]
                        ELSE old[i]]

Taken(w) == IF w.sec = FatSector THEN disk[w.sec][w.at] # 0 ELSE ~Vacant(disk[w.sec][w.at])

WriteSector(p) ==
  /\ ~halted /\ buf[p] # << >>
  /\ LET w == Head(todo[p])
     IN  /\ disk' = [disk EXCEPT ![w.sec] = Patched(w, buf[p])]
         /\ broken' = broken \cup Met("sector", disk[w.sec] # buf[p])
                             \cup Met("claim", w.claim /\ Taken(w))
  /\ todo' = [todo EXCEPT ![p] = Tail(@)]
  /\ buf' = [buf EXCEPT ![p] = << >>]
  /\ UNCHANGED <<node, lock, pc, op, halted>>

------------------------------------------------------------------------------
(* alloc_clusters                                                           *)

\* One round of the loop: find a free cluster, link it behind the last one, end the
\* chain with it.  unwrap panics when there is none.
AllocCluster(p) ==
  /\ Ready(p, "alloc") /\ op[p].need > 0
  /\ IF get_free_cluster = {}
     THEN Panic /\ UNCHANGED <<op, todo>>
     ELSE LET new == Min(get_free_cluster)
              end == Take(FatSector, new, EOC)
          IN  /\ Pend(p, IF op[p].first = 0 THEN <<end>>
                         ELSE <<link_clusters(op[p].curr, new), end>>)
              /\ op' = [op EXCEPT ![p].need = @ - 1, ![p].curr = new,
                                  ![p].first = IF @ = 0 THEN new ELSE @]
              /\ UNCHANGED halted
  /\ UNCHANGED <<disk, node, lock, pc, buf, broken>>

AllocDone(p) ==
  /\ Ready(p, "alloc") /\ op[p].need = 0
  /\ Pend(p, <<link_clusters(op[p].curr, EOC)>>)
  /\ Goto(p, IF op[p].kind = "write" THEN "attach" ELSE "dir")
  /\ UNCHANGED <<disk, node, lock, op, buf, halted, broken>>

------------------------------------------------------------------------------
(* write_buffer                                                             *)

div_ceil(n) == (n + ClusterLen - 1) \div ClusterLen
RequiredSize(p) == op[p].at + op[p].len

WriteBuffer(p) ==
  /\ Ready(p, "write")
  /\ LET need == div_ceil(RequiredSize(p)) - div_ceil(NodeOf(p).entry.size)
     IN  /\ op' = [op EXCEPT ![p].need = Max({need, 0})]
         /\ Goto(p, IF need > 0 THEN "alloc" ELSE "data")
  /\ broken' = broken \cup Stale(p) \cup Met("inside", NodeOf(p).entry.dir)
  /\ UNCHANGED <<disk, node, lock, todo, buf, halted>>

\* The new chain goes behind the old one, or becomes the file's first cluster.  (On a
\* chain without an end the search for it never stops: no step.)
Attach(p) ==
  /\ Ready(p, "attach")
  /\ LET e == NodeOf(p).entry
     IN  IF e.first # 0
         THEN /\ is_eoc(get_next_cluster(Last(Chain(e.first))))
              /\ Pend(p, <<link_clusters(Last(Chain(e.first)), op[p].first)>>)
              /\ UNCHANGED node
         ELSE LET new == [e EXCEPT !.first = op[p].first]
              IN SetEntry(p, new) /\ Pend(p, <<update_dir([NodeOf(p) EXCEPT !.entry = new])>>)
  /\ Goto(p, "data")
  /\ UNCHANGED <<disk, lock, op, buf, halted, broken>>

\* The part of the write that falls into the k-th cluster of the file.
Chunk(p, k) ==
  LET from == Max({op[p].at, k * ClusterLen})
      upto == Min({RequiredSize(p), (k + 1) * ClusterLen})
  IN  Put(Hop(NodeOf(p).entry.first, k), (from % ClusterLen) + 1,
          [i \in 1..(upto - from) |-> Byte(p)])

\* write_cluster, cluster by cluster; an access beyond the disk fails unnoticed.
WriteData(p) ==
  /\ Ready(p, "data")
  /\ LET lo == op[p].at \div ClusterLen
         hi == (RequiredSize(p) - 1) \div ClusterLen
         chunks == [k \in 1..(hi - lo + 1) |-> Chunk(p, lo + k - 1)]
     IN  Pend(p, SelectSeq(chunks, LAMBDA w : w.sec \in Cluster))
  /\ Goto(p, "size")
  /\ UNCHANGED <<disk, node, lock, op, buf, halted, broken>>

WriteSize(p) ==
  /\ Ready(p, "size")
  /\ LET e == NodeOf(p).entry
         new == [e EXCEPT !.size = RequiredSize(p)]
     IN  IF RequiredSize(p) > e.size
         THEN SetEntry(p, new) /\ Pend(p, <<update_dir([NodeOf(p) EXCEPT !.entry = new])>>)
         ELSE UNCHANGED <<node, todo>>
  /\ Goto(p, "return")
  /\ UNCHANGED <<disk, lock, op, buf, halted, broken>>

------------------------------------------------------------------------------
(* read_buffer: from the start of the file, whatever file.pos is            *)

Target(p) == Min({op[p].len, NodeOf(p).entry.size})

ReadBuffer(p) ==
  /\ Ready(p, "read")
  /\ op' = [op EXCEPT ![p].curr = NodeOf(p).entry.first, ![p].got = << >>]
  /\ Goto(p, IF Target(p) = 0 THEN "return" ELSE "read_cluster")
  /\ broken' = broken \cup Stale(p)
  /\ UNCHANGED <<disk, node, lock, todo, buf, halted>>

ReadCluster(p) ==
  /\ Ready(p, "read_cluster")
  /\ IF Len(op[p].got) < op[p].len /\ op[p].curr \in Cluster
     THEN /\ LET n == Min({ClusterLen, Target(p) - Len(op[p].got)})
             IN  op' = [op EXCEPT ![p].got = @ \o SubSeq(disk[op[p].curr], 1, n),
                                  ![p].curr = get_next_cluster(@)]
          /\ UNCHANGED pc
     ELSE Goto(p, "return") /\ UNCHANGED op
  /\ UNCHANGED <<disk, node, lock, todo, buf, halted, broken>>

------------------------------------------------------------------------------
(* Deletion                                                                 *)

HasChildren(c) == \E s \in read_dir(c) : ~is_dot(Unit(s))

\* delete_file, and the part of delete_dir after its test: the entry is marked in
\* memory, the chain is freed, and only then is the entry marked on the disk.
Unlink(p) ==
  LET e == NodeOf(p).entry
  IN  /\ SetEntry(p, [e EXCEPT !.name = DELETED])
      /\ op' = [op EXCEPT ![p].curr = e.first]
      /\ Goto(p, "free")
      /\ broken' = broken \cup Stale(p)
                          \cup Met("empty", e.first = 0)
                          \cup Met("orphan", e.dir /\ HasChildren(e.first))

DeleteFile(p) ==
  /\ Ready(p, "delete") /\ Unlink(p)
  /\ UNCHANGED <<disk, lock, todo, buf, halted>>

DeleteDir(p) ==
  /\ Ready(p, "rmdir")
  /\ IF HasChildren(NodeOf(p).entry.first)
     THEN Goto(p, "return") /\ UNCHANGED <<node, op, broken>>
     ELSE Unlink(p)
  /\ UNCHANGED <<disk, lock, todo, buf, halted>>

\* Mutant: stops one cluster early.
FreeCluster_keep(p) ==
  /\ Ready(p, "free")
  /\ IF is_eoc(get_next_cluster(op[p].curr))
     THEN Pend(p, <<update_dir(NodeOf(p))>>) /\ Goto(p, "return") /\ UNCHANGED op
     ELSE /\ Pend(p, <<link_clusters(op[p].curr, 0)>>)
          /\ op' = [op EXCEPT ![p].curr = get_next_cluster(@)]
          /\ UNCHANGED pc
  /\ UNCHANGED <<disk, node, lock, buf, halted, broken>>

\* free_clusters; at its end the entry is written.  (A chain that leads to a free
\* cluster goes on at FAT[0].)
FreeCluster(p) ==
  /\ Ready(p, "free")
  /\ IF is_eoc(op[p].curr)
     THEN Pend(p, <<update_dir(NodeOf(p))>>) /\ Goto(p, "return") /\ UNCHANGED op
     ELSE /\ Pend(p, <<link_clusters(op[p].curr, 0)>>)
          /\ op' = [op EXCEPT ![p].curr = get_next_cluster(@)]
          /\ UNCHANGED pc
  /\ UNCHANGED <<disk, node, lock, buf, halted, broken>>

------------------------------------------------------------------------------
(* New entries and new names                                                *)

\* create_dir: unwrap panics when the parent has no free slot.
CreateDir(p) ==
  /\ Ready(p, "mkdir")
  /\ LET c == NodeOf(p).entry.first
         S == get_free_dirent_pos(c)
     IN  IF S = {} THEN Panic /\ UNCHANGED <<pc, op>>
         ELSE /\ op' = [op EXCEPT ![p].slot = FirstOf(c, S), ![p].need = 1]
              /\ Goto(p, "alloc")
              /\ UNCHANGED halted
  /\ broken' = broken \cup Stale(p) \cup Met("inside", ~NodeOf(p).entry.dir)
  /\ UNCHANGED <<disk, node, lock, todo, buf>>

\* Mutant: the entry in the parent is written first.
WriteDir_first(p) ==
  /\ Ready(p, "dir")
  /\ LET new == op[p].first
         up == IF NodeOf(p).loc[1] = Root THEN 0 ELSE NodeOf(p).loc[1]
     IN  Pend(p, << Take(op[p].slot[1], op[p].slot[2],
                         Entry(Stored[op[p].new], TRUE, new, 0)),
                    Put(new, 1, [i \in 1..ClusterLen |-> Zero]),
                    Put(new, 1, <<Entry(DOT, TRUE, op[p].slot[1], 0)>>),
                    Put(new, 2, <<Entry(DOT_DOT, TRUE, up, 0)>>) >>)
  /\ Goto(p, "return")
  /\ UNCHANGED <<disk, node, lock, op, buf, halted, broken>>

\* The new cluster is zeroed, gets its dot entries (which the code points at the
\* parent's cluster and at the cluster of the parent's own entry), and the entry in
\* the parent comes last.
WriteDir(p) ==
  /\ Ready(p, "dir")
  /\ LET new == op[p].first
         up == IF NodeOf(p).loc[1] = Root THEN 0 ELSE NodeOf(p).loc[1]
     IN  Pend(p, << Put(new, 1, [i \in 1..ClusterLen |-> Zero]),
                    Put(new, 1, <<Entry(DOT, TRUE, op[p].slot[1], 0)>>),
                    Put(new, 2, <<Entry(DOT_DOT, TRUE, up, 0)>>),
                    Take(op[p].slot[1], op[p].slot[2],
                         Entry(Stored[op[p].new], TRUE, new, 0)) >>)
  /\ Goto(p, "return")
  /\ UNCHANGED <<disk, node, lock, op, buf, halted, broken>>

\* create_file takes inum for the parent's cluster.  It is one only for the root; for
\* any other directory it lies beyond the disk, and the write there is lost.
CreateFile(p) ==
  /\ Ready(p, "create")
  /\ LET S == get_free_dirent_pos(Root)
     IN  IF op[p].node # None THEN UNCHANGED <<todo, halted>> /\ Goto(p, "created")
         ELSE IF S = {} THEN Panic /\ UNCHANGED <<pc, todo>>
         ELSE /\ Pend(p, <<Take(FirstOf(Root, S)[1], FirstOf(Root, S)[2],
                                Entry(Stored[op[p].new], FALSE, 0, 0))>>)
              /\ Goto(p, "created")
              /\ UNCHANGED halted
  /\ UNCHANGED <<disk, node, lock, op, buf, broken>>

\* mv: a new name for the entry, in memory and on the disk.
Mv(p) ==
  /\ Ready(p, "rename")
  /\ LET new == [NodeOf(p).entry EXCEPT !.name = Stored[op[p].new]]
     IN  SetEntry(p, new) /\ Pend(p, <<update_dir([NodeOf(p) EXCEPT !.entry = new])>>)
  /\ Goto(p, "return")
  /\ broken' = broken \cup Stale(p)
  /\ UNCHANGED <<disk, lock, op, buf, halted>>

FatStep(p) ==
  \/ ReadSector(p) \/ WriteSector(p)
  \/ AllocCluster(p) \/ AllocDone(p)
  \/ WriteBuffer(p) \/ Attach(p) \/ WriteData(p) \/ WriteSize(p)
  \/ ReadBuffer(p) \/ ReadCluster(p)
  \/ DeleteFile(p) \/ DeleteDir(p) \/ FreeCluster(p)
  \/ CreateDir(p) \/ WriteDir(p) \/ CreateFile(p) \/ Mv(p)

------------------------------------------------------------------------------
(* The logical file system that the disk holds                              *)

Entries(c) == {s \in read_dir(c) : IsEntry(Unit(s)) /\ ~is_dot(Unit(s))}

\* The places of the entries that a reader of the disk finds, from the entries S down.
RECURSIVE Below(_)
Below(S) ==
  LET T == S \cup UNION {Entries(Unit(s).first) : s \in {t \in S : Unit(t).dir}}
  IN  IF T = S THEN S ELSE Below(T)
Live == Below(Entries(Root))

Contents(s) ==
  LET chain == Chain(Unit(s).first)
      len == Min({Unit(s).size, Len(chain) * ClusterLen})
  IN  [i \in 1..len |-> disk[chain[(i - 1) \div ClusterLen + 1]][((i - 1) % ClusterLen) + 1]]
==============================================================================

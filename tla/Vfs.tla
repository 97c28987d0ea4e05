--------------------------------- MODULE Vfs ----------------------------------
(***************************************************************************)
(* The file system calls on the FAT volume: path lookup through the cache  *)
(* of dentries (fs/vfs/mod.rs), open files and descriptors (fs/vfs/sys.rs, *)
(* syscall.rs), and the driver underneath (Fat).                           *)
(*                                                                         *)
(* A path is one name in the root, or a name in a directory of the root;   *)
(* lookups inside such a directory start at a cluster beyond the disk and  *)
(* find nothing.  A call that unwraps a None stops the kernel, which a     *)
(* power cut and a restart bring back with what the disk then holds.       *)
(***************************************************************************)
EXTENDS Fat

CONSTANTS
  Names,         \* path segments that programs use
  NewNames,      \* those that they give to something new
  Opened,        \* the files that a common parent has opened, by name
  Long,          \* those that do not fit into 8.3
  Absolute,      \* Absolute[n]: the path of n with its slash
  FileId,        \* open Files
  Fds,           \* descriptor numbers
  Lens,          \* lengths of the buffers of read and write
  MaxCalls,      \* bound: system calls in a behaviour
  MaxPowerCuts,  \* bound: power cuts in a behaviour
  Disks          \* disks to start from

ASSUME VfsAssumption ==
  /\ Stored \in [Names \cup {Absolute[n] : n \in Names} -> STRING] /\ Long \subseteq Names
  /\ NewNames \subseteq Names /\ Opened \in Seq(Names)
  /\ FileId \subseteq Nat \ {None} /\ Fds \subseteq Nat /\ Lens \subseteq Nat \ {0}
  /\ MaxCalls \in Nat /\ MaxPowerCuts \in Nat

VARIABLES
  cache,  \* the children of the root dentry: a FatNode or None
  file,   \* file[f]: [node, pos]; node None when the File does not exist
  fd,     \* fd[p]: the descriptor table, FileId or None
  calls,  \* system calls so far
  cuts    \* power cuts so far

fvars == <<disk, node, lock, pc, op, todo, buf, halted, broken>>
vars == <<fvars, cache, file, fd, calls, cuts>>

RootNode == 1
Unused == [loc |-> <<0, 0>>, entry |-> Zero, meta |-> 0]
Idle == [kind |-> "none", name |-> "", new |-> "", to |-> "", create |-> FALSE, node |-> None, file |-> None,
         at |-> 0, len |-> 0, need |-> 0, first |-> 0, curr |-> 0, slot |-> <<0, 0>>, got |-> << >>]

\* mount_fat32: get_root_inode makes a node for the root, which has no entry.
Mounted ==
  [n \in NodeId |-> IF n = RootNode
                    THEN [loc |-> <<Root, 0>>, entry |-> Entry("ROOT", TRUE, Root, 0), meta |-> 0]
                    ELSE Unused]

\* lookup in the root: the node for the first entry with the name.
OnDisk(name) == IF name \in Long THEN {} ELSE find(Root, Stored[name])
Looked(s) == [loc |-> s, entry |-> Unit(s), meta |-> Unit(s).size]

\* The dentry by which the first open of a name found it serves the later ones.
NodeOpened(name) == 1 + Min({i \in DOMAIN Opened : Opened[i] = name})

\* Every process has inherited the Files of Opened, each on a descriptor of its own;
\* Files that were opened under one name share its FatNode.
Init ==
  /\ disk \in Disks
  /\ node = [n \in NodeId |-> IF \E name \in Range(Opened) : NodeOpened(name) = n
                              THEN Looked(FirstOf(Root, OnDisk(Opened[n - 1])))
                              ELSE Mounted[n]]
  /\ lock = [n \in NodeId |-> None]
  /\ pc = [p \in Procs |-> "idle"] /\ op = [p \in Procs |-> Idle]
  /\ todo = [p \in Procs |-> << >>] /\ buf = [p \in Procs |-> << >>]
  /\ halted = FALSE /\ broken = {}
  /\ cache = [n \in Names |-> IF n \in Range(Opened) THEN NodeOpened(n) ELSE None]
  /\ file = [f \in FileId |-> [node |-> IF f \in DOMAIN Opened THEN NodeOpened(Opened[f]) ELSE None,
                              pos |-> 0]]
  /\ fd = [p \in Procs |-> [d \in Fds |-> IF d + 1 \in DOMAIN Opened THEN d + 1 ELSE None]]
  /\ calls = 0 /\ cuts = 0

Call(p, o, l) ==
  /\ ~halted /\ pc[p] = "idle" /\ calls < MaxCalls
  /\ calls' = calls + 1
  /\ op' = [op EXCEPT ![p] = o]
  /\ Goto(p, l)
  /\ UNCHANGED <<disk, node, lock, todo, buf, halted, broken, cache, file, fd, cuts>>

------------------------------------------------------------------------------
(* find_dentry                                                              *)

\* The cache, the disk, and the insertion into the cache are three steps.
FindCached(p) ==
  /\ Ready(p, "find")
  /\ LET n == cache[op[p].name]
     IN  /\ op' = [op EXCEPT ![p].node = n]
         /\ Goto(p, IF n = None THEN "lookup" ELSE "found")
  /\ UNCHANGED <<disk, node, lock, todo, buf, halted, broken, cache, file, fd, calls, cuts>>

\* The entry at s has a node already, or one by which it is just being deleted.
HasNode(s) == \E n \in NodeId : /\ node[n].loc = s
                                /\ node[n].entry.name # DELETED \/ \E q \in Procs : op[q].node = n

\* lookup makes a new node of what it finds; without an entry, open with CREATE goes
\* on if it is the last segment, and everybody else unwraps None.
Lookup(p) ==
  /\ Ready(p, "lookup")
  /\ LET S == OnDisk(op[p].name)
     IN  IF S # {}
         THEN \E n \in {Min({m \in NodeId : node[m] = Unused})} :
                /\ node' = [node EXCEPT ![n] = Looked(FirstOf(Root, S))]
                /\ op' = [op EXCEPT ![p].node = n]
                /\ broken' = broken \cup Met("twin", HasNode(FirstOf(Root, S)))
                /\ Goto(p, "insert") /\ UNCHANGED halted
         ELSE IF op[p].kind = "open" /\ op[p].create /\ op[p].new = ""
         THEN /\ op' = [op EXCEPT ![p].new = op[p].name]
              /\ Goto(p, "create") /\ UNCHANGED <<node, halted, broken>>
         ELSE Panic /\ UNCHANGED <<node, op, pc, broken>>
  /\ UNCHANGED <<disk, lock, todo, buf, cache, file, fd, calls, cuts>>

Insert(p) ==
  /\ Ready(p, "insert")
  /\ cache' = [cache EXCEPT ![op[p].name] = op[p].node]
  /\ Goto(p, "found")
  /\ UNCHANGED <<disk, node, lock, op, todo, buf, halted, broken, file, fd, calls, cuts>>

\* Mutant: goes in without waiting.
Acquire_barge(p) == lock' = [lock EXCEPT ![op[p].node] = p]

\* data.lock(): the mutex of the FatNode.
Acquire(p) == /\ lock[op[p].node] = None
              /\ lock' = [lock EXCEPT ![op[p].node] = p]

Release(p) == lock' = [lock EXCEPT ![op[p].node] = None]

\* sys_read, sys_write: the mutex of the File, which also protects its position.
FileLocked(f) == \E q \in Procs : op[q].file = f /\ pc[q] # "file"

LockFile(p) ==
  /\ Ready(p, "file") /\ ~FileLocked(op[p].file)
  /\ op' = [op EXCEPT ![p].at = file[op[p].file].pos]
  /\ Goto(p, "found")
  /\ UNCHANGED <<disk, node, lock, todo, buf, halted, broken, cache, file, fd, calls, cuts>>

\* With the dentry in hand: open makes a File; the path of an open with a second
\* segment goes on below and finds nothing; the rest take the mutex of the FatNode.
Found(p) ==
  /\ Ready(p, "found")
  /\ IF op[p].kind = "open" /\ op[p].new # ""
     THEN /\ IF op[p].create THEN Goto(p, "create") /\ UNCHANGED halted ELSE Panic /\ UNCHANGED pc
          /\ UNCHANGED <<lock, op, file, fd>>
     ELSE IF op[p].kind = "open"
     THEN LET f == Min({g \in FileId : \A q \in Procs, d \in Fds : fd[q][d] # g})
              d == Min({e \in Fds : fd[p][e] = None})
          IN  /\ file' = [file EXCEPT ![f] = [node |-> op[p].node, pos |-> 0]]
              /\ fd' = [fd EXCEPT ![p][d] = f]
              /\ op' = [op EXCEPT ![p] = Idle]
              /\ Goto(p, "idle")
              /\ UNCHANGED <<lock, halted>>
     ELSE /\ Acquire(p)
          /\ Goto(p, op[p].kind)
          /\ UNCHANGED <<op, file, fd, halted>>
  /\ UNCHANGED <<disk, node, todo, buf, broken, cache, calls, cuts>>

\* sys_open goes on with the dentry it looked up before it created the file: None.
Created(p) ==
  /\ Ready(p, "created")
  /\ Panic
  /\ UNCHANGED <<disk, node, lock, pc, op, todo, buf, broken, cache, file, fd, calls, cuts>>

\* The mutex is dropped; sys_read and sys_write move the position, a write by one more
\* than it wrote.
Return(p) ==
  /\ Ready(p, "return") /\ Release(p)
  /\ file' = CASE op[p].kind = "read"  -> [file EXCEPT ![op[p].file].pos = @ + Len(op[p].got)]
               [] op[p].kind = "write" -> [file EXCEPT ![op[p].file].pos = @ + op[p].len + 1]
               [] OTHER -> file
  /\ op' = [op EXCEPT ![p] = Idle]
  /\ Goto(p, "idle")
  /\ UNCHANGED <<disk, node, todo, buf, halted, broken, cache, fd, calls, cuts>>

------------------------------------------------------------------------------
(* System calls                                                             *)

Open(p, n, create) == /\ \E d \in Fds : fd[p][d] = None
                      /\ Call(p, [Idle EXCEPT !.kind = "open", !.name = n, !.create = create], "find")
OpenBelow(p, n, leaf, create) ==
  Call(p, [Idle EXCEPT !.kind = "open", !.name = n, !.new = leaf, !.create = create], "find")

Delete(p, n) == Call(p, [Idle EXCEPT !.kind = "delete", !.name = n], "find")
Rmdir(p, n) == Call(p, [Idle EXCEPT !.kind = "rmdir", !.name = n], "find")

\* The parent is the root, or a directory found by its name.
Mkdir(p, n) == Call(p, [Idle EXCEPT !.kind = "mkdir", !.new = n, !.node = RootNode], "found")
MkdirBelow(p, n, leaf) == Call(p, [Idle EXCEPT !.kind = "mkdir", !.name = n, !.new = leaf], "find")

\* The new name is taken from arg1, the old path.
Rename(p, n, to, path) ==
  Call(p, [Idle EXCEPT !.kind = "rename", !.name = n, !.new = path, !.to = to], "find")

Transfer(p, kind, d, n) ==
  /\ fd[p][d] # None
  /\ Call(p, [Idle EXCEPT !.kind = kind, !.node = file[fd[p][d]].node, !.file = fd[p][d],
                          !.len = n], "file")

Read(p, d, n) == Transfer(p, "read", d, n)
Write(p, d, n) == Transfer(p, "write", d, n)

\* The calls that only touch the descriptor table and the position.
Table(p) == ~halted /\ pc[p] = "idle" /\ calls < MaxCalls /\ calls' = calls + 1

Close(p, d) ==
  /\ Table(p) /\ fd[p][d] # None
  /\ fd' = [fd EXCEPT ![p][d] = None]
  /\ UNCHANGED <<fvars, cache, file, cuts>>

\* dup looks for the lowest descriptor that is in use.
Dup(p, d) ==
  /\ Table(p) /\ fd[p][d] # None
  /\ fd' = [fd EXCEPT ![p][Min({e \in Fds : fd[p][e] # None})] = fd[p][d]]
  /\ UNCHANGED <<fvars, cache, file, cuts>>

Dup2(p, d, e) ==
  /\ Table(p) /\ d # e /\ fd[p][d] # None
  /\ IF fd[p][e] = None
     THEN Panic /\ UNCHANGED fd
     ELSE fd' = [fd EXCEPT ![p][e] = fd[p][d]] /\ UNCHANGED halted
  /\ UNCHANGED <<disk, node, lock, pc, op, todo, buf, broken, cache, file, cuts>>

\* The position is bounded by the size that the inode had when it was looked up.
Lseek(p, d, n) ==
  /\ Table(p) /\ fd[p][d] # None /\ ~FileLocked(fd[p][d])
  /\ LET f == fd[p][d]
     IN  file' = [file EXCEPT ![f].pos = Min({node[file[f].node].meta, @ + n})]
  /\ UNCHANGED <<fvars, cache, fd, cuts>>

\* A call on a descriptor that is not open unwraps None.
BadFd(p, d) ==
  /\ Table(p) /\ fd[p][d] = None /\ Panic
  /\ UNCHANGED <<disk, node, lock, pc, op, todo, buf, broken, cache, file, fd, cuts>>

------------------------------------------------------------------------------
\* A deletion that has begun to free clusters and has not marked the entry.
Deleting(p) ==
  \/ pc[p] = "free"
  \/ op[p].kind \in {"delete", "rmdir"} /\ pc[p] = "return" /\ todo[p] # << >>

\* The machine stops between two disk accesses and starts again.
PowerCut ==
  /\ cuts < MaxPowerCuts /\ cuts' = cuts + 1
  /\ broken' = broken \cup Met("torn", \E p \in Procs : Deleting(p))
  /\ node' = Mounted
  /\ lock' = [n \in NodeId |-> None]
  /\ pc' = [p \in Procs |-> "idle"] /\ op' = [p \in Procs |-> Idle]
  /\ todo' = [p \in Procs |-> << >>] /\ buf' = [p \in Procs |-> << >>]
  /\ halted' = FALSE
  /\ cache' = [n \in Names |-> None]
  /\ file' = [f \in FileId |-> [node |-> None, pos |-> 0]]
  /\ fd' = [p \in Procs |-> [d \in Fds |-> None]]
  /\ UNCHANGED <<disk, calls>>

FatCall(p) == FatStep(p) /\ UNCHANGED <<cache, file, fd, calls, cuts>>

\* What a process inside a call does next.
Step(p) ==
  \/ FatCall(p)
  \/ FindCached(p) \/ Lookup(p) \/ Insert(p) \/ LockFile(p) \/ Found(p) \/ Created(p) \/ Return(p)

Request(p) ==
  \/ \E n \in Names :
       \/ Delete(p, n) \/ Rmdir(p, n) \/ \E create \in BOOLEAN : Open(p, n, create)
       \/ \E m \in NewNames : \/ MkdirBelow(p, n, m)
                            \/ \E create \in BOOLEAN : OpenBelow(p, n, m, create)
                            \/ \E path \in {n, Absolute[n]} : Rename(p, n, m, path)
  \/ \E m \in NewNames : Mkdir(p, m)
  \/ \E d \in Fds :
       \/ \E n \in Lens : Read(p, d, n) \/ Write(p, d, n) \/ Lseek(p, d, n)
       \/ BadFd(p, d) \/ Close(p, d) \/ Dup(p, d) \/ \E e \in Fds : Dup2(p, d, e)

Next == PowerCut \/ \E p \in Procs : Step(p) \/ Request(p)

Spec == Init /\ [][Next]_vars

------------------------------------------------------------------------------
(* Correctness                                                              *)

BeingDeleted(s) == \E p \in Procs : Deleting(p) /\ NodeOf(p).loc = s

\* The chain of an entry leads through clusters that are in use to an end mark, and
\* has room for the size the entry states.
WholeChain(e) ==
  /\ e.dir \/ e.size > 0 => e.first # 0
  /\ e.first # 0 =>
       LET c == Chain(e.first)
       IN  /\ c # << >> /\ is_eoc(get_next_cluster(Last(c))) /\ Root \notin Range(c)
           /\ e.size <= Len(c) * ClusterLen

\* After every single disk access, and so after a power cut at any point, every entry
\* that is not just being deleted has a whole chain, and no two entries share a
\* cluster - unless one of the ways named in broken was taken.  The order of the
\* writes in alloc_clusters, write_buffer and create_dir (chain before link, cluster
\* before entry, data before size) and the mutex of the FatNode are what it rests on.
ChainsIntact ==
  broken = {} =>
    LET kept == {t \in Live : ~BeingDeleted(t)}
    IN  /\ \A s \in kept : WholeChain(Unit(s))
        /\ \A s, t \in kept : s # t =>
             Range(Chain(Unit(s).first)) \cap Range(Chain(Unit(t).first)) = {}

\* Between calls, as long as the machine has not stopped, no cluster is lost: one that
\* the FAT says is in use belongs to an entry.
Quiet == ~halted /\ cuts = 0 /\ \A p \in Procs : pc[p] \in {"idle", "find", "lookup", "insert"}
NoLostClusters ==
  broken = {} /\ Quiet =>
    {c \in Cluster \ {Root} : disk[FatSector][c] # 0} \subseteq
      UNION {Range(Chain(Unit(s).first)) : s \in Live}

\* A read returns the bytes the file had at one moment.  The reader walks the chain
\* cluster by cluster, and a writer through another File of the same FatNode, who does
\* not meet the reader at the mutex of the File, changes size, chain and data in several
\* accesses: only the mutex of the FatNode keeps them apart.
ReadsAreAtomic ==
  \A p \in Procs :
    broken = {} /\ op[p].kind = "read" /\ pc[p] = "return" =>
      Len(op[p].got) = Target(p) /\ IsPrefix(op[p].got, Contents(NodeOf(p).loc))

Holds(p) == op[p].node # None /\ lock[op[p].node] = p

\* The bytes of a file, and the file itself, change only while a process is inside a
\* call on that file: no operation reaches into another file.
OnlyOwnerChanges ==
  [][broken' = {} =>
       \A s \in {t \in Live : ~Unit(t).dir} :
         s \notin Live' \/ Contents(s)' # Contents(s) =>
           \E p \in Procs : Holds(p) /\ NodeOf(p).loc = s]_vars
==============================================================================

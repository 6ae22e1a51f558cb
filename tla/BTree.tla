------------------------------- MODULE BTree -------------------------------
(***************************************************************************)
(* internal/storage/btree.go over the pager: a B+Tree whose nodes are      *)
(* pages, with splits on the way up, linked leaves and no merging.         *)
(*                                                                         *)
(* Each tree operation runs alone (the engine holds its lock), but it is   *)
(* not one step: it makes several pager calls, each of which can fail and  *)
(* some of which reach the file.  So one step here is one pager call with  *)
(* the computation around it, and the recursion of insert is an explicit   *)
(* stack of frames.  `pc' says which call comes next:                      *)
(*   visit    read node `cur' on the way down      scan   walk the leaves  *)
(*   alloc    allocate the right half of a split   newroot allocate a root *)
(*   write    write the nodes in `todo'            writeroot write the root*)
(*   unwind   return from insert to the caller     setroot  switch roots   *)
(*   flush    flush and return to the client       idle   no operation     *)
(*                                                                         *)
(* A key is a number (bytes.Compare is a total order) with a length, and a *)
(* value is any value with a length; sizes are the code's formulas.        *)
(***************************************************************************)
EXTENDS Pager, SequencesExt

CONSTANTS
  Keys,          \* keys, a set of numbers
  Values,        \* values
  KeyLen,        \* length in bytes of each key
  ValueLen,      \* length in bytes of each value
  maxKeySize,    \* 255 in the code
  maxValueSize,  \* 3840 in the code
  cellAreaSize,  \* 4089 in the code
  None,          \* no value
  MaxFaults      \* bound: I/O errors in a behaviour (0: the file is reliable)

VARIABLES
  pc,      \* control point of the operation in progress
  op,      \* the operation and its arguments
  cur,     \* page to be visited next, or page of the new root
  stack,   \* frames of insert: the node read, its page, the child taken
  todo,    \* node writes still to be made
  split,   \* what insert returns: the separator and new page, or NoSplit
  acc,     \* keys collected by a scan
  ret,     \* result of the last completed operation
  faults,  \* auxiliary: I/O errors so far, MaxFaults + 1 after a kill
  before   \* auxiliary: what the tree held when the operation began

treeVars == <<pc, op, cur, stack, todo, split, acc, ret, faults, before>>
vars == <<pagerVars, treeVars>>

ASSUME TreeAssumption ==
  /\ Keys \subseteq Nat
  /\ KeyLen \in [Keys -> Nat]
  /\ ValueLen \in [Values -> Nat]
  /\ maxKeySize \in Nat /\ maxValueSize \in Nat /\ cellAreaSize \in Nat
  /\ None \notin Values
  /\ MaxFaults \in Nat

-----------------------------------------------------------------------------
(* Nodes and their sizes.                                                  *)

LeafNode(keys, values, right) ==
  [nodeType |-> "leaf", keys |-> keys, values |-> values,
   children |-> <<>>, rightPtr |-> right]

InternalNode(keys, children, right) ==
  [nodeType |-> "internal", keys |-> keys, values |-> <<>>,
   children |-> children, rightPtr |-> right]

NodeType == [nodeType : {"leaf", "internal"}, keys : Seq(Keys),
             values : Seq(Values), children : Seq(1..PageLimit),
             rightPtr : 0..PageLimit]

(* No node is written as zeros: its first byte is its type, 1 or 2.        *)
ASSUME ZerosAssumption == Zeros \notin NodeType

IsLeaf(n) == n.nodeType = "leaf"

SumOf(s) == FoldLeft(LAMBDA total, x : total + x, 0, s)

leafNodeSize(n) ==
  SumOf([i \in DOMAIN n.keys |-> 2 + 2 + KeyLen[n.keys[i]] + ValueLen[n.values[i]]])

internalNodeSize(n) ==
  SumOf([i \in DOMAIN n.keys |->
           2 + KeyLen[n.keys[i]] + IF i <= Len(n.children) THEN 4 ELSE 0])

nodeSize(n) == IF IsLeaf(n) THEN leafNodeSize(n) ELSE internalNodeSize(n)

(* The page serializeNode builds.  Its first word is made of the type byte,
   the two bytes of the key count and the lowest byte of rightPtr.         *)
serializeNode(n) ==
  [word |-> (IF IsLeaf(n) THEN 2 ELSE 1) + 256 * Len(n.keys)
            + 16777216 * (n.rightPtr % 256),
   body |-> n]

(* The node on page p as deserializeNode recovers it; a page of zeros has no
   node type and is refused, and a page that is not in the file has none.  *)
NodeAt(p) == IF p \in DOMAIN filePages THEN View(p).body ELSE Zeros

IsNode(p) == NodeAt(p) # Zeros

(* Mutant of childIdx: a key equal to the separator goes to the left.      *)
childIdxStrict(n, k) ==
  CHOOSE i \in 1..(Len(n.keys) + 1) :
    /\ \A j \in 1..(i - 1) : n.keys[j] < k
    /\ i <= Len(n.keys) => k <= n.keys[i]

(* The loop that looks for the child: the first separator above the key.   *)
childIdx(n, k) ==
  CHOOSE i \in 1..(Len(n.keys) + 1) :
    /\ \A j \in 1..(i - 1) : n.keys[j] <= k
    /\ i <= Len(n.keys) => k < n.keys[i]

(* The loop of insertLeaf: the first key not below the new one.            *)
leafPos(n, k) ==
  CHOOSE i \in 1..(Len(n.keys) + 1) :
    /\ \A j \in 1..(i - 1) : n.keys[j] < k
    /\ i <= Len(n.keys) => k <= n.keys[i]

childAt(n, i) == IF i <= Len(n.children) THEN n.children[i] ELSE n.rightPtr

(* Positions at which search and deleteFromNode find the key in a leaf.    *)
matches(n, k) == {i \in DOMAIN n.keys : n.keys[i] = k}

HasKey(n, k) == matches(n, k) # {}

(* Mutant of leafWith: the value is appended while the key is inserted.    *)
leafWithAppended(n, k, v) ==
  LET i == leafPos(n, k) IN
  IF i \in matches(n, k)
    THEN [n EXCEPT !.values[i] = v]
    ELSE [n EXCEPT !.keys = InsertAt(@, i, k), !.values = Append(@, v)]

(* insertLeaf before the size check: replace the value or insert the pair. *)
leafWith(n, k, v) ==
  LET i == leafPos(n, k) IN
  IF i \in matches(n, k)
    THEN LeafNode(n.keys, ReplaceAt(n.values, i, v), n.rightPtr)
    ELSE LeafNode(InsertAt(n.keys, i, k), InsertAt(n.values, i, v), n.rightPtr)

leafWithout(n, k) ==
  LET i == Min(matches(n, k)) IN
  LeafNode(RemoveAt(n.keys, i), RemoveAt(n.values, i), n.rightPtr)

(* Mutant of internalWith: oldRight is overwritten and not kept as a child. *)
internalWithoutOldRight(n, i, s) ==
  IF i <= Len(n.children)
    THEN [n EXCEPT !.keys = InsertAt(@, i, s.key),
                   !.children = InsertAt(@, i + 1, s.child)]
    ELSE [n EXCEPT !.rightPtr = s.child]

(* insertInternal after child i split at s.key, its right half on s.child. *)
internalWith(n, i, s) ==
  IF i <= Len(n.children)
    THEN InternalNode(InsertAt(n.keys, i, s.key),
                      InsertAt(n.children, i + 1, s.child), n.rightPtr)
    ELSE InternalNode(InsertAt(n.keys, i, s.key),
                      Append(n.children, n.rightPtr), s.child)

(* Mutant of splitLeaf: the new leaf does not take over the link.          *)
splitLeafUnlinked(n, new) ==
  LET mid == Len(n.keys) \div 2
      len == Len(n.keys) IN
  [left  |-> LeafNode(SubSeq(n.keys, 1, mid), SubSeq(n.values, 1, mid), new),
   right |-> LeafNode(SubSeq(n.keys, mid + 1, len),
                      SubSeq(n.values, mid + 1, len), 0),
   key   |-> n.keys[mid + 1]]

(* Mutant of splitLeaf: the separator is the last key of the lower half.   *)
splitLeafLowSeparator(n, new) ==
  LET mid == Len(n.keys) \div 2
      len == Len(n.keys) IN
  [left  |-> LeafNode(SubSeq(n.keys, 1, mid), SubSeq(n.values, 1, mid), new),
   right |-> LeafNode(SubSeq(n.keys, mid + 1, len),
                      SubSeq(n.values, mid + 1, len), n.rightPtr),
   key   |-> n.keys[mid]]

(* splitLeaf: the upper half moves to page `new', linked after the lower.  *)
splitLeaf(n, new) ==
  LET mid == Len(n.keys) \div 2
      len == Len(n.keys) IN
  [left  |-> LeafNode(SubSeq(n.keys, 1, mid), SubSeq(n.values, 1, mid), new),
   right |-> LeafNode(SubSeq(n.keys, mid + 1, len),
                      SubSeq(n.values, mid + 1, len), n.rightPtr),
   key   |-> n.keys[mid + 1]]

(* splitInternal: the middle key moves up, its child ends the left half.   *)
splitInternal(n) ==
  LET mid == Len(n.keys) \div 2
      len == Len(n.keys) IN
  [left  |-> InternalNode(SubSeq(n.keys, 1, mid), SubSeq(n.children, 1, mid),
                          n.children[mid + 1]),
   right |-> InternalNode(SubSeq(n.keys, mid + 2, len),
                          SubSeq(n.children, mid + 2, Len(n.children)),
                          n.rightPtr),
   key   |-> n.keys[mid + 1]]

splitNode(n, new) == IF IsLeaf(n) THEN splitLeaf(n, new) ELSE splitInternal(n)

-----------------------------------------------------------------------------
(* A search from the root, where node(p) is what page p holds; a page without
   a node ends it.                                                         *)
Search(node(_), root, k) ==
  LET find[p \in 0..PageLimit] ==
        IF p = 0 THEN None
        ELSE IF node(p) = Zeros THEN None
        ELSE IF IsLeaf(node(p))
          THEN IF HasKey(node(p), k)
                 THEN node(p).values[Min(matches(node(p), k))] ELSE None
          ELSE find[childAt(node(p), childIdx(node(p), k))]
  IN find[root]

(* The keys a scan comes by: from the leftmost leaf along the leaf links.  *)
Chain(node(_), root) ==
  LET leftmost[p \in 0..PageLimit] ==
        IF p = 0 THEN 0
        ELSE IF node(p) = Zeros THEN 0
        ELSE IF IsLeaf(node(p)) THEN p ELSE leftmost[childAt(node(p), 1)]
      chain[p \in 0..PageLimit] ==
        IF p = 0 THEN {}
        ELSE IF node(p) = Zeros THEN {}
        ELSE Range(node(p).keys) \cup chain[node(p).rightPtr]
  IN chain[leftmost[root]]

(* The map a client sees that calls Get, and the keys it sees with Keys.   *)
Lookup(k) == Search(NodeAt, header.RootPageID, k)

ListedKeys == Chain(NodeAt, header.RootPageID)

TreeMap ==
  LET present == {k \in Keys : Lookup(k) # None}
  IN [k \in present |-> Lookup(k)]

(* The same for a process that would start on the file as it is.           *)
NodeOnFile(p) == IF p \in DOMAIN filePages THEN filePages[p].body ELSE Zeros

FileLookup(k) == Search(NodeOnFile, fileHeader.RootPageID, k)

FileListedKeys == Chain(NodeOnFile, fileHeader.RootPageID)

FileUpToDate ==
  /\ \A k \in Keys : FileLookup(k) = Lookup(k)
  /\ FileListedKeys = ListedKeys

NoOp == [kind |-> "none", key |-> None, value |-> None]
OpenOp == [kind |-> "open", key |-> None, value |-> None]
NoSplit == [key |-> None, child |-> 0]
Nothing == [dict |-> [k \in {} |-> None], listed |-> {}, saved |-> TRUE]

-----------------------------------------------------------------------------
(* Calls from the client.  Every operation starts at the root page.        *)

Call(kind, k, v) ==
  /\ pc = "idle"
  /\ pc' = "visit"
  /\ op' = [kind |-> kind, key |-> k, value |-> v]
  /\ cur' = header.RootPageID
  /\ before' = [dict |-> TreeMap, listed |-> ListedKeys, saved |-> FileUpToDate]
  /\ UNCHANGED <<pagerVars, stack, todo, split, acc, ret, faults>>

(* The operation returns `out' to the client and its locals are gone.      *)
Finish(out) ==
  /\ pc' = "idle"
  /\ ret' = [op |-> op, out |-> out]
  /\ op' = NoOp
  /\ cur' = 0
  /\ stack' = <<>>
  /\ todo' = <<>>
  /\ split' = NoSplit
  /\ acc' = <<>>
  /\ before' = Nothing

Return(out) == Finish(out) /\ UNCHANGED faults

(* The argument checks at the start of Put.                                *)
Acceptable(k, v) ==
  /\ KeyLen[k] \in 1..maxKeySize
  /\ ValueLen[v] <= maxValueSize

Put(k, v) == Acceptable(k, v) /\ Call("put", k, v)

PutRejected(k, v) ==
  /\ pc = "idle"
  /\ ~Acceptable(k, v)
  /\ ret' = [op |-> [kind |-> "put", key |-> k, value |-> v], out |-> "rejected"]
  /\ UNCHANGED <<pagerVars, pc, op, cur, stack, todo, split, acc, faults, before>>

Get(k) == Call("get", k, None)
Delete(k) == Call("delete", k, None)
KeysScan == Call("keys", None, None)
Depth == Call("depth", None, None)

-----------------------------------------------------------------------------
(* The way down: insert, search, deleteFromNode, findLeftmostLeaf and depth
   all read a node and, if it is internal, continue with one child.        *)

Descend ==
  /\ pc = "visit"
  /\ ReadPage(cur)
  /\ IsNode(cur) /\ ~IsLeaf(NodeAt(cur))
  /\ LET n == NodeAt(cur)
         i == IF op.kind \in {"keys", "depth"} THEN 1 ELSE childIdx(n, op.key)
     IN /\ stack' = Append(stack, [page |-> cur, node |-> n, idx |-> i])
        /\ cur' = childAt(n, i)
  /\ UNCHANGED <<pc, op, todo, split, acc, ret, faults, before>>

AtLeaf(kind) ==
  /\ pc = "visit"
  /\ op.kind = kind
  /\ ReadPage(cur)
  /\ IsNode(cur) /\ IsLeaf(NodeAt(cur))

(* insertLeaf.  An update of an existing key goes straight to writeNode; only
   an insertion is measured and, if the leaf is too heavy, split.          *)
InsertLeaf ==
  /\ AtLeaf("put")
  /\ LET n == NodeAt(cur)
         m == leafWith(n, op.key, op.value)
     IN /\ todo' = <<[page |-> cur, node |-> m]>>
        /\ pc' = IF ~HasKey(n, op.key) /\ leafNodeSize(m) > cellAreaSize
                 THEN "alloc" ELSE "write"
  /\ UNCHANGED <<op, cur, stack, split, acc, ret, faults, before>>

SearchLeaf ==
  /\ AtLeaf("get")
  /\ LET n == NodeAt(cur)
     IN Return(IF HasKey(n, op.key) THEN n.values[Min(matches(n, op.key))]
               ELSE "notfound")

DeleteLeaf ==
  /\ AtLeaf("delete")
  /\ HasKey(NodeAt(cur), op.key)
  /\ todo' = <<[page |-> cur, node |-> leafWithout(NodeAt(cur), op.key)]>>
  /\ pc' = "write"
  /\ UNCHANGED <<op, cur, stack, split, acc, ret, faults, before>>

DeleteMissing ==
  /\ AtLeaf("delete")
  /\ ~HasKey(NodeAt(cur), op.key)
  /\ Return("notfound")

DepthLeaf == AtLeaf("depth") /\ Return(Len(stack) + 1)

LeftmostLeaf ==
  /\ AtLeaf("keys")
  /\ pc' = "scan"
  /\ UNCHANGED <<op, cur, stack, todo, split, acc, ret, faults, before>>

(* One turn of the loop of Keys (and of ForEach, which Count uses).        *)
ScanLeaf ==
  /\ pc = "scan"
  /\ ReadPage(cur)
  /\ IsNode(cur)
  /\ LET n == NodeAt(cur) IN
     IF n.rightPtr = 0
       THEN Return(acc \o n.keys)
       ELSE /\ acc' = acc \o n.keys
            /\ cur' = n.rightPtr
            /\ UNCHANGED <<pc, op, stack, todo, split, ret, faults, before>>

(* Mutant of BadNode: the page is read again until it holds a node.        *)
BadNodeRetries ==
  /\ pc \in {"visit", "scan"}
  /\ ReadPage(cur)
  /\ ~IsNode(cur)
  /\ UNCHANGED treeVars

(* deserializeNode refuses a page that holds no node.                      *)
BadNode ==
  /\ pc \in {"visit", "scan"}
  /\ ReadPage(cur)
  /\ ~IsNode(cur)
  /\ Return("error")

-----------------------------------------------------------------------------
(* Writes and the way back up.                                             *)

(* splitLeaf and splitInternal: allocate, then write both halves.          *)
AllocSplit ==
  /\ pc = "alloc"
  /\ AllocatePage
  /\ LET s == splitNode(todo[1].node, NextPage)
     IN /\ todo' = <<[page |-> todo[1].page, node |-> s.left],
                     [page |-> NextPage, node |-> s.right]>>
        /\ split' = [key |-> s.key, child |-> NextPage]
  /\ pc' = "write"
  /\ UNCHANGED <<op, cur, stack, acc, ret, faults, before>>

(* writeNode: one page into the buffer.                                    *)
WriteNode ==
  /\ pc \in {"write", "writeroot"}
  /\ ~(nodeSize(todo[1].node) > cellAreaSize)
  /\ WritePage(todo[1].page, serializeNode(todo[1].node))
  /\ todo' = Tail(todo)
  /\ pc' = IF Len(todo) > 1 THEN pc
           ELSE IF pc = "write" THEN "unwind" ELSE "setroot"
  /\ UNCHANGED <<op, cur, stack, split, acc, ret, faults, before>>

(* serializeNode refuses a node that does not fit: the operation fails there,
   with whatever it has written before.                                    *)
WriteOverflow ==
  /\ pc \in {"write", "writeroot"}
  /\ nodeSize(todo[1].node) > cellAreaSize
  /\ Return("error")
  /\ UNCHANGED pagerVars

(* Mutant of UnwindDone: only Put flushes.                                 *)
UnwindDeleteUnflushed ==
  /\ pc = "unwind"
  /\ split = NoSplit
  /\ UNCHANGED pagerVars
  /\ IF op.kind = "delete"
       THEN Return("ok")
       ELSE pc' = "flush" /\ UNCHANGED <<op, cur, stack, todo, split, acc, ret, faults, before>>

(* insert returns nil to every caller: flush.                              *)
UnwindDone ==
  /\ pc = "unwind"
  /\ split = NoSplit
  /\ pc' = "flush"
  /\ UNCHANGED <<pagerVars, op, cur, stack, todo, split, acc, ret, faults, before>>

(* insert returns a separator to insertInternal, which adds it to the node it
   read on the way down, and splits that node too if it became too heavy.  *)
UnwindInternal ==
  /\ pc = "unwind"
  /\ split # NoSplit
  /\ stack # <<>>
  /\ LET f == Last(stack)
         n == internalWith(f.node, f.idx, split)
     IN /\ todo' = <<[page |-> f.page, node |-> n]>>
        /\ pc' = IF internalNodeSize(n) > cellAreaSize THEN "alloc" ELSE "write"
  /\ split' = NoSplit
  /\ stack' = Front(stack)
  /\ UNCHANGED <<pagerVars, op, cur, acc, ret, faults, before>>

(* Mutant of UnwindRoot: every split grows a root, at whatever level.      *)
UnwindRootAnyLevel ==
  /\ pc = "unwind"
  /\ split # NoSplit
  /\ pc' = "newroot"
  /\ UNCHANGED <<pagerVars, op, cur, stack, todo, split, acc, ret, faults, before>>

(* The root itself was split.                                              *)
UnwindRoot ==
  /\ pc = "unwind"
  /\ split # NoSplit
  /\ stack = <<>>
  /\ pc' = "newroot"
  /\ UNCHANGED <<pagerVars, op, cur, stack, todo, split, acc, ret, faults, before>>

(* The new root of Put, above the old root and its right half; or, in
   NewBPlusTree, the first root, an empty leaf.                            *)
AllocRoot ==
  /\ pc = "newroot"
  /\ AllocatePage
  /\ cur' = NextPage
  /\ todo' = <<[page |-> NextPage,
                node |-> IF op.kind = "open" THEN LeafNode(<<>>, <<>>, 0)
                         ELSE InternalNode(<<split.key>>, <<header.RootPageID>>,
                                           split.child)]>>
  /\ split' = NoSplit
  /\ pc' = "writeroot"
  /\ UNCHANGED <<op, stack, acc, ret, faults, before>>

(* Put flushes after the switch of roots; NewBPlusTree does not.           *)
SetRoot ==
  /\ pc = "setroot"
  /\ SetRootPage(cur)
  /\ IF op.kind = "open"
       THEN Return("ok")
       ELSE pc' = "flush" /\ UNCHANGED <<op, cur, stack, todo, split, acc, ret, faults, before>>

FlushTree ==
  /\ pc = "flush"
  /\ Flush
  /\ Return("ok")

(* Pager errors end the operation where it is.                             *)
PagerCallFails ==
  \/ /\ pc \in {"visit", "scan"}
     /\ cur \notin DOMAIN buffer
     /\ UNCHANGED pagerVars
  \/ pc \in {"alloc", "newroot"} /\ AllocatePageFails
  \/ pc = "setroot" /\ SetRootPageFails(cur)
  \/ pc = "flush" /\ FlushFails

PagerError ==
  /\ op.kind # "open"
  /\ faults < MaxFaults
  /\ faults' = faults + 1
  /\ PagerCallFails
  /\ Finish("error")

(* A file that has reached PageLimit cannot grow, however reliable it is.  *)
FileFull ==
  /\ op.kind # "open"
  /\ pc \in {"alloc", "newroot"}
  /\ header.PageCount = PageLimit
  /\ AllocatePageFails
  /\ Return("error")

(* A clean restart: close, then OpenPager and NewBPlusTree, which finds the
   root in the header and does nothing.                                    *)
CloseTree ==
  /\ pc = "idle"
  /\ Close
  /\ pc' = "closed"
  /\ UNCHANGED <<op, cur, stack, todo, split, acc, ret, faults, before>>

(* A kill uses up what is left of the bound on failures.                   *)
NeverKilled == faults <= MaxFaults

(* The process is killed.  The file keeps what was written to it: the header
   as it was last changed and, of the dirty pages, any part when Flush was
   under way.  (A page appended by an AllocatePage that had not yet written
   the header lies beyond the page count and is appended again.)           *)
Crash ==
  /\ pc # "closed"
  /\ faults < MaxFaults
  /\ faults' = MaxFaults + 1
  /\ IF pc = "flush"
       THEN \E S \in SUBSET (dirty \cap DOMAIN buffer) : WriteBack(S)
       ELSE UNCHANGED filePages
  /\ header' = fileHeader
  /\ buffer' = [p \in {} |-> ZeroPage]
  /\ dirty' = {}
  /\ open' = FALSE
  /\ UNCHANGED <<fileHeader, owned>>
  /\ pc' = "closed"
  /\ op' = NoOp /\ cur' = 0 /\ stack' = <<>> /\ todo' = <<>>
  /\ split' = NoSplit /\ acc' = <<>> /\ before' = Nothing
  /\ UNCHANGED ret

(* OpenEngine: NewBPlusTree makes a root if the header names none, and takes
   the tree as it finds it otherwise.                                      *)
ReopenTree ==
  /\ pc = "closed"
  /\ OpenPager
  /\ IF fileHeader.RootPageID = 0
       THEN pc' = "newroot" /\ op' = OpenOp
       ELSE pc' = "idle" /\ UNCHANGED op
  /\ UNCHANGED <<cur, stack, todo, split, acc, ret, faults, before>>

-----------------------------------------------------------------------------
(* NewBPlusTree on a new file begins by allocating the root.               *)
TreeInit ==
  /\ PagerInit
  /\ pc = "newroot"
  /\ op = OpenOp
  /\ cur = 0 /\ stack = <<>> /\ todo = <<>> /\ split = NoSplit /\ acc = <<>>
  /\ ret = [op |-> NoOp, out |-> "none"]
  /\ faults = 0
  /\ before = Nothing

(* What the running operation does next.                                   *)
Step ==
  \/ Descend \/ InsertLeaf \/ SearchLeaf \/ DeleteLeaf \/ DeleteMissing
  \/ DepthLeaf \/ LeftmostLeaf \/ ScanLeaf \/ BadNode
  \/ AllocSplit \/ WriteNode \/ WriteOverflow
  \/ UnwindDone \/ UnwindInternal \/ UnwindRoot
  \/ AllocRoot \/ SetRoot \/ FlushTree
  \/ PagerError \/ FileFull

Client ==
  \/ \E k \in Keys :
       \/ \E v \in Values : Put(k, v) \/ PutRejected(k, v)
       \/ Get(k)
       \/ Delete(k)
  \/ KeysScan
  \/ Depth

TreeNext == Step \/ Client

TreeSpec == TreeInit /\ [][TreeNext]_vars

TreeSpecRestart == TreeInit /\ [][TreeNext \/ CloseTree \/ ReopenTree]_vars

(* The process may be killed at any moment, and started again.             *)
TreeFairSpec == TreeInit /\ [][TreeNext \/ Crash \/ ReopenTree]_vars /\ WF_vars(Step)

-----------------------------------------------------------------------------
Frame == [page : 1..PageLimit, node : NodeType, idx : Nat]
NodeWrite == [page : 1..PageLimit, node : NodeType]

TreeTypeOK ==
  /\ PagerTypeOK
  /\ pc \in {"idle", "visit", "scan", "alloc", "write", "unwind", "newroot",
             "writeroot", "setroot", "flush", "closed"}
  /\ op.kind \in {"none", "open", "put", "get", "delete", "keys", "depth"}
  /\ cur \in 0..PageLimit
  /\ stack \in Seq(Frame)
  /\ todo \in Seq(NodeWrite)
  /\ split.key \in Keys \cup {None} /\ split.child \in 0..PageLimit
  /\ acc \in Seq(Keys)
  /\ faults \in 0..(MaxFaults + 1)

(* What the tree holds; while an operation runs, what it held before it.   *)
MapNow == IF pc \in {"idle", "closed"} THEN TreeMap ELSE before.dict

KV == INSTANCE KVMap WITH dict <- MapNow

(* The tree is a map: seen at the moments when operations return, through the
   results of Get, Put, Delete and Keys, the tree on its pages behaves as the
   abstract map.  Get walks down from the root and Keys along the leaf links,
   so both structures must agree after every split, and no accepted Put may
   fail.                                                                   *)
KVMapSpec == KV!Spec

(* The leaf where a search for the key k ends.                             *)
LeafOf(k) ==
  LET leaf[p \in 0..PageLimit] ==
        IF p = 0 THEN 0
        ELSE IF ~IsNode(p) THEN 0
        ELSE IF IsLeaf(NodeAt(p)) THEN p
        ELSE leaf[childAt(NodeAt(p), childIdx(NodeAt(p), k))]
  IN leaf[header.RootPageID]

PagesBelow(page) ==
  LET below[p \in 1..PageLimit] ==
        IF ~IsNode(p) THEN {}
        ELSE IF IsLeaf(NodeAt(p)) THEN {p}
        ELSE LET n == NodeAt(p) IN
             {p} \cup UNION {below[childAt(n, i)] : i \in 1..(Len(n.keys) + 1)}
  IN below[page]

(* The lengths of the ways down from a page; one may end on a page of zeros. *)
DepthsBelow(page) ==
  LET depths[p \in 1..PageLimit] ==
        IF ~IsNode(p) THEN {0}
        ELSE IF IsLeaf(NodeAt(p)) THEN {1}
        ELSE LET n == NodeAt(p) IN
             {d + 1 : d \in UNION {depths[childAt(n, i)] : i \in 1..(Len(n.keys) + 1)}}
  IN depths[page]

(* Every leaf belongs to the searches for some keys, and its rightPtr leads to
   the leaf of the next larger keys: the leaves that a scan visits are those
   that searches find, in their order.                                     *)
ChainMatchesTree ==
  pc = "idle" =>
    /\ \A p \in owned : IsLeaf(NodeAt(p)) => \E k \in Keys : LeafOf(k) = p
    /\ \A k \in Keys :
         LET later == {x \in Keys : x > k /\ LeafOf(x) # LeafOf(k)} IN
         NodeAt(LeafOf(k)).rightPtr = IF later = {} THEN 0 ELSE LeafOf(Min(later))

(* All leaves are equally deep, so the leftmost path that Depth follows gives
   the depth of the tree.                                                  *)
Balanced == pc = "idle" => Cardinality(DepthsBelow(header.RootPageID)) = 1

(* Every page the tree has allocated is part of the tree.                  *)
NoOrphanPages == pc = "idle" => PagesBelow(header.RootPageID) = owned

(* Every operation returns, on whatever tree failures and kills have left: no
   walk down, along the leaves or back up runs forever.                    *)
OperationsReturn == pc \notin {"idle", "closed"} ~> pc \in {"idle", "closed"}

(* The end of an operation that runs on the tree.                          *)
Completes == pc \notin {"idle", "closed"} /\ pc' = "idle"

(* KEYS never loses a key to an I/O error: whatever call fails in the middle
   of an operation, the keys other than the one it was about stay in the leaf
   chain (even those a half-done split has hidden from Get).               *)
KeysSurviveErrors ==
  [][Completes => before.listed \ {op.key} \subseteq ListedKeys']_vars

(* A clean restart loses no key from KEYS, also after I/O errors have left the
   header of the file behind the one in memory (a root switch that did not
   reach the file sends the new process back to the old root).             *)
RestartKeepsKeys ==
  [][pc = "closed" /\ pc' = "idle" => ListedKeys' = ListedKeys]_vars

(* Whatever fails in the middle of an operation (I/O, or a node that does not
   fit its page), Get never returns a value that was not put under that key:
   each key has the value it had, or is not found, or, if it is the key of the
   operation, has its new value.  (A kill may do worse: a torn flush can leave
   a parent in the file that does not fit its children.)                   *)
NoForeignValue ==
  [][NeverKilled /\ Completes =>
       \A k \in Keys :
         \/ Lookup(k)' = None
         \/ k \in DOMAIN before.dict /\ Lookup(k)' = before.dict[k]
         \/ op.kind = "put" /\ k = op.key /\ Lookup(k)' = op.value]_vars

(* The value of a key when the operation in progress began, or now if there is
   none; and the keys listed then.                                         *)
Held(k) ==
  IF pc = "idle" THEN Lookup(k)
  ELSE IF k \in DOMAIN before.dict THEN before.dict[k] ELSE None

HeldKeys == IF pc = "idle" THEN ListedKeys ELSE before.listed

(* An operation that reports success does exactly what it says, for Get as for
   Keys, and nothing to any other key, also on a tree in which failed operations have
   left half a split behind (a kill may do worse).                         *)
AcknowledgedIsExact ==
  [][NeverKilled /\ Completes /\ op.kind \in {"put", "get", "delete"}
       /\ ret'.out # "error" =>
       /\ \A k \in Keys :
            Lookup(k)' = IF k # op.key \/ op.kind = "get" THEN Held(k)
                         ELSE IF op.kind = "put" THEN op.value ELSE None
       /\ op.kind = "get" =>
            ret'.out = IF Held(op.key) = None THEN "notfound" ELSE Held(op.key)]_vars

(* While nothing has failed, the file alone gives the same map and the same
   listing as the running process: an operation that has returned survives a
   kill, and one in progress does not touch the file's tree before its flush
   (except that the switch of roots of a growing tree precedes it).        *)
FileHoldsAcknowledged ==
  faults = 0 /\ pc # "flush" =>
    /\ \A k \in Keys : FileLookup(k) = Held(k)
    /\ FileListedKeys = HeldKeys

Killed == NeverKilled /\ ~NeverKilled'

(* "An unclean shutdown mid-write can corrupt the file" (README.md:80), but not
   arbitrarily: if the file was up to date when the operation began that a kill
   cuts short, a new process finds each key as it was, or with the value the
   operation was putting, or not at all; and the last only if the operation had
   more than one page to write.                                            *)
KillDamageIsBounded ==
  [][Killed /\ (IF pc = "idle" THEN FileUpToDate ELSE before.saved) =>
       LET new == IF op.kind = "put" THEN op.value ELSE None IN
       \A k \in Keys :
         \/ FileLookup(k)' = Held(k)
         \/ k = op.key /\ FileLookup(k)' = new
         \/ Cardinality(dirty) > 1 /\ FileLookup(k)' = None]_vars

(* "4089 bytes for the actual data. if we go over this we have to split"
   (btree.go:25): a Put whose arguments are accepted does not fail for lack of
   room in a page.                                                         *)
AcceptedPutSucceeds ==
  [][Completes /\ op.kind = "put" => ret'.out # "error"]_vars

(* "cut the leaf in half. right half becomes a new page." (btree.go:226): a Put
   leaves every other key where Get finds it.                              *)
PutKeepsOtherKeys ==
  [][Completes /\ op.kind = "put" =>
       \A k \in DOMAIN before.dict \ {op.key} : Lookup(k)' = before.dict[k]]_vars

=============================================================================

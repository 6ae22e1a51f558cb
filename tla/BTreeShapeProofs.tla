-------------------------- MODULE BTreeShapeProofs --------------------------
(***************************************************************************)
(* Proofs about the shape of the tree: the list of its leaves, which Keys  *)
(* walks, whatever errors have interrupted whatever splits, and across     *)
(* clean restarts.                                                         *)
(***************************************************************************)
EXTENDS BTreeMapProofs

-----------------------------------------------------------------------------
(* The list of the leaves.  A memory m gives what is on each page.         *)

(* From the page `root' the first children W[n], ..., W[0] lead to `leaf'. *)
Leftmost(m, S, W, n, root, leaf) ==
  /\ n \in Nat /\ W \in [0..n -> S] /\ W[n] = root /\ W[0] = leaf
  /\ m[leaf] # Zeros /\ IsLeaf(m[leaf])
  /\ \A i \in 1..n : /\ m[W[i]] # Zeros /\ ~IsLeaf(m[W[i]])
                     /\ childAt(m[W[i]], 1) = W[i - 1]

LeftmostIs(m, S, root, leaf) == \E W, n : Leftmost(m, S, W, n, root, leaf)

(* The leaves C[0], ..., C[n] are linked in this order.  The last link is zero,
   or names a page without a node that no write is pending for (T): the right
   half of a split that did not fit its page.                              *)
LeafList(m, S, T, C, n) ==
  /\ n \in Nat /\ C \in [0..n -> S]
  /\ \A i \in 0..n : m[C[i]] # Zeros /\ IsLeaf(m[C[i]])
  /\ \A i \in 0..(n - 1) : m[C[i]].rightPtr = C[i + 1]
  /\ \A i, j \in 0..n : C[i] = C[j] => i = j
  /\ LET end == m[C[n]].rightPtr IN
     end = 0 \/ (end \in S /\ m[end] = Zeros /\ end \notin T)

KeysIn(n) == Range(n.keys)

KeysOf(m, C, n) == UNION {KeysIn(m[C[i]]) : i \in 0..n}

NodeMem == [p \in Pages0 |-> NodeAt(p)]

(* What a scan returns.                                                    *)
ChainIsList ==
  \A root, C, n : LeftmostIs(NodeMem, owned, root, C[0]) /\ LeafList(NodeMem, owned, {}, C, n)
    => Chain(NodeAt, root) = KeysOf(NodeMem, C, n)

LEMMA ChainNow == TreeInv => ChainIsList
<1> SUFFICES ASSUME TreeInv, NEW root, NEW C, NEW n,
                    LeftmostIs(NodeMem, owned, root, C[0]),
                    LeafList(NodeMem, owned, {}, C, n)
             PROVE  Chain(NodeAt, root) = KeysOf(NodeMem, C, n)
  BY DEF ChainIsList
<1>0. PICK W, w : Leftmost(NodeMem, owned, W, w, root, C[0])
  BY DEF LeftmostIs
<1>1. /\ \A p \in Pages0 : NodeAt(p) = Zeros \/ NodeOver(NodeAt(p), owned)
      /\ owned \subseteq 1..PageLimit
  BY InvFacts DEF Pages0
<1> DEFINE stop == {p \in Pages0 : p = 0 \/ NodeAt(p) = Zeros}
           inner == {p \in Pages0 : p = 0 \/ NodeAt(p) = Zeros \/ IsLeaf(NodeAt(p))}
           value == [p \in Pages0 |-> KeysIn(NodeAt(p))]
           link == [p \in Pages0 |-> NodeAt(p).rightPtr]
           end == [p \in Pages0 |-> IF p = 0 THEN 0 ELSE IF NodeAt(p) = Zeros THEN 0 ELSE p]
           first == [p \in Pages0 |-> childAt(NodeAt(p), 1)]
           Rule1(f) == f = [p \in 0..PageLimit |->
                              IF p = 0 THEN 0
                              ELSE IF NodeAt(p) = Zeros THEN 0
                              ELSE IF IsLeaf(NodeAt(p)) THEN p ELSE f[childAt(NodeAt(p), 1)]]
           Rule2(f) == f = [p \in 0..PageLimit |->
                              IF p = 0 THEN {}
                              ELSE IF NodeAt(p) = Zeros THEN {}
                              ELSE Range(NodeAt(p).keys) \cup f[NodeAt(p).rightPtr]]
           leftmost == CHOOSE f : Rule1(f)
           chain == CHOOSE f : Rule2(f)
<1>2. \A p \in Pages0 \ stop : link[p] \in Pages0
  BY <1>1, NodeFacts DEF Pages0
<1>3. \A p \in Pages0 \ inner : first[p] \in Pages0
  <2> SUFFICES ASSUME NEW p \in Pages0 \ inner PROVE childAt(NodeAt(p), 1) \in Pages0
    OBVIOUS
  <2>1. PICK m : m = NodeAt(p) /\ NodeOver(m, owned) /\ ~IsLeaf(m)
    BY <1>1
  <2>2. 1 \in 1..(Len(m.keys) + 1)
    BY <2>1, NodeFacts
  <2>3. childAt(m, 1) \in owned
    BY <2>1, <2>2, ChildAtFacts
  <2>4. \A c \in owned : c \in Pages0
    BY <1>1 DEF Pages0
  <2> QED BY <2>1, <2>3, <2>4
<1>4. Rule1(leftmost)
  <2>1. PICK f : IsWalk(f, Pages0, inner, end, first)
    <3> HIDE DEF inner, end, first
    <3> QED BY <1>3, WalkRecursion
  <2>2. Rule1(f)
    BY <2>1 DEF IsWalk, Pages0
  <2> HIDE DEF Rule1
  <2> QED BY <2>2
<1>5. Rule2(chain)
  <2>1. PICK f : IsCollection(f, Pages0, stop, value, link)
    <3> HIDE DEF stop, value, link
    <3> QED BY <1>2, CollectRecursion
  <2>2. Rule2(f)
    BY <2>1 DEF IsCollection, Pages0, KeysIn
  <2> HIDE DEF Rule2
  <2> QED BY <2>2
<1>6. Chain(NodeAt, root) = chain[leftmost[root]]
  BY DEF Chain
<1> HIDE DEF leftmost, chain
<1>7. \A p \in Pages0 : leftmost[p] = IF p = 0 THEN 0
                                      ELSE IF NodeAt(p) = Zeros THEN 0
                                      ELSE IF IsLeaf(NodeAt(p)) THEN p
                                      ELSE leftmost[childAt(NodeAt(p), 1)]
  BY <1>4 DEF Pages0
<1>8. \A p \in Pages0 : chain[p] = IF p = 0 THEN {}
                                   ELSE IF NodeAt(p) = Zeros THEN {}
                                   ELSE KeysIn(NodeAt(p)) \cup chain[NodeAt(p).rightPtr]
  BY <1>5 DEF Pages0, KeysIn
<1>9. \A p \in owned : p \in Pages0 /\ p # 0 /\ NodeMem[p] = NodeAt(p)
  BY <1>1 DEF Pages0, NodeMem
<1>10. leftmost[root] = C[0]
  <2> DEFINE T == {i \in Nat : i \in 0..w => leftmost[W[i]] = C[0]}
  <2>1. /\ w \in Nat /\ \A i \in 0..w : W[i] \in owned
        /\ W[w] = root /\ W[0] = C[0]
        /\ NodeMem[C[0]] # Zeros /\ IsLeaf(NodeMem[C[0]])
        /\ \A i \in 1..w : /\ NodeMem[W[i]] # Zeros /\ ~IsLeaf(NodeMem[W[i]])
                           /\ childAt(NodeMem[W[i]], 1) = W[i - 1]
    BY <1>0 DEF Leftmost
  <2>2. 0 \in T
    <3>1. 0 \in 0..w /\ W[0] \in owned
      BY <2>1
    <3> QED BY <1>7, <1>9, <2>1, <3>1
  <2>3. ASSUME NEW i \in Nat, i \in T PROVE i + 1 \in T
    <3> SUFFICES ASSUME i + 1 \in 0..w PROVE leftmost[W[i + 1]] = C[0]
      OBVIOUS
    <3>1. i + 1 \in 1..w /\ i \in 0..w /\ i + 1 - 1 = i
      BY <2>1
    <3>2. PICK p : p = W[i + 1] /\ p \in owned
      BY <2>1
    <3>3. /\ NodeAt(p) # Zeros /\ ~IsLeaf(NodeAt(p)) /\ childAt(NodeAt(p), 1) = W[i]
      BY <1>9, <2>1, <3>1, <3>2
    <3>4. leftmost[p] = leftmost[W[i]]
      BY <1>7, <1>9, <3>2, <3>3
    <3> QED BY <2>3, <3>1, <3>2, <3>4
  <2> HIDE DEF T
  <2>4. Nat \subseteq T
    BY <2>2, <2>3, SetInduction
  <2>5. w \in T
    BY <2>1, <2>4
  <2> QED BY <2>1, <2>5 DEF T
<1>11. chain[C[0]] = KeysOf(NodeMem, C, n)
  <2> DEFINE T == {i \in Nat : i \in 0..n =>
                     chain[C[n - i]] = UNION {KeysIn(NodeMem[C[j]]) : j \in (n - i)..n}}
  <2>1. /\ n \in Nat /\ \A i \in 0..n : C[i] \in owned
        /\ \A i \in 0..n : NodeMem[C[i]] # Zeros
        /\ \A i \in 0..(n - 1) : NodeMem[C[i]].rightPtr = C[i + 1]
    BY DEF LeafList
  <2>2. \A i \in 0..n : chain[C[i]] = KeysIn(NodeMem[C[i]]) \cup chain[NodeMem[C[i]].rightPtr]
    BY <1>8, <1>9, <2>1
  <2>3. 0 \in T
    <3>1. n \in 0..n /\ n - 0 = n /\ \A j \in n..n : j = n
      BY <2>1
    <3>2. PICK e : e = NodeMem[C[n]].rightPtr
      OBVIOUS
    <3>3. e = 0 \/ (e \in owned /\ NodeMem[e] = Zeros)
      BY <3>2 DEF LeafList
    <3>4. 0 \in Pages0
      BY LimitAssumption DEF Pages0
    <3>5. chain[e] = {}
      BY <1>8, <1>9, <3>3, <3>4
    <3>6. chain[C[n]] = KeysIn(NodeMem[C[n]])
      BY <2>2, <3>1, <3>2, <3>5
    <3>7. UNION {KeysIn(NodeMem[C[j]]) : j \in n..n} = KeysIn(NodeMem[C[n]])
      BY <3>1
    <3> QED BY <3>1, <3>6, <3>7
  <2>4. ASSUME NEW i \in Nat, i \in T PROVE i + 1 \in T
    <3> SUFFICES ASSUME i + 1 \in 0..n
                 PROVE  chain[C[n - (i + 1)]]
                          = UNION {KeysIn(NodeMem[C[j]]) : j \in (n - (i + 1))..n}
      OBVIOUS
    <3>1. PICK a : a = n - (i + 1) /\ a \in 0..(n - 1) /\ a \in 0..n /\ a + 1 = n - i /\ i \in 0..n
      BY <2>1
    <3>2. chain[C[a + 1]] = UNION {KeysIn(NodeMem[C[j]]) : j \in (a + 1)..n}
      BY <2>4, <3>1
    <3>3. chain[C[a]] = KeysIn(NodeMem[C[a]]) \cup chain[C[a + 1]]
      BY <2>1, <2>2, <3>1
    <3>4. \A j : j \in a..n <=> j = a \/ j \in (a + 1)..n
      BY <2>1, <3>1
    <3>5. chain[C[a]] = UNION {KeysIn(NodeMem[C[j]]) : j \in a..n}
      BY <3>2, <3>3, <3>4
    <3> QED BY <3>1, <3>5
  <2> HIDE DEF T
  <2>5. Nat \subseteq T
    BY <2>3, <2>4, SetInduction
  <2>6. n \in T
    BY <2>1, <2>5
  <2>7. n \in 0..n /\ n - n = 0
    BY <2>1
  <2>8. chain[C[0]] = UNION {KeysIn(NodeMem[C[j]]) : j \in 0..n}
    BY <2>6, <2>7 DEF T
  <2> QED BY <2>8 DEF KeysOf
<1> QED BY <1>6, <1>10, <1>11

LEMMA ChainNext == TreeInv' => ChainIsList'
BY ChainNow, PTL

-----------------------------------------------------------------------------
(* The invariant, with clean restarts.  No write changes whether a page is a
   leaf, nor the first child of an internal node, so the leftmost leaf is always
   the same, from the root in memory and from the one in the file.         *)

Shape(old, n) ==
  /\ old # Zeros /\ (IsLeaf(old) <=> IsLeaf(n))
  /\ ~IsLeaf(n) => childAt(old, 1) = childAt(n, 1)

(* The edit of a leaf keeps its link and every key but the operation's.    *)
Edit(old, n) ==
  IsLeaf(n) => n.rightPtr = old.rightPtr /\ KeysIn(old) \ {op.key} \subseteq KeysIn(n)

(* So do its halves together, when it is split.                            *)
HalvesEdit(old, left, right, new) ==
  IsLeaf(left) =>
    /\ IsLeaf(right) /\ left.rightPtr = new /\ right.rightPtr = old.rightPtr
    /\ KeysIn(old) \ {op.key} \subseteq KeysIn(left) \cup KeysIn(right)

RootAbove(n) ==
  /\ op.kind = "open" => n = LeafNode(<<>>, <<>>, 0)
  /\ op.kind # "open" => ~IsLeaf(n) /\ childAt(n, 1) = header.RootPageID

(* The right half is all that remains to be written of a split.            *)
RightHalf == pc = "write" /\ split # NoSplit /\ Len(todo) = 1

PendingOK ==
  /\ pc \in {"idle", "closed", "visit", "scan", "flush"} => todo = <<>> /\ split = NoSplit
  /\ pc \in {"unwind", "newroot", "setroot"} => todo = <<>>
  /\ pc = "alloc" => split = NoSplit
  /\ pc \in {"alloc", "write"} /\ split = NoSplit =>
       /\ Len(todo) = 1
       /\ Shape(NodeAt(todo[1].page), todo[1].node)
       /\ Edit(NodeAt(todo[1].page), todo[1].node)
  /\ pc = "write" /\ split # NoSplit =>
       \/ Len(todo) = 1 /\ NodeAt(todo[1].page) = Zeros
       \/ /\ Len(todo) = 2 /\ NodeAt(todo[2].page) = Zeros
          /\ Shape(NodeAt(todo[1].page), todo[1].node)
          /\ HalvesEdit(NodeAt(todo[1].page), todo[1].node, todo[2].node, todo[2].page)
  /\ pc = "writeroot" => /\ Len(todo) = 1 /\ todo[1].page = cur /\ split = NoSplit
                         /\ NodeAt(cur) = Zeros /\ RootAbove(todo[1].node)
  /\ pc = "setroot" => split = NoSplit /\ NodeAt(cur) # Zeros /\ RootAbove(NodeAt(cur))

FramesKept == \A j \in DOMAIN stack : Shape(NodeAt(stack[j].page), stack[j].node)

(* The list while the link to a right half that is not yet written is there. *)
ListMem ==
  [p \in Pages0 |-> IF RightHalf /\ p = todo[1].page THEN todo[1].node ELSE NodeAt(p)]

TodoPages == {todo[i].page : i \in DOMAIN todo}

(* m is ListMem and m1 NodeMem, S the pages in use, T those to be written, r
   and f the roots.                                                        *)
ListIs(m, m1, S, T, r, f, C, n) ==
  LeafList(m, S, T, C, n) /\ LeftmostIs(m1, S, r, C[0]) /\ LeftmostIs(m1, S, f, C[0])

(* The keys it must hold.                                                  *)
ListKeeps(keys) ==
  /\ pc \notin {"idle", "closed"} => before.listed \ {op.key} \subseteq keys
  /\ pc \in {"visit", "scan"} => before.listed = keys

ListAt(C, n) ==
  ListIs(ListMem, NodeMem, owned, TodoPages,
         header.RootPageID, fileHeader.RootPageID, C, n)

HasList == \E C, n : ListAt(C, n) /\ ListKeeps(KeysOf(ListMem, C, n))

ListInv ==
  /\ PendingOK /\ FramesKept
  /\ op.kind # "open" => HasList
  /\ op.kind = "open" => before.listed = {} /\ pc # "closed" /\ stack = <<>>

-----------------------------------------------------------------------------
(* What changes of the memory do to the list.                              *)

ShapesKept(m, m2, S) == \A p \in S : m[p] # Zeros => m2[p] # Zeros /\ Shape(m[p], m2[p])

LinksKept(m, m2, S, T, T2) ==
  \A p \in S : /\ m[p] # Zeros /\ IsLeaf(m[p]) =>
                    m2[p] # Zeros /\ IsLeaf(m2[p]) /\ m2[p].rightPtr = m[p].rightPtr
               /\ m[p] = Zeros /\ p \notin T => m2[p] = Zeros /\ p \notin T2

KeysKept(m, m2, S, K) ==
  \A p \in S : m[p] # Zeros /\ IsLeaf(m[p]) => KeysIn(m[p]) \ K \subseteq KeysIn(m2[p])

LEMMA LeftmostKept ==
  ASSUME NEW m, NEW m2, NEW S, NEW S2, S \subseteq S2, ShapesKept(m, m2, S),
         NEW root, NEW leaf, LeftmostIs(m, S, root, leaf)
  PROVE  LeftmostIs(m2, S2, root, leaf)
<1>1. PICK W, n : Leftmost(m, S, W, n, root, leaf)
  BY DEF LeftmostIs
<1>2. n \in Nat /\ W \in [0..n -> S] /\ \A i \in 0..n : W[i] \in S
  BY <1>1 DEF Leftmost
<1>3. \A i \in 1..n : /\ m2[W[i]] # Zeros /\ ~IsLeaf(m2[W[i]])
                      /\ childAt(m2[W[i]], 1) = W[i - 1]
  <2> SUFFICES ASSUME NEW i \in 1..n
               PROVE  /\ m2[W[i]] # Zeros /\ ~IsLeaf(m2[W[i]])
                      /\ childAt(m2[W[i]], 1) = W[i - 1]
    OBVIOUS
  <2>1. i \in 0..n /\ W[i] \in S
    BY <1>2
  <2>2. m[W[i]] # Zeros /\ ~IsLeaf(m[W[i]]) /\ childAt(m[W[i]], 1) = W[i - 1]
    BY <1>1 DEF Leftmost
  <2> QED BY <2>1, <2>2 DEF ShapesKept, Shape
<1>4. m2[leaf] # Zeros /\ IsLeaf(m2[leaf])
  <2>1. 0 \in 0..n
    BY <1>2
  <2>2. leaf \in S /\ m[leaf] # Zeros /\ IsLeaf(m[leaf])
    BY <1>1, <1>2, <2>1 DEF Leftmost
  <2> QED BY <2>2 DEF ShapesKept, Shape
<1>5. W \in [0..n -> S2] /\ W[n] = root /\ W[0] = leaf
  BY <1>1, <1>2 DEF Leftmost
<1>6. Leftmost(m2, S2, W, n, root, leaf)
  BY <1>2, <1>3, <1>4, <1>5 DEF Leftmost
<1> QED BY <1>6 DEF LeftmostIs

LEMMA LeftmostAbove ==
  ASSUME NEW m, NEW S, NEW root, NEW leaf, LeftmostIs(m, S, root, leaf),
         NEW q \in S, m[q] # Zeros, ~IsLeaf(m[q]), childAt(m[q], 1) = root
  PROVE  LeftmostIs(m, S, q, leaf)
<1>1. PICK W, n : Leftmost(m, S, W, n, root, leaf)
  BY DEF LeftmostIs
<1>2. n \in Nat /\ W \in [0..n -> S] /\ W[n] = root /\ W[0] = leaf
  BY <1>1 DEF Leftmost
<1> DEFINE W2 == [i \in 0..(n + 1) |-> IF i = n + 1 THEN q ELSE W[i]]
<1>3. /\ n + 1 \in Nat /\ W2 \in [0..(n + 1) -> S]
      /\ W2[n + 1] = q /\ \A i \in 0..n : W2[i] = W[i]
  <2>1. \A i \in 0..(n + 1) : i # n + 1 => i \in 0..n
    BY <1>2
  <2>2. \A i \in 0..n : i \in 0..(n + 1) /\ i # n + 1
    BY <1>2
  <2>3. n + 1 \in 0..(n + 1) /\ n + 1 \in Nat
    BY <1>2
  <2> QED BY <1>2, <2>1, <2>2, <2>3
<1> HIDE DEF W2
<1>4. W2[0] = leaf
  BY <1>2, <1>3
<1>5. \A i \in 1..(n + 1) : /\ m[W2[i]] # Zeros /\ ~IsLeaf(m[W2[i]])
                            /\ childAt(m[W2[i]], 1) = W2[i - 1]
  <2> SUFFICES ASSUME NEW i \in 1..(n + 1)
               PROVE  /\ m[W2[i]] # Zeros /\ ~IsLeaf(m[W2[i]])
                      /\ childAt(m[W2[i]], 1) = W2[i - 1]
    OBVIOUS
  <2>1. i - 1 \in 0..n /\ W2[i - 1] = W[i - 1]
    BY <1>2, <1>3
  <2>2. CASE i = n + 1
    <3>1. i - 1 = n
      BY <1>2, <2>2
    <3> QED BY <1>2, <1>3, <2>1, <2>2, <3>1
  <2>3. CASE i # n + 1
    <3>1. i \in 1..n /\ i \in 0..n
      BY <1>2, <2>3
    <3> QED BY <1>1, <1>3, <2>1, <3>1 DEF Leftmost
  <2> QED BY <2>2, <2>3
<1>6. m[leaf] # Zeros /\ IsLeaf(m[leaf])
  BY <1>1 DEF Leftmost
<1>7. Leftmost(m, S, W2, n + 1, q, leaf)
  BY <1>3, <1>4, <1>5, <1>6 DEF Leftmost
<1> QED BY <1>7 DEF LeftmostIs

LEMMA LeftmostAlone ==
  ASSUME NEW m, NEW S, NEW q \in S, m[q] # Zeros, IsLeaf(m[q])
  PROVE  LeftmostIs(m, S, q, q)
<1>1. Leftmost(m, S, [i \in 0..0 |-> q], 0, q, q)
  BY DEF Leftmost
<1> QED BY <1>1 DEF LeftmostIs

LEMMA LeafListKept ==
  ASSUME NEW m, NEW m2, NEW S, NEW S2, S \subseteq S2, NEW T, NEW T2, LinksKept(m, m2, S, T, T2),
         NEW C, NEW n, LeafList(m, S, T, C, n)
  PROVE  LeafList(m2, S2, T2, C, n)
<1>1. n \in Nat /\ C \in [0..n -> S] /\ C \in [0..n -> S2] /\ n \in 0..n
  BY DEF LeafList
<1>2. \A i \in 0..n : C[i] \in S /\ m[C[i]] # Zeros /\ IsLeaf(m[C[i]])
  BY <1>1 DEF LeafList
<1>3. \A i \in 0..n : m2[C[i]] # Zeros /\ IsLeaf(m2[C[i]]) /\ m2[C[i]].rightPtr = m[C[i]].rightPtr
  BY <1>2 DEF LinksKept
<1>4. \A i \in 0..(n - 1) : m2[C[i]].rightPtr = C[i + 1]
  <2>1. \A i \in 0..(n - 1) : i \in 0..n
    BY <1>1
  <2> QED BY <1>3, <2>1 DEF LeafList
<1>5. LET end == m2[C[n]].rightPtr IN end = 0 \/ (end \in S2 /\ m2[end] = Zeros /\ end \notin T2)
  <2>1. PICK end : end = m[C[n]].rightPtr /\ m2[C[n]].rightPtr = end
    BY <1>1, <1>3
  <2>2. end = 0 \/ (end \in S /\ m[end] = Zeros /\ end \notin T)
    BY <2>1 DEF LeafList
  <2>3. end = 0 \/ (end \in S2 /\ m2[end] = Zeros /\ end \notin T2)
    BY <2>2 DEF LinksKept
  <2> QED BY <2>1, <2>3
<1> QED BY <1>1, <1>3, <1>4, <1>5 DEF LeafList

LEMMA ListKeysKept ==
  ASSUME NEW m, NEW m2, NEW S, NEW T, NEW K, KeysKept(m, m2, S, K), NEW C, NEW n,
         LeafList(m, S, T, C, n)
  PROVE  KeysOf(m, C, n) \ K \subseteq KeysOf(m2, C, n)
<1>1. \A i \in 0..n : C[i] \in S /\ m[C[i]] # Zeros /\ IsLeaf(m[C[i]])
  BY DEF LeafList
<1>2. \A i \in 0..n : KeysIn(m[C[i]]) \ K \subseteq KeysIn(m2[C[i]])
  BY <1>1 DEF KeysKept
<1> QED BY <1>2 DEF KeysOf

(* No page of the list changes.                                            *)
LEMMA SameListKeys ==
  ASSUME NEW m, NEW m2, NEW S, NEW T, NEW C, NEW n, LeafList(m, S, T, C, n),
         \A p \in S : m2[p] = m[p]
  PROVE  KeysOf(m2, C, n) = KeysOf(m, C, n)
<1>1. \A i \in 0..n : m2[C[i]] = m[C[i]]
  BY DEF LeafList
<1> QED BY <1>1 DEF KeysOf

(* The page `new' alone loses its node.                                    *)
LosesNode(m, m2, S, new) ==
  /\ new \in S /\ m[new] # Zeros /\ m2[new] = Zeros
  /\ \A p \in S : p # new => m2[p] = m[p]

CutTo(m, S, leaf) == \E C, n : C[0] = leaf /\ LeafList(m, S, {}, C, n)

(* The right half did not fit: the list ends before it.                    *)
LEMMA ListCut ==
  ASSUME NEW m, NEW m2, NEW S, NEW T, NEW C, NEW n, LeafList(m, S, T, C, n),
         NEW new, LosesNode(m, m2, S, new), m2[C[0]] # Zeros
  PROVE  CutTo(m2, S, C[0])
<1>0. /\ new \in S /\ m[new] # Zeros /\ m2[new] = Zeros
      /\ \A p \in S : p # new => m2[p] = m[p]
  BY DEF LosesNode
<1>1. n \in Nat /\ C \in [0..n -> S] /\ n \in 0..n /\ 0 \in 0..n
  BY DEF LeafList
<1>2. \A i \in 0..n : C[i] \in S /\ m[C[i]] # Zeros /\ IsLeaf(m[C[i]])
  BY <1>1 DEF LeafList
<1>3. CASE \A i \in 0..n : C[i] # new
  <2>1. \A i \in 0..n : m2[C[i]] = m[C[i]]
    BY <1>0, <1>2, <1>3
  <2>2. \A i \in 0..(n - 1) : m2[C[i]].rightPtr = C[i + 1]
    <3>1. \A i \in 0..(n - 1) : i \in 0..n
      BY <1>1
    <3> QED BY <2>1, <3>1 DEF LeafList
  <2>3. LET end == m2[C[n]].rightPtr IN end = 0 \/ (end \in S /\ m2[end] = Zeros /\ end \notin {})
    <3>1. PICK end : end = m[C[n]].rightPtr /\ m2[C[n]].rightPtr = end
      BY <1>1, <2>1
    <3>2. end = 0 \/ (end \in S /\ m[end] = Zeros)
      BY <3>1 DEF LeafList
    <3>3. end = 0 \/ (end \in S /\ m2[end] = Zeros)
      BY <1>0, <3>2
    <3> QED BY <3>1, <3>3
  <2>4. LeafList(m2, S, {}, C, n)
    BY <1>1, <1>2, <2>1, <2>2, <2>3 DEF LeafList
  <2> QED BY <2>4 DEF CutTo
<1>4. CASE \E i \in 0..n : C[i] = new
  <2>1. PICK i \in 0..n : C[i] = new
    BY <1>4
  <2>2. i # 0
    BY <1>0, <2>1
  <2> DEFINE l == i - 1
             D == [j \in 0..l |-> C[j]]
  <2>3. l \in Nat /\ l \in 0..(n - 1) /\ l + 1 = i /\ l \in 0..l /\ 0 \in 0..l
    BY <1>1, <2>1, <2>2
  <2>4. \A j \in 0..l : j \in 0..n /\ j # i
    BY <1>1, <2>1, <2>3
  <2>5. \A j \in 0..(l - 1) : j \in 0..(n - 1) /\ j \in 0..l /\ j + 1 \in 0..l
    BY <1>1, <2>1, <2>3
  <2> HIDE DEF l
  <2>6. D \in [0..l -> S] /\ \A j \in 0..l : D[j] = C[j]
    BY <1>1, <2>4
  <2> HIDE DEF D
  <2>7. \A j \in 0..l : C[j] # new
    BY <2>1, <2>4 DEF LeafList
  <2>8. \A j \in 0..l : m2[D[j]] = m[C[j]]
    BY <1>0, <1>2, <2>4, <2>6, <2>7
  <2>9. \A j \in 0..l : m2[D[j]] # Zeros /\ IsLeaf(m2[D[j]])
    BY <1>2, <2>4, <2>8
  <2>10. \A j \in 0..(l - 1) : m2[D[j]].rightPtr = D[j + 1]
    BY <2>5, <2>6, <2>8 DEF LeafList
  <2>11. \A j, k \in 0..l : D[j] = D[k] => j = k
    BY <2>4, <2>6 DEF LeafList
  <2>12. m2[D[l]].rightPtr = new
    BY <2>1, <2>3, <2>8 DEF LeafList
  <2>13. LeafList(m2, S, {}, D, l) /\ D[0] = C[0]
    BY <1>0, <2>3, <2>6, <2>9, <2>10, <2>11, <2>12 DEF LeafList
  <2> QED BY <2>13 DEF CutTo
<1> QED BY <1>3, <1>4

(* A node q is split: if it is a leaf of the list, its right half comes behind
   it.                                                                     *)
LEMMA ListSplit ==
  ASSUME NEW m, NEW m2, NEW S, NEW T, NEW T2, T2 \subseteq T, NEW C, NEW n,
         LeafList(m, S, T, C, n), NEW K,
         NEW q \in S, NEW new \in S, new \in T,
         \A p \in S : p # q /\ p # new => m2[p] = m[p],
         m[q] # Zeros, m[new] = Zeros, m2[q] # Zeros, m2[new] # Zeros,
         IsLeaf(m[q]) <=> IsLeaf(m2[q]),
         IsLeaf(m[q]) => /\ IsLeaf(m2[new]) /\ m2[q].rightPtr = new
                         /\ m2[new].rightPtr = m[q].rightPtr
                         /\ KeysIn(m[q]) \ K \subseteq KeysIn(m2[q]) \cup KeysIn(m2[new])
  PROVE  \E C2, n2 : /\ C2[0] = C[0] /\ LeafList(m2, S, T2, C2, n2)
                     /\ KeysOf(m, C, n) \ K \subseteq KeysOf(m2, C2, n2)
<1>1. n \in Nat /\ C \in [0..n -> S] /\ n \in 0..n /\ 0 \in 0..n /\ q # new
  BY DEF LeafList
<1>2. \A i \in 0..n : C[i] \in S /\ m[C[i]] # Zeros /\ IsLeaf(m[C[i]]) /\ C[i] # new
  BY <1>1 DEF LeafList
<1>3. \A i \in 0..(n - 1) : i \in 0..n /\ i + 1 \in 0..n
  BY <1>1
<1>4. PICK end : end = m[C[n]].rightPtr
  OBVIOUS
<1>5. end = 0 \/ (end \in S /\ m2[end] = Zeros /\ end \notin T2)
  <2>1. end = 0 \/ (end \in S /\ m[end] = Zeros /\ end \notin T)
    BY <1>4 DEF LeafList
  <2> QED BY <2>1
<1>6. CASE \A i \in 0..n : C[i] # q
  <2>1. \A i \in 0..n : m2[C[i]] = m[C[i]]
    BY <1>2, <1>6
  <2>2. \A i \in 0..(n - 1) : m2[C[i]].rightPtr = C[i + 1]
    BY <1>3, <2>1 DEF LeafList
  <2>3. m2[C[n]].rightPtr = end
    BY <1>1, <1>4, <2>1
  <2>4. LeafList(m2, S, T2, C, n)
    BY <1>1, <1>2, <1>5, <2>1, <2>2, <2>3 DEF LeafList
  <2>5. \A i \in 0..n : KeysIn(m2[C[i]]) = KeysIn(m[C[i]])
    BY <2>1
  <2>6. KeysOf(m, C, n) \ K \subseteq KeysOf(m2, C, n)
    BY ONLY <2>5 DEF KeysOf
  <2> QED BY <2>4, <2>6
<1>7. CASE \E i \in 0..n : C[i] = q
  <2>1. PICK i \in 0..n : C[i] = q
    BY <1>7
  <2> DEFINE C2 == [j \in 0..(n + 1) |-> IF j <= i THEN C[j]
                                         ELSE IF j = i + 1 THEN new ELSE C[j - 1]]
  <2>2. i \in Nat /\ n \in Nat /\ i <= n /\ n + 1 \in Nat /\ i \in 0..(n + 1) /\ i + 1 \in 0..(n + 1)
    BY <1>1, <2>1
  <2>3. /\ \A j \in 0..i : j \in 0..n /\ j \in 0..(n + 1) /\ j <= i
        /\ \A j \in (i + 2)..(n + 1) : /\ j - 1 \in 0..n /\ j - 1 # i /\ j - 1 > i
                                       /\ j \in 0..(n + 1) /\ ~(j <= i) /\ j # i + 1
        /\ \A j \in 0..(n + 1) : j \in 0..i \/ j = i + 1 \/ j \in (i + 2)..(n + 1)
    BY <2>2
  <2>4. /\ \A j \in 0..i : C2[j] = C[j]
        /\ C2[i + 1] = new
        /\ \A j \in (i + 2)..(n + 1) : C2[j] = C[j - 1]
    <3>1. ~(i + 1 <= i)
      BY <2>2
    <3> QED BY <2>2, <2>3, <3>1
  <2>5. C2 \in [0..(n + 1) -> S]
    <3>1. \A j \in 0..(n + 1) : C2[j] \in S
      BY <1>2, <2>3, <2>4
    <3> QED BY <3>1
  <2> HIDE DEF C2
  <2>6. \A j \in 0..n : j # i => C[j] # q /\ m2[C[j]] = m[C[j]]
    BY <1>2, <2>1 DEF LeafList
  <2>7. IsLeaf(m[q])
    BY <1>2, <2>1
  <2>8. \A j \in 0..(n + 1) : m2[C2[j]] # Zeros /\ IsLeaf(m2[C2[j]])
    <3> SUFFICES ASSUME NEW j \in 0..(n + 1)
                 PROVE  m2[C2[j]] # Zeros /\ IsLeaf(m2[C2[j]])
      OBVIOUS
    <3>1. CASE j \in 0..i
      <4>1. j \in 0..n /\ C2[j] = C[j]
        BY <2>3, <2>4, <3>1
      <4> QED BY <1>2, <2>1, <2>6, <2>7, <4>1
    <3>2. CASE j = i + 1
      BY <2>4, <2>7, <3>2
    <3>3. CASE j \in (i + 2)..(n + 1)
      <4>1. j - 1 \in 0..n /\ j - 1 # i /\ C2[j] = C[j - 1]
        BY <2>3, <2>4, <3>3
      <4> QED BY <1>2, <2>6, <4>1
    <3> QED BY <2>3, <3>1, <3>2, <3>3
  <2>9. \A j \in 0..((n + 1) - 1) : m2[C2[j]].rightPtr = C2[j + 1]
    <3> SUFFICES ASSUME NEW j \in 0..n
                 PROVE  m2[C2[j]].rightPtr = C2[j + 1]
      BY <1>1
    <3>1. CASE j < i
      <4>1. j \in 0..i /\ j + 1 \in 0..i /\ j # i /\ j \in 0..(n - 1)
        BY <2>2, <3>1
      <4>2. C2[j] = C[j] /\ C2[j + 1] = C[j + 1] /\ m2[C[j]] = m[C[j]]
        BY <2>4, <2>6, <4>1
      <4> QED BY <4>1, <4>2 DEF LeafList
    <3>2. CASE j = i
      <4>1. j \in 0..i
        BY <2>2, <3>2
      <4> QED BY <2>1, <2>4, <2>7, <3>2, <4>1
    <3>3. CASE j = i + 1
      <4>1. C2[j] = new /\ m2[C2[j]].rightPtr = m[q].rightPtr
        BY <2>4, <2>7, <3>3
      <4>2. i \in 0..(n - 1) /\ i + 1 + 1 \in (i + 2)..(n + 1) /\ i + 1 + 1 - 1 = i + 1
        BY <1>1, <2>2, <3>3
      <4>3. C2[j + 1] = C[i + 1]
        BY <2>4, <3>3, <4>2
      <4> QED BY <2>1, <4>1, <4>2, <4>3 DEF LeafList
    <3>4. CASE j > i + 1
      <4>1. /\ j \in (i + 2)..(n + 1) /\ j + 1 \in (i + 2)..(n + 1) /\ j + 1 - 1 = j
            /\ j - 1 \in 0..(n - 1) /\ j - 1 + 1 = j
        BY <1>1, <2>2, <3>4
      <4>2. C2[j] = C[j - 1] /\ C2[j + 1] = C[j] /\ m2[C[j - 1]] = m[C[j - 1]]
        BY <2>3, <2>4, <2>6, <4>1
      <4> QED BY <4>1, <4>2 DEF LeafList
    <3> QED BY <2>2, <3>1, <3>2, <3>3, <3>4
  <2>10. \A j, k \in 0..(n + 1) : C2[j] = C2[k] => j = k
    <3> DEFINE old(j) == IF j <= i THEN j ELSE j - 1
    <3>1. \A j \in 0..(n + 1) : j # i + 1 => old(j) \in 0..n /\ C2[j] = C[old(j)]
      BY <2>2, <2>3, <2>4
    <3>2. \A j, k \in 0..(n + 1) : j # i + 1 /\ k # i + 1 /\ old(j) = old(k) => j = k
      BY <2>2
    <3> HIDE DEF old
    <3>3. \A j, k \in 0..n : C[j] = C[k] => j = k
      BY DEF LeafList
    <3>4. \A j, k \in 0..(n + 1) : j # i + 1 /\ k # i + 1 /\ C2[j] = C2[k] => j = k
      BY <3>1, <3>2, <3>3
    <3>5. \A j \in 0..(n + 1) : j # i + 1 => C2[j] # new
      BY <1>2, <3>1
    <3> QED BY <2>4, <3>4, <3>5
  <2>11. m2[C2[n + 1]].rightPtr = end
    <3>1. CASE i = n
      BY <1>4, <2>1, <2>4, <2>7, <3>1
    <3>2. CASE i # n
      <4>1. n + 1 \in (i + 2)..(n + 1) /\ n + 1 - 1 = n
        BY <1>1, <2>2, <3>2
      <4> QED BY <1>1, <1>4, <2>4, <2>6, <3>2, <4>1
    <3> QED BY <3>1, <3>2
  <2>12. LeafList(m2, S, T2, C2, n + 1)
    BY <1>5, <2>2, <2>5, <2>8, <2>9, <2>10, <2>11 DEF LeafList
  <2>13. KeysOf(m, C, n) \ K \subseteq KeysOf(m2, C2, n + 1)
    <3> SUFFICES ASSUME NEW j \in 0..n, NEW x \in KeysIn(m[C[j]]), x \notin K
                 PROVE  \E l \in 0..(n + 1) : x \in KeysIn(m2[C2[l]])
      BY DEF KeysOf
    <3>1. CASE j = i
      <4>1. i \in 0..i
        BY <2>2
      <4>2. C2[i] = q /\ C2[i + 1] = new
        BY <2>1, <2>4, <4>1
      <4>3. x \in KeysIn(m2[C2[i]]) \/ x \in KeysIn(m2[C2[i + 1]])
        BY <2>1, <2>7, <3>1, <4>2
      <4> QED BY <2>2, <4>3
    <3>2. CASE j < i
      <4>1. j \in 0..i /\ j \in 0..(n + 1) /\ j # i
        BY <2>2, <3>2
      <4> QED BY <2>4, <2>6, <4>1
    <3>3. CASE j > i
      <4>1. j + 1 \in (i + 2)..(n + 1) /\ j + 1 \in 0..(n + 1) /\ j + 1 - 1 = j /\ j # i
        BY <2>2, <3>3
      <4>2. C2[j + 1] = C[j]
        BY <2>4, <4>1
      <4> QED BY <2>6, <4>1, <4>2
    <3> QED BY <2>2, <3>1, <3>2, <3>3
  <2>14. C2[0] = C[0]
    <3>1. 0 \in 0..i
      BY <2>2
    <3> QED BY <2>4, <3>1
  <2> QED BY <2>12, <2>13, <2>14
<1> QED BY <1>6, <1>7

-----------------------------------------------------------------------------
(* What is written in place of a node.                                     *)

LEMMA LeafWithEdit ==
  ASSUME NEW S, S \subseteq 1..PageLimit, NEW n, n # Zeros, NodeOver(n, S), IsLeaf(n),
         op.key \in Keys, op.value \in Values
  PROVE  LET n2 == leafWith(n, op.key, op.value) IN Shape(n, n2) /\ Edit(n, n2)
<1>0. PICK keys, values, right, i, n2, k, v :
        /\ keys = n.keys /\ values = n.values /\ right = n.rightPtr /\ k = op.key
        /\ v = op.value /\ i = leafPos(n, k) /\ n2 = leafWith(n, k, v)
  OBVIOUS
<1>1. keys \in Seq(Keys) /\ k \in Keys /\ v \in Values /\ n.keys \in Seq(Keys)
  BY <1>0, NodeFacts
<1>2. i \in 1..(Len(keys) + 1)
  BY <1>0, <1>1, LeafPosFacts
<1>3. \A t, w : LeafNode(t, w, right).keys = t /\ LeafNode(t, w, right).rightPtr = right
  BY DEF LeafNode
<1>4. NodeOver(n2, S) /\ IsLeaf(n2)
  BY <1>0, <1>1, LeafWithOver
<1>5. n2.rightPtr = right /\ KeysIn(n) \subseteq KeysIn(n2)
  <2>1. CASE i \in matches(n, k)
    <3>1. n2 = LeafNode(keys, ReplaceAt(values, i, v), right)
      BY <1>0, <2>1 DEF leafWith
    <3>2. n2.rightPtr = right /\ n2.keys = keys
      BY <1>3, <3>1
    <3> QED BY <1>0, <3>2 DEF KeysIn
  <2>2. CASE i \notin matches(n, k)
    <3>0. PICK t : t = InsertAt(keys, i, k)
      OBVIOUS
    <3>1. n2 = LeafNode(t, InsertAt(values, i, v), right)
      BY <1>0, <2>2, <3>0 DEF leafWith
    <3>2. n2.rightPtr = right /\ n2.keys = t
      BY <1>3, <3>1
    <3>3. t \in Seq(Keys) /\ Inserted(t, keys, i, k)
      BY <1>1, <1>2, <3>0, InsertAtFacts
    <3>4. \A b \in DOMAIN keys : \E a \in DOMAIN t : t[a] = keys[b]
      BY <1>1, <1>2, <3>3, InsertedKeys
    <3> QED BY <1>0, <3>2, <3>4 DEF KeysIn, Range
  <2> QED BY <2>1, <2>2
<1>6. Shape(n, n2) /\ Edit(n, n2)
  BY <1>0, <1>4, <1>5 DEF Shape, Edit
<1> QED BY <1>0, <1>6

LEMMA LeafWithoutEdit ==
  ASSUME NEW S, S \subseteq 1..PageLimit, NEW n, n # Zeros, NodeOver(n, S), IsLeaf(n),
         HasKey(n, op.key)
  PROVE  LET n2 == leafWithout(n, op.key) IN Shape(n, n2) /\ Edit(n, n2)
<1>0. PICK keys, values, right, i, n2, k, len, t :
        /\ keys = n.keys /\ values = n.values /\ right = n.rightPtr /\ k = op.key
        /\ i = Min(matches(n, k)) /\ n2 = leafWithout(n, k) /\ len = Len(keys)
        /\ t = RemoveAt(keys, i)
  OBVIOUS
<1>1. /\ keys \in Seq(Keys) /\ n.keys \in Seq(Keys) /\ HasKey(n, k)
      /\ len \in Nat /\ DOMAIN keys = 1..len
  BY <1>0, NodeFacts, KeysAreNumbers
<1>2. i \in 1..Len(keys) /\ keys[i] = k
  BY <1>0, <1>1, MatchFacts
<1>3. n2 = LeafNode(t, RemoveAt(values, i), right)
  BY <1>0 DEF leafWithout
<1>4. n2.rightPtr = right /\ n2.keys = t
  BY <1>3 DEF LeafNode
<1>5. NodeOver(n2, S) /\ IsLeaf(n2)
  BY <1>0, <1>1, LeafWithoutOver
<1>6. t \in Seq(Keys) /\ Removed(t, keys, i)
  BY <1>0, <1>1, <1>2, RemoveAtFacts
<1>7. /\ Len(t) = len - 1 /\ DOMAIN t = 1..(len - 1)
      /\ \A j \in 1..(i - 1) : t[j] = keys[j]
      /\ \A j \in i..(len - 1) : t[j] = keys[j + 1]
  <2>1. Len(t) = len - 1 /\ DOMAIN t = 1..Len(t)
    BY <1>0, <1>6, KeysAreNumbers DEF Removed
  <2> QED BY <1>0, <1>6, <2>1 DEF Removed
<1>8. \A b \in 1..len : b # i => \E a \in 1..(len - 1) : t[a] = keys[b]
  <2> SUFFICES ASSUME NEW b \in 1..len, b # i PROVE \E a \in 1..(len - 1) : t[a] = keys[b]
    OBVIOUS
  <2>1. CASE b < i
    <3>1. b \in 1..(i - 1) /\ b \in 1..(len - 1)
      BY <1>0, <1>1, <1>2, <2>1
    <3> QED BY <1>7, <3>1
  <2>2. CASE b > i
    <3>1. b - 1 \in i..(len - 1) /\ b - 1 \in 1..(len - 1) /\ b - 1 + 1 = b
      BY <1>0, <1>1, <1>2, <2>2
    <3> QED BY <1>7, <3>1
  <2> QED BY <1>0, <1>1, <1>2, <2>1, <2>2
<1>9. KeysIn(n) \ {k} \subseteq KeysIn(n2)
  <2>1. KeysIn(n) = {keys[b] : b \in 1..len} /\ KeysIn(n2) = {t[a] : a \in 1..(len - 1)}
    BY <1>0, <1>1, <1>4, <1>7 DEF KeysIn, Range
  <2>2. ASSUME NEW b \in 1..len, keys[b] # k PROVE keys[b] \in KeysIn(n2)
    BY <1>2, <1>8, <2>1, <2>2
  <2> QED BY <2>1, <2>2
<1>10. Shape(n, n2) /\ Edit(n, n2)
  BY <1>0, <1>4, <1>5, <1>9 DEF Shape, Edit
<1> QED BY <1>0, <1>10

LEMMA InternalWithShape ==
  ASSUME NEW S, S \subseteq 1..PageLimit, NEW n, NodeOver(n, S), ~IsLeaf(n), NEW old,
         Shape(old, n), NEW i \in 1..(Len(n.keys) + 1), NEW s, s.key \in Keys, s.child \in S
  PROVE  Shape(old, internalWith(n, i, s)) /\ Edit(old, internalWith(n, i, s))
<1>0. PICK n2, len : n2 = internalWith(n, i, s) /\ len = Len(n.keys)
  OBVIOUS
<1>1. ~IsLeaf(n2)
  BY <1>0, InternalWithOver
<1>2. len \in Nat /\ 1 \in 1..(len + 2) /\ 1 <= i
  BY <1>0, NodeFacts
<1>3. \A b \in 1..(len + 2) :
        childAt(n2, b) = IF b <= i THEN childAt(n, b)
                         ELSE IF b = i + 1 THEN s.child ELSE childAt(n, b - 1)
  BY <1>0, ChildInserted
<1>4. childAt(n2, 1) = childAt(n, 1)
  BY <1>2, <1>3
<1> QED BY <1>0, <1>1, <1>4 DEF Shape, Edit

LEMMA HalvesShape ==
  ASSUME NEW S, S \subseteq 1..PageLimit, NEW n, NodeOver(n, S), Len(n.keys) > 0, NEW old,
         Shape(old, n), Edit(old, n), NEW new
  PROVE  LET s == splitNode(n, new) IN Shape(old, s.left) /\ HalvesEdit(old, s.left, s.right, new)
<1>0. PICK keys, len, mid, s, low, high :
        /\ keys = n.keys /\ len = Len(keys) /\ mid = len \div 2 /\ s = splitNode(n, new)
        /\ low = s.left /\ high = s.right
  OBVIOUS
<1>1. /\ keys \in Seq(Keys) /\ len \in Nat /\ len > 0 /\ DOMAIN keys = 1..len
      /\ mid \in Nat /\ mid + 1 <= len
  <2>1. keys \in Seq(Keys) /\ len \in Nat /\ len > 0 /\ DOMAIN keys = 1..len
    BY <1>0, NodeFacts, KeysAreNumbers
  <2>2. mid \in 0..len /\ mid + 1 \in 1..len
    BY <1>0, <2>1, Halves
  <2> QED BY <2>1, <2>2
<1>2. CASE IsLeaf(n)
  <2>0. PICK a, b : a = SubSeq(keys, 1, mid) /\ b = SubSeq(keys, mid + 1, len)
    OBVIOUS
  <2>1. /\ low = LeafNode(a, SubSeq(n.values, 1, mid), new)
        /\ high = LeafNode(b, SubSeq(n.values, mid + 1, len), n.rightPtr)
    BY <1>0, <1>2, <2>0, SplitLeafShape
  <2>2. /\ IsLeaf(low) /\ low.keys = a /\ low.rightPtr = new
        /\ IsLeaf(high) /\ high.keys = b /\ high.rightPtr = n.rightPtr
    BY <2>1 DEF IsLeaf, LeafNode
  <2>3. /\ a \in Seq(Keys) /\ Sliced(a, keys, 1, mid)
        /\ b \in Seq(Keys) /\ Sliced(b, keys, mid + 1, len)
    BY <1>0, <1>1, <2>0, HalfSlices
  <2>4. DOMAIN a = 1..Len(a) /\ DOMAIN b = 1..Len(b)
    BY <2>3, KeysAreNumbers
  <2>5. /\ DOMAIN a = 1..mid /\ \A j \in 1..mid : a[j] = keys[j]
        /\ DOMAIN b = 1..(len - mid) /\ \A j \in 1..(len - mid) : b[j] = keys[j + mid]
    <3>1. mid + 1 - 1 = mid /\ len + 1 - (mid + 1) = len - mid
          /\ \A j \in 1..(len - mid) : mid + 1 + j - 1 = j + mid
      BY <1>1
    <3>2. \A j \in 1..mid : 1 + j - 1 = j
      BY <1>1
    <3> QED BY <2>3, <2>4, <3>1, <3>2 DEF Sliced
  <2>6. KeysIn(n) \subseteq KeysIn(low) \cup KeysIn(high)
    <3> SUFFICES ASSUME NEW j \in 1..len PROVE keys[j] \in KeysIn(low) \cup KeysIn(high)
      BY <1>0, <1>1 DEF KeysIn, Range
    <3>1. CASE j <= mid
      <4>1. j \in 1..mid
        BY <1>1, <3>1
      <4> QED BY <2>2, <2>5, <4>1 DEF KeysIn, Range
    <3>2. CASE ~(j <= mid)
      <4>1. j - mid \in 1..(len - mid) /\ j - mid + mid = j
        BY <1>1, <3>2
      <4> QED BY <2>2, <2>5, <4>1 DEF KeysIn, Range
    <3> QED BY <3>1, <3>2
  <2>7. Shape(old, low)
    BY <1>2, <2>2 DEF Shape
  <2>8. HalvesEdit(old, low, high, new)
    BY <1>2, <2>2, <2>6 DEF Edit, HalvesEdit
  <2> QED BY <1>0, <2>7, <2>8
<1>3. CASE ~IsLeaf(n)
  <2>0. PICK children : children = n.children /\ children \in Seq(S) /\ Len(children) = len
    BY <1>0, <1>3 DEF NodeOver
  <2>1. low = InternalNode(SubSeq(keys, 1, mid), SubSeq(children, 1, mid), children[mid + 1])
    BY <1>0, <1>3, <2>0, SplitInternalShape
  <2>2. /\ ~IsLeaf(low) /\ low.children = SubSeq(children, 1, mid)
        /\ low.rightPtr = children[mid + 1]
    BY <2>1 DEF IsLeaf, InternalNode
  <2>3. SubSeq(children, 1, mid) \in Seq(S) /\ Sliced(SubSeq(children, 1, mid), children, 1, mid)
    BY <1>0, <1>1, <2>0, HalfSlices
  <2>4. childAt(n, 1) = children[1]
    BY <1>1, <2>0 DEF childAt
  <2>5. childAt(low, 1) = children[1]
    <3>1. Len(low.children) = mid /\ (1 <= mid => low.children[1] = children[1])
      BY <1>1, <2>2, <2>3 DEF Sliced
    <3>2. CASE mid = 0
      BY <2>2, <3>1, <3>2 DEF childAt
    <3>3. CASE mid # 0
      <4>1. 1 <= mid
        BY <1>1, <3>3
      <4> QED BY <3>1, <4>1 DEF childAt
    <3> QED BY <3>2, <3>3
  <2>6. Shape(old, low)
    BY <1>3, <2>2, <2>4, <2>5 DEF Shape
  <2>7. HalvesEdit(old, low, high, new)
    BY <2>2 DEF HalvesEdit
  <2> QED BY <1>0, <2>6, <2>7
<1> QED BY <1>2, <1>3

-----------------------------------------------------------------------------
(* The steps that change no page of the list.                              *)

LEMMA ListMemIs == ~RightHalf => ListMem = NodeMem
BY DEF ListMem, NodeMem

LEMMA ListMemIsNext == ~RightHalf' => ListMem' = NodeMem'
BY DEF ListMem, NodeMem

(* With nothing left to write a scan returns the keys of the list.         *)
ListedIsList ==
  todo = <<>> => \A C, n : ListAt(C, n) => ListedKeys = KeysOf(ListMem, C, n)

LEMMA ListedNow == TreeInv => ListedIsList
<1> SUFFICES ASSUME TreeInv, todo = <<>>, NEW C, NEW n, ListAt(C, n)
             PROVE  ListedKeys = KeysOf(ListMem, C, n)
  BY DEF ListedIsList
<1>1. TodoPages = {} /\ ListMem = NodeMem
  <2>1. Len(todo) = 0 /\ DOMAIN todo = {}
    OBVIOUS
  <2> QED BY <2>1, ListMemIs DEF TodoPages, RightHalf
<1>2. /\ LeafList(NodeMem, owned, {}, C, n)
      /\ LeftmostIs(NodeMem, owned, header.RootPageID, C[0])
  BY <1>1 DEF ListAt, ListIs
<1>3. ChainIsList
  BY ChainNow
<1>4. Chain(NodeAt, header.RootPageID) = KeysOf(NodeMem, C, n)
  BY <1>2, <1>3 DEF ChainIsList
<1> QED BY <1>1, <1>4 DEF ListedKeys

LEMMA ListedNext == TreeInv' => ListedIsList'
BY ListedNow, PTL

RootsLead ==
  \A leaf : /\ LeftmostIs(NodeMem, owned, header.RootPageID, leaf)
            /\ LeftmostIs(NodeMem, owned, fileHeader.RootPageID, leaf)
    => /\ LeftmostIs(NodeMem, owned, header'.RootPageID, leaf)
       /\ LeftmostIs(NodeMem, owned, fileHeader'.RootPageID, leaf)

NodesStay == owned \subseteq owned' /\ \A p \in owned : NodeAt(p)' = NodeAt(p)

ListStays ==
  /\ TreeInv /\ NodesStay /\ RootsLead /\ ~RightHalf /\ ~RightHalf'
  /\ \A p \in owned : NodeAt(p) = Zeros /\ p \in TodoPages' => p \in TodoPages

LEMMA OwnedPages ==
  ASSUME TreeInv
  PROVE  \A p \in owned : p \in Pages0 /\ p # 0
<1>1. owned \subseteq 1..PageLimit
  BY InvFacts
<1> QED BY <1>1 DEF Pages0

LEMMA SameRoots ==
  ASSUME header'.RootPageID \in {header.RootPageID, fileHeader.RootPageID},
         fileHeader'.RootPageID \in {header.RootPageID, fileHeader.RootPageID}
  PROVE  RootsLead
BY DEF RootsLead

LEMMA SameNodes ==
  ASSUME TreeInv, PagesUnchanged
  PROVE  NodesStay /\ RootsLead
<1>1. NodesStay
  BY OwnedPages DEF PagesUnchanged, NodesUnchanged, NodesStay, Pages0
<1>2. RootsLead
  BY SameRoots DEF PagesUnchanged
<1> QED BY <1>1, <1>2

LEMMA ListStill ==
  ASSUME ListStays, NEW C, NEW n, ListAt(C, n)
  PROVE  ListAt(C, n)' /\ KeysOf(ListMem', C, n) = KeysOf(ListMem, C, n)
<1>1. ListMem = NodeMem /\ ListMem' = NodeMem'
  BY ListMemIs, ListMemIsNext DEF ListStays
<1>2. \A p \in owned : p \in owned' /\ NodeMem[p] = NodeAt(p) /\ NodeMem'[p] = NodeMem[p]
  BY OwnedPages DEF ListStays, NodesStay, NodeMem
<1>3. PICK m, m2, S, S2, T, T2 :
        /\ m = NodeMem /\ m2 = NodeMem' /\ S = owned /\ S2 = owned'
        /\ T = TodoPages /\ T2 = TodoPages'
  OBVIOUS
<1>4. S \subseteq S2 /\ \A p \in S : m2[p] = m[p]
  BY <1>2, <1>3
<1>5. LinksKept(m, m2, S, T, T2)
  BY <1>2, <1>3, <1>4 DEF LinksKept, ListStays
<1>6. ShapesKept(m, m2, S)
  BY <1>4 DEF ShapesKept, Shape
<1>7. /\ LeafList(m, S, T, C, n)
      /\ LeftmostIs(m, S, header'.RootPageID, C[0])
      /\ LeftmostIs(m, S, fileHeader'.RootPageID, C[0])
  BY <1>1, <1>3 DEF ListAt, ListIs, ListStays, RootsLead
<1>8. LeafList(m2, S2, T2, C, n)
  BY <1>4, <1>5, <1>7, LeafListKept
<1>9. /\ LeftmostIs(m2, S2, header'.RootPageID, C[0])
      /\ LeftmostIs(m2, S2, fileHeader'.RootPageID, C[0])
  BY <1>4, <1>6, <1>7, LeftmostKept
<1>10. KeysOf(m2, C, n) = KeysOf(m, C, n)
  BY <1>4, <1>7, SameListKeys
<1> QED BY <1>1, <1>3, <1>8, <1>9, <1>10 DEF ListAt, ListIs

LEMMA StillHasList ==
  ASSUME ListStays, HasList, pc \notin {"idle", "closed"}, UNCHANGED <<op, before>>,
         pc' \in {"visit", "scan"} => pc \in {"visit", "scan"}
  PROVE  HasList'
<1>1. PICK C, n : ListAt(C, n) /\ ListKeeps(KeysOf(ListMem, C, n))
  BY DEF HasList
<1>2. ListAt(C, n)' /\ KeysOf(ListMem', C, n) = KeysOf(ListMem, C, n)
  BY <1>1, ListStill
<1>3. ListKeeps(KeysOf(ListMem, C, n))'
  BY <1>1, <1>2 DEF ListKeeps
<1> QED BY <1>2, <1>3 DEF HasList

(* What a step that ends an operation must not lose.                       *)
NothingLost == before.listed \ {op.key} \subseteq ListedKeys'

LEMMA EndOfList ==
  ASSUME ListStays, HasList, TreeInv', NEW out, Finish(out), pc \notin {"idle", "closed"}
  PROVE  HasList' /\ NothingLost
<1>1. PICK C, n : ListAt(C, n) /\ ListKeeps(KeysOf(ListMem, C, n))
  BY DEF HasList
<1>2. ListAt(C, n)' /\ KeysOf(ListMem', C, n) = KeysOf(ListMem, C, n)
  BY <1>1, ListStill
<1>3. pc' = "idle" /\ todo' = <<>>
  BY DEF Finish
<1>4. \A keys : ListKeeps(keys)'
  BY <1>3 DEF ListKeeps
<1>5. HasList'
  BY <1>2, <1>4 DEF HasList
<1>6. ListedKeys' = KeysOf(ListMem', C, n)
  BY <1>2, <1>3, ListedNext DEF ListedIsList
<1> QED BY <1>1, <1>2, <1>5, <1>6 DEF ListKeeps, NothingLost

(* What is pending at the end of an operation.                             *)
LEMMA EndPending ==
  ASSUME NEW out, Finish(out)
  PROVE  PendingOK' /\ FramesKept' /\ ~RightHalf' /\ TodoPages' = {} /\ op'.kind # "open"
<1>1. pc' = "idle" /\ todo' = <<>> /\ split' = NoSplit /\ stack' = <<>> /\ op' = NoOp
  BY DEF Finish
<1>2. DOMAIN todo' = {} /\ DOMAIN stack' = {}
  BY <1>1
<1>3. op'.kind # "open"
  BY <1>1 DEF NoOp
<1> QED BY <1>1, <1>2, <1>3 DEF PendingOK, FramesKept, RightHalf, TodoPages

LEMMA FramesStill ==
  ASSUME TreeInv, NodesStay, FramesKept, stack' = stack
  PROVE  FramesKept'
<1>1. stack \in Seq(Frames(owned))
  BY InvFacts
<1>2. \A j \in DOMAIN stack : stack[j].page \in owned
  BY <1>1 DEF Frames
<1> QED BY <1>2 DEF FramesKept, NodesStay

(* Nothing is pending before and after.                                    *)
Resting == {"idle", "closed", "visit", "scan", "flush"}

LEMMA RestingPending ==
  ASSUME pc \in Resting, PendingOK
  PROVE  todo = <<>> /\ split = NoSplit /\ ~RightHalf /\ TodoPages = {}
<1>1. todo = <<>> /\ split = NoSplit
  BY DEF PendingOK, Resting
<1>2. DOMAIN todo = {}
  BY <1>1
<1> QED BY <1>1, <1>2 DEF RightHalf, TodoPages

LEMMA NowResting ==
  ASSUME pc' \in Resting, todo' = <<>>, split' = NoSplit
  PROVE  PendingOK' /\ ~RightHalf' /\ TodoPages' = {}
<1>1. DOMAIN todo' = {}
  OBVIOUS
<1> QED BY <1>1 DEF PendingOK, Resting, RightHalf, TodoPages

LosesNothing == Completes /\ ~Overflows => NothingLost

(* Operations that end without a write.                                    *)
LEMMA EndListed ==
  ASSUME TreeInv, TreeInv', ListInv, op.kind # "open", NodesStay, RootsLead, ~RightHalf,
         pc \notin {"idle", "closed"}, NEW out, Finish(out)
  PROVE  ListInv' /\ LosesNothing
<1>1. PendingOK' /\ FramesKept' /\ ~RightHalf' /\ TodoPages' = {} /\ op'.kind # "open"
  BY EndPending
<1>2. HasList
  BY DEF ListInv
<1>3. ListStays
  BY <1>1 DEF ListStays
<1>4. HasList' /\ NothingLost
  BY <1>2, <1>3, EndOfList
<1> QED BY <1>1, <1>4 DEF ListInv, LosesNothing

LEMMA ReadAndReturnListed ==
  ASSUME TreeInv, TreeInv', ListInv, op.kind # "open", pc \in {"visit", "scan", "flush"},
         NEW out, Return(out), (pc \in {"visit", "scan"} /\ ReadPage(cur)) \/ Flush
  PROVE  ListInv' /\ LosesNothing
<1>1. PagesUnchanged
  BY NodeRead, ReadEffect, FlushEffect DEF TreeInv
<1>2. NodesStay /\ RootsLead
  BY <1>1, SameNodes
<1>3. ~RightHalf
  BY DEF RightHalf
<1>4. Finish(out)
  BY DEF Return
<1> QED BY <1>2, <1>3, <1>4, EndListed

LEMMA RootSwitchLeads ==
  ASSUME TreeInv, ListInv, op.kind # "open", pc = "setroot",
         SetRootPage(cur) \/ SetRootPageFails(cur)
  PROVE  NodesStay /\ RootsLead
<1>0. PICK q : q = cur
  OBVIOUS
<1>1. q \in owned /\ PagesInv
  BY <1>0 DEF TreeInv, LocalsOver
<1>2. SetRootPage(q) \/ SetRootPageFails(q)
  BY <1>0
<1>3. /\ NodesUnchanged /\ owned' = owned /\ header'.RootPageID = q
      /\ fileHeader'.RootPageID \in {q, fileHeader.RootPageID}
  BY <1>1, <1>2, SetRootEffect
<1>4. NodesStay
  BY <1>3, OwnedPages DEF NodesStay, NodesUnchanged, Pages0
<1>5. NodeAt(q) # Zeros /\ RootAbove(NodeAt(q))
  BY <1>0 DEF ListInv, PendingOK
<1>6. NodeMem[q] = NodeAt(q)
  BY <1>1, OwnedPages DEF NodeMem
<1>7. NodeMem[q] # Zeros /\ ~IsLeaf(NodeMem[q]) /\ childAt(NodeMem[q], 1) = header.RootPageID
  BY <1>5, <1>6 DEF RootAbove
<1>8. PICK m, S, root : m = NodeMem /\ S = owned /\ root = header.RootPageID
  OBVIOUS
<1>9. \A leaf : LeftmostIs(m, S, root, leaf) => LeftmostIs(m, S, q, leaf)
  BY <1>1, <1>7, <1>8, LeftmostAbove
<1>10. RootsLead
  BY <1>3, <1>8, <1>9 DEF RootsLead
<1> QED BY <1>4, <1>10

LEMMA ErrorListed ==
  ASSUME TreeInv, TreeInv', ListInv, op.kind # "open", PagerCallFails, NEW out, Finish(out)
  PROVE  ListInv' /\ LosesNothing
<1>1. /\ pc \in {"visit", "scan", "alloc", "newroot", "setroot", "flush"}
      /\ pc \notin {"idle", "closed"} /\ PagesInv
  BY DEF PagerCallFails, TreeInv
<1>2. ~RightHalf
  BY <1>1 DEF RightHalf
<1>3. NodesStay /\ RootsLead
  <2>1. CASE UNCHANGED pagerVars
    BY <1>1, <2>1, SamePages, SameNodes
  <2>2. CASE AllocatePageFails
    <3>1. /\ owned' = owned /\ fileHeader' = fileHeader
          /\ \A p \in owned : NodeAt(p)' = NodeAt(p)
          /\ header'.RootPageID = header.RootPageID
      BY <1>1, <2>2, AllocateFailsEffect
    <3> QED BY <3>1, SameRoots DEF NodesStay
  <2>3. CASE pc = "setroot" /\ SetRootPageFails(cur)
    BY <2>3, RootSwitchLeads
  <2>4. CASE FlushFails
    BY <1>1, <2>4, FlushEffect, SameNodes
  <2> QED BY <2>1, <2>2, <2>3, <2>4 DEF PagerCallFails
<1> QED BY <1>1, <1>2, <1>3, EndListed

(* Operations that go on without a write.                                  *)
LEMMA GoesOnListed ==
  ASSUME TreeInv, ListInv, op.kind # "open", NodesStay, RootsLead, ~RightHalf, ~RightHalf',
         \A p \in owned : NodeAt(p) = Zeros /\ p \in TodoPages' => p \in TodoPages,
         pc \notin {"idle", "closed"}, pc' \notin {"idle", "closed"},
         UNCHANGED <<op, before>>,
         pc' \in {"visit", "scan"} => pc \in {"visit", "scan"}, PendingOK', FramesKept'
  PROVE  ListInv' /\ LosesNothing
<1>1. HasList /\ ListStays
  BY DEF ListInv, ListStays
<1>2. HasList'
  BY <1>1, StillHasList
<1> QED BY <1>2 DEF ListInv, LosesNothing, Completes

LEMMA DescendListed ==
  ASSUME TreeInv, ListInv, op.kind # "open", Descend
  PROVE  ListInv' /\ LosesNothing
<1>1. /\ pc = "visit" /\ pc' = "visit" /\ UNCHANGED <<op, before, todo, split>> /\ ReadPage(cur)
      /\ NodeAt(cur) # Zeros /\ cur \in owned
  BY NodeRead DEF Descend, IsNode
<1>2. PICK f : stack' = Append(stack, f) /\ f.page = cur /\ f.node = NodeAt(cur)
  BY DEF Descend
<1>3. PagesUnchanged
  BY <1>1, ReadEffect DEF TreeInv
<1>4. NodesStay /\ RootsLead
  BY <1>3, SameNodes
<1>5. todo = <<>> /\ split = NoSplit /\ ~RightHalf
  BY <1>1, RestingPending DEF ListInv, Resting
<1>6. PendingOK' /\ ~RightHalf' /\ TodoPages' = {}
  BY <1>1, <1>5, NowResting DEF Resting
<1>7. FramesKept'
  <2>1. stack \in Seq(Frames(owned)) /\ DOMAIN stack = 1..Len(stack) /\ Len(stack) \in Nat
    BY InvFacts
  <2>2. /\ DOMAIN stack' = 1..(Len(stack) + 1)
        /\ \A j \in 1..Len(stack) : stack'[j] = stack[j]
        /\ stack'[Len(stack) + 1] = f
    BY <1>2, <2>1
  <2>3. \A j \in 1..Len(stack) : stack[j].page \in owned
    BY <2>1 DEF Frames
  <2> SUFFICES ASSUME NEW j \in 1..(Len(stack) + 1)
               PROVE  Shape(NodeAt(stack[j].page), stack[j].node)'
    BY <2>2 DEF FramesKept
  <2>4. CASE j = Len(stack) + 1
    <3>1. PICK p : p = cur
      OBVIOUS
    <3>2. stack'[j].page = p /\ stack'[j].node = NodeAt(p) /\ p \in owned /\ NodeAt(p) # Zeros
      BY <1>1, <1>2, <2>2, <2>4, <3>1
    <3>3. NodeAt(p)' = NodeAt(p)
      BY <1>4, <3>2 DEF NodesStay
    <3> QED BY <3>2, <3>3 DEF Shape
  <2>5. CASE j \in 1..Len(stack)
    <3>1. Shape(NodeAt(stack[j].page), stack[j].node) /\ stack'[j] = stack[j]
      BY <2>1, <2>2, <2>5 DEF ListInv, FramesKept
    <3> QED BY <1>4, <2>3, <2>5, <3>1 DEF NodesStay
  <2> QED BY <2>1, <2>4, <2>5
<1> QED BY <1>1, <1>4, <1>5, <1>6, <1>7, GoesOnListed

(* One node is to be written, in place of another.                         *)
LEMMA OneWrite ==
  ASSUME NEW q, NEW n, todo' = <<[page |-> q, node |-> n]>>, NodeAt(q)' = NodeAt(q),
         Shape(NodeAt(q), n), Edit(NodeAt(q), n), pc' \in {"alloc", "write"}, split' = NoSplit,
         op' = op
  PROVE  PendingOK' /\ ~RightHalf' /\ TodoPages' = {q} /\ NodeAt(q) # Zeros
<1>1. /\ Len(todo') = 1 /\ todo'[1].page = q /\ todo'[1].node = n /\ DOMAIN todo' = {1}
  OBVIOUS
<1>2. Shape(NodeAt(todo[1].page), todo[1].node)'
  BY <1>1 DEF Shape
<1>3. Edit(NodeAt(todo[1].page), todo[1].node)'
  BY <1>1 DEF Edit
<1>4. PendingOK'
  BY <1>1, <1>2, <1>3 DEF PendingOK
<1>5. ~RightHalf'
  BY DEF RightHalf
<1>6. TodoPages' = {q}
  BY <1>1 DEF TodoPages
<1> QED BY <1>4, <1>5, <1>6 DEF Shape

LEMMA LeafEditListed ==
  ASSUME TreeInv, ListInv, op.kind # "open", pc = "visit", ReadPage(cur), NEW n,
         Shape(NodeAt(cur), n), Edit(NodeAt(cur), n), todo' = <<[page |-> cur, node |-> n]>>,
         pc' \in {"alloc", "write"}, UNCHANGED <<op, stack, split, before>>
  PROVE  ListInv' /\ LosesNothing
<1>0. PICK q : q = cur
  OBVIOUS
<1>1. q \in owned /\ PagesUnchanged
  BY <1>0, NodeRead, ReadEffect DEF TreeInv
<1>2. NodesStay /\ RootsLead
  BY <1>1, SameNodes
<1>3. todo = <<>> /\ split = NoSplit /\ ~RightHalf
  BY RestingPending DEF ListInv, Resting
<1>4. NodeAt(q)' = NodeAt(q) /\ Shape(NodeAt(q), n) /\ Edit(NodeAt(q), n)
  BY <1>0, <1>1, <1>2 DEF NodesStay
<1>5. todo' = <<[page |-> q, node |-> n]>> /\ split' = NoSplit /\ op' = op
  BY <1>0, <1>3
<1>6. PendingOK' /\ ~RightHalf' /\ TodoPages' = {q} /\ NodeAt(q) # Zeros
  BY <1>4, <1>5, OneWrite
<1>7. FramesKept'
  BY <1>2, FramesStill DEF ListInv
<1> QED BY <1>2, <1>3, <1>6, <1>7, GoesOnListed

LEMMA InsertLeafListed ==
  ASSUME TreeInv, ListInv, op.kind # "open", InsertLeaf
  PROVE  ListInv' /\ LosesNothing
<1>1. PICK n : n = NodeAt(cur)
  OBVIOUS
<1>2. /\ pc = "visit" /\ op.kind = "put" /\ ReadPage(cur) /\ n # Zeros /\ IsLeaf(n)
      /\ UNCHANGED <<op, stack, split, before>>
      /\ pc' \in {"alloc", "write"}
      /\ todo' = <<[page |-> cur, node |-> leafWith(n, op.key, op.value)]>>
  BY <1>1 DEF InsertLeaf, AtLeaf, IsNode
<1>3. /\ NodeOver(n, owned) /\ owned \subseteq 1..PageLimit
      /\ op.key \in Keys /\ op.value \in Values
  BY <1>1, <1>2, NodeRead, InvFacts DEF IsNode, OpOK
<1>4. Shape(n, leafWith(n, op.key, op.value)) /\ Edit(n, leafWith(n, op.key, op.value))
  BY <1>2, <1>3, LeafWithEdit
<1> QED BY <1>1, <1>2, <1>4, LeafEditListed

LEMMA DeleteLeafListed ==
  ASSUME TreeInv, ListInv, op.kind # "open", DeleteLeaf
  PROVE  ListInv' /\ LosesNothing
<1>1. PICK n : n = NodeAt(cur)
  OBVIOUS
<1>2. /\ pc = "visit" /\ ReadPage(cur) /\ n # Zeros /\ IsLeaf(n) /\ HasKey(n, op.key)
      /\ UNCHANGED <<op, stack, split, before>>
      /\ pc' = "write"
      /\ todo' = <<[page |-> cur, node |-> leafWithout(n, op.key)]>>
  BY <1>1 DEF DeleteLeaf, AtLeaf, IsNode
<1>3. NodeOver(n, owned) /\ owned \subseteq 1..PageLimit
  BY <1>1, <1>2, NodeRead, InvFacts DEF IsNode
<1>4. Shape(n, leafWithout(n, op.key)) /\ Edit(n, leafWithout(n, op.key))
  BY <1>2, <1>3, LeafWithoutEdit
<1> QED BY <1>1, <1>2, <1>4, LeafEditListed

LEMMA ReadOnListed ==
  ASSUME TreeInv, ListInv, op.kind # "open", LeftmostLeaf \/ (ScanLeaf /\ pc' = "scan")
  PROVE  ListInv' /\ LosesNothing
<1>1. /\ pc \in {"visit", "scan"} /\ ReadPage(cur) /\ pc' = "scan" /\ cur \in owned
      /\ UNCHANGED <<op, before, stack, todo, split>>
  BY NodeRead DEF LeftmostLeaf, AtLeaf, ScanLeaf, Return, Finish
<1>2. PagesUnchanged
  BY <1>1, ReadEffect DEF TreeInv
<1>3. NodesStay /\ RootsLead
  BY <1>2, SameNodes
<1>4. todo = <<>> /\ split = NoSplit /\ ~RightHalf
  BY <1>1, RestingPending DEF ListInv, Resting
<1>5. PendingOK' /\ ~RightHalf' /\ TodoPages' = {}
  BY <1>1, <1>4, NowResting DEF Resting
<1>6. FramesKept'
  BY <1>1, <1>3, FramesStill DEF ListInv
<1> QED BY <1>1, <1>3, <1>4, <1>5, <1>6, GoesOnListed

LEMMA UnwindListed ==
  ASSUME TreeInv, ListInv, op.kind # "open", UnwindDone \/ UnwindRoot
  PROVE  ListInv' /\ LosesNothing
<1>1. /\ pc = "unwind" /\ UNCHANGED pagerVars /\ UNCHANGED <<op, before, stack, todo, split>>
      /\ (pc' = "flush" /\ split = NoSplit) \/ pc' = "newroot"
  BY DEF UnwindDone, UnwindRoot
<1>2. PagesUnchanged
  BY <1>1, SamePages DEF TreeInv
<1>3. NodesStay /\ RootsLead
  BY <1>2, SameNodes
<1>4. todo = <<>> /\ ~RightHalf
  BY <1>1 DEF ListInv, PendingOK, RightHalf
<1>5. DOMAIN todo' = {} /\ todo' = <<>>
  BY <1>1, <1>4
<1>6. PendingOK' /\ ~RightHalf' /\ TodoPages' = {}
  BY <1>1, <1>5 DEF PendingOK, RightHalf, TodoPages
<1>7. FramesKept'
  BY <1>1, <1>3, FramesStill DEF ListInv
<1> QED BY <1>1, <1>3, <1>4, <1>6, <1>7, GoesOnListed

LEMMA UnwindInternalListed ==
  ASSUME TreeInv, ListInv, op.kind # "open", UnwindInternal
  PROVE  ListInv' /\ LosesNothing
<1>1. PICK f, q, n : /\ f = Last(stack) /\ q = f.page /\ n = internalWith(f.node, f.idx, split)
  OBVIOUS
<1>2. /\ pc = "unwind" /\ split # NoSplit /\ stack # <<>>
      /\ UNCHANGED pagerVars /\ UNCHANGED <<op, before>>
      /\ todo' = <<[page |-> q, node |-> n]>> /\ pc' \in {"alloc", "write"}
      /\ split' = NoSplit /\ stack' = Front(stack)
  BY <1>1 DEF UnwindInternal
<1>3. /\ stack \in Seq(Frames(owned)) /\ owned \subseteq 1..PageLimit
      /\ split.key \in Keys /\ split.child \in owned
  BY <1>2, InvFacts DEF TreeInv, LocalsOver
<1>4. f \in Frames(owned) /\ Front(stack) \in Seq(Frames(owned))
  BY <1>1, <1>2, <1>3, LastFrame
<1>5. /\ q \in owned /\ NodeOver(f.node, owned) /\ ~IsLeaf(f.node)
      /\ f.idx \in 1..(Len(f.node.keys) + 1)
  BY <1>1, <1>4 DEF Frames
<1>6. /\ Len(stack) \in Nat /\ Len(stack) > 0 /\ DOMAIN stack = 1..Len(stack)
      /\ f = stack[Len(stack)]
      /\ DOMAIN Front(stack) = 1..(Len(stack) - 1)
      /\ \A j \in 1..(Len(stack) - 1) : Front(stack)[j] = stack[j]
  BY <1>1, <1>2, <1>3 DEF Last, Front
<1>7. Len(stack) \in DOMAIN stack /\ \A j \in 1..(Len(stack) - 1) : j \in DOMAIN stack
  BY <1>6
<1>8. Shape(NodeAt(q), f.node)
  BY <1>1, <1>6, <1>7 DEF ListInv, FramesKept
<1>9. Shape(NodeAt(q), n) /\ Edit(NodeAt(q), n)
  BY <1>1, <1>3, <1>5, <1>8, InternalWithShape
<1>10. PagesUnchanged
  BY <1>2, SamePages DEF TreeInv
<1>11. NodesStay /\ RootsLead
  BY <1>10, SameNodes
<1>12. NodeAt(q)' = NodeAt(q) /\ op' = op
  BY <1>2, <1>5, <1>11 DEF NodesStay
<1>13. PendingOK' /\ ~RightHalf' /\ TodoPages' = {q} /\ NodeAt(q) # Zeros
  BY <1>2, <1>9, <1>12, OneWrite
<1>14. FramesKept'
  <2>1. \A j \in 1..(Len(stack) - 1) : stack[j].page \in owned
    BY <1>3, <1>7 DEF Frames
  <2>2. \A j \in DOMAIN stack' : j \in 1..(Len(stack) - 1) /\ stack'[j] = stack[j]
    BY <1>2, <1>6
  <2> SUFFICES ASSUME NEW j \in DOMAIN stack'
               PROVE  Shape(NodeAt(stack[j].page), stack[j].node)'
    BY DEF FramesKept
  <2>3. PICK p, g : p = stack[j].page /\ g = stack[j].node
    OBVIOUS
  <2>4. p = stack'[j].page /\ g = stack'[j].node /\ p \in owned
    BY <2>1, <2>2, <2>3
  <2>5. NodeAt(p)' = NodeAt(p)
    BY <1>11, <2>4 DEF NodesStay
  <2>6. Shape(NodeAt(p), g)
    BY <1>7, <2>2, <2>3 DEF ListInv, FramesKept
  <2> QED BY <2>4, <2>5, <2>6
<1>15. ~RightHalf
  BY <1>2 DEF RightHalf
<1> QED BY <1>2, <1>11, <1>13, <1>14, <1>15, GoesOnListed

LEMMA AllocSplitListed ==
  ASSUME TreeInv, ListInv, op.kind # "open", AllocSplit
  PROVE  ListInv' /\ LosesNothing
<1>1. PICK q, n, new, s : /\ q = todo[1].page /\ n = todo[1].node /\ new = NextPage
                          /\ s = splitNode(n, new)
  OBVIOUS
<1>2. /\ pc = "alloc" /\ pc' = "write" /\ AllocatePage /\ UNCHANGED <<op, stack, before>>
      /\ todo' = <<[page |-> q, node |-> s.left], [page |-> new, node |-> s.right]>>
      /\ split' = [key |-> s.key, child |-> new]
  BY <1>1 DEF AllocSplit
<1>3. /\ Len(todo) = 1 /\ split = NoSplit /\ Shape(NodeAt(q), n) /\ Edit(NodeAt(q), n)
  BY <1>1, <1>2 DEF ListInv, PendingOK
<1>4. /\ todo \in Seq(Writes(owned)) /\ owned \subseteq 1..PageLimit /\ Len(n.keys) > 0
      /\ PagesInv
  BY <1>1, <1>2, InvFacts DEF PlacesOK
<1>5. todo[1] \in Writes(owned) /\ DOMAIN todo = {1}
  BY <1>3, <1>4
<1>6. q \in owned /\ NodeOver(n, owned) /\ q \in TodoPages
  BY <1>1, <1>5 DEF Writes, TodoPages
<1>7. /\ new \in 1..PageLimit /\ new \notin owned /\ owned' = owned \cup {new}
      /\ \A p \in owned : NodeAt(p)' = NodeAt(p)
      /\ \A p : p = NextPage => NodeAt(p)' = Zeros
      /\ header'.RootPageID = header.RootPageID /\ fileHeader' = header'
  BY <1>1, <1>2, <1>4, AllocateEffect
<1>8. NodesStay /\ RootsLead
  BY <1>7, SameRoots DEF NodesStay
<1>9. NodeAt(q)' = NodeAt(q) /\ NodeAt(new)' = Zeros
  BY <1>1, <1>6, <1>7
<1>10. Shape(NodeAt(q), s.left) /\ HalvesEdit(NodeAt(q), s.left, s.right, new)
  BY <1>1, <1>3, <1>4, <1>6, HalvesShape
<1>11. /\ Len(todo') = 2 /\ todo'[1].page = q /\ todo'[1].node = s.left
       /\ todo'[2].page = new /\ todo'[2].node = s.right /\ DOMAIN todo' = {1, 2}
  BY <1>2
<1>12. split' # NoSplit
  BY <1>2, <1>7 DEF NoSplit
<1>13. Shape(NodeAt(todo[1].page), todo[1].node)' /\ NodeAt(todo[2].page)' = Zeros
  BY <1>9, <1>10, <1>11
<1>14. HalvesEdit(NodeAt(todo[1].page), todo[1].node, todo[2].node, todo[2].page)'
  BY <1>2, <1>9, <1>10, <1>11 DEF HalvesEdit
<1>15. PendingOK'
  BY <1>2, <1>11, <1>12, <1>13, <1>14 DEF PendingOK
<1>16. ~RightHalf /\ ~RightHalf' /\ TodoPages' = {q, new}
  BY <1>2, <1>11 DEF RightHalf, TodoPages
<1>17. FramesKept'
  BY <1>2, <1>8, FramesStill DEF ListInv
<1>18. \A p \in owned : NodeAt(p) = Zeros /\ p \in TodoPages' => p \in TodoPages
  BY <1>6, <1>7, <1>16
<1> QED BY <1>2, <1>8, <1>15, <1>16, <1>17, <1>18, GoesOnListed

(* The new root is above the old one, and the list unchanged.              *)
LEMMA AllocRootPending ==
  ASSUME TreeInv, ListInv, AllocRoot
  PROVE  /\ PendingOK' /\ FramesKept' /\ ~RightHalf /\ ~RightHalf' /\ NodesStay /\ RootsLead
         /\ pc = "newroot" /\ pc' = "writeroot" /\ UNCHANGED <<op, stack, before>>
         /\ TodoPages' \cap owned = {}
<1>1. PICK new, n, root :
        /\ new = NextPage /\ root = header.RootPageID
        /\ n = IF op.kind = "open" THEN LeafNode(<<>>, <<>>, 0)
               ELSE InternalNode(<<split.key>>, <<header.RootPageID>>, split.child)
  OBVIOUS
<1>2. /\ pc = "newroot" /\ pc' = "writeroot" /\ AllocatePage /\ UNCHANGED <<op, stack, before>>
      /\ cur' = new /\ split' = NoSplit /\ todo' = <<[page |-> new, node |-> n]>>
  BY <1>1 DEF AllocRoot
<1>3. PagesInv
  BY DEF TreeInv
<1>4. /\ new \notin owned /\ owned' = owned \cup {new}
      /\ \A p \in owned : NodeAt(p)' = NodeAt(p)
      /\ \A p : p = NextPage => NodeAt(p)' = Zeros
      /\ header'.RootPageID = header.RootPageID /\ fileHeader' = header'
  BY <1>1, <1>2, <1>3, AllocateEffect
<1>5. NodesStay /\ RootsLead
  BY <1>4, SameRoots DEF NodesStay
<1>6. NodeAt(new)' = Zeros
  BY <1>1, <1>4
<1>7. /\ Len(todo') = 1 /\ todo'[1].page = new /\ todo'[1].node = n /\ DOMAIN todo' = {1}
  BY <1>2
<1>8. op.kind # "open" => ~IsLeaf(n) /\ childAt(n, 1) = root
  BY <1>1 DEF IsLeaf, InternalNode, childAt
<1>9. RootAbove(n)'
  BY <1>1, <1>2, <1>4, <1>8 DEF RootAbove
<1>10. RootAbove(todo[1].node)'
  BY <1>7, <1>9 DEF RootAbove
<1>11. NodeAt(cur)' = Zeros
  BY <1>2, <1>6
<1>12. PendingOK'
  BY <1>2, <1>7, <1>10, <1>11 DEF PendingOK
<1>13. ~RightHalf /\ ~RightHalf' /\ TodoPages' = {new}
  BY <1>2, <1>7 DEF RightHalf, TodoPages
<1>14. FramesKept'
  BY <1>2, <1>5, FramesStill DEF ListInv
<1> QED BY <1>2, <1>4, <1>5, <1>12, <1>13, <1>14

LEMMA AllocRootListed ==
  ASSUME TreeInv, ListInv, AllocRoot
  PROVE  ListInv' /\ LosesNothing
<1>1. /\ PendingOK' /\ FramesKept' /\ ~RightHalf /\ ~RightHalf' /\ NodesStay /\ RootsLead
      /\ pc = "newroot" /\ pc' = "writeroot" /\ UNCHANGED <<op, stack, before>>
      /\ TodoPages' \cap owned = {}
  BY AllocRootPending
<1>2. CASE op.kind = "open"
  BY <1>1, <1>2 DEF ListInv, LosesNothing, Completes
<1>3. CASE op.kind # "open"
  <2>1. \A p \in owned : NodeAt(p) = Zeros /\ p \in TodoPages' => p \in TodoPages
    BY <1>1
  <2> QED BY <1>1, <1>3, <2>1, GoesOnListed
<1> QED BY <1>2, <1>3

LEMMA SetRootListed ==
  ASSUME TreeInv, TreeInv', ListInv, SetRoot
  PROVE  ListInv' /\ LosesNothing
<1>0. PICK q : q = cur
  OBVIOUS
<1>1. /\ pc = "setroot" /\ SetRootPage(q) /\ q \in owned /\ PagesInv
      /\ todo = <<>> /\ split = NoSplit /\ NodeAt(q) # Zeros /\ RootAbove(NodeAt(q))
      /\ ~RightHalf
  BY <1>0 DEF SetRoot, TreeInv, LocalsOver, ListInv, PendingOK, RightHalf
<1>2. CASE op.kind # "open"
  <2>1. NodesStay /\ RootsLead
    BY <1>0, <1>1, <1>2, RootSwitchLeads
  <2>2. pc' = "flush" /\ UNCHANGED <<op, stack, todo, split, before>>
    BY <1>2 DEF SetRoot
  <2>3. PendingOK' /\ ~RightHalf' /\ TodoPages' = {}
    BY <1>1, <2>2, NowResting DEF Resting
  <2>4. FramesKept'
    BY <2>1, <2>2, FramesStill DEF ListInv
  <2> QED BY <1>1, <1>2, <2>1, <2>2, <2>3, <2>4, GoesOnListed
<1>3. CASE op.kind = "open"
  <2>1. Finish("ok")
    BY <1>3 DEF SetRoot, Return
  <2>2. PendingOK' /\ FramesKept' /\ ~RightHalf' /\ TodoPages' = {} /\ op'.kind # "open"
    BY <2>1, EndPending
  <2>3. /\ NodesUnchanged /\ owned' = owned /\ header'.RootPageID = q /\ fileHeader' = header'
    BY <1>1, SetRootEffect
  <2>4. PICK n : n = NodeAt(q) /\ n = LeafNode(<<>>, <<>>, 0) /\ n # Zeros
    BY <1>1, <1>3 DEF RootAbove
  <2>5. q \in Pages0 /\ q \in owned'
    BY <1>1, <2>3, OwnedPages
  <2>6. NodeMem'[q] = n
    BY <2>3, <2>4, <2>5 DEF NodeMem, NodesUnchanged, Pages0
  <2>7. PICK m, S, C : m = NodeMem' /\ S = owned' /\ C = [i \in 0..0 |-> q]
    OBVIOUS
  <2>8. q \in S /\ m[q] # Zeros /\ IsLeaf(m[q]) /\ m[q].rightPtr = 0 /\ C[0] = q
    BY <2>4, <2>5, <2>6, <2>7 DEF LeafNode, IsLeaf
  <2>9. LeafList(m, S, {}, C, 0)
    <3>1. C \in [0..0 -> S] /\ \A i \in 0..0 : i = 0 /\ C[i] = q
      BY <2>7, <2>8
    <3>2. \A i \in 0..(0 - 1) : FALSE
      OBVIOUS
    <3> QED BY <2>8, <3>1, <3>2 DEF LeafList
  <2>10. LeftmostIs(m, S, q, C[0])
    BY <2>8, LeftmostAlone
  <2>11. ListAt(C, 0)'
    BY <2>2, <2>3, <2>7, <2>9, <2>10, ListMemIsNext DEF ListAt, ListIs
  <2>12. \A keys : ListKeeps(keys)'
    BY <2>1 DEF ListKeeps, Finish
  <2>13. HasList'
    BY <2>11, <2>12 DEF HasList
  <2>14. NothingLost
    BY <1>3 DEF ListInv, NothingLost
  <2> QED BY <2>2, <2>13, <2>14 DEF ListInv, LosesNothing
<1> QED BY <1>2, <1>3

-----------------------------------------------------------------------------
(* The writes.                                                             *)

Wrote(q, n) ==
  /\ pc \in {"write", "writeroot"} /\ todo # <<>> /\ q = todo[1].page /\ n = todo[1].node
  /\ q \in owned /\ n # Zeros
  /\ NodeAt(q)' = n /\ \A p \in Pages0 : p # q => NodeAt(p)' = NodeAt(p)
  /\ UNCHANGED <<header, fileHeader, owned>>
  /\ todo' = Tail(todo)
  /\ pc' = IF Len(todo) > 1 THEN pc ELSE IF pc = "write" THEN "unwind" ELSE "setroot"
  /\ UNCHANGED <<op, cur, stack, split, before>>
  /\ NodeMem' = [p \in Pages0 |-> IF p = q THEN n ELSE NodeMem[p]]
  /\ q \in Pages0 /\ NodeMem[q] = NodeAt(q)
  /\ \A i \in DOMAIN todo : todo[i].page \in owned /\ todo[i].page \in Pages0
                            /\ todo[i].node # Zeros

LEMMA NodesNotZeros ==
  ASSUME NEW S, NEW n, NodeOver(n, S)
  PROVE  n # Zeros
BY ZerosAssumption DEF NodeOver

LEMMA WroteFacts ==
  ASSUME NodeType \subseteq Body, TreeInv, WriteNode
  PROVE  \E q, n : Wrote(q, n)
<1>1. PICK q, n : q = todo[1].page /\ n = todo[1].node
  OBVIOUS
<1>2. /\ pc \in {"write", "writeroot"} /\ WritePage(q, serializeNode(n)) /\ todo' = Tail(todo)
      /\ pc' = IF Len(todo) > 1 THEN pc ELSE IF pc = "write" THEN "unwind" ELSE "setroot"
      /\ UNCHANGED <<op, cur, stack, split, before>>
  BY <1>1 DEF WriteNode
<1>3. /\ todo \in Seq(Writes(owned)) /\ todo # <<>> /\ PagesInv
  BY <1>2, InvFacts DEF PlacesOK
<1>4. 1 \in DOMAIN todo /\ \A i \in DOMAIN todo : todo[i] \in Writes(owned)
  BY <1>3
<1>5. \A i \in DOMAIN todo : todo[i].page \in owned /\ NodeOver(todo[i].node, owned)
  BY <1>4 DEF Writes
<1>6. \A i \in DOMAIN todo : todo[i].page \in Pages0 /\ todo[i].node # Zeros
  BY <1>5, NodesNotZeros, OwnedPages
<1>7. q \in owned /\ q \in Pages0 /\ NodeOver(n, owned) /\ n # Zeros
  BY <1>1, <1>4, <1>5, <1>6
<1>8. /\ UNCHANGED <<header, fileHeader, owned>> /\ NodeAt(q)' = n
      /\ \A p \in 0..PageLimit : p # q => NodeAt(p)' = NodeAt(p)
  BY <1>2, <1>3, <1>7, WriteEffect
<1>9. \A p \in Pages0 : p # q => NodeAt(p)' = NodeAt(p)
  BY <1>8 DEF Pages0
<1>10. NodeMem[q] = NodeAt(q)
  BY <1>7 DEF NodeMem
<1>11. \A p \in Pages0 : NodeMem'[p] = IF p = q THEN n ELSE NodeMem[p]
  BY <1>8, <1>9 DEF NodeMem
<1>12. NodeMem' = [p \in Pages0 |-> NodeMem'[p]]
  BY DEF NodeMem, Pages0
<1>13. NodeMem' = [p \in Pages0 |-> IF p = q THEN n ELSE NodeMem[p]]
  BY <1>11, <1>12
<1>14. Wrote(q, n)
  BY <1>1, <1>2, <1>3, <1>5, <1>6, <1>7, <1>8, <1>9, <1>10, <1>13 DEF Wrote
<1> QED BY <1>14

(* No frame is of a page that had no node.                                 *)
LEMMA WriteFramesListed ==
  ASSUME TreeInv, FramesKept, NEW q, NEW n, Wrote(q, n), Shape(NodeAt(q), n) \/ NodeAt(q) = Zeros
  PROVE  FramesKept'
<1>1. stack \in Seq(Frames(owned)) /\ stack' = stack
  BY InvFacts DEF Wrote
<1>2. \A j \in DOMAIN stack : stack[j].page \in owned
  BY <1>1 DEF Frames
<1> SUFFICES ASSUME NEW j \in DOMAIN stack
             PROVE  Shape(NodeAt(stack[j].page), stack[j].node)'
  BY <1>1 DEF FramesKept
<1>3. PICK p, g : p = stack[j].page /\ g = stack[j].node
  OBVIOUS
<1>4. p \in owned /\ p \in Pages0 /\ stack'[j].page = p /\ stack'[j].node = g
  BY <1>1, <1>2, <1>3, OwnedPages
<1>5. Shape(NodeAt(p), g)
  BY <1>3 DEF FramesKept
<1>6. Shape(NodeAt(p)', g)
  <2>1. CASE p # q
    BY <1>4, <1>5, <2>1 DEF Wrote
  <2>2. CASE p = q
    <3>1. NodeAt(p)' = n /\ n # Zeros /\ NodeAt(p) # Zeros /\ Shape(NodeAt(p), n)
      BY <1>5, <2>2 DEF Wrote, Shape
    <3> QED BY <1>5, <3>1 DEF Shape
  <2> QED BY <2>1, <2>2
<1> QED BY <1>4, <1>6

LEMMA WrittenList ==
  ASSUME HasList, owned' = owned, UNCHANGED <<header, fileHeader, op, before>>,
         LinksKept(ListMem, ListMem', owned, TodoPages, TodoPages'),
         KeysKept(ListMem, ListMem', owned, {op.key}),
         ShapesKept(NodeMem, NodeMem', owned),
         pc \notin {"idle", "closed"}, pc' \notin {"idle", "closed", "visit", "scan"}
  PROVE  HasList'
<1>1. PICK C, n : ListAt(C, n) /\ ListKeeps(KeysOf(ListMem, C, n))
  BY DEF HasList
<1>2. PICK m, m2, h, h2, S, T, T2, K :
        /\ m = ListMem /\ m2 = ListMem' /\ h = NodeMem /\ h2 = NodeMem'
        /\ S = owned /\ T = TodoPages /\ T2 = TodoPages' /\ K = {op.key}
  OBVIOUS
<1>3. /\ LeafList(m, S, T, C, n) /\ LeftmostIs(h, S, header.RootPageID, C[0])
      /\ LeftmostIs(h, S, fileHeader.RootPageID, C[0])
      /\ before.listed \ K \subseteq KeysOf(m, C, n)
  BY <1>1, <1>2 DEF ListAt, ListIs, ListKeeps
<1>4. LinksKept(m, m2, S, T, T2) /\ KeysKept(m, m2, S, K) /\ ShapesKept(h, h2, S)
  BY <1>2
<1>5. LeafList(m2, S, T2, C, n)
  BY <1>3, <1>4, LeafListKept
<1>6. KeysOf(m, C, n) \ K \subseteq KeysOf(m2, C, n)
  BY <1>3, <1>4, ListKeysKept
<1>7. \A root, leaf : LeftmostIs(h, S, root, leaf) => LeftmostIs(h2, S, root, leaf)
  BY <1>4, LeftmostKept
<1>8. ListAt(C, n)'
  BY <1>2, <1>3, <1>5, <1>7 DEF ListAt, ListIs
<1>9. before.listed \ K \subseteq KeysOf(m2, C, n)
  BY <1>3, <1>6
<1>10. ListKeeps(KeysOf(ListMem, C, n))'
  BY <1>2, <1>9 DEF ListKeeps
<1> QED BY <1>8, <1>10 DEF HasList

(* A node that was not split, or the right half, or a new root.            *)
LEMMA LastWritePending ==
  ASSUME TreeInv, ListInv, NEW q, NEW n, Wrote(q, n), Len(todo) = 1
  PROVE  /\ PendingOK' /\ FramesKept' /\ ~RightHalf' /\ ListMem' = NodeMem'
         /\ TodoPages = {q} /\ TodoPages' = {}
         /\ pc' \in {"unwind", "setroot"}
         /\ \/ NodeAt(q) = Zeros /\ (RightHalf => ListMem' = ListMem) /\ (~RightHalf => ListMem = NodeMem)
            \/ ListMem = NodeMem /\ Shape(NodeAt(q), n) /\ Edit(NodeAt(q), n)
<1>1. /\ todo' = Tail(todo) /\ q = todo[1].page /\ n = todo[1].node /\ todo # <<>>
      /\ pc \in {"write", "writeroot"} /\ UNCHANGED <<op, cur, split, header>>
      /\ pc' = IF pc = "write" THEN "unwind" ELSE "setroot"
  BY DEF Wrote
<1>2. todo \in Seq(Writes(owned))
  BY InvFacts
<1>3. todo' = <<>> /\ DOMAIN todo = {1}
  BY <1>1, <1>2
<1>4. DOMAIN todo' = {} /\ TodoPages = {q} /\ TodoPages' = {}
  BY <1>1, <1>3 DEF TodoPages
<1>5. ~RightHalf' /\ ListMem' = NodeMem'
  BY <1>1, ListMemIsNext DEF RightHalf
<1>6. NodeAt(q)' = n /\ n # Zeros
  BY DEF Wrote
<1>7. PendingOK'
  <2>1. CASE pc = "write"
    BY <1>1, <1>3, <2>1 DEF PendingOK
  <2>2. CASE pc = "writeroot"
    <3>1. /\ pc' = "setroot" /\ q = cur /\ split = NoSplit /\ RootAbove(n)
      BY <1>1, <2>2 DEF ListInv, PendingOK
    <3>2. RootAbove(n)'
      BY <1>1, <3>1 DEF RootAbove
    <3>3. cur' = q /\ split' = NoSplit
      BY <1>1, <3>1
    <3>4. NodeAt(cur)' = n
      BY <1>6, <3>3
    <3>5. NodeAt(cur)' # Zeros /\ RootAbove(NodeAt(cur))'
      BY <1>6, <3>2, <3>4 DEF RootAbove
    <3> QED BY <1>3, <3>1, <3>3, <3>5 DEF PendingOK
  <2> QED BY <1>1, <2>1, <2>2
<1>8. \/ NodeAt(q) = Zeros /\ (RightHalf => ListMem' = ListMem) /\ (~RightHalf => ListMem = NodeMem)
      \/ ListMem = NodeMem /\ Shape(NodeAt(q), n) /\ Edit(NodeAt(q), n)
  <2>1. CASE pc = "write" /\ split = NoSplit
    <3>1. Shape(NodeAt(q), n) /\ Edit(NodeAt(q), n)
      BY <1>1, <2>1 DEF ListInv, PendingOK
    <3>2. ~RightHalf
      BY <2>1 DEF RightHalf
    <3> QED BY <3>1, <3>2, ListMemIs
  <2>2. CASE pc = "write" /\ split # NoSplit
    <3>1. NodeAt(q) = Zeros /\ RightHalf
      BY <1>1, <2>2 DEF ListInv, PendingOK, RightHalf
    <3>2. ListMem = [p \in Pages0 |-> IF p = q THEN n ELSE NodeMem[p]]
      BY <1>1, <3>1 DEF ListMem, NodeMem
    <3>3. ListMem' = ListMem
      BY <1>5, <3>2 DEF Wrote
    <3> QED BY <3>1, <3>3
  <2>3. CASE pc = "writeroot"
    <3>1. NodeAt(q) = Zeros /\ ~RightHalf
      BY <1>1, <2>3 DEF ListInv, PendingOK, RightHalf
    <3> QED BY <3>1, ListMemIs
  <2> QED BY <1>1, <2>1, <2>2, <2>3
<1>9. FramesKept'
  BY <1>8, WriteFramesListed DEF ListInv
<1> QED BY <1>1, <1>4, <1>5, <1>7, <1>8, <1>9

LEMMA LastWriteListed ==
  ASSUME TreeInv, ListInv, NEW q, NEW n, Wrote(q, n), Len(todo) = 1
  PROVE  ListInv' /\ LosesNothing
<1>1. /\ PendingOK' /\ FramesKept' /\ ~RightHalf' /\ ListMem' = NodeMem'
      /\ TodoPages = {q} /\ TodoPages' = {}
      /\ pc' \in {"unwind", "setroot"}
      /\ \/ NodeAt(q) = Zeros /\ (RightHalf => ListMem' = ListMem) /\ (~RightHalf => ListMem = NodeMem)
         \/ ListMem = NodeMem /\ Shape(NodeAt(q), n) /\ Edit(NodeAt(q), n)
  BY LastWritePending
<1>2. /\ UNCHANGED <<op, before, stack, header, fileHeader>> /\ owned' = owned
      /\ pc \notin {"idle", "closed"} /\ q \in owned /\ n # Zeros
  BY DEF Wrote
<1>3. LosesNothing
  BY <1>1 DEF LosesNothing, Completes
<1>4. CASE op.kind = "open"
  BY <1>1, <1>2, <1>3, <1>4 DEF ListInv
<1>5. CASE op.kind # "open"
  <2>1. /\ \A p \in owned : NodeMem'[p] = IF p = q THEN n ELSE NodeMem[p]
        /\ NodeMem[q] = NodeAt(q)
    BY OwnedPages DEF Wrote
  <2>2. ShapesKept(NodeMem, NodeMem', owned)
    <3> SUFFICES ASSUME NEW p \in owned, NodeMem[p] # Zeros
                 PROVE  NodeMem'[p] # Zeros /\ Shape(NodeMem[p], NodeMem'[p])
      BY DEF ShapesKept
    <3>1. CASE p = q
      BY <1>1, <1>2, <2>1, <3>1
    <3>2. CASE p # q
      BY <2>1, <3>2 DEF Shape
    <3> QED BY <3>1, <3>2
  <2>3. LinksKept(ListMem, ListMem', owned, TodoPages, TodoPages')
        /\ KeysKept(ListMem, ListMem', owned, {op.key})
    <3>1. CASE ListMem' = ListMem
      BY <1>1, <3>1 DEF LinksKept, KeysKept
    <3>2. CASE ListMem = NodeMem /\ NodeAt(q) = Zeros
      BY <1>1, <2>1, <3>2 DEF LinksKept, KeysKept
    <3>3. CASE ListMem = NodeMem /\ Shape(NodeAt(q), n) /\ Edit(NodeAt(q), n)
      <4> SUFFICES ASSUME NEW p \in owned
                   PROVE  /\ NodeMem[p] # Zeros /\ IsLeaf(NodeMem[p]) =>
                               /\ NodeMem'[p] # Zeros /\ IsLeaf(NodeMem'[p])
                               /\ NodeMem'[p].rightPtr = NodeMem[p].rightPtr
                               /\ KeysIn(NodeMem[p]) \ {op.key} \subseteq KeysIn(NodeMem'[p])
                          /\ NodeMem[p] = Zeros /\ p \notin TodoPages =>
                               NodeMem'[p] = Zeros /\ p \notin TodoPages'
        BY <1>1, <3>3 DEF LinksKept, KeysKept
      <4>1. CASE p = q
        BY <1>1, <1>2, <2>1, <3>3, <4>1 DEF Shape, Edit
      <4>2. CASE p # q
        BY <1>1, <2>1, <4>2
      <4> QED BY <4>1, <4>2
    <3> QED BY <1>1, <3>1, <3>2, <3>3
  <2>4. HasList
    BY <1>5 DEF ListInv
  <2>5. pc' \notin {"idle", "closed", "visit", "scan"}
    BY <1>1
  <2>6. HasList'
    BY <1>2, <2>2, <2>3, <2>4, <2>5, WrittenList
  <2> QED BY <1>1, <1>2, <1>3, <1>5, <2>6 DEF ListInv
<1> QED BY <1>4, <1>5

(* The left half of a split.                                               *)
LEMMA LeftWritePending ==
  ASSUME TreeInv, ListInv, NEW q, NEW n, Wrote(q, n), Len(todo) # 1
  PROVE  /\ PendingOK' /\ FramesKept' /\ RightHalf' /\ ListMem = NodeMem
         /\ pc = "write" /\ pc' = "write" /\ DOMAIN todo = {1, 2}
         /\ todo'[1] = todo[2] /\ TodoPages' = {todo[2].page}
         /\ TodoPages = {q, todo[2].page} /\ NodeAt(todo[2].page) = Zeros
         /\ Shape(NodeAt(q), n) /\ HalvesEdit(NodeAt(q), n, todo[2].node, todo[2].page)
<1>1. /\ todo' = Tail(todo) /\ q = todo[1].page /\ n = todo[1].node /\ todo # <<>>
      /\ pc \in {"write", "writeroot"} /\ UNCHANGED <<op, cur, split>>
      /\ pc' = IF Len(todo) > 1 THEN pc ELSE IF pc = "write" THEN "unwind" ELSE "setroot"
      /\ todo \in Seq(Writes(owned))
  BY InvFacts DEF Wrote
<1>2. /\ pc = "write" /\ split # NoSplit /\ Len(todo) = 2 /\ NodeAt(todo[2].page) = Zeros
      /\ Shape(NodeAt(q), n) /\ HalvesEdit(NodeAt(q), n, todo[2].node, todo[2].page)
  <2>1. pc = "write"
    BY <1>1 DEF ListInv, PendingOK
  <2>2. split # NoSplit
    BY <2>1 DEF ListInv, PendingOK
  <2> QED BY <1>1, <2>1, <2>2 DEF ListInv, PendingOK
<1>3. pc' = "write" /\ DOMAIN todo = {1, 2}
  BY <1>1, <1>2
<1>4. Len(todo') = 1 /\ todo'[1] = todo[2] /\ DOMAIN todo' = {1}
  <2>1. todo \in Seq(Writes(owned)) /\ todo' = Tail(todo) /\ Len(todo) = 2
    BY <1>1, <1>2
  <2>2. PICK t : t = Tail(todo)
    OBVIOUS
  <2>3. /\ t \in Seq(Writes(owned)) /\ Len(t) = 1
        /\ \A i \in 1..Len(t) : t[i] = todo[i + 1]
    BY <1>1, <2>1, <2>2, HeadTailProperties
  <2>4. t[1] = todo[1 + 1] /\ DOMAIN t = {1}
    BY <2>3
  <2> QED BY <2>1, <2>2, <2>3, <2>4
<1>5. RightHalf' /\ ~RightHalf
  BY <1>1, <1>2, <1>3, <1>4 DEF RightHalf
<1>6. PICK new : new = todo[2].page /\ new \in Pages0 /\ new # q
  <2>1. todo[2].page \in Pages0
    BY <1>3 DEF Wrote
  <2>2. NodeAt(q) # Zeros
    BY <1>2 DEF Shape
  <2> QED BY <1>2, <2>1, <2>2
<1>7. NodeAt(new)' = Zeros
  BY <1>2, <1>6 DEF Wrote
<1>8. NodeAt(todo[1].page)' = Zeros
  BY <1>4, <1>6, <1>7
<1>9. PendingOK'
  BY <1>1, <1>2, <1>3, <1>4, <1>8 DEF PendingOK
<1>10. FramesKept'
  BY <1>2, WriteFramesListed DEF ListInv
<1>11. TodoPages' = {todo[2].page} /\ TodoPages = {q, todo[2].page}
  BY <1>1, <1>3, <1>4 DEF TodoPages
<1> QED BY <1>2, <1>3, <1>4, <1>5, <1>9, <1>10, <1>11, ListMemIs

LEMMA LeftWriteListed ==
  ASSUME TreeInv, ListInv, NEW q, NEW n, Wrote(q, n), Len(todo) # 1
  PROVE  ListInv' /\ LosesNothing
<1>1. /\ PendingOK' /\ FramesKept' /\ RightHalf' /\ ListMem = NodeMem
      /\ pc = "write" /\ pc' = "write" /\ DOMAIN todo = {1, 2}
      /\ todo'[1] = todo[2] /\ TodoPages' = {todo[2].page}
      /\ TodoPages = {q, todo[2].page} /\ NodeAt(todo[2].page) = Zeros
      /\ Shape(NodeAt(q), n) /\ HalvesEdit(NodeAt(q), n, todo[2].node, todo[2].page)
  BY LeftWritePending
<1>2. /\ UNCHANGED <<op, before, header, fileHeader>> /\ owned' = owned
      /\ q \in owned /\ n # Zeros /\ q \in Pages0
  BY DEF Wrote
<1>3. PICK new, right : /\ new = todo[2].page /\ right = todo[2].node /\ new \in owned
                        /\ right # Zeros /\ new \in Pages0
  BY <1>1 DEF Wrote
<1>4. op.kind # "open"
  BY <1>1 DEF TreeInv, PlacesOK
<1>5. PICK C, l : ListAt(C, l) /\ ListKeeps(KeysOf(ListMem, C, l))
  BY <1>4 DEF ListInv, HasList
<1>6. PICK m, m2, h2, S, T, T2, K :
        /\ m = NodeMem /\ m2 = ListMem' /\ h2 = NodeMem' /\ S = owned
        /\ T = TodoPages /\ T2 = TodoPages' /\ K = {op.key}
  OBVIOUS
<1>7. new # q /\ NodeAt(q) # Zeros
  BY <1>1, <1>3 DEF Shape
<1>8. \A p \in Pages0 : h2[p] = IF p = q THEN n ELSE m[p]
  BY <1>6 DEF Wrote
<1>9. \A p \in Pages0 : m2[p] = IF p = new THEN right ELSE h2[p]
  BY <1>1, <1>3, <1>6 DEF ListMem, NodeMem
<1>10. m[q] = NodeAt(q) /\ m[new] = Zeros
  BY <1>1, <1>2, <1>3, <1>6 DEF NodeMem
<1>11. m2[q] = n /\ m2[new] = right
  BY <1>2, <1>3, <1>7, <1>8, <1>9
<1>12. \A p \in S : p \in Pages0
  BY <1>6, OwnedPages
<1>13. \A p \in S : p # q /\ p # new => m2[p] = m[p]
  BY <1>8, <1>9, <1>12
<1>14. ShapesKept(m, h2, S)
  BY <1>1, <1>2, <1>8, <1>10, <1>12 DEF ShapesKept, Shape
<1>15. /\ LeafList(m, S, T, C, l) /\ LeftmostIs(m, S, header.RootPageID, C[0])
       /\ LeftmostIs(m, S, fileHeader.RootPageID, C[0])
       /\ before.listed \ K \subseteq KeysOf(m, C, l)
  BY <1>1, <1>5, <1>6 DEF ListAt, ListIs, ListKeeps
<1>16. /\ q \in S /\ new \in S /\ new \in T /\ T2 \subseteq T
       /\ m[q] # Zeros /\ m2[q] # Zeros /\ m2[new] # Zeros
  BY <1>1, <1>2, <1>3, <1>6, <1>7, <1>10, <1>11
<1>17. /\ IsLeaf(m[q]) <=> IsLeaf(m2[q])
       /\ IsLeaf(m[q]) => /\ IsLeaf(m2[new]) /\ m2[q].rightPtr = new
                          /\ m2[new].rightPtr = m[q].rightPtr
                          /\ KeysIn(m[q]) \ K \subseteq KeysIn(m2[q]) \cup KeysIn(m2[new])
  <2>1. PICK old : old = NodeAt(q)
    OBVIOUS
  <2>2. /\ IsLeaf(old) <=> IsLeaf(n)
        /\ IsLeaf(n) => /\ IsLeaf(right) /\ n.rightPtr = new /\ right.rightPtr = old.rightPtr
                        /\ KeysIn(old) \ K \subseteq KeysIn(n) \cup KeysIn(right)
    BY <1>1, <1>3, <1>6, <2>1 DEF Shape, HalvesEdit
  <2> QED BY <1>10, <1>11, <2>1, <2>2
<1>18. PICK C2, l2 : /\ C2[0] = C[0] /\ LeafList(m2, S, T2, C2, l2)
                     /\ KeysOf(m, C, l) \ K \subseteq KeysOf(m2, C2, l2)
  <2>1. /\ T2 \subseteq T /\ LeafList(m, S, T, C, l) /\ q \in S /\ new \in S /\ new \in T
        /\ \A p \in S : p # q /\ p # new => m2[p] = m[p]
        /\ m[q] # Zeros /\ m[new] = Zeros /\ m2[q] # Zeros /\ m2[new] # Zeros
        /\ IsLeaf(m[q]) <=> IsLeaf(m2[q])
        /\ IsLeaf(m[q]) => /\ IsLeaf(m2[new]) /\ m2[q].rightPtr = new
                           /\ m2[new].rightPtr = m[q].rightPtr
                           /\ KeysIn(m[q]) \ K \subseteq KeysIn(m2[q]) \cup KeysIn(m2[new])
    BY <1>10, <1>13, <1>15, <1>16, <1>17
  <2> QED BY ONLY <2>1, ListSplit
<1>19. /\ LeftmostIs(h2, S, header.RootPageID, C2[0])
       /\ LeftmostIs(h2, S, fileHeader.RootPageID, C2[0])
  BY <1>14, <1>15, <1>18, LeftmostKept
<1>20. ListAt(C2, l2)'
  BY <1>2, <1>6, <1>18, <1>19 DEF ListAt, ListIs
<1>21. before.listed \ K \subseteq KeysOf(m2, C2, l2)
  BY <1>15, <1>18
<1>22. ListKeeps(KeysOf(ListMem, C2, l2))'
  BY <1>1, <1>2, <1>6, <1>21 DEF ListKeeps
<1>23. HasList'
  BY <1>20, <1>22 DEF HasList
<1>24. op'.kind # "open"
  BY <1>2, <1>4
<1> QED BY <1>1, <1>23, <1>24 DEF ListInv, LosesNothing, Completes

LEMMA WriteNodeListed ==
  ASSUME NodeType \subseteq Body, TreeInv, ListInv, WriteNode
  PROVE  ListInv' /\ LosesNothing
<1>1. PICK q, n : Wrote(q, n)
  BY WroteFacts
<1> QED BY <1>1, LastWriteListed, LeftWriteListed

LEMMA RightHalfLost ==
  ASSUME TreeInv, ListInv, WriteOverflow, RightHalf, op.kind # "open"
  PROVE  ListInv' /\ LosesNothing
<1>1. /\ pc = "write" /\ split # NoSplit /\ Len(todo) = 1 /\ nodeSize(todo[1].node) > cellAreaSize
      /\ Finish("error") /\ UNCHANGED pagerVars
  BY DEF WriteOverflow, Return, RightHalf
<1>2. LosesNothing
  BY <1>1 DEF LosesNothing, Overflows
<1>3. PendingOK' /\ FramesKept' /\ ~RightHalf' /\ TodoPages' = {} /\ op'.kind # "open"
  BY <1>1, EndPending
<1>4. PICK new, n : new = todo[1].page /\ n = todo[1].node
  OBVIOUS
<1>5. todo[1] \in Writes(owned)
  <2>1. todo \in Seq(Writes(owned))
    BY InvFacts
  <2>2. 1 \in 1..Len(todo)
    BY <1>1
  <2> QED BY ONLY <2>1, <2>2
<1>6. new \in owned /\ n # Zeros
  BY <1>4, <1>5, NodesNotZeros DEF Writes
<1>7. NodeAt(new) = Zeros
  BY <1>1, <1>4 DEF ListInv, PendingOK
<1>8. PagesUnchanged
  BY <1>1, SamePages DEF TreeInv
<1>9. NodeMem' = NodeMem
  BY <1>8 DEF NodeMem, PagesUnchanged, NodesUnchanged, Pages0
<1>10. PICK C, l : ListAt(C, l)
  BY DEF ListInv, HasList
<1>11. PICK m, m2, S, T : m = ListMem /\ m2 = NodeMem /\ S = owned /\ T = TodoPages
  OBVIOUS
<1>12. /\ LeafList(m, S, T, C, l) /\ LeftmostIs(m2, S, header.RootPageID, C[0])
       /\ LeftmostIs(m2, S, fileHeader.RootPageID, C[0])
  BY <1>10, <1>11 DEF ListAt, ListIs
<1>13. \A p \in S : p # new => m2[p] = m[p]
  BY <1>4, <1>11, OwnedPages DEF ListMem, NodeMem
<1>14. new \in S /\ m[new] # Zeros /\ m2[new] = Zeros
  <2>1. new \in Pages0
    BY <1>6, OwnedPages
  <2>2. ListMem[new] = n /\ NodeMem[new] = Zeros
    BY <1>4, <1>7, <2>1 DEF ListMem, NodeMem
  <2> QED BY <1>6, <1>11, <2>2
<1>15. m2[C[0]] # Zeros
  <2>1. PICK W, w : Leftmost(m2, S, W, w, header.RootPageID, C[0])
    BY <1>12 DEF LeftmostIs
  <2> QED BY ONLY <2>1 DEF Leftmost
<1>16. PICK C2, l2 : C2[0] = C[0] /\ LeafList(m2, S, {}, C2, l2)
  <2>1. LeafList(m, S, T, C, l) /\ LosesNode(m, m2, S, new) /\ m2[C[0]] # Zeros
    BY <1>12, <1>13, <1>14, <1>15 DEF LosesNode
  <2>2. CutTo(m2, S, C[0])
    BY ONLY <2>1, ListCut
  <2> QED BY <2>2 DEF CutTo
<1>17. ListMem' = m2 /\ NodeMem' = m2 /\ owned' = S
  BY <1>3, <1>8, <1>9, <1>11, ListMemIsNext DEF PagesUnchanged
<1>18. ListAt(C2, l2)'
  BY <1>3, <1>8, <1>12, <1>16, <1>17 DEF ListAt, ListIs, PagesUnchanged
<1>19. \A keys : ListKeeps(keys)'
  BY <1>1 DEF ListKeeps, Finish
<1>20. HasList'
  BY <1>18, <1>19 DEF HasList
<1> QED BY <1>2, <1>3, <1>20 DEF ListInv

LEMMA WriteOverflowListed ==
  ASSUME TreeInv, TreeInv', ListInv, WriteOverflow
  PROVE  ListInv' /\ LosesNothing
<1>1. /\ pc \in {"write", "writeroot"} /\ nodeSize(todo[1].node) > cellAreaSize
      /\ Finish("error") /\ UNCHANGED pagerVars
  BY DEF WriteOverflow, Return
<1>2. op.kind # "open"
  BY <1>1, EmptyLeafSize, TreeAssumption DEF TreeInv, PlacesOK
<1>3. CASE RightHalf
  BY <1>2, <1>3, RightHalfLost
<1>4. CASE ~RightHalf
  <2>1. NodesStay /\ RootsLead
    BY <1>1, SamePages, SameNodes DEF TreeInv
  <2>2. pc \notin {"idle", "closed"}
    BY <1>1
  <2> QED BY <1>1, <1>2, <1>4, <2>1, <2>2, EndListed
<1> QED BY <1>3, <1>4

(* A new operation notes what a scan would list.                           *)
LEMMA CallListed ==
  ASSUME TreeInv, ListInv, NEW kind, NEW k, NEW v, Call(kind, k, v),
         kind \in {"put", "get", "delete", "keys", "depth"}
  PROVE  ListInv' /\ LosesNothing
<1>1. /\ pc = "idle" /\ pc' = "visit" /\ UNCHANGED pagerVars /\ UNCHANGED <<stack, todo, split>>
      /\ op' = [kind |-> kind, key |-> k, value |-> v] /\ before'.listed = ListedKeys
  BY DEF Call
<1>2. op.kind # "open" /\ op'.kind # "open"
  BY <1>1 DEF TreeInv, PlacesOK
<1>3. NodesStay /\ RootsLead
  BY <1>1, SamePages, SameNodes DEF TreeInv
<1>4. todo = <<>> /\ split = NoSplit /\ ~RightHalf
  BY <1>1, RestingPending DEF ListInv, Resting
<1>5. PendingOK' /\ ~RightHalf' /\ TodoPages' = {}
  BY <1>1, <1>4, NowResting DEF Resting
<1>6. FramesKept'
  BY <1>1, <1>3, FramesStill DEF ListInv
<1>7. PICK C, n : ListAt(C, n)
  BY <1>2 DEF ListInv, HasList
<1>8. ListStays
  BY <1>3, <1>4, <1>5 DEF ListStays
<1>9. ListAt(C, n)' /\ KeysOf(ListMem', C, n) = KeysOf(ListMem, C, n)
  BY <1>7, <1>8, ListStill
<1>10. ListedKeys = KeysOf(ListMem, C, n)
  BY <1>4, <1>7, ListedNow DEF ListedIsList
<1>11. ListKeeps(KeysOf(ListMem, C, n))'
  BY <1>1, <1>9, <1>10 DEF ListKeeps
<1>12. HasList'
  BY <1>9, <1>11 DEF HasList
<1> QED BY <1>1, <1>2, <1>5, <1>6, <1>12 DEF ListInv, LosesNothing, Completes

(* Between operations, from one process to the next.                       *)
SameKeys == ListedKeys' = ListedKeys

LEMMA RestListed ==
  ASSUME TreeInv, TreeInv', ListInv, op.kind # "open", NodesStay, RootsLead,
         pc \in {"idle", "closed"}, pc' \in {"idle", "closed"}, UNCHANGED <<op, stack, todo, split>>
  PROVE  ListInv' /\ LosesNothing /\ SameKeys
<1>1. todo = <<>> /\ split = NoSplit /\ ~RightHalf
  BY RestingPending DEF ListInv, Resting
<1>2. PendingOK' /\ ~RightHalf' /\ TodoPages' = {} /\ todo' = <<>>
  BY <1>1, NowResting DEF Resting
<1>3. FramesKept'
  BY FramesStill DEF ListInv
<1>4. PICK C, n : ListAt(C, n)
  BY DEF ListInv, HasList
<1>5. ListStays
  BY <1>1, <1>2 DEF ListStays
<1>6. ListAt(C, n)' /\ KeysOf(ListMem', C, n) = KeysOf(ListMem, C, n)
  BY <1>4, <1>5, ListStill
<1>7. \A keys : ListKeeps(keys)'
  BY DEF ListKeeps
<1>8. HasList'
  BY <1>6, <1>7 DEF HasList
<1>9. ListedKeys = KeysOf(ListMem, C, n)
  BY <1>1, <1>4, ListedNow DEF ListedIsList
<1>10. ListedKeys' = KeysOf(ListMem', C, n)
  BY <1>2, <1>6, ListedNext DEF ListedIsList
<1> QED BY <1>2, <1>3, <1>6, <1>8, <1>9, <1>10 DEF ListInv, LosesNothing, Completes, SameKeys

LEMMA CloseListed ==
  ASSUME TreeInv, TreeInv', ListInv, CloseTree
  PROVE  ListInv' /\ LosesNothing /\ SameKeys
<1>1. /\ pc = "idle" /\ pc' = "closed" /\ Close /\ UNCHANGED <<op, stack, todo, split>>
  BY DEF CloseTree
<1>2. op.kind # "open"
  BY <1>1 DEF TreeInv, PlacesOK
<1>3. PagesUnchanged
  BY <1>1, FlushEffect DEF TreeInv
<1>4. NodesStay /\ RootsLead
  BY <1>3, SameNodes
<1> QED BY <1>1, <1>2, <1>4, RestListed

LEMMA ReopenListed ==
  ASSUME TreeInv, TreeInv', ListInv, ReopenTree
  PROVE  ListInv' /\ LosesNothing /\ SameKeys
<1>1. pc = "closed" /\ OpenPager /\ UNCHANGED <<stack, todo, split>>
  BY DEF ReopenTree
<1>2. op.kind # "open"
  BY <1>1 DEF ListInv
<1>3. /\ NodesUnchanged /\ UNCHANGED <<fileHeader, owned>> /\ header' = fileHeader
  BY <1>1, OpenEffect DEF TreeInv
<1>4. NodesStay /\ RootsLead
  BY <1>3, OwnedPages, SameRoots DEF NodesStay, NodesUnchanged, Pages0
<1>5. fileHeader.RootPageID # 0
  <2>1. PICK C, n : ListAt(C, n)
    BY <1>2 DEF ListInv, HasList
  <2>2. PICK W, w : Leftmost(NodeMem, owned, W, w, fileHeader.RootPageID, C[0])
    BY <2>1 DEF ListAt, ListIs, LeftmostIs
  <2>3. w \in Nat /\ W \in [0..w -> owned] /\ W[w] = fileHeader.RootPageID
    BY <2>2 DEF Leftmost
  <2>4. fileHeader.RootPageID \in owned
    BY <2>3
  <2> QED BY <2>4, OwnedPages
<1>6. pc' = "idle" /\ UNCHANGED op
  BY <1>5 DEF ReopenTree
<1> QED BY <1>1, <1>2, <1>4, <1>6, RestListed

(* Steps that change nothing the list depends on.                          *)
LEMMA StillListed ==
  ASSUME TreeInv, ListInv, UNCHANGED pagerVars, UNCHANGED <<pc, op, cur, stack, todo, split, before>>
  PROVE  ListInv' /\ LosesNothing
<1>1. PagesUnchanged
  BY SamePages DEF TreeInv
<1>2. NodesStay /\ RootsLead
  BY <1>1, SameNodes
<1>3. FramesKept'
  BY <1>2, FramesStill DEF ListInv
<1>4. \A p : NodeAt(p)' = NodeAt(p)
  BY DEF NodeAt, View, pagerVars
<1>5. PendingOK'
  BY <1>4 DEF ListInv, PendingOK, Edit, HalvesEdit, RootAbove, pagerVars
<1>6. ListMem' = ListMem /\ NodeMem' = NodeMem /\ TodoPages' = TodoPages
  BY <1>1 DEF ListMem, NodeMem, PagesUnchanged, NodesUnchanged, Pages0, RightHalf, TodoPages
<1>7. HasList => HasList'
  BY <1>1, <1>6 DEF HasList, ListAt, ListKeeps, PagesUnchanged
<1> QED BY <1>3, <1>5, <1>7 DEF ListInv, LosesNothing, Completes

(* Every step of the tree keeps the list, and the keys in it.              *)
LEMMA StepListed ==
  ASSUME NodeType \subseteq Body, TreeInv, TreeInv', ListInv, Step
  PROVE  ListInv' /\ LosesNothing
<1>1. CASE Descend
  <2>1. op.kind # "open"
    BY <1>1 DEF Descend, TreeInv, PlacesOK
  <2> QED BY <1>1, <2>1, DescendListed
<1>2. CASE InsertLeaf
  <2>1. op.kind # "open"
    BY <1>2 DEF InsertLeaf, AtLeaf
  <2> QED BY <1>2, <2>1, InsertLeafListed
<1>3. CASE DeleteLeaf
  <2>1. op.kind # "open"
    BY <1>3 DEF DeleteLeaf, AtLeaf
  <2> QED BY <1>3, <2>1, DeleteLeafListed
<1>4. CASE SearchLeaf \/ DeleteMissing \/ DepthLeaf \/ BadNode
  <2>1. pc \in {"visit", "scan"} /\ ReadPage(cur)
    BY <1>4 DEF SearchLeaf, DeleteMissing, DepthLeaf, BadNode, AtLeaf
  <2>2. PICK out : Return(out)
    BY <1>4 DEF SearchLeaf, DeleteMissing, DepthLeaf, BadNode
  <2>3. op.kind # "open"
    BY <2>1 DEF TreeInv, PlacesOK
  <2> QED BY <2>1, <2>2, <2>3, ReadAndReturnListed
<1>5. CASE LeftmostLeaf
  <2>1. op.kind # "open"
    BY <1>5 DEF LeftmostLeaf, AtLeaf
  <2> QED BY <1>5, <2>1, ReadOnListed
<1>6. CASE ScanLeaf
  <2>1. pc = "scan" /\ ReadPage(cur) /\ op.kind # "open"
    BY <1>6 DEF ScanLeaf, TreeInv, PlacesOK
  <2>2. CASE \E out : Return(out)
    <3>1. PICK out : Return(out)
      BY <2>2
    <3> QED BY <2>1, <3>1, ReadAndReturnListed
  <2>3. CASE pc' = "scan"
    BY <1>6, <2>1, <2>3, ReadOnListed
  <2>4. (\E out : Return(out)) \/ pc' = "scan"
    <3>1. Return(acc \o NodeAt(cur).keys) \/ pc' = pc
      BY <1>6 DEF ScanLeaf
    <3> QED BY <2>1, <3>1
  <2> QED BY <2>2, <2>3, <2>4
<1>7. CASE AllocSplit
  <2>1. op.kind # "open"
    BY <1>7 DEF AllocSplit, TreeInv, PlacesOK
  <2> QED BY <1>7, <2>1, AllocSplitListed
<1>8. CASE WriteNode
  BY <1>8, WriteNodeListed
<1>9. CASE WriteOverflow
  BY <1>9, WriteOverflowListed
<1>10. CASE UnwindDone \/ UnwindRoot
  <2>1. op.kind # "open"
    BY <1>10 DEF UnwindDone, UnwindRoot, TreeInv, PlacesOK
  <2> QED BY <1>10, <2>1, UnwindListed
<1>11. CASE UnwindInternal
  <2>1. op.kind # "open"
    BY <1>11 DEF UnwindInternal, TreeInv, PlacesOK
  <2> QED BY <1>11, <2>1, UnwindInternalListed
<1>12. CASE AllocRoot
  BY <1>12, AllocRootListed
<1>13. CASE SetRoot
  BY <1>13, SetRootListed
<1>14. CASE FlushTree
  <2>1. pc = "flush" /\ Flush /\ Return("ok") /\ op.kind # "open"
    BY <1>14 DEF FlushTree, TreeInv, PlacesOK
  <2> QED BY <2>1, ReadAndReturnListed
<1>15. CASE PagerError
  <2>1. op.kind # "open" /\ PagerCallFails /\ Finish("error")
    BY <1>15 DEF PagerError
  <2> QED BY <2>1, ErrorListed
<1>16. CASE FileFull
  <2>1. op.kind # "open" /\ PagerCallFails /\ Finish("error")
    BY <1>16 DEF FileFull, PagerCallFails, Return
  <2> QED BY <2>1, ErrorListed
<1> QED BY <1>1, <1>2, <1>3, <1>4, <1>5, <1>6, <1>7, <1>8, <1>9, <1>10, <1>11, <1>12,
           <1>13, <1>14, <1>15, <1>16 DEF Step

LEMMA ClientListed ==
  ASSUME TreeInv, ListInv, Client
  PROVE  ListInv' /\ LosesNothing
<1>1. CASE \E k \in Keys : \E v \in Values : PutRejected(k, v)
  <2>1. UNCHANGED pagerVars /\ UNCHANGED <<pc, op, cur, stack, todo, split, before>>
    BY <1>1 DEF PutRejected
  <2> QED BY <2>1, StillListed
<1>2. CASE ~\E k \in Keys : \E v \in Values : PutRejected(k, v)
  <2>1. \E kind \in {"put", "get", "delete", "keys", "depth"} : \E k, v : Call(kind, k, v)
    BY <1>2 DEF Client, Put, Get, Delete, KeysScan, Depth
  <2>2. PICK kind \in {"put", "get", "delete", "keys", "depth"} : \E k, v : Call(kind, k, v)
    BY <2>1
  <2>3. PICK k, v : Call(kind, k, v)
    BY <2>2
  <2> QED BY <2>3, CallListed
<1> QED BY <1>1, <1>2

(* The next-state relation of the tree with clean restarts, and what each step
   of it keeps.                                                             *)
RestartNext == TreeNext \/ CloseTree \/ ReopenTree

Restarted == pc = "closed" /\ pc' = "idle" => SameKeys

LEMMA ListStep ==
  ASSUME NodeType \subseteq Body, TreeInv, TreeInv', ListInv, [RestartNext]_vars
  PROVE  ListInv' /\ LosesNothing /\ Restarted
<1>1. CASE Step
  <2>1. pc # "closed"
    <3>1. Step => pc # "closed"
      BY DEF Step, Descend, InsertLeaf, SearchLeaf, DeleteLeaf, DeleteMissing, DepthLeaf,
             LeftmostLeaf, AtLeaf, ScanLeaf, BadNode, AllocSplit, WriteNode, WriteOverflow,
             UnwindDone, UnwindInternal, UnwindRoot, AllocRoot, SetRoot, FlushTree, PagerError,
             PagerCallFails, FileFull
    <3> QED BY <1>1, <3>1
  <2> QED BY <1>1, <2>1, StepListed DEF Restarted
<1>2. CASE Client
  <2>1. pc = "idle"
    BY <1>2 DEF Client, Put, Get, Delete, KeysScan, Depth, PutRejected, Call
  <2> QED BY <1>2, <2>1, ClientListed DEF Restarted
<1>3. CASE CloseTree
  BY <1>3, CloseListed DEF Restarted
<1>4. CASE ReopenTree
  BY <1>4, ReopenListed DEF Restarted
<1>5. CASE UNCHANGED vars
  <2>1. UNCHANGED pagerVars /\ UNCHANGED <<pc, op, cur, stack, todo, split, before>>
    BY <1>5 DEF vars, treeVars
  <2>2. Restarted
    BY <2>1 DEF Restarted
  <2> QED BY <2>1, <2>2, StillListed
<1> QED BY <1>1, <1>2, <1>3, <1>4, <1>5 DEF RestartNext, TreeNext

LEMMA ListInit ==
  ASSUME TreeInit
  PROVE  ListInv
<1>1. /\ pc = "newroot" /\ op.kind = "open" /\ stack = <<>> /\ todo = <<>>
      /\ before.listed = {}
  BY DEF TreeInit, OpenOp, Nothing
<1>2. PendingOK
  BY <1>1 DEF PendingOK
<1>3. FramesKept
  <2>1. DOMAIN stack = {}
    BY <1>1
  <2> QED BY <2>1 DEF FramesKept
<1> QED BY <1>1, <1>2, <1>3 DEF ListInv

(* What a new operation that ends leaves in the list, unless it ends because a
   node does not fit its page.                                              *)
KeysKeptUnlessOverflow ==
  [][Completes /\ ~Overflows => before.listed \ {op.key} \subseteq ListedKeys']_vars

LEMMA ListInvariant ==
  ASSUME NodeType \subseteq Body
  PROVE  TreeSpecRestart => [](TreeInv /\ ListInv)
<1>1. TreeInv /\ TreeInv' /\ ListInv /\ [RestartNext]_vars => ListInv'
  BY ListStep
<1>2. TreeSpecRestart => TreeInit /\ [][RestartNext]_vars
  <2>1. [TreeNext \/ CloseTree \/ ReopenTree]_vars => [RestartNext]_vars
    BY DEF RestartNext
  <2> QED BY <2>1, PTL DEF TreeSpecRestart
<1> QED BY <1>1, <1>2, ListInit, TreeInvariant, SpecsStep, PTL

(* TreeSpec is TreeSpecRestart without the restarts.                        *)
LEMMA SpecRestarts == TreeSpec => TreeSpecRestart
<1>1. [TreeNext]_vars => [TreeNext \/ CloseTree \/ ReopenTree]_vars
  OBVIOUS
<1> QED BY <1>1, PTL DEF TreeSpec, TreeSpecRestart

(* Whatever call fails in the middle of Put, Delete or any other operation, and
   after whatever splits earlier failures have left half done, KEYS still lists
   every key it listed before the operation, except the operation's own: the
   leaf list never loses a leaf. The one exception is an operation that ends
   because a node does not fit its page (serialize in btree.go, after a split),
   which can cut the list (run tree_split_overflow).                        *)
THEOREM ErrorsKeepTheList ==
  ASSUME NodeType \subseteq Body
  PROVE  TreeSpecRestart => KeysKeptUnlessOverflow
<1>1. TreeInv /\ TreeInv' /\ ListInv /\ [RestartNext]_vars =>
        [Completes /\ ~Overflows => before.listed \ {op.key} \subseteq ListedKeys']_vars
  BY ListStep DEF LosesNothing, NothingLost
<1>2. TreeSpecRestart => [][RestartNext]_vars
  <2>1. [TreeNext \/ CloseTree \/ ReopenTree]_vars => [RestartNext]_vars
    BY DEF RestartNext
  <2> QED BY <2>1, PTL DEF TreeSpecRestart
<1> QED BY <1>1, <1>2, ListInvariant, PTL DEF KeysKeptUnlessOverflow

(* So KEYS loses no key to an I/O error as long as nodes fit their pages.   *)
THEOREM KeysSurviveErrorsEver ==
  ASSUME NodeType \subseteq Body
  PROVE  /\ TreeSpec /\ []~Overflows => KeysSurviveErrors
         /\ TreeSpecRestart /\ []~Overflows => KeysSurviveErrors
<1>1. ~Overflows /\ [Completes /\ ~Overflows => before.listed \ {op.key} \subseteq ListedKeys']_vars
        => [Completes => before.listed \ {op.key} \subseteq ListedKeys']_vars
  OBVIOUS
<1> QED BY <1>1, ErrorsKeepTheList, SpecRestarts, PTL
        DEF KeysKeptUnlessOverflow, KeysSurviveErrors

(* A clean restart (Close, NewPager, NewBPlusTree) lists the same keys as the
   process before it, also when the switch of roots did not reach the header of
   the file and the new process begins at the old root: both roots lead down to
   the same first leaf.                                                     *)
THEOREM RestartKeepsKeysEver ==
  ASSUME NodeType \subseteq Body
  PROVE  TreeSpecRestart => RestartKeepsKeys
<1>1. TreeInv /\ TreeInv' /\ ListInv /\ [RestartNext]_vars =>
        [pc = "closed" /\ pc' = "idle" => ListedKeys' = ListedKeys]_vars
  BY ListStep DEF Restarted, SameKeys
<1>2. TreeSpecRestart => [][RestartNext]_vars
  <2>1. [TreeNext \/ CloseTree \/ ReopenTree]_vars => [RestartNext]_vars
    BY DEF RestartNext
  <2> QED BY <2>1, PTL DEF TreeSpecRestart
<1> QED BY <1>1, <1>2, ListInvariant, PTL DEF RestartKeepsKeys

-----------------------------------------------------------------------------
(* The file while no operation fails.  What a client sees of a memory m.   *)

SearchIn(m, root, k) == Search(LAMBDA p : m[p], root, k)

ChainIn(m, root) == Chain(LAMBDA p : m[p], root)

FileMem == [p \in Pages0 |-> NodeOnFile(p)]

SeenOnFile ==
  /\ \A k : FileLookup(k) = SearchIn(FileMem, fileHeader.RootPageID, k)
  /\ FileListedKeys = ChainIn(FileMem, fileHeader.RootPageID)

SeenInMemory ==
  /\ \A k : Lookup(k) = SearchIn(NodeMem, header.RootPageID, k)
  /\ ListedKeys = ChainIn(NodeMem, header.RootPageID)

LEMMA FileSeen == SeenOnFile
<1>1. \A p \in 0..PageLimit : FileMem[p] = NodeOnFile(p)
  BY DEF FileMem, Pages0
<1>2. ASSUME NEW k PROVE FileLookup(k) = SearchIn(FileMem, fileHeader.RootPageID, k)
  <2>1. \A f : [p \in 0..PageLimit |->
                  IF p = 0 THEN None
                  ELSE IF NodeOnFile(p) = Zeros THEN None
                  ELSE IF IsLeaf(NodeOnFile(p))
                    THEN IF HasKey(NodeOnFile(p), k)
                           THEN NodeOnFile(p).values[Min(matches(NodeOnFile(p), k))] ELSE None
                    ELSE f[childAt(NodeOnFile(p), childIdx(NodeOnFile(p), k))]]
             = [p \in 0..PageLimit |->
                  IF p = 0 THEN None
                  ELSE IF FileMem[p] = Zeros THEN None
                  ELSE IF IsLeaf(FileMem[p])
                    THEN IF HasKey(FileMem[p], k)
                           THEN FileMem[p].values[Min(matches(FileMem[p], k))] ELSE None
                    ELSE f[childAt(FileMem[p], childIdx(FileMem[p], k))]]
    BY <1>1
  <2> QED BY <2>1 DEF FileLookup, SearchIn, Search
<1>3. FileListedKeys = ChainIn(FileMem, fileHeader.RootPageID)
  <2> DEFINE First1(f) == f = [p \in 0..PageLimit |->
                               IF p = 0 THEN 0
                               ELSE IF NodeOnFile(p) = Zeros THEN 0
                               ELSE IF IsLeaf(NodeOnFile(p)) THEN p ELSE f[childAt(NodeOnFile(p), 1)]]
             List1(f) == f = [p \in 0..PageLimit |->
                              IF p = 0 THEN {}
                              ELSE IF NodeOnFile(p) = Zeros THEN {}
                              ELSE Range(NodeOnFile(p).keys) \cup f[NodeOnFile(p).rightPtr]]
             first1 == CHOOSE f : First1(f)
             list1 == CHOOSE f : List1(f)
             First2(f) == f = [p \in 0..PageLimit |->
                               IF p = 0 THEN 0
                               ELSE IF FileMem[p] = Zeros THEN 0
                               ELSE IF IsLeaf(FileMem[p]) THEN p ELSE f[childAt(FileMem[p], 1)]]
             List2(f) == f = [p \in 0..PageLimit |->
                              IF p = 0 THEN {}
                              ELSE IF FileMem[p] = Zeros THEN {}
                              ELSE Range(FileMem[p].keys) \cup f[FileMem[p].rightPtr]]
             first2 == CHOOSE f : First2(f)
             list2 == CHOOSE f : List2(f)
  <2>1. \A f : First1(f) <=> First2(f)
    BY <1>1
  <2>2. \A f : List1(f) <=> List2(f)
    BY <1>1
  <2>3. FileListedKeys = list1[first1[fileHeader.RootPageID]]
    BY DEF FileListedKeys, Chain
  <2>4. ChainIn(FileMem, fileHeader.RootPageID) = list2[first2[fileHeader.RootPageID]]
    BY DEF ChainIn, Chain
  <2> HIDE DEF First1, First2, List1, List2
  <2>5. first1 = first2
    BY <2>1
  <2>6. list1 = list2
    BY <2>2
  <2> QED BY <2>3, <2>4, <2>5, <2>6
<1> QED BY <1>2, <1>3 DEF SeenOnFile

LEMMA FileSeenNext == SeenOnFile'
BY FileSeen, PTL

LEMMA MemorySeen == SeenInMemory
<1>1. \A p \in 0..PageLimit : NodeMem[p] = NodeAt(p)
  BY DEF NodeMem, Pages0
<1>2. ASSUME NEW k PROVE Lookup(k) = SearchIn(NodeMem, header.RootPageID, k)
  <2>1. \A f : [p \in 0..PageLimit |->
                  IF p = 0 THEN None
                  ELSE IF NodeAt(p) = Zeros THEN None
                  ELSE IF IsLeaf(NodeAt(p))
                    THEN IF HasKey(NodeAt(p), k)
                           THEN NodeAt(p).values[Min(matches(NodeAt(p), k))] ELSE None
                    ELSE f[childAt(NodeAt(p), childIdx(NodeAt(p), k))]]
             = [p \in 0..PageLimit |->
                  IF p = 0 THEN None
                  ELSE IF NodeMem[p] = Zeros THEN None
                  ELSE IF IsLeaf(NodeMem[p])
                    THEN IF HasKey(NodeMem[p], k)
                           THEN NodeMem[p].values[Min(matches(NodeMem[p], k))] ELSE None
                    ELSE f[childAt(NodeMem[p], childIdx(NodeMem[p], k))]]
    BY <1>1
  <2> QED BY <2>1 DEF Lookup, SearchIn, Search
<1>3. ListedKeys = ChainIn(NodeMem, header.RootPageID)
  <2> DEFINE First1(f) == f = [p \in 0..PageLimit |->
                               IF p = 0 THEN 0
                               ELSE IF NodeAt(p) = Zeros THEN 0
                               ELSE IF IsLeaf(NodeAt(p)) THEN p ELSE f[childAt(NodeAt(p), 1)]]
             List1(f) == f = [p \in 0..PageLimit |->
                              IF p = 0 THEN {}
                              ELSE IF NodeAt(p) = Zeros THEN {}
                              ELSE Range(NodeAt(p).keys) \cup f[NodeAt(p).rightPtr]]
             first1 == CHOOSE f : First1(f)
             list1 == CHOOSE f : List1(f)
             First2(f) == f = [p \in 0..PageLimit |->
                               IF p = 0 THEN 0
                               ELSE IF NodeMem[p] = Zeros THEN 0
                               ELSE IF IsLeaf(NodeMem[p]) THEN p ELSE f[childAt(NodeMem[p], 1)]]
             List2(f) == f = [p \in 0..PageLimit |->
                              IF p = 0 THEN {}
                              ELSE IF NodeMem[p] = Zeros THEN {}
                              ELSE Range(NodeMem[p].keys) \cup f[NodeMem[p].rightPtr]]
             first2 == CHOOSE f : First2(f)
             list2 == CHOOSE f : List2(f)
  <2>1. \A f : First1(f) <=> First2(f)
    BY <1>1
  <2>2. \A f : List1(f) <=> List2(f)
    BY <1>1
  <2>3. ListedKeys = list1[first1[header.RootPageID]]
    BY DEF ListedKeys, Chain
  <2>4. ChainIn(NodeMem, header.RootPageID) = list2[first2[header.RootPageID]]
    BY DEF ChainIn, Chain
  <2> HIDE DEF First1, First2, List1, List2
  <2>5. first1 = first2
    BY <2>1
  <2>6. list1 = list2
    BY <2>2
  <2> QED BY <2>3, <2>4, <2>5, <2>6
<1> QED BY <1>2, <1>3 DEF SeenInMemory

LEMMA MemorySeenNext == SeenInMemory'
BY MemorySeen, PTL

(* On a root without a node nothing is found and nothing listed.           *)
LEMMA NothingThere ==
  ASSUME NEW S, S \subseteq 1..PageLimit, NEW m,
         \A p \in Pages0 : m[p] = Zeros \/ NodeOver(m[p], S),
         NEW root \in Pages0, root = 0 \/ m[root] = Zeros
  PROVE  /\ \A k \in Keys : SearchIn(m, root, k) = None
         /\ ChainIn(m, root) = {}
<1>0. \A p \in S : p \in Pages0
  BY LimitAssumption DEF Pages0
<1>1. ASSUME NEW k \in Keys PROVE SearchIn(m, root, k) = None
  <2> DEFINE stop == {p \in Pages0 : p = 0 \/ m[p] = Zeros \/ IsLeaf(m[p])}
             value == [p \in Pages0 |-> IF p = 0 THEN None
                                        ELSE IF m[p] = Zeros THEN None
                                        ELSE ValueIn(m[p], k)]
             next == [p \in Pages0 |-> Route(m[p], k)]
             Rule(f) == f = [p \in 0..PageLimit |->
                               IF p = 0 THEN None
                               ELSE IF m[p] = Zeros THEN None
                               ELSE IF IsLeaf(m[p])
                                 THEN IF HasKey(m[p], k)
                                        THEN m[p].values[Min(matches(m[p], k))] ELSE None
                                 ELSE f[childAt(m[p], childIdx(m[p], k))]]
             find == CHOOSE f : Rule(f)
  <2>1. \A p \in Pages0 \ stop : next[p] \in Pages0
    <3> SUFFICES ASSUME NEW p \in Pages0, p \notin stop PROVE Route(m[p], k) \in Pages0
      OBVIOUS
    <3>1. PICK n : n = m[p] /\ NodeOver(n, S) /\ ~IsLeaf(n)
      OBVIOUS
    <3>2. childIdx(n, k) \in 1..(Len(n.keys) + 1)
      BY <3>1, NodeFacts, ChildIdxFacts
    <3>3. childAt(n, childIdx(n, k)) \in S
      BY <3>1, <3>2, ChildAtFacts
    <3> QED BY <1>0, <3>1, <3>3 DEF Route
  <2>2. PICK f : IsWalk(f, Pages0, stop, value, next)
    <3> HIDE DEF stop, value, next
    <3> QED BY <2>1, WalkRecursion
  <2>3. Rule(f)
    <3>1. f = [p \in Pages0 |-> IF p \in stop THEN value[p] ELSE f[next[p]]]
      BY <2>2 DEF IsWalk
    <3>2. \A p \in Pages0 : (IF p \in stop THEN value[p] ELSE f[next[p]])
                          = (IF p = 0 THEN None
                               ELSE IF m[p] = Zeros THEN None
                               ELSE IF IsLeaf(m[p])
                                 THEN IF HasKey(m[p], k)
                                        THEN m[p].values[Min(matches(m[p], k))] ELSE None
                                 ELSE f[childAt(m[p], childIdx(m[p], k))])
      BY DEF ValueIn, Route
    <3> QED BY <3>1, <3>2 DEF Pages0
  <2>4. Rule(find)
    BY <2>3
  <2>5. SearchIn(m, root, k) = find[root]
    BY DEF SearchIn, Search
  <2> HIDE DEF find
  <2>6. find[root] = None
    BY <2>4 DEF Pages0
  <2> QED BY <2>5, <2>6
<1>2. ChainIn(m, root) = {}
  <2> DEFINE stop == {p \in Pages0 : p = 0 \/ m[p] = Zeros}
             inner == {p \in Pages0 : p = 0 \/ m[p] = Zeros \/ IsLeaf(m[p])}
             value == [p \in Pages0 |-> KeysIn(m[p])]
             link == [p \in Pages0 |-> m[p].rightPtr]
             end == [p \in Pages0 |-> IF p = 0 THEN 0 ELSE IF m[p] = Zeros THEN 0 ELSE p]
             first == [p \in Pages0 |-> childAt(m[p], 1)]
             Rule1(f) == f = [p \in 0..PageLimit |->
                                IF p = 0 THEN 0
                                ELSE IF m[p] = Zeros THEN 0
                                ELSE IF IsLeaf(m[p]) THEN p ELSE f[childAt(m[p], 1)]]
             Rule2(f) == f = [p \in 0..PageLimit |->
                                IF p = 0 THEN {}
                                ELSE IF m[p] = Zeros THEN {}
                                ELSE Range(m[p].keys) \cup f[m[p].rightPtr]]
             leftmost == CHOOSE f : Rule1(f)
             chain == CHOOSE f : Rule2(f)
  <2>1. \A p \in Pages0 \ stop : link[p] \in Pages0
    BY <1>0, NodeFacts, LimitAssumption DEF Pages0
  <2>2. \A p \in Pages0 \ inner : first[p] \in Pages0
    <3> SUFFICES ASSUME NEW p \in Pages0 \ inner PROVE childAt(m[p], 1) \in Pages0
      OBVIOUS
    <3>1. PICK n : n = m[p] /\ NodeOver(n, S) /\ ~IsLeaf(n)
      OBVIOUS
    <3>2. 1 \in 1..(Len(n.keys) + 1)
      BY <3>1, NodeFacts
    <3>3. childAt(n, 1) \in S
      BY <3>1, <3>2, ChildAtFacts
    <3> QED BY <1>0, <3>1, <3>3
  <2>3. Rule1(leftmost)
    <3>1. PICK f : IsWalk(f, Pages0, inner, end, first)
      <4> HIDE DEF inner, end, first
      <4> QED BY <2>2, WalkRecursion
    <3>2. Rule1(f)
      BY <3>1 DEF IsWalk, Pages0
    <3> HIDE DEF Rule1
    <3> QED BY <3>2
  <2>4. Rule2(chain)
    <3>1. PICK f : IsCollection(f, Pages0, stop, value, link)
      <4> HIDE DEF stop, value, link
      <4> QED BY <2>1, CollectRecursion
    <3>2. Rule2(f)
      BY <3>1 DEF IsCollection, Pages0, KeysIn
    <3> HIDE DEF Rule2
    <3> QED BY <3>2
  <2>5. ChainIn(m, root) = chain[leftmost[root]]
    BY DEF ChainIn, Chain
  <2> HIDE DEF leftmost, chain
  <2>6. leftmost[root] = 0
    BY <2>3 DEF Pages0
  <2>7. chain[0] = {}
    BY <2>4, LimitAssumption DEF Pages0
  <2> QED BY <2>5, <2>6, <2>7
<1> QED BY <1>1, <1>2

(* Until the flush of an operation the file holds the map and the list the
   operation began with.                                                   *)
FileHolds ==
  /\ \A k \in Keys : FileLookup(k) = Held(k)
  /\ FileListedKeys = HeldKeys

FileInOrder ==
  /\ DOMAIN filePages \subseteq 1..(header.PageCount - 1)
  /\ header.RootPageID = fileHeader.RootPageID

NewRootEmpty ==
  op.kind = "open" /\ pc \in {"writeroot", "setroot"} => NodeOnFile(cur) = Zeros

FileInv == FileInOrder /\ NewRootEmpty /\ (pc # "flush" => FileHolds)

(* What a step may do to the file before the flush.                        *)
FileKept ==
  /\ FileMem' = FileMem /\ fileHeader'.RootPageID = fileHeader.RootPageID
  /\ FileInOrder'

LEMMA KeptIsSeen ==
  ASSUME FileKept
  PROVE  /\ \A k : FileLookup(k)' = FileLookup(k)
         /\ FileListedKeys' = FileListedKeys
<1>1. \A k : FileLookup(k)' = SearchIn(FileMem', fileHeader'.RootPageID, k)
  BY FileSeenNext DEF SeenOnFile
<1>2. FileListedKeys' = ChainIn(FileMem', fileHeader'.RootPageID)
  BY FileSeenNext DEF SeenOnFile
<1> QED BY <1>1, <1>2, FileSeen DEF FileKept, SeenOnFile

LEMMA FileUntouched ==
  ASSUME FileInv, filePages' = filePages, UNCHANGED <<header, fileHeader>>
  PROVE  FileKept /\ \A p : NodeOnFile(p)' = NodeOnFile(p)
<1>1. \A p : NodeOnFile(p)' = NodeOnFile(p)
  BY DEF NodeOnFile
<1>2. FileMem' = FileMem
  BY <1>1 DEF FileMem
<1> QED BY <1>1, <1>2 DEF FileKept, FileInv, FileInOrder

LEMMA AllocKeepsFile ==
  ASSUME PagesInv, FileInv, AllocatePage
  PROVE  FileKept /\ \A p : p = NextPage => NodeOnFile(p)' = Zeros
<1>0. PICK n : n = header.PageCount
  OBVIOUS
<1>1. /\ header.FreeListHead = 0 /\ n \in Nat /\ n > 0 /\ header.PageCount = n
      /\ DOMAIN filePages \subseteq 1..(n - 1) /\ header.RootPageID = fileHeader.RootPageID
      /\ header \in Header
  BY <1>0, PageNumbers DEF PagesInv, NothingFree, PagerTypeOK, Header, FileInv, FileInOrder
<1>2. AppendPage /\ WriteHeader(AfterAppend) /\ NextPage = n
  BY <1>0, <1>1 DEF AllocatePage, TakeFree, NextPage
<1>3. filePages' = [q \in DOMAIN filePages \cup 1..n |->
                      IF q \in DOMAIN filePages \ {n} THEN filePages[q] ELSE ZeroPage]
  BY <1>0, <1>2 DEF AppendPage
<1>4. n \notin DOMAIN filePages /\ DOMAIN filePages' \subseteq 1..n /\ ZeroPage.body = Zeros
  BY <1>1, <1>3 DEF ZeroPage, LinkPage
<1>5. \A q : NodeOnFile(q)' = NodeOnFile(q)
  BY <1>3, <1>4 DEF NodeOnFile
<1>6. NodeOnFile(n) = Zeros
  BY <1>4 DEF NodeOnFile
<1>7. /\ header' = [header EXCEPT !.PageCount = n + 1] /\ fileHeader' = header'
      /\ header'.PageCount = n + 1 /\ header'.RootPageID = header.RootPageID
  BY <1>0, <1>1, <1>2 DEF WriteHeader, AfterAppend, Header
<1>8. FileInOrder'
  BY <1>1, <1>4, <1>7 DEF FileInOrder
<1>9. FileMem' = FileMem
  BY <1>5 DEF FileMem
<1>10. NodeOnFile(n)' = Zeros
  BY <1>5, <1>6
<1> QED BY <1>1, <1>2, <1>7, <1>8, <1>9, <1>10 DEF FileKept

(* After a flush the file holds what the memory holds.                     *)
LEMMA FlushedFile ==
  ASSUME PagesInv, FileInv, Flush
  PROVE  FileInOrder' /\ FileMem' = NodeMem'
<1>1. /\ dirty \subseteq DOMAIN buffer /\ DOMAIN buffer \subseteq DOMAIN filePages
      /\ \A p \in DOMAIN buffer \ dirty : buffer[p] = filePages[p]
  BY PageNumbers DEF PagerTypeOK, CacheCoherent
<1>2. /\ filePages' = [q \in DOMAIN filePages |-> IF q \in dirty THEN buffer[q] ELSE filePages[q]]
      /\ UNCHANGED <<header, buffer, fileHeader>>
  <2>1. dirty \cap DOMAIN buffer = dirty /\ DOMAIN filePages \cup dirty = DOMAIN filePages
    BY <1>1
  <2> QED BY <2>1 DEF Flush, WriteBack
<1>3. DOMAIN filePages' = DOMAIN filePages
  BY <1>2
<1>4. \A q \in DOMAIN filePages : filePages'[q] = View(q)'
  BY <1>1, <1>2 DEF View
<1>5. \A q : NodeOnFile(q)' = NodeAt(q)'
  BY <1>3, <1>4 DEF NodeOnFile, NodeAt
<1>6. FileMem' = NodeMem'
  BY <1>5 DEF FileMem, NodeMem
<1> QED BY <1>2, <1>3, <1>6 DEF FileInv, FileInOrder

-----------------------------------------------------------------------------
(* The steps of an operation that reports no error.                        *)

LEMMA FileGoesOn ==
  ASSUME FileInv, FileKept, pc \notin {"idle", "flush"}, pc' # "idle", before' = before,
         NewRootEmpty'
  PROVE  FileInv'
<1>1. FileHolds
  BY DEF FileInv
<1>2. /\ \A k : FileLookup(k)' = FileLookup(k)
      /\ FileListedKeys' = FileListedKeys
  BY KeptIsSeen
<1>3. \A k \in Keys : Held(k)' = Held(k)
  BY DEF Held
<1>4. HeldKeys' = HeldKeys
  BY DEF HeldKeys
<1>5. FileHolds'
  BY <1>1, <1>2, <1>3, <1>4 DEF FileHolds
<1> QED BY <1>5 DEF FileInv, FileKept

(* What the tree holds when an operation returns.                          *)
LEMMA FileEnds ==
  ASSUME FileInOrder', pc' = "idle",
         \A k \in Keys : FileLookup(k)' = Lookup(k)',
         FileListedKeys' = ListedKeys'
  PROVE  FileInv'
<1>1. \A k \in Keys : Held(k)' = Lookup(k)'
  BY DEF Held
<1>2. HeldKeys' = ListedKeys'
  BY DEF HeldKeys
<1>3. FileHolds'
  BY <1>1, <1>2 DEF FileHolds
<1>4. NewRootEmpty'
  BY DEF NewRootEmpty
<1> QED BY <1>3, <1>4 DEF FileInv

(* While an operation reads, the tree is as it found it.                   *)
LEMMA ReadsHeld ==
  ASSUME TreeInv, Working, ListInv, op.kind # "open", pc \in {"visit", "scan"}
  PROVE  /\ \A k \in Keys : Lookup(k) = Held(k)
         /\ ListedKeys = before.listed
<1>1. todo = <<>> /\ split = NoSplit
  BY DEF Working, WorkOK
<1>2. NextMem = Mem
  <2>1. AllWritten
    BY <1>1 DEF AllWritten
  <2> QED BY <2>1, NoWork DEF NextIsMem
<1>3. PICK P, L : NextTree(P, L)
  BY Ahead
<1>4. \A k \in Keys : Lookup(k) = Finds(Mem, P, k) /\ Finds(Mem, P, k) = Target(k)
  BY <1>2, <1>3, LookupNow DEF NextTree, LookupIsTree
<1>5. \A k \in Keys : Target(k) = Held(k)
  BY DEF Target, Later
<1>6. PICK C, n : ListAt(C, n) /\ ListKeeps(KeysOf(ListMem, C, n))
  BY DEF ListInv, HasList
<1>7. ListedKeys = KeysOf(ListMem, C, n)
  BY <1>1, <1>6, ListedNow DEF ListedIsList
<1>8. before.listed = KeysOf(ListMem, C, n)
  BY <1>6 DEF ListKeeps
<1> QED BY <1>4, <1>5, <1>7, <1>8

LEMMA MemoryKept ==
  ASSUME PagesUnchanged
  PROVE  /\ \A k : Lookup(k)' = Lookup(k)
         /\ ListedKeys' = ListedKeys
<1>1. NodeMem' = NodeMem /\ header' = header
  BY DEF NodeMem, Pages0, PagesUnchanged, NodesUnchanged
<1>2. \A k : Lookup(k)' = SearchIn(NodeMem', header'.RootPageID, k)
  BY MemorySeenNext DEF SeenInMemory
<1>3. ListedKeys' = ChainIn(NodeMem', header'.RootPageID)
  BY MemorySeenNext DEF SeenInMemory
<1> QED BY <1>1, <1>2, <1>3, MemorySeen DEF SeenInMemory

LEMMA ReadReturnsOnFile ==
  ASSUME TreeInv, Working, ListInv, FileInv, op.kind # "open", pc \in {"visit", "scan"},
         ReadPage(cur), NEW out, Finish(out)
  PROVE  FileInv'
<1>1. PagesUnchanged
  <2>1. PagesInv /\ cur \in owned
    BY DEF TreeInv, LocalsOver
  <2> QED BY <2>1, ReadEffect
<1>2. filePages' = filePages /\ UNCHANGED <<header, fileHeader>> /\ pc' = "idle"
  BY DEF ReadPage, Finish
<1>3. FileKept
  BY <1>2, FileUntouched
<1>4. /\ \A k : FileLookup(k)' = FileLookup(k) /\ Lookup(k)' = Lookup(k)
      /\ FileListedKeys' = FileListedKeys /\ ListedKeys' = ListedKeys
  BY <1>1, <1>3, KeptIsSeen, MemoryKept
<1>5. (\A k \in Keys : FileLookup(k) = Held(k)) /\ FileListedKeys = before.listed
  BY DEF FileInv, FileHolds, HeldKeys
<1>6. (\A k \in Keys : Lookup(k) = Held(k)) /\ ListedKeys = before.listed
  BY ReadsHeld
<1> QED BY <1>2, <1>3, <1>4, <1>5, <1>6, FileEnds DEF FileKept

(* The steps that neither begin nor end an operation.                      *)
QuietOnFile ==
  \/ Descend \/ InsertLeaf \/ DeleteLeaf \/ LeftmostLeaf \/ (ScanLeaf /\ pc' = "scan")
  \/ WriteNode \/ UnwindDone \/ UnwindInternal \/ UnwindRoot

LEMMA QuietFile ==
  ASSUME TreeInv, FileInv, QuietOnFile
  PROVE  FileInv'
<1>1. /\ filePages' = filePages /\ UNCHANGED <<header, fileHeader>>
      /\ pc \notin {"idle", "flush"} /\ pc' # "idle" /\ before' = before /\ op' = op
  <2>1. CASE Descend \/ InsertLeaf \/ DeleteLeaf \/ LeftmostLeaf
    BY <2>1 DEF Descend, InsertLeaf, DeleteLeaf, LeftmostLeaf, AtLeaf, ReadPage
  <2>2. CASE ScanLeaf /\ pc' = "scan"
    <3>1. ~(pc' = "idle")
      BY <2>2
    <3>2. PICK n : n = NodeAt(cur)
      OBVIOUS
    <3>3. CASE n.rightPtr = 0
      BY <3>1, <3>2, <3>3, <2>2 DEF ScanLeaf, Return, Finish
    <3>4. CASE n.rightPtr # 0
      BY <3>1, <3>2, <3>4, <2>2 DEF ScanLeaf, ReadPage
    <3> QED BY <3>3, <3>4
  <2>3. CASE WriteNode
    BY <2>3 DEF WriteNode, WritePage
  <2>4. CASE UnwindDone \/ UnwindInternal \/ UnwindRoot
    BY <2>4 DEF UnwindDone, UnwindInternal, UnwindRoot, pagerVars
  <2> QED BY <2>1, <2>2, <2>3, <2>4 DEF QuietOnFile
<1>2. FileKept /\ \A p : NodeOnFile(p)' = NodeOnFile(p)
  BY <1>1, FileUntouched
<1>3. pc' \in {"writeroot", "setroot"} =>
        \/ pc \in {"writeroot", "setroot"} /\ cur' = cur
        \/ op.kind # "open"
  <2>1. CASE WriteNode
    BY <2>1 DEF WriteNode
  <2>2. CASE ~WriteNode
    BY <2>2 DEF QuietOnFile, Descend, InsertLeaf, DeleteLeaf, LeftmostLeaf, AtLeaf, UnwindDone,
                UnwindInternal, UnwindRoot
  <2> QED BY <2>1, <2>2
<1>4. NewRootEmpty'
  <2> SUFFICES ASSUME op'.kind = "open", pc' \in {"writeroot", "setroot"}
               PROVE  NodeOnFile(cur)' = Zeros
    BY DEF NewRootEmpty
  <2>1. NodeOnFile(cur) = Zeros /\ cur' = cur
    BY <1>1, <1>3 DEF FileInv, NewRootEmpty
  <2>2. PICK p : p = cur
    OBVIOUS
  <2>3. NodeOnFile(p)' = Zeros
    BY <1>2, <2>1, <2>2
  <2> QED BY <2>1, <2>2, <2>3
<1> QED BY <1>1, <1>2, <1>4, FileGoesOn

LEMMA AllocOnFile ==
  ASSUME TreeInv, FileInv, AllocSplit \/ AllocRoot
  PROVE  FileInv'
<1>1. /\ AllocatePage /\ PagesInv
      /\ pc \in {"alloc", "newroot"} /\ pc' # "idle" /\ UNCHANGED <<op, before>>
      /\ pc' = "writeroot" => cur' = NextPage
      /\ pc' # "setroot"
  BY DEF AllocSplit, AllocRoot, TreeInv
<1>2. PICK n : n = NextPage
  OBVIOUS
<1>3. FileKept /\ NodeOnFile(n)' = Zeros
  BY <1>1, <1>2, AllocKeepsFile
<1>4. NewRootEmpty'
  BY <1>1, <1>2, <1>3 DEF NewRootEmpty
<1> QED BY <1>1, <1>3, <1>4, FileGoesOn

LEMMA FlushOnFile ==
  ASSUME TreeInv, FileInv, FlushTree
  PROVE  FileInv'
<1>1. Flush /\ PagesInv /\ pc' = "idle"
  BY DEF FlushTree, Return, Finish, TreeInv
<1>2. FileInOrder' /\ FileMem' = NodeMem'
  BY <1>1, FlushedFile
<1>3. header'.RootPageID = fileHeader'.RootPageID
  BY <1>2 DEF FileInOrder
<1>4. /\ \A k : FileLookup(k)' = SearchIn(FileMem', fileHeader'.RootPageID, k)
      /\ FileListedKeys' = ChainIn(FileMem', fileHeader'.RootPageID)
  BY FileSeenNext DEF SeenOnFile
<1>5. /\ \A k : Lookup(k)' = SearchIn(NodeMem', header'.RootPageID, k)
      /\ ListedKeys' = ChainIn(NodeMem', header'.RootPageID)
  BY MemorySeenNext DEF SeenInMemory
<1> QED BY <1>1, <1>2, <1>3, <1>4, <1>5, FileEnds

LEMMA RootOnFile ==
  ASSUME TreeInv, FileInv, SetRoot
  PROVE  /\ FileInOrder' /\ FileMem' = FileMem /\ fileHeader'.RootPageID = cur
         /\ PagesInv' /\ cur \in owned /\ owned' = owned /\ header'.RootPageID = cur
         /\ \A p \in 0..PageLimit : NodeAt(p)' = NodeAt(p)
<1>1. PagesInv /\ cur \in owned /\ SetRootPage(cur)
  BY DEF TreeInv, LocalsOver, SetRoot
<1>2. /\ PagesInv' /\ NodesUnchanged /\ owned' = owned /\ header'.RootPageID = cur
      /\ fileHeader' = header'
  BY <1>1, SetRootEffect
<1>3. filePages' = filePages /\ header' = [header EXCEPT !.RootPageID = cur]
  BY <1>1 DEF SetRootPage, WriteHeader
<1>4. header'.PageCount = header.PageCount
  BY <1>1, <1>3, PageNumbers DEF PagerTypeOK, Header
<1>5. FileInOrder'
  BY <1>2, <1>3, <1>4 DEF FileInv, FileInOrder
<1>6. FileMem' = FileMem
  BY <1>3 DEF FileMem, NodeOnFile
<1> QED BY <1>1, <1>2, <1>5, <1>6 DEF NodesUnchanged

LEMMA SetRootOnFile ==
  ASSUME TreeInv, FileInv, SetRoot, op.kind # "open"
  PROVE  FileInv'
<1>1. pc' = "flush" /\ op' = op
  BY DEF SetRoot
<1>2. FileInOrder'
  BY RootOnFile
<1>3. NewRootEmpty'
  BY <1>1 DEF NewRootEmpty
<1> QED BY <1>1, <1>2, <1>3 DEF FileInv

(* An empty leaf alone lists nothing.                                      *)
LEMMA EmptyLeafLists ==
  ASSUME TreeInv, NEW p \in owned, NodeAt(p) = LeafNode(<<>>, <<>>, 0)
  PROVE  Chain(NodeAt, p) = {}
<1>1. PICK n : n = LeafNode(<<>>, <<>>, 0) /\ n # Zeros /\ IsLeaf(n) /\ n.keys = <<>> /\ n.rightPtr = 0
  <2>1. NodeOver(LeafNode(<<>>, <<>>, 0), owned) \/ LeafNode(<<>>, <<>>, 0) = Zeros
    BY InvFacts, OwnedPages DEF Pages0
  <2>2. LeafNode(<<>>, <<>>, 0) # Zeros
    <3>1. LeafNode(<<>>, <<>>, 0) \in NodeType
      BY EmptySeq, LimitAssumption DEF LeafNode, NodeType
    <3> QED BY <3>1, ZerosAssumption
  <2> QED BY <2>2 DEF LeafNode, IsLeaf
<1>2. NodeMem[p] = n
  BY <1>1, OwnedPages DEF NodeMem
<1> DEFINE C == [i \in 0..0 |-> p]
<1>3. C[0] = p /\ C \in [0..0 -> owned] /\ \A i \in 0..0 : i = 0
  OBVIOUS
<1> HIDE DEF C
<1>4. LeafList(NodeMem, owned, {}, C, 0)
  BY <1>1, <1>2, <1>3 DEF LeafList
<1>5. LeftmostIs(NodeMem, owned, p, C[0])
  BY <1>1, <1>2, <1>3, LeftmostAlone
<1>6. Chain(NodeAt, p) = KeysOf(NodeMem, C, 0)
  BY <1>4, <1>5, ChainNow DEF ChainIsList
<1>7. KeysIn(n) = {}
  BY <1>1 DEF KeysIn, Range
<1>8. KeysOf(NodeMem, C, 0) = {}
  BY <1>2, <1>3, <1>7 DEF KeysOf
<1> QED BY <1>6, <1>8

EmptyRootLists ==
  header.RootPageID \in owned /\ NodeAt(header.RootPageID) = LeafNode(<<>>, <<>>, 0)
    => ListedKeys = {}

LEMMA EmptyRootNow == TreeInv => EmptyRootLists
BY EmptyLeafLists DEF EmptyRootLists, ListedKeys

LEMMA EmptyRootNext == TreeInv' => EmptyRootLists'
BY EmptyRootNow, PTL

LEMMA FirstRootOnFile ==
  ASSUME TreeInv, TreeInv', FirstRoot, MapKeeps, FileInv, SetRoot, op.kind = "open"
  PROVE  FileInv'
<1>1. pc = "setroot" /\ pc' = "idle" /\ cur \in Pages0
  <2>1. cur \in 0..PageLimit
    BY PageNumbers, LimitAssumption DEF TreeInv, LocalsOver
  <2> QED BY <2>1 DEF SetRoot, Return, Finish, Pages0
<1>2. /\ FileInOrder' /\ FileMem' = FileMem /\ fileHeader'.RootPageID = cur
      /\ PagesInv' /\ cur \in owned /\ owned' = owned /\ header'.RootPageID = cur
      /\ \A p \in 0..PageLimit : NodeAt(p)' = NodeAt(p)
  BY RootOnFile
<1>3. \A k \in Keys : Lookup(k)' = None
  BY <1>1 DEF MapKeeps, Completes
<1>4. ListedKeys' = {}
  <2>1. NodeAt(cur) = LeafNode(<<>>, <<>>, 0)
    BY <1>1 DEF FirstRoot
  <2>2. PICK p : p = cur /\ p \in 0..PageLimit
    BY <1>1 DEF Pages0
  <2>3. NodeAt(p)' = LeafNode(<<>>, <<>>, 0) /\ header'.RootPageID = p /\ p \in owned'
    BY <1>2, <2>1, <2>2
  <2>4. NodeAt(header.RootPageID)' = LeafNode(<<>>, <<>>, 0)
    BY <2>3
  <2> QED BY <2>3, <2>4, EmptyRootNext DEF EmptyRootLists
<1>5. PICK m : m = FileMem
  OBVIOUS
<1>6. \A p \in Pages0 : m[p] = Zeros \/ NodeOver(m[p], owned)
  BY <1>5 DEF FileMem, TreeInv, PagesInv, NodesOK, Pages0
<1>7. m[cur] = Zeros
  BY <1>1, <1>5 DEF FileInv, NewRootEmpty, FileMem
<1>8. owned \subseteq 1..PageLimit
  BY InvFacts
<1>9. (\A k \in Keys : SearchIn(m, cur, k) = None) /\ ChainIn(m, cur) = {}
  BY <1>1, <1>6, <1>7, <1>8, NothingThere
<1>10. /\ \A k : FileLookup(k)' = SearchIn(FileMem', fileHeader'.RootPageID, k)
       /\ FileListedKeys' = ChainIn(FileMem', fileHeader'.RootPageID)
  BY FileSeenNext DEF SeenOnFile
<1> QED BY <1>1, <1>2, <1>3, <1>4, <1>5, <1>9, <1>10, FileEnds

-----------------------------------------------------------------------------
(* Every step.                                                             *)

NoError == ret.out # "error"

LEMMA StepOnFile ==
  ASSUME NodeType \subseteq Body, TreeInv, TreeInv', MapInv, ListInv, NeverKilled, MapKeeps,
         FileInv, NoError', Step
  PROVE  FileInv'
<1>1. op.kind # "open" => Working
  BY DEF MapInv
<1>2. CASE QuietOnFile
  BY <1>2, QuietFile
<1>3. CASE AllocSplit \/ AllocRoot
  BY <1>3, AllocOnFile
<1>4. CASE FlushTree
  BY <1>4, FlushOnFile
<1>5. CASE SetRoot
  <2>1. op.kind = "open" => FirstRoot
    BY DEF MapInv, FirstRoot
  <2> QED BY <1>5, <2>1, SetRootOnFile, FirstRootOnFile
<1>6. CASE SearchLeaf \/ DeleteMissing \/ DepthLeaf
  <2>1. pc = "visit" /\ ReadPage(cur) /\ op.kind # "open" /\ \E out : Finish(out)
    BY <1>6 DEF SearchLeaf, DeleteMissing, DepthLeaf, AtLeaf, Return
  <2> QED BY <1>1, <2>1, ReadReturnsOnFile
<1>7. CASE ScanLeaf /\ ~QuietOnFile
  <2>1. pc = "scan" /\ ReadPage(cur) /\ pc' # "scan"
    BY <1>7 DEF ScanLeaf, QuietOnFile
  <2>2. \E out : Finish(out)
    <3>1. PICK n : n = NodeAt(cur)
      OBVIOUS
    <3>2. CASE n.rightPtr = 0
      BY <1>7, <3>1, <3>2 DEF ScanLeaf, Return
    <3>3. CASE n.rightPtr # 0
      BY <1>7, <2>1, <3>1, <3>3 DEF ScanLeaf
    <3> QED BY <3>2, <3>3
  <2>3. op.kind # "open"
    BY <2>1 DEF TreeInv, PlacesOK
  <2> QED BY <1>1, <2>1, <2>2, <2>3, ReadReturnsOnFile
<1>8. ~(BadNode \/ WriteOverflow \/ PagerError \/ FileFull)
  BY DEF NoError, BadNode, WriteOverflow, PagerError, FileFull, Return, Finish
<1> QED BY <1>2, <1>3, <1>4, <1>5, <1>6, <1>7, <1>8 DEF Step, QuietOnFile

LEMMA ClientOnFile ==
  ASSUME TreeInv, FileInv, Client
  PROVE  FileInv'
<1>1. ASSUME NEW kind, NEW k, NEW v, Call(kind, k, v),
             kind \in {"put", "get", "delete", "keys", "depth"}
      PROVE  FileInv'
  <2>1. /\ pc = "idle" /\ pc' = "visit" /\ UNCHANGED pagerVars
        /\ op'.kind = kind /\ before'.dict = TreeMap /\ before'.listed = ListedKeys
    BY <1>1 DEF Call
  <2>2. FileKept
    BY <2>1, FileUntouched DEF pagerVars
  <2>3. /\ \A x : FileLookup(x)' = FileLookup(x)
        /\ FileListedKeys' = FileListedKeys
    BY <2>2, KeptIsSeen
  <2>4. (\A x \in Keys : FileLookup(x) = Lookup(x)) /\ FileListedKeys = ListedKeys
    BY <2>1 DEF FileInv, FileHolds, Held, HeldKeys
  <2>5. \A x \in Keys : Held(x)' = Lookup(x)
    BY <2>1 DEF Held, TreeMap
  <2>6. HeldKeys' = ListedKeys
    BY <2>1 DEF HeldKeys
  <2>7. FileHolds'
    BY <2>3, <2>4, <2>5, <2>6 DEF FileHolds
  <2> QED BY <1>1, <2>1, <2>2, <2>7 DEF FileInv, FileKept, NewRootEmpty
<1>2. ASSUME NEW k, NEW v, PutRejected(k, v)
      PROVE  FileInv'
  <2>1. pc = "idle" /\ pc' = "idle" /\ UNCHANGED pagerVars
    BY <1>2 DEF PutRejected
  <2>2. FileKept
    BY <2>1, FileUntouched DEF pagerVars
  <2>3. PagesUnchanged
    BY <2>1, SamePages DEF TreeInv
  <2>4. /\ \A x : FileLookup(x)' = FileLookup(x) /\ Lookup(x)' = Lookup(x)
        /\ FileListedKeys' = FileListedKeys /\ ListedKeys' = ListedKeys
    BY <2>2, <2>3, KeptIsSeen, MemoryKept
  <2>5. (\A x \in Keys : FileLookup(x) = Lookup(x)) /\ FileListedKeys = ListedKeys
    BY <2>1 DEF FileInv, FileHolds, Held, HeldKeys
  <2> QED BY <2>1, <2>2, <2>4, <2>5, FileEnds DEF FileKept
<1> QED BY <1>1, <1>2 DEF Client, Put, Get, Delete, KeysScan, Depth

LEMMA FileInvStep ==
  ASSUME NodeType \subseteq Body, TreeInv, TreeInv', MapInv, ListInv, NeverKilled, FileInv,
         NoError', [TreeNext]_vars
  PROVE  FileInv'
<1>1. CASE Step
  <2>1. [MapNext]_vars /\ ~Crash
    <3>1. [MapNext]_vars
      BY <1>1 DEF MapNext, TreeNext
    <3>2. NeverKilled'
      BY StaysAlive
    <3>3. ~Crash
      BY <3>2, TreeAssumption DEF Crash, NeverKilled
    <3> QED BY <3>1, <3>3
  <2>2. MapKeeps
    BY <2>1, MapStep
  <2> QED BY <1>1, <2>2, StepOnFile
<1>2. CASE Client
  BY <1>2, ClientOnFile
<1>3. CASE UNCHANGED vars
  <2>1. /\ UNCHANGED pagerVars /\ UNCHANGED <<pc, op, cur, before>>
    BY <1>3 DEF vars, treeVars
  <2>2. FileKept /\ \A p : NodeOnFile(p)' = NodeOnFile(p)
    BY <2>1, FileUntouched DEF pagerVars
  <2>3. PagesUnchanged
    BY <2>1, SamePages DEF TreeInv
  <2>4. /\ \A x : FileLookup(x)' = FileLookup(x) /\ Lookup(x)' = Lookup(x)
        /\ FileListedKeys' = FileListedKeys /\ ListedKeys' = ListedKeys
    BY <2>2, <2>3, KeptIsSeen, MemoryKept
  <2>5. (\A x \in Keys : Held(x)' = Held(x)) /\ HeldKeys' = HeldKeys
    BY <2>1, <2>4 DEF Held, HeldKeys
  <2>6. FileHolds => FileHolds'
    BY <2>4, <2>5 DEF FileHolds
  <2>7. NewRootEmpty'
    <3>1. PICK p : p = cur
      OBVIOUS
    <3>2. NodeOnFile(cur)' = NodeOnFile(p)
      BY <2>1, <2>2, <3>1
    <3> QED BY <2>1, <3>1, <3>2 DEF FileInv, NewRootEmpty
  <2> QED BY <2>1, <2>2, <2>6, <2>7 DEF FileInv, FileKept
<1> QED BY <1>1, <1>2, <1>3 DEF TreeNext

LEMMA FileInvInit ==
  ASSUME TreeInit, TreeInv
  PROVE  FileInv
<1>1. /\ pc = "newroot" /\ DOMAIN filePages = {} /\ header.RootPageID = 0
      /\ fileHeader.RootPageID = 0 /\ before = Nothing
  BY DEF TreeInit, PagerInit
<1>2. FileInOrder /\ NewRootEmpty
  BY <1>1 DEF FileInOrder, NewRootEmpty
<1>3. PICK m : m = FileMem
  OBVIOUS
<1>4. (\A p \in Pages0 : m[p] = Zeros) /\ 0 \in Pages0
  BY <1>1, <1>3, LimitAssumption DEF FileMem, NodeOnFile, Pages0
<1>5. (\A k \in Keys : SearchIn(m, 0, k) = None) /\ ChainIn(m, 0) = {}
  BY <1>4, NothingThere
<1>6. (\A k \in Keys : FileLookup(k) = None) /\ FileListedKeys = {}
  BY <1>1, <1>3, <1>5, FileSeen DEF SeenOnFile
<1>7. (\A k \in Keys : Held(k) = None) /\ HeldKeys = {}
  BY <1>1 DEF Held, HeldKeys, Nothing
<1> QED BY <1>2, <1>6, <1>7 DEF FileInv, FileHolds

(* While no operation has failed, a new process that starts on the file as it is
   finds the map and the keys that the running process had when its operation in
   progress began, or has now: nothing that was acknowledged is lost in a kill,
   and nothing shows early, but for the moment between a switch of roots and the
   flush (btree.go: Put, Delete; pager.go: Flush, AllocatePage, SetRootPage).  *)
THEOREM FileHoldsAcknowledgedEver ==
  ASSUME NodeType \subseteq Body
  PROVE  TreeSpec /\ []NoError => []FileHoldsAcknowledged
<1>1. TreeInit /\ TreeInv => FileInv
  BY FileInvInit
<1>2. TreeInv /\ TreeInv' /\ MapInv /\ ListInv /\ NeverKilled /\ FileInv /\ NoError'
        /\ [TreeNext]_vars => FileInv'
  BY FileInvStep
<1>3. FileInv => FileHoldsAcknowledged
  BY DEF FileInv, FileHolds, FileHoldsAcknowledged
<1>4. TreeSpec => [][TreeNext]_vars /\ TreeInit
  BY DEF TreeSpec
<1>5. TreeSpec => [](TreeInv /\ MapInv)
  BY MapInvariant, SpecsMap, PTL
<1>6. TreeSpec => [](TreeInv /\ ListInv)
  BY ListInvariant, SpecRestarts, PTL
<1>7. TreeSpec => []NeverKilled
  <2>1. TreeInit => NeverKilled
    BY TreeAssumption DEF TreeInit, NeverKilled
  <2>2. TreeInv /\ NeverKilled /\ [TreeNext]_vars => NeverKilled'
    BY StaysAlive
  <2> QED BY <1>4, <1>5, <2>1, <2>2, PTL
<1> QED BY <1>1, <1>2, <1>3, <1>4, <1>5, <1>6, <1>7, PTL

-----------------------------------------------------------------------------
(* The pages of the tree and the links between its leaves.                 *)

(* Every page in S is on some path.                                        *)
Covers(S, P, L) ==
  \A p \in S : \E j \in 0..(L - 1) : \E k \in Keys : P[j][k] = p

(* The link of a leaf leads to the leaf of the next larger keys.           *)
LinkFits(r, P, k) ==
  /\ r = 0 => \A x \in Keys : k < x => P[0][x] = P[0][k]
  /\ r # 0 => /\ r # P[0][k]
              /\ \E y \in Keys : /\ k < y /\ P[0][y] = r
                                 /\ \A x \in Keys : k < x /\ x < y => P[0][x] \in {P[0][k], r}

Linked(m, P) == \A k \in Keys : LinkFits(m[P[0][k]].rightPtr, P, k)

Tidy(S, m, P, L) == Covers(S, P, L) /\ Linked(m, P)

Tidied(S, m) == \A P, L : Tree(m, P, L) => Tidy(S, m, P, L)

(* A memory holds one search tree: its searches determine the paths.       *)
LEMMA SamePaths ==
  ASSUME NEW m, NEW P, NEW L, NEW Q, NEW M, Tree(m, P, L), Tree(m, Q, M), NEW k \in Keys,
         NEW i \in Nat, i <= L, i <= M
  PROVE  P[L - i][k] = Q[M - i][k]
<1> DEFINE T == {d \in Nat : d <= L /\ d <= M => P[L - d][k] = Q[M - d][k]}
<1>0. L \in Nat /\ M \in Nat /\ P[L][k] = 0 /\ Q[M][k] = 0
  BY TreeFacts
<1>1. 0 \in T
  <2>1. L - 0 = L /\ M - 0 = M
    BY <1>0
  <2> QED BY <1>0, <2>1
<1>2. ASSUME NEW d \in Nat, d \in T PROVE d + 1 \in T
  <2> SUFFICES ASSUME d + 1 <= L, d + 1 <= M PROVE P[L - (d + 1)][k] = Q[M - (d + 1)][k]
    OBVIOUS
  <2>1. PICK a, b : /\ a = L - d /\ b = M - d /\ a \in 1..L /\ b \in 1..M
                    /\ L - (d + 1) = a - 1 /\ M - (d + 1) = b - 1
    BY <1>0
  <2>2. P[a][k] = Q[b][k]
    BY <1>0, <1>2, <2>1
  <2>3. Leads(m, P, a, k) /\ Leads(m, Q, b, k)
    BY <2>1 DEF Tree
  <2> QED BY <2>1, <2>2, <2>3 DEF Leads
<1>3. Nat \subseteq T
  <2> HIDE DEF T
  <2> QED BY <1>1, <1>2, SetInduction
<1> QED BY <1>3

LEMMA NotHigher ==
  ASSUME NEW m, NEW P, NEW L, NEW Q, NEW M, Tree(m, P, L), Tree(m, Q, M), NEW k \in Keys
  PROVE  ~(L < M)
<1> SUFFICES ASSUME L < M PROVE FALSE
  OBVIOUS
<1>1. L \in Nat /\ M \in Nat /\ L <= L /\ L <= M /\ L - L = 0 /\ 0 \in 0..L
  BY TreeFacts
<1>2. PICK j : j = M - L /\ j \in 0..M /\ j # 0
  BY <1>1
<1>3. P[0][k] = Q[j][k]
  <2>1. P[L - L][k] = Q[M - L][k]
    BY <1>1, SamePaths
  <2> QED BY <1>1, <1>2, <2>1
<1>4. PageHas(m[P[0][k]], P, 0, P[0][k]) /\ PageHas(m[Q[j][k]], Q, j, Q[j][k])
  BY <1>1, <1>2, PageFacts
<1> QED BY <1>2, <1>3, <1>4 DEF PageHas

LEMMA OneTree ==
  ASSUME NEW m, NEW P, NEW L, NEW Q, NEW M, Tree(m, P, L), Tree(m, Q, M), Keys # {}
  PROVE  L = M /\ \A j \in 0..L : \A k \in Keys : P[j][k] = Q[j][k]
<1>1. PICK k \in Keys : TRUE
  OBVIOUS
<1>2. L \in Nat /\ M \in Nat /\ ~(L < M) /\ ~(M < L)
  BY TreeFacts, NotHigher
<1>3. L = M
  BY <1>2
<1>4. ASSUME NEW j \in 0..L, NEW x \in Keys PROVE P[j][x] = Q[j][x]
  <2>1. PICK i : i = L - j /\ i \in Nat /\ i <= L /\ i <= M /\ L - i = j /\ M - i = j
    BY <1>2, <1>3
  <2>2. P[L - i][x] = Q[M - i][x]
    BY <2>1, SamePaths
  <2> QED BY <2>1, <2>2
<1> QED BY <1>3, <1>4

LEMMA TidyOne ==
  ASSUME NEW S, NEW m, NEW P, NEW L, Tree(m, P, L), Tidy(S, m, P, L), Keys # {}
  PROVE  Tidied(S, m)
<1> SUFFICES ASSUME NEW Q, NEW M, Tree(m, Q, M) PROVE Tidy(S, m, Q, M)
  BY DEF Tidied
<1>1. L = M /\ \A j \in 0..L : \A k \in Keys : P[j][k] = Q[j][k]
  BY OneTree
<1>2. L \in Nat /\ 0 \in 0..L /\ \A j \in 0..(L - 1) : j \in 0..L
  BY TreeFacts
<1>3. Covers(S, Q, M)
  BY <1>1, <1>2 DEF Tidy, Covers
<1>4. \A k \in Keys : P[0][k] = Q[0][k]
  BY <1>1, <1>2
<1>5. ASSUME NEW k \in Keys PROVE LinkFits(m[Q[0][k]].rightPtr, Q, k)
  <2>1. LinkFits(m[Q[0][k]].rightPtr, P, k)
    BY <1>4 DEF Tidy, Linked
  <2> QED BY <1>4, <2>1 DEF LinkFits
<1> QED BY <1>3, <1>5 DEF Tidy, Linked

(* The keys whose searches come by a page lie side by side.                *)
LEMMA SlotBetween ==
  ASSUME NEW n, n.keys \in Seq(Keys), NEW a \in Keys, NEW b \in Keys, NEW c \in Keys,
         a < b, b < c, childIdx(n, a) = childIdx(n, c)
  PROVE  childIdx(n, b) = childIdx(n, a)
<1>1. PICK s, i : s = n.keys /\ i = childIdx(n, a)
  OBVIOUS
<1>2. IsSlot(s, a, i) /\ IsSlot(s, c, i)
  BY <1>1, SlotFacts
<1>3. /\ s \in Seq(Keys) /\ Len(s) \in Nat /\ \A h \in 1..Len(s) : s[h] \in Nat
      /\ a \in Nat /\ b \in Nat /\ c \in Nat
  <2>1. s \in Seq(Keys)
    BY <1>1
  <2>2. Len(s) \in Nat /\ \A h \in 1..Len(s) : s[h] \in Nat
    BY <2>1, KeysAreNumbers
  <2> QED BY <2>1, <2>2, TreeAssumption
<1>4. IsSlot(s, b, i)
  <2>1. i \in 1..(Len(s) + 1)
    BY <1>2 DEF IsSlot
  <2>2. ASSUME NEW h \in 1..(i - 1) PROVE s[h] <= b
    <3>1. h \in 1..Len(s) /\ s[h] <= a
      BY <1>2, <1>3, <2>1 DEF IsSlot
    <3> QED BY <1>3, <3>1
  <2>3. i <= Len(s) => b < s[i]
    <3>1. i <= Len(s) => i \in 1..Len(s) /\ c < s[i]
      BY <1>2, <1>3, <2>1 DEF IsSlot
    <3> QED BY <1>3, <3>1
  <2> QED BY <2>1, <2>2, <2>3 DEF IsSlot
<1> QED BY <1>1, <1>4, SlotIs

LEMMA SideBySide ==
  ASSUME NEW m, NEW P, NEW L, Tree(m, P, L), NEW a \in Keys, NEW b \in Keys, NEW c \in Keys,
         a < b, b < c, P[0][a] = P[0][c]
  PROVE  P[0][b] = P[0][a]
<1> DEFINE T == {d \in Nat : d <= L /\ P[L - d][a] = P[L - d][c] => P[L - d][b] = P[L - d][a]}
<1>0. L \in Nat /\ \A k \in Keys : P[L][k] = 0
  BY TreeFacts
<1>1. 0 \in T
  <2>1. L - 0 = L
    BY <1>0
  <2> QED BY <1>0, <2>1
<1>2. ASSUME NEW d \in Nat, d \in T PROVE d + 1 \in T
  <2> SUFFICES ASSUME d + 1 <= L, P[L - (d + 1)][a] = P[L - (d + 1)][c]
               PROVE  P[L - (d + 1)][b] = P[L - (d + 1)][a]
    OBVIOUS
  <2>1. PICK j : j = L - d /\ j \in 1..L /\ j \in 0..L /\ L - (d + 1) = j - 1
    BY <1>0
  <2>2. P[j - 1][a] = P[j - 1][c]
    BY <2>1
  <2>3. Meets(m, P, j, c) /\ Leads(m, P, j, a) /\ Leads(m, P, j, b)
    BY <2>1 DEF Tree
  <2>4. P[j][a] = P[j][c] /\ Slot(m, P, j, a) = Slot(m, P, j, c)
    BY <2>2, <2>3 DEF Meets
  <2>5. P[j][b] = P[j][a]
    BY <1>0, <1>2, <2>1, <2>4
  <2>6. PICK n : n = m[P[j][a]] /\ n.keys \in Seq(Keys)
    <3>1. PageHas(m[P[j][a]], P, j, P[j][a])
      BY <2>1, PageFacts
    <3> QED BY <3>1 DEF PageHas
  <2>7. childIdx(n, a) = childIdx(n, c)
    BY <2>4, <2>6 DEF Slot
  <2>8. childIdx(n, b) = childIdx(n, a)
    BY <2>6, <2>7, SlotBetween
  <2> QED BY <2>1, <2>3, <2>5, <2>6, <2>8 DEF Leads, Route
<1>3. Nat \subseteq T
  <2> HIDE DEF T
  <2> QED BY <1>1, <1>2, SetInduction
<1>4. L \in T /\ L <= L /\ L - L = 0
  BY <1>0, <1>3
<1> QED BY <1>4

-----------------------------------------------------------------------------
(* What the steps make of them.                                            *)

LEMMA EditTidy ==
  ASSUME NEW S, NEW m, NEW m2, NEW P, NEW L, Tree(m, P, L), Tree(m2, P, L), Tidied(S, m),
         Keys # {}, \A p \in Pages0 : m2[p].rightPtr = m[p].rightPtr
  PROVE  Tidied(S, m2)
<1>1. Tidy(S, m, P, L)
  BY DEF Tidied
<1>2. L \in Nat /\ 0 \in 0..L /\ \A k \in Keys : P[0][k] \in Pages0
  BY TreeFacts
<1>3. \A k \in Keys : m2[P[0][k]].rightPtr = m[P[0][k]].rightPtr
  BY <1>2
<1>4. Tidy(S, m2, P, L)
  BY <1>1, <1>3 DEF Tidy, Linked
<1> QED BY <1>4, TidyOne

LEMMA RaisedTidy ==
  ASSUME NEW S, NEW m, NEW m2, NEW P, NEW L, NEW Q, NEW new, Raised(m2, m, P, L, Q, new),
         Tidied(S, m), Keys # {}
  PROVE  Tidied(S \cup {new}, m2)
<1>1. /\ Tree(m, P, L) /\ Tree(m2, Q, L + 1)
      /\ \A j \in 0..(L - 1) : \A k \in Keys : Q[j][k] = P[j][k] /\ m2[P[j][k]] = m[P[j][k]]
      /\ \A k \in Keys : Q[L][k] = new
  BY DEF Raised
<1>2. Covers(S, P, L) /\ Linked(m, P)
  BY <1>1 DEF Tidied, Tidy
<1>3. PICK M : /\ M = L + 1 /\ M - 1 = L /\ L \in 0..(M - 1) /\ 0 \in 0..(L - 1)
               /\ \A j \in 0..(L - 1) : j \in 0..(M - 1)
  <2>1. L \in Nat /\ L > 0
    BY <1>1, TreeFacts
  <2> QED BY <2>1
<1>4. Covers(S \cup {new}, Q, M)
  <2>1. ASSUME NEW p \in S PROVE \E j \in 0..(M - 1) : \E k \in Keys : Q[j][k] = p
    <3>1. PICK j \in 0..(L - 1), k \in Keys : P[j][k] = p
      BY <1>2 DEF Covers
    <3> QED BY <1>1, <1>3, <3>1
  <2>2. \E j \in 0..(M - 1) : \E k \in Keys : Q[j][k] = new
    BY <1>1, <1>3
  <2> QED BY <2>1, <2>2 DEF Covers
<1>5. \A k \in Keys : Q[0][k] = P[0][k] /\ m2[P[0][k]] = m[P[0][k]]
  BY <1>1, <1>3
<1>6. ASSUME NEW k \in Keys PROVE LinkFits(m2[Q[0][k]].rightPtr, Q, k)
  <2>1. LinkFits(m[P[0][k]].rightPtr, P, k) /\ m2[Q[0][k]] = m[P[0][k]]
    BY <1>2, <1>5 DEF Linked
  <2>2. LinkFits(m2[Q[0][k]].rightPtr, P, k)
    BY <2>1
  <2> QED BY <1>5, <2>2 DEF LinkFits
<1>7. Tree(m2, Q, M) /\ Tidy(S \cup {new}, m2, Q, M)
  BY <1>1, <1>3, <1>4, <1>6 DEF Tidy, Linked
<1> QED BY <1>7, TidyOne

(* A leaf q is split at the key x, its right half goes to the page `new'.  *)
HalvedPaths(Q, P, q, x, new) ==
  \A k \in Keys : Q[0][k] = IF P[0][k] = q /\ ~(k < x) THEN new ELSE P[0][k]

Convex(P) ==
  \A a, b, c \in Keys : a < b /\ b < c /\ P[0][a] = P[0][c] => P[0][b] = P[0][a]

(* The right half takes over the link of the leaf.                         *)
LEMMA RightLink ==
  ASSUME NEW P, NEW Q, NEW q, NEW x \in Keys, NEW new, HalvedPaths(Q, P, q, x, new),
         \A k \in Keys : P[0][k] # new,
         NEW r, NEW k \in Keys, P[0][k] = q, ~(k < x), LinkFits(r, P, k)
  PROVE  LinkFits(r, Q, k)
<1>1. Q[0][k] = new /\ \A y \in Keys : y \in Nat
  BY TreeAssumption DEF HalvedPaths
<1>2. ASSUME r = 0, NEW y \in Keys, k < y PROVE Q[0][y] = Q[0][k]
  <2>1. P[0][y] = q /\ ~(y < x)
    BY <1>1, <1>2 DEF LinkFits
  <2> QED BY <1>1, <2>1 DEF HalvedPaths
<1>3. ASSUME r # 0
      PROVE  /\ r # Q[0][k]
             /\ \E y \in Keys : /\ k < y /\ Q[0][y] = r
                                /\ \A z \in Keys : k < z /\ z < y => Q[0][z] \in {Q[0][k], r}
  <2>1. PICK y \in Keys : /\ k < y /\ P[0][y] = r /\ r # q
                          /\ \A z \in Keys : k < z /\ z < y => P[0][z] \in {q, r}
    BY <1>3 DEF LinkFits
  <2>2. Q[0][y] = r /\ r # new
    BY <2>1 DEF HalvedPaths
  <2>3. ASSUME NEW z \in Keys, k < z, z < y PROVE Q[0][z] \in {new, r}
    <3>1. P[0][z] \in {q, r} /\ ~(z < x)
      BY <1>1, <2>1, <2>3
    <3> QED BY <3>1 DEF HalvedPaths
  <2> QED BY <1>1, <2>1, <2>2, <2>3
<1> QED BY <1>2, <1>3 DEF LinkFits

(* The left half is linked to the right half.                              *)
LEMMA LeftLink ==
  ASSUME NEW P, NEW Q, NEW q, NEW x \in Keys, NEW new, HalvedPaths(Q, P, q, x, new), Convex(P),
         \A k \in Keys : P[0][k] # new, new # 0, q # new, \E y \in Keys : Q[0][y] = new,
         NEW k \in Keys, P[0][k] = q, k < x
  PROVE  LinkFits(new, Q, k)
<1>1. PICK y \in Keys : Q[0][y] = new /\ P[0][y] = q /\ ~(y < x)
  BY DEF HalvedPaths
<1>2. k < y /\ Q[0][k] = q
  BY TreeAssumption, <1>1 DEF HalvedPaths
<1>3. ASSUME NEW z \in Keys, k < z, z < y PROVE Q[0][z] \in {q, new}
  <2>1. P[0][z] = q
    BY <1>1, <1>3 DEF Convex
  <2> QED BY <2>1 DEF HalvedPaths
<1> QED BY <1>1, <1>2, <1>3 DEF LinkFits

(* The other links stay as they are; one to the leaf is one to its left half. *)
LEMMA OtherLink ==
  ASSUME NEW P, NEW Q, NEW q, NEW x \in Keys, NEW new, HalvedPaths(Q, P, q, x, new), Convex(P),
         \A k \in Keys : P[0][k] # new, \E y \in Keys : Q[0][y] = q, q # new,
         NEW r, NEW k \in Keys, P[0][k] # q, LinkFits(r, P, k)
  PROVE  LinkFits(r, Q, k)
<1>1. Q[0][k] = P[0][k] /\ \A y \in Keys : y \in Nat
  BY TreeAssumption DEF HalvedPaths
<1>2. ASSUME r = 0, NEW y \in Keys, k < y PROVE Q[0][y] = Q[0][k]
  <2>1. P[0][y] = P[0][k]
    BY <1>2 DEF LinkFits
  <2> QED BY <1>1, <2>1 DEF HalvedPaths
<1>3. ASSUME r # 0
      PROVE  /\ r # Q[0][k]
             /\ \E y \in Keys : /\ k < y /\ Q[0][y] = r
                                /\ \A z \in Keys : k < z /\ z < y => Q[0][z] \in {Q[0][k], r}
  <2>1. PICK y \in Keys : /\ k < y /\ P[0][y] = r /\ r # P[0][k]
                          /\ \A z \in Keys : k < z /\ z < y => P[0][z] \in {P[0][k], r}
    BY <1>3 DEF LinkFits
  <2>2. CASE r # q
    <3>1. Q[0][y] = r
      BY <2>1, <2>2 DEF HalvedPaths
    <3>2. ASSUME NEW z \in Keys, k < z, z < y PROVE Q[0][z] \in {P[0][k], r}
      <4>1. P[0][z] \in {P[0][k], r}
        BY <2>1, <3>2
      <4> QED BY <2>2, <4>1 DEF HalvedPaths
    <3> QED BY <1>1, <2>1, <3>1, <3>2
  <2>3. CASE r = q
    <3>1. PICK w \in Keys : Q[0][w] = q /\ P[0][w] = q /\ w < x
      BY DEF HalvedPaths
    <3>2. k < w
      <4>1. SUFFICES ASSUME w < k PROVE FALSE
        <5>1. w # k
          BY <3>1
        <5> QED BY <1>1, <5>1
      <4>2. P[0][k] = P[0][w]
        BY <2>1, <2>3, <3>1, <4>1 DEF Convex
      <4> QED BY <3>1, <4>2
    <3>3. ASSUME NEW z \in Keys, k < z, z < w PROVE Q[0][z] \in {P[0][k], r}
      <4>1. P[0][z] \in {P[0][k], q}
        <5>1. CASE z < y
          BY <2>1, <2>3, <3>3, <5>1
        <5>2. CASE z = y
          BY <2>1, <2>3, <5>2
        <5>3. CASE y < z
          <6>1. P[0][z] = P[0][y]
            BY <2>1, <2>3, <3>1, <3>3, <5>3 DEF Convex
          <6> QED BY <2>1, <2>3, <6>1
        <5> QED BY <1>1, <5>1, <5>2, <5>3
      <4>2. z < x
        BY <1>1, <3>1, <3>3
      <4> QED BY <2>3, <4>1, <4>2 DEF HalvedPaths
    <3> QED BY <1>1, <2>1, <2>3, <3>1, <3>2, <3>3
  <2> QED BY <2>2, <2>3
<1> QED BY <1>2, <1>3 DEF LinkFits

(* The node q on level l is split; the halves of a leaf are linked.        *)
HalvesOf(m2, m, P, L, l, q, x, new, s, Q) ==
  /\ Tree(m, P, L) /\ l \in 0..(L - 1) /\ q = P[l][x] /\ x \in Keys /\ s.key \in Keys
  /\ SplitMade(m2, m, P, L, l, q, x, new, s, Q)
  /\ \A j \in 0..L : \A k \in Keys : P[j][k] # new
  /\ new # 0
  /\ l = 0 => s.left.rightPtr = new /\ s.right.rightPtr = m[q].rightPtr

LEMMA SplitLinked ==
  ASSUME NEW m2, NEW m, NEW P, NEW L, NEW l, NEW q, NEW x, NEW new, NEW s, NEW Q,
         HalvesOf(m2, m, P, L, l, q, x, new, s, Q), Linked(m, P)
  PROVE  Linked(m2, Q)
<1>1. /\ Tree(m, P, L) /\ l \in 0..(L - 1) /\ q = P[l][x] /\ x \in Keys /\ s.key \in Keys
      /\ \A j \in 0..L : \A k \in Keys : P[j][k] # new
      /\ new # 0
      /\ SplitPaths(Q, P, L, l, q, s.key, new)
      /\ \E y \in Keys : Q[l][y] = q
      /\ \E y \in Keys : Q[l][y] = new
      /\ m2[q] = s.left /\ m2[new] = s.right /\ OnlyThese(m2, m, P, L, q, P[l + 1][x])
  BY DEF HalvesOf, SplitMade
<1>2. /\ L \in Nat /\ L > 0 /\ 0 \in 0..L /\ l \in 0..L /\ l + 1 \in 0..L /\ l + 1 # 0
      /\ \A i, j \in 0..L : \A k, y \in Keys : P[i][k] = P[j][y] => i = j
  BY <1>1, TreeFacts
<1>3. \A k \in Keys : P[0][k] # q => m2[P[0][k]] = m[P[0][k]]
  BY <1>1, <1>2 DEF OnlyThese
<1>4. CASE l # 0
  <2>1. \A k \in Keys : Q[0][k] = P[0][k] /\ P[0][k] # q
    BY <1>1, <1>2, <1>4 DEF SplitPaths
  <2>2. ASSUME NEW k \in Keys PROVE LinkFits(m2[Q[0][k]].rightPtr, Q, k)
    <3>1. LinkFits(m[P[0][k]].rightPtr, P, k) /\ m2[Q[0][k]] = m[P[0][k]]
      BY <1>3, <2>1 DEF Linked
    <3>2. LinkFits(m2[Q[0][k]].rightPtr, P, k)
      BY <3>1
    <3> QED BY <2>1, <3>2 DEF LinkFits
  <2> QED BY <2>2 DEF Linked
<1>5. CASE l = 0
  <2>1. HalvedPaths(Q, P, q, s.key, new)
    BY <1>1, <1>2, <1>5 DEF SplitPaths, HalvedPaths
  <2>2. Convex(P)
    BY <1>1, SideBySide DEF Convex
  <2>3. /\ \A k \in Keys : P[0][k] # new
        /\ \E y \in Keys : Q[0][y] = q
        /\ \E y \in Keys : Q[0][y] = new
        /\ q # new
    BY <1>1, <1>2, <1>5
  <2>4. s.left.rightPtr = new /\ s.right.rightPtr = m[q].rightPtr
    BY <1>5 DEF HalvesOf
  <2>5. ASSUME NEW k \in Keys PROVE LinkFits(m2[Q[0][k]].rightPtr, Q, k)
    <3>1. PICK r : r = m[P[0][k]].rightPtr /\ LinkFits(r, P, k)
      BY DEF Linked
    <3>2. CASE P[0][k] # q
      <4>1. Q[0][k] = P[0][k] /\ m2[Q[0][k]].rightPtr = r
        BY <1>3, <2>1, <3>1, <3>2 DEF HalvedPaths
      <4>2. LinkFits(r, Q, k)
        BY <1>1, <2>1, <2>2, <2>3, <3>1, <3>2, OtherLink
      <4> QED BY <4>1, <4>2
    <3>3. CASE P[0][k] = q /\ k < s.key
      <4>1. Q[0][k] = q /\ m2[Q[0][k]].rightPtr = new
        BY <1>1, <2>1, <2>4, <3>3 DEF HalvedPaths
      <4>2. LinkFits(new, Q, k)
        BY <1>1, <2>1, <2>2, <2>3, <3>3, LeftLink
      <4> QED BY <4>1, <4>2
    <3>4. CASE P[0][k] = q /\ ~(k < s.key)
      <4>1. Q[0][k] = new /\ m2[Q[0][k]].rightPtr = r
        BY <1>1, <2>1, <2>4, <3>1, <3>4 DEF HalvedPaths
      <4>2. LinkFits(r, Q, k)
        BY <1>1, <2>1, <2>3, <3>1, <3>4, RightLink
      <4> QED BY <4>1, <4>2
    <3> QED BY <3>2, <3>3, <3>4
  <2> QED BY <2>5 DEF Linked
<1> QED BY <1>4, <1>5

LEMMA SplitTidy ==
  ASSUME NEW m2, NEW m, NEW P, NEW L, NEW l, NEW q, NEW x, NEW new, NEW s, NEW Q,
         HalvesOf(m2, m, P, L, l, q, x, new, s, Q), NEW S, Tidied(S, m)
  PROVE  Tidied(S \cup {new}, m2)
<1>1. /\ Tree(m, P, L) /\ l \in 0..(L - 1) /\ q = P[l][x] /\ x \in Keys
      /\ Tree(m2, Q, L) /\ SplitPaths(Q, P, L, l, q, s.key, new)
      /\ \E y \in Keys : Q[l][y] = q
      /\ \E y \in Keys : Q[l][y] = new
  BY DEF HalvesOf, SplitMade
<1>2. Covers(S, P, L) /\ Linked(m, P)
  BY <1>1 DEF Tidied, Tidy
<1>3. \A j \in 0..(L - 1) : j \in 0..L
  BY <1>1, TreeFacts
<1>4. Covers(S \cup {new}, Q, L)
  <2>1. ASSUME NEW p \in S PROVE \E j \in 0..(L - 1) : \E k \in Keys : Q[j][k] = p
    <3>1. PICK j \in 0..(L - 1), k \in Keys : P[j][k] = p
      BY <1>2 DEF Covers
    <3>2. CASE j = l /\ p = q
      BY <1>1, <3>2
    <3>3. CASE ~(j = l /\ p = q)
      <4>1. Q[j][k] = p
        BY <1>1, <1>3, <3>1, <3>3 DEF SplitPaths
      <4> QED BY <4>1
    <3> QED BY <3>2, <3>3
  <2>2. \E j \in 0..(L - 1) : \E k \in Keys : Q[j][k] = new
    BY <1>1
  <2> QED BY <2>1, <2>2 DEF Covers
<1>5. Linked(m2, Q)
  BY <1>2, SplitLinked
<1>6. Tree(m2, Q, L) /\ Tidy(S \cup {new}, m2, Q, L) /\ Keys # {}
  BY <1>1, <1>4, <1>5 DEF Tidy
<1> QED BY <1>6, TidyOne

-----------------------------------------------------------------------------
(* While no operation fails, every page in use is part of the tree as it is
   about to be, and its leaves are linked in the order of their keys.  (What a
   failed operation was about to make of the tree never comes about.)      *)

TidyNext == Tidied(owned, NextMem)

TidyInv ==
  /\ op.kind # "open" /\ ~Hopeless /\ ~Overflows => TidyNext
  /\ op.kind = "open" => owned = IF pc = "newroot" THEN {} ELSE {cur}

LEMMA SameTidy ==
  ASSUME TidyNext, NextSame
  PROVE  TidyNext'
BY DEF TidyNext, NextSame

LEMMA EditedTidy ==
  ASSUME TidyNext, NextEdited, Keys # {}
  PROVE  TidyNext'
<1>1. PICK m, m2, S : m = NextMem /\ m2 = NextMem' /\ S = owned
  OBVIOUS
<1>2. PICK P, L : Tree(m, P, L) /\ Tree(m2, P, L)
  BY <1>1 DEF NextEdited
<1>3. Tidied(S, m) /\ \A p \in Pages0 : m2[p].rightPtr = m[p].rightPtr
  BY <1>1 DEF NextEdited, TidyNext
<1>4. Tidied(S, m2)
  BY <1>2, <1>3, EditTidy
<1> QED BY <1>1, <1>4 DEF NextEdited, TidyNext

LEMMA GrownTidy ==
  ASSUME TidyNext, NextRaised, Keys # {}
  PROVE  TidyNext'
<1>1. PICK m, m2, S, new : m = NextMem /\ m2 = NextMem' /\ S = owned /\ new = cur'
  OBVIOUS
<1>2. PICK P, L, Q : Raised(m2, m, P, L, Q, new)
  BY <1>1 DEF NextRaised
<1>3. Tidied(S, m)
  BY <1>1 DEF TidyNext
<1>4. Tidied(S \cup {new}, m2)
  BY <1>2, <1>3, RaisedTidy
<1>5. owned' = S \cup {new}
  BY <1>1 DEF NextRaised
<1> QED BY <1>1, <1>4, <1>5 DEF TidyNext

LEMMA ReturnTidy ==
  ASSUME TidyNext, AllWritten, Mem' = Mem, owned' = owned, NEW out, Finish(out)
  PROVE  TidyNext'
<1>1. AllWritten'
  BY DEF Finish, AllWritten
<1>2. NextMem = Mem /\ NextMem' = Mem'
  BY <1>1, NoWork, NoWorkNext DEF NextIsMem
<1> QED BY <1>2 DEF TidyNext

LEMMA SplitOnTidy ==
  ASSUME TreeInv, Working, AllocSplit, TidyNext, ~Hopeless', Keys # {}
  PROVE  TidyNext'
<1>1. PICK q, n, new, s, x : SplitStep(q, n, new, s, x)
  BY DEF SplitStep
<1>2. SplitFacts(q, n, new, s, x)
  BY <1>1, SplitStepFacts
<1>3. PICK P, L, l, m : SplitTreeIs(q, n, new, x, P, L, l, m)
  BY <1>1, SplitTreeNow
<1>4. /\ Tree(m, P, L) /\ l \in 0..(L - 1) /\ l \in 0..L /\ q = P[l][x] /\ m[q] = n /\ m = NextMem
      /\ \A j \in 0..L : \A k \in Keys : P[j][k] # new
  BY <1>3 DEF SplitTreeIs
<1>5. /\ x \in Keys /\ s.key \in Keys /\ new # 0 /\ s = splitNode(n, new)
      /\ owned' = owned \cup {new} /\ NodeOver(n, owned)
  BY <1>2 DEF SplitFacts, AnyPage
<1>6. IsLeaf(n) <=> l = 0
  <2>1. PageHas(m[P[l][x]], P, l, P[l][x])
    BY <1>4, <1>5, PageFacts
  <2> QED BY <1>4, <2>1 DEF PageHas
<1>7. l = 0 => s.left.keys # <<>>
  <2> SUFFICES ASSUME l = 0, s.left.keys = <<>> PROVE FALSE
    OBVIOUS
  <2>1. IsLeaf(s.left)
    BY <1>5, <1>6, SplitLeaves
  <2>2. pc' = "write" /\ Len(todo') = 2 /\ todo'[1].node = s.left
    BY <1>2 DEF SplitFacts
  <2> QED BY <2>1, <2>2 DEF Hopeless
<1>8. PICK m2, Q : m2 = NextMem' /\ SplitMade(m2, m, P, L, l, q, x, new, s, Q)
  BY <1>2, <1>3, <1>7, SplitNext
<1>9. l = 0 => s.left.rightPtr = new /\ s.right.rightPtr = m[q].rightPtr
  BY <1>4, <1>5, <1>6 DEF splitNode, splitLeaf, LeafNode
<1>10. HalvesOf(m2, m, P, L, l, q, x, new, s, Q)
  BY <1>4, <1>5, <1>8, <1>9 DEF HalvesOf
<1>11. PICK S : S = owned
  OBVIOUS
<1>12. Tidied(S, m)
  BY <1>4, <1>11 DEF TidyNext
<1>13. Tidied(S \cup {new}, m2)
  BY <1>10, <1>12, SplitTidy
<1> QED BY <1>5, <1>8, <1>11, <1>13 DEF TidyNext

(* A node that does not fit its page makes the operation fail in the end.  *)
LEMMA DoomedWrite ==
  ASSUME NodeType \subseteq Body, TreeInv, Working, WriteNode, Hopeless \/ Overflows
  PROVE  Overflows'
<1>1. PICK q, n : WriteFacts(q, n)
  BY WriteNodeFacts
<1>2. ~Overflows
  BY DEF Overflows, WriteNode
<1>3. /\ pc = "write" /\ Len(todo) = 2 /\ nodeSize(todo[2].node) > cellAreaSize
  BY <1>2 DEF Working, HopelessOK, Hopeless
<1>4. split # NoSplit
  BY <1>3 DEF Working, WorkOK
<1>5. pc' = "write" /\ split' = split /\ todo' = Tail(todo)
  BY <1>1, <1>3 DEF WriteFacts
<1>6. todo \in Seq(Writes(owned))
  BY InvFacts
<1>7. Len(todo') = 1 /\ todo'[1] = todo[2]
  <2>1. PICK t : t = todo /\ t \in Seq(Writes(owned)) /\ Len(t) = 2
    BY <1>3, <1>6
  <2>2. Len(Tail(t)) = 1 /\ Tail(t)[1] = t[2]
    BY <2>1
  <2> QED BY <1>5, <2>1, <2>2
<1> QED BY <1>3, <1>4, <1>5, <1>7 DEF Overflows

(* Every step.                                                             *)

LEMMA OnlyWrites ==
  ASSUME pc = "write", Step, NoError'
  PROVE  WriteNode
<1>1. ~(Descend \/ InsertLeaf \/ SearchLeaf \/ DeleteLeaf \/ DeleteMissing)
  BY DEF Descend, InsertLeaf, SearchLeaf, DeleteLeaf, DeleteMissing, AtLeaf
<1>2. ~(DepthLeaf \/ LeftmostLeaf \/ ScanLeaf \/ BadNode \/ AllocSplit)
  BY DEF DepthLeaf, LeftmostLeaf, ScanLeaf, BadNode, AllocSplit, AtLeaf
<1>3. ~(UnwindDone \/ UnwindInternal \/ UnwindRoot \/ AllocRoot \/ SetRoot \/ FlushTree)
  BY DEF UnwindDone, UnwindInternal, UnwindRoot, AllocRoot, SetRoot, FlushTree
<1>4. ~(WriteOverflow \/ PagerError \/ FileFull)
  BY DEF NoError, WriteOverflow, PagerError, FileFull, Return, Finish
<1> QED BY <1>1, <1>2, <1>3, <1>4 DEF Step

LEMMA ReadReturnsTidy ==
  ASSUME TreeInv, Working, TidyNext, pc \in {"visit", "scan"}, ReadPage(cur), NEW out, Finish(out)
  PROVE  TidyNext'
<1>1. PagesUnchanged
  <2>1. PagesInv /\ cur \in owned
    BY DEF TreeInv, LocalsOver
  <2> QED BY <2>1, ReadEffect
<1>2. Mem' = Mem /\ owned' = owned
  BY <1>1, NodesKept DEF PagesUnchanged
<1>3. AllWritten
  BY DEF Working, WorkOK, AllWritten
<1> QED BY <1>2, <1>3, ReturnTidy

LEMMA StepOnTidy ==
  ASSUME NodeType \subseteq Body, Keys # {}, TreeInv, TreeInv', Working, op.kind # "open",
         TidyInv, NoError', Step, ~Hopeless', ~Overflows'
  PROVE  TidyNext'
<1>1. ~Hopeless /\ ~Overflows
  <2> SUFFICES ASSUME Hopeless \/ Overflows PROVE FALSE
    OBVIOUS
  <2>1. WriteNode
    <3>1. pc = "write"
      BY DEF Hopeless, Overflows
    <3> QED BY <3>1, OnlyWrites
  <2> QED BY <2>1, DoomedWrite
<1>2. TidyNext
  BY <1>1 DEF TidyInv
<1>3. CASE Descend \/ LeftmostLeaf \/ (ScanLeaf /\ pc' = "scan")
  BY <1>2, <1>3, DescendMap, QuietMap, SameTidy
<1>4. CASE UnwindDone \/ UnwindRoot \/ UnwindInternal
  BY <1>2, <1>4, UnwindQuietMap, UnwindInternalMap, SameTidy
<1>5. CASE WriteNode
  BY <1>2, <1>5, WriteNodeMap, SameTidy
<1>6. CASE SetRoot
  BY <1>2, <1>6, SetRootMap, SameTidy
<1>7. CASE InsertLeaf \/ DeleteLeaf
  BY <1>2, <1>7, LeafStepMap, EditedTidy
<1>8. CASE AllocRoot
  BY <1>2, <1>8, AllocRootMap, GrownTidy
<1>9. CASE AllocSplit
  BY <1>2, <1>9, SplitOnTidy
<1>10. CASE SearchLeaf \/ DeleteMissing \/ DepthLeaf
  <2>1. pc = "visit" /\ ReadPage(cur) /\ \E out : Finish(out)
    BY <1>10 DEF SearchLeaf, DeleteMissing, DepthLeaf, AtLeaf, Return
  <2> QED BY <1>2, <2>1, ReadReturnsTidy
<1>11. CASE ScanLeaf /\ ~(pc' = "scan")
  <2>1. pc = "scan" /\ ReadPage(cur)
    BY <1>11 DEF ScanLeaf
  <2>2. \E out : Finish(out)
    <3>1. PICK n : n = NodeAt(cur)
      OBVIOUS
    <3>2. CASE n.rightPtr = 0
      BY <1>11, <3>1, <3>2 DEF ScanLeaf, Return
    <3>3. CASE n.rightPtr # 0
      BY <1>11, <2>1, <3>1, <3>3 DEF ScanLeaf
    <3> QED BY <3>2, <3>3
  <2> QED BY <1>2, <2>1, <2>2, ReadReturnsTidy
<1>12. CASE FlushTree
  <2>1. pc = "flush" /\ Flush /\ Finish("ok") /\ PagesInv
    BY <1>12, InvFacts DEF FlushTree, Return
  <2>2. PagesUnchanged
    BY <2>1, FlushEffect
  <2>3. Mem' = Mem /\ owned' = owned
    BY <2>2, NodesKept DEF PagesUnchanged
  <2>4. AllWritten
    BY <2>1 DEF Working, WorkOK, AllWritten
  <2> QED BY <1>2, <2>1, <2>3, <2>4, ReturnTidy
<1>13. ~(BadNode \/ WriteOverflow \/ PagerError \/ FileFull)
  BY DEF NoError, BadNode, WriteOverflow, PagerError, FileFull, Return, Finish
<1> QED BY <1>3, <1>4, <1>5, <1>6, <1>7, <1>8, <1>9, <1>10, <1>11, <1>12, <1>13 DEF Step

(* The first root is the only page, a leaf without a link.                 *)
LEMMA FirstRootTidy ==
  ASSUME TreeInv, FirstRoot, SetRoot, op.kind = "open", TidyInv, Keys # {}
  PROVE  TidyNext'
<1>1. pc = "setroot" /\ SetRootPage(cur) /\ Finish("ok")
  BY DEF SetRoot, Return
<1>2. PagesInv /\ cur \in owned /\ owned \subseteq 1..PageLimit
  BY <1>1, InvFacts DEF TreeInv, LocalsOver
<1>3. NodesUnchanged /\ owned' = owned /\ header'.RootPageID = cur
  BY <1>1, <1>2, SetRootEffect
<1>4. PICK root \in AnyPage : root = cur
  BY <1>2 DEF AnyPage
<1>5. root \in Pages0 /\ root # 0 /\ 0 \in Pages0 /\ root \in 0..PageLimit
  BY <1>4, LimitAssumption DEF AnyPage, Pages0
<1>6. NodeAt(root)' = LeafNode(<<>>, <<>>, 0)
  BY <1>1, <1>3, <1>4, <1>5 DEF NodesUnchanged, FirstRoot
<1>7. PICK m, S : m = Mem' /\ S = owned'
  OBVIOUS
<1>8. m[0] = Header0(root) /\ m[root] = LeafNode(<<>>, <<>>, 0) /\ S = {root}
  <2>1. m[0] = Header0(root) /\ m[root] = LeafNode(<<>>, <<>>, 0)
    BY <1>3, <1>4, <1>5, <1>6, <1>7 DEF Mem
  <2>2. S = {root}
    BY <1>1, <1>3, <1>4, <1>7 DEF TidyInv
  <2> QED BY <2>1, <2>2
<1>9. PICK P : Tree(m, P, 1) /\ \A k \in Keys : P[0][k] = root
  BY <1>8, FirstTree
<1>10. Tidy(S, m, P, 1)
  <2>1. Covers(S, P, 1)
    <3>1. 0 \in 0..(1 - 1)
      OBVIOUS
    <3> QED BY <1>8, <1>9, <3>1 DEF Covers
  <2>2. \A k \in Keys : m[P[0][k]].rightPtr = 0
    BY <1>8, <1>9 DEF LeafNode
  <2> QED BY <1>9, <2>1, <2>2 DEF Tidy, Linked, LinkFits
<1>11. Tidied(S, m)
  BY <1>9, <1>10, TidyOne
<1>12. NextMem' = Mem'
  <2>1. AllWritten'
    BY <1>1 DEF Finish, AllWritten
  <2> QED BY <2>1, NoWorkNext DEF NextIsMem
<1> QED BY <1>7, <1>11, <1>12 DEF TidyNext

LEMMA OpenOnTidy ==
  ASSUME NodeType \subseteq Body, Keys # {}, TreeInv, op.kind = "open", FirstRoot, TidyInv, Step
  PROVE  TidyInv'
<1>1. CASE AllocRoot
  <2>1. pc = "newroot" /\ pc' = "writeroot" /\ op' = op /\ cur' = NextPage /\ AllocatePage
        /\ PagesInv
    BY <1>1, InvFacts DEF AllocRoot
  <2>2. owned' = owned \cup {NextPage}
    BY <2>1, AllocateEffect
  <2>3. owned' = {cur'}
    BY <2>1, <2>2 DEF TidyInv
  <2> QED BY <2>1, <2>3 DEF TidyInv
<1>2. CASE WriteNode /\ pc = "writeroot"
  <2>1. PICK q, n : WriteFacts(q, n)
    BY <1>2, WriteNodeFacts
  <2>2. pc' # "newroot" /\ op' = op /\ cur' = cur /\ owned' = owned
    BY <1>2, <2>1 DEF WriteFacts
  <2> QED BY <1>2, <2>2 DEF TidyInv
<1>3. CASE SetRoot
  <2>1. op'.kind = "none"
    BY <1>3 DEF SetRoot, Return, Finish, NoOp
  <2> QED BY <1>3, <2>1, FirstRootTidy DEF TidyInv
<1> QED BY <1>1, <1>2, <1>3, OpenOnly

LEMMA ClientOnTidy ==
  ASSUME Keys # {}, TreeInv, TreeInv', Working, TidyInv, Client
  PROVE  TidyInv'
<1>1. pc = "idle"
  BY DEF Client, Put, PutRejected, Get, Delete, KeysScan, Depth, Call
<1>2. op.kind # "open" /\ ~Hopeless /\ ~Overflows
  BY <1>1 DEF TreeInv, PlacesOK, Hopeless, Overflows
<1>3. TidyNext
  BY <1>2 DEF TidyInv
<1>4. op'.kind # "open"
  BY ClientMap
<1>5. ASSUME NEW kind, NEW k, NEW v, Call(kind, k, v),
             kind \in {"put", "get", "delete"} => k \in Keys,
             kind \in {"put", "get", "delete", "keys", "depth"}
      PROVE  TidyNext'
  BY <1>3, <1>5, CallMap, SameTidy
<1>6. ASSUME NEW k, NEW v, PutRejected(k, v) PROVE TidyNext'
  <2>1. UNCHANGED <<pagerVars, pc, op, cur, stack, todo, split, before>>
    BY <1>6 DEF PutRejected
  <2> QED BY <1>3, <2>1, SameWork, SameTidy
<1>7. TidyNext'
  BY <1>5, <1>6 DEF Client, Put, Get, Delete, KeysScan, Depth
<1> QED BY <1>4, <1>7 DEF TidyInv

-----------------------------------------------------------------------------
(* What the pages of the tree are, and where its searches end.             *)

(* PagesBelow solves its equation, also on pages that no search comes by.  *)
LEMMA BelowRule ==
  ASSUME TreeInv
  PROVE  \E below :
           /\ \A p \in AnyPage : PagesBelow(p) = below[p]
           /\ \A p \in AnyPage :
                below[p] = IF NodeAt(p) = Zeros THEN {}
                           ELSE IF IsLeaf(NodeAt(p)) THEN {p}
                           ELSE {p} \cup UNION {below[c] : c \in ChildrenOf(NodeAt(p))}
<1> DEFINE D == 1..PageLimit
           stop == {p \in D : NodeAt(p) = Zeros \/ IsLeaf(NodeAt(p))}
           value == [p \in D |-> IF NodeAt(p) = Zeros THEN {} ELSE {p}]
           kids == [p \in D |-> ChildrenOf(NodeAt(p))]
           Rule(f) == f = [p \in 1..PageLimit |->
                             IF ~IsNode(p) THEN {}
                             ELSE IF IsLeaf(NodeAt(p)) THEN {p}
                             ELSE LET n == NodeAt(p) IN
                               {p} \cup UNION {f[childAt(n, i)] : i \in 1..(Len(n.keys) + 1)}]
           below == CHOOSE f : Rule(f)
<1>1. /\ \A p \in D : NodeAt(p) = Zeros \/ NodeOver(NodeAt(p), owned)
      /\ owned \subseteq D
  <2>1. \A p \in D : p \in 0..PageLimit
    BY LimitAssumption
  <2> QED BY <2>1, InvFacts
<1>2. \A p \in D \ stop : kids[p] \subseteq D
  <2> SUFFICES ASSUME NEW p \in D \ stop PROVE ChildrenOf(NodeAt(p)) \subseteq D
    OBVIOUS
  <2>1. PICK n : n = NodeAt(p) /\ NodeOver(n, owned) /\ ~IsLeaf(n)
    BY <1>1
  <2>2. \A i \in 1..(Len(n.keys) + 1) : childAt(n, i) \in owned
    BY <2>1, ChildAtFacts
  <2> QED BY <1>1, <2>1, <2>2 DEF ChildrenOf
<1>3. PICK f : IsGathering(f, D, stop, value, kids)
  <2> HIDE DEF D, stop, value, kids
  <2> QED BY <1>2, GatherRecursion
<1>4. \A g : IsGathering(g, D, stop, value, kids) <=> Rule(g)
  <2> SUFFICES ASSUME NEW g PROVE IsGathering(g, D, stop, value, kids) <=> Rule(g)
    OBVIOUS
  <2>1. \A n : UNION {g[c] : c \in ChildrenOf(n)}
             = UNION {g[childAt(n, i)] : i \in 1..(Len(n.keys) + 1)}
    BY DEF ChildrenOf
  <2>2. \A p \in D : (IF p \in stop THEN value[p]
                      ELSE value[p] \cup UNION {g[c] : c \in kids[p]})
                   = (IF ~IsNode(p) THEN {}
                      ELSE IF IsLeaf(NodeAt(p)) THEN {p}
                      ELSE LET n == NodeAt(p) IN
                        {p} \cup UNION {g[childAt(n, i)] : i \in 1..(Len(n.keys) + 1)})
    BY <2>1 DEF IsNode
  <2> QED BY <2>2 DEF IsGathering
<1>5. Rule(below)
  BY <1>3, <1>4
<1>6. \A p \in AnyPage : PagesBelow(p) = below[p]
  BY DEF PagesBelow
<1> HIDE DEF below
<1>7. \A p \in D : below[p] = IF p \in stop THEN value[p]
                              ELSE value[p] \cup UNION {below[c] : c \in kids[p]}
  <2>1. IsGathering(below, D, stop, value, kids)
    BY <1>4, <1>5
  <2> HIDE DEF D, stop, value, kids
  <2> QED BY <2>1 DEF IsGathering
<1>8. \A p \in D : below[p] = IF NodeAt(p) = Zeros THEN {}
                              ELSE IF IsLeaf(NodeAt(p)) THEN {p}
                              ELSE {p} \cup UNION {below[c] : c \in ChildrenOf(NodeAt(p))}
  <2>1. \A p \in D : kids[p] = ChildrenOf(NodeAt(p))
    OBVIOUS
  <2>2. \A p \in D : /\ p \in stop <=> (NodeAt(p) = Zeros \/ IsLeaf(NodeAt(p)))
                     /\ value[p] = IF NodeAt(p) = Zeros THEN {} ELSE {p}
    OBVIOUS
  <2> HIDE DEF D, stop, value, kids
  <2> QED BY <1>7, <2>1, <2>2
<1> QED BY <1>6, <1>8 DEF AnyPage

(* A page of the tree, as the pager has it.                                *)
LEMMA OnPages ==
  ASSUME NEW P, NEW L, Tree(Mem, P, L), NEW j \in 0..(L - 1), NEW k \in Keys
  PROVE  /\ P[j][k] \in AnyPage /\ Mem[P[j][k]] = NodeAt(P[j][k])
         /\ NodeOver(NodeAt(P[j][k]), AnyPage) /\ NodeAt(P[j][k]) # Zeros
         /\ IsLeaf(NodeAt(P[j][k])) <=> j = 0
<1>1. j \in 0..L /\ P[j][k] # 0 /\ P[j][k] \in Pages0 /\ P[j][k] \in AnyPage
  BY TreeFacts
<1>2. Mem[P[j][k]] = NodeAt(P[j][k])
  BY <1>1 DEF Mem
<1>3. PageHas(Mem[P[j][k]], P, j, P[j][k])
  BY <1>1, PageFacts
<1> QED BY <1>1, <1>2, <1>3, ZerosAssumption DEF PageHas, NodeOver

LEMMA WholeTree ==
  ASSUME TreeInv, NEW P, NEW L, Tree(Mem, P, L), InUse(owned, P, L), Covers(owned, P, L),
         NEW k \in Keys, NEW root, \A x \in Keys : P[L - 1][x] = root
  PROVE  PagesBelow(root) = owned
<1>1. PICK below :
        /\ \A p \in AnyPage : PagesBelow(p) = below[p]
        /\ \A p \in AnyPage :
             below[p] = IF NodeAt(p) = Zeros THEN {}
                        ELSE IF IsLeaf(NodeAt(p)) THEN {p}
                        ELSE {p} \cup UNION {below[c] : c \in ChildrenOf(NodeAt(p))}
  BY BelowRule
<1>2. L \in Nat /\ L > 0 /\ L - 1 \in Nat /\ \A j \in 0..(L - 1) : j \in 0..L
  BY TreeFacts
<1>3. PICK m, S : m = Mem /\ S = owned
  OBVIOUS
<1>4. ASSUME NEW j \in 0..(L - 1), NEW x \in Keys
      PROVE  /\ j = 0 => below[P[j][x]] = {P[j][x]}
             /\ j # 0 => \A n : n = m[P[j][x]] =>
                  below[P[j][x]] = {P[j][x]} \cup UNION {below[c] : c \in ChildrenOf(n)}
  <2>1. PICK p, n : p = P[j][x] /\ n = NodeAt(p)
    OBVIOUS
  <2>2. p \in AnyPage /\ m[p] = n /\ n # Zeros /\ (IsLeaf(n) <=> j = 0)
    BY <1>3, <2>1, OnPages
  <2>3. /\ j = 0 => below[p] = {p}
        /\ j # 0 => below[p] = {p} \cup UNION {below[c] : c \in ChildrenOf(n)}
    BY <1>1, <2>1, <2>2
  <2> QED BY <2>1, <2>2, <2>3
<1> DEFINE T == {j \in Nat : j \in 0..(L - 1) => \A x \in Keys :
                   /\ below[P[j][x]] \subseteq S
                   /\ \A i \in 0..j : P[i][x] \in below[P[j][x]]}
<1>5. 0 \in T
  <2> SUFFICES ASSUME NEW x \in Keys
               PROVE  below[P[0][x]] \subseteq S /\ \A i \in 0..0 : P[i][x] \in below[P[0][x]]
    OBVIOUS
  <2>1. 0 \in 0..(L - 1) /\ \A i \in 0..0 : i = 0
    BY <1>2
  <2>2. P[0][x] \in S
    BY <1>3, <2>1 DEF InUse
  <2>3. below[P[0][x]] = {P[0][x]}
    BY <1>4, <2>1
  <2> QED BY <2>1, <2>2, <2>3
<1>6. ASSUME NEW j \in Nat, j \in T PROVE j + 1 \in T
  <2> SUFFICES ASSUME j + 1 \in 0..(L - 1), NEW x \in Keys
               PROVE  /\ below[P[j + 1][x]] \subseteq S
                      /\ \A i \in 0..(j + 1) : P[i][x] \in below[P[j + 1][x]]
    OBVIOUS
  <2>1. PICK h \in 1..L : h = j + 1 /\ h \in 0..(L - 1) /\ h - 1 = j /\ h # 0
    BY <1>2
  <2>2. j \in 0..(L - 1)
    BY <1>2
  <2>3. PICK n : n = m[P[h][x]]
    OBVIOUS
  <2>4. below[P[h][x]] = {P[h][x]} \cup UNION {below[c] : c \in ChildrenOf(n)}
    BY <1>4, <2>1, <2>3
  <2>5. ASSUME NEW c \in ChildrenOf(n) PROVE below[c] \subseteq S
    <3>1. PICK i \in 1..(Len(n.keys) + 1) : c = childAt(n, i)
      BY DEF ChildrenOf
    <3>2. PICK y \in Keys : P[h - 1][y] = childAt(n, i)
      <4>1. Tree(m, P, L)
        BY <1>3
      <4> QED BY <2>3, <4>1, ChildOnPath
    <3> QED BY <1>6, <2>1, <2>2, <3>1, <3>2
  <2>6. P[j][x] \in ChildrenOf(n)
    <3>1. Leads(m, P, h, x)
      BY <1>3, <2>1 DEF Tree
    <3>2. n.keys \in Seq(Keys)
      <4>1. PageHas(m[P[h][x]], P, h, P[h][x])
        BY <1>2, <1>3, <2>1, PageFacts
      <4> QED BY <2>3, <4>1 DEF PageHas
    <3>3. childIdx(n, x) \in 1..(Len(n.keys) + 1)
      BY <3>2, ChildIdxFacts
    <3> QED BY <2>1, <2>3, <3>1, <3>3 DEF Leads, Route, ChildrenOf
  <2>7. P[h][x] \in S
    BY <1>3, <2>1 DEF InUse
  <2>8. below[P[h][x]] \subseteq S
    BY <2>4, <2>5, <2>7
  <2>9. ASSUME NEW i \in 0..h PROVE P[i][x] \in below[P[h][x]]
    <3>1. CASE i = h
      BY <2>4, <3>1
    <3>2. CASE i # h
      <4>1. i \in 0..j
        BY <2>1, <3>2
      <4>2. P[i][x] \in below[P[j][x]]
        BY <1>6, <2>2, <4>1
      <4> QED BY <2>4, <2>6, <4>2
    <3> QED BY <3>1, <3>2
  <2> QED BY <2>1, <2>8, <2>9
<1>7. Nat \subseteq T
  <2> HIDE DEF T
  <2> QED BY <1>5, <1>6, SetInduction
<1>8. /\ L - 1 \in 0..(L - 1) /\ P[L - 1][k] = root /\ root \in AnyPage
      /\ PagesBelow(root) = below[root]
  <2>1. L - 1 \in 0..(L - 1) /\ P[L - 1][k] = root
    BY <1>2
  <2>2. root \in AnyPage
    BY <2>1, OnPages
  <2> QED BY <1>1, <2>1, <2>2
<1>9. /\ below[root] \subseteq S
      /\ \A x \in Keys : \A i \in 0..(L - 1) : P[i][x] \in below[root]
  BY <1>2, <1>7, <1>8
<1>10. S \subseteq below[root]
  BY <1>3, <1>9 DEF Covers
<1> QED BY <1>3, <1>8, <1>9, <1>10

(* A search for a key goes down its path.                                  *)
LEMMA LeafRule ==
  ASSUME TreeInv, NEW k \in Keys
  PROVE  \E leaf :
           /\ LeafOf(k) = leaf[header.RootPageID]
           /\ \A p \in AnyPage :
                leaf[p] = IF NodeAt(p) = Zeros THEN 0
                          ELSE IF IsLeaf(NodeAt(p)) THEN p
                          ELSE leaf[Route(NodeAt(p), k)]
<1> DEFINE stop == {p \in Pages0 : p = 0 \/ NodeAt(p) = Zeros \/ IsLeaf(NodeAt(p))}
           value == [p \in Pages0 |-> IF p = 0 THEN 0
                                      ELSE IF NodeAt(p) = Zeros THEN 0 ELSE p]
           next == [p \in Pages0 |-> Route(NodeAt(p), k)]
           Rule(f) == f = [p \in 0..PageLimit |->
                             IF p = 0 THEN 0
                             ELSE IF ~IsNode(p) THEN 0
                             ELSE IF IsLeaf(NodeAt(p)) THEN p
                             ELSE f[childAt(NodeAt(p), childIdx(NodeAt(p), k))]]
           leaf == CHOOSE f : Rule(f)
<1>1. /\ \A p \in Pages0 : NodeAt(p) = Zeros \/ NodeOver(NodeAt(p), owned)
      /\ owned \subseteq 1..PageLimit
  BY InvFacts DEF Pages0
<1>2. \A p \in Pages0 \ stop : next[p] \in Pages0
  <2> SUFFICES ASSUME NEW p \in Pages0, p \notin stop PROVE Route(NodeAt(p), k) \in Pages0
    OBVIOUS
  <2>1. PICK n : n = NodeAt(p) /\ NodeOver(n, owned) /\ ~IsLeaf(n)
    BY <1>1
  <2>2. childIdx(n, k) \in 1..(Len(n.keys) + 1)
    BY <2>1, NodeFacts, ChildIdxFacts
  <2>3. childAt(n, childIdx(n, k)) \in owned
    BY <2>1, <2>2, ChildAtFacts
  <2>4. PICK c : c = childAt(n, childIdx(n, k)) /\ c \in 1..PageLimit
    BY <1>1, <2>3
  <2> QED BY <2>1, <2>4, LimitAssumption DEF Route, Pages0
<1>3. PICK f : IsWalk(f, Pages0, stop, value, next)
  <2> HIDE DEF stop, value, next
  <2> QED BY <1>2, WalkRecursion
<1>4. Rule(f)
  <2>1. f = [p \in Pages0 |-> IF p \in stop THEN value[p] ELSE f[next[p]]]
    BY <1>3 DEF IsWalk
  <2>2. \A p \in Pages0 : (IF p \in stop THEN value[p] ELSE f[next[p]])
                        = (IF p = 0 THEN 0
                             ELSE IF ~IsNode(p) THEN 0
                             ELSE IF IsLeaf(NodeAt(p)) THEN p
                             ELSE f[childAt(NodeAt(p), childIdx(NodeAt(p), k))])
    BY DEF Route, IsNode
  <2> QED BY <2>1, <2>2 DEF Pages0
<1>5. Rule(leaf)
  BY <1>4
<1>6. LeafOf(k) = leaf[header.RootPageID]
  BY DEF LeafOf
<1> HIDE DEF leaf
<1>7. \A p \in AnyPage : leaf[p] = IF NodeAt(p) = Zeros THEN 0
                                   ELSE IF IsLeaf(NodeAt(p)) THEN p
                                   ELSE leaf[Route(NodeAt(p), k)]
  <2>1. \A p \in AnyPage : p \in 0..PageLimit /\ p # 0
    BY LimitAssumption DEF AnyPage
  <2> QED BY <1>5, <2>1 DEF Route, IsNode
<1> QED BY <1>6, <1>7

LEMMA LeafOnPath ==
  ASSUME TreeInv, NEW P, NEW L, Tree(Mem, P, L), NEW k \in Keys,
         P[L - 1][k] = header.RootPageID
  PROVE  LeafOf(k) = P[0][k]
<1>1. PICK leaf :
        /\ LeafOf(k) = leaf[header.RootPageID]
        /\ \A p \in AnyPage :
             leaf[p] = IF NodeAt(p) = Zeros THEN 0
                       ELSE IF IsLeaf(NodeAt(p)) THEN p
                       ELSE leaf[Route(NodeAt(p), k)]
  BY LeafRule
<1>2. L \in Nat /\ L > 0 /\ L - 1 \in Nat
  BY TreeFacts
<1>3. PICK m : m = Mem
  OBVIOUS
<1>4. ASSUME NEW j \in 0..(L - 1)
      PROVE  /\ j = 0 => leaf[P[j][k]] = P[j][k]
             /\ j # 0 => leaf[P[j][k]] = leaf[Route(m[P[j][k]], k)]
  <2>1. PICK p, n : p = P[j][k] /\ n = NodeAt(p)
    OBVIOUS
  <2>2. p \in AnyPage /\ m[p] = n /\ n # Zeros /\ (IsLeaf(n) <=> j = 0)
    BY <1>3, <2>1, OnPages
  <2> QED BY <1>1, <2>1, <2>2
<1> DEFINE T == {j \in Nat : j \in 0..(L - 1) => leaf[P[j][k]] = P[0][k]}
<1>5. 0 \in T
  <2>1. 0 \in 0..(L - 1)
    BY <1>2
  <2> QED BY <1>4, <2>1
<1>6. ASSUME NEW j \in Nat, j \in T PROVE j + 1 \in T
  <2> SUFFICES ASSUME j + 1 \in 0..(L - 1) PROVE leaf[P[j + 1][k]] = P[0][k]
    OBVIOUS
  <2>1. PICK h \in 1..L : h = j + 1 /\ h \in 0..(L - 1) /\ h - 1 = j /\ h # 0
    BY <1>2
  <2>2. j \in 0..(L - 1)
    BY <1>2
  <2>3. Route(m[P[h][k]], k) = P[j][k]
    <3>1. Leads(m, P, h, k)
      BY <1>3, <2>1 DEF Tree
    <3> QED BY <2>1, <3>1 DEF Leads
  <2>4. leaf[P[h][k]] = leaf[P[j][k]]
    BY <1>4, <2>1, <2>3
  <2> QED BY <1>6, <2>1, <2>2, <2>4
<1>7. Nat \subseteq T
  <2> HIDE DEF T
  <2> QED BY <1>5, <1>6, SetInduction
<1>8. leaf[P[L - 1][k]] = P[0][k]
  BY <1>2, <1>7
<1> QED BY <1>1, <1>8

(* The keys behind k that lie in another leaf.                             *)
NextLeaves(P, k) == {x \in Keys : x > k /\ P[0][x] # P[0][k]}

LEMMA LinkIsNext ==
  ASSUME NEW P, NEW r, NEW k \in Keys, LinkFits(r, P, k)
  PROVE  r = IF NextLeaves(P, k) = {} THEN 0 ELSE P[0][Min(NextLeaves(P, k))]
<1> DEFINE later == {x \in Keys : x > k /\ P[0][x] # P[0][k]}
<1> SUFFICES r = IF later = {} THEN 0 ELSE P[0][Min(later)]
  BY DEF NextLeaves
<1>1. later \in SUBSET Nat /\ \A x \in Keys : x \in Nat
  BY TreeAssumption
<1>2. CASE r = 0
  <2>1. \A x \in Keys : k < x => P[0][x] = P[0][k]
    BY <1>2 DEF LinkFits
  <2>2. \A x \in Keys : x > k <=> k < x
    BY <1>1
  <2>3. later = {}
    BY <2>1, <2>2
  <2> QED BY <1>2, <2>3
<1>3. CASE r # 0
  <2>1. PICK y \in Keys : /\ k < y /\ P[0][y] = r /\ r # P[0][k]
                          /\ \A x \in Keys : k < x /\ x < y => P[0][x] \in {P[0][k], r}
    BY <1>3 DEF LinkFits
  <2>2. y \in later
    BY <1>1, <2>1
  <2>3. PICK z \in later : \A x \in later : z <= x
    <3> HIDE DEF later
    <3> QED BY <1>1, <2>2, LeastNatural
  <2>4. Min(later) \in later /\ \A x \in later : Min(later) <= x
    <3> HIDE DEF later
    <3> QED BY <2>3 DEF Min
  <2>5. PICK w \in Keys : w = Min(later) /\ k < w /\ P[0][w] # P[0][k] /\ (w = y \/ w < y)
    <3>1. Min(later) \in Keys /\ Min(later) > k /\ P[0][Min(later)] # P[0][k] /\ Min(later) <= y
      BY <2>2, <2>4
    <3> HIDE DEF later
    <3>2. PICK w \in Keys : w = Min(later) /\ w > k /\ P[0][w] # P[0][k] /\ w <= y
      BY <3>1
    <3>3. k < w /\ (w = y \/ w < y)
      BY <1>1, <3>2
    <3> QED BY <3>2, <3>3
  <2>6. P[0][w] = r
    BY <2>1, <2>5
  <2> HIDE DEF later
  <2>7. r = IF later = {} THEN 0 ELSE P[0][Min(later)]
    BY <2>2, <2>5, <2>6
  <2> QED BY <2>7 DEF later
<1> QED BY <1>2, <1>3

LEMMA TidyAtRest ==
  ASSUME Keys # {}, TreeInv, MapInv, NeverKilled, TidyInv
  PROVE  NoOrphanPages /\ ChainMatchesTree
<1> SUFFICES ASSUME pc = "idle" PROVE NoOrphanPages /\ ChainMatchesTree
  BY DEF NoOrphanPages, ChainMatchesTree
<1>1. Working /\ op.kind # "open"
  BY DEF MapInv, TreeInv, PlacesOK
<1>2. PICK P, L : Tree(Mem, P, L) /\ InUse(owned, P, L)
  BY <1>1 DEF Working, SafeTree
<1>3. Tidy(owned, Mem, P, L)
  <2>1. TidyNext
    BY <1>1 DEF TidyInv, Hopeless, Overflows
  <2>2. AllWritten
    BY <1>1 DEF Working, WorkOK, AllWritten
  <2>3. NextMem = Mem
    BY <2>2, NoWork DEF NextIsMem
  <2> QED BY <1>2, <2>1, <2>3 DEF TidyNext, Tidied
<1>4. PICK root \in AnyPage : root = header.RootPageID /\ Mem[0] = Header0(root)
  BY <1>1, HeaderNow
<1>5. \A k \in Keys : P[L - 1][k] = root
  BY <1>2, <1>4, RootOnPath
<1>6. NoOrphanPages
  <2>1. PagesBelow(root) = owned
    <3>1. PICK k \in Keys : TRUE
      OBVIOUS
    <3> QED BY <1>2, <1>3, <1>5, WholeTree DEF Tidy
  <2> QED BY <1>4, <2>1 DEF NoOrphanPages
<1>7. \A k \in Keys : LeafOf(k) = P[0][k]
  BY <1>2, <1>4, <1>5, LeafOnPath
<1>8. ASSUME NEW p \in owned, IsLeaf(NodeAt(p)) PROVE \E k \in Keys : LeafOf(k) = p
  <2>1. PICK j \in 0..(L - 1), k \in Keys : P[j][k] = p
    BY <1>3 DEF Tidy, Covers
  <2>2. j = 0
    BY <1>2, <1>8, <2>1, OnPages
  <2> QED BY <1>7, <2>1, <2>2
<1>9. ASSUME NEW k \in Keys
      PROVE  LET later == {x \in Keys : x > k /\ LeafOf(x) # LeafOf(k)} IN
             NodeAt(LeafOf(k)).rightPtr = IF later = {} THEN 0 ELSE LeafOf(Min(later))
  <2> DEFINE later == NextLeaves(P, k)
  <2>1. 0 \in 0..(L - 1)
    BY <1>2, TreeFacts
  <2>2. PICK p, r : p = P[0][k] /\ r = NodeAt(p).rightPtr
    OBVIOUS
  <2>3. LinkFits(r, P, k)
    <3>1. Mem[p] = NodeAt(p)
      BY <1>2, <2>1, <2>2, OnPages
    <3>2. LinkFits(Mem[P[0][k]].rightPtr, P, k)
      BY <1>3 DEF Tidy, Linked
    <3> QED BY <2>2, <3>1, <3>2
  <2>4. r = IF later = {} THEN 0 ELSE P[0][Min(later)]
    BY <2>3, LinkIsNext
  <2>5. later = {x \in Keys : x > k /\ LeafOf(x) # LeafOf(k)}
    BY <1>7 DEF NextLeaves
  <2>6. later # {} => LeafOf(Min(later)) = P[0][Min(later)]
    <3> SUFFICES ASSUME later # {} PROVE Min(later) \in Keys
      BY <1>7
    <3>1. later \in SUBSET Nat /\ later \subseteq Keys
      BY TreeAssumption DEF NextLeaves
    <3> HIDE DEF later
    <3>2. PICK z \in later : \A x \in later : z <= x
      BY <3>1, LeastNatural
    <3>3. Min(later) \in later
      BY <3>2 DEF Min
    <3> QED BY <3>1, <3>3
  <2>7. LeafOf(k) = p
    BY <1>7, <2>2
  <2> HIDE DEF later
  <2>8. NodeAt(LeafOf(k)).rightPtr = IF later = {} THEN 0 ELSE LeafOf(Min(later))
    BY <2>2, <2>4, <2>6, <2>7
  <2> QED BY <2>5, <2>8
<1>10. ChainMatchesTree
  BY <1>8, <1>9 DEF ChainMatchesTree
<1> QED BY <1>6, <1>10

LEMMA TidyInvStep ==
  ASSUME NodeType \subseteq Body, Keys # {}, TreeInv, TreeInv', MapInv, NeverKilled, TidyInv,
         NoError', [TreeNext]_vars
  PROVE  TidyInv'
<1>1. /\ op.kind # "open" => Working
      /\ op.kind = "open" => FirstRoot
  BY DEF MapInv, FirstRoot
<1>2. CASE Step /\ op.kind = "open"
  BY <1>1, <1>2, OpenOnTidy
<1>3. CASE Step /\ op.kind # "open"
  <2>1. op'.kind # "open"
    BY <1>1, <1>3, StepMap DEF StepKeeps
  <2>2. ~Hopeless' /\ ~Overflows' => TidyNext'
    BY <1>1, <1>3, StepOnTidy
  <2> QED BY <2>1, <2>2 DEF TidyInv
<1>4. CASE Client
  <2>1. op.kind # "open"
    <3>1. pc = "idle"
      BY <1>4 DEF Client, Put, PutRejected, Get, Delete, KeysScan, Depth, Call
    <3> QED BY <3>1 DEF TreeInv, PlacesOK
  <2> QED BY <1>1, <1>4, <2>1, ClientOnTidy
<1>5. CASE UNCHANGED vars
  <2>1. UNCHANGED <<pagerVars, pc, op, cur, stack, todo, split, before>>
    BY <1>5 DEF vars, treeVars
  <2>2. owned' = owned
    BY <2>1 DEF pagerVars
  <2>3. CASE op.kind = "open"
    BY <2>1, <2>2, <2>3 DEF TidyInv
  <2>4. CASE op.kind # "open"
    <3>1. NextSame
      BY <1>1, <2>1, <2>4, SameWork
    <3>2. Hopeless' = Hopeless /\ Overflows' = Overflows
      BY <2>1 DEF Hopeless, Overflows
    <3>3. ~Hopeless' /\ ~Overflows' => TidyNext'
      BY <2>4, <3>1, <3>2, SameTidy DEF TidyInv
    <3> QED BY <2>1, <2>4, <3>3 DEF TidyInv
  <2> QED BY <2>3, <2>4
<1> QED BY <1>2, <1>3, <1>4, <1>5 DEF TreeNext

LEMMA TidyInvInit ==
  ASSUME TreeInit
  PROVE  TidyInv
<1>1. op.kind = "open" /\ pc = "newroot" /\ owned = {}
  BY DEF TreeInit, PagerInit, OpenOp
<1> QED BY <1>1 DEF TidyInv

(* While no operation has failed, the tree between two operations is tidy: the
   pages in use are its own, and its leaves are linked in the order of their
   keys (btree.go: Put, insertInternal, splitLeaf, splitInternal). TidyInv says
   so of the tree that the pending writes lead to, at every moment.         *)
THEOREM TidyInvariant ==
  ASSUME NodeType \subseteq Body, Keys # {}
  PROVE  TreeSpec /\ []NoError => [](NoOrphanPages /\ ChainMatchesTree)
<1>1. TreeInit => TidyInv
  BY TidyInvInit
<1>2. TreeInv /\ TreeInv' /\ MapInv /\ NeverKilled /\ TidyInv /\ NoError' /\ [TreeNext]_vars
        => TidyInv'
  BY TidyInvStep
<1>3. TreeInv /\ MapInv /\ NeverKilled /\ TidyInv => NoOrphanPages /\ ChainMatchesTree
  BY TidyAtRest
<1>4. TreeSpec => [][TreeNext]_vars /\ TreeInit
  BY DEF TreeSpec
<1>5. TreeSpec => [](TreeInv /\ MapInv)
  BY MapInvariant, SpecsMap, PTL
<1>6. TreeSpec => []NeverKilled
  <2>1. TreeInit => NeverKilled
    BY TreeAssumption DEF TreeInit, NeverKilled
  <2>2. TreeInv /\ NeverKilled /\ [TreeNext]_vars => NeverKilled'
    BY StaysAlive
  <2> QED BY <1>4, <1>5, <2>1, <2>2, PTL
<1> QED BY <1>1, <1>2, <1>3, <1>4, <1>5, <1>6, PTL

(* While no operation has failed, the pages that the pager has handed out are
   exactly those of the tree: no split leaves behind a page that is not linked,
   nor drops a subtree (btree.go: splitLeaf, splitInternal, insertInternal, Put;
   pager.go: AllocatePage).                                                 *)
THEOREM NoOrphanPagesEver ==
  ASSUME NodeType \subseteq Body, Keys # {}
  PROVE  TreeSpec /\ []NoError => []NoOrphanPages
BY TidyInvariant, PTL

(* While no operation has failed, the links between the leaves, which Keys
   follows, lead through all the leaves that searches end in, in the order of
   their keys: Keys and Get see the same tree (btree.go: splitLeaf, Keys, search). *)
THEOREM ChainMatchesTreeEver ==
  ASSUME NodeType \subseteq Body, Keys # {}
  PROVE  TreeSpec /\ []NoError => []ChainMatchesTree
BY TidyInvariant, PTL

-----------------------------------------------------------------------------
(* Keys in ascending order.                                                *)

LEMMA AscendingSelf ==
  ASSUME NEW n \in Nat, NEW f \in [1..n -> 1..n], \A i, j \in 1..n : i < j => f[i] < f[j],
         NEW i \in 1..n
  PROVE  f[i] = i
<1> DEFINE T == {a \in Nat : a \in 1..n => a <= f[a]}
           U == {d \in Nat : d < n => f[n - d] <= n - d}
<1>0. \A a \in 1..n : f[a] \in 1..n
  OBVIOUS
<1>1. Nat \subseteq T
  <2>1. 0 \in T
    OBVIOUS
  <2>2. ASSUME NEW a \in Nat, a \in T PROVE a + 1 \in T
    <3> SUFFICES ASSUME a + 1 \in 1..n PROVE a + 1 <= f[a + 1]
      OBVIOUS
    <3>1. CASE a = 0
      BY <1>0, <3>1
    <3>2. CASE a # 0
      <4>1. a \in 1..n /\ a < a + 1
        BY <3>2
      <4>2. f[a] < f[a + 1] /\ a <= f[a] /\ f[a] \in 1..n /\ f[a + 1] \in 1..n
        BY <1>0, <2>2, <4>1
      <4> QED BY <4>2
    <3> QED BY <3>1, <3>2
  <2> HIDE DEF T
  <2> QED BY <2>1, <2>2, SetInduction
<1>2. Nat \subseteq U
  <2>1. 0 \in U
    BY <1>0
  <2>2. ASSUME NEW d \in Nat, d \in U PROVE d + 1 \in U
    <3> SUFFICES ASSUME d + 1 < n PROVE f[n - (d + 1)] <= n - (d + 1)
      OBVIOUS
    <3>1. PICK a \in 1..n : a = n - (d + 1) /\ a + 1 = n - d /\ a + 1 \in 1..n
      OBVIOUS
    <3>2. f[a] < f[a + 1] /\ f[a + 1] <= a + 1 /\ f[a] \in 1..n /\ f[a + 1] \in 1..n
      BY <1>0, <2>2, <3>1
    <3> QED BY <3>1, <3>2
  <2> HIDE DEF U
  <2> QED BY <2>1, <2>2, SetInduction
<1>3. i <= f[i]
  BY <1>1
<1>4. PICK d \in Nat : d = n - i /\ d < n /\ n - d = i
  OBVIOUS
<1>5. f[i] <= i
  BY <1>2, <1>4
<1> QED BY <1>0, <1>3, <1>5

(* A set of numbers has one enumeration in ascending order.                *)
InOrder(s, n, D) == s \in [1..n -> D] /\ \A i, j \in 1..n : i < j => s[i] < s[j]

Onto(s, n, D) == \A d \in D : \E i \in 1..n : s[i] = d

LEMMA OneOrder ==
  ASSUME NEW D, D \subseteq Nat, NEW n \in Nat, NEW t, InOrder(t, n, D), Onto(t, n, D),
         NEW s, InOrder(s, n, D)
  PROVE  s = t
<1>. USE DEF InOrder, Onto
<1>1. PICK f : f = [i \in 1..n |-> CHOOSE a \in 1..n : t[a] = s[i]]
  OBVIOUS
<1>2. \A i \in 1..n : f[i] \in 1..n /\ t[f[i]] = s[i]
  BY <1>1
<1>3. \A i \in 1..n : s[i] \in Nat /\ t[i] \in Nat
  OBVIOUS
<1>4. ASSUME NEW i \in 1..n, NEW j \in 1..n, i < j PROVE f[i] < f[j]
  <2>1. s[i] < s[j]
    BY <1>4
  <2>2. PICK a \in 1..n, b \in 1..n : a = f[i] /\ b = f[j] /\ t[a] < t[b]
    BY <1>2, <2>1
  <2>3. a < b \/ a = b \/ b < a
    OBVIOUS
  <2>4. t[a] \in Nat /\ t[b] \in Nat
    BY <1>3
  <2>5. ~(t[b] < t[a]) /\ t[a] # t[b]
    <3> PICK x \in Nat, y \in Nat : x = t[a] /\ y = t[b] /\ x < y
      BY <2>2, <2>4
    <3> QED OBVIOUS
  <2> QED BY <2>2, <2>3, <2>5
<1>5. f \in [1..n -> 1..n]
  BY <1>1, <1>2
<1>6. \A i \in 1..n : f[i] = i
  BY <1>4, <1>5, AscendingSelf
<1>7. \A i \in 1..n : s[i] = t[i]
  BY <1>2, <1>6
<1> QED BY <1>7

(* What KVMap says the list of the keys is.                                *)
Sorted(D) ==
  CHOOSE s \in [1..Cardinality(D) -> D] : \A i, j \in DOMAIN s : i < j => s[i] < s[j]

LEMMA SortedIs ==
  ASSUME NEW D, D \subseteq Nat, NEW t \in Seq(D), Ascending(t),
         \A d \in D : \E i \in DOMAIN t : t[i] = d
  PROVE  t = Sorted(D)
<1>1. PICK n \in Nat : n = Len(t) /\ DOMAIN t = 1..n
  OBVIOUS
<1>2. t \in [1..n -> D] /\ \A i \in 1..n : t[i] \in Nat
  <2>1. t \in [1..Len(t) -> D]
    OBVIOUS
  <2> QED BY <1>1, <2>1
<1>3. \A i, j \in 1..n : i < j => t[i] < t[j]
  BY <1>1 DEF Ascending
<1>4. Cardinality(D) = n
  <2>1. \A i, j \in 1..n : t[i] = t[j] => i = j
    <3> SUFFICES ASSUME NEW i \in 1..n, NEW j \in 1..n, i # j PROVE t[i] # t[j]
      OBVIOUS
    <3>1. i < j \/ j < i
      OBVIOUS
    <3> QED BY <1>2, <1>3, <3>1
  <2>2. t \in Bijection(1..n, D)
    BY <1>1, <1>2, <2>1 DEF Bijection, Injection, Surjection, IsInjective
  <2>3. ExistsBijection(1..n, D)
    BY <2>2 DEF ExistsBijection
  <2> QED BY <2>3, FS_CountingElements
<1> DEFINE R(s) == \A i, j \in DOMAIN s : i < j => s[i] < s[j]
<1>5. \A s \in [1..n -> D] : R(s) => s = t
  <2> SUFFICES ASSUME NEW s \in [1..n -> D], R(s) PROVE s = t
    OBVIOUS
  <2>1. DOMAIN s = 1..n
    OBVIOUS
  <2>2. \A i, j \in 1..n : i < j => s[i] < s[j]
    BY <2>1
  <2>3. \A d \in D : \E i \in 1..n : t[i] = d
    BY <1>1
  <2>4. InOrder(t, n, D) /\ Onto(t, n, D) /\ InOrder(s, n, D)
    BY <1>2, <1>3, <2>2, <2>3 DEF InOrder, Onto
  <2> HIDE DEF R
  <2> QED BY <2>4, OneOrder
<1>6. R(t)
  BY <1>1, <1>3
<1> HIDE DEF R
<1>7. t = CHOOSE s \in [1..n -> D] : R(s)
  BY <1>2, <1>5, <1>6
<1> QED BY <1>4, <1>7 DEF Sorted, R

-----------------------------------------------------------------------------
(* A scan goes by the leaves in order, and collects the keys in them.       *)

(* The sequence t is s, of length n, with u after it.                      *)
Concat(t, s, u, n) ==
  /\ t \in Seq(Keys) /\ n \in Nat /\ DOMAIN s = 1..n
  /\ DOMAIN t \subseteq Nat /\ DOMAIN u \subseteq Nat \ {0}
  /\ \A i \in DOMAIN t : \/ i \in DOMAIN s /\ t[i] = s[i]
                         \/ \E j \in DOMAIN u : i = j + n /\ t[i] = u[j]
  /\ \A i \in DOMAIN s : \E a \in DOMAIN t : t[a] = s[i]
  /\ \A j \in DOMAIN u : \E a \in DOMAIN t : t[a] = u[j]

LEMMA Concatenated ==
  ASSUME NEW s \in Seq(Keys), NEW u \in Seq(Keys)
  PROVE  Concat(s \o u, s, u, Len(s))
<1>0. Len(s) \in Nat /\ Len(u) \in Nat
  OBVIOUS
<1> PICK n \in Nat, h \in Nat : n = Len(s) /\ h = Len(u)
  BY <1>0
<1> PICK t : t = s \o u
  OBVIOUS
<1>2. /\ DOMAIN s = 1..n /\ DOMAIN u = 1..h
      /\ t \in Seq(Keys) /\ Len(t) = n + h /\ DOMAIN t = 1..(n + h)
      /\ \A i \in 1..(n + h) : t[i] = IF i <= n THEN s[i] ELSE u[i - n]
  OBVIOUS
<1>3. \A i \in 1..(n + h) : \/ i \in 1..n /\ t[i] = s[i]
                            \/ \E j \in 1..h : i = j + n /\ t[i] = u[j]
  <2> SUFFICES ASSUME NEW i \in 1..(n + h)
               PROVE  \/ i \in 1..n /\ t[i] = s[i]
                      \/ \E j \in 1..h : i = j + n /\ t[i] = u[j]
    OBVIOUS
  <2>1. CASE i <= n
    BY <1>2, <2>1
  <2>2. CASE ~(i <= n)
    <3>1. i - n \in 1..h /\ i = (i - n) + n /\ t[i] = u[i - n]
      BY <1>2, <2>2
    <3> QED BY <3>1
  <2> QED BY <2>1, <2>2
<1>4. \A i \in 1..n : \E a \in 1..(n + h) : t[a] = s[i]
  BY <1>2
<1>5. \A j \in 1..h : \E a \in 1..(n + h) : t[a] = u[j]
  <2> SUFFICES ASSUME NEW j \in 1..h PROVE \E a \in 1..(n + h) : t[a] = u[j]
    OBVIOUS
  <2>1. j + n \in 1..(n + h) /\ t[j + n] = u[j]
    BY <1>2
  <2> QED BY <2>1
<1>6. Concat(t, s, u, n)
  <2>1. 1..(n + h) \subseteq Nat /\ 1..h \subseteq Nat \ {0}
    OBVIOUS
  <2>2. PICK D, E, F : D = 1..n /\ E = 1..h /\ F = 1..(n + h)
    OBVIOUS
  <2>3. DOMAIN s = D /\ DOMAIN u = E /\ DOMAIN t = F
    BY <1>2, <2>2
  <2>4. \A i \in F : (i \in D /\ t[i] = s[i]) \/ \E j \in E : i = j + n /\ t[i] = u[j]
    BY <1>3, <2>2
  <2>5. \A i \in D : \E a \in F : t[a] = s[i]
    BY <1>4, <2>2
  <2>6. \A j \in E : \E a \in F : t[a] = u[j]
    BY <1>5, <2>2
  <2>7. t \in Seq(Keys) /\ n \in Nat /\ D = 1..n /\ F \subseteq Nat /\ E \subseteq Nat \ {0}
    BY <1>2, <2>1, <2>2
  <2> QED BY <2>3, <2>4, <2>5, <2>6, <2>7, Zenon DEF Concat
<1> QED BY <1>6, Zenon

LEMMA ConcatAscending ==
  ASSUME NEW s, NEW u, NEW t, NEW n, Concat(t, s, u, n),
         Ascending(s), Ascending(u), \A i \in DOMAIN s : \A j \in DOMAIN u : s[i] < u[j]
  PROVE  Ascending(t)
<1>. USE DEF Concat
<1> SUFFICES ASSUME NEW a \in DOMAIN t, NEW b \in DOMAIN t, a < b PROVE t[a] < t[b]
  BY DEF Ascending
<1>1. \/ a \in DOMAIN s /\ t[a] = s[a]
      \/ \E j \in DOMAIN u : a = j + n /\ t[a] = u[j]
  OBVIOUS
<1>2. \/ b \in DOMAIN s /\ t[b] = s[b]
      \/ \E j \in DOMAIN u : b = j + n /\ t[b] = u[j]
  OBVIOUS
<1>3. CASE a \in DOMAIN s /\ t[a] = s[a]
  BY <1>2, <1>3 DEF Ascending
<1>4. CASE \E j \in DOMAIN u : a = j + n /\ t[a] = u[j]
  <2>1. PICK j \in DOMAIN u : a = j + n /\ t[a] = u[j] /\ j \in Nat /\ j > 0
    BY <1>4
  <2>2. b \notin DOMAIN s
    BY <2>1
  <2>3. PICK i \in DOMAIN u : b = i + n /\ t[b] = u[i] /\ i \in Nat
    BY <1>2, <2>2
  <2>4. j < i
    BY <2>1, <2>3
  <2> QED BY <2>1, <2>3, <2>4 DEF Ascending
<1> QED BY <1>1, <1>3, <1>4

Found(m, P, k) == Finds(m, P, k) # None

(* The list s is that of the keys found in the leaves before the one of z.  *)
Scanned(s, m, P, z) ==
  /\ s \in Seq(Keys) /\ Ascending(s)
  /\ \A i \in DOMAIN s : s[i] < z /\ P[0][s[i]] # P[0][z] /\ Found(m, P, s[i])
  /\ \A k \in Keys : k < z /\ P[0][k] # P[0][z] /\ Found(m, P, k) => \E i \in DOMAIN s : s[i] = k

(* It is that of all keys found.                                           *)
ListsAll(s, m, P) ==
  /\ s \in Seq(Keys) /\ Ascending(s)
  /\ \A i \in DOMAIN s : Found(m, P, s[i])
  /\ \A k \in Keys : Found(m, P, k) => \E i \in DOMAIN s : s[i] = k

(* The keys u are those found in the leaf of z.                            *)
KeysHere(u, m, P, z) ==
  /\ u \in Seq(Keys) /\ Ascending(u)
  /\ \A j \in DOMAIN u : u[j] \in Keys /\ P[0][u[j]] = P[0][z] /\ Found(m, P, u[j])
  /\ \A k \in Keys : P[0][k] = P[0][z] /\ Found(m, P, k) => \E j \in DOMAIN u : u[j] = k

LEMMA LeafKeys ==
  ASSUME NEW m, NEW P, NEW L, Tree(m, P, L), NEW z \in Keys
  PROVE  KeysHere(m[P[0][z]].keys, m, P, z)
<1>1. PICK n, p : p = P[0][z] /\ n = m[p]
  OBVIOUS
<1>2. PageHas(n, P, 0, p)
  <2>1. 0 \in 0..L
    BY TreeFacts
  <2> QED BY <1>1, <2>1, PageFacts
<1>3. /\ NodeOver(n, AnyPage) /\ n.keys \in Seq(Keys) /\ IsLeaf(n) /\ Ascending(n.keys)
      /\ \A i \in DOMAIN n.keys : n.keys[i] \in Keys /\ P[0][n.keys[i]] = p
  BY <1>2 DEF PageHas
<1>4. \A k \in Keys : P[0][k] = p => Finds(m, P, k) = ValueIn(n, k)
  BY <1>1 DEF Finds
<1>5. \A k : /\ HasKey(n, k) => ValueIn(n, k) # None
             /\ ~HasKey(n, k) => ValueIn(n, k) = None
  BY <1>3, FoundValue
<1>6. \A k : HasKey(n, k) <=> \E i \in DOMAIN n.keys : n.keys[i] = k
  BY DEF HasKey, matches
<1>7. \A k \in Keys : P[0][k] = p => (Found(m, P, k) <=> \E i \in DOMAIN n.keys : n.keys[i] = k)
  BY <1>4, <1>5, <1>6 DEF Found
<1>8. KeysHere(n.keys, m, P, z)
  BY <1>1, <1>3, <1>7 DEF KeysHere
<1> QED BY <1>1, <1>8

(* They are above those in the leaves before.                              *)
LEMMA ScannedBelow ==
  ASSUME NEW m, NEW P, NEW s, NEW u, NEW z \in Keys, Convex(P), Scanned(s, m, P, z),
         KeysHere(u, m, P, z)
  PROVE  \A i \in DOMAIN s : \A j \in DOMAIN u : s[i] < u[j]
<1> SUFFICES ASSUME NEW i \in DOMAIN s, NEW j \in DOMAIN u PROVE s[i] < u[j]
  OBVIOUS
<1>1. PICK a \in Keys, b \in Keys : a = s[i] /\ b = u[j]
  BY DEF Scanned, KeysHere
<1>2. a < z /\ P[0][a] # P[0][z] /\ P[0][b] = P[0][z] /\ z \in Nat /\ a \in Nat /\ b \in Nat
  BY <1>1, TreeAssumption DEF Scanned, KeysHere
<1>3. ~(b < a)
  BY <1>2 DEF Convex
<1>4. a < b
  BY <1>2, <1>3
<1> QED BY <1>1, <1>4

LEMMA ScansOn ==
  ASSUME NEW m, NEW P, NEW s, NEW u, NEW t, NEW z \in Keys, Convex(P), Scanned(s, m, P, z),
         KeysHere(u, m, P, z), t = s \o u, NEW y \in Keys, z < y, P[0][y] # P[0][z],
         \A x \in Keys : z < x /\ x < y => P[0][x] \in {P[0][z], P[0][y]}
  PROVE  Scanned(t, m, P, y)
<1>1. Ascending(s) /\ Ascending(u) /\ Concat(t, s, u, Len(s))
  BY Concatenated DEF Scanned, KeysHere
<1>2. t \in Seq(Keys) /\ Ascending(t)
  <2>1. \A i \in DOMAIN s : \A j \in DOMAIN u : s[i] < u[j]
    BY ScannedBelow
  <2>2. Ascending(t)
    BY <1>1, <2>1, ConcatAscending
  <2> QED BY <1>1, <2>2 DEF Concat
<1>3. \A k \in Keys : k \in Nat
  BY TreeAssumption
<1>4. ASSUME NEW k \in Keys, k < z, P[0][k] # P[0][z] PROVE k < y /\ P[0][k] # P[0][y]
  <2>1. k < y
    BY <1>3, <1>4
  <2>2. P[0][k] # P[0][y]
    BY <1>4 DEF Convex
  <2> QED BY <2>1, <2>2
<1>5. ASSUME NEW k \in Keys, P[0][k] = P[0][z] PROVE k < y /\ P[0][k] # P[0][y]
  <2>1. ~(y < k) /\ y # k
    BY <1>5 DEF Convex
  <2> QED BY <1>3, <1>5, <2>1
<1>6. ASSUME NEW i \in DOMAIN t
      PROVE  t[i] < y /\ P[0][t[i]] # P[0][y] /\ Found(m, P, t[i])
  <2>1. (\E j \in DOMAIN s : t[i] = s[j]) \/ (\E j \in DOMAIN u : t[i] = u[j])
    BY <1>1 DEF Concat
  <2>2. CASE \E j \in DOMAIN s : t[i] = s[j]
    <3>1. PICK k \in Keys : k = t[i] /\ k < z /\ P[0][k] # P[0][z] /\ Found(m, P, k)
      BY <1>2, <2>2 DEF Scanned
    <3> QED BY <1>4, <3>1
  <2>3. CASE \E j \in DOMAIN u : t[i] = u[j]
    <3>1. PICK k \in Keys : k = t[i] /\ P[0][k] = P[0][z] /\ Found(m, P, k)
      BY <1>2, <2>3 DEF KeysHere
    <3> QED BY <1>5, <3>1
  <2> QED BY <2>1, <2>2, <2>3
<1>7. ASSUME NEW k \in Keys, k < y, P[0][k] # P[0][y], Found(m, P, k)
      PROVE  \E i \in DOMAIN t : t[i] = k
  <2>1. CASE P[0][k] = P[0][z]
    BY <1>1, <1>7, <2>1 DEF KeysHere, Concat
  <2>2. CASE P[0][k] # P[0][z]
    <3>1. ~(z < k)
      BY <1>7, <2>2
    <3>2. k < z
      BY <1>3, <2>2, <3>1
    <3>3. PICK i \in DOMAIN s : s[i] = k
      BY <1>7, <2>2, <3>2 DEF Scanned
    <3> QED BY <1>1, <3>3 DEF Concat
  <2> QED BY <2>1, <2>2
<1> QED BY <1>2, <1>6, <1>7 DEF Scanned

LEMMA ScansAll ==
  ASSUME NEW m, NEW P, NEW s, NEW u, NEW t, NEW z \in Keys, Convex(P), Scanned(s, m, P, z),
         KeysHere(u, m, P, z), t = s \o u, \A x \in Keys : z < x => P[0][x] = P[0][z]
  PROVE  ListsAll(t, m, P)
<1>1. Ascending(s) /\ Ascending(u) /\ Concat(t, s, u, Len(s))
  BY Concatenated DEF Scanned, KeysHere
<1>2. t \in Seq(Keys) /\ Ascending(t)
  <2>1. \A i \in DOMAIN s : \A j \in DOMAIN u : s[i] < u[j]
    BY ScannedBelow
  <2>2. Ascending(t)
    BY <1>1, <2>1, ConcatAscending
  <2> QED BY <1>1, <2>2 DEF Concat
<1>3. \A i \in DOMAIN t : Found(m, P, t[i])
  <2> SUFFICES ASSUME NEW i \in DOMAIN t PROVE Found(m, P, t[i])
    OBVIOUS
  <2>1. (\E j \in DOMAIN s : t[i] = s[j]) \/ (\E j \in DOMAIN u : t[i] = u[j])
    BY <1>1 DEF Concat
  <2> QED BY <2>1 DEF Scanned, KeysHere
<1>4. ASSUME NEW k \in Keys, Found(m, P, k) PROVE \E i \in DOMAIN t : t[i] = k
  <2>1. CASE P[0][k] = P[0][z]
    BY <1>1, <1>4, <2>1 DEF KeysHere, Concat
  <2>2. CASE P[0][k] # P[0][z]
    <3>1. ~(z < k) /\ k \in Nat /\ z \in Nat
      BY <2>2, TreeAssumption
    <3>2. k < z
      BY <2>2, <3>1
    <3>3. PICK i \in DOMAIN s : s[i] = k
      BY <1>4, <2>2, <3>2 DEF Scanned
    <3> QED BY <1>1, <3>3 DEF Concat
  <2> QED BY <2>1, <2>2
<1> QED BY <1>2, <1>3, <1>4 DEF ListsAll

-----------------------------------------------------------------------------
(* What a client sees, as the map that KVMap describes.                    *)

IsDict(d) ==
  /\ d = [k \in DOMAIN d |-> d[k]]
  /\ DOMAIN d \subseteq Keys
  /\ \A k \in DOMAIN d : d[k] # None

(* The map that has the value g[k] for each key k, or none.                *)
MapOf(g) == [k \in {x \in Keys : g[x] # None} |-> g[k]]

LEMMA MapOfIsDict ==
  ASSUME NEW g
  PROVE  IsDict(MapOf(g))
BY DEF MapOf, IsDict

LEMMA MapIs ==
  ASSUME NEW g, NEW d, IsDict(d),
         \A k \in Keys : g[k] = IF k \in DOMAIN d THEN d[k] ELSE None
  PROVE  MapOf(g) = d
<1>1. {x \in Keys : g[x] # None} = DOMAIN d
  BY DEF IsDict
<1>2. \A k \in DOMAIN d : g[k] = d[k]
  BY DEF IsDict
<1>3. MapOf(g) = [k \in DOMAIN d |-> d[k]]
  BY <1>1, <1>2 DEF MapOf
<1> QED BY <1>3 DEF IsDict

LEMMA PutDict ==
  ASSUME NEW d, IsDict(d), NEW k \in Keys, NEW v, v # None
  PROVE  IsDict([j \in DOMAIN d \cup {k} |-> IF j = k THEN v ELSE d[j]])
BY DEF IsDict

LEMMA DeleteDict ==
  ASSUME NEW d, IsDict(d), NEW k
  PROVE  IsDict([j \in DOMAIN d \ {k} |-> d[j]])
BY DEF IsDict

Lookups == [k \in Keys |-> Lookup(k)]

TreeMapSeen == TreeMap = MapOf(Lookups)

LEMMA TreeMapNow == TreeMapSeen
<1>1. \A k \in Keys : Lookups[k] = Lookup(k)
  BY DEF Lookups
<1>2. {x \in Keys : Lookups[x] # None} = {x \in Keys : Lookup(x) # None}
  BY <1>1
<1>3. \A k \in {x \in Keys : Lookup(x) # None} : Lookups[k] = Lookup(k)
  BY <1>1
<1> QED BY <1>2, <1>3 DEF TreeMapSeen, TreeMap, MapOf

LEMMA TreeMapNext == TreeMapSeen'
BY TreeMapNow, PTL

(* The map is d if each search finds what d has.                           *)
LEMMA TreeMapIs ==
  ASSUME NEW d, IsDict(d), \A k \in Keys : Lookup(k)' = IF k \in DOMAIN d THEN d[k] ELSE None
  PROVE  TreeMap' = d
<1>1. PICK g : g = Lookups'
  OBVIOUS
<1>2. \A k \in Keys : g[k] = Lookup(k)'
  BY <1>1 DEF Lookups
<1>3. MapOf(g) = d
  BY <1>2, MapIs
<1> QED BY <1>1, <1>3, TreeMapNext DEF TreeMapSeen

LEMMA TreeMapKept ==
  ASSUME \A k \in Keys : Lookup(k)' = Lookup(k)
  PROVE  TreeMap' = TreeMap
<1>1. Lookups' = Lookups
  BY DEF Lookups
<1> QED BY <1>1, TreeMapNow, TreeMapNext DEF TreeMapSeen

(* The operation in progress, and the map it began with.                   *)
OpIs ==
  /\ op = [kind |-> op.kind, key |-> op.key, value |-> op.value]
  /\ op.kind = "open" => op = OpenOp /\ DOMAIN before.dict = {}
  /\ op.kind = "put" => Acceptable(op.key, op.value)
  /\ op.kind \in {"get", "delete"} => op.value = None
  /\ op.kind \in {"keys", "depth"} => op.key = None /\ op.value = None

(* A scan goes down by the smallest key, and then by the leaves in order.  *)
OnWay(m, P, L, z, j) ==
  /\ Tree(m, P, L) /\ j \in 0..(L - 1) /\ z \in Keys /\ \A x \in Keys : z <= x
  /\ cur = P[j][z]

InChain(m, P, L, z) ==
  Tree(m, P, L) /\ z \in Keys /\ cur = P[0][z] /\ Scanned(acc, m, P, z)

ScanIs ==
  /\ pc # "scan" => acc = <<>>
  /\ pc = "visit" /\ op.kind = "keys" => \E P, L, z, j : OnWay(Mem, P, L, z, j)
  /\ pc = "scan" => \E P, L, z : InChain(Mem, P, L, z)

(* Only a key that was there is deleted.                                   *)
DeleteIs == op.kind = "delete" /\ pc \in Later => op.key \in DOMAIN before.dict

KVInv == OpIs /\ IsDict(before.dict) /\ ScanIs /\ DeleteIs

LEMMA KVInvInit ==
  ASSUME TreeInit
  PROVE  KVInv
<1>1. /\ op = OpenOp /\ pc = "newroot" /\ before = Nothing /\ acc = <<>>
  BY DEF TreeInit
<1>2. OpIs
  BY <1>1 DEF OpIs, OpenOp, Nothing
<1>3. IsDict(before.dict)
  BY <1>1 DEF IsDict, Nothing
<1> QED BY <1>1, <1>2, <1>3 DEF KVInv, ScanIs, DeleteIs, OpenOp

(* An operation that has returned.                                         *)
LEMMA KVInvEnd ==
  ASSUME NEW out, Finish(out)
  PROVE  KVInv'
<1>1. pc' = "idle" /\ op' = NoOp /\ before' = Nothing /\ acc' = <<>>
  BY DEF Finish
<1>2. OpIs'
  BY <1>1 DEF OpIs, NoOp
<1>3. IsDict(before'.dict)
  BY <1>1 DEF IsDict, Nothing
<1> QED BY <1>1, <1>2, <1>3 DEF KVInv, ScanIs, DeleteIs, NoOp

(* One that goes on, and is not a scan.                                    *)
LEMMA KVInvOn ==
  ASSUME KVInv, UNCHANGED <<op, acc, before>>, pc' # "scan", pc # "scan",
         pc' = "visit" => op.kind # "keys",
         op.kind = "delete" /\ pc' \in Later => pc \in Later \/ op.key \in DOMAIN before.dict
  PROVE  KVInv'
<1>1. OpIs'
  BY DEF KVInv, OpIs
<1> QED BY <1>1 DEF KVInv, ScanIs, DeleteIs

LEMMA CallOnMap ==
  ASSUME Keys # {}, TreeInv, Working, KVInv, NEW kind, NEW k, NEW v, Call(kind, k, v),
         kind \in {"put", "get", "delete", "keys", "depth"},
         kind = "put" => Acceptable(k, v),
         kind \in {"get", "delete", "keys", "depth"} => v = None,
         kind \in {"keys", "depth"} => k = None
  PROVE  KVInv'
<1>1. /\ pc = "idle" /\ pc' = "visit" /\ op' = [kind |-> kind, key |-> k, value |-> v]
      /\ cur' = header.RootPageID /\ before'.dict = TreeMap
      /\ UNCHANGED pagerVars /\ acc' = acc
  BY DEF Call
<1>2. OpIs'
  BY <1>1 DEF OpIs
<1>3. IsDict(before'.dict)
  BY <1>1, TreeMapNow, MapOfIsDict DEF TreeMapSeen
<1>4. acc' = <<>>
  BY <1>1 DEF KVInv, ScanIs
<1>5. \E P, L, z, j : OnWay(Mem, P, L, z, j)'
  <2>1. PICK P, L : Tree(Mem, P, L)
    BY DEF Working, SafeTree
  <2>2. PICK m, root : m = Mem /\ root = header.RootPageID
    OBVIOUS
  <2>3. op.kind # "open"
    BY <1>1, InvFacts DEF PlacesOK
  <2>4. root \in AnyPage /\ m[0] = Header0(root)
    BY <1>1, <2>2, <2>3, HeaderNow
  <2>5. PICK z \in Keys : \A x \in Keys : z <= x
    BY LeastNatural, TreeAssumption
  <2>6. L \in Nat /\ L > 0 /\ L - 1 \in 0..(L - 1)
    BY <2>1, TreeFacts
  <2>7. P[L - 1][z] = root
    BY <2>1, <2>2, <2>4, RootOnPath
  <2>8. Mem' = Mem
    BY <1>1, SamePages, NodesKept DEF TreeInv, PagesInv
  <2>9. PICK j : j = L - 1
    OBVIOUS
  <2>10. OnWay(Mem, P, L, z, j)'
    BY <1>1, <2>1, <2>2, <2>5, <2>6, <2>7, <2>8, <2>9 DEF OnWay
  <2> QED BY <2>10
<1>6. ScanIs'
  BY <1>1, <1>4, <1>5 DEF ScanIs
<1> QED BY <1>1, <1>2, <1>3, <1>6 DEF KVInv, DeleteIs, Later

(* The smallest key is always on the way through the first child.          *)
LEMMA LeftmostWay ==
  ASSUME NEW m, NEW P, NEW L, Tree(m, P, L), NEW j \in 1..L, NEW z \in Keys,
         \A x \in Keys : z <= x
  PROVE  childAt(m[P[j][z]], 1) = P[j - 1][z]
<1>1. FirstTaken(m, P, j, z) /\ Leads(m, P, j, z) /\ j \in 0..L
  BY TreeFacts DEF Tree
<1>2. PICK n : n = m[P[j][z]]
  OBVIOUS
<1>3. n.keys \in Seq(Keys)
  BY <1>1, <1>2, PageFacts DEF PageHas
<1>4. PICK y \in Keys : childIdx(n, y) = 1
  BY <1>1, <1>2 DEF FirstTaken, Slot
<1>5. IsSlot(n.keys, z, 1)
  <2>1. 1 <= Len(n.keys) => y < n.keys[1]
    BY <1>3, <1>4, ChildIdxFacts
  <2>2. Len(n.keys) \in Nat /\ z \in Nat /\ y \in Nat /\ z <= y
    BY <1>3, TreeAssumption
  <2>3. 1 <= Len(n.keys) => n.keys[1] \in Nat
    BY <1>3, KeysAreNumbers, TreeAssumption
  <2>4. 1 \in 1..(Len(n.keys) + 1) /\ 1..(1 - 1) = {}
    BY <2>2
  <2>5. 1 <= Len(n.keys) => z < n.keys[1]
    BY <2>1, <2>2, <2>3
  <2> QED BY <2>4, <2>5 DEF IsSlot
<1>6. childIdx(n, z) = 1
  BY <1>3, <1>5, SlotIs
<1> QED BY <1>1, <1>2, <1>6 DEF Leads, Route

LEMMA DescendOnMap ==
  ASSUME TreeInv, KVInv, Descend
  PROVE  KVInv'
<1>0. PICK n : n = NodeAt(cur)
  OBVIOUS
<1>1. /\ pc = "visit" /\ pc' = "visit" /\ UNCHANGED <<op, acc, before>> /\ ReadPage(cur)
      /\ IsNode(cur) /\ ~IsLeaf(n)
      /\ op.kind = "keys" => cur' = childAt(n, 1)
  BY <1>0 DEF Descend
<1>2. PagesInv /\ cur \in owned /\ owned \subseteq 1..PageLimit
  BY <1>1, NodeRead, InvFacts
<1>3. Mem' = Mem
  BY <1>1, <1>2, ReadEffect, NodesKept DEF PagesUnchanged
<1>4. CASE op.kind # "keys"
  BY <1>1, <1>4, KVInvOn DEF Later
<1>5. CASE op.kind = "keys"
  <2>1. PICK P, L, z, j : OnWay(Mem, P, L, z, j)
    BY <1>1, <1>5 DEF KVInv, ScanIs
  <2>2. PICK m : m = Mem
    OBVIOUS
  <2>3. /\ Tree(m, P, L) /\ j \in 0..(L - 1) /\ z \in Keys /\ \A x \in Keys : z <= x
        /\ cur = P[j][z] /\ L \in Nat /\ j \in 0..L
    BY <2>1, <2>2, TreeFacts DEF OnWay
  <2>4. m[cur] = n
    <3>1. cur \in Pages0 /\ cur # 0
      BY <1>2 DEF Pages0
    <3> QED BY <1>0, <2>2, <3>1 DEF Mem
  <2>5. j # 0
    <3>1. PageHas(m[P[j][z]], P, j, P[j][z])
      BY <2>3, PageFacts
    <3> QED BY <1>1, <2>3, <2>4, <3>1 DEF PageHas
  <2>6. j \in 1..L /\ j - 1 \in 0..(L - 1)
    BY <2>3, <2>5
  <2>7. cur' = P[j - 1][z]
    <3>1. childAt(m[P[j][z]], 1) = P[j - 1][z]
      BY <2>3, <2>6, LeftmostWay
    <3> QED BY <1>1, <1>5, <2>3, <2>4, <3>1
  <2> PICK i : i = j - 1
    OBVIOUS
  <2>8. OnWay(Mem, P, L, z, i)'
    BY <1>3, <2>2, <2>3, <2>6, <2>7 DEF OnWay
  <2>9. ScanIs'
    BY <1>1, <2>8 DEF ScanIs, KVInv
  <2>10. OpIs'
    BY <1>1 DEF OpIs, KVInv
  <2> QED BY <1>1, <2>9, <2>10 DEF KVInv, DeleteIs, Later
<1> QED BY <1>4, <1>5

LEMMA NothingScanned ==
  ASSUME NEW m, NEW P, NEW z \in Keys, \A x \in Keys : z <= x
  PROVE  Scanned(<<>>, m, P, z)
<1>1. <<>> \in Seq(Keys) /\ DOMAIN <<>> = {} /\ Ascending(<<>>)
  BY DEF Ascending
<1>2. \A x \in Keys : ~(x < z)
  BY TreeAssumption
<1> QED BY <1>1, <1>2 DEF Scanned

LEMMA LeftmostOnMap ==
  ASSUME TreeInv, KVInv, LeftmostLeaf
  PROVE  KVInv'
<1>0. PICK n : n = NodeAt(cur)
  OBVIOUS
<1>1. /\ pc = "visit" /\ pc' = "scan" /\ UNCHANGED <<op, cur, acc, before>> /\ ReadPage(cur)
      /\ IsNode(cur) /\ IsLeaf(n) /\ op.kind = "keys"
  BY <1>0 DEF LeftmostLeaf, AtLeaf
<1>2. PagesInv /\ cur \in owned /\ owned \subseteq 1..PageLimit
  BY <1>1, NodeRead, InvFacts
<1>3. Mem' = Mem
  BY <1>1, <1>2, ReadEffect, NodesKept DEF PagesUnchanged
<1>4. PICK P, L, z, j : OnWay(Mem, P, L, z, j)
  BY <1>1 DEF KVInv, ScanIs
<1>5. PICK m : m = Mem
  OBVIOUS
<1>6. /\ Tree(m, P, L) /\ j \in 0..(L - 1) /\ z \in Keys /\ \A x \in Keys : z <= x
      /\ cur = P[j][z] /\ L \in Nat /\ j \in 0..L
  BY <1>4, <1>5, TreeFacts DEF OnWay
<1>7. m[cur] = n
  <2>1. cur \in Pages0 /\ cur # 0
    BY <1>2 DEF Pages0
  <2> QED BY <1>0, <1>5, <2>1 DEF Mem
<1>8. j = 0
  BY <1>1, <1>6, <1>7, PageFacts DEF PageHas
<1>9. Scanned(acc, m, P, z)
  <2>1. acc = <<>>
    BY <1>1 DEF KVInv, ScanIs
  <2> QED BY <1>6, <2>1, NothingScanned
<1>10. InChain(Mem, P, L, z)'
  BY <1>1, <1>3, <1>5, <1>6, <1>8, <1>9 DEF InChain
<1>11. ScanIs'
  BY <1>1, <1>10 DEF ScanIs
<1>12. OpIs'
  BY <1>1 DEF OpIs, KVInv
<1> QED BY <1>1, <1>11, <1>12 DEF KVInv, DeleteIs, Later

(* Where a scan is.                                                        *)
ScanAt(m, P, L, z, n) ==
  /\ Tree(m, P, L) /\ z \in Keys /\ Convex(P)
  /\ Scanned(acc, m, P, z) /\ KeysHere(n.keys, m, P, z) /\ LinkFits(n.rightPtr, P, z)

LEMMA ScanFacts ==
  ASSUME TreeInv, Working, TidyInv, KVInv, pc = "scan", NEW n, n = NodeAt(cur)
  PROVE  \E P, L, z : ScanAt(Mem, P, L, z, n)
<1>1. PICK P, L, z : InChain(Mem, P, L, z)
  BY DEF KVInv, ScanIs
<1>2. PICK m, S : m = Mem /\ S = owned
  OBVIOUS
<1>3. Tree(m, P, L) /\ z \in Keys /\ cur = P[0][z] /\ Scanned(acc, m, P, z)
  BY <1>1, <1>2 DEF InChain
<1>4. m[cur] = n
  <2>1. cur \in owned /\ owned \subseteq 1..PageLimit
    BY NodeRead, InvFacts
  <2>2. cur \in Pages0 /\ cur # 0
    BY <2>1 DEF Pages0
  <2> QED BY <1>2, <2>2 DEF Mem
<1>5. KeysHere(n.keys, m, P, z)
  <2>1. KeysHere(m[P[0][z]].keys, m, P, z)
    BY <1>3, LeafKeys
  <2> QED BY <1>3, <1>4, <2>1
<1>6. Convex(P)
  BY <1>3, SideBySide DEF Convex
<1>7. NextMem = Mem
  <2>1. AllWritten
    BY DEF Working, WorkOK, AllWritten
  <2> QED BY <2>1, NoWork DEF NextIsMem
<1>8. Tidied(S, m)
  <2>1. op.kind # "open" /\ ~Hopeless /\ ~Overflows
    BY DEF Working, WorkOK, Hopeless, Overflows
  <2> QED BY <1>2, <1>7, <2>1 DEF TidyInv, TidyNext
<1>9. LinkFits(n.rightPtr, P, z)
  <2>1. Linked(m, P)
    BY <1>3, <1>8 DEF Tidied, Tidy
  <2> QED BY <1>3, <1>4, <2>1 DEF Linked
<1> QED BY <1>2, <1>3, <1>5, <1>6, <1>9 DEF ScanAt

LEMMA ScanOnMap ==
  ASSUME TreeInv, Working, TidyInv, KVInv, ScanLeaf, pc' = "scan"
  PROVE  KVInv'
<1>0. PICK n, r : n = NodeAt(cur) /\ r = n.rightPtr
  OBVIOUS
<1>1. pc = "scan" /\ ReadPage(cur)
  BY DEF ScanLeaf
<1>2. r # 0 /\ acc' = acc \o n.keys /\ cur' = r /\ UNCHANGED <<op, before>>
  BY <1>0 DEF ScanLeaf, Return, Finish
<1>3. Mem' = Mem
  <2>1. PagesInv /\ cur \in owned
    BY <1>1, NodeRead, InvFacts
  <2> QED BY <1>1, <2>1, ReadEffect, NodesKept DEF PagesUnchanged
<1>4. PICK P, L, z : ScanAt(Mem, P, L, z, n)
  BY <1>0, <1>1, ScanFacts
<1>5. PICK m, s, u, t : m = Mem /\ s = acc /\ u = n.keys /\ t = s \o u
  OBVIOUS
<1>6. /\ Tree(m, P, L) /\ z \in Keys /\ Convex(P)
      /\ Scanned(s, m, P, z) /\ KeysHere(u, m, P, z) /\ LinkFits(r, P, z)
  BY <1>0, <1>4, <1>5 DEF ScanAt
<1>7. PICK y \in Keys : /\ z < y /\ P[0][y] = r /\ P[0][y] # P[0][z]
                        /\ \A x \in Keys : z < x /\ x < y => P[0][x] \in {P[0][z], P[0][y]}
  BY <1>2, <1>6 DEF LinkFits
<1>8. Scanned(t, m, P, y)
  BY <1>5, <1>6, <1>7, ScansOn
<1>9. InChain(Mem, P, L, y)'
  BY <1>2, <1>3, <1>5, <1>6, <1>7, <1>8 DEF InChain
<1>10. ScanIs'
  BY <1>9 DEF ScanIs
<1>11. OpIs'
  BY <1>2 DEF OpIs, KVInv
<1> QED BY <1>2, <1>10, <1>11 DEF KVInv, DeleteIs, Later

(* While an operation reads, searches find what it began with.             *)
LEMMA ReadsSame ==
  ASSUME TreeInv, Working, pc \in {"visit", "scan"}
  PROVE  \A k \in Keys : Lookup(k) = Held(k)
<1>1. AllWritten /\ pc \notin Later
  BY DEF Working, WorkOK, AllWritten, Later
<1>2. NextMem = Mem
  BY <1>1, NoWork DEF NextIsMem
<1>3. PICK P, L : NextTree(P, L)
  BY Ahead
<1>4. \A k \in Keys : Lookup(k) = Finds(Mem, P, k) /\ Finds(Mem, P, k) = Target(k)
  BY <1>2, <1>3, LookupNow DEF NextTree, LookupIsTree
<1> QED BY <1>1, <1>4 DEF Target

LEMMA ReadsBefore ==
  ASSUME TreeInv, Working, KVInv, pc \in {"visit", "scan"}
  PROVE  \A k \in Keys : /\ Lookup(k) = IF k \in DOMAIN before.dict THEN before.dict[k] ELSE None
                         /\ k \in DOMAIN before.dict <=> Lookup(k) # None
BY ReadsSame DEF Held, KVInv, IsDict

LEMMA ReadKeepsMap ==
  ASSUME TreeInv, Working, KVInv, pc \in {"visit", "scan"}, ReadPage(cur)
  PROVE  TreeMap' = before.dict
<1>1. PagesInv /\ cur \in owned
  BY NodeRead, InvFacts
<1>2. PagesUnchanged
  BY <1>1, ReadEffect
<1>3. \A k \in Keys : Lookup(k)' = Lookup(k)
  BY <1>2, MemoryKept
<1>4. PICK d : d = before.dict
  OBVIOUS
<1>5. \A k \in Keys : Lookup(k)' = IF k \in DOMAIN d THEN d[k] ELSE None
  BY <1>3, <1>4, ReadsBefore
<1>6. IsDict(d)
  BY <1>4 DEF KVInv
<1> QED BY <1>4, <1>5, <1>6, TreeMapIs

(* A scan that ends has all the keys, in order.                            *)
LEMMA ScanIsList ==
  ASSUME TreeInv, Working, TidyInv, KVInv, pc = "scan", NEW n, n = NodeAt(cur), n.rightPtr = 0
  PROVE  acc \o n.keys = Sorted(DOMAIN before.dict)
<1>1. PICK P, L, z : ScanAt(Mem, P, L, z, n)
  BY ScanFacts
<1>2. PICK m, s, u, t, D : m = Mem /\ s = acc /\ u = n.keys /\ t = s \o u /\ D = DOMAIN before.dict
  OBVIOUS
<1>3. /\ Tree(m, P, L) /\ z \in Keys /\ Convex(P)
      /\ Scanned(s, m, P, z) /\ KeysHere(u, m, P, z)
      /\ \A x \in Keys : z < x => P[0][x] = P[0][z]
  BY <1>1, <1>2 DEF ScanAt, LinkFits
<1>4. ListsAll(t, m, P)
  BY <1>2, <1>3, ScansAll
<1>5. \A k \in Keys : Found(m, P, k) <=> k \in D
  <2>1. \A k \in Keys : Lookup(k) = Finds(m, P, k)
    BY <1>2, <1>3, LookupNow DEF LookupIsTree
  <2> QED BY <1>2, <2>1, ReadsBefore DEF Found
<1>6. D \subseteq Keys /\ D \subseteq Nat
  BY <1>2, TreeAssumption DEF KVInv, IsDict
<1>7. t \in Seq(Keys) /\ Ascending(t) /\ \A i \in DOMAIN t : t[i] \in D
  BY <1>4, <1>5 DEF ListsAll
<1>8. t \in Seq(D)
  BY <1>7
<1>9. \A d \in D : \E i \in DOMAIN t : t[i] = d
  BY <1>4, <1>5, <1>6 DEF ListsAll
<1>10. t = Sorted(D)
  BY <1>6, <1>7, <1>8, <1>9, SortedIs
<1> QED BY <1>2, <1>10

(* How a step of the tree goes on or ends.                                 *)
GoesOn ==
  /\ pc \notin {"idle", "closed", "scan"} /\ pc' \notin {"idle", "closed", "scan", "visit"}
  /\ UNCHANGED <<op, acc, ret, before>>

Ends == pc \notin {"idle", "closed"} /\ \E out : Finish(out)

LEMMA StepKinds ==
  ASSUME TreeInv, Step
  PROVE  \/ Descend \/ LeftmostLeaf
         \/ GoesOn /\ (DeleteLeaf \/ op.kind # "delete" \/ pc \in Later)
         \/ Ends /\ (ScanLeaf \/ SearchLeaf \/ DeleteMissing \/ DepthLeaf \/ FlushTree)
         \/ Ends /\ SetRoot /\ op.kind = "open" /\ ret'.out = "ok"
         \/ ScanLeaf /\ pc' = "scan" /\ UNCHANGED <<op, ret, before>>
         \/ Ends /\ ret'.out = "error"
<1>1. CASE InsertLeaf \/ DeleteLeaf
  BY <1>1 DEF InsertLeaf, DeleteLeaf, AtLeaf, GoesOn
<1>2. CASE AllocSplit \/ AllocRoot
  BY <1>2 DEF AllocSplit, AllocRoot, GoesOn, Later
<1>3. CASE UnwindDone \/ UnwindInternal \/ UnwindRoot
  BY <1>3 DEF UnwindDone, UnwindInternal, UnwindRoot, GoesOn, Later
<1>4. CASE WriteNode
  BY <1>4 DEF WriteNode, GoesOn, Later
<1>5. CASE SetRoot /\ op.kind # "open"
  BY <1>5 DEF SetRoot, GoesOn, Later
<1>6. CASE SetRoot /\ op.kind = "open"
  BY <1>6 DEF SetRoot, Return, Finish, Ends
<1>7. CASE SearchLeaf \/ DeleteMissing \/ DepthLeaf
  <2>1. pc = "visit" /\ \E out : Finish(out)
    BY <1>7 DEF SearchLeaf, DeleteMissing, DepthLeaf, AtLeaf, Return
  <2> QED BY <1>7, <2>1 DEF Ends
<1>8. CASE FlushTree
  <2>1. pc = "flush" /\ Finish("ok")
    BY <1>8 DEF FlushTree, Return
  <2> QED BY <1>8, <2>1 DEF Ends
<1>9. CASE ScanLeaf
  <2>1. pc = "scan"
    BY <1>9 DEF ScanLeaf
  <2>2. CASE NodeAt(cur).rightPtr = 0
    <3>1. \E out : Finish(out)
      BY <1>9, <2>2 DEF ScanLeaf, Return
    <3> QED BY <1>9, <2>1, <3>1 DEF Ends
  <2>3. CASE NodeAt(cur).rightPtr # 0
    BY <1>9, <2>1, <2>3 DEF ScanLeaf
  <2> QED BY <2>2, <2>3
<1>10. CASE BadNode \/ WriteOverflow \/ PagerError \/ FileFull
  <2>1. Finish("error") /\ ret'.out = "error"
    BY <1>10 DEF BadNode, WriteOverflow, PagerError, FileFull, Return, Finish
  <2>2. pc \notin {"idle", "closed"}
    BY <1>10 DEF BadNode, WriteOverflow, PagerError, PagerCallFails, FileFull
  <2> QED BY <2>1, <2>2 DEF Ends
<1> QED BY <1>1, <1>2, <1>3, <1>4, <1>5, <1>6, <1>7, <1>8, <1>9, <1>10 DEF Step

(* The leaf that a search has come to holds what the key has.              *)
LEMMA LeafHolds ==
  ASSUME TreeInv, Working, pc = "visit", Keyed, IsNode(cur), NEW n, n = NodeAt(cur), IsLeaf(n)
  PROVE  Held(op.key) = ValueIn(n, op.key)
<1>0. PICK x, m : x = op.key /\ m = Mem
  OBVIOUS
<1>1. /\ cur \in owned /\ NodeOver(n, owned) /\ x \in Keys /\ owned \subseteq 1..PageLimit
  BY <1>0, NodeRead, InvFacts DEF OpOK, Keyed
<1>2. AllWritten /\ pc \notin Later
  BY DEF Working, WorkOK, AllWritten, Later
<1>3. NextMem = Mem
  BY <1>2, NoWork DEF NextIsMem
<1>4. PICK P, L : NextTree(P, L) /\ OnPath(P, L)
  BY Ahead
<1>5. Tree(m, P, L) /\ L \in Nat /\ Finds(m, P, x) = Held(x)
  BY <1>0, <1>1, <1>2, <1>3, <1>4, TreeFacts DEF NextTree, Target
<1>6. PICK l : l = Level(L) /\ l \in 0..L /\ cur = P[l][x]
  <2>1. PICK d \in Nat : d = Len(stack) /\ d < L
    BY <1>4, InvFacts DEF OnPath
  <2>2. L - 1 - d \in 0..L
    BY <1>5, <2>1
  <2> QED BY <1>0, <1>4, <2>1, <2>2 DEF OnPath, Level
<1>7. m[cur] = n
  <2>1. cur \in Pages0 /\ cur # 0
    BY <1>1 DEF Pages0
  <2> QED BY <1>0, <2>1 DEF Mem
<1>8. l = 0
  <2>1. PageHas(m[P[l][x]], P, l, P[l][x])
    BY <1>1, <1>5, <1>6, PageFacts
  <2> QED BY <1>6, <1>7, <2>1 DEF PageHas
<1> QED BY <1>0, <1>5, <1>6, <1>7, <1>8 DEF Finds

LEMMA DeletesPresent ==
  ASSUME TreeInv, Working, DeleteLeaf
  PROVE  op.key \in DOMAIN before.dict
<1>1. PICK n, x : n = NodeAt(cur) /\ x = op.key
  OBVIOUS
<1>2. pc = "visit" /\ op.kind = "delete" /\ IsNode(cur) /\ IsLeaf(n) /\ HasKey(n, x)
  BY <1>1 DEF DeleteLeaf, AtLeaf
<1>3. NodeOver(n, owned)
  BY <1>1, <1>2, NodeRead
<1>4. ValueIn(n, x) # None
  BY <1>2, <1>3, FoundValue
<1>5. Held(x) = ValueIn(n, x)
  BY <1>1, <1>2, LeafHolds DEF Keyed
<1> QED BY <1>1, <1>2, <1>4, <1>5 DEF Held

LEMMA KVInvStep ==
  ASSUME Keys # {}, TreeInv, MapInv, NeverKilled, TidyInv, KVInv, [TreeNext]_vars
  PROVE  KVInv'
<1>0. op.kind # "open" => Working
  BY DEF MapInv
<1>1. CASE Step
  <2>1. CASE GoesOn /\ (DeleteLeaf \/ op.kind # "delete" \/ pc \in Later)
    <3>1. DeleteLeaf => op.key \in DOMAIN before.dict
      BY <1>0, DeletesPresent DEF DeleteLeaf, AtLeaf
    <3> QED BY <2>1, <3>1, KVInvOn DEF GoesOn
  <2>2. CASE Ends
    BY <2>2, KVInvEnd DEF Ends
  <2>3. CASE ScanLeaf /\ pc' = "scan"
    <3>1. op.kind # "open"
      BY <2>3, InvFacts DEF PlacesOK, ScanLeaf
    <3> QED BY <1>0, <2>3, <3>1, ScanOnMap
  <2> QED BY <1>1, <2>1, <2>2, <2>3, StepKinds, DescendOnMap, LeftmostOnMap
<1>2. CASE Client
  <2>1. ASSUME pc = "idle" PROVE op.kind # "open"
    BY <2>1, InvFacts DEF PlacesOK
  <2>2. CASE \E k \in Keys : \E v \in Values : Put(k, v)
    BY <1>0, <2>1, <2>2, CallOnMap DEF Put, Call
  <2>3. CASE \E k \in Keys : \E v \in Values : PutRejected(k, v)
    <3>1. UNCHANGED <<pc, op, acc, before>> /\ pc = "idle"
      BY <2>3 DEF PutRejected
    <3>2. OpIs'
      BY <3>1 DEF KVInv, OpIs
    <3> QED BY <3>1, <3>2 DEF KVInv, ScanIs, DeleteIs
  <2>4. CASE \E k \in Keys : Get(k) \/ Delete(k)
    BY <1>0, <2>1, <2>4, CallOnMap DEF Get, Delete, Call
  <2>5. CASE KeysScan \/ Depth
    BY <1>0, <2>1, <2>5, CallOnMap DEF KeysScan, Depth, Call
  <2> QED BY <1>2, <2>2, <2>3, <2>4, <2>5 DEF Client
<1>3. CASE UNCHANGED vars
  <2>1. UNCHANGED <<pagerVars, pc, op, cur, acc, before>>
    BY <1>3 DEF vars, treeVars
  <2>2. OpIs'
    BY <2>1 DEF KVInv, OpIs
  <2>3. Mem' = Mem
    BY <2>1, SamePages, NodesKept DEF TreeInv, PagesInv
  <2>4. PICK m : m = Mem
    OBVIOUS
  <2>5. \A P, L, z, j : OnWay(m, P, L, z, j) => OnWay(m, P, L, z, j)'
    BY <2>1 DEF OnWay
  <2>6. \A P, L, z : InChain(m, P, L, z) => InChain(m, P, L, z)'
    BY <2>1 DEF InChain
  <2>7. ScanIs'
    BY <2>1, <2>3, <2>4, <2>5, <2>6 DEF KVInv, ScanIs
  <2> QED BY <2>1, <2>2, <2>7 DEF KVInv, DeleteIs
<1> QED BY <1>1, <1>2, <1>3 DEF TreeNext

-----------------------------------------------------------------------------
(* Every step of the tree is a step of the map, or none.                   *)

MapStays == MapNow' = MapNow /\ ret' = ret

LEMMA GoesOnMap ==
  ASSUME pc \notin {"idle", "closed"}, pc' \notin {"idle", "closed"}, UNCHANGED <<ret, before>>
  PROVE  MapStays
BY DEF MapStays, MapNow

LEMMA CallStays ==
  ASSUME NEW kind, NEW k, NEW v, Call(kind, k, v)
  PROVE  MapStays
<1>1. pc = "idle" /\ pc' = "visit" /\ before'.dict = TreeMap /\ ret' = ret
  BY DEF Call
<1> QED BY <1>1 DEF MapStays, MapNow

LEMMA NothingStays ==
  ASSUME TreeInv, UNCHANGED <<pagerVars, pc, before>>
  PROVE  MapNow' = MapNow
<1>1. PagesUnchanged
  BY SamePages DEF TreeInv, PagesInv
<1>2. TreeMap' = TreeMap
  BY <1>1, MemoryKept, TreeMapKept
<1> QED BY <1>2 DEF MapNow

LEMMA RejectedMap ==
  ASSUME TreeInv, NEW k \in Keys, NEW v \in Values, PutRejected(k, v)
  PROVE  KV!Next
<1>1. KV!PutRejected(k, v)
  BY NothingStays DEF PutRejected, KV!PutRejected, KV!Result
<1> QED BY <1>1 DEF KV!Next

(* The values of a map after an operation that does what it says.          *)
LEMMA EndMap ==
  ASSUME Ends
  PROVE  MapNow = before.dict /\ MapNow' = TreeMap' /\ ret'.op = op
         /\ ret' = [op |-> ret'.op, out |-> ret'.out]
BY DEF Ends, Finish, MapNow

LEMMA OpenedMap ==
  ASSUME KVInv, Ends, SetRoot, op.kind = "open", ret'.out = "ok",
         \A k \in Keys : Lookup(k)' = None
  PROVE  KV!Next
<1>1. op = OpenOp /\ DOMAIN before.dict = {} /\ IsDict(before.dict)
  BY DEF KVInv, OpIs
<1>2. TreeMap' = before.dict
  <2>1. PICK d : d = before.dict
    OBVIOUS
  <2> QED BY <1>1, <2>1, TreeMapIs
<1>3. KV!Opened
  BY <1>1, <1>2, EndMap DEF KV!Opened, KV!Result, OpenOp
<1> QED BY <1>3 DEF KV!Next

LEMMA PutMap ==
  ASSUME TreeInv, KVInv, Ends, Exact, op.kind = "put", ret'.out = "ok"
  PROVE  KV!Next
<1>1. PICK d, k, v, d2 : d = before.dict /\ k = op.key /\ v = op.value
                     /\ d2 = [j \in DOMAIN d \cup {k} |-> IF j = k THEN v ELSE d[j]]
  OBVIOUS
<1>2. k \in Keys /\ v \in Values /\ v # None
  BY <1>1, InvFacts, TreeAssumption DEF OpOK
<1>3. Acceptable(k, v) /\ IsDict(d) /\ op = [kind |-> "put", key |-> k, value |-> v]
  BY <1>1 DEF KVInv, OpIs
<1>4. IsDict(d2) /\ DOMAIN d2 = DOMAIN d \cup {k}
      /\ \A j \in DOMAIN d2 : d2[j] = IF j = k THEN v ELSE d[j]
  BY <1>1, <1>2, <1>3, PutDict
<1>5. \A j \in Keys : Lookup(j)' = IF j \in DOMAIN d2 THEN d2[j] ELSE None
  <2>1. pc # "idle"
    BY DEF Ends
  <2> QED BY <1>1, <1>4, <2>1 DEF Exact, Held
<1>6. TreeMap' = d2
  BY <1>4, <1>5, TreeMapIs
<1>7. KV!Put(k, v)
  BY <1>1, <1>3, <1>6, EndMap DEF KV!Put, KV!Result
<1> QED BY <1>2, <1>7 DEF KV!Next

LEMMA DeleteMap ==
  ASSUME TreeInv, KVInv, Ends, Exact, op.kind = "delete",
         ret'.out = IF Held(op.key) # None THEN "ok" ELSE "notfound"
  PROVE  KV!Next
<1>1. PICK d, k, d2 : d = before.dict /\ k = op.key /\ d2 = [j \in DOMAIN d \ {k} |-> d[j]]
  OBVIOUS
<1>2. k \in Keys
  BY <1>1, InvFacts DEF OpOK
<1>3. IsDict(d) /\ op = [kind |-> "delete", key |-> k, value |-> None]
  BY <1>1 DEF KVInv, OpIs
<1>4. IsDict(d2) /\ DOMAIN d2 = DOMAIN d \ {k} /\ \A j \in DOMAIN d2 : d2[j] = d[j]
  BY <1>1, <1>3, DeleteDict
<1>5. pc # "idle"
  BY DEF Ends
<1>6. \A j \in Keys : Lookup(j)' = IF j \in DOMAIN d2 THEN d2[j] ELSE None
  BY <1>1, <1>4, <1>5 DEF Exact, Held
<1>7. TreeMap' = d2
  BY <1>4, <1>6, TreeMapIs
<1>8. Held(k) # None <=> k \in DOMAIN d
  BY <1>1, <1>3, <1>5 DEF Held, IsDict
<1>9. KV!Delete(k)
  BY <1>1, <1>3, <1>7, <1>8, EndMap DEF KV!Delete, KV!Result
<1> QED BY <1>2, <1>9 DEF KV!Next

LEMMA GetMap ==
  ASSUME TreeInv, KVInv, Ends, Exact, op.kind = "get", TreeMap' = before.dict
  PROVE  KV!Next
<1>1. PICK d, k : d = before.dict /\ k = op.key
  OBVIOUS
<1>2. k \in Keys
  BY <1>1, InvFacts DEF OpOK
<1>3. IsDict(d) /\ op = [kind |-> "get", key |-> k, value |-> None]
  BY <1>1 DEF KVInv, OpIs
<1>4. pc # "idle"
  BY DEF Ends
<1>5. ret'.out = IF k \in DOMAIN d THEN d[k] ELSE "notfound"
  BY <1>1, <1>3, <1>4 DEF Held, IsDict, Exact
<1>6. KV!Get(k)
  BY <1>1, <1>3, <1>5, EndMap DEF KV!Get, KV!Result
<1> QED BY <1>2, <1>6 DEF KV!Next

LEMMA KeysMap ==
  ASSUME KVInv, Ends, op.kind = "keys", TreeMap' = before.dict,
         ret'.out = Sorted(DOMAIN before.dict)
  PROVE  KV!Next
<1>1. op = [kind |-> "keys", key |-> None, value |-> None]
  BY DEF KVInv, OpIs
<1>2. KV!SortedKeys = Sorted(DOMAIN before.dict)
  <2>1. MapNow = before.dict
    BY EndMap
  <2>2. KV!SortedKeys = Sorted(DOMAIN MapNow)
    BY DEF KV!SortedKeys, Sorted, KV!Cardinality, Cardinality
  <2> QED BY <2>1, <2>2
<1>3. KV!ListKeys
  BY <1>1, <1>2, EndMap DEF KV!ListKeys, KV!Result
<1> QED BY <1>3 DEF KV!Next

LEMMA DepthMap ==
  ASSUME Ends, op.kind = "depth", TreeMap' = before.dict, ret'.out \in Nat \ {0}
  PROVE  KV!Next
<1>1. KV!ReportDepth
  BY EndMap DEF KV!ReportDepth
<1> QED BY <1>1 DEF KV!Next

(* What the ends of the operations return.                                 *)
LEMMA EndResults ==
  ASSUME TreeInv
  PROVE  /\ FlushTree => ret'.out = "ok" /\ pc = "flush"
         /\ SearchLeaf => op.kind = "get"
         /\ DeleteMissing => op.kind = "delete" /\ ret'.out = "notfound"
         /\ DepthLeaf => op.kind = "depth" /\ ret'.out \in Nat \ {0}
<1>1. Len(stack) \in Nat
  BY InvFacts
<1> QED BY <1>1 DEF FlushTree, SearchLeaf, DeleteMissing, DepthLeaf, AtLeaf, Return, Finish

LEMMA FlushedMap ==
  ASSUME TreeInv, TreeInv', Working, KVInv, Ends, FlushTree
  PROVE  KV!Next
<1>1. Exact /\ ret'.out = "ok" /\ pc = "flush"
  BY FlushMap, EndResults
<1>2. op.kind \in {"put", "delete"}
  BY <1>1 DEF Working, WorkOK, Later
<1>3. CASE op.kind = "put"
  BY <1>1, <1>3, PutMap
<1>4. CASE op.kind = "delete"
  <2>1. Held(op.key) # None
    BY <1>1, <1>4 DEF KVInv, DeleteIs, IsDict, Held, Later
  <2> QED BY <1>1, <1>4, <2>1, DeleteMap
<1> QED BY <1>2, <1>3, <1>4

LEMMA EndOfStep ==
  ASSUME NodeType \subseteq Body, TreeInv, TreeInv', MapInv, MapKeeps, NeverKilled, TidyInv, KVInv,
         Step, Ends, ret'.out # "error"
  PROVE  KV!Next
<1>0. op.kind # "open" => Working
  BY DEF MapInv
<1>1. CASE op.kind = "open"
  <2>1. SetRoot /\ ret'.out = "ok"
    <3>1. AllocRoot \/ SetRoot \/ WriteNode
      BY <1>1, OpenOnly
    <3>2. ~AllocRoot /\ ~WriteNode
      BY DEF Ends, Finish, AllocRoot, WriteNode
    <3> QED BY <1>1, <3>1, <3>2 DEF SetRoot, Return, Finish
  <2>2. \A k \in Keys : Lookup(k)' = None
    BY <1>1 DEF MapKeeps, Completes, Ends, Finish
  <2> QED BY <1>1, <2>1, <2>2, OpenedMap
<1>2. CASE op.kind # "open"
  <2>0. Working
    BY <1>0, <1>2
  <2>1. CASE FlushTree
    BY <2>0, <2>1, FlushedMap
  <2>2. CASE SearchLeaf
    <3>1. Exact /\ op.kind = "get"
      BY <2>0, <2>2, ReadExact, EndResults
    <3>2. pc = "visit" /\ ReadPage(cur)
      BY <2>2 DEF SearchLeaf, AtLeaf
    <3>3. TreeMap' = before.dict
      BY <2>0, <3>2, ReadKeepsMap
    <3> QED BY <3>1, <3>3, GetMap
  <2>3. CASE DeleteMissing
    <3>1. Exact /\ op.kind = "delete" /\ ret'.out = "notfound"
      BY <2>0, <2>3, ReadExact, EndResults
    <3>2. pc = "visit" /\ ReadPage(cur) /\ IsNode(cur) /\ IsLeaf(NodeAt(cur))
          /\ ~HasKey(NodeAt(cur), op.key)
      BY <2>3 DEF DeleteMissing, AtLeaf
    <3>3. Held(op.key) = None
      BY <2>0, <3>1, <3>2, LeafHolds DEF Keyed, ValueIn
    <3> QED BY <3>1, <3>3, DeleteMap
  <2>4. CASE DepthLeaf
    <3>1. op.kind = "depth" /\ ret'.out \in Nat \ {0}
      BY <2>4, EndResults
    <3>2. pc = "visit" /\ ReadPage(cur)
      BY <2>4 DEF DepthLeaf, AtLeaf
    <3>3. TreeMap' = before.dict
      BY <2>0, <3>2, ReadKeepsMap
    <3> QED BY <3>1, <3>3, DepthMap
  <2>5. CASE ScanLeaf
    <3>0. PICK n : n = NodeAt(cur)
      OBVIOUS
    <3>1. pc = "scan" /\ ReadPage(cur) /\ pc' = "idle"
      BY <2>5 DEF ScanLeaf, Ends, Finish
    <3>2. n.rightPtr = 0
      BY <2>5, <3>0, <3>1 DEF ScanLeaf
    <3>3. ret'.out = acc \o n.keys
      BY <2>5, <3>0, <3>2 DEF ScanLeaf, Return, Finish
    <3>4. TreeMap' = before.dict
      BY <2>0, <3>1, ReadKeepsMap
    <3>5. ret'.out = Sorted(DOMAIN before.dict)
      BY <2>0, <3>0, <3>1, <3>2, <3>3, ScanIsList
    <3>6. op.kind = "keys"
      BY <2>0, <3>1 DEF Working, WorkOK
    <3> QED BY <3>4, <3>5, <3>6, KeysMap
  <2>6. \/ FlushTree \/ SearchLeaf \/ DeleteMissing \/ DepthLeaf \/ ScanLeaf
    <3>1. ~Descend /\ ~LeftmostLeaf /\ ~GoesOn
      BY DEF Ends, Finish, Descend, LeftmostLeaf, AtLeaf, GoesOn
    <3> QED BY <1>2, <3>1, StepKinds
  <2> QED BY <2>1, <2>2, <2>3, <2>4, <2>5, <2>6
<1> QED BY <1>1, <1>2

LEMMA NextRefinesMap ==
  ASSUME NodeType \subseteq Body, TreeInv, TreeInv', MapInv, NeverKilled, TidyInv, KVInv,
         NoError', [TreeNext]_vars
  PROVE  [KV!Next]_<<MapNow, ret>>
<1>1. CASE Step
  <2>1. MapKeeps
    <3>1. [MapNext]_vars
      BY <1>1 DEF MapNext, TreeNext
    <3>2. NeverKilled'
      BY StaysAlive
    <3>3. ~Crash
      BY <3>2, TreeAssumption DEF Crash, NeverKilled
    <3> QED BY <3>1, <3>3, MapStep
  <2>2. CASE Ends
    BY <1>1, <2>1, <2>2, EndOfStep DEF NoError
  <2>3. CASE ~Ends
    <3>1. \/ Descend \/ LeftmostLeaf \/ GoesOn
          \/ ScanLeaf /\ pc' = "scan" /\ UNCHANGED <<op, ret, before>>
      BY <1>1, <2>3, StepKinds
    <3>2. pc \notin {"idle", "closed"} /\ pc' \notin {"idle", "closed"} /\ UNCHANGED <<ret, before>>
      BY <3>1 DEF Descend, LeftmostLeaf, AtLeaf, GoesOn, ScanLeaf
    <3> QED BY <3>2, GoesOnMap DEF MapStays
  <2> QED BY <2>2, <2>3
<1>2. CASE Client
  <2>1. ASSUME NEW kind, NEW k, NEW v, Call(kind, k, v) PROVE MapStays
    BY <2>1, CallStays
  <2>2. ASSUME NEW k \in Keys, NEW v \in Values, PutRejected(k, v) PROVE KV!Next
    BY <2>2, RejectedMap
  <2>3. MapStays \/ KV!Next
    BY <1>2, <2>1, <2>2 DEF Client, Put, Get, Delete, KeysScan, Depth
  <2> QED BY <2>3 DEF MapStays
<1>3. CASE UNCHANGED vars
  <2>1. UNCHANGED <<pagerVars, pc, before, ret>>
    BY <1>3 DEF vars, treeVars
  <2> QED BY <2>1, NothingStays
<1> QED BY <1>1, <1>2, <1>3 DEF TreeNext

(* While no operation has failed, the tree on its pages is a map: what Get, Put,
   Delete, Keys and Depth return, and what the tree holds between them, is what
   KVMap allows, and Keys returns exactly the keys present in ascending order,
   though it goes from leaf to leaf and Get down from the root (btree.go: Put,
   Get, Delete, Keys, Depth and what they call).                            *)
THEOREM TreeIsMap ==
  ASSUME NodeType \subseteq Body, Keys # {}
  PROVE  TreeSpec /\ []NoError => KVMapSpec
<1>1. TreeInit => TidyInv /\ KVInv
  BY TidyInvInit, KVInvInit
<1>2. TreeInv /\ TreeInv' /\ MapInv /\ NeverKilled /\ TidyInv /\ KVInv /\ NoError'
        /\ [TreeNext]_vars => TidyInv' /\ KVInv'
  BY TidyInvStep, KVInvStep
<1>3. TreeInv /\ TreeInv' /\ MapInv /\ NeverKilled /\ TidyInv /\ KVInv /\ NoError'
        /\ [TreeNext]_vars => [KV!Next]_<<MapNow, ret>>
  BY NextRefinesMap
<1>4. TreeInit => KV!Init
  BY DEF TreeInit, KV!Init, MapNow, Nothing
<1>5. TreeSpec => [][TreeNext]_vars /\ TreeInit
  BY DEF TreeSpec
<1>6. TreeSpec => [](TreeInv /\ MapInv)
  BY MapInvariant, SpecsMap, PTL
<1>7. TreeSpec => []NeverKilled
  <2>1. TreeInit => NeverKilled
    BY TreeAssumption DEF TreeInit, NeverKilled
  <2>2. TreeInv /\ NeverKilled /\ [TreeNext]_vars => NeverKilled'
    BY StaysAlive
  <2> QED BY <1>5, <1>6, <2>1, <2>2, PTL
<1> QED BY <1>1, <1>2, <1>3, <1>4, <1>5, <1>6, <1>7, PTL DEF KVMapSpec, KV!Spec

=============================================================================

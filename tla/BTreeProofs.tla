---------------------------- MODULE BTreeProofs ----------------------------
(***************************************************************************)
(* Proofs about the tree, for every set of keys and values, every size of  *)
(* a page, of the buffer and of the file, and any number of I/O errors.    *)
(***************************************************************************)
EXTENDS BTree, PagerProofs, Recursion, SequenceTheorems

-----------------------------------------------------------------------------
(* Sequences: what slices.Insert, slices.Delete and the slicing of a node at
   its middle produce, position by position.                               *)

(* c is a, of length m, followed by b, of length n.                        *)
Joined(c, a, m, b, n) ==
  /\ Len(c) = m + n
  /\ \A j \in 1..m : c[j] = a[j]
  /\ \A j \in 1..n : c[m + j] = b[j]

LEMMA ConcatFacts ==
  ASSUME NEW D, NEW a \in Seq(D), NEW b \in Seq(D),
         NEW m \in Nat, Len(a) = m, NEW n \in Nat, Len(b) = n
  PROVE  a \o b \in Seq(D) /\ Joined(a \o b, a, m, b, n)
<1>1. /\ a \o b \in Seq(D) /\ Len(a \o b) = m + n
      /\ \A j \in 1..(m + n) : (a \o b)[j] = IF j <= m THEN a[j] ELSE b[j - m]
  BY ConcatProperties
<1>2. \A j \in 1..n : m + j \in 1..(m + n) /\ ~(m + j <= m) /\ (m + j) - m = j
  OBVIOUS
<1> QED BY <1>1, <1>2 DEF Joined

(* t is the slice of s from i to j.                                        *)
Sliced(t, s, i, j) ==
  /\ Len(t) = j + 1 - i
  /\ \A l \in 1..(j + 1 - i) : t[l] = s[i + l - 1]

LEMMA SliceFacts ==
  ASSUME NEW D, NEW s \in Seq(D), NEW i \in 1..(Len(s) + 1), NEW j \in (i - 1)..Len(s)
  PROVE  SubSeq(s, i, j) \in Seq(D) /\ Sliced(SubSeq(s, i, j), s, i, j)
BY DEF Sliced

(* t is s with e put in at position i.                                     *)
Inserted(t, s, i, e) ==
  /\ Len(t) = Len(s) + 1
  /\ \A j \in 1..(i - 1) : t[j] = s[j]
  /\ t[i] = e
  /\ \A j \in (i + 1)..(Len(s) + 1) : t[j] = s[j - 1]

LEMMA InsertAtFacts ==
  ASSUME NEW D, NEW s \in Seq(D), NEW i \in 1..(Len(s) + 1), NEW e \in D
  PROVE  InsertAt(s, i, e) \in Seq(D) /\ Inserted(InsertAt(s, i, e), s, i, e)
<1> DEFINE a == SubSeq(s, 1, i - 1)
           b == SubSeq(s, i, Len(s))
           c == a \o <<e>>
           d == c \o b
<1> PICK n \in Nat : n = Len(s)
  OBVIOUS
<1> PICK m : m = i - 1
  OBVIOUS
<1> PICK r : r = n - m
  OBVIOUS
<1>0. m \in Nat /\ r \in Nat /\ i = m + 1 /\ n = m + r
  OBVIOUS
<1>1. a \in Seq(D) /\ Len(a) = m /\ \A j \in 1..m : a[j] = s[j]
  <2>1. 1 \in 1..(Len(s) + 1) /\ i - 1 \in (1 - 1)..Len(s)
    OBVIOUS
  <2>2. a \in Seq(D) /\ Len(a) = i - 1 + 1 - 1
        /\ \A j \in 1..(i - 1 + 1 - 1) : a[j] = s[1 + j - 1]
    BY <2>1, SliceFacts DEF Sliced
  <2> HIDE DEF a
  <2>3. \A j \in 1..m : j \in 1..(i - 1 + 1 - 1) /\ 1 + j - 1 = j
    BY <1>0
  <2>4. i - 1 + 1 - 1 = m
    BY <1>0
  <2> QED BY <2>2, <2>3, <2>4
<1>2. b \in Seq(D) /\ Len(b) = r /\ \A j \in 1..r : b[j] = s[m + j]
  <2>1. Len(s) \in (i - 1)..Len(s)
    BY <1>0
  <2>2. b \in Seq(D) /\ Len(b) = Len(s) + 1 - i
        /\ \A j \in 1..(Len(s) + 1 - i) : b[j] = s[i + j - 1]
    BY <2>1, SliceFacts DEF Sliced
  <2> HIDE DEF b
  <2>3. Len(s) + 1 - i = r
    BY <1>0
  <2>4. \A j \in 1..r : i + j - 1 = m + j
    BY <1>0
  <2> QED BY <2>2, <2>3, <2>4
<1> HIDE DEF a, b, c, d
<1>3. c \in Seq(D) /\ Len(c) = m + 1
      /\ (\A j \in 1..m : c[j] = a[j]) /\ c[m + 1] = e
  <2> PICK one : one = <<e>>
    OBVIOUS
  <2>1. one \in Seq(D) /\ Len(one) = 1 /\ one[1] = e /\ 1 \in 1..1 /\ 1 \in Nat
    OBVIOUS
  <2>2. m \in Nat /\ a \in Seq(D) /\ Len(a) = m
    BY <1>0, <1>1
  <2>3. a \o one \in Seq(D) /\ Joined(a \o one, a, m, one, 1)
    BY <2>1, <2>2, ConcatFacts
  <2> QED BY <2>1, <2>3 DEF c, Joined
<1>4. d \in Seq(D) /\ Len(d) = m + 1 + r
      /\ (\A j \in 1..(m + 1) : d[j] = c[j])
      /\ \A j \in 1..r : d[m + 1 + j] = b[j]
  <2>1. /\ m + 1 \in Nat /\ c \in Seq(D) /\ Len(c) = m + 1
        /\ r \in Nat /\ b \in Seq(D) /\ Len(b) = r
    BY <1>0, <1>2, <1>3
  <2>2. c \o b \in Seq(D) /\ Joined(c \o b, c, m + 1, b, r)
    BY <2>1, ConcatFacts
  <2> QED BY <2>2 DEF d, Joined
<1>5. ASSUME NEW j \in (i + 1)..(Len(s) + 1)
      PROVE  d[j] = s[j - 1]
  <2> PICK l : l = j - (m + 1)
    OBVIOUS
  <2>1. l \in 1..r /\ j = m + 1 + l /\ j - 1 = m + l
    BY <1>0
  <2>2. d[m + 1 + l] = b[l] /\ b[l] = s[m + l]
    BY <1>2, <1>4, <2>1
  <2> QED BY <2>1, <2>2
<1>6. InsertAt(s, i, e) = d
  BY DEF InsertAt, a, b, c, d
<1>7. \A j \in 1..(i - 1) : d[j] = s[j]
  <2>1. \A j \in 1..(i - 1) : j \in 1..m /\ j \in 1..(m + 1)
    BY <1>0
  <2> QED BY <1>1, <1>3, <1>4, <2>1
<1>8. d[i] = e /\ Len(d) = Len(s) + 1
  <2>1. m + 1 \in 1..(m + 1) /\ m + 1 + r = Len(s) + 1
    BY <1>0
  <2> QED BY <1>0, <1>3, <1>4, <2>1
<1> QED BY <1>4, <1>5, <1>6, <1>7, <1>8 DEF Inserted

(* t is s without its position i.                                          *)
Removed(t, s, i) ==
  /\ Len(t) = Len(s) - 1
  /\ \A j \in 1..(i - 1) : t[j] = s[j]
  /\ \A j \in i..(Len(s) - 1) : t[j] = s[j + 1]

LEMMA RemoveAtFacts ==
  ASSUME NEW D, NEW s \in Seq(D), NEW i \in 1..Len(s)
  PROVE  RemoveAt(s, i) \in Seq(D) /\ Removed(RemoveAt(s, i), s, i)
<1> DEFINE a == SubSeq(s, 1, i - 1)
           b == SubSeq(s, i + 1, Len(s))
           d == a \o b
<1> PICK n \in Nat : n = Len(s)
  OBVIOUS
<1> PICK m : m = i - 1
  OBVIOUS
<1> PICK r : r = n - i
  OBVIOUS
<1>0. m \in Nat /\ r \in Nat /\ i = m + 1 /\ n = m + 1 + r
  OBVIOUS
<1>1. a \in Seq(D) /\ Len(a) = m /\ \A j \in 1..m : a[j] = s[j]
  <2>1. 1 \in 1..(Len(s) + 1) /\ i - 1 \in (1 - 1)..Len(s)
    BY <1>0
  <2>2. a \in Seq(D) /\ Len(a) = i - 1 + 1 - 1
        /\ \A j \in 1..(i - 1 + 1 - 1) : a[j] = s[1 + j - 1]
    BY <2>1, SliceFacts DEF Sliced
  <2> HIDE DEF a
  <2>3. \A j \in 1..m : j \in 1..(i - 1 + 1 - 1) /\ 1 + j - 1 = j
    BY <1>0
  <2>4. i - 1 + 1 - 1 = m
    BY <1>0
  <2> QED BY <2>2, <2>3, <2>4
<1>2. b \in Seq(D) /\ Len(b) = r /\ \A j \in 1..r : b[j] = s[i + j]
  <2>1. i + 1 \in 1..(Len(s) + 1) /\ Len(s) \in (i + 1 - 1)..Len(s)
    BY <1>0
  <2>2. b \in Seq(D) /\ Len(b) = Len(s) + 1 - (i + 1)
        /\ \A j \in 1..(Len(s) + 1 - (i + 1)) : b[j] = s[i + 1 + j - 1]
    BY <2>1, SliceFacts DEF Sliced
  <2> HIDE DEF b
  <2>3. Len(s) + 1 - (i + 1) = r
    BY <1>0
  <2>4. \A j \in 1..r : i + 1 + j - 1 = i + j
    BY <1>0
  <2> QED BY <2>2, <2>3, <2>4
<1> HIDE DEF a, b, d
<1>3. d \in Seq(D) /\ Len(d) = m + r
      /\ (\A j \in 1..m : d[j] = a[j])
      /\ \A j \in 1..r : d[m + j] = b[j]
  <2>1. /\ m \in Nat /\ a \in Seq(D) /\ Len(a) = m
        /\ r \in Nat /\ b \in Seq(D) /\ Len(b) = r
    BY <1>0, <1>1, <1>2
  <2>2. a \o b \in Seq(D) /\ Joined(a \o b, a, m, b, r)
    BY <2>1, ConcatFacts
  <2> QED BY <2>2 DEF d, Joined
<1>4. ASSUME NEW j \in i..(Len(s) - 1)
      PROVE  d[j] = s[j + 1]
  <2> PICK l : l = j - m
    OBVIOUS
  <2>1. l \in 1..r /\ j = m + l /\ j + 1 = i + l
    BY <1>0
  <2>2. d[m + l] = b[l] /\ b[l] = s[i + l]
    BY <1>2, <1>3, <2>1
  <2> QED BY <2>1, <2>2
<1>5. RemoveAt(s, i) = d
  BY DEF RemoveAt, a, b, d
<1>6. \A j \in 1..(i - 1) : d[j] = s[j]
  <2>1. \A j \in 1..(i - 1) : j \in 1..m
    BY <1>0
  <2> QED BY <1>1, <1>3, <2>1
<1>7. Len(d) = Len(s) - 1
  <2>1. m + r = Len(s) - 1
    BY <1>0
  <2> QED BY <1>3, <2>1
<1> QED BY <1>3, <1>4, <1>5, <1>6, <1>7 DEF Removed

-----------------------------------------------------------------------------
(* Nodes.                                                                  *)

(* A node as the code builds it: a leaf has a value for each key, an internal
   node a child for each key and one more, and the pages it names are in S. *)
NodeOver(n, S) ==
  /\ n \in NodeType
  /\ IsLeaf(n) => /\ Len(n.values) = Len(n.keys)
                  /\ n.children = <<>>
                  /\ n.rightPtr \in S \cup {0}
  /\ ~IsLeaf(n) => /\ Len(n.children) = Len(n.keys)
                   /\ n.values = <<>>
                   /\ n.children \in Seq(S)
                   /\ n.rightPtr \in S

LEMMA NodeOverMore ==
  ASSUME NEW n, NEW S, NEW T, S \subseteq T, NodeOver(n, S)
  PROVE  NodeOver(n, T)
<1>1. n.children \in Seq(S) => n.children \in Seq(T)
  BY SeqMonotonic
<1> QED BY <1>1 DEF NodeOver

LEMMA LeafNodeOver ==
  ASSUME NEW S, S \subseteq 1..PageLimit,
         NEW keys \in Seq(Keys), NEW values \in Seq(Values), Len(values) = Len(keys),
         NEW right \in S \cup {0}
  PROVE  NodeOver(LeafNode(keys, values, right), S)
<1>1. <<>> \in Seq(1..PageLimit) /\ right \in 0..PageLimit
  BY LimitAssumption
<1> QED BY <1>1 DEF NodeOver, LeafNode, NodeType, IsLeaf

LEMMA InternalNodeOver ==
  ASSUME NEW S, S \subseteq 1..PageLimit,
         NEW keys \in Seq(Keys), NEW children \in Seq(S), Len(children) = Len(keys),
         NEW right \in S
  PROVE  NodeOver(InternalNode(keys, children, right), S)
<1>1. <<>> \in Seq(Values) /\ right \in 0..PageLimit
  BY LimitAssumption
<1>2. children \in Seq(1..PageLimit)
  BY SeqMonotonic
<1> QED BY <1>1, <1>2 DEF NodeOver, InternalNode, NodeType, IsLeaf

LEMMA NodeFacts ==
  ASSUME NEW S, NEW n, NodeOver(n, S)
  PROVE  /\ n.keys \in Seq(Keys) /\ n.values \in Seq(Values)
         /\ n.rightPtr \in 0..PageLimit
         /\ Len(n.keys) \in Nat
         /\ IsLeaf(n) => n = LeafNode(n.keys, n.values, n.rightPtr)
         /\ ~IsLeaf(n) => n = InternalNode(n.keys, n.children, n.rightPtr)
<1>1. /\ n.keys \in Seq(Keys) /\ n.values \in Seq(Values)
      /\ n.rightPtr \in 0..PageLimit
      /\ n.nodeType \in {"leaf", "internal"}
      /\ n = [nodeType |-> n.nodeType, keys |-> n.keys, values |-> n.values,
               children |-> n.children, rightPtr |-> n.rightPtr]
  BY DEF NodeOver, NodeType
<1>2. CASE IsLeaf(n)
  BY <1>1, <1>2 DEF NodeOver, IsLeaf, LeafNode
<1>3. CASE ~IsLeaf(n)
  BY <1>1, <1>3 DEF NodeOver, IsLeaf, InternalNode
<1> QED BY <1>1, <1>2, <1>3

LEMMA KeysAreNumbers ==
  ASSUME NEW s \in Seq(Keys)
  PROVE  /\ Len(s) \in Nat
         /\ \A i \in 1..Len(s) : s[i] \in Keys /\ s[i] \in Nat
         /\ DOMAIN s = 1..Len(s)
<1>1. Keys \subseteq Nat
  BY TreeAssumption
<1>2. Len(s) \in Nat /\ DOMAIN s = 1..Len(s) /\ \A i \in 1..Len(s) : s[i] \in Keys
  OBVIOUS
<1> QED BY <1>1, <1>2

(* A loop that looks for the first position in P finds it or ends behind the
   last position.                                                          *)
LEMMA FirstPosition ==
  ASSUME NEW n \in Nat, NEW P
  PROVE  \E i \in 1..(n + 1) : /\ \A j \in 1..(i - 1) : j \notin P
                               /\ i <= n => i \in P
<1>1. CASE (1..n) \cap P = {}
  <2>1. n + 1 \in 1..(n + 1) /\ n + 1 - 1 = n /\ ~(n + 1 <= n)
    OBVIOUS
  <2> QED BY <1>1, <2>1
<1>2. CASE (1..n) \cap P # {}
  <2> DEFINE T == (1..n) \cap P
  <2>1. T \in SUBSET Nat /\ T # {}
    BY <1>2
  <2> HIDE DEF T
  <2>2. PICK i \in T : \A j \in T : i <= j
    BY <2>1, LeastNatural
  <2>3. i \in 1..n /\ i \in P
    BY <2>2 DEF T
  <2>4. \A j \in 1..(i - 1) : j \in 1..n /\ ~(i <= j)
    BY <2>3
  <2>5. \A j \in 1..(i - 1) : j \notin P
    BY <2>2, <2>4 DEF T
  <2> QED BY <2>3, <2>5
<1> QED BY <1>1, <1>2

(* The first separator above the key, or the position behind the last one. *)
LEMMA ChildIdxFacts ==
  ASSUME NEW n, n.keys \in Seq(Keys), NEW k \in Keys
  PROVE  /\ childIdx(n, k) \in 1..(Len(n.keys) + 1)
         /\ \A j \in 1..(childIdx(n, k) - 1) : n.keys[j] <= k
         /\ childIdx(n, k) <= Len(n.keys) => k < n.keys[childIdx(n, k)]
<1> PICK s \in Seq(Keys) : s = n.keys
  OBVIOUS
<1>1. k \in Nat /\ Len(s) \in Nat /\ \A j \in 1..Len(s) : s[j] \in Nat
  BY KeysAreNumbers, TreeAssumption
<1> DEFINE P == {j \in 1..Len(s) : k < s[j]}
           Q(i) == /\ \A j \in 1..(i - 1) : s[j] <= k
                   /\ i <= Len(s) => k < s[i]
<1>2. PICK i \in 1..(Len(s) + 1) : /\ \A j \in 1..(i - 1) : j \notin P
                                   /\ i <= Len(s) => i \in P
  <2> HIDE DEF P
  <2> QED BY <1>1, FirstPosition
<1>3. \A j \in 1..(i - 1) : j \in 1..Len(s)
  BY <1>1
<1>4. Q(i)
  BY <1>1, <1>2, <1>3
<1>5. childIdx(n, k) = CHOOSE j \in 1..(Len(s) + 1) : Q(j)
  BY DEF childIdx
<1> HIDE DEF Q
<1>6. childIdx(n, k) \in 1..(Len(s) + 1) /\ Q(childIdx(n, k))
  BY <1>4, <1>5
<1> QED BY <1>6 DEF Q

(* The first key not below the new one, or the position behind the last key. *)
LEMMA LeafPosFacts ==
  ASSUME NEW n, n.keys \in Seq(Keys), NEW k \in Keys
  PROVE  /\ leafPos(n, k) \in 1..(Len(n.keys) + 1)
         /\ \A j \in 1..(leafPos(n, k) - 1) : n.keys[j] < k
         /\ leafPos(n, k) <= Len(n.keys) => k <= n.keys[leafPos(n, k)]
<1> PICK s \in Seq(Keys) : s = n.keys
  OBVIOUS
<1>1. k \in Nat /\ Len(s) \in Nat /\ \A j \in 1..Len(s) : s[j] \in Nat
  BY KeysAreNumbers, TreeAssumption
<1> DEFINE P == {j \in 1..Len(s) : k <= s[j]}
           Q(i) == /\ \A j \in 1..(i - 1) : s[j] < k
                   /\ i <= Len(s) => k <= s[i]
<1>2. PICK i \in 1..(Len(s) + 1) : /\ \A j \in 1..(i - 1) : j \notin P
                                   /\ i <= Len(s) => i \in P
  <2> HIDE DEF P
  <2> QED BY <1>1, FirstPosition
<1>3. \A j \in 1..(i - 1) : j \in 1..Len(s)
  BY <1>1
<1>4. Q(i)
  BY <1>1, <1>2, <1>3
<1>5. leafPos(n, k) = CHOOSE j \in 1..(Len(s) + 1) : Q(j)
  BY DEF leafPos
<1> HIDE DEF Q
<1>6. leafPos(n, k) \in 1..(Len(s) + 1) /\ Q(leafPos(n, k))
  BY <1>4, <1>5
<1> QED BY <1>6 DEF Q

(* The position of a key that is there.                                    *)
LEMMA MatchFacts ==
  ASSUME NEW n, n.keys \in Seq(Keys), NEW k, HasKey(n, k)
  PROVE  /\ Min(matches(n, k)) \in 1..Len(n.keys)
         /\ n.keys[Min(matches(n, k))] = k
<1> DEFINE T == matches(n, k)
<1>1. T \in SUBSET Nat /\ T # {}
  BY DEF HasKey, matches
<1> HIDE DEF T
<1>2. \E x \in T : \A y \in T : x <= y
  BY <1>1, LeastNatural
<1>3. Min(T) \in T
  BY <1>2 DEF Min
<1> QED BY <1>3 DEF T, matches

LEMMA ChildAtFacts ==
  ASSUME NEW S, NEW n, NodeOver(n, S), ~IsLeaf(n), NEW i \in 1..(Len(n.keys) + 1)
  PROVE  childAt(n, i) \in S
BY DEF NodeOver, childAt

(* The halves that splitNode produces.                                     *)
LEMMA SplitLeafShape ==
  ASSUME NEW n, IsLeaf(n), NEW new
  PROVE  LET len == Len(n.keys)
             mid == len \div 2 IN
         /\ splitNode(n, new).left
              = LeafNode(SubSeq(n.keys, 1, mid), SubSeq(n.values, 1, mid), new)
         /\ splitNode(n, new).right
              = LeafNode(SubSeq(n.keys, mid + 1, len), SubSeq(n.values, mid + 1, len),
                         n.rightPtr)
         /\ splitNode(n, new).key = n.keys[mid + 1]
BY DEF splitNode, splitLeaf

LEMMA SplitInternalShape ==
  ASSUME NEW n, ~IsLeaf(n), Len(n.children) = Len(n.keys), NEW new
  PROVE  LET len == Len(n.keys)
             mid == len \div 2 IN
         /\ splitNode(n, new).left
              = InternalNode(SubSeq(n.keys, 1, mid), SubSeq(n.children, 1, mid),
                             n.children[mid + 1])
         /\ splitNode(n, new).right
              = InternalNode(SubSeq(n.keys, mid + 2, len),
                             SubSeq(n.children, mid + 2, len), n.rightPtr)
         /\ splitNode(n, new).key = n.keys[mid + 1]
BY DEF splitNode, splitInternal

LEMMA Halves ==
  ASSUME NEW len \in Nat, len > 0, NEW mid, mid = len \div 2
  PROVE  /\ mid \in 0..len /\ mid + 1 \in 1..len
         /\ 1 \in 1..(len + 1) /\ mid \in (1 - 1)..len /\ mid + 1 - 1 = mid
         /\ mid + 1 \in 1..(len + 1) /\ len \in (mid + 1 - 1)..len
         /\ mid + 2 \in 1..(len + 1) /\ len \in (mid + 2 - 1)..len
OBVIOUS

(* The slices of a sequence before and after its middle.                   *)
LEMMA HalfSlices ==
  ASSUME NEW D, NEW s \in Seq(D), NEW len \in Nat, Len(s) = len, len > 0,
         NEW mid, mid = len \div 2
  PROVE  /\ SubSeq(s, 1, mid) \in Seq(D) /\ Sliced(SubSeq(s, 1, mid), s, 1, mid)
         /\ SubSeq(s, mid + 1, len) \in Seq(D)
         /\ Sliced(SubSeq(s, mid + 1, len), s, mid + 1, len)
         /\ SubSeq(s, mid + 2, len) \in Seq(D)
         /\ Sliced(SubSeq(s, mid + 2, len), s, mid + 2, len)
<1>1. /\ 1 \in 1..(len + 1) /\ mid \in (1 - 1)..len
      /\ mid + 1 \in 1..(len + 1) /\ len \in (mid + 1 - 1)..len
      /\ mid + 2 \in 1..(len + 1) /\ len \in (mid + 2 - 1)..len
  BY Halves
<1>2. SubSeq(s, 1, mid) \in Seq(D) /\ Sliced(SubSeq(s, 1, mid), s, 1, mid)
  BY <1>1, SliceFacts
<1>3. /\ SubSeq(s, mid + 1, len) \in Seq(D)
      /\ Sliced(SubSeq(s, mid + 1, len), s, mid + 1, len)
  BY <1>1, SliceFacts
<1>4. /\ SubSeq(s, mid + 2, len) \in Seq(D)
      /\ Sliced(SubSeq(s, mid + 2, len), s, mid + 2, len)
  BY <1>1, SliceFacts
<1> QED BY <1>2, <1>3, <1>4

(* Putting a pair into a leaf.                                             *)
LEMMA LeafWithOver ==
  ASSUME NEW S, S \subseteq 1..PageLimit, NEW n, NodeOver(n, S), IsLeaf(n),
         NEW k \in Keys, NEW v \in Values
  PROVE  /\ NodeOver(leafWith(n, k, v), S)
         /\ IsLeaf(leafWith(n, k, v))
         /\ Len(leafWith(n, k, v).keys) > 0
<1>0. PICK keys, values, right, i :
        /\ keys = n.keys /\ values = n.values /\ right = n.rightPtr
        /\ i = leafPos(n, k)
  OBVIOUS
<1>1. /\ keys \in Seq(Keys) /\ values \in Seq(Values) /\ Len(values) = Len(keys)
      /\ right \in S \cup {0} /\ Len(keys) \in Nat
  BY <1>0, NodeFacts DEF NodeOver
<1>2. i \in 1..(Len(keys) + 1) /\ i \in 1..(Len(values) + 1)
  BY <1>0, <1>1, LeafPosFacts
<1>3. \A t, w : LeafNode(t, w, right).keys = t /\ IsLeaf(LeafNode(t, w, right))
  BY DEF LeafNode, IsLeaf
<1>4. CASE i \in matches(n, k)
  <2>0. PICK w : w = ReplaceAt(values, i, v)
    OBVIOUS
  <2>1. leafWith(n, k, v) = LeafNode(keys, w, right)
    BY <1>0, <1>4, <2>0 DEF leafWith
  <2>2. i \in 1..Len(values)
    BY <1>0, <1>1, <1>4 DEF matches
  <2>3. w \in Seq(Values) /\ Len(w) = Len(values)
    BY <1>1, <2>0, <2>2, ExceptSeq DEF ReplaceAt
  <2>4. NodeOver(LeafNode(keys, w, right), S)
    BY <1>1, <2>3, LeafNodeOver
  <2>5. Len(keys) > 0
    BY <1>1, <2>2
  <2> QED BY <1>3, <2>1, <2>4, <2>5
<1>5. CASE i \notin matches(n, k)
  <2>0. PICK t, w : t = InsertAt(keys, i, k) /\ w = InsertAt(values, i, v)
    OBVIOUS
  <2>1. leafWith(n, k, v) = LeafNode(t, w, right)
    BY <1>0, <1>5, <2>0 DEF leafWith
  <2>2. t \in Seq(Keys) /\ Inserted(t, keys, i, k)
    BY <1>1, <1>2, <2>0, InsertAtFacts
  <2>3. w \in Seq(Values) /\ Inserted(w, values, i, v)
    BY <1>1, <1>2, <2>0, InsertAtFacts
  <2>4. Len(t) = Len(keys) + 1 /\ Len(w) = Len(values) + 1
    BY <2>2, <2>3 DEF Inserted
  <2>5. NodeOver(LeafNode(t, w, right), S)
    BY <1>1, <2>2, <2>3, <2>4, LeafNodeOver
  <2>6. Len(t) > 0
    BY <1>1, <2>4
  <2> QED BY <1>3, <2>1, <2>5, <2>6
<1> QED BY <1>4, <1>5

(* Taking a pair out of a leaf.                                            *)
LEMMA LeafWithoutOver ==
  ASSUME NEW S, S \subseteq 1..PageLimit, NEW n, NodeOver(n, S), IsLeaf(n),
         NEW k, HasKey(n, k)
  PROVE  NodeOver(leafWithout(n, k), S) /\ IsLeaf(leafWithout(n, k))
<1>0. PICK keys, values, right, i :
        /\ keys = n.keys /\ values = n.values /\ right = n.rightPtr
        /\ i = Min(matches(n, k))
  OBVIOUS
<1>1. /\ keys \in Seq(Keys) /\ values \in Seq(Values) /\ Len(values) = Len(keys)
      /\ right \in S \cup {0} /\ Len(keys) \in Nat
  BY <1>0, NodeFacts DEF NodeOver
<1>2. i \in 1..Len(keys) /\ i \in 1..Len(values)
  BY <1>0, <1>1, MatchFacts
<1>3. PICK t, w : t = RemoveAt(keys, i) /\ w = RemoveAt(values, i)
  OBVIOUS
<1>4. leafWithout(n, k) = LeafNode(t, w, right)
  BY <1>0, <1>3 DEF leafWithout
<1>5. t \in Seq(Keys) /\ Removed(t, keys, i)
  BY <1>1, <1>2, <1>3, RemoveAtFacts
<1>6. w \in Seq(Values) /\ Removed(w, values, i)
  BY <1>1, <1>2, <1>3, RemoveAtFacts
<1>7. Len(t) = Len(w)
  BY <1>1, <1>5, <1>6 DEF Removed
<1>8. NodeOver(LeafNode(t, w, right), S)
  BY <1>1, <1>5, <1>6, <1>7, LeafNodeOver
<1>9. IsLeaf(LeafNode(t, w, right))
  BY DEF LeafNode, IsLeaf
<1> QED BY <1>4, <1>8, <1>9

(* Adding a separator and the page right of it to an internal node.        *)
LEMMA InternalWithOver ==
  ASSUME NEW S, S \subseteq 1..PageLimit, NEW n, NodeOver(n, S), ~IsLeaf(n),
         NEW i \in 1..(Len(n.keys) + 1), NEW s, s.key \in Keys, s.child \in S
  PROVE  /\ NodeOver(internalWith(n, i, s), S)
         /\ ~IsLeaf(internalWith(n, i, s))
         /\ Len(internalWith(n, i, s).keys) > 0
<1>0. PICK keys, children, right, key, child, t :
        /\ keys = n.keys /\ children = n.children /\ right = n.rightPtr
        /\ key = s.key /\ child = s.child /\ t = InsertAt(keys, i, key)
  OBVIOUS
<1>1. /\ keys \in Seq(Keys) /\ children \in Seq(S) /\ Len(children) = Len(keys)
      /\ right \in S /\ Len(keys) \in Nat
  BY <1>0, NodeFacts DEF NodeOver
<1>2. i \in 1..(Len(keys) + 1) /\ key \in Keys /\ child \in S
  BY <1>0
<1>3. t \in Seq(Keys) /\ Inserted(t, keys, i, key)
  BY <1>0, <1>1, <1>2, InsertAtFacts
<1>4. Len(t) = Len(keys) + 1 /\ Len(t) > 0
  BY <1>1, <1>3 DEF Inserted
<1>5. \A c, r : InternalNode(t, c, r).keys = t /\ ~IsLeaf(InternalNode(t, c, r))
  BY DEF InternalNode, IsLeaf
<1>6. CASE i <= Len(children)
  <2>0. PICK j, c : j = i + 1 /\ c = InsertAt(children, j, child)
    OBVIOUS
  <2>1. internalWith(n, i, s) = InternalNode(t, c, right)
    BY <1>0, <1>6, <2>0 DEF internalWith
  <2>2. j \in 1..(Len(children) + 1)
    BY <1>1, <1>2, <1>6, <2>0
  <2>3. c \in Seq(S) /\ Inserted(c, children, j, child)
    BY <1>1, <1>2, <2>0, <2>2, InsertAtFacts
  <2>4. Len(c) = Len(t)
    BY <1>1, <1>4, <2>3 DEF Inserted
  <2>5. NodeOver(InternalNode(t, c, right), S)
    BY <1>1, <1>3, <2>3, <2>4, InternalNodeOver
  <2> QED BY <1>4, <1>5, <2>1, <2>5
<1>7. CASE ~(i <= Len(children))
  <2>0. PICK c : c = Append(children, right)
    OBVIOUS
  <2>1. internalWith(n, i, s) = InternalNode(t, c, child)
    BY <1>0, <1>7, <2>0 DEF internalWith
  <2>2. c \in Seq(S) /\ Len(c) = Len(children) + 1
    BY <1>1, <2>0, AppendProperties
  <2>3. Len(c) = Len(t)
    BY <1>1, <1>4, <2>2
  <2>4. NodeOver(InternalNode(t, c, child), S)
    BY <1>2, <1>3, <2>2, <2>3, InternalNodeOver
  <2> QED BY <1>4, <1>5, <2>1, <2>4
<1> QED BY <1>6, <1>7

(* Both halves of a node that has a key, and the separator between them.   *)
LEMMA SplitOver ==
  ASSUME NEW S, S \subseteq 1..PageLimit, NEW n, NodeOver(n, S), Len(n.keys) > 0,
         NEW new \in S
  PROVE  /\ NodeOver(splitNode(n, new).left, S)
         /\ NodeOver(splitNode(n, new).right, S)
         /\ splitNode(n, new).key \in Keys
<1>0. PICK keys, values, children, right, len, mid :
        /\ keys = n.keys /\ values = n.values /\ children = n.children
        /\ right = n.rightPtr /\ len = Len(keys) /\ mid = len \div 2
  OBVIOUS
<1>1. /\ keys \in Seq(Keys) /\ values \in Seq(Values)
      /\ len \in Nat /\ len > 0 /\ Len(keys) = len
  BY <1>0, NodeFacts
<1>2. /\ mid \in 0..len /\ mid + 1 \in 1..len
      /\ 1 \in 1..(len + 1) /\ mid \in (1 - 1)..len
      /\ mid + 1 \in 1..(len + 1) /\ len \in (mid + 1 - 1)..len
      /\ mid + 2 \in 1..(len + 1) /\ len \in (mid + 2 - 1)..len
  BY <1>0, <1>1, Halves
<1>3. keys[mid + 1] \in Keys
  BY <1>1, <1>2, ElementOfSeq
<1>4. CASE IsLeaf(n)
  <2>0. PICK a, b, c, d :
          /\ a = SubSeq(keys, 1, mid) /\ b = SubSeq(values, 1, mid)
          /\ c = SubSeq(keys, mid + 1, len) /\ d = SubSeq(values, mid + 1, len)
    OBVIOUS
  <2>1. Len(values) = len /\ right \in S \cup {0}
    BY <1>0, <1>4 DEF NodeOver
  <2>2. /\ splitNode(n, new).left = LeafNode(a, b, new)
        /\ splitNode(n, new).right = LeafNode(c, d, right)
        /\ splitNode(n, new).key = keys[mid + 1]
    BY <1>0, <1>4, <2>0, SplitLeafShape
  <2>3. /\ a \in Seq(Keys) /\ Sliced(a, keys, 1, mid)
        /\ c \in Seq(Keys) /\ Sliced(c, keys, mid + 1, len)
    BY <1>0, <1>1, <2>0, HalfSlices
  <2>4. /\ b \in Seq(Values) /\ Sliced(b, values, 1, mid)
        /\ d \in Seq(Values) /\ Sliced(d, values, mid + 1, len)
    BY <1>0, <1>1, <2>0, <2>1, HalfSlices
  <2>5. Len(a) = Len(b) /\ Len(c) = Len(d)
    BY <2>3, <2>4 DEF Sliced
  <2>6. NodeOver(LeafNode(a, b, new), S) /\ NodeOver(LeafNode(c, d, right), S)
    BY <2>1, <2>3, <2>4, <2>5, LeafNodeOver
  <2> QED BY <1>3, <2>2, <2>6
<1>5. CASE ~IsLeaf(n)
  <2>0. PICK a, b, c, d, last :
          /\ a = SubSeq(keys, 1, mid) /\ b = SubSeq(children, 1, mid)
          /\ c = SubSeq(keys, mid + 2, len) /\ d = SubSeq(children, mid + 2, len)
          /\ last = children[mid + 1]
    OBVIOUS
  <2>1. children \in Seq(S) /\ Len(children) = len /\ right \in S
    BY <1>0, <1>5 DEF NodeOver
  <2>2. last \in S
    BY <1>2, <2>0, <2>1, ElementOfSeq
  <2>3. /\ splitNode(n, new).left = InternalNode(a, b, last)
        /\ splitNode(n, new).right = InternalNode(c, d, right)
        /\ splitNode(n, new).key = keys[mid + 1]
    BY <1>0, <1>5, <2>0, <2>1, SplitInternalShape
  <2>4. /\ a \in Seq(Keys) /\ Sliced(a, keys, 1, mid)
        /\ c \in Seq(Keys) /\ Sliced(c, keys, mid + 2, len)
    BY <1>0, <1>1, <2>0, HalfSlices
  <2>5. /\ b \in Seq(S) /\ Sliced(b, children, 1, mid)
        /\ d \in Seq(S) /\ Sliced(d, children, mid + 2, len)
    BY <1>0, <1>1, <2>0, <2>1, HalfSlices
  <2>6. Len(a) = Len(b) /\ Len(c) = Len(d)
    BY <2>4, <2>5 DEF Sliced
  <2>7. NodeOver(InternalNode(a, b, last), S) /\ NodeOver(InternalNode(c, d, right), S)
    BY <2>1, <2>2, <2>4, <2>5, <2>6, InternalNodeOver
  <2> QED BY <1>3, <2>3, <2>7
<1> QED BY <1>4, <1>5

-----------------------------------------------------------------------------
(* The inductive invariant.  The pager's part: whatever is on a page, in the
   buffer or in the file, is a node over pages in use or zeros, so a walk
   never leaves the pages in use; and the tree frees no page.              *)

NodesOK ==
  \A p \in 0..PageLimit :
    /\ NodeAt(p) = Zeros \/ NodeOver(NodeAt(p), owned)
    /\ NodeOnFile(p) = Zeros \/ NodeOver(NodeOnFile(p), owned)

NothingFree == header.FreeListHead = 0 /\ fileHeader.FreeListHead = 0

RootsInUse ==
  header.RootPageID \in owned \cup {0} /\ fileHeader.RootPageID \in owned \cup {0}

PagesInv == PagerInv /\ NodesOK /\ NothingFree /\ RootsInUse

(* The locals of the operation in progress, over the pages S in use.       *)
Frames(S) ==
  {f \in Frame : /\ f.page \in S /\ NodeOver(f.node, S) /\ ~IsLeaf(f.node)
                 /\ f.idx \in 1..(Len(f.node.keys) + 1)}

Writes(S) == {w \in NodeWrite : w.page \in S /\ NodeOver(w.node, S)}

LocalsOver(S) ==
  /\ stack \in Seq(Frames(S))
  /\ todo \in Seq(Writes(S))
  /\ split = NoSplit \/ (split.key \in Keys /\ split.child \in S)
  /\ cur \in S \cup {0}
  /\ pc \in {"visit", "scan", "writeroot", "setroot"} => cur \in S

OpOK ==
  /\ op.kind \in {"none", "open", "put", "get", "delete", "keys", "depth"}
  /\ op.kind \in {"put", "get", "delete"} => op.key \in Keys
  /\ op.kind = "put" => op.value \in Values

(* What each control point relies on.  Only the first root is made without a
   split, and it fits its page.                                            *)
PlacesOK ==
  /\ pc \in {"idle", "visit", "scan", "alloc", "write", "unwind", "newroot",
             "writeroot", "setroot", "flush", "closed"}
  /\ pc \in {"alloc", "write", "writeroot"} => todo # <<>>
  /\ pc = "alloc" => Len(todo[1].node.keys) > 0
  /\ pc = "visit" => op.kind \notin {"none", "open"}
  /\ op.kind = "open" =>
       /\ pc \in {"newroot", "writeroot", "setroot"}
       /\ pc = "writeroot" => Len(todo) = 1 /\ todo[1].node = LeafNode(<<>>, <<>>, 0)
  /\ op.kind # "open" /\ pc = "newroot" => split # NoSplit
  /\ op.kind # "open" /\ pc # "closed" =>
       header.RootPageID \in owned /\ fileHeader.RootPageID \in owned

CountsOK == acc \in Seq(Keys) /\ faults \in 0..(MaxFaults + 1)

TreeInv == PagesInv /\ LocalsOver(owned) /\ OpOK /\ PlacesOK /\ CountsOK

-----------------------------------------------------------------------------
(* What the pager calls of the tree do to the nodes on the pages.          *)

NodesUnchanged == \A p \in 0..PageLimit : NodeAt(p)' = NodeAt(p)

PagesUnchanged == NodesUnchanged /\ UNCHANGED <<header, fileHeader, owned>>

LEMMA PageNumbers ==
  ASSUME PagesInv
  PROVE  /\ owned \subseteq 1..PageLimit /\ owned \subseteq DOMAIN filePages
         /\ DOMAIN filePages \subseteq 1..PageLimit
         /\ PagerTypeOK /\ CacheCoherent
         /\ header.RootPageID \in Nat /\ fileHeader.RootPageID \in Nat
BY DEF PagesInv, PagerInv, PagerTypeOK, Header

(* A step that moves bytes only between the buffer and the file.           *)
LEMMA QuietPages ==
  ASSUME PagesInv, PagerInv', UNCHANGED <<header, fileHeader, owned>>,
         DOMAIN filePages' = DOMAIN filePages,
         \A p \in DOMAIN filePages : View(p)' = View(p),
         \A p \in DOMAIN filePages : filePages'[p] \in {filePages[p], View(p)}
  PROVE  PagesInv' /\ PagesUnchanged
<1>1. NodesUnchanged
  BY DEF NodesUnchanged, NodeAt
<1>2. \A p \in 0..PageLimit : NodeOnFile(p)' \in {NodeOnFile(p), NodeAt(p)}
  BY DEF NodeAt, NodeOnFile
<1>3. NodesOK'
  BY <1>1, <1>2 DEF PagesInv, NodesOK, NodesUnchanged
<1> QED BY <1>1, <1>3 DEF PagesInv, PagesUnchanged, NothingFree, RootsInUse

LEMMA ReadEffect ==
  ASSUME PagesInv, NEW p \in owned, ReadPage(p)
  PROVE  PagesInv' /\ PagesUnchanged
<1>1. PagerInv'
  BY ReadKeepsInv DEF PagesInv
<1>2. filePages' = filePages /\ UNCHANGED <<header, fileHeader, owned>>
  BY DEF ReadPage
<1>3. \A q \in DOMAIN filePages : View(q)' = View(q)
  BY DEF ReadPage, View, Cached
<1> QED BY <1>1, <1>2, <1>3, QuietPages

(* Some of the dirty pages are written back: Flush and Close, also when they
   give up half way.                                                       *)
LEMMA WriteBackKeepsPages ==
  ASSUME PagesInv, NEW S \in SUBSET dirty, WriteBack(S),
         dirty' = dirty \/ dirty' = dirty \ S,
         open' \in BOOLEAN,
         UNCHANGED <<header, buffer, fileHeader, owned>>
  PROVE  PagesInv' /\ PagesUnchanged
<1>1. PagerInv'
  BY FlushKeepsInv DEF PagesInv
<1>2. /\ DOMAIN filePages' = DOMAIN filePages
      /\ \A q \in S : filePages'[q] = buffer[q] /\ q \in DOMAIN buffer
      /\ \A q \in DOMAIN filePages \ S : filePages'[q] = filePages[q]
  BY PageNumbers, WriteBackEffect DEF PagerTypeOK
<1>3. \A q \in DOMAIN filePages : View(q)' = View(q)
  BY <1>2 DEF View
<1>4. \A q \in DOMAIN filePages : filePages'[q] \in {filePages[q], View(q)}
  BY <1>2 DEF View
<1> QED BY <1>1, <1>2, <1>3, <1>4, QuietPages

LEMMA FlushEffect ==
  ASSUME PagesInv, Flush \/ FlushFails \/ Close
  PROVE  PagesInv' /\ PagesUnchanged
<1>1. dirty \cap DOMAIN buffer = dirty /\ open \in BOOLEAN
  BY PageNumbers DEF PagerTypeOK
<1>2. CASE Flush \/ Close
  BY <1>1, <1>2, WriteBackKeepsPages DEF Flush, Close
<1>3. CASE FlushFails
  <2>1. open' \in BOOLEAN /\ UNCHANGED <<header, buffer, fileHeader, owned>>
    BY <1>1, <1>3 DEF FlushFails
  <2>2. CASE FlushStopsHalfway
    BY <1>1, <2>1, <2>2, WriteBackKeepsPages DEF FlushStopsHalfway
  <2>3. CASE SyncFails
    BY <1>1, <2>1, <2>3, WriteBackKeepsPages DEF SyncFails
  <2> QED BY <1>3, <2>2, <2>3 DEF FlushFails
<1> QED BY <1>2, <1>3

(* AllocatePage, with nothing on the free list: a page that was not in use,
   filled with zeros, and both headers the same.                           *)
LEMMA AllocateEffect ==
  ASSUME PagesInv, AllocatePage
  PROVE  /\ PagesInv'
         /\ NextPage \in 1..PageLimit /\ NextPage \notin owned
         /\ owned' = owned \cup {NextPage}
         /\ \A p \in owned : NodeAt(p)' = NodeAt(p) /\ NodeOnFile(p)' = NodeOnFile(p)
         /\ \A p : p = NextPage => NodeAt(p)' = Zeros
         /\ header'.RootPageID = header.RootPageID
         /\ fileHeader' = header'
<1>0. PICK n : n = header.PageCount
  OBVIOUS
<1>1. PagerInv'
  BY AllocateKeepsInv DEF PagesInv
<1>2. AppendPage /\ WriteHeader(AfterAppend) /\ NextPage = n
  BY <1>0 DEF AllocatePage, TakeFree, PagesInv, NothingFree, NextPage
<1>3. owned' = owned \cup {n}
  BY <1>2 DEF AllocatePage
<1>4. /\ n \in 1..(PageLimit - 1) /\ n \in DOMAIN filePages' /\ View(n)' = ZeroPage
      /\ DOMAIN filePages \subseteq DOMAIN filePages'
      /\ \A q \in DOMAIN filePages : q # n => View(q)' = View(q)
  BY <1>0, <1>2, PageNumbers, AppendEffect
<1>5. n \in 1..PageLimit /\ n \notin owned
  <2>1. owned \subseteq 1..(fileHeader.PageCount - 1)
    BY DEF PagesInv, PagerInv, FileHeaderSound
  <2>2. fileHeader.PageCount \in 1..PageLimit /\ fileHeader.PageCount <= n /\ n \in Nat
    BY <1>0, PageNumbers DEF PagerTypeOK, Header
  <2> QED BY <1>4, <2>1, <2>2, LimitAssumption
<1>6. /\ header' = AfterAppend /\ fileHeader' = header'
      /\ header'.RootPageID = header.RootPageID
      /\ header'.FreeListHead = header.FreeListHead
  BY <1>2, PageNumbers DEF WriteHeader, AfterAppend, PagerTypeOK, Header
<1>7. \A q \in DOMAIN filePages' \ DOMAIN filePages :
        filePages'[q] = ZeroPage /\ (q # n => q \notin DOMAIN buffer')
  BY <1>0, <1>2, PageNumbers DEF AppendPage, BufferWrite, Cached, PagerTypeOK
<1>8. \A q \in DOMAIN filePages : filePages'[q] \in {filePages[q], ZeroPage}
  BY <1>0, <1>2 DEF AppendPage
<1>9. \A q \in DOMAIN filePages' : View(q)' = ZeroPage \/ (q \in DOMAIN filePages /\ View(q)' = View(q))
  BY <1>4, <1>7 DEF View
<1>10. ZeroPage.body = Zeros
  BY DEF ZeroPage, LinkPage
<1>11. \A q \in 0..PageLimit : /\ NodeAt(q)' \in {NodeAt(q), Zeros}
                               /\ NodeOnFile(q)' \in {NodeOnFile(q), Zeros}
  BY <1>4, <1>7, <1>8, <1>9, <1>10 DEF NodeAt, NodeOnFile
<1>12. NodesOK'
  <2>1. \A m : NodeOver(m, owned) => NodeOver(m, owned')
    BY <1>3, NodeOverMore
  <2> QED BY <1>11, <2>1 DEF PagesInv, NodesOK
<1>13. NothingFree' /\ RootsInUse'
  BY <1>3, <1>6 DEF PagesInv, NothingFree, RootsInUse
<1>14. \A p \in owned : NodeAt(p)' = NodeAt(p) /\ NodeOnFile(p)' = NodeOnFile(p)
  <2>1. \A p \in owned : p \in DOMAIN filePages /\ p \in DOMAIN filePages' /\ p # n
    BY <1>4, <1>5, PageNumbers
  <2>2. \A p \in owned : filePages'[p] = filePages[p]
    BY <1>0, <1>2, <2>1 DEF AppendPage
  <2> QED BY <1>4, <2>1, <2>2 DEF NodeAt, NodeOnFile
<1>15. NodeAt(n)' = Zeros
  BY <1>4, <1>10 DEF NodeAt
<1> QED BY <1>1, <1>2, <1>3, <1>5, <1>6, <1>12, <1>13, <1>14, <1>15 DEF PagesInv

LEMMA AllocateFailsEffect ==
  ASSUME PagesInv, AllocatePageFails
  PROVE  /\ PagesInv'
         /\ owned' = owned /\ fileHeader' = fileHeader
         /\ \A p \in owned : NodeAt(p)' = NodeAt(p)
         /\ header'.RootPageID = header.RootPageID
<1>0. PICK n : n = header.PageCount
  OBVIOUS
<1>1. PagerInv' /\ owned' = owned
  BY AllocateKeepsInv DEF PagesInv, AllocatePageFails
<1>2. /\ fileHeader' = fileHeader
      /\ header' = AfterAppend \/ header' = header
      /\ header'.RootPageID = header.RootPageID
      /\ header'.FreeListHead = header.FreeListHead
  BY PageNumbers DEF PagesInv, NothingFree, AllocatePageFails, TakeFree, WriteHeaderFails,
                     AfterAppend, PagerTypeOK, Header
<1>3. NothingFree' /\ RootsInUse'
  BY <1>1, <1>2 DEF PagesInv, NothingFree, RootsInUse
<1>4. CASE UNCHANGED <<buffer, dirty, filePages, open>>
  <2>1. \A q \in 0..PageLimit : NodeAt(q)' = NodeAt(q) /\ NodeOnFile(q)' = NodeOnFile(q)
    BY <1>4 DEF NodeAt, NodeOnFile, View
  <2>2. NodesOK'
    BY <1>1, <2>1 DEF PagesInv, NodesOK
  <2> QED BY <1>1, <1>2, <1>3, <2>1, <2>2, PageNumbers DEF PagesInv
<1>5. CASE AppendPage
  <2>1. /\ n \in 1..(PageLimit - 1) /\ n \in DOMAIN filePages' /\ View(n)' = ZeroPage
        /\ DOMAIN filePages \subseteq DOMAIN filePages'
        /\ \A q \in DOMAIN filePages : q # n => View(q)' = View(q)
    BY <1>0, <1>5, PageNumbers, AppendEffect
  <2>2. n \notin owned
    <3>1. owned \subseteq 1..(fileHeader.PageCount - 1)
      BY DEF PagesInv, PagerInv, FileHeaderSound
    <3>2. fileHeader.PageCount \in 1..PageLimit /\ fileHeader.PageCount <= n /\ n \in Nat
      BY <1>0, PageNumbers DEF PagerTypeOK, Header
    <3> QED BY <3>1, <3>2, LimitAssumption
  <2>3. \A q \in DOMAIN filePages' \ DOMAIN filePages :
          filePages'[q] = ZeroPage /\ (q # n => q \notin DOMAIN buffer')
    BY <1>0, <1>5, PageNumbers DEF AppendPage, BufferWrite, Cached, PagerTypeOK
  <2>4. \A q \in DOMAIN filePages : filePages'[q] \in {filePages[q], ZeroPage}
    BY <1>0, <1>5 DEF AppendPage
  <2>5. \A q \in DOMAIN filePages' : View(q)' = ZeroPage \/ (q \in DOMAIN filePages /\ View(q)' = View(q))
    BY <2>1, <2>3 DEF View
  <2>6. ZeroPage.body = Zeros
    BY DEF ZeroPage, LinkPage
  <2>7. \A q \in 0..PageLimit : /\ NodeAt(q)' \in {NodeAt(q), Zeros}
                                /\ NodeOnFile(q)' \in {NodeOnFile(q), Zeros}
    BY <2>1, <2>3, <2>4, <2>5, <2>6 DEF NodeAt, NodeOnFile
  <2>8. NodesOK'
    BY <1>1, <2>7 DEF PagesInv, NodesOK
  <2>9. \A p \in owned : NodeAt(p)' = NodeAt(p)
    BY <2>1, <2>2, PageNumbers DEF NodeAt
  <2> QED BY <1>1, <1>2, <1>3, <2>8, <2>9 DEF PagesInv
<1> QED BY <1>4, <1>5 DEF AllocatePageFails, TakeFree, PagesInv, NothingFree

(* The page serializeNode builds is a page of the pager.                   *)
LEMMA SerializedPage ==
  ASSUME NodeType \subseteq Body, NEW n \in NodeType
  PROVE  serializeNode(n) \in Page /\ serializeNode(n).body = n
<1>1. Len(n.keys) \in Nat /\ n.rightPtr \in Nat
  BY LimitAssumption DEF NodeType
<1>2. PICK a, b, c : a = Len(n.keys) /\ b = n.rightPtr % 256 /\ c = IF IsLeaf(n) THEN 2 ELSE 1
  OBVIOUS
<1>3. a \in Nat /\ b \in Nat /\ c \in Nat
  BY <1>1, <1>2
<1>4. c + 256 * a + 16777216 * b \in Nat
  BY <1>3
<1>5. serializeNode(n) = [word |-> c + 256 * a + 16777216 * b, body |-> n]
  BY <1>2 DEF serializeNode
<1> QED BY <1>4, <1>5 DEF Page

(* WritePage puts the node on its page, in the buffer.                     *)
LEMMA WriteEffect ==
  ASSUME NodeType \subseteq Body, PagesInv, NEW p \in owned, NEW n, NodeOver(n, owned),
         WritePage(p, serializeNode(n))
  PROVE  /\ PagesInv'
         /\ UNCHANGED <<header, fileHeader, owned>>
         /\ NodeAt(p)' = n
         /\ \A q \in 0..PageLimit : q # p => NodeAt(q)' = NodeAt(q)
<1>1. PICK c : c = serializeNode(n) /\ c \in Page /\ c.body = n
  BY SerializedPage DEF NodeOver
<1>2. PagerInv'
  BY <1>1, WriteKeepsInv DEF PagesInv
<1>3. /\ UNCHANGED <<header, fileHeader, owned>> /\ filePages' = filePages
      /\ buffer' = Cached(p, c)
  BY <1>1 DEF WritePage, BufferWrite
<1>4. View(p)' = c /\ \A q : q # p => View(q)' = View(q)
  BY <1>3 DEF View, Cached
<1>5. p \in DOMAIN filePages
  BY PageNumbers
<1>6. NodeAt(p)' = n /\ \A q \in 0..PageLimit : q # p => NodeAt(q)' = NodeAt(q)
  BY <1>1, <1>3, <1>4, <1>5 DEF NodeAt
<1>7. \A q \in 0..PageLimit : NodeOnFile(q)' = NodeOnFile(q)
  BY <1>3 DEF NodeOnFile
<1>8. NodesOK'
  BY <1>3, <1>6, <1>7 DEF PagesInv, NodesOK
<1> QED BY <1>2, <1>3, <1>6, <1>8 DEF PagesInv, NothingFree, RootsInUse

LEMMA SetRootEffect ==
  ASSUME PagesInv, NEW p \in owned, SetRootPage(p) \/ SetRootPageFails(p)
  PROVE  /\ PagesInv' /\ NodesUnchanged
         /\ owned' = owned
         /\ header'.RootPageID = p
         /\ fileHeader'.RootPageID \in {p, fileHeader.RootPageID}
         /\ SetRootPage(p) => fileHeader' = header'
<1>1. PagerInv'
  BY SetRootKeepsInv DEF PagesInv
<1>2. /\ UNCHANGED <<buffer, filePages, owned>>
      /\ header' = [header EXCEPT !.RootPageID = p]
      /\ fileHeader' \in {header', fileHeader}
      /\ SetRootPage(p) => fileHeader' = header'
  BY DEF SetRootPage, SetRootPageFails, WriteHeader, WriteHeaderFails
<1>3. header'.RootPageID = p /\ header'.FreeListHead = header.FreeListHead
  BY <1>2, PageNumbers DEF PagerTypeOK, Header
<1>4. \A q : NodeAt(q)' = NodeAt(q) /\ NodeOnFile(q)' = NodeOnFile(q)
  BY <1>2 DEF NodeAt, NodeOnFile, View
<1>5. NodesOK' /\ NodesUnchanged
  BY <1>2, <1>4 DEF PagesInv, NodesOK, NodesUnchanged
<1>6. /\ fileHeader'.RootPageID \in {p, fileHeader.RootPageID}
      /\ fileHeader'.FreeListHead \in {header.FreeListHead, fileHeader.FreeListHead}
  BY <1>2, <1>3
<1>7. NothingFree' /\ RootsInUse'
  BY <1>2, <1>3, <1>6 DEF PagesInv, NothingFree, RootsInUse
<1> QED BY <1>1, <1>2, <1>3, <1>5, <1>6, <1>7 DEF PagesInv

LEMMA OpenEffect ==
  ASSUME PagesInv, OpenPager
  PROVE  /\ PagesInv' /\ NodesUnchanged
         /\ UNCHANGED <<fileHeader, owned>> /\ header' = fileHeader
<1>1. PagerInv'
  BY OpenKeepsInv DEF PagesInv
<1>2. /\ UNCHANGED <<filePages, owned, fileHeader>> /\ header' = fileHeader
      /\ DOMAIN buffer' = {} /\ dirty = {}
  BY DEF OpenPager
<1>3. \A q \in DOMAIN filePages : View(q)' = View(q)
  BY <1>2, PageNumbers DEF View, CacheCoherent
<1>4. NodesUnchanged /\ \A q : NodeOnFile(q)' = NodeOnFile(q)
  BY <1>2, <1>3 DEF NodesUnchanged, NodeAt, NodeOnFile
<1>5. NodesOK'
  BY <1>2, <1>4 DEF PagesInv, NodesOK, NodesUnchanged
<1> QED BY <1>1, <1>2, <1>4, <1>5 DEF PagesInv, NothingFree, RootsInUse

(* A kill leaves what is in the file: pages that were written back or not. *)
LEMMA CrashEffect ==
  ASSUME PagesInv, Crash
  PROVE  PagesInv' /\ UNCHANGED <<fileHeader, owned>> /\ header' = fileHeader
<1>1. /\ UNCHANGED <<owned, fileHeader>> /\ header' = fileHeader
      /\ DOMAIN buffer' = {} /\ dirty' = {} /\ open' \in BOOLEAN
      /\ buffer' \in [DOMAIN buffer' -> Page]
  BY DEF Crash
<1> DEFINE Kept == /\ DOMAIN filePages' = DOMAIN filePages
                   /\ filePages' \in [DOMAIN filePages' -> Page]
                   /\ \A q \in DOMAIN filePages : filePages'[q] \in {filePages[q], View(q)}
<1>2. Kept
  <2>1. CASE filePages' = filePages
    BY <2>1, PageNumbers DEF PagerTypeOK
  <2>2. ASSUME NEW S \in SUBSET (dirty \cap DOMAIN buffer), WriteBack(S)
        PROVE  Kept
    <3>1. /\ S \subseteq DOMAIN buffer /\ DOMAIN buffer \subseteq DOMAIN filePages
          /\ \A q \in DOMAIN buffer : buffer[q] \in Page
          /\ \A q \in DOMAIN filePages : filePages[q] \in Page
      BY PageNumbers DEF PagerTypeOK
    <3>2. filePages' = [q \in DOMAIN filePages |->
                          IF q \in S THEN buffer[q] ELSE filePages[q]]
      BY <2>2, <3>1 DEF WriteBack
    <3>3. \A q \in DOMAIN filePages :
            (IF q \in S THEN buffer[q] ELSE filePages[q]) \in Page
      BY <3>1
    <3> QED BY <3>1, <3>2, <3>3 DEF View
  <2> QED BY <2>1, <2>2 DEF Crash
<1>3. PagesOK' /\ CacheCoherent'
  BY <1>1, <1>2, PageNumbers DEF PagesOK, CacheCoherent, PagerTypeOK
<1>4. /\ header' \in Header /\ fileHeader' \in Header
      /\ fileHeader'.PageCount <= header'.PageCount
      /\ owned' \subseteq DOMAIN filePages' \cap 1..(fileHeader'.PageCount - 1)
  <2>1. fileHeader \in Header /\ fileHeader.PageCount \in Nat
    BY PageNumbers, LimitAssumption DEF PagerTypeOK, Header
  <2>2. owned \subseteq 1..(fileHeader.PageCount - 1)
    BY DEF PagesInv, PagerInv, FileHeaderSound
  <2> QED BY <1>1, <1>2, <2>1, <2>2, PageNumbers
<1>5. IsFreeList({}, header.FreeListHead, header.PageCount)'
      /\ IsFreeList({}, fileHeader.FreeListHead, fileHeader.PageCount)'
  BY <1>1 DEF PagesInv, NothingFree, IsFreeList
<1>6. PagerInv'
  BY <1>3, <1>4, <1>5, InvFromLists
<1>7. \A q \in DOMAIN filePages : View(q)' = filePages'[q]
  BY <1>1, <1>2 DEF View
<1>8. \A q : NodeAt(q)' = NodeOnFile(q)' /\ NodeOnFile(q)' \in {NodeOnFile(q), NodeAt(q)}
  BY <1>2, <1>7 DEF NodeAt, NodeOnFile
<1>9. NodesOK'
  BY <1>1, <1>8 DEF PagesInv, NodesOK
<1> QED BY <1>1, <1>6, <1>9 DEF PagesInv, NothingFree, RootsInUse

-----------------------------------------------------------------------------
(* The steps of the tree.                                                  *)

(* Nothing that named pages in use stops doing so when another is allocated. *)
LEMMA LocalsMore ==
  ASSUME NEW S, NEW T, S \subseteq T, LocalsOver(S)
  PROVE  LocalsOver(T)
<1>1. Frames(S) \subseteq Frames(T) /\ Writes(S) \subseteq Writes(T)
  BY NodeOverMore DEF Frames, Writes
<1>2. stack \in Seq(Frames(T)) /\ todo \in Seq(Writes(T))
  BY <1>1, SeqMonotonic DEF LocalsOver
<1> QED BY <1>2 DEF LocalsOver

LEMMA InvFacts ==
  ASSUME TreeInv
  PROVE  /\ PagesInv /\ OpOK /\ PlacesOK /\ CountsOK
         /\ stack \in Seq(Frames(owned)) /\ todo \in Seq(Writes(owned))
         /\ \A p \in 0..PageLimit : NodeAt(p) = Zeros \/ NodeOver(NodeAt(p), owned)
         /\ owned \subseteq 1..PageLimit
BY PageNumbers DEF TreeInv, LocalsOver, PagesInv, NodesOK

(* An operation that returns leaves nothing behind.                        *)
LEMMA FinishInv ==
  ASSUME PagesInv', NEW out, Finish(out), faults' \in 0..(MaxFaults + 1),
         header'.RootPageID \in owned', fileHeader'.RootPageID \in owned'
  PROVE  TreeInv'
<1>1. /\ pc' = "idle" /\ op' = NoOp /\ cur' = 0 /\ stack' = <<>> /\ todo' = <<>>
      /\ split' = NoSplit /\ acc' = <<>>
  BY DEF Finish
<1>2. LocalsOver(owned)'
  BY <1>1 DEF LocalsOver
<1>3. OpOK' /\ PlacesOK' /\ CountsOK'
  BY <1>1 DEF OpOK, PlacesOK, CountsOK, NoOp
<1> QED BY <1>2, <1>3 DEF TreeInv

(* An operation on the tree has a root to start from.                      *)
LEMMA RootsThere ==
  ASSUME TreeInv, op.kind # "open", pc # "closed"
  PROVE  header.RootPageID \in owned /\ fileHeader.RootPageID \in owned
BY DEF TreeInv, PlacesOK

(* Returning after a call that changed no page in use and no root.         *)
LEMMA ReturnInv ==
  ASSUME TreeInv, op.kind # "open", pc # "closed",
         PagesInv', owned' = owned, header'.RootPageID = header.RootPageID,
         fileHeader'.RootPageID \in {header.RootPageID, fileHeader.RootPageID},
         NEW out, Finish(out), faults' \in 0..(MaxFaults + 1)
  PROVE  TreeInv'
BY RootsThere, FinishInv

LEMMA SamePages ==
  ASSUME PagesInv, UNCHANGED pagerVars
  PROVE  PagesInv' /\ PagesUnchanged
BY DEF PagesInv, PagerInv, PagerTypeOK, CacheCoherent, FreeListSound, FileHeaderSound,
       IsFreeList, View, NodesOK, NodeAt, NodeOnFile, NothingFree, RootsInUse, pagerVars,
       PagesUnchanged, NodesUnchanged

LEMMA CallInv ==
  ASSUME TreeInv, NEW kind, NEW k, NEW v, Call(kind, k, v),
         \/ kind = "put" /\ k \in Keys /\ v \in Values
         \/ kind \in {"get", "delete"} /\ k \in Keys
         \/ kind \in {"keys", "depth"}
  PROVE  TreeInv'
<1>1. /\ pc = "idle" /\ pc' = "visit" /\ op' = [kind |-> kind, key |-> k, value |-> v]
      /\ cur' = header.RootPageID
      /\ UNCHANGED <<pagerVars, stack, todo, split, acc, faults>>
  BY DEF Call
<1>2. header.RootPageID \in owned /\ fileHeader.RootPageID \in owned
  BY <1>1 DEF TreeInv, PlacesOK
<1>3. PagesInv'
  BY <1>1, SamePages DEF TreeInv
<1>4. LocalsOver(owned)'
  BY <1>1, <1>2 DEF TreeInv, LocalsOver, pagerVars
<1>5. OpOK'
  BY <1>1 DEF OpOK
<1>6. PlacesOK' /\ CountsOK'
  BY <1>1, <1>2 DEF TreeInv, PlacesOK, CountsOK, pagerVars
<1> QED BY <1>3, <1>4, <1>5, <1>6 DEF TreeInv

LEMMA NodeRead ==
  ASSUME TreeInv, pc \in {"visit", "scan"}
  PROVE  cur \in owned /\ (IsNode(cur) => NodeOver(NodeAt(cur), owned))
BY InvFacts DEF TreeInv, LocalsOver, IsNode

LEMMA DescendInv ==
  ASSUME TreeInv, Descend
  PROVE  TreeInv'
<1>0. PICK n, i : /\ n = NodeAt(cur)
                  /\ i = IF op.kind \in {"keys", "depth"} THEN 1 ELSE childIdx(n, op.key)
  OBVIOUS
<1>1. /\ pc = "visit" /\ ReadPage(cur) /\ ~IsLeaf(n) /\ IsNode(cur)
      /\ stack' = Append(stack, [page |-> cur, node |-> n, idx |-> i])
      /\ cur' = childAt(n, i)
      /\ UNCHANGED <<pc, op, todo, split, acc, faults>>
  BY <1>0 DEF Descend
<1>2. cur \in owned /\ NodeOver(n, owned)
  BY <1>0, <1>1, NodeRead
<1>3. i \in 1..(Len(n.keys) + 1)
  <2>1. n.keys \in Seq(Keys) /\ Len(n.keys) \in Nat
    BY <1>2, NodeFacts
  <2>2. CASE op.kind \in {"keys", "depth"}
    BY <1>0, <2>1, <2>2
  <2>3. CASE op.kind \notin {"keys", "depth"}
    <3>1. op.key \in Keys
      BY <1>1, <2>3 DEF TreeInv, PlacesOK, OpOK
    <3>2. i = childIdx(n, op.key)
      BY <1>0, <2>3
    <3> QED BY <2>1, <3>1, <3>2, ChildIdxFacts
  <2> QED BY <2>2, <2>3
<1>4. childAt(n, i) \in owned
  BY <1>1, <1>2, <1>3, ChildAtFacts
<1>5. PagesInv' /\ UNCHANGED <<header, fileHeader, owned>>
  BY <1>1, <1>2, ReadEffect DEF TreeInv, PagesUnchanged
<1>6. LocalsOver(owned)'
  <2>1. [page |-> cur, node |-> n, idx |-> i] \in Frames(owned)
    <3>1. n \in NodeType /\ cur \in 1..PageLimit /\ i \in Nat
      BY <1>2, <1>3, InvFacts DEF NodeOver
    <3> QED BY <1>1, <1>2, <1>3, <3>1 DEF Frames, Frame
  <2>2. stack' \in Seq(Frames(owned))
    BY <1>1, <2>1, InvFacts, AppendProperties
  <2> QED BY <1>1, <1>4, <1>5, <2>2 DEF TreeInv, LocalsOver
<1>7. OpOK' /\ PlacesOK' /\ CountsOK'
  BY <1>1, <1>5 DEF TreeInv, OpOK, PlacesOK, CountsOK
<1> QED BY <1>5, <1>6, <1>7 DEF TreeInv

(* The steps at a leaf that go on to write it.                             *)
LEMMA LeafWriteInv ==
  ASSUME TreeInv, NEW kind \in {"put", "delete"}, AtLeaf(kind),
         NEW m, NodeOver(m, owned), todo' = <<[page |-> cur, node |-> m]>>,
         pc' = "write" \/ (pc' = "alloc" /\ Len(m.keys) > 0),
         UNCHANGED <<op, cur, stack, split, acc, faults>>
  PROVE  TreeInv'
<1>1. pc = "visit" /\ op.kind = kind /\ ReadPage(cur) /\ cur \in owned
  BY NodeRead DEF AtLeaf
<1>2. PagesInv' /\ UNCHANGED <<header, fileHeader, owned>>
  BY <1>1, ReadEffect DEF TreeInv, PagesUnchanged
<1>3. [page |-> cur, node |-> m] \in Writes(owned)
  BY <1>1, InvFacts DEF Writes, NodeWrite, NodeOver
<1>4. todo' \in Seq(Writes(owned)) /\ todo' # <<>> /\ todo'[1].node = m
  BY <1>3
<1>5. LocalsOver(owned)'
  BY <1>1, <1>2, <1>4 DEF TreeInv, LocalsOver
<1>6. OpOK' /\ PlacesOK' /\ CountsOK'
  BY <1>1, <1>2, <1>4 DEF TreeInv, OpOK, PlacesOK, CountsOK
<1> QED BY <1>2, <1>5, <1>6 DEF TreeInv

LEMMA InsertLeafInv ==
  ASSUME TreeInv, InsertLeaf
  PROVE  TreeInv'
<1>0. PICK n, m : n = NodeAt(cur) /\ m = leafWith(n, op.key, op.value)
  OBVIOUS
<1>1. /\ AtLeaf("put") /\ IsLeaf(n)
      /\ todo' = <<[page |-> cur, node |-> m]>>
      /\ pc' \in {"alloc", "write"}
      /\ UNCHANGED <<op, cur, stack, split, acc, faults>>
  BY <1>0 DEF InsertLeaf, AtLeaf
<1>2. NodeOver(n, owned) /\ op.key \in Keys /\ op.value \in Values
  BY <1>0, <1>1, NodeRead DEF AtLeaf, TreeInv, OpOK
<1>3. NodeOver(m, owned) /\ Len(m.keys) > 0
  BY <1>0, <1>1, <1>2, LeafWithOver, InvFacts
<1> QED BY <1>1, <1>3, LeafWriteInv

LEMMA DeleteLeafInv ==
  ASSUME TreeInv, DeleteLeaf
  PROVE  TreeInv'
<1>0. PICK n, m : n = NodeAt(cur) /\ m = leafWithout(n, op.key)
  OBVIOUS
<1>1. /\ AtLeaf("delete") /\ IsLeaf(n) /\ HasKey(n, op.key)
      /\ todo' = <<[page |-> cur, node |-> m]>>
      /\ pc' = "write"
      /\ UNCHANGED <<op, cur, stack, split, acc, faults>>
  BY <1>0 DEF DeleteLeaf, AtLeaf
<1>2. NodeOver(n, owned)
  BY <1>0, <1>1, NodeRead DEF AtLeaf
<1>3. NodeOver(m, owned)
  BY <1>0, <1>1, <1>2, LeafWithoutOver, InvFacts
<1> QED BY <1>1, <1>3, LeafWriteInv

(* The steps that read a page and return.                                  *)
LEMMA ReadAndReturnInv ==
  ASSUME TreeInv, pc \in {"visit", "scan"}, ReadPage(cur), NEW out, Return(out)
  PROVE  TreeInv'
<1>1. cur \in owned /\ op.kind # "open"
  BY NodeRead DEF TreeInv, PlacesOK
<1>2. PagesInv' /\ UNCHANGED <<header, fileHeader, owned>>
  BY <1>1, ReadEffect DEF TreeInv, PagesUnchanged
<1>3. Finish(out) /\ faults' \in 0..(MaxFaults + 1)
  BY DEF Return, TreeInv, CountsOK
<1> QED BY <1>1, <1>2, <1>3, ReturnInv

LEMMA LeftmostLeafInv ==
  ASSUME TreeInv, LeftmostLeaf
  PROVE  TreeInv'
<1>1. /\ pc = "visit" /\ pc' = "scan" /\ op.kind = "keys" /\ ReadPage(cur) /\ cur \in owned
      /\ UNCHANGED <<op, cur, stack, todo, split, acc, faults>>
  BY NodeRead DEF LeftmostLeaf, AtLeaf
<1>2. PagesInv' /\ UNCHANGED <<header, fileHeader, owned>>
  BY <1>1, ReadEffect DEF TreeInv, PagesUnchanged
<1>3. LocalsOver(owned)'
  BY <1>1, <1>2 DEF TreeInv, LocalsOver
<1>4. OpOK' /\ PlacesOK' /\ CountsOK'
  BY <1>1, <1>2 DEF TreeInv, OpOK, PlacesOK, CountsOK
<1> QED BY <1>2, <1>3, <1>4 DEF TreeInv

LEMMA ScanLeafInv ==
  ASSUME TreeInv, ScanLeaf
  PROVE  TreeInv'
<1>0. PICK n : n = NodeAt(cur)
  OBVIOUS
<1>1. pc = "scan" /\ ReadPage(cur) /\ IsNode(cur)
  BY DEF ScanLeaf
<1>2. CASE n.rightPtr = 0
  BY <1>0, <1>1, <1>2, ReadAndReturnInv DEF ScanLeaf
<1>3. CASE n.rightPtr # 0
  <2>1. /\ acc' = acc \o n.keys /\ cur' = n.rightPtr
        /\ UNCHANGED <<pc, op, stack, todo, split, faults>>
    BY <1>0, <1>3 DEF ScanLeaf
  <2>2. cur \in owned /\ NodeOver(n, owned)
    BY <1>0, <1>1, NodeRead
  <2>3. cur' \in owned
    BY <1>3, <2>1, <2>2 DEF NodeOver
  <2>4. PagesInv' /\ UNCHANGED <<header, fileHeader, owned>>
    BY <1>1, <2>2, ReadEffect DEF TreeInv, PagesUnchanged
  <2>5. acc' \in Seq(Keys)
    <3>1. acc \in Seq(Keys) /\ n.keys \in Seq(Keys)
      BY <2>2, NodeFacts DEF TreeInv, CountsOK
    <3> QED BY <2>1, <3>1, ConcatProperties
  <2>6. LocalsOver(owned)'
    BY <1>1, <2>1, <2>3, <2>4 DEF TreeInv, LocalsOver
  <2>7. OpOK' /\ PlacesOK' /\ CountsOK'
    BY <1>1, <2>1, <2>4, <2>5 DEF TreeInv, OpOK, PlacesOK, CountsOK
  <2> QED BY <2>4, <2>6, <2>7 DEF TreeInv
<1> QED BY <1>2, <1>3

(* splitLeaf and splitInternal take the node that was too heavy apart.     *)
LEMMA AllocSplitInv ==
  ASSUME TreeInv, AllocSplit
  PROVE  TreeInv'
<1>0. PICK n, q, new, s, S :
        /\ n = todo[1].node /\ q = todo[1].page /\ new = NextPage /\ s = splitNode(n, new)
        /\ S = owned'
  OBVIOUS
<1>1. /\ pc = "alloc" /\ AllocatePage /\ pc' = "write"
      /\ todo' = <<[page |-> q, node |-> s.left], [page |-> new, node |-> s.right]>>
      /\ split' = [key |-> s.key, child |-> new]
      /\ UNCHANGED <<op, cur, stack, acc, faults>>
  BY <1>0 DEF AllocSplit
<1>2. /\ todo[1] \in Writes(owned) /\ Len(n.keys) > 0
  <2>1. todo # <<>> /\ todo \in Seq(Writes(owned)) /\ Len(n.keys) > 0
    BY <1>0, <1>1, InvFacts DEF TreeInv, PlacesOK
  <2> QED BY <2>1
<1>3. /\ PagesInv' /\ S = owned \cup {new} /\ new \in S /\ S \subseteq 1..PageLimit
      /\ header'.RootPageID = header.RootPageID /\ fileHeader' = header'
  BY <1>0, <1>1, AllocateEffect, InvFacts
<1>4. q \in S /\ NodeOver(n, S)
  BY <1>0, <1>2, <1>3, NodeOverMore DEF Writes
<1>5. NodeOver(s.left, S) /\ NodeOver(s.right, S) /\ s.key \in Keys
  BY <1>0, <1>2, <1>3, <1>4, SplitOver
<1>6. todo' \in Seq(Writes(S)) /\ todo' # <<>>
  <2>1. /\ [page |-> q, node |-> s.left] \in Writes(S)
        /\ [page |-> new, node |-> s.right] \in Writes(S)
    BY <1>3, <1>4, <1>5 DEF Writes, NodeWrite, NodeOver
  <2> QED BY <1>1, <2>1
<1>7. LocalsOver(S)
  BY <1>3, LocalsMore DEF TreeInv
<1>8. LocalsOver(owned)'
  BY <1>0, <1>1, <1>3, <1>5, <1>6, <1>7 DEF LocalsOver
<1>9. op.kind # "open"
  BY <1>1 DEF TreeInv, PlacesOK
<1>10. OpOK' /\ PlacesOK' /\ CountsOK'
  BY <1>0, <1>1, <1>3, <1>6, <1>9, RootsThere DEF TreeInv, OpOK, PlacesOK, CountsOK
<1> QED BY <1>3, <1>8, <1>10 DEF TreeInv

(* writeNode.                                                              *)
LEMMA WriteNodeInv ==
  ASSUME NodeType \subseteq Body, TreeInv, WriteNode
  PROVE  TreeInv'
<1>0. PICK n, q : n = todo[1].node /\ q = todo[1].page
  OBVIOUS
<1>1. /\ pc \in {"write", "writeroot"} /\ WritePage(q, serializeNode(n))
      /\ todo' = Tail(todo)
      /\ pc' = IF Len(todo) > 1 THEN pc
               ELSE IF pc = "write" THEN "unwind" ELSE "setroot"
      /\ UNCHANGED <<op, cur, stack, split, acc, faults>>
  BY <1>0 DEF WriteNode
<1>2. todo # <<>> /\ todo \in Seq(Writes(owned))
  BY <1>1, InvFacts DEF TreeInv, PlacesOK
<1>3. q \in owned /\ NodeOver(n, owned)
  <2>1. todo[1] \in Writes(owned)
    BY <1>2
  <2> QED BY <1>0, <2>1 DEF Writes
<1>4. PagesInv' /\ UNCHANGED <<header, fileHeader, owned>>
  BY <1>1, <1>3, WriteEffect DEF TreeInv
<1>5. todo' \in Seq(Writes(owned)) /\ (Len(todo) > 1 => todo' # <<>>)
  <2>1. PICK more : more = Tail(todo)
    OBVIOUS
  <2>2. more \in Seq(Writes(owned)) /\ Len(more) = Len(todo) - 1 /\ Len(todo) \in Nat
    BY <1>2, <2>1, HeadTailProperties
  <2>3. Len(todo) > 1 => more # <<>>
    BY <2>2
  <2> QED BY <1>1, <2>1, <2>2, <2>3
<1>6. LocalsOver(owned)'
  BY <1>1, <1>4, <1>5 DEF TreeInv, LocalsOver
<1>7. pc' = "writeroot" => op.kind # "open"
  <2>1. CASE pc = "write"
    BY <1>1, <2>1 DEF TreeInv, PlacesOK
  <2>2. CASE pc = "writeroot"
    <3>1. pc' = "writeroot" => ~(Len(todo) = 1)
      BY <1>1, <2>2
    <3> QED BY <2>2, <3>1 DEF TreeInv, PlacesOK
  <2> QED BY <1>1, <2>1, <2>2
<1>8. OpOK' /\ PlacesOK' /\ CountsOK'
  BY <1>1, <1>4, <1>5, <1>7 DEF TreeInv, OpOK, PlacesOK, CountsOK
<1> QED BY <1>4, <1>6, <1>8 DEF TreeInv

(* The first root is empty, so it fits its page.                           *)
LEMMA EmptyLeafSize == nodeSize(LeafNode(<<>>, <<>>, 0)) = 0
<1>1. nodeSize(LeafNode(<<>>, <<>>, 0)) = SumOf(<<>>)
  <2>1. LeafNode(<<>>, <<>>, 0).keys = <<>> /\ IsLeaf(LeafNode(<<>>, <<>>, 0))
    BY DEF LeafNode, IsLeaf
  <2>2. \A f : [i \in DOMAIN <<>> |-> f[i]] = <<>>
    OBVIOUS
  <2> QED BY <2>1, <2>2 DEF nodeSize, leafNodeSize
<1>2. SumOf(<<>>) = 0
  <2>0. PICK none : none = <<>>
    OBVIOUS
  <2> DEFINE Folds(f) == f = [s \in SUBSET DOMAIN none |->
                                IF s = {} THEN 0 ELSE f[s \ {Max(s)}] + none[Max(s)]]
             fold == CHOOSE f : Folds(f)
  <2>1. DOMAIN none = {}
    BY <2>0
  <2>2. Folds([s \in SUBSET DOMAIN none |-> 0])
    BY <2>1
  <2>3. Folds(fold)
    BY <2>2
  <2>4. fold[DOMAIN none] = 0
    BY <2>1, <2>3
  <2> QED BY <2>0, <2>4 DEF SumOf, FoldLeft, MapThenFoldSet
<1> QED BY <1>1, <1>2

LEMMA WriteOverflowInv ==
  ASSUME TreeInv, WriteOverflow
  PROVE  TreeInv'
<1>1. /\ pc \in {"write", "writeroot"} /\ nodeSize(todo[1].node) > cellAreaSize
      /\ Finish("error") /\ faults' = faults /\ UNCHANGED pagerVars
  BY DEF WriteOverflow, Return
<1>2. op.kind # "open"
  BY <1>1, EmptyLeafSize, TreeAssumption DEF TreeInv, PlacesOK
<1>3. PagesInv' /\ UNCHANGED <<header, fileHeader, owned>>
  BY <1>1, SamePages DEF TreeInv, PagesUnchanged
<1>4. faults' \in 0..(MaxFaults + 1)
  BY <1>1 DEF TreeInv, CountsOK
<1> QED BY <1>1, <1>2, <1>3, <1>4, ReturnInv

(* The steps from one control point to another that call no one.           *)
LEMMA UnwindDoneInv ==
  ASSUME TreeInv, UnwindDone \/ UnwindRoot
  PROVE  TreeInv'
<1>1. /\ pc = "unwind" /\ pc' \in {"flush", "newroot"} /\ (pc' = "newroot" => split # NoSplit)
      /\ UNCHANGED <<op, cur, stack, todo, split, acc, faults>> /\ UNCHANGED pagerVars
  BY DEF UnwindDone, UnwindRoot
<1>2. PagesInv' /\ UNCHANGED <<header, fileHeader, owned>>
  BY <1>1, SamePages DEF TreeInv, PagesUnchanged
<1>3. LocalsOver(owned)'
  BY <1>1, <1>2 DEF TreeInv, LocalsOver
<1>4. OpOK' /\ PlacesOK' /\ CountsOK'
  BY <1>1, <1>2 DEF TreeInv, OpOK, PlacesOK, CountsOK
<1> QED BY <1>2, <1>3, <1>4 DEF TreeInv

LEMMA LastFrame ==
  ASSUME NEW S, NEW s \in Seq(S), s # <<>>
  PROVE  Last(s) \in S /\ Front(s) \in Seq(S)
<1>1. Len(s) \in 1..Len(s) /\ Len(s) \in Nat
  BY EmptySeq
<1>2. s[Len(s)] \in S
  BY <1>1, ElementOfSeq
<1>3. 1 \in 1..(Len(s) + 1) /\ Len(s) - 1 \in (1 - 1)..Len(s)
  BY <1>1
<1>4. SubSeq(s, 1, Len(s) - 1) \in Seq(S)
  BY <1>3, SubSeqProperties
<1> QED BY <1>2, <1>4 DEF Last, Front

(* insertInternal adds the separator to the node it read on the way down.  *)
LEMMA UnwindInternalInv ==
  ASSUME TreeInv, UnwindInternal
  PROVE  TreeInv'
<1>0. PICK f, n : f = Last(stack) /\ n = internalWith(f.node, f.idx, split)
  OBVIOUS
<1>1. /\ pc = "unwind" /\ split # NoSplit /\ stack # <<>>
      /\ todo' = <<[page |-> f.page, node |-> n]>> /\ pc' \in {"alloc", "write"}
      /\ split' = NoSplit /\ stack' = Front(stack)
      /\ UNCHANGED <<op, cur, acc, faults>> /\ UNCHANGED pagerVars
  BY <1>0 DEF UnwindInternal
<1>2. f \in Frames(owned) /\ stack' \in Seq(Frames(owned))
  BY <1>0, <1>1, InvFacts, LastFrame
<1>3. NodeOver(n, owned) /\ Len(n.keys) > 0
  <2>1. split.key \in Keys /\ split.child \in owned
    BY <1>1 DEF TreeInv, LocalsOver
  <2> QED BY <1>0, <1>2, <2>1, InvFacts, InternalWithOver DEF Frames
<1>4. [page |-> f.page, node |-> n] \in Writes(owned)
  BY <1>2, <1>3, InvFacts DEF Frames, Writes, NodeWrite, NodeOver
<1>5. todo' \in Seq(Writes(owned)) /\ todo' # <<>> /\ todo'[1].node = n
  BY <1>1, <1>4
<1>6. PagesInv' /\ UNCHANGED <<header, fileHeader, owned>>
  BY <1>1, SamePages DEF TreeInv, PagesUnchanged
<1>7. LocalsOver(owned)'
  BY <1>1, <1>2, <1>5, <1>6 DEF TreeInv, LocalsOver
<1>8. OpOK' /\ PlacesOK' /\ CountsOK'
  BY <1>1, <1>3, <1>5, <1>6 DEF TreeInv, OpOK, PlacesOK, CountsOK
<1> QED BY <1>6, <1>7, <1>8 DEF TreeInv

(* The new root lies above the old one and the page split off from it.     *)
LEMMA AllocRootInv ==
  ASSUME TreeInv, AllocRoot
  PROVE  TreeInv'
<1>0. PICK new, S, n :
        /\ new = NextPage /\ S = owned'
        /\ n = IF op.kind = "open" THEN LeafNode(<<>>, <<>>, 0)
               ELSE InternalNode(<<split.key>>, <<header.RootPageID>>, split.child)
  OBVIOUS
<1>1. /\ pc = "newroot" /\ AllocatePage /\ pc' = "writeroot" /\ cur' = new
      /\ todo' = <<[page |-> new, node |-> n]>> /\ split' = NoSplit
      /\ UNCHANGED <<op, stack, acc, faults>>
  BY <1>0 DEF AllocRoot
<1>2. /\ PagesInv' /\ S = owned \cup {new} /\ new \in S /\ S \subseteq 1..PageLimit
      /\ header'.RootPageID = header.RootPageID /\ fileHeader' = header'
  BY <1>0, <1>1, AllocateEffect, InvFacts
<1>3. NodeOver(n, S)
  <2>1. CASE op.kind = "open"
    <3>1. <<>> \in Seq(Keys) /\ <<>> \in Seq(Values) /\ 0 \in S \cup {0}
      OBVIOUS
    <3> QED BY <1>0, <1>2, <2>1, <3>1, LeafNodeOver
  <2>2. CASE op.kind # "open"
    <3>1. split.key \in Keys /\ split.child \in S /\ header.RootPageID \in S
      BY <1>1, <1>2, <2>2, RootsThere DEF TreeInv, PlacesOK, LocalsOver
    <3>2. /\ <<split.key>> \in Seq(Keys) /\ <<header.RootPageID>> \in Seq(S)
          /\ Len(<<split.key>>) = Len(<<header.RootPageID>>)
      BY <3>1
    <3> QED BY <1>0, <1>2, <2>2, <3>1, <3>2, InternalNodeOver
  <2> QED BY <2>1, <2>2
<1>4. [page |-> new, node |-> n] \in Writes(S)
  BY <1>2, <1>3 DEF Writes, NodeWrite, NodeOver
<1>5. todo' \in Seq(Writes(S)) /\ todo' # <<>> /\ todo'[1].node = n /\ Len(todo') = 1
  BY <1>1, <1>4
<1>6. LocalsOver(S)
  BY <1>2, LocalsMore DEF TreeInv
<1>7. LocalsOver(owned)'
  BY <1>0, <1>1, <1>2, <1>5, <1>6 DEF LocalsOver
<1>8. op.kind = "open" => n = LeafNode(<<>>, <<>>, 0)
  BY <1>0
<1>9. op.kind # "open" => header.RootPageID \in owned
  BY <1>1, RootsThere
<1>10. OpOK' /\ PlacesOK' /\ CountsOK'
  BY <1>0, <1>1, <1>2, <1>5, <1>8, <1>9 DEF TreeInv, OpOK, PlacesOK, CountsOK
<1> QED BY <1>2, <1>7, <1>10 DEF TreeInv

LEMMA SetRootInv ==
  ASSUME TreeInv, SetRoot
  PROVE  TreeInv'
<1>1. pc = "setroot" /\ SetRootPage(cur) /\ cur \in owned
  BY DEF SetRoot, TreeInv, LocalsOver
<1>2. /\ PagesInv' /\ owned' = owned
      /\ header'.RootPageID = cur /\ fileHeader'.RootPageID = cur
  BY <1>1, SetRootEffect DEF TreeInv
<1>3. CASE op.kind = "open"
  <2>1. Finish("ok") /\ faults' \in 0..(MaxFaults + 1)
    BY <1>3 DEF SetRoot, Return, TreeInv, CountsOK
  <2> QED BY <1>1, <1>2, <2>1, FinishInv
<1>4. CASE op.kind # "open"
  <2>1. pc' = "flush" /\ UNCHANGED <<op, cur, stack, todo, split, acc, faults>>
    BY <1>4 DEF SetRoot
  <2>2. LocalsOver(owned)'
    BY <1>1, <1>2, <2>1 DEF TreeInv, LocalsOver
  <2>3. OpOK' /\ PlacesOK' /\ CountsOK'
    BY <1>1, <1>2, <1>4, <2>1 DEF TreeInv, OpOK, PlacesOK, CountsOK
  <2> QED BY <1>2, <2>2, <2>3 DEF TreeInv
<1> QED BY <1>3, <1>4

LEMMA FlushTreeInv ==
  ASSUME TreeInv, FlushTree
  PROVE  TreeInv'
<1>1. pc = "flush" /\ Flush /\ Finish("ok") /\ faults' = faults
  BY DEF FlushTree, Return
<1>2. op.kind # "open" /\ faults' \in 0..(MaxFaults + 1)
  BY <1>1 DEF TreeInv, PlacesOK, CountsOK
<1>3. PagesInv' /\ UNCHANGED <<header, fileHeader, owned>>
  BY <1>1, FlushEffect DEF TreeInv, PagesUnchanged
<1> QED BY <1>1, <1>2, <1>3, ReturnInv

(* Calls that fail, and a file that is full.                               *)
LEMMA FailedCallInv ==
  ASSUME TreeInv, op.kind # "open", PagerCallFails, NEW out, Finish(out),
         faults' \in 0..(MaxFaults + 1)
  PROVE  TreeInv'
<1>1. CASE pc \in {"visit", "scan"} /\ UNCHANGED pagerVars
  <2>1. PagesInv' /\ UNCHANGED <<header, fileHeader, owned>>
    BY <1>1, SamePages DEF TreeInv, PagesUnchanged
  <2> QED BY <1>1, <2>1, ReturnInv
<1>2. CASE pc \in {"alloc", "newroot"} /\ AllocatePageFails
  <2>1. /\ PagesInv' /\ owned' = owned /\ fileHeader' = fileHeader
        /\ header'.RootPageID = header.RootPageID
    BY <1>2, AllocateFailsEffect DEF TreeInv
  <2> QED BY <1>2, <2>1, ReturnInv
<1>3. CASE pc = "setroot" /\ SetRootPageFails(cur)
  <2>1. cur \in owned
    BY <1>3 DEF TreeInv, LocalsOver
  <2>2. /\ PagesInv' /\ owned' = owned /\ header'.RootPageID = cur
        /\ fileHeader'.RootPageID \in {cur, fileHeader.RootPageID}
    BY <1>3, <2>1, SetRootEffect DEF TreeInv
  <2>3. fileHeader.RootPageID \in owned
    BY <1>3, RootsThere
  <2> QED BY <2>1, <2>2, <2>3, FinishInv
<1>4. CASE pc = "flush" /\ FlushFails
  <2>1. PagesInv' /\ UNCHANGED <<header, fileHeader, owned>>
    BY <1>4, FlushEffect DEF TreeInv, PagesUnchanged
  <2> QED BY <1>4, <2>1, ReturnInv
<1> QED BY <1>1, <1>2, <1>3, <1>4 DEF PagerCallFails

LEMMA ErrorInv ==
  ASSUME TreeInv, PagerError \/ FileFull
  PROVE  TreeInv'
<1>1. PagerCallFails /\ Finish("error") /\ op.kind # "open"
  BY DEF PagerError, FileFull, Return, PagerCallFails
<1>2. faults' \in 0..(MaxFaults + 1)
  <2>1. faults \in 0..(MaxFaults + 1) /\ MaxFaults \in Nat
    BY TreeAssumption DEF TreeInv, CountsOK
  <2> QED BY <2>1 DEF PagerError, FileFull, Return
<1> QED BY <1>1, <1>2, FailedCallInv

LEMMA PutRejectedInv ==
  ASSUME TreeInv, NEW k, NEW v, PutRejected(k, v)
  PROVE  TreeInv'
<1>1. UNCHANGED <<pc, op, cur, stack, todo, split, acc, faults>> /\ UNCHANGED pagerVars
  BY DEF PutRejected
<1>2. PagesInv' /\ UNCHANGED <<header, fileHeader, owned>>
  BY <1>1, SamePages DEF TreeInv, PagesUnchanged
<1> QED BY <1>1, <1>2 DEF TreeInv, LocalsOver, OpOK, PlacesOK, CountsOK

-----------------------------------------------------------------------------
(* Restarts and kills.                                                     *)

LEMMA CloseTreeInv ==
  ASSUME TreeInv, CloseTree
  PROVE  TreeInv'
<1>1. /\ pc = "idle" /\ pc' = "closed" /\ Close
      /\ UNCHANGED <<op, cur, stack, todo, split, acc, faults>>
  BY DEF CloseTree
<1>2. PagesInv' /\ UNCHANGED <<header, fileHeader, owned>>
  BY <1>1, FlushEffect DEF TreeInv, PagesUnchanged
<1>3. LocalsOver(owned)'
  BY <1>1, <1>2 DEF TreeInv, LocalsOver
<1>4. OpOK' /\ PlacesOK' /\ CountsOK'
  BY <1>1, <1>2 DEF TreeInv, OpOK, PlacesOK, CountsOK
<1> QED BY <1>2, <1>3, <1>4 DEF TreeInv

LEMMA ReopenTreeInv ==
  ASSUME TreeInv, ReopenTree
  PROVE  TreeInv'
<1>1. /\ pc = "closed" /\ OpenPager
      /\ UNCHANGED <<cur, stack, todo, split, acc, faults>>
      /\ IF fileHeader.RootPageID = 0
           THEN pc' = "newroot" /\ op' = OpenOp
           ELSE pc' = "idle" /\ UNCHANGED op
  BY DEF ReopenTree
<1>2. PagesInv' /\ UNCHANGED <<fileHeader, owned>> /\ header' = fileHeader
  BY <1>1, OpenEffect DEF TreeInv
<1>3. LocalsOver(owned)'
  BY <1>1, <1>2 DEF TreeInv, LocalsOver
<1>4. fileHeader.RootPageID # 0 => fileHeader.RootPageID \in owned
  BY DEF TreeInv, PagesInv, RootsInUse
<1>5. op.kind # "open"
  BY <1>1 DEF TreeInv, PlacesOK
<1>6. OpOK' /\ PlacesOK' /\ CountsOK'
  BY <1>1, <1>2, <1>4, <1>5 DEF TreeInv, OpOK, PlacesOK, CountsOK, OpenOp
<1> QED BY <1>2, <1>3, <1>6 DEF TreeInv

LEMMA CrashInv ==
  ASSUME TreeInv, Crash
  PROVE  TreeInv'
<1>1. /\ pc' = "closed" /\ op' = NoOp /\ cur' = 0 /\ stack' = <<>> /\ todo' = <<>>
      /\ split' = NoSplit /\ acc' = <<>> /\ faults' = MaxFaults + 1
  BY DEF Crash
<1>2. PagesInv'
  BY CrashEffect DEF TreeInv
<1>3. LocalsOver(owned)'
  BY <1>1 DEF LocalsOver
<1>4. OpOK' /\ PlacesOK' /\ CountsOK'
  BY <1>1, TreeAssumption DEF OpOK, PlacesOK, CountsOK, NoOp
<1> QED BY <1>2, <1>3, <1>4 DEF TreeInv

LEMMA StutterInv ==
  ASSUME TreeInv, UNCHANGED vars
  PROVE  TreeInv'
<1>1. UNCHANGED pagerVars /\ UNCHANGED treeVars
  BY DEF vars
<1>2. PagesInv' /\ UNCHANGED <<header, fileHeader, owned>>
  BY <1>1, SamePages DEF TreeInv, PagesUnchanged
<1> QED BY <1>1, <1>2 DEF TreeInv, LocalsOver, OpOK, PlacesOK, CountsOK, treeVars

-----------------------------------------------------------------------------
(* Every behaviour, with clean restarts and with kills.                    *)

LEMMA TreeInitInv == TreeInit => TreeInv
<1> SUFFICES ASSUME TreeInit PROVE TreeInv
  OBVIOUS
<1>1. /\ PagerInit /\ pc = "newroot" /\ op = OpenOp /\ cur = 0 /\ stack = <<>>
      /\ todo = <<>> /\ split = NoSplit /\ acc = <<>> /\ faults = 0
  BY DEF TreeInit
<1>2. /\ header.FreeListHead = 0 /\ header.RootPageID = 0 /\ fileHeader = header
      /\ DOMAIN filePages = {}
  BY <1>1 DEF PagerInit
<1>3. NodesOK
  BY <1>2 DEF NodesOK, NodeAt, NodeOnFile
<1>4. PagesInv
  BY <1>1, <1>2, <1>3, InitInv DEF PagesInv, NothingFree, RootsInUse
<1>5. LocalsOver(owned)
  BY <1>1 DEF LocalsOver
<1>6. OpOK /\ PlacesOK /\ CountsOK
  BY <1>1, TreeAssumption DEF OpOK, PlacesOK, CountsOK, OpenOp
<1> QED BY <1>4, <1>5, <1>6 DEF TreeInv

AnyStep == TreeNext \/ CloseTree \/ ReopenTree \/ Crash

LEMMA ReadStepInv ==
  ASSUME TreeInv, SearchLeaf \/ DeleteMissing \/ DepthLeaf \/ BadNode
  PROVE  TreeInv'
<1>1. pc \in {"visit", "scan"} /\ ReadPage(cur)
  BY DEF SearchLeaf, DeleteMissing, DepthLeaf, BadNode, AtLeaf
<1>2. \E out : Return(out)
  BY DEF SearchLeaf, DeleteMissing, DepthLeaf, BadNode
<1> QED BY <1>1, <1>2, ReadAndReturnInv

LEMMA ClientInv ==
  ASSUME TreeInv, Client
  PROVE  TreeInv'
<1>1. CASE \E k \in Keys, v \in Values : Put(k, v)
  BY <1>1, CallInv DEF Put
<1>2. CASE \E k \in Keys, v \in Values : PutRejected(k, v)
  BY <1>2, PutRejectedInv
<1>3. CASE \E k \in Keys : Get(k)
  BY <1>3, CallInv DEF Get
<1>4. CASE \E k \in Keys : Delete(k)
  BY <1>4, CallInv DEF Delete
<1>5. CASE KeysScan \/ Depth
  BY <1>5, CallInv DEF KeysScan, Depth
<1> QED BY <1>1, <1>2, <1>3, <1>4, <1>5 DEF Client

LEMMA StepInv ==
  ASSUME NodeType \subseteq Body, TreeInv, [AnyStep]_vars
  PROVE  TreeInv'
<1>1. CASE Step
  BY <1>1, DescendInv, InsertLeafInv, DeleteLeafInv, ReadStepInv, LeftmostLeafInv,
     ScanLeafInv, AllocSplitInv, WriteNodeInv, WriteOverflowInv, UnwindDoneInv,
     UnwindInternalInv, AllocRootInv, SetRootInv, FlushTreeInv, ErrorInv DEF Step
<1> QED BY <1>1, ClientInv, CloseTreeInv, ReopenTreeInv, CrashInv, StutterInv
        DEF AnyStep, TreeNext

(* TreeInv gives the types.                                                *)
LEMMA TypesFromInv == TreeInv => TreeTypeOK
<1> SUFFICES ASSUME TreeInv PROVE TreeTypeOK
  OBVIOUS
<1>1. PagerTypeOK /\ owned \subseteq 1..PageLimit
  BY PageNumbers DEF TreeInv
<1>2. stack \in Seq(Frame) /\ todo \in Seq(NodeWrite)
  <2>1. Frames(owned) \subseteq Frame /\ Writes(owned) \subseteq NodeWrite
    BY DEF Frames, Writes
  <2> QED BY <2>1, InvFacts, SeqMonotonic
<1>3. cur \in 0..PageLimit
  BY <1>1, LimitAssumption DEF TreeInv, LocalsOver
<1>4. split.key \in Keys \cup {None} /\ split.child \in 0..PageLimit
  <2>1. CASE split = NoSplit
    BY <2>1, LimitAssumption DEF NoSplit
  <2>2. CASE split # NoSplit
    <3>1. split.key \in Keys /\ split.child \in owned
      BY <2>2 DEF TreeInv, LocalsOver
    <3>2. 1..PageLimit \subseteq 0..PageLimit
      BY LimitAssumption
    <3> QED BY <1>1, <3>1, <3>2
  <2> QED BY <2>1, <2>2
<1> QED BY <1>1, <1>2, <1>3, <1>4 DEF TreeInv, OpOK, PlacesOK, CountsOK, TreeTypeOK

(* The pages serializeNode builds are the contents pages can have.         *)
THEOREM TreeInvariant ==
  ASSUME NodeType \subseteq Body
  PROVE  TreeInit /\ [][AnyStep]_vars => []TreeInv
<1>1. TreeInv /\ [AnyStep]_vars => TreeInv'
  BY StepInv
<1> QED BY <1>1, TreeInitInv, PTL

LEMMA SpecsStep ==
  /\ TreeSpec => TreeInit /\ [][AnyStep]_vars
  /\ TreeSpecRestart => TreeInit /\ [][AnyStep]_vars
  /\ TreeFairSpec => TreeInit /\ [][AnyStep]_vars
<1>1. [TreeNext]_vars => [AnyStep]_vars
  BY DEF AnyStep
<1>2. [TreeNext \/ CloseTree \/ ReopenTree]_vars => [AnyStep]_vars
  BY DEF AnyStep
<1>3. [TreeNext \/ Crash \/ ReopenTree]_vars => [AnyStep]_vars
  BY DEF AnyStep
<1> QED BY <1>1, <1>2, <1>3, PTL DEF TreeSpec, TreeSpecRestart, TreeFairSpec

(* Every local of an operation has its type at every step, after any failure
   or kill: a frame holds a node, a page to be written holds one, and every
   page number that is followed names a page the file can have (btree.go:
   insert, insertLeaf, insertInternal, splitLeaf, splitInternal).           *)
THEOREM TreeTypeCorrect ==
  ASSUME NodeType \subseteq Body
  PROVE  /\ TreeSpec => []TreeTypeOK
         /\ TreeSpecRestart => []TreeTypeOK
         /\ TreeFairSpec => []TreeTypeOK
BY TreeInvariant, TypesFromInv, SpecsStep, PTL

(* What a walk may follow: every page the tree uses, in memory or in the file,
   is zeros or a well-formed node whose children and link are pages the tree
   uses, so neither search nor a scan ever leaves them.                     *)
NoDanglingPages == NodesOK /\ RootsInUse

(* Whatever call fails, and whatever part of a flush a kill loses, no node ever
   names a page that the tree has not allocated, and no node has more or fewer
   values or children than its keys need (deserializeNode and searchNode index
   them without a check).                                                  *)
THEOREM NoDanglingPagesEver ==
  ASSUME NodeType \subseteq Body
  PROVE  /\ TreeSpecRestart => []NoDanglingPages
         /\ TreeFairSpec => []NoDanglingPages
<1>1. TreeInv => NoDanglingPages
  BY DEF TreeInv, PagesInv, NoDanglingPages
<1> QED BY <1>1, TreeInvariant, SpecsStep, PTL

(* The tree keeps its side of the pager's contract: the pager's cache, free list
   and header stay sound under it, also across kills, which the pager's own
   specification does not have.                                            *)
THEOREM TreeKeepsPagerSound ==
  ASSUME NodeType \subseteq Body
  PROVE  /\ TreeSpecRestart => [](CacheCoherent /\ FreeListSound /\ FileHeaderSound)
         /\ TreeFairSpec => [](CacheCoherent /\ FreeListSound /\ FileHeaderSound)
<1>1. TreeInv => CacheCoherent /\ FreeListSound /\ FileHeaderSound
  BY DEF TreeInv, PagesInv, PagerInv
<1> QED BY <1>1, TreeInvariant, SpecsStep, PTL

=============================================================================

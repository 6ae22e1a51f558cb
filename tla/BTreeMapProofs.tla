--------------------------- MODULE BTreeMapProofs ---------------------------
(***************************************************************************)
(* Proofs that the tree is a map: what a search finds while operations,    *)
(* split nodes and I/O errors change the tree, for every set of keys and   *)
(* values and their lengths, every size of page, buffer and file.          *)
(***************************************************************************)
EXTENDS BTreeProofs, FiniteSetTheorems

-----------------------------------------------------------------------------
(* Search trees.  A memory m gives what is on each page; page 0 stands for *)
(* the header, as an internal node above the root.  P[j][k] is the page on *)
(* level j that the search for key k comes by, from level L, the header,   *)
(* down to level 0, a leaf.                                                *)

(* The header as a node without separators.                                *)
Header0(root) == InternalNode(<<>>, <<>>, root)

Pages0 == 0..PageLimit

AnyPage == 1..PageLimit

Route(n, k) == childAt(n, childIdx(n, k))

Ascending(s) == \A i, j \in DOMAIN s : i < j => s[i] < s[j]

(* What a search for k finds in the leaf n.                                *)
ValueIn(n, k) == IF HasKey(n, k) THEN n.values[Min(matches(n, k))] ELSE None

PathType(P, L) ==
  /\ L \in Nat /\ L > 0
  /\ P \in [0..L -> [Keys -> Pages0]]
  /\ \A k \in Keys : P[L][k] = 0

(* A page is on one level only.                                            *)
Levels(P, L) ==
  \A i, j \in 0..L : \A k, x \in Keys : P[i][k] = P[j][x] => i = j

(* The page P[j][k] holds a node, a leaf only on level 0, with its keys in order,
   and the searches for its own keys come by it.                           *)
NodeFits(m, P, j, k) ==
  LET n == m[P[j][k]] IN
  /\ NodeOver(n, AnyPage)
  /\ IsLeaf(n) <=> j = 0
  /\ Ascending(n.keys)
  /\ \A i \in DOMAIN n.keys : P[j][n.keys[i]] = P[j][k]

(* The search goes on to the next page of the path, and searches that meet on
   a page came the same way.                                               *)
Leads(m, P, j, k) == Route(m[P[j][k]], k) = P[j - 1][k]

Slot(m, P, j, k) == childIdx(m[P[j][k]], k)

Meets(m, P, j, k) ==
  \A x \in Keys : P[j - 1][x] = P[j - 1][k] =>
    P[j][x] = P[j][k] /\ Slot(m, P, j, x) = Slot(m, P, j, k)

(* Some search takes the first child, so a separator is above all keys that
   were ever on its left.                                                  *)
FirstTaken(m, P, j, k) ==
  \E x \in Keys : P[j][x] = P[j][k] /\ Slot(m, P, j, x) = 1

Tree(m, P, L) ==
  /\ PathType(P, L) /\ Levels(P, L)
  /\ \A j \in 0..L : \A k \in Keys : NodeFits(m, P, j, k)
  /\ \A j \in 1..L : \A k \in Keys :
       Leads(m, P, j, k) /\ Meets(m, P, j, k) /\ FirstTaken(m, P, j, k)

-----------------------------------------------------------------------------
(* Keys in order.                                                          *)

(* The search for k leaves the separators s at position i.                 *)
IsSlot(s, k, i) ==
  /\ i \in 1..(Len(s) + 1)
  /\ \A j \in 1..(i - 1) : s[j] <= k
  /\ i <= Len(s) => k < s[i]

LEMMA OneSlot ==
  ASSUME NEW s \in Seq(Keys), NEW k \in Keys, NEW i, NEW j, IsSlot(s, k, i), IsSlot(s, k, j)
  PROVE  i = j
<1>1. /\ Len(s) \in Nat /\ k \in Nat /\ \A a \in 1..Len(s) : s[a] \in Nat
      /\ i \in 1..(Len(s) + 1) /\ j \in 1..(Len(s) + 1)
  BY KeysAreNumbers, TreeAssumption DEF IsSlot
<1>2. CASE i < j
  <2>1. i \in 1..(j - 1) /\ i <= Len(s) /\ i \in 1..Len(s)
    BY <1>1, <1>2
  <2>2. s[i] <= k /\ k < s[i]
    BY <2>1 DEF IsSlot
  <2> QED BY <1>1, <2>1, <2>2
<1>3. CASE j < i
  <2>1. j \in 1..(i - 1) /\ j <= Len(s) /\ j \in 1..Len(s)
    BY <1>1, <1>3
  <2>2. s[j] <= k /\ k < s[j]
    BY <2>1 DEF IsSlot
  <2> QED BY <1>1, <2>1, <2>2
<1> QED BY <1>1, <1>2, <1>3

LEMMA SlotFacts ==
  ASSUME NEW n, n.keys \in Seq(Keys), NEW k \in Keys
  PROVE  IsSlot(n.keys, k, childIdx(n, k))
BY ChildIdxFacts DEF IsSlot

LEMMA SlotIs ==
  ASSUME NEW n, n.keys \in Seq(Keys), NEW k \in Keys, NEW i, IsSlot(n.keys, k, i)
  PROVE  childIdx(n, k) = i
BY SlotFacts, OneSlot

(* A new separator x between those around its position.                    *)
LEMMA InsertedAscending ==
  ASSUME NEW s \in Seq(Keys), NEW t \in Seq(Keys), NEW i, NEW x \in Keys,
         Ascending(s), Inserted(t, s, i, x), i \in 1..(Len(s) + 1),
         \A j \in 1..(i - 1) : s[j] < x,
         i <= Len(s) => x < s[i]
  PROVE  Ascending(t)
<1>0. PICK n \in Nat : n = Len(s)
  BY KeysAreNumbers
<1>1. /\ x \in Nat /\ \A a \in 1..n : s[a] \in Nat
      /\ DOMAIN s = 1..n /\ DOMAIN t = 1..(n + 1) /\ i \in 1..(n + 1)
      /\ \A a \in 1..(n + 1) : t[a] \in Nat
  BY <1>0, KeysAreNumbers, TreeAssumption DEF Inserted
<1>2. /\ \A a \in 1..(i - 1) : t[a] = s[a] /\ a \in 1..n
      /\ \A a \in (i + 1)..(n + 1) : t[a] = s[a - 1] /\ a - 1 \in 1..n
      /\ t[i] = x
  BY <1>0, <1>1 DEF Inserted
<1>3. \A a, b \in 1..n : a < b => s[a] < s[b]
  BY <1>1 DEF Ascending
<1>4. \A b \in 1..n : i <= b => x < s[b]
  <2> SUFFICES ASSUME NEW b \in 1..n, i <= b PROVE x < s[b]
    OBVIOUS
  <2>1. i \in 1..n /\ x < s[i]
    BY <1>0, <1>1
  <2>2. i = b \/ s[i] < s[b]
    BY <1>3, <2>1
  <2> QED BY <1>1, <2>1, <2>2
<1> SUFFICES ASSUME NEW a \in 1..(n + 1), NEW b \in 1..(n + 1), a < b
             PROVE  t[a] < t[b]
  BY <1>1 DEF Ascending
<1>5. CASE b < i
  <2>1. a \in 1..(i - 1) /\ b \in 1..(i - 1)
    BY <1>1, <1>5
  <2> QED BY <1>2, <1>3, <2>1
<1>6. CASE b = i
  <2>1. a \in 1..(i - 1)
    BY <1>1, <1>6
  <2> QED BY <1>2, <1>6, <2>1
<1>7. CASE b > i /\ a < i
  <2>1. a \in 1..(i - 1) /\ b \in (i + 1)..(n + 1) /\ a < b - 1
    BY <1>1, <1>7
  <2> QED BY <1>2, <1>3, <2>1
<1>8. CASE a = i
  <2>1. b \in (i + 1)..(n + 1) /\ i <= b - 1
    BY <1>1, <1>8
  <2> QED BY <1>2, <1>4, <1>8, <2>1
<1>9. CASE a > i
  <2>1. a \in (i + 1)..(n + 1) /\ b \in (i + 1)..(n + 1) /\ a - 1 < b - 1
    BY <1>1, <1>9
  <2> QED BY <1>2, <1>3, <2>1
<1> QED BY <1>1, <1>5, <1>6, <1>7, <1>8, <1>9

LEMMA InsertedKeys ==
  ASSUME NEW s \in Seq(Keys), NEW t \in Seq(Keys), NEW i, NEW x \in Keys,
         Inserted(t, s, i, x), i \in 1..(Len(s) + 1)
  PROVE  /\ \A a \in DOMAIN t : t[a] = x \/ \E b \in DOMAIN s : t[a] = s[b]
         /\ \A b \in DOMAIN s : \E a \in DOMAIN t : t[a] = s[b]
         /\ \E a \in DOMAIN t : t[a] = x
<1>0. PICK n \in Nat : n = Len(s)
  BY KeysAreNumbers
<1>1. DOMAIN s = 1..n /\ DOMAIN t = 1..(n + 1) /\ i \in 1..(n + 1)
  BY <1>0 DEF Inserted
<1>2. /\ \A a \in 1..(i - 1) : t[a] = s[a] /\ a \in 1..n
      /\ \A a \in (i + 1)..(n + 1) : t[a] = s[a - 1] /\ a - 1 \in 1..n
      /\ t[i] = x
  BY <1>0, <1>1 DEF Inserted
<1>3. \A a \in 1..(n + 1) : a \in 1..(i - 1) \/ a = i \/ a \in (i + 1)..(n + 1)
  BY <1>1
<1>4. \A b \in 1..n : b \in 1..(i - 1) \/ (b + 1 \in (i + 1)..(n + 1) /\ b + 1 - 1 = b)
  BY <1>1
<1>5. \A b \in 1..n : b \in 1..(n + 1) /\ b + 1 \in 1..(n + 1)
  OBVIOUS
<1>6. \A b \in 1..n : \E a \in 1..(n + 1) : t[a] = s[b]
  <2> SUFFICES ASSUME NEW b \in 1..n PROVE \E a \in 1..(n + 1) : t[a] = s[b]
    OBVIOUS
  <2>1. CASE b \in 1..(i - 1)
    BY <1>2, <1>5, <2>1
  <2>2. CASE b \notin 1..(i - 1)
    <3>1. PICK c : c = b + 1 /\ c \in (i + 1)..(n + 1) /\ c - 1 = b
      BY <1>4, <2>2
    <3> QED BY <1>2, <1>5, <3>1
  <2> QED BY <2>1, <2>2
<1> QED BY <1>1, <1>2, <1>3, <1>6

(* The new separator moves the searches for keys from it on by one position. *)
LEMMA InsertedSlot ==
  ASSUME NEW s \in Seq(Keys), NEW t \in Seq(Keys), NEW i, NEW x \in Keys, NEW k \in Keys, NEW a,
         Inserted(t, s, i, x), IsSlot(s, x, i), IsSlot(s, k, a)
  PROVE  /\ k < x => IsSlot(t, k, a) /\ a <= i
         /\ ~(k < x) => IsSlot(t, k, a + 1) /\ i <= a
<1>0. PICK n \in Nat : n = Len(s)
  BY KeysAreNumbers
<1>1. /\ x \in Nat /\ k \in Nat /\ \A b \in 1..n : s[b] \in Nat
      /\ i \in 1..(n + 1) /\ a \in 1..(n + 1) /\ Len(t) = n + 1
      /\ i <= n => x < s[i]
      /\ a <= n => k < s[a]
  BY <1>0, KeysAreNumbers, TreeAssumption DEF Inserted, IsSlot
<1>2. /\ \A b \in 1..(i - 1) : t[b] = s[b] /\ b \in 1..n /\ s[b] <= x
      /\ \A b \in (i + 1)..(n + 1) : t[b] = s[b - 1] /\ b - 1 \in 1..n
      /\ t[i] = x
      /\ \A b \in 1..(a - 1) : s[b] <= k /\ b \in 1..n
  BY <1>0, <1>1 DEF Inserted, IsSlot
<1>3. ASSUME k < x PROVE IsSlot(t, k, a) /\ a <= i
  <2>1. a <= i
    <3> SUFFICES ASSUME i < a PROVE FALSE
      BY <1>1
    <3>1. i \in 1..(a - 1) /\ i <= n
      BY <1>1
    <3>2. s[i] <= k /\ x < s[i] /\ s[i] \in Nat
      BY <1>1, <1>2, <3>1
    <3> QED BY <1>1, <1>3, <3>2
  <2>2. \A b \in 1..(a - 1) : b \in 1..(i - 1)
    BY <1>1, <2>1
  <2>3. k < t[a]
    <3>1. CASE a = i
      BY <1>2, <1>3, <3>1
    <3>2. CASE a # i
      <4>1. a \in 1..(i - 1) /\ a <= n
        BY <1>1, <2>1, <3>2
      <4> QED BY <1>1, <1>2, <4>1
    <3> QED BY <3>1, <3>2
  <2> QED BY <1>1, <1>2, <2>1, <2>2, <2>3 DEF IsSlot
<1>4. ASSUME ~(k < x) PROVE IsSlot(t, k, a + 1) /\ i <= a
  <2>1. i <= a
    <3> SUFFICES ASSUME a < i PROVE FALSE
      BY <1>1
    <3>1. a \in 1..(i - 1) /\ a <= n /\ a \in 1..n
      BY <1>1
    <3>2. s[a] <= x /\ k < s[a] /\ s[a] \in Nat
      BY <1>1, <1>2, <3>1
    <3> QED BY <1>1, <1>4, <3>2
  <2>2. \A b \in 1..a : t[b] <= k
    <3> SUFFICES ASSUME NEW b \in 1..a PROVE t[b] <= k
      OBVIOUS
    <3>1. CASE b < i
      <4>1. b \in 1..(i - 1)
        BY <1>1, <3>1
      <4>2. t[b] = s[b] /\ s[b] <= x /\ s[b] \in Nat
        BY <1>1, <1>2, <4>1
      <4> QED BY <1>1, <1>4, <4>2
    <3>2. CASE b = i
      BY <1>1, <1>2, <1>4, <3>2
    <3>3. CASE b > i
      <4>1. b \in (i + 1)..(n + 1) /\ b - 1 \in 1..(a - 1)
        BY <1>1, <3>3
      <4> QED BY <1>2, <4>1
    <3> QED BY <1>1, <3>1, <3>2, <3>3
  <2>3. a + 1 <= n + 1 => k < t[a + 1]
    <3> SUFFICES ASSUME a <= n PROVE k < t[a + 1]
      BY <1>1
    <3>1. PICK c : c = a + 1 /\ c \in (i + 1)..(n + 1) /\ c - 1 = a
      BY <1>1, <2>1
    <3>2. t[a + 1] = s[a]
      BY <1>2, <3>1
    <3> QED BY <1>1, <3>2
  <2>4. a + 1 \in 1..(n + 1 + 1) /\ a + 1 - 1 = a
    BY <1>1
  <2> QED BY <1>1, <2>1, <2>2, <2>3, <2>4 DEF IsSlot
<1> QED BY <1>3, <1>4

-----------------------------------------------------------------------------
(* What a search makes of a changed node.                                  *)

(* insertInternal: the new page is the child behind the one that was split. *)
LEMMA ChildInserted ==
  ASSUME NEW S, NEW n, NodeOver(n, S), ~IsLeaf(n), NEW i \in 1..(Len(n.keys) + 1),
         NEW s, s.child \in S
  PROVE  /\ internalWith(n, i, s).keys = InsertAt(n.keys, i, s.key)
         /\ \A b \in 1..(Len(n.keys) + 2) :
              childAt(internalWith(n, i, s), b)
                = IF b <= i THEN childAt(n, b)
                  ELSE IF b = i + 1 THEN s.child ELSE childAt(n, b - 1)
<1>0. PICK n2, keys, len, children, right, child :
        /\ n2 = internalWith(n, i, s) /\ keys = InsertAt(n.keys, i, s.key)
        /\ len = Len(n.keys) /\ children = n.children /\ right = n.rightPtr
        /\ child = s.child
  OBVIOUS
<1>1. /\ len \in Nat /\ children \in Seq(S) /\ Len(children) = len /\ right \in S
      /\ i \in 1..(len + 1) /\ child \in S
  BY <1>0, NodeFacts DEF NodeOver
<1>2. \A k, c, r : /\ InternalNode(k, c, r).keys = k
                   /\ InternalNode(k, c, r).children = c
                   /\ InternalNode(k, c, r).rightPtr = r
  BY DEF InternalNode
<1>3. \A b : childAt(n, b) = IF b <= len THEN children[b] ELSE right
  BY <1>0, <1>1 DEF childAt
<1>4. CASE i <= len
  <2>0. PICK j, c : j = i + 1 /\ c = InsertAt(children, j, child)
    OBVIOUS
  <2>1. n2 = InternalNode(keys, c, right)
    BY <1>0, <1>1, <1>4, <2>0 DEF internalWith
  <2>2. Inserted(c, children, j, child)
    <3>1. j \in 1..(Len(children) + 1)
      BY <1>1, <1>4, <2>0
    <3> QED BY <1>1, <2>0, <3>1, InsertAtFacts
  <2>3. /\ Len(c) = len + 1 /\ c[j] = child
        /\ \A b \in 1..(j - 1) : c[b] = children[b]
        /\ \A b \in (j + 1)..(len + 1) : c[b] = children[b - 1]
    BY <1>1, <2>2 DEF Inserted
  <2>4. \A b : childAt(n2, b) = IF b <= len + 1 THEN c[b] ELSE right
    BY <1>2, <2>1, <2>3 DEF childAt
  <2>5. ASSUME NEW b \in 1..(len + 2)
        PROVE  childAt(n2, b) = IF b <= i THEN childAt(n, b)
                                ELSE IF b = i + 1 THEN child ELSE childAt(n, b - 1)
    <3>1. CASE b <= i
      <4>1. b \in 1..(j - 1) /\ b <= len /\ b <= len + 1
        BY <1>1, <1>4, <2>0, <3>1
      <4> QED BY <1>3, <2>3, <2>4, <3>1, <4>1
    <3>2. CASE b = i + 1
      <4>1. b = j /\ b <= len + 1 /\ ~(b <= i)
        BY <1>1, <1>4, <2>0, <3>2
      <4> QED BY <2>3, <2>4, <3>2, <4>1
    <3>3. CASE b > i + 1 /\ b <= len + 1
      <4>1. b \in (j + 1)..(len + 1) /\ b - 1 <= len /\ ~(b <= i) /\ b # i + 1
        BY <1>1, <1>4, <2>0, <3>3
      <4> QED BY <1>3, <2>3, <2>4, <3>3, <4>1
    <3>4. CASE b > i + 1 /\ ~(b <= len + 1)
      <4>1. ~(b - 1 <= len) /\ ~(b <= i) /\ b # i + 1
        BY <1>1, <1>4, <3>4
      <4> QED BY <1>3, <2>4, <3>4, <4>1
    <3> QED BY <1>1, <3>1, <3>2, <3>3, <3>4
  <2> QED BY <1>0, <1>2, <2>1, <2>5
<1>5. CASE ~(i <= len)
  <2>0. PICK c : c = Append(children, right)
    OBVIOUS
  <2>1. n2 = InternalNode(keys, c, child)
    BY <1>0, <1>1, <1>5, <2>0 DEF internalWith
  <2>2. Len(c) = len + 1 /\ c[len + 1] = right /\ \A b \in 1..len : c[b] = children[b]
    BY <1>1, <2>0, AppendProperties
  <2>3. \A b : childAt(n2, b) = IF b <= len + 1 THEN c[b] ELSE child
    BY <1>2, <2>1, <2>2 DEF childAt
  <2>4. i = len + 1
    BY <1>1, <1>5
  <2>5. ASSUME NEW b \in 1..(len + 2)
        PROVE  childAt(n2, b) = IF b <= i THEN childAt(n, b)
                                ELSE IF b = i + 1 THEN child ELSE childAt(n, b - 1)
    <3>1. CASE b <= len
      <4>1. b \in 1..len /\ b <= i /\ b <= len + 1
        BY <1>1, <2>4, <3>1
      <4> QED BY <1>3, <2>2, <2>3, <4>1
    <3>2. CASE b = len + 1
      <4>1. b <= i /\ ~(b <= len) /\ b <= len + 1
        BY <1>1, <2>4, <3>2
      <4> QED BY <1>3, <2>2, <2>3, <3>2, <4>1
    <3>3. CASE b = len + 2
      <4>1. ~(b <= i) /\ b = i + 1 /\ ~(b <= len + 1)
        BY <1>1, <2>4, <3>3
      <4> QED BY <2>3, <4>1
    <3> QED BY <1>1, <3>1, <3>2, <3>3
  <2> QED BY <1>0, <1>2, <2>1, <2>5
<1> QED BY <1>4, <1>5

(* The node n2 is n with the separator x and the page `child' put in where a
   search for x leaves n.                                                  *)
LinkedNode(n2, n, x, child) ==
  /\ Ascending(n2.keys)
  /\ \A a \in DOMAIN n2.keys : n2.keys[a] = x \/ \E b \in DOMAIN n.keys : n2.keys[a] = n.keys[b]
  /\ \A b \in DOMAIN n.keys : \E a \in DOMAIN n2.keys : n2.keys[a] = n.keys[b]
  /\ \E a \in DOMAIN n2.keys : n2.keys[a] = x
  /\ \A k \in Keys : k < x =>
       /\ childIdx(n2, k) = childIdx(n, k) /\ Route(n2, k) = Route(n, k)
       /\ childIdx(n, k) <= childIdx(n, x)
  /\ \A k \in Keys : ~(k < x) =>
       /\ childIdx(n2, k) = childIdx(n, k) + 1 /\ childIdx(n, x) <= childIdx(n, k)
       /\ childIdx(n, k) = childIdx(n, x) => Route(n2, k) = child
       /\ childIdx(n, k) # childIdx(n, x) => Route(n2, k) = Route(n, k)

LEMMA LinkedNodeFacts ==
  ASSUME NEW S, NEW n, NodeOver(n, S), ~IsLeaf(n), Ascending(n.keys),
         NEW s, s.key \in Keys, s.child \in S, NEW i, i = childIdx(n, s.key),
         \A j \in 1..(i - 1) : n.keys[j] < s.key
  PROVE  LinkedNode(internalWith(n, i, s), n, s.key, s.child)
<1>0. PICK n2, keys, t, x, child :
        /\ n2 = internalWith(n, i, s) /\ keys = n.keys /\ t = InsertAt(keys, i, x)
        /\ x = s.key /\ child = s.child
  OBVIOUS
<1>1. keys \in Seq(Keys) /\ x \in Keys
  BY <1>0, NodeFacts
<1>2. IsSlot(keys, x, i) /\ i \in 1..(Len(keys) + 1) /\ i \in 1..(Len(n.keys) + 1)
  BY <1>0, <1>1, SlotFacts DEF IsSlot
<1>3. t \in Seq(Keys) /\ Inserted(t, keys, i, x)
  BY <1>0, <1>1, <1>2, InsertAtFacts
<1>4. n2.keys = t
  BY <1>0, <1>2, ChildInserted
<1>5. Ascending(t)
  <2>1. /\ \A j \in 1..(i - 1) : keys[j] < x
        /\ i <= Len(keys) => x < keys[i]
        /\ Ascending(keys)
    BY <1>0, <1>2 DEF IsSlot
  <2> QED BY <1>1, <1>2, <1>3, <2>1, InsertedAscending
<1>6. /\ \A a \in DOMAIN t : t[a] = x \/ \E b \in DOMAIN keys : t[a] = keys[b]
      /\ \A b \in DOMAIN keys : \E a \in DOMAIN t : t[a] = keys[b]
      /\ \E a \in DOMAIN t : t[a] = x
  BY <1>1, <1>2, <1>3, InsertedKeys
<1>7. \A b \in 1..(Len(keys) + 2) :
        childAt(n2, b) = IF b <= i THEN childAt(n, b)
                         ELSE IF b = i + 1 THEN child ELSE childAt(n, b - 1)
  BY <1>0, <1>2, ChildInserted
<1>8. ASSUME NEW k \in Keys, NEW a, a = childIdx(n, k)
      PROVE  /\ k < x => /\ childIdx(n2, k) = a /\ childAt(n2, a) = childAt(n, a)
                         /\ a <= i
             /\ ~(k < x) => /\ childIdx(n2, k) = a + 1 /\ i <= a
                            /\ a = i => childAt(n2, a + 1) = child
                            /\ a # i => childAt(n2, a + 1) = childAt(n, a)
  <2>1. IsSlot(keys, k, a)
    BY <1>0, <1>1, <1>8, SlotFacts
  <2>2. /\ k < x => IsSlot(t, k, a) /\ a <= i
        /\ ~(k < x) => IsSlot(t, k, a + 1) /\ i <= a
    BY <1>1, <1>2, <1>3, <2>1, InsertedSlot
  <2>3. /\ k < x => childIdx(n2, k) = a
        /\ ~(k < x) => childIdx(n2, k) = a + 1
    BY <1>3, <1>4, <2>2, SlotIs
  <2>4. a \in 1..(Len(keys) + 1) /\ Len(keys) \in Nat
    BY <1>1, <2>1, KeysAreNumbers DEF IsSlot
  <2>5. a <= i => childAt(n2, a) = childAt(n, a)
    <3>1. a \in 1..(Len(keys) + 2)
      BY <2>4
    <3> QED BY <1>7, <3>1
  <2>6. i <= a => /\ a = i => childAt(n2, a + 1) = child
                  /\ a # i => childAt(n2, a + 1) = childAt(n, a)
    <3> SUFFICES ASSUME i <= a
                 PROVE  /\ a = i => childAt(n2, a + 1) = child
                        /\ a # i => childAt(n2, a + 1) = childAt(n, a)
      OBVIOUS
    <3>1. PICK b : b = a + 1
      OBVIOUS
    <3>2. b \in 1..(Len(keys) + 2) /\ ~(b <= i) /\ b - 1 = a /\ (b = i + 1 <=> a = i)
      BY <1>2, <2>4, <3>1
    <3> QED BY <1>7, <3>1, <3>2
  <2> QED BY <2>2, <2>3, <2>5, <2>6
<1>9. LinkedNode(n2, n, x, child)
  <2>1. i = childIdx(n, x)
    BY <1>0
  <2> QED BY <1>0, <1>4, <1>5, <1>6, <1>8, <2>1 DEF LinkedNode, Route
<1> QED BY <1>0, <1>9

(* A slice of keys in order.                                               *)
LEMMA SlicedAscending ==
  ASSUME NEW s \in Seq(Keys), NEW t \in Seq(Keys), NEW i \in Nat, NEW j \in Nat, i > 0,
         j <= Len(s), i <= j + 1, Ascending(s), Sliced(t, s, i, j)
  PROVE  /\ Ascending(t)
         /\ \A a \in DOMAIN t : a + i - 1 \in i..j /\ t[a] = s[a + i - 1]
         /\ \A b \in i..j : b - i + 1 \in DOMAIN t /\ t[b - i + 1] = s[b]
         /\ i..j \subseteq DOMAIN s
<1>1. Len(s) \in Nat /\ DOMAIN s = 1..Len(s) /\ DOMAIN t = 1..Len(t) /\ Len(t) = j + 1 - i
  BY KeysAreNumbers DEF Sliced
<1>2. i..j \subseteq DOMAIN s
  BY <1>1
<1>3. ASSUME NEW a \in DOMAIN t PROVE a + i - 1 \in i..j /\ t[a] = s[a + i - 1]
  <2>1. a + i - 1 \in i..j /\ a + i - 1 = i + a - 1 /\ a \in 1..(j + 1 - i)
    BY <1>1
  <2> QED BY <2>1 DEF Sliced
<1>4. ASSUME NEW b \in i..j PROVE b - i + 1 \in DOMAIN t /\ t[b - i + 1] = s[b]
  <2>1. PICK a : a = b - i + 1 /\ a \in DOMAIN t /\ a + i - 1 = b
    BY <1>1
  <2> QED BY <1>3, <2>1
<1>5. ASSUME NEW a \in DOMAIN t, NEW b \in DOMAIN t, a < b PROVE t[a] < t[b]
  <2>1. PICK c, d : c = a + i - 1 /\ d = b + i - 1 /\ c < d
    BY <1>1, <1>5
  <2>2. c \in DOMAIN s /\ d \in DOMAIN s /\ t[a] = s[c] /\ t[b] = s[d]
    BY <1>2, <1>3, <2>1
  <2> QED BY <2>1, <2>2 DEF Ascending
<1> QED BY <1>2, <1>3, <1>4, <1>5 DEF Ascending

(* The halves of a node, apart at a key of the node.                       *)
Halved(left, right, n, x) ==
  /\ Ascending(left.keys) /\ Ascending(right.keys)
  /\ \A a \in DOMAIN left.keys :
       left.keys[a] < x /\ \E b \in DOMAIN n.keys : left.keys[a] = n.keys[b]
  /\ \A a \in DOMAIN right.keys :
       ~(right.keys[a] < x) /\ \E b \in DOMAIN n.keys : right.keys[a] = n.keys[b]
  /\ \E b \in DOMAIN n.keys : x = n.keys[b]

LEMMA HalvedFacts ==
  ASSUME NEW S, S \subseteq 1..PageLimit, NEW n, NodeOver(n, S), Len(n.keys) > 0,
         Ascending(n.keys), NEW new
  PROVE  LET s == splitNode(n, new) IN Halved(s.left, s.right, n, s.key)
<1>0. PICK keys, len, mid, s, low, high, left, right, x :
        /\ keys = n.keys /\ len = Len(keys) /\ mid = len \div 2
        /\ s = splitNode(n, new) /\ low = s.left /\ high = s.right
        /\ left = low.keys /\ right = high.keys /\ x = s.key
  OBVIOUS
<1>1. /\ keys \in Seq(Keys) /\ len \in Nat /\ len > 0 /\ Len(keys) = len /\ DOMAIN keys = 1..len
      /\ \A a \in 1..len : keys[a] \in Nat /\ keys[a] \in Keys
  BY <1>0, NodeFacts, KeysAreNumbers
<1>2. mid \in Nat /\ mid + 1 \in 1..len /\ mid <= len
  <2>1. mid \in 0..len /\ mid + 1 \in 1..len
    BY <1>0, <1>1, Halves
  <2> QED BY <1>1, <2>1
<1>3. PICK from : /\ from \in {mid + 1, mid + 2}
                  /\ left = SubSeq(keys, 1, mid) /\ right = SubSeq(keys, from, len)
                  /\ x = keys[mid + 1]
  <2>1. CASE IsLeaf(n)
    <3>1. \A k, v, r : LeafNode(k, v, r).keys = k
      BY DEF LeafNode
    <3>2. PICK a, b, c, d :
            /\ a = SubSeq(keys, 1, mid) /\ b = SubSeq(n.values, 1, mid)
            /\ c = SubSeq(keys, mid + 1, len) /\ d = SubSeq(n.values, mid + 1, len)
      OBVIOUS
    <3>3. /\ low = LeafNode(a, b, new)
          /\ high = LeafNode(c, d, n.rightPtr)
          /\ x = keys[mid + 1]
      BY <1>0, <2>1, <3>2, SplitLeafShape
    <3>4. left = low.keys /\ right = high.keys
      BY <1>0
    <3>5. left = a /\ right = c
      BY <3>1, <3>3, <3>4
    <3> QED BY <3>2, <3>3, <3>5
  <2>2. CASE ~IsLeaf(n)
    <3>1. \A k, v, r : InternalNode(k, v, r).keys = k
      BY DEF InternalNode
    <3>2. PICK a, b, c, d :
            /\ a = SubSeq(keys, 1, mid) /\ b = SubSeq(n.children, 1, mid)
            /\ c = SubSeq(keys, mid + 2, len) /\ d = SubSeq(n.children, mid + 2, len)
      OBVIOUS
    <3>3. Len(n.children) = Len(n.keys)
      BY <2>2 DEF NodeOver
    <3>4. /\ low = InternalNode(a, b, n.children[mid + 1])
          /\ high = InternalNode(c, d, n.rightPtr)
          /\ x = keys[mid + 1]
      BY <1>0, <2>2, <3>2, <3>3, SplitInternalShape
    <3>5. left = low.keys /\ right = high.keys
      BY <1>0
    <3>6. left = a /\ right = c
      BY <3>1, <3>4, <3>5
    <3> QED BY <3>2, <3>4, <3>6
  <2> QED BY <2>1, <2>2
<1>4. /\ left \in Seq(Keys) /\ Sliced(left, keys, 1, mid)
      /\ right \in Seq(Keys) /\ Sliced(right, keys, from, len)
  BY <1>0, <1>1, <1>3, HalfSlices
<1>5. from \in Nat /\ from > 0 /\ from <= len + 1 /\ mid + 1 <= from
  BY <1>1, <1>2, <1>3
<1>6. Ascending(left) /\ \A a \in DOMAIN left : \E b \in 1..mid : left[a] = keys[b]
  <2>1. PICK i : i = 1
    OBVIOUS
  <2>2. i \in Nat /\ i > 0 /\ i <= mid + 1 /\ mid <= Len(keys) /\ mid \in Nat
    BY <1>1, <1>2, <2>1
  <2>3. Ascending(keys) /\ Sliced(left, keys, i, mid)
    BY <1>0, <1>4, <2>1
  <2> QED BY <1>1, <1>4, <2>1, <2>2, <2>3, SlicedAscending
<1>7. Ascending(right) /\ \A a \in DOMAIN right : \E b \in from..len : right[a] = keys[b]
  <2>1. len <= Len(keys) /\ Ascending(keys)
    BY <1>0, <1>1
  <2>2. /\ Ascending(right)
        /\ \A a \in DOMAIN right : a + from - 1 \in from..len /\ right[a] = keys[a + from - 1]
    BY <1>1, <1>4, <1>5, <2>1, SlicedAscending
  <2> QED BY <2>2
<1>8. \A a, b \in 1..len : a < b => keys[a] < keys[b]
  BY <1>0, <1>1 DEF Ascending
<1>9. ASSUME NEW a \in DOMAIN left
      PROVE  left[a] < x /\ \E b \in DOMAIN keys : left[a] = keys[b]
  <2>1. PICK b : b \in 1..mid /\ left[a] = keys[b]
    BY <1>6
  <2>2. b \in 1..len /\ b < mid + 1
    BY <1>1, <1>2, <2>1
  <2> QED BY <1>1, <1>2, <1>3, <1>8, <2>1, <2>2
<1>10. ASSUME NEW a \in DOMAIN right
       PROVE  ~(right[a] < x) /\ \E b \in DOMAIN keys : right[a] = keys[b]
  <2>1. PICK b : b \in from..len /\ right[a] = keys[b]
    BY <1>7
  <2>2. b \in 1..len /\ mid + 1 <= b
    BY <1>1, <1>2, <1>5, <2>1
  <2>3. keys[b] \in Nat /\ keys[mid + 1] \in Nat /\ (mid + 1 = b \/ keys[mid + 1] < keys[b])
    BY <1>1, <1>2, <1>8, <2>2
  <2>4. ~(keys[b] < keys[mid + 1])
    BY <2>3
  <2>5. b \in DOMAIN keys
    BY <1>1, <2>2
  <2> QED BY <1>3, <2>1, <2>4, <2>5
<1>11. \E b \in DOMAIN keys : x = keys[b]
  BY <1>1, <1>2, <1>3
<1> QED BY <1>0, <1>6, <1>7, <1>9, <1>10, <1>11 DEF Halved

-----------------------------------------------------------------------------
(* The pairs of a leaf.                                                    *)

LEMMA ValueAt ==
  ASSUME NEW n, n.keys \in Seq(Keys), Ascending(n.keys), NEW i \in DOMAIN n.keys
  PROVE  ValueIn(n, n.keys[i]) = n.values[i]
<1>0. PICK keys, k, j : keys = n.keys /\ k = keys[i] /\ j = Min(matches(n, k))
  OBVIOUS
<1>1. HasKey(n, k)
  BY <1>0 DEF HasKey, matches
<1>2. j \in 1..Len(keys) /\ keys[j] = k
  BY <1>0, <1>1, MatchFacts
<1>3. /\ Len(keys) \in Nat /\ DOMAIN keys = 1..Len(keys)
      /\ \A a \in 1..Len(keys) : keys[a] \in Nat
  BY <1>0, KeysAreNumbers
<1>4. i = j
  <2>1. i \in 1..Len(keys) /\ j \in 1..Len(keys) /\ keys[i] = keys[j] /\ keys[i] \in Nat
    BY <1>0, <1>2, <1>3
  <2>2. ~(keys[i] < keys[j]) /\ ~(keys[j] < keys[i])
    BY <2>1
  <2>3. ~(i < j) /\ ~(j < i)
    BY <1>0, <1>3, <2>1, <2>2 DEF Ascending
  <2> QED BY <1>3, <2>1, <2>3
<1> QED BY <1>0, <1>1, <1>4 DEF ValueIn

LEMMA NoValueIn ==
  ASSUME NEW n, NEW k, \A i \in DOMAIN n.keys : n.keys[i] # k
  PROVE  ValueIn(n, k) = None
BY DEF ValueIn, HasKey, matches

(* A value found in a leaf is one; a key that is there has one.            *)
LEMMA FoundValue ==
  ASSUME NEW S, NEW n, NodeOver(n, S), IsLeaf(n), NEW k
  PROVE  /\ HasKey(n, k) => ValueIn(n, k) \in Values /\ ValueIn(n, k) # None
         /\ ~HasKey(n, k) => ValueIn(n, k) = None
<1>1. ASSUME HasKey(n, k) PROVE ValueIn(n, k) \in Values
  <2>1. PICK i : i = Min(matches(n, k))
    OBVIOUS
  <2>2. n.keys \in Seq(Keys) /\ n.values \in Seq(Values) /\ Len(n.values) = Len(n.keys)
    BY NodeFacts DEF NodeOver
  <2>3. i \in 1..Len(n.values)
    BY <1>1, <2>1, <2>2, MatchFacts
  <2>4. n.values[i] \in Values
    BY <2>2, <2>3, ElementOfSeq
  <2> QED BY <1>1, <2>1, <2>4 DEF ValueIn
<1> QED BY <1>1, TreeAssumption DEF ValueIn

(* Two leaves give a key the same value if they have the same pair for it or
   both none.                                                              *)
LEMMA SameValue ==
  ASSUME NEW n, n.keys \in Seq(Keys), Ascending(n.keys),
         NEW n2, n2.keys \in Seq(Keys), Ascending(n2.keys), NEW k,
         \A i \in DOMAIN n.keys : n.keys[i] = k =>
           \E j \in DOMAIN n2.keys : n2.keys[j] = k /\ n2.values[j] = n.values[i],
         \A j \in DOMAIN n2.keys : n2.keys[j] = k => \E i \in DOMAIN n.keys : n.keys[i] = k
  PROVE  ValueIn(n2, k) = ValueIn(n, k)
<1>1. CASE \E i \in DOMAIN n.keys : n.keys[i] = k
  <2>1. PICK i \in DOMAIN n.keys : n.keys[i] = k
    BY <1>1
  <2>2. PICK j \in DOMAIN n2.keys : n2.keys[j] = k /\ n2.values[j] = n.values[i]
    BY <2>1
  <2> QED BY <2>1, <2>2, ValueAt
<1>2. CASE \A i \in DOMAIN n.keys : n.keys[i] # k
  <2>1. \A j \in DOMAIN n2.keys : n2.keys[j] # k
    BY <1>2
  <2> QED BY <1>2, <2>1, NoValueIn
<1> QED BY <1>1, <1>2

(* Where the pairs of s and v go when one is put in or taken out at i.      *)
PairsWith(t, w, s, v, i) ==
  /\ \A b \in DOMAIN s : \E a \in DOMAIN t : t[a] = s[b] /\ w[a] = v[b]
  /\ \A a \in DOMAIN t : a = i \/ \E b \in DOMAIN s : t[a] = s[b] /\ w[a] = v[b]

PairsWithout(t, w, s, v, i) ==
  /\ \A b \in DOMAIN s : b # i => \E a \in DOMAIN t : t[a] = s[b] /\ w[a] = v[b]
  /\ \A a \in DOMAIN t : \E b \in DOMAIN s : b # i /\ t[a] = s[b] /\ w[a] = v[b]
  /\ \A a, c \in DOMAIN t : a < c =>
       \E b, d \in DOMAIN s : b < d /\ t[a] = s[b] /\ t[c] = s[d]

LEMMA InsertedPairs ==
  ASSUME NEW n \in Nat, NEW s, Len(s) = n, NEW v, Len(v) = n, NEW t, NEW w,
         DOMAIN s = 1..n, DOMAIN t = 1..(n + 1),
         NEW i \in 1..(n + 1), NEW x, NEW y, Inserted(t, s, i, x), Inserted(w, v, i, y)
  PROVE  PairsWith(t, w, s, v, i)
<1>1. /\ \A a \in 1..(i - 1) : t[a] = s[a] /\ w[a] = v[a]
      /\ \A a \in (i + 1)..(n + 1) : t[a] = s[a - 1] /\ w[a] = v[a - 1]
  BY DEF Inserted
<1>2. ASSUME NEW b \in 1..n
      PROVE  \E a \in 1..(n + 1) : t[a] = s[b] /\ w[a] = v[b]
  <2>1. CASE b < i
    <3>1. b \in 1..(i - 1) /\ b \in 1..(n + 1)
      BY <2>1
    <3> QED BY <1>1, <3>1
  <2>2. CASE ~(b < i)
    <3>1. PICK a : a = b + 1 /\ a \in (i + 1)..(n + 1) /\ a - 1 = b /\ a \in 1..(n + 1)
      BY <2>2
    <3> QED BY <1>1, <3>1
  <2> QED BY <2>1, <2>2
<1>3. ASSUME NEW a \in 1..(n + 1), a # i
      PROVE  \E b \in 1..n : t[a] = s[b] /\ w[a] = v[b]
  <2>1. CASE a < i
    <3>1. a \in 1..(i - 1) /\ a \in 1..n
      BY <2>1
    <3> QED BY <1>1, <3>1
  <2>2. CASE ~(a < i)
    <3>1. PICK b : b = a - 1 /\ a \in (i + 1)..(n + 1) /\ b \in 1..n
      BY <1>3, <2>2
    <3> QED BY <1>1, <3>1
  <2> QED BY <2>1, <2>2
<1> QED BY <1>2, <1>3 DEF PairsWith

LEMMA RemovedPairs ==
  ASSUME NEW n \in Nat, NEW s, Len(s) = n, NEW v, Len(v) = n, NEW t, NEW w,
         DOMAIN s = 1..n, DOMAIN t = 1..(n - 1),
         NEW i \in 1..n, Removed(t, s, i), Removed(w, v, i)
  PROVE  PairsWithout(t, w, s, v, i)
<1>1. /\ \A a \in 1..(i - 1) : t[a] = s[a] /\ w[a] = v[a]
      /\ \A a \in i..(n - 1) : t[a] = s[a + 1] /\ w[a] = v[a + 1]
  BY DEF Removed
<1>2. ASSUME NEW b \in 1..n, b # i
      PROVE  \E a \in 1..(n - 1) : t[a] = s[b] /\ w[a] = v[b]
  <2>1. CASE b < i
    <3>1. b \in 1..(i - 1) /\ b \in 1..(n - 1)
      BY <2>1
    <3> QED BY <1>1, <3>1
  <2>2. CASE ~(b < i)
    <3>1. PICK a : a = b - 1 /\ a \in i..(n - 1) /\ a + 1 = b /\ a \in 1..(n - 1)
      BY <1>2, <2>2
    <3> QED BY <1>1, <3>1
  <2> QED BY <2>1, <2>2
<1>3. ASSUME NEW a \in 1..(n - 1)
      PROVE  \E b \in 1..n : /\ b # i /\ t[a] = s[b] /\ w[a] = v[b]
                             /\ b = IF a < i THEN a ELSE a + 1
  <2>1. CASE a < i
    <3>1. a \in 1..(i - 1) /\ a \in 1..n /\ a # i
      BY <2>1
    <3> QED BY <1>1, <2>1, <3>1
  <2>2. CASE ~(a < i)
    <3>1. PICK b : b = a + 1 /\ a \in i..(n - 1) /\ b \in 1..n /\ b # i
      BY <2>2
    <3> QED BY <1>1, <2>2, <3>1
  <2> QED BY <2>1, <2>2
<1>4. ASSUME NEW a \in 1..(n - 1), NEW c \in 1..(n - 1), a < c
      PROVE  \E b, d \in 1..n : b < d /\ t[a] = s[b] /\ t[c] = s[d]
  <2>1. PICK b \in 1..n : t[a] = s[b] /\ b = IF a < i THEN a ELSE a + 1
    BY <1>3
  <2>2. PICK d \in 1..n : t[c] = s[d] /\ d = IF c < i THEN c ELSE c + 1
    BY <1>3
  <2>3. b < d
    BY <1>4, <2>1, <2>2
  <2> QED BY <2>1, <2>2, <2>3
<1>5. \A a \in DOMAIN t : \E b \in DOMAIN s : b # i /\ t[a] = s[b] /\ w[a] = v[b]
  BY <1>3
<1>6. \A b \in DOMAIN s : b # i => \E a \in DOMAIN t : t[a] = s[b] /\ w[a] = v[b]
  BY <1>2
<1>7. \A a, c \in DOMAIN t : a < c =>
        \E b, d \in DOMAIN s : b < d /\ t[a] = s[b] /\ t[c] = s[d]
  <2> SUFFICES ASSUME NEW a \in DOMAIN t, NEW c \in DOMAIN t, a < c
               PROVE  \E b, d \in DOMAIN s : b < d /\ t[a] = s[b] /\ t[c] = s[d]
    OBVIOUS
  <2>1. PICK b \in 1..n, d \in 1..n : b < d /\ t[a] = s[b] /\ t[c] = s[d]
    BY <1>4
  <2> QED BY <2>1
<1> QED BY <1>5, <1>6, <1>7 DEF PairsWithout

(* insertLeaf changes the value of its key only.                           *)
LEMMA LeafWithValues ==
  ASSUME NEW S, S \subseteq 1..PageLimit, NEW n, NodeOver(n, S), IsLeaf(n),
         Ascending(n.keys), NEW k \in Keys, NEW v \in Values
  PROVE  /\ Ascending(leafWith(n, k, v).keys)
         /\ \A a \in DOMAIN leafWith(n, k, v).keys :
              \/ leafWith(n, k, v).keys[a] = k
              \/ \E b \in DOMAIN n.keys : leafWith(n, k, v).keys[a] = n.keys[b]
         /\ \A x : ValueIn(leafWith(n, k, v), x) = IF x = k THEN v ELSE ValueIn(n, x)
<1>0. PICK keys, values, right, i, n2, len :
        /\ keys = n.keys /\ values = n.values /\ right = n.rightPtr
        /\ i = leafPos(n, k) /\ n2 = leafWith(n, k, v) /\ len = Len(keys)
  OBVIOUS
<1>1. /\ keys \in Seq(Keys) /\ values \in Seq(Values) /\ Len(values) = len
      /\ len \in Nat /\ Len(keys) = len /\ DOMAIN keys = 1..len /\ DOMAIN values = 1..len
  BY <1>0, NodeFacts DEF NodeOver
<1>2. /\ i \in 1..(len + 1) /\ i \in 1..(Len(keys) + 1) /\ i \in 1..(Len(values) + 1)
      /\ \A j \in 1..(i - 1) : keys[j] < k
      /\ i <= len => k <= keys[i]
  BY <1>0, <1>1, LeafPosFacts
<1>3. \A t, w : LeafNode(t, w, right).keys = t /\ LeafNode(t, w, right).values = w
  BY DEF LeafNode
<1>4. n2.keys \in Seq(Keys)
  <2>1. NodeOver(n2, S)
    BY <1>0, LeafWithOver
  <2> QED BY <2>1, NodeFacts
<1>5. CASE i \in matches(n, k)
  <2>0. PICK w : w = ReplaceAt(values, i, v)
    OBVIOUS
  <2>1. n2 = LeafNode(keys, w, right)
    BY <1>0, <1>5, <2>0 DEF leafWith
  <2>2. i \in 1..len /\ keys[i] = k
    BY <1>0, <1>1, <1>5 DEF matches
  <2>3. w[i] = v /\ \A j \in 1..len : j # i => w[j] = values[j]
    BY <1>1, <2>0, <2>2 DEF ReplaceAt
  <2>4. n2.keys = keys /\ n2.values = w
    BY <1>3, <2>1
  <2>5. Ascending(n2.keys)
    BY <1>0, <2>4
  <2>6. ASSUME NEW x PROVE ValueIn(n2, x) = IF x = k THEN v ELSE ValueIn(n, x)
    <3>1. CASE x = k
      <4>1. ValueIn(n2, n2.keys[i]) = n2.values[i]
        BY <1>1, <1>4, <2>2, <2>4, <2>5, ValueAt
      <4> QED BY <2>2, <2>3, <2>4, <3>1, <4>1
    <3>2. CASE x # k
      <4>1. \A a \in DOMAIN n.keys : n.keys[a] = x =>
              n2.keys[a] = x /\ n2.values[a] = n.values[a] /\ a \in DOMAIN n2.keys
        BY <1>0, <1>1, <2>2, <2>3, <2>4, <3>2
      <4>2. ValueIn(n2, x) = ValueIn(n, x)
        BY <1>0, <1>1, <1>4, <2>4, <2>5, <4>1, SameValue
      <4> QED BY <3>2, <4>2
    <3> QED BY <3>1, <3>2
  <2> QED BY <1>0, <2>4, <2>5, <2>6
<1>6. CASE i \notin matches(n, k)
  <2>0. PICK t, w : t = InsertAt(keys, i, k) /\ w = InsertAt(values, i, v)
    OBVIOUS
  <2>1. n2 = LeafNode(t, w, right)
    BY <1>0, <1>6, <2>0 DEF leafWith
  <2>2. t \in Seq(Keys) /\ Inserted(t, keys, i, k)
    BY <1>1, <1>2, <2>0, InsertAtFacts
  <2>3. w \in Seq(Values) /\ Inserted(w, values, i, v)
    BY <1>1, <1>2, <2>0, InsertAtFacts
  <2>4. n2.keys = t /\ n2.values = w
    BY <1>3, <2>1
  <2>5. i <= len => k < keys[i]
    <3>1. i <= len => i \in 1..len /\ keys[i] # k /\ keys[i] \in Nat
      BY <1>0, <1>1, <1>2, <1>6, KeysAreNumbers DEF matches
    <3>2. k \in Nat
      BY TreeAssumption
    <3> QED BY <1>2, <3>1, <3>2
  <2>6. Ascending(t)
    <3>1. i <= Len(keys) => k < keys[i]
      BY <1>1, <2>5
    <3> QED BY <1>0, <1>1, <1>2, <2>2, <3>1, InsertedAscending
  <2>7. DOMAIN t = 1..(len + 1) /\ t[i] = k /\ w[i] = v
    BY <1>1, <2>2, <2>3 DEF Inserted
  <2>8. PairsWith(t, w, n.keys, n.values, i)
    BY <1>0, <1>1, <1>2, <2>2, <2>3, <2>7, InsertedPairs
  <2>9. ASSUME NEW x PROVE ValueIn(n2, x) = IF x = k THEN v ELSE ValueIn(n, x)
    <3>1. CASE x = k
      <4>1. ValueIn(n2, n2.keys[i]) = n2.values[i]
        BY <1>2, <2>2, <2>4, <2>6, <2>7, ValueAt
      <4> QED BY <2>4, <2>7, <3>1, <4>1
    <3>2. CASE x # k
      <4>1. \A a \in DOMAIN n.keys : n.keys[a] = x =>
              \E b \in DOMAIN n2.keys : n2.keys[b] = x /\ n2.values[b] = n.values[a]
        BY <2>4, <2>8 DEF PairsWith
      <4>2. \A b \in DOMAIN n2.keys : n2.keys[b] = x => \E a \in DOMAIN n.keys : n.keys[a] = x
        BY <2>4, <2>7, <2>8, <3>2 DEF PairsWith
      <4>3. ValueIn(n2, x) = ValueIn(n, x)
        <5>1. n.keys \in Seq(Keys) /\ Ascending(n2.keys)
          BY <1>0, <1>1, <2>4, <2>6
        <5> QED BY <1>4, <4>1, <4>2, <5>1, SameValue
      <4> QED BY <3>2, <4>3
    <3> QED BY <3>1, <3>2
  <2>10. \A a \in DOMAIN n2.keys :
           n2.keys[a] = k \/ \E b \in DOMAIN n.keys : n2.keys[a] = n.keys[b]
    BY <2>4, <2>7, <2>8 DEF PairsWith
  <2> QED BY <1>0, <2>4, <2>6, <2>9, <2>10
<1> QED BY <1>5, <1>6

LEMMA LeafWithoutValues ==
  ASSUME NEW S, S \subseteq 1..PageLimit, NEW n, NodeOver(n, S), IsLeaf(n),
         Ascending(n.keys), NEW k, HasKey(n, k)
  PROVE  /\ Ascending(leafWithout(n, k).keys)
         /\ \A a \in DOMAIN leafWithout(n, k).keys :
              \E b \in DOMAIN n.keys : leafWithout(n, k).keys[a] = n.keys[b]
         /\ \A x : ValueIn(leafWithout(n, k), x) = IF x = k THEN None ELSE ValueIn(n, x)
<1>0. PICK keys, values, right, i, n2, len, t, w :
        /\ keys = n.keys /\ values = n.values /\ right = n.rightPtr
        /\ i = Min(matches(n, k)) /\ n2 = leafWithout(n, k) /\ len = Len(keys)
        /\ t = RemoveAt(keys, i) /\ w = RemoveAt(values, i)
  OBVIOUS
<1>1. /\ keys \in Seq(Keys) /\ values \in Seq(Values) /\ Len(values) = len
      /\ len \in Nat /\ Len(keys) = len /\ DOMAIN keys = 1..len /\ DOMAIN values = 1..len
      /\ \A a \in 1..len : keys[a] \in Nat
  BY <1>0, NodeFacts, KeysAreNumbers DEF NodeOver
<1>2. i \in 1..len /\ keys[i] = k /\ i \in 1..Len(keys) /\ i \in 1..Len(values)
  BY <1>0, <1>1, MatchFacts
<1>3. t \in Seq(Keys) /\ Removed(t, keys, i) /\ Removed(w, values, i)
  BY <1>0, <1>1, <1>2, RemoveAtFacts
<1>4. n2.keys = t /\ n2.values = w
  BY <1>0 DEF leafWithout, LeafNode
<1>5. DOMAIN t = 1..(len - 1)
  BY <1>1, <1>3 DEF Removed
<1>6. PairsWithout(t, w, n.keys, n.values, i)
  BY <1>0, <1>1, <1>2, <1>3, <1>5, RemovedPairs
<1>7. Ascending(t)
  <2> SUFFICES ASSUME NEW a \in DOMAIN t, NEW c \in DOMAIN t, a < c PROVE t[a] < t[c]
    BY DEF Ascending
  <2>1. PICK b \in DOMAIN n.keys, d \in DOMAIN n.keys :
          b < d /\ t[a] = n.keys[b] /\ t[c] = n.keys[d]
    BY <1>6 DEF PairsWithout
  <2> QED BY <2>1 DEF Ascending
<1>8. \A b \in DOMAIN n.keys : b # i => n.keys[b] # k
  <2> SUFFICES ASSUME NEW b \in DOMAIN n.keys, b # i PROVE n.keys[b] # k
    OBVIOUS
  <2>1. i \in DOMAIN n.keys /\ n.keys[i] = k /\ (b < i \/ i < b)
    BY <1>0, <1>1, <1>2
  <2>2. n.keys[b] < k \/ k < n.keys[b]
    BY <2>1 DEF Ascending
  <2>3. k \in Nat
    BY <1>1, <1>2
  <2> QED BY <2>2, <2>3
<1>9. \A a \in DOMAIN n2.keys : \E b \in DOMAIN n.keys : n2.keys[a] = n.keys[b]
  BY <1>4, <1>6 DEF PairsWithout
<1>10. ASSUME NEW x PROVE ValueIn(n2, x) = IF x = k THEN None ELSE ValueIn(n, x)
  <2>1. CASE x = k
    <3>1. \A a \in DOMAIN n2.keys : n2.keys[a] # k
      BY <1>4, <1>6, <1>8 DEF PairsWithout
    <3> QED BY <2>1, <3>1, NoValueIn
  <2>2. CASE x # k
    <3>1. \A a \in DOMAIN n.keys : n.keys[a] = x =>
            \E b \in DOMAIN n2.keys : n2.keys[b] = x /\ n2.values[b] = n.values[a]
      <4>1. n.keys[i] # x
        BY <1>0, <1>2, <2>2
      <4> QED BY <1>4, <1>6, <4>1 DEF PairsWithout
    <3>2. \A b \in DOMAIN n2.keys : n2.keys[b] = x => \E a \in DOMAIN n.keys : n.keys[a] = x
      BY <1>9
    <3>3. n.keys \in Seq(Keys) /\ n2.keys \in Seq(Keys) /\ Ascending(n2.keys)
      BY <1>0, <1>1, <1>3, <1>4, <1>7
    <3>4. ValueIn(n2, x) = ValueIn(n, x)
      BY <3>1, <3>2, <3>3, SameValue
    <3> QED BY <2>2, <3>4
  <2> QED BY <2>1, <2>2
<1>11. Ascending(n2.keys)
  BY <1>4, <1>7
<1> QED BY <1>0, <1>9, <1>10, <1>11

-----------------------------------------------------------------------------
(* What a search makes of the halves of a node.                            *)

(* The searches for the keys below the separator at h leave before it.     *)
LEMMA SlotsApart ==
  ASSUME NEW s \in Seq(Keys), Ascending(s), NEW h \in 1..Len(s), NEW k \in Keys, NEW i,
         IsSlot(s, k, i)
  PROVE  k < s[h] <=> i <= h
<1>0. PICK n \in Nat : n = Len(s)
  BY KeysAreNumbers
<1>1. /\ k \in Nat /\ h \in 1..n /\ s[h] \in Nat /\ i \in 1..(n + 1)
      /\ \A a \in 1..n : s[a] \in Nat
  BY <1>0, KeysAreNumbers, TreeAssumption DEF IsSlot
<1>2. ASSUME i <= h PROVE k < s[h]
  <2>1. i \in 1..n /\ i <= Len(s) /\ k < s[i]
    BY <1>0, <1>1, <1>2 DEF IsSlot
  <2>2. i = h \/ i < h
    BY <1>1, <1>2
  <2>3. i = h \/ s[i] < s[h]
    BY <1>0, <1>1, <2>1, <2>2 DEF Ascending
  <2> QED BY <1>1, <2>1, <2>3
<1>3. ASSUME ~(i <= h) PROVE ~(k < s[h])
  <2>1. h \in 1..(i - 1)
    BY <1>1, <1>3
  <2>2. s[h] <= k
    BY <2>1 DEF IsSlot
  <2> QED BY <1>1, <2>2
<1> QED BY <1>2, <1>3

LEMMA LowSlot ==
  ASSUME NEW s \in Seq(Keys), NEW t, NEW m \in Nat, m <= Len(s), NEW k, NEW i,
         Sliced(t, s, 1, m), IsSlot(s, k, i), i <= m + 1
  PROVE  IsSlot(t, k, i)
<1>0. PICK n \in Nat : n = Len(s)
  BY KeysAreNumbers
<1>1. /\ i \in 1..(n + 1) /\ m <= n /\ i <= m + 1
      /\ \A j \in 1..(i - 1) : s[j] <= k
      /\ i <= n => k < s[i]
  BY <1>0 DEF IsSlot
<1>2. Len(t) = m /\ \A j \in 1..m : t[j] = s[j]
  <2>1. m + 1 - 1 = m /\ \A j \in 1..m : 1 + j - 1 = j
    OBVIOUS
  <2> QED BY <2>1 DEF Sliced
<1>3. \A j \in 1..(i - 1) : j \in 1..m
  BY <1>1
<1>4. i <= m => i \in 1..m /\ i <= n
  BY <1>1
<1>5. i \in 1..(m + 1)
  BY <1>1
<1> QED BY <1>1, <1>2, <1>3, <1>4, <1>5 DEF IsSlot

LEMMA HighSlot ==
  ASSUME NEW s \in Seq(Keys), NEW t, NEW h \in Nat, h <= Len(s), NEW k, NEW i,
         Sliced(t, s, h + 1, Len(s)), IsSlot(s, k, i), h < i
  PROVE  IsSlot(t, k, i - h)
<1>0. PICK n, c : n \in Nat /\ n = Len(s) /\ c = i - h
  BY KeysAreNumbers
<1>1. /\ n \in Nat /\ i \in 1..(n + 1) /\ h <= n /\ h < i
      /\ c \in 1..(n - h + 1) /\ c + h = i
      /\ \A j \in 1..(i - 1) : s[j] <= k
      /\ i <= n => k < s[i]
  BY <1>0 DEF IsSlot
<1>2. Len(t) = n - h /\ \A j \in 1..(n - h) : t[j] = s[j + h]
  <2>1. n + 1 - (h + 1) = n - h /\ \A j \in 1..(n - h) : h + 1 + j - 1 = j + h
    BY <1>1
  <2> QED BY <1>0, <2>1 DEF Sliced
<1>3. \A j \in 1..(c - 1) : j \in 1..(n - h) /\ j + h \in 1..(i - 1)
  BY <1>1
<1>4. c <= n - h => c \in 1..(n - h) /\ i <= n
  BY <1>1
<1>5. IsSlot(t, k, c)
  BY <1>1, <1>2, <1>3, <1>4 DEF IsSlot
<1> QED BY <1>0, <1>5

(* A search that came to the node n finds in one of the halves the same way
   on; those that left n together still do.                                *)
HalvedRoutes(left, right, n, x) ==
  /\ \A k \in Keys : /\ k < x => Route(left, k) = Route(n, k)
                     /\ ~(k < x) => Route(right, k) = Route(n, k)
  /\ \A k, y \in Keys : childIdx(n, k) = childIdx(n, y) =>
       /\ k < x <=> y < x
       /\ k < x => childIdx(left, k) = childIdx(left, y)
       /\ ~(k < x) => childIdx(right, k) = childIdx(right, y)
  /\ \A k \in Keys : childIdx(n, k) = 1 => k < x /\ childIdx(left, k) = 1
  /\ childIdx(right, x) = 1

LEMMA SplitRoutes ==
  ASSUME NEW S, S \subseteq 1..PageLimit, NEW n, NodeOver(n, S), ~IsLeaf(n),
         Len(n.keys) > 0, Ascending(n.keys), NEW new
  PROVE  LET s == splitNode(n, new) IN HalvedRoutes(s.left, s.right, n, s.key)
<1>0. PICK keys, children, len, mid, h, s, low, high, x, a, b, c, d, last, right :
        /\ keys = n.keys /\ children = n.children /\ right = n.rightPtr
        /\ len = Len(keys) /\ mid = len \div 2 /\ h = mid + 1
        /\ s = splitNode(n, new) /\ low = s.left /\ high = s.right /\ x = s.key
        /\ a = SubSeq(keys, 1, mid) /\ b = SubSeq(children, 1, mid)
        /\ c = SubSeq(keys, mid + 2, len) /\ d = SubSeq(children, mid + 2, len)
        /\ last = children[mid + 1]
  OBVIOUS
<1>1. /\ keys \in Seq(Keys) /\ len \in Nat /\ len > 0 /\ Len(keys) = len
      /\ children \in Seq(S) /\ Len(children) = len
  BY <1>0, NodeFacts DEF NodeOver
<1>2. /\ mid \in Nat /\ h \in 1..len /\ h \in Nat /\ mid <= len /\ h = mid + 1 /\ h + 1 = mid + 2
      /\ h \in 1..Len(keys)
  <2>1. mid \in 0..len /\ mid + 1 \in 1..len
    BY <1>0, <1>1, Halves
  <2>2. h = mid + 1
    BY <1>0
  <2> QED BY <1>1, <2>1, <2>2
<1>3. /\ low = InternalNode(a, b, last) /\ high = InternalNode(c, d, right) /\ x = keys[h]
  <2>1. Len(n.children) = Len(n.keys)
    BY DEF NodeOver
  <2> QED BY <1>0, <2>1, SplitInternalShape
<1>4. /\ a \in Seq(Keys) /\ Sliced(a, keys, 1, mid)
      /\ c \in Seq(Keys) /\ Sliced(c, keys, mid + 2, len)
  BY <1>0, <1>1, HalfSlices
<1>5. /\ b \in Seq(S) /\ Sliced(b, children, 1, mid)
      /\ d \in Seq(S) /\ Sliced(d, children, mid + 2, len)
  BY <1>0, <1>1, HalfSlices
<1>6. Sliced(c, keys, h + 1, Len(keys)) /\ h <= Len(keys) /\ mid <= Len(keys)
  BY <1>1, <1>2, <1>4
<1>7. x \in Keys /\ Ascending(keys)
  BY <1>0, <1>1, <1>2, <1>3, KeysAreNumbers
<1>8. \A t, w, r : /\ InternalNode(t, w, r).keys = t
                   /\ InternalNode(t, w, r).children = w
                   /\ InternalNode(t, w, r).rightPtr = r
  BY DEF InternalNode
<1>9. low.keys = a /\ high.keys = c
  BY <1>3, <1>8
<1>10. ASSUME NEW k \in Keys
       PROVE  /\ IsSlot(keys, k, childIdx(n, k)) /\ childIdx(n, k) \in 1..(len + 1)
              /\ k < x <=> childIdx(n, k) <= h
  <2>1. IsSlot(keys, k, childIdx(n, k))
    BY <1>0, <1>1, SlotFacts
  <2>2. childIdx(n, k) \in 1..(len + 1)
    BY <1>1, <2>1 DEF IsSlot
  <2> QED BY <1>1, <1>2, <1>3, <1>7, <2>1, <2>2, SlotsApart
<1>11. \A i : childAt(n, i) = IF i <= len THEN children[i] ELSE right
  BY <1>0, <1>1 DEF childAt
<1>12. ASSUME NEW k \in Keys, k < x
       PROVE  childIdx(low, k) = childIdx(n, k) /\ Route(low, k) = Route(n, k)
  <2>1. PICK i : i = childIdx(n, k)
    OBVIOUS
  <2>2. IsSlot(keys, k, i) /\ i \in 1..(len + 1) /\ i <= mid + 1
    BY <1>2, <1>10, <1>12, <2>1
  <2>3. IsSlot(a, k, i)
    BY <1>1, <1>2, <1>4, <1>6, <2>2, LowSlot
  <2>4. childIdx(low, k) = i
    BY <1>4, <1>9, <2>3, SlotIs
  <2>5. /\ Len(b) = mid
        /\ i <= mid => b[i] = children[i]
        /\ ~(i <= mid) => i = mid + 1
    <3>1. /\ Len(b) = mid + 1 - 1 /\ mid + 1 - 1 = mid
          /\ \A j \in 1..mid : b[j] = children[1 + j - 1] /\ 1 + j - 1 = j
      BY <1>2, <1>5 DEF Sliced
    <3>2. i <= mid => i \in 1..mid
      BY <1>2, <2>2
    <3> QED BY <1>2, <2>2, <3>1, <3>2
  <2>6. childAt(low, i) = IF i <= mid THEN b[i] ELSE last
    BY <1>3, <1>8, <2>5 DEF childAt
  <2>7. i <= len
    BY <1>1, <1>2, <2>2
  <2>8. childAt(low, i) = childAt(n, i)
    BY <1>0, <1>11, <2>5, <2>6, <2>7
  <2> QED BY <2>1, <2>4, <2>8 DEF Route
<1>13. ASSUME NEW k \in Keys, ~(k < x)
       PROVE  childIdx(high, k) = childIdx(n, k) - h /\ Route(high, k) = Route(n, k)
  <2>1. PICK i, e : i = childIdx(n, k) /\ e = i - h
    OBVIOUS
  <2>2. IsSlot(keys, k, i) /\ i \in 1..(len + 1) /\ h < i
    BY <1>2, <1>10, <1>13, <2>1
  <2>3. IsSlot(c, k, e)
    BY <1>1, <1>2, <1>4, <1>6, <2>1, <2>2, HighSlot
  <2>4. childIdx(high, k) = e
    BY <1>4, <1>9, <2>3, SlotIs
  <2>5. /\ Len(d) = len - h
        /\ e <= len - h => d[e] = children[i]
        /\ e <= len - h <=> i <= len
    <3>1. Len(d) = len + 1 - (mid + 2) /\ \A j \in 1..(len + 1 - (mid + 2)) : d[j] = children[mid + 2 + j - 1]
      BY <1>5 DEF Sliced
    <3>2. len + 1 - (mid + 2) = len - h /\ mid + 2 + e - 1 = i
      BY <1>1, <1>2, <2>1, <2>2
    <3>3. e <= len - h => e \in 1..(len - h)
      BY <1>1, <1>2, <2>1, <2>2
    <3>4. e <= len - h <=> i <= len
      BY <1>1, <1>2, <2>1, <2>2
    <3> QED BY <3>1, <3>2, <3>3, <3>4
  <2>6. childAt(high, e) = IF e <= len - h THEN d[e] ELSE right
    BY <1>3, <1>8, <2>5 DEF childAt
  <2>7. childAt(high, e) = childAt(n, i)
    BY <1>11, <2>5, <2>6
  <2> QED BY <2>1, <2>4, <2>7 DEF Route
<1>14. childIdx(high, x) = 1
  <2>1. x \in Nat /\ ~(x < x)
    BY <1>7, TreeAssumption
  <2>2. IsSlot(c, x, 1)
    <3>1. 1 \in 1..(Len(c) + 1) /\ \A j \in 1..(1 - 1) : FALSE
      BY <1>4, KeysAreNumbers
    <3>2. ASSUME 1 <= Len(c) PROVE x < c[1]
      <4>1. Len(c) = len + 1 - (mid + 2) /\ \A j \in 1..(len + 1 - (mid + 2)) : c[j] = keys[mid + 2 + j - 1]
        BY <1>4 DEF Sliced
      <4>2. PICK j : j = h + 1 /\ j \in 1..len /\ h < j
        BY <1>1, <1>2, <3>2, <4>1
      <4>3. c[1] = keys[j]
        <5>1. 1 \in 1..(len + 1 - (mid + 2)) /\ mid + 2 + 1 - 1 = j
          BY <1>1, <1>2, <3>2, <4>1, <4>2
        <5> QED BY <4>1, <5>1
      <4>4. keys[h] < keys[j]
        BY <1>1, <1>2, <1>7, <4>2 DEF Ascending
      <4> QED BY <1>3, <4>3, <4>4
    <3> QED BY <3>1, <3>2 DEF IsSlot
  <2> QED BY <1>4, <1>7, <1>9, <2>2, SlotIs
<1>15. ASSUME NEW k \in Keys, childIdx(n, k) = 1
       PROVE  k < x /\ childIdx(low, k) = 1
  <2>1. k < x
    BY <1>2, <1>10, <1>15
  <2> QED BY <1>12, <1>15, <2>1
<1>16. ASSUME NEW k \in Keys, NEW y \in Keys, childIdx(n, k) = childIdx(n, y)
       PROVE  /\ k < x <=> y < x
              /\ k < x => childIdx(low, k) = childIdx(low, y)
              /\ ~(k < x) => childIdx(high, k) = childIdx(high, y)
  BY <1>10, <1>12, <1>13, <1>16
<1>17. HalvedRoutes(low, high, n, x)
  BY <1>12, <1>13, <1>14, <1>15, <1>16 DEF HalvedRoutes
<1> QED BY <1>0, <1>17

(* The pairs of a leaf are in the halves.                                  *)
HalvedValues(left, right, n, x) ==
  \A k \in Keys : ValueIn(n, k) = IF k < x THEN ValueIn(left, k) ELSE ValueIn(right, k)

LEMMA SplitValues ==
  ASSUME NEW S, S \subseteq 1..PageLimit, NEW n, NodeOver(n, S), IsLeaf(n),
         Len(n.keys) > 0, Ascending(n.keys), NEW new \in S
  PROVE  LET s == splitNode(n, new) IN HalvedValues(s.left, s.right, n, s.key)
<1>0. PICK keys, values, len, mid, h, s, low, high, x, a, b, c, d :
        /\ keys = n.keys /\ values = n.values
        /\ len = Len(keys) /\ mid = len \div 2 /\ h = mid + 1
        /\ s = splitNode(n, new) /\ low = s.left /\ high = s.right /\ x = s.key
        /\ a = SubSeq(keys, 1, mid) /\ b = SubSeq(values, 1, mid)
        /\ c = SubSeq(keys, mid + 1, len) /\ d = SubSeq(values, mid + 1, len)
  OBVIOUS
<1>1. /\ keys \in Seq(Keys) /\ len \in Nat /\ len > 0 /\ Len(keys) = len
      /\ values \in Seq(Values) /\ Len(values) = len
      /\ DOMAIN keys = 1..len /\ \A i \in 1..len : keys[i] \in Nat
  BY <1>0, NodeFacts, KeysAreNumbers DEF NodeOver
<1>2. /\ mid \in Nat /\ h \in 1..len /\ mid <= len /\ h = mid + 1
  <2>1. mid \in 0..len /\ mid + 1 \in 1..len
    BY <1>0, <1>1, Halves
  <2>2. h = mid + 1
    BY <1>0
  <2> QED BY <1>1, <2>1, <2>2
<1>3. /\ low = LeafNode(a, b, new) /\ high = LeafNode(c, d, n.rightPtr) /\ x = keys[h]
  BY <1>0, SplitLeafShape
<1>4. /\ a \in Seq(Keys) /\ Sliced(a, keys, 1, mid)
      /\ c \in Seq(Keys) /\ Sliced(c, keys, h, len)
  BY <1>0, <1>1, HalfSlices
<1>5. /\ Sliced(b, values, 1, mid) /\ Sliced(d, values, h, len)
  BY <1>0, <1>1, HalfSlices
<1>6. /\ Ascending(keys) /\ Ascending(low.keys) /\ Ascending(high.keys)
      /\ \A i \in DOMAIN low.keys : low.keys[i] < x /\ \E j \in DOMAIN n.keys : low.keys[i] = n.keys[j]
      /\ \A i \in DOMAIN high.keys : ~(high.keys[i] < x) /\ \E j \in DOMAIN n.keys : high.keys[i] = n.keys[j]
  <2>1. Halved(low, high, n, x)
    BY <1>0, HalvedFacts
  <2> QED BY <1>0, <2>1 DEF Halved
<1>7. low.keys = a /\ low.values = b /\ high.keys = c /\ high.values = d
  BY <1>3 DEF LeafNode
<1>8. \A i \in 1..mid : i \in DOMAIN low.keys /\ low.keys[i] = keys[i] /\ low.values[i] = values[i]
  <2>1. mid + 1 - 1 = mid /\ \A i \in 1..mid : 1 + i - 1 = i
    BY <1>2
  <2>2. Len(a) = mid /\ \A i \in 1..mid : a[i] = keys[i] /\ b[i] = values[i]
    BY <1>4, <1>5, <2>1 DEF Sliced
  <2>3. DOMAIN a = 1..mid
    BY <1>4, <2>2
  <2> QED BY <1>7, <2>2, <2>3
<1>9. \A i \in h..len : \E j \in DOMAIN high.keys : high.keys[j] = keys[i] /\ high.values[j] = values[i]
  <2> SUFFICES ASSUME NEW i \in h..len
               PROVE  \E j \in DOMAIN high.keys : high.keys[j] = keys[i] /\ high.values[j] = values[i]
    OBVIOUS
  <2>1. PICK j : j = i + 1 - h
    OBVIOUS
  <2>2. j \in 1..(len + 1 - h) /\ h + j - 1 = i
    BY <1>1, <1>2, <2>1
  <2>3. Len(c) = len + 1 - h /\ c[j] = keys[i] /\ d[j] = values[i]
    BY <1>4, <1>5, <2>2 DEF Sliced
  <2>4. j \in DOMAIN c
    BY <1>4, <2>2, <2>3
  <2> QED BY <1>7, <2>3, <2>4
<1>10. ASSUME NEW k \in Keys, k < x
       PROVE  ValueIn(low, k) = ValueIn(n, k)
  <2>1. \A i \in DOMAIN n.keys : n.keys[i] = k =>
          \E j \in DOMAIN low.keys : low.keys[j] = k /\ low.values[j] = n.values[i]
    <3> SUFFICES ASSUME NEW i \in DOMAIN n.keys, n.keys[i] = k
                 PROVE  \E j \in DOMAIN low.keys : low.keys[j] = k /\ low.values[j] = n.values[i]
      OBVIOUS
    <3>1. i \in 1..len /\ keys[i] = k /\ keys[i] < keys[h]
      BY <1>0, <1>1, <1>3, <1>10
    <3>2. ~(h <= i)
      <4>1. h < i => keys[h] < keys[i]
        BY <1>1, <1>2, <1>6, <3>1 DEF Ascending
      <4>2. ~(keys[h] < keys[i]) /\ h # i
        BY <1>1, <1>2, <3>1
      <4> QED BY <1>2, <3>1, <4>1, <4>2
    <3>3. i \in 1..mid
      BY <1>2, <3>1, <3>2
    <3> QED BY <1>0, <1>8, <3>3
  <2>2. \A j \in DOMAIN low.keys : low.keys[j] = k => \E i \in DOMAIN n.keys : n.keys[i] = k
    BY <1>6
  <2>3. n.keys \in Seq(Keys) /\ low.keys \in Seq(Keys)
    BY <1>0, <1>1, <1>4, <1>7
  <2> QED BY <1>6, <2>1, <2>2, <2>3, SameValue
<1>11. ASSUME NEW k \in Keys, ~(k < x)
       PROVE  ValueIn(high, k) = ValueIn(n, k)
  <2>1. \A i \in DOMAIN n.keys : n.keys[i] = k =>
          \E j \in DOMAIN high.keys : high.keys[j] = k /\ high.values[j] = n.values[i]
    <3> SUFFICES ASSUME NEW i \in DOMAIN n.keys, n.keys[i] = k
                 PROVE  \E j \in DOMAIN high.keys : high.keys[j] = k /\ high.values[j] = n.values[i]
      OBVIOUS
    <3>1. i \in 1..len /\ keys[i] = k /\ ~(keys[i] < keys[h])
      BY <1>0, <1>1, <1>3, <1>11
    <3>2. i < h => keys[i] < keys[h]
      BY <1>1, <1>2, <1>6, <3>1 DEF Ascending
    <3>3. i \in h..len
      BY <1>1, <1>2, <3>1, <3>2
    <3>4. PICK j \in DOMAIN high.keys : high.keys[j] = keys[i] /\ high.values[j] = values[i]
      BY <1>9, <3>3
    <3> QED BY <1>0, <3>1, <3>4
  <2>2. \A j \in DOMAIN high.keys : high.keys[j] = k => \E i \in DOMAIN n.keys : n.keys[i] = k
    BY <1>6
  <2>3. n.keys \in Seq(Keys) /\ high.keys \in Seq(Keys)
    BY <1>0, <1>1, <1>4, <1>7
  <2> QED BY <1>6, <2>1, <2>2, <2>3, SameValue
<1> QED BY <1>0, <1>10, <1>11 DEF HalvedValues

-----------------------------------------------------------------------------
(* Search trees: a search ends where its path does.                        *)

LEMMA TreeFacts ==
  ASSUME NEW m, NEW P, NEW L, Tree(m, P, L)
  PROVE  /\ L \in Nat /\ L > 0
         /\ \A j \in 0..L : \A k \in Keys : P[j][k] \in Pages0 /\ NodeFits(m, P, j, k)
         /\ \A k \in Keys : P[L][k] = 0
         /\ \A j \in 0..(L - 1) : \A k \in Keys : P[j][k] # 0 /\ P[j][k] \in AnyPage
         /\ \A i, j \in 0..L : \A k, x \in Keys : P[i][k] = P[j][x] => i = j
<1>1. /\ L \in Nat /\ L > 0
      /\ P \in [0..L -> [Keys -> Pages0]]
      /\ \A k \in Keys : P[L][k] = 0
      /\ \A i, j \in 0..L : \A k, x \in Keys : P[i][k] = P[j][x] => i = j
      /\ \A j \in 0..L : \A k \in Keys : NodeFits(m, P, j, k)
  BY DEF Tree, PathType, Levels
<1>2. \A j \in 0..L : P[j] \in [Keys -> Pages0]
  BY <1>1
<1>3. \A j \in 0..L : \A k \in Keys : P[j][k] \in Pages0
  BY <1>2
<1>4. ASSUME NEW j \in 0..(L - 1), NEW k \in Keys PROVE P[j][k] # 0 /\ P[j][k] \in AnyPage
  <2>1. j \in 0..L /\ L \in 0..L /\ j # L
    BY <1>1
  <2>2. P[j][k] # 0
    BY <1>1, <2>1
  <2>3. P[j][k] \in 0..PageLimit
    BY <1>3, <2>1 DEF Pages0
  <2> QED BY <2>2, <2>3, LimitAssumption DEF AnyPage
<1> QED BY <1>1, <1>3, <1>4

LEMMA SearchEnds ==
  ASSUME NEW m, NEW P, NEW L, Tree(m, P, L), NEW k \in Keys, NEW f,
         \A j \in 0..(L - 1) :
           f[P[j][k]] = IF IsLeaf(m[P[j][k]]) THEN ValueIn(m[P[j][k]], k)
                        ELSE f[Route(m[P[j][k]], k)]
  PROVE  f[P[L - 1][k]] = ValueIn(m[P[0][k]], k)
<1> DEFINE T == {j \in Nat : j <= L - 1 => f[P[j][k]] = ValueIn(m[P[0][k]], k)}
<1>0. L \in Nat /\ L > 0 /\ \A j \in 0..L : NodeFits(m, P, j, k)
  BY TreeFacts
<1>1. 0 \in T
  <2>1. 0 \in 0..(L - 1) /\ 0 \in 0..L
    BY <1>0
  <2>2. IsLeaf(m[P[0][k]])
    BY <1>0, <2>1 DEF NodeFits
  <2> QED BY <2>1, <2>2
<1>2. ASSUME NEW j \in Nat, j \in T PROVE j + 1 \in T
  <2> SUFFICES ASSUME j + 1 <= L - 1 PROVE f[P[j + 1][k]] = ValueIn(m[P[0][k]], k)
    OBVIOUS
  <2>1. PICK i : i = j + 1 /\ i \in 0..(L - 1) /\ i \in 1..L /\ i \in 0..L /\ i # 0 /\ i - 1 = j
                 /\ j <= L - 1
    BY <1>0
  <2>2. ~IsLeaf(m[P[i][k]])
    BY <1>0, <2>1 DEF NodeFits
  <2>3. Route(m[P[i][k]], k) = P[j][k]
    <3>1. Leads(m, P, i, k)
      BY <2>1 DEF Tree
    <3> QED BY <2>1, <3>1 DEF Leads
  <2> QED BY <1>2, <2>1, <2>2, <2>3
<1>3. L - 1 \in T
  <2> HIDE DEF T
  <2>1. L - 1 \in Nat
    BY <1>0
  <2> QED BY <1>1, <1>2, <2>1, SetInduction
<1> QED BY <1>0, <1>3

-----------------------------------------------------------------------------
(* How a search tree changes.                                              *)

(* Only the pages on the paths matter.                                     *)
LEMMA SameTree ==
  ASSUME NEW m, NEW P, NEW L, Tree(m, P, L), NEW m2,
         \A j \in 0..L : \A k \in Keys : m2[P[j][k]] = m[P[j][k]]
  PROVE  /\ Tree(m2, P, L)
         /\ \A k \in Keys : m2[P[0][k]] = m[P[0][k]]
<1>1. /\ PathType(P, L) /\ Levels(P, L) /\ L \in Nat
      /\ \A j \in 0..L : \A k \in Keys : NodeFits(m, P, j, k)
      /\ \A j \in 1..L : \A k \in Keys :
           Leads(m, P, j, k) /\ Meets(m, P, j, k) /\ FirstTaken(m, P, j, k)
      /\ \A j \in 1..L : j \in 0..L
  BY DEF Tree, PathType
<1>2. \A j \in 0..L : \A k \in Keys : NodeFits(m2, P, j, k)
  BY <1>1 DEF NodeFits
<1>3. \A j \in 1..L : \A k \in Keys :
        Slot(m2, P, j, k) = Slot(m, P, j, k) /\ Leads(m2, P, j, k)
  BY <1>1 DEF Slot, Leads
<1>4. \A j \in 1..L : \A k \in Keys : Meets(m2, P, j, k) /\ FirstTaken(m2, P, j, k)
  BY <1>1, <1>3 DEF Meets, FirstTaken
<1>5. 0 \in 0..L
  BY <1>1
<1> QED BY <1>1, <1>2, <1>3, <1>4, <1>5 DEF Tree

(* A leaf of the tree is replaced.                                         *)
LEMMA LeafReplaced ==
  ASSUME NEW m, NEW P, NEW L, Tree(m, P, L), NEW x \in Keys, NEW m2, NEW n2,
         n2 = m2[P[0][x]],
         \A j \in 0..L : \A k \in Keys : P[j][k] # P[0][x] => m2[P[j][k]] = m[P[j][k]],
         NodeOver(n2, AnyPage), IsLeaf(n2), Ascending(n2.keys),
         \A i \in DOMAIN n2.keys : P[0][n2.keys[i]] = P[0][x]
  PROVE  Tree(m2, P, L)
<1>1. /\ PathType(P, L) /\ Levels(P, L) /\ L \in Nat /\ 0 \in 0..L
      /\ \A j \in 0..L : \A k \in Keys : NodeFits(m, P, j, k)
      /\ \A j \in 1..L : \A k \in Keys :
           Leads(m, P, j, k) /\ Meets(m, P, j, k) /\ FirstTaken(m, P, j, k)
      /\ \A j \in 1..L : j \in 0..L /\ j # 0
  BY DEF Tree, PathType
<1>2. \A j \in 0..L : \A k \in Keys : NodeFits(m2, P, j, k)
  <2> SUFFICES ASSUME NEW j \in 0..L, NEW k \in Keys PROVE NodeFits(m2, P, j, k)
    OBVIOUS
  <2>1. CASE P[j][k] = P[0][x]
    <3>1. j = 0
      BY <1>1, <2>1 DEF Levels
    <3> QED BY <2>1, <3>1 DEF NodeFits
  <2>2. CASE P[j][k] # P[0][x]
    <3>1. NodeFits(m, P, j, k) /\ m2[P[j][k]] = m[P[j][k]]
      BY <1>1, <2>2
    <3> QED BY <3>1 DEF NodeFits
  <2> QED BY <2>1, <2>2
<1>3. \A j \in 1..L : \A k \in Keys : m2[P[j][k]] = m[P[j][k]]
  BY <1>1 DEF Levels
<1>4. \A j \in 1..L : \A k \in Keys :
        Slot(m2, P, j, k) = Slot(m, P, j, k) /\ Leads(m2, P, j, k)
  BY <1>1, <1>3 DEF Slot, Leads
<1>5. \A j \in 1..L : \A k \in Keys : Meets(m2, P, j, k) /\ FirstTaken(m2, P, j, k)
  BY <1>1, <1>4 DEF Meets, FirstTaken
<1> QED BY <1>1, <1>2, <1>4, <1>5 DEF Tree

(* Searches that meet on a page have come the same way from the root.      *)
LEMMA Upward ==
  ASSUME NEW m, NEW P, NEW L, Tree(m, P, L), NEW i \in 0..L, NEW k \in Keys, NEW x \in Keys,
         P[i][k] = P[i][x], NEW l \in i..L
  PROVE  P[l][k] = P[l][x]
<1> DEFINE T == {j \in Nat : j \in i..L => P[j][k] = P[j][x]}
<1>0. L \in Nat
  BY TreeFacts
<1>1. 0 \in T
  BY <1>0
<1>2. ASSUME NEW j \in Nat, j \in T PROVE j + 1 \in T
  <2> SUFFICES ASSUME j + 1 \in i..L PROVE P[j + 1][k] = P[j + 1][x]
    OBVIOUS
  <2>1. CASE j + 1 = i
    BY <2>1
  <2>2. CASE j + 1 # i
    <3>1. PICK b : b = j + 1 /\ b \in 1..L /\ b - 1 = j /\ j \in i..L
      BY <1>0, <2>2
    <3>2. P[j][k] = P[j][x]
      BY <1>2, <3>1
    <3>3. Meets(m, P, b, k)
      BY <3>1 DEF Tree
    <3> QED BY <3>1, <3>2, <3>3 DEF Meets
  <2> QED BY <2>1, <2>2
<1>3. l \in T
  <2> HIDE DEF T
  <2>1. l \in Nat
    BY <1>0
  <2> QED BY <1>1, <1>2, <2>1, SetInduction
<1> QED BY <1>3

(* Searches that meet below a node that is split go to the same half.      *)
LEMMA SameSide ==
  ASSUME NEW m, NEW P, NEW L, Tree(m, P, L), NEW l \in 1..L, NEW k \in Keys, NEW y \in Keys,
         NEW left, NEW right, NEW sep, HalvedRoutes(left, right, m[P[l][y]], sep),
         NEW i \in 0..(l - 1), P[i][k] = P[i][y]
  PROVE  P[l][k] = P[l][y] /\ (k < sep <=> y < sep)
<1>0. L \in Nat
  BY TreeFacts
<1>1. PICK b : b = l - 1 /\ b \in i..L /\ i \in 0..L
  BY <1>0
<1>2. P[l - 1][k] = P[l - 1][y]
  BY <1>1, Upward
<1>3. Meets(m, P, l, y)
  BY DEF Tree
<1>4. P[l][k] = P[l][y] /\ childIdx(m[P[l][y]], k) = childIdx(m[P[l][y]], y)
  BY <1>2, <1>3 DEF Meets, Slot
<1> QED BY <1>4 DEF HalvedRoutes

(* Keys from the last separator on take the last child.                    *)
LEMMA LastSlot ==
  ASSUME NEW n, n.keys \in Seq(Keys), NEW z \in Keys, NEW k \in Keys, z <= k,
         \A i \in DOMAIN n.keys : n.keys[i] <= z
  PROVE  childIdx(n, k) = childIdx(n, z)
<1>0. PICK s, len : s = n.keys /\ len = Len(s)
  OBVIOUS
<1>1. /\ len \in Nat /\ z \in Nat /\ k \in Nat /\ s \in Seq(Keys)
      /\ \A i \in 1..len : s[i] \in Nat /\ s[i] <= z
  BY <1>0, KeysAreNumbers, TreeAssumption
<1>2. IsSlot(s, k, len + 1) /\ IsSlot(s, z, len + 1)
  <2>1. len + 1 \in 1..(len + 1) /\ len + 1 - 1 = len /\ ~(len + 1 <= len)
    BY <1>1
  <2>2. \A i \in 1..len : s[i] <= k
    BY <1>1
  <2> QED BY <1>0, <1>1, <2>1, <2>2 DEF IsSlot
<1> QED BY <1>0, <1>2, SlotIs

(* What Tree says of the node n on page p of level j.                      *)
PageHas(n, P, j, p) ==
  /\ NodeOver(n, AnyPage) /\ n.keys \in Seq(Keys)
  /\ IsLeaf(n) <=> j = 0
  /\ Ascending(n.keys)
  /\ \A i \in DOMAIN n.keys : n.keys[i] \in Keys /\ P[j][n.keys[i]] = p

LEMMA PageFacts ==
  ASSUME NEW m, NEW P, NEW L, Tree(m, P, L), NEW j \in 0..L, NEW k \in Keys
  PROVE  PageHas(m[P[j][k]], P, j, P[j][k])
<1>1. NodeFits(m, P, j, k)
  BY TreeFacts
<1>2. PICK n : n = m[P[j][k]]
  OBVIOUS
<1>3. NodeOver(n, AnyPage)
  BY <1>1, <1>2 DEF NodeFits
<1>4. n.keys \in Seq(Keys) /\ \A i \in DOMAIN n.keys : n.keys[i] \in Keys
  BY <1>3, NodeFacts, KeysAreNumbers
<1> QED BY <1>1, <1>2, <1>3, <1>4 DEF NodeFits, PageHas

(* The tree when the left half of node q is written and the right half is not
   yet linked: searches for keys from the separator on go astray, all the way
   behind the last key that is left.                                       *)
OnlyLeft(m2, m, P, L, q, left) ==
  \A j \in 0..L : \A k \in Keys : m2[P[j][k]] = IF P[j][k] = q THEN left ELSE m[P[j][k]]

LeftTree(m2, m, P, L) ==
  \E P2 : /\ Tree(m2, P2, L)
          /\ \A j \in 0..L : \A k \in Keys : \E y \in Keys : P2[j][k] = P[j][y]
          /\ \A k \in Keys : ValueIn(m2[P2[0][k]], k) \in {None, ValueIn(m[P[0][k]], k)}

LEMMA HalfInternal ==
  ASSUME NEW m, NEW P, NEW L, Tree(m, P, L), NEW l \in 1..(L - 1), NEW x \in Keys,
         NEW q, q = P[l][x], NEW left, NEW right, NEW sep \in Keys, NEW n, n = m[q],
         Halved(left, right, n, sep), HalvedRoutes(left, right, n, sep),
         NodeOver(left, AnyPage), ~IsLeaf(left), NEW m2, OnlyLeft(m2, m, P, L, q, left)
  PROVE  LeftTree(m2, m, P, L)
<1>. USE DEF OnlyLeft
<1>0. /\ L \in Nat /\ l \in 0..L /\ l \in 1..L /\ L \in 0..L /\ 0 \in 0..L /\ 0 \in 0..(l - 1)
      /\ \A j \in 1..L : j \in 0..L /\ j - 1 \in 0..L
  BY TreeFacts
<1>1. /\ PathType(P, L) /\ Levels(P, L)
      /\ \A j \in 0..L : \A k \in Keys : P[j][k] \in Pages0
      /\ \A i, j \in 0..L : \A k, y \in Keys : P[i][k] = P[j][y] => i = j
      /\ \A k \in Keys : P[L][k] = 0
  <2>1. PathType(P, L) /\ Levels(P, L)
    BY DEF Tree
  <2> QED BY <2>1, TreeFacts
<1>2. \A k \in Keys : k \in Nat
  BY TreeAssumption
<1> DEFINE Moved(k) == P[l][k] = q /\ ~(k < sep)
           Kept == {y \in Keys : P[l][y] = q /\ y < sep}
<1>3. PICK z \in Keys : P[l][z] = q /\ z < sep /\ \A y \in Kept : y <= z
  <2>1. \E y \in Keys : P[l][y] = q /\ y < sep
    <3>1. FirstTaken(m, P, l, x)
      BY <1>0 DEF Tree
    <3>2. PICK y \in Keys : P[l][y] = q /\ childIdx(m[q], y) = 1
      BY <3>1 DEF FirstTaken, Slot
    <3> QED BY <3>2 DEF HalvedRoutes
  <2>2. Kept \in SUBSET (0..sep) /\ Kept # {} /\ sep \in Nat
    BY <1>2, <2>1
  <2>3. PICK z \in Kept : \A y \in Kept : y <= z
    <3> HIDE DEF Kept
    <3> QED BY <2>2, GreatestNumber
  <2> QED BY <2>3
<1>4. PICK r : r = [k \in Keys |-> IF Moved(k) THEN z ELSE k]
  OBVIOUS
<1>5. \A k \in Keys : /\ r[k] \in Keys /\ ~Moved(r[k])
                      /\ Moved(k) => r[k] = z
                      /\ ~Moved(k) => r[k] = k
                      /\ P[l][r[k]] = P[l][k]
  BY <1>3, <1>4
<1>6. PICK P2 : P2 = [j \in 0..L |-> [k \in Keys |-> P[j][r[k]]]]
  OBVIOUS
<1>7. \A j \in 0..L : \A k \in Keys : P2[j][k] = P[j][r[k]]
  BY <1>6
<1>8. \A j \in l..L : \A k \in Keys : P[j][r[k]] = P[j][k]
  BY <1>0, <1>5, Upward
<1>9. \A i \in 0..(l - 1) : \A k, y \in Keys :
        P[i][k] = P[i][y] /\ ~Moved(y) => ~Moved(k) /\ P[l][k] = P[l][y]
  <2> SUFFICES ASSUME NEW i \in 0..(l - 1), NEW k \in Keys, NEW y \in Keys,
                      P[i][k] = P[i][y], ~Moved(y)
               PROVE  ~Moved(k) /\ P[l][k] = P[l][y]
    OBVIOUS
  <2>1. CASE P[l][y] = q
    <3>1. HalvedRoutes(left, right, m[P[l][y]], sep)
      BY <2>1
    <3>2. P[l][k] = P[l][y] /\ (k < sep <=> y < sep)
      BY <1>0, <3>1, SameSide
    <3> QED BY <2>1, <3>2
  <2>2. CASE P[l][y] # q
    <3>1. i \in 0..L /\ l \in i..L
      BY <1>0
    <3>2. P[l][k] = P[l][y]
      BY <3>1, Upward
    <3> QED BY <2>2, <3>2
  <2> QED BY <2>1, <2>2
<1> HIDE DEF Moved, Kept
<1>10. \A j \in 0..L : \A k \in Keys :
         /\ j # l => P[j][k] # q
         /\ P[j][k] # q => m2[P[j][k]] = m[P[j][k]]
         /\ P[j][k] = q => m2[P[j][k]] = left
  BY <1>0, <1>1
(* The keys of a node below are below the separator, or of another part.    *)
<1>11. ASSUME NEW j \in 0..l, NEW k \in Keys, ~Moved(k), NEW c \in DOMAIN m2[P[j][k]].keys,
              NEW d, d = m2[P[j][k]].keys[c]
       PROVE  d \in Keys /\ ~Moved(d) /\ P[j][d] = P[j][k] /\ P[l][d] = P[l][k]
  <2>0. j \in 0..L
    BY <1>0
  <2>1. CASE P[j][k] = q
    <3>1. m2[P[j][k]] = left /\ j = l /\ d < sep
      BY <1>10, <1>11, <2>0, <2>1 DEF Halved
    <3>2. PICK b \in DOMAIN m[q].keys : d = m[q].keys[b]
      BY <1>11, <3>1 DEF Halved
    <3>3. d \in Keys /\ P[j][d] = P[j][k]
      <4>1. PageHas(m[P[j][k]], P, j, P[j][k])
        BY <2>0, PageFacts
      <4> QED BY <2>1, <3>2, <4>1 DEF PageHas
    <3> QED BY <3>1, <3>3 DEF Moved
  <2>2. CASE P[j][k] # q
    <3>1. d \in Keys /\ P[j][d] = P[j][k]
      <4>1. PageHas(m[P[j][k]], P, j, P[j][k])
        BY <2>0, PageFacts
      <4> QED BY <1>10, <1>11, <2>0, <2>2, <4>1 DEF PageHas
    <3>2. CASE j = l
      BY <2>2, <3>1, <3>2 DEF Moved
    <3>3. CASE j # l
      <4>1. j \in 0..(l - 1)
        BY <1>0, <3>3
      <4> QED BY <1>9, <1>11, <3>1, <4>1
    <3> QED BY <3>2, <3>3
  <2> QED BY <2>1, <2>2
<1>12. \A j \in 0..L : \A k \in Keys : /\ NodeOver(m2[P[j][k]], AnyPage)
                                       /\ IsLeaf(m2[P[j][k]]) <=> j = 0
                                       /\ Ascending(m2[P[j][k]].keys)
                                       /\ m2[P[j][k]].keys \in Seq(Keys)
  <2> SUFFICES ASSUME NEW j \in 0..L, NEW k \in Keys
               PROVE  /\ NodeOver(m2[P[j][k]], AnyPage)
                      /\ IsLeaf(m2[P[j][k]]) <=> j = 0
                      /\ Ascending(m2[P[j][k]].keys)
                      /\ m2[P[j][k]].keys \in Seq(Keys)
    OBVIOUS
  <2>1. CASE P[j][k] = q
    <3>1. m2[P[j][k]] = left /\ j # 0
      BY <1>0, <1>10, <2>1
    <3>2. left.keys \in Seq(Keys)
      BY NodeFacts
    <3> QED BY <3>1, <3>2 DEF Halved
  <2>2. CASE P[j][k] # q
    BY <1>10, <2>2, PageFacts DEF PageHas
  <2> QED BY <2>1, <2>2
(* A search that went astray takes the way of the search for z.             *)
<1>13. ASSUME NEW j \in 0..l, NEW k \in Keys
       PROVE  Slot(m2, P2, j, k) = childIdx(m2[P[j][r[k]]], r[k])
  <2>0. j \in 0..L
    BY <1>0
  <2>1. CASE Moved(k)
    <3>0. r[k] = z /\ ~Moved(z) /\ z <= k
      BY <1>2, <1>3, <1>5, <2>1 DEF Moved
    <3>1. \A c \in DOMAIN m2[P[j][z]].keys : m2[P[j][z]].keys[c] <= z
      <4> SUFFICES ASSUME NEW c \in DOMAIN m2[P[j][z]].keys
                   PROVE  m2[P[j][z]].keys[c] <= z
        OBVIOUS
      <4>1. PICK d : d = m2[P[j][z]].keys[c]
        OBVIOUS
      <4>2. d \in Keys /\ ~Moved(d) /\ P[l][d] = q
        BY <1>3, <1>11, <3>0, <4>1
      <4>3. d \in Kept
        BY <4>2 DEF Kept, Moved
      <4> QED BY <1>3, <4>1, <4>3
    <3>2. m2[P[j][z]].keys \in Seq(Keys)
      BY <1>12, <2>0
    <3>3. childIdx(m2[P[j][z]], k) = childIdx(m2[P[j][z]], z)
      BY <3>0, <3>1, <3>2, LastSlot
    <3> QED BY <1>7, <2>0, <3>0, <3>3 DEF Slot
  <2>2. CASE ~Moved(k)
    BY <1>5, <1>7, <2>0, <2>2 DEF Slot
  <2> QED BY <2>1, <2>2
<1>14. ASSUME NEW j \in 0..L, ~(j <= l), NEW k \in Keys
       PROVE  /\ P2[j][k] = P[j][k] /\ P2[j - 1][k] = P[j - 1][k]
              /\ m2[P[j][k]] = m[P[j][k]]
              /\ Slot(m2, P2, j, k) = Slot(m, P, j, k)
  <2>1. j \in l..L /\ j - 1 \in l..L /\ j - 1 \in 0..L /\ j # l
    BY <1>0, <1>14
  <2>2. P2[j][k] = P[j][k] /\ P2[j - 1][k] = P[j - 1][k] /\ m2[P[j][k]] = m[P[j][k]]
    BY <1>7, <1>8, <1>10, <2>1
  <2> QED BY <2>2 DEF Slot
<1>15. PathType(P2, L) /\ Levels(P2, L)
  <2>1. P2 \in [0..L -> [Keys -> Pages0]]
    <3>1. \A j \in 0..L : \A k \in Keys : P[j][r[k]] \in Pages0
      BY <1>1, <1>5
    <3> QED BY <1>6, <3>1
  <2>2. \A k \in Keys : P2[L][k] = 0
    BY <1>0, <1>1, <1>5, <1>7
  <2>3. PathType(P2, L)
    BY <1>1, <2>1, <2>2 DEF PathType
  <2>4. Levels(P2, L)
    BY <1>1, <1>5, <1>7 DEF Levels
  <2> QED BY <2>3, <2>4
<1>16. ASSUME NEW j \in 0..L, NEW k \in Keys PROVE NodeFits(m2, P2, j, k)
  <2>0. P2[j][k] = P[j][r[k]] /\ r[k] \in Keys /\ ~Moved(r[k])
    BY <1>5, <1>7
  <2>1. ASSUME NEW c \in DOMAIN m2[P[j][r[k]]].keys
        PROVE  P2[j][m2[P[j][r[k]]].keys[c]] = P2[j][k]
    <3>0. PICK d : d = m2[P[j][r[k]]].keys[c]
      OBVIOUS
    <3>1. CASE j <= l
      <4>1. j \in 0..l
        BY <1>0, <3>1
      <4>2. d \in Keys /\ ~Moved(d) /\ P[j][d] = P[j][r[k]]
        BY <1>11, <2>0, <3>0, <4>1
      <4> QED BY <1>5, <1>7, <2>0, <3>0, <4>2
    <3>2. CASE ~(j <= l)
      <4>1. m2[P[j][r[k]]] = m[P[j][r[k]]]
        BY <1>14, <2>0, <3>2
      <4>2. d \in Keys /\ P[j][d] = P[j][r[k]]
        <5>1. PICK y \in Keys : y = r[k]
          BY <2>0
        <5>2. PageHas(m[P[j][y]], P, j, P[j][y])
          BY PageFacts
        <5> QED BY <3>0, <4>1, <5>1, <5>2 DEF PageHas
      <4>3. P2[j][d] = P[j][d]
        BY <1>14, <3>2, <4>2
      <4> QED BY <2>0, <3>0, <4>2, <4>3
    <3> QED BY <3>1, <3>2
  <2> QED BY <1>12, <2>0, <2>1 DEF NodeFits
<1>17. ASSUME NEW j \in 1..L, NEW k \in Keys PROVE Leads(m2, P2, j, k)
  <2>0. /\ P2[j][k] = P[j][r[k]] /\ P2[j - 1][k] = P[j - 1][r[k]]
        /\ r[k] \in Keys /\ ~Moved(r[k]) /\ j \in 0..L
    BY <1>0, <1>5, <1>7
  <2>1. CASE j <= l
    <3>0. j \in 0..l
      BY <1>0, <2>1
    <3>1. Route(m2[P2[j][k]], k) = Route(m2[P[j][r[k]]], r[k])
      BY <1>13, <2>0, <3>0 DEF Slot, Route
    <3>2. Route(m[P[j][r[k]]], r[k]) = P[j - 1][r[k]]
      BY <2>0 DEF Tree, Leads
    <3>3. CASE P[j][r[k]] = q
      <4>1. m2[P[j][r[k]]] = left /\ r[k] < sep
        BY <1>0, <1>10, <2>0, <3>3 DEF Moved
      <4>2. Route(left, r[k]) = Route(m[q], r[k])
        BY <2>0, <4>1 DEF HalvedRoutes
      <4> QED BY <2>0, <3>1, <3>2, <3>3, <4>1, <4>2 DEF Leads
    <3>4. CASE P[j][r[k]] # q
      BY <1>10, <2>0, <3>1, <3>2, <3>4 DEF Leads
    <3> QED BY <3>3, <3>4
  <2>2. CASE ~(j <= l)
    <3>1. Leads(m, P, j, k)
      BY DEF Tree
    <3> QED BY <1>14, <2>0, <2>2, <3>1 DEF Leads
  <2> QED BY <2>1, <2>2
<1>18. ASSUME NEW j \in 1..L, NEW k \in Keys PROVE Meets(m2, P2, j, k)
  <2> SUFFICES ASSUME NEW y \in Keys, P2[j - 1][y] = P2[j - 1][k]
               PROVE  P2[j][y] = P2[j][k] /\ Slot(m2, P2, j, y) = Slot(m2, P2, j, k)
    BY DEF Meets
  <2>0. /\ P2[j][k] = P[j][r[k]] /\ P2[j - 1][k] = P[j - 1][r[k]]
        /\ r[k] \in Keys /\ ~Moved(r[k]) /\ j \in 0..L
        /\ P2[j][y] = P[j][r[y]] /\ P2[j - 1][y] = P[j - 1][r[y]]
        /\ r[y] \in Keys /\ ~Moved(r[y])
    BY <1>0, <1>5, <1>7
  <2>1. CASE j <= l
    <3>0. j \in 0..l
      BY <1>0, <2>1
    <3>1. /\ Slot(m2, P2, j, k) = childIdx(m2[P[j][r[k]]], r[k])
          /\ Slot(m2, P2, j, y) = childIdx(m2[P[j][r[y]]], r[y])
      BY <1>13, <3>0
    <3>2. /\ P[j][r[y]] = P[j][r[k]]
          /\ childIdx(m[P[j][r[k]]], r[y]) = childIdx(m[P[j][r[k]]], r[k])
      <4>1. Meets(m, P, j, r[k])
        BY <2>0 DEF Tree
      <4> QED BY <2>0, <4>1 DEF Meets, Slot
    <3>3. CASE P[j][r[k]] = q
      <4>1. m2[P[j][r[k]]] = left /\ r[k] < sep
        BY <1>0, <1>10, <2>0, <3>3 DEF Moved
      <4>2. childIdx(left, r[y]) = childIdx(left, r[k])
        BY <2>0, <3>2, <3>3, <4>1 DEF HalvedRoutes
      <4> QED BY <2>0, <3>1, <3>2, <3>3, <4>1, <4>2
    <3>4. CASE P[j][r[k]] # q
      BY <1>10, <2>0, <3>1, <3>2, <3>4
    <3> QED BY <3>3, <3>4
  <2>2. CASE ~(j <= l)
    <3>1. Meets(m, P, j, k)
      BY DEF Tree
    <3> QED BY <1>14, <2>0, <2>2, <3>1 DEF Meets
  <2> QED BY <2>1, <2>2
<1>19. ASSUME NEW j \in 1..L, NEW k \in Keys PROVE FirstTaken(m2, P2, j, k)
  <2>0. P2[j][k] = P[j][r[k]] /\ r[k] \in Keys /\ ~Moved(r[k]) /\ j \in 0..L
    BY <1>0, <1>5, <1>7
  <2>1. CASE j <= l
    <3>0. j \in 0..l
      BY <1>0, <2>1
    <3>1. PICK w \in Keys : P[j][w] = P[j][r[k]] /\ childIdx(m[P[j][r[k]]], w) = 1
      <4>1. FirstTaken(m, P, j, r[k])
        BY <2>0 DEF Tree
      <4> QED BY <4>1 DEF FirstTaken, Slot
    <3>2. ~Moved(w) /\ childIdx(m2[P[j][r[k]]], w) = 1
      <4>1. CASE P[j][r[k]] = q
        <5>1. w < sep /\ childIdx(left, w) = 1
          BY <3>1, <4>1 DEF HalvedRoutes
        <5> QED BY <1>10, <2>0, <4>1, <5>1 DEF Moved
      <4>2. CASE P[j][r[k]] # q
        <5>1. CASE j = l
          BY <1>10, <2>0, <3>1, <4>2, <5>1 DEF Moved
        <5>2. CASE j # l
          <6>1. j \in 0..(l - 1)
            BY <1>0, <3>0, <5>2
          <6> QED BY <1>9, <1>10, <2>0, <3>1, <4>2, <6>1
        <5> QED BY <5>1, <5>2
      <4> QED BY <4>1, <4>2
    <3>3. r[w] = w /\ P2[j][w] = P2[j][k]
      BY <1>5, <1>7, <2>0, <3>1, <3>2
    <3>4. Slot(m2, P2, j, w) = 1
      BY <1>13, <3>0, <3>1, <3>2, <3>3
    <3> QED BY <3>3, <3>4 DEF FirstTaken
  <2>2. CASE ~(j <= l)
    <3>1. FirstTaken(m, P, j, k)
      BY DEF Tree
    <3> QED BY <1>14, <2>0, <2>2, <3>1 DEF FirstTaken
  <2> QED BY <2>1, <2>2
<1>20. Tree(m2, P2, L)
  BY <1>15, <1>16, <1>17, <1>18, <1>19 DEF Tree
<1>21. ASSUME NEW k \in Keys PROVE ValueIn(m2[P2[0][k]], k) \in {None, ValueIn(m[P[0][k]], k)}
  <2>0. P2[0][k] = P[0][r[k]] /\ r[k] \in Keys /\ 0 # l
    BY <1>0, <1>5, <1>7
  <2>1. m2[P[0][r[k]]] = m[P[0][r[k]]]
    BY <1>0, <1>10, <2>0
  <2>2. CASE Moved(k)
    <3>0. r[k] = z /\ ~Moved(z) /\ ~(k < sep)
      BY <1>3, <1>5, <2>2 DEF Moved
    <3>1. ASSUME NEW c \in DOMAIN m2[P[0][z]].keys PROVE m2[P[0][z]].keys[c] # k
      <4>1. PICK d : d = m2[P[0][z]].keys[c]
        OBVIOUS
      <4>2. 0 \in 0..l
        BY <1>0
      <4>3. ~Moved(d) /\ P[l][d] = q
        BY <1>3, <1>11, <3>0, <4>1, <4>2
      <4> QED BY <3>0, <4>1, <4>3 DEF Moved
    <3> QED BY <2>0, <3>0, <3>1, NoValueIn
  <2>3. CASE ~Moved(k)
    BY <1>5, <2>0, <2>1, <2>3
  <2> QED BY <2>2, <2>3
<1>22. \A j \in 0..L : \A k \in Keys : \E y \in Keys : P2[j][k] = P[j][y]
  BY <1>5, <1>7
<1> QED BY <1>20, <1>21, <1>22 DEF LeftTree

SplitCase(m, P, L, l, x, q, up, left, right, sep, new) ==
  /\ q = P[l][x] /\ up = P[l + 1][x]
  /\ Halved(left, right, m[q], sep)
  /\ l > 0 => HalvedRoutes(left, right, m[q], sep)
  /\ NodeOver(left, AnyPage) /\ (IsLeaf(left) <=> l = 0)
  /\ NodeOver(right, AnyPage) /\ (IsLeaf(right) <=> l = 0)
  /\ \A j \in 0..L : \A k \in Keys : P[j][k] # new
  /\ \E y \in Keys : P[l][y] = q /\ y < sep

OnlyThese(m2, m, P, L, q, up) ==
  \A j \in 0..L : \A k \in Keys : P[j][k] # q /\ P[j][k] # up => m2[P[j][k]] = m[P[j][k]]

SplitPaths(P2, P, L, l, q, sep, new) ==
  \A j \in 0..L : \A k \in Keys :
    P2[j][k] = IF j = l /\ P[l][k] = q /\ ~(k < sep) THEN new ELSE P[j][k]

(* The tree when node q is split and the right half, on page `new', is linked:
   n2 is the parent of q with the separator and the new page put in.       *)
LEMMA HalvesLinked ==
  ASSUME NEW m, NEW P, NEW L, Tree(m, P, L), NEW l \in 0..(L - 1), NEW x \in Keys,
         NEW q, NEW up, NEW left, NEW right, NEW sep \in Keys, NEW new \in AnyPage,
         SplitCase(m, P, L, l, x, q, up, left, right, sep, new),
         NEW n2, NodeOver(n2, AnyPage), ~IsLeaf(n2), LinkedNode(n2, m[up], sep, new),
         NEW m2, m2[q] = left, m2[new] = right, m2[up] = n2, OnlyThese(m2, m, P, L, q, up)
  PROVE  \E P2 : Tree(m2, P2, L) /\ SplitPaths(P2, P, L, l, q, sep, new)
<1>. SUFFICES ASSUME q = P[l][x], up = P[l + 1][x],
                     Halved(left, right, m[q], sep), l > 0 => HalvedRoutes(left, right, m[q], sep),
                     NodeOver(left, AnyPage), IsLeaf(left) <=> l = 0,
                     NodeOver(right, AnyPage), IsLeaf(right) <=> l = 0,
                     \A j \in 0..L : \A k \in Keys : P[j][k] # new,
                     NEW y \in Keys, P[l][y] = q, y < sep,
                     \A j \in 0..L : \A k \in Keys :
                       P[j][k] # q /\ P[j][k] # up => m2[P[j][k]] = m[P[j][k]]
              PROVE  \E P2 : /\ Tree(m2, P2, L)
                             /\ \A j \in 0..L : \A k \in Keys :
                                  P2[j][k] = IF j = l /\ P[l][k] = q /\ ~(k < sep) THEN new
                                             ELSE P[j][k]
  BY DEF SplitCase, OnlyThese, SplitPaths
<1>0. PICK h : /\ h = l + 1 /\ h \in 1..L /\ h \in 0..L /\ h - 1 = l /\ h # l
               /\ L \in Nat /\ l \in 0..L /\ L \in 0..L /\ L # l
               /\ \A j \in 1..L : /\ j \in 0..L /\ j - 1 \in 0..L /\ j # 0
                                  /\ j - 1 = l <=> j = h
                                  /\ j - 1 # j
  BY TreeFacts
<1>1. /\ PathType(P, L) /\ Levels(P, L)
      /\ \A j \in 0..L : \A k \in Keys : P[j][k] \in Pages0
      /\ \A i, j \in 0..L : \A k, w \in Keys : P[i][k] = P[j][w] => i = j
      /\ \A k \in Keys : P[L][k] = 0
  <2>1. PathType(P, L) /\ Levels(P, L)
    BY DEF Tree
  <2> QED BY <2>1, TreeFacts
<1>2. new \in Pages0
  BY LimitAssumption DEF AnyPage, Pages0
<1> DEFINE Moved(k) == P[l][k] = q /\ ~(k < sep)
<1>3. PICK P2 : P2 = [j \in 0..L |-> [k \in Keys |-> IF j = l /\ Moved(k) THEN new ELSE P[j][k]]]
  OBVIOUS
<1>4. \A j \in 0..L : \A k \in Keys :
        /\ j = l /\ Moved(k) => P2[j][k] = new
        /\ ~(j = l /\ Moved(k)) => P2[j][k] = P[j][k]
  BY <1>3
<1>5. ASSUME NEW k \in Keys PROVE Moved(k) <=> P[l][k] = q /\ ~(k < sep)
  OBVIOUS
<1> HIDE DEF Moved
(* What is on the pages.                                                    *)
<1>6. /\ \A j \in 0..L : \A k \in Keys :
           /\ j # l => P[j][k] # q
           /\ j # h => P[j][k] # up
           /\ P[j][k] # new
           /\ P[j][k] # q /\ P[j][k] # up => m2[P[j][k]] = m[P[j][k]]
      /\ up = P[h][x]
  BY <1>0, <1>1
<1>7. \A i \in DOMAIN m[q].keys : m[q].keys[i] \in Keys /\ P[l][m[q].keys[i]] = q
  <2>1. PageHas(m[P[l][x]], P, l, P[l][x])
    BY <1>0, PageFacts
  <2> QED BY <2>1 DEF PageHas
<1>8. /\ \A i \in DOMAIN left.keys : /\ left.keys[i] \in Keys /\ left.keys[i] < sep
                                     /\ P[l][left.keys[i]] = q
      /\ \A i \in DOMAIN right.keys : /\ right.keys[i] \in Keys /\ ~(right.keys[i] < sep)
                                      /\ P[l][right.keys[i]] = q
      /\ P[l][sep] = q
  BY <1>7 DEF Halved
<1>9. Moved(sep) /\ ~Moved(y)
  <2>1. sep \in Nat
    BY TreeAssumption
  <2> QED BY <1>5, <1>8, <2>1
<1>10. \A i \in DOMAIN n2.keys : n2.keys[i] \in Keys /\ P[h][n2.keys[i]] = up
  <2>1. PageHas(m[P[h][x]], P, h, P[h][x])
    BY <1>0, PageFacts
  <2>2. P[h][sep] = up
    <3>1. Meets(m, P, h, x)
      BY <1>0 DEF Tree
    <3> QED BY <1>0, <1>6, <1>8, <3>1 DEF Meets
  <2> QED BY <1>6, <2>1, <2>2 DEF LinkedNode, PageHas
(* The searches that come by the parent of q.                               *)
<1>11. \A k, w \in Keys : P[l][k] = P[l][w] =>
         P[h][k] = P[h][w] /\ Slot(m, P, h, k) = Slot(m, P, h, w)
  <2>1. \A w \in Keys : Meets(m, P, h, w)
    BY <1>0 DEF Tree
  <2> QED BY <1>0, <2>1 DEF Meets
<1>12. \A k \in Keys : P[l][k] = q =>
         P[h][k] = up /\ childIdx(m[up], k) = childIdx(m[up], sep)
  BY <1>6, <1>8, <1>11 DEF Slot
<1>13. \A k \in Keys : P[h][k] = up /\ childIdx(m[up], k) = childIdx(m[up], sep) => P[l][k] = q
  <2>1. \A k \in Keys : P[h][k] = up => Route(m[up], k) = P[l][k]
    <3>1. \A k \in Keys : Leads(m, P, h, k)
      BY <1>0 DEF Tree
    <3> QED BY <1>0, <3>1 DEF Leads
  <2>2. \A k \in Keys : childIdx(m[up], k) = childIdx(m[up], sep)
                          => Route(m[up], k) = Route(m[up], sep)
    BY DEF Route
  <2>3. P[h][sep] = up
    BY <1>8, <1>12
  <2> QED BY <1>8, <2>1, <2>2, <2>3
<1>14. PathType(P2, L)
  <2>1. \A j \in 0..L : \A k \in Keys : (IF j = l /\ Moved(k) THEN new ELSE P[j][k]) \in Pages0
    BY <1>1, <1>2
  <2>2. P2 \in [0..L -> [Keys -> Pages0]]
    BY <1>3, <2>1
  <2>3. \A k \in Keys : P2[L][k] = 0
    BY <1>0, <1>1, <1>4
  <2> QED BY <1>1, <2>2, <2>3 DEF PathType
<1>15. Levels(P2, L)
  BY <1>1, <1>4, <1>6 DEF Levels
<1>16. ASSUME NEW j \in 0..L, NEW k \in Keys PROVE NodeFits(m2, P2, j, k)
  <2>1. CASE j = l /\ Moved(k)
    <3>1. P2[j][k] = new /\ m2[P2[j][k]] = right
      BY <1>4, <2>1
    <3>2. \A i \in DOMAIN right.keys : P2[j][right.keys[i]] = P2[j][k]
      BY <1>4, <1>5, <1>8, <2>1, <3>1
    <3> QED BY <2>1, <3>1, <3>2 DEF NodeFits, Halved
  <2>2. CASE j = l /\ P[l][k] = q /\ ~Moved(k)
    <3>1. P2[j][k] = q /\ m2[P2[j][k]] = left
      BY <1>4, <2>2
    <3>2. \A i \in DOMAIN left.keys : P2[j][left.keys[i]] = P2[j][k]
      BY <1>4, <1>5, <1>8, <2>2, <3>1
    <3> QED BY <2>2, <3>1, <3>2 DEF NodeFits, Halved
  <2>3. CASE j = h /\ P[h][k] = up
    <3>1. P2[j][k] = up /\ m2[P2[j][k]] = n2 /\ j # 0
      BY <1>0, <1>4, <2>3
    <3>2. \A i \in DOMAIN n2.keys : P2[j][n2.keys[i]] = P2[j][k]
      BY <1>0, <1>4, <1>10, <2>3, <3>1
    <3> QED BY <3>1, <3>2 DEF NodeFits, LinkedNode
  <2>4. CASE P[j][k] # q /\ P[j][k] # up
    <3>0. PICK n : n = m[P[j][k]]
      OBVIOUS
    <3>1. P2[j][k] = P[j][k] /\ m2[P2[j][k]] = n
      BY <1>4, <1>5, <1>6, <2>4, <3>0
    <3>2. /\ NodeOver(n, AnyPage) /\ (IsLeaf(n) <=> j = 0) /\ Ascending(n.keys)
          /\ \A i \in DOMAIN n.keys : n.keys[i] \in Keys /\ P[j][n.keys[i]] = P[j][k]
      <4>1. PageHas(m[P[j][k]], P, j, P[j][k])
        BY PageFacts
      <4> QED BY <3>0, <4>1 DEF PageHas
    <3>3. \A i \in DOMAIN n.keys : P2[j][n.keys[i]] = P2[j][k]
      BY <1>4, <1>5, <2>4, <3>1, <3>2
    <3> QED BY <3>1, <3>2, <3>3 DEF NodeFits
  <2> QED BY <1>5, <1>6, <2>1, <2>2, <2>3, <2>4
<1>17. ASSUME NEW j \in 1..L, NEW k \in Keys PROVE Leads(m2, P2, j, k)
  <2>0. j \in 0..L /\ j - 1 \in 0..L /\ Leads(m, P, j, k)
    BY <1>0 DEF Tree
  <2>1. CASE j = h /\ P[h][k] = up
    <3>1. P2[j][k] = up /\ m2[P2[j][k]] = n2 /\ Route(m[up], k) = P[l][k]
      BY <1>0, <1>4, <2>0, <2>1 DEF Leads
    <3>2. CASE Moved(k)
      <4>1. Route(n2, k) = new
        BY <1>5, <1>12, <3>2 DEF LinkedNode
      <4> QED BY <1>0, <1>4, <2>1, <3>1, <3>2, <4>1 DEF Leads
    <3>3. CASE ~Moved(k)
      <4>1. k < sep \/ childIdx(m[up], k) # childIdx(m[up], sep)
        BY <1>5, <1>13, <2>1, <3>3
      <4>2. Route(n2, k) = Route(m[up], k)
        BY <4>1 DEF LinkedNode
      <4> QED BY <1>0, <1>4, <2>1, <3>1, <3>3, <4>2 DEF Leads
    <3> QED BY <3>2, <3>3
  <2>2. CASE j = l /\ P[l][k] = q
    <3>1. P2[j - 1][k] = P[j - 1][k] /\ Route(m[q], k) = P[j - 1][k]
          /\ HalvedRoutes(left, right, m[q], sep)
      BY <1>0, <1>4, <2>0, <2>2 DEF Leads
    <3>2. CASE Moved(k)
      BY <1>4, <1>5, <2>0, <2>2, <3>1, <3>2 DEF Leads, HalvedRoutes
    <3>3. CASE ~Moved(k)
      BY <1>4, <1>5, <2>0, <2>2, <3>1, <3>3 DEF Leads, HalvedRoutes
    <3> QED BY <3>2, <3>3
  <2>3. CASE P[j][k] # q /\ P[j][k] # up
    <3>1. P2[j][k] = P[j][k] /\ m2[P[j][k]] = m[P[j][k]]
      BY <1>4, <1>5, <1>6, <2>0, <2>3
    <3>2. P2[j - 1][k] = P[j - 1][k]
      BY <1>0, <1>4, <1>5, <1>12, <2>0, <2>3
    <3> QED BY <2>0, <3>1, <3>2 DEF Leads
  <2> QED BY <1>6, <2>0, <2>1, <2>2, <2>3
<1>18. ASSUME NEW j \in 1..L, NEW k \in Keys PROVE Meets(m2, P2, j, k)
  <2> SUFFICES ASSUME NEW w \in Keys, P2[j - 1][w] = P2[j - 1][k]
               PROVE  P2[j][w] = P2[j][k] /\ Slot(m2, P2, j, w) = Slot(m2, P2, j, k)
    BY DEF Meets
  <2>0. j \in 0..L /\ j - 1 \in 0..L /\ Meets(m, P, j, k)
    BY <1>0 DEF Tree
  <2>1. CASE j = h /\ P[h][k] = up
    <3>1. Moved(k) <=> Moved(w)
      BY <1>0, <1>4, <1>6, <2>0, <2>1
    <3>2. P[l][k] = P[l][w]
      BY <1>0, <1>4, <1>5, <2>0, <2>1, <3>1
    <3>3. /\ P[h][w] = up /\ P2[h][k] = up /\ P2[h][w] = up
          /\ childIdx(m[up], k) = childIdx(m[up], w)
      BY <1>0, <1>4, <1>11, <2>1, <3>2 DEF Slot
    <3>4. childIdx(n2, k) = childIdx(n2, w)
      <4>1. CASE Moved(k)
        BY <1>5, <3>1, <3>3, <4>1 DEF LinkedNode
      <4>2. CASE k < sep /\ w < sep
        BY <3>3, <4>2 DEF LinkedNode
      <4>3. CASE ~(k < sep) /\ ~(w < sep)
        BY <3>3, <4>3 DEF LinkedNode
      <4>4. CASE ~Moved(k) /\ (k < sep <=> ~(w < sep))
        <5>1. P[l][k] # q
          BY <1>5, <3>1, <3>2, <4>4
        <5>2. childIdx(m[up], k) # childIdx(m[up], sep)
          BY <1>13, <2>1, <5>1
        <5>3. childIdx(m[up], k) <= childIdx(m[up], sep)
              /\ childIdx(m[up], sep) <= childIdx(m[up], k)
          BY <3>3, <4>4 DEF LinkedNode
        <5>4. childIdx(m[up], k) \in Int /\ childIdx(m[up], sep) \in Int
          <6>1. PageHas(m[P[h][x]], P, h, P[h][x])
            BY <1>0, PageFacts
          <6>2. PICK n : n = m[up] /\ n.keys \in Seq(Keys)
            BY <1>6, <6>1 DEF PageHas
          <6>3. childIdx(n, k) \in 1..(Len(n.keys) + 1) /\ childIdx(n, sep) \in 1..(Len(n.keys) + 1)
            BY <6>2, ChildIdxFacts
          <6> QED BY <6>2, <6>3
        <5> QED BY <5>2, <5>3, <5>4
      <4> QED BY <4>1, <4>2, <4>3, <4>4
    <3> QED BY <2>1, <3>3, <3>4 DEF Slot
  <2>2. CASE j = l /\ P[l][k] = q
    <3>1. P[j - 1][w] = P[j - 1][k] /\ j > 0
      BY <1>0, <1>4, <2>0, <2>2
    <3>2. P[l][w] = q /\ childIdx(m[q], w) = childIdx(m[q], k)
      BY <2>0, <2>2, <3>1 DEF Meets, Slot
    <3>3. HalvedRoutes(left, right, m[q], sep)
      BY <2>2, <3>1
    <3>4. /\ k < sep <=> w < sep
          /\ k < sep => childIdx(left, k) = childIdx(left, w)
          /\ ~(k < sep) => childIdx(right, k) = childIdx(right, w)
      BY <3>2, <3>3 DEF HalvedRoutes
    <3>5. Moved(k) <=> Moved(w)
      BY <1>5, <2>2, <3>2, <3>4
    <3>6. CASE Moved(k)
      <4>1. P2[j][k] = new /\ P2[j][w] = new /\ ~(k < sep)
        BY <1>4, <1>5, <2>0, <2>2, <3>5, <3>6
      <4> QED BY <3>4, <4>1 DEF Slot
    <3>7. CASE ~Moved(k)
      <4>1. P2[j][k] = q /\ P2[j][w] = q /\ k < sep
        BY <1>4, <1>5, <2>0, <2>2, <3>2, <3>5, <3>7
      <4> QED BY <3>4, <4>1 DEF Slot
    <3> QED BY <3>6, <3>7
  <2>3. CASE P[j][k] # q /\ P[j][k] # up
    <3>1. P[j - 1][w] = P[j - 1][k]
      <4>1. P2[j - 1][k] = P[j - 1][k]
        BY <1>0, <1>4, <1>5, <1>12, <2>0, <2>3
      <4> QED BY <1>4, <1>6, <2>0, <4>1
    <3>2. P[j][w] = P[j][k] /\ Slot(m, P, j, w) = Slot(m, P, j, k)
      BY <2>0, <3>1 DEF Meets
    <3>3. /\ P2[j][k] = P[j][k] /\ P2[j][w] = P[j][k] /\ m2[P[j][k]] = m[P[j][k]]
      BY <1>4, <1>5, <1>6, <2>0, <2>3, <3>2
    <3> QED BY <3>2, <3>3 DEF Slot
  <2> QED BY <1>6, <2>0, <2>1, <2>2, <2>3
<1>19. ASSUME NEW j \in 1..L, NEW k \in Keys PROVE FirstTaken(m2, P2, j, k)
  <2>0. j \in 0..L
    BY <1>0
  <2>1. PICK w \in Keys : P[j][w] = P[j][k] /\ childIdx(m[P[j][k]], w) = 1
    <3>1. FirstTaken(m, P, j, k)
      BY DEF Tree
    <3> QED BY <3>1 DEF FirstTaken, Slot
  <2>2. CASE j = h /\ P[h][k] = up
    <3>1. P2[j][k] = up /\ m2[up] = n2
      BY <1>0, <1>4, <2>2
    <3>2. CASE w < sep
      <4>1. childIdx(n2, w) = 1
        BY <2>1, <2>2, <3>2 DEF LinkedNode
      <4> QED BY <1>0, <1>4, <2>1, <2>2, <3>1, <4>1 DEF FirstTaken, Slot
    <3>3. CASE ~(w < sep)
      <4>1. childIdx(m[up], sep) <= 1
        BY <2>1, <2>2, <3>3 DEF LinkedNode
      <4>2. childIdx(m[up], sep) \in Int /\ childIdx(m[up], sep) >= 1
        <5>1. PageHas(m[P[h][x]], P, h, P[h][x])
          BY <1>0, PageFacts
        <5>2. PICK n : n = m[up] /\ n.keys \in Seq(Keys)
          BY <1>6, <5>1 DEF PageHas
        <5>3. childIdx(n, sep) \in 1..(Len(n.keys) + 1) /\ Len(n.keys) \in Nat
          BY <5>2, ChildIdxFacts, KeysAreNumbers
        <5> QED BY <5>2, <5>3
      <4>3. childIdx(m[up], y) = 1 /\ P[h][y] = up
        BY <1>12, <4>1, <4>2
      <4>4. childIdx(n2, y) = 1
        BY <4>3 DEF LinkedNode
      <4> QED BY <1>0, <1>4, <2>2, <3>1, <4>3, <4>4 DEF FirstTaken, Slot
    <3> QED BY <3>2, <3>3
  <2>3. CASE j = l /\ P[l][k] = q
    <3>1. HalvedRoutes(left, right, m[q], sep)
      BY <1>0, <2>3
    <3>2. CASE Moved(k)
      <4>1. P2[j][k] = new /\ P2[j][sep] = new
        BY <1>4, <1>9, <2>0, <2>3, <3>2
      <4> QED BY <3>1, <4>1 DEF FirstTaken, Slot, HalvedRoutes
    <3>3. CASE ~Moved(k)
      <4>1. w < sep /\ childIdx(left, w) = 1
        BY <2>1, <2>3, <3>1 DEF HalvedRoutes
      <4>2. P2[j][k] = q /\ P2[j][w] = q
        BY <1>4, <1>5, <2>0, <2>1, <2>3, <3>3, <4>1
      <4> QED BY <4>1, <4>2 DEF FirstTaken, Slot
    <3> QED BY <3>2, <3>3
  <2>4. CASE P[j][k] # q /\ P[j][k] # up
    <3>1. /\ P2[j][k] = P[j][k] /\ P2[j][w] = P[j][k] /\ m2[P[j][k]] = m[P[j][k]]
      BY <1>4, <1>5, <1>6, <2>0, <2>1, <2>4
    <3> QED BY <2>1, <3>1 DEF FirstTaken, Slot
  <2> QED BY <1>6, <2>0, <2>2, <2>3, <2>4
<1>20. Tree(m2, P2, L)
  BY <1>14, <1>15, <1>16, <1>17, <1>18, <1>19 DEF Tree
<1>21. \A j \in 0..L : \A k \in Keys :
         P2[j][k] = IF j = l /\ P[l][k] = q /\ ~(k < sep) THEN new ELSE P[j][k]
  BY <1>4, <1>5
<1> QED BY <1>20, <1>21

(* Both halves are of the kind of the node.                                *)
LEMMA SplitLeaves ==
  ASSUME NEW S, NEW n, NodeOver(n, S), NEW new
  PROVE  /\ IsLeaf(splitNode(n, new).left) <=> IsLeaf(n)
         /\ IsLeaf(splitNode(n, new).right) <=> IsLeaf(n)
<1>1. \A k, c, r : IsLeaf(LeafNode(k, c, r)) /\ ~IsLeaf(InternalNode(k, c, r))
  BY DEF IsLeaf, LeafNode, InternalNode
<1>0. PICK keys, len, mid, low, high :
        /\ keys = n.keys /\ len = Len(keys) /\ mid = len \div 2
        /\ low = splitNode(n, new).left /\ high = splitNode(n, new).right
  OBVIOUS
<1>2. CASE IsLeaf(n)
  <2>1. PICK a, b, c, d :
          /\ a = SubSeq(keys, 1, mid) /\ b = SubSeq(n.values, 1, mid)
          /\ c = SubSeq(keys, mid + 1, len) /\ d = SubSeq(n.values, mid + 1, len)
    OBVIOUS
  <2>2. low = LeafNode(a, b, new) /\ high = LeafNode(c, d, n.rightPtr)
    BY <1>0, <1>2, <2>1, SplitLeafShape
  <2> QED BY <1>0, <1>1, <1>2, <2>2
<1>3. CASE ~IsLeaf(n)
  <2>1. PICK a, b, c, d :
          /\ a = SubSeq(keys, 1, mid) /\ b = SubSeq(n.children, 1, mid)
          /\ c = SubSeq(keys, mid + 2, len) /\ d = SubSeq(n.children, mid + 2, len)
    OBVIOUS
  <2>2. Len(n.children) = Len(n.keys)
    BY <1>3 DEF NodeOver
  <2>3. low = InternalNode(a, b, n.children[mid + 1]) /\ high = InternalNode(c, d, n.rightPtr)
    BY <1>0, <1>3, <2>1, <2>2, SplitInternalShape
  <2> QED BY <1>0, <1>1, <1>3, <2>3
<1> QED BY <1>2, <1>3

(* A node at level l is split; only its left half is written.              *)
LEMMA HalfTree ==
  ASSUME NEW m, NEW P, NEW L, Tree(m, P, L), NEW l \in 0..(L - 1), NEW x \in Keys,
         NEW q, q = P[l][x], Len(m[q].keys) > 0, NEW new \in AnyPage, NEW m2,
         OnlyLeft(m2, m, P, L, q, splitNode(m[q], new).left)
  PROVE  LeftTree(m2, m, P, L)
<1>0. PICK n, s, left, right, sep :
        /\ n = m[q] /\ s = splitNode(n, new)
        /\ left = s.left /\ right = s.right /\ sep = s.key
  OBVIOUS
<1>1. l \in 0..L /\ L \in Nat /\ 0 \in 0..L /\ (l # 0 => l \in 1..(L - 1))
  BY TreeFacts
<1>2. /\ NodeOver(n, AnyPage) /\ n.keys \in Seq(Keys) /\ (IsLeaf(n) <=> l = 0) /\ Ascending(n.keys)
      /\ \A i \in DOMAIN n.keys : n.keys[i] \in Keys /\ P[l][n.keys[i]] = q
      /\ Len(n.keys) > 0
  <2>1. PageHas(m[P[l][x]], P, l, P[l][x])
    BY <1>1, PageFacts
  <2> QED BY <1>0, <2>1 DEF PageHas
<1>3. AnyPage \subseteq 1..PageLimit
  BY DEF AnyPage
<1>4. NodeOver(left, AnyPage) /\ NodeOver(right, AnyPage) /\ sep \in Keys
  BY <1>0, <1>2, <1>3, SplitOver
<1>5. Halved(left, right, n, sep)
  BY <1>0, <1>2, <1>3, HalvedFacts
<1>6. IsLeaf(left) <=> l = 0
  BY <1>0, <1>2, SplitLeaves
<1>7. CASE l = 0
  <2>0. \A j \in 0..L : \A k \in Keys : m2[P[j][k]] = IF P[j][k] = q THEN left ELSE m[P[j][k]]
    BY <1>0 DEF OnlyLeft
  <2>1. m2[P[0][x]] = left /\ q = P[0][x]
    BY <1>0, <1>1, <1>7, <2>0
  <2>2. Tree(m2, P, L)
    <3>1. \A i \in DOMAIN left.keys : P[0][left.keys[i]] = P[0][x]
      BY <1>2, <1>5, <1>7 DEF Halved
    <3>2. /\ \A j \in 0..L : \A k \in Keys : P[j][k] # P[0][x] => m2[P[j][k]] = m[P[j][k]]
          /\ Ascending(left.keys)
      BY <1>5, <2>0, <2>1 DEF Halved
    <3> QED BY <1>4, <1>6, <1>7, <2>1, <3>1, <3>2, LeafReplaced
  <2>3. ASSUME NEW k \in Keys PROVE ValueIn(m2[P[0][k]], k) \in {None, ValueIn(m[P[0][k]], k)}
    <3>1. CASE P[0][k] = q /\ k < sep
      <4>1. IsLeaf(n)
        BY <1>2, <1>7
      <4>2. HalvedValues(left, right, n, sep)
        BY <1>0, <1>2, <1>3, <4>1, SplitValues
      <4> QED BY <1>0, <2>1, <3>1, <4>2 DEF HalvedValues
    <3>2. CASE P[0][k] = q /\ ~(k < sep)
      <4>1. \A i \in DOMAIN left.keys : left.keys[i] # k
        BY <1>5, <3>2 DEF Halved
      <4> QED BY <2>1, <3>2, <4>1, NoValueIn
    <3>3. CASE P[0][k] # q
      BY <1>1, <2>0, <3>3
    <3> QED BY <3>1, <3>2, <3>3
  <2> QED BY <2>2, <2>3 DEF LeftTree
<1>8. CASE l # 0
  <2>1. HalvedRoutes(left, right, n, sep)
    BY <1>0, <1>2, <1>3, <1>8, SplitRoutes
  <2>2. l \in 1..(L - 1) /\ n = m[q] /\ OnlyLeft(m2, m, P, L, q, left)
    BY <1>0, <1>1, <1>8
  <2> QED BY <1>4, <1>5, <1>6, <1>8, <2>1, <2>2, HalfInternal
<1> QED BY <1>7, <1>8

(* A node at level l is split, and its right half linked on page `new'.    *)
LEMMA SplitTree ==
  ASSUME NEW m, NEW P, NEW L, Tree(m, P, L), NEW l \in 0..(L - 1), NEW x \in Keys,
         NEW q, q = P[l][x], Len(m[q].keys) > 0, NEW up, up = P[l + 1][x],
         NEW new \in AnyPage, \A j \in 0..L : \A k \in Keys : P[j][k] # new,
         NEW s, s = splitNode(m[q], new), l = 0 => s.left.keys # <<>>, NEW m2,
         m2[q] = s.left, m2[new] = s.right,
         m2[up] = internalWith(m[up], childIdx(m[up], x), [key |-> s.key, child |-> new]),
         OnlyThese(m2, m, P, L, q, up)
  PROVE  \E P2 : /\ Tree(m2, P2, L) /\ SplitPaths(P2, P, L, l, q, s.key, new)
                 /\ \E y \in Keys : P2[l][y] = q
                 /\ \E y \in Keys : P2[l][y] = new
                 /\ \A k \in Keys : ValueIn(m2[P2[0][k]], k) = ValueIn(m[P[0][k]], k)
<1>0. PICK n, left, right, sep, parent, i :
        /\ n = m[q] /\ s = splitNode(n, new)
        /\ left = s.left /\ right = s.right /\ sep = s.key
        /\ parent = m[up] /\ i = childIdx(parent, x)
  OBVIOUS
<1>1. PICK h : /\ h = l + 1 /\ h \in 1..L /\ h \in 0..L /\ h - 1 = l /\ h # 0
               /\ l \in 0..L /\ L \in Nat /\ 0 \in 0..L /\ (l # 0 => l \in 1..L)
               /\ h # l
  BY TreeFacts
<1>2. /\ NodeOver(n, AnyPage) /\ n.keys \in Seq(Keys) /\ (IsLeaf(n) <=> l = 0) /\ Ascending(n.keys)
      /\ \A b \in DOMAIN n.keys : n.keys[b] \in Keys /\ P[l][n.keys[b]] = q
      /\ Len(n.keys) > 0
  <2>1. PageHas(m[P[l][x]], P, l, P[l][x])
    BY <1>1, PageFacts
  <2> QED BY <1>0, <2>1 DEF PageHas
<1>3. AnyPage \subseteq 1..PageLimit
  BY DEF AnyPage
<1>4. /\ NodeOver(left, AnyPage) /\ NodeOver(right, AnyPage) /\ sep \in Keys
      /\ left.keys \in Seq(Keys)
  <2>1. NodeOver(left, AnyPage) /\ NodeOver(right, AnyPage) /\ sep \in Keys
    BY <1>0, <1>2, <1>3, SplitOver
  <2> QED BY <2>1, NodeFacts
<1>5. Halved(left, right, n, sep)
  BY <1>0, <1>2, <1>3, HalvedFacts
<1>6. (IsLeaf(left) <=> l = 0) /\ (IsLeaf(right) <=> l = 0)
  BY <1>0, <1>2, SplitLeaves
<1>7. l > 0 => HalvedRoutes(left, right, n, sep)
  <2>1. ASSUME l > 0 PROVE HalvedRoutes(left, right, n, sep)
    <3>1. ~IsLeaf(n)
      BY <1>1, <1>2, <2>1
    <3> QED BY <1>0, <1>2, <1>3, <3>1, SplitRoutes
  <2> QED BY <2>1
<1>8. P[l][sep] = q
  BY <1>2, <1>5 DEF Halved
<1>9. PICK y \in Keys : P[l][y] = q /\ y < sep
  <2>1. CASE l = 0
    <3>1. left.keys # <<>> /\ 1 \in DOMAIN left.keys
      <4>1. left.keys # <<>>
        BY <1>0, <2>1
      <4> QED BY <1>4, <4>1
    <3>2. left.keys[1] < sep /\ left.keys[1] \in Keys /\ P[l][left.keys[1]] = q
      BY <1>2, <1>5, <3>1 DEF Halved
    <3> QED BY <3>2
  <2>2. CASE l # 0
    <3>1. FirstTaken(m, P, l, x)
      BY <1>1, <2>2 DEF Tree
    <3>2. PICK y \in Keys : P[l][y] = q /\ childIdx(n, y) = 1
      BY <1>0, <3>1 DEF FirstTaken, Slot
    <3>3. HalvedRoutes(left, right, n, sep)
      BY <1>1, <1>7, <2>2
    <3> QED BY <3>2, <3>3 DEF HalvedRoutes
  <2> QED BY <2>1, <2>2
(* The node above.                                                         *)
<1>10. up = P[h][x] /\ NodeOver(parent, AnyPage) /\ ~IsLeaf(parent) /\ Ascending(parent.keys)
       /\ parent.keys \in Seq(Keys)
  <2>1. PageHas(m[P[h][x]], P, h, P[h][x])
    BY <1>1, PageFacts
  <2> QED BY <1>0, <1>1, <2>1 DEF PageHas
<1>11. i = childIdx(parent, sep) /\ i = childIdx(parent, y)
  <2>1. Meets(m, P, h, x)
    BY <1>1 DEF Tree
  <2>2. \A k \in Keys : P[l][k] = q => P[h][k] = up /\ childIdx(parent, k) = i
    BY <1>0, <1>1, <1>10, <2>1 DEF Meets, Slot
  <2> QED BY <1>4, <1>8, <1>9, <2>2
<1>12. \A j \in 1..(i - 1) : parent.keys[j] < sep
  <2>1. IsSlot(parent.keys, y, i)
    BY <1>10, <1>11, SlotFacts
  <2>2. /\ y \in Nat /\ sep \in Nat /\ i \in 1..(Len(parent.keys) + 1)
        /\ \A j \in 1..Len(parent.keys) : parent.keys[j] \in Nat
        /\ Len(parent.keys) \in Nat
    BY <1>4, <1>10, <2>1, TreeAssumption, KeysAreNumbers DEF IsSlot
  <2>3. ASSUME NEW j \in 1..(i - 1) PROVE parent.keys[j] < sep
    <3>1. parent.keys[j] <= y /\ j \in 1..Len(parent.keys)
      BY <2>1, <2>2 DEF IsSlot
    <3> QED BY <1>9, <2>2, <3>1
  <2> QED BY <2>3
<1>13. PICK t, n2 : t = [key |-> sep, child |-> new] /\ n2 = internalWith(parent, i, t)
  OBVIOUS
<1>14. t.key = sep /\ t.child = new
  BY <1>13
<1>15. LinkedNode(n2, parent, sep, new)
  <2>1. t.key \in Keys /\ t.child \in AnyPage /\ i = childIdx(parent, t.key)
        /\ \A j \in 1..(i - 1) : parent.keys[j] < t.key
    BY <1>4, <1>11, <1>12, <1>14
  <2>2. LinkedNode(internalWith(parent, i, t), parent, t.key, t.child)
    BY <1>10, <2>1, LinkedNodeFacts
  <2> QED BY <1>13, <1>14, <2>2
<1>16. NodeOver(n2, AnyPage) /\ ~IsLeaf(n2)
  <2>1. i \in 1..(Len(parent.keys) + 1)
    BY <1>4, <1>10, <1>11, ChildIdxFacts
  <2> QED BY <1>3, <1>4, <1>10, <1>13, <1>14, <2>1, InternalWithOver
<1>17. m2[q] = left /\ m2[new] = right /\ m2[up] = n2
  BY <1>0, <1>13
<1>18. PICK P2 : Tree(m2, P2, L) /\ SplitPaths(P2, P, L, l, q, sep, new)
  <2>1. SplitCase(m, P, L, l, x, q, up, left, right, sep, new)
    BY <1>0, <1>4, <1>5, <1>6, <1>7, <1>9 DEF SplitCase
  <2>2. LinkedNode(n2, m[up], sep, new)
    BY <1>0, <1>15
  <2> QED BY <1>4, <1>16, <1>17, <2>1, <2>2, HalvesLinked
<1>19. P2[l][y] = q /\ P2[l][sep] = new
  <2>1. sep \in Nat
    BY <1>4, TreeAssumption
  <2> QED BY <1>1, <1>4, <1>8, <1>9, <1>18, <2>1 DEF SplitPaths
<1>20. ASSUME NEW k \in Keys PROVE ValueIn(m2[P2[0][k]], k) = ValueIn(m[P[0][k]], k)
  <2>1. CASE l = 0 /\ P[0][k] = q
    <3>1. ValueIn(n, k) = IF k < sep THEN ValueIn(left, k) ELSE ValueIn(right, k)
      <4>1. IsLeaf(n)
        BY <1>2, <2>1
      <4>2. HalvedValues(left, right, n, sep)
        BY <1>0, <1>2, <1>3, <4>1, SplitValues
      <4> QED BY <4>2 DEF HalvedValues
    <3> QED BY <1>0, <1>1, <1>17, <1>18, <2>1, <3>1 DEF SplitPaths
  <2>2. CASE l # 0 \/ P[0][k] # q
    <3>1. P2[0][k] = P[0][k]
      BY <1>1, <1>18, <2>2 DEF SplitPaths
    <3>2. P[0][k] # q /\ P[0][k] # up
      BY <1>1, <1>10, <2>2, TreeFacts
    <3> QED BY <1>1, <3>1, <3>2 DEF OnlyThese
  <2> QED BY <2>1, <2>2
<1> QED BY <1>0, <1>4, <1>18, <1>19, <1>20

-----------------------------------------------------------------------------
(* The header, and a new root below it.                                    *)

LEMMA HeaderNode ==
  ASSUME NEW root \in AnyPage
  PROVE  /\ NodeOver(Header0(root), AnyPage) /\ ~IsLeaf(Header0(root))
         /\ Header0(root).keys = <<>> /\ Ascending(Header0(root).keys)
         /\ \A k \in Keys : childIdx(Header0(root), k) = 1 /\ Route(Header0(root), k) = root
<1>0. PICK n : n = Header0(root)
  OBVIOUS
<1>1. /\ n.keys = <<>> /\ n.children = <<>> /\ n.rightPtr = root /\ ~IsLeaf(n)
  BY <1>0 DEF Header0, InternalNode, IsLeaf
<1>2. Len(<<>>) = 0 /\ DOMAIN <<>> = {} /\ <<>> \in Seq(Keys) /\ <<>> \in Seq(AnyPage)
  OBVIOUS
<1>3. NodeOver(n, AnyPage)
  <2>1. AnyPage \subseteq 1..PageLimit
    BY DEF AnyPage
  <2> QED BY <1>0, <1>2, <2>1, InternalNodeOver DEF Header0
<1>4. Ascending(n.keys)
  BY <1>1, <1>2 DEF Ascending
<1>5. ASSUME NEW k \in Keys PROVE childIdx(n, k) = 1 /\ Route(n, k) = root
  <2>1. IsSlot(<<>>, k, 1)
    BY <1>2 DEF IsSlot
  <2>2. childIdx(n, k) = 1
    BY <1>1, <1>2, <2>1, SlotIs
  <2> QED BY <1>1, <1>2, <2>2 DEF Route, childAt
<1> QED BY <1>0, <1>1, <1>3, <1>4, <1>5

(* The first split of the root makes the only child of the header two.     *)
LEMMA HeaderWith ==
  ASSUME NEW root, NEW s
  PROVE  internalWith(Header0(root), 1, s) = InternalNode(<<s.key>>, <<root>>, s.child)
<1>1. InsertAt(<<>>, 1, s.key) = <<s.key>>
  <2>1. PICK e, t : e = s.key /\ t = InsertAt(<<>>, 1, e)
    OBVIOUS
  <2>2. t \in Seq({e}) /\ Inserted(t, <<>>, 1, e)
    <3>1. <<>> \in Seq({e}) /\ 1 \in 1..(Len(<<>>) + 1) /\ e \in {e}
      OBVIOUS
    <3> QED BY <2>1, <3>1, InsertAtFacts
  <2>3. Len(t) = 1 /\ t[1] = e
    BY <2>2 DEF Inserted
  <2>4. t = <<e>>
    BY <2>2, <2>3
  <2> QED BY <2>1, <2>4
<1>2. Append(<<>>, root) = <<root>> /\ Len(<<>>) = 0
  OBVIOUS
<1> QED BY <1>1, <1>2 DEF internalWith, Header0, InternalNode

(* What the header held moves to page `new', which becomes the root.       *)
LEMMA RaisedTree ==
  ASSUME NEW m, NEW P, NEW L, Tree(m, P, L), NEW new \in AnyPage,
         \A j \in 0..L : \A k \in Keys : P[j][k] # new, NEW m2,
         m2[0] = Header0(new), m2[new] = m[0],
         \A j \in 0..(L - 1) : \A k \in Keys : m2[P[j][k]] = m[P[j][k]]
  PROVE  \E P2 : /\ Tree(m2, P2, L + 1)
                 /\ \A j \in 0..(L - 1) : \A k \in Keys : P2[j][k] = P[j][k]
                 /\ \A k \in Keys : P2[L][k] = new
<1>0. PICK M : /\ M = L + 1 /\ M \in Nat /\ M > 0 /\ M \in 1..M /\ M \in 0..M
               /\ L \in Nat /\ L > 0 /\ L \in 0..L /\ L \in 0..M /\ L \in 1..L
               /\ M # L /\ M - 1 = L
               /\ \A j \in 0..M : j = M \/ j = L \/ (j \in 0..(L - 1) /\ j \in 0..L /\ j # L /\ j # M)
               /\ \A j \in 1..M : /\ j - 1 \in 0..M /\ j \in 0..M
                                  /\ (j = M \/ j \in 1..L)
                                  /\ j \in 1..L => /\ j - 1 \in 0..(L - 1) /\ j - 1 # L
                                                   /\ j # M /\ j - 1 # M
               /\ 0 \in 0..(L - 1)
  BY TreeFacts
<1>1. /\ PathType(P, L) /\ Levels(P, L)
      /\ \A j \in 0..L : \A k \in Keys : P[j][k] \in Pages0
      /\ \A i, j \in 0..L : \A k, w \in Keys : P[i][k] = P[j][w] => i = j
      /\ \A k \in Keys : P[L][k] = 0
      /\ \A j \in 0..(L - 1) : \A k \in Keys : P[j][k] # 0
      /\ new \in Pages0 /\ new # 0 /\ 0 \in Pages0
  <2>1. PathType(P, L) /\ Levels(P, L)
    BY DEF Tree
  <2>2. new \in Pages0 /\ new # 0 /\ 0 \in Pages0
    BY LimitAssumption DEF AnyPage, Pages0
  <2> QED BY <2>1, <2>2, TreeFacts
<1>2. PICK P2 : P2 = [j \in 0..M |-> [k \in Keys |-> IF j = M THEN 0
                                                     ELSE IF j = L THEN new ELSE P[j][k]]]
  OBVIOUS
<1>3. /\ \A j \in 0..(L - 1) : \A k \in Keys : P2[j][k] = P[j][k]
      /\ \A k \in Keys : P2[L][k] = new /\ P2[M][k] = 0
  BY <1>0, <1>2
<1>4. /\ NodeOver(m2[0], AnyPage) /\ ~IsLeaf(m2[0]) /\ m2[0].keys = <<>> /\ Ascending(m2[0].keys)
      /\ \A k \in Keys : childIdx(m2[0], k) = 1 /\ Route(m2[0], k) = new
  BY HeaderNode
<1>5. PathType(P2, M) /\ Levels(P2, M)
  <2>1. P2 \in [0..M -> [Keys -> Pages0]]
    <3>1. \A j \in 0..M : \A k \in Keys : (IF j = M THEN 0 ELSE IF j = L THEN new ELSE P[j][k]) \in Pages0
      BY <1>0, <1>1
    <3> QED BY <1>2, <3>1
  <2>2. Levels(P2, M)
    <3> SUFFICES ASSUME NEW i \in 0..M, NEW j \in 0..M, NEW k \in Keys, NEW w \in Keys,
                        P2[i][k] = P2[j][w]
                 PROVE  i = j
      BY DEF Levels
    <3> QED BY <1>0, <1>1, <1>3
  <2> QED BY <1>0, <1>3, <2>1, <2>2 DEF PathType
<1>6. ASSUME NEW j \in 0..M, NEW k \in Keys PROVE NodeFits(m2, P2, j, k)
  <2>1. CASE j = M
    <3>1. DOMAIN <<>> = {} /\ j # 0
      BY <1>0, <2>1
    <3> QED BY <1>3, <1>4, <2>1, <3>1 DEF NodeFits
  <2>2. CASE j = L
    <3>1. PageHas(m[P[L][k]], P, L, P[L][k])
      BY <1>0, PageFacts
    <3>2. P[L][k] = 0 /\ L # 0
      BY <1>0, <1>1
    <3> QED BY <1>3, <2>2, <3>1, <3>2 DEF NodeFits, PageHas
  <2>3. CASE j \in 0..(L - 1)
    <3>1. PageHas(m[P[j][k]], P, j, P[j][k])
      BY <1>0, <2>3, PageFacts
    <3>2. P2[j][k] = P[j][k] /\ m2[P[j][k]] = m[P[j][k]]
      BY <1>3, <2>3
    <3>3. \A w \in Keys : P2[j][w] = P[j][w]
      BY <1>3, <2>3
    <3> QED BY <3>1, <3>2, <3>3 DEF NodeFits, PageHas
  <2> QED BY <1>0, <2>1, <2>2, <2>3
<1>7. ASSUME NEW j \in 1..L
      PROVE  /\ \A k \in Keys : m2[P2[j][k]] = m[P[j][k]] /\ P2[j - 1][k] = P[j - 1][k]
             /\ \A k, w \in Keys : P2[j][k] = P2[j][w] <=> P[j][k] = P[j][w]
  <2>1. CASE j = L
    BY <1>0, <1>1, <1>3, <2>1
  <2>2. CASE j # L
    <3>1. j \in 0..(L - 1) /\ j - 1 \in 0..(L - 1)
      BY <1>0, <2>2
    <3> QED BY <1>3, <3>1
  <2> QED BY <2>1, <2>2
<1>8. ASSUME NEW j \in 1..M, NEW k \in Keys
      PROVE  Leads(m2, P2, j, k) /\ Meets(m2, P2, j, k) /\ FirstTaken(m2, P2, j, k)
  <2>1. CASE j = M
    BY <1>0, <1>3, <1>4, <2>1 DEF Leads, Meets, FirstTaken, Slot
  <2>2. CASE j \in 1..L
    <3>1. Leads(m, P, j, k) /\ Meets(m, P, j, k) /\ FirstTaken(m, P, j, k)
      BY <2>2 DEF Tree
    <3>2. Leads(m2, P2, j, k)
      BY <1>7, <2>2, <3>1 DEF Leads
    <3>3. Meets(m2, P2, j, k)
      BY <1>7, <2>2, <3>1 DEF Meets, Slot
    <3>4. FirstTaken(m2, P2, j, k)
      BY <1>7, <2>2, <3>1 DEF FirstTaken, Slot
    <3> QED BY <3>2, <3>3, <3>4
  <2> QED BY <1>0, <2>1, <2>2
<1>9. Tree(m2, P2, M)
  BY <1>5, <1>6, <1>8 DEF Tree
<1> QED BY <1>0, <1>3, <1>9

(* A new file: an empty leaf below the header.                             *)
LEMMA FirstTree ==
  ASSUME NEW root \in AnyPage, NEW m, m[0] = Header0(root), m[root] = LeafNode(<<>>, <<>>, 0)
  PROVE  \E P : Tree(m, P, 1) /\ \A k \in Keys : P[0][k] = root
<1>1. /\ NodeOver(m[0], AnyPage) /\ ~IsLeaf(m[0]) /\ m[0].keys = <<>> /\ Ascending(m[0].keys)
      /\ \A k \in Keys : childIdx(m[0], k) = 1 /\ Route(m[0], k) = root
  BY HeaderNode
<1>2. root # 0 /\ root \in Pages0 /\ 0 \in Pages0
  BY LimitAssumption DEF AnyPage, Pages0
<1>3. PICK P : P = [j \in 0..1 |-> [k \in Keys |-> IF j = 1 THEN 0 ELSE root]]
  OBVIOUS
<1>4. \A k \in Keys : P[1][k] = 0 /\ P[0][k] = root
  BY <1>3
<1>5. /\ \A j \in 0..1 : j = 0 \/ j = 1
      /\ \A j \in 1..1 : j = 1 /\ j - 1 = 0
      /\ DOMAIN <<>> = {} /\ 1 \in Nat /\ 1 > 0
  OBVIOUS
<1>6. PathType(P, 1) /\ Levels(P, 1)
  <2>1. P \in [0..1 -> [Keys -> Pages0]]
    BY <1>2, <1>3
  <2>2. Levels(P, 1)
    BY <1>2, <1>4, <1>5 DEF Levels
  <2> QED BY <1>4, <1>5, <2>1, <2>2 DEF PathType
<1>7. /\ m[root].keys = <<>> /\ IsLeaf(m[root]) /\ Ascending(m[root].keys)
      /\ NodeOver(m[root], AnyPage)
  <2>1. m[root].keys = <<>> /\ IsLeaf(m[root])
    BY DEF LeafNode, IsLeaf
  <2>2. /\ <<>> \in Seq(Keys) /\ <<>> \in Seq(Values) /\ Len(<<>>) = Len(<<>>)
        /\ 0 \in AnyPage \cup {0} /\ AnyPage \subseteq 1..PageLimit
    BY DEF AnyPage
  <2>3. NodeOver(m[root], AnyPage)
    BY <2>2, LeafNodeOver
  <2> QED BY <1>5, <2>1, <2>3 DEF Ascending
<1>8. \A j \in 0..1 : \A k \in Keys : NodeFits(m, P, j, k)
  <2> SUFFICES ASSUME NEW j \in 0..1, NEW k \in Keys PROVE NodeFits(m, P, j, k)
    OBVIOUS
  <2>1. CASE j = 0
    BY <1>4, <1>5, <1>7, <2>1 DEF NodeFits
  <2>2. CASE j = 1
    BY <1>1, <1>4, <1>5, <2>2 DEF NodeFits
  <2> QED BY <1>5, <2>1, <2>2
<1>9. \A j \in 1..1 : \A k \in Keys : Leads(m, P, j, k) /\ Meets(m, P, j, k) /\ FirstTaken(m, P, j, k)
  BY <1>1, <1>4, <1>5 DEF Leads, Meets, FirstTaken, Slot
<1> QED BY <1>4, <1>6, <1>8, <1>9 DEF Tree

-----------------------------------------------------------------------------
(* The tree as it is, and as it will be when the operation has made the writes
   in `todo' and put `split' into the parent.                              *)

Mem == [p \in Pages0 |-> IF p = 0 THEN Header0(header.RootPageID) ELSE NodeAt(p)]

ParentPage == IF stack = <<>> THEN 0 ELSE Last(stack).page

ParentIdx == IF stack = <<>> THEN 1 ELSE Last(stack).idx

NextMem ==
  [p \in Pages0 |->
     IF p = 0 /\ pc \in {"writeroot", "setroot"} THEN Header0(cur)
     ELSE IF split # NoSplit /\ p = ParentPage THEN internalWith(Mem[p], ParentIdx, split)
     ELSE IF todo # <<>> /\ p = todo[1].page THEN todo[1].node
     ELSE IF Len(todo) = 2 /\ p = todo[2].page THEN todo[2].node
     ELSE Mem[p]]

(* The tree between the writes of the two halves.                          *)
LeftMem == [p \in Pages0 |-> IF p = todo[1].page THEN todo[1].node ELSE Mem[p]]

(* What the operation is about to make of each key.                        *)
Later == {"alloc", "write", "unwind", "newroot", "writeroot", "setroot", "flush"}

Target(k) ==
  IF pc \in Later /\ k = op.key /\ op.kind = "put" THEN op.value
  ELSE IF pc \in Later /\ k = op.key /\ op.kind = "delete" THEN None
  ELSE Held(k)

(* What a failed operation may leave of a key.                             *)
Allowed(k) ==
  {None, Held(k)} \cup (IF op.kind = "put" /\ k = op.key THEN {op.value} ELSE {})

-----------------------------------------------------------------------------
(* The invariant, until the process is killed.                             *)

Keyed == op.kind \in {"put", "get", "delete"}

(* Which writes and which split are pending at each control point.         *)
WorkOK ==
  /\ pc \in {"idle", "visit", "scan", "flush"} => todo = <<>> /\ split = NoSplit
  /\ pc = "idle" => stack = <<>> /\ op.kind = "none"
  /\ pc = "scan" => op.kind = "keys"
  /\ pc \in Later => op.kind \in {"put", "delete"}
  /\ pc = "alloc" => /\ Len(todo) = 1 /\ split = NoSplit
                     /\ nodeSize(todo[1].node) > cellAreaSize
  /\ pc = "write" =>
       \/ Len(todo) = 1 /\ split = NoSplit
       \/ Len(todo) = 1 /\ split # NoSplit /\ todo[1].page = split.child
       \/ /\ Len(todo) = 2 /\ split # NoSplit /\ todo[2].page = split.child
          /\ todo[1].page # todo[2].page
  /\ pc \in {"unwind", "newroot", "setroot"} => todo = <<>>
  /\ pc \in {"newroot", "writeroot", "setroot"} => stack = <<>>
  /\ pc = "newroot" => split # NoSplit
  /\ pc = "writeroot" => Len(todo) = 1 /\ todo[1].page = cur /\ split = NoSplit
  /\ pc = "setroot" => split = NoSplit

(* A leaf with a single pair that is too heavy is split all the same, into an
   empty leaf and one that is as heavy.                                    *)
Hopeless ==
  pc = "write" /\ Len(todo) = 2 /\ IsLeaf(todo[1].node) /\ todo[1].node.keys = <<>>

HopelessOK == Hopeless => nodeSize(todo[2].node) > cellAreaSize

Overflows ==
  pc = "write" /\ Len(todo) = 1 /\ split # NoSplit /\ nodeSize(todo[1].node) > cellAreaSize

(* The frames are the path to the key, and what is to be written is on its
   level.                                                                  *)
FrameFits(P, L, j) ==
  /\ stack[j].page = P[L - j][op.key]
  /\ stack[j].node = Mem[stack[j].page]
  /\ stack[j].idx = childIdx(stack[j].node, op.key)

Level(L) == L - 1 - Len(stack)

OnPath(P, L) ==
  /\ Len(stack) < L
  /\ \A j \in DOMAIN stack : FrameFits(P, L, j)
  /\ pc = "visit" => cur = P[Level(L)][op.key]
  /\ pc = "alloc" => todo[1].page = P[Level(L)][op.key]
  /\ pc = "write" =>
       \A i \in DOMAIN todo : \E k \in Keys : todo[i].page = P[Level(L)][k]
  /\ pc \in {"writeroot", "setroot"} => \A k \in Keys : P[L - 1][k] = cur

InUse(S, P, L) == \A j \in 0..(L - 1) : \A k \in Keys : P[j][k] \in S

(* The tree after the operation: each key has the value it should have.    *)
Finds(m, P, k) == ValueIn(m[P[0][k]], k)

NextTree(P, L) ==
  /\ Tree(NextMem, P, L) /\ InUse(owned, P, L)
  /\ \A k \in Keys : Finds(NextMem, P, k) = Target(k)

(* The tree as it is: no key has a value it never had, and the new pages are
   not yet part of it.                                                     *)
Unlinked(P, L) ==
  \A j \in 0..L : \A k \in Keys :
    /\ split # NoSplit => P[j][k] # split.child
    /\ pc = "writeroot" => P[j][k] # cur

SafeTree(m, P, L) ==
  /\ Tree(m, P, L) /\ InUse(owned, P, L) /\ Unlinked(P, L)
  /\ \A k \in Keys : Finds(m, P, k) \in Allowed(k)

Working ==
  /\ WorkOK /\ HopelessOK
  /\ \E P, L : SafeTree(Mem, P, L)
  /\ pc = "write" /\ Len(todo) = 2 => \E P, L : SafeTree(LeftMem, P, L)
  /\ ~Hopeless /\ ~Overflows => \E P, L : NextTree(P, L) /\ (Keyed => OnPath(P, L))

MapInv ==
  NeverKilled =>
    /\ pc # "closed"
    /\ op.kind # "open" => Working
    /\ op.kind = "open" =>
         /\ pc = "writeroot" => todo[1].page = cur
         /\ pc = "setroot" => NodeAt(cur) = LeafNode(<<>>, <<>>, 0)

-----------------------------------------------------------------------------
(* Get finds what the tree holds.                                          *)

LookupIsTree ==
  \A P, L : Tree(Mem, P, L) => \A k \in Keys : Lookup(k) = Finds(Mem, P, k)

LEMMA LookupNow == TreeInv => LookupIsTree
<1> SUFFICES ASSUME TreeInv, NEW P, NEW L, Tree(Mem, P, L), NEW k \in Keys
             PROVE  Lookup(k) = Finds(Mem, P, k)
  BY DEF LookupIsTree
<1>0. PICK root : root = header.RootPageID
  OBVIOUS
<1>1. /\ \A p \in Pages0 : NodeAt(p) = Zeros \/ NodeOver(NodeAt(p), owned)
      /\ owned \subseteq 1..PageLimit
  BY InvFacts DEF Pages0
<1> DEFINE stop == {p \in Pages0 : p = 0 \/ NodeAt(p) = Zeros \/ IsLeaf(NodeAt(p))}
           value == [p \in Pages0 |-> IF p = 0 THEN None
                                      ELSE IF NodeAt(p) = Zeros THEN None
                                      ELSE ValueIn(NodeAt(p), k)]
           next == [p \in Pages0 |-> Route(NodeAt(p), k)]
           Rule(f) == f = [p \in 0..PageLimit |->
                             IF p = 0 THEN None
                             ELSE IF NodeAt(p) = Zeros THEN None
                             ELSE IF IsLeaf(NodeAt(p))
                               THEN IF HasKey(NodeAt(p), k)
                                      THEN NodeAt(p).values[Min(matches(NodeAt(p), k))] ELSE None
                               ELSE f[childAt(NodeAt(p), childIdx(NodeAt(p), k))]]
           find == CHOOSE f : Rule(f)
<1>2. \A p \in Pages0 \ stop : next[p] \in Pages0
  <2> SUFFICES ASSUME NEW p \in Pages0, p \notin stop PROVE Route(NodeAt(p), k) \in Pages0
    OBVIOUS
  <2>1. PICK n : n = NodeAt(p) /\ NodeOver(n, owned) /\ ~IsLeaf(n)
    BY <1>1
  <2>2. childIdx(n, k) \in 1..(Len(n.keys) + 1)
    BY <2>1, NodeFacts, ChildIdxFacts
  <2>3. childAt(n, childIdx(n, k)) \in owned
    BY <2>1, <2>2, ChildAtFacts
  <2>4. PICK c : c = childAt(n, childIdx(n, k)) /\ c \in 1..PageLimit
    BY <1>1, <2>3
  <2> QED BY <2>1, <2>4, LimitAssumption DEF Route, Pages0
<1>3. PICK f : IsWalk(f, Pages0, stop, value, next)
  <2> HIDE DEF stop, value, next
  <2> QED BY <1>2, WalkRecursion
<1>4. Rule(f)
  <2>1. f = [p \in Pages0 |-> IF p \in stop THEN value[p] ELSE f[next[p]]]
    BY <1>3 DEF IsWalk
  <2>2. \A p \in Pages0 : (IF p \in stop THEN value[p] ELSE f[next[p]])
                        = (IF p = 0 THEN None
                             ELSE IF NodeAt(p) = Zeros THEN None
                             ELSE IF IsLeaf(NodeAt(p))
                               THEN IF HasKey(NodeAt(p), k)
                                      THEN NodeAt(p).values[Min(matches(NodeAt(p), k))] ELSE None
                               ELSE f[childAt(NodeAt(p), childIdx(NodeAt(p), k))])
    BY DEF ValueIn, Route
  <2> QED BY <2>1, <2>2 DEF Pages0
<1>5. Rule(find)
  BY <1>4
<1>6. Lookup(k) = find[root]
  BY <1>0 DEF Lookup, Search
<1> HIDE DEF find
<1>7. \A p \in Pages0 : find[p] = IF p = 0 THEN None
                                  ELSE IF NodeAt(p) = Zeros THEN None
                                  ELSE IF IsLeaf(NodeAt(p)) THEN ValueIn(NodeAt(p), k)
                                  ELSE find[Route(NodeAt(p), k)]
  BY <1>5 DEF ValueIn, Route, Pages0
<1>8. /\ L \in Nat /\ L > 0 /\ L \in 0..L /\ L \in 1..L /\ L - 1 \in 0..(L - 1)
      /\ \A j \in 0..(L - 1) : j \in 0..L /\ P[j][k] # 0 /\ P[j][k] \in Pages0
      /\ P[L][k] = 0
  BY TreeFacts
<1>9. ASSUME NEW j \in 0..(L - 1)
      PROVE  find[P[j][k]] = IF IsLeaf(Mem[P[j][k]]) THEN ValueIn(Mem[P[j][k]], k)
                             ELSE find[Route(Mem[P[j][k]], k)]
  <2>1. Mem[P[j][k]] = NodeAt(P[j][k])
    BY <1>8 DEF Mem
  <2>2. NodeOver(Mem[P[j][k]], AnyPage)
    BY <1>8, PageFacts DEF PageHas
  <2>3. NodeAt(P[j][k]) # Zeros
    BY <2>1, <2>2, ZerosAssumption DEF NodeOver
  <2> QED BY <1>7, <1>8, <2>1, <2>3
<1>10. find[P[L - 1][k]] = ValueIn(Mem[P[0][k]], k)
  BY <1>9, SearchEnds
<1>11. P[L - 1][k] = root
  <2>1. Mem[0] = Header0(root)
    <3>1. 0 \in Pages0
      BY LimitAssumption DEF Pages0
    <3> QED BY <1>0, <3>1 DEF Mem
  <2>2. Route(Mem[0], k) = P[L - 1][k]
    <3>1. Leads(Mem, P, L, k)
      BY <1>8 DEF Tree
    <3> QED BY <1>8, <3>1 DEF Leads
  <2>3. NodeOver(Mem[0], AnyPage)
    <3>1. PageHas(Mem[P[L][k]], P, L, P[L][k])
      BY <1>8, PageFacts
    <3> QED BY <1>8, <3>1 DEF PageHas
  <2>4. root \in AnyPage
    <3>1. Header0(root).rightPtr = root /\ ~IsLeaf(Header0(root))
      BY DEF Header0, InternalNode, IsLeaf
    <3> QED BY <2>1, <2>3, <3>1 DEF NodeOver
  <2> QED BY <2>1, <2>2, <2>4, HeaderNode
<1> QED BY <1>6, <1>10, <1>11 DEF Finds

LEMMA LookupNext == TreeInv' => LookupIsTree'
BY LookupNow, PTL

-----------------------------------------------------------------------------
(* What steps have in common.                                              *)

LEMMA SameMem ==
  ASSUME NEW m, NEW m2, NEW S, NEW S2, S \subseteq S2, m2[0] = m[0],
         \A p \in S : m2[p] = m[p], NEW P, NEW L, Tree(m, P, L), InUse(S, P, L)
  PROVE  /\ Tree(m2, P, L) /\ InUse(S2, P, L)
         /\ \A k \in Keys : Finds(m2, P, k) = Finds(m, P, k)
<1>1. \A j \in 0..L : \A k \in Keys : m2[P[j][k]] = m[P[j][k]]
  <2> SUFFICES ASSUME NEW j \in 0..L, NEW k \in Keys PROVE m2[P[j][k]] = m[P[j][k]]
    OBVIOUS
  <2>1. L \in Nat /\ P[L][k] = 0
    BY TreeFacts
  <2>2. j = L \/ j \in 0..(L - 1)
    BY <2>1
  <2> QED BY <2>1, <2>2 DEF InUse
<1>2. /\ Tree(m2, P, L)
      /\ \A k \in Keys : m2[P[0][k]] = m[P[0][k]]
  BY <1>1, SameTree
<1> QED BY <1>2 DEF InUse, Finds

(* A step that changes no page of the tree.                                *)
Kept == owned \subseteq owned' /\ Mem'[0] = Mem[0] /\ \A p \in owned : Mem'[p] = Mem[p]

LEMMA PagesKept ==
  ASSUME TreeInv, owned \subseteq owned', header'.RootPageID = header.RootPageID,
         \A p \in owned : NodeAt(p)' = NodeAt(p)
  PROVE  Kept
<1>1. owned \subseteq 1..PageLimit /\ PageLimit \in Nat
  BY InvFacts, LimitAssumption
<1>2. 0 \in Pages0 /\ \A p \in owned : p \in Pages0
  BY <1>1 DEF Pages0
<1> QED BY <1>2 DEF Kept, Mem

LEMMA NodesKept ==
  ASSUME TreeInv, PagesUnchanged
  PROVE  Kept /\ Mem' = Mem
<1>1. owned \subseteq 1..PageLimit /\ \A p \in owned : p \in 0..PageLimit
  BY InvFacts
<1>2. Kept
  BY <1>1, PagesKept DEF PagesUnchanged, NodesUnchanged
<1>3. Mem' = Mem
  BY DEF PagesUnchanged, NodesUnchanged, Mem, Pages0
<1> QED BY <1>2, <1>3

(* An operation under way aims at the same map.                            *)
Aims == pc # "idle" /\ pc' # "idle" /\ op' = op /\ before' = before

LEMMA SameAim ==
  ASSUME Aims
  PROVE  /\ \A k \in Keys : Held(k)' = Held(k) /\ Allowed(k)' = Allowed(k)
         /\ (pc \in Later <=> pc' \in Later) => \A k \in Keys : Target(k)' = Target(k)
<1>1. \A k \in Keys : Held(k)' = Held(k)
  BY DEF Aims, Held
<1>2. \A k \in Keys : Allowed(k)' = Allowed(k)
  BY <1>1 DEF Aims, Allowed
<1>3. ASSUME pc \in Later <=> pc' \in Later, NEW k \in Keys PROVE Target(k)' = Target(k)
  BY <1>1, <1>3 DEF Aims, Target
<1> QED BY <1>1, <1>2, <1>3

LEMMA TargetAllowed ==
  ASSUME NEW k \in Keys
  PROVE  Target(k) \in Allowed(k)
BY DEF Target, Allowed

LEMMA StillSafe ==
  ASSUME Kept, \A k \in Keys : Allowed(k)' = Allowed(k),
         NEW P, NEW L, SafeTree(Mem, P, L), Unlinked(P, L)'
  PROVE  SafeTree(Mem, P, L)'
<1>1. Tree(Mem, P, L) /\ InUse(owned, P, L) /\ \A k \in Keys : Finds(Mem, P, k) \in Allowed(k)
  BY DEF SafeTree
<1>2. PICK m, m2, S, S2 : m = Mem /\ m2 = Mem' /\ S = owned /\ S2 = owned'
  OBVIOUS
<1>3. /\ S \subseteq S2 /\ m2[0] = m[0] /\ \A p \in S : m2[p] = m[p]
      /\ Tree(m, P, L) /\ InUse(S, P, L)
  BY <1>1, <1>2 DEF Kept
<1>4. /\ Tree(m2, P, L) /\ InUse(S2, P, L)
      /\ \A k \in Keys : Finds(m2, P, k) = Finds(m, P, k)
  BY <1>3, SameMem
<1>5. \A k \in Keys : Finds(m2, P, k) \in Allowed(k)'
  BY <1>1, <1>2, <1>4
<1> QED BY <1>2, <1>4, <1>5 DEF SafeTree

-----------------------------------------------------------------------------
(* The end of an operation.                                                *)

AllWritten ==
  todo = <<>> /\ split = NoSplit /\ pc # "writeroot" /\ pc # "setroot"

NextIsMem == NextMem = Mem

LEMMA NoWork == AllWritten => NextIsMem
<1> SUFFICES ASSUME AllWritten PROVE NextMem = Mem
  BY DEF NextIsMem
<1>1. Len(todo) # 2
  BY DEF AllWritten
<1>2. NextMem = [p \in Pages0 |-> Mem[p]]
  BY <1>1 DEF NextMem, AllWritten
<1>3. Mem = [p \in Pages0 |-> Mem[p]]
  BY DEF Mem
<1> QED BY <1>2, <1>3

LEMMA NoWorkNext == AllWritten' => NextIsMem'
BY NoWork, PTL

Idle ==
  /\ pc = "idle" /\ op = NoOp /\ stack = <<>> /\ todo = <<>> /\ split = NoSplit
  /\ \E P, L : Tree(Mem, P, L) /\ InUse(owned, P, L)

LEMMA IdleWorks == TreeInv /\ Idle => Working
<1> SUFFICES ASSUME TreeInv, Idle PROVE Working
  OBVIOUS
<1>1. PICK P, L : Tree(Mem, P, L) /\ InUse(owned, P, L)
  BY DEF Idle
<1>2. NextMem = Mem
  BY NoWork DEF Idle, AllWritten, NextIsMem
<1>3. \A k \in Keys : Lookup(k) = Finds(Mem, P, k)
  BY <1>1, LookupNow DEF LookupIsTree
<1>4. \A k \in Keys : Held(k) = Finds(Mem, P, k) /\ Target(k) = Finds(Mem, P, k)
  BY <1>3 DEF Held, Target, Later, Idle
<1>5. SafeTree(Mem, P, L)
  <2>1. \A k \in Keys : Finds(Mem, P, k) \in Allowed(k)
    BY <1>4 DEF Allowed
  <2>2. Unlinked(P, L)
    BY DEF Unlinked, Idle
  <2> QED BY <1>1, <2>1, <2>2 DEF SafeTree
<1>6. NextTree(P, L)
  BY <1>1, <1>2, <1>4 DEF NextTree
<1>7. WorkOK
  BY DEF WorkOK, Idle, NoOp, Later
<1>8. HopelessOK /\ ~(pc = "write") /\ ~Keyed
  BY DEF HopelessOK, Hopeless, Idle, Keyed, NoOp
<1> QED BY <1>5, <1>6, <1>7, <1>8 DEF Working

LEMMA IdleWorksNext == TreeInv' /\ Idle' => Working'
BY IdleWorks, PTL

(* An operation that ends leaves what its last write has made.             *)
LEMMA EndOn ==
  ASSUME TreeInv', NEW out, Finish(out), NEW P, NEW L, Tree(Mem', P, L), InUse(owned', P, L)
  PROVE  Working' /\ \A k \in Keys : Lookup(k)' = Finds(Mem', P, k)
<1>1. Idle'
  <2>1. \E Q, M : Tree(Mem', Q, M) /\ InUse(owned', Q, M)
    OBVIOUS
  <2>2. (\E Q, M : Tree(Mem, Q, M) /\ InUse(owned, Q, M))'
    BY <2>1
  <2> QED BY <2>2 DEF Idle, Finish
<1>2. Working'
  BY <1>1, IdleWorksNext
<1>3. \A k \in Keys : Lookup(k)' = Finds(Mem', P, k)
  BY LookupNext DEF LookupIsTree
<1> QED BY <1>2, <1>3

(* It fails, and has changed no page that the tree reaches.                *)
LEMMA EndSafely ==
  ASSUME TreeInv', Kept, Working, NEW out, Finish(out)
  PROVE  Working' /\ \A k \in Keys : Lookup(k)' \in Allowed(k)
<1>1. PICK P, L : SafeTree(Mem, P, L)
  BY DEF Working
<1>2. PICK m, m2, S, S2 : m = Mem /\ m2 = Mem' /\ S = owned /\ S2 = owned'
  OBVIOUS
<1>3. /\ S \subseteq S2 /\ m2[0] = m[0] /\ \A p \in S : m2[p] = m[p]
      /\ Tree(m, P, L) /\ InUse(S, P, L)
  BY <1>1, <1>2 DEF Kept, SafeTree
<1>4. /\ Tree(m2, P, L) /\ InUse(S2, P, L)
      /\ \A k \in Keys : Finds(m2, P, k) = Finds(m, P, k)
  BY <1>3, SameMem
<1>5. Working' /\ \A k \in Keys : Lookup(k)' = Finds(Mem', P, k)
  BY <1>2, <1>4, EndOn
<1> QED BY <1>1, <1>2, <1>4, <1>5 DEF SafeTree

(* It ends with all its writes made.                                       *)
LEMMA EndDone ==
  ASSUME TreeInv', NEW P, NEW L, NextTree(P, L), owned \subseteq owned', Mem' = NextMem,
         NEW out, Finish(out)
  PROVE  Working' /\ \A k \in Keys : Lookup(k)' = Target(k)
<1>1. /\ Tree(Mem', P, L) /\ InUse(owned', P, L)
      /\ \A k \in Keys : Finds(Mem', P, k) = Target(k)
  BY DEF NextTree, InUse
<1>2. Working' /\ \A k \in Keys : Lookup(k)' = Finds(Mem', P, k)
  BY <1>1, EndOn
<1> QED BY <1>1, <1>2

-----------------------------------------------------------------------------
(* What a step makes of the tree to come, besides what Working says of it.  *)

NextSame == NextMem' = NextMem /\ owned' = owned

(* One leaf has other pairs.                                               *)
NextEdited ==
  /\ owned' = owned
  /\ \A p \in Pages0 : NextMem'[p].rightPtr = NextMem[p].rightPtr
  /\ \E P, L : Tree(NextMem, P, L) /\ Tree(NextMem', P, L)

(* There is a new root above it.                                           *)
Raised(m2, m, P, L, Q, new) ==
  /\ Tree(m, P, L) /\ Tree(m2, Q, L + 1)
  /\ \A j \in 0..(L - 1) : \A k \in Keys : Q[j][k] = P[j][k] /\ m2[P[j][k]] = m[P[j][k]]
  /\ \A k \in Keys : Q[L][k] = new

NextRaised ==
  /\ owned' = owned \cup {cur'}
  /\ \E P, L, Q : Raised(NextMem', NextMem, P, L, Q, cur')

-----------------------------------------------------------------------------
(* The steps that write nothing.                                           *)

LEMMA Ahead ==
  ASSUME Working, pc # "write"
  PROVE  \E P, L : NextTree(P, L) /\ (Keyed => OnPath(P, L))
BY DEF Working, Hopeless, Overflows

LEMMA StillNext ==
  ASSUME owned \subseteq owned', NextMem' = NextMem, \A k \in Keys : Target(k)' = Target(k),
         NEW P, NEW L, NextTree(P, L)
  PROVE  NextTree(P, L)'
<1>1. Tree(NextMem', P, L) /\ InUse(owned', P, L)
      /\ \A k \in Keys : Finds(NextMem', P, k) = Target(k)'
  BY DEF NextTree, InUse
<1> QED BY <1>1 DEF NextTree

(* The pieces of the invariant after a step.                               *)
LEMMA WorksOn ==
  ASSUME WorkOK', pc' # "write" \/ Len(todo') # 2,
         NEW P, NEW L, SafeTree(Mem, P, L)',
         NEW Q, NEW M, NextTree(Q, M)', Keyed' => OnPath(Q, M)'
  PROVE  Working'
<1>1. HopelessOK'
  BY DEF HopelessOK, Hopeless
<1> QED BY <1>1 DEF Working

LEMMA DescendMap ==
  ASSUME TreeInv, Working, Descend
  PROVE  Working' /\ NextSame
<1>0. /\ cur \in owned /\ NodeOver(NodeAt(cur), owned) /\ ~IsLeaf(NodeAt(cur))
      /\ pc = "visit" /\ pc' = "visit" /\ PagesInv /\ ReadPage(cur)
  BY NodeRead, InvFacts DEF Descend
<1>1. PagesUnchanged /\ Kept /\ Mem' = Mem /\ owned' = owned
  BY <1>0, ReadEffect, NodesKept DEF PagesUnchanged
<1>2. WorkOK /\ WorkOK' /\ todo = <<>> /\ split = NoSplit /\ todo' = <<>> /\ split' = NoSplit
  <2>1. WorkOK /\ todo' = todo /\ split' = split
    BY DEF Working, Descend
  <2> QED BY <1>0, <2>1 DEF WorkOK, Later
<1>3. NextMem = Mem /\ NextMem' = Mem
  BY <1>0, <1>1, <1>2, NoWork, NoWorkNext DEF AllWritten, NextIsMem
<1>4. Aims /\ (pc \in Later <=> pc' \in Later) /\ Keyed' = Keyed /\ op' = op
  BY <1>0 DEF Aims, Descend, Keyed
<1>5. /\ \A k \in Keys : Allowed(k)' = Allowed(k)
      /\ \A k \in Keys : Target(k)' = Target(k)
  BY <1>4, SameAim
<1>6. \E P, L : SafeTree(Mem, P, L)'
  <2>1. PICK P, L : SafeTree(Mem, P, L)
    BY DEF Working
  <2>2. Unlinked(P, L)'
    BY <1>0, <1>2 DEF Unlinked
  <2> QED BY <1>1, <1>5, <2>1, <2>2, StillSafe
<1>7. PICK P, L : NextTree(P, L) /\ (Keyed => OnPath(P, L))
  BY <1>0, Ahead
<1>8. NextTree(P, L)'
  BY <1>1, <1>3, <1>5, <1>7, StillNext
<1>9. ASSUME Keyed PROVE OnPath(P, L)'
  <2>1. PICK n, i, d, x : /\ n = NodeAt(cur) /\ i = childIdx(n, op.key)
                          /\ d = Len(stack) /\ x = op.key
    OBVIOUS
  <2>2. /\ stack' = Append(stack, [page |-> cur, node |-> n, idx |-> i])
        /\ cur' = childAt(n, i) /\ x \in Keys
        /\ d \in Nat /\ DOMAIN stack = 1..d
    <3>1. op.kind \notin {"keys", "depth"} /\ OpOK /\ stack \in Seq(Frames(owned))
      BY <1>9, InvFacts DEF Keyed
    <3> QED BY <1>9, <2>1, <3>1 DEF Descend, OpOK, Keyed
  <2>3. /\ Tree(Mem, P, L) /\ OnPath(P, L)
        /\ cur = P[L - 1 - d][x] /\ d < L
    BY <1>0, <1>3, <1>7, <1>9, <2>1 DEF NextTree, OnPath, Level
  <2>4. /\ L \in Nat /\ L - 1 - d \in 0..L /\ Mem[cur] = n
    <3>1. L \in Nat
      BY <2>3, TreeFacts
    <3>2. cur \in Pages0 /\ cur # 0
      BY <1>0, InvFacts DEF Pages0
    <3> QED BY <2>1, <2>2, <2>3, <3>1, <3>2 DEF Mem
  <2>5. L - 1 - d # 0
    <3>1. PageHas(Mem[P[L - 1 - d][x]], P, L - 1 - d, P[L - 1 - d][x])
      BY <2>2, <2>3, <2>4, PageFacts
    <3> QED BY <1>0, <2>1, <2>3, <2>4, <3>1 DEF PageHas
  <2>6. L - 1 - d \in 1..L /\ d + 1 < L
    BY <2>2, <2>3, <2>4, <2>5
  <2>7. cur' = P[L - 1 - d - 1][x]
    <3>1. Leads(Mem, P, L - 1 - d, x)
      BY <2>2, <2>3, <2>6 DEF Tree
    <3> QED BY <2>1, <2>2, <2>3, <2>4, <3>1 DEF Leads, Route
  <2>8. /\ Len(stack') = d + 1 /\ DOMAIN stack' = 1..(d + 1)
        /\ \A j \in 1..d : stack'[j] = stack[j]
        /\ stack'[d + 1] = [page |-> cur, node |-> n, idx |-> i]
    BY <2>1, <2>2
  <2>9. \A j \in 1..(d + 1) : FrameFits(P, L, j)'
    <3>1. ASSUME NEW j \in 1..d PROVE FrameFits(P, L, j)'
      <4>1. FrameFits(P, L, j)
        BY <2>2, <2>3 DEF OnPath
      <4> QED BY <1>1, <1>4, <2>8, <4>1 DEF FrameFits
    <3>2. FrameFits(P, L, d + 1)'
      <4>1. L - (d + 1) = L - 1 - d
        BY <2>2, <2>4
      <4> QED BY <1>1, <1>4, <2>1, <2>3, <2>4, <2>8, <4>1 DEF FrameFits
    <3>3. \A j \in 1..(d + 1) : j \in 1..d \/ j = d + 1
      BY <2>2
    <3> QED BY <3>1, <3>2, <3>3
  <2>10. Level(L)' = L - 1 - d - 1
    BY <2>2, <2>4, <2>8 DEF Level
  <2> QED BY <1>0, <1>4, <2>1, <2>6, <2>7, <2>8, <2>9, <2>10 DEF OnPath
<1> QED BY <1>0, <1>1, <1>2, <1>3, <1>4, <1>6, <1>7, <1>8, <1>9, WorksOn DEF NextSame

(* The other steps that leave the pages and what is pending alone.         *)
LEMMA QuietMap ==
  ASSUME TreeInv, Working, LeftmostLeaf \/ (ScanLeaf /\ pc' = "scan")
  PROVE  Working' /\ NextSame
<1>0. /\ cur \in owned /\ pc \in {"visit", "scan"} /\ pc' = "scan" /\ PagesInv /\ ReadPage(cur)
      /\ op.kind = "keys" /\ UNCHANGED <<op, stack, todo, split, before>>
  <2>1. PagesInv
    BY InvFacts
  <2>2. CASE LeftmostLeaf
    BY <2>1, <2>2, NodeRead DEF LeftmostLeaf, AtLeaf
  <2>3. CASE ScanLeaf /\ pc' = "scan"
    <3>1. pc = "scan" /\ op.kind = "keys"
      BY <2>3 DEF ScanLeaf, Working, WorkOK
    <3>2. UNCHANGED <<op, stack, todo, split, before>>
      BY <2>3 DEF ScanLeaf, Return, Finish
    <3> QED BY <2>1, <2>3, <3>1, <3>2, NodeRead DEF ScanLeaf
  <2> QED BY <2>2, <2>3
<1>1. PagesUnchanged /\ Kept /\ Mem' = Mem /\ owned' = owned
  BY <1>0, ReadEffect, NodesKept DEF PagesUnchanged
<1>2. WorkOK /\ todo = <<>> /\ split = NoSplit /\ todo' = <<>> /\ split' = NoSplit
  BY <1>0 DEF Working, WorkOK
<1>3. WorkOK'
  BY <1>0, <1>2 DEF WorkOK, Later
<1>4. NextMem = Mem /\ NextMem' = Mem
  BY <1>0, <1>1, <1>2, NoWork, NoWorkNext DEF AllWritten, NextIsMem
<1>5. Aims /\ (pc \in Later <=> pc' \in Later) /\ ~Keyed'
  BY <1>0 DEF Aims, Keyed, Later
<1>6. /\ \A k \in Keys : Allowed(k)' = Allowed(k)
      /\ \A k \in Keys : Target(k)' = Target(k)
  BY <1>5, SameAim
<1>7. \E P, L : SafeTree(Mem, P, L)'
  <2>1. PICK P, L : SafeTree(Mem, P, L)
    BY DEF Working
  <2>2. Unlinked(P, L)'
    BY <1>0, <1>2 DEF Unlinked
  <2> QED BY <1>1, <1>6, <2>1, <2>2, StillSafe
<1>8. PICK P, L : NextTree(P, L)
  BY <1>0, Ahead
<1>9. NextTree(P, L)'
  BY <1>1, <1>4, <1>6, <1>8, StillNext
<1> QED BY <1>0, <1>1, <1>3, <1>4, <1>5, <1>7, <1>9, WorksOn DEF NextSame

LEMMA UnwindQuietMap ==
  ASSUME TreeInv, Working, UnwindDone \/ UnwindRoot
  PROVE  Working' /\ NextSame
<1>0. /\ pc = "unwind" /\ UNCHANGED pagerVars /\ UNCHANGED <<op, stack, todo, split, cur, before>>
      /\ \/ pc' = "flush" /\ split = NoSplit
         \/ pc' = "newroot" /\ split # NoSplit /\ stack = <<>>
      /\ PagesInv
  BY InvFacts DEF UnwindDone, UnwindRoot
<1>1. PagesUnchanged /\ Kept /\ Mem' = Mem /\ owned' = owned
  BY <1>0, SamePages, NodesKept DEF PagesUnchanged
<1>2. WorkOK /\ todo = <<>> /\ op.kind \in {"put", "delete"}
  BY <1>0 DEF Working, WorkOK, Later
<1>3. WorkOK'
  BY <1>0, <1>2 DEF WorkOK, Later
<1>4. NextMem' = NextMem
  BY <1>0, <1>1 DEF NextMem, ParentPage, ParentIdx
<1>5. Aims /\ (pc \in Later <=> pc' \in Later) /\ Keyed' = Keyed
  BY <1>0 DEF Aims, Keyed, Later
<1>6. /\ \A k \in Keys : Allowed(k)' = Allowed(k)
      /\ \A k \in Keys : Target(k)' = Target(k)
  BY <1>5, SameAim
<1>7. \E P, L : SafeTree(Mem, P, L)'
  <2>1. PICK P, L : SafeTree(Mem, P, L)
    BY DEF Working
  <2>2. Unlinked(P, L)'
    BY <1>0, <2>1 DEF Unlinked, SafeTree
  <2> QED BY <1>1, <1>6, <2>1, <2>2, StillSafe
<1>8. PICK P, L : NextTree(P, L) /\ (Keyed => OnPath(P, L))
  BY <1>0, Ahead
<1>9. NextTree(P, L)'
  BY <1>1, <1>4, <1>6, <1>8, StillNext
<1>10. ASSUME Keyed PROVE OnPath(P, L)'
  <2>1. \A j \in DOMAIN stack : FrameFits(P, L, j)'
    BY <1>0, <1>1, <1>8, <1>10 DEF OnPath, FrameFits
  <2> QED BY <1>0, <1>8, <1>10, <2>1 DEF OnPath
<1> QED BY <1>0, <1>1, <1>3, <1>4, <1>5, <1>7, <1>8, <1>9, <1>10, WorksOn DEF NextSame

(* The call: the search begins at the root.                                *)
LEMMA RootOnPath ==
  ASSUME NEW m, NEW P, NEW L, Tree(m, P, L), NEW root \in AnyPage, m[0] = Header0(root),
         NEW k \in Keys
  PROVE  P[L - 1][k] = root
<1>1. /\ L \in Nat /\ L > 0 /\ L \in 0..L /\ L \in 1..L /\ P[L][k] = 0
  BY TreeFacts
<1>2. Leads(m, P, L, k)
  BY <1>1 DEF Tree
<1>3. Route(Header0(root), k) = root
  BY HeaderNode
<1> QED BY <1>1, <1>2, <1>3 DEF Leads

LEMMA CallMap ==
  ASSUME TreeInv, Working, NEW kind, NEW k, NEW v, Call(kind, k, v),
         kind \in {"put", "get", "delete"} => k \in Keys,
         kind \in {"put", "get", "delete", "keys", "depth"}
  PROVE  Working' /\ NextSame
<1>0. /\ pc = "idle" /\ pc' = "visit" /\ UNCHANGED pagerVars
      /\ UNCHANGED <<stack, todo, split>> /\ PagesInv
      /\ op' = [kind |-> kind, key |-> k, value |-> v] /\ cur' = header.RootPageID
      /\ before'.dict = TreeMap
  BY InvFacts DEF Call
<1>1. PagesUnchanged /\ Kept /\ Mem' = Mem /\ owned' = owned
  BY <1>0, SamePages, NodesKept DEF PagesUnchanged
<1>2. WorkOK /\ todo = <<>> /\ split = NoSplit /\ stack = <<>> /\ op.kind = "none"
  BY <1>0 DEF Working, WorkOK
<1>3. WorkOK'
  BY <1>0, <1>2 DEF WorkOK, Later
<1>4. NextMem = Mem /\ NextMem' = Mem
  BY <1>0, <1>1, <1>2, NoWork, NoWorkNext DEF AllWritten, NextIsMem
<1>5. PICK P, L : NextTree(P, L)
  BY <1>0, Ahead
<1>6. \A x \in Keys : Held(x) = Lookup(x) /\ Held(x)' = Lookup(x)
  BY <1>0 DEF Held, TreeMap
<1>7. \A x \in Keys : Finds(Mem, P, x) = Held(x)' /\ Target(x)' = Held(x)'
  BY <1>0, <1>4, <1>5, <1>6 DEF NextTree, Target, Later
<1>8. Tree(Mem, P, L) /\ InUse(owned, P, L)
  BY <1>4, <1>5 DEF NextTree
<1>9. SafeTree(Mem, P, L)'
  <2>1. \A x \in Keys : Finds(Mem', P, x) \in Allowed(x)'
    BY <1>1, <1>7 DEF Allowed
  <2>2. Unlinked(P, L)'
    BY <1>0, <1>2 DEF Unlinked
  <2> QED BY <1>1, <1>8, <2>1, <2>2 DEF SafeTree
<1>10. NextTree(P, L)'
  BY <1>1, <1>4, <1>7, <1>8 DEF NextTree
<1>11. ASSUME Keyed' PROVE OnPath(P, L)'
  <2>1. k \in Keys
    BY <1>0, <1>11 DEF Keyed
  <2>2. header.RootPageID \in AnyPage /\ Mem[0] = Header0(header.RootPageID)
    <3>1. header.RootPageID \in owned /\ owned \subseteq 1..PageLimit
      BY <1>0, <1>2, RootsThere, InvFacts
    <3>2. 0 \in Pages0
      BY LimitAssumption DEF Pages0
    <3> QED BY <3>1, <3>2 DEF Mem, AnyPage
  <2>3. P[L - 1][k] = header.RootPageID
    BY <1>8, <2>1, <2>2, RootOnPath
  <2>4. L \in Nat /\ L > 0 /\ L - 1 - 0 = L - 1
    BY <1>8, TreeFacts
  <2>5. Level(L)' = L - 1 /\ DOMAIN stack' = {} /\ Len(stack') = 0
    BY <1>0, <1>2, <2>4 DEF Level
  <2> QED BY <1>0, <2>3, <2>4, <2>5 DEF OnPath
<1> QED BY <1>0, <1>1, <1>3, <1>4, <1>9, <1>10, <1>11, WorksOn DEF NextSame

(* insertInternal only moves the pending split into the pending write.     *)
LEMMA UnwindInternalMap ==
  ASSUME TreeInv, Working, UnwindInternal
  PROVE  Working' /\ NextSame
<1>0. PICK f, n, d : f = Last(stack) /\ n = internalWith(f.node, f.idx, split) /\ d = Len(stack)
  OBVIOUS
<1>1. /\ pc = "unwind" /\ split # NoSplit /\ stack # <<>>
      /\ UNCHANGED pagerVars /\ UNCHANGED <<op, cur, before>>
      /\ split' = NoSplit /\ stack' = Front(stack) /\ todo' = <<[page |-> f.page, node |-> n]>>
      /\ pc' = IF internalNodeSize(n) > cellAreaSize THEN "alloc" ELSE "write"
      /\ PagesInv /\ stack \in Seq(Frames(owned))
  BY <1>0, InvFacts DEF UnwindInternal
<1>2. PagesUnchanged /\ Kept /\ Mem' = Mem /\ owned' = owned
  BY <1>1, SamePages, NodesKept DEF PagesUnchanged
<1>3. WorkOK /\ todo = <<>> /\ op.kind \in {"put", "delete"}
  BY <1>1 DEF Working, WorkOK, Later
<1>4. /\ Len(todo') = 1 /\ todo'[1].page = f.page /\ todo'[1].node = n
      /\ pc' \in {"alloc", "write"} /\ Aims
      /\ (pc \in Later <=> pc' \in Later) /\ Keyed' = Keyed /\ Keyed
  BY <1>1, <1>3 DEF Aims, Keyed, Later
<1>5. /\ d \in Nat /\ d > 0 /\ d \in DOMAIN stack /\ f = stack[d] /\ f \in Frames(owned)
      /\ Len(stack') = d - 1 /\ DOMAIN stack' = 1..(d - 1) /\ DOMAIN stack = 1..d
      /\ \A j \in 1..(d - 1) : stack'[j] = stack[j]
  <2>1. f \in Frames(owned)
    BY <1>0, <1>1, LastFrame
  <2>2. Front(stack) = [j \in 1..(d - 1) |-> stack[j]] /\ Front(stack) \in Seq(Frames(owned))
    BY <1>0, <1>1, LastFrame DEF Front
  <2>3. d \in Nat /\ d > 0 /\ DOMAIN stack = 1..d /\ f = stack[d]
    BY <1>0, <1>1 DEF Last
  <2>4. d - 1 \in Nat /\ d \in 1..d
    BY <2>3
  <2>5. DOMAIN stack' = 1..(d - 1) /\ stack' \in Seq(Frames(owned))
    BY <1>1, <2>2
  <2>6. Len(stack') = d - 1
    <3>1. PICK e \in Nat : e = Len(stack') /\ 1..e = 1..(d - 1)
      BY <2>5, LenProperties
    <3>2. (e > 0 => e \in 1..(d - 1)) /\ (d - 1 > 0 => d - 1 \in 1..e)
      BY <2>4, <3>1
    <3> QED BY <2>4, <3>1, <3>2
  <2> QED BY <1>1, <2>1, <2>2, <2>3, <2>4, <2>5, <2>6
<1>6. ~IsLeaf(n)
  <2>1. NodeOver(f.node, owned) /\ ~IsLeaf(f.node) /\ f.idx \in 1..(Len(f.node.keys) + 1)
    BY <1>5 DEF Frames
  <2>2. split.key \in Keys /\ split.child \in owned /\ owned \subseteq 1..PageLimit
    BY <1>1, InvFacts DEF TreeInv, LocalsOver
  <2> QED BY <1>0, <2>1, <2>2, InternalWithOver
<1>7. WorkOK'
  <2>1. pc' = "alloc" => nodeSize(n) > cellAreaSize
    BY <1>1, <1>6 DEF nodeSize
  <2> QED BY <1>1, <1>3, <1>4, <2>1 DEF WorkOK, Later
<1>8. /\ \A k \in Keys : Allowed(k)' = Allowed(k)
      /\ \A k \in Keys : Target(k)' = Target(k)
  BY <1>4, SameAim
<1>9. \E P, L : SafeTree(Mem, P, L)'
  <2>1. PICK P, L : SafeTree(Mem, P, L)
    BY DEF Working
  <2>2. Unlinked(P, L)'
    BY <1>1, <1>4, <2>1 DEF Unlinked, SafeTree
  <2> QED BY <1>2, <1>8, <2>1, <2>2, StillSafe
<1>10. PICK P, L : NextTree(P, L) /\ OnPath(P, L)
  BY <1>1, <1>4, Ahead
<1>11. f.node = Mem[f.page]
  BY <1>5, <1>10 DEF OnPath, FrameFits
<1>12. NextMem' = NextMem
  <2>1. NextMem = [p \in Pages0 |-> IF p = f.page THEN n ELSE Mem[p]]
    <3>1. ParentPage = f.page /\ ParentIdx = f.idx
      BY <1>0, <1>1 DEF ParentPage, ParentIdx
    <3>2. todo = <<>> /\ Len(todo) # 2
      BY <1>3
    <3>3. \A p \in Pages0 : NextMem[p] = IF p = f.page THEN internalWith(Mem[p], f.idx, split) ELSE Mem[p]
      BY <1>1, <3>1, <3>2 DEF NextMem
    <3>4. \A p \in Pages0 : NextMem[p] = IF p = f.page THEN n ELSE Mem[p]
      BY <1>0, <1>11, <3>3
    <3> QED BY <3>4 DEF NextMem
  <2>2. NextMem' = [p \in Pages0 |-> IF p = f.page THEN n ELSE Mem[p]]
    <3>1. todo' # <<>> /\ Len(todo') # 2 /\ pc' # "writeroot" /\ pc' # "setroot"
      BY <1>4
    <3>2. \A p \in Pages0 : NextMem'[p] = IF p = f.page THEN n ELSE Mem[p]
      BY <1>1, <1>2, <1>4, <3>1 DEF NextMem
    <3> QED BY <3>2 DEF NextMem
  <2> QED BY <2>1, <2>2
<1>13. NextTree(P, L)'
  BY <1>2, <1>8, <1>10, <1>12, StillNext
<1>14. OnPath(P, L)'
  <2>0. L \in Nat /\ d < L /\ \A j \in DOMAIN stack : FrameFits(P, L, j)
    BY <1>0, <1>10, TreeFacts DEF OnPath, NextTree
  <2>1. \A j \in 1..(d - 1) : FrameFits(P, L, j)'
    <3> SUFFICES ASSUME NEW j \in 1..(d - 1) PROVE FrameFits(P, L, j)'
      OBVIOUS
    <3>1. FrameFits(P, L, j) /\ stack'[j] = stack[j]
      BY <1>5, <2>0
    <3> QED BY <1>1, <1>2, <3>1 DEF FrameFits
  <2>2. Level(L)' = L - d
    BY <1>5, <2>0 DEF Level
  <2>3. f.page = P[L - d][op.key]
    BY <1>5, <2>0 DEF FrameFits
  <2>4. op.key \in Keys
    BY <1>3, InvFacts DEF OpOK
  <2>5. DOMAIN todo' = {1}
    BY <1>1
  <2> QED BY <1>1, <1>4, <1>5, <2>0, <2>1, <2>2, <2>3, <2>4, <2>5 DEF OnPath
<1> QED BY <1>2, <1>4, <1>7, <1>9, <1>12, <1>13, <1>14, WorksOn DEF NextSame

(* The change of a leaf that is to be written.                             *)
LEMMA LeafEditMap ==
  ASSUME TreeInv, Working, pc = "visit", op.kind \in {"put", "delete"},
         ReadPage(cur), IsNode(cur), IsLeaf(NodeAt(cur)),
         NEW n, n = NodeAt(cur), NEW m, NodeOver(m, owned), IsLeaf(m), Ascending(m.keys),
         \A a \in DOMAIN m.keys :
           m.keys[a] = op.key \/ \E b \in DOMAIN n.keys : m.keys[a] = n.keys[b],
         NEW v, v = IF op.kind = "put" THEN op.value ELSE None,
         \A x : ValueIn(m, x) = IF x = op.key THEN v ELSE ValueIn(n, x),
         todo' = <<[page |-> cur, node |-> m]>>,
         pc' = "write" \/ (pc' = "alloc" /\ nodeSize(m) > cellAreaSize),
         UNCHANGED <<op, cur, stack, split, before>>
  PROVE  Working' /\ (m.rightPtr = n.rightPtr => NextEdited)
<1>0. /\ cur \in owned /\ NodeOver(n, owned) /\ PagesInv
      /\ owned \subseteq 1..PageLimit /\ op.key \in Keys
  BY NodeRead, InvFacts DEF OpOK
<1>1. PagesUnchanged /\ Kept /\ Mem' = Mem /\ owned' = owned
  BY <1>0, ReadEffect, NodesKept DEF PagesUnchanged
<1>2. WorkOK /\ todo = <<>> /\ split = NoSplit /\ split' = NoSplit
  BY DEF Working, WorkOK
<1>3. /\ Len(todo') = 1 /\ todo'[1].page = cur /\ todo'[1].node = m /\ DOMAIN todo' = {1}
      /\ pc' \in {"alloc", "write"} /\ Aims /\ Keyed /\ Keyed'
  BY DEF Aims, Keyed
<1>4. WorkOK'
  BY <1>2, <1>3 DEF WorkOK, Later
<1>5. \A k \in Keys : Allowed(k)' = Allowed(k) /\ Held(k)' = Held(k)
  BY <1>3, SameAim
<1>6. \E P, L : SafeTree(Mem, P, L)'
  <2>1. PICK P, L : SafeTree(Mem, P, L)
    BY DEF Working
  <2>2. Unlinked(P, L)'
    BY <1>2, <1>3 DEF Unlinked
  <2> QED BY <1>1, <1>5, <2>1, <2>2, StillSafe
<1>7. PICK P, L : NextTree(P, L) /\ OnPath(P, L)
  BY <1>3, Ahead
<1>8. NextMem = Mem
  BY <1>2, NoWork DEF AllWritten, NextIsMem
<1>9. PICK mem, mem2 : mem = Mem /\ mem2 = NextMem'
  OBVIOUS
<1>10. cur \in Pages0 /\ cur # 0 /\ mem[cur] = n
  BY <1>0, <1>9 DEF Pages0, Mem
<1>11. \A p \in Pages0 : mem2[p] = IF p = cur THEN m ELSE mem[p]
  <2>1. todo' # <<>> /\ Len(todo') # 2 /\ pc' # "writeroot" /\ pc' # "setroot"
    BY <1>3
  <2> QED BY <1>1, <1>2, <1>3, <1>9, <2>1 DEF NextMem
<1>12. /\ Tree(mem, P, L) /\ InUse(owned, P, L) /\ L \in Nat /\ 0 \in 0..L
       /\ \A j \in 0..L : \A k \in Keys : P[j][k] \in Pages0
       /\ \A k \in Keys : Finds(mem, P, k) = Target(k)
  <2>1. /\ Tree(mem, P, L) /\ InUse(owned, P, L)
        /\ \A k \in Keys : Finds(mem, P, k) = Target(k)
    BY <1>7, <1>8, <1>9 DEF NextTree
  <2> QED BY <2>1, TreeFacts
<1>13. Level(L) = 0 /\ cur = P[0][op.key]
  <2>1. PICK l : l = Level(L) /\ l \in 0..L /\ cur = P[l][op.key]
    <3>1. PICK d \in Nat : d = Len(stack) /\ d < L
      BY <1>7, InvFacts DEF OnPath
    <3>2. L - 1 - d \in 0..L
      BY <1>12, <3>1
    <3> QED BY <1>7, <3>1, <3>2 DEF OnPath, Level
  <2>2. PageHas(mem[P[l][op.key]], P, l, P[l][op.key])
    BY <1>0, <1>12, <2>1, PageFacts
  <2> QED BY <1>10, <2>1, <2>2 DEF PageHas
<1>14. Tree(mem2, P, L)
  <2>1. m = mem2[P[0][op.key]] /\ NodeOver(m, AnyPage)
    BY <1>0, <1>10, <1>11, <1>13, NodeOverMore DEF AnyPage
  <2>2. \A j \in 0..L : \A k \in Keys : P[j][k] # P[0][op.key] => mem2[P[j][k]] = mem[P[j][k]]
    <3> SUFFICES ASSUME NEW j \in 0..L, NEW k \in Keys, P[j][k] # cur
                 PROVE  mem2[P[j][k]] = mem[P[j][k]]
      BY <1>13
    <3>1. PICK p \in Pages0 : p = P[j][k]
      BY <1>12
    <3> QED BY <1>11, <3>1
  <2>3. \A i \in DOMAIN m.keys : P[0][m.keys[i]] = P[0][op.key]
    <3>1. Tree(mem, P, L) /\ op.key \in Keys /\ 0 \in 0..L
      BY <1>0, <1>12
    <3>2. PageHas(mem[P[0][op.key]], P, 0, P[0][op.key])
      BY <3>1, PageFacts
    <3>3. PageHas(n, P, 0, cur)
      BY <1>10, <1>13, <3>2
    <3>4. \A b \in DOMAIN n.keys : P[0][n.keys[b]] = cur
      BY <3>3 DEF PageHas
    <3> QED BY <1>13, <3>4
  <2>4. PICK x \in Keys : x = op.key
    BY <1>0
  <2>5. /\ Tree(mem, P, L) /\ m = mem2[P[0][x]]
        /\ \A j \in 0..L : \A k \in Keys : P[j][k] # P[0][x] => mem2[P[j][k]] = mem[P[j][k]]
        /\ NodeOver(m, AnyPage) /\ IsLeaf(m) /\ Ascending(m.keys)
        /\ \A i \in DOMAIN m.keys : P[0][m.keys[i]] = P[0][x]
    BY <1>12, <2>1, <2>2, <2>3, <2>4
  <2> QED BY <2>5, LeafReplaced
<1>15. \A k \in Keys : Finds(mem2, P, k) = Target(k)'
  <2> SUFFICES ASSUME NEW k \in Keys PROVE ValueIn(mem2[P[0][k]], k) = Target(k)'
    BY DEF Finds
  <2>1. Target(k)' = IF k = op.key THEN v ELSE Held(k)
    BY <1>3, <1>5 DEF Target, Later
  <2>2. ValueIn(mem[P[0][k]], k) = Held(k)
    BY <1>12 DEF Finds, Target, Later
  <2>3. CASE P[0][k] = cur
    <3>1. mem2[P[0][k]] = m /\ mem[P[0][k]] = n
      BY <1>10, <1>11, <2>3
    <3> QED BY <2>1, <2>2, <3>1
  <2>4. CASE P[0][k] # cur
    <3>1. mem2[P[0][k]] = mem[P[0][k]] /\ k # op.key
      BY <1>11, <1>12, <1>13, <2>4
    <3> QED BY <2>1, <2>2, <3>1
  <2> QED BY <2>3, <2>4
<1>16. NextTree(P, L)'
  BY <1>1, <1>9, <1>12, <1>14, <1>15 DEF NextTree
<1>17. OnPath(P, L)'
  <2>1. \A j \in DOMAIN stack : FrameFits(P, L, j)'
    BY <1>1, <1>7 DEF OnPath, FrameFits
  <2>2. Level(L)' = 0 /\ Len(stack) < L
    BY <1>7, <1>13 DEF Level, OnPath
  <2> QED BY <1>0, <1>3, <1>13, <2>1, <2>2 DEF OnPath
<1>18. m.rightPtr = n.rightPtr => NextEdited
  <2>1. m.rightPtr = n.rightPtr => \A p \in Pages0 : mem2[p].rightPtr = mem[p].rightPtr
    BY <1>10, <1>11
  <2> QED BY <1>1, <1>8, <1>9, <1>12, <1>14, <2>1 DEF NextEdited
<1> QED BY <1>3, <1>4, <1>6, <1>16, <1>17, <1>18, WorksOn

-----------------------------------------------------------------------------
(* The split of a node.                                                    *)

LEMMA HalfOfOne ==
  ASSUME NEW len \in Nat, len > 0, NEW mid, mid = len \div 2, mid + 1 - 1 = 0
  PROVE  mid = 0 /\ mid + 1 = 1 /\ len = 1
OBVIOUS

(* A leaf whose left half is empty had a single pair, now in the right half. *)
LEMMA HeavyHalf ==
  ASSUME NEW S, S \subseteq 1..PageLimit, NEW n, NodeOver(n, S), IsLeaf(n),
         Len(n.keys) > 0, NEW new, splitNode(n, new).left.keys = <<>>
  PROVE  splitNode(n, new).right = n
<1>1. PICK len, mid, keys, values :
        len = Len(n.keys) /\ mid = len \div 2 /\ keys = n.keys /\ values = n.values
  OBVIOUS
<1>2. /\ keys \in Seq(Keys) /\ values \in Seq(Values) /\ len \in Nat /\ len > 0
      /\ Len(keys) = len /\ Len(values) = len /\ n = LeafNode(keys, values, n.rightPtr)
  BY <1>1, NodeFacts DEF NodeOver
<1>3. /\ splitNode(n, new).left
           = LeafNode(SubSeq(keys, 1, mid), SubSeq(values, 1, mid), new)
      /\ splitNode(n, new).right
           = LeafNode(SubSeq(keys, mid + 1, len), SubSeq(values, mid + 1, len), n.rightPtr)
  BY <1>1, SplitLeafShape
<1>4. SubSeq(keys, 1, mid) = <<>>
  BY <1>3 DEF LeafNode
<1>5. Sliced(SubSeq(keys, 1, mid), keys, 1, mid)
  BY <1>1, <1>2, HalfSlices
<1>6. mid + 1 - 1 = 0
  BY <1>4, <1>5 DEF Sliced
<1>7. mid = 0 /\ mid + 1 = 1 /\ len = 1
  BY <1>1, <1>2, <1>6, HalfOfOne
<1>8. SubSeq(keys, 1, len) = keys /\ SubSeq(values, 1, len) = values
  BY <1>2, SubSeqFull
<1> QED BY <1>2, <1>3, <1>7, <1>8

(* The page that is written, its node, the new page and the halves.        *)
SplitStep(q, n, new, s, x) ==
  /\ q = todo[1].page /\ n = todo[1].node /\ new = NextPage /\ s = splitNode(n, new)
  /\ x = op.key

SplitFacts(q, n, new, s, x) ==
  /\ pc = "alloc" /\ pc' = "write" /\ UNCHANGED <<op, cur, stack, before>>
  /\ todo' = <<[page |-> q, node |-> s.left], [page |-> new, node |-> s.right]>>
  /\ split' = [key |-> s.key, child |-> new]
  /\ new \in AnyPage /\ new \notin owned /\ owned' = owned \cup {new} /\ Kept
  /\ Len(todo) = 1 /\ split = NoSplit /\ op.kind \in {"put", "delete"}
  /\ q \in owned /\ NodeOver(n, owned) /\ Len(n.keys) > 0 /\ nodeSize(n) > cellAreaSize
  /\ x \in Keys /\ owned \subseteq AnyPage /\ new # q
  /\ s = splitNode(n, new) /\ s.key \in Keys
  /\ NodeOver(s.left, owned') /\ NodeOver(s.right, owned')
  /\ x = op.key

LEMMA SplitStepFacts ==
  ASSUME TreeInv, Working, AllocSplit, NEW q, NEW n, NEW new, NEW s, NEW x,
         SplitStep(q, n, new, s, x)
  PROVE  SplitFacts(q, n, new, s, x)
<1>1. PagesInv /\ OpOK /\ PlacesOK /\ todo \in Seq(Writes(owned)) /\ owned \subseteq AnyPage
  BY InvFacts DEF AnyPage
<1>2. /\ pc = "alloc" /\ AllocatePage
      /\ pc' = "write" /\ UNCHANGED <<op, cur, stack, before>>
      /\ todo' = <<[page |-> q, node |-> s.left], [page |-> new, node |-> s.right]>>
      /\ split' = [key |-> s.key, child |-> new]
  BY DEF AllocSplit, SplitStep
<1>3. /\ new \in AnyPage /\ new \notin owned /\ owned' = owned \cup {new}
      /\ \A p \in owned : NodeAt(p)' = NodeAt(p)
      /\ header'.RootPageID = header.RootPageID
  BY <1>1, <1>2, AllocateEffect DEF SplitStep, AnyPage
<1>4. Kept
  BY <1>3, PagesKept
<1>5. /\ Len(todo) = 1 /\ split = NoSplit /\ op.kind \in {"put", "delete"}
      /\ nodeSize(n) > cellAreaSize
  BY <1>2 DEF Working, WorkOK, Later, SplitStep
<1>6. q \in owned /\ NodeOver(n, owned) /\ Len(n.keys) > 0
  <2>0. Len(todo) = 1
    BY <1>5
  <2>1. todo[1] \in Writes(owned)
    BY <1>1, <2>0
  <2>2. q \in owned /\ NodeOver(n, owned)
    BY <2>1 DEF Writes, SplitStep
  <2> QED BY <1>1, <1>2, <2>2 DEF PlacesOK, SplitStep
<1>7. x \in Keys
  BY <1>1, <1>5 DEF OpOK, SplitStep
<1>8. /\ NodeOver(s.left, owned') /\ NodeOver(s.right, owned') /\ s.key \in Keys
  <2>1. NodeOver(n, owned') /\ owned' \subseteq 1..PageLimit /\ new \in owned'
    BY <1>1, <1>3, <1>6, NodeOverMore DEF AnyPage
  <2> QED BY <1>6, <2>1, SplitOver DEF SplitStep
<1> QED BY <1>1, <1>2, <1>3, <1>4, <1>5, <1>6, <1>7, <1>8 DEF SplitFacts, SplitStep

(* The tree in which the node is replaced, and where its page is on the path. *)
SplitTreeIs(q, n, new, x, P, L, l, m) ==
  /\ m = NextMem /\ Tree(m, P, L) /\ InUse(owned, P, L) /\ OnPath(P, L)
  /\ \A k \in Keys : Finds(m, P, k) = Target(k)
  /\ l = L - 1 - Len(stack) /\ l \in 0..(L - 1) /\ L \in Nat /\ Len(stack) \in Nat
  /\ q = P[l][x] /\ m[q] = n
  /\ \A p \in Pages0 : p # q => m[p] = Mem[p]
  /\ \A j \in 0..L : \A k \in Keys :
       P[j][k] \in Pages0 /\ P[j][k] \in owned \cup {0} /\ P[j][k] # new

LEMMA SplitTreeNow ==
  ASSUME TreeInv, Working, AllocSplit, NEW q, NEW n, NEW new, NEW s, NEW x,
         SplitStep(q, n, new, s, x)
  PROVE  \E P, L, l, m : SplitTreeIs(q, n, new, x, P, L, l, m)
<1>1. SplitFacts(q, n, new, s, x)
  BY SplitStepFacts
<1>2. PICK P, L : NextTree(P, L) /\ OnPath(P, L)
  <2>1. Keyed /\ pc # "write"
    BY <1>1 DEF Keyed, SplitFacts
  <2> QED BY <2>1, Ahead
<1>3. PICK m, l, d : m = NextMem /\ d = Len(stack) /\ l = L - 1 - d
  OBVIOUS
<1>4. /\ Tree(m, P, L) /\ InUse(owned, P, L)
      /\ \A k \in Keys : Finds(m, P, k) = Target(k)
  BY <1>2, <1>3 DEF NextTree
<1>5. \A p \in Pages0 : m[p] = IF p = q THEN n ELSE Mem[p]
  <2>0. pc # "writeroot" /\ pc # "setroot" /\ split = NoSplit /\ Len(todo) = 1
    BY <1>1 DEF SplitFacts
  <2>1. todo # <<>> /\ Len(todo) # 2 /\ pc # "writeroot" /\ pc # "setroot" /\ split = NoSplit
    BY <2>0
  <2> QED BY <1>3, <2>1 DEF NextMem, SplitStep
<1>6. /\ L \in Nat /\ d \in Nat /\ d < L /\ l \in 0..(L - 1)
  <2>1. L \in Nat /\ d \in Nat /\ d < L
    BY <1>2, <1>3, <1>4, TreeFacts, InvFacts DEF OnPath
  <2> QED BY <1>3, <2>1
<1>7. q = P[l][x]
  BY <1>1, <1>2, <1>3 DEF OnPath, Level, SplitFacts, SplitStep
<1>8. \A j \in 0..L : \A k \in Keys :
        P[j][k] \in Pages0 /\ P[j][k] \in owned \cup {0} /\ P[j][k] # new
  <2> SUFFICES ASSUME NEW j \in 0..L, NEW k \in Keys
               PROVE  P[j][k] \in Pages0 /\ P[j][k] \in owned \cup {0} /\ P[j][k] # new
    OBVIOUS
  <2>1. P[j][k] \in Pages0 /\ P[L][k] = 0
    BY <1>4, TreeFacts
  <2>2. j = L \/ j \in 0..(L - 1)
    BY <1>6
  <2>3. P[j][k] \in owned \cup {0}
    BY <1>4, <2>1, <2>2 DEF InUse
  <2>4. new # 0 /\ new \notin owned
    BY <1>1 DEF SplitFacts, AnyPage
  <2> QED BY <2>1, <2>3, <2>4
<1>9. q \in Pages0
  BY <1>1, LimitAssumption DEF SplitFacts, Pages0, AnyPage
<1> QED BY <1>2, <1>3, <1>4, <1>5, <1>6, <1>7, <1>8, <1>9 DEF SplitTreeIs

(* With only the left half written, nothing is found that was not there.   *)
LEMMA SplitHalfSafe ==
  ASSUME NEW q, NEW n, NEW new, NEW s, NEW x, SplitFacts(q, n, new, s, x),
         NEW P, NEW L, NEW l, NEW m, SplitTreeIs(q, n, new, x, P, L, l, m)
  PROVE  \E Q, M : SafeTree(LeftMem, Q, M)'
<1>1. PICK m2 : m2 = LeftMem'
  OBVIOUS
<1>2. OnlyLeft(m2, m, P, L, q, s.left)
  <2> SUFFICES ASSUME NEW j \in 0..L, NEW k \in Keys
               PROVE  m2[P[j][k]] = IF P[j][k] = q THEN s.left ELSE m[P[j][k]]
    BY DEF OnlyLeft
  <2>1. PICK p : p = P[j][k] /\ p \in Pages0 /\ p \in owned \cup {0}
    BY DEF SplitTreeIs
  <2>2. todo'[1].page = q /\ todo'[1].node = s.left
    BY DEF SplitFacts
  <2>3. m2[p] = IF p = q THEN s.left ELSE Mem'[p]
    BY <1>1, <2>1, <2>2 DEF LeftMem
  <2>4. Mem'[p] = Mem[p]
    BY <2>1 DEF SplitFacts, Kept
  <2>5. p # q => m[p] = Mem[p]
    BY <2>1 DEF SplitTreeIs
  <2> QED BY <2>1, <2>3, <2>4, <2>5
<1>3. LeftTree(m2, m, P, L)
  <2>1. /\ Tree(m, P, L) /\ l \in 0..(L - 1) /\ q = P[l][x] /\ m[q] = n
    BY DEF SplitTreeIs
  <2>2. x \in Keys /\ Len(n.keys) > 0 /\ new \in AnyPage /\ s = splitNode(n, new)
    BY DEF SplitFacts
  <2>3. Len(m[q].keys) > 0 /\ OnlyLeft(m2, m, P, L, q, splitNode(m[q], new).left)
    BY <1>2, <2>1, <2>2
  <2> QED BY <2>1, <2>2, <2>3, HalfTree
<1>4. PICK P2 : /\ Tree(m2, P2, L)
                /\ \A j \in 0..L : \A k \in Keys : \E y \in Keys : P2[j][k] = P[j][y]
                /\ \A k \in Keys : ValueIn(m2[P2[0][k]], k) \in {None, ValueIn(m[P[0][k]], k)}
  BY <1>3 DEF LeftTree
<1>5. L \in Nat /\ \A j \in 0..(L - 1) : j \in 0..L
  BY DEF SplitTreeIs
<1>6. InUse(owned', P2, L)
  <2> SUFFICES ASSUME NEW j \in 0..(L - 1), NEW k \in Keys PROVE P2[j][k] \in owned'
    BY DEF InUse
  <2>1. PICK y \in Keys : P2[j][k] = P[j][y]
    BY <1>4, <1>5
  <2>2. P[j][y] \in owned
    BY DEF SplitTreeIs, InUse
  <2> QED BY <2>1, <2>2 DEF SplitFacts
<1>7. Unlinked(P2, L)'
  <2> SUFFICES ASSUME NEW j \in 0..L, NEW k \in Keys PROVE P2[j][k] # new
    BY DEF Unlinked, SplitFacts
  <2>1. PICK y \in Keys : P2[j][k] = P[j][y]
    BY <1>4
  <2> QED BY <2>1 DEF SplitTreeIs
<1>8. \A k \in Keys : Finds(m2, P2, k) \in Allowed(k)'
  <2> SUFFICES ASSUME NEW k \in Keys PROVE Finds(m2, P2, k) \in Allowed(k)'
    OBVIOUS
  <2>1. Allowed(k)' = Allowed(k)
    <3>1. Aims
      BY DEF Aims, SplitFacts
    <3> QED BY <3>1, SameAim
  <2>2. Finds(m2, P2, k) \in {None, Target(k)}
    BY <1>4 DEF Finds, SplitTreeIs
  <2>3. None \in Allowed(k) /\ Target(k) \in Allowed(k)
    BY TargetAllowed DEF Allowed
  <2> QED BY <2>1, <2>2, <2>3
<1> QED BY <1>1, <1>4, <1>6, <1>7, <1>8 DEF SafeTree

(* The tree with both halves written and linked.                           *)
SplitMade(m2, m, P, L, l, q, x, new, s, Q) ==
  /\ Tree(m2, Q, L) /\ SplitPaths(Q, P, L, l, q, s.key, new)
  /\ \E y \in Keys : Q[l][y] = q
  /\ \E y \in Keys : Q[l][y] = new
  /\ m2[q] = s.left /\ m2[new] = s.right /\ OnlyThese(m2, m, P, L, q, P[l + 1][x])

(* With both halves written and linked, everything is found.               *)
LEMMA SplitNext ==
  ASSUME TreeInv, NEW q, NEW n, NEW new, NEW s, NEW x, SplitFacts(q, n, new, s, x),
         NEW P, NEW L, NEW l, NEW m, SplitTreeIs(q, n, new, x, P, L, l, m),
         l = 0 => s.left.keys # <<>>
  PROVE  \E Q, M : /\ NextTree(Q, M)' /\ OnPath(Q, M)'
                    /\ M = L /\ SplitMade(NextMem', m, P, L, l, q, x, new, s, Q)
<1>1. PICK m2, up, d, i, sp : /\ m2 = NextMem' /\ up = P[l + 1][x] /\ d = Len(stack)
                              /\ i = childIdx(m[up], x)
                              /\ sp = [key |-> s.key, child |-> new]
  OBVIOUS
<1>2. /\ Tree(m, P, L) /\ l \in 0..(L - 1) /\ L \in Nat /\ d \in Nat /\ l = L - 1 - d
      /\ q = P[l][x] /\ m[q] = n /\ x \in Keys /\ l + 1 \in 0..L /\ l \in 0..L /\ l + 1 # l
      /\ l + 1 = L - d /\ L \in 0..L /\ d < L
  <2>1. /\ Tree(m, P, L) /\ l \in 0..(L - 1) /\ L \in Nat /\ d \in Nat /\ l = L - 1 - d
        /\ q = P[l][x] /\ m[q] = n /\ x \in Keys
    BY <1>1 DEF SplitTreeIs, SplitFacts
  <2> QED BY <2>1
<1>3. /\ up \in Pages0 /\ up \in owned \cup {0} /\ up # new /\ up # q
      /\ q \in Pages0 /\ new \in Pages0 /\ q # 0 /\ new # 0 /\ new # q
  <2>1. /\ up \in Pages0 /\ up \in owned \cup {0} /\ up # new
    BY <1>1, <1>2 DEF SplitTreeIs
  <2>2. up # q
    BY <1>1, <1>2, TreeFacts
  <2>3. q \in AnyPage /\ new \in AnyPage /\ new # q
    BY DEF SplitFacts
  <2> QED BY <2>1, <2>2, <2>3, LimitAssumption DEF AnyPage, Pages0
<1>4. \A p \in owned \cup {0} : p \in Pages0 /\ Mem'[p] = Mem[p] /\ (p # q => m[p] = Mem[p])
  <2> SUFFICES ASSUME NEW p \in owned \cup {0}
               PROVE  p \in Pages0 /\ Mem'[p] = Mem[p] /\ (p # q => m[p] = Mem[p])
    OBVIOUS
  <2>1. p \in Pages0
    BY LimitAssumption DEF SplitFacts, AnyPage, Pages0
  <2>2. Mem'[p] = Mem[p]
    BY DEF SplitFacts, Kept
  <2> QED BY <2>1, <2>2 DEF SplitTreeIs
<1>5. ParentPage' = up /\ ParentIdx' = i
  <2>0. stack' = stack /\ OnPath(P, L)
    BY DEF SplitFacts, SplitTreeIs
  <2>1. CASE stack = <<>>
    <3>1. d = 0 /\ up = 0
      BY <1>1, <1>2, <2>1, TreeFacts
    <3>2. m[0] = Header0(header.RootPageID)
      <4>1. m[0] = Mem[0] /\ 0 \in Pages0
        BY <1>3, <1>4
      <4> QED BY <4>1 DEF Mem
    <3>3. header.RootPageID \in AnyPage
      <4>1. pc # "closed" /\ op.kind # "open"
        BY DEF SplitFacts
      <4> QED BY <4>1, RootsThere DEF SplitFacts
    <3>4. childIdx(Header0(header.RootPageID), x) = 1
      BY <1>2, <3>3, HeaderNode
    <3> QED BY <1>1, <2>0, <2>1, <3>1, <3>2, <3>4 DEF ParentPage, ParentIdx
  <2>2. CASE stack # <<>>
    <3>1. Last(stack) = stack[d] /\ d \in DOMAIN stack
      <4>1. stack \in Seq(Frames(owned))
        BY InvFacts
      <4> QED BY <1>1, <2>2, <4>1 DEF Last
    <3>2. FrameFits(P, L, d) /\ op.key = x
      BY <2>0, <3>1 DEF OnPath, SplitFacts
    <3>3. stack[d].page = up /\ stack[d].idx = childIdx(Mem[up], x)
      BY <1>1, <1>2, <3>2 DEF FrameFits
    <3> QED BY <1>1, <1>3, <1>4, <2>0, <2>2, <3>1, <3>3 DEF ParentPage, ParentIdx
  <2> QED BY <2>1, <2>2
<1>6. \A p \in Pages0 :
        m2[p] = IF p = up THEN internalWith(Mem'[p], i, sp)
                ELSE IF p = q THEN s.left
                ELSE IF p = new THEN s.right
                ELSE Mem'[p]
  <2>1. /\ split' = sp /\ sp # NoSplit /\ todo' # <<>> /\ Len(todo') = 2
        /\ todo'[1].page = q /\ todo'[1].node = s.left
        /\ todo'[2].page = new /\ todo'[2].node = s.right
        /\ pc' # "writeroot" /\ pc' # "setroot"
    BY <1>1, <1>3 DEF SplitFacts, NoSplit
  <2> QED BY <1>1, <1>5, <2>1 DEF NextMem
<1>7. /\ m2[q] = s.left /\ m2[new] = s.right
      /\ m2[up] = internalWith(m[up], childIdx(m[up], x), sp)
  BY <1>1, <1>3, <1>4, <1>6
<1>8. OnlyThese(m2, m, P, L, q, up)
  <2> SUFFICES ASSUME NEW j \in 0..L, NEW k \in Keys, P[j][k] # q, P[j][k] # up
               PROVE  m2[P[j][k]] = m[P[j][k]]
    BY DEF OnlyThese
  <2>1. PICK p : p = P[j][k] /\ p \in owned \cup {0} /\ p # new
    BY DEF SplitTreeIs
  <2> QED BY <1>4, <1>6, <2>1
<1>9. PICK P2 : /\ Tree(m2, P2, L) /\ SplitPaths(P2, P, L, l, q, s.key, new)
                /\ \E y \in Keys : P2[l][y] = q
                /\ \E y \in Keys : P2[l][y] = new
                /\ \A k \in Keys : ValueIn(m2[P2[0][k]], k) = ValueIn(m[P[0][k]], k)
  <2>1. /\ Len(m[q].keys) > 0 /\ new \in AnyPage /\ s = splitNode(m[q], new)
        /\ \A j \in 0..L : \A k \in Keys : P[j][k] # new
    BY <1>2 DEF SplitFacts, SplitTreeIs
  <2>2. m2[up] = internalWith(m[up], childIdx(m[up], x), [key |-> s.key, child |-> new])
    BY <1>1, <1>7
  <2>3. Tree(m, P, L) /\ l \in 0..(L - 1) /\ x \in Keys /\ q = P[l][x] /\ up = P[l + 1][x]
    BY <1>1, <1>2
  <2>4. m2[q] = s.left /\ m2[new] = s.right /\ (l = 0 => s.left.keys # <<>>)
    BY <1>7
  <2> HIDE DEF OnlyThese
  <2> QED BY <1>8, <2>1, <2>2, <2>3, <2>4, SplitTree
<1>10. \A j \in 0..L : \A k \in Keys : P2[j][k] \in {new, P[j][k]} /\ (j # l => P2[j][k] = P[j][k])
  BY <1>9 DEF SplitPaths
<1>11. NextTree(P2, L)'
  <2>1. InUse(owned', P2, L)
    <3> SUFFICES ASSUME NEW j \in 0..(L - 1), NEW k \in Keys PROVE P2[j][k] \in owned'
      BY DEF InUse
    <3>1. P[j][k] \in owned /\ j \in 0..L
      BY <1>2 DEF SplitTreeIs, InUse
    <3> QED BY <1>10, <3>1 DEF SplitFacts
  <2>2. \A k \in Keys : Finds(m2, P2, k) = Target(k)'
    <3> SUFFICES ASSUME NEW k \in Keys PROVE Finds(m2, P2, k) = Target(k)'
      OBVIOUS
    <3>1. Aims /\ (pc \in Later <=> pc' \in Later)
      BY DEF Aims, SplitFacts, Later
    <3>2. Target(k)' = Target(k)
      BY <3>1, SameAim
    <3> QED BY <1>9, <3>2 DEF Finds, SplitTreeIs
  <2> QED BY <1>1, <1>9, <2>1, <2>2 DEF NextTree
<1>12. OnPath(P2, L)'
  <2>1. stack' = stack /\ op' = op /\ pc' = "write" /\ OnPath(P, L) /\ op.key = x
    BY DEF SplitFacts, SplitTreeIs
  <2>2. \A j \in DOMAIN stack : FrameFits(P2, L, j)'
    <3> SUFFICES ASSUME NEW j \in DOMAIN stack PROVE FrameFits(P2, L, j)'
      OBVIOUS
    <3>1. FrameFits(P, L, j)
      BY <2>1 DEF OnPath
    <3>2. j \in 1..d
      BY <1>1, InvFacts
    <3>3. L - j \in 0..L /\ L - j # l
      BY <1>2, <3>2
    <3>4. P2[L - j][x] = P[L - j][x]
      BY <1>2, <1>10, <3>3
    <3>5. P[L - j][x] \in owned \cup {0}
      BY <1>2, <3>3 DEF SplitTreeIs
    <3>6. Mem'[stack[j].page] = Mem[stack[j].page]
      BY <1>4, <2>1, <3>1, <3>5 DEF FrameFits
    <3> QED BY <2>1, <3>1, <3>4, <3>6 DEF FrameFits
  <2>3. Level(L)' = l
    BY <1>1, <1>2, <2>1 DEF Level
  <2>4. \A a \in DOMAIN todo' : \E k \in Keys : todo'[a].page = P2[l][k]
    <3>1. \A a \in DOMAIN todo' : todo'[a].page = q \/ todo'[a].page = new
      BY DEF SplitFacts
    <3> QED BY <1>9, <3>1
  <2> QED BY <1>1, <1>2, <2>1, <2>2, <2>3, <2>4 DEF OnPath
<1>13. SplitMade(m2, m, P, L, l, q, x, new, s, P2)
  BY <1>1, <1>7, <1>8, <1>9 DEF SplitMade
<1> QED BY <1>1, <1>11, <1>12, <1>13

LEMMA AllocSplitMap ==
  ASSUME TreeInv, Working, AllocSplit
  PROVE  Working'
<1>0. PICK q, n, new, s, x : SplitStep(q, n, new, s, x)
  BY DEF SplitStep
<1>1. SplitFacts(q, n, new, s, x)
  BY <1>0, SplitStepFacts
<1>2. PICK P, L, l, m : SplitTreeIs(q, n, new, x, P, L, l, m)
  BY <1>0, SplitTreeNow
<1>3. /\ Len(todo') = 2 /\ todo'[1].page = q /\ todo'[1].node = s.left
      /\ todo'[2].page = new /\ todo'[2].node = s.right
      /\ split'.child = new /\ split' # NoSplit
  BY <1>1 DEF SplitFacts, NoSplit, AnyPage
<1>4. WorkOK'
  BY <1>1, <1>3 DEF WorkOK, Later, SplitFacts
<1>5. HopelessOK'
  <2> SUFFICES ASSUME IsLeaf(s.left), s.left.keys = <<>>
               PROVE  nodeSize(s.right) > cellAreaSize
    BY <1>3 DEF HopelessOK, Hopeless
  <2>1. NodeOver(n, owned) /\ owned \subseteq 1..PageLimit /\ s = splitNode(n, new)
        /\ Len(n.keys) > 0 /\ nodeSize(n) > cellAreaSize
    BY <1>1 DEF SplitFacts, AnyPage
  <2>2. IsLeaf(n)
    BY <2>1, SplitLeaves
  <2> QED BY <2>1, <2>2, HeavyHalf
<1>6. \E Q, M : SafeTree(Mem, Q, M)'
  <2>1. PICK Q, M : SafeTree(Mem, Q, M)
    BY DEF Working
  <2>2. Unlinked(Q, M)'
    <3> SUFFICES ASSUME NEW j \in 0..M, NEW k \in Keys PROVE Q[j][k] # new
      BY <1>1 DEF Unlinked, SplitFacts
    <3>1. M \in Nat /\ Q[M][k] = 0
      BY <2>1, TreeFacts DEF SafeTree
    <3>2. j = M \/ j \in 0..(M - 1)
      BY <3>1
    <3>3. new # 0 /\ new \notin owned
      BY <1>1 DEF SplitFacts, AnyPage
    <3> QED BY <2>1, <3>1, <3>2, <3>3 DEF SafeTree, InUse
  <2>3. Kept /\ Aims
    BY <1>1 DEF SplitFacts, Aims
  <2> QED BY <2>1, <2>2, <2>3, SameAim, StillSafe
<1>7. \E Q, M : SafeTree(LeftMem, Q, M)'
  BY <1>1, <1>2, SplitHalfSafe
<1>8. ~Hopeless' => \E Q, M : NextTree(Q, M)' /\ OnPath(Q, M)'
  <2> SUFFICES ASSUME ~(IsLeaf(s.left) /\ s.left.keys = <<>>)
               PROVE  \E Q, M : NextTree(Q, M)' /\ OnPath(Q, M)'
    BY <1>1, <1>3 DEF Hopeless, SplitFacts
  <2>1. l = 0 => IsLeaf(s.left)
    <3>1. PageHas(m[P[l][x]], P, l, P[l][x])
      <4>1. Tree(m, P, L) /\ l \in 0..L /\ x \in Keys
        BY <1>1, <1>2 DEF SplitTreeIs, SplitFacts
      <4> QED BY <4>1, PageFacts
    <3>2. IsLeaf(n) <=> l = 0
      BY <1>2, <3>1 DEF PageHas, SplitTreeIs
    <3>3. NodeOver(n, owned) /\ s = splitNode(n, new)
      BY <1>1 DEF SplitFacts
    <3> QED BY <3>2, <3>3, SplitLeaves
  <2> QED BY <1>1, <1>2, <2>1, SplitNext
<1> QED BY <1>3, <1>4, <1>5, <1>6, <1>7, <1>8 DEF Working

-----------------------------------------------------------------------------
(* The writes.                                                             *)

WriteFacts(q, n) ==
  /\ q = todo[1].page /\ n = todo[1].node /\ q \in owned /\ q \in Pages0 /\ q # 0
  /\ ~(nodeSize(n) > cellAreaSize)
  /\ Mem'[q] = n /\ \A p \in Pages0 : p # q => Mem'[p] = Mem[p]
  /\ owned' = owned /\ owned \subseteq AnyPage
  /\ todo' = Tail(todo) /\ UNCHANGED <<op, cur, stack, split, before>>
  /\ pc \in {"write", "writeroot"} /\ Len(todo) > 0 /\ Len(todo) \in Nat
  /\ pc' = IF Len(todo) > 1 THEN pc ELSE IF pc = "write" THEN "unwind" ELSE "setroot"
  /\ Len(todo') = Len(todo) - 1
  /\ Len(todo) = 1 => todo' = <<>>
  /\ Len(todo) = 2 => todo'[1] = todo[2] /\ DOMAIN todo' = {1}
  /\ DOMAIN todo = 1..Len(todo)

LEMMA WriteNodeFacts ==
  ASSUME NodeType \subseteq Body, TreeInv, WriteNode
  PROVE  \E q, n : WriteFacts(q, n)
<1>0. PICK q, n : q = todo[1].page /\ n = todo[1].node
  OBVIOUS
<1>1. PagesInv /\ PlacesOK /\ todo \in Seq(Writes(owned)) /\ owned \subseteq AnyPage
  BY InvFacts DEF AnyPage
<1>2. /\ pc \in {"write", "writeroot"} /\ ~(nodeSize(n) > cellAreaSize)
      /\ WritePage(q, serializeNode(n)) /\ todo' = Tail(todo)
      /\ pc' = IF Len(todo) > 1 THEN pc ELSE IF pc = "write" THEN "unwind" ELSE "setroot"
      /\ UNCHANGED <<op, cur, stack, split, before>>
  BY <1>0 DEF WriteNode
<1>3. todo # <<>>
  BY <1>1, <1>2 DEF PlacesOK
<1>4. todo[1] \in Writes(owned) /\ Len(todo) \in Nat /\ Len(todo) > 0 /\ DOMAIN todo = 1..Len(todo)
  BY <1>1, <1>3
<1>5. q \in owned /\ NodeOver(n, owned)
  BY <1>0, <1>4 DEF Writes
<1>6. q \in Pages0 /\ q # 0 /\ 0 \in Pages0
  BY <1>1, <1>5, LimitAssumption DEF AnyPage, Pages0
<1>7. /\ UNCHANGED <<header, fileHeader, owned>> /\ NodeAt(q)' = n
      /\ \A p \in 0..PageLimit : p # q => NodeAt(p)' = NodeAt(p)
  BY <1>1, <1>2, <1>5, WriteEffect
<1>8. Mem'[q] = n /\ \A p \in Pages0 : p # q => Mem'[p] = Mem[p]
  BY <1>6, <1>7 DEF Mem, Pages0
<1>9. /\ Len(todo') = Len(todo) - 1
      /\ Len(todo) = 1 => todo' = <<>>
      /\ Len(todo) = 2 => todo'[1] = todo[2] /\ DOMAIN todo' = {1}
  <2>1. PICK d, t : d \in Nat /\ d = Len(todo) /\ t = Tail(todo)
    BY <1>4
  <2>2. /\ t \in Seq(Writes(owned)) /\ Len(t) = d - 1
        /\ \A i \in 1..Len(t) : t[i] = todo[i + 1]
    BY <1>1, <1>3, <2>1, HeadTailProperties
  <2>3. d = 1 => t = <<>>
    BY <2>2
  <2>4. d = 2 => t[1] = todo[2] /\ DOMAIN t = {1}
    <3> SUFFICES ASSUME d = 2 PROVE t[1] = todo[2] /\ DOMAIN t = {1}
      OBVIOUS
    <3>1. Len(t) = 1 /\ 1 \in 1..Len(t) /\ 1 + 1 = 2
      BY <2>2
    <3>2. DOMAIN t = 1..Len(t)
      BY <2>2
    <3> QED BY <2>2, <3>1, <3>2
  <2> QED BY <1>2, <2>1, <2>2, <2>3, <2>4
<1> QED BY <1>0, <1>1, <1>2, <1>4, <1>5, <1>6, <1>7, <1>8, <1>9 DEF WriteFacts

(* A frame is above the page that is written.                              *)
LEMMA FramesAbove ==
  ASSUME TreeInv, NEW P, NEW L, NEW m, Tree(m, P, L), OnPath(P, L), op.key \in Keys,
         NEW q, NEW k \in Keys, q = P[Level(L)][k]
  PROVE  /\ \A j \in DOMAIN stack : stack[j].page # q
         /\ ParentPage # q
<1>1. PICK d \in Nat : d = Len(stack) /\ DOMAIN stack = 1..d /\ stack \in Seq(Frames(owned))
  BY InvFacts
<1>2. L \in Nat /\ d < L /\ Level(L) = L - 1 - d
  BY <1>1, TreeFacts DEF OnPath, Level
<1>3. Level(L) \in 0..L /\ Level(L) \in 0..(L - 1) /\ q # 0
  <2>1. Level(L) \in 0..L /\ Level(L) \in 0..(L - 1)
    BY <1>2
  <2> QED BY <2>1, TreeFacts
<1>4. \A j \in DOMAIN stack : stack[j].page # q
  <2> SUFFICES ASSUME NEW j \in DOMAIN stack PROVE stack[j].page # q
    OBVIOUS
  <2>1. L - j \in 0..L /\ L - j # Level(L)
    BY <1>1, <1>2
  <2>2. stack[j].page = P[L - j][op.key]
    BY DEF OnPath, FrameFits
  <2> QED BY <1>3, <2>1, <2>2, TreeFacts
<1>5. ParentPage # q
  <2>1. CASE stack = <<>>
    BY <1>3, <2>1 DEF ParentPage
  <2>2. CASE stack # <<>>
    <3>1. Last(stack) = stack[d] /\ d \in DOMAIN stack
      BY <1>1, <2>2 DEF Last
    <3> QED BY <1>4, <2>2, <3>1 DEF ParentPage
  <2> QED BY <2>1, <2>2
<1> QED BY <1>4, <1>5

(* So the frames still hold what is on their pages.                        *)
LEMMA FramesStay ==
  ASSUME TreeInv, NEW q, NEW n, WriteFacts(q, n), NEW P, NEW L, OnPath(P, L),
         \A j \in DOMAIN stack : stack[j].page # q
  PROVE  \A j \in DOMAIN stack : FrameFits(P, L, j)'
<1> SUFFICES ASSUME NEW j \in DOMAIN stack PROVE FrameFits(P, L, j)'
  OBVIOUS
<1>1. FrameFits(P, L, j) /\ stack' = stack /\ op' = op
  BY DEF OnPath, WriteFacts
<1>2. stack[j].page \in Pages0
  <2>1. stack[j] \in Frames(owned) /\ owned \subseteq AnyPage
    BY InvFacts DEF WriteFacts
  <2>2. PICK p \in AnyPage : p = stack[j].page
    BY <2>1 DEF Frames
  <2> QED BY <2>2, LimitAssumption DEF AnyPage, Pages0
<1>3. Mem'[stack[j].page] = Mem[stack[j].page]
  BY <1>2 DEF WriteFacts
<1> QED BY <1>1, <1>3 DEF FrameFits

WriteAim(q, n) ==
  /\ Aims /\ Keyed /\ Keyed' = Keyed /\ op.key \in Keys
  /\ \A k \in Keys : Allowed(k)' = Allowed(k)
  /\ \A k \in Keys : Target(k)' = Target(k)

LEMMA WriteAims ==
  ASSUME TreeInv, Working, NEW q, NEW n, WriteFacts(q, n)
  PROVE  WriteAim(q, n)
<1>1. pc \in Later /\ pc' \in Later /\ pc # "idle" /\ pc' # "idle"
  BY DEF WriteFacts, Later
<1>2. Aims /\ op.kind \in {"put", "delete"} /\ op' = op
  BY <1>1 DEF Aims, WriteFacts, Working, WorkOK
<1>3. op.key \in Keys
  BY <1>2, InvFacts DEF OpOK
<1> QED BY <1>1, <1>2, <1>3, SameAim DEF WriteAim, Keyed

(* The only page of an insertion or deletion that splits nothing.          *)
LEMMA LastWriteMap ==
  ASSUME TreeInv, Working, NEW q, NEW n, WriteFacts(q, n), pc = "write",
         Len(todo) = 1, split = NoSplit
  PROVE  Working' /\ NextSame
<1>1. /\ pc' = "unwind" /\ todo' = <<>> /\ split' = NoSplit /\ WriteAim(q, n) /\ stack' = stack
  BY WriteAims DEF WriteFacts
<1>2. PICK P, L : NextTree(P, L) /\ OnPath(P, L)
  <2>1. ~Hopeless /\ ~Overflows
    BY DEF Hopeless, Overflows
  <2> QED BY <1>1, <2>1 DEF Working, WriteAim
<1>3. Mem' = NextMem
  <2>1. \A p \in Pages0 : NextMem[p] = IF p = q THEN n ELSE Mem[p]
    BY DEF NextMem, WriteFacts
  <2>2. \A p \in Pages0 : Mem'[p] = NextMem[p]
    BY <2>1 DEF WriteFacts
  <2> QED BY <2>2 DEF Mem, NextMem
<1>4. NextMem' = Mem'
  BY <1>1, NoWorkNext DEF AllWritten, NextIsMem
<1>5. /\ Tree(Mem', P, L) /\ InUse(owned', P, L)
      /\ \A k \in Keys : Finds(Mem', P, k) = Target(k)
  BY <1>2, <1>3 DEF NextTree, WriteFacts
<1>6. NextTree(P, L)'
  BY <1>1, <1>4, <1>5 DEF NextTree, WriteAim
<1>7. SafeTree(Mem, P, L)'
  <2>1. \A k \in Keys : Finds(Mem', P, k) \in Allowed(k)'
    BY <1>1, <1>5, TargetAllowed DEF WriteAim
  <2>2. Unlinked(P, L)'
    BY <1>1 DEF Unlinked
  <2> QED BY <1>5, <2>1, <2>2 DEF SafeTree
<1>8. OnPath(P, L)'
  <2>1. \A j \in DOMAIN stack : stack[j].page # q
    <3>1. PICK k \in Keys : q = P[Level(L)][k]
      BY <1>2 DEF OnPath, WriteFacts
    <3> QED BY <1>1, <1>2, <3>1, FramesAbove DEF NextTree, WriteAim
  <2>2. \A j \in DOMAIN stack : FrameFits(P, L, j)'
    BY <1>2, <2>1, FramesStay
  <2> QED BY <1>1, <1>2, <2>2 DEF OnPath
<1>9. WorkOK'
  BY <1>1 DEF WorkOK, Later, Working, WriteAim, Aims
<1>10. NextSame
  BY <1>3, <1>4 DEF NextSame, WriteFacts
<1> QED BY <1>1, <1>6, <1>7, <1>8, <1>9, <1>10, WorksOn

(* The left half of a split: the right half and the separator follow.      *)
LEMMA FirstHalfMap ==
  ASSUME TreeInv, Working, NEW q, NEW n, WriteFacts(q, n), pc = "write", Len(todo) = 2
  PROVE  Working' /\ (~Overflows' => NextSame)
<1>0. /\ split # NoSplit /\ todo[2].page = split.child /\ q # todo[2].page
      /\ op.kind \in {"put", "delete"}
  BY DEF Working, WorkOK, WriteFacts, Later
<1>1. /\ pc' = "write" /\ Len(todo') = 1 /\ todo'[1] = todo[2] /\ split' = split
      /\ DOMAIN todo' = {1} /\ op' = op /\ stack' = stack /\ WriteAim(q, n) /\ owned' = owned
  BY WriteAims DEF WriteFacts
<1>2. WorkOK'
  BY <1>0, <1>1 DEF WorkOK, Later
<1>3. Mem' = LeftMem
  <2>1. \A p \in Pages0 : Mem'[p] = LeftMem[p]
    BY DEF WriteFacts, LeftMem
  <2> QED BY <2>1 DEF Mem, LeftMem
<1>4. \E P, L : SafeTree(Mem, P, L)'
  <2>1. PICK P, L : SafeTree(LeftMem, P, L)
    BY DEF Working
  <2>2. Unlinked(P, L)'
    BY <1>1, <2>1 DEF SafeTree, Unlinked
  <2>3. \A k \in Keys : Finds(Mem', P, k) \in Allowed(k)'
    BY <1>1, <1>3, <2>1 DEF SafeTree, WriteAim
  <2> QED BY <1>1, <1>3, <2>1, <2>2, <2>3 DEF SafeTree
<1>5. CASE Hopeless
  <2>1. Overflows'
    BY <1>0, <1>1, <1>5 DEF Overflows, Working, HopelessOK
  <2> QED BY <1>1, <1>2, <1>4, <2>1 DEF Working, HopelessOK, Hopeless
<1>6. CASE ~Hopeless
  <2>1. PICK P, L : NextTree(P, L) /\ OnPath(P, L)
    <3>1. ~Overflows
      BY DEF Overflows
    <3> QED BY <1>1, <1>6, <3>1 DEF Working, WriteAim
  <2>2. ParentPage # q /\ \A j \in DOMAIN stack : stack[j].page # q
    <3>1. PICK k \in Keys : q = P[Level(L)][k]
      <4>1. 1 \in DOMAIN todo
        BY DEF WriteFacts
      <4> QED BY <2>1, <4>1 DEF OnPath, WriteFacts
    <3> QED BY <1>1, <2>1, <3>1, FramesAbove DEF NextTree, WriteAim
  <2>3. NextMem' = NextMem
    <3>1. ParentPage' = ParentPage /\ ParentIdx' = ParentIdx
      BY <1>1 DEF ParentPage, ParentIdx
    <3>2. \A p \in Pages0 :
            NextMem[p] = IF p = ParentPage THEN internalWith(Mem[p], ParentIdx, split)
                         ELSE IF p = q THEN n
                         ELSE IF p = todo[2].page THEN todo[2].node
                         ELSE Mem[p]
      <4>1. todo # <<>> /\ pc \notin {"writeroot", "setroot"}
        BY DEF WriteFacts
      <4> QED BY <1>0, <4>1 DEF NextMem, WriteFacts
    <3>3. \A p \in Pages0 :
            NextMem'[p] = IF p = ParentPage THEN internalWith(Mem'[p], ParentIdx, split)
                          ELSE IF p = todo[2].page THEN todo[2].node
                          ELSE Mem'[p]
      <4>1. todo' # <<>> /\ Len(todo') # 2 /\ pc' \notin {"writeroot", "setroot"}
        BY <1>1
      <4> QED BY <1>0, <1>1, <3>1, <4>1 DEF NextMem
    <3>4. \A p \in Pages0 : NextMem'[p] = NextMem[p]
      BY <1>0, <2>2, <3>2, <3>3 DEF WriteFacts
    <3> QED BY <3>4 DEF NextMem
  <2>4. NextTree(P, L)'
    BY <1>1, <2>1, <2>3, StillNext DEF WriteAim
  <2>5. OnPath(P, L)'
    <3>1. \A j \in DOMAIN stack : FrameFits(P, L, j)'
      BY <2>1, <2>2, FramesStay
    <3>2. \E k \in Keys : todo[2].page = P[Level(L)][k]
      <4>1. 2 \in DOMAIN todo
        BY DEF WriteFacts
      <4> QED BY <2>1, <4>1 DEF OnPath
    <3>3. Level(L)' = Level(L)
      BY <1>1 DEF Level
    <3> QED BY <1>1, <2>1, <3>1, <3>2, <3>3 DEF OnPath
  <2> QED BY <1>1, <1>2, <1>4, <2>3, <2>4, <2>5, WorksOn DEF NextSame
<1> QED BY <1>5, <1>6

(* The right half, which the tree as it is does not reach.                 *)
LEMMA SecondHalfMap ==
  ASSUME TreeInv, Working, NEW q, NEW n, WriteFacts(q, n), pc = "write",
         Len(todo) = 1, split # NoSplit
  PROVE  Working' /\ NextSame
<1>0. q = split.child /\ op.kind \in {"put", "delete"}
  BY DEF Working, WorkOK, WriteFacts, Later
<1>1. /\ pc' = "unwind" /\ todo' = <<>> /\ split' = split
      /\ op' = op /\ stack' = stack /\ WriteAim(q, n) /\ owned' = owned
  BY WriteAims DEF WriteFacts
<1>2. WorkOK'
  BY <1>0, <1>1 DEF WorkOK, Later
<1>3. \E P, L : SafeTree(Mem, P, L)'
  <2>1. PICK P, L : SafeTree(Mem, P, L)
    BY DEF Working
  <2>2. \A j \in 0..L : \A k \in Keys : P[j][k] # q
    BY <1>0, <2>1 DEF SafeTree, Unlinked
  <2>3. PICK m, m2 : m = Mem /\ m2 = Mem'
    OBVIOUS
  <2>4. Tree(m, P, L)
    BY <2>1, <2>3 DEF SafeTree
  <2>5. \A j \in 0..L : \A k \in Keys : m2[P[j][k]] = m[P[j][k]]
    BY <2>2, <2>3, <2>4, TreeFacts DEF WriteFacts
  <2>6. Tree(m2, P, L) /\ \A k \in Keys : m2[P[0][k]] = m[P[0][k]]
    BY <2>4, <2>5, SameTree
  <2>7. Unlinked(P, L)'
    BY <1>1, <2>1 DEF SafeTree, Unlinked
  <2>8. \A k \in Keys : Finds(m2, P, k) \in Allowed(k)'
    BY <1>1, <2>1, <2>3, <2>6 DEF SafeTree, WriteAim, Finds
  <2> QED BY <1>1, <2>1, <2>3, <2>6, <2>7, <2>8 DEF SafeTree
<1>4. PICK P, L : NextTree(P, L) /\ OnPath(P, L)
  <2>1. ~Hopeless
    BY DEF Hopeless
  <2>2. ~Overflows
    BY DEF Overflows, WriteFacts
  <2> QED BY <1>1, <2>1, <2>2 DEF Working, WriteAim
<1>5. ParentPage # q /\ \A j \in DOMAIN stack : stack[j].page # q
  <2>1. PICK k \in Keys : q = P[Level(L)][k]
    <3>1. 1 \in DOMAIN todo
      BY DEF WriteFacts
    <3> QED BY <1>4, <3>1 DEF OnPath, WriteFacts
  <2> QED BY <1>1, <1>4, <2>1, FramesAbove DEF NextTree, WriteAim
<1>6. NextMem' = NextMem
  <2>1. ParentPage' = ParentPage /\ ParentIdx' = ParentIdx
    BY <1>1 DEF ParentPage, ParentIdx
  <2>2. \A p \in Pages0 :
          NextMem[p] = IF p = ParentPage THEN internalWith(Mem[p], ParentIdx, split)
                       ELSE IF p = q THEN n ELSE Mem[p]
    <3>1. todo # <<>> /\ Len(todo) # 2
      OBVIOUS
    <3>2. pc \notin {"writeroot", "setroot"}
      OBVIOUS
    <3> QED BY <3>1, <3>2 DEF NextMem, WriteFacts
  <2>3. \A p \in Pages0 :
          NextMem'[p] = IF p = ParentPage THEN internalWith(Mem'[p], ParentIdx, split)
                        ELSE Mem'[p]
    <3>1. todo' = <<>> /\ Len(todo') # 2 /\ pc' \notin {"writeroot", "setroot"} /\ split' # NoSplit
      BY <1>1
    <3> QED BY <1>1, <2>1, <3>1 DEF NextMem
  <2>4. \A p \in Pages0 : NextMem'[p] = NextMem[p]
    BY <1>5, <2>2, <2>3 DEF WriteFacts
  <2> QED BY <2>4 DEF NextMem
<1>7. NextTree(P, L)'
  BY <1>1, <1>4, <1>6, StillNext DEF WriteAim
<1>8. OnPath(P, L)'
  <2>1. \A j \in DOMAIN stack : FrameFits(P, L, j)'
    BY <1>4, <1>5, FramesStay
  <2> QED BY <1>1, <1>4, <2>1 DEF OnPath
<1> QED BY <1>1, <1>2, <1>3, <1>6, <1>7, <1>8, WorksOn DEF NextSame

(* A new root, which the header does not name yet.                         *)
LEMMA RootWriteMap ==
  ASSUME TreeInv, Working, NEW q, NEW n, WriteFacts(q, n), pc = "writeroot"
  PROVE  Working' /\ NextSame
<1>0. /\ q = cur /\ op.kind \in {"put", "delete"} /\ Len(todo) = 1 /\ split = NoSplit
      /\ stack = <<>>
  BY DEF Working, WorkOK, WriteFacts, Later
<1>1. /\ pc' = "setroot" /\ todo' = <<>> /\ split' = NoSplit /\ cur' = cur
      /\ op' = op /\ stack' = <<>> /\ WriteAim(q, n) /\ owned' = owned
  BY <1>0, WriteAims DEF WriteFacts
<1>2. WorkOK'
  BY <1>0, <1>1 DEF WorkOK, Later
<1>3. \E P, L : SafeTree(Mem, P, L)'
  <2>1. PICK P, L : SafeTree(Mem, P, L)
    BY DEF Working
  <2>2. \A j \in 0..L : \A k \in Keys : P[j][k] # q
    BY <1>0, <2>1 DEF SafeTree, Unlinked
  <2>3. PICK m, m2 : m = Mem /\ m2 = Mem'
    OBVIOUS
  <2>4. Tree(m, P, L)
    BY <2>1, <2>3 DEF SafeTree
  <2>5. \A j \in 0..L : \A k \in Keys : m2[P[j][k]] = m[P[j][k]]
    BY <2>2, <2>3, <2>4, TreeFacts DEF WriteFacts
  <2>6. Tree(m2, P, L) /\ \A k \in Keys : m2[P[0][k]] = m[P[0][k]]
    BY <2>4, <2>5, SameTree
  <2>7. Unlinked(P, L)'
    BY <1>1 DEF Unlinked
  <2>8. \A k \in Keys : Finds(m2, P, k) \in Allowed(k)'
    BY <1>1, <2>1, <2>3, <2>6 DEF SafeTree, WriteAim, Finds
  <2> QED BY <1>1, <2>1, <2>3, <2>6, <2>7, <2>8 DEF SafeTree
<1>4. PICK P, L : NextTree(P, L) /\ OnPath(P, L)
  BY <1>1, Ahead DEF WriteAim
<1>5. NextMem' = NextMem
  <2>1. \A p \in Pages0 :
          NextMem[p] = IF p = 0 THEN Header0(cur) ELSE IF p = q THEN n ELSE Mem[p]
    <3>1. todo # <<>> /\ Len(todo) # 2
      BY <1>0
    <3> QED BY <1>0, <3>1 DEF NextMem, WriteFacts
  <2>2. \A p \in Pages0 : NextMem'[p] = IF p = 0 THEN Header0(cur) ELSE Mem'[p]
    <3>1. todo' = <<>> /\ Len(todo') # 2
      BY <1>1
    <3> QED BY <1>1, <3>1 DEF NextMem
  <2>3. \A p \in Pages0 : NextMem'[p] = NextMem[p]
    BY <2>1, <2>2 DEF WriteFacts
  <2> QED BY <2>3 DEF NextMem
<1>6. NextTree(P, L)'
  BY <1>1, <1>4, <1>5, StillNext DEF WriteAim
<1>7. OnPath(P, L)'
  <2>1. \A k \in Keys : P[L - 1][k] = cur
    BY <1>4 DEF OnPath
  <2>2. DOMAIN stack' = {} /\ Len(stack') = Len(stack)
    BY <1>0, <1>1
  <2> QED BY <1>1, <1>4, <2>1, <2>2 DEF OnPath
<1> QED BY <1>1, <1>2, <1>3, <1>5, <1>6, <1>7, WorksOn DEF NextSame

LEMMA WriteNodeMap ==
  ASSUME NodeType \subseteq Body, TreeInv, Working, WriteNode
  PROVE  Working' /\ (~Overflows' => NextSame)
<1>1. PICK q, n : WriteFacts(q, n)
  BY WriteNodeFacts
<1>2. \/ pc = "writeroot"
      \/ pc = "write" /\ Len(todo) = 1 /\ split = NoSplit
      \/ pc = "write" /\ Len(todo) = 1 /\ split # NoSplit
      \/ pc = "write" /\ Len(todo) = 2
  BY <1>1 DEF WriteFacts, Working, WorkOK
<1> QED BY <1>1, <1>2, RootWriteMap, LastWriteMap, SecondHalfMap, FirstHalfMap

(* The header as a node, where the tree is known to be.                    *)
LEMMA HeaderNow ==
  ASSUME TreeInv, op.kind # "open", pc # "closed"
  PROVE  /\ header.RootPageID \in AnyPage /\ 0 \in Pages0
         /\ Mem[0] = Header0(header.RootPageID)
<1>1. header.RootPageID \in owned /\ owned \subseteq 1..PageLimit
  BY RootsThere, InvFacts
<1>2. 0 \in Pages0
  BY LimitAssumption DEF Pages0
<1> QED BY <1>1, <1>2 DEF Mem, AnyPage

(* The root was split: the new root takes the place of the header.         *)
LEMMA AllocRootMap ==
  ASSUME TreeInv, Working, AllocRoot, op.kind # "open"
  PROVE  Working' /\ NextRaised
<1>0. PICK new, top, root : /\ new = NextPage /\ root = header.RootPageID
                            /\ top = InternalNode(<<split.key>>, <<root>>, split.child)
  OBVIOUS
<1>1. /\ pc = "newroot" /\ pc' = "writeroot" /\ AllocatePage /\ cur' = new /\ split' = NoSplit
      /\ todo' = <<[page |-> new, node |-> top]>> /\ UNCHANGED <<op, stack, before>>
  BY <1>0 DEF AllocRoot
<1>2. todo = <<>> /\ stack = <<>> /\ split # NoSplit /\ op.kind \in {"put", "delete"}
  BY <1>1 DEF Working, WorkOK, Later
<1>3. /\ new \in AnyPage /\ new \notin owned /\ owned' = owned \cup {new} /\ Kept
      /\ owned \subseteq AnyPage
  <2>1. PagesInv /\ owned \subseteq AnyPage
    BY InvFacts DEF AnyPage
  <2>2. /\ new \in AnyPage /\ new \notin owned /\ owned' = owned \cup {new}
        /\ \A p \in owned : NodeAt(p)' = NodeAt(p)
        /\ header'.RootPageID = header.RootPageID
    BY <1>0, <1>1, <2>1, AllocateEffect DEF AnyPage
  <2> QED BY <2>1, <2>2, PagesKept
<1>4. /\ Len(todo') = 1 /\ todo'[1].page = new /\ todo'[1].node = top
      /\ Aims /\ (pc \in Later <=> pc' \in Later) /\ Keyed
      /\ new \in Pages0 /\ new # 0 /\ 0 \in Pages0
  <2>1. Aims /\ (pc \in Later <=> pc' \in Later) /\ Keyed
    BY <1>1, <1>2 DEF Aims, Later, Keyed
  <2>2. new \in Pages0 /\ new # 0 /\ 0 \in Pages0
    BY <1>3, LimitAssumption DEF AnyPage, Pages0
  <2> QED BY <1>1, <2>1, <2>2
<1>5. WorkOK'
  BY <1>1, <1>2, <1>4 DEF WorkOK, Later
<1>6. /\ \A k \in Keys : Allowed(k)' = Allowed(k)
      /\ \A k \in Keys : Target(k)' = Target(k)
  BY <1>4, SameAim
<1>7. \E P, L : SafeTree(Mem, P, L)'
  <2>1. PICK P, L : SafeTree(Mem, P, L)
    BY DEF Working
  <2>2. Unlinked(P, L)'
    <3> SUFFICES ASSUME NEW j \in 0..L, NEW k \in Keys PROVE P[j][k] # new
      BY <1>1 DEF Unlinked
    <3>1. L \in Nat /\ P[L][k] = 0
      BY <2>1, TreeFacts DEF SafeTree
    <3>2. j = L \/ j \in 0..(L - 1)
      BY <3>1
    <3> QED BY <1>3, <1>4, <2>1, <3>1, <3>2 DEF SafeTree, InUse
  <2> QED BY <1>3, <1>6, <2>1, <2>2, StillSafe
<1>8. PICK P, L : NextTree(P, L) /\ OnPath(P, L)
  BY <1>1, <1>4, Ahead
<1>9. PICK m, m2 : m = NextMem /\ m2 = NextMem'
  OBVIOUS
<1>10. /\ Tree(m, P, L) /\ InUse(owned, P, L) /\ L \in Nat /\ L > 0
       /\ \A k \in Keys : Finds(m, P, k) = Target(k)
       /\ \A j \in 0..(L - 1) : j \in 0..L
       /\ \A j \in 0..L : \A k \in Keys : P[j][k] # new
  <2>1. /\ Tree(m, P, L) /\ InUse(owned, P, L)
        /\ \A k \in Keys : Finds(m, P, k) = Target(k)
    BY <1>8, <1>9 DEF NextTree
  <2>2. L \in Nat /\ L > 0 /\ \A k \in Keys : P[L][k] = 0
    BY <2>1, TreeFacts
  <2>3. \A j \in 0..L : \A k \in Keys : P[j][k] # new
    <3> SUFFICES ASSUME NEW j \in 0..L, NEW k \in Keys PROVE P[j][k] # new
      OBVIOUS
    <3>1. j = L \/ j \in 0..(L - 1)
      BY <2>2
    <3> QED BY <1>3, <1>4, <2>1, <2>2, <3>1 DEF InUse
  <2> QED BY <2>1, <2>2, <2>3
<1>11. m[0] = top /\ \A p \in Pages0 : p # 0 => m[p] = Mem[p]
  <2>1. ParentPage = 0 /\ ParentIdx = 1
    BY <1>2 DEF ParentPage, ParentIdx
  <2>2. \A p \in Pages0 :
          m[p] = IF p = 0 THEN internalWith(Mem[p], 1, split) ELSE Mem[p]
    <3>1. todo = <<>> /\ Len(todo) # 2 /\ pc # "writeroot" /\ pc # "setroot"
      BY <1>1, <1>2
    <3> QED BY <1>2, <1>9, <2>1, <3>1 DEF NextMem
  <2>3. Mem[0] = Header0(root)
    <3>1. pc # "closed" /\ op.kind # "open"
      BY <1>1
    <3> QED BY <1>0, <3>1, HeaderNow
  <2>4. internalWith(Mem[0], 1, split) = top
    BY <1>0, <2>3, HeaderWith
  <2> QED BY <1>4, <2>2, <2>4
<1>12. \A p \in Pages0 :
         m2[p] = IF p = 0 THEN Header0(new) ELSE IF p = new THEN top ELSE Mem'[p]
  <2>1. todo' # <<>> /\ Len(todo') # 2
    BY <1>4
  <2> QED BY <1>1, <1>4, <1>9, <2>1 DEF NextMem
<1>13. \A j \in 0..(L - 1) : \A k \in Keys : m2[P[j][k]] = m[P[j][k]]
  <2> SUFFICES ASSUME NEW j \in 0..(L - 1), NEW k \in Keys PROVE m2[P[j][k]] = m[P[j][k]]
    OBVIOUS
  <2>1. PICK p \in owned : p = P[j][k] /\ p # new
    BY <1>10 DEF InUse
  <2>2. p \in Pages0 /\ p # 0
    BY <1>3, LimitAssumption DEF AnyPage, Pages0
  <2> QED BY <1>3, <1>11, <1>12, <2>1, <2>2 DEF Kept
<1>14. PICK P2 : /\ Tree(m2, P2, L + 1)
                 /\ \A j \in 0..(L - 1) : \A k \in Keys : P2[j][k] = P[j][k]
                 /\ \A k \in Keys : P2[L][k] = new
  <2>1. m2[0] = Header0(new) /\ m2[new] = m[0]
    BY <1>4, <1>11, <1>12
  <2> QED BY <1>3, <1>10, <1>13, <2>1, RaisedTree
<1> PICK M : M = L + 1
  OBVIOUS
<1>15. /\ M - 1 = L /\ 0 \in 0..(L - 1) /\ M > 0 /\ Tree(m2, P2, M)
       /\ \A j \in 0..L : j = L \/ j \in 0..(L - 1)
  <2>1. M - 1 = L /\ 0 \in 0..(L - 1) /\ M > 0
        /\ \A j \in 0..L : j = L \/ j \in 0..(L - 1)
    BY <1>10
  <2>2. Tree(m2, P2, M)
    BY <1>14
  <2> QED BY <2>1, <2>2
<1>16. NextTree(P2, M)'
  <2>1. InUse(owned', P2, M)
    <3>1. \A j \in 0..L : \A k \in Keys : P2[j][k] \in owned'
      <4> SUFFICES ASSUME NEW j \in 0..L, NEW k \in Keys PROVE P2[j][k] \in owned'
        OBVIOUS
      <4>1. CASE j = L
        BY <1>3, <1>14, <4>1
      <4>2. CASE j \in 0..(L - 1)
        BY <1>3, <1>10, <1>14, <4>2 DEF InUse
      <4> QED BY <1>15, <4>1, <4>2
    <3> QED BY <1>15, <3>1 DEF InUse
  <2>2. \A k \in Keys : Finds(m2, P2, k) = Target(k)'
    BY <1>6, <1>10, <1>13, <1>14, <1>15 DEF Finds
  <2> QED BY <1>9, <1>15, <2>1, <2>2 DEF NextTree
<1>17. OnPath(P2, M)'
  <2>1. DOMAIN stack' = {} /\ Len(stack') = 0 /\ pc' = "writeroot" /\ 0 < M
    BY <1>1, <1>2, <1>15
  <2>2. \A k \in Keys : P2[M - 1][k] = cur'
    BY <1>1, <1>14, <1>15
  <2> QED BY <2>1, <2>2 DEF OnPath
<1>18. NextRaised
  <2>1. Raised(m2, m, P, L, P2, new)
    BY <1>10, <1>13, <1>14 DEF Raised
  <2>2. owned' = owned \cup {cur'} /\ cur' = new
    BY <1>1, <1>3
  <2> QED BY <1>9, <2>1, <2>2 DEF NextRaised
<1> QED BY <1>1, <1>5, <1>7, <1>16, <1>17, <1>18, WorksOn

(* The header names the new root: the tree is as it was to become.         *)
LEMMA RootSwitch ==
  ASSUME TreeInv, Working, pc = "setroot", op.kind # "open", NEW P, NEW L, NextTree(P, L),
         SetRootPage(cur) \/ SetRootPageFails(cur)
  PROVE  Mem' = NextMem /\ owned' = owned
<1>1. PagesInv /\ cur \in owned
  BY InvFacts DEF TreeInv, LocalsOver
<1>2. /\ NodesUnchanged /\ owned' = owned /\ header'.RootPageID = cur
  BY <1>1, SetRootEffect
<1>3. todo = <<>> /\ split = NoSplit
  BY DEF Working, WorkOK
<1>4. \A p \in Pages0 : NextMem[p] = IF p = 0 THEN Header0(cur) ELSE Mem[p]
  <2>1. todo = <<>> /\ Len(todo) # 2
    BY <1>3
  <2> QED BY <1>3, <2>1 DEF NextMem
<1>5. \A p \in Pages0 : Mem'[p] = IF p = 0 THEN Header0(cur) ELSE Mem[p]
  BY <1>2 DEF Mem, NodesUnchanged, Pages0
<1>6. \A p \in Pages0 : Mem'[p] = NextMem[p]
  BY <1>4, <1>5
<1> QED BY <1>2, <1>6 DEF Mem, NextMem

LEMMA SetRootMap ==
  ASSUME TreeInv, Working, SetRoot, op.kind # "open"
  PROVE  Working' /\ NextSame
<1>1. /\ pc = "setroot" /\ pc' = "flush" /\ SetRootPage(cur)
      /\ UNCHANGED <<op, cur, stack, todo, split, before>>
  BY DEF SetRoot
<1>2. todo = <<>> /\ split = NoSplit /\ stack = <<>> /\ op.kind \in {"put", "delete"}
  BY <1>1 DEF Working, WorkOK, Later
<1>3. PICK P, L : NextTree(P, L) /\ OnPath(P, L)
  <2>1. Keyed
    BY <1>2 DEF Keyed
  <2> QED BY <1>1, <2>1, Ahead
<1>4. Mem' = NextMem /\ owned' = owned
  BY <1>1, <1>3, RootSwitch
<1>5. NextMem' = Mem'
  BY <1>1, <1>2, NoWorkNext DEF AllWritten, NextIsMem
<1>6. Aims /\ (pc \in Later <=> pc' \in Later)
  BY <1>1 DEF Aims, Later
<1>7. /\ \A k \in Keys : Allowed(k)' = Allowed(k)
      /\ \A k \in Keys : Target(k)' = Target(k)
  BY <1>6, SameAim
<1>8. NextTree(P, L)'
  BY <1>3, <1>4, <1>5, <1>7, StillNext
<1>9. SafeTree(Mem, P, L)'
  <2>1. /\ Tree(Mem', P, L) /\ InUse(owned', P, L)
        /\ \A k \in Keys : Finds(Mem', P, k) = Target(k)
    BY <1>3, <1>4 DEF NextTree
  <2>2. \A k \in Keys : Finds(Mem', P, k) \in Allowed(k)'
    BY <1>7, <2>1, TargetAllowed
  <2>3. Unlinked(P, L)'
    BY <1>1, <1>2 DEF Unlinked
  <2> QED BY <2>1, <2>2, <2>3 DEF SafeTree
<1>10. OnPath(P, L)'
  <2>1. DOMAIN stack' = {} /\ Len(stack') = Len(stack)
    BY <1>1, <1>2
  <2> QED BY <1>1, <1>3, <2>1 DEF OnPath
<1>11. WorkOK'
  BY <1>1, <1>2 DEF WorkOK, Later
<1> QED BY <1>1, <1>4, <1>5, <1>8, <1>9, <1>10, <1>11, WorksOn DEF NextSame

-----------------------------------------------------------------------------
(* The steps that end an operation.                                        *)

(* No key has a value it never had.                                        *)
Harmless == \A k \in Keys : Lookup(k)' \in Allowed(k)

(* The operation has done exactly what it says.                            *)
Exact ==
  /\ \A k \in Keys :
       Lookup(k)' = IF k # op.key \/ op.kind = "get" THEN Held(k)
                    ELSE IF op.kind = "put" THEN op.value ELSE None
  /\ op.kind = "get" =>
       ret'.out = IF Held(op.key) = None THEN "notfound" ELSE Held(op.key)

LEMMA ReadEndMap ==
  ASSUME TreeInv, TreeInv', Working, pc \in {"visit", "scan"}, ReadPage(cur),
         NEW out, Finish(out)
  PROVE  Working' /\ Harmless
<1>1. PagesInv /\ cur \in owned
  BY NodeRead, InvFacts
<1>2. Kept
  BY <1>1, ReadEffect, NodesKept
<1> QED BY <1>2, EndSafely DEF Harmless

(* What Get returns, and that Delete leaves the key alone where there is none. *)
LEMMA ReadExact ==
  ASSUME TreeInv, TreeInv', Working, SearchLeaf \/ DeleteMissing
  PROVE  Exact
<1>0. PICK n, x : n = NodeAt(cur) /\ x = op.key
  OBVIOUS
<1>1. /\ pc = "visit" /\ ReadPage(cur) /\ IsNode(cur) /\ IsLeaf(n) /\ op.kind \in {"get", "delete"}
      /\ \E out : Finish(out)
  BY <1>0 DEF SearchLeaf, DeleteMissing, AtLeaf, Return
<1>2. /\ PagesInv /\ cur \in owned /\ NodeOver(n, owned) /\ x \in Keys
      /\ owned \subseteq AnyPage
  <2>1. cur \in owned /\ NodeOver(n, owned)
    BY <1>0, <1>1, NodeRead
  <2> QED BY <1>0, <1>1, <2>1, InvFacts DEF OpOK, AnyPage
<1>3. PagesUnchanged /\ Mem' = Mem /\ owned' = owned
  BY <1>1, <1>2, ReadEffect, NodesKept DEF PagesUnchanged
<1>4. todo = <<>> /\ split = NoSplit
  BY <1>1 DEF Working, WorkOK
<1>5. NextMem = Mem
  BY <1>1, <1>4, NoWork DEF AllWritten, NextIsMem
<1>6. PICK P, L : NextTree(P, L) /\ OnPath(P, L)
  <2>1. Keyed
    BY <1>1 DEF Keyed
  <2> QED BY <1>1, <2>1, Ahead
<1>7. \A k \in Keys : Lookup(k)' = Target(k)
  BY <1>1, <1>3, <1>5, <1>6, EndDone
<1>8. \A k \in Keys : Target(k) = Held(k)
  BY <1>1 DEF Target, Later
<1>9. cur = P[0][x]
  <2>1. PICK mem : mem = Mem
    OBVIOUS
  <2>2. Tree(mem, P, L) /\ L \in Nat
    BY <1>5, <1>6, <2>1, TreeFacts DEF NextTree
  <2>3. PICK l : l = Level(L) /\ l \in 0..L /\ cur = P[l][x]
    <3>1. PICK d \in Nat : d = Len(stack) /\ d < L
      BY <1>6, InvFacts DEF OnPath
    <3>2. L - 1 - d \in 0..L
      BY <2>2, <3>1
    <3> QED BY <1>0, <1>1, <1>6, <3>1, <3>2 DEF OnPath, Level
  <2>4. PageHas(mem[P[l][x]], P, l, P[l][x])
    BY <1>2, <2>2, <2>3, PageFacts
  <2>5. mem[cur] = n
    <3>1. cur \in Pages0 /\ cur # 0
      BY <1>2, LimitAssumption DEF Pages0, AnyPage
    <3> QED BY <1>0, <2>1, <3>1 DEF Mem
  <2> QED BY <1>1, <2>3, <2>4, <2>5 DEF PageHas
<1>10. Held(x) = ValueIn(n, x)
  <2>1. Mem[cur] = n
    <3>1. cur \in Pages0 /\ cur # 0
      BY <1>2, LimitAssumption DEF Pages0, AnyPage
    <3> QED BY <1>0, <3>1 DEF Mem
  <2>2. Finds(Mem, P, x) = Target(x)
    BY <1>2, <1>5, <1>6 DEF NextTree
  <2> QED BY <1>2, <1>8, <1>9, <2>1, <2>2 DEF Finds
<1>11. /\ HasKey(n, x) => ValueIn(n, x) # None
       /\ ~HasKey(n, x) => ValueIn(n, x) = None
  BY <1>1, <1>2, FoundValue
<1>12. CASE SearchLeaf
  <2>1. op.kind = "get" /\ ret'.out = IF HasKey(n, x) THEN n.values[Min(matches(n, x))] ELSE "notfound"
    BY <1>0, <1>12 DEF SearchLeaf, AtLeaf, Return, Finish
  <2>2. HasKey(n, x) => n.values[Min(matches(n, x))] = ValueIn(n, x)
    BY DEF ValueIn
  <2>3. ret'.out = IF Held(x) = None THEN "notfound" ELSE Held(x)
    BY <1>10, <1>11, <2>1, <2>2
  <2> QED BY <1>0, <1>7, <1>8, <2>1, <2>3 DEF Exact
<1>13. CASE DeleteMissing
  <2>1. op.kind = "delete" /\ ~HasKey(n, x)
    BY <1>0, <1>13 DEF DeleteMissing, AtLeaf
  <2>2. Held(x) = None
    BY <1>10, <1>11, <2>1
  <2> QED BY <1>0, <1>7, <1>8, <2>1, <2>2 DEF Exact
<1> QED BY <1>1, <1>12, <1>13

LEMMA FlushMap ==
  ASSUME TreeInv, TreeInv', Working, FlushTree
  PROVE  Working' /\ Harmless /\ Exact
<1>1. pc = "flush" /\ Flush /\ Finish("ok") /\ PagesInv
  BY InvFacts DEF FlushTree, Return
<1>2. Mem' = Mem /\ owned' = owned
  BY <1>1, FlushEffect, NodesKept DEF PagesUnchanged
<1>3. todo = <<>> /\ split = NoSplit /\ op.kind \in {"put", "delete"}
  BY <1>1 DEF Working, WorkOK, Later
<1>4. NextMem = Mem
  BY <1>1, <1>3, NoWork DEF AllWritten, NextIsMem
<1>5. PICK P, L : NextTree(P, L)
  BY <1>1, Ahead
<1>6. Working' /\ \A k \in Keys : Lookup(k)' = Target(k)
  BY <1>1, <1>2, <1>4, <1>5, EndDone
<1>7. \A k \in Keys : Target(k) = IF k # op.key THEN Held(k)
                                  ELSE IF op.kind = "put" THEN op.value ELSE None
  BY <1>1, <1>3 DEF Target, Later
<1>8. Exact
  BY <1>3, <1>6, <1>7 DEF Exact
<1> QED BY <1>6, <1>8, TargetAllowed DEF Harmless

(* An operation that fails.                                                *)
LEMMA FailureMap ==
  ASSUME TreeInv, TreeInv', Working, op.kind # "open", PagerCallFails, NEW out, Finish(out)
  PROVE  Working' /\ Harmless
<1>0. PagesInv
  BY InvFacts
<1>1. CASE UNCHANGED pagerVars
  BY <1>0, <1>1, SamePages, NodesKept, EndSafely DEF Harmless
<1>2. CASE AllocatePageFails
  <2>1. Kept
    <3>1. /\ owned' = owned /\ header'.RootPageID = header.RootPageID
          /\ \A p \in owned : NodeAt(p)' = NodeAt(p)
      BY <1>0, <1>2, AllocateFailsEffect
    <3> QED BY <3>1, PagesKept
  <2> QED BY <2>1, EndSafely DEF Harmless
<1>3. CASE FlushFails
  BY <1>0, <1>3, FlushEffect, NodesKept, EndSafely DEF Harmless
<1>4. CASE pc = "setroot" /\ SetRootPageFails(cur)
  <2>1. PICK P, L : NextTree(P, L)
    BY <1>4, Ahead
  <2>2. Mem' = NextMem /\ owned' = owned
    BY <1>4, <2>1, RootSwitch
  <2>3. Working' /\ \A k \in Keys : Lookup(k)' = Target(k)
    BY <2>1, <2>2, EndDone
  <2> QED BY <2>3, TargetAllowed DEF Harmless
<1> QED BY <1>1, <1>2, <1>3, <1>4 DEF PagerCallFails

LEMMA ErrorMap ==
  ASSUME TreeInv, TreeInv', Working, op.kind # "open", PagerError \/ FileFull \/ WriteOverflow
  PROVE  Working' /\ Harmless /\ ret'.out = "error"
<1>1. Finish("error") /\ ret'.out = "error"
  BY DEF PagerError, FileFull, WriteOverflow, Return, Finish
<1>2. CASE PagerError
  BY <1>1, <1>2, FailureMap DEF PagerError
<1>3. CASE FileFull
  BY <1>1, <1>3, FailureMap DEF FileFull, PagerCallFails
<1>4. CASE WriteOverflow
  <2>1. PagesInv /\ UNCHANGED pagerVars
    BY <1>4, InvFacts DEF WriteOverflow
  <2> QED BY <1>1, <2>1, SamePages, NodesKept, EndSafely DEF Harmless
<1> QED BY <1>1, <1>2, <1>3, <1>4

-----------------------------------------------------------------------------
(* Every step.                                                             *)

LEMMA LeafStepMap ==
  ASSUME TreeInv, Working, InsertLeaf \/ DeleteLeaf
  PROVE  Working' /\ NextEdited
<1>0. PICK n : n = NodeAt(cur)
  OBVIOUS
<1>1. /\ pc = "visit" /\ ReadPage(cur) /\ IsNode(cur) /\ IsLeaf(n)
      /\ UNCHANGED <<op, cur, stack, split, before>>
  BY <1>0 DEF InsertLeaf, DeleteLeaf, AtLeaf
<1>2. NodeOver(n, owned) /\ owned \subseteq 1..PageLimit /\ OpOK /\ cur \in owned
  BY <1>0, <1>1, NodeRead, InvFacts
<1>3. Ascending(n.keys) \/ op.kind \notin {"put", "delete"}
  <2> SUFFICES ASSUME op.kind \in {"put", "delete"} PROVE Ascending(n.keys)
    OBVIOUS
  <2>1. todo = <<>> /\ split = NoSplit /\ Keyed /\ op.key \in Keys
    BY <1>1, <1>2 DEF Working, WorkOK, Keyed, OpOK
  <2>2. NextMem = Mem
    BY <1>1, <2>1, NoWork DEF AllWritten, NextIsMem
  <2>3. PICK P, L : NextTree(P, L) /\ OnPath(P, L)
    BY <1>1, <2>1, Ahead
  <2>4. Tree(Mem, P, L) /\ L \in Nat
    BY <2>2, <2>3, TreeFacts DEF NextTree
  <2>5. PICK l : l = Level(L) /\ l \in 0..L /\ cur = P[l][op.key]
    <3>1. PICK d \in Nat : d = Len(stack) /\ d < L
      BY <2>3, InvFacts DEF OnPath
    <3>2. L - 1 - d \in 0..L
      BY <2>4, <3>1
    <3> QED BY <1>1, <2>3, <3>1, <3>2 DEF OnPath, Level
  <2>6. PageHas(Mem[cur], P, l, cur)
    BY <2>1, <2>4, <2>5, PageFacts
  <2>7. Mem[cur] = n
    <3>1. PICK p \in 1..PageLimit : p = cur
      BY <1>2
    <3>2. cur \in Pages0 /\ cur # 0
      BY <3>1, LimitAssumption DEF Pages0
    <3> QED BY <1>0, <3>2 DEF Mem
  <2> QED BY <2>6, <2>7 DEF PageHas
<1>4. CASE InsertLeaf
  <2>1. PICK m, k, v : m = leafWith(n, k, v) /\ k = op.key /\ v = op.value
    OBVIOUS
  <2>2. /\ op.kind = "put" /\ todo' = <<[page |-> cur, node |-> m]>>
        /\ pc' = IF ~HasKey(n, k) /\ leafNodeSize(m) > cellAreaSize THEN "alloc" ELSE "write"
    BY <1>0, <1>4, <2>1 DEF InsertLeaf, AtLeaf
  <2>3. k \in Keys /\ v \in Values
    BY <1>2, <2>1, <2>2 DEF OpOK
  <2>4. NodeOver(m, owned) /\ IsLeaf(m)
    BY <1>1, <1>2, <2>1, <2>3, LeafWithOver
  <2>5. /\ Ascending(m.keys)
        /\ \A a \in DOMAIN m.keys :
             m.keys[a] = k \/ \E b \in DOMAIN n.keys : m.keys[a] = n.keys[b]
        /\ \A x : ValueIn(m, x) = IF x = k THEN v ELSE ValueIn(n, x)
    <3>1. Ascending(n.keys)
      BY <1>3, <2>2
    <3>2. /\ Ascending(leafWith(n, k, v).keys)
          /\ \A a \in DOMAIN leafWith(n, k, v).keys :
               \/ leafWith(n, k, v).keys[a] = k
               \/ \E b \in DOMAIN n.keys : leafWith(n, k, v).keys[a] = n.keys[b]
          /\ \A x : ValueIn(leafWith(n, k, v), x) = IF x = k THEN v ELSE ValueIn(n, x)
      <4>1. PICK S : S = owned
        OBVIOUS
      <4>2. /\ S \subseteq 1..PageLimit /\ NodeOver(n, S) /\ IsLeaf(n) /\ Ascending(n.keys)
            /\ k \in Keys /\ v \in Values
        BY <1>1, <1>2, <2>3, <3>1, <4>1
      <4> QED BY <4>2, LeafWithValues, ZenonT(60)
    <3> QED BY <2>1, <3>2
  <2>6. pc' = "write" \/ (pc' = "alloc" /\ nodeSize(m) > cellAreaSize)
    BY <2>2, <2>4 DEF nodeSize
  <2>7. m.rightPtr = n.rightPtr
    BY <2>1 DEF leafWith, LeafNode
  <2> QED BY <1>0, <1>1, <2>1, <2>2, <2>4, <2>5, <2>6, <2>7, LeafEditMap
<1>5. CASE DeleteLeaf
  <2>1. PICK m, k : m = leafWithout(n, k) /\ k = op.key
    OBVIOUS
  <2>2. /\ op.kind = "delete" /\ todo' = <<[page |-> cur, node |-> m]>>
        /\ pc' = "write" /\ HasKey(n, k)
    BY <1>0, <1>5, <2>1 DEF DeleteLeaf, AtLeaf
  <2>3. NodeOver(m, owned) /\ IsLeaf(m)
    BY <1>1, <1>2, <2>1, <2>2, LeafWithoutOver
  <2>4. /\ Ascending(m.keys)
        /\ \A a \in DOMAIN m.keys : \E b \in DOMAIN n.keys : m.keys[a] = n.keys[b]
        /\ \A x : ValueIn(m, x) = IF x = k THEN None ELSE ValueIn(n, x)
    <3>1. Ascending(n.keys)
      BY <1>3, <2>2
    <3>2. /\ Ascending(leafWithout(n, k).keys)
          /\ \A a \in DOMAIN leafWithout(n, k).keys :
               \E b \in DOMAIN n.keys : leafWithout(n, k).keys[a] = n.keys[b]
          /\ \A x : ValueIn(leafWithout(n, k), x) = IF x = k THEN None ELSE ValueIn(n, x)
      BY <1>1, <1>2, <2>2, <3>1, LeafWithoutValues
    <3> QED BY <2>1, <3>2
  <2>5. m.rightPtr = n.rightPtr
    BY <2>1 DEF leafWithout, LeafNode
  <2> QED BY <1>0, <1>1, <2>1, <2>2, <2>3, <2>4, <2>5, LeafEditMap
<1> QED BY <1>4, <1>5

(* What a step of an operation on the tree promises.                       *)
StepKeeps ==
  /\ Working' /\ op'.kind # "open" /\ pc' # "closed"
  /\ Completes =>
       Harmless /\ (op.kind \in {"put", "get", "delete"} /\ ret'.out # "error" => Exact)

LEMMA QuietStep ==
  ASSUME Working', op.kind # "open", op' = op, pc' # "idle", pc' # "closed"
  PROVE  StepKeeps
BY DEF StepKeeps, Completes

LEMMA EndStep ==
  ASSUME Working', Harmless, NEW out, Finish(out),
         op.kind \in {"put", "get", "delete"} /\ ret'.out # "error" => Exact
  PROVE  StepKeeps
BY DEF StepKeeps, Finish, NoOp

LEMMA StepMap ==
  ASSUME NodeType \subseteq Body, TreeInv, TreeInv', Working, op.kind # "open", Step
  PROVE  StepKeeps
<1>1. CASE Descend
  <2>1. op' = op /\ pc' # "idle" /\ pc' # "closed"
    BY <1>1 DEF Descend
  <2> QED BY <1>1, <2>1, DescendMap, QuietStep
<1>2. CASE InsertLeaf
  <2>1. op' = op /\ pc' # "idle" /\ pc' # "closed"
    BY <1>2 DEF InsertLeaf
  <2> QED BY <1>2, <2>1, LeafStepMap, QuietStep
<1>3. CASE SearchLeaf \/ DeleteMissing
  <2>1. pc = "visit" /\ ReadPage(cur) /\ \E out : Finish(out)
    BY <1>3 DEF SearchLeaf, DeleteMissing, AtLeaf, Return
  <2>2. Working' /\ Harmless
    BY <2>1, ReadEndMap
  <2>3. Exact
    BY <1>3, ReadExact
  <2> QED BY <2>1, <2>2, <2>3, EndStep
<1>4. CASE DeleteLeaf
  <2>1. op' = op /\ pc' # "idle" /\ pc' # "closed"
    BY <1>4 DEF DeleteLeaf
  <2> QED BY <1>4, <2>1, LeafStepMap, QuietStep
<1>5. CASE DepthLeaf
  <2>1. pc = "visit" /\ ReadPage(cur) /\ op.kind = "depth" /\ \E out : Finish(out)
    BY <1>5 DEF DepthLeaf, AtLeaf, Return
  <2>2. Working' /\ Harmless
    BY <2>1, ReadEndMap
  <2> QED BY <2>1, <2>2, EndStep
<1>6. CASE LeftmostLeaf
  <2>1. op' = op /\ pc' # "idle" /\ pc' # "closed"
    BY <1>6 DEF LeftmostLeaf
  <2> QED BY <1>6, <2>1, QuietMap, QuietStep
<1>7. CASE ScanLeaf
  <2>1. pc = "scan" /\ ReadPage(cur) /\ op.kind = "keys"
    BY <1>7 DEF ScanLeaf, Working, WorkOK
  <2>2. CASE \E out : Finish(out)
    <3>1. Working' /\ Harmless
      BY <2>1, <2>2, ReadEndMap
    <3> QED BY <2>1, <2>2, <3>1, EndStep
  <2>3. CASE pc' = "scan" /\ op' = op
    BY <1>7, <2>3, QuietMap, QuietStep
  <2>4. (\E out : Finish(out)) \/ (pc' = "scan" /\ op' = op)
    BY <1>7 DEF ScanLeaf, Return
  <2> QED BY <2>2, <2>3, <2>4
<1>8. CASE BadNode
  <2>1. pc \in {"visit", "scan"} /\ ReadPage(cur) /\ Finish("error") /\ ret'.out = "error"
    BY <1>8 DEF BadNode, Return, Finish
  <2>2. Working' /\ Harmless
    BY <2>1, ReadEndMap
  <2> QED BY <2>1, <2>2, EndStep
<1>9. CASE AllocSplit
  <2>1. op' = op /\ pc' # "idle" /\ pc' # "closed"
    BY <1>9 DEF AllocSplit
  <2> QED BY <1>9, <2>1, AllocSplitMap, QuietStep
<1>10. CASE WriteNode
  <2>1. op' = op /\ pc' # "idle" /\ pc' # "closed"
    BY <1>10 DEF WriteNode
  <2> QED BY <1>10, <2>1, WriteNodeMap, QuietStep
<1>11. CASE PagerError \/ FileFull \/ WriteOverflow
  <2>1. Finish("error")
    BY <1>11 DEF PagerError, FileFull, WriteOverflow, Return
  <2>2. Working' /\ Harmless /\ ret'.out = "error"
    BY <1>11, ErrorMap
  <2> QED BY <2>1, <2>2, EndStep
<1>12. CASE UnwindDone \/ UnwindRoot
  <2>1. op' = op /\ pc' # "idle" /\ pc' # "closed"
    BY <1>12 DEF UnwindDone, UnwindRoot
  <2> QED BY <1>12, <2>1, UnwindQuietMap, QuietStep
<1>13. CASE UnwindInternal
  <2>1. op' = op /\ pc' # "idle" /\ pc' # "closed"
    BY <1>13 DEF UnwindInternal
  <2> QED BY <1>13, <2>1, UnwindInternalMap, QuietStep
<1>14. CASE AllocRoot
  <2>1. op' = op /\ pc' # "idle" /\ pc' # "closed"
    BY <1>14 DEF AllocRoot
  <2> QED BY <1>14, <2>1, AllocRootMap, QuietStep
<1>15. CASE SetRoot
  <2>1. op' = op /\ pc' # "idle" /\ pc' # "closed"
    BY <1>15 DEF SetRoot
  <2> QED BY <1>15, <2>1, SetRootMap, QuietStep
<1>16. CASE FlushTree
  <2>1. Finish("ok")
    BY <1>16 DEF FlushTree, Return
  <2> QED BY <1>16, <2>1, FlushMap, EndStep
<1> QED BY <1>1, <1>2, <1>3, <1>4, <1>5, <1>6, <1>7, <1>8, <1>9, <1>10, <1>11, <1>12, <1>13,
           <1>14, <1>15, <1>16 DEF Step

-----------------------------------------------------------------------------
(* The first root.                                                         *)

FirstRoot ==
  /\ pc = "writeroot" => todo[1].page = cur
  /\ pc = "setroot" => NodeAt(cur) = LeafNode(<<>>, <<>>, 0)

(* What a step of Open promises.                                           *)
OpenKeeps ==
  /\ pc' # "closed"
  /\ op'.kind # "open" => Working'
  /\ op'.kind = "open" => FirstRoot'
  /\ Completes => \A k \in Keys : Lookup(k)' = None

LEMMA OpenOnly ==
  ASSUME TreeInv, op.kind = "open", Step
  PROVE  AllocRoot \/ SetRoot \/ (WriteNode /\ pc = "writeroot")
<1>1. /\ pc \in {"newroot", "writeroot", "setroot"}
      /\ pc = "writeroot" => Len(todo) = 1 /\ todo[1].node = LeafNode(<<>>, <<>>, 0)
  BY DEF TreeInv, PlacesOK
<1>2. ~(Descend \/ InsertLeaf \/ SearchLeaf \/ DeleteLeaf \/ DeleteMissing)
  BY <1>1 DEF Descend, InsertLeaf, SearchLeaf, DeleteLeaf, DeleteMissing, AtLeaf
<1>3. ~(DepthLeaf \/ LeftmostLeaf \/ ScanLeaf \/ BadNode \/ AllocSplit)
  BY <1>1 DEF DepthLeaf, LeftmostLeaf, ScanLeaf, BadNode, AllocSplit, AtLeaf
<1>4. ~(UnwindDone \/ UnwindInternal \/ UnwindRoot \/ FlushTree \/ PagerError \/ FileFull)
  BY <1>1 DEF UnwindDone, UnwindInternal, UnwindRoot, FlushTree, PagerError, FileFull
<1>5. ~WriteOverflow
  <2> SUFFICES ASSUME WriteOverflow PROVE FALSE
    OBVIOUS
  <2>1. todo[1].node = LeafNode(<<>>, <<>>, 0) /\ nodeSize(todo[1].node) > cellAreaSize
    BY <1>1 DEF WriteOverflow
  <2>2. 0 > cellAreaSize /\ cellAreaSize \in Nat
    BY <2>1, EmptyLeafSize, TreeAssumption
  <2> QED BY <2>2
<1>6. WriteNode => pc = "writeroot"
  BY <1>1 DEF WriteNode
<1> QED BY <1>2, <1>3, <1>4, <1>5, <1>6 DEF Step

LEMMA OpenMap ==
  ASSUME NodeType \subseteq Body, TreeInv, TreeInv', op.kind = "open", FirstRoot, Step
  PROVE  OpenKeeps
<1>1. CASE AllocRoot
  <2>1. /\ pc' = "writeroot" /\ op' = op /\ cur' = NextPage
        /\ \E n : todo' = <<[page |-> NextPage, node |-> n]>>
    BY <1>1 DEF AllocRoot
  <2>2. todo'[1].page = cur'
    BY <2>1
  <2> QED BY <2>1, <2>2 DEF OpenKeeps, FirstRoot, Completes
<1>2. CASE WriteNode /\ pc = "writeroot"
  <2>1. PICK q, n : WriteFacts(q, n)
    BY <1>2, WriteNodeFacts
  <2>2. Len(todo) = 1 /\ todo[1].node = LeafNode(<<>>, <<>>, 0)
    BY <1>2 DEF TreeInv, PlacesOK
  <2>3. /\ pc' = "setroot" /\ op' = op /\ cur' = cur /\ q = cur /\ q \in Pages0 /\ q # 0
        /\ n = LeafNode(<<>>, <<>>, 0) /\ Mem'[q] = n
    BY <1>2, <2>1, <2>2 DEF WriteFacts, FirstRoot
  <2>4. NodeAt(q)' = Mem'[q]
    BY <2>3 DEF Mem
  <2>5. NodeAt(cur)' = LeafNode(<<>>, <<>>, 0)
    BY <2>3, <2>4
  <2> QED BY <2>3, <2>5 DEF OpenKeeps, FirstRoot, Completes
<1>3. CASE SetRoot
  <2>1. pc = "setroot" /\ SetRootPage(cur) /\ Finish("ok")
    BY <1>3 DEF SetRoot, Return
  <2>2. PagesInv /\ cur \in owned /\ owned \subseteq 1..PageLimit
    BY <2>1, InvFacts DEF TreeInv, LocalsOver
  <2>3. NodesUnchanged /\ owned' = owned /\ header'.RootPageID = cur
    BY <2>1, <2>2, SetRootEffect
  <2>4. PICK root \in AnyPage : root = cur
    BY <2>2 DEF AnyPage
  <2>5. root \in Pages0 /\ root # 0 /\ 0 \in Pages0 /\ root \in 0..PageLimit
    BY <2>4, LimitAssumption DEF AnyPage, Pages0
  <2>6. NodeAt(root)' = LeafNode(<<>>, <<>>, 0)
    BY <2>1, <2>3, <2>4, <2>5 DEF NodesUnchanged, FirstRoot
  <2>7. Mem'[0] = Header0(root) /\ Mem'[root] = LeafNode(<<>>, <<>>, 0)
    BY <2>3, <2>4, <2>5, <2>6 DEF Mem
  <2>8. PICK P : Tree(Mem', P, 1) /\ \A k \in Keys : P[0][k] = root
    BY <2>7, FirstTree
  <2>9. InUse(owned', P, 1)
    <3> SUFFICES ASSUME NEW j \in 0..(1 - 1), NEW k \in Keys PROVE P[j][k] \in owned
      BY <2>3 DEF InUse
    <3> QED BY <2>2, <2>4, <2>8
  <2>10. Working' /\ \A k \in Keys : Lookup(k)' = Finds(Mem', P, k)
    BY <2>1, <2>8, <2>9, EndOn
  <2>11. \A k : ValueIn(LeafNode(<<>>, <<>>, 0), k) = None
    BY DEF ValueIn, HasKey, matches, LeafNode
  <2>12. \A k \in Keys : Finds(Mem', P, k) = None
    BY <2>7, <2>8, <2>11 DEF Finds
  <2>13. pc' = "idle" /\ op' = NoOp /\ op'.kind = "none"
    BY <2>1 DEF Finish, NoOp
  <2> QED BY <2>10, <2>12, <2>13 DEF OpenKeeps
<1> QED BY <1>1, <1>2, <1>3, OpenOnly

-----------------------------------------------------------------------------
(* The calls of a client, and a step of someone else.                      *)

LEMMA SameWork ==
  ASSUME TreeInv, TreeInv', Working,
         UNCHANGED <<pagerVars, pc, op, cur, stack, todo, split, before>>
  PROVE  Working' /\ NextSame
<1>1. Mem' = Mem /\ owned' = owned
  <2>1. PagesUnchanged
    BY SamePages DEF TreeInv, PagesInv
  <2> QED BY <2>1, NodesKept DEF PagesUnchanged
<1>2. NextMem' = NextMem /\ LeftMem' = LeftMem
  BY <1>1 DEF NextMem, LeftMem, ParentPage, ParentIdx
<1>3. \A k \in Keys : Lookup(k)' = Lookup(k)
  <2>1. PICK P, L : SafeTree(Mem, P, L)
    BY DEF Working
  <2>2. Tree(Mem, P, L) /\ Tree(Mem', P, L)
    BY <1>1, <2>1 DEF SafeTree
  <2> QED BY <1>1, <2>2, LookupNow, LookupNext DEF LookupIsTree
<1>4. \A k \in Keys : Held(k)' = Held(k)
  BY <1>3 DEF Held
<1>5. \A k \in Keys : Target(k)' = Target(k) /\ Allowed(k)' = Allowed(k)
  BY <1>4 DEF Target, Allowed, Later
<1>6. \A P, L : Unlinked(P, L)' = Unlinked(P, L)
  BY DEF Unlinked
<1>7. \A P, L : SafeTree(Mem, P, L) => SafeTree(Mem, P, L)'
  BY <1>1, <1>5, <1>6 DEF SafeTree
<1>8. \A P, L : SafeTree(LeftMem, P, L) => SafeTree(LeftMem, P, L)'
  BY <1>1, <1>2, <1>5, <1>6 DEF SafeTree
<1>9. \A P, L : NextTree(P, L) => NextTree(P, L)'
  BY <1>1, <1>2, <1>5 DEF NextTree
<1>10. \A P, L : OnPath(P, L) => OnPath(P, L)'
  BY <1>1 DEF OnPath, FrameFits, Level
<1>11. WorkOK'
  BY DEF Working, WorkOK, Later
<1>12. /\ Hopeless' = Hopeless /\ Overflows' = Overflows /\ HopelessOK' = HopelessOK
       /\ Keyed' = Keyed
  BY DEF Hopeless, Overflows, HopelessOK, Keyed
<1>13. \E P, L : SafeTree(Mem, P, L)'
  BY <1>7 DEF Working
<1>14. pc' = "write" /\ Len(todo') = 2 => \E P, L : SafeTree(LeftMem, P, L)'
  BY <1>8 DEF Working
<1>15. ~Hopeless /\ ~Overflows => \E P, L : NextTree(P, L)' /\ (Keyed => OnPath(P, L)')
  BY <1>9, <1>10 DEF Working
<1> QED BY <1>1, <1>2, <1>11, <1>12, <1>13, <1>14, <1>15 DEF Working, NextSame

LEMMA ClientMap ==
  ASSUME TreeInv, TreeInv', Working, Client
  PROVE  Working' /\ op'.kind # "open" /\ pc' # "closed" /\ ~Completes
<1>1. ASSUME NEW kind, NEW k, NEW v, Call(kind, k, v),
             kind \in {"put", "get", "delete"} => k \in Keys,
             kind \in {"put", "get", "delete", "keys", "depth"}
      PROVE  Working' /\ op'.kind # "open" /\ pc' # "closed" /\ ~Completes
  <2>1. Working'
    BY <1>1, CallMap
  <2> QED BY <1>1, <2>1 DEF Call, Completes
<1>2. ASSUME NEW k, NEW v, PutRejected(k, v)
      PROVE  Working' /\ op'.kind # "open" /\ pc' # "closed" /\ ~Completes
  <2>1. pc = "idle" /\ UNCHANGED <<pagerVars, pc, op, cur, stack, todo, split, before>>
    BY <1>2 DEF PutRejected
  <2>2. Working' /\ op.kind = "none"
    BY <2>1, SameWork DEF Working, WorkOK
  <2> QED BY <2>1, <2>2 DEF Completes
<1>3. CASE \E k \in Keys : \E v \in Values : Put(k, v) \/ PutRejected(k, v)
  <2>1. PICK k \in Keys, v \in Values : Put(k, v) \/ PutRejected(k, v)
    BY <1>3
  <2>2. CASE Call("put", k, v)
    BY <1>1, <2>2
  <2>3. CASE PutRejected(k, v)
    BY <1>2, <2>3
  <2> QED BY <2>1, <2>2, <2>3 DEF Put
<1>4. CASE \E k \in Keys : Get(k) \/ Delete(k)
  <2>1. PICK k \in Keys : Get(k) \/ Delete(k)
    BY <1>4
  <2>2. CASE Call("get", k, None)
    BY <1>1, <2>2
  <2>3. CASE Call("delete", k, None)
    BY <1>1, <2>3
  <2> QED BY <2>1, <2>2, <2>3 DEF Get, Delete
<1>5. CASE KeysScan \/ Depth
  <2>1. CASE Call("keys", None, None)
    BY <1>1, <2>1
  <2>2. CASE Call("depth", None, None)
    BY <1>1, <2>2
  <2> QED BY <1>5, <2>1, <2>2 DEF KeysScan, Depth
<1> QED BY <1>3, <1>4, <1>5 DEF Client

-----------------------------------------------------------------------------
(* Every behaviour until the process is killed.                            *)

MapNext == TreeNext \/ Crash \/ ReopenTree

LEMMA FaultsCounted ==
  ASSUME [TreeNext]_vars
  PROVE  faults' = faults \/ (faults < MaxFaults /\ faults' = faults + 1)
<1>1. CASE Step
  <2>1. CASE Descend \/ InsertLeaf \/ SearchLeaf \/ DeleteLeaf \/ DeleteMissing \/ DepthLeaf
    BY <2>1 DEF Descend, InsertLeaf, SearchLeaf, DeleteLeaf, DeleteMissing, DepthLeaf, Return
  <2>2. CASE LeftmostLeaf \/ ScanLeaf \/ BadNode \/ AllocSplit \/ WriteNode \/ WriteOverflow
    BY <2>2 DEF LeftmostLeaf, ScanLeaf, BadNode, AllocSplit, WriteNode, WriteOverflow, Return
  <2>3. CASE UnwindDone \/ UnwindInternal \/ UnwindRoot \/ AllocRoot \/ SetRoot \/ FlushTree
    BY <2>3 DEF UnwindDone, UnwindInternal, UnwindRoot, AllocRoot, SetRoot, FlushTree, Return
  <2>4. CASE PagerError \/ FileFull
    BY <2>4 DEF PagerError, FileFull, Return
  <2> QED BY <1>1, <2>1, <2>2, <2>3, <2>4 DEF Step
<1>2. CASE Client
  BY <1>2 DEF Client, Put, PutRejected, Get, Delete, KeysScan, Depth, Call
<1>3. CASE UNCHANGED vars
  BY <1>3 DEF vars, treeVars
<1> QED BY <1>1, <1>2, <1>3 DEF TreeNext

LEMMA StaysAlive ==
  ASSUME TreeInv, NeverKilled, [TreeNext]_vars
  PROVE  NeverKilled'
BY FaultsCounted, TreeAssumption DEF TreeInv, CountsOK, NeverKilled

LEMMA FaultsKept ==
  ASSUME [MapNext]_vars
  PROVE  faults' = faults \/ faults < MaxFaults
<1>1. CASE Crash \/ ReopenTree
  BY <1>1 DEF Crash, ReopenTree
<1> QED BY <1>1, FaultsCounted DEF MapNext

LEMMA KilledForGood ==
  ASSUME TreeInv, [MapNext]_vars, NeverKilled'
  PROVE  NeverKilled
BY FaultsKept, TreeAssumption DEF TreeInv, CountsOK, NeverKilled

(* What a step promises while the process is not killed.                   *)
MapKeeps ==
  /\ pc' # "closed"
  /\ op'.kind # "open" => Working'
  /\ op'.kind = "open" => FirstRoot'
  /\ Completes /\ op.kind = "open" => \A k \in Keys : Lookup(k)' = None
  /\ Completes /\ op.kind # "open" => Harmless
  /\ Completes /\ op.kind \in {"put", "get", "delete"} /\ ret'.out # "error" => Exact

LEMMA MapStep ==
  ASSUME NodeType \subseteq Body, TreeInv, TreeInv', MapInv, NeverKilled, [MapNext]_vars
  PROVE  Crash \/ MapKeeps
<1>1. /\ pc # "closed"
      /\ op.kind # "open" => Working
      /\ op.kind = "open" => FirstRoot
  BY DEF MapInv, FirstRoot
<1>2. CASE Step /\ op.kind # "open"
  BY <1>1, <1>2, StepMap DEF StepKeeps, MapKeeps
<1>3. CASE Step /\ op.kind = "open"
  BY <1>1, <1>3, OpenMap DEF OpenKeeps, MapKeeps
<1>4. CASE Client
  <2>1. pc = "idle"
    BY <1>4 DEF Client, Put, PutRejected, Get, Delete, KeysScan, Depth, Call
  <2>2. op.kind # "open"
    BY <2>1 DEF TreeInv, PlacesOK
  <2> QED BY <1>1, <1>4, <2>2, ClientMap DEF MapKeeps
<1>5. CASE UNCHANGED vars
  <2>1. UNCHANGED <<pagerVars, pc, op, cur, stack, todo, split, before>>
    BY <1>5 DEF vars, treeVars
  <2>2. ~Completes
    BY <2>1 DEF Completes
  <2>3. CASE op.kind # "open"
    BY <1>1, <2>1, <2>2, <2>3, SameWork DEF MapKeeps
  <2>4. CASE op.kind = "open"
    <3>1. NodeAt(cur)' = NodeAt(cur)
      BY <2>1 DEF pagerVars, NodeAt, View
    <3> QED BY <1>1, <2>1, <2>2, <2>4, <3>1 DEF MapKeeps, FirstRoot
  <2> QED BY <2>3, <2>4
<1>6. ~ReopenTree
  BY <1>1 DEF ReopenTree
<1> QED BY <1>2, <1>3, <1>4, <1>5, <1>6 DEF MapNext, TreeNext

LEMMA MapInvStep ==
  ASSUME NodeType \subseteq Body, TreeInv, TreeInv', MapInv, [MapNext]_vars
  PROVE  MapInv'
<1> SUFFICES ASSUME NeverKilled' PROVE MapKeeps
  BY DEF MapInv, MapKeeps, FirstRoot
<1>1. NeverKilled
  BY KilledForGood
<1>2. ~Crash
  BY TreeAssumption DEF Crash, NeverKilled
<1> QED BY <1>1, <1>2, MapStep

LEMMA MapInvInit == TreeInit => MapInv
BY DEF TreeInit, MapInv, OpenOp

THEOREM MapInvariant ==
  ASSUME NodeType \subseteq Body
  PROVE  TreeInit /\ [][MapNext]_vars => [](TreeInv /\ MapInv)
<1>1. [MapNext]_vars => [AnyStep]_vars
  BY DEF MapNext, AnyStep
<1>2. TreeInv /\ [MapNext]_vars => TreeInv'
  BY <1>1, StepInv
<1>3. TreeInv /\ TreeInv' /\ MapInv /\ [MapNext]_vars => MapInv'
  BY MapInvStep
<1> QED BY <1>2, <1>3, TreeInitInv, MapInvInit, PTL

LEMMA SpecsMap ==
  /\ TreeSpec => TreeInit /\ [][MapNext]_vars
  /\ TreeFairSpec => TreeInit /\ [][MapNext]_vars
<1>1. [TreeNext]_vars => [MapNext]_vars
  BY DEF MapNext
<1>2. [TreeNext \/ Crash \/ ReopenTree]_vars => [MapNext]_vars
  BY DEF MapNext
<1> QED BY <1>1, <1>2, PTL DEF TreeSpec, TreeFairSpec

(* A Put, Get or Delete that reports success has done exactly that: its key has
   the new value, or none, every other key the value it had before the call, and
   Get returned the value its key had. Whatever errors came before, however many
   splits the call needed, for every number of keys, pages and faults (btree.go:
   Put, Get, Delete, insert and what they call).                            *)
THEOREM AcknowledgedIsExactEver ==
  ASSUME NodeType \subseteq Body
  PROVE  /\ TreeSpec => AcknowledgedIsExact
         /\ TreeFairSpec => AcknowledgedIsExact
<1>1. TreeInv /\ TreeInv' /\ MapInv /\ [MapNext]_vars =>
        [NeverKilled /\ Completes /\ op.kind \in {"put", "get", "delete"}
           /\ ret'.out # "error" =>
           /\ \A k \in Keys :
                Lookup(k)' = IF k # op.key \/ op.kind = "get" THEN Held(k)
                             ELSE IF op.kind = "put" THEN op.value ELSE None
           /\ op.kind = "get" =>
                ret'.out = IF Held(op.key) = None THEN "notfound" ELSE Held(op.key)]_vars
  <2> SUFFICES ASSUME TreeInv, TreeInv', MapInv, [MapNext]_vars, NeverKilled, Completes,
                      op.kind \in {"put", "get", "delete"}, ret'.out # "error"
               PROVE  Exact
    BY DEF Exact
  <2>1. ~Crash
    BY DEF Crash, Completes
  <2> QED BY <2>1, MapStep DEF MapKeeps
<1> QED BY <1>1, MapInvariant, SpecsMap, PTL DEF AcknowledgedIsExact

(* An operation that ends, with success or with any error in the middle of its
   splits, leaves every key with the value it had, with the value this operation
   was to put there, or with none: never with a value of another key or of an
   earlier time (btree.go: Put, Delete, splitLeaf, splitInternal).          *)
THEOREM NoForeignValueEver ==
  ASSUME NodeType \subseteq Body
  PROVE  /\ TreeSpec => NoForeignValue
         /\ TreeFairSpec => NoForeignValue
<1>1. TreeInv /\ TreeInv' /\ MapInv /\ [MapNext]_vars =>
        [NeverKilled /\ Completes =>
           \A k \in Keys :
             \/ Lookup(k)' = None
             \/ k \in DOMAIN before.dict /\ Lookup(k)' = before.dict[k]
             \/ op.kind = "put" /\ k = op.key /\ Lookup(k)' = op.value]_vars
  <2> SUFFICES ASSUME TreeInv, TreeInv', MapInv, [MapNext]_vars, NeverKilled, Completes,
                      NEW k \in Keys
               PROVE  \/ Lookup(k)' = None
                      \/ k \in DOMAIN before.dict /\ Lookup(k)' = before.dict[k]
                      \/ op.kind = "put" /\ k = op.key /\ Lookup(k)' = op.value
    OBVIOUS
  <2>1. ~Crash /\ pc # "idle"
    BY DEF Crash, Completes
  <2>2. MapKeeps
    BY <2>1, MapStep
  <2>3. Lookup(k)' = None \/ Lookup(k)' \in Allowed(k)
    BY <2>2 DEF MapKeeps, Harmless
  <2> QED BY <2>1, <2>3 DEF Allowed, Held
<1> QED BY <1>1, MapInvariant, SpecsMap, PTL DEF NoForeignValue

-----------------------------------------------------------------------------
(* All leaves are equally deep.                                            *)

(* Each child of a page is on the path of some key.                        *)
LEMMA ChildOnPath ==
  ASSUME NEW m, NEW P, NEW L, Tree(m, P, L), NEW j \in 1..L, NEW k \in Keys,
         NEW n, n = m[P[j][k]], NEW i \in 1..(Len(n.keys) + 1)
  PROVE  \E x \in Keys : P[j - 1][x] = childAt(n, i)
<1>1. L \in Nat /\ j \in 0..L
  BY TreeFacts
<1>2. PageHas(n, P, j, P[j][k])
  BY <1>1, PageFacts
<1>3. /\ n.keys \in Seq(Keys) /\ Ascending(n.keys)
      /\ \A a \in DOMAIN n.keys : n.keys[a] \in Keys /\ P[j][n.keys[a]] = P[j][k]
  BY <1>2 DEF PageHas
<1>4. ASSUME NEW x \in Keys, P[j][x] = P[j][k], childIdx(n, x) = i
      PROVE  \E y \in Keys : P[j - 1][y] = childAt(n, i)
  <2>1. Leads(m, P, j, x)
    BY DEF Tree
  <2> QED BY <1>4, <2>1 DEF Leads, Route
<1>5. CASE i = 1
  <2>1. PICK x \in Keys : P[j][x] = P[j][k] /\ Slot(m, P, j, x) = 1
    BY DEF Tree, FirstTaken
  <2>2. childIdx(n, x) = i
    BY <1>5, <2>1 DEF Slot
  <2> QED BY <1>4, <2>1, <2>2
<1>6. CASE i # 1
  <2>1. PICK s : s = n.keys
    OBVIOUS
  <2>2. /\ s \in Seq(Keys) /\ Len(s) \in Nat /\ DOMAIN s = 1..Len(s) /\ i \in 1..(Len(s) + 1)
        /\ \A a \in 1..Len(s) : s[a] \in Keys /\ s[a] \in Nat
        /\ \A a, b \in 1..Len(s) : a < b => s[a] < s[b]
    <3>1. s \in Seq(Keys) /\ Len(s) \in Nat /\ DOMAIN s = 1..Len(s) /\ i \in 1..(Len(s) + 1)
      BY <1>3, <2>1
    <3>2. \A a \in 1..Len(s) : s[a] \in Keys /\ s[a] \in Nat
      BY <3>1, KeysAreNumbers
    <3>3. \A a, b \in 1..Len(s) : a < b => s[a] < s[b]
      BY <1>3, <2>1, <3>1 DEF Ascending
    <3> QED BY <3>1, <3>2, <3>3
  <2>3. PICK h : h = i - 1 /\ h \in 1..Len(s)
    BY <1>6, <2>2
  <2>4. PICK x \in Keys : x = s[h]
    BY <2>2, <2>3
  <2>5. IsSlot(s, x, i)
    <3>1. ASSUME NEW a \in 1..(i - 1) PROVE s[a] <= x
      <4>1. a \in 1..Len(s) /\ (a = h \/ a < h)
        BY <2>2, <2>3
      <4> QED BY <2>2, <2>3, <2>4, <4>1
    <3>2. i <= Len(s) => x < s[i]
      <4> SUFFICES ASSUME i <= Len(s) PROVE x < s[i]
        OBVIOUS
      <4>1. i \in 1..Len(s) /\ h < i
        BY <2>2, <2>3
      <4> QED BY <2>2, <2>3, <2>4, <4>1
    <3> QED BY <2>2, <3>1, <3>2 DEF IsSlot
  <2>6. childIdx(n, x) = i
    BY <2>1, <2>2, <2>5, SlotIs
  <2>7. P[j][x] = P[j][k]
    BY <1>3, <2>1, <2>2, <2>3, <2>4
  <2> QED BY <1>4, <2>6, <2>7
<1> QED BY <1>5, <1>6

ChildrenOf(n) == {childAt(n, i) : i \in 1..(Len(n.keys) + 1)}

LEMMA EqualDepths ==
  ASSUME TreeInv, NEW P, NEW L, Tree(Mem, P, L), NEW k \in Keys
  PROVE  DepthsBelow(P[L - 1][k]) = {L}
<1> DEFINE D == 1..PageLimit
           stop == {p \in D : NodeAt(p) = Zeros \/ IsLeaf(NodeAt(p))}
           value == [p \in D |-> IF NodeAt(p) = Zeros THEN 0 ELSE 1]
           kids == [p \in D |-> ChildrenOf(NodeAt(p))]
           Rule(f) == f = [p \in 1..PageLimit |->
                             IF ~IsNode(p) THEN {0}
                             ELSE IF IsLeaf(NodeAt(p)) THEN {1}
                             ELSE LET n == NodeAt(p) IN
                               {d + 1 : d \in UNION {f[childAt(n, i)] : i \in 1..(Len(n.keys) + 1)}}]
           depths == CHOOSE f : Rule(f)
<1>1. /\ \A p \in D : NodeAt(p) = Zeros \/ NodeOver(NodeAt(p), owned)
      /\ owned \subseteq D
  <2>1. \A p \in D : p \in 0..PageLimit
    BY LimitAssumption
  <2> QED BY <2>1, InvFacts
<1>2. /\ \A p \in D \cap stop : value[p] \in Nat
      /\ \A p \in D \ stop : kids[p] \subseteq D
  <2>1. \A p \in D : value[p] \in Nat
    OBVIOUS
  <2>2. ASSUME NEW p \in D \ stop PROVE ChildrenOf(NodeAt(p)) \subseteq D
    <3>1. PICK n : n = NodeAt(p) /\ NodeOver(n, owned) /\ ~IsLeaf(n)
      BY <1>1
    <3>2. \A i \in 1..(Len(n.keys) + 1) : childAt(n, i) \in owned
      BY <3>1, ChildAtFacts
    <3> QED BY <1>1, <3>1, <3>2 DEF ChildrenOf
  <2> QED BY <2>1, <2>2
<1>3. PICK f : IsTreeWalk(f, D, stop, value, kids)
  <2> HIDE DEF D, stop, value, kids
  <2> QED BY <1>2, TreeRecursion
<1>4. \A g : IsTreeWalk(g, D, stop, value, kids) <=> Rule(g)
  <2> SUFFICES ASSUME NEW g PROVE IsTreeWalk(g, D, stop, value, kids) <=> Rule(g)
    OBVIOUS
  <2>1. \A n : UNION {g[c] : c \in ChildrenOf(n)}
             = UNION {g[childAt(n, i)] : i \in 1..(Len(n.keys) + 1)}
    BY DEF ChildrenOf
  <2>2. \A p \in D : (IF p \in stop THEN {value[p]}
                      ELSE {d + 1 : d \in UNION {g[c] : c \in kids[p]}})
                   = (IF ~IsNode(p) THEN {0}
                      ELSE IF IsLeaf(NodeAt(p)) THEN {1}
                      ELSE LET n == NodeAt(p) IN
                        {d + 1 : d \in UNION {g[childAt(n, i)] : i \in 1..(Len(n.keys) + 1)}})
    BY <2>1 DEF IsNode
  <2> QED BY <2>2 DEF IsTreeWalk
<1>5. Rule(depths)
  BY <1>3, <1>4
<1>6. DepthsBelow(P[L - 1][k]) = depths[P[L - 1][k]]
  BY DEF DepthsBelow
<1> HIDE DEF depths
<1>7. \A p \in D : depths[p] = IF NodeAt(p) = Zeros THEN {0}
                               ELSE IF IsLeaf(NodeAt(p)) THEN {1}
                               ELSE {d + 1 : d \in UNION {depths[c] : c \in ChildrenOf(NodeAt(p))}}
  <2>1. IsTreeWalk(depths, D, stop, value, kids)
    BY <1>4, <1>5
  <2>2. \A p \in D : depths[p] = IF p \in stop THEN {value[p]}
                                 ELSE {d + 1 : d \in UNION {depths[c] : c \in kids[p]}}
    <3> HIDE DEF D, stop, value, kids
    <3> QED BY <2>1 DEF IsTreeWalk
  <2>3. \A p \in D : kids[p] = ChildrenOf(NodeAt(p))
    OBVIOUS
  <2>4. \A p \in D : /\ p \in stop <=> (NodeAt(p) = Zeros \/ IsLeaf(NodeAt(p)))
                     /\ value[p] = IF NodeAt(p) = Zeros THEN 0 ELSE 1
    OBVIOUS
  <2> HIDE DEF D, stop, value, kids
  <2> QED BY <2>2, <2>3, <2>4
<1>8. /\ L \in Nat /\ L > 0 /\ L - 1 \in Nat
      /\ \A j \in 0..(L - 1) : j \in 0..L /\ \A x \in Keys : P[j][x] # 0 /\ P[j][x] \in Pages0
  BY TreeFacts
<1>9. ASSUME NEW j \in 0..(L - 1), NEW x \in Keys
      PROVE  /\ P[j][x] \in D /\ Mem[P[j][x]] = NodeAt(P[j][x])
             /\ NodeOver(NodeAt(P[j][x]), AnyPage) /\ NodeAt(P[j][x]) # Zeros
             /\ IsLeaf(NodeAt(P[j][x])) <=> j = 0
  <2>1. Mem[P[j][x]] = NodeAt(P[j][x]) /\ P[j][x] \in D
    BY <1>8 DEF Mem, Pages0
  <2>2. PageHas(Mem[P[j][x]], P, j, P[j][x])
    BY <1>8, PageFacts
  <2> QED BY <2>1, <2>2, ZerosAssumption DEF PageHas, NodeOver
<1> DEFINE T == {j \in Nat : j \in 0..(L - 1) => \A x \in Keys : depths[P[j][x]] = {j + 1}}
<1>10. 0 \in T
  <2> SUFFICES ASSUME NEW x \in Keys PROVE depths[P[0][x]] = {0 + 1}
    BY <1>8
  <2>1. 0 \in 0..(L - 1)
    BY <1>8
  <2>2. /\ P[0][x] \in D /\ NodeAt(P[0][x]) # Zeros /\ IsLeaf(NodeAt(P[0][x]))
    BY <1>9, <2>1
  <2>3. depths[P[0][x]] = {1}
    BY <1>7, <2>2
  <2> QED BY <2>3
<1>11. ASSUME NEW j \in Nat, j \in T PROVE j + 1 \in T
  <2> SUFFICES ASSUME j + 1 \in 0..(L - 1), NEW x \in Keys
               PROVE  depths[P[j + 1][x]] = {(j + 1) + 1}
    OBVIOUS
  <2>1. j \in 0..(L - 1) /\ j + 1 \in 1..L /\ j + 1 # 0 /\ (j + 1) - 1 = j
    BY <1>8
  <2>2. PICK h \in 1..L : h = j + 1 /\ h \in 0..(L - 1) /\ h - 1 = j /\ h # 0
    BY <2>1
  <2>3. PICK n : /\ n = Mem[P[h][x]] /\ n = NodeAt(P[h][x]) /\ P[h][x] \in D
                 /\ NodeOver(n, AnyPage) /\ n # Zeros /\ ~IsLeaf(n)
    BY <1>9, <2>2
  <2>4. ASSUME NEW c \in ChildrenOf(n) PROVE depths[c] = {j + 1}
    <3>1. PICK i \in 1..(Len(n.keys) + 1) : c = childAt(n, i)
      BY DEF ChildrenOf
    <3>2. PICK y \in Keys : P[h - 1][y] = childAt(n, i)
      <4>1. PICK m : m = Mem
        OBVIOUS
      <4>2. Tree(m, P, L) /\ n = m[P[h][x]]
        BY <2>3, <4>1
      <4> QED BY <3>1, <4>2, ChildOnPath
    <3>3. depths[P[j][y]] = {j + 1}
      BY <1>11, <2>1
    <3> QED BY <2>2, <3>1, <3>2, <3>3
  <2>5. childAt(n, 1) \in ChildrenOf(n)
    <3>1. 1 \in 1..(Len(n.keys) + 1)
      BY <2>3, NodeFacts
    <3> QED BY <3>1 DEF ChildrenOf
  <2>6. UNION {depths[c] : c \in ChildrenOf(n)} = {j + 1}
    BY <2>4, <2>5
  <2>7. depths[P[h][x]] = {d + 1 : d \in UNION {depths[c] : c \in ChildrenOf(n)}}
    BY <1>7, <2>3
  <2> QED BY <2>2, <2>6, <2>7
<1>12. Nat \subseteq T
  <2> HIDE DEF T
  <2> QED BY <1>10, <1>11, SetInduction
<1>13. depths[P[L - 1][k]] = {(L - 1) + 1}
  BY <1>8, <1>12
<1> QED BY <1>6, <1>8, <1>13

LEMMA BalancedFromInv ==
  ASSUME Keys # {}, TreeInv, MapInv, NeverKilled
  PROVE  Balanced
<1> SUFFICES ASSUME pc = "idle" PROVE Cardinality(DepthsBelow(header.RootPageID)) = 1
  BY DEF Balanced
<1>1. Working /\ op.kind # "open"
  BY DEF MapInv, TreeInv, PlacesOK
<1>2. PICK P, L : Tree(Mem, P, L)
  BY <1>1 DEF Working, SafeTree
<1>3. PICK k \in Keys : TRUE
  OBVIOUS
<1>4. header.RootPageID \in AnyPage /\ Mem[0] = Header0(header.RootPageID)
  BY <1>1, HeaderNow
<1>5. P[L - 1][k] = header.RootPageID
  BY <1>2, <1>4, RootOnPath
<1>6. DepthsBelow(header.RootPageID) = {L}
  BY <1>2, <1>5, EqualDepths
<1> QED BY <1>6, FS_Singleton

(* Whatever errors have interrupted splits on whatever level, all ways down from
   the root to a leaf are equally long, as Depth takes for granted when it follows
   the leftmost one (btree.go: Put, splitInternal, Depth).                  *)
THEOREM BalancedEver ==
  ASSUME NodeType \subseteq Body, Keys # {}
  PROVE  /\ TreeSpec => []Balanced
         /\ TreeFairSpec => [](NeverKilled => Balanced)
<1>1. TreeInv /\ MapInv => (NeverKilled => Balanced)
  BY BalancedFromInv
<1>2. TreeInit => NeverKilled
  BY TreeAssumption DEF TreeInit, NeverKilled
<1>3. TreeInv /\ NeverKilled /\ [TreeNext]_vars => NeverKilled'
  BY StaysAlive
<1>4. TreeSpec => []NeverKilled
  <2>1. TreeSpec => []TreeInv
    BY TreeInvariant, SpecsStep, PTL
  <2> QED BY <1>2, <1>3, <2>1, PTL DEF TreeSpec
<1> QED BY <1>1, <1>4, MapInvariant, SpecsMap, PTL

=============================================================================

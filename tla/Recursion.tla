----------------------------- MODULE Recursion -----------------------------
(***************************************************************************)
(* What the proofs need of the recursive functions of the models (a loop   *)
(* of the code that moves forward until it meets its stop): the equation   *)
(* of such a function has a solution, and a fact that passes from the next *)
(* index to the one before it holds at every index.  Sets stand for the    *)
(* facts.                                                                  *)
(***************************************************************************)
EXTENDS WellFoundedInduction, TLAPS

(* A set of natural numbers that is not empty has a least element.         *)
LEMMA LeastNatural ==
  ASSUME NEW T \in SUBSET Nat, T # {}
  PROVE  \E x \in T : \A y \in T : x <= y
  <1> DEFINE Less == {pair \in Nat \X Nat : pair[1] < pair[2]}
  <1>1. IsWellFoundedOn(Less, Nat)
    BY NatLessThanWellFounded DEF OpToRel
  <1>2. \A x, y \in Nat : y < x => <<y, x>> \in Less
    OBVIOUS
  <1> HIDE DEF Less
  <1>3. PICK x \in T : \A y \in T : ~(<<y, x>> \in Less)
    BY <1>1, WFMin
  <1>4. x \in Nat /\ \A y \in T : y \in Nat /\ ~(y < x)
    BY <1>2, <1>3
  <1>. QED BY <1>4

(* A set of numbers of an interval that is not empty has a greatest element. *)
LEMMA GreatestNumber ==
  ASSUME NEW n \in Nat, NEW T \in SUBSET (0..n), T # {}
  PROVE  \E x \in T : \A y \in T : y <= x
  <1> DEFINE U == {n - y : y \in T}
  <1>1. U \in SUBSET Nat /\ U # {}
    <2>1. \A y \in T : n - y \in Nat
      OBVIOUS
    <2>2. U \subseteq Nat
      BY <2>1
    <2>3. PICK y \in T : TRUE
      OBVIOUS
    <2>. QED BY <2>2, <2>3
  <1> HIDE DEF U
  <1>2. PICK u \in U : \A w \in U : u <= w
    BY <1>1, LeastNatural
  <1>3. PICK x \in T : u = n - x
    BY DEF U
  <1>4. \A y \in T : n - y \in U
    BY DEF U
  <1>. QED BY <1>2, <1>3, <1>4

(* A set that holds zero and the successors of its numbers holds them all. *)
LEMMA SetInduction ==
  ASSUME NEW T, 0 \in T, \A n \in Nat : n \in T => n + 1 \in T
  PROVE  Nat \subseteq T
  <1> SUFFICES ASSUME Nat \ T # {}
               PROVE  FALSE
    OBVIOUS
  <1>1. PICK x \in Nat \ T : \A y \in Nat \ T : x <= y
    BY LeastNatural
  <1>2. x # 0 /\ x - 1 \in Nat
    BY <1>1
  <1>3. x - 1 \in T
    BY <1>1, <1>2
  <1>. QED BY <1>1, <1>2, <1>3

(* What holds at an index that stops the loop, and at one whose next index it
   holds at, holds at every index.                                         *)
LEMMA BackwardInduction ==
  ASSUME NEW n \in Nat, NEW Stop, NEW next, NEW T,
         \A j \in (1..n) \ Stop : next[j] \in (j + 1)..n,
         \A j \in 1..n : j \in Stop => j \in T,
         \A j \in (1..n) \ Stop : next[j] \in T => j \in T
  PROVE  1..n \subseteq T
  <1> SUFFICES ASSUME (1..n) \ T # {}
               PROVE  FALSE
    OBVIOUS
  <1> DEFINE Bad == (1..n) \ T
  <1>0. Bad \in SUBSET (0..n) /\ Bad # {}
    OBVIOUS
  <1>1. PICK x \in (1..n) \ T : \A y \in (1..n) \ T : y <= x
    <2> HIDE DEF Bad
    <2>1. PICK x \in Bad : \A y \in Bad : y <= x
      BY <1>0, GreatestNumber
    <2>. QED BY <2>1 DEF Bad
  <1>2. x \in (1..n) \ Stop /\ next[x] \in (x + 1)..n /\ next[x] \notin T
    BY <1>1
  <1>3. next[x] \in (1..n) \ T
    BY <1>2
  <1>. QED BY <1>1, <1>2, <1>3

(* What a loop computes from each index: a value where it stops, otherwise what
   it computes from the next index.                                        *)
IsLoop(f, n, Stop, value, next) ==
  f = [j \in 1..n |-> IF j \in Stop THEN value[j] ELSE f[next[j]]]

(* A loop that moves forward until it stops computes a function.           *)
LEMMA ForwardRecursion ==
  ASSUME NEW n \in Nat, NEW Stop, NEW value, NEW next,
         \A j \in (1..n) \ Stop : next[j] \in (j + 1)..n
  PROVE  \E f : IsLoop(f, n, Stop, value, next)
  <1> DEFINE Solves(f, m) ==
               f = [j \in (n - m + 1)..n |-> IF j \in Stop THEN value[j] ELSE f[next[j]]]
             T == {m \in Nat : m <= n => \E f : Solves(f, m)}
  <1>1. 0 \in T
    <2> DEFINE g == [j \in (n - 0 + 1)..n |-> value[j]]
    <2>1. \A j \in (n - 0 + 1)..n : FALSE
      OBVIOUS
    <2>2. g = [j \in (n - 0 + 1)..n |-> IF j \in Stop THEN value[j] ELSE g[next[j]]]
      BY <2>1
    <2>3. Solves(g, 0)
      BY <2>2
    <2>. QED BY <2>3
  <1>2. ASSUME NEW m \in Nat, m \in T
        PROVE  m + 1 \in T
    <2> SUFFICES ASSUME m + 1 <= n
                 PROVE  \E f : Solves(f, m + 1)
      OBVIOUS
    <2>1. PICK f : Solves(f, m)
      BY <1>2
    <2> DEFINE i == n - m
               g == [j \in i..n |-> IF j = i THEN IF i \in Stop THEN value[i] ELSE f[next[i]]
                                    ELSE f[j]]
    <2>2. i \in 1..n /\ n - (m + 1) + 1 = i /\ n - m + 1 = i + 1
      OBVIOUS
    <2> HIDE DEF i
    <2>3. \A j \in (i + 1)..n : f[j] = IF j \in Stop THEN value[j] ELSE f[next[j]]
      BY <2>1, <2>2
    <2>4. \A j \in (i + 1)..n : g[j] = f[j]
      BY <2>2
    <2>5. \A j \in i..n : g[j] = IF j \in Stop THEN value[j] ELSE g[next[j]]
      <3> SUFFICES ASSUME NEW j \in i..n
                   PROVE  g[j] = IF j \in Stop THEN value[j] ELSE g[next[j]]
        OBVIOUS
      <3>1. j \in 1..n
        BY <2>2
      <3>2. j \notin Stop => next[j] \in (i + 1)..n
        BY <2>2, <3>1
      <3>3. j \notin Stop => g[next[j]] = f[next[j]]
        BY <2>4, <3>2
      <3>4. CASE j = i
        BY <3>3, <3>4
      <3>5. CASE j # i
        <4>1. j \in (i + 1)..n
          BY <2>2, <3>5
        <4>. QED BY <2>3, <2>4, <3>3, <4>1
      <3>. QED BY <3>4, <3>5
    <2>6. g = [j \in i..n |-> IF j \in Stop THEN value[j] ELSE g[next[j]]]
      <3> HIDE DEF g
      <3>1. g = [j \in i..n |-> g[j]]
        BY DEF g
      <3>. QED BY <2>5, <3>1
    <2>7. Solves(g, m + 1)
      BY <2>2, <2>6
    <2>. QED BY <2>7
  <1>3. n \in T
    <2> HIDE DEF T
    <2>. QED BY <1>1, <1>2, SetInduction
  <1>4. PICK f : Solves(f, n)
    BY <1>3
  <1>. QED BY <1>4 DEF IsLoop

(* The same for a walk over the set D, which may go round in a circle.      *)
IsWalk(f, D, Stop, value, next) ==
  f = [j \in D |-> IF j \in Stop THEN value[j] ELSE f[next[j]]]

LEMMA WalkRecursion ==
  ASSUME NEW D, NEW Stop, NEW value, NEW next, \A j \in D \ Stop : next[j] \in D
  PROVE  \E f : IsWalk(f, D, Stop, value, next)
  <1> DEFINE Closed(v, T) ==
               /\ \A j \in D : j \in Stop /\ value[j] = v => j \in T
               /\ \A j \in D \ Stop : next[j] \in T => j \in T
             Reach(v) == {j \in D : \A T \in SUBSET D : Closed(v, T) => j \in T}
             Ends == {value[j] : j \in D \cap Stop}
             Results(j) == {v \in Ends : j \in Reach(v)}
             f == [j \in D |-> CHOOSE v : v \in Results(j)]
  <1>1. ASSUME NEW v, NEW j \in D \ Stop
        PROVE  j \in Reach(v) <=> next[j] \in Reach(v)
    <2>1. ASSUME next[j] \in Reach(v) PROVE j \in Reach(v)
      BY <2>1
    <2>2. ASSUME next[j] \notin Reach(v) PROVE j \notin Reach(v)
      <3>1. PICK T \in SUBSET D : Closed(v, T) /\ next[j] \notin T
        BY <2>2
      <3> DEFINE W == {i \in T : \A V \in SUBSET D : Closed(v, V) => i \in V}
      <3>2. Closed(v, W \ {j})
        <4>1. W \subseteq Reach(v)
          OBVIOUS
        <4>2. \A i \in D : i \in Stop /\ value[i] = v => i \in W \ {j}
          BY <3>1
        <4>3. \A i \in D \ Stop : next[i] \in W \ {j} => i \in W \ {j}
          <5> SUFFICES ASSUME NEW i \in D \ Stop, next[i] \in W \ {j} PROVE i \in W \ {j}
            OBVIOUS
          <5>1. i \in W
            BY <3>1
          <5>2. i # j
            BY <2>2, <4>1
          <5> QED BY <5>1, <5>2
        <4> QED BY <4>2, <4>3
      <3> QED BY <3>2
    <2> QED BY <2>1, <2>2
  <1>2. ASSUME NEW v, NEW j \in D \cap Stop
        PROVE  j \in Reach(v) <=> value[j] = v
    <2>1. ASSUME value[j] = v PROVE j \in Reach(v)
      BY <2>1
    <2>2. ASSUME value[j] # v PROVE j \notin Reach(v)
      <3>1. Closed(v, D \ {j})
        BY <2>2
      <3> QED BY <3>1
    <2> QED BY <2>1, <2>2
  <1> HIDE DEF Closed, Reach
  <1>3. ASSUME NEW j \in D \cap Stop PROVE f[j] = value[j]
    <2>1. Results(j) = {value[j]}
      BY <1>2
    <2> HIDE DEF Results
    <2> QED BY <2>1
  <1>4. ASSUME NEW j \in D \ Stop PROVE f[j] = f[next[j]]
    <2>1. Results(j) = Results(next[j])
      BY <1>1
    <2> HIDE DEF Results
    <2> QED BY <2>1
  <1>5. \A j \in D : f[j] = IF j \in Stop THEN value[j] ELSE f[next[j]]
    BY <1>3, <1>4
  <1>6. f = [j \in D |-> f[j]]
    OBVIOUS
  <1> HIDE DEF f
  <1>7. f = [j \in D |-> IF j \in Stop THEN value[j] ELSE f[next[j]]]
    BY <1>5, <1>6
  <1>. QED BY <1>7 DEF IsWalk

(* What a recursion over a tree computes for each page of D: a number where it
   stops, otherwise the numbers of its children, each one larger.          *)
IsTreeWalk(f, D, Stop, value, kids) ==
  f = [j \in D |-> IF j \in Stop THEN {value[j]}
                   ELSE {d + 1 : d \in UNION {f[c] : c \in kids[j]}}]

(* Its equation has a solution, also where the pages form a cycle.         *)
LEMMA TreeRecursion ==
  ASSUME NEW D, NEW Stop, NEW value, NEW kids,
         \A j \in D \cap Stop : value[j] \in Nat, \A j \in D \ Stop : kids[j] \subseteq D
  PROVE  \E f : IsTreeWalk(f, D, Stop, value, kids)
  <1> DEFINE Pairs == D \X Nat
             Closed(R) ==
               /\ \A j \in D \cap Stop : <<j, value[j]>> \in R
               /\ \A j \in D \ Stop : \A c \in kids[j] : \A d \in Nat :
                    <<c, d>> \in R => <<j, d + 1>> \in R
             Least == {x \in Pairs : \A R \in SUBSET Pairs : Closed(R) => x \in R}
             f == [j \in D |-> {d \in Nat : <<j, d>> \in Least}]
  <1>1. /\ Least \in SUBSET Pairs
        /\ \A R \in SUBSET Pairs : Closed(R) => Least \subseteq R
    OBVIOUS
  <1>2. Closed(Least)
    <2>1. \A j \in D \cap Stop : <<j, value[j]>> \in Least
      OBVIOUS
    <2>2. ASSUME NEW j \in D \ Stop, NEW c \in kids[j], NEW d \in Nat, <<c, d>> \in Least
          PROVE  <<j, d + 1>> \in Least
      <3>1. <<j, d + 1>> \in Pairs
        OBVIOUS
      <3>2. ASSUME NEW R \in SUBSET Pairs, Closed(R) PROVE <<j, d + 1>> \in R
        <4>1. <<c, d>> \in R
          BY <2>2, <3>2
        <4> QED BY <3>2, <4>1
      <3> QED BY <3>1, <3>2
    <2> HIDE DEF Least
    <2> QED BY <2>1, <2>2
  <1> HIDE DEF Least
  <1>3. ASSUME NEW j \in D \cap Stop, NEW d \in Nat, <<j, d>> \in Least
        PROVE  d = value[j]
    <2> SUFFICES ASSUME d # value[j] PROVE Closed(Least \ {<<j, d>>})
      BY <1>1, <1>3
    <2>1. \A i \in D \cap Stop : <<i, value[i]>> # <<j, d>>
      OBVIOUS
    <2>2. \A i \in D \ Stop : \A e \in Nat : <<i, e + 1>> # <<j, d>>
      OBVIOUS
    <2> QED BY <1>2, <2>1, <2>2
  <1>4. ASSUME NEW j \in D \ Stop, NEW e \in Nat, <<j, e>> \in Least
        PROVE  \E c \in kids[j] : \E d \in Nat : <<c, d>> \in Least /\ e = d + 1
    <2> SUFFICES ASSUME ~ \E c \in kids[j] : \E d \in Nat : <<c, d>> \in Least /\ e = d + 1
                 PROVE  Closed(Least \ {<<j, e>>})
      BY <1>1, <1>4
    <2>1. \A i \in D \cap Stop : <<i, value[i]>> # <<j, e>>
      OBVIOUS
    <2>2. ASSUME NEW i \in D \ Stop, NEW c \in kids[i], NEW d \in Nat, <<c, d>> \in Least
          PROVE  <<i, d + 1>> # <<j, e>>
      BY <2>2
    <2> QED BY <1>2, <2>1, <2>2
  <1>5. \A j \in D : f[j] = {d \in Nat : <<j, d>> \in Least}
    OBVIOUS
  <1>6. f = [j \in D |-> f[j]]
    OBVIOUS
  <1> HIDE DEF f
  <1>7. ASSUME NEW j \in D \cap Stop PROVE f[j] = {value[j]}
    BY <1>2, <1>3, <1>5
  <1>8. ASSUME NEW j \in D \ Stop
        PROVE  f[j] = {d + 1 : d \in UNION {f[c] : c \in kids[j]}}
    <2>1. ASSUME NEW e \in f[j] PROVE e \in {d + 1 : d \in UNION {f[c] : c \in kids[j]}}
      <3>1. PICK c \in kids[j], d \in Nat : <<c, d>> \in Least /\ e = d + 1
        BY <1>4, <1>5, <2>1
      <3>2. d \in f[c]
        BY <1>5, <3>1
      <3> QED BY <3>1, <3>2
    <2>2. ASSUME NEW c \in kids[j], NEW d \in f[c] PROVE d + 1 \in f[j]
      <3>1. d \in Nat /\ <<c, d>> \in Least
        BY <1>5, <2>2
      <3>2. <<j, d + 1>> \in Least
        BY <1>2, <2>2, <3>1
      <3> QED BY <1>5, <3>1, <3>2
    <2> QED BY <2>1, <2>2
  <1>9. \A j \in D : f[j] = IF j \in Stop THEN {value[j]}
                            ELSE {d + 1 : d \in UNION {f[c] : c \in kids[j]}}
    BY <1>7, <1>8
  <1>10. f = [j \in D |-> IF j \in Stop THEN {value[j]}
                          ELSE {d + 1 : d \in UNION {f[c] : c \in kids[j]}}]
    BY <1>6, <1>9
  <1>. QED BY <1>10 DEF IsTreeWalk

(* What a walk over D collects on its way: nothing where it stops.          *)
IsCollection(f, D, Stop, value, next) ==
  f = [j \in D |-> IF j \in Stop THEN {} ELSE value[j] \cup f[next[j]]]

(* Its equation has a solution, also where the walk goes round in a circle. *)
LEMMA CollectRecursion ==
  ASSUME NEW D, NEW Stop, NEW value, NEW next, \A j \in D \ Stop : next[j] \in D
  PROVE  \E f : IsCollection(f, D, Stop, value, next)
  <1> DEFINE Closed(v, T) ==
               \A j \in D \ Stop : v \in value[j] \/ next[j] \in T => j \in T
             Reach(v) == {j \in D : \A T \in SUBSET D : Closed(v, T) => j \in T}
             Collected == UNION {value[j] : j \in D \ Stop}
             f == [j \in D |-> {v \in Collected : j \in Reach(v)}]
  <1>1. \A v : Reach(v) \in SUBSET D /\ \A T \in SUBSET D : Closed(v, T) => Reach(v) \subseteq T
    OBVIOUS
  <1>2. ASSUME NEW v PROVE Closed(v, Reach(v))
    <2> SUFFICES ASSUME NEW j \in D \ Stop, v \in value[j] \/ next[j] \in Reach(v),
                        NEW T \in SUBSET D, Closed(v, T)
                 PROVE  j \in T
      OBVIOUS
    <2>1. next[j] \in Reach(v) => next[j] \in T
      BY <1>1
    <2> HIDE DEF Reach
    <2> QED BY <2>1
  <1> HIDE DEF Reach
  <1>3. ASSUME NEW v, NEW j \in D \cap Stop PROVE j \notin Reach(v)
    <2>1. Closed(v, D \ Stop) /\ D \ Stop \in SUBSET D
      OBVIOUS
    <2> HIDE DEF Closed
    <2> QED BY <1>1, <2>1
  <1>4. ASSUME NEW v, NEW j \in D \ Stop
        PROVE  j \in Reach(v) <=> v \in value[j] \/ next[j] \in Reach(v)
    <2>1. ASSUME v \notin value[j], next[j] \notin Reach(v) PROVE j \notin Reach(v)
      <3>1. Closed(v, Reach(v) \ {j})
        BY <1>2, <2>1
      <3>2. Reach(v) \ {j} \in SUBSET D
        BY <1>1
      <3> HIDE DEF Closed
      <3>3. Reach(v) \subseteq Reach(v) \ {j}
        BY <1>1, <3>1, <3>2
      <3> QED BY <3>3
    <2> QED BY <1>2, <2>1
  <1>5. ASSUME NEW j \in D \ Stop PROVE f[j] = value[j] \cup f[next[j]]
    <2>1. value[j] \subseteq Collected
      OBVIOUS
    <2>2. f[j] = {v \in Collected : j \in Reach(v)}
      OBVIOUS
    <2>3. f[next[j]] = {v \in Collected : next[j] \in Reach(v)}
      OBVIOUS
    <2> HIDE DEF f, Collected
    <2> QED BY <1>4, <2>1, <2>2, <2>3
  <1>6. ASSUME NEW j \in D \cap Stop PROVE f[j] = {}
    BY <1>3
  <1>7. \A j \in D : f[j] = IF j \in Stop THEN {} ELSE value[j] \cup f[next[j]]
    BY <1>5, <1>6
  <1>8. f = [j \in D |-> f[j]]
    OBVIOUS
  <1> HIDE DEF f
  <1>9. f = [j \in D |-> IF j \in Stop THEN {} ELSE value[j] \cup f[next[j]]]
    BY <1>7, <1>8
  <1>. QED BY <1>9 DEF IsCollection

(* What a recursion over a tree collects: a value where it stops, otherwise
   its own and what it collects from the children.                         *)
IsGathering(f, D, Stop, value, kids) ==
  f = [j \in D |-> IF j \in Stop THEN value[j]
                   ELSE value[j] \cup UNION {f[c] : c \in kids[j]}]

(* Its equation has a solution, also where the pages form a cycle.         *)
LEMMA GatherRecursion ==
  ASSUME NEW D, NEW Stop, NEW value, NEW kids, \A j \in D \ Stop : kids[j] \subseteq D
  PROVE  \E f : IsGathering(f, D, Stop, value, kids)
  <1> DEFINE All == UNION {value[j] : j \in D}
             Pairs == D \X All
             Closed(R) ==
               /\ \A j \in D : \A v \in value[j] : <<j, v>> \in R
               /\ \A j \in D \ Stop : \A c \in kids[j] : \A v \in All :
                    <<c, v>> \in R => <<j, v>> \in R
             Least == {x \in Pairs : \A R \in SUBSET Pairs : Closed(R) => x \in R}
             f == [j \in D |-> {v \in All : <<j, v>> \in Least}]
  <1>1. /\ Least \in SUBSET Pairs
        /\ \A R \in SUBSET Pairs : Closed(R) => Least \subseteq R
    OBVIOUS
  <1>2. Closed(Least)
    <2>1. \A j \in D : \A v \in value[j] : <<j, v>> \in Least
      OBVIOUS
    <2>2. ASSUME NEW j \in D \ Stop, NEW c \in kids[j], NEW v \in All, <<c, v>> \in Least
          PROVE  <<j, v>> \in Least
      <3>1. <<j, v>> \in Pairs
        OBVIOUS
      <3>2. ASSUME NEW R \in SUBSET Pairs, Closed(R) PROVE <<j, v>> \in R
        <4>1. <<c, v>> \in R
          BY <2>2, <3>2
        <4> QED BY <3>2, <4>1
      <3> QED BY <3>1, <3>2
    <2> HIDE DEF Least
    <2> QED BY <2>1, <2>2
  <1> HIDE DEF Least
  <1>3. ASSUME NEW j \in D, NEW v \in All, <<j, v>> \in Least, v \notin value[j]
        PROVE  j \notin Stop /\ \E c \in kids[j] : <<c, v>> \in Least
    <2> SUFFICES ASSUME j \in Stop \/ ~ \E c \in kids[j] : <<c, v>> \in Least
                 PROVE  FALSE
      OBVIOUS
    <2>1. \A i \in D : \A w \in value[i] : <<i, w>> # <<j, v>>
      BY <1>3
    <2>2. ASSUME NEW i \in D \ Stop, NEW c \in kids[i], NEW w \in All, <<c, w>> \in Least
          PROVE  <<i, w>> # <<j, v>>
      BY <2>2
    <2>3. Closed(Least \ {<<j, v>>})
      BY <1>2, <2>1, <2>2
    <2>4. Least \ {<<j, v>>} \in SUBSET Pairs
      BY <1>1
    <2> HIDE DEF Closed, Pairs
    <2>5. Least \subseteq Least \ {<<j, v>>}
      BY <1>1, <2>3, <2>4
    <2> QED BY <1>3, <2>5
  <1>4. \A j \in D : f[j] = {v \in All : <<j, v>> \in Least}
    OBVIOUS
  <1>5. f = [j \in D |-> f[j]]
    OBVIOUS
  <1>6. \A j \in D : value[j] \subseteq All
    OBVIOUS
  <1> HIDE DEF f, All
  <1>7. ASSUME NEW j \in D \cap Stop PROVE f[j] = value[j]
    BY <1>2, <1>3, <1>4, <1>6
  <1>8. ASSUME NEW j \in D \ Stop
        PROVE  f[j] = value[j] \cup UNION {f[c] : c \in kids[j]}
    <2>1. ASSUME NEW v \in f[j], v \notin value[j] PROVE \E c \in kids[j] : v \in f[c]
      BY <1>3, <1>4, <2>1
    <2>2. ASSUME NEW c \in kids[j], NEW v \in f[c] PROVE v \in f[j]
      BY <1>2, <1>4, <2>2
    <2>3. value[j] \subseteq f[j]
      BY <1>2, <1>4, <1>6
    <2> QED BY <2>1, <2>2, <2>3
  <1>9. \A j \in D : f[j] = IF j \in Stop THEN value[j]
                            ELSE value[j] \cup UNION {f[c] : c \in kids[j]}
    BY <1>7, <1>8
  <1>10. f = [j \in D |-> IF j \in Stop THEN value[j]
                          ELSE value[j] \cup UNION {f[c] : c \in kids[j]}]
    BY <1>5, <1>9
  <1>. QED BY <1>10 DEF IsGathering

=============================================================================

------------------------------- MODULE KVMap -------------------------------
(***************************************************************************)
(* What the tree promises the engine: a finite map with a result for each  *)
(* operation.  Nothing is said of pages, splits or the file.               *)
(***************************************************************************)
EXTENDS Naturals, Sequences, FiniteSets

CONSTANTS Keys, Values, None, Acceptable(_, _)

VARIABLES
  dict,   \* the map, defined on the keys present
  ret     \* the last completed operation and its result

Result(kind, k, v, out) ==
  ret' = [op |-> [kind |-> kind, key |-> k, value |-> v], out |-> out]

(* The keys present, in ascending order.                                   *)
SortedKeys ==
  CHOOSE s \in [1..Cardinality(DOMAIN dict) -> DOMAIN dict] :
    \A i, j \in DOMAIN s : i < j => s[i] < s[j]

Init == dict = [k \in {} |-> None] /\ ret.out = "none"

Opened == dict' = dict /\ Result("open", None, None, "ok")

Put(k, v) ==
  /\ Acceptable(k, v)
  /\ dict' = [j \in DOMAIN dict \cup {k} |-> IF j = k THEN v ELSE dict[j]]
  /\ Result("put", k, v, "ok")

PutRejected(k, v) ==
  /\ ~Acceptable(k, v)
  /\ UNCHANGED dict
  /\ Result("put", k, v, "rejected")

Get(k) ==
  /\ UNCHANGED dict
  /\ Result("get", k, None, IF k \in DOMAIN dict THEN dict[k] ELSE "notfound")

Delete(k) ==
  /\ dict' = [j \in DOMAIN dict \ {k} |-> dict[j]]
  /\ Result("delete", k, None, IF k \in DOMAIN dict THEN "ok" ELSE "notfound")

ListKeys == UNCHANGED dict /\ Result("keys", None, None, SortedKeys)

(* The depth of the tree is not determined by the map.                     *)
ReportDepth ==
  /\ UNCHANGED dict
  /\ ret'.op.kind = "depth"
  /\ ret'.out \in Nat \ {0}

Next ==
  \/ Opened
  \/ \E k \in Keys :
       \/ \E v \in Values : Put(k, v) \/ PutRejected(k, v)
       \/ Get(k)
       \/ Delete(k)
  \/ ListKeys
  \/ ReportDepth

Spec == Init /\ [][Next]_<<dict, ret>>

=============================================================================

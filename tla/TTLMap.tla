------------------------------- MODULE TTLMap -------------------------------
(***************************************************************************)
(* What the engine promises its users about expiring keys: a map whose     *)
(* entries disappear by themselves at their deadline.  That the engine     *)
(* removes them lazily is invisible, but for the answer of Delete.         *)
(***************************************************************************)
EXTENDS Naturals

CONSTANTS Keys, Values, TTLs, Second, Forever

VARIABLES
  live,   \* the entries in force: key -> [value, due]
  now,
  ret,    \* the last operation and its result
  broken  \* a call has failed: nothing is promised from there on

(* An entry is still in force in the very instant of its deadline.         *)
InForce(e, t) == e.due = Forever \/ t <= e.due

Result(kind, k, out) == ret' = [kind |-> kind, key |-> k, out |-> out]

Restrict(f, S) == [k \in S |-> f[k]]

Init == live = Restrict([k \in {} |-> 0], {}) /\ now = 0 /\ ~broken

Tick ==
  /\ now' = now + 1
  /\ live' = Restrict(live, {k \in DOMAIN live : InForce(live[k], now')})
  /\ UNCHANGED ret

Put(k, v, ttl) ==
  /\ live' = [j \in DOMAIN live \cup {k} |->
                IF j = k
                  THEN [value |-> v,
                        due |-> IF ttl > 0 THEN now + ttl * Second ELSE Forever]
                  ELSE live[j]]
  /\ Result("put", k, "ok")
  /\ UNCHANGED now

Get(k) ==
  /\ Result("get", k, IF k \in DOMAIN live THEN live[k].value ELSE "notfound")
  /\ UNCHANGED <<live, now>>

Has(k) == Result("has", k, k \in DOMAIN live) /\ UNCHANGED <<live, now>>

(* Delete finds every live key; it may also find one that has expired and that
   nobody has asked for since.                                             *)
Delete(k) ==
  /\ live' = Restrict(live, DOMAIN live \ {k})
  /\ \/ Result("delete", k, "ok")
     \/ k \notin DOMAIN live /\ Result("delete", k, "notfound")
  /\ UNCHANGED now

ListKeys == Result("keys", 0, DOMAIN live) /\ UNCHANGED <<live, now>>

(* The key count of the statistics includes expired keys nobody asked for. *)
Stats ==
  /\ ret'.kind = "stats"
  /\ UNCHANGED <<live, now>>

Nuke ==
  /\ live' = Restrict(live, {})
  /\ Result("nuke", 0, "ok")
  /\ UNCHANGED now

(* The process ends and a new one opens the file: every deadline is forgotten,
   and entries that had disappeared may be back (the engine's NoResurrection
   says that none of those is that somebody has asked for).                *)
Restart ==
  /\ DOMAIN live \subseteq DOMAIN live'
  /\ \A k \in DOMAIN live : live'[k].value = live[k].value
  /\ \A k \in DOMAIN live' : live'[k].due = Forever
  /\ Result("open", 0, "ok")
  /\ UNCHANGED now

Works ==
  \/ Tick
  \/ \E k \in Keys :
       \/ \E v \in Values, ttl \in TTLs : Put(k, v, ttl)
       \/ Get(k)
       \/ Has(k)
       \/ Delete(k)
  \/ ListKeys
  \/ Stats
  \/ Nuke
  \/ Restart

(* From the first failure on anything may happen, for good.                *)
Next == broken' \/ (~broken /\ Works)

Spec == Init /\ [][Next]_<<live, now, ret, broken>>

=============================================================================

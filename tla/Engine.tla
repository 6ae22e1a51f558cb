------------------------------- MODULE Engine -------------------------------
(***************************************************************************)
(* internal/storage/engine.go: the tree with expiry times kept in memory.  *)
(*                                                                         *)
(* Every operation holds e.mu from beginning to end, so it is one step.    *)
(* The tree is the map `dict' that BTree is shown to implement.  A tree    *)
(* operation that fails may have taken effect all the same (the flush at   *)
(* its end failed), and a failed Put may hide other keys (a split that was *)
(* not finished): exactly what NoForeignValue of BTree allows.             *)
(*                                                                         *)
(* Time is counted in the unit of time.Duration.  The counters of the      *)
(* dashboard (putCount, getCount, deleteCount, startTime) are left out.    *)
(***************************************************************************)
EXTENDS Integers, FiniteSets

CONSTANTS
  Keys, Values,
  TTLs,       \* ttlSeconds of Put
  Second,     \* time units in a second (10^9 in the code)
  Half,       \* time.Duration ranges over -Half .. Half - 1 (2^63 in the code)
  Forever,    \* no deadline
  MaxTime,    \* bound on the clock
  MaxFaults   \* bound on the failures of the tree and the file

VARIABLES
  dict,    \* e.tree: the map a search of the tree gives
  ttls,    \* e.ttls: expiry times
  file,    \* e.pager's file: open, closed by Nuke, or closed and removed
  saved,   \* what the file holds once it is closed or removed
  now,     \* the clock
  ret,     \* the last operation and its result
  faults,  \* auxiliary: failures so far
  due,     \* auxiliary: the deadline of the last acknowledged Put of a key
  maybe,   \* auxiliary: the value acknowledged last and those of later failed Puts
  absent,  \* auxiliary: keys the client was told are not there, not put since
  ghosts   \* auxiliary: keys a failed call may have left behind out of sight

history == <<due, maybe, absent, ghosts>>
engineVars == <<dict, ttls, file, saved, now, ret, faults, history>>

ASSUME EngineAssumption ==
  /\ TTLs \subseteq Int /\ Second \in Nat \ {0} /\ Half \in Nat \ {0}
  /\ MaxTime \in Nat /\ MaxFaults \in Nat
  /\ Forever \notin Int

-----------------------------------------------------------------------------
EmptyMap == [k \in {} |-> 0]

Only(f, S) == [k \in DOMAIN f \cap S |-> f[k]]

Without(f, k) == [j \in DOMAIN f \ {k} |-> f[j]]

With(f, k, v) == [j \in DOMAIN f \cup {k} |-> IF j = k THEN v ELSE f[j]]

(* time.Duration(ttlSeconds) * time.Second, in two's complement.           *)
Duration(ttl) == ((ttl * Second + Half) % (2 * Half)) - Half

(* time.Now().After(expiry), for a key that has an expiry time.            *)
Expired(k) == k \in DOMAIN ttls /\ now > ttls[k]

Result(kind, k, out) == ret' = [kind |-> kind, key |-> k, out |-> out]

(* A call of the tree may fail, and does once Nuke has closed the file.    *)
MayFail == \/ file = "open" /\ faults < MaxFaults /\ faults' = faults + 1
           \/ file # "open" /\ UNCHANGED faults

(* tree.Put and tree.Delete: success, and the outcomes of an error.        *)
TreePut(k, v) ==
  /\ file = "open"
  /\ dict' = With(dict, k, v)
  /\ ghosts' = ghosts \ {k}
  /\ UNCHANGED faults

TreePutFails(k, v) ==
  /\ MayFail
  /\ \E d \in {dict, With(dict, k, v)}, S \in SUBSET Keys : dict' = Only(d, S)
  /\ ghosts' = ghosts \cup (DOMAIN dict \ DOMAIN dict')

TreeDelete(k) ==
  /\ file = "open" \/ k \notin DOMAIN dict
  /\ dict' = Without(dict, k)
  /\ ghosts' = IF file = "open" THEN ghosts \ {k} ELSE ghosts
  /\ UNCHANGED faults

TreeDeleteFails(k) ==
  /\ MayFail
  /\ dict' \in {dict, Without(dict, k)}
  /\ ghosts' = ghosts \cup {k}

-----------------------------------------------------------------------------
(* OpenEngine on a new file.                                               *)
EngineInit ==
  /\ dict = EmptyMap /\ ttls = EmptyMap
  /\ file = "open" /\ saved = EmptyMap
  /\ now = 0
  /\ ret = [kind |-> "open", key |-> 0, out |-> "ok"]
  /\ faults = 0
  /\ due = EmptyMap /\ maybe = [k \in Keys |-> {}] /\ absent = {} /\ ghosts = {}

Tick ==
  /\ now < MaxTime
  /\ now' = now + 1
  /\ UNCHANGED <<dict, ttls, file, saved, ret, faults, history>>

(* Mutant: the deadline of the value that is replaced stays in force.      *)
PutKeepsDeadline(k, v, ttl) ==
  /\ TreePut(k, v)
  /\ ttls' = IF ttl > 0 THEN With(ttls, k, now + Duration(ttl)) ELSE ttls
  /\ Result("put", k, "ok")
  /\ due' = With(due, k, IF ttl > 0 THEN now + ttl * Second ELSE Forever)
  /\ maybe' = [maybe EXCEPT ![k] = {v}]
  /\ absent' = absent \ {k}
  /\ UNCHANGED <<file, saved, now>>

(* Mutant: a Put without TTL notes an empty deadline.                      *)
PutNotesNoDeadline(k, v, ttl) ==
  /\ TreePut(k, v)
  /\ ttls' = With(ttls, k, IF ttl > 0 THEN now + Duration(ttl) ELSE Forever)
  /\ Result("put", k, "ok")
  /\ due' = With(due, k, IF ttl > 0 THEN now + ttl * Second ELSE Forever)
  /\ maybe' = [maybe EXCEPT ![k] = {v}]
  /\ absent' = absent \ {k}
  /\ UNCHANGED <<file, saved, now>>

Put(k, v, ttl) ==
  /\ TreePut(k, v)
  /\ ttls' = IF ttl > 0 THEN With(ttls, k, now + Duration(ttl)) ELSE Without(ttls, k)
  /\ Result("put", k, "ok")
  /\ due' = With(due, k, IF ttl > 0 THEN now + ttl * Second ELSE Forever)
  /\ maybe' = [maybe EXCEPT ![k] = {v}]
  /\ absent' = absent \ {k}
  /\ UNCHANGED <<file, saved, now>>

(* The early return of Put: the expiry times stay as they are.             *)
PutFails(k, v) ==
  /\ TreePutFails(k, v)
  /\ Result("put", k, "error")
  /\ maybe' = [maybe EXCEPT ![k] = @ \cup {v}]
  /\ absent' = absent \ {k}
  /\ UNCHANGED <<ttls, file, saved, now, due>>

(* Mutant: the expired key is only hidden, never deleted from the tree.    *)
HideExpired(k) ==
  /\ Expired(k)
  /\ absent' = absent \cup {k}
  /\ UNCHANGED <<dict, ttls, file, saved, now, faults, due, maybe, ghosts>>

(* The branch of Get and Has for a key past its deadline.  The expiry time is
   dropped first and the error of tree.Delete is not looked at.            *)
KillExpired(k) ==
  /\ Expired(k)
  /\ ttls' = Without(ttls, k)
  /\ TreeDelete(k) \/ TreeDeleteFails(k)
  /\ absent' = absent \cup {k}
  /\ UNCHANGED <<file, saved, now, due, maybe>>

GetExpired(k) == KillExpired(k) /\ Result("get", k, "notfound")
HasExpired(k) == KillExpired(k) /\ Result("has", k, FALSE)

(* The rest of Get and Has: a search of the tree.                          *)
Search(k) ==
  /\ ~Expired(k)
  /\ absent' = IF k \in DOMAIN dict THEN absent ELSE absent \cup {k}
  /\ UNCHANGED <<dict, ttls, file, saved, now, faults, due, maybe, ghosts>>

GetLive(k) ==
  /\ Search(k)
  /\ Result("get", k, IF k \in DOMAIN dict THEN dict[k] ELSE "notfound")

HasLive(k) == Search(k) /\ Result("has", k, k \in DOMAIN dict)

SearchFails(k) ==
  /\ ~Expired(k)
  /\ MayFail
  /\ \E kind \in {"get", "has"} : Result(kind, k, "error")
  /\ UNCHANGED <<dict, ttls, file, saved, now, history>>

(* Mutant: the deadline of a deleted key is kept.                          *)
DeleteKeepsDeadline(k) ==
  /\ TreeDelete(k)
  /\ Result("delete", k, IF k \in DOMAIN dict THEN "ok" ELSE "notfound")
  /\ absent' = absent \cup {k}
  /\ UNCHANGED <<ttls, file, saved, now, due, maybe>>

Delete(k) ==
  /\ ttls' = Without(ttls, k)
  /\ TreeDelete(k)
  /\ Result("delete", k, IF k \in DOMAIN dict THEN "ok" ELSE "notfound")
  /\ absent' = absent \cup {k}
  /\ UNCHANGED <<file, saved, now, due, maybe>>

DeleteFails(k) ==
  /\ ttls' = Without(ttls, k)
  /\ TreeDeleteFails(k)
  /\ Result("delete", k, "error")
  /\ UNCHANGED <<file, saved, now, due, maybe, absent>>

(* A scan of the leaves: after a failure it also meets keys that a search of
   the tree no longer finds.                                               *)
Scanned == IF faults = 0 THEN {DOMAIN dict}
                         ELSE {S \in SUBSET Keys : DOMAIN dict \subseteq S}

(* Keys leaves out what has expired; Stats counts it.                      *)
ListKeys ==
  /\ \E S \in Scanned : Result("keys", 0, {k \in S : ~Expired(k)})
  /\ UNCHANGED <<dict, ttls, file, saved, now, faults, history>>

ListKeysFails ==
  /\ MayFail
  /\ Result("keys", 0, "error")
  /\ UNCHANGED <<dict, ttls, file, saved, now, history>>

Stats ==
  /\ \E S \in Scanned : Result("stats", 0, Cardinality(S))
  /\ UNCHANGED <<dict, ttls, file, saved, now, faults, history>>

(* Mutant: the new pager is paired with the tree of the old one.           *)
NukeKeepsTree ==
  /\ file' = "open"
  /\ ttls' = EmptyMap
  /\ saved' = EmptyMap
  /\ Result("nuke", 0, "ok")
  /\ due' = EmptyMap /\ maybe' = [k \in Keys |-> {}]
  /\ absent' = Keys /\ ghosts' = {}
  /\ UNCHANGED <<dict, now, faults>>

Nuke ==
  /\ file' = "open"
  /\ dict' = EmptyMap
  /\ ttls' = EmptyMap
  /\ saved' = EmptyMap
  /\ Result("nuke", 0, "ok")
  /\ due' = EmptyMap /\ maybe' = [k \in Keys |-> {}]
  /\ absent' = Keys /\ ghosts' = {}
  /\ UNCHANGED <<now, faults>>

(* The error returns of Nuke come after the pager was closed: the file could
   not be removed; or it was, and no new one could be opened.  The engine
   goes on with the closed pager and its tree.                             *)
NukeFails ==
  /\ faults < MaxFaults /\ faults' = faults + 1
  /\ \/ file' = (IF file = "open" THEN "closed" ELSE file)
        /\ saved' = (IF file = "open" THEN dict ELSE saved)
     \/ file' = "removed" /\ saved' = EmptyMap
  /\ Result("nuke", 0, "error")
  /\ UNCHANGED <<dict, ttls, now, history>>

(* The process ends and OpenEngine starts on what the file holds: Close has
   flushed an open pager, a closed one has nothing to add.  The expiry times
   are gone.  After a failure the root in the file may be an older one, under
   which some of the keys are hidden.                                      *)
Restart ==
  /\ LET d == IF file = "open" THEN dict ELSE saved IN
     \E S \in IF faults = 0 THEN {Keys} ELSE SUBSET Keys : dict' = Only(d, S)
  /\ ttls' = EmptyMap
  /\ file' = "open"
  /\ saved' = EmptyMap
  /\ Result("open", 0, "ok")
  /\ UNCHANGED <<now, faults, history>>

-----------------------------------------------------------------------------
EngineNext ==
  \/ Tick
  \/ \E k \in Keys :
       \/ \E v \in Values : PutFails(k, v) \/ \E ttl \in TTLs : Put(k, v, ttl)
       \/ GetExpired(k) \/ HasExpired(k)
       \/ GetLive(k) \/ HasLive(k) \/ SearchFails(k)
       \/ Delete(k) \/ DeleteFails(k)
  \/ ListKeys \/ ListKeysFails
  \/ Stats
  \/ Nuke \/ NukeFails

EngineSpec == EngineInit /\ [][EngineNext]_engineVars

EngineSpecRestart == EngineInit /\ [][EngineNext \/ Restart]_engineVars

-----------------------------------------------------------------------------
EngineTypeOK ==
  /\ DOMAIN dict \subseteq Keys /\ \A k \in DOMAIN dict : dict[k] \in Values
  /\ DOMAIN ttls \subseteq Keys /\ \A k \in DOMAIN ttls : ttls[k] \in Int
  /\ file \in {"open", "closed", "removed"}
  /\ DOMAIN saved \subseteq Keys /\ \A k \in DOMAIN saved : saved[k] \in Values
  /\ now \in 0..MaxTime
  /\ faults \in 0..MaxFaults
  /\ DOMAIN due \subseteq Keys
  /\ maybe \in [Keys -> SUBSET Values]
  /\ absent \subseteq Keys
  /\ ghosts \subseteq Keys

(* The entries in force: those of the tree that have not expired.          *)
Live ==
  [k \in {j \in DOMAIN dict : ~Expired(j)} |->
     [value |-> dict[k], due |-> IF k \in DOMAIN ttls THEN ttls[k] ELSE Forever]]

TM == INSTANCE TTLMap WITH live <- Live, broken <- (faults > 0)

(* Lazy expiry is invisible: until a call fails, Get, Has and Keys answer as if
   every entry vanished by itself at its deadline, a Put always replaces the
   deadline, and a restart keeps what is in force but forgets the deadlines. *)
TTLMapSpec == TM!Spec

(* An expiry time does not outlive its key (Delete, Nuke and lazy expiry drop
   it with the key), except after a failed call, which may hide the key.   *)
TtlsHaveKeys == DOMAIN ttls \subseteq DOMAIN dict \cup ghosts

(* "if it's too old we kill it right now and tell the user we never saw it."
   (engine.go:89): a key the client was told is gone stays gone until it is
   put again, also across restarts; the only ones that can come back are those
   whose removal failed, in Delete or unnoticed in Get and Has, or that a
   failed Put or a failed Nuke had hidden.                                 *)
NoResurrection == absent \cap DOMAIN dict \subseteq ghosts

(* Whatever fails, and however Nuke and restarts come in between, a key reads as
   the value acknowledged last or as one whose Put failed since.           *)
ReadsRecentWrite == \A k \in DOMAIN dict : dict[k] \in maybe[k]

(* "(expires in %ds)" (executor.go:78): a key is not taken for expired before
   the time its Put promised.                                              *)
ExpiresOnTime ==
  \A k \in DOMAIN dict : Expired(k) => due[k] # Forever /\ now > due[k]

=============================================================================

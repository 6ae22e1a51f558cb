------------------------------ MODULE Readers ------------------------------
(***************************************************************************)
(* Engine.Keys and Engine.Stats scan the tree under e.mu.RLock, so any     *)
(* number of goroutines can be in Pager.ReadPage at once; p.mu is locked   *)
(* for reading there too and stops none of them.  This module looks into   *)
(* ReadPage: a look into the map p.buffer and an insertion into it each    *)
(* take time, from the step that begins the access to the step that ends   *)
(* it.  The scan of every goroutine visits pages 1..ScanPages, the path to *)
(* the leftmost leaf and the leaves.                                       *)
(***************************************************************************)
EXTENDS Integers, FiniteSets

CONSTANTS
  Goroutines,
  ScanPages,       \* pages a scan comes by
  MaxBufferPages   \* 1024 in the code

VARIABLES
  serving,  \* main has counted the keys and started the servers
  buffer,   \* p.buffer: the cached pages
  at,       \* the page a goroutine's scan is at, 0: it has no scan
  access    \* what the goroutine does: none (or file.ReadAt), read, write the map

readersVars == <<serving, buffer, at, access>>

HasRoom == Cardinality(buffer) < MaxBufferPages

Goes(g, page, does) ==
  /\ at' = [at EXCEPT ![g] = page]
  /\ access' = [access EXCEPT ![g] = does]
  /\ UNCHANGED serving

NextPage(g) ==
  IF at[g] < ScanPages THEN Goes(g, at[g] + 1, "read") ELSE Goes(g, 0, "none")

-----------------------------------------------------------------------------
(* OpenEngine on a file with a tree reads no page of it.                   *)
ReadersInit ==
  /\ serving = FALSE
  /\ buffer = {}
  /\ at = [g \in Goroutines |-> 0]
  /\ access = [g \in Goroutines |-> "none"]

(* The Stats call of cmdServe, alone, which ignores a page that cannot be read:
   the pages before it are cached, as far as there is room.                *)
CountKeys ==
  /\ ~serving /\ serving' = TRUE
  /\ \E read \in 0..ScanPages :
       buffer' = {p \in 1..read : p <= MaxBufferPages}
  /\ UNCHANGED <<at, access>>

(* Keys or Stats: e.mu.RLock, which other scans do not keep out.           *)
BeginScan(g) ==
  /\ serving /\ at[g] = 0
  /\ Goes(g, 1, "read")
  /\ UNCHANGED buffer

(* p.buffer[pageID] has it.                                                *)
Hit(g) ==
  /\ access[g] = "read" /\ at[g] \in buffer
  /\ NextPage(g)
  /\ UNCHANGED buffer

Miss(g) ==
  /\ access[g] = "read" /\ at[g] \notin buffer
  /\ Goes(g, at[g], "none")
  /\ UNCHANGED buffer

(* The file has been read; if there is room, the page is about to be cached. *)
Loaded(g) ==
  /\ at[g] # 0 /\ access[g] = "none"
  /\ IF HasRoom THEN Goes(g, at[g], "write") ELSE NextPage(g)
  /\ UNCHANGED buffer

ReadFails(g) ==
  /\ at[g] # 0 /\ access[g] = "none"
  /\ Goes(g, 0, "none")
  /\ UNCHANGED buffer

(* p.buffer[pageID] = cp.                                                  *)
Cached(g) ==
  /\ access[g] = "write"
  /\ buffer' = buffer \cup {at[g]}
  /\ NextPage(g)

(* Any other engine call that reads page p, those of seedDemoData included: it
   is alone in the engine.                                                 *)
OtherCall(p) ==
  /\ serving /\ \A g \in Goroutines : at[g] = 0
  /\ p \notin buffer /\ HasRoom
  /\ buffer' = buffer \cup {p}
  /\ UNCHANGED <<serving, at, access>>

ReadersNext ==
  \/ CountKeys
  \/ \E g \in Goroutines :
       BeginScan(g) \/ Hit(g) \/ Miss(g) \/ Loaded(g) \/ ReadFails(g) \/ Cached(g)
  \/ \E p \in 1..ScanPages : OtherCall(p)

ReadersSpec == ReadersInit /\ [][ReadersNext]_readersVars

-----------------------------------------------------------------------------
(* "Thread-safe wrapper with TTL support and lazy expiration" (README.md:20): no
   two goroutines are in the buffer map at once when one of them changes it,
   which the Go runtime answers by ending the process.                     *)
NoConcurrentMapAccess ==
  \A g, h \in Goroutines :
    g # h /\ access[g] = "write" => access[h] = "none"

=============================================================================

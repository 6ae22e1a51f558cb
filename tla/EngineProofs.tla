---------------------------- MODULE EngineProofs ----------------------------
(***************************************************************************)
(* Proofs about the engine, for every set of keys, values and TTLs, every  *)
(* bound on the clock and on the number of failures.                       *)
(***************************************************************************)
EXTENDS Engine, TLAPS

(* What the file holds after a failed Nuke is as recent as what memory holds;
   while the pager is open the file is represented by `dict' alone.        *)
SavedRecent ==
  /\ \A k \in DOMAIN saved : saved[k] \in maybe[k]
  /\ file = "open" => DOMAIN saved = {}

EngineInv == EngineTypeOK /\ ReadsRecentWrite /\ SavedRecent

-----------------------------------------------------------------------------
LEMMA InitInv == EngineInit => EngineInv
  BY EngineAssumption
  DEF EngineInit, EngineInv, EngineTypeOK, ReadsRecentWrite, SavedRecent, EmptyMap

LEMMA EmptyDomain == DOMAIN EmptyMap = {}
  BY DEF EmptyMap

(* A duration is an integer, wrapped or not.                               *)
LEMMA DurationInt == \A ttl \in TTLs : Duration(ttl) \in Int
  <1> SUFFICES ASSUME NEW ttl \in TTLs
               PROVE  Duration(ttl) \in Int
    OBVIOUS
  <1> DEFINE n == ttl * Second + Half
  <1>1. n \in Int
    BY EngineAssumption
  <1>2. 2 * Half \in Nat \ {0}
    BY EngineAssumption
  <1> HIDE DEF n
  <1>3. n % (2 * Half) \in Int
    BY <1>1, <1>2
  <1>. QED BY <1>3, EngineAssumption DEF Duration, n

-----------------------------------------------------------------------------
(* One lemma per kind of step: the values in the tree stay recent.         *)
USE DEF engineVars, history

LEMMA PutKeepsInv ==
  ASSUME EngineInv, NEW k \in Keys, NEW v \in Values, NEW ttl \in TTLs, Put(k, v, ttl)
  PROVE  EngineInv'
  <1> USE DEF EngineInv, Put, TreePut
  <1>1. /\ DOMAIN dict' = DOMAIN dict \cup {k} /\ dict'[k] = v
        /\ \A j \in DOMAIN dict : j # k => dict'[j] = dict[j]
    BY DEF With
  <1>2. maybe' \in [Keys -> SUBSET Values] /\ maybe'[k] = {v}
        /\ \A j \in Keys : j # k => maybe'[j] = maybe[j]
    BY DEF EngineTypeOK
  <1>3. ttls' = With(ttls, k, now + Duration(ttl)) \/ ttls' = Without(ttls, k)
    OBVIOUS
  <1>4. now + Duration(ttl) \in Int
    BY DurationInt DEF EngineTypeOK
  <1>5. DOMAIN ttls' \subseteq Keys /\ \A j \in DOMAIN ttls' : ttls'[j] \in Int
    <2>1. CASE ttls' = With(ttls, k, now + Duration(ttl))
      <3>1. /\ DOMAIN ttls' = DOMAIN ttls \cup {k} /\ ttls'[k] = now + Duration(ttl)
            /\ \A j \in DOMAIN ttls : j # k => ttls'[j] = ttls[j]
        BY <2>1 DEF With
      <3>. HIDE DEF Put
      <3>. QED BY <3>1, <1>4 DEF EngineTypeOK
    <2>2. CASE ttls' = Without(ttls, k)
      BY <2>2 DEF EngineTypeOK, Without
    <2>. QED BY <1>3, <2>1, <2>2
  <1>6. DOMAIN due' \subseteq Keys /\ ghosts' \subseteq Keys
    BY DEF EngineTypeOK, With
  <1>7. EngineTypeOK'
    BY <1>1, <1>2, <1>5, <1>6 DEF EngineTypeOK
  <1>8. ReadsRecentWrite'
    BY <1>1, <1>2 DEF EngineTypeOK, ReadsRecentWrite
  <1>9. SavedRecent'
    BY DEF SavedRecent
  <1>. QED BY <1>7, <1>8, <1>9

(* The outcomes of a call that may fail leave the count of failures in range. *)
LEMMA MayFailType ==
  ASSUME EngineTypeOK, MayFail
  PROVE  faults' \in 0..MaxFaults
  BY EngineAssumption DEF EngineTypeOK, MayFail

LEMMA PutFailsKeepsInv ==
  ASSUME EngineInv, NEW k \in Keys, NEW v \in Values, PutFails(k, v)
  PROVE  EngineInv'
  <1> USE DEF EngineInv, PutFails, TreePutFails
  <1>1. PICK d \in {dict, With(dict, k, v)}, S \in SUBSET Keys : dict' = Only(d, S)
    OBVIOUS
  <1>2. maybe' \in [Keys -> SUBSET Values] /\ v \in maybe'[k]
        /\ \A j \in Keys : maybe[j] \subseteq maybe'[j]
    BY DEF EngineTypeOK
  <1>3. /\ DOMAIN d \subseteq Keys
        /\ \A j \in DOMAIN d : d[j] \in Values /\ d[j] \in maybe'[j]
    <2>1. CASE d = dict
      BY <2>1, <1>2 DEF EngineTypeOK, ReadsRecentWrite
    <2>2. CASE d = With(dict, k, v)
      <3>1. /\ DOMAIN d = DOMAIN dict \cup {k} /\ d[k] = v
            /\ \A j \in DOMAIN dict : j # k => d[j] = dict[j]
        BY <2>2 DEF With
      <3>. QED BY <3>1, <1>2 DEF EngineTypeOK, ReadsRecentWrite
    <2>. QED BY <2>1, <2>2
  <1>4. /\ DOMAIN dict' \subseteq Keys
        /\ \A j \in DOMAIN dict' : dict'[j] \in Values /\ dict'[j] \in maybe'[j]
    BY <1>1, <1>3 DEF Only
  <1>5. EngineTypeOK'
    BY <1>2, <1>4, MayFailType DEF EngineTypeOK
  <1>6. SavedRecent'
    BY <1>2 DEF SavedRecent, EngineTypeOK
  <1>. QED BY <1>4, <1>5, <1>6 DEF ReadsRecentWrite

(* Removing a key from the tree, or failing to, with its deadline dropped. *)
LEMMA RemovalKeepsInv ==
  ASSUME EngineInv, NEW k \in Keys, ttls' = Without(ttls, k),
         TreeDelete(k) \/ TreeDeleteFails(k),
         absent' = absent \/ absent' = absent \cup {k},
         UNCHANGED <<file, saved, now, due, maybe>>
  PROVE  EngineInv'
  <1> USE DEF EngineInv
  <1>1. dict' = dict \/ dict' = Without(dict, k)
    BY DEF TreeDelete, TreeDeleteFails
  <1>2. /\ DOMAIN dict' \subseteq DOMAIN dict
        /\ \A j \in DOMAIN dict' : dict'[j] = dict[j]
    BY <1>1 DEF Without
  <1>3. /\ DOMAIN ttls' \subseteq DOMAIN ttls
        /\ \A j \in DOMAIN ttls' : ttls'[j] = ttls[j]
    BY DEF Without
  <1>4. faults' \in 0..MaxFaults
    BY MayFailType DEF TreeDelete, TreeDeleteFails, EngineTypeOK
  <1>5. ghosts' \subseteq Keys
    BY DEF TreeDelete, TreeDeleteFails, EngineTypeOK
  <1>6. EngineTypeOK'
    BY <1>2, <1>3, <1>4, <1>5 DEF EngineTypeOK
  <1>7. ReadsRecentWrite' /\ SavedRecent'
    BY <1>2 DEF ReadsRecentWrite, SavedRecent
  <1>. QED BY <1>6, <1>7

(* Steps that change neither the tree nor the deadlines.                   *)
LEMMA ReadKeepsInv ==
  ASSUME EngineInv, UNCHANGED <<dict, ttls, file, saved, due, maybe>>,
         absent' \subseteq Keys, ghosts' \subseteq Keys,
         faults' \in 0..MaxFaults, now' \in 0..MaxTime
  PROVE  EngineInv'
  BY DEF EngineInv, EngineTypeOK, ReadsRecentWrite, SavedRecent

LEMMA NukeKeepsInv ==
  ASSUME EngineInv, Nuke
  PROVE  EngineInv'
  BY EmptyDomain
  DEF EngineInv, EngineTypeOK, ReadsRecentWrite, SavedRecent, Nuke

LEMMA NukeFailsKeepsInv ==
  ASSUME EngineInv, NukeFails
  PROVE  EngineInv'
  <1> USE DEF EngineInv, NukeFails
  <1>1. saved' = dict \/ saved' = saved \/ saved' = EmptyMap
    OBVIOUS
  <1>2. file' \in {"closed", "removed"}
    BY DEF EngineTypeOK
  <1>3. EngineTypeOK'
    BY <1>1, <1>2, EmptyDomain, EngineAssumption DEF EngineTypeOK
  <1>4. SavedRecent'
    BY <1>1, <1>2, EmptyDomain DEF SavedRecent, ReadsRecentWrite
  <1>5. ReadsRecentWrite'
    BY DEF ReadsRecentWrite
  <1>. QED BY <1>3, <1>4, <1>5

LEMMA RestartKeepsInv ==
  ASSUME EngineInv, Restart
  PROVE  EngineInv'
  <1> USE DEF EngineInv, Restart
  <1> DEFINE d == IF file = "open" THEN dict ELSE saved
  <1>1. PICK S : dict' = Only(d, S)
    OBVIOUS
  <1>2. /\ DOMAIN d \subseteq Keys
        /\ \A j \in DOMAIN d : d[j] \in Values /\ d[j] \in maybe[j]
    BY DEF EngineTypeOK, ReadsRecentWrite, SavedRecent
  <1> HIDE DEF d
  <1>3. /\ DOMAIN dict' \subseteq Keys
        /\ \A j \in DOMAIN dict' : dict'[j] \in Values /\ dict'[j] \in maybe[j]
    BY <1>1, <1>2 DEF Only
  <1>. QED
    BY <1>3, EmptyDomain DEF EngineTypeOK, ReadsRecentWrite, SavedRecent

LEMMA NextKeepsInv ==
  ASSUME EngineInv, [EngineNext \/ Restart]_engineVars
  PROVE  EngineInv'
  <1>1. CASE Tick
    BY <1>1, ReadKeepsInv, EngineAssumption DEF Tick, EngineInv, EngineTypeOK
  <1>2. ASSUME NEW k \in Keys, NEW v \in Values, NEW ttl \in TTLs, Put(k, v, ttl)
        PROVE  EngineInv'
    BY <1>2, PutKeepsInv
  <1>3. ASSUME NEW k \in Keys, NEW v \in Values, PutFails(k, v)
        PROVE  EngineInv'
    BY <1>3, PutFailsKeepsInv
  <1>4. ASSUME NEW k \in Keys, GetExpired(k) \/ HasExpired(k)
        PROVE  EngineInv'
    BY <1>4, RemovalKeepsInv DEF GetExpired, HasExpired, KillExpired
  <1>5. ASSUME NEW k \in Keys, GetLive(k) \/ HasLive(k)
        PROVE  EngineInv'
    BY <1>5, ReadKeepsInv DEF GetLive, HasLive, Search, EngineInv, EngineTypeOK
  <1>6. ASSUME NEW k \in Keys, SearchFails(k)
        PROVE  EngineInv'
    BY <1>6, ReadKeepsInv, MayFailType DEF SearchFails, EngineInv, EngineTypeOK
  <1>7. ASSUME NEW k \in Keys, Delete(k) \/ DeleteFails(k)
        PROVE  EngineInv'
    BY <1>7, RemovalKeepsInv DEF Delete, DeleteFails
  <1>8. CASE ListKeys \/ Stats \/ UNCHANGED engineVars
    BY <1>8, ReadKeepsInv DEF ListKeys, Stats, EngineInv, EngineTypeOK
  <1>9. CASE ListKeysFails
    BY <1>9, ReadKeepsInv, MayFailType DEF ListKeysFails, EngineInv, EngineTypeOK
  <1>10. CASE Nuke \/ NukeFails
    BY <1>10, NukeKeepsInv, NukeFailsKeepsInv
  <1>11. CASE Restart
    BY <1>11, RestartKeepsInv
  <1>. HIDE DEF engineVars
  <1>. QED
    BY <1>1, <1>2, <1>3, <1>4, <1>5, <1>6, <1>7, <1>8, <1>9, <1>10, <1>11
    DEF EngineNext

(* The inductive invariant holds, with failures anywhere and restarts.     *)
THEOREM EngineInvariant == EngineSpecRestart => []EngineInv
  <1>1. EngineInit => EngineInv
    BY InitInv
  <1>2. EngineInv /\ [EngineNext \/ Restart]_engineVars => EngineInv'
    BY NextKeepsInv
  <1>. QED BY <1>1, <1>2, PTL DEF EngineSpecRestart

(* The engine's state is well-formed (EngineTypeOK).                       *)
THEOREM EngineTypeCorrect == EngineSpecRestart => []EngineTypeOK
  <1>1. EngineInv => EngineTypeOK
    BY DEF EngineInv
  <1>. QED BY <1>1, EngineInvariant, PTL

(* Whatever fails, and whatever Nuke and restarts do in between, Get reads the
   value acknowledged last or one whose Put failed since.                  *)
THEOREM ReadsRecentWriteCorrect == EngineSpecRestart => []ReadsRecentWrite
  <1>1. EngineInv => ReadsRecentWrite
    BY DEF EngineInv
  <1>. QED BY <1>1, EngineInvariant, PTL

-----------------------------------------------------------------------------
(* What a closed or removed file still holds is in the tree as well, or was lost
   from it by a failed call.                                               *)
SavedKnown == DOMAIN saved \subseteq DOMAIN dict \cup ghosts

GhostInv == TtlsHaveKeys /\ NoResurrection /\ SavedKnown

LEMMA GhostStep ==
  ASSUME EngineInv, GhostInv, [EngineNext \/ Restart]_engineVars
  PROVE  GhostInv'
  <1> USE DEF GhostInv, TtlsHaveKeys, NoResurrection, SavedKnown
  <1>0. file = "open" => DOMAIN saved = {}
    BY DEF EngineInv, SavedRecent
  <1>1. CASE Tick \/ ListKeys \/ Stats \/ ListKeysFails \/ UNCHANGED engineVars
    BY <1>1 DEF Tick, ListKeys, Stats, ListKeysFails
  <1>2. ASSUME NEW k \in Keys, NEW v \in Values, NEW ttl \in TTLs, Put(k, v, ttl)
        PROVE  GhostInv'
    <2>1. DOMAIN dict' = DOMAIN dict \cup {k}
      BY <1>2 DEF Put, TreePut, With
    <2>2. DOMAIN ttls' \subseteq DOMAIN ttls \cup {k}
      BY <1>2 DEF Put, With, Without
    <2>. QED BY <1>2, <2>1, <2>2 DEF Put, TreePut
  <1>3. ASSUME NEW k \in Keys, NEW v \in Values, PutFails(k, v)
        PROVE  GhostInv'
    <2>1. DOMAIN dict' \subseteq DOMAIN dict \cup {k}
      BY <1>3 DEF PutFails, TreePutFails, With, Only
    <2>2. ghosts' = ghosts \cup (DOMAIN dict \ DOMAIN dict')
      BY <1>3 DEF PutFails, TreePutFails
    <2>. QED BY <1>3, <2>1, <2>2 DEF PutFails
  <1>4. ASSUME NEW k \in Keys, ttls' = Without(ttls, k), UNCHANGED saved,
               TreeDelete(k) \/ (TreeDeleteFails(k) /\ absent' \in {absent, absent \cup {k}}),
               TreeDelete(k) => absent' = absent \cup {k}
        PROVE  GhostInv'
    <2>1. DOMAIN ttls' = DOMAIN ttls \ {k}
      BY <1>4 DEF Without
    <2>2. CASE TreeDelete(k) /\ file = "open"
      BY <1>0, <1>4, <2>1, <2>2 DEF TreeDelete, Without
    <2>3. CASE TreeDelete(k) /\ file # "open"
      <3>1. k \notin DOMAIN dict /\ DOMAIN dict' = DOMAIN dict /\ ghosts' = ghosts
        BY <2>3 DEF TreeDelete, Without
      <3>. QED BY <1>4, <2>1, <2>3, <3>1
    <2>4. CASE TreeDeleteFails(k) /\ absent' \in {absent, absent \cup {k}}
      <3>1. /\ DOMAIN dict \ {k} \subseteq DOMAIN dict'
            /\ DOMAIN dict' \subseteq DOMAIN dict
            /\ ghosts' = ghosts \cup {k}
        BY <2>4 DEF TreeDeleteFails, Without
      <3>. QED BY <1>4, <2>1, <2>4, <3>1
    <2>. QED BY <1>4, <2>2, <2>3, <2>4
  <1>5. ASSUME NEW k \in Keys, Delete(k) \/ DeleteFails(k) \/ KillExpired(k)
        PROVE  GhostInv'
    <2>1. TreeDelete(k) /\ TreeDeleteFails(k) => absent' \in {absent, absent \cup {k}}
      BY <1>5 DEF Delete, DeleteFails, KillExpired
    <2>2. CASE Delete(k) \/ KillExpired(k)
      BY <1>4, <2>2 DEF Delete, KillExpired
    <2>3. CASE DeleteFails(k)
      <3>1. DOMAIN ttls' = DOMAIN ttls \ {k}
        BY <2>3 DEF DeleteFails, Without
      <3>2. /\ DOMAIN dict \ {k} \subseteq DOMAIN dict'
            /\ DOMAIN dict' \subseteq DOMAIN dict
            /\ ghosts' = ghosts \cup {k}
        BY <2>3 DEF DeleteFails, TreeDeleteFails, Without
      <3>. QED BY <2>3, <3>1, <3>2 DEF DeleteFails
    <2>. QED BY <1>5, <2>2, <2>3
  <1>6. ASSUME NEW k \in Keys, Search(k) \/ SearchFails(k)
        PROVE  GhostInv'
    BY <1>6 DEF Search, SearchFails
  <1>7. CASE Nuke
    BY <1>7, EmptyDomain DEF Nuke
  <1>8. CASE NukeFails
    BY <1>8, EmptyDomain DEF NukeFails
  <1>9. CASE Restart
    <2>1. DOMAIN dict' \subseteq DOMAIN dict \cup DOMAIN saved
      BY <1>9 DEF Restart, Only
    <2>. QED BY <1>9, <2>1, EmptyDomain DEF Restart
  <1>. HIDE DEF engineVars, GhostInv
  <1>. QED
    BY <1>1, <1>2, <1>3, <1>5, <1>6, <1>7, <1>8, <1>9
    DEF EngineNext, GetExpired, HasExpired, GetLive, HasLive

THEOREM GhostInvariant == EngineSpecRestart => []GhostInv
  <1>1. EngineInit => GhostInv
    BY EmptyDomain DEF EngineInit, GhostInv, TtlsHaveKeys, NoResurrection, SavedKnown
  <1>2. EngineInv /\ GhostInv /\ [EngineNext \/ Restart]_engineVars => GhostInv'
    BY GhostStep
  <1>. QED BY <1>1, <1>2, EngineInvariant, PTL DEF EngineSpecRestart

(* A key the client was told is gone (deleted, expired on a read, nuked) stays
   gone until it is put again, across failed Nukes and restarts too, unless a
   call that failed left it behind.                                        *)
THEOREM NoResurrectionCorrect == EngineSpecRestart => []NoResurrection
  <1>1. GhostInv => NoResurrection
    BY DEF GhostInv
  <1>. QED BY <1>1, GhostInvariant, PTL

(* No deadline outlives its key, unless a failed call has hidden the key.  *)
THEOREM TtlsHaveKeysCorrect == EngineSpecRestart => []TtlsHaveKeys
  <1>1. GhostInv => TtlsHaveKeys
    BY DEF GhostInv
  <1>. QED BY <1>1, GhostInvariant, PTL

-----------------------------------------------------------------------------
(* Until something fails the file is open, and what fails is counted.      *)
OpenWhileSound == faults = 0 => file = "open"

(* The count of failures does not go down.                                 *)
LEMMA FaultsGrow ==
  ASSUME EngineInv, [EngineNext \/ Restart]_engineVars
  PROVE  faults' = faults \/ faults' = faults + 1
  <1>1. MayFail => faults' = faults \/ faults' = faults + 1
    BY DEF MayFail
  <1>2. CASE Tick \/ ListKeys \/ Stats \/ Nuke \/ Restart \/ UNCHANGED engineVars
    BY <1>2 DEF Tick, ListKeys, Stats, Nuke, Restart
  <1>3. CASE NukeFails \/ ListKeysFails
    BY <1>1, <1>3 DEF NukeFails, ListKeysFails
  <1>4. ASSUME NEW k \in Keys
        PROVE  /\ Delete(k) \/ KillExpired(k) \/ Search(k) \/ SearchFails(k) \/ DeleteFails(k)
                    => faults' = faults \/ faults' = faults + 1
               /\ \A v \in Values :
                    /\ PutFails(k, v) => faults' = faults \/ faults' = faults + 1
                    /\ \A ttl \in TTLs : Put(k, v, ttl) => faults' = faults
    BY <1>1 DEF Delete, KillExpired, Search, SearchFails, DeleteFails, PutFails, Put,
                TreeDelete, TreeDeleteFails, TreePut, TreePutFails
  <1>. HIDE DEF engineVars
  <1>. QED BY <1>2, <1>3, <1>4 DEF EngineNext, GetExpired, HasExpired, GetLive, HasLive

LEMMA OpenWhileSoundStep ==
  ASSUME EngineInv, OpenWhileSound, [EngineNext \/ Restart]_engineVars
  PROVE  OpenWhileSound'
  <1>1. faults \in Nat /\ (faults' = 0 => faults = 0)
    BY FaultsGrow DEF EngineInv, EngineTypeOK
  <1>2. NukeFails => faults' # 0
    BY <1>1 DEF NukeFails
  <1>3. file' = file \/ file' = "open" \/ NukeFails
    <2>. HIDE DEF engineVars
    <2>1. CASE UNCHANGED engineVars
      BY <2>1 DEF engineVars
    <2>2. CASE EngineNext \/ Restart
      BY <2>2 DEF EngineNext, Restart, Tick, Put, PutFails, GetExpired, HasExpired,
                  KillExpired, GetLive, HasLive, Search, SearchFails, Delete,
                  DeleteFails, ListKeys, ListKeysFails, Stats, Nuke
    <2>. QED BY <2>1, <2>2
  <1>. QED BY <1>1, <1>2, <1>3 DEF OpenWhileSound

LEMMA OpenWhileSoundInvariant == EngineSpecRestart => []OpenWhileSound
  <1>1. EngineInit => OpenWhileSound
    BY DEF EngineInit, OpenWhileSound
  <1>2. EngineInv /\ OpenWhileSound /\ [EngineNext \/ Restart]_engineVars
          => OpenWhileSound'
    BY OpenWhileSoundStep
  <1>. QED BY <1>1, <1>2, EngineInvariant, PTL DEF EngineSpecRestart

(* A step before which, and in which, nothing fails.                       *)
FaultFree == faults = 0 /\ faults' = 0 /\ file = "open"

LEMMA CannotFail ==
  ASSUME FaultFree
  PROVE  ~MayFail
  BY DEF FaultFree, MayFail

-----------------------------------------------------------------------------
(* No TTL is so long that its duration wraps.                              *)
NoWrap == \A ttl \in TTLs : ttl * Second < Half

LEMMA DurationExact ==
  ASSUME NoWrap, NEW ttl \in TTLs, ttl > 0
  PROVE  Duration(ttl) = ttl * Second
  <1> DEFINE t == ttl * Second
  <1>1. t \in Int /\ t >= 0 /\ t < Half /\ Half \in Nat \ {0}
    BY EngineAssumption DEF NoWrap
  <1> HIDE DEF t
  <1>2. (t + Half) % (2 * Half) = t + Half
    BY <1>1
  <1>. QED BY <1>1, <1>2 DEF Duration, t

(* The expiry times in memory are the deadlines of acknowledged Puts.      *)
DeadlinesMatch ==
  \A k \in DOMAIN ttls : k \in DOMAIN due /\ due[k] = ttls[k]

LEMMA DeadlinesStep ==
  ASSUME NoWrap, DeadlinesMatch, [EngineNext \/ Restart]_engineVars
  PROVE  DeadlinesMatch'
  <1> USE DEF DeadlinesMatch
  <1>1. ASSUME NEW k \in Keys, NEW v \in Values, NEW ttl \in TTLs, Put(k, v, ttl)
        PROVE  DeadlinesMatch'
    <2>1. ttl > 0 => Duration(ttl) = ttl * Second
      BY DurationExact
    <2>2. /\ k \in DOMAIN due'
          /\ due'[k] = IF ttl > 0 THEN now + ttl * Second ELSE Forever
          /\ \A j \in DOMAIN due : j # k => j \in DOMAIN due' /\ due'[j] = due[j]
      BY <1>1 DEF Put, With
    <2>3. /\ k \in DOMAIN ttls' => ttl > 0 /\ ttls'[k] = now + Duration(ttl)
          /\ \A j \in DOMAIN ttls' : j # k => j \in DOMAIN ttls /\ ttls'[j] = ttls[j]
      BY <1>1 DEF Put, With, Without
    <2>. QED BY <2>1, <2>2, <2>3
  <1>2. ASSUME NEW k \in Keys, ttls' = Without(ttls, k), due' = due
        PROVE  DeadlinesMatch'
    BY <1>2 DEF Without
  <1>3. ASSUME NEW k \in Keys, Delete(k) \/ DeleteFails(k) \/ KillExpired(k)
        PROVE  DeadlinesMatch'
    BY <1>2, <1>3 DEF Delete, DeleteFails, KillExpired
  <1>4. ASSUME ttls' = ttls, due' = due
        PROVE  DeadlinesMatch'
    BY <1>4
  <1>5. CASE Nuke \/ Restart
    BY <1>5, EmptyDomain DEF Nuke, Restart
  <1>6. CASE Tick \/ ListKeys \/ ListKeysFails \/ Stats \/ NukeFails \/ UNCHANGED engineVars
    BY <1>4, <1>6 DEF Tick, ListKeys, ListKeysFails, Stats, NukeFails
  <1>7. ASSUME NEW k \in Keys
        PROVE  /\ Search(k) \/ SearchFails(k) => DeadlinesMatch'
               /\ \A v \in Values : PutFails(k, v) => DeadlinesMatch'
    BY <1>4 DEF Search, SearchFails, PutFails
  <1>. HIDE DEF engineVars, DeadlinesMatch
  <1>. QED
    BY <1>1, <1>3, <1>5, <1>6, <1>7
    DEF EngineNext, GetExpired, HasExpired, GetLive, HasLive

(* If no TTL wraps, no key is taken for expired before the time promised by the
   Put acknowledged last, whatever fails.                                  *)
THEOREM ExpiresOnTimeCorrect ==
  ASSUME NoWrap
  PROVE  EngineSpecRestart => []ExpiresOnTime
  <1>1. EngineInit => DeadlinesMatch
    BY EmptyDomain DEF EngineInit, DeadlinesMatch
  <1>2. DeadlinesMatch /\ [EngineNext \/ Restart]_engineVars => DeadlinesMatch'
    BY DeadlinesStep
  <1>3. EngineInv /\ DeadlinesMatch => ExpiresOnTime
    BY EngineAssumption
    DEF EngineInv, EngineTypeOK, DeadlinesMatch, ExpiresOnTime, Expired
  <1>. QED BY <1>1, <1>2, <1>3, EngineInvariant, PTL DEF EngineSpecRestart

(* What is in force, spelled out.                                          *)
LEMMA LiveFacts ==
  /\ DOMAIN Live = {j \in DOMAIN dict : ~Expired(j)}
  /\ \A k \in DOMAIN Live :
        Live[k] = [value |-> dict[k],
                   due |-> IF k \in DOMAIN ttls THEN ttls[k] ELSE Forever]
  BY DEF Live

LEMMA TickRefines ==
  ASSUME EngineInv, Tick
  PROVE  TM!Tick
  <1> DEFINE S == {k \in DOMAIN Live : TM!InForce(Live[k], now')}
  <1>1. now' = now + 1 /\ now \in Int /\ UNCHANGED <<dict, ttls, ret>>
    BY DEF Tick, EngineInv, EngineTypeOK
  <1>2. ASSUME NEW k \in DOMAIN dict
        PROVE  k \in S <=> ~Expired(k)'
    <2>1. CASE k \in DOMAIN ttls
      <3>1. ttls[k] \in Int /\ ttls[k] # Forever
        BY <2>1, EngineAssumption DEF EngineInv, EngineTypeOK
      <3>2. k \in DOMAIN Live => Live[k].due = ttls[k]
        BY <2>1, LiveFacts
      <3>3. k \in DOMAIN Live <=> ~(now > ttls[k])
        BY <2>1, LiveFacts DEF Expired
      <3>4. Expired(k)' <=> now' > ttls[k]
        BY <2>1, <1>1 DEF Expired
      <3>. HIDE DEF Live
      <3>. QED BY <3>1, <3>2, <3>3, <3>4, <1>1 DEF TM!InForce
    <2>2. CASE k \notin DOMAIN ttls
      <3>1. k \in DOMAIN Live /\ Live[k].due = Forever
        BY <2>2, LiveFacts DEF Expired
      <3>2. ~Expired(k)'
        BY <2>2, <1>1 DEF Expired
      <3>. QED BY <3>1, <3>2 DEF TM!InForce
    <2>. QED BY <2>1, <2>2
  <1>3. S \subseteq DOMAIN dict /\ S \subseteq DOMAIN Live
    BY LiveFacts
  <1>4. {j \in DOMAIN dict' : ~Expired(j)'} = S
    BY <1>1, <1>2, <1>3
  <1> HIDE DEF S
  <1>5. Live' = [k \in S |-> Live[k]]
    BY <1>1, <1>3, <1>4, LiveFacts DEF Live
  <1>. QED BY <1>1, <1>5 DEF TM!Tick, TM!Restrict, S

LEMMA PutRefines ==
  ASSUME NoWrap, EngineInv, NEW k \in Keys, NEW v \in Values, NEW ttl \in TTLs,
         Put(k, v, ttl)
  PROVE  TM!Put(k, v, ttl)
  <1> DEFINE d == IF ttl > 0 THEN now + ttl * Second ELSE Forever
  <1>1. /\ DOMAIN dict' = DOMAIN dict \cup {k} /\ dict'[k] = v
        /\ \A j \in DOMAIN dict : j # k => dict'[j] = dict[j]
        /\ now' = now /\ Result("put", k, "ok")
    BY DEF Put, TreePut, With
  <1>2. now \in Int /\ ttl * Second \in Int /\ (ttl > 0 => ttl * Second >= 0)
    BY EngineAssumption DEF EngineInv, EngineTypeOK
  <1>3. \A j \in DOMAIN dict : j # k => /\ j \in DOMAIN ttls' <=> j \in DOMAIN ttls
                                        /\ j \in DOMAIN ttls => ttls'[j] = ttls[j]
    BY DEF Put, With, Without
  <1>4. /\ ~Expired(k)'
        /\ d = IF k \in DOMAIN ttls' THEN ttls'[k] ELSE Forever
    <2>1. CASE ttl > 0
      <3>1. ttls' = With(ttls, k, now + ttl * Second)
        BY <2>1, DurationExact DEF Put
      <3>2. k \in DOMAIN ttls' /\ ttls'[k] = now + ttl * Second
        BY <3>1 DEF With
      <3>3. ~(now > now + ttl * Second)
        BY <1>2, <2>1
      <3>. QED BY <1>1, <2>1, <3>2, <3>3 DEF Expired
    <2>2. CASE ~(ttl > 0)
      <3>1. k \notin DOMAIN ttls'
        BY <2>2 DEF Put, Without
      <3>. QED BY <2>2, <3>1 DEF Expired
    <2>. QED BY <2>1, <2>2
  <1>5. \A j \in DOMAIN dict : j # k => (Expired(j)' <=> Expired(j))
    BY <1>1, <1>3 DEF Expired
  <1> HIDE DEF d
  <1>6. {j \in DOMAIN dict' : ~Expired(j)'} = DOMAIN Live \cup {k}
    BY <1>1, <1>4, <1>5, LiveFacts
  <1>7. ASSUME NEW j \in DOMAIN Live \cup {k}
        PROVE  Live'[j] = IF j = k THEN [value |-> v, due |-> d] ELSE Live[j]
    <2>1. Live'[j] = [value |-> dict'[j],
                      due |-> IF j \in DOMAIN ttls' THEN ttls'[j] ELSE Forever]
      BY <1>6 DEF Live
    <2>2. CASE j = k
      BY <2>1, <2>2, <1>1, <1>4
    <2>3. CASE j # k
      BY <2>1, <2>3, <1>1, <1>3, LiveFacts
    <2>. QED BY <2>2, <2>3
  <1>8. Live' = [j \in DOMAIN Live \cup {k} |->
                   IF j = k THEN [value |-> v, due |-> d] ELSE Live[j]]
    BY <1>6, <1>7 DEF Live
  <1>. QED BY <1>1, <1>8 DEF TM!Put, TM!Result, Result, d

(* Taking a key and its deadline away takes it from what is in force.      *)
LEMMA LiveWithout ==
  ASSUME NEW k, dict' = Without(dict, k), ttls' = Without(ttls, k), now' = now
  PROVE  Live' = [j \in DOMAIN Live \ {k} |-> Live[j]]
  <1>1. /\ DOMAIN dict' = DOMAIN dict \ {k}
        /\ \A j \in DOMAIN dict' : dict'[j] = dict[j]
    BY DEF Without
  <1>2. ASSUME NEW j, j # k
        PROVE  /\ j \in DOMAIN ttls' <=> j \in DOMAIN ttls
               /\ j \in DOMAIN ttls => ttls'[j] = ttls[j]
    BY <1>2 DEF Without
  <1>3. ASSUME NEW j, j # k
        PROVE  Expired(j)' <=> Expired(j)
    <2>1. CASE j \in DOMAIN ttls
      BY <1>2, <1>3, <2>1 DEF Expired
    <2>2. CASE j \notin DOMAIN ttls
      BY <1>2, <1>3, <2>2 DEF Expired
    <2>. QED BY <2>1, <2>2
  <1>4. {j \in DOMAIN dict' : ~Expired(j)'} = DOMAIN Live \ {k}
    BY <1>1, <1>3, LiveFacts
  <1>5. ASSUME NEW j \in DOMAIN Live \ {k}
        PROVE  Live'[j] = Live[j]
    <2>1. j \in DOMAIN dict'
      BY <1>4
    <2>2. Live'[j] = [value |-> dict'[j],
                      due |-> IF j \in DOMAIN ttls' THEN ttls'[j] ELSE Forever]
      BY <1>4 DEF Live
    <2>3. dict'[j] = dict[j]
      BY <2>1, <1>1
    <2>4. (IF j \in DOMAIN ttls' THEN ttls'[j] ELSE Forever)
            = (IF j \in DOMAIN ttls THEN ttls[j] ELSE Forever)
      BY <1>2
    <2>. QED BY <2>2, <2>3, <2>4, LiveFacts
  <1>. QED BY <1>4, <1>5 DEF Live

LEMMA DeleteRefines ==
  ASSUME NEW k \in Keys, Delete(k)
  PROVE  TM!Delete(k)
  <1>1. Live' = [j \in DOMAIN Live \ {k} |-> Live[j]] /\ now' = now
    BY LiveWithout DEF Delete, TreeDelete
  <1>2. k \in DOMAIN Live => k \in DOMAIN dict
    BY LiveFacts
  <1>. QED
    BY <1>1, <1>2 DEF Delete, Result, TM!Delete, TM!Restrict, TM!Result

(* Removing an expired key changes nothing that is in force.               *)
LEMMA KillExpiredInvisible ==
  ASSUME FaultFree, NEW k \in Keys, KillExpired(k)
  PROVE  UNCHANGED <<Live, now>> /\ k \notin DOMAIN Live
  <1>1. TreeDelete(k)
    BY CannotFail DEF KillExpired, TreeDeleteFails
  <1>2. k \notin DOMAIN Live
    BY LiveFacts DEF KillExpired
  <1>3. Live' = [j \in DOMAIN Live \ {k} |-> Live[j]]
    BY <1>1, LiveWithout DEF KillExpired, TreeDelete
  <1>4. Live = [j \in DOMAIN Live |-> Live[j]]
    BY DEF Live
  <1>. QED BY <1>2, <1>3, <1>4 DEF KillExpired

LEMMA SameLive ==
  ASSUME UNCHANGED <<dict, ttls, now>>
  PROVE  UNCHANGED <<Live, now>>
  BY DEF Live, Expired

(* A restart keeps what is in force and forgets the deadlines.             *)
LEMMA RestartRefines ==
  ASSUME EngineInv, FaultFree, Restart
  PROVE  TM!Restart
  <1>1. dict' = Only(dict, Keys) /\ ttls' = EmptyMap
    BY DEF Restart, FaultFree
  <1>2. /\ DOMAIN dict' = DOMAIN dict
        /\ \A k \in DOMAIN dict : dict'[k] = dict[k]
    BY <1>1 DEF Only, EngineInv, EngineTypeOK
  <1>3. DOMAIN Live' = DOMAIN dict
    BY <1>1, <1>2, EmptyDomain DEF Live, Expired
  <1>4. \A k \in DOMAIN dict : Live'[k] = [value |-> dict[k], due |-> Forever]
    BY <1>1, <1>2, <1>3, EmptyDomain DEF Live
  <1>5. DOMAIN Live \subseteq DOMAIN dict /\ \A k \in DOMAIN Live : Live[k].value = dict[k]
    BY LiveFacts
  <1> HIDE DEF Live
  <1>. QED
    BY <1>3, <1>4, <1>5 DEF Restart, Result, TM!Restart, TM!Result

LEMMA SoundStepRefines ==
  ASSUME NoWrap, EngineInv, FaultFree, EngineNext \/ Restart
  PROVE  TM!Works
  <1>1. CASE Tick
    BY <1>1, TickRefines DEF TM!Works
  <1>2. ASSUME NEW k \in Keys, NEW v \in Values, NEW ttl \in TTLs, Put(k, v, ttl)
        PROVE  TM!Works
    BY <1>2, PutRefines DEF TM!Works
  <1>3. ASSUME NEW k \in Keys, Delete(k)
        PROVE  TM!Works
    BY <1>3, DeleteRefines DEF TM!Works
  <1>4. ASSUME NEW k \in Keys, GetExpired(k) \/ HasExpired(k)
        PROVE  TM!Works
    <2>1. UNCHANGED <<Live, now>> /\ k \notin DOMAIN Live
      BY <1>4, KillExpiredInvisible DEF GetExpired, HasExpired
    <2>2. CASE GetExpired(k)
      <3>1. TM!Get(k)
        BY <2>1, <2>2 DEF GetExpired, Result, TM!Get, TM!Result
      <3>. QED BY <3>1 DEF TM!Works
    <2>3. CASE HasExpired(k)
      <3>1. (k \in DOMAIN Live) = FALSE
        BY <2>1
      <3>2. TM!Has(k)
        BY <2>1, <2>3, <3>1 DEF HasExpired, Result, TM!Has, TM!Result
      <3>. QED BY <3>2 DEF TM!Works
    <2>. QED BY <1>4, <2>2, <2>3
  <1>5. ASSUME NEW k \in Keys, GetLive(k) \/ HasLive(k)
        PROVE  TM!Works
    <2>1. UNCHANGED <<Live, now>> /\ ~Expired(k)
      BY <1>5, SameLive DEF GetLive, HasLive, Search
    <2>2. /\ k \in DOMAIN Live <=> k \in DOMAIN dict
          /\ k \in DOMAIN Live => Live[k].value = dict[k]
      BY <2>1, LiveFacts
    <2>3. CASE GetLive(k)
      <3>1. (IF k \in DOMAIN Live THEN Live[k].value ELSE "notfound")
              = (IF k \in DOMAIN dict THEN dict[k] ELSE "notfound")
        BY <2>2
      <3>2. TM!Get(k)
        BY <2>1, <2>3, <3>1 DEF GetLive, Result, TM!Get, TM!Result
      <3>. QED BY <3>2 DEF TM!Works
    <2>4. CASE HasLive(k)
      <3>1. (k \in DOMAIN Live) = (k \in DOMAIN dict)
        BY <2>2
      <3>2. TM!Has(k)
        BY <2>1, <2>4, <3>1 DEF HasLive, Result, TM!Has, TM!Result
      <3>. QED BY <3>2 DEF TM!Works
    <2>. QED BY <1>5, <2>3, <2>4
  <1>6. CASE ListKeys
    <2>1. UNCHANGED <<Live, now>>
      BY <1>6, SameLive DEF ListKeys
    <2>2. Result("keys", 0, DOMAIN Live)
      BY <1>6, LiveFacts DEF ListKeys, Scanned, FaultFree
    <2>. QED BY <2>1, <2>2 DEF Result, TM!Works, TM!ListKeys, TM!Result
  <1>7. CASE Stats
    <2>1. UNCHANGED <<Live, now>>
      BY <1>7, SameLive DEF Stats
    <2>. QED BY <1>7, <2>1 DEF Stats, Result, TM!Works, TM!Stats
  <1>8. CASE Nuke
    <2>1. Live' = [k \in {} |-> Live[k]]
      BY <1>8, EmptyDomain DEF Nuke, Live
    <2>. QED BY <1>8, <2>1 DEF Nuke, Result, TM!Works, TM!Nuke, TM!Result, TM!Restrict
  <1>10. CASE Restart
    BY <1>10, RestartRefines DEF TM!Works
  <1>11. ~ListKeysFails /\ ~NukeFails
    BY CannotFail DEF ListKeysFails, NukeFails, FaultFree
  <1>12. ASSUME NEW k \in Keys
         PROVE  /\ ~SearchFails(k) /\ ~DeleteFails(k)
                /\ \A v \in Values : ~PutFails(k, v)
    BY CannotFail DEF SearchFails, DeleteFails, TreeDeleteFails, PutFails, TreePutFails
  <1>. HIDE DEF engineVars
  <1>. QED
    BY <1>1, <1>2, <1>3, <1>4, <1>5, <1>6, <1>7, <1>8, <1>10, <1>11, <1>12
    DEF EngineNext

LEMMA NextRefines ==
  ASSUME NoWrap, EngineInv, OpenWhileSound, [EngineNext \/ Restart]_engineVars
  PROVE  [TM!Next]_<<Live, now, ret, faults > 0>>
  <1>1. faults \in Nat /\ (faults' = faults \/ faults' = faults + 1)
    BY FaultsGrow DEF EngineInv, EngineTypeOK
  <1>2. CASE UNCHANGED engineVars
    BY <1>2, SameLive
  <1>3. CASE faults' > 0
    BY <1>3 DEF TM!Next
  <1>4. CASE (EngineNext \/ Restart) /\ ~(faults' > 0)
    <2>1. FaultFree /\ ~(faults > 0)
      BY <1>1, <1>4 DEF FaultFree, OpenWhileSound
    <2>2. TM!Works
      BY <1>4, <2>1, SoundStepRefines
    <2>. QED BY <2>1, <2>2 DEF TM!Next
  <1>. QED BY <1>2, <1>3, <1>4

(* If no TTL wraps, the engine with its lazy expiry implements the map whose
   entries vanish at their deadline, also across restarts, which forget the
   deadlines, for as long as no call fails.                                *)
THEOREM EngineRefinement ==
  ASSUME NoWrap
  PROVE  EngineSpecRestart => TTLMapSpec
  <1>1. EngineInit => TM!Init
    <2>. SUFFICES ASSUME EngineInit
                  PROVE  TM!Init
      OBVIOUS
    <2>1. Live = [j \in {} |-> [k \in {} |-> 0][j]]
      BY EmptyDomain DEF EngineInit, Live
    <2>. QED BY <2>1 DEF EngineInit, TM!Init, TM!Restrict
  <1>2. EngineInv /\ OpenWhileSound /\ [EngineNext \/ Restart]_engineVars
          => [TM!Next]_<<Live, now, ret, faults > 0>>
    BY NextRefines
  <1>. QED
    BY <1>1, <1>2, EngineInvariant, OpenWhileSoundInvariant, PTL
    DEF EngineSpecRestart, TTLMapSpec, TM!Spec

=============================================================================

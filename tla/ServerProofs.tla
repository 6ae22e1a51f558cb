---------------------------- MODULE ServerProofs ----------------------------
(***************************************************************************)
(* Proofs about the process, for every set of clients, kinds of connection, *)
(* lines, keys, values and demo entries, and any number of kills, panics   *)
(* and restarts.                                                           *)
(***************************************************************************)
EXTENDS Server, TLAPS

USE DEF process, engine, listeners, connections, handler, lock

(* Who is in e.mu, and who waits.                                          *)
LockInv ==
  /\ \A s \in Sessions : pc[s] \in {"wwait", "locked"} <=> wlock = s
  /\ main = "closing" <=> wlock = Main
  /\ readers = {s \in Sessions : pc[s] = "scan"}
  /\ \A s \in Sessions : pc[s] = "locked" => readers = {}

(* A session works on a line of its client from the moment it has received it
   until it has replied; only commands that update or look one key up lock e.mu
   for writing.                                                            *)
LineInv ==
  \A s \in Sessions :
    /\ line[s] \in Lines[s] \cup {NoLine}
    /\ line[s] = NoLine <=> pc[s] \in {"none", "upgrade", "read", "leave"}
    /\ pc[s] \in {"wwait", "locked"} => line[s].kind \in Updates \cup Looks
    /\ pc[s] \in {"rwait", "scan"} => line[s].kind \in Scans

CtlInv == ServerTypeOK /\ LockInv /\ LineInv

-----------------------------------------------------------------------------
(* The steps, by what they do to the lock and to the engine.               *)
MainStep ==
  \/ OpenEngine \/ CountKeys \/ (\E k \in Keys : SeedEntry(k)) \/ StartTCP \/ StartHTTP
  \/ ListenAndServe \/ Signal \/ StopWebSockets \/ StopHTTP \/ StopTCP \/ Restart

Talk(s) ==
  \/ \E k \in Kinds[s] : Connect(s, k)
  \/ Register(s) \/ HangUp(s) \/ EndLoop(s) \/ Leave(s)
  \/ \E l \in Lines[s] : Receive(s, l)
  \/ Help(s) \/ Reply(s)

EngineCall(s) == Look(s) \/ Update(s) \/ Nuke(s)

LEMMA StepCases ==
  ASSUME ServerNext
  PROVE  \/ MainStep \/ CallClose \/ CloseEngine \/ Die
         \/ \E s \in Sessions :
              \/ Talk(s) \/ Lock(s) \/ Locked(s) \/ RLock(s) \/ EngineCall(s)
              \/ ScanKey(s) \/ Scanned(s) \/ ScanFails(s)
  BY DEF ServerNext, Startup, Shutdown, Work, ClientStep, MainStep, Talk, EngineCall,
         Exit, Kill, Panic

LEMMA Answers ==
  /\ NoAnswer \in AnswerType /\ Done \in AnswerType /\ NotFound \in AnswerType
  /\ Failed \in AnswerType
  /\ \A S \in SUBSET Keys : Answer("ok", None, S) \in AnswerType
  BY DEF NoAnswer, Done, NotFound, Failed, Answer, AnswerType

LEMMA NoLineType == NoLine \in LineType /\ NoLine.kind = "none"
  BY DEF NoLine, Line, LineType, Scans, Updates, Looks

LEMMA EmptyType == Empty \in Contents
  BY DEF Empty, Contents

LEMMA CtlInit == ServerInit => CtlInv
  <1> SUFFICES ASSUME ServerInit
               PROVE  CtlInv
    OBVIOUS
  <1>1. ServerTypeOK
    <2>1. /\ kind \in [Sessions -> {"none", "tcp", "ws", "http"}]
          /\ pc \in [Sessions -> {"none", "upgrade", "read", "run", "wwait", "rwait",
                                  "locked", "scan", "reply", "leave"}]
      BY DEF ServerInit
    <2>2. /\ line \in [Sessions -> LineType]
          /\ left \in [Sessions -> SUBSET Keys]
          /\ out \in [Sessions -> AnswerType]
      BY NoLineType, Answers DEF ServerInit
    <2>3. tree \in Contents \cup {Hollow} /\ file \in Contents \cup {Hollow, Missing}
      BY EmptyType DEF ServerInit
    <2>4. /\ main = "open" /\ tcp = "off" /\ http = "off"
          /\ toSeed = {} /\ misread = FALSE /\ fileOpen = FALSE
          /\ linked = {} /\ wsConns = {} /\ wlock = Free /\ readers = {}
      BY DEF ServerInit
    <2>. QED BY <2>1, <2>2, <2>3, <2>4 DEF ServerTypeOK
  <1>2. \A s \in Sessions : pc[s] = "none" /\ line[s] = NoLine
    BY DEF ServerInit
  <1>3. LockInv
    <2>1. main = "open" /\ wlock = Free /\ readers = {}
      BY DEF ServerInit
    <2>. QED BY <1>2, <2>1, ServerAssumption DEF LockInv
  <1>4. LineInv
    BY <1>2 DEF LineInv
  <1>. QED BY <1>1, <1>3, <1>4 DEF CtlInv

(* What an engine call does.                                               *)
LEMMA CallEffect ==
  ASSUME CtlInv, NEW s \in Sessions, EngineCall(s)
  PROVE  /\ tree' \in Contents \cup {Hollow}
         /\ file' \in Contents \cup {Hollow, Missing}
         /\ fileOpen' \in BOOLEAN
         /\ \E answer \in AnswerType : ReturnUnlocked(s, answer)
  <1> USE DEF CtlInv, ServerTypeOK
  <1>1. line[s].kind \in Looks \cup {"shove", "yeet"} =>
          line[s].key \in Keys /\ line[s].value \in Values \cup {None}
    BY ServerAssumption, NoLineType DEF LineInv, LineType, Looks
  <1>2. CASE Look(s)
    <2>1. tree # Hollow => Sight(tree, line[s]) \in AnswerType
      <3>1. SUFFICES ASSUME tree # Hollow, tree[line[s].key] # None
                     PROVE  Answer("ok", IF line[s].kind = "yoink" THEN tree[line[s].key] ELSE None, {}) \in AnswerType
        BY Answers DEF Sight
      <3>2. tree[line[s].key] \in Values
        BY <1>1, <1>2, <3>1 DEF Look, Contents
      <3>. QED BY <3>2 DEF Answer, AnswerType
    <2>. QED BY <1>2, <2>1, Answers DEF Look
  <1>3. CASE Update(s)
    <2>1. line[s].kind \in {"shove", "yeet"}
      BY <1>3 DEF Update
    <2>2. tree # Hollow => Assigned(s) \in Contents
      BY <1>1, <2>1 DEF Assigned, Contents
    <2>. QED BY <1>3, <2>2, Answers DEF Update, Assign, AssignFails
  <1>4. CASE Nuke(s)
    BY <1>4, EmptyType, Answers DEF Nuke
  <1>. QED BY <1>2, <1>3, <1>4 DEF EngineCall

-----------------------------------------------------------------------------
(* One lemma per group of steps: they keep the control of the process sound. *)
LEMMA MainKeepsCtl ==
  ASSUME CtlInv, MainStep
  PROVE  CtlInv'
  <1> USE DEF CtlInv, Becomes
  <1>1. /\ UNCHANGED <<handler, lock>>
        /\ main' = "closing" <=> main = "closing"
    BY DEF MainStep, OpenEngine, CountKeys, SeedEntry, StartTCP, StartHTTP, ListenAndServe,
           Signal, StopWebSockets, StopHTTP, StopTCP, Restart
  <1>2. LockInv' /\ LineInv'
    BY <1>1 DEF LockInv, LineInv
  <1>3. ServerTypeOK'
    <2>1. CASE OpenEngine
      BY <2>1, EmptyType DEF OpenEngine, ServerTypeOK
    <2>2. CASE CountKeys
      <3>1. /\ main' = "seed" /\ UNCHANGED <<engine, listeners, connections, handler, lock>>
            /\ toSeed' = DOMAIN Demo \/ toSeed' = toSeed
            /\ misread' = TRUE \/ misread' = misread
        BY <2>2 DEF CountKeys, LooksEmpty
      <3>2. toSeed' \subseteq DOMAIN Demo /\ misread' \in BOOLEAN
        BY <3>1 DEF ServerTypeOK
      <3>3. UNCHANGED <<tree, file, fileOpen, tcp, http, kind, linked, wsConns,
                        pc, line, left, out, wlock, readers>>
        BY <3>1
      <3>. QED BY <3>1, <3>2, <3>3 DEF ServerTypeOK
    <2>3. ASSUME NEW k \in Keys, SeedEntry(k)
          PROVE  ServerTypeOK'
      <3>1. tree # Hollow => [tree EXCEPT ![k] = Demo[k]] \in Contents
        BY <2>3, CommandsAssumption DEF SeedEntry, ServerTypeOK, Contents
      <3>. QED BY <2>3, <3>1 DEF SeedEntry, ServerTypeOK
    <2>4. CASE StartTCP \/ StartHTTP \/ ListenAndServe \/ Signal
      <3>1. CASE StartTCP \/ StartHTTP
        BY <3>1 DEF StartTCP, StartHTTP, ServerTypeOK
      <3>2. CASE ListenAndServe \/ Signal
        BY <3>2 DEF ListenAndServe, Signal, ServerTypeOK
      <3>. QED BY <2>4, <3>1, <3>2
    <2>5. CASE StopWebSockets \/ StopHTTP \/ StopTCP \/ Restart
      BY <2>5 DEF StopWebSockets, StopHTTP, StopTCP, Restart, ServerTypeOK
    <2>. QED BY <2>1, <2>2, <2>3, <2>4, <2>5 DEF MainStep
  <1>. QED BY <1>2, <1>3

LEMMA DieKeepsCtl ==
  ASSUME CtlInv, Die
  PROVE  CtlInv'
  <1>1. file' \in Contents \cup {Hollow, Missing}
    <2> USE DEF CtlInv, ServerTypeOK
    <2>1. ASSUME NEW k, NEW v \in Values \cup {None}, tree # Hollow
          PROVE  CutShort(k, v) \subseteq Contents \cup {Hollow, Missing}
      <3>1. [tree EXCEPT ![k] = v] \in Contents
        BY <2>1 DEF Contents
      <3>2. Torn(file, k, v) \subseteq Contents
        BY DEF Torn
      <3>. QED BY <3>1, <3>2 DEF CutShort
    <2>2. \A s \in Sessions : line[s].value \in Values \cup {None}
      BY DEF LineType
    <2>3. \A k \in toSeed : Demo[k] \in Values
      BY CommandsAssumption
    <2>. QED BY <2>1, <2>2, <2>3 DEF Die, Damage
  <1>2. ServerTypeOK'
    BY <1>1, EmptyType, NoLineType, Answers DEF Die, CtlInv, ServerTypeOK
  <1>3. LockInv' /\ LineInv'
    BY ServerAssumption DEF Die, LockInv, LineInv
  <1>. QED BY <1>2, <1>3 DEF CtlInv

LEMMA TalkKeepsCtl ==
  ASSUME CtlInv, NEW s \in Sessions, Talk(s)
  PROVE  CtlInv'
  <1> USE DEF CtlInv, At
  <1>1. /\ UNCHANGED <<process, engine, lock>>
        /\ pc' \in [Sessions -> {"none", "upgrade", "read", "run", "wwait", "rwait",
                                 "locked", "scan", "reply", "leave"}]
        /\ \A t \in Sessions : pc'[t] # pc[t] =>
             {pc[t], pc'[t]} \cap {"wwait", "rwait", "locked", "scan"} = {}
        /\ \A t \in Sessions \ {s} : pc'[t] = pc[t]
    BY DEF Talk, Connect, Register, HangUp, EndLoop, Leave, Receive, Help, Reply, ServerTypeOK
  <1>2. LockInv'
    BY <1>1 DEF LockInv
  <1>3. ServerTypeOK'
    <2>1. CASE \E k \in Kinds[s] : Connect(s, k)
      BY <2>1, <1>1, ServerAssumption DEF Connect, ServerTypeOK
    <2>2. CASE Register(s) \/ HangUp(s) \/ EndLoop(s)
      BY <2>2, <1>1 DEF Register, HangUp, EndLoop, ServerTypeOK
    <2>3. CASE Leave(s)
      BY <2>3, <1>1 DEF Leave, ServerTypeOK
    <2>4. CASE \E l \in Lines[s] : Receive(s, l)
      BY <2>4, <1>1, ServerAssumption DEF Receive, ServerTypeOK
    <2>5. CASE Help(s) \/ Reply(s)
      BY <2>5, <1>1, NoLineType, Answers DEF Help, Reply, ServerTypeOK
    <2>. QED BY <2>1, <2>2, <2>3, <2>4, <2>5 DEF Talk
  <1>4. LineInv'
    <2> SUFFICES ASSUME NEW t \in Sessions
                 PROVE  /\ line'[t] \in Lines[t] \cup {NoLine}
                        /\ line'[t] = NoLine <=> pc'[t] \in {"none", "upgrade", "read", "leave"}
                        /\ pc'[t] \in {"wwait", "locked"} => line'[t].kind \in Updates \cup Looks
                        /\ pc'[t] \in {"rwait", "scan"} => line'[t].kind \in Scans
      BY DEF LineInv
    <2>1. CASE t # s
      <3>1. pc'[t] = pc[t] /\ line'[t] = line[t]
        BY <2>1, <1>1 DEF Talk, Connect, Register, HangUp, EndLoop, Leave, Receive, Help, Reply,
                          ServerTypeOK
      <3>. QED BY <3>1 DEF LineInv
    <2>2. CASE t = s /\ \E l \in Lines[s] : Receive(s, l)
      BY <2>2, ServerAssumption, NoLineType DEF Receive, ServerTypeOK
    <2>3. CASE t = s /\ Reply(s)
      BY <2>3 DEF Reply, ServerTypeOK
    <2>4. CASE t = s /\ Help(s)
      BY <2>4 DEF Help, ServerTypeOK, LineInv
    <2>5. CASE t = s /\ \E k \in Kinds[s] : Connect(s, k)
      BY <2>5 DEF Connect, ServerTypeOK, LineInv
    <2>6. CASE t = s /\ (Register(s) \/ HangUp(s) \/ EndLoop(s) \/ Leave(s))
      BY <2>6 DEF Register, HangUp, EndLoop, Leave, ServerTypeOK, LineInv
    <2>. QED BY <2>1, <2>2, <2>3, <2>4, <2>5, <2>6 DEF Talk
  <1>. QED BY <1>2, <1>3, <1>4

(* Lock, RLock and the end of the wait for the readers.                    *)
LEMMA LockKeepsCtl ==
  ASSUME CtlInv, NEW s \in Sessions, Lock(s) \/ Locked(s) \/ RLock(s)
  PROVE  CtlInv'
  <1> USE DEF CtlInv, At
  <1>1. ServerTypeOK'
    BY DEF Lock, Locked, RLock, ServerTypeOK
  <1>2. LineInv'
    BY DEF Lock, Locked, RLock, LineInv, ServerTypeOK
  <1>3. LockInv'
    <2>1. CASE Lock(s)
      BY <2>1, ServerAssumption DEF Lock, LockInv, ServerTypeOK
    <2>2. CASE Locked(s)
      BY <2>2 DEF Locked, LockInv, ServerTypeOK
    <2>3. CASE RLock(s)
      BY <2>3, ServerAssumption DEF RLock, LockInv, ServerTypeOK
    <2>. QED BY <2>1, <2>2, <2>3
  <1>. QED BY <1>1, <1>2, <1>3

(* A writer unlocks and goes on at `next'; the waiting readers are let in. *)
LEMMA UnlockEffect ==
  ASSUME CtlInv, NEW next \in [Sessions -> {"none", "upgrade", "read", "run", "wwait",
                                            "rwait", "locked", "scan", "reply", "leave"}],
         Unlock(next)
  PROVE  /\ wlock' = Free /\ readers' = {s \in Sessions : pc[s] = "rwait"}
         /\ DOMAIN pc' = Sessions
         /\ \A s \in Sessions : pc'[s] = IF pc[s] = "rwait" THEN "scan" ELSE next[s]
         /\ pc' \in [Sessions -> {"none", "upgrade", "read", "run", "wwait", "rwait",
                                  "locked", "scan", "reply", "leave"}]
  BY DEF Unlock, ReleasedTo, Waiting

LEMMA CallKeepsCtl ==
  ASSUME CtlInv, NEW s \in Sessions, EngineCall(s)
  PROVE  CtlInv'
  <1> USE DEF CtlInv
  <1>1. PICK answer \in AnswerType : ReturnUnlocked(s, answer)
    BY CallEffect
  <1> DEFINE next == [pc EXCEPT ![s] = "reply"]
  <1>2. /\ next \in [Sessions -> {"none", "upgrade", "read", "run", "wwait", "rwait",
                                  "locked", "scan", "reply", "leave"}]
        /\ next[s] = "reply" /\ \A t \in Sessions \ {s} : next[t] = pc[t]
    BY DEF ServerTypeOK
  <1>3. /\ pc[s] = "locked" /\ Unlock(next)
        /\ out' = [out EXCEPT ![s] = answer]
        /\ UNCHANGED <<process, listeners, connections, line, left>>
    BY <1>1 DEF ReturnUnlocked
  <1> HIDE DEF next
  <1>4. ServerTypeOK'
    BY <1>2, <1>3, UnlockEffect, CallEffect DEF ServerTypeOK
  <1>5. LineInv'
    BY <1>2, <1>3, UnlockEffect DEF LineInv
  <1>6. LockInv'
    <2>1. main # "closing" /\ wlock = s /\ readers = {}
      BY <1>3, ServerAssumption DEF LockInv
    <2>2. \A t \in Sessions : pc[t] \notin {"wwait", "locked"} \/ t = s
      BY <2>1 DEF LockInv
    <2>3. \A t \in Sessions : pc'[t] \notin {"wwait", "locked"}
      BY <1>2, <1>3, <2>2, UnlockEffect
    <2>4. \A t \in Sessions : pc'[t] = "scan" <=> pc[t] = "rwait"
      BY <1>2, <1>3, <2>1, UnlockEffect DEF LockInv
    <2>5. wlock' = Free /\ readers' = {t \in Sessions : pc'[t] = "scan"}
      BY <1>2, <1>3, <2>4, UnlockEffect
    <2>6. \A t \in Sessions : pc'[t] # "locked"
      BY <2>3
    <2>7. UNCHANGED main
      BY <1>3
    <2> HIDE DEF CtlInv
    <2>. QED BY <2>1, <2>3, <2>5, <2>6, <2>7, ServerAssumption DEF LockInv
  <1>. QED BY <1>4, <1>5, <1>6

LEMMA CloseKeepsCtl ==
  ASSUME CtlInv, CallClose \/ CloseEngine
  PROVE  CtlInv'
  <1> USE DEF CtlInv, Becomes
  <1>1. CASE CallClose
    <2>1. ServerTypeOK' /\ LineInv'
      BY <1>1 DEF CallClose, ServerTypeOK, LineInv
    <2>2. LockInv'
      BY <1>1, ServerAssumption DEF CallClose, LockInv
    <2>. QED BY <2>1, <2>2
  <1>2. CASE CloseEngine
    <2>1. /\ wlock = Main /\ readers = {} /\ Unlock(pc)
          /\ \A s \in Sessions : pc[s] \notin {"wwait", "locked", "scan"}
      BY <1>2, ServerAssumption DEF CloseEngine, LockInv
    <2>2. /\ wlock' = Free /\ readers' = {s \in Sessions : pc[s] = "rwait"}
          /\ \A s \in Sessions : pc'[s] = IF pc[s] = "rwait" THEN "scan" ELSE pc[s]
          /\ pc' \in [Sessions -> {"none", "upgrade", "read", "run", "wwait", "rwait",
                                   "locked", "scan", "reply", "leave"}]
      BY <2>1, UnlockEffect DEF ServerTypeOK
    <2>3. ServerTypeOK'
      BY <1>2, <2>2 DEF CloseEngine, ServerTypeOK
    <2>4. LineInv'
      BY <1>2, <2>2 DEF CloseEngine, LineInv
    <2>5. LockInv'
      BY <1>2, <2>1, <2>2, ServerAssumption DEF CloseEngine, LockInv
    <2>. QED BY <2>3, <2>4, <2>5
  <1>. QED BY <1>1, <1>2

LEMMA ScanKeepsCtl ==
  ASSUME CtlInv, NEW s \in Sessions, ScanKey(s) \/ Scanned(s) \/ ScanFails(s)
  PROVE  CtlInv'
  <1> USE DEF CtlInv, At
  <1>1. CASE ScanKey(s)
    <2>1. PICK k \in left[s] :
            /\ left' = [left EXCEPT ![s] = @ \ {k}]
            /\ out' = [out EXCEPT ![s].keys = IF tree[k] = None THEN @ ELSE @ \cup {k}]
      BY <1>1 DEF ScanKey
    <2>2. out' \in [Sessions -> AnswerType] /\ left' \in [Sessions -> SUBSET Keys]
      BY <2>1 DEF ServerTypeOK, AnswerType
    <2>. QED BY <1>1, <2>2 DEF ScanKey, ServerTypeOK, LockInv, LineInv
  <1>2. CASE Scanned(s) \/ ScanFails(s)
    <2>1. PICK answer \in AnswerType : EndScan(s, answer)
      BY <1>2, Answers DEF Scanned, ScanFails, ServerTypeOK, AnswerType
    <2>2. ServerTypeOK' /\ LineInv'
      BY <2>1 DEF EndScan, ServerTypeOK, LineInv
    <2>3. LockInv'
      BY <2>1 DEF EndScan, ServerTypeOK, LockInv
    <2>. QED BY <2>2, <2>3
  <1>. QED BY <1>1, <1>2

LEMMA CtlStep ==
  ASSUME CtlInv, [ServerNext]_serverVars
  PROVE  CtlInv'
  <1>1. CASE UNCHANGED serverVars
    BY <1>1 DEF serverVars, CtlInv, ServerTypeOK, LockInv, LineInv
  <1>. QED BY <1>1, StepCases, MainKeepsCtl, DieKeepsCtl, TalkKeepsCtl, LockKeepsCtl,
              CallKeepsCtl, CloseKeepsCtl, ScanKeepsCtl

(* The lock of e.mu, the control of the sessions and the state of main agree, as
   Go's RWMutex, the handlers and cmdServe keep them.                      *)
THEOREM CtlInvariant == ServerSpec => []CtlInv
  <1>. QED BY CtlInit, CtlStep, PTL DEF ServerSpec

(* The process's state stays well-formed, whatever main.go, the servers and
   the handlers do.                                                        *)
THEOREM ServerTypeCorrect == ServerSpec => []ServerTypeOK
  <1>1. CtlInv => ServerTypeOK
    BY DEF CtlInv
  <1>. QED BY <1>1, CtlInvariant, PTL

(* Whoever changes the tree is alone with it: e.mu keeps the others out.   *)
THEOREM WritersAloneCorrect == ServerSpec => []WritersAlone
  <1>1. CtlInv => WritersAlone
    BY ServerAssumption DEF CtlInv, LockInv, WritersAlone
  <1>. QED BY <1>1, CtlInvariant, PTL

-----------------------------------------------------------------------------
(* Before the servers are started, and after the process has ended, there are
   no connections; only the seeding has demo entries to put, and it has found
   none of their keys, unless the count has failed.                        *)
StartInv ==
  /\ main \in {"open", "count", "seed", "gone"} =>
       tcp = "off" /\ http = "off" /\ \A s \in Sessions : pc[s] = "none"
  /\ toSeed # {} \/ misread => main = "seed"
  /\ main = "seed" /\ ~misread /\ tree # Hollow => \A k \in toSeed : tree[k] = None

(* The file holds what memory holds until engine.Close, except that a new root
   page is not written before the first update.                            *)
FileInv ==
  Running =>
    /\ file # Missing
    /\ tree = Hollow => file = Hollow
    /\ fileOpen => file = tree \/ (tree = Empty /\ file = Hollow)
    /\ main # "exit" => fileOpen

(* A scan has collected the keys of the tree, as it is now, up to where it is. *)
ScanInv ==
  \A s \in Sessions :
    /\ pc[s] \notin {"scan", "reply"} => out[s] = NoAnswer
    /\ pc[s] \in {"run", "rwait"} /\ line[s].kind \in Scans => left[s] = Keys
    /\ pc[s] = "scan" =>
         IF tree = Hollow THEN left[s] = Keys /\ out[s].keys = {}
                          ELSE out[s].keys = Present(tree) \ left[s]

ServerInv == CtlInv /\ StartInv /\ FileInv /\ ScanInv

LEMMA ServerInvInit == ServerInit => ServerInv
  BY CtlInit DEF ServerInit, ServerInv, StartInv, FileInv, ScanInv, Running

(* While a session is connected the process is past seeding.               *)
LEMMA Connected ==
  ASSUME CtlInv, StartInv, NEW s \in Sessions, pc[s] # "none"
  PROVE  main \notin {"open", "count", "seed", "gone"} /\ toSeed = {} /\ ~misread /\ Running
  BY DEF StartInv, Running, CtlInv, ServerTypeOK

LEMMA StartStep ==
  ASSUME ServerInv, [ServerNext]_serverVars
  PROVE  StartInv'
  <1> USE DEF ServerInv, StartInv, Becomes
  <1>1. CASE UNCHANGED serverVars
    BY <1>1 DEF serverVars
  <1>2. CASE OpenEngine \/ ListenAndServe \/ Signal \/ StopWebSockets \/ StopHTTP \/ StopTCP
               \/ Restart \/ StartHTTP \/ StartTCP
    BY <1>2 DEF OpenEngine, ListenAndServe, Signal, StopWebSockets, StopHTTP, StopTCP, Restart,
                StartHTTP, StartTCP
  <1>3. CASE CountKeys
    BY <1>3, CommandsAssumption DEF CountKeys, LooksEmpty, Empty
  <1>4. ASSUME NEW k \in Keys, SeedEntry(k)
        PROVE  StartInv'
    <2>1. toSeed \subseteq Keys /\ tree \in Contents \cup {Hollow}
      BY CommandsAssumption DEF CtlInv, ServerTypeOK
    <2>2. tree # Hollow => \A j \in Keys \ {k} : tree'[j] = tree[j]
      BY <1>4, <2>1 DEF SeedEntry, Contents
    <2>. QED BY <1>4, <2>1, <2>2 DEF SeedEntry
  <1>5. CASE CallClose \/ CloseEngine
    BY <1>5 DEF CallClose, CloseEngine
  <1>6. CASE Die
    BY <1>6 DEF Die
  <1>7. ASSUME NEW s \in Sessions, NEW k \in Kinds[s], Connect(s, k)
        PROVE  StartInv'
    BY <1>7 DEF Connect, CtlInv, ServerTypeOK
  <1>8. ASSUME NEW s \in Sessions, HangUp(s)
        PROVE  StartInv'
    BY <1>8 DEF HangUp
  <1>9. ASSUME NEW s \in Sessions,
               \/ Register(s) \/ EndLoop(s) \/ Leave(s)
               \/ (\E l \in Lines[s] : Receive(s, l)) \/ Help(s) \/ Reply(s)
               \/ Lock(s) \/ Locked(s) \/ RLock(s) \/ EngineCall(s)
               \/ ScanKey(s) \/ Scanned(s) \/ ScanFails(s)
        PROVE  StartInv'
    <2>1. UNCHANGED process /\ pc[s] # "none"
      <3>1. CASE EngineCall(s)
        BY <3>1, CallEffect DEF ReturnUnlocked
      <3>. QED BY <1>9, <3>1 DEF At, Register, EndLoop, Leave, Receive, Help, Reply, Lock, Locked,
                  RLock, ScanKey, Scanned, ScanFails, EndScan
    <2>. QED BY <2>1, Connected
  <1>. QED BY <1>1, <1>2, <1>3, <1>4, <1>5, <1>6, <1>7, <1>8, <1>9, StepCases
           DEF MainStep, Talk

LEMMA FileStep ==
  ASSUME ServerInv, [ServerNext]_serverVars
  PROVE  FileInv'
  <1> USE DEF ServerInv, FileInv, Becomes, Running
  <1>1. CASE UNCHANGED engine /\ (main' = main \/ (main \notin {"open", "gone", "exit"} /\ main' # "exit")
                                   \/ main' \in {"open", "gone"})
    BY <1>1 DEF Running
  <1>2. CASE OpenEngine
    BY <1>2, ServerAssumption, EmptyType DEF OpenEngine, CtlInv, ServerTypeOK
  <1>3. ASSUME NEW k \in Keys, SeedEntry(k)
        PROVE  FileInv'
    <2>1. tree # Hollow => [tree EXCEPT ![k] = Demo[k]] \in Contents
      BY <1>3, CommandsAssumption DEF SeedEntry, CtlInv, ServerTypeOK, Contents
    <2>. QED BY <1>3, <2>1, ServerAssumption DEF SeedEntry
  <1>4. CASE CloseEngine
    BY <1>4, ServerAssumption DEF CloseEngine, CtlInv, ServerTypeOK
  <1>5. CASE Die
    BY <1>5 DEF Die
  <1>6. ASSUME NEW s \in Sessions, EngineCall(s)
        PROVE  FileInv'
    <2>1. pc[s] = "locked" /\ UNCHANGED process
      BY <1>6, CallEffect DEF ReturnUnlocked
    <2>2. Running
      BY <2>1, Connected
    <2>3. CASE Look(s)
      BY <2>1, <2>2, <2>3 DEF Look
    <2>4. CASE Nuke(s)
      BY <2>1, <2>2, <2>4, ServerAssumption, EmptyType DEF Nuke
    <2>5. CASE Update(s)
      <3>1. tree # Hollow => Assigned(s) \in Contents
        <4>1. /\ line[s] \in Lines[s] \cup {NoLine}
              /\ line[s].kind \in {"shove", "yeet"}
              /\ line[s].value \in Values \cup {None}
          BY <2>5 DEF Update, CtlInv, LineInv, ServerTypeOK, LineType
        <4>. QED BY <4>1 DEF Assigned, Contents, CtlInv, ServerTypeOK
      <3>. QED BY <2>1, <2>2, <2>5, <3>1, ServerAssumption DEF Update, Assign, AssignFails, Degraded
    <2>. QED BY <1>6, <2>3, <2>4, <2>5 DEF EngineCall
  <1>7. ASSUME UNCHANGED engine, main' = main
        PROVE  FileInv'
    BY <1>7
  <1>8. ASSUME NEW s \in Sessions,
               Talk(s) \/ Lock(s) \/ Locked(s) \/ RLock(s) \/ ScanKey(s) \/ Scanned(s) \/ ScanFails(s)
        PROVE  UNCHANGED engine /\ main' = main
    BY <1>8 DEF Talk, Connect, Register, HangUp, EndLoop, Leave, Receive, Help, Reply, Lock, Locked,
                RLock, ScanKey, Scanned, ScanFails, EndScan
  <1>9. ASSUME CountKeys \/ StartTCP \/ StartHTTP \/ ListenAndServe \/ Signal \/ StopWebSockets
                 \/ StopHTTP \/ StopTCP \/ Restart \/ CallClose \/ UNCHANGED serverVars
        PROVE  FileInv'
    BY <1>1, <1>9 DEF CountKeys, StartTCP, StartHTTP, ListenAndServe, Signal, StopWebSockets,
                      StopHTTP, StopTCP, Restart, CallClose, serverVars
  <1>. QED BY <1>2, <1>3, <1>4, <1>5, <1>6, <1>7, <1>8, <1>9, StepCases DEF MainStep

(* The lock keeps the tree as it is while anybody scans it.                *)
LEMMA ScanStep ==
  ASSUME ServerInv, [ServerNext]_serverVars
  PROVE  ScanInv'
  <1> USE DEF ServerInv, Becomes, At
  <1>1. /\ pc \in [Sessions -> {"none", "upgrade", "read", "run", "wwait", "rwait",
                                "locked", "scan", "reply", "leave"}]
        /\ out \in [Sessions -> AnswerType] /\ left \in [Sessions -> SUBSET Keys]
        /\ line \in [Sessions -> LineType] /\ tree \in Contents \cup {Hollow}
    BY DEF CtlInv, ServerTypeOK
  <1>2. ASSUME MainStep \/ CallClose \/ UNCHANGED serverVars
        PROVE  ScanInv'
    <2>1. UNCHANGED handler /\ (UNCHANGED tree \/ \A s \in Sessions : pc[s] = "none")
      BY <1>2 DEF MainStep, OpenEngine, CountKeys, SeedEntry, StartTCP, StartHTTP, ListenAndServe,
                  Signal, StopWebSockets, StopHTTP, StopTCP, Restart, CallClose, serverVars, StartInv
    <2>. QED BY <2>1 DEF ScanInv
  <1>3. CASE Die
    BY <1>3 DEF Die, ScanInv
  (* Those a writer lets in find the tree as it is, and none of it collected. *)
  <1>4. ASSUME NEW next \in [Sessions -> {"none", "upgrade", "read", "run", "wwait", "rwait",
                                          "locked", "scan", "reply", "leave"}],
               Unlock(next), UNCHANGED <<line, left>>,
               \A s \in Sessions : pc[s] # "scan",
               \A s \in Sessions : \/ next[s] = pc[s] /\ out'[s] = out[s]
                                   \/ next[s] = "reply" /\ pc[s] = "locked",
               tree' \in Contents \cup {Hollow}
        PROVE  ScanInv'
    <2> SUFFICES ASSUME NEW s \in Sessions
                 PROVE  /\ pc'[s] \notin {"scan", "reply"} => out'[s] = NoAnswer
                        /\ pc'[s] \in {"run", "rwait"} /\ line'[s].kind \in Scans => left'[s] = Keys
                        /\ pc'[s] = "scan" =>
                             IF tree' = Hollow THEN left'[s] = Keys /\ out'[s].keys = {}
                                               ELSE out'[s].keys = Present(tree') \ left'[s]
      BY DEF ScanInv, Present
    <2>1. pc'[s] = IF pc[s] = "rwait" THEN "scan" ELSE next[s]
      BY <1>4, UnlockEffect
    <2>2. CASE pc[s] = "rwait"
      <3>1. left'[s] = Keys /\ out'[s] = NoAnswer
        BY <1>4, <2>2 DEF ScanInv, CtlInv, LineInv
      <3>2. NoAnswer.keys = {} /\ Present(tree') \ Keys = {}
        BY DEF NoAnswer, Answer, Present
      <3>. QED BY <2>1, <2>2, <3>1, <3>2
    <2>3. CASE pc[s] # "rwait"
      BY <1>4, <2>1, <2>3 DEF ScanInv
    <2>. QED BY <2>2, <2>3
  <1>5. CASE CloseEngine
    <2>1. /\ Unlock(pc) /\ UNCHANGED <<line, left, out, tree>>
          /\ \A s \in Sessions : pc[s] # "scan"
      BY <1>5 DEF CloseEngine, CtlInv, LockInv
    <2>. QED BY <1>1, <1>4, <2>1
  <1>6. ASSUME NEW s \in Sessions, EngineCall(s)
        PROVE  ScanInv'
    <2>1. PICK answer \in AnswerType : ReturnUnlocked(s, answer)
      BY <1>6, CallEffect
    <2> DEFINE next == [pc EXCEPT ![s] = "reply"]
    <2>2. /\ pc[s] = "locked" /\ Unlock(next) /\ UNCHANGED <<line, left>>
          /\ out' = [out EXCEPT ![s] = answer]
      BY <2>1 DEF ReturnUnlocked
    <2>3. /\ next \in [Sessions -> {"none", "upgrade", "read", "run", "wwait", "rwait",
                                    "locked", "scan", "reply", "leave"}]
          /\ \A t \in Sessions : \/ next[t] = pc[t] /\ out'[t] = out[t]
                                 \/ next[t] = "reply" /\ pc[t] = "locked"
      <3>1. next[s] = "reply" /\ \A t \in Sessions \ {s} : next[t] = pc[t]
        BY <1>1
      <3>2. \A t \in Sessions \ {s} : out'[t] = out[t]
        BY <1>1, <2>2
      <3>3. next \in [Sessions -> {"none", "upgrade", "read", "run", "wwait", "rwait",
                                  "locked", "scan", "reply", "leave"}]
        BY <1>1
      <3>4. pc[s] = "locked"
        BY <2>2
      <3> HIDE DEF next
      <3>. QED BY <3>1, <3>2, <3>3, <3>4
    <2>4. \A t \in Sessions : pc[t] # "scan"
      BY <2>2 DEF CtlInv, LockInv
    <2>5. tree' \in Contents \cup {Hollow}
      BY <1>6, CallEffect
    <2> HIDE DEF next
    <2>. QED BY <1>4, <2>2, <2>3, <2>4, <2>5
  <1>7. ASSUME NEW s \in Sessions, ScanKey(s)
        PROVE  ScanInv'
    <2>1. PICK k \in left[s] :
            /\ left' = [left EXCEPT ![s] = @ \ {k}]
            /\ out' = [out EXCEPT ![s].keys = IF tree[k] = None THEN @ ELSE @ \cup {k}]
            /\ pc[s] = "scan" /\ tree # Hollow /\ UNCHANGED <<tree, pc, line>>
      BY <1>7 DEF ScanKey
    <2>2. /\ out'[s].keys = IF tree[k] = None THEN out[s].keys ELSE out[s].keys \cup {k}
          /\ left'[s] = left[s] \ {k} /\ k \in Keys
          /\ \A t \in Sessions \ {s} : out'[t] = out[t] /\ left'[t] = left[t]
      BY <1>1, <2>1 DEF AnswerType
    <2>3. out'[s].keys = Present(tree') \ left'[s]
      <3>1. out[s].keys = Present(tree) \ left[s]
        BY <2>1 DEF ScanInv
      <3>. QED BY <2>1, <2>2, <3>1 DEF Present
    <2>4. \A t \in Sessions \ {s} : out'[t] = out[t] /\ left'[t] = left[t] /\ pc'[t] = pc[t]
                                    /\ line'[t] = line[t]
      BY <2>1, <2>2
    <2>. QED BY <2>1, <2>3, <2>4 DEF ScanInv
  (* The other steps of a session change nothing of the tree.              *)
  <1>8. ASSUME NEW s \in Sessions,
               \/ Talk(s) \/ Lock(s) \/ Locked(s) \/ RLock(s) \/ Scanned(s) \/ ScanFails(s)
        PROVE  ScanInv'
    <2>1. UNCHANGED tree
          /\ \A t \in Sessions \ {s} : pc'[t] = pc[t] /\ out'[t] = out[t] /\ left'[t] = left[t]
                                       /\ line'[t] = line[t]
      BY <1>1, <1>8 DEF Talk, Connect, Register, HangUp, EndLoop, Leave, Receive, Help, Reply, Lock,
                        Locked, RLock, Scanned, ScanFails, EndScan
    <2>2. /\ pc'[s] \notin {"scan", "reply"} => out'[s] = NoAnswer
          /\ pc'[s] \in {"run", "rwait"} /\ line'[s].kind \in Scans => left'[s] = Keys
          /\ pc'[s] = "scan" =>
               IF tree' = Hollow THEN left'[s] = Keys /\ out'[s].keys = {}
                                 ELSE out'[s].keys = Present(tree') \ left'[s]
      <3>1. CASE Scanned(s) \/ ScanFails(s) \/ Help(s)
        BY <1>1, <3>1 DEF Scanned, ScanFails, EndScan, Help
      <3>2. CASE RLock(s)
        <4>1. left'[s] = Keys /\ out'[s] = NoAnswer
          BY <3>2 DEF RLock, ScanInv
        <4>2. NoAnswer.keys = {} /\ Present(tree') \ Keys = {}
          BY DEF NoAnswer, Answer, Present
        <4>3. pc'[s] # "reply"
          BY <1>1, <3>2 DEF RLock
        <4>. QED BY <4>1, <4>2, <4>3
      <3>3. CASE \E l \in Lines[s] : Receive(s, l)
        BY <1>1, <3>3 DEF Receive, ScanInv
      <3>4. CASE Reply(s) \/ (\E k \in Kinds[s] : Connect(s, k)) \/ Register(s) \/ EndLoop(s)
                 \/ Leave(s) \/ Lock(s) \/ Locked(s)
        BY <1>1, <3>4 DEF Reply, Connect, Register, EndLoop, Leave, Lock, Locked, ScanInv
      <3>5. CASE HangUp(s)
        BY <3>5 DEF HangUp, ScanInv
      <3>. QED BY <1>8, <3>1, <3>2, <3>3, <3>4, <3>5 DEF Talk
    <2>. QED BY <2>1, <2>2 DEF ScanInv
  <1>. QED BY <1>2, <1>3, <1>5, <1>6, <1>7, <1>8, StepCases

(* The strengthening the refinement needs: nothing else runs during the start, the
   file is what memory is until the engine is closed, and what a scan has
   collected is still true (engine.go locks e.mu around each of them).     *)
THEOREM ServerInvariant == ServerSpec => []ServerInv
  <1>1. ServerInv /\ [ServerNext]_serverVars => ServerInv'
    BY CtlStep, StartStep, FileStep, ScanStep DEF ServerInv
  <1>. QED BY <1>1, ServerInvInit, PTL DEF ServerSpec

-----------------------------------------------------------------------------
(* The demo entries replace no entry of the users, unless the count failed. *)
THEOREM DemoReplacesNothingCorrect == ServerSpec => DemoReplacesNothing
  <1> DEFINE Harmless ==
        main = "seed" /\ tree' # tree /\ Running' =>
          \A k \in Keys : tree'[k] = tree[k] \/ tree[k] = None \/ misread
  <1>1. ASSUME ServerInv, ServerNext
        PROVE  Harmless
    <2> SUFFICES ASSUME main = "seed", tree' # tree, Running'
                 PROVE  \A k \in Keys : tree'[k] = tree[k] \/ tree[k] = None \/ misread
      OBVIOUS
    <2> USE DEF ServerInv, Becomes
    <2>1. \A s \in Sessions : pc[s] = "none"
      BY <1>1 DEF StartInv
    <2>2. PICK k \in Keys : SeedEntry(k)
      <3>1. ~Die
        BY DEF Die, Running
      <3>2. ASSUME NEW s \in Sessions
            PROVE  ~EngineCall(s) /\ ~ScanKey(s) /\ ~Scanned(s) /\ ~ScanFails(s)
        BY <1>1, <2>1, CallEffect DEF ReturnUnlocked, ScanKey, Scanned, ScanFails, EndScan, At
      <3>3. ASSUME NEW s \in Sessions, Talk(s) \/ Lock(s) \/ Locked(s) \/ RLock(s)
            PROVE  UNCHANGED tree
        BY <3>3 DEF Talk, Connect, Register, HangUp, EndLoop, Leave, Receive, Help, Reply, Lock,
                    Locked, RLock
      <3>4. ASSUME \/ OpenEngine \/ CountKeys \/ StartTCP \/ StartHTTP \/ ListenAndServe \/ Signal
                   \/ StopWebSockets \/ StopHTTP \/ StopTCP \/ Restart \/ CallClose \/ CloseEngine
            PROVE  main # "seed" \/ UNCHANGED tree
        BY <3>4 DEF OpenEngine, CountKeys, StartTCP, StartHTTP, ListenAndServe, Signal,
                    StopWebSockets, StopHTTP, StopTCP, Restart, CallClose, CloseEngine
      <3>. QED BY <1>1, <3>1, <3>2, <3>3, <3>4, StepCases DEF MainStep
    <2>3. tree # Hollow /\ k \in toSeed /\ tree' = [tree EXCEPT ![k] = Demo[k]]
      BY <2>2 DEF SeedEntry
    <2>4. tree[k] = None \/ misread
      BY <1>1, <2>3 DEF StartInv
    <2>5. \A j \in Keys \ {k} : tree'[j] = tree[j]
      BY <1>1, <2>3 DEF CtlInv, ServerTypeOK, Contents
    <2>. QED BY <2>4, <2>5
  <1>2. ASSUME ServerInv, [ServerNext]_serverVars
        PROVE  [Harmless]_serverVars
    BY <1>1, <1>2
  <1>. QED BY <1>2, ServerInvariant, PTL DEF ServerSpec, DemoReplacesNothing

-----------------------------------------------------------------------------
(* The vocabulary of the service is that of the server.                    *)
LEMMA Vocabulary ==
  /\ SV!Empty = Empty /\ SV!NoLine = NoLine /\ SV!Done = Done /\ SV!NotFound = NotFound
  /\ SV!Failed = Failed /\ SV!NoAnswer = NoAnswer /\ SV!Scans = Scans
  /\ SV!Idle = [line |-> NoLine, answered |-> FALSE, answer |-> NoAnswer]
  /\ \A l : SV!Called(l) = [line |-> l, answered |-> FALSE, answer |-> NoAnswer]
  /\ \A S : SV!Answer("ok", None, S) = Answer("ok", None, S)
  /\ \A db : SV!Present(db) = Present(db)
  /\ \A db, l : SV!Sight(db, l) = Sight(db, l)
  /\ \A db, k, v : SV!Torn(db, k, v) = Torn(db, k, v)
  BY DEF SV!Empty, Empty, SV!NoLine, NoLine, SV!Line, Line, SV!Done, Done, SV!NotFound, NotFound,
         SV!Failed, Failed, SV!NoAnswer, NoAnswer, SV!Scans, Scans, SV!Idle, SV!Called,
         SV!Answer, Answer, SV!Present, Present, SV!Sight, Sight, SV!Torn, Torn,
         SV!Contents, Contents

(* What the service sees of a session's command.                           *)
LEMMA CallsOf ==
  /\ DOMAIN Calls = Sessions
  /\ \A s \in Sessions :
       Calls[s] = [line |-> line[s], answered |-> pc[s] = "reply",
                   answer |-> IF pc[s] = "reply" THEN out[s] ELSE NoAnswer]
  BY DEF Calls

(* A command is answered, when its session comes to the point of replying. *)
LEMMA AnswerGiven ==
  ASSUME NEW s \in Sessions, NEW answer,
         pc[s] # "reply", pc'[s] = "reply", out'[s] = answer, UNCHANGED line,
         \A t \in Sessions \ {s} : (pc'[t] = "reply" <=> pc[t] = "reply") /\ out'[t] = out[t]
  PROVE  SV!Answered(s, answer)
  <1> DEFINE C == [Calls EXCEPT ![s] = [line |-> @.line, answered |-> TRUE, answer |-> answer]]
  <1>1. Calls[s].line = line[s]
    BY CallsOf
  <1>2. C = [t \in Sessions |-> IF t = s THEN [line |-> line[s], answered |-> TRUE, answer |-> answer]
                                ELSE Calls[t]]
    BY <1>1, CallsOf
  <1>3. \A t \in Sessions \ {s} :
          [line |-> line'[t], answered |-> pc'[t] = "reply",
           answer |-> IF pc'[t] = "reply" THEN out'[t] ELSE NoAnswer] = Calls[t]
    BY CallsOf
  <1>4. [line |-> line'[s], answered |-> pc'[s] = "reply",
         answer |-> IF pc'[s] = "reply" THEN out'[s] ELSE NoAnswer]
          = [line |-> line[s], answered |-> TRUE, answer |-> answer]
    OBVIOUS
  <1>5. Calls' = C
    BY <1>2, <1>3, <1>4 DEF Calls
  <1>. QED BY <1>5 DEF SV!Answered

LEMMA SameCalls ==
  ASSUME UNCHANGED line,
         \A s \in Sessions : (pc'[s] = "reply" <=> pc[s] = "reply")
                             /\ (pc[s] = "reply" => out'[s] = out[s])
  PROVE  UNCHANGED Calls
  <1>1. \A s \in Sessions :
          [line |-> line'[s], answered |-> pc'[s] = "reply",
           answer |-> IF pc'[s] = "reply" THEN out'[s] ELSE NoAnswer]
            = [line |-> line[s], answered |-> pc[s] = "reply",
               answer |-> IF pc[s] = "reply" THEN out[s] ELSE NoAnswer]
    OBVIOUS
  <1>. QED BY <1>1 DEF Calls

LEMMA SameStore ==
  ASSUME UNCHANGED <<engine, toSeed, misread>>, Running' <=> Running
  PROVE  UNCHANGED <<Running, Store, OnFile, Usable, Sealed, toSeed, misread>>
  <1>1. UNCHANGED <<OnFile, Usable, Sealed, toSeed, misread>>
    BY DEF OnFile, Usable, Sealed
  <1>2. UNCHANGED Store
    BY DEF Store
  <1>3. UNCHANGED Running
    BY DEF Running
  <1>. QED BY <1>1, <1>2, <1>3

(* A session without a line has no command in progress.                    *)
LEMMA NoCall ==
  ASSUME NEW s \in Sessions, line[s] = NoLine, pc[s] # "reply"
  PROVE  Calls[s] = SV!Idle
  BY CallsOf, Vocabulary

LEMMA CallRunning ==
  ASSUME CtlInv, NEW s \in Sessions, pc[s] \in {"run", "rwait", "wwait", "locked", "scan"}
  PROVE  Calls[s] # SV!Idle /\ ~Calls[s].answered /\ Calls[s].line = line[s]
  <1>1. Calls[s].line = line[s] /\ Calls[s].answered = (pc[s] = "reply")
    BY CallsOf
  <1>2. line[s] # NoLine
    BY DEF CtlInv, LineInv
  <1>3. SV!Idle.line = NoLine
    BY Vocabulary
  <1>. QED BY <1>1, <1>2, <1>3

(* The steps of main.                                                      *)
LEMMA MainRefines ==
  ASSUME ServerInv, MainStep
  PROVE  [SV!Next]_(SV!serviceVars)
  <1> USE DEF ServerInv, Becomes
  <1>1. UNCHANGED handler
    BY DEF MainStep, OpenEngine, CountKeys, SeedEntry, StartTCP, StartHTTP, ListenAndServe,
           Signal, StopWebSockets, StopHTTP, StopTCP, Restart
  <1>2. UNCHANGED Calls
    BY <1>1, SameCalls
  <1>3. CASE OpenEngine
    <2>1. ~Running /\ Running' /\ UNCHANGED <<toSeed, misread>>
      BY <1>3 DEF OpenEngine, Running
    <2>2. Usable' = Usable
      BY <1>3, <2>1, ServerAssumption, EmptyType DEF OpenEngine, Usable
    <2>3. OnFile' = OnFile /\ Store' = OnFile
      BY <1>3, <2>1, ServerAssumption, EmptyType DEF OpenEngine, OnFile, Store
    <2>4. UNCHANGED Sealed
      BY <1>3 DEF OpenEngine, Running, Sealed
    <2>5. UNCHANGED <<OnFile, Usable, toSeed, Calls, misread>>
      BY <1>2, <2>1, <2>2, <2>3
    <2>6. SV!Open
      BY <2>1, <2>3, <2>4, <2>5 DEF SV!Open
    <2>. QED BY <2>6 DEF SV!Next
  <1>4. CASE CountKeys
    <2>1. /\ Running /\ Running' /\ UNCHANGED engine
          /\ \A s \in Sessions : Calls[s] = SV!Idle
      BY <1>4, NoCall DEF CountKeys, Running, StartInv, CtlInv, LineInv
    <2>2. CASE LooksEmpty /\ toSeed' = DOMAIN Demo
      <3>1. UNCHANGED <<Running, Store, OnFile, Usable, Sealed>>
        BY <2>1 DEF Store, OnFile, Usable, Sealed
      <3>2. (Store = SV!Empty /\ UNCHANGED misread) \/ misread'
        BY <2>1, <2>2, Vocabulary DEF LooksEmpty, Store
      <3>3. SV!BeginSeeding
        BY <1>2, <2>1, <2>2, <3>1, <3>2 DEF SV!BeginSeeding
      <3>. QED BY <3>3 DEF SV!Next
    <2>3. CASE UNCHANGED <<toSeed, misread>>
      BY <1>2, <2>1, <2>3, SameStore DEF SV!serviceVars
    <2>. QED BY <1>4, <2>2, <2>3 DEF CountKeys
  <1>5. ASSUME NEW k \in Keys, SeedEntry(k)
        PROVE  SV!Seed(k)
    <2>1. /\ Running /\ Running' /\ UNCHANGED <<fileOpen, misread>>
          /\ k \in toSeed /\ toSeed' = toSeed \ {k}
      BY <1>5 DEF SeedEntry, Running
    <2>2. CASE tree = Hollow
      BY <1>2, <1>5, <2>1, <2>2 DEF SeedEntry, SV!Seed, Store, OnFile, Usable, Sealed
    <2>3. CASE tree # Hollow
      <3>1. /\ tree' = [tree EXCEPT ![k] = Demo[k]] /\ file' = tree'
            /\ tree' \in Contents
        BY <1>5, <2>3, CommandsAssumption DEF SeedEntry, CtlInv, ServerTypeOK, Contents
      <3>2. tree' \notin {Hollow, Missing}
        BY <3>1, ServerAssumption
      <3>3. /\ Store = tree /\ Store' = tree' /\ OnFile' = tree' /\ Usable /\ Usable'
            /\ UNCHANGED Sealed
        BY <2>1, <2>3, <3>1, <3>2 DEF Store, OnFile, Usable, Sealed
      <3>4. Usable' = Usable
        BY <2>1, <2>3, <3>2 DEF Usable
      <3>5. UNCHANGED Running
        BY <1>5 DEF SeedEntry, Running
      <3>. QED BY <1>2, <2>1, <3>1, <3>3, <3>4, <3>5 DEF SV!Seed
    <2>. QED BY <2>2, <2>3
  <1>6. CASE StartTCP
    <2>1. /\ Running /\ Running' /\ UNCHANGED engine /\ toSeed = {} /\ toSeed' = toSeed
          /\ misread' = FALSE
      BY <1>6 DEF StartTCP, Running
    <2>2. UNCHANGED <<Running, Store, OnFile, Usable, Sealed>>
      BY <2>1 DEF Store, OnFile, Usable, Sealed
    <2>3. SV!EndSeeding
      BY <1>2, <2>1, <2>2 DEF SV!EndSeeding
    <2>. QED BY <2>3 DEF SV!Next
  <1>7. CASE StartHTTP \/ ListenAndServe \/ Signal \/ StopWebSockets \/ StopHTTP \/ StopTCP
               \/ Restart
    <2>1. UNCHANGED <<engine, toSeed, misread>> /\ (Running' <=> Running)
      BY <1>7 DEF StartHTTP, ListenAndServe, Signal, StopWebSockets, StopHTTP, StopTCP, Restart,
                  Running
    <2>. QED BY <1>2, <2>1, SameStore DEF SV!serviceVars
  <1>8. ASSUME NEW k \in Keys, SeedEntry(k)
        PROVE  SV!Next
    BY <1>5, <1>8 DEF SV!Next
  <1>. QED BY <1>3, <1>4, <1>6, <1>7, <1>8 DEF MainStep

LEMMA CloseRefines ==
  ASSUME ServerInv, CallClose \/ CloseEngine
  PROVE  [SV!Next]_(SV!serviceVars)
  <1> USE DEF ServerInv, Becomes
  <1>1. CASE CallClose
    <2>1. /\ UNCHANGED <<engine, toSeed, misread>> /\ (Running' <=> Running)
          /\ UNCHANGED Calls
      BY <1>1, SameCalls DEF CallClose, Running
    <2>. QED BY <2>1, SameStore DEF SV!serviceVars
  <1>2. CASE CloseEngine
    <2>1. \A s \in Sessions : pc'[s] = IF pc[s] = "rwait" THEN "scan" ELSE pc[s]
      BY <1>2, UnlockEffect DEF CloseEngine, CtlInv, ServerTypeOK
    <2>2. UNCHANGED Calls
      BY <1>2, <2>1, SameCalls DEF CloseEngine
    <2>3. /\ Running /\ Running' /\ UNCHANGED <<toSeed, misread, tree>>
          /\ fileOpen /\ fileOpen' = FALSE /\ file' = tree
      BY <1>2 DEF CloseEngine, Running, FileInv
    <2>4. OnFile' = OnFile
      BY <2>3, ServerAssumption, EmptyType DEF OnFile, FileInv, CtlInv, ServerTypeOK
    <2>5. UNCHANGED <<Running, Store, Usable>> /\ Sealed'
      BY <2>3 DEF Store, Usable, Sealed
    <2>6. SV!Seal
      BY <2>2, <2>3, <2>4, <2>5 DEF SV!Seal
    <2>. QED BY <2>6 DEF SV!Next
  <1>. QED BY <1>1, <1>2

(* What sessions do outside the engine.                                    *)
LEMMA TalkRefines ==
  ASSUME ServerInv, NEW s \in Sessions, Talk(s)
  PROVE  [SV!Next]_(SV!serviceVars)
  <1> USE DEF ServerInv, At
  <1>1. /\ pc \in [Sessions -> {"none", "upgrade", "read", "run", "wwait", "rwait",
                                "locked", "scan", "reply", "leave"}]
        /\ out \in [Sessions -> AnswerType] /\ line \in [Sessions -> LineType]
    BY DEF CtlInv, ServerTypeOK
  <1>2. /\ UNCHANGED <<process, engine>> /\ (Running' <=> Running)
        /\ \A t \in Sessions \ {s} : pc'[t] = pc[t] /\ out'[t] = out[t]
    BY <1>1 DEF Talk, Connect, Register, HangUp, EndLoop, Leave, Receive, Help, Reply, Running
  <1>3. UNCHANGED <<Running, Store, OnFile, Usable, Sealed, toSeed, misread>>
    BY <1>2, SameStore
  <1>4. CASE (\E k \in Kinds[s] : Connect(s, k)) \/ Register(s) \/ HangUp(s) \/ EndLoop(s) \/ Leave(s)
    <2>1. UNCHANGED <<line, out>> /\ (pc'[s] = "reply" <=> pc[s] = "reply")
      BY <1>1, <1>4 DEF Connect, Register, HangUp, EndLoop, Leave
    <2>2. UNCHANGED Calls
      BY <1>2, <2>1, SameCalls
    <2>. QED BY <1>3, <2>2 DEF SV!serviceVars
  <1>5. ASSUME NEW l \in Lines[s], Receive(s, l)
        PROVE  SV!Next
    <2>1. pc[s] = "read" /\ pc'[s] = "run" /\ line' = [line EXCEPT ![s] = l] /\ UNCHANGED out
      BY <1>1, <1>5 DEF Receive
    <2>2. Running /\ toSeed = {} /\ Calls[s] = SV!Idle
      BY <2>1, Connected, NoCall DEF CtlInv, LineInv
    <2>3. Calls' = [Calls EXCEPT ![s] = SV!Called(l)]
      <3> DEFINE C == [Calls EXCEPT ![s] = SV!Called(l)]
      <3>1. C = [t \in Sessions |-> IF t = s THEN SV!Called(l) ELSE Calls[t]]
        BY CallsOf
      <3>2. \A t \in Sessions \ {s} :
              [line |-> line'[t], answered |-> pc'[t] = "reply",
               answer |-> IF pc'[t] = "reply" THEN out'[t] ELSE NoAnswer] = Calls[t]
        BY <1>1, <1>2, <2>1, CallsOf
      <3>3. [line |-> line'[s], answered |-> pc'[s] = "reply",
             answer |-> IF pc'[s] = "reply" THEN out'[s] ELSE NoAnswer]
              = [line |-> l, answered |-> FALSE, answer |-> NoAnswer]
        BY <1>1, <2>1
      <3>4. SV!Called(l) = [line |-> l, answered |-> FALSE, answer |-> NoAnswer]
        BY Vocabulary
      <3>. QED BY <3>1, <3>2, <3>3, <3>4 DEF Calls
    <2>4. SV!Call(s, l)
      BY <1>3, <2>2, <2>3 DEF SV!Call
    <2>. QED BY <2>4 DEF SV!Next
  <1>6. CASE Help(s)
    <2>1. /\ pc[s] = "run" /\ pc'[s] = "reply" /\ out'[s] = Done /\ UNCHANGED line
          /\ line[s].kind = "help"
      BY <1>1, <1>6 DEF Help
    <2>2. SV!Answered(s, SV!Done)
      BY <1>2, <2>1, AnswerGiven, Vocabulary
    <2>3. Calls[s] # SV!Idle /\ ~Calls[s].answered /\ Calls[s].line = line[s]
      BY <2>1, CallRunning
    <2>4. SV!Observe(s, line[s])
      BY <1>3, <2>1, <2>2 DEF SV!Observe
    <2>5. SV!Effect(s)
      BY <1>3, <2>3, <2>4 DEF SV!Effect
    <2>. QED BY <2>5 DEF SV!Next
  <1>7. CASE Reply(s)
    <2>1. pc[s] = "reply" /\ pc'[s] = "read" /\ line' = [line EXCEPT ![s] = NoLine]
      BY <1>1, <1>7 DEF Reply
    <2>2. Calls' = [Calls EXCEPT ![s] = SV!Idle]
      <3> DEFINE C == [Calls EXCEPT ![s] = SV!Idle]
      <3>1. C = [t \in Sessions |-> IF t = s THEN SV!Idle ELSE Calls[t]]
        BY CallsOf
      <3>2. \A t \in Sessions \ {s} :
              [line |-> line'[t], answered |-> pc'[t] = "reply",
               answer |-> IF pc'[t] = "reply" THEN out'[t] ELSE NoAnswer] = Calls[t]
        BY <1>1, <1>2, <2>1, CallsOf
      <3>3. [line |-> line'[s], answered |-> pc'[s] = "reply",
             answer |-> IF pc'[s] = "reply" THEN out'[s] ELSE NoAnswer]
              = [line |-> NoLine, answered |-> FALSE, answer |-> NoAnswer]
        BY <1>1, <2>1
      <3>4. SV!Idle = [line |-> NoLine, answered |-> FALSE, answer |-> NoAnswer]
        BY Vocabulary
      <3>. QED BY <3>1, <3>2, <3>3, <3>4 DEF Calls
    <2>3. Calls[s].answered = (pc[s] = "reply")
      BY CallsOf
    <2>4. SV!Return(s)
      BY <1>3, <2>1, <2>2, <2>3 DEF SV!Return
    <2>. QED BY <2>4 DEF SV!Next
  <1>. QED BY <1>4, <1>5, <1>6, <1>7 DEF Talk

(* The steps that wait for the lock, and those of a scan.                  *)
LEMMA ScanRefines ==
  ASSUME ServerInv, NEW s \in Sessions,
         Lock(s) \/ Locked(s) \/ RLock(s) \/ ScanKey(s) \/ Scanned(s) \/ ScanFails(s)
  PROVE  [SV!Next]_(SV!serviceVars)
  <1> USE DEF ServerInv, At
  <1>1. /\ pc \in [Sessions -> {"none", "upgrade", "read", "run", "wwait", "rwait",
                                "locked", "scan", "reply", "leave"}]
        /\ out \in [Sessions -> AnswerType]
    BY DEF CtlInv, ServerTypeOK
  <1>2. /\ UNCHANGED <<process, engine, line>> /\ (Running' <=> Running)
        /\ \A t \in Sessions \ {s} : pc'[t] = pc[t] /\ out'[t] = out[t]
    BY <1>1 DEF Lock, Locked, RLock, ScanKey, Scanned, ScanFails, EndScan, Running
  <1>3. UNCHANGED <<Running, Store, OnFile, Usable, Sealed, toSeed, misread>>
    BY <1>2, SameStore
  <1>4. CASE Lock(s) \/ Locked(s) \/ RLock(s) \/ ScanKey(s)
    <2>1. pc[s] # "reply" /\ pc'[s] # "reply"
      BY <1>1, <1>4 DEF Lock, Locked, RLock, ScanKey
    <2>2. UNCHANGED Calls
      BY <1>2, <2>1, SameCalls
    <2>. QED BY <1>3, <2>2 DEF SV!serviceVars
  <1>5. ASSUME NEW answer, EndScan(s, answer),
               SV!Answered(s, answer) => SV!Observe(s, line[s])
        PROVE  SV!Next
    <2>1. /\ pc[s] = "scan" /\ pc'[s] = "reply" /\ out'[s] = answer
      BY <1>1, <1>5 DEF EndScan
    <2>2. SV!Answered(s, answer)
      BY <1>2, <2>1, AnswerGiven
    <2>3. Calls[s] # SV!Idle /\ ~Calls[s].answered /\ Calls[s].line = line[s]
      BY <2>1, CallRunning
    <2>4. SV!Effect(s)
      BY <1>3, <1>5, <2>2, <2>3 DEF SV!Effect
    <2>. QED BY <2>4 DEF SV!Next
  (* Where a scan ends it has seen the whole tree, or a part of it.        *)
  <1>6. ASSUME pc[s] = "scan"
        PROVE  /\ Running /\ line[s].kind \in Scans
               /\ tree # Hollow => Store = tree /\ Usable
               /\ tree = Hollow => Store = Empty /\ ~Usable /\ left[s] = Keys
               /\ out[s].keys \subseteq SV!Present(Store)
               /\ left[s] = {} => Usable /\ out[s].keys = SV!Present(Store)
    <2>1. Running /\ line[s].kind \in Scans
      BY <1>6, Connected DEF CtlInv, LineInv
    <2>2. CASE tree # Hollow
      BY <1>6, <2>1, <2>2, Vocabulary DEF Store, Usable, ScanInv, Present
    <2>3. CASE tree = Hollow
      BY <1>6, <2>1, <2>3, ServerAssumption DEF Store, Usable, ScanInv
    <2>. QED BY <2>1, <2>2, <2>3
  <1>7. CASE Scanned(s)
    <2>1. EndScan(s, Answer("ok", None, out[s].keys)) /\ pc[s] = "scan" /\ left[s] = {}
      BY <1>7 DEF Scanned, EndScan
    <2>2. Answer("ok", None, out[s].keys) = SV!Answer("ok", None, SV!Present(Store))
      BY <1>6, <2>1, Vocabulary
    <2>. QED BY <1>3, <1>5, <1>6, <2>1, <2>2, Vocabulary DEF SV!Observe
  <1>8. CASE ScanFails(s)
    <2>1. pc[s] = "scan" /\ (tree = Hollow \/ ~fileOpen)
      BY <1>8 DEF ScanFails, EndScan, Degraded
    <2>2. SV!Degraded
      BY <1>6, <2>1 DEF SV!Degraded, Sealed
    <2>3. CASE line[s].kind = "keys"
      <3>1. EndScan(s, Failed)
        BY <1>8, <2>3 DEF ScanFails
      <3>. QED BY <1>3, <1>5, <2>2, <2>3, <3>1, Vocabulary DEF SV!Observe
    <2>4. CASE line[s].kind # "keys"
      <3>1. EndScan(s, Answer("ok", None, out[s].keys)) /\ line[s].kind = "stats"
        BY <1>6, <1>8, <2>1, <2>4 DEF ScanFails, Scans
      <3>2. Answer("ok", None, out[s].keys) = SV!Answer("ok", None, out[s].keys)
        BY Vocabulary
      <3>. QED BY <1>3, <1>5, <1>6, <2>1, <2>2, <3>1, <3>2 DEF SV!Observe
    <2>. QED BY <2>3, <2>4
  <1>. QED BY <1>4, <1>7, <1>8

(* The engine calls that lock e.mu for writing.                            *)
LEMMA CallRefines ==
  ASSUME ServerInv, NEW s \in Sessions, EngineCall(s)
  PROVE  SV!Next
  <1> USE DEF ServerInv
  <1> DEFINE l == line[s]
  <1>1. ASSUME NEW answer, ReturnUnlocked(s, answer)
        PROVE  /\ SV!Answered(s, answer) /\ Running /\ Running'
               /\ UNCHANGED <<toSeed, misread>>
               /\ Calls[s] # SV!Idle /\ ~Calls[s].answered /\ Calls[s].line = l
    <2> DEFINE next == [pc EXCEPT ![s] = "reply"]
    <2>1. /\ pc[s] = "locked" /\ Unlock(next) /\ UNCHANGED <<process, line>>
          /\ out' = [out EXCEPT ![s] = answer]
      BY <1>1 DEF ReturnUnlocked
    <2>2. /\ next \in [Sessions -> {"none", "upgrade", "read", "run", "wwait", "rwait",
                                    "locked", "scan", "reply", "leave"}]
          /\ next[s] = "reply" /\ \A t \in Sessions \ {s} : next[t] = pc[t]
      BY DEF CtlInv, ServerTypeOK
    <2>3. out'[s] = answer /\ \A t \in Sessions \ {s} : out'[t] = out[t]
      BY <2>1 DEF CtlInv, ServerTypeOK
    <2> HIDE DEF next
    <2>4. \A t \in Sessions : pc'[t] = IF pc[t] = "rwait" THEN "scan" ELSE next[t]
      BY <2>1, <2>2, UnlockEffect
    <2>5. pc'[s] = "reply" /\ \A t \in Sessions \ {s} : pc'[t] = "reply" <=> pc[t] = "reply"
      BY <2>1, <2>2, <2>4
    <2>6. SV!Answered(s, answer)
      BY <2>1, <2>3, <2>5, AnswerGiven
    <2>7. Calls[s] # SV!Idle /\ ~Calls[s].answered /\ Calls[s].line = l
      BY <2>1, CallRunning
    <2>8. Running /\ Running'
      BY <2>1, Connected DEF Running
    <2>. QED BY <2>1, <2>6, <2>7, <2>8
  <1>2. ASSUME NEW answer, ReturnUnlocked(s, answer),
               \/ SV!Observe(s, l) \/ SV!Shove(s, l) \/ SV!Yeet(s, l) \/ SV!UpdateFails(s, l)
               \/ SV!Nuke(s, l)
        PROVE  SV!Next
    <2>1. /\ Calls[s] # SV!Idle /\ ~Calls[s].answered /\ Calls[s].line = l
          /\ UNCHANGED <<Running, toSeed, misread>>
      BY <1>1, <1>2 DEF Running
    <2>2. SV!Effect(s)
      BY <1>2, <2>1 DEF SV!Effect
    <2>. QED BY <2>2 DEF SV!Next
  <1>3. /\ tree \in Contents \cup {Hollow} /\ file \in Contents \cup {Hollow, Missing}
        /\ l.kind \in Looks \cup {"shove", "yeet"} =>
             l.key \in Keys /\ l.value \in Values \cup {None}
        /\ l.kind = "yeet" => l.value = None
    BY ServerAssumption, NoLineType DEF CtlInv, LineInv, ServerTypeOK, LineType, Looks
  <1>4. Running => /\ tree # Hollow => Store = tree /\ Usable
                   /\ tree = Hollow => Store = Empty /\ ~Usable
                   /\ Degraded <=> SV!Degraded
    BY DEF Store, Usable, Sealed, Degraded, SV!Degraded
  <1>5. CASE Look(s)
    <2>1. UNCHANGED engine /\ l.kind \in Looks
      BY <1>5 DEF Look
    <2>2. ASSUME NEW answer, ReturnUnlocked(s, answer)
          PROVE  UNCHANGED <<Store, OnFile, Usable, Sealed>>
      BY <1>1, <2>1, <2>2, SameStore DEF process, engine
    <2>3. CASE tree # Hollow /\ ReturnUnlocked(s, Sight(tree, l))
      <3>1. SV!Answered(s, SV!Sight(Store, l)) /\ Usable
        BY <1>1, <1>4, <2>3, Vocabulary
      <3>2. SV!Observe(s, l)
        BY <2>1, <2>2, <2>3, <3>1 DEF SV!Observe, Looks
      <3>. QED BY <1>2, <2>3, <3>2
    <2>4. CASE Degraded /\ ReturnUnlocked(s, Failed)
      <3>1. SV!Answered(s, SV!Failed) /\ SV!Degraded
        BY <1>1, <1>4, <2>4, Vocabulary
      <3>2. SV!Observe(s, l)
        BY <2>1, <2>2, <2>4, <3>1 DEF SV!Observe, Looks
      <3>. QED BY <1>2, <2>4, <3>2
    <2>. QED BY <1>5, <2>3, <2>4 DEF Look
  <1>6. CASE Update(s)
    <2>1. l.kind \in {"shove", "yeet"} /\ l.key \in Keys /\ l.value \in Values \cup {None}
      BY <1>3, <1>6 DEF Update
    <2>2. tree # Hollow => Assigned(s) = [tree EXCEPT ![l.key] = l.value]
                           /\ Assigned(s) \in Contents /\ Assigned(s) \notin {Hollow, Missing}
      <3>1. tree # Hollow => [tree EXCEPT ![l.key] = l.value] \in Contents
        BY <1>3, <2>1 DEF Contents
      <3>. QED BY <3>1, ServerAssumption DEF Assigned
    <2>3. CASE /\ l.kind = "yeet" /\ tree # Hollow /\ tree[l.key] = None
               /\ ReturnUnlocked(s, NotFound) /\ UNCHANGED engine
      <3>1. /\ SV!Answered(s, SV!NotFound) /\ Usable /\ Store = tree
            /\ UNCHANGED <<Store, OnFile, Usable, Sealed>>
        BY <1>1, <1>4, <2>3, SameStore, Vocabulary
      <3>2. SV!Yeet(s, l)
        BY <2>3, <3>1 DEF SV!Yeet
      <3>. QED BY <1>2, <2>3, <3>2
    <2>4. CASE Assign(s) /\ ~(l.kind = "yeet" /\ tree # Hollow /\ tree[l.key] = None)
      <3>1. /\ tree # Hollow /\ fileOpen /\ fileOpen' = fileOpen
            /\ tree' = [tree EXCEPT ![l.key] = l.value] /\ file' = tree'
            /\ tree' \notin {Hollow, Missing} /\ ReturnUnlocked(s, Done)
        BY <2>2, <2>4 DEF Assign
      <3>2. /\ SV!Answered(s, SV!Done) /\ Running /\ Running'
            /\ Store = tree /\ Usable /\ ~SV!Degraded
        BY <1>1, <1>4, <3>1, Vocabulary DEF Degraded
      <3>3. Store' = tree' /\ OnFile' = tree' /\ Usable' /\ ~Sealed /\ ~Sealed'
        BY <3>1, <3>2 DEF Store, OnFile, Usable, Sealed
      <3>4. Usable' = Usable /\ Sealed' = Sealed
        BY <3>1, <3>2 DEF Usable, Sealed
      <3>5. CASE l.kind = "shove"
        <4>1. SV!Shove(s, l)
          BY <3>1, <3>2, <3>3, <3>4, <3>5 DEF SV!Shove
        <4>. QED BY <1>2, <3>1, <4>1
      <3>6. CASE l.kind = "yeet"
        <4>1. SV!Yeet(s, l)
          BY <1>3, <2>4, <3>1, <3>2, <3>3, <3>4, <3>6 DEF SV!Yeet
        <4>. QED BY <1>2, <3>1, <4>1
      <3>. QED BY <2>1, <3>5, <3>6
    <2>5. CASE AssignFails(s)
      <3>1. /\ Degraded /\ UNCHANGED <<file, fileOpen>> /\ ReturnUnlocked(s, Failed)
            /\ tree' \in {tree} \cup (IF tree = Hollow THEN {} ELSE {Assigned(s)})
        BY <2>5 DEF AssignFails
      <3>2. /\ SV!Answered(s, SV!Failed) /\ Running /\ Running' /\ SV!Degraded
        BY <1>1, <1>4, <3>1, Vocabulary
      <3>3. UNCHANGED <<OnFile, Usable, Sealed>>
        BY <2>2, <3>1, <3>2 DEF OnFile, Usable, Sealed
      <3>4. Store' \in {Store} \cup (IF Usable THEN {[Store EXCEPT ![l.key] = l.value]} ELSE {})
        <4>1. CASE tree' = tree
          BY <3>2, <4>1 DEF Store
        <4>2. CASE tree # Hollow /\ tree' = Assigned(s)
          BY <1>4, <2>2, <3>2, <4>2 DEF Store
        <4>. QED BY <3>1, <4>1, <4>2
      <3>5. SV!UpdateFails(s, l)
        BY <2>1, <3>2, <3>3, <3>4 DEF SV!UpdateFails
      <3>. QED BY <1>2, <3>1, <3>5
    <2>. QED BY <1>6, <2>3, <2>4, <2>5 DEF Update
  <1>7. CASE Nuke(s)
    <2>1. /\ l.kind = "nuke" /\ tree' = Empty /\ file' = Hollow /\ fileOpen'
          /\ ReturnUnlocked(s, Done)
      BY <1>7 DEF Nuke
    <2>2. SV!Answered(s, SV!Done) /\ Running'
      BY <1>1, <2>1, Vocabulary
    <2>3. Store' = Empty /\ OnFile' = Empty /\ Usable' /\ ~Sealed'
      BY <2>1, <2>2, ServerAssumption, EmptyType DEF Store, OnFile, Usable, Sealed
    <2>4. SV!Nuke(s, l)
      BY <2>1, <2>2, <2>3, Vocabulary DEF SV!Nuke
    <2>. QED BY <1>2, <2>1, <2>4
  <1>. QED BY <1>5, <1>6, <1>7 DEF EngineCall

(* What a kill in the middle of the update of one key leaves, as the next process
   will see it.                                                            *)
LEMMA CutShortIsTorn ==
  ASSUME ServerInv, Running, ~Running', fileOpen, tree # Hollow,
         NEW k \in Keys, NEW v \in Values \cup {None}, file' \in CutShort(k, v)
  PROVE  \/ file' = file
         \/ OnFile' \in SV!Torn(OnFile, k, v) /\ (Usable' \/ OnFile' = Empty)
  <1>1. /\ tree \in Contents /\ tree \notin {Hollow, Missing} /\ Empty \in Contents
        /\ OnFile = tree /\ (file # Hollow => file = tree)
    BY ServerAssumption, EmptyType DEF ServerInv, CtlInv, ServerTypeOK, FileInv, OnFile
  <1>2. CASE file' = [tree EXCEPT ![k] = v]
    <2>1. file' \in Torn(tree, k, v)
      BY <1>1, <1>2 DEF Torn, Contents
    <2>2. file' \notin {Hollow, Missing}
      BY <2>1, ServerAssumption DEF Torn
    <2>. QED BY <1>1, <2>1, <2>2, Vocabulary DEF OnFile, Usable
  <1>3. CASE file' = Hollow
    <2>1. Empty \in Torn(tree, k, v)
      BY <1>1 DEF Torn, Empty
    <2>. QED BY <1>1, <1>3, <2>1, Vocabulary DEF OnFile
  <1>4. CASE file # Hollow /\ file' \in Torn(file, k, v)
    <2>1. file' \in Torn(tree, k, v) /\ file' \notin {Hollow, Missing}
      BY <1>1, <1>4, ServerAssumption DEF Torn
    <2>. QED BY <1>1, <2>1, Vocabulary DEF OnFile, Usable
  <1>. QED BY <1>2, <1>3, <1>4 DEF CutShort

(* The end of the process.                                                 *)
LEMMA DieRefines ==
  ASSUME ServerInv, Die
  PROVE  [SV!Next]_(SV!serviceVars)
  <1> USE DEF ServerInv
  <1>1. /\ ~Running' /\ Store' = Empty /\ Sealed' = FALSE /\ toSeed' = {} /\ misread' = FALSE
        /\ (Usable' <=> file' # Hollow)
    BY DEF Die, Running, Store, Sealed, Usable
  <1>2. Calls' = [s \in Sessions |-> SV!Idle]
    <2>1. \A s \in Sessions :
            [line |-> line'[s], answered |-> pc'[s] = "reply",
             answer |-> IF pc'[s] = "reply" THEN out'[s] ELSE NoAnswer] = SV!Idle
      BY Vocabulary DEF Die
    <2>. QED BY <2>1 DEF Calls
  <1>3. CASE ~Running
    <2>1. /\ main \in {"open", "gone"} /\ toSeed = {} /\ misread = FALSE
          /\ \A s \in Sessions : pc[s] = "none" /\ line[s] = NoLine
      BY <1>3 DEF Running, StartInv, CtlInv, ServerTypeOK, LineInv
    <2>2. file' = file
      BY <2>1 DEF Die, Damage, Updating
    <2>3. UNCHANGED <<Running, Store, OnFile, Usable, Sealed, toSeed, misread>>
      BY <1>1, <1>3, <2>1, <2>2 DEF Running, Store, OnFile, Usable, Sealed, Die
    <2>4. Calls = [s \in Sessions |-> SV!Idle]
      <3>1. \A s \in Sessions :
              [line |-> line[s], answered |-> pc[s] = "reply",
               answer |-> IF pc[s] = "reply" THEN out[s] ELSE NoAnswer] = SV!Idle
        BY <2>1, Vocabulary
      <3>. QED BY <3>1 DEF Calls
    <2>. QED BY <1>2, <2>3, <2>4 DEF SV!serviceVars
  <1>4. CASE Running
    <2>1. /\ tree \in Contents \cup {Hollow} /\ file \in Contents \cup {Hollow}
          /\ (tree # Hollow <=> Usable) /\ (fileOpen <=> ~Sealed)
      BY <1>4 DEF CtlInv, ServerTypeOK, FileInv, Usable, Sealed
    <2> DEFINE
          Kept == UNCHANGED <<OnFile, Usable>> \/ (OnFile = Empty /\ UNCHANGED OnFile)
          Cut == \E u \in SV!UnderWay : OnFile' \in SV!Torn(OnFile, u[1], u[2])
          Nuked == \E s \in Sessions : ~Calls[s].answered /\ Calls[s].line.kind = "nuke"
    <2>2. ASSUME file' = file
          PROVE  Kept
      <3>1. OnFile' = OnFile
        BY <2>2 DEF OnFile
      <3>2. CASE tree = Hollow
        <4>1. file = Hollow
          BY <1>4, <3>2 DEF FileInv
        <4>2. Usable' = Usable
          BY <1>1, <1>4, <2>2, <3>2, <4>1 DEF Usable
        <4>. QED BY <3>1, <4>2
      <3>3. CASE tree # Hollow /\ file # Hollow
        <4>1. Usable' = Usable
          BY <1>1, <1>4, <2>2, <3>3 DEF Usable
        <4>. QED BY <3>1, <4>1
      <3>4. CASE tree # Hollow /\ file = Hollow
        BY <3>1, <3>4 DEF OnFile
      <3>. QED BY <3>2, <3>3, <3>4
    <2>3. ASSUME fileOpen, tree # Hollow, NEW k \in Keys, NEW v \in Values \cup {None},
                 file' \in CutShort(k, v), <<k, v>> \in SV!UnderWay
          PROVE  Kept \/ (~Sealed /\ Usable /\ Cut /\ (Usable' \/ OnFile' = Empty))
      <3>1. CASE file' = file
        BY <2>2, <3>1
      <3>2. CASE OnFile' \in SV!Torn(OnFile, k, v) /\ (Usable' \/ OnFile' = Empty)
        <4>1. Cut
          <5>1. <<k, v>>[1] = k /\ <<k, v>>[2] = v
            OBVIOUS
          <5>. QED BY <2>3, <3>2, <5>1
        <4>. QED BY <2>1, <2>3, <3>2, <4>1
      <3>. QED BY <1>1, <1>4, <2>3, <3>1, <3>2, CutShortIsTorn
    <2>4. ASSUME NEW s \in Sessions, Updating(s), line[s].kind # "nuke"
          PROVE  /\ line[s].key \in Keys /\ line[s].value \in Values \cup {None}
                 /\ <<line[s].key, line[s].value>> \in SV!UnderWay
      <3>1. ~Calls[s].answered /\ Calls[s].line = line[s] /\ line[s].kind \in {"shove", "yeet"}
        BY <2>4, CallRunning DEF Updating, Updates
      <3>2. line[s].key \in Keys /\ line[s].value \in Values \cup {None}
        BY <3>1, ServerAssumption, NoLineType DEF CtlInv, LineInv, ServerTypeOK, LineType
      <3>. QED BY <3>1, <3>2 DEF SV!UnderWay
    <2>5. ASSUME NEW k \in toSeed
          PROVE  k \in Keys /\ Demo[k] \in Values /\ <<k, Demo[k]>> \in SV!UnderWay
      BY CommandsAssumption DEF CtlInv, ServerTypeOK, SV!UnderWay
    <2>6. ASSUME fileOpen, tree # Hollow, file' = tree
          PROVE  Kept
      <3>1. OnFile' = tree /\ OnFile = tree
        BY <1>4, <2>1, <2>6, ServerAssumption, EmptyType DEF OnFile, FileInv
      <3>2. Usable' = Usable
        BY <1>1, <1>4, <2>6 DEF Usable
      <3>. QED BY <3>1, <3>2
    <2>7. ASSUME NEW s \in Sessions, Updating(s), line[s].kind = "nuke",
                 file' \in {Missing, Hollow}
          PROVE  Nuked /\ OnFile' = Empty
      <3>1. ~Calls[s].answered /\ Calls[s].line = line[s]
        BY <2>7, CallRunning DEF Updating
      <3>. QED BY <2>7, <3>1 DEF OnFile
    <2>8. \/ Kept
          \/ ~Sealed /\ Usable /\ Cut /\ (Usable' \/ OnFile' = Empty)
          \/ Nuked /\ OnFile' = Empty
      <3> HIDE DEF Kept, Cut, Nuked
      <3>1. file' \in Damage
        BY DEF Die
      <3>2. \/ file' = file
            \/ \E s \in Sessions : /\ fileOpen /\ tree # Hollow
                                    /\ Updating(s) /\ line[s].kind # "nuke"
                                    /\ file' \in CutShort(line[s].key, line[s].value)
            \/ \E k \in toSeed : fileOpen /\ tree # Hollow /\ file' \in CutShort(k, Demo[k])
            \/ fileOpen /\ tree # Hollow /\ file' = tree
            \/ \E s \in Sessions : /\ Updating(s) /\ line[s].kind = "nuke"
                                    /\ file' \in {Missing, Hollow}
        BY <3>1 DEF Damage
      <3>. QED BY <2>2, <2>3, <2>4, <2>5, <2>6, <2>7, <3>2
    <2>9. SV!Crash
      BY <1>1, <1>2, <1>4, <2>8, Vocabulary DEF SV!Crash
    <2>. QED BY <2>9 DEF SV!Next
  <1>. QED BY <1>3, <1>4

LEMMA ServiceInit == ServerInit => SV!Init
  <1> SUFFICES ASSUME ServerInit
               PROVE  SV!Init
    OBVIOUS
  <1>1. Calls = [s \in Sessions |-> SV!Idle]
    <2>1. \A s \in Sessions :
            [line |-> line[s], answered |-> pc[s] = "reply",
             answer |-> IF pc[s] = "reply" THEN out[s] ELSE NoAnswer] = SV!Idle
      BY Vocabulary DEF ServerInit
    <2>. QED BY <2>1 DEF Calls
  <1>2. /\ Running = FALSE /\ Usable = TRUE /\ Sealed = FALSE
        /\ Store = Empty /\ OnFile = Empty
    BY ServerAssumption DEF ServerInit, Running, Usable, Sealed, Store, OnFile
  <1>. QED BY <1>1, <1>2, Vocabulary DEF ServerInit, SV!Init

LEMMA ServiceStep ==
  ASSUME ServerInv, [ServerNext]_serverVars
  PROVE  [SV!Next]_(SV!serviceVars)
  <1>1. CASE UNCHANGED serverVars
    BY <1>1 DEF serverVars, SV!serviceVars, Running, Store, OnFile, Usable, Sealed, Calls
  <1>2. CASE ServerNext
    BY <1>2, StepCases, MainRefines, CloseRefines, DieRefines, TalkRefines, ScanRefines, CallRefines
  <1>. QED BY <1>1, <1>2

(* The server keeps what Service promises the clients: their commands take effect
   one at a time, between call and answer, whoever runs at the same time, and
   what has been answered is there for the next process.                   *)
THEOREM ServerRefinement == ServerSpec => ServiceSpec
  <1>. QED BY ServiceInit, ServiceStep, ServerInvariant, PTL
           DEF ServerSpec, ServiceSpec, SV!Spec

=============================================================================

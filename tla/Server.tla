------------------------------- MODULE Server -------------------------------
(***************************************************************************)
(* The process: cmd/rawth/main.go starts the engine, the TCP server and    *)
(* the HTTP server and stops them in the opposite order; every connection  *)
(* has a goroutine that reads lines, has the executor run them and writes  *)
(* the answers; engine calls of all goroutines meet at e.mu.               *)
(*                                                                         *)
(* A step of a connection is what it does between two points where others  *)
(* can notice: the locking of e.mu is modelled as sync.RWMutex does it (a  *)
(* writer announces itself, new readers wait behind it, and those are let  *)
(* in when it unlocks), and a scan reads key by key.  Updates hold the     *)
(* lock alone, so each is one step that others can only see as a whole;    *)
(* a kill in the middle of it is a step of its own.                        *)
(*                                                                         *)
(* The engine is the map BTree and Engine are shown to implement, without  *)
(* expiry times, and its file reliable while it is open: their failures    *)
(* are those modules' subject.  A file whose root page has not been        *)
(* written yet, as NewBPlusTree leaves it, is Hollow: a process that opens *)
(* it finds no node in the root page, and every call fails.                *)
(***************************************************************************)
EXTENDS Commands, Integers

CONSTANTS
  Kinds,     \* the kinds of connection each client may make
  Hollow,    \* a file, or its tree, whose root page is zeros
  Missing,   \* no file
  Main, Free

VARIABLES
  main,      \* where cmdServe is
  toSeed,    \* demo entries seedDemoData has still to put
  misread,   \* auxiliary: the count has failed and left it at zero
  tree,      \* e.tree: the map in memory, or Hollow
  file,      \* what a process that opens the file finds: a map, Hollow or Missing
  fileOpen,  \* e.pager's file is open
  tcp,       \* the listener of TCPServer: off, up
  http,      \* http.Server: off, starting, up, failed, closed
  kind,      \* the kind of a client's connection, or none
  linked,    \* clients whose connection is open
  wsConns,   \* the registered WebSocket connections
  pc,        \* where the goroutine of a connection is
  line,      \* the line it works on
  left,      \* the keys its scan has still to visit
  out,       \* its answer
  wlock,     \* e.mu: who has locked or is about to lock it for writing
  readers    \* e.mu: who has locked it for reading

process == <<main, toSeed, misread>>
engine == <<tree, file, fileOpen>>
listeners == <<tcp, http>>
connections == <<kind, linked, wsConns>>
handler == <<pc, line, left, out>>
lock == <<wlock, readers>>
serverVars == <<process, engine, listeners, connections, handler, lock>>

ASSUME ServerAssumption ==
  /\ Lines \in [Sessions -> SUBSET LineType]
  /\ \A s \in Sessions : \A l \in Lines[s] :
       /\ l.kind # "none"
       /\ l.kind \in Looks \cup {"shove", "yeet"} => l.key \in Keys
       /\ l.kind = "yeet" => l.value = None
  /\ Keys # {}
  /\ Kinds \in [Sessions -> SUBSET {"tcp", "ws", "http"}]
  /\ {Hollow, Missing} \cap Contents = {} /\ Hollow # Missing
  /\ Main \notin Sessions /\ Free \notin Sessions /\ Main # Free

-----------------------------------------------------------------------------
(* sync.RWMutex: waiting readers get in when a writer unlocks.             *)
Waiting == {s \in Sessions : pc[s] = "rwait"}

ReleasedTo(next) ==
  [s \in Sessions |-> IF s \in Waiting THEN "scan" ELSE next[s]]

Unlock(next) ==
  /\ wlock' = Free
  /\ readers' = Waiting
  /\ pc' = ReleasedTo(next)

-----------------------------------------------------------------------------
(* cmdServe.                                                               *)

Becomes(from, to) == main = from /\ main' = to

(* OpenEngine.  In a new file the root page is not written before the first
   flush.                                                                  *)
OpenEngine ==
  /\ Becomes("open", "count")
  /\ tree' = IF file = Missing THEN Empty ELSE file
  /\ file' = IF file = Missing THEN Hollow ELSE file
  /\ fileOpen' = TRUE
  /\ UNCHANGED <<toSeed, misread, listeners, connections, handler, lock>>

(* Mutant of LooksEmpty: the key count is not looked at.                   *)
LooksEmptyAlways == UNCHANGED misread

(* stats.KeyCount = 0.  Stats does not look at the error of Count: a tree that
   cannot be read counts as empty.                                         *)
LooksEmpty ==
  \/ (tree = Hollow \/ tree = Empty) /\ UNCHANGED misread
  \/ misread' = TRUE

CountKeys ==
  /\ Becomes("count", "seed")
  /\ \/ LooksEmpty /\ toSeed' = DOMAIN Demo
     \/ tree \notin {Hollow, Empty} /\ UNCHANGED <<toSeed, misread>>
  /\ UNCHANGED <<engine, listeners, connections, handler, lock>>

(* One turn of the loop of seedDemoData, in the order of a Go map.  A failure
   is only logged.                                                         *)
SeedEntry(k) ==
  /\ main = "seed" /\ k \in toSeed
  /\ toSeed' = toSeed \ {k}
  /\ IF tree = Hollow
       THEN UNCHANGED engine
       ELSE /\ tree' = [tree EXCEPT ![k] = Demo[k]]
            /\ file' = tree'
            /\ UNCHANGED fileOpen
  /\ UNCHANGED <<main, misread, listeners, connections, handler, lock>>

(* TCPServer.Start: cmdServe goes on without it if the port is taken.      *)
StartTCP ==
  /\ Becomes("seed", "start_http") /\ toSeed = {}
  /\ tcp' \in {"up", "off"}
  /\ misread' = FALSE
  /\ UNCHANGED <<toSeed, engine, http, connections, handler, lock>>

(* HTTPServer.Start returns before the port is taken: it never fails.      *)
StartHTTP ==
  /\ Becomes("start_http", "serving")
  /\ http' = "starting"
  /\ UNCHANGED <<toSeed, misread, engine, tcp, connections, handler, lock>>

(* The goroutine that calls ListenAndServe.                                *)
ListenAndServe ==
  /\ http = "starting"
  /\ http' \in {"up", "failed"}
  /\ UNCHANGED <<process, engine, tcp, connections, handler, lock>>

Signal ==
  /\ Becomes("serving", "stop_ws")
  /\ UNCHANGED <<toSeed, misread, engine, listeners, connections, handler, lock>>

(* HTTPServer.Stop: close what is registered now, then the server, which closes
   its connections but knows nothing of the hijacked ones.                 *)
StopWebSockets ==
  /\ Becomes("stop_ws", "stop_http")
  /\ linked' = linked \ wsConns
  /\ UNCHANGED <<toSeed, misread, engine, listeners, kind, wsConns, handler, lock>>

(* Mutant of StopHTTP: Stop waits until the clients have gone.             *)
StopHTTPWaits ==
  /\ Becomes("stop_http", "stop_tcp")
  /\ http' = "closed"
  /\ \A s \in linked : kind[s] # "http"
  /\ UNCHANGED <<toSeed, misread, engine, tcp, connections, handler, lock>>

StopHTTP ==
  /\ Becomes("stop_http", "stop_tcp")
  /\ http' = "closed"
  /\ linked' = {s \in linked : kind[s] # "http"}
  /\ UNCHANGED <<toSeed, misread, engine, tcp, kind, wsConns, handler, lock>>

(* TCPServer.Stop closes the listener and no connection.                   *)
StopTCP ==
  /\ Becomes("stop_tcp", "close")
  /\ tcp' = "off"
  /\ UNCHANGED <<toSeed, misread, engine, http, connections, handler, lock>>

(* engine.Close waits for its turn like every other writer.                *)
CallClose ==
  /\ Becomes("close", "closing")
  /\ wlock = Free /\ wlock' = Main
  /\ UNCHANGED <<toSeed, misread, engine, listeners, connections, handler, readers>>

CloseEngine ==
  /\ Becomes("closing", "exit")
  /\ readers = {}
  /\ file' = tree
  /\ fileOpen' = FALSE
  /\ Unlock(pc)
  /\ UNCHANGED <<toSeed, misread, tree, listeners, connections, line, left, out>>

-----------------------------------------------------------------------------
(* The end of the process: main returns, or it is killed, or a goroutine that
   nobody recovers panics.  Whatever the others were doing is cut short.   *)

Updating(s) == pc[s] = "locked" /\ line[s].kind \in Updates

(* The file after a kill in the middle of a Put or Delete of the tree.  A Delete
   and the first Put into a new tree flush one page, any other Put may split
   pages and switch to a root page that is not written yet.                *)
CutShort(k, v) ==
  {file, [tree EXCEPT ![k] = v]}
  \cup (IF v = None \/ file = Hollow THEN {} ELSE {Hollow} \cup Torn(file, k, v))

Damage ==
  {file}
  \cup (IF ~fileOpen \/ tree = Hollow THEN {}
        ELSE UNION ({CutShort(line[s].key, line[s].value) :
                       s \in {t \in Sessions : Updating(t) /\ line[t].kind # "nuke"}}
                    \cup (IF main = "seed" THEN {CutShort(k, Demo[k]) : k \in toSeed} ELSE {})
                    \cup (IF main = "closing" \/ \E s \in Sessions : Updating(s)
                            THEN {{tree}} ELSE {})))
  \cup (IF \E s \in Sessions : Updating(s) /\ line[s].kind = "nuke"
          THEN {Missing, Hollow} ELSE {})

Die ==
  /\ main' = "gone"
  /\ file' \in Damage
  /\ toSeed' = {} /\ misread' = FALSE
  /\ tree' = Empty /\ fileOpen' = FALSE
  /\ tcp' = "off" /\ http' = "off"
  /\ kind' = [s \in Sessions |-> "none"] /\ linked' = {} /\ wsConns' = {}
  /\ pc' = [s \in Sessions |-> "none"] /\ line' = [s \in Sessions |-> NoLine]
  /\ left' = [s \in Sessions |-> {}] /\ out' = [s \in Sessions |-> NoAnswer]
  /\ wlock' = Free /\ readers' = {}

Exit == main = "exit" /\ Die

Kill == main \notin {"exit", "gone"} /\ Die

Restart ==
  /\ Becomes("gone", "open")
  /\ UNCHANGED <<toSeed, misread, engine, listeners, connections, handler, lock>>

-----------------------------------------------------------------------------
(* Connections.                                                            *)

At(s, from, to) == pc[s] = from /\ pc' = [pc EXCEPT ![s] = to]

(* acceptLoop, and Serve of the HTTP server.  A WebSocket is an HTTP request at
   first; handleWebSocket hijacks its connection.                          *)
Connect(s, k) ==
  /\ k \in Kinds[s] /\ kind[s] = "none"
  /\ IF k = "tcp" THEN tcp = "up" ELSE http = "up"
  /\ At(s, "none", IF k = "ws" THEN "upgrade" ELSE "read")
  /\ kind' = [kind EXCEPT ![s] = k]
  /\ linked' = linked \cup {s}
  /\ UNCHANGED <<process, engine, listeners, wsConns, line, left, out, lock>>

(* The rest of handleWebSocket up to the read loop.                        *)
Register(s) ==
  /\ At(s, "upgrade", "read")
  /\ wsConns' = wsConns \cup {s}
  /\ UNCHANGED <<process, engine, listeners, kind, linked, line, left, out, lock>>

(* The client, or a timeout, closes the connection.  Answers that are written
   to it from now on are lost.                                             *)
HangUp(s) ==
  /\ s \in linked
  /\ linked' = linked \ {s}
  /\ UNCHANGED <<process, engine, listeners, kind, wsConns, handler, lock>>

(* The next line, frame or request.  (A blank one changes nothing.)        *)
Receive(s, l) ==
  /\ s \in linked /\ l \in Lines[s] /\ l.kind \notin {"quit", "broken"}
  /\ At(s, "read", "run")
  /\ line' = [line EXCEPT ![s] = l]
  /\ left' = [left EXCEPT ![s] = IF l.kind \in Scans THEN Keys ELSE {}]
  /\ UNCHANGED <<process, engine, listeners, connections, out, lock>>

(* The loops of handleConnection and wsReadLoop end: QUIT or a close frame, a
   failed read, or, where net/http recovers it, a panic.                   *)
EndLoop(s) ==
  /\ At(s, "read", "leave")
  /\ \/ s \notin linked
     \/ \E l \in Lines[s] : l.kind = "quit" /\ kind[s] # "http"
     \/ \E l \in Lines[s] : l.kind = "broken" /\ kind[s] # "tcp"
  /\ UNCHANGED <<process, engine, listeners, connections, line, left, out, lock>>

(* Nobody recovers a panic in handleConnection.                            *)
Panic(s) ==
  /\ pc[s] = "read" /\ s \in linked /\ kind[s] = "tcp"
  /\ \E l \in Lines[s] : l.kind = "broken"
  /\ Die

(* Mutant of Leave: the connection is closed but stays registered.         *)
LeaveRegistered(s) ==
  /\ At(s, "leave", "none")
  /\ linked' = linked \ {s}
  /\ kind' = [kind EXCEPT ![s] = "none"]
  /\ UNCHANGED <<process, engine, listeners, wsConns, line, left, out, lock>>

(* The deferred calls.                                                     *)
Leave(s) ==
  /\ At(s, "leave", "none")
  /\ wsConns' = wsConns \ {s}
  /\ linked' = linked \ {s}
  /\ kind' = [kind EXCEPT ![s] = "none"]
  /\ UNCHANGED <<process, engine, listeners, line, left, out, lock>>

-----------------------------------------------------------------------------
(* Execute: the engine calls of the commands.                              *)

(* e.mu.Lock: announce, then wait for the readers to leave.                *)
Lock(s) ==
  /\ line[s].kind \in Updates \cup Looks
  /\ At(s, "run", "wwait")
  /\ wlock = Free /\ wlock' = s
  /\ UNCHANGED <<process, engine, listeners, connections, line, left, out, readers>>

(* Mutant of Locked: the writer does not wait for the readers.             *)
LockedAtOnce(s) ==
  /\ At(s, "wwait", "locked")
  /\ UNCHANGED <<process, engine, listeners, connections, line, left, out, lock>>

Locked(s) ==
  /\ At(s, "wwait", "locked")
  /\ readers = {}
  /\ UNCHANGED <<process, engine, listeners, connections, line, left, out, lock>>

(* Mutant of RLock: the key list is read without the lock.                 *)
RLockNot(s) ==
  /\ line[s].kind \in Scans
  /\ At(s, "run", "scan")
  /\ UNCHANGED <<process, engine, listeners, connections, line, left, out, lock>>

(* e.mu.RLock: wait if a writer holds the lock or has announced itself.    *)
RLock(s) ==
  /\ line[s].kind \in Scans
  /\ IF wlock = Free
       THEN At(s, "run", "scan") /\ readers' = readers \cup {s}
       ELSE At(s, "run", "rwait") /\ UNCHANGED readers
  /\ UNCHANGED <<process, engine, listeners, connections, line, left, out, wlock>>

(* Mutant of ReturnUnlocked: the error return comes before the unlock.     *)
ReturnStillLocked(s, answer) ==
  /\ IF answer = Failed
       THEN At(s, "locked", "reply") /\ UNCHANGED lock
       ELSE pc[s] = "locked" /\ Unlock([pc EXCEPT ![s] = "reply"])
  /\ out' = [out EXCEPT ![s] = answer]
  /\ UNCHANGED <<process, listeners, connections, line, left>>

(* The engine call returns and unlocks.                                    *)
ReturnUnlocked(s, answer) ==
  /\ pc[s] = "locked"
  /\ Unlock([pc EXCEPT ![s] = "reply"])
  /\ out' = [out EXCEPT ![s] = answer]
  /\ UNCHANGED <<process, listeners, connections, line, left>>

(* A tree that cannot be read, or a file that is closed (the page asked for may
   be in the buffer, or not).                                              *)
Degraded == tree = Hollow \/ ~fileOpen

Look(s) ==
  /\ line[s].kind \in Looks
  /\ \/ tree # Hollow /\ ReturnUnlocked(s, Sight(tree, line[s]))
     \/ Degraded /\ ReturnUnlocked(s, Failed)
  /\ UNCHANGED engine

(* The update of a key to a value, None to delete it, that ends in a flush. *)
Assigned(s) == [tree EXCEPT ![line[s].key] = line[s].value]

(* Mutant of Assign: the error of the flush is not reported.               *)
AssignIgnoresError(s) ==
  /\ tree # Hollow
  /\ tree' = Assigned(s) /\ file' = (IF fileOpen THEN tree' ELSE file)
  /\ UNCHANGED fileOpen
  /\ ReturnUnlocked(s, Done)

Assign(s) ==
  /\ tree # Hollow /\ fileOpen
  /\ tree' = Assigned(s) /\ file' = tree'
  /\ UNCHANGED fileOpen
  /\ ReturnUnlocked(s, Done)

(* The flush of a closed file fails, when the pages in memory are changed.  *)
AssignFails(s) ==
  /\ Degraded
  /\ tree' \in {tree} \cup (IF tree = Hollow THEN {} ELSE {Assigned(s)})
  /\ UNCHANGED <<file, fileOpen>>
  /\ ReturnUnlocked(s, Failed)

Update(s) ==
  /\ line[s].kind \in {"shove", "yeet"}
  /\ IF line[s].kind = "yeet" /\ tree # Hollow /\ tree[line[s].key] = None
       THEN ReturnUnlocked(s, NotFound) /\ UNCHANGED engine
       ELSE Assign(s) \/ AssignFails(s)

(* Mutant of Nuke: the engine is left without a tree.                      *)
NukeLeavesNoTree(s) ==
  /\ line[s].kind = "nuke"
  /\ tree' = Missing /\ file' = Hollow /\ fileOpen' = TRUE
  /\ ReturnUnlocked(s, Done)

(* Nuke opens a new file, also when engine.Close has closed the old one.   *)
Nuke(s) ==
  /\ line[s].kind = "nuke"
  /\ tree' = Empty /\ file' = Hollow /\ fileOpen' = TRUE
  /\ ReturnUnlocked(s, Done)

(* Keys and Count go through the leaves, from the lowest key on.           *)
ScanKey(s) ==
  /\ pc[s] = "scan" /\ left[s] # {} /\ tree # Hollow
  /\ \E k \in left[s] :
       /\ \A j \in left[s] : k <= j
       /\ left' = [left EXCEPT ![s] = @ \ {k}]
       /\ out' = [out EXCEPT ![s].keys = IF tree[k] = None THEN @ ELSE @ \cup {k}]
  /\ UNCHANGED <<process, engine, listeners, connections, pc, line, lock>>

EndScan(s, answer) ==
  /\ At(s, "scan", "reply")
  /\ readers' = readers \ {s}
  /\ left' = [left EXCEPT ![s] = {}]
  /\ out' = [out EXCEPT ![s] = answer]
  /\ UNCHANGED <<process, engine, listeners, connections, line, wlock>>

Scanned(s) == left[s] = {} /\ EndScan(s, Answer("ok", None, out[s].keys))

(* A page cannot be read.  KEYS fails; STATS reports what was counted.     *)
ScanFails(s) ==
  /\ Degraded
  /\ EndScan(s, IF line[s].kind = "keys" THEN Failed ELSE Answer("ok", None, out[s].keys))

(* execHelp, and Execute when the line does not parse.                     *)
Help(s) ==
  /\ line[s].kind = "help"
  /\ At(s, "run", "reply")
  /\ out' = [out EXCEPT ![s] = Done]
  /\ UNCHANGED <<process, engine, listeners, connections, line, left, lock>>

Reply(s) ==
  /\ At(s, "reply", "read")
  /\ line' = [line EXCEPT ![s] = NoLine]
  /\ out' = [out EXCEPT ![s] = NoAnswer]
  /\ UNCHANGED <<process, engine, listeners, connections, left, lock>>

-----------------------------------------------------------------------------
ServerInit ==
  /\ main = "open" /\ toSeed = {} /\ misread = FALSE
  /\ tree = Empty /\ file = Missing /\ fileOpen = FALSE
  /\ tcp = "off" /\ http = "off"
  /\ kind = [s \in Sessions |-> "none"] /\ linked = {} /\ wsConns = {}
  /\ pc = [s \in Sessions |-> "none"] /\ line = [s \in Sessions |-> NoLine]
  /\ left = [s \in Sessions |-> {}] /\ out = [s \in Sessions |-> NoAnswer]
  /\ wlock = Free /\ readers = {}

Startup == OpenEngine \/ CountKeys \/ (\E k \in Keys : SeedEntry(k)) \/ StartTCP \/ StartHTTP

Shutdown == StopWebSockets \/ StopHTTP \/ StopTCP \/ CallClose \/ CloseEngine \/ Exit

(* What the goroutine of a connection does without waiting for its client. *)
Work(s) ==
  \/ Register(s) \/ (s \notin linked /\ EndLoop(s)) \/ Leave(s)
  \/ Lock(s) \/ Locked(s) \/ RLock(s)
  \/ Look(s) \/ Update(s) \/ Nuke(s)
  \/ ScanKey(s) \/ Scanned(s) \/ ScanFails(s)
  \/ Help(s) \/ Reply(s)

ClientStep(s) ==
  \/ \E k \in Kinds[s] : Connect(s, k)
  \/ HangUp(s)
  \/ \E l \in Lines[s] : Receive(s, l)
  \/ EndLoop(s)
  \/ Panic(s)

ServerNext ==
  \/ Startup \/ ListenAndServe \/ Signal \/ Shutdown \/ Kill \/ Restart
  \/ \E s \in Sessions : Work(s) \/ ClientStep(s)

ServerSpec == ServerInit /\ [][ServerNext]_serverVars

(* Goroutines are scheduled, and a Mutex that is unlocked again and again is
   handed to each that waits for it.  Clients and signals are under no
   obligation.                                                             *)
ServerFairSpec ==
  /\ ServerSpec
  /\ WF_serverVars(Shutdown) /\ SF_serverVars(CallClose)
  /\ \A s \in Sessions : WF_serverVars(Work(s)) /\ SF_serverVars(Lock(s))

-----------------------------------------------------------------------------
ServerTypeOK ==
  /\ main \in {"open", "count", "seed", "start_http", "serving", "stop_ws", "stop_http",
               "stop_tcp", "close", "closing", "exit", "gone"}
  /\ toSeed \subseteq DOMAIN Demo
  /\ misread \in BOOLEAN
  /\ tree \in Contents \cup {Hollow}
  /\ file \in Contents \cup {Hollow, Missing}
  /\ fileOpen \in BOOLEAN
  /\ tcp \in {"off", "up"}
  /\ http \in {"off", "starting", "up", "failed", "closed"}
  /\ kind \in [Sessions -> {"none", "tcp", "ws", "http"}]
  /\ linked \subseteq Sessions /\ wsConns \subseteq Sessions
  /\ pc \in [Sessions -> {"none", "upgrade", "read", "run", "wwait", "rwait",
                          "locked", "scan", "reply", "leave"}]
  /\ line \in [Sessions -> LineType]
  /\ left \in [Sessions -> SUBSET Keys]
  /\ out \in [Sessions -> AnswerType]
  /\ wlock \in Sessions \cup {Main, Free}
  /\ readers \subseteq Sessions

(* "Thread-safe wrapper" (README.md:20): whoever changes the tree is alone with
   it; no other goroutine is in the tree, for reading or writing.          *)
WritersAlone ==
  \A s \in Sessions :
    pc[s] = "locked" =>
      /\ \A t \in Sessions \ {s} : pc[t] \notin {"locked", "scan"}
      /\ main # "closing"

(* The clients cannot tell that their commands run concurrently, that updates
   are in memory first, or that engine.Close comes before the last of them: each
   takes effect at one moment, a key list is a list of keys that were there
   together, and what was answered is found again by the next process, however
   this one ends.  (KillDamageIsBounded says what happens to the rest.)    *)
Running == main \notin {"open", "gone"}

OnFile == IF file \in {Hollow, Missing} THEN Empty ELSE file

Store == IF ~Running \/ tree = Hollow THEN Empty ELSE tree

Usable == IF Running THEN tree # Hollow ELSE file # Hollow

Sealed == Running /\ ~fileOpen

Calls == [s \in Sessions |->
            [line |-> line[s], answered |-> pc[s] = "reply",
             answer |-> IF pc[s] = "reply" THEN out[s] ELSE NoAnswer]]

SV == INSTANCE Service WITH
        up <- Running, store <- Store, saved <- OnFile, usable <- Usable, sealed <- Sealed,
        seeds <- toSeed, calls <- Calls, misread <- misread

ServiceSpec == SV!Spec

(* "seed some data if it's empty" (main.go:67): the demo entries replace an
   entry of the users only if the count has failed, whose error is ignored. *)
DemoReplacesNothing ==
  [][main = "seed" /\ tree' # tree /\ Running' =>
       \A k \in Keys : tree'[k] = tree[k] \/ tree[k] = None \/ misread]_serverVars

(* Every command that has come in is answered, whoever else wants the lock, and
   also while the servers are being stopped; unless the process ends.      *)
CommandsAnswered ==
  \A s \in Sessions : pc[s] \in {"run", "wwait", "rwait", "locked", "scan"} ~>
                        pc[s] = "reply" \/ main = "gone"

(* After the signal the process ends, however busy the clients are.        *)
ShutdownCompletes == main = "stop_ws" ~> main = "gone"

(* A connection that is closed, by the client, by Stop or for a panic, is taken
   from wsConns and its goroutine ends: none is left behind.               *)
HandlersEnd ==
  \A s \in Sessions : kind[s] # "none" /\ s \notin linked ~> s \notin wsConns /\ kind[s] = "none"

=============================================================================

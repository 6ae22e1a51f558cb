------------------------------ MODULE Commands ------------------------------
(***************************************************************************)
(* The lines a client can send, the answers it gets, and what a kill may   *)
(* make of the database file: the vocabulary that the servers (Server) and *)
(* what they promise (Service) have in common.                             *)
(***************************************************************************)
EXTENDS FiniteSets

CONSTANTS
  Sessions,   \* clients: each has at most one connection at a time
  Lines,      \* the lines each client may send
  Keys, Values,
  Demo,       \* the demo entries of seedDemoData: a function on some of the keys
  None        \* no value

ASSUME CommandsAssumption ==
  /\ None \notin Values
  /\ DOMAIN Demo \subseteq Keys /\ \A k \in DOMAIN Demo : Demo[k] \in Values

(* cmd.Type of the commands that call the engine, and of the other lines: help
   is one that is answered without it (HELP, a parse error), quit ends the
   connection, and broken makes the goroutine panic (see RQL).             *)
Scans == {"keys", "stats"}
Updates == {"shove", "yeet", "nuke"}
Looks == {"yoink", "peek"}

Line(kind, key, value) == [kind |-> kind, key |-> key, value |-> value]

NoLine == Line("none", None, None)

LineType ==
  [kind : Scans \cup Updates \cup Looks \cup {"none", "help", "quit", "broken"},
   key : Keys \cup {None}, value : Values \cup {None}]

(* Result, as far as clients can tell answers apart.  For STATS, `keys' stands
   for the key count.                                                      *)
Answer(status, value, keys) == [status |-> status, value |-> value, keys |-> keys]

NoAnswer == Answer("none", None, {})
Done == Answer("ok", None, {})
NotFound == Answer("notfound", None, {})
Failed == Answer("error", None, {})

AnswerType == [status : {"none", "ok", "notfound", "error"},
               value : Values \cup {None}, keys : SUBSET Keys]

-----------------------------------------------------------------------------
(* The contents of a database: a value or None for every key.              *)
Contents == [Keys -> Values \cup {None}]

Empty == [k \in Keys |-> None]

Present(db) == {k \in Keys : db[k] # None}

(* What YOINK and PEEK answer.                                             *)
Sight(db, l) ==
  IF db[l.key] = None THEN NotFound
  ELSE Answer("ok", IF l.kind = "yoink" THEN db[l.key] ELSE None, {})

(* What a kill may leave of db if it comes in the middle of the update of a key
   to v: KillDamageIsBounded of BTree.                                     *)
Torn(db, k, v) ==
  {d \in Contents : \A j \in Keys : d[j] \in {db[j], None} \cup (IF j = k THEN {v} ELSE {})}

=============================================================================

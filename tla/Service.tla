------------------------------ MODULE Service ------------------------------
(***************************************************************************)
(* What the server promises its clients: the commands of all of them take  *)
(* effect one at a time, each at some moment between its arrival and its   *)
(* answer, and what has been answered survives the end of the process.     *)
(***************************************************************************)
EXTENDS Commands, Naturals

VARIABLES
  up,        \* there is a process; it has been counting and seeding, or serves
  store,     \* the database as the commands see it
  saved,     \* the database as the next process will find it
  usable,    \* commands work: the file has a root page
  sealed,    \* the engine has been closed
  seeds,     \* demo entries still to be put
  calls,     \* commands in progress
  misread    \* the database has been taken for empty by mistake

serviceVars == <<up, store, saved, usable, sealed, seeds, calls, misread>>

Idle == [line |-> NoLine, answered |-> FALSE, answer |-> NoAnswer]
Called(l) == [line |-> l, answered |-> FALSE, answer |-> NoAnswer]

Init ==
  /\ up = FALSE /\ usable = TRUE /\ sealed = FALSE
  /\ store = Empty /\ saved = Empty
  /\ seeds = {} /\ calls = [s \in Sessions |-> Idle] /\ misread = FALSE

Open ==
  /\ ~up /\ up'
  /\ store' = saved
  /\ UNCHANGED <<saved, usable, sealed, seeds, calls, misread>>

(* Demo entries are put into an empty database only, before the first command
   comes in.                                                               *)
BeginSeeding ==
  /\ up /\ \A s \in Sessions : calls[s] = Idle
  /\ seeds' = DOMAIN Demo
  /\ \/ store = Empty /\ UNCHANGED misread
     \/ misread'
  /\ UNCHANGED <<up, store, saved, usable, sealed, calls>>

EndSeeding ==
  /\ up /\ seeds = {}
  /\ misread' = FALSE
  /\ UNCHANGED <<up, store, saved, usable, sealed, seeds, calls>>

Seed(k) ==
  /\ k \in seeds
  /\ seeds' = seeds \ {k}
  /\ store' = IF usable THEN [store EXCEPT ![k] = Demo[k]] ELSE store
  /\ saved' = IF usable THEN store' ELSE saved
  /\ UNCHANGED <<up, usable, sealed, calls, misread>>

Call(s, l) ==
  /\ up /\ seeds = {}
  /\ calls[s] = Idle
  /\ calls' = [calls EXCEPT ![s] = Called(l)]
  /\ UNCHANGED <<up, store, saved, usable, sealed, seeds, misread>>

Answered(s, answer) ==
  calls' = [calls EXCEPT ![s] = [line |-> @.line, answered |-> TRUE, answer |-> answer]]

Degraded == ~usable \/ sealed

(* A command takes effect.                                                 *)
Observe(s, l) ==
  /\ \/ l.kind = "help" /\ Answered(s, Done)
     \/ l.kind \in {"yoink", "peek"} /\ usable /\ Answered(s, Sight(store, l))
     \/ l.kind \in Scans /\ usable /\ Answered(s, Answer("ok", None, Present(store)))
     \/ l.kind \in {"yoink", "peek", "keys"} /\ Degraded /\ Answered(s, Failed)
     \/ l.kind = "stats" /\ Degraded
        /\ \E S \in SUBSET Present(store) : Answered(s, Answer("ok", None, S))
  /\ UNCHANGED <<store, saved, usable, sealed>>

Shove(s, l) ==
  /\ l.kind = "shove" /\ ~Degraded
  /\ store' = [store EXCEPT ![l.key] = l.value] /\ saved' = store'
  /\ Answered(s, Done)
  /\ UNCHANGED <<usable, sealed>>

Yeet(s, l) ==
  /\ l.kind = "yeet" /\ usable
  /\ IF store[l.key] = None
       THEN Answered(s, NotFound) /\ UNCHANGED <<store, saved>>
       ELSE /\ ~sealed
            /\ store' = [store EXCEPT ![l.key] = None] /\ saved' = store'
            /\ Answered(s, Done)
  /\ UNCHANGED <<usable, sealed>>

(* A command that fails may be seen to have taken effect, but never by the next
   process.                                                                *)
UpdateFails(s, l) ==
  /\ l.kind \in {"shove", "yeet"} /\ Degraded
  /\ store' \in {store} \cup (IF usable THEN {[store EXCEPT ![l.key] = l.value]} ELSE {})
  /\ Answered(s, Failed)
  /\ UNCHANGED <<saved, usable, sealed>>

Nuke(s, l) ==
  /\ l.kind = "nuke"
  /\ store' = Empty /\ saved' = Empty
  /\ usable' /\ ~sealed'
  /\ Answered(s, Done)

Effect(s) ==
  /\ calls[s] # Idle /\ ~calls[s].answered
  /\ LET l == calls[s].line IN
     Observe(s, l) \/ Shove(s, l) \/ Yeet(s, l) \/ UpdateFails(s, l) \/ Nuke(s, l)
  /\ UNCHANGED <<up, seeds, misread>>

Return(s) ==
  /\ calls[s].answered
  /\ calls' = [calls EXCEPT ![s] = Idle]
  /\ UNCHANGED <<up, store, saved, usable, sealed, seeds, misread>>

Seal ==
  /\ up /\ sealed'
  /\ UNCHANGED <<up, store, saved, usable, seeds, calls, misread>>

(* Updates under way when the process ends: the key and its new value.     *)
UnderWay ==
  {<<l.key, l.value>> :
     l \in {calls[s].line : s \in {t \in Sessions :
              ~calls[t].answered /\ calls[t].line.kind \in {"shove", "yeet"}}}}
  \cup {<<k, Demo[k]>> : k \in seeds}

(* The end of the process, expected or not.  Only updates under way can damage
   the file, and never once the engine is closed; but a database without entries
   can be left unusable at any time (its root page need not be in the file). *)
Crash ==
  /\ up /\ ~up'
  /\ \/ UNCHANGED <<saved, usable>>
     \/ saved = Empty /\ UNCHANGED saved
     \/ /\ ~sealed /\ usable /\ \E u \in UnderWay : saved' \in Torn(saved, u[1], u[2])
        /\ usable' \/ saved' = Empty
     \/ /\ \E s \in Sessions : ~calls[s].answered /\ calls[s].line.kind = "nuke"
        /\ saved' = Empty
  /\ store' = Empty
  /\ sealed' = FALSE
  /\ seeds' = {} /\ calls' = [s \in Sessions |-> Idle]
  /\ misread' = FALSE

Next ==
  \/ Open \/ BeginSeeding \/ EndSeeding \/ Seal \/ Crash
  \/ \E k \in Keys : Seed(k)
  \/ \E s \in Sessions : Effect(s) \/ Return(s) \/ \E l \in Lines[s] : Call(s, l)

Spec == Init /\ [][Next]_serviceVars

=============================================================================

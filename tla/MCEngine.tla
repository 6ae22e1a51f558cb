------------------------------ MODULE MCEngine ------------------------------
(* Instances of the engine: a second of two units and durations of five bits,
   -16..15, so that a TTL of 8 seconds is the first to wrap.               *)
EXTENDS Engine

(* No action reads `ret', and the one property that does (TTLMapSpec) promises
   nothing after a failure: from there on states may differ in it.         *)
WithoutResult ==
  <<dict, ttls, file, saved, now, faults, history, IF faults = 0 THEN ret ELSE 0>>

=============================================================================

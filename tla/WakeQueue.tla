------------------------------- MODULE WakeQueue -------------------------------
(****************************************************************************)
(* What the event scheduler promises, with no heap, no event ids and no     *)
(* de-duplication index: a set of pending wakes, a clock that only moves    *)
(* forward, and a drain that hands over exactly the wakes that are due.     *)
(* EventScheduler implements this specification.                            *)
(****************************************************************************)
EXTENDS Integers

CONSTANTS Indices,    \* who a wake is for
          Tokens,     \* the opaque token it carries
          MaxCycle    \* bound on the clock and on deadlines

VARIABLES clock,      \* the current cycle
          wakes,      \* pending wakes <<index, token, deadline>>
          fired       \* the wakes handed over by the latest drain

vars == <<clock, wakes, fired>>

Wake == Indices \X Tokens \X (0 .. MaxCycle)

Init ==
  /\ clock = 0
  /\ wakes = {}
  /\ fired = {}

(* Time passes; asking for an earlier or the same cycle changes nothing. *)
Tick(target) ==
  /\ clock' = IF target > clock THEN target ELSE clock
  /\ UNCHANGED <<wakes, fired>>

(* A wake asked for in the past is due now; asking twice is asking once. *)
Arm(deadline, i, k) ==
  /\ wakes' = wakes \cup {<<i, k, IF deadline < clock THEN clock ELSE deadline>>}
  /\ UNCHANGED <<clock, fired>>

(* Hand over everything that is due and nothing else. *)
Fire ==
  /\ fired' = {w \in wakes : w[3] <= clock}
  /\ wakes' = {w \in wakes : w[3] > clock}
  /\ UNCHANGED clock

Next ==
  \/ \E target \in 0 .. MaxCycle : Tick(target)
  \/ \E deadline \in 0 .. MaxCycle, i \in Indices, k \in Tokens : Arm(deadline, i, k)
  \/ Fire

Spec == Init /\ [][Next]_vars
================================================================================

---------------------------- MODULE AbsScheduler ----------------------------
(***************************************************************************)
(* What the kernel promises about who runs where, without locks, queues,   *)
(* timers or priorities: an environment executes on at most one CPU, gets  *)
(* there only when it is ready, and, once it has begun to execute, leaves  *)
(* its CPU only by that CPU's own doing, also when another one kills it.   *)
(***************************************************************************)
CONSTANTS CPUs, Envs, None

VARIABLES
  state,      \* what each environment may do
  running     \* what each CPU executes

Init ==
  /\ running = [c \in CPUs |-> None]
  /\ state \in [Envs -> {"free", "ready"}]

Set(e, s) == state' = [state EXCEPT ![e] = s]

Idle(c) == running' = [running EXCEPT ![c] = None]

Spawn(e) == state[e] = "free" /\ Set(e, "blocked") /\ UNCHANGED running

Wake(e) == state[e] = "blocked" /\ Set(e, "ready") /\ UNCHANGED running

\* e executes on c from now on; whom it displaces is ready again
Dispatch(c, e) ==
  /\ state[e] = "ready"
  /\ running[c] # None => state[running[c]] = "running"
  /\ state' = [x \in Envs |-> IF x = e THEN "running"
                              ELSE IF x = running[c] THEN "ready" ELSE state[x]]
  /\ running' = [running EXCEPT ![c] = e]

\* what c executes waits for a message
Block(c) ==
  /\ running[c] # None
  /\ state[running[c]] = "running"
  /\ Set(running[c], "blocked")
  /\ Idle(c)

\* what c executes ends, of its own will or because it is doomed
End(c) == running[c] # None /\ Set(running[c], "free") /\ Idle(c)

\* killed while it executes elsewhere: it ends there
Doom(e) == state[e] = "running" /\ Set(e, "doomed") /\ UNCHANGED running

\* killed while it does not execute
Remove(e) == state[e] \in {"ready", "blocked"} /\ Set(e, "free") /\ UNCHANGED running

Next ==
  \/ \E c \in CPUs : Block(c) \/ End(c) \/ \E e \in Envs : Dispatch(c, e)
  \/ \E e \in Envs : Spawn(e) \/ Wake(e) \/ Doom(e) \/ Remove(e)

Spec == Init /\ [][Next]_<<state, running>>
=============================================================================

--------------------------- MODULE PrivateMemory ----------------------------
(***************************************************************************)
(* What fork promises (lib/fork.c): every process has a memory of its own. *)
(* A write changes the writer's memory and nobody else's; a child starts   *)
(* with a copy of its parent's, but for the stack, which the parent goes   *)
(* on using while it makes the copy.                                       *)
(***************************************************************************)
CONSTANTS Env, Addr, Stack, Value, None

VARIABLES view    \* the memory of each process, None when there is no process;
                  \* None too where it has no page

Init == \E e \in Env, m \in [Addr -> Value \cup {None}] :
          view = [x \in Env |-> IF x = e THEN m ELSE None]

Write(e) ==
  \E a \in Addr, v \in Value :
    /\ view[e] # None /\ view[e][a] # None
    /\ view' = [view EXCEPT ![e][a] = v]

Fork(e) ==
  \E n \in Env, s \in Value :
    /\ view[e] # None /\ view[n] = None
    /\ view' = [view EXCEPT ![n] = [view[e] EXCEPT ![Stack] = s]]

Exit(e) == view[e] # None /\ view' = [view EXCEPT ![e] = None]

Next == \E e \in Env : Write(e) \/ Fork(e) \/ Exit(e)

Spec == Init /\ [][Next]_view
=============================================================================

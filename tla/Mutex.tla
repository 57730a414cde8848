------------------------------- MODULE Mutex -------------------------------
(***************************************************************************)
(* What the big kernel lock promises: at most one CPU owns the kernel, an  *)
(* owner gives it back itself, and nobody else can.                        *)
(***************************************************************************)
CONSTANTS CPUs,     \* the CPUs of the machine
          NoCPU     \* stands for "the kernel is free"

VARIABLE holder

Init == holder = NoCPU

Acquire(c) == holder = NoCPU /\ holder' = c

Release(c) == holder = c /\ holder' = NoCPU

Next == \E c \in CPUs : Acquire(c) \/ Release(c)

Spec == Init /\ [][Next]_holder
=============================================================================

------------------------------- MODULE MlfqMC -------------------------------
\* Small instances of Mlfq for TLC.
EXTENDS Mlfq, TLC

CONSTANTS c1, c2, e1, e2, e3

\* Every trap of the model.
AllCalls == {"fault", "exit", "other", "yield", "exofork", "set_status",
             "destroy", "recv", "send", "change_prio"}

\* With every boot CPU and order of envs[] possible, names do not matter.
AnyMachine == CPUs \X SetToSeqs(Envs)

Symmetry == Permutations(CPUs) \cup Permutations(Envs)

\* One machine, for liveness, which TLC cannot check under symmetry.
OneCpu == {c1}
TwoCpus == {c1, c2}
TwoEnvs == {e1, e2}
ThreeEnvs == {e1, e2, e3}
MachineOf2 == {<<c1, <<e1, e2>>>>}
MachineOf3 == {<<c1, <<e1, e2, e3>>>>}
=============================================================================

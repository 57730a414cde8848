---------------------------- MODULE KernelLockMC ----------------------------
\* Three CPUs, the first of which boots the machine.
EXTENDS KernelLock

CONSTANTS c1, c2, c3

MCCPUs == {c1, c2, c3}
MCBSP == c1
=============================================================================

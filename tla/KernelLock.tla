----------------------------- MODULE KernelLock -----------------------------
(***************************************************************************)
(* The big kernel lock of the JOS kernel (kern/spinlock.c), one memory     *)
(* access per step, under the discipline its callers follow: the boot      *)
(* processor (i386_init, boot_aps), the application processors (mp_main),  *)
(* the trap entry (trap), and the two ways out of the kernel (env_run,     *)
(* sched_halt).                                                            *)
(*                                                                         *)
(* Interrupts are off in the kernel, so a CPU traps only from user mode    *)
(* (pc = "user") or from the hlt loop of sched_halt (pc = "hlt").          *)
(***************************************************************************)
CONSTANTS CPUs, BSP, NoCPU

ASSUME BspAssumption == BSP \in CPUs
ASSUME NoCpuAssumption == NoCPU \notin CPUs

VARIABLES
  locked,      \* kernel_lock.locked
  owner,       \* kernel_lock.cpu, the DEBUG_SPINLOCK record of the holder
  cpu_status,  \* cpus[c].cpu_status
  tf_cs,       \* the privilege the last trap of c came from
  pc,          \* where c is
  after        \* where c goes when spin_lock or spin_unlock returns

vars == <<locked, owner, cpu_status, tf_cs, pc, after>>

Goto(c, l) == pc' = [pc EXCEPT ![c] = l]

\* lock_kernel() or unlock_kernel(), returning to l
Call(c, proc, l) == Goto(c, proc) /\ after' = [after EXCEPT ![c] = l]

Init ==
  /\ locked = FALSE
  /\ owner = NoCPU
  /\ cpu_status = [c \in CPUs |-> IF c = BSP THEN "started" ELSE "unused"]
  /\ tf_cs = [c \in CPUs |-> "kernel"]
  /\ pc = [c \in CPUs |-> IF c = BSP THEN "lock" ELSE "off"]
  /\ after = [c \in CPUs |-> "boot_aps"]

-----------------------------------------------------------------------------
(* spin_lock *)

\* holding(lk), first operand: an unlocked lock is not held by this CPU
LockTest(c) ==
  /\ pc[c] = "lock"
  /\ Goto(c, IF locked THEN "lock_owner" ELSE "xchg")
  /\ UNCHANGED <<locked, owner, cpu_status, tf_cs, after>>

\* holding(lk), second operand: "cannot acquire: already holding"
LockTestOwner(c) ==
  /\ pc[c] = "lock_owner"
  /\ Goto(c, IF owner = c THEN "panic" ELSE "xchg")
  /\ UNCHANGED <<locked, owner, cpu_status, tf_cs, after>>

\* Mutant of LockXchg: the result of xchg is ignored.
LockXchgOnce(c) ==
  /\ pc[c] = "xchg"
  /\ locked' = TRUE
  /\ Goto(c, "record")
  /\ UNCHANGED <<owner, cpu_status, tf_cs, after>>

\* the xchg that wins; one that reads 1 changes nothing
LockXchg(c) ==
  /\ pc[c] = "xchg"
  /\ ~locked
  /\ locked' = TRUE
  /\ Goto(c, "record")
  /\ UNCHANGED <<owner, cpu_status, tf_cs, after>>

LockRecord(c) ==
  /\ pc[c] = "record"
  /\ owner' = c
  /\ Goto(c, after[c])
  /\ UNCHANGED <<locked, cpu_status, tf_cs, after>>

(* spin_unlock *)

UnlockTest(c) ==
  /\ pc[c] = "unlock"
  /\ Goto(c, IF locked THEN "unlock_owner" ELSE "panic")
  /\ UNCHANGED <<locked, owner, cpu_status, tf_cs, after>>

UnlockTestOwner(c) ==
  /\ pc[c] = "unlock_owner"
  /\ Goto(c, IF owner = c THEN "forget" ELSE "panic")
  /\ UNCHANGED <<locked, owner, cpu_status, tf_cs, after>>

\* Mutants of UnlockForget: the owner is not cleared; it is cleared to CPU number 0.
UnlockRemember(c) ==
  /\ pc[c] = "forget"
  /\ Goto(c, "unxchg")
  /\ UNCHANGED <<locked, owner, cpu_status, tf_cs, after>>

UnlockForgetZero(c) ==
  /\ pc[c] = "forget"
  /\ owner' = 0
  /\ Goto(c, "unxchg")
  /\ UNCHANGED <<locked, cpu_status, tf_cs, after>>

UnlockForget(c) ==
  /\ pc[c] = "forget"
  /\ owner' = NoCPU
  /\ Goto(c, "unxchg")
  /\ UNCHANGED <<locked, cpu_status, tf_cs, after>>

UnlockXchg(c) ==
  /\ pc[c] = "unxchg"
  /\ locked' = FALSE
  /\ Goto(c, after[c])
  /\ UNCHANGED <<owner, cpu_status, tf_cs, after>>

-----------------------------------------------------------------------------
(* Boot: the BSP holds the lock while it starts the others one at a time *)

StartAp(c, a) ==
  /\ pc[c] = "boot_aps"
  /\ pc[a] = "off"
  /\ \A b \in CPUs : pc[b] = "off" \/ cpu_status[b] = "started"
  /\ Goto(a, "mp_main")
  /\ UNCHANGED <<locked, owner, cpu_status, tf_cs, after>>

\* Mutant of ApMain: CPU_STARTED is published with the lock held, too late.
ApMainLate(a) ==
  /\ pc[a] = "mp_main"
  /\ Call(a, "lock", "kernel")
  /\ UNCHANGED <<locked, owner, cpu_status, tf_cs>>

\* cpu_status is published before the AP asks for the lock
ApMain(a) ==
  /\ pc[a] = "mp_main"
  /\ cpu_status' = [cpu_status EXCEPT ![a] = "started"]
  /\ Call(a, "lock", "kernel")
  /\ UNCHANGED <<locked, owner, tf_cs>>

BootDone(c) ==
  /\ pc[c] = "boot_aps"
  /\ \A a \in CPUs : cpu_status[a] = "started"
  /\ Goto(c, "kernel")
  /\ UNCHANGED <<locked, owner, cpu_status, tf_cs, after>>

-----------------------------------------------------------------------------
(* Leaving and entering the kernel *)

EnvRun(c) ==
  /\ pc[c] = "kernel"
  /\ Call(c, "unlock", "user")
  /\ UNCHANGED <<locked, owner, cpu_status, tf_cs>>

SchedHalt(c) ==
  /\ pc[c] = "kernel"
  /\ cpu_status' = [cpu_status EXCEPT ![c] = "halted"]
  /\ Call(c, "unlock", "hlt")
  /\ UNCHANGED <<locked, owner, tf_cs>>

\* nothing left to run: sched_halt stays in the monitor, lock held
SchedMonitor(c) ==
  /\ pc[c] = "kernel"
  /\ Goto(c, "monitor")
  /\ UNCHANGED <<locked, owner, cpu_status, tf_cs, after>>

Interrupt(c) ==
  /\ pc[c] \in {"user", "hlt"}
  /\ tf_cs' = [tf_cs EXCEPT ![c] = IF pc[c] = "user" THEN "user" ELSE "kernel"]
  /\ Goto(c, "trap")
  /\ UNCHANGED <<locked, owner, cpu_status, after>>

\* Mutant of TrapStatus: the status is tested but stays CPU_HALTED.
TrapStatusKept(c) ==
  /\ pc[c] = "trap"
  /\ IF cpu_status[c] = "halted"
       THEN Call(c, "lock", "trap_cs")
       ELSE Goto(c, "trap_cs") /\ UNCHANGED after
  /\ UNCHANGED <<locked, owner, cpu_status, tf_cs>>

\* xchg(&thiscpu->cpu_status, CPU_STARTED) == CPU_HALTED
TrapStatus(c) ==
  /\ pc[c] = "trap"
  /\ cpu_status' = [cpu_status EXCEPT ![c] = "started"]
  /\ IF cpu_status[c] = "halted"
       THEN Call(c, "lock", "trap_cs")
       ELSE Goto(c, "trap_cs") /\ UNCHANGED after
  /\ UNCHANGED <<locked, owner, tf_cs>>

\* (tf->tf_cs & 3) == 3
TrapFromUser(c) ==
  /\ pc[c] = "trap_cs"
  /\ IF tf_cs[c] = "user"
       THEN Call(c, "lock", "kernel")
       ELSE Goto(c, "kernel") /\ UNCHANGED after
  /\ UNCHANGED <<locked, owner, cpu_status, tf_cs>>

-----------------------------------------------------------------------------
CpuStep(c) ==
  \/ LockTest(c) \/ LockTestOwner(c) \/ LockXchg(c) \/ LockRecord(c)
  \/ UnlockTest(c) \/ UnlockTestOwner(c) \/ UnlockForget(c) \/ UnlockXchg(c)
  \/ \E a \in CPUs : StartAp(c, a)
  \/ ApMain(c) \/ BootDone(c)
  \/ EnvRun(c) \/ SchedHalt(c) \/ SchedMonitor(c)
  \/ Interrupt(c) \/ TrapStatus(c) \/ TrapFromUser(c)

Next == \E c \in CPUs : CpuStep(c)

Spec == Init /\ [][Next]_vars

\* Each CPU executes its instructions; hlt and user mode are left by the timer.
FairSpec == Spec /\ \A c \in CPUs : WF_vars(CpuStep(c))

-----------------------------------------------------------------------------
Labels ==
  {"off", "mp_main", "boot_aps", "lock", "lock_owner", "xchg", "record",
   "unlock", "unlock_owner", "forget", "unxchg", "kernel", "monitor",
   "user", "hlt", "trap", "trap_cs", "panic"}

\* The type invariant.
TypeOK ==
  /\ locked \in BOOLEAN
  /\ owner \in CPUs \cup {NoCPU}
  /\ cpu_status \in [CPUs -> {"unused", "started", "halted"}]
  /\ tf_cs \in [CPUs -> {"user", "kernel"}]
  /\ pc \in [CPUs -> Labels]
  /\ after \in [CPUs -> {"boot_aps", "kernel", "trap_cs", "user", "hlt"}]

\* c is past a successful xchg of spin_lock and before that of spin_unlock.
\* A trap out of hlt is at "trap_cs" with the lock, one out of user mode without.
Owns(c) ==
  \/ pc[c] \in {"record", "boot_aps", "kernel", "monitor",
                "unlock", "unlock_owner", "forget", "unxchg"}
  \/ pc[c] = "trap_cs" /\ tf_cs[c] = "kernel"

\* No two CPUs execute kernel code at once, whatever mix of boot, traps out of
\* user mode and traps out of hlt brought them there (trap, sched_halt, mp_main).
MutualExclusion == \A c, d \in CPUs : Owns(c) /\ Owns(d) => c = d

\* The checks of spin_lock ("already holding") and of spin_unlock never fail:
\* the cpu_status handshake makes trap() lock exactly once on every path.
NoPanic == \A c \in CPUs : pc[c] # "panic"

\* holding() answers truly whenever the CPU that asks it runs the check, although
\* it reads locked and cpu without atomicity while other CPUs write both.
HoldingIsTrue ==
  \A c \in CPUs :
    /\ pc[c] \in {"lock", "lock_owner", "xchg"} => owner # c
    /\ pc[c] \in {"unlock", "unlock_owner"} => locked /\ owner = c

\* The big kernel lock does what its callers rely on: one CPU in the kernel, and its
\* own checks neither fail nor answer wrongly.
LockIsSafe == TypeOK /\ MutualExclusion /\ NoPanic /\ HoldingIsTrue

\* The lock implements mutual exclusion as an abstract lock states it.
LockHolder == IF locked THEN CHOOSE c \in CPUs : Owns(c) ELSE NoCPU
AbstractMutex == INSTANCE Mutex WITH holder <- LockHolder
ImplementsMutex == AbstractMutex!Spec

\* boot_aps ends although the BSP waits for every AP with the lock held, for each
\* AP publishes CPU_STARTED before it asks for the lock.
BootEnds == <>(\A c \in CPUs : cpu_status[c] # "unused" /\ pc[c] # "boot_aps")

\* While a CPU spins, the lock does not stay with one owner for ever unless that
\* owner is in the monitor (the loop of sched_halt that never unlocks).
OwnerLeaves ==
  \A c \in CPUs : Owns(c) ~> (~Owns(c) \/ pc[c] = "monitor")
=============================================================================

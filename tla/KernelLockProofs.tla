-------------------------- MODULE KernelLockProofs --------------------------
(***************************************************************************)
(* Proofs about KernelLock for any set of CPUs.                            *)
(***************************************************************************)
EXTENDS KernelLock, TLAPS

Locking == {"lock", "lock_owner", "xchg", "record"}
Unlocking == {"unlock", "unlock_owner", "forget", "unxchg"}

\* The lock word says whether somebody owns the kernel.
LockedInv ==
  /\ \A c \in CPUs : Owns(c) => locked
  /\ locked => \E c \in CPUs : Owns(c)

\* The owner record lags behind the lock word by one step on either side.
OwnerInv ==
  \A c \in CPUs : owner = c <=> Owns(c) /\ pc[c] \notin {"record", "unxchg"}

\* cpu_status tells a trap out of hlt from one out of user mode.
HaltedInv ==
  \A c \in CPUs :
    cpu_status[c] = "halted" <=>
      \/ pc[c] = "hlt"
      \/ pc[c] = "trap" /\ tf_cs[c] = "kernel"
      \/ pc[c] \in Unlocking /\ after[c] = "hlt"

\* Where the two lock procedures return to.
ReturnInv ==
  \A c \in CPUs :
    /\ pc[c] \in Locking =>
         \/ after[c] \in {"boot_aps", "kernel"}
         \/ after[c] = "trap_cs" /\ tf_cs[c] = "kernel"
    /\ pc[c] \in Unlocking => after[c] \in {"user", "hlt"}

\* MutualExclusion and NoPanic are not inductive alone: whether a CPU unlocks or
\* locks next is decided by cpu_status, tf_cs and the owner record.
IInv ==
  /\ TypeOK
  /\ MutualExclusion
  /\ NoPanic
  /\ LockedInv
  /\ OwnerInv
  /\ HaltedInv
  /\ ReturnInv

LEMMA InitIInv == Init => IInv
<1> SUFFICES ASSUME Init PROVE IInv
  OBVIOUS
<1> USE BspAssumption, NoCpuAssumption DEF Init
<1>1. TypeOK
  BY DEF TypeOK, Labels
<1>2. \A c \in CPUs : pc[c] \in {"lock", "off"}
  OBVIOUS
<1>3. MutualExclusion /\ NoPanic /\ LockedInv /\ OwnerInv
  BY <1>2 DEF MutualExclusion, NoPanic, LockedInv, OwnerInv, Owns
<1>4. HaltedInv /\ ReturnInv
  BY <1>2 DEF HaltedInv, ReturnInv, Locking, Unlocking
<1>5. QED
  BY <1>1, <1>3, <1>4 DEF IInv

LEMMA NextIInv == IInv /\ [Next]_vars => IInv'
<1> USE NoCpuAssumption
    DEF IInv, TypeOK, MutualExclusion, NoPanic, LockedInv, OwnerInv,
        HaltedInv, ReturnInv, Owns, Labels, Locking, Unlocking, Goto, Call
<1> SUFFICES ASSUME IInv, [Next]_vars PROVE IInv'
  OBVIOUS
<1>1. ASSUME NEW c \in CPUs, LockTest(c) PROVE IInv'
  BY <1>1 DEF LockTest
<1>2. ASSUME NEW c \in CPUs, LockTestOwner(c) PROVE IInv'
  BY <1>2 DEF LockTestOwner
<1>3. ASSUME NEW c \in CPUs, LockXchg(c) PROVE IInv'
  BY <1>3 DEF LockXchg
<1>4. ASSUME NEW c \in CPUs, LockRecord(c) PROVE IInv'
  BY <1>4 DEF LockRecord
<1>5. ASSUME NEW c \in CPUs, UnlockTest(c) PROVE IInv'
  BY <1>5 DEF UnlockTest
<1>6. ASSUME NEW c \in CPUs, UnlockTestOwner(c) PROVE IInv'
  BY <1>6 DEF UnlockTestOwner
<1>7. ASSUME NEW c \in CPUs, UnlockForget(c) PROVE IInv'
  BY <1>7 DEF UnlockForget
<1>8. ASSUME NEW c \in CPUs, UnlockXchg(c) PROVE IInv'
  <2>1. pc[c] = "unxchg" /\ after[c] \in {"user", "hlt"}
    BY <1>8 DEF UnlockXchg
  <2>2. \A d \in CPUs : d # c => ~Owns(d) /\ pc'[d] = pc[d]
    BY <1>8, <2>1 DEF UnlockXchg
  <2>3. \A d \in CPUs : ~Owns(d)'
    BY <1>8, <2>1, <2>2 DEF UnlockXchg
  <2>4. (MutualExclusion /\ LockedInv)'
    BY <1>8, <2>3 DEF UnlockXchg
  <2>5. (TypeOK /\ NoPanic)'
    BY <1>8, <2>1, <2>2 DEF UnlockXchg
  <2>6. OwnerInv'
    <3>1. \A d \in CPUs : owner' # d
      BY <1>8, <2>1, <2>2 DEF UnlockXchg
    <3>2. QED
      BY <2>3, <3>1
  <2>7. (HaltedInv /\ ReturnInv)'
    BY <1>8, <2>1, <2>2 DEF UnlockXchg
  <2>8. QED
    BY <2>4, <2>5, <2>6, <2>7
<1>9. ASSUME NEW c \in CPUs, NEW a \in CPUs, StartAp(c, a) PROVE IInv'
  BY <1>9 DEF StartAp
<1>10. ASSUME NEW c \in CPUs, ApMain(c) PROVE IInv'
  BY <1>10 DEF ApMain
<1>11. ASSUME NEW c \in CPUs, BootDone(c) PROVE IInv'
  BY <1>11 DEF BootDone
<1>12. ASSUME NEW c \in CPUs, EnvRun(c) PROVE IInv'
  BY <1>12 DEF EnvRun
<1>13. ASSUME NEW c \in CPUs, SchedHalt(c) PROVE IInv'
  BY <1>13 DEF SchedHalt
<1>14. ASSUME NEW c \in CPUs, SchedMonitor(c) PROVE IInv'
  BY <1>14 DEF SchedMonitor
<1>15. ASSUME NEW c \in CPUs, Interrupt(c) PROVE IInv'
  BY <1>15 DEF Interrupt
<1>16. ASSUME NEW c \in CPUs, TrapStatus(c) PROVE IInv'
  BY <1>16 DEF TrapStatus
<1>17. ASSUME NEW c \in CPUs, TrapFromUser(c) PROVE IInv'
  BY <1>17 DEF TrapFromUser
<1>18. CASE UNCHANGED vars
  BY <1>18 DEF vars
<1>19. QED
  BY <1>1, <1>2, <1>3, <1>4, <1>5, <1>6, <1>7, <1>8, <1>9, <1>10, <1>11,
     <1>12, <1>13, <1>14, <1>15, <1>16, <1>17, <1>18 DEF Next, CpuStep

\* The type invariant holds for any set of CPUs.
THEOREM KernelLockTypeOK == Spec => []TypeOK
<1>1. IInv => TypeOK
  BY DEF IInv
<1>2. QED
  BY InitIInv, NextIInv, <1>1, PTL DEF Spec

\* However many CPUs boot, trap and halt, no two execute kernel code at once.
THEOREM KernelLockMutualExclusion == Spec => []MutualExclusion
<1>1. IInv => MutualExclusion
  BY DEF IInv
<1>2. QED
  BY InitIInv, NextIInv, <1>1, PTL DEF Spec

\* The panics of spin_lock and spin_unlock are unreachable: trap, sched_halt,
\* env_run and the boot code pair every lock with one unlock.
THEOREM KernelLockNoPanic == Spec => []NoPanic
<1>1. IInv => NoPanic
  BY DEF IInv
<1>2. QED
  BY InitIInv, NextIInv, <1>1, PTL DEF Spec

\* The two unsynchronised reads of holding() give the right answer.
THEOREM KernelLockHoldingIsTrue == Spec => []HoldingIsTrue
<1>1. IInv => HoldingIsTrue
  BY DEF IInv, HoldingIsTrue, LockedInv, OwnerInv, Owns
<1>2. QED
  BY InitIInv, NextIInv, <1>1, PTL DEF Spec

-----------------------------------------------------------------------------
(* Refinement of the abstract mutex *)

\* With the lock word set, the holder is the one CPU that owns the kernel.
LEMMA HolderIsOwner ==
  ASSUME IInv, NEW c \in CPUs, Owns(c)
  PROVE  LockHolder = c
  BY DEF IInv, MutualExclusion, LockedInv, LockHolder

\* A step that neither takes nor returns the kernel is a stutter of the mutex.
LEMMA HolderKept ==
  ASSUME IInv, IInv', locked' = locked,
         \A c \in CPUs : Owns(c) => Owns(c)'
  PROVE  LockHolder' = LockHolder
<1>1. CASE locked
  <2>1. PICK c \in CPUs : Owns(c)
    BY <1>1 DEF IInv, LockedInv
  <2>2. LockHolder = c
    BY <2>1, HolderIsOwner
  <2>3. Owns(c)'
    BY <2>1
  <2>4. LockHolder' = c
    BY <2>3 DEF IInv, MutualExclusion, LockedInv, LockHolder
  <2>5. QED
    BY <2>2, <2>4
<1>2. CASE ~locked
  BY <1>2 DEF LockHolder
<1>3. QED
  BY <1>1, <1>2

LEMMA InitMutex == Init => AbstractMutex!Init
  BY DEF Init, AbstractMutex!Init, LockHolder

\* The winning xchg is the acquire of the mutex and the clearing xchg its
\* release; every other step leaves the holder as it is.
LEMMA NextMutex ==
  ASSUME IInv, IInv', [Next]_vars
  PROVE  [AbstractMutex!Next]_LockHolder
<1> USE DEF Goto, Call
<1>1. ASSUME NEW c \in CPUs, LockXchg(c)
      PROVE  AbstractMutex!Next
  <2>1. Owns(c)'
    BY <1>1 DEF LockXchg, Owns, IInv, TypeOK
  <2>2. LockHolder' = c
    BY <2>1 DEF IInv, MutualExclusion, LockedInv, LockHolder
  <2>3. LockHolder = NoCPU
    BY <1>1 DEF LockXchg, LockHolder
  <2>4. QED
    BY <2>2, <2>3 DEF AbstractMutex!Next, AbstractMutex!Acquire
<1>2. ASSUME NEW c \in CPUs, UnlockXchg(c)
      PROVE  AbstractMutex!Next
  <2>1. LockHolder = c
    BY <1>2, HolderIsOwner DEF UnlockXchg, Owns
  <2>2. LockHolder' = NoCPU
    BY <1>2 DEF UnlockXchg, LockHolder
  <2>3. QED
    BY <2>1, <2>2 DEF AbstractMutex!Next, AbstractMutex!Release
<1>3. ASSUME NEW c \in CPUs,
             \/ LockTest(c) \/ LockTestOwner(c) \/ LockRecord(c)
             \/ UnlockTest(c) \/ UnlockTestOwner(c) \/ UnlockForget(c)
             \/ \E a \in CPUs : StartAp(c, a)
             \/ ApMain(c) \/ BootDone(c)
             \/ EnvRun(c) \/ SchedHalt(c) \/ SchedMonitor(c)
             \/ Interrupt(c) \/ TrapStatus(c) \/ TrapFromUser(c)
      PROVE  LockHolder' = LockHolder
  <2> USE DEF Owns, IInv, TypeOK
  <2>1. CASE LockTest(c) \/ LockTestOwner(c) \/ UnlockTest(c) \/ UnlockTestOwner(c)
    BY <2>1, HolderKept DEF LockTest, LockTestOwner, UnlockTest,
       UnlockTestOwner, NoPanic
  <2>2. CASE LockRecord(c)
    BY <2>2, HolderKept DEF LockRecord, ReturnInv, Locking
  <2>3. CASE UnlockForget(c)
    BY <2>3, HolderKept DEF UnlockForget
  <2>4. CASE \E a \in CPUs : StartAp(c, a)
    BY <2>4, HolderKept DEF StartAp
  <2>5. CASE ApMain(c) \/ BootDone(c)
    BY <2>5, HolderKept DEF ApMain, BootDone
  <2>6. CASE EnvRun(c) \/ SchedHalt(c) \/ SchedMonitor(c)
    BY <2>6, HolderKept DEF EnvRun, SchedHalt, SchedMonitor
  <2>7. CASE Interrupt(c) \/ TrapStatus(c) \/ TrapFromUser(c)
    BY <2>7, HolderKept DEF Interrupt, TrapStatus, TrapFromUser
  <2>8. QED
    BY <1>3, <2>1, <2>2, <2>3, <2>4, <2>5, <2>6, <2>7
<1>4. CASE UNCHANGED vars
  BY <1>4 DEF vars, LockHolder, Owns
<1>5. QED
  BY <1>1, <1>2, <1>3, <1>4 DEF Next, CpuStep

\* The spin lock with its callers implements an abstract mutex over the kernel.
THEOREM KernelLockImplementsMutex == Spec => ImplementsMutex
<1>1. Spec => []IInv
  BY InitIInv, NextIInv, PTL DEF Spec
<1>2. IInv /\ IInv' /\ [Next]_vars => [AbstractMutex!Next]_LockHolder
  BY NextMutex
<1>3. QED
  BY <1>1, <1>2, InitMutex, PTL DEF Spec, ImplementsMutex, AbstractMutex!Spec

\* All that the callers of lock_kernel and unlock_kernel rely on, on any number of CPUs.
THEOREM KernelLockIsSafe == Spec => []LockIsSafe
<1>1. TypeOK /\ MutualExclusion /\ NoPanic /\ HoldingIsTrue => LockIsSafe
  BY DEF LockIsSafe
<1>2. QED
  BY <1>1, KernelLockTypeOK, KernelLockMutualExclusion, KernelLockNoPanic,
     KernelLockHoldingIsTrue, PTL
=============================================================================

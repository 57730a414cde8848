----------------------------- MODULE MlfqProofs -----------------------------
(***************************************************************************)
(* Type correctness of Mlfq, that no environment executes on two CPUs and  *)
(* that none is lost from the queues: for any CPUs, environments, queues   *)
(* and timers, safety provided programs use the system calls as the user   *)
(* library does (LIBRARY).  Then what follows from that invariant: that    *)
(* Mlfq implements AbsScheduler; what a step of the kernel never does      *)
(* (whom the scheduler chooses, when it halts, who frees a zombie, what    *)
(* raises a priority); what the free list and the monitor need besides;    *)
(* and what the timers and the time accounting amount to.                  *)
(***************************************************************************)
EXTENDS Mlfq, FiniteSetTheorems, SequenceTheorems, TLAPS

-----------------------------------------------------------------------------
(* Types and timers *)

\* A stint never lasts longer than the timer ran.
TimerInv == \A c \in CPUs : tccr[c] <= ticr[c]

\* A program traps from user mode: there is one, and a system call returns to it.
ProgramInv ==
  \A c \in CPUs :
    /\ pc[c] \in {"user", "times", "remaining", "in_queue", "ret"} => curenv[c] # None
    /\ pc[c] \in {"count", "lock"} /\ trapno[c] = "program" => curenv[c] # None

TypeInv == TypeOK /\ TimerInv /\ ProgramInv

-----------------------------------------------------------------------------
(* Type correctness *)

LEMMA QueueRemoveType ==
  ASSUME NEW q \in Seq(Envs), NEW e
  PROVE  QueueRemove(q, e) \in Seq(Envs)
<1>1. CASE Contains(q, e)
  <2> DEFINE p == CHOOSE p \in DOMAIN q : q[p] = e
  <2>1. QueueRemove(q, e) = SubSeq(q, 1, p - 1) \o SubSeq(q, p + 1, Len(q))
    BY <1>1 DEF QueueRemove, RemoveAt
  <2>2. p \in 1 .. Len(q)
    BY <1>1 DEF Contains
  <2>3. SubSeq(q, 1, p - 1) \in Seq(Envs) /\ SubSeq(q, p + 1, Len(q)) \in Seq(Envs)
    <3> HIDE DEF p
    <3>1. \A i \in 1 .. p - 1 : i \in 1 .. Len(q)
      BY <2>2
    <3>2. \A i \in p + 1 .. Len(q) : i \in 1 .. Len(q)
      BY <2>2
    <3>3. QED
      BY <3>1, <3>2, <2>2
  <2>4. QED
    BY <2>1, <2>3
<1>2. CASE ~Contains(q, e)
  BY <1>2 DEF QueueRemove
<1>3. QED
  BY <1>1, <1>2

LEMMA BoostType == MLFQ_BOOST \in Nat
  BY TimersAssumption DEF MLFQ_BOOST

LEMMA CountType ==
  ASSUME NEW n \in Nat
  PROVE  Count(n) \in 0 .. MLFQ_BOOST
  BY BoostType DEF Count

\* The slots of envs[] in order are a sequence without repetition.
LEMMA MachineType ==
  ASSUME NEW machine \in Machines
  PROVE  /\ machine[1] \in CPUs
         /\ machine[2] \in Seq(Envs)
         /\ NBOOT \in 1 .. Len(machine[2])
         /\ \A k, m \in 1 .. Len(machine[2]) : machine[2][k] = machine[2][m] => k = m
<1> DEFINE n == Cardinality(Envs)
<1>1. machine[1] \in CPUs /\ machine[2] \in SetToSeqs(Envs)
  BY MachinesAssumption
<1>2. n \in Nat
  BY EnvsAssumption, FS_CardinalityType
<1>3. machine[2] \in [1 .. n -> Envs]
      /\ \A k, m \in 1 .. n : k # m => machine[2][k] # machine[2][m]
  BY <1>1 DEF SetToSeqs
<1>4. machine[2] \in Seq(Envs) /\ Len(machine[2]) = n
  <2> HIDE DEF n
  <2>1. QED
    BY <1>2, <1>3
<1>5. QED
  BY <1>1, <1>3, <1>4, MachinesAssumption

LEMMA InitTypeInv == Init => TypeInv
<1> SUFFICES ASSUME Init PROVE TypeInv
  OBVIOUS
<1>1. PICK machine \in Machines :
        /\ lock = machine[1]
        /\ pc = [c \in CPUs |-> IF c = machine[1] THEN "sched" ELSE "boot"]
        /\ env_free_list = SubSeq(machine[2], NBOOT + 1, Len(machine[2]))
        /\ queues = [i \in Queues |-> IF i = 0 THEN SubSeq(machine[2], 1, NBOOT) ELSE <<>>]
        /\ status = [e \in Envs |-> IF Contains(SubSeq(machine[2], 1, NBOOT), e)
                                     THEN "RUNNABLE" ELSE "FREE"]
  BY DEF Init
<1>2. SubSeq(machine[2], 1, NBOOT) \in Seq(Envs)
      /\ SubSeq(machine[2], NBOOT + 1, Len(machine[2])) \in Seq(Envs)
  BY MachineType, SubSeqProperties
<1>3. 0 \in Time /\ 0 \in 0 .. MLFQ_BOOST /\ 0 \in Queues
  BY TimersAssumption, BoostType, QueuesAssumption DEF Time, Queues
<1>4. TimerInv /\ ProgramInv
  BY <1>1 DEF Init, TimerInv, ProgramInv
<1>5. queues \in [Queues -> Seq(Envs)]
  BY <1>1, <1>2
<1>6. TypeOK
  BY <1>1, <1>2, <1>3, <1>5, MachineType DEF Init, TypeOK, Labels, Statuses
<1>7. QED
  BY <1>4, <1>6 DEF TypeInv

LEMMA ChangePriorityType ==
  ASSUME TypeOK, NEW e \in Envs, NEW q \in Queues, ChangePriority(e, q)
  PROVE  /\ queues' \in [Queues -> Seq(Envs)]
         /\ queue_num' \in [Envs -> Queues]
         /\ time_remaining' \in [Envs -> Time]
         /\ time_in_queue' \in [Envs -> Time]
<1> USE TimersAssumption DEF TypeOK, ChangePriority, Time
<1> DEFINE rest == [queues EXCEPT ![queue_num[e]] = QueueRemove(@, e)]
<1>1. QueueRemove(queues[queue_num[e]], e) \in Seq(Envs)
  BY QueueRemoveType
<1>2. rest \in [Queues -> Seq(Envs)]
  BY <1>1
<1>3. Append(rest[q], e) \in Seq(Envs)
  BY <1>2
<1>4. queues' = [rest EXCEPT ![q] = Append(@, e)]
  OBVIOUS
<1>5. queues' \in [Queues -> Seq(Envs)]
  <2> HIDE DEF rest
  <2>1. [rest EXCEPT ![q] = Append(@, e)] \in [Queues -> Seq(Envs)]
    BY <1>2, <1>3 DEF Queues
  <2>2. QED
    BY <2>1, <1>4
<1>6. 0 \in Time
  OBVIOUS
<1>7. QED
  <2> HIDE DEF Time
  <2>1. queue_num' \in [Envs -> Queues]
    OBVIOUS
  <2>2. time_remaining' \in [Envs -> Time]
    BY <1>6
  <2>3. time_in_queue' \in [Envs -> Time]
    BY <1>6
  <2>4. QED
    BY <1>5, <2>1, <2>2, <2>3

LEMMA EnvFreeType ==
  ASSUME TypeOK, NEW e \in Envs, EnvFree(e)
  PROVE  /\ queues' \in [Queues -> Seq(Envs)]
         /\ status' \in [Envs -> Statuses]
         /\ env_free_list' \in Seq(Envs)
         /\ parent' \in [Envs -> Envs \cup {None}]
         /\ fresh' \subseteq Envs
<1> USE DEF TypeOK, EnvFree, Statuses
<1>1. QueueRemove(queues[queue_num[e]], e) \in Seq(Envs)
  BY QueueRemoveType
<1>2. QED
  BY <1>1

LEMMA TimerSetType ==
  ASSUME TypeInv, NEW c \in CPUs, NEW count \in Time, TimerSet(c, count)
  PROVE  /\ ticr' \in [CPUs -> Time]
         /\ irq' \in [CPUs -> BOOLEAN]
         /\ tccr' \in [CPUs -> Time]
         /\ trapno' \in [CPUs -> {"none", "timer", "program"}]
         /\ TimerInv'
  BY TimersAssumption DEF TypeInv, TypeOK, TimerSet, TimerInv, Time

LEMMA EnvRunType ==
  ASSUME TypeInv, NEW c \in CPUs, NEW e \in Envs, NEW t \in Time, EnvRun(c, e, t)
  PROVE  /\ ticr' \in [CPUs -> Time]
         /\ irq' \in [CPUs -> BOOLEAN]
         /\ tccr' \in [CPUs -> Time]
         /\ trapno' \in [CPUs -> {"none", "timer", "program"}]
         /\ status' \in [Envs -> Statuses]
         /\ curenv' \in [CPUs -> Envs \cup {None}]
         /\ lock' \in CPUs \cup {None}
         /\ pc' \in [CPUs -> Labels]
         /\ load' \in [CPUs -> 0 .. MLFQ_BOOST]
         /\ TimerInv' /\ ProgramInv'
<1>1. TimerSet(c, t)
  BY DEF EnvRun
<1>2. ProgramInv'
  BY <1>1, NoneAssumption DEF EnvRun, TimerSet, ProgramInv, TypeInv, TypeOK, Goto
<1>3. QED
  BY <1>1, <1>2, TimerSetType DEF TypeInv, TypeOK, EnvRun, Goto, Labels, Statuses

\* Handlers and scheduler steps that only move the program counter.
LEMMA ControlTypeInv ==
  ASSUME TypeInv, NEW c \in CPUs,
         \/ MpMain(c) \/ TimerInterrupt(c) \/ SysOther(c) \/ SysYield(c)
         \/ NoDowngrade(c) \/ NoBoost(c) \/ Boost(c) \/ BoostEnd(c) \/ Monitor(c)
  PROVE  TypeInv'
<1> USE DEF TypeInv, TypeOK, TimerInv, ProgramInv, Labels, Goto, cpuVars,
            queueVars, envVars, Called, Traps, EnterKernel
<1>1. CASE MpMain(c)
  BY <1>1 DEF MpMain
<1>2. CASE TimerInterrupt(c)
  BY <1>2 DEF TimerInterrupt
<1>3. CASE SysOther(c)
  BY <1>3 DEF SysOther
<1>4. CASE SysYield(c)
  BY <1>4 DEF SysYield
<1>5. CASE NoDowngrade(c)
  BY <1>5 DEF NoDowngrade
<1>6. CASE NoBoost(c)
  BY <1>6 DEF NoBoost
<1>7. CASE Boost(c)
  BY <1>7, BoostType DEF Boost
<1>8. CASE BoostEnd(c)
  BY <1>8 DEF BoostEnd
<1>9. CASE Monitor(c)
  BY <1>9 DEF Monitor
<1>10. QED
  BY <1>1, <1>2, <1>3, <1>4, <1>5, <1>6, <1>7, <1>8, <1>9

\* The time accounting before the lock.
LEMMA AccountingTypeInv ==
  ASSUME TypeInv, NEW c \in CPUs, TrapEnter(c) \/ Accounting(c)
  PROVE  TypeInv'
<1> USE DEF TypeInv, TypeOK, TimerInv, ProgramInv, Labels, Goto, cpuVars,
            queueVars, envVars
<1>1. CASE TrapEnter(c)
  <2>1. PICK t \in 0 .. ticr[c], no \in {"timer", "program"} :
          /\ no = "program" => pc[c] = "user"
          /\ trapno' = [trapno EXCEPT ![c] = no]
          /\ tccr' = [tccr EXCEPT ![c] = t]
          /\ load' = [load EXCEPT ![c] = Count(mlfq_time_count + ticr[c] - t)]
    BY <1>1 DEF TrapEnter
  <2>2. t \in Time /\ mlfq_time_count + ticr[c] - t \in Nat
    BY TimersAssumption, BoostType DEF Time
  <2>3. Count(mlfq_time_count + ticr[c] - t) \in 0 .. MLFQ_BOOST
    BY <2>2, CountType
  <2>4. t <= ticr[c]
    BY DEF Time
  <2>5. TypeOK'
    BY <1>1, <2>1, <2>2, <2>3 DEF TrapEnter
  <2>6. (TimerInv /\ ProgramInv)'
    BY <1>1, <2>1, <2>4 DEF TrapEnter
  <2>7. QED
    BY <2>5, <2>6
<1>2. CASE StoreCount(c)
  BY <1>2, BoostType DEF StoreCount
<1>3. CASE StoreRemaining(c)
  BY <1>3 DEF StoreRemaining
<1>4. CASE StoreInQueue(c)
  <2>1. ticr[c] - tccr[c] \in Time
    BY TimersAssumption DEF Time
  <2>2. QED
    BY <1>4, <2>1 DEF StoreInQueue
<1>5. QED
  BY <1>1, <1>2, <1>3, <1>4 DEF Accounting

\* System calls that change the status of environments.
LEMMA StatusTypeInv ==
  ASSUME TypeInv, NEW c \in CPUs,
         \/ Reap(c) \/ Exit(c)
         \/ \E e \in Envs : SysEnvDestroy(c, e) \/ SysIpcTrySend(c, e)
         \/ \E e \in Envs, s \in {"RUNNABLE", "NOT_RUNNABLE"} : SysEnvSetStatus(c, e, s)
         \/ \E valid \in BOOLEAN : SysIpcRecv(c, valid)
  PROVE  TypeInv'
<1> USE DEF TypeInv, TypeOK, TimerInv, ProgramInv, Labels, Statuses, Goto, cpuVars,
            queueVars, envVars, Called, Traps, EnterKernel
<1>1. CASE Reap(c) \/ Exit(c)
  <2>1. FreeSelf(c) /\ lock' = c /\ curenv[c] \in Envs
    BY <1>1, NoneAssumption DEF Reap, Exit
  <2>2. EnvFree(curenv[c])
    BY <2>1 DEF FreeSelf
  <2>3. TypeOK'
    <3>1. /\ queues' \in [Queues -> Seq(Envs)]
          /\ status' \in [Envs -> Statuses]
          /\ env_free_list' \in Seq(Envs)
          /\ parent' \in [Envs -> Envs \cup {None}]
          /\ fresh' \subseteq Envs
      BY <2>1, <2>2, EnvFreeType
    <3>2. UNCHANGED <<recving, queue_num, time_remaining, time_in_queue>>
      BY <2>2 DEF EnvFree
    <3>3. /\ curenv' \in [CPUs -> Envs \cup {None}]
          /\ pc' = [pc EXCEPT ![c] = "sched"]
          /\ UNCHANGED <<trapno, ticr, irq, tccr, load, mlfq_time_count>>
      BY <2>1 DEF FreeSelf
    <3>4. QED
      BY <2>1, <3>1, <3>2, <3>3
  <2>4. TimerInv' /\ ProgramInv'
    BY <2>1, NoneAssumption DEF FreeSelf
  <2>5. QED
    BY <2>3, <2>4
<1>2. CASE \E e \in Envs : SysEnvDestroy(c, e)
  <2>1. PICK e \in Envs : SysEnvDestroy(c, e)
    BY <1>2
  <2>2. CASE status[e] = "RUNNING"
    BY <2>1, <2>2 DEF SysEnvDestroy
  <2>3. CASE status[e] # "RUNNING"
    <3>1. EnvFree(e)
      BY <2>1, <2>3 DEF SysEnvDestroy
    <3>2. QED
      BY <2>1, <3>1, EnvFreeType DEF SysEnvDestroy, EnvFree
  <2>4. QED
    BY <2>2, <2>3
<1>3. CASE \E e \in Envs : SysIpcTrySend(c, e)
  BY <1>3 DEF SysIpcTrySend
<1>4. CASE \E e \in Envs, s \in {"RUNNABLE", "NOT_RUNNABLE"} : SysEnvSetStatus(c, e, s)
  BY <1>4 DEF SysEnvSetStatus
<1>5. CASE \E valid \in BOOLEAN : SysIpcRecv(c, valid)
  BY <1>5 DEF SysIpcRecv
<1>6. QED
  BY <1>1, <1>2, <1>3, <1>4, <1>5

LEMMA ExoforkTypeInv ==
  ASSUME TypeInv, NEW c \in CPUs, SysExofork(c)
  PROVE  TypeInv'
<1> USE DEF TypeInv, TypeOK, Goto, Called, Traps, EnterKernel
<1> DEFINE e == Head(env_free_list)
           q == IF MLFQ_SCHED THEN queue_num[curenv[c]] ELSE 0
<1>1. curenv[c] \in Envs
  BY DEF SysExofork, ProgramInv
<1>2. e \in Envs /\ Tail(env_free_list) \in Seq(Envs)
  BY DEF SysExofork
<1>3. q \in Queues /\ 0 \in Time
  <2>1. queue_num[curenv[c]] \in Queues
    BY <1>1
  <2>2. 0 \in Queues /\ 0 \in Time
    BY QueuesAssumption, TimersAssumption DEF Queues, Time
  <2>3. QED
    BY <2>1, <2>2
<1>4. /\ status' = [status EXCEPT ![e] = "NOT_RUNNABLE"]
      /\ parent' = [parent EXCEPT ![e] = curenv[c]]
      /\ recving' = [recving EXCEPT ![e] = FALSE]
      /\ fresh' = fresh \cup {e}
      /\ queues' = [queues EXCEPT ![q] = Append(@, e)]
      /\ queue_num' = [queue_num EXCEPT ![e] = q]
      /\ time_remaining' = [time_remaining EXCEPT ![e] = 0]
      /\ time_in_queue' = [time_in_queue EXCEPT ![e] = 0]
      /\ env_free_list' = Tail(env_free_list)
  BY DEF SysExofork
<1>5. curenv' = curenv /\ lock' = c /\ pc' = [pc EXCEPT ![c] = "ret"]
      /\ UNCHANGED <<trapno, ticr, irq, tccr, load, mlfq_time_count>>
  BY DEF SysExofork
<1> HIDE DEF e, q
<1>6. queues' \in [Queues -> Seq(Envs)]
  BY <1>2, <1>3, <1>4
<1>7. (TimerInv /\ ProgramInv)'
  BY <1>1, <1>5, NoneAssumption DEF TimerInv, ProgramInv
<1>8. TypeOK'
  BY <1>1, <1>2, <1>3, <1>4, <1>5, <1>6 DEF Labels, Statuses
<1>9. QED
  BY <1>7, <1>8

\* Changes of priority.
LEMMA PriorityTypeInv ==
  ASSUME TypeInv, NEW c \in CPUs,
         \/ \E e \in Envs, prio \in Queues : SysChangePrio(c, e, prio)
         \/ Downgrade(c) \/ BoostMove(c)
  PROVE  TypeInv'
<1> USE DEF TypeInv, TypeOK, TimerInv, ProgramInv, Goto, cpuVars,
            envVars, Called, Traps, EnterKernel
<1>1. CASE \E e \in Envs, prio \in Queues : SysChangePrio(c, e, prio)
  <2>1. PICK e \in Envs, prio \in Queues : SysChangePrio(c, e, prio)
    BY <1>1
  <2>2. ChangePriority(e, prio)
    BY <2>1 DEF SysChangePrio
  <2>3. QED
    BY <2>1, <2>2, ChangePriorityType DEF SysChangePrio, Labels
<1>2. CASE Downgrade(c)
  <2>1. curenv[c] \in Envs /\ queue_num[curenv[c]] + 1 \in Queues
    BY <1>2, QueuesAssumption DEF Downgrade, ShouldDowngrade, Queues
  <2>2. ChangePriority(curenv[c], queue_num[curenv[c]] + 1)
    BY <1>2 DEF Downgrade
  <2>3. QED
    BY <1>2, <2>1, <2>2, ChangePriorityType DEF Downgrade, Labels
<1>3. CASE BoostMove(c)
  <2>1. PICK i \in Queues : queues[i] # <<>> /\ ChangePriority(Head(queues[i]), 0)
    BY <1>3 DEF BoostMove
  <2>2. Head(queues[i]) \in Envs /\ 0 \in Queues
    BY <2>1, QueuesAssumption DEF Queues
  <2>3. QED
    BY <1>3, <2>1, <2>2, ChangePriorityType DEF BoostMove
<1>4. QED
  BY <1>1, <1>2, <1>3

\* Ways back to user mode, and to hlt.
LEMMA LeaveTypeInv ==
  ASSUME TypeInv, NEW c \in CPUs,
         PageFault(c) \/ TrapReturn(c) \/ Pick(c) \/ SchedHalt(c)
  PROVE  TypeInv'
<1> USE NoneAssumption DEF TypeInv
<1>1. CASE PageFault(c)
  <2>1. curenv[c] \in Envs /\ time_remaining[curenv[c]] \in Time
    BY <1>1 DEF PageFault, Traps, EnterKernel, ProgramInv, TypeOK
  <2>2. EnvRun(c, curenv[c], time_remaining[curenv[c]])
    BY <1>1 DEF PageFault
  <2>3. QED
    BY <1>1, <2>1, <2>2, EnvRunType DEF PageFault, TypeOK, queueVars
<1>2. CASE TrapReturn(c)
  <2> DEFINE e == curenv[c]
  <2>1. e \in Envs /\ time_remaining[e] \in Time
    BY <1>2 DEF TrapReturn, ProgramInv, TypeOK
  <2>2. CASE EnvRun(c, e, time_remaining[e])
            /\ UNCHANGED <<mlfq_time_count, queueVars,
                           env_free_list, parent, recving, fresh>>
    BY <2>1, <2>2, EnvRunType DEF TypeOK, queueVars
  <2>3. CASE Goto(c, "sched")
            /\ UNCHANGED <<lock, trapno, curenv, ticr, irq, tccr, load,
                           mlfq_time_count, queueVars, envVars>>
    BY <2>3 DEF TypeOK, TimerInv, ProgramInv, Labels, Goto, queueVars, envVars
  <2>4. QED
    BY <1>2, <2>2, <2>3 DEF TrapReturn
<1>3. CASE Pick(c)
  <2>1. PICK e \in Envs : time_remaining' = [time_remaining EXCEPT ![e] = MLFQ_BASE_TIMER]
                          /\ EnvRun(c, e, MLFQ_BASE_TIMER)
    BY <1>3 DEF Pick
  <2>2. MLFQ_BASE_TIMER \in Time
    BY TimersAssumption DEF Time
  <2>3. QED
    BY <1>3, <2>1, <2>2, EnvRunType DEF Pick, TypeOK
<1>4. CASE SchedHalt(c)
  <2>1. CPU_TIME_HALT \in Time
    BY TimersAssumption DEF Time
  <2>2. TimerSet(c, CPU_TIME_HALT)
    BY <1>4 DEF SchedHalt
  <2>3. ProgramInv'
    BY <1>4, <2>2 DEF SchedHalt, TimerSet, ProgramInv, TypeOK, Goto
  <2>4. QED
    BY <1>4, <2>1, <2>2, <2>3, TimerSetType
    DEF SchedHalt, TypeOK, Goto, Labels, queueVars, envVars
<1>5. QED
  BY <1>1, <1>2, <1>3, <1>4

LEMMA NextTypeInv == TypeInv /\ [Next]_vars => TypeInv'
<1> SUFFICES ASSUME TypeInv, [Next]_vars PROVE TypeInv'
  OBVIOUS
<1>1. CASE UNCHANGED vars
  BY <1>1 DEF vars, cpuVars, queueVars, envVars, TypeInv, TypeOK, TimerInv, ProgramInv
<1>2. ASSUME NEW c \in CPUs,
             MpMain(c) \/ TrapEnter(c) \/ Accounting(c) \/ Handler(c) \/ Yield(c)
      PROVE  TypeInv'
  BY <1>2, ControlTypeInv, AccountingTypeInv, StatusTypeInv, ExoforkTypeInv,
     PriorityTypeInv, LeaveTypeInv DEF Handler, Yield
<1>3. QED
  BY <1>1, <1>2 DEF Next

\* The type invariant, for any machine and any number of queues.
THEOREM MlfqTypeOK == Spec => []TypeOK
<1>1. TypeInv => TypeOK
  BY DEF TypeInv
<1>2. QED
  BY InitTypeInv, NextTypeInv, <1>1, PTL DEF Spec

-----------------------------------------------------------------------------
(* The inductive invariant *)

\* The lock belongs to the CPU that is scheduling or ending a system call.
LockInv == \A c \in CPUs : pc[c] \in InKernel <=> lock = c

BootInv == \A c \in CPUs : pc[c] = "boot" => curenv[c] = None

\* The current environment of a CPU that holds the lock runs or has just blocked.
KernelInv ==
  \A c \in CPUs : pc[c] \in InKernel /\ curenv[c] # None =>
    status[curenv[c]] \in {"RUNNING", "NOT_RUNNABLE"}

\* Who waits for a message, or for its parent to start it, is not runnable, and
\* nobody waits for both: sys_ipc_try_send and sys_env_set_status cannot wake an
\* environment that is already executing.
WaitInv ==
  \A e \in Envs :
    /\ recving[e] => status[e] \in {"NOT_RUNNABLE", "FREE"}
    /\ e \in fresh => status[e] = "NOT_RUNNABLE" /\ ~recving[e]

FreeListInv ==
  /\ \A k \in DOMAIN env_free_list : status[env_free_list[k]] = "FREE"
  /\ \A k, m \in DOMAIN env_free_list :
       env_free_list[k] = env_free_list[m] => k = m

\* ExclusiveExecution is not inductive alone: a pick is safe because a RUNNABLE
\* environment is current nowhere, a wake because the woken one was not executing,
\* and an exofork because env_free_list holds only free slots.
ControlInv ==
  /\ LockInv
  /\ BootInv
  /\ RunningIsCurrent
  /\ ExclusiveExecution
  /\ KernelInv
  /\ WaitInv
  /\ FreeListInv

\* A RUNNING environment is not forgotten by sched_halt because it is in a queue
\* that the scheduler scans.
RoundRobinInv == ~MLFQ_SCHED => \A e \in Envs : queue_num[e] = 0

QueueInv == QueueMembership /\ RoundRobinInv

CoreInv == TypeInv /\ ControlInv /\ QueueInv

-----------------------------------------------------------------------------
(* Initially *)

LEMMA InitControlInv == Init => ControlInv
<1> SUFFICES ASSUME Init PROVE ControlInv
  OBVIOUS
<1> DEFINE boot(machine) == SubSeq(machine[2], 1, NBOOT)
           rest(machine) == SubSeq(machine[2], NBOOT + 1, Len(machine[2]))
<1>1. PICK machine \in Machines :
        /\ lock = machine[1]
        /\ pc = [c \in CPUs |-> IF c = machine[1] THEN "sched" ELSE "boot"]
        /\ curenv = [c \in CPUs |-> None]
        /\ recving = [e \in Envs |-> FALSE]
        /\ fresh = {}
        /\ env_free_list = rest(machine)
        /\ status = [e \in Envs |-> IF Contains(boot(machine), e)
                                     THEN "RUNNABLE" ELSE "FREE"]
  BY DEF Init
<1> DEFINE s == machine[2]
<1>2. /\ machine[1] \in CPUs /\ s \in Seq(Envs) /\ NBOOT \in 1 .. Len(s)
      /\ \A k, m \in 1 .. Len(s) : s[k] = s[m] => k = m
  BY MachineType
<1>3. DOMAIN boot(machine) = 1 .. NBOOT
      /\ \A k \in 1 .. NBOOT : boot(machine)[k] = s[k]
  BY <1>2, SubSeqProperties
<1>4. DOMAIN env_free_list = 1 .. Len(s) - NBOOT
      /\ \A k \in 1 .. Len(s) - NBOOT : env_free_list[k] = s[NBOOT + k]
  BY <1>1, <1>2, SubSeqProperties
<1>5. FreeListInv
  <2>1. ASSUME NEW k \in DOMAIN env_free_list
        PROVE  status[env_free_list[k]] = "FREE"
    <3>1. k \in 1 .. Len(s) - NBOOT /\ NBOOT + k \in 1 .. Len(s)
          /\ env_free_list[k] = s[NBOOT + k]
      BY <1>2, <1>4, <2>1
    <3>2. \A m \in DOMAIN boot(machine) : boot(machine)[m] # env_free_list[k]
      <4>1. SUFFICES ASSUME NEW m \in 1 .. NBOOT
                     PROVE  s[m] # s[NBOOT + k]
        BY <1>3, <3>1
      <4>2. m \in 1 .. Len(s) /\ m # NBOOT + k
        BY <1>2, <2>1, <1>4
      <4>3. QED
        BY <1>2, <3>1, <4>2
    <3>3. env_free_list[k] \in Envs /\ ~Contains(boot(machine), env_free_list[k])
      BY <1>2, <3>1, <3>2 DEF Contains
    <3>4. QED
      BY <1>1, <3>3
  <2>2. \A k, m \in DOMAIN env_free_list : env_free_list[k] = env_free_list[m] => k = m
    BY <1>2, <1>4
  <2>3. QED
    BY <2>1, <2>2 DEF FreeListInv
<1>6. \A e \in Envs : status[e] \in {"RUNNABLE", "FREE"}
  BY <1>1
<1>7. LockInv /\ BootInv /\ RunningIsCurrent /\ ExclusiveExecution /\ KernelInv /\ WaitInv
  BY <1>1, <1>2, <1>6, NoneAssumption
  DEF LockInv, BootInv, RunningIsCurrent, ExclusiveExecution, KernelInv, WaitInv, InKernel
<1>8. QED
  BY <1>5, <1>7 DEF ControlInv

-----------------------------------------------------------------------------
(* ControlInv *)

\* A step that only moves c, perhaps into the kernel, where no zombie gets.
LEMMA QuietStep ==
  ASSUME TypeOK, ControlInv, NEW c \in CPUs, NEW l \in Labels, pc[c] = "boot" \/ l # "boot",
         Goto(c, l), UNCHANGED <<curenv, envVars>>,
         \/ pc[c] \notin InKernel /\ l \notin InKernel /\ UNCHANGED lock
         \/ pc[c] \in InKernel /\ l \in InKernel /\ UNCHANGED lock
         \/ /\ pc[c] \notin InKernel /\ l \in InKernel /\ lock = None /\ lock' = c
            /\ curenv[c] # None => status[curenv[c]] # "DYING"
  PROVE  ControlInv'
<1> USE DEF ControlInv, TypeOK, Goto, envVars
<1>1. LockInv' /\ BootInv'
  BY NoneAssumption DEF LockInv, BootInv
<1>2. RunningIsCurrent'
  BY DEF RunningIsCurrent, InKernel
<1>3. (ExclusiveExecution /\ WaitInv /\ FreeListInv)'
  BY DEF ExclusiveExecution, WaitInv, FreeListInv
<1>4. KernelInv'
  BY DEF KernelInv, RunningIsCurrent
<1>5. QED
  BY <1>1, <1>2, <1>3, <1>4

LEMMA QuietControlInv ==
  ASSUME TypeInv, ControlInv, NEW c \in CPUs,
         \/ MpMain(c) \/ TrapEnter(c) \/ Accounting(c)
         \/ TimerInterrupt(c) \/ SysOther(c) \/ SysYield(c)
         \/ \E e \in Envs, prio \in Queues : SysChangePrio(c, e, prio)
         \/ Downgrade(c) \/ NoDowngrade(c) \/ NoBoost(c)
         \/ Boost(c) \/ BoostMove(c) \/ BoostEnd(c) \/ Monitor(c)
  PROVE  ControlInv'
<1> TypeOK
  BY DEF TypeInv
<1> USE DEF Labels, InKernel, cpuVars
<1>1. CASE MpMain(c)
  BY <1>1, QuietStep DEF MpMain, ControlInv, BootInv
<1>2. CASE TrapEnter(c)
  BY <1>2, QuietStep DEF TrapEnter
<1>3. CASE Accounting(c)
  <2>1. UNCHANGED <<lock, curenv, envVars>>
    BY <1>3 DEF Accounting, StoreCount, StoreRemaining, StoreInQueue
  <2>2. PICK l \in {"lock", "times", "in_queue", "remaining"} :
          Goto(c, l) /\ pc[c] \in {"count", "times", "in_queue", "remaining"}
    BY <1>3 DEF Accounting, StoreCount, StoreRemaining, StoreInQueue
  <2>3. QED
    BY <2>1, <2>2, QuietStep
<1>4. CASE TimerInterrupt(c) \/ SysOther(c) \/ SysYield(c)
  BY <1>4, QuietStep DEF TimerInterrupt, SysOther, SysYield, Called, Traps, EnterKernel
<1>5. CASE \E e \in Envs, prio \in Queues : SysChangePrio(c, e, prio)
  BY <1>5, QuietStep DEF SysChangePrio, Called, Traps, EnterKernel
<1>6. CASE Downgrade(c) \/ NoDowngrade(c) \/ NoBoost(c) \/ Boost(c) \/ BoostEnd(c)
           \/ Monitor(c)
  BY <1>6, QuietStep DEF Downgrade, NoDowngrade, NoBoost, Boost, BoostEnd, Monitor
<1>7. CASE BoostMove(c)
  <2>1. UNCHANGED <<lock, pc, curenv, envVars>>
    BY <1>7 DEF BoostMove
  <2>2. QED
    BY <2>1 DEF ControlInv, LockInv, BootInv, RunningIsCurrent, ExclusiveExecution,
                KernelInv, WaitInv, FreeListInv, envVars
<1>8. QED
  BY <1>1, <1>2, <1>3, <1>4, <1>5, <1>6, <1>7

\* While the lock is free, what is current anywhere is being executed.
LEMMA AllOutside ==
  ASSUME TypeOK, ControlInv, lock = None, NEW d \in CPUs
  PROVE  /\ pc[d] \notin InKernel
         /\ curenv[d] # None => status[curenv[d]] \in {"RUNNING", "DYING"}
  BY NoneAssumption DEF ControlInv, LockInv, RunningIsCurrent

\* env_free of an environment that is current at most on the CPU that frees it.
LEMMA FreeControlInv ==
  ASSUME TypeOK, ControlInv, NEW c \in CPUs, NEW e \in Envs, lock = None, lock' = c,
         EnvFree(e), status[e] # "FREE", NEW l \in {"ret", "sched"}, Goto(c, l),
         curenv[c] # None => e = curenv[c] \/ status[curenv[c]] = "RUNNING",
         curenv' = IF curenv[c] = e THEN [curenv EXCEPT ![c] = None] ELSE curenv,
         \A d \in CPUs : curenv[d] = e => d = c
  PROVE  ControlInv'
<1> USE AllOutside, NoneAssumption DEF ControlInv, TypeOK, Goto, InKernel
<1>1. \A x \in Envs : status'[x] = IF x = e THEN "FREE" ELSE status[x]
  BY DEF EnvFree
<1>2. \A d \in CPUs : curenv'[d] # None => curenv'[d] = curenv[d] /\ curenv[d] # e
  OBVIOUS
<1>3. (LockInv /\ BootInv)'
  BY DEF LockInv, BootInv
<1>4. (RunningIsCurrent /\ KernelInv)'
  <2>1. \A d \in CPUs : d # c => pc'[d] \notin InKernel
    OBVIOUS
  <2>2. KernelInv'
    BY <1>1, <1>2, <2>1 DEF KernelInv
  <2>3. \A d \in CPUs : curenv'[d] # None /\ pc'[d] \notin InKernel =>
                         status'[curenv'[d]] \in {"RUNNING", "DYING"}
    BY <1>1, <1>2
  <2>4. ASSUME NEW x \in Envs, status'[x] \in {"RUNNING", "DYING"}
        PROVE  \E d \in CPUs : curenv'[d] = x
    <3>1. x # e /\ status[x] \in {"RUNNING", "DYING"}
      BY <1>1, <2>4
    <3>2. PICK d \in CPUs : curenv[d] = x
      BY <3>1 DEF RunningIsCurrent
    <3>3. curenv'[d] = x
      BY <3>1, <3>2
    <3>4. QED
      BY <3>3
  <2>5. QED
    BY <2>2, <2>3, <2>4 DEF RunningIsCurrent
<1>5. ExclusiveExecution'
  BY <1>2 DEF ExclusiveExecution
<1>6. WaitInv'
  BY <1>1 DEF WaitInv, EnvFree
<1>7. FreeListInv'
  <2>1. env_free_list' = <<e>> \o env_free_list
    BY DEF EnvFree
  <2>2. /\ DOMAIN env_free_list' = 1 .. Len(env_free_list) + 1
        /\ \A k \in DOMAIN env_free_list' :
             env_free_list'[k] = IF k = 1 THEN e ELSE env_free_list[k - 1]
    BY <2>1
  <2>3. \A k \in DOMAIN env_free_list : env_free_list[k] \in Envs /\ env_free_list[k] # e
    BY DEF FreeListInv
  <2>4. ASSUME NEW k \in DOMAIN env_free_list'
        PROVE  status'[env_free_list'[k]] = "FREE"
    <3>1. k # 1 => k - 1 \in DOMAIN env_free_list
      BY <2>2
    <3>2. QED
      BY <1>1, <2>2, <3>1, <2>3 DEF FreeListInv
  <2>5. ASSUME NEW k \in DOMAIN env_free_list', NEW m \in DOMAIN env_free_list',
               env_free_list'[k] = env_free_list'[m]
        PROVE  k = m
    <3>1. (k # 1 => k - 1 \in DOMAIN env_free_list)
          /\ (m # 1 => m - 1 \in DOMAIN env_free_list)
      BY <2>2
    <3>2. QED
      BY <2>2, <2>3, <2>5, <3>1 DEF FreeListInv
  <2>6. QED
    BY <2>4, <2>5 DEF FreeListInv
<1>8. QED
  BY <1>3, <1>4, <1>5, <1>6, <1>7

\* A system call of c that changes the status of an environment x that executes
\* nowhere, or blocks c's own.
LEMMA StatusStep ==
  ASSUME TypeOK, ControlInv, NEW c \in CPUs, lock = None, lock' = c,
         NEW l \in {"ret", "sched"}, Goto(c, l), UNCHANGED <<curenv, env_free_list>>,
         curenv[c] # None, status[curenv[c]] = "RUNNING",
         NEW x \in Envs, NEW s \in {"RUNNABLE", "NOT_RUNNABLE", "DYING"},
         status' = [status EXCEPT ![x] = s],
         \/ status[x] = "NOT_RUNNABLE" /\ s \in {"RUNNABLE", "NOT_RUNNABLE"}
         \/ status[x] = "RUNNING" /\ s = "DYING" /\ x # curenv[c]
         \/ x = curenv[c] /\ s = "NOT_RUNNABLE",
         WaitInv'
  PROVE  ControlInv'
<1> USE AllOutside, NoneAssumption DEF ControlInv, TypeOK, Goto, InKernel
<1>1. (LockInv /\ BootInv /\ ExclusiveExecution)'
  BY DEF LockInv, BootInv, ExclusiveExecution
<1>2. \A d \in CPUs : d # c => pc'[d] \notin InKernel /\ curenv[d] # curenv[c]
  BY DEF ExclusiveExecution
<1>3. KernelInv'
  BY <1>2 DEF KernelInv
<1>4. \A d \in CPUs : curenv'[d] # None /\ pc'[d] \notin InKernel =>
                       status'[curenv'[d]] \in {"RUNNING", "DYING"}
  BY <1>2
<1>5. \A y \in Envs : status'[y] \in {"RUNNING", "DYING"} => \E d \in CPUs : curenv'[d] = y
  BY DEF RunningIsCurrent
<1>6. FreeListInv'
  BY DEF FreeListInv
<1>7. QED
  BY <1>1, <1>3, <1>4, <1>5, <1>6 DEF RunningIsCurrent

\* The program of c is neither fresh nor waiting, and nobody else's.
LEMMA CallerRuns ==
  ASSUME TypeInv, ControlInv, NEW c \in CPUs, NEW call, Called(c, call)
  PROVE  /\ lock = None /\ lock' = c
         /\ curenv[c] \in Envs /\ curenv[c] # None
         /\ status[curenv[c]] = "RUNNING"
         /\ \A d \in CPUs : curenv[d] = curenv[c] => d = c
<1>1. lock = None /\ lock' = c /\ pc[c] = "lock" /\ trapno[c] = "program"
      /\ status[curenv[c]] # "DYING"
  BY DEF Called, Traps, EnterKernel
<1>2. curenv[c] # None
  BY <1>1 DEF TypeInv, ProgramInv
<1>3. QED
  BY <1>1, <1>2, AllOutside DEF TypeInv, TypeOK, ControlInv, ExclusiveExecution

LEMMA CallControlInv ==
  ASSUME LIBRARY, TypeInv, ControlInv, NEW c \in CPUs,
         \/ \E e \in Envs, s \in {"RUNNABLE", "NOT_RUNNABLE"} : SysEnvSetStatus(c, e, s)
         \/ \E e \in Envs : SysEnvDestroy(c, e) \/ SysIpcTrySend(c, e)
         \/ \E valid \in BOOLEAN : SysIpcRecv(c, valid)
  PROVE  ControlInv'
<1> TypeOK /\ WaitInv
  BY DEF TypeInv, ControlInv
<1>1. CASE \E e \in Envs, s \in {"RUNNABLE", "NOT_RUNNABLE"} : SysEnvSetStatus(c, e, s)
  <2>1. PICK e \in fresh : SysEnvSetStatus(c, e, "RUNNABLE") /\ e \in Envs
    BY <1>1 DEF SysEnvSetStatus
  <2>2. Called(c, "set_status") /\ status' = [status EXCEPT ![e] = "RUNNABLE"]
        /\ fresh' = fresh \ {e} /\ Goto(c, "ret") /\ UNCHANGED <<curenv, env_free_list, recving>>
    BY <2>1 DEF SysEnvSetStatus
  <2>3. WaitInv'
    BY <2>2 DEF WaitInv, TypeOK
  <2>4. QED
    BY <2>1, <2>2, <2>3, CallerRuns, StatusStep DEF WaitInv
<1>2. CASE \E e \in Envs : SysEnvDestroy(c, e)
  <2>1. PICK e \in Envs : SysEnvDestroy(c, e)
    BY <1>2
  <2>2. Called(c, "destroy") /\ status[e] \notin {"FREE", "DYING"} /\ e # curenv[c]
        /\ Goto(c, "ret") /\ UNCHANGED curenv
    BY <2>1 DEF SysEnvDestroy, Permitted
  <2>3. CASE status[e] = "RUNNING"
    <3>1. status' = [status EXCEPT ![e] = "DYING"] /\ UNCHANGED <<env_free_list, recving, fresh>>
      BY <2>1, <2>3 DEF SysEnvDestroy
    <3>2. WaitInv'
      BY <2>3, <3>1 DEF WaitInv, TypeOK
    <3>3. QED
      BY <2>2, <2>3, <3>1, <3>2, CallerRuns, StatusStep
  <2>4. CASE status[e] # "RUNNING"
    <3>1. EnvFree(e)
      BY <2>1, <2>4 DEF SysEnvDestroy
    <3>2. \A d \in CPUs : curenv[d] # e
      BY <2>2, <2>4, CallerRuns, AllOutside, NoneAssumption
    <3>3. QED
      BY <2>2, <3>1, <3>2, CallerRuns, FreeControlInv
  <2>5. QED
    BY <2>3, <2>4
<1>3. CASE \E e \in Envs : SysIpcTrySend(c, e)
  <2>1. PICK e \in Envs : SysIpcTrySend(c, e)
    BY <1>3
  <2>2. Called(c, "send") /\ recving[e] /\ status[e] # "FREE"
        /\ status' = [status EXCEPT ![e] = "RUNNABLE"] /\ recving' = [recving EXCEPT ![e] = FALSE]
        /\ Goto(c, "ret") /\ UNCHANGED <<curenv, env_free_list, fresh>>
    BY <2>1 DEF SysIpcTrySend
  <2>3. WaitInv' /\ status[e] = "NOT_RUNNABLE"
    BY <2>2 DEF WaitInv, TypeOK
  <2>4. QED
    BY <2>2, <2>3, CallerRuns, StatusStep
<1>4. CASE \E valid \in BOOLEAN : SysIpcRecv(c, valid)
  <2>1. SysIpcRecv(c, TRUE)
    BY <1>4 DEF SysIpcRecv
  <2> DEFINE e == curenv[c]
  <2>2. Called(c, "recv") /\ status' = [status EXCEPT ![e] = "NOT_RUNNABLE"]
        /\ recving' = [recving EXCEPT ![e] = TRUE]
        /\ Goto(c, "sched") /\ UNCHANGED <<curenv, env_free_list, fresh>>
    BY <2>1 DEF SysIpcRecv
  <2>3. e \in Envs /\ status[e] = "RUNNING"
    BY <2>2, CallerRuns
  <2>4. WaitInv'
    BY <2>2, <2>3 DEF WaitInv, TypeOK
  <2>5. QED
    BY <2>2, <2>3, <2>4, CallerRuns, StatusStep
<1>5. QED
  BY <1>1, <1>2, <1>3, <1>4

LEMMA EndControlInv ==
  ASSUME TypeInv, ControlInv, NEW c \in CPUs, Reap(c) \/ Exit(c)
  PROVE  ControlInv'
<1> TypeOK
  BY DEF TypeInv
<1>1. lock = None /\ lock' = c /\ FreeSelf(c) /\ curenv[c] # None
  <2>1. CASE Reap(c)
    BY <2>1 DEF Reap, EnterKernel
  <2>2. CASE Exit(c)
    BY <2>2, CallerRuns DEF Exit, Called, Traps, EnterKernel
  <2>3. QED
    BY <2>1, <2>2
<1>2. curenv[c] \in Envs /\ status[curenv[c]] \in {"RUNNING", "DYING"}
  BY <1>1, AllOutside DEF TypeOK
<1>3. \A d \in CPUs : curenv[d] = curenv[c] => d = c
  BY <1>1 DEF ControlInv, ExclusiveExecution
<1>4. EnvFree(curenv[c]) /\ Goto(c, "sched") /\ curenv' = [curenv EXCEPT ![c] = None]
  BY <1>1 DEF FreeSelf
<1>5. QED
  BY <1>1, <1>2, <1>3, <1>4, FreeControlInv

LEMMA ExoforkControlInv ==
  ASSUME TypeInv, ControlInv, NEW c \in CPUs, SysExofork(c)
  PROVE  ControlInv'
<1> DEFINE e == Head(env_free_list)
<1>1. /\ Called(c, "exofork") /\ env_free_list # <<>>
      /\ status' = [status EXCEPT ![e] = "NOT_RUNNABLE"]
      /\ recving' = [recving EXCEPT ![e] = FALSE]
      /\ fresh' = fresh \cup {e}
      /\ env_free_list' = Tail(env_free_list)
      /\ Goto(c, "ret") /\ UNCHANGED curenv
  BY DEF SysExofork
<1>2. e = env_free_list[1] /\ 1 \in DOMAIN env_free_list /\ e \in Envs
  BY <1>1 DEF TypeInv, TypeOK
<1>3. status[e] = "FREE"
  BY <1>2 DEF ControlInv, FreeListInv
<1>4. /\ DOMAIN env_free_list' = 1 .. Len(env_free_list) - 1
      /\ \A k \in DOMAIN env_free_list' :
           /\ k + 1 \in DOMAIN env_free_list
           /\ env_free_list'[k] = env_free_list[k + 1]
  BY <1>1, HeadTailProperties DEF TypeInv, TypeOK
<1> HIDE DEF e
<1>5. /\ lock = None /\ lock' = c /\ curenv[c] \in Envs /\ curenv[c] # None
      /\ status[curenv[c]] = "RUNNING"
  BY <1>1, CallerRuns
<1>6. FreeListInv'
  <2>1. ASSUME NEW k \in DOMAIN env_free_list'
        PROVE  status'[env_free_list'[k]] = "FREE"
    <3>1. env_free_list[k + 1] # e
      BY <1>2, <1>4 DEF ControlInv, FreeListInv
    <3>2. QED
      BY <1>1, <1>4, <3>1 DEF ControlInv, FreeListInv, TypeInv, TypeOK
  <2>2. QED
    BY <1>4, <2>1 DEF ControlInv, FreeListInv
<1> USE <1>1, <1>2, <1>3, <1>5, AllOutside, NoneAssumption
    DEF ControlInv, TypeInv, TypeOK, Goto, InKernel
<1>7. \A d \in CPUs : curenv[d] # e
  OBVIOUS
<1>8. (LockInv /\ BootInv /\ ExclusiveExecution /\ WaitInv)'
  BY DEF LockInv, BootInv, ExclusiveExecution, WaitInv
<1>9. KernelInv'
  BY <1>7 DEF KernelInv
<1>10. RunningIsCurrent'
  BY <1>7 DEF RunningIsCurrent
<1>11. QED
  BY <1>6, <1>8, <1>9, <1>10

\* env_run by c, which has the lock or found it free, of its own environment or of
\* one that is waiting.
LEMMA EnvRunControlInv ==
  ASSUME TypeOK, ControlInv, NEW c \in CPUs, NEW e \in Envs, NEW t, EnvRun(c, e, t),
         lock = c \/ (lock = None /\ pc[c] # "boot"),
         Eligible(c, e),
         curenv[c] # None => status[curenv[c]] # "DYING",
         UNCHANGED <<env_free_list, recving, fresh>>
  PROVE  ControlInv'
<1> USE NoneAssumption DEF ControlInv, TypeOK, Goto, InKernel
<1>1. /\ \A x \in Envs : status'[x] = IF x = e THEN "RUNNING"
                           ELSE IF x = curenv[c] /\ status[x] = "RUNNING" THEN "RUNNABLE"
                           ELSE status[x]
      /\ curenv' = [curenv EXCEPT ![c] = e]
      /\ lock' = None /\ pc' = [pc EXCEPT ![c] = "user"]
  BY DEF EnvRun
<1>2. ASSUME NEW d \in CPUs, d # c
      PROVE  /\ pc[d] \notin InKernel
             /\ curenv[d] # None => curenv[d] # curenv[c]
             /\ curenv[d] # None => status[curenv[d]] \in {"RUNNING", "DYING"}
  BY <1>2 DEF LockInv, ExclusiveExecution, RunningIsCurrent
<1>3. ASSUME NEW d \in CPUs, d # c, curenv[d] = e
      PROVE  FALSE
  <2>1. status[e] \in {"RUNNING", "DYING"} /\ e # curenv[c]
    BY <1>2, <1>3
  <2>2. QED
    BY <2>1 DEF Eligible
<1>4. LockInv'
  BY <1>1, <1>2 DEF LockInv
<1>5. BootInv'
  BY <1>1 DEF BootInv
<1>6. ExclusiveExecution'
  BY <1>1, <1>3 DEF ExclusiveExecution
<1>7. KernelInv'
  <2>1. \A d \in CPUs : pc'[d] \notin InKernel
    BY <1>1, <1>2
  <2>2. QED
    BY <2>1 DEF KernelInv
<1>8. ASSUME NEW d \in CPUs, curenv'[d] # None
      PROVE  status'[curenv'[d]] \in {"RUNNING", "DYING"}
  <2>1. CASE d = c
    BY <1>1, <2>1
  <2>2. CASE d # c
    <3>1. curenv'[d] = curenv[d] /\ curenv[d] \in Envs /\ curenv[d] # curenv[c]
          /\ status[curenv[d]] \in {"RUNNING", "DYING"} /\ curenv[d] # e
      BY <1>1, <1>2, <1>3, <1>8, <2>2
    <3>2. QED
      BY <1>1, <3>1
  <2>3. QED
    BY <2>1, <2>2
<1>9. ASSUME NEW x \in Envs, status'[x] \in {"RUNNING", "DYING"}
      PROVE  \E d \in CPUs : curenv'[d] = x
  <2>1. CASE x = e
    BY <1>1, <2>1
  <2>2. CASE x # e
    <3>1. status[x] \in {"RUNNING", "DYING"} /\ x # curenv[c]
      BY <1>1, <1>9, <2>2
    <3>2. PICK d \in CPUs : curenv[d] = x
      BY <3>1 DEF RunningIsCurrent
    <3>3. curenv'[d] = x
      BY <1>1, <3>1, <3>2
    <3>4. QED
      BY <3>3
  <2>3. QED
    BY <2>1, <2>2
<1>10. WaitInv'
  BY <1>1 DEF WaitInv, Eligible
<1>11. FreeListInv'
  <2>1. ASSUME NEW k \in DOMAIN env_free_list
        PROVE  status'[env_free_list[k]] = "FREE"
    <3>1. env_free_list[k] \in Envs /\ status[env_free_list[k]] = "FREE"
      BY DEF FreeListInv
    <3>2. QED
      BY <1>1, <3>1 DEF Eligible
  <2>2. QED
    BY <2>1 DEF FreeListInv
<1>12. QED
  BY <1>4, <1>5, <1>6, <1>7, <1>8, <1>9, <1>10, <1>11 DEF RunningIsCurrent

LEMMA RunControlInv ==
  ASSUME TypeInv, ControlInv, NEW c \in CPUs, PageFault(c) \/ TrapReturn(c) \/ Pick(c)
  PROVE  ControlInv'
<1> TypeOK
  BY DEF TypeInv
<1>1. CASE PageFault(c)
  <2>1. lock = None /\ pc[c] = "lock" /\ curenv[c] # None /\ status[curenv[c]] # "DYING"
    BY <1>1 DEF PageFault, Traps, EnterKernel, TypeInv, ProgramInv
  <2>2. curenv[c] \in Envs /\ Eligible(c, curenv[c])
    BY <2>1, AllOutside DEF TypeOK, Eligible
  <2>3. QED
    BY <1>1, <2>1, <2>2, EnvRunControlInv DEF PageFault
<1>2. CASE TrapReturn(c)
  <2> DEFINE e == curenv[c]
  <2>1. lock = c /\ e \in Envs /\ e # None
    BY <1>2, NoneAssumption
    DEF TrapReturn, ControlInv, LockInv, InKernel, TypeOK, TypeInv, ProgramInv
  <2>2. CASE status[e] = "RUNNING" /\ OverThreshold(time_remaining[e])
    BY <1>2, <2>1, <2>2, EnvRunControlInv DEF TrapReturn, Eligible
  <2>3. CASE ~(status[e] = "RUNNING" /\ OverThreshold(time_remaining[e]))
    BY <1>2, <2>3, QuietStep DEF TrapReturn, Labels, InKernel
  <2>4. QED
    BY <2>2, <2>3
<1>3. CASE Pick(c)
  <2>1. PICK e \in Envs : Eligible(c, e) /\ EnvRun(c, e, MLFQ_BASE_TIMER)
    BY <1>3 DEF Pick, FirstEligible
  <2>2. lock = c
    BY <1>3 DEF Pick, ControlInv, LockInv, InKernel
  <2>3. curenv[c] # None => status[curenv[c]] # "DYING"
    BY <1>3 DEF Pick, ControlInv, KernelInv, InKernel
  <2>4. QED
    BY <1>3, <2>1, <2>2, <2>3, EnvRunControlInv DEF Pick
<1>4. QED
  BY <1>1, <1>2, <1>3

-----------------------------------------------------------------------------
(* Queues *)

Once(q, e) ==
  \E k \in DOMAIN q : q[k] = e /\ \A j \in DOMAIN q : q[j] = e => j = k

Absent(q, e) == \A j \in DOMAIN q : q[j] # e

OnceMembership ==
  \A e \in Envs, i \in Queues :
    IF status[e] # "FREE" /\ i = queue_num[e]
      THEN Once(queues[i], e)
      ELSE Absent(queues[i], e)

LEMMA MembershipIsOnce == QueueMembership <=> OnceMembership
<1>1. ASSUME NEW e \in Envs, NEW i \in Queues
      PROVE  /\ (\E k \in DOMAIN queues[i] : Occurrences(e, i) = {k}) <=> Once(queues[i], e)
             /\ Occurrences(e, i) = {} <=> Absent(queues[i], e)
  <2>1. Occurrences(e, i) = {} <=> Absent(queues[i], e)
    BY DEF Occurrences, Absent
  <2>2. \A k \in DOMAIN queues[i] :
          Occurrences(e, i) = {k} <=>
            /\ queues[i][k] = e
            /\ \A j \in DOMAIN queues[i] : queues[i][j] = e => j = k
    BY DEF Occurrences
  <2>3. QED
    BY <2>1, <2>2 DEF Once
<1>2. QED
  BY <1>1 DEF QueueMembership, OnceMembership

\* queue_push
LEMMA AppendOnce ==
  ASSUME NEW q \in Seq(Envs), NEW e \in Envs
  PROVE  /\ Absent(q, e) => Once(Append(q, e), e)
         /\ \A x \in Envs \ {e} : /\ Once(q, x) => Once(Append(q, e), x)
                                  /\ Absent(q, x) => Absent(Append(q, e), x)
<1> DEFINE r == Append(q, e)
<1>1. DOMAIN q = 1 .. Len(q) /\ DOMAIN r = 1 .. Len(q) + 1 /\ Len(q) \in Nat
      /\ \A j \in 1 .. Len(q) + 1 : r[j] = IF j = Len(q) + 1 THEN e ELSE q[j]
  BY AppendProperties
<1> HIDE DEF r
<1>2. ASSUME Absent(q, e) PROVE Once(r, e)
  <2>1. r[Len(q) + 1] = e /\ \A j \in DOMAIN r : r[j] = e => j = Len(q) + 1
    BY <1>1, <1>2 DEF Absent
  <2>2. QED
    BY <1>1, <2>1 DEF Once
<1>3. ASSUME NEW x \in Envs \ {e}, Once(q, x) PROVE Once(r, x)
  <2>1. PICK k \in 1 .. Len(q) : q[k] = x /\ \A j \in 1 .. Len(q) : q[j] = x => j = k
    BY <1>1, <1>3 DEF Once
  <2>2. k \in DOMAIN r /\ r[k] = x /\ \A j \in DOMAIN r : r[j] = x => j = k
    BY <1>1, <2>1, <1>3
  <2>3. QED
    BY <1>1, <2>1, <2>2 DEF Once
<1>4. ASSUME NEW x \in Envs \ {e}, Absent(q, x) PROVE Absent(r, x)
  BY <1>1, <1>4 DEF Absent
<1>5. QED
  BY <1>2, <1>3, <1>4 DEF r

\* queue_remove loses e and nobody else.
LEMMA RemoveOnce ==
  ASSUME NEW q \in Seq(Envs), NEW e \in Envs, Once(q, e)
  PROVE  /\ Absent(QueueRemove(q, e), e)
         /\ \A x \in Envs \ {e} : /\ Once(q, x) => Once(QueueRemove(q, e), x)
                                  /\ Absent(q, x) => Absent(QueueRemove(q, e), x)
<1> DEFINE r == QueueRemove(q, e)
           n == Len(q)
<1>1. PICK p \in 1 .. n : q[p] = e /\ \A j \in 1 .. n : q[j] = e => j = p
  BY DEF Once
<1>2. r = RemoveAt(q, p)
  <2>1. Contains(q, e)
    BY <1>1 DEF Contains
  <2>2. (CHOOSE k \in DOMAIN q : q[k] = e) = p
    BY <1>1
  <2>3. QED
    BY <2>1, <2>2 DEF QueueRemove
<1>3. r = SubSeq(q, 1, p - 1) \o SubSeq(q, p + 1, n)
  BY <1>2 DEF RemoveAt
<1>4. n \in Nat /\ DOMAIN r = 1 .. n - 1
      /\ \A j \in 1 .. n - 1 : r[j] = IF j < p THEN q[j] ELSE q[j + 1]
  <2> DEFINE a == SubSeq(q, 1, p - 1)
             b == SubSeq(q, p + 1, n)
  <2>1. a \in Seq(Envs) /\ Len(a) = p - 1 /\ \A j \in 1 .. p - 1 : a[j] = q[j]
    BY <1>1, SubSeqProperties
  <2>2. b \in Seq(Envs) /\ Len(b) = n - p /\ \A j \in 1 .. n - p : b[j] = q[p + j]
    BY <1>1, SubSeqProperties
  <2> HIDE DEF a, b
  <2>3. Len(a \o b) = n - 1
        /\ \A j \in 1 .. n - 1 : (a \o b)[j] = IF j < p THEN a[j] ELSE b[j - (p - 1)]
    <3>1. Len(a) + Len(b) = n - 1 /\ Len(a) = p - 1
      BY <1>1, <2>1, <2>2
    <3>2. /\ Len(a \o b) = Len(a) + Len(b)
          /\ \A j \in 1 .. Len(a) + Len(b) :
               (a \o b)[j] = IF j <= Len(a) THEN a[j] ELSE b[j - Len(a)]
      BY <2>1, <2>2, ConcatProperties
    <3>3. QED
      BY <1>1, <3>1, <3>2
  <2>4. r = a \o b /\ r \in Seq(Envs)
    BY <1>3, <2>1, <2>2 DEF a, b
  <2>5. \A j \in 1 .. n - 1 : r[j] = IF j < p THEN q[j] ELSE q[j + 1]
    BY <1>1, <2>1, <2>2, <2>3, <2>4
  <2>6. QED
    BY <2>3, <2>4, <2>5
<1> HIDE DEF r
<1>5. Absent(r, e)
  BY <1>1, <1>4 DEF Absent
<1>6. ASSUME NEW x \in Envs \ {e}, Once(q, x) PROVE Once(r, x)
  <2>1. PICK k \in 1 .. n : q[k] = x /\ \A j \in 1 .. n : q[j] = x => j = k
    BY <1>6 DEF Once
  <2>2. k # p
    BY <1>1, <2>1, <1>6
  <2> DEFINE m == IF k < p THEN k ELSE k - 1
  <2>3. m \in DOMAIN r
    BY <1>4, <2>2
  <2>4. r[m] = x /\ \A j \in DOMAIN r : r[j] = x => j = m
    <3>1. r[m] = x
      BY <1>4, <2>1, <2>2, <2>3
    <3>2. ASSUME NEW j \in DOMAIN r, r[j] = x PROVE j = m
      <4>1. CASE j < p
        BY <1>4, <2>1, <3>2, <4>1
      <4>2. CASE ~(j < p)
        <5>1. j + 1 \in 1 .. n /\ q[j + 1] = x
          BY <1>1, <1>4, <3>2, <4>2
        <5>2. QED
          BY <1>1, <1>4, <2>1, <5>1, <4>2
      <4>3. QED
        BY <4>1, <4>2
    <3>3. QED
      BY <3>1, <3>2
  <2>5. QED
    BY <2>3, <2>4 DEF Once
<1>7. ASSUME NEW x \in Envs \ {e}, Absent(q, x) PROVE Absent(r, x)
  BY <1>1, <1>4, <1>7 DEF Absent
<1>8. QED
  BY <1>5, <1>6, <1>7 DEF r

\* env_change_priority of a live environment.
LEMMA ChangePriorityKeeps ==
  ASSUME TypeOK, QueueMembership, NEW e \in Envs, NEW q \in Queues, status[e] # "FREE",
         ChangePriority(e, q), UNCHANGED status
  PROVE  QueueMembership'
<1> DEFINE f == queue_num[e]
           less == [queues EXCEPT ![f] = QueueRemove(@, e)]
<1>1. f \in Queues /\ Once(queues[f], e) /\ queues \in [Queues -> Seq(Envs)]
  BY MembershipIsOnce DEF OnceMembership, TypeOK
<1>2. \A i \in Queues \ {f} : Absent(queues[i], e)
  BY MembershipIsOnce DEF OnceMembership
<1>3. \A x \in Envs \ {e}, i \in Queues :
        IF status[x] # "FREE" /\ i = queue_num[x]
          THEN Once(queues[i], x) ELSE Absent(queues[i], x)
  BY MembershipIsOnce DEF OnceMembership
<1>4. QueueRemove(queues[f], e) \in Seq(Envs)
  BY <1>1, QueueRemoveType
<1>5. /\ less \in [Queues -> Seq(Envs)]
      /\ less[f] = QueueRemove(queues[f], e)
      /\ \A i \in Queues \ {f} : less[i] = queues[i]
  BY <1>1, <1>4
<1>6. queues' = [less EXCEPT ![q] = Append(@, e)] /\ queue_num' = [queue_num EXCEPT ![e] = q]
  BY DEF ChangePriority
<1> HIDE DEF less, f
<1>7. \A i \in Queues : Absent(less[i], e)
  BY <1>1, <1>2, <1>5, RemoveOnce
<1>8. \A x \in Envs \ {e}, i \in Queues :
        IF status[x] # "FREE" /\ i = queue_num[x]
          THEN Once(less[i], x) ELSE Absent(less[i], x)
  <2>1. ASSUME NEW x \in Envs \ {e}
        PROVE  /\ Once(queues[f], x) => Once(less[f], x)
               /\ Absent(queues[f], x) => Absent(less[f], x)
    BY <1>1, <1>5, RemoveOnce
  <2>2. QED
    BY <1>1, <1>3, <1>5, <2>1
<1>9. less[q] \in Seq(Envs) /\ queues'[q] = Append(less[q], e)
      /\ \A i \in Queues \ {q} : queues'[i] = less[i]
  BY <1>5, <1>6
<1>10. Once(queues'[q], e) /\ \A i \in Queues \ {q} : Absent(queues'[i], e)
  BY <1>7, <1>9, AppendOnce
<1>11. \A x \in Envs \ {e}, i \in Queues :
         IF status[x] # "FREE" /\ i = queue_num[x]
           THEN Once(queues'[i], x) ELSE Absent(queues'[i], x)
  <2>1. ASSUME NEW x \in Envs \ {e}
        PROVE  /\ Once(less[q], x) => Once(queues'[q], x)
               /\ Absent(less[q], x) => Absent(queues'[q], x)
    BY <1>9, AppendOnce
  <2>2. QED
    BY <1>8, <1>9, <2>1
<1>12. queue_num'[e] = q /\ \A x \in Envs \ {e} : queue_num'[x] = queue_num[x]
  BY <1>6 DEF TypeOK
<1>13. OnceMembership'
  BY <1>10, <1>11, <1>12 DEF OnceMembership
<1>14. QED
  BY <1>13, MembershipIsOnce, PTL

\* env_free of a live environment.
LEMMA EnvFreeKeeps ==
  ASSUME TypeOK, QueueMembership, NEW e \in Envs, status[e] # "FREE", EnvFree(e)
  PROVE  QueueMembership'
<1> DEFINE f == queue_num[e]
<1>1. f \in Queues /\ Once(queues[f], e) /\ queues \in [Queues -> Seq(Envs)]
  BY MembershipIsOnce DEF OnceMembership, TypeOK
<1>2. /\ \A i \in Queues \ {f} : Absent(queues[i], e)
      /\ \A x \in Envs \ {e}, i \in Queues :
           IF status[x] # "FREE" /\ i = queue_num[x]
             THEN Once(queues[i], x) ELSE Absent(queues[i], x)
  BY MembershipIsOnce DEF OnceMembership
<1>3. /\ queues'[f] = QueueRemove(queues[f], e)
      /\ \A i \in Queues \ {f} : queues'[i] = queues[i]
      /\ queue_num' = queue_num
      /\ status' = [status EXCEPT ![e] = "FREE"]
  BY <1>1 DEF EnvFree
<1> HIDE DEF f
<1>4. \A i \in Queues : Absent(queues'[i], e)
  BY <1>1, <1>2, <1>3, RemoveOnce
<1>5. ASSUME NEW x \in Envs \ {e}
      PROVE  /\ Once(queues[f], x) => Once(queues'[f], x)
             /\ Absent(queues[f], x) => Absent(queues'[f], x)
  BY <1>1, <1>3, RemoveOnce
<1>6. status'[e] = "FREE" /\ \A x \in Envs \ {e} : status'[x] = status[x]
  BY <1>3 DEF TypeOK
<1>7. OnceMembership'
  BY <1>1, <1>2, <1>3, <1>4, <1>5, <1>6 DEF OnceMembership
<1>8. QED
  BY <1>7, MembershipIsOnce, PTL

LEMMA ExoforkKeeps ==
  ASSUME TypeInv, FreeListInv, QueueInv, NEW c \in CPUs, SysExofork(c)
  PROVE  QueueInv'
<1> DEFINE e == Head(env_free_list)
           q == IF MLFQ_SCHED THEN queue_num[curenv[c]] ELSE 0
<1>1. curenv[c] \in Envs
  BY DEF SysExofork, Called, Traps, EnterKernel, TypeInv, TypeOK, ProgramInv
<1>2. e \in Envs /\ status[e] = "FREE"
  BY DEF SysExofork, TypeInv, TypeOK, FreeListInv
<1>3. q \in Queues /\ (~MLFQ_SCHED => q = 0)
  BY <1>1, QueuesAssumption DEF Queues, TypeInv, TypeOK
<1>4. /\ status' = [status EXCEPT ![e] = "NOT_RUNNABLE"]
      /\ queues' = [queues EXCEPT ![q] = Append(@, e)]
      /\ queue_num' = [queue_num EXCEPT ![e] = q]
  BY DEF SysExofork
<1> HIDE DEF e, q
<1>5. /\ \A i \in Queues : Absent(queues[i], e)
      /\ \A x \in Envs \ {e}, i \in Queues :
           IF status[x] # "FREE" /\ i = queue_num[x]
             THEN Once(queues[i], x) ELSE Absent(queues[i], x)
  BY <1>2, MembershipIsOnce DEF QueueInv, OnceMembership
<1>6. /\ queues[q] \in Seq(Envs) /\ queues'[q] = Append(queues[q], e)
      /\ \A i \in Queues \ {q} : queues'[i] = queues[i]
  BY <1>3, <1>4 DEF TypeInv, TypeOK
<1>7. Once(queues'[q], e) /\ \A i \in Queues \ {q} : Absent(queues'[i], e)
  BY <1>2, <1>3, <1>5, <1>6, AppendOnce
<1>8. ASSUME NEW x \in Envs \ {e}
      PROVE  /\ Once(queues[q], x) => Once(queues'[q], x)
             /\ Absent(queues[q], x) => Absent(queues'[q], x)
  BY <1>2, <1>6, AppendOnce
<1>9. /\ queue_num'[e] = q /\ status'[e] = "NOT_RUNNABLE"
      /\ \A x \in Envs \ {e} : queue_num'[x] = queue_num[x] /\ status'[x] = status[x]
  BY <1>2, <1>4 DEF TypeInv, TypeOK
<1>10. OnceMembership'
  <2>1. ASSUME NEW x \in Envs, NEW i \in Queues
        PROVE  IF status'[x] # "FREE" /\ i = queue_num'[x]
                 THEN Once(queues'[i], x) ELSE Absent(queues'[i], x)
    <3>1. CASE x = e
      BY <1>7, <1>9, <3>1
    <3>2. CASE x # e
      <4>1. IF status[x] # "FREE" /\ i = queue_num[x]
              THEN Once(queues[i], x) ELSE Absent(queues[i], x)
        BY <1>5, <3>2
      <4>2. CASE i = q
        BY <1>8, <1>9, <3>2, <4>1, <4>2
      <4>3. CASE i # q
        BY <1>6, <1>9, <3>2, <4>1, <4>3
      <4>4. QED
        BY <4>2, <4>3
    <3>3. QED
      BY <3>1, <3>2
  <2>2. QED
    BY <2>1 DEF OnceMembership
<1>11. RoundRobinInv'
  BY <1>3, <1>4, <1>9 DEF QueueInv, RoundRobinInv
<1>12. QED
  BY <1>10, <1>11, MembershipIsOnce, PTL DEF QueueInv

LEMMA QueuesStay ==
  ASSUME QueueInv, UNCHANGED <<queues, queue_num>>,
         \A x \in Envs : status'[x] = "FREE" <=> status[x] = "FREE"
  PROVE  QueueInv'
  BY DEF QueueInv, QueueMembership, RoundRobinInv, Occurrences

LEMMA InitQueueInv == Init => QueueInv
<1> SUFFICES ASSUME Init PROVE QueueInv
  OBVIOUS
<1> DEFINE boot(machine) == SubSeq(machine[2], 1, NBOOT)
<1>1. PICK machine \in Machines :
        /\ status = [e \in Envs |-> IF Contains(boot(machine), e)
                                     THEN "RUNNABLE" ELSE "FREE"]
        /\ queues = [i \in Queues |-> IF i = 0 THEN boot(machine) ELSE <<>>]
        /\ queue_num = [e \in Envs |-> 0]
  BY DEF Init
<1> DEFINE s == machine[2]
           b == boot(machine)
<1>2. /\ s \in Seq(Envs) /\ NBOOT \in 1 .. Len(s)
      /\ \A k, m \in 1 .. Len(s) : s[k] = s[m] => k = m
  BY MachineType
<1>3. DOMAIN b = 1 .. NBOOT /\ \A k \in 1 .. NBOOT : b[k] = s[k]
  BY <1>2, SubSeqProperties
<1>4. \A k, m \in DOMAIN b : b[k] = b[m] => k = m
  BY <1>2, <1>3
<1> HIDE DEF b
<1>5. \A e \in Envs : IF Contains(b, e) THEN Once(b, e) ELSE Absent(b, e)
  BY <1>4 DEF Contains, Once, Absent
<1>6. \A e \in Envs : Absent(<<>>, e)
  BY DEF Absent
<1>7. OnceMembership
  BY <1>1, <1>5, <1>6 DEF OnceMembership, b
<1>8. QED
  BY <1>1, <1>7, MembershipIsOnce DEF QueueInv, RoundRobinInv

\* sched_halt does not overlook a program that could continue.
LEMMA HaltIsIdle ==
  ASSUME TypeOK, ControlInv, QueueInv, NEW c \in CPUs, pc[c] = "pick",
         NothingEligible(c), curenv[c] # None
  PROVE  status[curenv[c]] = "NOT_RUNNABLE"
<1> DEFINE e == curenv[c]
           i == queue_num[e]
           q == queues[i]
<1>1. e \in Envs /\ status[e] \in {"RUNNING", "NOT_RUNNABLE"}
  BY DEF TypeOK, ControlInv, KernelInv, InKernel
<1>2. i \in Queues /\ i \in Scanned /\ q \in Seq(Envs)
  BY <1>1 DEF TypeOK, QueueInv, RoundRobinInv, Scanned
<1>3. Once(q, e)
  BY <1>1, <1>2, MembershipIsOnce DEF QueueInv, OnceMembership
<1> DEFINE p == CHOOSE p \in DOMAIN q : q[p] = e
<1>4. p \in 1 .. Len(q) /\ q[p] = e /\ Contains(q, e)
  BY <1>2, <1>3 DEF Once, Contains
<1>5. Scan(c, i) = SubSeq(q, p + 1, Len(q)) \o SubSeq(q, 1, p)
  BY <1>4 DEF Scan
<1> HIDE DEF p, q
<1>6. /\ SubSeq(q, p + 1, Len(q)) \in Seq(Envs) /\ Len(SubSeq(q, p + 1, Len(q))) = Len(q) - p
      /\ SubSeq(q, 1, p) \in Seq(Envs) /\ Len(SubSeq(q, 1, p)) = p
      /\ SubSeq(q, 1, p)[p] = e
  BY <1>2, <1>4, SubSeqProperties
<1>7. Len(q) \in DOMAIN Scan(c, i) /\ Scan(c, i)[Len(q)] = e
  <2> DEFINE l == SubSeq(q, p + 1, Len(q))
             r == SubSeq(q, 1, p)
  <2> HIDE DEF l, r
  <2>1. /\ l \o r \in Seq(Envs)
        /\ Len(l \o r) = Len(l) + Len(r)
        /\ \A k \in 1 .. Len(l) + Len(r) :
             (l \o r)[k] = IF k <= Len(l) THEN l[k] ELSE r[k - Len(l)]
    BY <1>6, ConcatProperties DEF l, r
  <2>2. Len(l) = Len(q) - p /\ Len(r) = p /\ r[p] = e /\ Len(q) \in Nat
    <3>1. Len(q) \in Nat
      BY <1>2
    <3>2. QED
      BY <1>6, <3>1, Zenon DEF l, r
  <2>3. Len(l \o r) = Len(q) /\ (l \o r)[Len(q)] = e
    BY <1>4, <2>1, <2>2
  <2>4. Len(q) \in DOMAIN (l \o r)
    BY <1>4, <2>1, <2>2, <2>3
  <2>5. QED
    BY <1>5, <2>3, <2>4 DEF l, r
<1>8. ~Eligible(c, e)
  BY <1>2, <1>7 DEF NothingEligible
<1>9. QED
  BY <1>1, <1>8 DEF Eligible

LEMMA HaltControlInv ==
  ASSUME TypeOK, ControlInv, QueueInv, NEW c \in CPUs, SchedHalt(c)
  PROVE  ControlInv'
<1>1. /\ pc[c] = "pick" /\ curenv' = [curenv EXCEPT ![c] = None]
      /\ lock' = None /\ Goto(c, "hlt") /\ UNCHANGED envVars
      /\ curenv[c] # None => status[curenv[c]] = "NOT_RUNNABLE"
  BY HaltIsIdle DEF SchedHalt
<1> USE <1>1, NoneAssumption DEF ControlInv, TypeOK, Goto, InKernel, envVars
<1>2. \A d \in CPUs : d # c => pc[d] \notin InKernel
  BY DEF LockInv
<1>3. (LockInv /\ BootInv /\ ExclusiveExecution /\ WaitInv /\ FreeListInv)'
  <2>1. LockInv'
    BY <1>2 DEF LockInv
  <2>2. BootInv'
    BY DEF BootInv
  <2>3. ExclusiveExecution'
    BY DEF ExclusiveExecution
  <2>4. (WaitInv /\ FreeListInv)'
    BY DEF WaitInv, FreeListInv
  <2>5. QED
    BY <2>1, <2>2, <2>3, <2>4
<1>4. KernelInv'
  BY <1>2 DEF KernelInv
<1>5. \A d \in CPUs : curenv'[d] # None => status[curenv'[d]] \in {"RUNNING", "DYING"}
  BY <1>2 DEF RunningIsCurrent
<1>6. ASSUME NEW x \in Envs, status[x] \in {"RUNNING", "DYING"}
      PROVE  \E d \in CPUs : curenv'[d] = x
  <2>1. PICK d \in CPUs : curenv[d] = x
    BY <1>6 DEF RunningIsCurrent
  <2>2. d # c
    BY <1>6, <2>1
  <2>3. QED
    BY <2>1, <2>2
<1>7. QED
  BY <1>3, <1>4, <1>5, <1>6 DEF RunningIsCurrent

-----------------------------------------------------------------------------
(* The theorems *)

LEMMA InitCoreInv == Init => CoreInv
  BY InitTypeInv, InitControlInv, InitQueueInv DEF CoreInv

LEMMA NextQueueInv ==
  ASSUME LIBRARY, CoreInv, NEW c \in CPUs,
         MpMain(c) \/ TrapEnter(c) \/ Accounting(c) \/ Handler(c) \/ Yield(c)
  PROVE  QueueInv'
<1> TypeInv /\ TypeOK /\ ControlInv /\ QueueInv /\ QueueMembership /\ FreeListInv
  BY DEF CoreInv, TypeInv, ControlInv, QueueInv
<1>1. CASE \/ MpMain(c) \/ TrapEnter(c) \/ Accounting(c) \/ TimerInterrupt(c)
           \/ SysOther(c) \/ SysYield(c) \/ NoDowngrade(c) \/ NoBoost(c) \/ Boost(c)
           \/ BoostEnd(c) \/ Monitor(c) \/ SchedHalt(c)
  <2>1. UNCHANGED <<queues, queue_num, status>>
    BY <1>1
    DEF MpMain, TrapEnter, Accounting, StoreCount, StoreRemaining, StoreInQueue,
        TimerInterrupt, SysOther, SysYield, NoDowngrade, NoBoost, Boost, BoostEnd,
        Monitor, SchedHalt, queueVars, envVars
  <2>2. QED
    BY <2>1, QueuesStay
<1>2. CASE PageFault(c) \/ TrapReturn(c) \/ Pick(c)
  <2>1. UNCHANGED <<queues, queue_num>>
    BY <1>2 DEF PageFault, TrapReturn, Pick, queueVars
  <2>2. CASE UNCHANGED status
    BY <2>1, <2>2, QueuesStay
  <2>3. CASE \E e \in Envs, t \in Time : EnvRun(c, e, t) /\ status[e] # "FREE"
    <3>1. \A x \in Envs : status'[x] = "FREE" <=> status[x] = "FREE"
      BY <2>3 DEF EnvRun
    <3>2. QED
      BY <2>1, <3>1, QueuesStay
  <2>4. CASE PageFault(c)
    <3>1. curenv[c] \in Envs /\ status[curenv[c]] # "FREE"
      BY <2>4, AllOutside DEF PageFault, Traps, EnterKernel, TypeInv, ProgramInv, TypeOK
    <3>2. QED
      BY <2>4, <3>1, <2>3 DEF PageFault, TypeOK
  <2>5. CASE TrapReturn(c)
    <3>1. curenv[c] \in Envs
      BY <2>5 DEF TrapReturn, TypeInv, ProgramInv, TypeOK
    <3>2. QED
      BY <2>5, <3>1, <2>2, <2>3 DEF TrapReturn, TypeOK, envVars
  <2>6. CASE Pick(c)
    <3>1. PICK e \in Envs : Eligible(c, e) /\ EnvRun(c, e, MLFQ_BASE_TIMER)
      BY <2>6 DEF Pick, FirstEligible
    <3>2. MLFQ_BASE_TIMER \in Time
      BY TimersAssumption DEF Time
    <3>3. QED
      BY <3>1, <3>2, <2>3 DEF Eligible
  <2>7. QED
    BY <1>2, <2>4, <2>5, <2>6
<1>3. CASE Reap(c) \/ Exit(c)
  <2>1. curenv[c] \in Envs /\ status[curenv[c]] # "FREE"
    BY <1>3, AllOutside
    DEF Reap, Exit, Called, Traps, EnterKernel, TypeInv, ProgramInv, TypeOK
  <2>2. EnvFree(curenv[c])
    BY <1>3 DEF Reap, Exit, FreeSelf
  <2>3. QED
    BY <2>1, <2>2, EnvFreeKeeps DEF EnvFree, QueueInv, RoundRobinInv
<1>4. CASE SysExofork(c)
  BY <1>4, ExoforkKeeps
<1>5. CASE \E e \in Envs : SysEnvDestroy(c, e)
  <2>1. PICK e \in Envs : SysEnvDestroy(c, e)
    BY <1>5
  <2>2. status[e] # "FREE"
    BY <2>1 DEF SysEnvDestroy, Permitted
  <2>3. CASE status[e] = "RUNNING"
    BY <2>1, <2>3, QueuesStay DEF SysEnvDestroy, queueVars, TypeOK
  <2>4. CASE status[e] # "RUNNING"
    BY <2>1, <2>2, <2>4, EnvFreeKeeps DEF SysEnvDestroy, EnvFree, QueueInv, RoundRobinInv
  <2>5. QED
    BY <2>3, <2>4
<1>6. CASE \/ \E e \in Envs, s \in {"RUNNABLE", "NOT_RUNNABLE"} : SysEnvSetStatus(c, e, s)
           \/ \E e \in Envs : SysIpcTrySend(c, e)
           \/ \E valid \in BOOLEAN : SysIpcRecv(c, valid)
  <2>1. UNCHANGED <<queues, queue_num>>
    BY <1>6 DEF SysEnvSetStatus, SysIpcTrySend, SysIpcRecv, queueVars
  <2>2. ASSUME \E valid \in BOOLEAN : SysIpcRecv(c, valid)
        PROVE  status[curenv[c]] # "FREE"
    BY <2>2, CallerRuns DEF SysIpcRecv
  <2>3. \A x \in Envs : status'[x] = "FREE" <=> status[x] = "FREE"
    BY <1>6, <2>2 DEF SysEnvSetStatus, SysIpcTrySend, SysIpcRecv, Permitted, TypeOK
  <2>4. QED
    BY <2>1, <2>3, QueuesStay
<1>7. CASE \E e \in Envs, prio \in Queues : SysChangePrio(c, e, prio)
  <2>1. PICK e \in Envs, prio \in Queues : SysChangePrio(c, e, prio)
    BY <1>7
  <2>2. /\ MLFQ_SCHED /\ status[e] # "FREE" /\ ChangePriority(e, prio)
        /\ UNCHANGED status
    BY <2>1 DEF SysChangePrio, Permitted, envVars
  <2>3. QED
    BY <2>2, ChangePriorityKeeps DEF QueueInv, RoundRobinInv
<1>8. CASE Downgrade(c)
  <2> DEFINE e == curenv[c]
  <2>1. /\ MLFQ_SCHED /\ e \in Envs /\ queue_num[e] + 1 \in Queues
        /\ ChangePriority(e, queue_num[e] + 1) /\ UNCHANGED status /\ pc[c] \in InKernel
    BY <1>8, QueuesAssumption
    DEF Downgrade, ShouldDowngrade, TypeOK, Queues, envVars, InKernel
  <2>2. status[e] # "FREE"
    BY <2>1, NoneAssumption DEF ControlInv, KernelInv
  <2>3. QED
    BY <2>1, <2>2, ChangePriorityKeeps DEF QueueInv, RoundRobinInv
<1>9. CASE BoostMove(c)
  <2>1. PICK i \in Queues : queues[i] # <<>> /\ ChangePriority(Head(queues[i]), 0)
    BY <1>9 DEF BoostMove
  <2> DEFINE e == Head(queues[i])
  <2>2. e \in Envs /\ 0 \in Queues /\ UNCHANGED status
    BY <1>9, <2>1, QueuesAssumption DEF BoostMove, TypeOK, Queues, envVars
  <2>3. 1 \in DOMAIN queues[i] /\ queues[i][1] = e
    BY <2>1 DEF TypeOK
  <2>4. status[e] # "FREE"
    BY <2>2, <2>3, MembershipIsOnce DEF OnceMembership, Absent
  <2>5. QueueMembership'
    BY <2>1, <2>2, <2>4, ChangePriorityKeeps
  <2>6. queue_num' = [queue_num EXCEPT ![e] = 0]
    BY <2>1 DEF ChangePriority
  <2>7. RoundRobinInv'
    BY <2>6 DEF QueueInv, RoundRobinInv, TypeOK
  <2>8. QED
    BY <2>5, <2>7 DEF QueueInv
<1>10. QED
  BY <1>1, <1>2, <1>3, <1>4, <1>5, <1>6, <1>7, <1>8, <1>9 DEF Handler, Yield

LEMMA NextCoreInv == LIBRARY /\ CoreInv /\ [Next]_vars => CoreInv'
<1> SUFFICES ASSUME LIBRARY, CoreInv, [Next]_vars PROVE CoreInv'
  OBVIOUS
<1>1. TypeInv'
  BY NextTypeInv DEF CoreInv
<1>2. CASE UNCHANGED vars
  <2>1. ControlInv'
    BY <1>2 DEF CoreInv, ControlInv, LockInv, BootInv, RunningIsCurrent, ExclusiveExecution,
                KernelInv, WaitInv, FreeListInv, vars, cpuVars, envVars
  <2>2. QueueInv'
    BY <1>2, QueuesStay DEF CoreInv, vars, queueVars, envVars
  <2>3. QED
    BY <1>1, <2>1, <2>2 DEF CoreInv
<1>3. ASSUME NEW c \in CPUs,
             MpMain(c) \/ TrapEnter(c) \/ Accounting(c) \/ Handler(c) \/ Yield(c)
      PROVE  ControlInv' /\ QueueInv'
  <2>1. TypeInv /\ TypeOK /\ ControlInv /\ QueueInv
    BY DEF CoreInv, TypeInv
  <2>2. QueueInv'
    BY <1>3, NextQueueInv
  <2>3. ControlInv'
    BY <1>3, <2>1, QuietControlInv, CallControlInv, EndControlInv, ExoforkControlInv,
       RunControlInv, HaltControlInv DEF Handler, Yield
  <2>4. QED
    BY <2>2, <2>3
<1>4. QED
  BY <1>1, <1>2, <1>3 DEF Next, CoreInv

THEOREM CoreInvariant == LIBRARY => (Spec => []CoreInv)
<1> SUFFICES ASSUME LIBRARY PROVE Spec => []CoreInv
  OBVIOUS
<1>1. Init => CoreInv
  BY InitCoreInv
<1>2. CoreInv /\ [Next]_vars => CoreInv'
  BY NextCoreInv
<1>3. QED
  BY <1>1, <1>2, PTL DEF Spec

\* No environment is the current one of two CPUs: the big lock, the statuses that
\* env_run, env_destroy and the system calls keep, and the order in which fork()
\* and ipc_recv() use them, are enough for any number of CPUs.
THEOREM MlfqExclusiveExecution == LIBRARY => (Spec => []ExclusiveExecution)
<1> SUFFICES ASSUME LIBRARY PROVE Spec => []ExclusiveExecution
  OBVIOUS
<1>1. CoreInv => ExclusiveExecution
  BY DEF CoreInv, ControlInv
<1>2. QED
  BY <1>1, CoreInvariant, PTL

\* An environment is RUNNING or DYING exactly while a CPU executes it.
THEOREM MlfqRunningIsCurrent == LIBRARY => (Spec => []RunningIsCurrent)
<1> SUFFICES ASSUME LIBRARY PROVE Spec => []RunningIsCurrent
  OBVIOUS
<1>1. CoreInv => RunningIsCurrent
  BY DEF CoreInv, ControlInv
<1>2. QED
  BY <1>1, CoreInvariant, PTL

\* Whatever env_change_priority, boost, env_alloc, sys_exofork and env_free do to
\* the linked queues, a live environment is in the queue it says, once.
THEOREM MlfqQueueMembership == LIBRARY => (Spec => []QueueMembership)
<1> SUFFICES ASSUME LIBRARY PROVE Spec => []QueueMembership
  OBVIOUS
<1>1. CoreInv => QueueMembership
  BY DEF CoreInv, QueueInv
<1>2. QED
  BY <1>1, CoreInvariant, PTL

-----------------------------------------------------------------------------
(* The refinement mapping *)

LEMMA AbsStateOf ==
  ASSUME NEW e \in Envs
  PROVE  /\ status[e] = "FREE" => AbsState[e] = "free"
         /\ status[e] = "NOT_RUNNABLE" => AbsState[e] = "blocked"
         /\ status[e] = "RUNNABLE" => AbsState[e] = "ready"
         /\ status[e] = "RUNNING" => AbsState[e] = "running"
         /\ status[e] = "DYING" => AbsState[e] = "doomed"
  BY DEF AbsState, AbsStatus

LEMMA AbsStateOfNext ==
  ASSUME NEW e \in Envs
  PROVE  /\ status'[e] = "FREE" => AbsState'[e] = "free"
         /\ status'[e] = "NOT_RUNNABLE" => AbsState'[e] = "blocked"
         /\ status'[e] = "RUNNABLE" => AbsState'[e] = "ready"
         /\ status'[e] = "RUNNING" => AbsState'[e] = "running"
         /\ status'[e] = "DYING" => AbsState'[e] = "doomed"
  BY DEF AbsState, AbsStatus

\* One environment changes its status.
LEMMA AbsStateStep ==
  ASSUME TypeOK, NEW x \in Envs, status' = [status EXCEPT ![x] = status'[x]]
  PROVE  AbsState' = [AbsState EXCEPT ![x] = AbsState'[x]]
<1>1. \A y \in Envs : y # x => status'[y] = status[y]
  BY DEF TypeOK
<1>2. \A y \in Envs : y # x => AbsState'[y] = AbsState[y]
  BY <1>1 DEF AbsState
<1>3. AbsState = [y \in Envs |-> AbsState[y]] /\ AbsState' = [y \in Envs |-> AbsState'[y]]
  BY DEF AbsState
<1>4. QED
  BY <1>2, <1>3

\* Outside the kernel, every CPU executes its current environment.
LEMMA AbsRunningOutside ==
  ASSUME TypeOK, ControlInv, NEW d \in CPUs, pc[d] \notin InKernel
  PROVE  AbsRunning[d] = curenv[d]
  BY DEF AbsRunning, ControlInv, RunningIsCurrent

\* What does not concern what c executes leaves AbsRunning[c] alone.
LEMMA AbsRunningStays ==
  ASSUME NEW d \in CPUs, curenv'[d] = curenv[d],
         curenv[d] # None => status'[curenv[d]] = status[curenv[d]]
  PROVE  AbsRunning'[d] = AbsRunning[d]
  BY DEF AbsRunning

-----------------------------------------------------------------------------
(* The steps *)

LEMMA AbsQuiet ==
  ASSUME UNCHANGED <<status, curenv>>
  PROVE  UNCHANGED <<AbsState, AbsRunning>>
  BY DEF AbsState, AbsRunning

LEMMA AbsHalt ==
  ASSUME CoreInv, NEW c \in CPUs, SchedHalt(c)
  PROVE  UNCHANGED <<AbsState, AbsRunning>>
<1>1. /\ pc[c] = "pick" /\ NothingEligible(c) /\ UNCHANGED status
      /\ curenv' = [curenv EXCEPT ![c] = None]
  BY DEF SchedHalt, envVars
<1>2. curenv[c] # None => status[curenv[c]] = "NOT_RUNNABLE"
  BY <1>1, HaltIsIdle DEF CoreInv, TypeInv
<1>3. curenv \in [CPUs -> Envs \cup {None}]
  BY DEF CoreInv, TypeInv, TypeOK
<1>4. QED
  BY <1>1, <1>2, <1>3 DEF AbsState, AbsRunning

\* env_run of another environment is a dispatch.
LEMMA AbsDispatch ==
  ASSUME TypeOK, ControlInv, NEW c \in CPUs, NEW e \in Envs, NEW t, EnvRun(c, e, t),
         lock \in {c, None}, status[e] = "RUNNABLE",
         curenv[c] # None => status[curenv[c]] # "DYING"
  PROVE  Abstract!Dispatch(c, e)
<1> USE NoneAssumption DEF ControlInv, TypeOK
<1>1. /\ \A x \in Envs : status'[x] = IF x = e THEN "RUNNING"
                           ELSE IF x = curenv[c] /\ status[x] = "RUNNING" THEN "RUNNABLE"
                           ELSE status[x]
      /\ curenv' = [curenv EXCEPT ![c] = e]
  BY DEF EnvRun
<1>2. ASSUME NEW d \in CPUs, d # c
      PROVE  AbsRunning'[d] = AbsRunning[d]
  <2>1. pc[d] \notin InKernel
    BY <1>2 DEF LockInv
  <2>2. curenv[d] # None => curenv[d] # curenv[c] /\ curenv[d] # e /\ curenv[d] \in Envs
    <3>1. SUFFICES ASSUME curenv[d] # None
                   PROVE  curenv[d] # curenv[c] /\ curenv[d] # e /\ curenv[d] \in Envs
      OBVIOUS
    <3>2. curenv[d] \in Envs
      BY <3>1
    <3>3. status[curenv[d]] \in {"RUNNING", "DYING"}
      BY <2>1, <3>1, <3>2 DEF RunningIsCurrent
    <3>4. curenv[d] # curenv[c]
      BY <1>2, <3>1 DEF ExclusiveExecution
    <3>5. QED
      BY <3>2, <3>3, <3>4
  <2>3. curenv'[d] = curenv[d]
    BY <1>1, <1>2
  <2>4. curenv[d] # None => status'[curenv[d]] = status[curenv[d]]
    BY <1>1, <2>2
  <2>5. QED
    BY <2>3, <2>4, AbsRunningStays
<1>3. AbsRunning'[c] = e
  BY <1>1 DEF AbsRunning
<1>4. AbsRunning' = [AbsRunning EXCEPT ![c] = e]
  BY <1>2, <1>3 DEF AbsRunning
<1>5. AbsState[e] = "ready"
  BY AbsStateOf
<1>6. /\ AbsRunning[c] # None => AbsRunning[c] = curenv[c] /\ status[curenv[c]] = "RUNNING"
                                 /\ curenv[c] \in Envs
      /\ curenv[c] # None /\ status[curenv[c]] = "RUNNING" => AbsRunning[c] = curenv[c]
  BY DEF AbsRunning
<1>7. AbsRunning[c] # None => AbsState[AbsRunning[c]] = "running"
  BY <1>6, AbsStateOf
<1>8. ASSUME NEW x \in Envs
      PROVE  AbsState'[x] = IF x = e THEN "running"
                            ELSE IF x = AbsRunning[c] THEN "ready" ELSE AbsState[x]
  <2>1. CASE x = e
    <3>1. status'[x] = "RUNNING"
      BY <1>1, <2>1
    <3>2. AbsState'[x] = "running"
      BY <3>1, AbsStateOfNext
    <3>3. QED
      BY <2>1, <3>2
  <2>2. CASE x # e /\ x = curenv[c] /\ status[x] = "RUNNING"
    <3>1. status'[x] = "RUNNABLE" /\ x = AbsRunning[c]
      BY <1>1, <1>6, <2>2
    <3>2. AbsState'[x] = "ready"
      BY <3>1, AbsStateOfNext
    <3>3. QED
      BY <2>2, <3>1, <3>2
  <2>3. CASE x # e /\ ~(x = curenv[c] /\ status[x] = "RUNNING")
    <3>1. x # AbsRunning[c] /\ status'[x] = status[x]
      BY <1>1, <1>6, <2>3
    <3>2. AbsState'[x] = AbsState[x]
      BY <3>1 DEF AbsState
    <3>3. QED
      BY <2>3, <3>1, <3>2
  <2>4. QED
    BY <2>1, <2>2, <2>3
<1>9. AbsState' = [x \in Envs |-> IF x = e THEN "running"
                                  ELSE IF x = AbsRunning[c] THEN "ready" ELSE AbsState[x]]
  <2>1. AbsState' = [x \in Envs |-> AbsState'[x]]
    BY DEF AbsState
  <2>2. QED
    BY <1>8, <2>1
<1>10. QED
  BY <1>4, <1>5, <1>7, <1>9 DEF Abstract!Dispatch

LEMMA AbsRun ==
  ASSUME CoreInv, NEW c \in CPUs, PageFault(c) \/ TrapReturn(c) \/ Pick(c)
  PROVE  \/ UNCHANGED <<AbsState, AbsRunning>>
         \/ \E e \in Envs : Abstract!Dispatch(c, e)
<1> TypeInv /\ TypeOK /\ ControlInv
  BY DEF CoreInv, TypeInv
<1>1. CASE UNCHANGED <<status, curenv>>
  BY <1>1, AbsQuiet
<1>2. CASE \E e \in Envs : EnvRun(c, e, MLFQ_BASE_TIMER) /\ status[e] = "RUNNABLE" /\ Pick(c)
  <2>1. lock = c /\ (curenv[c] # None => status[curenv[c]] # "DYING")
    BY <1>2 DEF Pick, ControlInv, LockInv, KernelInv, InKernel
  <2>2. QED
    BY <1>2, <2>1, AbsDispatch
<1>3. ASSUME NEW t, EnvRun(c, curenv[c], t), status[curenv[c]] = "RUNNING", curenv[c] \in Envs
      PROVE  UNCHANGED <<status, curenv>>
  BY <1>3 DEF EnvRun, TypeOK
<1>4. CASE PageFault(c)
  <2>1. EnvRun(c, curenv[c], time_remaining[curenv[c]])
    BY <1>4 DEF PageFault
  <2>2. curenv[c] \in Envs /\ status[curenv[c]] = "RUNNING"
    BY <1>4, AllOutside DEF PageFault, Traps, EnterKernel, TypeInv, ProgramInv, TypeOK
  <2>3. QED
    BY <2>1, <2>2, <1>3, <1>1
<1>5. CASE TrapReturn(c)
  <2>1. curenv[c] \in Envs
    BY <1>5 DEF TrapReturn, TypeInv, ProgramInv, TypeOK
  <2>2. CASE status[curenv[c]] = "RUNNING" /\ OverThreshold(time_remaining[curenv[c]])
    <3>1. EnvRun(c, curenv[c], time_remaining[curenv[c]])
      BY <1>5, <2>2 DEF TrapReturn
    <3>2. QED
      BY <2>1, <2>2, <3>1, <1>3, <1>1
  <2>3. CASE ~(status[curenv[c]] = "RUNNING" /\ OverThreshold(time_remaining[curenv[c]]))
    BY <1>5, <2>3, <1>1 DEF TrapReturn, envVars
  <2>4. QED
    BY <2>2, <2>3
<1>6. CASE Pick(c)
  <2>1. PICK e \in Envs : Eligible(c, e) /\ EnvRun(c, e, MLFQ_BASE_TIMER)
    BY <1>6 DEF Pick, FirstEligible
  <2>2. CASE status[e] = "RUNNABLE"
    BY <1>6, <2>1, <2>2, <1>2
  <2>3. CASE status[e] = "RUNNING" /\ e = curenv[c]
    BY <2>1, <2>3, <1>3, <1>1
  <2>4. QED
    BY <2>1, <2>2, <2>3 DEF Eligible
<1>7. QED
  BY <1>4, <1>5, <1>6

\* A change of status of an environment that no CPU executes.
LEMMA AbsElsewhere ==
  ASSUME TypeOK, ControlInv, lock = None, UNCHANGED curenv,
         NEW x \in Envs, status' = [status EXCEPT ![x] = status'[x]],
         status[x] \notin {"RUNNING", "DYING"}
  PROVE  /\ AbsState' = [AbsState EXCEPT ![x] = AbsState'[x]]
         /\ UNCHANGED AbsRunning
<1>1. \A d \in CPUs : AbsRunning'[d] = AbsRunning[d]
  <2>1. ASSUME NEW d \in CPUs PROVE AbsRunning'[d] = AbsRunning[d]
    <3>1. curenv[d] # None => curenv[d] # x /\ curenv[d] \in Envs
      BY AllOutside DEF TypeOK
    <3>2. curenv[d] # None => status'[curenv[d]] = status[curenv[d]]
      BY <3>1 DEF TypeOK
    <3>3. QED
      BY <3>2, AbsRunningStays
  <2>2. QED
    BY <2>1
<1>2. UNCHANGED AbsRunning
  BY <1>1 DEF AbsRunning
<1>3. QED
  BY <1>2, AbsStateStep

\* What c executes stops.
LEMMA AbsLeave ==
  ASSUME TypeOK, ControlInv, lock = None, NEW c \in CPUs, curenv[c] # None,
         status' = [status EXCEPT ![curenv[c]] = status'[curenv[c]]],
         \/ status'[curenv[c]] = "NOT_RUNNABLE" /\ UNCHANGED curenv
         \/ curenv' = [curenv EXCEPT ![c] = None]
  PROVE  /\ AbsRunning[c] = curenv[c]
         /\ AbsState' = [AbsState EXCEPT ![curenv[c]] = AbsState'[curenv[c]]]
         /\ AbsRunning' = [AbsRunning EXCEPT ![c] = None]
<1> DEFINE x == curenv[c]
<1>1. x \in Envs /\ AbsRunning[c] = x
  BY AllOutside, AbsRunningOutside DEF TypeOK
<1>2. AbsRunning'[c] = None
  BY DEF AbsRunning, TypeOK
<1>3. ASSUME NEW d \in CPUs, d # c PROVE AbsRunning'[d] = AbsRunning[d]
  <2>1. curenv'[d] = curenv[d] /\ (curenv[d] # None => curenv[d] # x /\ curenv[d] \in Envs)
    BY <1>3 DEF TypeOK, ControlInv, ExclusiveExecution
  <2>2. curenv[d] # None => status'[curenv[d]] = status[curenv[d]]
    BY <2>1 DEF TypeOK
  <2>3. QED
    BY <2>1, <2>2, AbsRunningStays
<1>4. AbsRunning' = [AbsRunning EXCEPT ![c] = None]
  BY <1>2, <1>3 DEF AbsRunning
<1>5. QED
  BY <1>1, <1>4, AbsStateStep

LEMMA AbsEnd ==
  ASSUME CoreInv, NEW c \in CPUs, Reap(c) \/ Exit(c)
  PROVE  Abstract!End(c)
<1> DEFINE e == curenv[c]
<1>1. TypeInv /\ TypeOK /\ ControlInv
  BY DEF CoreInv, TypeInv
<1>2. lock = None /\ FreeSelf(c) /\ e # None
  BY <1>1, NoneAssumption DEF Reap, Exit, Called, Traps, EnterKernel, TypeInv, ProgramInv
<1>3. status' = [status EXCEPT ![e] = "FREE"] /\ curenv' = [curenv EXCEPT ![c] = None]
  BY <1>2 DEF FreeSelf, EnvFree
<1>4. e \in Envs
  BY <1>1, <1>2 DEF TypeOK
<1>5. status'[e] = "FREE" /\ AbsState'[e] = "free"
  BY <1>1, <1>3, <1>4, AbsStateOfNext DEF TypeOK
<1> HIDE DEF e
<1>6. /\ AbsRunning[c] = e
      /\ AbsState' = [AbsState EXCEPT ![e] = AbsState'[e]]
      /\ AbsRunning' = [AbsRunning EXCEPT ![c] = None]
  BY <1>1, <1>2, <1>3, <1>5, AbsLeave DEF e
<1>7. QED
  BY <1>2, <1>5, <1>6 DEF Abstract!End, Abstract!Set, Abstract!Idle

LEMMA AbsExofork ==
  ASSUME CoreInv, NEW c \in CPUs, SysExofork(c)
  PROVE  \E e \in Envs : Abstract!Spawn(e)
<1> DEFINE e == Head(env_free_list)
<1>1. TypeInv /\ TypeOK /\ ControlInv
  BY DEF CoreInv, TypeInv
<1>2. /\ lock = None /\ UNCHANGED curenv
      /\ status' = [status EXCEPT ![e] = "NOT_RUNNABLE"]
  BY DEF SysExofork, Called, Traps, EnterKernel
<1>3. e \in Envs /\ status[e] = "FREE"
  BY <1>1 DEF SysExofork, TypeOK, ControlInv, FreeListInv
<1> HIDE DEF e
<1>4. status'[e] = "NOT_RUNNABLE" /\ status' = [status EXCEPT ![e] = status'[e]]
  BY <1>1, <1>2, <1>3 DEF TypeOK
<1>5. /\ AbsState[e] = "free" /\ AbsState'[e] = "blocked"
  BY <1>3, <1>4, AbsStateOf, AbsStateOfNext
<1>6. /\ AbsState' = [AbsState EXCEPT ![e] = AbsState'[e]]
      /\ UNCHANGED AbsRunning
  BY <1>1, <1>2, <1>3, <1>4, AbsElsewhere
<1>7. QED
  BY <1>3, <1>5, <1>6 DEF Abstract!Spawn, Abstract!Set

\* sys_env_set_status and sys_ipc_try_send
LEMMA AbsWake ==
  ASSUME TypeOK, ControlInv, lock = None, NEW e \in Envs, status[e] = "NOT_RUNNABLE",
         status' = [status EXCEPT ![e] = "RUNNABLE"], UNCHANGED curenv
  PROVE  Abstract!Wake(e)
<1>1. status'[e] = "RUNNABLE" /\ status' = [status EXCEPT ![e] = status'[e]]
  BY DEF TypeOK
<1>2. AbsState[e] = "blocked" /\ AbsState'[e] = "ready"
  BY <1>1, AbsStateOf, AbsStateOfNext
<1>3. /\ AbsState' = [AbsState EXCEPT ![e] = AbsState'[e]]
      /\ UNCHANGED AbsRunning
  BY <1>1, AbsElsewhere
<1>4. QED
  BY <1>2, <1>3 DEF Abstract!Wake, Abstract!Set

LEMMA AbsDestroy ==
  ASSUME LIBRARY, CoreInv, NEW c \in CPUs, NEW e \in Envs, SysEnvDestroy(c, e)
  PROVE  Abstract!Doom(e) \/ Abstract!Remove(e)
<1>1. TypeOK /\ ControlInv
  BY DEF CoreInv, TypeInv
<1>2. /\ lock = None /\ UNCHANGED curenv /\ status[e] \notin {"FREE", "DYING"}
  BY DEF SysEnvDestroy, Permitted, Called, Traps, EnterKernel
<1>3. CASE status[e] = "RUNNING"
  <2>1. status' = [status EXCEPT ![e] = "DYING"]
    BY <1>3 DEF SysEnvDestroy
  <2>2. status'[e] = "DYING" /\ status' = [status EXCEPT ![e] = status'[e]]
    BY <1>1, <2>1 DEF TypeOK
  <2>3. AbsState[e] = "running" /\ AbsState'[e] = "doomed"
    BY <1>3, <2>2, AbsStateOf, AbsStateOfNext
  <2>4. AbsState' = [AbsState EXCEPT ![e] = AbsState'[e]]
    BY <1>1, <2>2, AbsStateStep
  <2>5. ASSUME NEW d \in CPUs PROVE AbsRunning'[d] = AbsRunning[d]
    <3>1. curenv[d] # None => status[curenv[d]] \in {"RUNNING", "DYING"} /\ curenv[d] \in Envs
      BY <1>1, <1>2, AllOutside DEF TypeOK
    <3>2. curenv[d] # None => status'[curenv[d]] \in {"RUNNING", "DYING"}
      BY <1>1, <2>1, <3>1 DEF TypeOK
    <3>3. QED
      BY <1>2, <3>1, <3>2 DEF AbsRunning
  <2>6. UNCHANGED AbsRunning
    BY <2>5 DEF AbsRunning
  <2>7. QED
    BY <2>3, <2>4, <2>6 DEF Abstract!Doom, Abstract!Set
<1>4. CASE status[e] # "RUNNING"
  <2>1. status' = [status EXCEPT ![e] = "FREE"]
    BY <1>4 DEF SysEnvDestroy, EnvFree
  <2>2. status'[e] = "FREE" /\ status' = [status EXCEPT ![e] = status'[e]]
    BY <1>1, <2>1 DEF TypeOK
  <2>3. status[e] \in {"RUNNABLE", "NOT_RUNNABLE"}
    BY <1>1, <1>2, <1>4 DEF TypeOK, Statuses
  <2>4. AbsState[e] \in {"ready", "blocked"} /\ AbsState'[e] = "free"
    BY <2>2, <2>3, AbsStateOf, AbsStateOfNext
  <2>5. AbsState' = [AbsState EXCEPT ![e] = AbsState'[e]] /\ UNCHANGED AbsRunning
    BY <1>1, <1>2, <2>2, <2>3, AbsElsewhere
  <2>6. QED
    BY <2>4, <2>5 DEF Abstract!Remove, Abstract!Set
<1>5. QED
  BY <1>3, <1>4

LEMMA AbsRecv ==
  ASSUME CoreInv, NEW c \in CPUs, SysIpcRecv(c, TRUE)
  PROVE  Abstract!Block(c)
<1> DEFINE e == curenv[c]
<1>1. TypeInv /\ TypeOK /\ ControlInv
  BY DEF CoreInv, TypeInv
<1>2. lock = None /\ e # None /\ e \in Envs /\ status[e] = "RUNNING"
  BY <1>1, CallerRuns DEF SysIpcRecv
<1>3. status' = [status EXCEPT ![e] = "NOT_RUNNABLE"] /\ UNCHANGED curenv
  BY DEF SysIpcRecv
<1>4. status'[e] = "NOT_RUNNABLE"
  BY <1>1, <1>2, <1>3 DEF TypeOK
<1> HIDE DEF e
<1>5. AbsState[e] = "running" /\ AbsState'[e] = "blocked"
  BY <1>2, <1>4, AbsStateOf, AbsStateOfNext
<1>6. /\ AbsRunning[c] = e
      /\ AbsState' = [AbsState EXCEPT ![e] = AbsState'[e]]
      /\ AbsRunning' = [AbsRunning EXCEPT ![c] = None]
  BY <1>1, <1>2, <1>3, <1>4, AbsLeave DEF e
<1>7. QED
  BY <1>2, <1>5, <1>6 DEF Abstract!Block, Abstract!Set, Abstract!Idle

-----------------------------------------------------------------------------
(* The theorem *)

LEMMA AbsInit == Init => Abstract!Init
<1> SUFFICES ASSUME Init PROVE Abstract!Init
  OBVIOUS
<1>1. curenv = [c \in CPUs |-> None]
      /\ \A e \in Envs : status[e] \in {"FREE", "RUNNABLE"}
  BY DEF Init
<1>2. \A e \in Envs : AbsState[e] \in {"free", "ready"}
  BY <1>1, AbsStateOf
<1>3. AbsRunning = [c \in CPUs |-> None]
  BY <1>1 DEF AbsRunning
<1>4. AbsState \in [Envs -> {"free", "ready"}]
  <2>1. AbsState = [e \in Envs |-> AbsState[e]]
    BY DEF AbsState
  <2>2. QED
    BY <1>2, <2>1
<1>5. QED
  BY <1>3, <1>4 DEF Abstract!Init

LEMMA AbsNext ==
  LIBRARY /\ CoreInv /\ [Next]_vars => [Abstract!Next]_<<AbsState, AbsRunning>>
<1> SUFFICES ASSUME LIBRARY, CoreInv, [Next]_vars
             PROVE  Abstract!Next \/ UNCHANGED <<AbsState, AbsRunning>>
  OBVIOUS
<1> TypeInv /\ TypeOK /\ ControlInv
  BY DEF CoreInv, TypeInv
<1>1. CASE UNCHANGED vars
  BY <1>1, AbsQuiet DEF vars, cpuVars, envVars
<1>2. ASSUME NEW c \in CPUs,
             MpMain(c) \/ TrapEnter(c) \/ Accounting(c) \/ Handler(c) \/ Yield(c)
      PROVE  Abstract!Next \/ UNCHANGED <<AbsState, AbsRunning>>
  <2> USE DEF Abstract!Next
  <2>1. CASE \/ MpMain(c) \/ TrapEnter(c) \/ Accounting(c) \/ TimerInterrupt(c)
             \/ SysOther(c) \/ SysYield(c) \/ NoDowngrade(c) \/ NoBoost(c) \/ Boost(c)
             \/ BoostMove(c) \/ BoostEnd(c) \/ Monitor(c) \/ Downgrade(c)
             \/ \E e \in Envs, prio \in Queues : SysChangePrio(c, e, prio)
    <3>1. UNCHANGED <<status, curenv>>
      BY <2>1
      DEF MpMain, TrapEnter, Accounting, StoreCount, StoreRemaining, StoreInQueue,
          TimerInterrupt, SysOther, SysYield, NoDowngrade, NoBoost, Boost, BoostMove,
          BoostEnd, Monitor, Downgrade, SysChangePrio, cpuVars, envVars
    <3>2. QED
      BY <3>1, AbsQuiet
  <2>2. CASE SchedHalt(c)
    BY <2>2, AbsHalt
  <2>3. CASE PageFault(c) \/ TrapReturn(c) \/ Pick(c)
    BY <2>3, AbsRun
  <2>4. CASE Reap(c) \/ Exit(c)
    BY <2>4, AbsEnd
  <2>5. CASE SysExofork(c)
    BY <2>5, AbsExofork
  <2>6. CASE \E e \in Envs, s \in {"RUNNABLE", "NOT_RUNNABLE"} : SysEnvSetStatus(c, e, s)
    <3>1. PICK e \in Envs : SysEnvSetStatus(c, e, "RUNNABLE") /\ e \in fresh
      BY <2>6 DEF SysEnvSetStatus
    <3>2. lock = None /\ status' = [status EXCEPT ![e] = "RUNNABLE"] /\ UNCHANGED curenv
      BY <3>1 DEF SysEnvSetStatus, Called, Traps, EnterKernel
    <3>3. status[e] = "NOT_RUNNABLE"
      BY <3>1 DEF ControlInv, WaitInv
    <3>4. QED
      BY <3>1, <3>2, <3>3, AbsWake
  <2>7. CASE \E e \in Envs : SysEnvDestroy(c, e)
    BY <2>7, AbsDestroy
  <2>8. CASE \E e \in Envs : SysIpcTrySend(c, e)
    <3>1. PICK e \in Envs : SysIpcTrySend(c, e)
      BY <2>8
    <3>2. lock = None /\ status' = [status EXCEPT ![e] = "RUNNABLE"] /\ UNCHANGED curenv
      BY <3>1 DEF SysIpcTrySend, Called, Traps, EnterKernel
    <3>3. status[e] = "NOT_RUNNABLE"
      BY <3>1 DEF SysIpcTrySend, ControlInv, WaitInv
    <3>4. QED
      BY <3>1, <3>2, <3>3, AbsWake
  <2>9. CASE \E valid \in BOOLEAN : SysIpcRecv(c, valid)
    <3>1. SysIpcRecv(c, TRUE)
      BY <2>9 DEF SysIpcRecv
    <3>2. QED
      BY <3>1, AbsRecv
  <2>10. QED
    BY <1>2, <2>1, <2>2, <2>3, <2>4, <2>5, <2>6, <2>7, <2>8, <2>9 DEF Handler, Yield
<1>3. QED
  BY <1>1, <1>2 DEF Next

\* The kernel's scheduler, with its traps, races and system calls, does to the
\* environments only what the abstract scheduler may do, on any number of CPUs.
THEOREM MlfqImplementsAbsScheduler == LIBRARY => (Spec => ImplementsAbsScheduler)
<1> SUFFICES ASSUME LIBRARY PROVE Spec => ImplementsAbsScheduler
  OBVIOUS
<1>1. Init => Abstract!Init
  BY AbsInit
<1>2. CoreInv /\ [Next]_vars => [Abstract!Next]_<<AbsState, AbsRunning>>
  BY AbsNext
<1>3. QED
  BY <1>1, <1>2, CoreInvariant, PTL DEF Spec, ImplementsAbsScheduler, Abstract!Spec

-----------------------------------------------------------------------------
(* The scan *)

\* What sched_round_robin sees of queue q, curenv being its member p.
Rotated(q, p) == SubSeq(q, p + 1, Len(q)) \o SubSeq(q, 1, p)

\* The queue from the successor of its member p round to p.
LEMMA RotationAt ==
  ASSUME NEW q \in Seq(Envs), NEW p \in 1 .. Len(q)
  PROVE  /\ DOMAIN Rotated(q, p) = 1 .. Len(q)
         /\ \A m \in 1 .. Len(q) :
              Rotated(q, p)[m] = IF m <= Len(q) - p THEN q[p + m] ELSE q[m - (Len(q) - p)]
<1> DEFINE n == Len(q)
           rot == Rotated(q, p)
           l == SubSeq(q, p + 1, n)
           r == SubSeq(q, 1, p)
<1>1. n \in Nat
  OBVIOUS
<1>2. l \in Seq(Envs) /\ Len(l) = n - p /\ \A i \in 1 .. n - p : l[i] = q[p + i]
  BY <1>1, SubSeqProperties
<1>3. r \in Seq(Envs) /\ Len(r) = p /\ \A i \in 1 .. p : r[i] = q[i]
  BY <1>1, SubSeqProperties
<1>4. rot = l \o r
  BY DEF Rotated
<1> HIDE DEF l, r, rot
<1>5. /\ rot \in Seq(Envs) /\ Len(rot) = Len(l) + Len(r)
      /\ \A i \in 1 .. Len(l) + Len(r) :
           rot[i] = IF i <= Len(l) THEN l[i] ELSE r[i - Len(l)]
  BY <1>2, <1>3, <1>4, ConcatProperties
<1>6. Len(l) + Len(r) = n /\ DOMAIN rot = 1 .. n
  BY <1>1, <1>2, <1>3, <1>5
<1>7. ASSUME NEW m \in 1 .. n
      PROVE  rot[m] = IF m <= n - p THEN q[p + m] ELSE q[m - (n - p)]
  <2>1. rot[m] = IF m <= n - p THEN l[m] ELSE r[m - (n - p)]
    BY <1>2, <1>5, <1>6
  <2>2. CASE m <= n - p
    BY <1>1, <1>2, <2>1, <2>2
  <2>3. CASE ~(m <= n - p)
    BY <1>1, <1>3, <2>1, <2>3
  <2>4. QED
    BY <2>2, <2>3
<1>8. QED
  BY <1>6, <1>7 DEF rot

\* Walking it misses nobody and meets nobody else.
LEMMA RotationCovers ==
  ASSUME NEW q \in Seq(Envs), NEW p \in 1 .. Len(q)
  PROVE  /\ \A k \in DOMAIN q : \E m \in DOMAIN Rotated(q, p) : Rotated(q, p)[m] = q[k]
         /\ \A m \in DOMAIN Rotated(q, p) : \E k \in DOMAIN q : q[k] = Rotated(q, p)[m]
<1> DEFINE n == Len(q)
           rot == Rotated(q, p)
<1>1. /\ DOMAIN rot = 1 .. n
      /\ \A m \in 1 .. n : rot[m] = IF m <= n - p THEN q[p + m] ELSE q[m - (n - p)]
  BY RotationAt
<1>2. n \in Nat /\ DOMAIN q = 1 .. n
  OBVIOUS
<1> HIDE DEF rot
<1>3. ASSUME NEW k \in 1 .. n
      PROVE  \E m \in 1 .. n : rot[m] = q[k]
  <2>1. CASE k <= p
    <3>1. \E m \in 1 .. n : ~(m <= n - p) /\ m - (n - p) = k
      <4>1. n - p + k \in 1 .. n /\ ~(n - p + k <= n - p) /\ n - p + k - (n - p) = k
        BY <1>2, <2>1
      <4>2. QED
        BY <4>1
    <3>2. PICK m \in 1 .. n : ~(m <= n - p) /\ m - (n - p) = k
      BY <3>1
    <3>3. rot[m] = q[k]
      BY <1>1, <3>2
    <3>4. QED
      BY <3>3
  <2>2. CASE ~(k <= p)
    <3>1. k - p \in 1 .. n /\ k - p <= n - p /\ p + (k - p) = k
      BY <1>2, <2>2
    <3>2. QED
      BY <1>1, <3>1
  <2>3. QED
    BY <2>1, <2>2
<1>4. ASSUME NEW m \in 1 .. n
      PROVE  \E k \in 1 .. n : q[k] = rot[m]
  <2>1. CASE m <= n - p
    <3>1. p + m \in 1 .. n
      BY <1>2, <2>1
    <3>2. QED
      BY <1>1, <2>1, <3>1
  <2>2. CASE ~(m <= n - p)
    <3>1. m - (n - p) \in 1 .. n
      BY <1>2, <2>2
    <3>2. QED
      BY <1>1, <2>2, <3>1
  <2>3. QED
    BY <2>1, <2>2
<1>5. QED
  BY <1>1, <1>2, <1>3, <1>4 DEF rot

\* sched_round_robin looks at everybody in the queue, and at nobody else.
LEMMA ScanCovers ==
  ASSUME TypeOK, NEW c \in CPUs, NEW i \in Queues
  PROVE  /\ \A k \in DOMAIN queues[i] :
              \E m \in DOMAIN Scan(c, i) : Scan(c, i)[m] = queues[i][k]
         /\ \A m \in DOMAIN Scan(c, i) :
              \E k \in DOMAIN queues[i] : queues[i][k] = Scan(c, i)[m]
<1> DEFINE q == queues[i]
           p == CHOOSE p \in DOMAIN q : q[p] = curenv[c]
<1>1. q \in Seq(Envs)
  BY DEF TypeOK
<1>2. CASE curenv[c] # None /\ Contains(q, curenv[c])
  <2>1. p \in 1 .. Len(q)
    BY <1>1, <1>2 DEF Contains
  <2>2. Scan(c, i) = Rotated(q, p)
    BY <1>2 DEF Scan, Rotated
  <2> HIDE DEF p
  <2>3. QED
    BY <1>1, <2>1, <2>2, RotationCovers
<1>3. CASE ~(curenv[c] # None /\ Contains(q, curenv[c]))
  BY <1>3 DEF Scan
<1>4. QED
  BY <1>2, <1>3

\* A live environment is looked at in its queue, which is one of those scanned.
LEMMA ScannedOnce ==
  ASSUME TypeOK, QueueInv, NEW c \in CPUs, NEW e \in Envs, status[e] # "FREE"
  PROVE  /\ queue_num[e] \in Scanned
         /\ \E m \in DOMAIN Scan(c, queue_num[e]) : Scan(c, queue_num[e])[m] = e
<1>1. queue_num[e] \in Queues /\ queue_num[e] \in Scanned
  BY DEF TypeOK, QueueInv, RoundRobinInv, Scanned
<1>2. Once(queues[queue_num[e]], e)
  BY <1>1, MembershipIsOnce DEF QueueInv, OnceMembership
<1>3. QED
  BY <1>1, <1>2, ScanCovers DEF Once

-----------------------------------------------------------------------------
(* Whom the scheduler chooses *)

LEMMA HaltStep ==
  ASSUME CoreInv, NEW c \in CPUs, SchedHalt(c), NEW e \in Envs
  PROVE  status[e] # "RUNNABLE"
<1>1. TypeOK /\ QueueInv /\ NothingEligible(c)
  BY DEF CoreInv, TypeInv, SchedHalt
<1>2. SUFFICES ASSUME status[e] = "RUNNABLE" PROVE FALSE
  OBVIOUS
<1>3. Eligible(c, e)
  BY <1>2 DEF Eligible
<1>4. QED
  BY <1>1, <1>2, <1>3, ScannedOnce DEF NothingEligible

LEMMA PickStep ==
  ASSUME CoreInv, NEW c \in CPUs, Pick(c), NEW e \in Envs, status[e] = "RUNNABLE"
  PROVE  queue_num[curenv'[c]] <= queue_num[e]
<1>1. TypeOK /\ QueueInv
  BY DEF CoreInv, TypeInv
<1>2. PICK x \in Envs, i \in Scanned : \E k \in DOMAIN Scan(c, i) :
        /\ x = Scan(c, i)[k]
        /\ FirstEligible(c, i, k)
        /\ EnvRun(c, x, MLFQ_BASE_TIMER)
  BY DEF Pick
<1>3. PICK k \in DOMAIN Scan(c, i) :
        x = Scan(c, i)[k] /\ FirstEligible(c, i, k) /\ EnvRun(c, x, MLFQ_BASE_TIMER)
  BY <1>2
<1>4. i \in Queues /\ Queues \subseteq Nat
  BY QueuesAssumption DEF Scanned, Queues
<1>5. curenv'[c] = x
  BY <1>1, <1>3 DEF EnvRun, TypeOK
<1>6. queue_num[x] = i
  <2>1. PICK n \in DOMAIN queues[i] : queues[i][n] = x
    BY <1>1, <1>3, <1>4, ScanCovers
  <2>2. ~Absent(queues[i], x)
    BY <2>1 DEF Absent
  <2>3. QED
    BY <1>1, <1>4, <2>2, MembershipIsOnce DEF QueueInv, OnceMembership
<1> queue_num[e] \in Nat /\ i \in Nat
  BY <1>1, <1>4 DEF TypeOK
<1>7. SUFFICES ASSUME queue_num[e] < i PROVE FALSE
  BY <1>5, <1>6
<1>8. PICK m \in DOMAIN Scan(c, queue_num[e]) : Scan(c, queue_num[e])[m] = e
  BY <1>1, ScannedOnce
<1>9. queue_num[e] \in Scanned
  BY <1>1, ScannedOnce
<1>10. ~Eligible(c, e)
  BY <1>3, <1>7, <1>8, <1>9 DEF FirstEligible
<1>11. QED
  BY <1>10 DEF Eligible

-----------------------------------------------------------------------------
(* One step of one CPU *)

Step(c) == MpMain(c) \/ TrapEnter(c) \/ Accounting(c) \/ Handler(c) \/ Yield(c)

\* A CPU moves nobody's program counter but its own.
LEMMA MovesAlone ==
  ASSUME TypeOK, NEW c \in CPUs, NEW d \in CPUs, Step(d), pc'[c] # pc[c]
  PROVE  c = d
<1> USE DEF Goto, TypeOK
<1>1. CASE MpMain(d) \/ TrapEnter(d) \/ Accounting(d)
  BY <1>1 DEF MpMain, TrapEnter, Accounting, StoreCount, StoreRemaining, StoreInQueue
<1>2. CASE Handler(d)
  BY <1>2 DEF Handler, Reap, TimerInterrupt, PageFault, Exit, FreeSelf, EnvRun, SysOther,
              SysYield, SysExofork, SysEnvSetStatus, SysEnvDestroy, SysIpcRecv,
              SysIpcTrySend, SysChangePrio
<1>3. CASE Yield(d)
  BY <1>3 DEF Yield, TrapReturn, EnvRun, Downgrade, NoDowngrade, NoBoost, Boost,
              BoostMove, BoostEnd, Pick, SchedHalt, Monitor, cpuVars
<1>4. QED
  BY <1>1, <1>2, <1>3 DEF Step

LEMMA FromPick ==
  ASSUME TypeOK, NEW c \in CPUs, NEW d \in CPUs, Step(d), pc[c] = "pick", pc'[c] # "pick"
  PROVE  c = d /\ (Pick(c) \/ SchedHalt(c) \/ Monitor(c))
<1>1. c = d
  BY MovesAlone
<1>2. ~(MpMain(c) \/ TrapEnter(c) \/ Accounting(c) \/ Handler(c))
  BY DEF MpMain, TrapEnter, Accounting, StoreCount, StoreRemaining, StoreInQueue,
         Handler, Reap, TimerInterrupt, PageFault, Exit, SysOther, SysYield, SysExofork,
         SysEnvSetStatus, SysEnvDestroy, SysIpcRecv, SysIpcTrySend, SysChangePrio,
         Called, Traps, EnterKernel
<1>3. ~(TrapReturn(c) \/ Downgrade(c) \/ NoDowngrade(c) \/ NoBoost(c) \/ Boost(c)
          \/ BoostMove(c) \/ BoostEnd(c))
  BY DEF TrapReturn, Downgrade, NoDowngrade, NoBoost, Boost, BoostMove, BoostEnd
<1>4. QED
  BY <1>1, <1>2, <1>3 DEF Step, Yield

\* A CPU that waits halts only when there is nobody it could have run.
THEOREM MlfqHaltsOnlyWhenIdle == LIBRARY => (Spec => HaltsOnlyWhenIdle)
<1> SUFFICES ASSUME LIBRARY PROVE Spec => HaltsOnlyWhenIdle
  OBVIOUS
<1> DEFINE A == \A c \in CPUs : pc[c] = "pick" /\ pc'[c] = "hlt" =>
                  \A e \in Envs : status[e] # "RUNNABLE"
<1>1. CoreInv /\ [Next]_vars => [A]_vars
  <2>1. SUFFICES ASSUME CoreInv, Next, NEW c \in CPUs, pc[c] = "pick", pc'[c] = "hlt"
                 PROVE  \A e \in Envs : status[e] # "RUNNABLE"
    OBVIOUS
  <2>2. PICK d \in CPUs : Step(d)
    BY <2>1 DEF Next, Step
  <2>3. Pick(c) \/ SchedHalt(c) \/ Monitor(c)
    BY <2>1, <2>2, FromPick DEF CoreInv, TypeInv
  <2>4. SchedHalt(c)
    BY <2>1, <2>3 DEF Pick, Monitor, EnvRun, Goto, CoreInv, TypeInv, TypeOK
  <2>5. QED
    BY <2>1, <2>4, HaltStep
<1>2. QED
  BY <1>1, CoreInvariant, PTL DEF Spec, HaltsOnlyWhenIdle

\* Whoever the scheduler dispatches, no runnable environment has a better priority.
THEOREM MlfqBestPriorityRuns == LIBRARY => (Spec => BestPriorityRuns)
<1> SUFFICES ASSUME LIBRARY PROVE Spec => BestPriorityRuns
  OBVIOUS
<1> DEFINE A == \A c \in CPUs : pc[c] = "pick" /\ pc'[c] = "user" =>
                  \A e \in Envs :
                    status[e] = "RUNNABLE" => queue_num[curenv'[c]] <= queue_num[e]
<1>1. CoreInv /\ [Next]_vars => [A]_vars
  <2>1. SUFFICES ASSUME CoreInv, Next, NEW c \in CPUs, pc[c] = "pick", pc'[c] = "user",
                        NEW e \in Envs, status[e] = "RUNNABLE"
                 PROVE  queue_num[curenv'[c]] <= queue_num[e]
    OBVIOUS
  <2>2. PICK d \in CPUs : Step(d)
    BY <2>1 DEF Next, Step
  <2>3. Pick(c) \/ SchedHalt(c) \/ Monitor(c)
    BY <2>1, <2>2, FromPick DEF CoreInv, TypeInv
  <2>4. Pick(c)
    BY <2>1, <2>3 DEF SchedHalt, Monitor, Goto, CoreInv, TypeInv, TypeOK
  <2>5. QED
    BY <2>1, <2>4, PickStep
<1>2. QED
  BY <1>1, CoreInvariant, PTL DEF Spec, BestPriorityRuns

-----------------------------------------------------------------------------
(* What raises a priority *)

LEMMA RaiseStep ==
  ASSUME CoreInv, NEW c \in CPUs, Step(c), NEW e \in Envs, status[e] # "FREE",
         queue_num'[e] < queue_num[e]
  PROVE  pc[c] = "boosting"
<1> TypeOK /\ FreeListInv
  BY DEF CoreInv, TypeInv, ControlInv
<1>1. CASE MpMain(c) \/ TrapEnter(c) \/ Accounting(c)
  BY <1>1 DEF MpMain, TrapEnter, Accounting, StoreCount, StoreRemaining, StoreInQueue,
              queueVars, TypeOK, Queues
<1>2. CASE Handler(c)
  <2>1. CASE SysExofork(c)
    <3>1. e # Head(env_free_list)
      BY <2>1 DEF SysExofork, FreeListInv, TypeOK
    <3>2. QED
      BY <2>1, <3>1 DEF SysExofork, TypeOK, Queues
  <2>2. CASE \E x \in Envs, prio \in Queues : SysChangePrio(c, x, prio)
    BY <2>2 DEF SysChangePrio, ChangePriority, TypeOK, Queues
  <2>3. CASE ~SysExofork(c) /\ ~(\E x \in Envs, prio \in Queues : SysChangePrio(c, x, prio))
    <3>1. UNCHANGED queue_num
      BY <1>2, <2>3
      DEF Handler, Reap, TimerInterrupt, PageFault, Exit, FreeSelf, EnvFree, SysOther,
          SysYield, SysEnvSetStatus, SysEnvDestroy, SysIpcRecv, SysIpcTrySend, queueVars
    <3>2. QED
      BY <3>1 DEF TypeOK, Queues
  <2>4. QED
    BY <2>1, <2>2, <2>3
<1>3. CASE Yield(c)
  <2>1. CASE Downgrade(c)
    BY <2>1 DEF Downgrade, ChangePriority, TypeOK, Queues
  <2>2. CASE BoostMove(c)
    BY <2>2 DEF BoostMove
  <2>3. CASE ~Downgrade(c) /\ ~BoostMove(c)
    <3>1. UNCHANGED queue_num
      BY <1>3, <2>3 DEF Yield, TrapReturn, NoDowngrade, NoBoost, Boost, BoostEnd, Pick,
                        SchedHalt, Monitor, queueVars
    <3>2. QED
      BY <3>1 DEF TypeOK, Queues
  <2>4. QED
    BY <2>1, <2>2, <2>3
<1>4. QED
  BY <1>1, <1>2, <1>3 DEF Step

LEMMA FromBoosting ==
  ASSUME TypeOK, NEW c \in CPUs, NEW d \in CPUs, Step(d),
         pc[c] = "boosting", pc'[c] # "boosting"
  PROVE  BoostEnd(c)
<1>1. c = d
  BY MovesAlone
<1>2. ~(MpMain(c) \/ TrapEnter(c) \/ Accounting(c) \/ Handler(c))
  BY DEF MpMain, TrapEnter, Accounting, StoreCount, StoreRemaining, StoreInQueue,
         Handler, Reap, TimerInterrupt, PageFault, Exit, SysOther, SysYield, SysExofork,
         SysEnvSetStatus, SysEnvDestroy, SysIpcRecv, SysIpcTrySend, SysChangePrio,
         Called, Traps, EnterKernel
<1>3. ~(TrapReturn(c) \/ Downgrade(c) \/ NoDowngrade(c) \/ NoBoost(c) \/ Boost(c)
          \/ Pick(c) \/ SchedHalt(c) \/ Monitor(c))
  BY DEF TrapReturn, Downgrade, NoDowngrade, NoBoost, Boost, Pick, SchedHalt, Monitor
<1>4. ~BoostMove(c)
  BY DEF BoostMove, cpuVars
<1>5. QED
  BY <1>1, <1>2, <1>3, <1>4 DEF Step, Yield

\* After a boost everybody is in queue 0, for everybody is in a queue.
LEMMA BoostIsTotal ==
  ASSUME CoreInv, NEW c \in CPUs, BoostEnd(c), NEW e \in Envs, status[e] # "FREE"
  PROVE  queue_num[e] = 0
<1>1. queue_num[e] \in Queues
  BY DEF CoreInv, TypeInv, TypeOK
<1>2. Once(queues[queue_num[e]], e)
  BY <1>1, MembershipIsOnce DEF CoreInv, QueueInv, OnceMembership
<1>3. queues[queue_num[e]] # <<>>
  BY <1>2 DEF Once
<1>4. QED
  BY <1>1, <1>3 DEF BoostEnd

\* Nothing but a boost raises a priority, and a boost leaves nobody out.
THEOREM MlfqOnlyBoostRaises == LIBRARY => (Spec => OnlyBoostRaises)
<1> SUFFICES ASSUME LIBRARY PROVE Spec => OnlyBoostRaises
  OBVIOUS
<1> DEFINE A == /\ \A e \in Envs : status[e] # "FREE" /\ queue_num'[e] < queue_num[e] =>
                      \E c \in CPUs : pc[c] = "boosting"
                /\ \A c \in CPUs : pc[c] = "boosting" /\ pc'[c] # "boosting" =>
                      \A e \in Envs : status[e] # "FREE" => queue_num[e] = 0
<1>1. CoreInv /\ [Next]_vars => [A]_vars
  <2>1. SUFFICES ASSUME CoreInv, Next PROVE A
    OBVIOUS
  <2>2. PICK d \in CPUs : Step(d)
    BY <2>1 DEF Next, Step
  <2>3. ASSUME NEW e \in Envs, status[e] # "FREE", queue_num'[e] < queue_num[e]
        PROVE  \E c \in CPUs : pc[c] = "boosting"
    BY <2>1, <2>2, <2>3, RaiseStep
  <2>4. ASSUME NEW c \in CPUs, pc[c] = "boosting", pc'[c] # "boosting",
               NEW e \in Envs, status[e] # "FREE"
        PROVE  queue_num[e] = 0
    <3>1. BoostEnd(c)
      BY <2>1, <2>2, <2>4, FromBoosting DEF CoreInv, TypeInv
    <3>2. QED
      BY <2>1, <2>4, <3>1, BoostIsTotal
  <2>5. QED
    BY <2>3, <2>4
<1>2. QED
  BY <1>1, CoreInvariant, PTL DEF Spec, OnlyBoostRaises

-----------------------------------------------------------------------------
(* Zombies *)

\* env_run, which may displace an environment, leaves a zombie elsewhere alone.
LEMMA RunSparesZombies ==
  ASSUME TypeOK, NEW c \in CPUs, NEW x \in Envs, NEW t, EnvRun(c, x, t),
         status[x] # "DYING", NEW e \in Envs, status[e] = "DYING"
  PROVE  status'[e] = "DYING"
  BY DEF EnvRun, TypeOK

LEMMA ZombieStep ==
  ASSUME LIBRARY, CoreInv, NEW c \in CPUs, Step(c), NEW e \in Envs,
         status[e] = "DYING", status'[e] # "DYING"
  PROVE  curenv[c] = e /\ pc[c] = "lock" /\ curenv'[c] = None
<1> TypeInv /\ TypeOK /\ ControlInv /\ WaitInv /\ FreeListInv
  BY DEF CoreInv, TypeInv, ControlInv
<1>1. CASE Reap(c) \/ Exit(c)
  BY <1>1 DEF Reap, Exit, Called, Traps, EnterKernel, FreeSelf, EnvFree, TypeOK
<1>2. CASE \/ MpMain(c) \/ TrapEnter(c) \/ Accounting(c) \/ TimerInterrupt(c)
           \/ SysOther(c) \/ SysYield(c) \/ Downgrade(c) \/ NoDowngrade(c) \/ NoBoost(c)
           \/ Boost(c) \/ BoostMove(c) \/ BoostEnd(c) \/ SchedHalt(c) \/ Monitor(c)
           \/ \E x \in Envs, prio \in Queues : SysChangePrio(c, x, prio)
  BY <1>2 DEF MpMain, TrapEnter, Accounting, StoreCount, StoreRemaining, StoreInQueue,
              TimerInterrupt, SysOther, SysYield, SysChangePrio, Downgrade, NoDowngrade,
              NoBoost, Boost, BoostMove, BoostEnd, SchedHalt, Monitor, envVars
<1>3. CASE SysExofork(c)
  <2>1. status[Head(env_free_list)] = "FREE"
    BY <1>3 DEF SysExofork, FreeListInv, TypeOK
  <2>2. QED
    BY <1>3, <2>1 DEF SysExofork, TypeOK
<1>4. CASE \/ \E x \in Envs, s \in {"RUNNABLE", "NOT_RUNNABLE"} : SysEnvSetStatus(c, x, s)
           \/ \E x \in Envs : SysIpcTrySend(c, x)
  BY <1>4 DEF SysEnvSetStatus, SysIpcTrySend, WaitInv, TypeOK
<1>5. CASE \E x \in Envs : SysEnvDestroy(c, x)
  BY <1>5 DEF SysEnvDestroy, EnvFree, TypeOK
<1>6. CASE \E valid \in BOOLEAN : SysIpcRecv(c, valid)
  BY <1>6, CallerRuns DEF SysIpcRecv, TypeOK
<1>7. CASE PageFault(c)
  <2>1. curenv[c] \in Envs /\ status[curenv[c]] # "DYING"
    BY <1>7 DEF PageFault, Traps, EnterKernel, TypeInv, ProgramInv, TypeOK
  <2>2. QED
    BY <1>7, <2>1, RunSparesZombies DEF PageFault
<1>8. CASE TrapReturn(c)
  <2>1. curenv[c] \in Envs
    BY <1>8 DEF TrapReturn, TypeInv, ProgramInv, TypeOK
  <2>2. QED
    BY <1>8, <2>1, RunSparesZombies DEF TrapReturn, envVars
<1>9. CASE Pick(c)
  <2>1. PICK x \in Envs : Eligible(c, x) /\ EnvRun(c, x, MLFQ_BASE_TIMER)
    BY <1>9 DEF Pick, FirstEligible
  <2>2. QED
    BY <2>1, RunSparesZombies DEF Eligible
<1>10. QED
  BY <1>1, <1>2, <1>3, <1>4, <1>5, <1>6, <1>7, <1>8, <1>9 DEF Step, Handler, Yield

\* A zombie is freed by the CPU that executed it, when that CPU traps.
THEOREM MlfqZombieFreedByItsTrap == LIBRARY => (Spec => ZombieFreedByItsTrap)
<1> SUFFICES ASSUME LIBRARY PROVE Spec => ZombieFreedByItsTrap
  OBVIOUS
<1> DEFINE A == \A e \in Envs : status[e] = "DYING" /\ status'[e] # "DYING" =>
                  \E c \in CPUs : curenv[c] = e /\ pc[c] = "lock" /\ curenv'[c] = None
<1>1. CoreInv /\ [Next]_vars => [A]_vars
  <2>1. SUFFICES ASSUME CoreInv, Next PROVE A
    OBVIOUS
  <2>2. PICK d \in CPUs : Step(d)
    BY <2>1 DEF Next, Step
  <2>3. QED
    BY <2>1, <2>2, ZombieStep
<1>2. QED
  BY <1>1, CoreInvariant, PTL DEF Spec, ZombieFreedByItsTrap

-----------------------------------------------------------------------------
(* The free list *)

\* The half of FreeListExact that FreeListInv does not say: no slot is leaked.
ListedInv ==
  \A e \in Envs : status[e] = "FREE" => \E k \in DOMAIN env_free_list : env_free_list[k] = e

LEMMA ListStays ==
  ASSUME ListedInv, UNCHANGED env_free_list,
         \A x \in Envs : status'[x] = "FREE" => status[x] = "FREE"
  PROVE  ListedInv'
  BY DEF ListedInv

\* env_run frees nobody.
LEMMA RunFreesNobody ==
  ASSUME TypeOK, NEW c \in CPUs, NEW x \in Envs, NEW t, EnvRun(c, x, t),
         NEW e \in Envs, status'[e] = "FREE"
  PROVE  status[e] = "FREE"
  BY DEF EnvRun, TypeOK

LEMMA EnvFreeLists ==
  ASSUME TypeOK, ListedInv, NEW e \in Envs, EnvFree(e)
  PROVE  ListedInv'
<1>1. /\ env_free_list' = <<e>> \o env_free_list
      /\ \A x \in Envs : status'[x] = IF x = e THEN "FREE" ELSE status[x]
  BY DEF EnvFree, TypeOK
<1>2. /\ DOMAIN env_free_list' = 1 .. Len(env_free_list) + 1
      /\ env_free_list'[1] = e
      /\ \A k \in 1 .. Len(env_free_list) : env_free_list'[k + 1] = env_free_list[k]
  BY <1>1 DEF TypeOK
<1>3. Len(env_free_list) \in Nat /\ DOMAIN env_free_list = 1 .. Len(env_free_list)
  BY DEF TypeOK
<1>4. ASSUME NEW x \in Envs, status'[x] = "FREE"
      PROVE  \E k \in DOMAIN env_free_list' : env_free_list'[k] = x
  <2>1. CASE x = e
    BY <1>2, <1>3, <2>1
  <2>2. CASE x # e
    <3>1. PICK k \in 1 .. Len(env_free_list) : env_free_list[k] = x
      BY <1>1, <1>3, <1>4, <2>2 DEF ListedInv
    <3>2. k + 1 \in DOMAIN env_free_list' /\ env_free_list'[k + 1] = x
      BY <1>2, <1>3, <3>1
    <3>3. QED
      BY <3>2
  <2>3. QED
    BY <2>1, <2>2
<1>5. QED
  BY <1>4 DEF ListedInv

LEMMA ExoforkLists ==
  ASSUME TypeOK, ListedInv, NEW c \in CPUs, SysExofork(c)
  PROVE  ListedInv'
<1> DEFINE e == Head(env_free_list)
<1>1. /\ env_free_list # <<>> /\ env_free_list' = Tail(env_free_list)
      /\ status' = [status EXCEPT ![e] = "NOT_RUNNABLE"]
  BY DEF SysExofork
<1>2. /\ Len(env_free_list) \in Nat \ {0}
      /\ DOMAIN env_free_list = 1 .. Len(env_free_list)
      /\ e = env_free_list[1] /\ e \in Envs
      /\ DOMAIN env_free_list' = 1 .. Len(env_free_list) - 1
      /\ \A k \in 1 .. Len(env_free_list) - 1 : env_free_list'[k] = env_free_list[k + 1]
  BY <1>1 DEF TypeOK
<1>3. ASSUME NEW x \in Envs, status'[x] = "FREE"
      PROVE  \E k \in DOMAIN env_free_list' : env_free_list'[k] = x
  <2>1. x # e /\ status[x] = "FREE"
    BY <1>1, <1>2, <1>3 DEF TypeOK
  <2>2. PICK k \in 1 .. Len(env_free_list) : env_free_list[k] = x
    BY <1>2, <2>1 DEF ListedInv
  <2>3. k - 1 \in 1 .. Len(env_free_list) - 1 /\ (k - 1) + 1 = k
    BY <1>2, <2>1, <2>2
  <2>4. env_free_list'[k - 1] = x
    BY <1>2, <2>2, <2>3
  <2>5. QED
    BY <1>2, <2>3, <2>4
<1>4. QED
  BY <1>3 DEF ListedInv

LEMMA NextListedInv ==
  ASSUME CoreInv, ListedInv, NEW c \in CPUs, Step(c)
  PROVE  ListedInv'
<1> TypeInv /\ TypeOK /\ ControlInv
  BY DEF CoreInv, TypeInv
<1>1. CASE Reap(c) \/ Exit(c)
  <2>1. curenv[c] \in Envs /\ EnvFree(curenv[c])
    BY <1>1 DEF Reap, Exit, Called, Traps, EnterKernel, FreeSelf, TypeInv, ProgramInv, TypeOK
  <2>2. QED
    BY <2>1, EnvFreeLists
<1>2. CASE \/ MpMain(c) \/ TrapEnter(c) \/ Accounting(c) \/ TimerInterrupt(c)
           \/ SysOther(c) \/ SysYield(c) \/ Downgrade(c) \/ NoDowngrade(c) \/ NoBoost(c)
           \/ Boost(c) \/ BoostMove(c) \/ BoostEnd(c) \/ SchedHalt(c) \/ Monitor(c)
           \/ \E x \in Envs, prio \in Queues : SysChangePrio(c, x, prio)
  <2>1. UNCHANGED <<status, env_free_list>>
    BY <1>2 DEF MpMain, TrapEnter, Accounting, StoreCount, StoreRemaining, StoreInQueue,
                TimerInterrupt, SysOther, SysYield, SysChangePrio, Downgrade, NoDowngrade,
                NoBoost, Boost, BoostMove, BoostEnd, SchedHalt, Monitor, envVars
  <2>2. QED
    BY <2>1, ListStays
<1>3. CASE SysExofork(c)
  BY <1>3, ExoforkLists
<1>4. CASE \/ \E x \in Envs, s \in {"RUNNABLE", "NOT_RUNNABLE"} : SysEnvSetStatus(c, x, s)
           \/ \E x \in Envs : SysIpcTrySend(c, x)
           \/ \E valid \in BOOLEAN : SysIpcRecv(c, valid)
  <2>1. UNCHANGED env_free_list /\ \A x \in Envs : status'[x] = "FREE" => status[x] = "FREE"
    BY <1>4 DEF SysEnvSetStatus, SysIpcTrySend, SysIpcRecv, TypeOK
  <2>2. QED
    BY <2>1, ListStays
<1>5. CASE \E x \in Envs : SysEnvDestroy(c, x)
  <2>1. PICK x \in Envs : SysEnvDestroy(c, x)
    BY <1>5
  <2>2. CASE status[x] = "RUNNING"
    BY <2>1, <2>2, ListStays DEF SysEnvDestroy, TypeOK
  <2>3. CASE status[x] # "RUNNING"
    BY <2>1, <2>3, EnvFreeLists DEF SysEnvDestroy
  <2>4. QED
    BY <2>2, <2>3
<1>6. CASE PageFault(c)
  <2>1. curenv[c] \in Envs /\ UNCHANGED env_free_list
    BY <1>6 DEF PageFault, Traps, EnterKernel, TypeInv, ProgramInv, TypeOK
  <2>2. QED
    BY <1>6, <2>1, RunFreesNobody, ListStays DEF PageFault
<1>7. CASE TrapReturn(c)
  <2>1. curenv[c] \in Envs /\ UNCHANGED env_free_list
    BY <1>7 DEF TrapReturn, TypeInv, ProgramInv, TypeOK, envVars
  <2>2. QED
    BY <1>7, <2>1, RunFreesNobody, ListStays DEF TrapReturn, envVars
<1>8. CASE Pick(c)
  <2>1. PICK x \in Envs : EnvRun(c, x, MLFQ_BASE_TIMER)
    BY <1>8 DEF Pick
  <2>2. UNCHANGED env_free_list
    BY <1>8 DEF Pick
  <2>3. QED
    BY <2>1, <2>2, RunFreesNobody, ListStays
<1>9. QED
  BY <1>1, <1>2, <1>3, <1>4, <1>5, <1>6, <1>7, <1>8 DEF Step, Handler, Yield

\* As many slots as environments, none twice: none is missing.
LEMMA MachineCovers ==
  ASSUME NEW machine \in Machines, NEW e \in Envs
  PROVE  \E k \in 1 .. Len(machine[2]) : machine[2][k] = e
<1> DEFINE s == machine[2]
           n == Cardinality(Envs)
<1>1. s \in SetToSeqs(Envs)
  BY MachinesAssumption
<1>2. n \in Nat /\ IsFiniteSet(Envs)
  BY EnvsAssumption, FS_CardinalityType
<1>3. s \in [1 .. n -> Envs] /\ \A k, m \in 1 .. n : k # m => s[k] # s[m]
  BY <1>1 DEF SetToSeqs
<1>4. Len(s) = n
  <2> HIDE DEF n
  <2>1. QED
    BY <1>2, <1>3
<1> HIDE DEF n, s
<1>5. SUFFICES ASSUME \A k \in 1 .. n : s[k] # e PROVE FALSE
  BY <1>4 DEF s
<1>6. IsFiniteSet(Envs \ {e}) /\ Cardinality(Envs \ {e}) = n - 1
  BY <1>2, FS_RemoveElement DEF n
<1>7. IsFiniteSet(1 .. n) /\ Cardinality(1 .. n) = n
  <2>1. IsFiniteSet(1 .. n) /\ Cardinality(1 .. n) = IF 1 > n THEN 0 ELSE n - 1 + 1
    BY <1>2, FS_Interval
  <2>2. QED
    BY <1>2, <2>1
<1>8. s \in [1 .. n -> Envs \ {e}]
  BY <1>3, <1>5
<1>9. Cardinality(Envs \ {e}) < Cardinality(1 .. n)
  BY <1>2, <1>6, <1>7
<1>10. \E k, m \in 1 .. n : k # m /\ s[k] = s[m]
  BY <1>6, <1>7, <1>8, <1>9, FS_PigeonHole
<1>11. QED
  BY <1>3, <1>10

LEMMA InitListedInv == Init => ListedInv
<1> SUFFICES ASSUME Init PROVE ListedInv
  OBVIOUS
<1>1. PICK machine \in Machines :
        /\ env_free_list = SubSeq(machine[2], NBOOT + 1, Len(machine[2]))
        /\ status = [e \in Envs |-> IF Contains(SubSeq(machine[2], 1, NBOOT), e)
                                     THEN "RUNNABLE" ELSE "FREE"]
  BY DEF Init
<1> DEFINE s == machine[2]
<1>2. /\ s \in Seq(Envs) /\ NBOOT \in 1 .. Len(s)
      /\ \A e \in Envs : \E k \in 1 .. Len(s) : s[k] = e
  BY MachineType, MachineCovers
<1>3. DOMAIN SubSeq(s, 1, NBOOT) = 1 .. NBOOT
      /\ \A k \in 1 .. NBOOT : SubSeq(s, 1, NBOOT)[k] = s[k]
  BY <1>2, SubSeqProperties
<1>4. DOMAIN env_free_list = 1 .. Len(s) - NBOOT
      /\ \A k \in 1 .. Len(s) - NBOOT : env_free_list[k] = s[NBOOT + k]
  BY <1>1, <1>2, SubSeqProperties
<1>5. ASSUME NEW e \in Envs, status[e] = "FREE"
      PROVE  \E k \in DOMAIN env_free_list : env_free_list[k] = e
  <2>1. PICK k \in 1 .. Len(s) : s[k] = e
    BY <1>2
  <2>2. ~(k <= NBOOT)
    BY <1>1, <1>2, <1>3, <1>5, <2>1 DEF Contains
  <2>3. k - NBOOT \in 1 .. Len(s) - NBOOT /\ NBOOT + (k - NBOOT) = k
    BY <1>2, <2>2
  <2>4. QED
    BY <1>4, <2>1, <2>3
<1>6. QED
  BY <1>5 DEF ListedInv

\* env_alloc and env_free hand every free slot out once and lose none.
THEOREM MlfqFreeListExact == LIBRARY => (Spec => []FreeListExact)
<1> SUFFICES ASSUME LIBRARY PROVE Spec => []FreeListExact
  OBVIOUS
<1>1. CoreInv /\ ListedInv /\ [Next]_vars => ListedInv'
  <2>1. SUFFICES ASSUME CoreInv, ListedInv, [Next]_vars PROVE ListedInv'
    OBVIOUS
  <2>2. CASE UNCHANGED vars
    BY <2>1, <2>2, ListStays DEF vars, envVars
  <2>3. CASE Next
    BY <2>1, <2>3, NextListedInv DEF Next, Step
  <2>4. QED
    BY <2>1, <2>2, <2>3
<1>2. CoreInv /\ ListedInv => FreeListExact
  BY DEF CoreInv, ControlInv, FreeListInv, ListedInv, FreeListExact, Contains, IsInjective,
         TypeInv, TypeOK
<1>3. QED
  BY <1>1, <1>2, InitListedInv, CoreInvariant, PTL DEF Spec

-----------------------------------------------------------------------------
(* The monitor *)

LEMMA MonitorStep ==
  ASSUME CoreInv, MonitorMeansIdle, NEW d \in CPUs, Step(d)
  PROVE  MonitorMeansIdle'
<1> TypeOK /\ ControlInv /\ LockInv
  BY DEF CoreInv, TypeInv, ControlInv
<1>1. SUFFICES ASSUME NEW c \in CPUs, pc'[c] = "monitor", NEW x \in CPUs, x # c
               PROVE  curenv'[x] = None
  BY DEF MonitorMeansIdle
<1>2. CASE pc[c] = "monitor"
  <2>1. lock = c /\ lock # None
    BY <1>2, NoneAssumption DEF LockInv, InKernel
  <2>2. ~MpMain(d) /\ ~Handler(d)
    BY <2>1 DEF MpMain, Handler, Reap, TimerInterrupt, PageFault, Exit, SysOther, SysYield,
                SysExofork, SysEnvSetStatus, SysEnvDestroy, SysIpcRecv, SysIpcTrySend,
                SysChangePrio, Called, Traps, EnterKernel
  <2>3. ~Yield(d)
    <3>1. d = c => pc[d] = "monitor"
      BY <1>2
    <3>2. d # c => pc[d] \notin InKernel
      BY <2>1 DEF LockInv
    <3>3. QED
      BY <3>1, <3>2 DEF Yield, TrapReturn, Downgrade, NoDowngrade, NoBoost, Boost, BoostMove,
                        BoostEnd, Pick, SchedHalt, Monitor, InKernel
  <2>4. UNCHANGED curenv
    BY <2>2, <2>3 DEF Step, TrapEnter, Accounting, StoreCount, StoreRemaining, StoreInQueue
  <2>5. QED
    BY <1>1, <1>2, <2>4 DEF MonitorMeansIdle
<1>3. CASE pc[c] # "monitor"
  <2>1. c = d
    BY <1>1, <1>3, MovesAlone
  <2>2. Monitor(c)
    BY <1>1, <1>3, <2>1
    DEF Step, MpMain, TrapEnter, Accounting, StoreCount, StoreRemaining, StoreInQueue,
        Handler, Reap, TimerInterrupt, PageFault, Exit, FreeSelf, EnvRun, SysOther,
        SysYield, SysExofork, SysEnvSetStatus, SysEnvDestroy, SysIpcRecv, SysIpcTrySend,
        SysChangePrio, Yield, TrapReturn, Downgrade, NoDowngrade, NoBoost, Boost,
        BoostMove, BoostEnd, Pick, SchedHalt, cpuVars, Goto, TypeOK
  <2>3. lock = c /\ pc[x] \notin InKernel /\ UNCHANGED curenv
    BY <1>1, <2>2 DEF Monitor, LockInv, InKernel
  <2>4. curenv[x] # None => status[curenv[x]] \in {"RUNNING", "DYING"} /\ curenv[x] \in Envs
    BY <2>3 DEF ControlInv, RunningIsCurrent, TypeOK
  <2>5. QED
    BY <2>2, <2>3, <2>4 DEF Monitor, SomebodyLives
<1>4. QED
  BY <1>2, <1>3

\* A CPU that stays in the monitor with the lock keeps no program from trapping.
THEOREM MlfqMonitorMeansIdle == LIBRARY => (Spec => []MonitorMeansIdle)
<1> SUFFICES ASSUME LIBRARY PROVE Spec => []MonitorMeansIdle
  OBVIOUS
<1>1. Init => MonitorMeansIdle
  BY DEF Init, MonitorMeansIdle
<1>2. CoreInv /\ MonitorMeansIdle /\ [Next]_vars => MonitorMeansIdle'
  <2>1. SUFFICES ASSUME CoreInv, MonitorMeansIdle, [Next]_vars PROVE MonitorMeansIdle'
    OBVIOUS
  <2>2. CASE UNCHANGED vars
    BY <2>1, <2>2 DEF vars, cpuVars, MonitorMeansIdle
  <2>3. CASE Next
    BY <2>1, <2>3, MonitorStep DEF Next, Step
  <2>4. QED
    BY <2>1, <2>2, <2>3
<1>3. QED
  BY <1>1, <1>2, CoreInvariant, PTL DEF Spec

-----------------------------------------------------------------------------
\* Nobody executes in two places, and status, cpu_env and the monitor agree on who does.
THEOREM MlfqWhoRuns == LIBRARY => (Spec => []WhoRuns)
<1>1. RunningIsCurrent /\ ExclusiveExecution /\ MonitorMeansIdle => WhoRuns
  BY DEF WhoRuns
<1>2. QED
  BY <1>1, MlfqRunningIsCurrent, MlfqExclusiveExecution, MlfqMonitorMeansIdle, PTL

\* The queues and the free list agree with the table of environments.
THEOREM MlfqBookkeeping == LIBRARY => (Spec => []Bookkeeping)
<1>1. TypeOK /\ QueueMembership /\ FreeListExact => Bookkeeping
  BY DEF Bookkeeping
<1>2. QED
  BY <1>1, MlfqTypeOK, MlfqQueueMembership, MlfqFreeListExact, PTL

\* A CPU takes the best environment there is, and halts only when there is none.
THEOREM MlfqRightChoice == LIBRARY => (Spec => RightChoice)
  BY MlfqHaltsOnlyWhenIdle, MlfqBestPriorityRuns DEF RightChoice

-----------------------------------------------------------------------------
(* Timers: the steps that neither set one nor dispatch anybody *)

Staying(c) ==
  \/ MpMain(c) \/ TrapEnter(c) \/ Accounting(c)
  \/ Handler(c) /\ ~PageFault(c)
  \/ Downgrade(c) \/ NoDowngrade(c) \/ NoBoost(c) \/ Boost(c) \/ BoostMove(c)
  \/ BoostEnd(c) \/ Monitor(c)

LEMMA StayingStays ==
  ASSUME TypeOK, NEW c \in CPUs, Staying(c)
  PROVE  /\ UNCHANGED <<ticr, irq>>
         /\ \A d \in CPUs : curenv'[d] # None => curenv'[d] = curenv[d]
         /\ \A d \in CPUs : pc'[d] = "user" => pc[d] = "user"
<1> USE DEF Goto, TypeOK
<1>1. CASE MpMain(c) \/ TrapEnter(c) \/ Accounting(c)
  BY <1>1 DEF MpMain, TrapEnter, Accounting, StoreCount, StoreRemaining, StoreInQueue
<1>2. CASE Handler(c) /\ ~PageFault(c)
  <2>1. CASE Reap(c) \/ Exit(c)
    BY <2>1 DEF Reap, Exit, FreeSelf
  <2>2. CASE ~Reap(c) /\ ~Exit(c)
    BY <1>2, <2>2 DEF Handler, TimerInterrupt, SysOther, SysYield, SysExofork,
                      SysEnvSetStatus, SysEnvDestroy, SysIpcRecv, SysIpcTrySend,
                      SysChangePrio
  <2>3. QED
    BY <2>1, <2>2
<1>3. CASE \/ Downgrade(c) \/ NoDowngrade(c) \/ NoBoost(c) \/ Boost(c) \/ BoostMove(c)
           \/ BoostEnd(c) \/ Monitor(c)
  BY <1>3 DEF Downgrade, NoDowngrade, NoBoost, Boost, BoostMove, BoostEnd, Monitor, cpuVars
<1>4. QED
  BY <1>1, <1>2, <1>3 DEF Staying

-----------------------------------------------------------------------------
(* The timer is set whenever user mode is entered *)

\* Whoever is on the way into the kernel was interrupted by the timer, or trapped
\* while the timer was counting.
TickInv ==
  \A c \in CPUs :
    /\ pc[c] = "user" => Ticks(c)
    /\ pc[c] \in {"count", "times", "remaining", "in_queue", "lock"} /\ trapno[c] = "program" =>
         ticr[c] > 0

\* Where MLFQ_TIME_COUNT has stored it, time_remaining is what the timer showed.
RemainsInv ==
  \A c \in CPUs :
    pc[c] = "in_queue" \/ (pc[c] = "lock" /\ curenv[c] # None) =>
      time_remaining[curenv[c]] = tccr[c]

\* Setting the timer to more than zero.
LEMMA EnvRunTicks ==
  ASSUME TypeOK, NEW c \in CPUs, NEW e, NEW t \in Time, t > 0, EnvRun(c, e, t)
  PROVE  /\ pc'[c] = "user" /\ ticr'[c] > 0
         /\ \A d \in CPUs : d # c => UNCHANGED <<pc[d], ticr[d], irq[d], trapno[d]>>
  BY DEF EnvRun, TimerSet, Goto, TypeOK

\* What the scheduler gives is more than zero.
LEMMA DispatchTicks ==
  ASSUME TypeInv, NEW c \in CPUs, Pick(c) \/ TrapReturn(c)
  PROVE  /\ pc'[c] # "user" \/ ticr'[c] > 0
         /\ pc'[c] \in {"user", "sched"}
         /\ \A d \in CPUs : d # c => UNCHANGED <<pc[d], ticr[d], irq[d], trapno[d]>>
<1> TypeOK
  BY DEF TypeInv
<1>1. CASE Pick(c)
  <2>1. PICK e \in Envs : EnvRun(c, e, MLFQ_BASE_TIMER)
    BY <1>1 DEF Pick
  <2>2. MLFQ_BASE_TIMER \in Time /\ MLFQ_BASE_TIMER > 0
    BY TimersAssumption DEF Time
  <2>3. QED
    BY <2>1, <2>2, EnvRunTicks
<1>2. CASE TrapReturn(c)
  <2>1. CASE Goto(c, "sched") /\ UNCHANGED <<ticr, irq, trapno>>
    BY <2>1 DEF Goto, TypeOK
  <2>2. CASE ~(Goto(c, "sched") /\ UNCHANGED <<ticr, irq, trapno>>)
    <3> DEFINE t == time_remaining[curenv[c]]
    <3>1. EnvRun(c, curenv[c], t) /\ OverThreshold(t) /\ curenv[c] \in Envs
      BY <1>2, <2>2 DEF TrapReturn, TypeInv, ProgramInv, TypeOK
    <3>2. t \in Time
      BY <3>1 DEF TypeOK
    <3> HIDE DEF t
    <3>3. t > 0
      BY <3>1, <3>2, TimersAssumption DEF OverThreshold, Time
    <3>4. QED
      BY <3>1, <3>2, <3>3, EnvRunTicks
  <2>3. QED
    BY <2>1, <2>2
<1>3. QED
  BY <1>1, <1>2

\* On one CPU, nobody else touches time_remaining between accounting and handling.
LEMMA TickStep ==
  ASSUME \A c, d \in CPUs : c = d, TypeInv, TickInv, RemainsInv, Next
  PROVE  TickInv' /\ RemainsInv'
<1>1. PICK c \in CPUs : Step(c)
  BY DEF Next, Step
<1> TypeOK
  BY DEF TypeInv
<1>2. SUFFICES /\ pc'[c] = "user" => Ticks(c)'
               /\ /\ pc'[c] \in {"count", "times", "remaining", "in_queue", "lock"}
                  /\ trapno'[c] = "program"
                  => ticr'[c] > 0
               /\ pc'[c] = "in_queue" \/ (pc'[c] = "lock" /\ curenv'[c] # None) =>
                    time_remaining'[curenv'[c]] = tccr'[c]
  BY DEF TickInv, RemainsInv, Ticks
<1> USE DEF Goto
<1>3. CASE MpMain(c) \/ BoostMove(c)
  BY <1>3 DEF MpMain, BoostMove, TypeOK, cpuVars
<1>4. CASE TrapEnter(c)
  BY <1>4 DEF TrapEnter, TypeOK, TickInv, Ticks, Time
<1>5. CASE StoreCount(c)
  BY <1>5 DEF StoreCount, TypeOK, TickInv
<1>6. CASE StoreRemaining(c)
  <2>1. curenv[c] \in Envs /\ time_remaining'[curenv[c]] = tccr[c]
    BY <1>6 DEF StoreRemaining, TypeInv, ProgramInv, TypeOK
  <2>2. QED
    BY <1>6, <2>1 DEF StoreRemaining, TypeOK, TickInv
<1>7. CASE StoreInQueue(c)
  BY <1>7 DEF StoreInQueue, TypeOK, TickInv, RemainsInv
<1>8. CASE PageFault(c)
  <2> DEFINE t == time_remaining[curenv[c]]
  <2>1. t = tccr[c] /\ trapno[c] = "program" /\ ticr[c] > 0
    BY <1>8 DEF PageFault, Traps, EnterKernel, TickInv, RemainsInv, TypeInv, ProgramInv
  <2>2. EnvRun(c, curenv[c], t)
    BY <1>8 DEF PageFault
  <2> HIDE DEF t
  <2>3. pc'[c] = "user"
    BY <2>2 DEF EnvRun, TypeOK
  <2>4. CASE t = 0
    BY <2>1, <2>2, <2>3, <2>4 DEF EnvRun, TimerSet, TypeOK, Ticks
  <2>5. CASE t # 0
    <3>1. t \in Time /\ t > 0
      BY <2>1, <2>5 DEF TypeOK, Time
    <3>2. QED
      BY <2>2, <2>3, <3>1, EnvRunTicks DEF Ticks
  <2>6. QED
    BY <2>4, <2>5
<1>9. CASE Handler(c) /\ ~PageFault(c)
  <2>1. pc'[c] \in {"ret", "sched"}
    BY <1>9 DEF Handler, Reap, Exit, FreeSelf, TimerInterrupt, SysOther, SysYield, SysExofork,
                SysEnvSetStatus, SysEnvDestroy, SysIpcRecv, SysIpcTrySend, SysChangePrio,
                TypeOK
  <2>2. QED
    BY <2>1
<1>10. CASE Pick(c) \/ TrapReturn(c)
  BY <1>10, DispatchTicks DEF Ticks
<1>11. CASE \/ Downgrade(c) \/ NoDowngrade(c) \/ NoBoost(c) \/ Boost(c) \/ BoostEnd(c)
            \/ SchedHalt(c) \/ Monitor(c)
  BY <1>11 DEF Downgrade, NoDowngrade, NoBoost, Boost, BoostEnd, SchedHalt, Monitor, TypeOK
<1>12. QED
  BY <1>1, <1>3, <1>4, <1>5, <1>6, <1>7, <1>8, <1>9, <1>10, <1>11
  DEF Step, Accounting, Yield

\* On one CPU a program that never traps is always interrupted, whatever it and
\* others did before, page faults with an upcall included.
THEOREM MlfqPreemptible ==
  (\A c, d \in CPUs : c = d) => (Spec => []Preemptible)
<1> SUFFICES ASSUME \A c, d \in CPUs : c = d PROVE Spec => []Preemptible
  OBVIOUS
<1>1. Init => TypeInv /\ TickInv /\ RemainsInv
  BY InitTypeInv DEF Init, TickInv, RemainsInv
<1>2. TypeInv /\ TickInv /\ RemainsInv /\ [Next]_vars => TypeInv' /\ TickInv' /\ RemainsInv'
  <2>1. SUFFICES ASSUME TypeInv, TickInv, RemainsInv, [Next]_vars
                 PROVE  TickInv' /\ RemainsInv'
    BY NextTypeInv
  <2>2. CASE UNCHANGED vars
    BY <2>1, <2>2 DEF TickInv, RemainsInv, Ticks, vars, cpuVars, queueVars
  <2>3. QED
    BY <2>1, <2>2, TickStep
<1>3. TypeInv /\ TickInv /\ RemainsInv => Preemptible
  BY DEF TickInv, Preemptible
<1>4. QED
  BY <1>1, <1>2, <1>3, PTL DEF Spec

\* A program traps only when the timer has not expired.
SilentInv ==
  \A c \in CPUs :
    pc[c] \in {"count", "times", "remaining", "in_queue", "lock"} /\ trapno[c] = "program" =>
      ~irq[c]

LEMMA SilentStep ==
  ASSUME TypeInv, SilentInv, NEW c \in CPUs, Step(c)
  PROVE  SilentInv'
<1> TypeOK
  BY DEF TypeInv
<1> USE DEF Goto, TypeOK
<1> DEFINE Entering == {"count", "times", "remaining", "in_queue", "lock"}
<1>1. ASSUME \A d \in CPUs : d # c => UNCHANGED <<pc[d], trapno[d], irq[d]>>,
             pc'[c] \notin Entering
      PROVE  SilentInv'
  BY <1>1 DEF SilentInv
<1>2. CASE MpMain(c)
  BY <1>1, <1>2 DEF MpMain
<1>3. CASE BoostMove(c)
  BY <1>3 DEF BoostMove, cpuVars, SilentInv
<1>4. CASE TrapEnter(c)
  BY <1>4 DEF TrapEnter, SilentInv
<1>5. CASE Accounting(c)
  BY <1>5 DEF Accounting, StoreCount, StoreRemaining, StoreInQueue, SilentInv
<1>6. CASE PageFault(c)
  BY <1>1, <1>6 DEF PageFault, EnvRun, TimerSet
<1>7. CASE Handler(c) /\ ~PageFault(c)
  <2>1. pc'[c] \in {"ret", "sched"} /\ UNCHANGED <<trapno, irq>>
        /\ \A d \in CPUs : d # c => UNCHANGED pc[d]
    BY <1>7 DEF Handler, Reap, Exit, FreeSelf, TimerInterrupt, SysOther, SysYield, SysExofork,
                SysEnvSetStatus, SysEnvDestroy, SysIpcRecv, SysIpcTrySend, SysChangePrio
  <2>2. QED
    BY <1>1, <2>1
<1>8. CASE Pick(c) \/ TrapReturn(c)
  BY <1>1, <1>8, DispatchTicks
<1>9. CASE SchedHalt(c)
  BY <1>1, <1>9 DEF SchedHalt, TimerSet
<1>10. CASE \/ Downgrade(c) \/ NoDowngrade(c) \/ NoBoost(c) \/ Boost(c) \/ BoostEnd(c)
            \/ Monitor(c)
  BY <1>1, <1>10 DEF Downgrade, NoDowngrade, NoBoost, Boost, BoostEnd, Monitor
<1>11. QED
  BY <1>2, <1>3, <1>4, <1>5, <1>6, <1>7, <1>8, <1>9, <1>10 DEF Step, Yield

\* On any number of CPUs, with any calls: only another CPU that resets the time of an
\* environment between its trap and its upcall can stop its timer.
THEOREM MlfqOnlyInterferenceStopsTimer == Spec => OnlyInterferenceStopsTimer
<1>1. Init => TypeInv /\ SilentInv
  BY InitTypeInv DEF Init, SilentInv
<1>2. TypeInv /\ SilentInv /\ [Next]_vars => TypeInv' /\ SilentInv'
  <2>1. SUFFICES ASSUME TypeInv, SilentInv, [Next]_vars PROVE SilentInv'
    BY NextTypeInv
  <2>2. CASE UNCHANGED vars
    BY <2>1, <2>2 DEF SilentInv, vars, cpuVars
  <2>3. CASE Next
    BY <2>1, <2>3, SilentStep DEF Next, Step
  <2>4. QED
    BY <2>1, <2>2, <2>3
<1>3. TypeInv /\ SilentInv /\ [Next]_vars =>
        [\A c \in CPUs : pc[c] # "user" /\ pc'[c] = "user" /\ ~Ticks(c)' =>
            \/ ~Ticks(c)
            \/ pc[c] = "lock" /\ time_remaining[curenv[c]] < tccr[c]]_vars
  <2>1. SUFFICES ASSUME TypeInv, SilentInv, Next, NEW c \in CPUs,
                        pc[c] # "user", pc'[c] = "user", ~Ticks(c)', Ticks(c)
                 PROVE  pc[c] = "lock" /\ time_remaining[curenv[c]] < tccr[c]
    OBVIOUS
  <2>2. PICK b \in CPUs : Step(b)
    BY <2>1 DEF Next, Step
  <2>3. CASE Staying(b)
    BY <2>1, <2>3, StayingStays DEF TypeInv
  <2>4. CASE Pick(b) \/ TrapReturn(b)
    BY <2>1, <2>4, DispatchTicks DEF Ticks
  <2>5. CASE SchedHalt(b)
    BY <2>1, <2>5 DEF SchedHalt, Goto, TypeInv, TypeOK
  <2>6. CASE PageFault(b)
    <3> DEFINE t == time_remaining[curenv[b]]
    <3>1. pc[b] = "lock" /\ trapno[b] = "program" /\ EnvRun(b, curenv[b], t)
      BY <2>6 DEF PageFault, Traps, EnterKernel
    <3>2. t \in Time
      <4>1. curenv[b] # None
        BY <2>1, <3>1 DEF TypeInv, ProgramInv
      <4>2. QED
        BY <2>1, <4>1 DEF TypeInv, TypeOK
    <3> HIDE DEF t
    <3> TypeOK
      BY <2>1 DEF TypeInv
    <3>3. b = c
      BY <2>1, <3>1 DEF EnvRun, TypeOK, Goto
    <3>4. ~irq[c] /\ ticr[c] > 0
      BY <2>1, <3>1, <3>3 DEF SilentInv, Ticks
    <3>5. TimerSet(c, t)
      BY <3>1, <3>3 DEF EnvRun
    <3>6. ticr'[c] = t /\ (tccr[c] = 0 => irq'[c])
      BY <3>1, <3>3, <3>4, <3>5 DEF TimerSet, TypeOK
    <3>7. ~(ticr'[c] > 0) /\ ~irq'[c]
      BY <2>1 DEF Ticks
    <3>8. t = 0 /\ tccr[c] > 0
      <4>1. tccr[c] \in Nat
        BY TimersAssumption DEF TypeOK, Time
      <4>2. t \in Nat
        BY <3>2, TimersAssumption DEF Time
      <4>3. QED
        BY <3>6, <3>7, <4>1, <4>2
    <3>9. QED
      BY <3>1, <3>3, <3>8 DEF t
  <2>7. QED
    BY <2>2, <2>3, <2>4, <2>5, <2>6 DEF Step, Staying, Yield
<1>4. QED
  BY <1>1, <1>2, <1>3, PTL DEF Spec, OnlyInterferenceStopsTimer

-----------------------------------------------------------------------------
(* What a stint can add up to *)

\* Nobody is given more than a base timer, so no stint is longer; a system call
\* apart, nobody sinks below queue 2.
SinkInv ==
  /\ \A c \in CPUs : curenv[c] # None => ticr[c] <= MLFQ_BASE_TIMER
  /\ \A e \in Envs : /\ queue_num[e] <= 2
                     /\ time_remaining[e] <= MLFQ_BASE_TIMER
                     /\ time_in_queue[e] <= MLFQ_BASE_TIMER

\* A stint of a base timer is three halves of one for nobody.
LEMMA TimeOverBelow2 ==
  ASSUME NEW t \in Time, NEW q \in Queues, t <= MLFQ_BASE_TIMER, TimeOver(t, q), q <= 2
  PROVE  q + 1 <= 2
<1> USE TimersAssumption DEF Time, Queues
<1>1. q # 2
  <2>1. SUFFICES ASSUME q = 2 PROVE FALSE
    OBVIOUS
  <2>2. 2 * t >= MLFQ_BASE_TIMER * 3
    BY <2>1 DEF TimeOver
  <2>3. QED
    BY <2>2
<1>2. QED
  BY <1>1, QueuesAssumption

LEMMA ChangePrioritySinks ==
  ASSUME TypeOK, SinkInv, NEW e \in Envs, NEW q \in Queues, q <= 2, ChangePriority(e, q)
  PROVE  \A x \in Envs : /\ queue_num'[x] <= 2
                        /\ time_remaining'[x] <= MLFQ_BASE_TIMER
                        /\ time_in_queue'[x] <= MLFQ_BASE_TIMER
  BY TimersAssumption DEF ChangePriority, SinkInv, TypeOK

\* Dispatching somebody for at most a base timer.
LEMMA EnvRunSinks ==
  ASSUME TypeOK, SinkInv, NEW c \in CPUs, NEW e, NEW t \in Time, t <= MLFQ_BASE_TIMER,
         EnvRun(c, e, t)
  PROVE  \A d \in CPUs : curenv'[d] # None => ticr'[d] <= MLFQ_BASE_TIMER
  BY DEF EnvRun, TimerSet, SinkInv, TypeOK

LEMMA SinkStep ==
  ASSUME "change_prio" \notin Calls, TypeInv, SinkInv, NEW c \in CPUs, Step(c)
  PROVE  SinkInv'
<1> TypeOK /\ TimerInv /\ ProgramInv
  BY DEF TypeInv
<1> DEFINE Times == <<queue_num, time_remaining, time_in_queue>>
<1>1. ASSUME UNCHANGED Times, Staying(c)
      PROVE  SinkInv'
  BY <1>1, StayingStays DEF SinkInv
<1>2. CASE MpMain(c) \/ TrapEnter(c) \/ StoreCount(c)
  <2>1. Staying(c)
    BY <1>2 DEF Staying, Accounting
  <2>2. UNCHANGED Times
    BY <1>2 DEF MpMain, TrapEnter, StoreCount, queueVars
  <2>3. QED
    BY <1>1, <2>1, <2>2
<1>3. CASE StoreRemaining(c) \/ StoreInQueue(c)
  <2>1. curenv[c] \in Envs
    BY <1>3 DEF StoreRemaining, StoreInQueue, ProgramInv, TypeOK
  <2>2. tccr[c] <= MLFQ_BASE_TIMER /\ ticr[c] - tccr[c] <= MLFQ_BASE_TIMER
    <3>1. ticr[c] <= MLFQ_BASE_TIMER
      BY <2>1, NoneAssumption DEF SinkInv
    <3>2. tccr[c] \in Nat /\ ticr[c] \in Nat /\ tccr[c] <= ticr[c]
      BY TimersAssumption DEF TimerInv, TypeOK, Time
    <3>3. QED
      BY <3>1, <3>2, TimersAssumption
  <2>3. \A d \in CPUs : curenv'[d] # None => ticr'[d] <= MLFQ_BASE_TIMER
    <3>1. Staying(c)
      BY <1>3 DEF Staying, Accounting
    <3>2. QED
      BY <3>1, StayingStays DEF SinkInv
  <2>4. QED
    BY <1>3, <2>1, <2>2, <2>3 DEF StoreRemaining, StoreInQueue, SinkInv, TypeOK
<1>4. CASE Handler(c) /\ ~SysExofork(c) /\ ~PageFault(c)
  <2>1. UNCHANGED Times
    <3>1. CASE Reap(c) \/ Exit(c)
      BY <3>1 DEF Reap, Exit, FreeSelf, EnvFree
    <3>2. ASSUME NEW e \in Envs, SysEnvDestroy(c, e)
          PROVE  UNCHANGED Times
      BY <3>2 DEF SysEnvDestroy, EnvFree, queueVars
    <3>3. ~ \E e \in Envs, prio \in Queues : SysChangePrio(c, e, prio)
      BY DEF SysChangePrio, Called, Traps
    <3>4. QED
      BY <1>4, <3>1, <3>2, <3>3
      DEF Handler, TimerInterrupt, SysOther, SysYield, SysEnvSetStatus, SysIpcRecv,
          SysIpcTrySend, queueVars
  <2>2. QED
    BY <1>1, <1>4, <2>1 DEF Staying
<1>5. CASE SysExofork(c)
  <2>1. curenv[c] \in Envs
    BY <1>5 DEF SysExofork, Called, Traps, EnterKernel, ProgramInv, TypeOK
  <2>2. \A d \in CPUs : curenv'[d] # None => ticr'[d] <= MLFQ_BASE_TIMER
    BY <1>5 DEF SysExofork, SinkInv
  <2>3. PICK e \in Envs, q \in Queues :
          /\ q <= 2
          /\ queue_num' = [queue_num EXCEPT ![e] = q]
          /\ time_remaining' = [time_remaining EXCEPT ![e] = 0]
          /\ time_in_queue' = [time_in_queue EXCEPT ![e] = 0]
    <3>1. 0 \in Queues
      BY QueuesAssumption DEF Queues
    <3>2. queue_num[curenv[c]] \in Queues /\ queue_num[curenv[c]] <= 2
      BY <2>1 DEF SinkInv, TypeOK
    <3>3. Head(env_free_list) \in Envs
      BY <1>5 DEF SysExofork, TypeOK
    <3>4. (IF MLFQ_SCHED THEN queue_num[curenv[c]] ELSE 0) \in Queues
          /\ (IF MLFQ_SCHED THEN queue_num[curenv[c]] ELSE 0) <= 2
      BY <3>1, <3>2
    <3>5. QED
      BY <1>5, <3>3, <3>4 DEF SysExofork
  <2>4. QED
    BY <2>2, <2>3, TimersAssumption DEF SinkInv, TypeOK
<1>6. CASE PageFault(c)
  <2>1. curenv[c] \in Envs
    BY <1>6 DEF PageFault, Traps, EnterKernel, ProgramInv, TypeOK
  <2>2. time_remaining[curenv[c]] \in Time /\ time_remaining[curenv[c]] <= MLFQ_BASE_TIMER
    BY <2>1 DEF SinkInv, TypeOK
  <2>3. EnvRun(c, curenv[c], time_remaining[curenv[c]]) /\ UNCHANGED Times
    BY <1>6 DEF PageFault, queueVars
  <2>4. QED
    BY <2>2, <2>3, EnvRunSinks DEF SinkInv
<1>7. CASE TrapReturn(c)
  <2>1. CASE UNCHANGED <<ticr, curenv, queueVars>>
    BY <2>1 DEF SinkInv, queueVars
  <2>2. CASE EnvRun(c, curenv[c], time_remaining[curenv[c]]) /\ UNCHANGED queueVars
    <3>1. curenv[c] \in Envs
      BY <1>7 DEF TrapReturn, ProgramInv, TypeOK
    <3>2. time_remaining[curenv[c]] \in Time /\ time_remaining[curenv[c]] <= MLFQ_BASE_TIMER
      BY <3>1 DEF SinkInv, TypeOK
    <3>3. QED
      BY <2>2, <3>2, EnvRunSinks DEF SinkInv, queueVars
  <2>3. QED
    BY <1>7, <2>1, <2>2 DEF TrapReturn
<1>8. CASE Downgrade(c)
  <2> DEFINE e == curenv[c]
             q == queue_num[e]
  <2>1. e \in Envs /\ q \in Queues /\ time_in_queue[e] \in Time
    BY <1>8 DEF Downgrade, ShouldDowngrade, TypeOK
  <2>2. q + 1 \in Queues
    BY <1>8, <2>1, QueuesAssumption DEF Downgrade, ShouldDowngrade, Queues
  <2>3. q + 1 <= 2
    BY <1>8, <2>1, TimeOverBelow2 DEF Downgrade, ShouldDowngrade, SinkInv
  <2>4. ChangePriority(e, q + 1) /\ Staying(c)
    BY <1>8 DEF Downgrade, Staying
  <2> HIDE DEF e, q
  <2>5. QED
    BY <2>1, <2>2, <2>3, <2>4, ChangePrioritySinks, StayingStays DEF SinkInv
<1>9. CASE BoostMove(c)
  <2>1. PICK i \in Queues \ {0} : queues[i] # <<>> /\ ChangePriority(Head(queues[i]), 0)
    BY <1>9 DEF BoostMove
  <2>2. Head(queues[i]) \in Envs
    BY <2>1 DEF TypeOK
  <2>3. 0 \in Queues /\ 0 <= 2
    BY QueuesAssumption DEF Queues
  <2>4. Staying(c)
    BY <1>9 DEF Staying
  <2>5. QED
    BY <2>1, <2>2, <2>3, <2>4, ChangePrioritySinks, StayingStays DEF SinkInv
<1>10. CASE NoDowngrade(c) \/ NoBoost(c) \/ Boost(c) \/ BoostEnd(c) \/ Monitor(c)
  BY <1>1, <1>10 DEF Staying, NoDowngrade, NoBoost, Boost, BoostEnd, Monitor, queueVars
<1>11. CASE Pick(c)
  <2>1. PICK e \in Envs :
          /\ EnvRun(c, e, MLFQ_BASE_TIMER)
          /\ time_remaining' = [time_remaining EXCEPT ![e] = MLFQ_BASE_TIMER]
          /\ UNCHANGED <<queue_num, time_in_queue>>
    BY <1>11 DEF Pick
  <2>2. MLFQ_BASE_TIMER \in Time /\ MLFQ_BASE_TIMER <= MLFQ_BASE_TIMER
    BY TimersAssumption DEF Time
  <2>3. QED
    BY <2>1, <2>2, EnvRunSinks DEF SinkInv, TypeOK
<1>12. CASE SchedHalt(c)
  BY <1>12 DEF SchedHalt, TimerSet, SinkInv, TypeOK, queueVars
<1>13. QED
  BY <1>2, <1>3, <1>4, <1>5, <1>6, <1>7, <1>8, <1>9, <1>10, <1>11, <1>12
  DEF Step, Accounting, Yield

\* Far from what the README says of programs that compute, they do not sink below
\* queue 2: the other queues of the eight stay empty.
NobodyBelowQueue2 == \A e \in Envs : queue_num[e] <= 2

\* What the violation of TimeInQueueAccumulates amounts to: MLFQ_TIME_COUNT stores the
\* last stint, which is never the base timer and a half that queue 2 asks for, so
\* downgrades end there, however long a program computes.
THEOREM MlfqDowngradesEndInQueue2 ==
  "change_prio" \notin Calls => (Spec => []NobodyBelowQueue2)
<1> SUFFICES ASSUME "change_prio" \notin Calls PROVE Spec => []NobodyBelowQueue2
  OBVIOUS
<1>1. Init => TypeInv /\ SinkInv
  <2>1. SUFFICES ASSUME Init PROVE SinkInv
    BY InitTypeInv
  <2>2. /\ curenv = [c \in CPUs |-> None]
        /\ queue_num = [e \in Envs |-> 0]
        /\ time_remaining = [e \in Envs |-> 0]
        /\ time_in_queue = [e \in Envs |-> 0]
    BY <2>1 DEF Init
  <2>3. QED
    BY <2>2, TimersAssumption DEF SinkInv
<1>2. TypeInv /\ SinkInv /\ [Next]_vars => TypeInv' /\ SinkInv'
  <2>1. SUFFICES ASSUME TypeInv, SinkInv, [Next]_vars PROVE SinkInv'
    BY NextTypeInv
  <2>2. CASE UNCHANGED vars
    BY <2>1, <2>2 DEF SinkInv, vars, cpuVars, queueVars
  <2>3. CASE Next
    BY <2>1, <2>3, SinkStep DEF Next, Step
  <2>4. QED
    BY <2>1, <2>2, <2>3
<1>3. TypeInv /\ SinkInv => NobodyBelowQueue2
  BY DEF SinkInv, NobodyBelowQueue2
<1>4. QED
  BY <1>1, <1>2, <1>3, PTL DEF Spec
=============================================================================

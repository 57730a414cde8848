-------------------------------- MODULE Mlfq --------------------------------
(***************************************************************************)
(* The scheduler of the JOS kernel (kern/sched.c) with everything that     *)
(* drives it: trap entry and exit (kern/trap.c), the life of environments  *)
(* (kern/env.c), the system calls that change who may run                  *)
(* (kern/syscall.c) and the one-shot local APIC timer.                     *)
(*                                                                         *)
(* A CPU holds the big kernel lock from its first step after spin_lock to  *)
(* env_run or sched_halt.  What trap() does before it locks, the time      *)
(* accounting of MLFQ_TIME_COUNT, is cut into its loads and stores, since  *)
(* CPUs execute it concurrently with a lock holder and with one another.   *)
(***************************************************************************)
EXTENDS Integers, Sequences, FiniteSets, SequencesExt

CONSTANTS
  CPUs, Envs,          \* the CPUs, the slots of envs[]
  None,                \* no CPU, no environment
  Machines,            \* pairs of a boot CPU and the slots of envs[] in order
  NBOOT,               \* how many environments i386_init creates
  NQUEUES,             \* inc/sched.h
  MLFQ_BASE_TIMER,     \* inc/sched.h, in ticks of the model
  MLFQ_BOOST_AMNT,     \* inc/sched.h
  CPU_TIME_HALT,       \* inc/sched.h, in ticks of the model
  MLFQ_SCHED,          \* TRUE: the MLFQ build, FALSE: the round-robin build
  Calls,               \* the traps user programs make
  LIBRARY              \* user programs call as lib/fork.c, lib/ipc.c and
                       \* user/dumbfork.c do; FALSE: as the kernel lets them

ASSUME EnvsAssumption == IsFiniteSet(Envs)
ASSUME NoneAssumption == None \notin CPUs /\ None \notin Envs
ASSUME MachinesAssumption ==
  Machines \subseteq CPUs \X SetToSeqs(Envs) /\ NBOOT \in 1 .. Cardinality(Envs)
ASSUME QueuesAssumption == NQUEUES \in Nat \ {0}
ASSUME TimersAssumption ==
  /\ MLFQ_BASE_TIMER \in Nat \ {0}
  /\ MLFQ_BOOST_AMNT \in Nat \ {0}
  /\ CPU_TIME_HALT \in Nat \ {0}
ASSUME SwitchesAssumption == MLFQ_SCHED \in BOOLEAN /\ LIBRARY \in BOOLEAN

VARIABLES
  lock,            \* who holds kernel_lock
  pc,              \* where each CPU is
  trapno,          \* what brought it into the kernel
  curenv,          \* thiscpu->cpu_env
  ticr, irq,       \* local APIC: initial count; expired, interrupt undelivered
  tccr,            \* t of MLFQ_TIME_COUNT, the current count at trap entry
  load,            \* the sum MLFQ_TIME_COUNT is about to store
  mlfq_time_count,
  queues,          \* queues[i], from envs along next_env
  env_free_list,
  status, parent, recving, queue_num, time_remaining, time_in_queue,
                   \* the fields of struct Env, env by env
  fresh            \* children between exofork and set_status in their parent

cpuVars == <<pc, trapno, curenv, ticr, irq, tccr, load>>
queueVars == <<queues, queue_num, time_remaining, time_in_queue>>
envVars == <<env_free_list, status, parent, recving, fresh>>
vars == <<lock, cpuVars, mlfq_time_count, queueVars, envVars>>

Queues == 0 .. NQUEUES - 1

MLFQ_BOOST == MLFQ_BASE_TIMER * MLFQ_BOOST_AMNT

\* Mutant of OverThreshold: a system call always returns to its caller.
AlwaysOverThreshold(t) == TRUE

\* time_remaining > MLFQ_MIN_THRESHOLD, a tenth of the base timer
OverThreshold(t) == 10 * t > MLFQ_BASE_TIMER

\* MLFQ_TQ_OVER: half a base timer in queue 0, one in queue 1, ...
TimeOver(t, q) == 2 * t >= MLFQ_BASE_TIMER * (q + 1)

\* mlfq_time_count is only compared with MLFQ_BOOST: larger values are equal
Count(n) == IF n > MLFQ_BOOST THEN MLFQ_BOOST ELSE n

Goto(c, l) == pc' = [pc EXCEPT ![c] = l]

-----------------------------------------------------------------------------
(* Boot: i386_init runs env_create with the lock held; the others wait *)

Init ==
  \E machine \in Machines :
    LET order == machine[2]
        boot == SubSeq(order, 1, NBOOT)
    IN
    /\ lock = machine[1]
    /\ pc = [c \in CPUs |-> IF c = machine[1] THEN "sched" ELSE "boot"]
    /\ trapno = [c \in CPUs |-> "none"]
    /\ curenv = [c \in CPUs |-> None]
    /\ ticr = [c \in CPUs |-> 0]
    /\ irq = [c \in CPUs |-> FALSE]
    /\ tccr = [c \in CPUs |-> 0]
    /\ load = [c \in CPUs |-> 0]
    /\ mlfq_time_count = 0
    /\ queues = [i \in Queues |-> IF i = 0 THEN boot ELSE <<>>]
    /\ env_free_list = SubSeq(order, NBOOT + 1, Len(order))
    /\ status = [e \in Envs |-> IF Contains(boot, e) THEN "RUNNABLE" ELSE "FREE"]
    /\ parent = [e \in Envs |-> None]
    /\ recving = [e \in Envs |-> FALSE]
    /\ queue_num = [e \in Envs |-> 0]
    /\ time_remaining = [e \in Envs |-> 0]
    /\ time_in_queue = [e \in Envs |-> 0]
    /\ fresh = {}

MpMain(c) ==
  /\ pc[c] = "boot"
  /\ lock = None
  /\ lock' = c
  /\ Goto(c, "sched")
  /\ UNCHANGED <<trapno, curenv, ticr, irq, tccr, load, mlfq_time_count,
                 queueVars, envVars>>

-----------------------------------------------------------------------------
(* Trap entry, without the lock *)

\* The timer interrupts user mode or hlt when it has counted down to zero, or at
\* once when it expired while interrupts were off; a program traps whenever it
\* likes before that.  MLFQ_TIME_COUNT then reads both registers and the counter.
TrapEnter(c) ==
  /\ pc[c] \in {"user", "hlt"}
  /\ \E t \in 0 .. ticr[c], no \in {"timer", "program"} :
       /\ no = "timer" => IF irq[c] THEN t = ticr[c] ELSE t = 0 /\ ticr[c] > 0
       /\ no = "program" => pc[c] = "user" /\ ~irq[c] /\ Calls # {}
       /\ trapno' = [trapno EXCEPT ![c] = no]
       /\ tccr' = [tccr EXCEPT ![c] = t]
       /\ load' = [load EXCEPT ![c] = Count(mlfq_time_count + ticr[c] - t)]
  /\ Goto(c, "count")
  /\ UNCHANGED <<lock, curenv, ticr, irq, mlfq_time_count, queueVars, envVars>>

StoreCount(c) ==
  /\ pc[c] = "count"
  /\ mlfq_time_count' = load[c]
  /\ load' = [load EXCEPT ![c] = 0]
  /\ Goto(c, IF curenv[c] = None THEN "lock" ELSE "times")
  /\ UNCHANGED <<lock, trapno, curenv, ticr, irq, tccr, queueVars, envVars>>

\* Two plain stores, which the compiler may emit in either order.
StoreRemaining(c) ==
  /\ pc[c] \in {"times", "remaining"}
  /\ time_remaining' = [time_remaining EXCEPT ![curenv[c]] = tccr[c]]
  /\ Goto(c, IF pc[c] = "times" THEN "in_queue" ELSE "lock")
  /\ UNCHANGED <<lock, trapno, curenv, ticr, irq, tccr, load, mlfq_time_count,
                 queues, queue_num, time_in_queue, envVars>>

StoreInQueue(c) ==
  /\ pc[c] \in {"times", "in_queue"}
  /\ time_in_queue' = [time_in_queue EXCEPT ![curenv[c]] = ticr[c] - tccr[c]]
  /\ Goto(c, IF pc[c] = "times" THEN "remaining" ELSE "lock")
  /\ UNCHANGED <<lock, trapno, curenv, ticr, irq, tccr, load, mlfq_time_count,
                 queues, queue_num, time_remaining, envVars>>

-----------------------------------------------------------------------------
(* Queues and environments *)

\* queue_remove: e is in a queue once or not at all.
QueueRemove(q, e) ==
  IF Contains(q, e)
    THEN RemoveAt(q, CHOOSE p \in DOMAIN q : q[p] = e)
    ELSE q

\* env_change_priority: to the tail of queue q, times reset
ChangePriority(e, q) ==
  /\ queues' = [[queues EXCEPT ![queue_num[e]] = QueueRemove(@, e)]
                         EXCEPT ![q] = Append(@, e)]
  /\ queue_num' = [queue_num EXCEPT ![e] = q]
  /\ time_remaining' = [time_remaining EXCEPT ![e] = 0]
  /\ time_in_queue' = [time_in_queue EXCEPT ![e] = 0]

\* Mutants of EnvFree: the environment stays in its queue; its slot is lost.
EnvFreeQueued(e) ==
  /\ status' = [status EXCEPT ![e] = "FREE"]
  /\ env_free_list' = <<e>> \o env_free_list
  /\ parent' = [x \in Envs |-> IF x = e \/ parent[x] = e THEN None ELSE parent[x]]
  /\ fresh' = {x \in fresh : x # e /\ parent[x] # e}
  /\ UNCHANGED <<queues, recving, queue_num, time_remaining, time_in_queue>>

EnvFreeLeak(e) ==
  /\ status' = [status EXCEPT ![e] = "FREE"]
  /\ queues' = [queues EXCEPT ![queue_num[e]] = QueueRemove(@, e)]
  /\ parent' = [x \in Envs |-> IF x = e \/ parent[x] = e THEN None ELSE parent[x]]
  /\ fresh' = {x \in fresh : x # e /\ parent[x] # e}
  /\ UNCHANGED <<env_free_list, recving, queue_num, time_remaining, time_in_queue>>

\* env_free, as far as scheduling sees it.  Ids are not reused, so the
\* children of e have no parent from now on.
EnvFree(e) ==
  /\ status' = [status EXCEPT ![e] = "FREE"]
  /\ env_free_list' = <<e>> \o env_free_list
  /\ queues' = [queues EXCEPT ![queue_num[e]] = QueueRemove(@, e)]
  /\ parent' = [x \in Envs |-> IF x = e \/ parent[x] = e THEN None ELSE parent[x]]
  /\ fresh' = {x \in fresh : x # e /\ parent[x] # e}
  /\ UNCHANGED <<recving, queue_num, time_remaining, time_in_queue>>

\* TIMER_SET.  The timer that was running may have expired while interrupts were
\* off: certainly if a program trapped at count zero, possibly if it was ticking.
TimerSet(c, count) ==
  /\ ticr' = [ticr EXCEPT ![c] = count]
  /\ \E late \in BOOLEAN :
       /\ late => ticr[c] > 0 /\ (tccr[c] > 0 \/ trapno[c] = "program")
       /\ trapno[c] = "program" /\ ticr[c] > 0 /\ tccr[c] = 0 => late
       /\ irq' = [irq EXCEPT ![c] = late]
  /\ trapno' = [trapno EXCEPT ![c] = "none"]
  /\ tccr' = [tccr EXCEPT ![c] = 0]

\* Mutant of EnvRun: env_switch leaves the old environment ENV_RUNNING.
EnvRunKeeps(c, e, remaining) ==
  /\ status' = [status EXCEPT ![e] = "RUNNING"]
  /\ curenv' = [curenv EXCEPT ![c] = e]
  /\ TimerSet(c, remaining)
  /\ lock' = None
  /\ Goto(c, "user")
  /\ UNCHANGED load

\* env_run: env_switch, TIMER_SET, unlock_kernel, to user mode.  remaining is
\* the time_remaining of e by then.
EnvRun(c, e, remaining) ==
  /\ status' = [x \in Envs |->
                  IF x = e THEN "RUNNING"
                  ELSE IF x = curenv[c] /\ status[x] = "RUNNING" THEN "RUNNABLE"
                  ELSE status[x]]
  /\ curenv' = [curenv EXCEPT ![c] = e]
  /\ TimerSet(c, remaining)
  /\ lock' = None
  /\ Goto(c, "user")
  /\ UNCHANGED load

-----------------------------------------------------------------------------
(* Trap handlers: trap() takes the lock and dispatches *)

EnterKernel(c) == pc[c] = "lock" /\ lock = None

\* Mutant of Traps: trap() does not collect zombies.
TrapsZombie(c, call) ==
  /\ EnterKernel(c)
  /\ trapno[c] = "program"
  /\ call \in Calls

\* The program of c, which is no zombie, traps for a reason in Calls.
Traps(c, call) ==
  /\ EnterKernel(c)
  /\ trapno[c] = "program"
  /\ status[curenv[c]] # "DYING"
  /\ call \in Calls

Called(c, call) == Traps(c, call) /\ lock' = c

\* envid2env with checkperm
Permitted(c, e) ==
  status[e] # "FREE" /\ (e = curenv[c] \/ parent[e] = curenv[c])

\* The caller is destroyed: env_free, curenv = NULL, sched_yield
FreeSelf(c) ==
  /\ EnvFree(curenv[c])
  /\ curenv' = [curenv EXCEPT ![c] = None]
  /\ Goto(c, "sched")
  /\ UNCHANGED <<trapno, ticr, irq, tccr, load, mlfq_time_count>>

\* "Garbage collect if current environment is a zombie"
Reap(c) ==
  /\ EnterKernel(c) /\ lock' = c
  /\ curenv[c] # None
  /\ status[curenv[c]] = "DYING"
  /\ FreeSelf(c)

\* Mutant of TimerInterrupt: the timer is served before zombies are collected.
TimerInterruptFirst(c) ==
  /\ EnterKernel(c) /\ lock' = c
  /\ trapno[c] = "timer"
  /\ Goto(c, "sched")
  /\ UNCHANGED <<trapno, curenv, ticr, irq, tccr, load, mlfq_time_count,
                 queueVars, envVars>>

TimerInterrupt(c) ==
  /\ EnterKernel(c) /\ lock' = c
  /\ trapno[c] = "timer"
  /\ curenv[c] # None => status[curenv[c]] # "DYING"
  /\ Goto(c, "sched")
  /\ UNCHANGED <<trapno, curenv, ticr, irq, tccr, load, mlfq_time_count,
                 queueVars, envVars>>

\* A fault with an upcall installed: page_fault_handler calls env_run itself,
\* past the threshold test at the end of trap().
PageFault(c) ==
  /\ Traps(c, "fault")
  /\ EnvRun(c, curenv[c], time_remaining[curenv[c]])
  /\ UNCHANGED <<mlfq_time_count, queueVars, env_free_list, parent, recving, fresh>>

\* env_destroy(curenv): sys_env_destroy, exceptions, unhandled page faults
Exit(c) == Called(c, "exit") /\ FreeSelf(c)

\* A call that changes nothing modelled here, or that fails.
SysOther(c) ==
  /\ Called(c, "other")
  /\ Goto(c, "ret")
  /\ UNCHANGED <<trapno, curenv, ticr, irq, tccr, load, mlfq_time_count,
                 queueVars, envVars>>

SysYield(c) ==
  /\ Called(c, "yield")
  /\ Goto(c, "sched")
  /\ UNCHANGED <<trapno, curenv, ticr, irq, tccr, load, mlfq_time_count,
                 queueVars, envVars>>

\* env_alloc queues the child in queue 0, sys_exofork moves it to the queue of
\* its parent; in the round-robin build it stays.
SysExofork(c) ==
  /\ Called(c, "exofork")
  /\ env_free_list # <<>>
  /\ LET e == Head(env_free_list)
         q == IF MLFQ_SCHED THEN queue_num[curenv[c]] ELSE 0
     IN
     /\ status' = [status EXCEPT ![e] = "NOT_RUNNABLE"]
     /\ parent' = [parent EXCEPT ![e] = curenv[c]]
     /\ recving' = [recving EXCEPT ![e] = FALSE]
     /\ fresh' = fresh \cup {e}
     /\ queues' = [queues EXCEPT ![q] = Append(@, e)]
     /\ queue_num' = [queue_num EXCEPT ![e] = q]
     /\ time_remaining' = [time_remaining EXCEPT ![e] = 0]
     /\ time_in_queue' = [time_in_queue EXCEPT ![e] = 0]
  /\ env_free_list' = Tail(env_free_list)
  /\ Goto(c, "ret")
  /\ UNCHANGED <<trapno, curenv, ticr, irq, tccr, load, mlfq_time_count>>

\* fork() and dumbfork() set the status of a child once, to RUNNABLE.
SysEnvSetStatus(c, e, s) ==
  /\ Called(c, "set_status")
  /\ Permitted(c, e)
  /\ LIBRARY => e \in fresh /\ s = "RUNNABLE"
  /\ status' = [status EXCEPT ![e] = s]
  /\ fresh' = fresh \ {e}
  /\ Goto(c, "ret")
  /\ UNCHANGED <<trapno, curenv, ticr, irq, tccr, load, mlfq_time_count,
                 queueVars, env_free_list, parent, recving>>

\* env_destroy of a child.  No program of the library destroys a child twice.
SysEnvDestroy(c, e) ==
  /\ Called(c, "destroy")
  /\ Permitted(c, e) /\ e # curenv[c]
  /\ LIBRARY => status[e] # "DYING"
  /\ IF status[e] = "RUNNING"
       THEN /\ status' = [status EXCEPT ![e] = "DYING"]
            /\ UNCHANGED <<queueVars, env_free_list, parent, recving, fresh>>
       ELSE EnvFree(e)
  /\ Goto(c, "ret")
  /\ UNCHANGED <<trapno, curenv, ticr, irq, tccr, load, mlfq_time_count>>

\* env_ipc_recving is set before dstva is validated.  lib/ipc.c passes an address
\* below UTOP.
SysIpcRecv(c, valid) ==
  /\ Called(c, "recv")
  /\ LIBRARY => valid
  /\ recving' = [recving EXCEPT ![curenv[c]] = TRUE]
  /\ IF valid
       THEN status' = [status EXCEPT ![curenv[c]] = "NOT_RUNNABLE"] /\ Goto(c, "sched")
       ELSE UNCHANGED status /\ Goto(c, "ret")
  /\ UNCHANGED <<trapno, curenv, ticr, irq, tccr, load, mlfq_time_count,
                 queueVars, env_free_list, parent, fresh>>

\* Mutant of SysIpcTrySend: a receiver that does not wait is not refused.
SysIpcSendAnyway(c, e) ==
  /\ Called(c, "send")
  /\ status[e] # "FREE"
  /\ recving' = [recving EXCEPT ![e] = FALSE]
  /\ status' = [status EXCEPT ![e] = "RUNNABLE"]
  /\ Goto(c, "ret")
  /\ UNCHANGED <<trapno, curenv, ticr, irq, tccr, load, mlfq_time_count,
                 queueVars, env_free_list, parent, fresh>>

\* A send that succeeds; one that fails is SysOther.
SysIpcTrySend(c, e) ==
  /\ Called(c, "send")
  /\ status[e] # "FREE" /\ recving[e]
  /\ recving' = [recving EXCEPT ![e] = FALSE]
  /\ status' = [status EXCEPT ![e] = "RUNNABLE"]
  /\ Goto(c, "ret")
  /\ UNCHANGED <<trapno, curenv, ticr, irq, tccr, load, mlfq_time_count,
                 queueVars, env_free_list, parent, fresh>>

\* Mutant of SysChangePrio: any other priority will do.
SysChangePrioAny(c, e, prio) ==
  /\ MLFQ_SCHED
  /\ Called(c, "change_prio")
  /\ Permitted(c, e)
  /\ prio # queue_num[e]
  /\ ChangePriority(e, prio)
  /\ Goto(c, "ret")
  /\ UNCHANGED <<trapno, curenv, ticr, irq, tccr, load, mlfq_time_count, envVars>>

SysChangePrio(c, e, prio) ==
  /\ MLFQ_SCHED
  /\ Called(c, "change_prio")
  /\ Permitted(c, e)
  /\ prio > queue_num[e]
  /\ ChangePriority(e, prio)
  /\ Goto(c, "ret")
  /\ UNCHANGED <<trapno, curenv, ticr, irq, tccr, load, mlfq_time_count, envVars>>

\* The end of trap(): back to the caller if it still runs and has time left.
TrapReturn(c) ==
  LET e == curenv[c] IN
  /\ pc[c] = "ret"
  /\ IF status[e] = "RUNNING" /\ OverThreshold(time_remaining[e])
       THEN /\ EnvRun(c, e, time_remaining[e])
            /\ UNCHANGED <<mlfq_time_count, queueVars,
                           env_free_list, parent, recving, fresh>>
       ELSE /\ Goto(c, "sched")
            /\ UNCHANGED <<lock, trapno, curenv, ticr, irq, tccr, load,
                           mlfq_time_count, queueVars, envVars>>

-----------------------------------------------------------------------------
(* sched_yield *)

\* Mutant of ShouldDowngrade: the last queue is no exception.
ShouldDowngradeAlways(c) ==
  /\ curenv[c] # None
  /\ TimeOver(time_in_queue[curenv[c]], queue_num[curenv[c]])

\* should_env_downgrade(curenv)
ShouldDowngrade(c) ==
  LET e == curenv[c] IN
  /\ e # None
  /\ queue_num[e] < NQUEUES - 1
  /\ TimeOver(time_in_queue[e], queue_num[e])

Downgrade(c) ==
  /\ MLFQ_SCHED
  /\ pc[c] = "sched"
  /\ ShouldDowngrade(c)
  /\ ChangePriority(curenv[c], queue_num[curenv[c]] + 1)
  /\ Goto(c, "boost")
  /\ UNCHANGED <<lock, trapno, curenv, ticr, irq, tccr, load, mlfq_time_count, envVars>>

NoDowngrade(c) ==
  /\ pc[c] = "sched"
  /\ MLFQ_SCHED => ~ShouldDowngrade(c)
  /\ Goto(c, IF MLFQ_SCHED THEN "boost" ELSE "pick")
  /\ UNCHANGED <<lock, trapno, curenv, ticr, irq, tccr, load, mlfq_time_count,
                 queueVars, envVars>>

\* boost(): the queues under queue 0 are emptied in order into its tail, one
\* env_change_priority after the other.
Boost(c) ==
  /\ pc[c] = "boost"
  /\ mlfq_time_count >= MLFQ_BOOST
  /\ mlfq_time_count' = 0
  /\ Goto(c, "boosting")
  /\ UNCHANGED <<lock, trapno, curenv, ticr, irq, tccr, load, queueVars, envVars>>

BoostMove(c) ==
  /\ pc[c] = "boosting"
  /\ \E i \in Queues \ {0} :
       /\ queues[i] # <<>>
       /\ \A j \in 1 .. i - 1 : queues[j] = <<>>
       /\ ChangePriority(Head(queues[i]), 0)
  /\ UNCHANGED <<lock, cpuVars, mlfq_time_count, envVars>>

BoostEnd(c) ==
  /\ pc[c] = "boosting"
  /\ \A i \in Queues \ {0} : queues[i] = <<>>
  /\ Goto(c, "pick")
  /\ UNCHANGED <<lock, trapno, curenv, ticr, irq, tccr, load, mlfq_time_count,
                 queueVars, envVars>>

NoBoost(c) ==
  /\ pc[c] = "boost"
  /\ mlfq_time_count < MLFQ_BOOST
  /\ Goto(c, "pick")
  /\ UNCHANGED <<lock, trapno, curenv, ticr, irq, tccr, load, mlfq_time_count,
                 queueVars, envVars>>

\* Mutants of Scan: always from the head; from the successor, not wrapping around.
ScanFromHead(c, i) == queues[i]

ScanForward(c, i) ==
  LET q == queues[i]
      p == CHOOSE p \in DOMAIN q : q[p] = curenv[c]
  IN IF curenv[c] # None /\ Contains(q, curenv[c])
       THEN SubSeq(q, p + 1, Len(q)) \o <<curenv[c]>>
       ELSE q

\* The order in which sched_round_robin looks at queue i: from the successor of
\* curenv round to curenv itself if curenv is in it, else from the head.
Scan(c, i) ==
  LET q == queues[i]
      last == curenv[c]
      p == CHOOSE p \in DOMAIN q : q[p] = last
  IN IF last # None /\ Contains(q, last)
       THEN SubSeq(q, p + 1, Len(q)) \o SubSeq(q, 1, p)
       ELSE q

\* Mutant of Eligible: whose ENV_RUNNING it is does not matter.
EligibleAnywhere(c, e) == status[e] \in {"RUNNABLE", "RUNNING"}

Eligible(c, e) ==
  status[e] = "RUNNABLE" \/ (status[e] = "RUNNING" /\ e = curenv[c])

\* The round-robin build only ever looks at queue 0.
Scanned == IF MLFQ_SCHED THEN Queues ELSE {0}

\* Mutant of FirstEligible: the queues are scanned from the last to the first.
LastEligible(c, i, k) ==
  /\ Eligible(c, Scan(c, i)[k])
  /\ \A m \in 1 .. k - 1 : ~Eligible(c, Scan(c, i)[m])
  /\ \A j \in Scanned : j > i =>
       \A m \in DOMAIN Scan(c, j) : ~Eligible(c, Scan(c, j)[m])

\* The k-th environment in the scan of queue i is the first eligible one.
FirstEligible(c, i, k) ==
  /\ Eligible(c, Scan(c, i)[k])
  /\ \A m \in 1 .. k - 1 : ~Eligible(c, Scan(c, i)[m])
  /\ \A j \in Scanned : j < i =>
       \A m \in DOMAIN Scan(c, j) : ~Eligible(c, Scan(c, j)[m])

\* Mutant of Pick: the environment goes on with the time it had left.
PickKeepsTime(c) ==
  /\ pc[c] = "pick"
  /\ \E e \in Envs, i \in Scanned : \E k \in DOMAIN Scan(c, i) :
       /\ e = Scan(c, i)[k]
       /\ FirstEligible(c, i, k)
       /\ EnvRun(c, e, time_remaining[e])
  /\ UNCHANGED <<mlfq_time_count, queueVars, env_free_list, parent, recving, fresh>>

Pick(c) ==
  /\ pc[c] = "pick"
  /\ \E e \in Envs, i \in Scanned : \E k \in DOMAIN Scan(c, i) :
       /\ e = Scan(c, i)[k]
       /\ FirstEligible(c, i, k)
       /\ time_remaining' = [time_remaining EXCEPT ![e] = MLFQ_BASE_TIMER]
       /\ EnvRun(c, e, MLFQ_BASE_TIMER)
  /\ UNCHANGED <<mlfq_time_count, queues, queue_num, time_in_queue,
                 env_free_list, parent, recving, fresh>>

NothingEligible(c) ==
  \A i \in Scanned : \A k \in DOMAIN Scan(c, i) : ~Eligible(c, Scan(c, i)[k])

\* Mutant of SomebodyLives: sched_halt forgets about ENV_RUNNING.
SomebodyWaits == \E e \in Envs : status[e] \in {"RUNNABLE", "DYING"}

SomebodyLives == \E e \in Envs : status[e] \in {"RUNNABLE", "RUNNING", "DYING"}

SchedHalt(c) ==
  /\ pc[c] = "pick"
  /\ NothingEligible(c)
  /\ SomebodyLives
  /\ curenv' = [curenv EXCEPT ![c] = None]
  /\ TimerSet(c, CPU_TIME_HALT)
  /\ lock' = None
  /\ Goto(c, "hlt")
  /\ UNCHANGED <<load, mlfq_time_count, queueVars, envVars>>

\* "No runnable environments in the system!": the monitor, with the lock held
Monitor(c) ==
  /\ pc[c] = "pick"
  /\ NothingEligible(c)
  /\ ~SomebodyLives
  /\ Goto(c, "monitor")
  /\ UNCHANGED <<lock, trapno, curenv, ticr, irq, tccr, load, mlfq_time_count,
                 queueVars, envVars>>

-----------------------------------------------------------------------------
Handler(c) ==
  \/ Reap(c) \/ TimerInterrupt(c) \/ PageFault(c) \/ Exit(c) \/ SysOther(c)
  \/ SysYield(c) \/ SysExofork(c)
  \/ \E e \in Envs, s \in {"RUNNABLE", "NOT_RUNNABLE"} : SysEnvSetStatus(c, e, s)
  \/ \E e \in Envs : SysEnvDestroy(c, e)
  \/ \E valid \in BOOLEAN : SysIpcRecv(c, valid)
  \/ \E e \in Envs : SysIpcTrySend(c, e)
  \/ \E e \in Envs, prio \in Queues : SysChangePrio(c, e, prio)

Accounting(c) == StoreCount(c) \/ StoreRemaining(c) \/ StoreInQueue(c)

Yield(c) ==
  \/ TrapReturn(c) \/ Downgrade(c) \/ NoDowngrade(c) \/ NoBoost(c)
  \/ Boost(c) \/ BoostMove(c) \/ BoostEnd(c)
  \/ Pick(c) \/ SchedHalt(c) \/ Monitor(c)

Next ==
  \E c \in CPUs :
    MpMain(c) \/ TrapEnter(c) \/ Accounting(c) \/ Handler(c) \/ Yield(c)

Spec == Init /\ [][Next]_vars

\* A stint in user mode or in hlt that the timer sees.
TimePasses(c) == TrapEnter(c) /\ tccr'[c] < ticr[c]

\* Back in user mode or hlt before the old timer expires.
LeaveInTime(c) ==
  (PageFault(c) \/ TrapReturn(c) \/ Pick(c) \/ SchedHalt(c)) /\ ~irq'[c]

\* CPUs execute kernel code, win the spin lock again and again, and are
\* interrupted by the timer they set.  Traps cost time: a CPU cannot enter the
\* kernel for ever without its timer counting, nor always return too late.
Fairness ==
  \A c \in CPUs :
    /\ WF_vars(TrapEnter(c) \/ Accounting(c) \/ Yield(c))
    /\ SF_vars(MpMain(c) \/ Handler(c))
    /\ SF_vars(TimePasses(c)) /\ SF_vars(LeaveInTime(c))

FairSpec == Spec /\ Fairness

-----------------------------------------------------------------------------
Labels == {"boot", "user", "hlt", "count", "times", "remaining", "in_queue",
           "lock", "ret", "sched", "boost", "boosting", "pick", "monitor"}

Statuses == {"FREE", "DYING", "RUNNABLE", "RUNNING", "NOT_RUNNABLE"}

Time == 0 .. MLFQ_BASE_TIMER + CPU_TIME_HALT

\* The type invariant.
TypeOK ==
  /\ lock \in CPUs \cup {None}
  /\ pc \in [CPUs -> Labels]
  /\ trapno \in [CPUs -> {"none", "timer", "program"}]
  /\ curenv \in [CPUs -> Envs \cup {None}]
  /\ ticr \in [CPUs -> Time]
  /\ irq \in [CPUs -> BOOLEAN]
  /\ tccr \in [CPUs -> Time]
  /\ load \in [CPUs -> 0 .. MLFQ_BOOST]
  /\ mlfq_time_count \in 0 .. MLFQ_BOOST
  /\ queues \in [Queues -> Seq(Envs)]
  /\ env_free_list \in Seq(Envs)
  /\ status \in [Envs -> Statuses]
  /\ parent \in [Envs -> Envs \cup {None}]
  /\ recving \in [Envs -> BOOLEAN]
  /\ queue_num \in [Envs -> Queues]
  /\ time_remaining \in [Envs -> Time]
  /\ time_in_queue \in [Envs -> Time]
  /\ fresh \subseteq Envs

InKernel == {"ret", "sched", "boost", "boosting", "pick", "monitor"}

\* Between traps and scheduling decisions, an environment is RUNNING or DYING
\* exactly if it is the current one of a CPU: env_switch, env_destroy, env_free
\* and the ipc calls keep status and cpu_env in step on all CPUs.
RunningIsCurrent ==
  /\ \A c \in CPUs : curenv[c] # None /\ pc[c] \notin InKernel =>
       status[curenv[c]] \in {"RUNNING", "DYING"}
  /\ \A e \in Envs : status[e] \in {"RUNNING", "DYING"} =>
       \E c \in CPUs : curenv[c] = e

\* "Never choose an environment that's currently running on another CPU"
\* (sched_yield): no environment is the current one of two CPUs.
ExclusiveExecution ==
  \A c, d \in CPUs : curenv[c] = curenv[d] /\ curenv[c] # None => c = d

Occurrences(e, i) == {k \in DOMAIN queues[i] : queues[i][k] = e}

\* A live environment is queued once, in the queue its queue_num names, a free one
\* not at all: env_change_priority, boost, env_alloc and env_free never lose one.
QueueMembership ==
  \A e \in Envs, i \in Queues :
    IF status[e] # "FREE" /\ i = queue_num[e]
      THEN \E k \in DOMAIN queues[i] : Occurrences(e, i) = {k}
      ELSE Occurrences(e, i) = {}

\* env_free_list lists the free slots, each once: none is leaked or handed out twice.
FreeListExact ==
  /\ \A e \in Envs : Contains(env_free_list, e) <=> status[e] = "FREE"
  /\ IsInjective(env_free_list)

\* An interrupt of the timer is due.
Ticks(c) == ticr[c] > 0 \/ irq[c]

\* In user mode a timer interrupt is due: a loop cannot keep the CPU (the premise
\* of user/spin.c).  TIMER_SET(0) would stop the one-shot timer for good.  True of
\* one CPU; with several, OnlyInterferenceStopsTimer says what is left of it.
Preemptible == \A c \in CPUs : pc[c] = "user" => Ticks(c)

\* With several CPUs, user mode is entered without a timer in one way only: a page
\* fault upcall, whose environment another CPU moved to another queue, time reset,
\* after this one had stored what was left and before it had the lock; or one more
\* upcall of a program whose timer has stopped in that way.
OnlyInterferenceStopsTimer ==
  [][\A c \in CPUs : pc[c] # "user" /\ pc'[c] = "user" /\ ~Ticks(c)' =>
        \/ ~Ticks(c)
        \/ pc[c] = "lock" /\ time_remaining[curenv[c]] < tccr[c]]_vars

\* The monitor, which never gives the lock back, is entered only when no other
\* CPU runs a program or could.
MonitorMeansIdle ==
  \A c \in CPUs : pc[c] = "monitor" => \A d \in CPUs : d # c => curenv[d] = None

\* Who executes what: status and cpu_env agree on every CPU, nobody executes on two,
\* and the monitor takes over only when nobody executes anywhere.
WhoRuns == RunningIsCurrent /\ ExclusiveExecution /\ MonitorMeansIdle

\* The kernel's lists agree with the table of environments: whoever is alive is
\* queued once, where its queue_num says, and whoever is not is free once.
Bookkeeping == TypeOK /\ QueueMembership /\ FreeListExact

\* A CPU halts only if nobody could have run on it.
HaltsOnlyWhenIdle ==
  [][\A c \in CPUs : pc[c] = "pick" /\ pc'[c] = "hlt" =>
        \A e \in Envs : status[e] # "RUNNABLE"]_vars

\* The scheduler gives the CPU to a program of the best priority that is waiting.
BestPriorityRuns ==
  [][\A c \in CPUs : pc[c] = "pick" /\ pc'[c] = "user" =>
        \A e \in Envs :
          status[e] = "RUNNABLE" => queue_num[curenv'[c]] <= queue_num[e]]_vars

\* Whatever other CPUs changed meanwhile, a scheduling decision is the right one when
\* it takes effect: an idle CPU had nobody to run, a busy one runs the best.
RightChoice == HaltsOnlyWhenIdle /\ BestPriorityRuns

\* sys_change_prio cannot raise a priority, nor can anything but a boost, and a
\* boost raises everybody: after it no live environment is left below queue 0.
OnlyBoostRaises ==
  [][/\ \A e \in Envs : status[e] # "FREE" /\ queue_num'[e] < queue_num[e] =>
          \E c \in CPUs : pc[c] = "boosting"
     /\ \A c \in CPUs : pc[c] = "boosting" /\ pc'[c] # "boosting" =>
          \A e \in Envs : status[e] # "FREE" => queue_num[e] = 0]_vars

\* "time_in_queue: es el tiempo que un determinado environment utilizo para correr
\* dentro de una cola" (README.md): as long as an environment stays in its queue, the
\* time it has used there does not shrink.  MLFQ_TIME_COUNT assigns the last stint.
TimeInQueueAccumulates ==
  [][\A e \in Envs :
        status[e] # "FREE" /\ status'[e] # "FREE" /\ queue_num'[e] = queue_num[e] =>
          time_in_queue'[e] >= time_in_queue[e]]_vars

\* Nobody waits for the CPU for ever: the boost brings back whoever sank.
NoStarvation ==
  \A e \in Envs : status[e] = "RUNNABLE" ~> status[e] # "RUNNABLE"

\* "A zombie environment will be freed the next time it traps" (env_destroy).
ZombiesAreFreed == \A e \in Envs : status[e] = "DYING" ~> status[e] = "FREE"

\* "A zombie environment will be freed the next time it traps to the kernel"
\* (env_destroy): it is not freed under the CPU that still executes it.
ZombieFreedByItsTrap ==
  [][\A e \in Envs : status[e] = "DYING" /\ status'[e] # "DYING" =>
        \E c \in CPUs : curenv[c] = e /\ pc[c] = "lock" /\ curenv'[c] = None]_vars

-----------------------------------------------------------------------------
(* Refinement: what each CPU executes, and may execute, abstractly *)

AbsStatus ==
  [FREE |-> "free", NOT_RUNNABLE |-> "blocked", RUNNABLE |-> "ready",
   RUNNING |-> "running", DYING |-> "doomed"]

AbsState == [e \in Envs |-> AbsStatus[status[e]]]

\* cpu_env lags behind while the kernel blocks its caller.
AbsRunning ==
  [c \in CPUs |->
     IF curenv[c] # None /\ status[curenv[c]] \in {"RUNNING", "DYING"}
       THEN curenv[c] ELSE None]

Abstract == INSTANCE AbsScheduler WITH state <- AbsState, running <- AbsRunning

\* The scheduler, with every trap, system call and race it has to live with, does
\* to the environments only what the abstract scheduler may do.
ImplementsAbsScheduler == Abstract!Spec
=============================================================================

------------------------------- MODULE CowMC --------------------------------
(***************************************************************************)
(* fork of the user library for TLC, in four settings: one fork of a       *)
(* program that writes data and stack; forks one after the other, of       *)
(* stacks that are copy-on-write already; the forks that copy; and little  *)
(* memory, where any call may fail.                                        *)
(***************************************************************************)
EXTENDS Cow, TLC

VARIABLE setting

MCPage == 1 .. 15
MCEnv == {"A", "B"}
MCPerm == {"r", "w", "cow"}
MCValue == {0, 1}
MCText == {"text"}
MCData == {"data"}
MCOrder == <<"UTEMP", "PFTEMP", "text", "data", "stack", "uxstack">>
MCVA == {MCOrder[i] : i \in DOMAIN MCOrder}
MCTable == {"table"}
MCTableOf == [va \in MCVA |-> "table"]

\* The pages of the program, how many there are, the forks it uses and how often
Settings ==
  [once   |-> [has |-> {"data", "stack"}, pages |-> 15, kinds |-> {"fork"}, forks |-> 1],
   again  |-> [has |-> {"stack"}, pages |-> 15, kinds |-> {"fork"}, forks |-> 2],
   copies |-> [has |-> Addr, pages |-> 15, kinds |-> {"fork_v0", "dumbfork"}, forks |-> 1],
   low    |-> [has |-> {"text", "stack"}, pages |-> 9, kinds |-> {"fork", "dumbfork"}, forks |-> 2]]

\* Which pages the first environment has, and which one it is, makes no difference
Named == (None :> 1) @@ ("table" :> 2) @@ ("text" :> 3) @@ ("data" :> 4) @@ ("stack" :> 5)

MCInit ==
  /\ setting \in DOMAIN Settings
  /\ LET s == Settings[setting]
         where == [x \in Parts(s.has) |-> Named[x]]
     IN /\ InitAt("A", s.has, where, 1 .. s.pages \ {where[x] : x \in Parts(s.has)})
        /\ \E image \in [s.has -> Value] :
             content = [p \in Page |-> IF \E v \in s.has : where[v] = p
                                       THEN image[CHOOSE v \in s.has : where[v] = p]
                                       ELSE Zero]
        /\ kinds = s.kinds

MCNext == Next /\ forks' =< Settings[setting].forks /\ UNCHANGED setting

\* The scheduler runs every environment that may run.
Fairness == \A e \in Env : WF_vars(Pgfault(e)) /\ WF_vars(Fork(e))

MCSpec == MCInit /\ [][MCNext]_<<setting, vars>> /\ Fairness

-----------------------------------------------------------------------------
\* A store that faults is executed in the end, and a fork ends, although each of its
\* own calls may fault on the stack that is being shared.
Busy(e) == frame[e] # NoFrame \/ fault[e] # NoFault
StoresAndForksEnd ==
  \A e \in Env : Busy(e) ~> ~Busy(e) \/ status[e] # "RUNNABLE"
=============================================================================

------------------------------ MODULE MCConsoles ------------------------------
(* Small instances of the three components that keep learners connected to  *)
(* their labs: the worker's external commands, the consoles, and the record *)
(* of their use. In a behaviour one of them moves.                          *)
EXTENDS ContainedCall, Consoles, ConsoleUse

CONSTANTS red, blue, east, west

VARIABLE scene

\* A behaviour meets two faults of the host, or one and a request.
Faults(losses, stops, engine, scans, requests) ==
  [losses |-> losses, stops |-> stops, engine |-> engine, scans |-> scans, requests |-> requests]

HostHazards ==
  {Faults(1, 1, 0, 0, 0), Faults(0, 1, 0, 0, 1),
   Faults(0, 0, 1, 0, 1), Faults(0, 0, 0, 1, 1)}

\* One lab is up, the other up or about to be deployed; what does not move has
\* nothing before it.
HostInit ==
  /\ CallInit /\ ConsolesInit /\ UseInit
  /\ scene \in {"command", "consoles", "use"}
  /\ red \in running
  /\ scene # "consoles" => running = Labs /\ left = Faults(1, 1, 0, 0, 0)

HostNext ==
  \/ scene = "command" /\ CallNext /\ UNCHANGED <<consoleVars, useVars, scene>>
  \/ scene = "consoles" /\ ConsolesNext /\ UNCHANGED <<callVars, useVars, scene>>
  \/ scene = "use" /\ UseNext /\ UNCHANGED <<callVars, consoleVars, scene>>

\* The fairness of each component, where it moves.
HostFairness ==
  /\ WF_callVars(scene = "command" /\ Work)
  /\ WF_callVars(scene = "command" /\ CallTick)
  /\ WF_consoleVars(scene = "consoles" /\ WorkerStep)
  /\ WF_consoleVars(scene = "consoles" /\ SweepStep)
  /\ \A p \in Ports : WF_consoleVars(scene = "consoles" /\ ExitConsole(p))
  /\ \A l \in Labs : WF_consoleVars(scene = "consoles" /\ RequestRepair(l))

HostSpec == HostInit /\ [][HostNext]_<<callVars, consoleVars, useVars, scene>> /\ HostFairness

\* Each component keeps its types.
HostTypeOK == CallTypeOK /\ ConsolesTypeOK /\ UseTypeOK

\* What the host must get done in the end: a call ends, and a lab gets its
\* console back.
HostSettles == CallSettles /\ ConsolesSettle
=============================================================================

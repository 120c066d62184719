-------------------------------- MODULE Jobs --------------------------------
(***************************************************************************)
(* The apu commands that run at once on one state directory.  A command is *)
(* a process of its own: job[p] says where p stands, and calls, the number *)
(* of commands begun, is the clock their timestamps are taken from         *)
(* (datetime.now in microseconds: no two are equal).  None of the commands *)
(* built on this module takes a lock.                                      *)
(***************************************************************************)
EXTENDS Naturals, FiniteSets

CONSTANTS Procs, None,
          MaxCalls,   \* commands begun, at most
          MaxStops    \* deaths and failed writes, at most

ASSUME JobBounds == MaxCalls \in Nat /\ MaxStops \in Nat
ASSUME NoneIsNoCommand == None \notin {"refresh", "adopt", "models", "audit"}

VARIABLES job, calls, stops
jobVars == <<job, calls, stops>>

Idle == [cmd |-> None]

JobsInit ==
    /\ job = [p \in Procs |-> Idle]
    /\ calls = 0
    /\ stops = 0

Begin(p, j) ==
    /\ job[p] = Idle
    /\ calls < MaxCalls
    /\ calls' = calls + 1
    /\ job' = [job EXCEPT ![p] = j]
    /\ UNCHANGED stops

Goto(p, j) ==
    /\ job' = [job EXCEPT ![p] = j]
    /\ UNCHANGED <<calls, stops>>

At(p, cmd, pc) == job[p].cmd = cmd /\ job[p].pc = pc

\* The process is killed: what it wrote stays, what it holds is gone.
Die(p) ==
    /\ job[p] # Idle
    /\ stops < MaxStops
    /\ stops' = stops + 1
    /\ job' = [job EXCEPT ![p] = Idle]
    /\ UNCHANGED calls
=============================================================================

---------------------------- MODULE Installations ----------------------------
(***************************************************************************)
(* Applying an approved plan, and undoing it from its receipt: apply.py,   *)
(* rollback.py, retire.py, chain.py, and the receipts and registry of      *)
(* receipts.py and state.py, for plans outside a campaign.                 *)
(*                                                                         *)
(* An apply checks and backs up every target, then replaces them one by    *)
(* one; an error makes it put the replaced ones back in reverse order.     *)
(* Neither it nor a rollback takes a lock or keeps a journal.  A file      *)
(* replaces a file by one rename; everything else, every restoration       *)
(* included, first removes what is there and then copies, so that an       *)
(* interruption leaves a target absent or torn.                            *)
(***************************************************************************)
EXTENDS Naturals, Sequences, FiniteSets, SequencesExt

CONSTANTS
    Procs,       \* operator processes
    Installs,    \* installation ids, each used for one plan
    Targets,     \* the paths plans write
    Units,       \* per installation: a sequence of units, each a sequence of
                 \* targets; a unit of two is a relocation (source, destination)
    Output,      \* per installation: the content each target of its plan gets
    Contents,    \* what a path may hold
    Trees,       \* the contents that are directories
    Absent, Torn, None,
    MaxCalls,    \* bound: commands issued
    MaxFaults,   \* bound: errors of the operating system
    MaxCrashes,  \* bound: process deaths
    MaxEdits     \* bound: changes of targets by somebody else

Order(i) == FlattenSeq(Units[i])
Planned(i) == ToSet(Order(i))

Objects == Contents \cup {Absent}
Statuses == {"active", "rolled_back", "drifted", "retired"}
Receipts(i) == [time : Nat, ack : BOOLEAN, original : [Planned(i) -> Objects],
                status : {"available", "rolled_back", "drifted"}]

ASSUME PlanAssumption ==
    /\ \A i \in Installs :
          /\ Units[i] \in Seq(Seq(Targets)) /\ Len(Order(i)) > 0
          /\ \A u \in ToSet(Units[i]) : Len(u) \in 1 .. 2
          /\ IsInjective(Order(i))
          /\ Output[i] \in [Planned(i) -> Objects]
          /\ None \notin Receipts(i)
    /\ Trees \subseteq Contents
    /\ {Absent, Torn, None} \cap Contents = {} /\ Absent # Torn /\ None \notin Statuses

\* What FlattenSeq, which is recursive, makes of units without a common target.
ASSUME OrderAssumption == \A i \in Installs :
    /\ Order(i) \in Seq(Targets)
    /\ Planned(i) = UNION {ToSet(u) : u \in ToSet(Units[i])}
    /\ \A m, n \in DOMAIN Units[i] : m # n => ToSet(Units[i][m]) \cap ToSet(Units[i][n]) = {}

VARIABLES
    live,      \* what each target path holds
    plan,      \* per installation: the preconditions of its plan
    backup,    \* installations/<id>/backups
    receipt,   \* installations/<id>/receipt.json
    registry,  \* registry.json: the status of each registered installation
    clock,     \* created_at of the last receipt
    pc, job,   \* each process: where it is, and its command
    calls, faults, crashes, edits

state == <<live, plan, backup, receipt, registry, clock>>
bounds == <<calls, faults, crashes, edits>>
vars == <<state, pc, job, bounds>>

PCs == {"idle", "preflight", "groups", "commit", "remove", "place", "record", "read",
        "write", "undo", "discard", "unit", "rm", "cp"}
NoBackup == [t \in Targets |-> Absent]

TypeOK ==
    /\ live \in [Targets -> Objects \cup {Torn}]
    /\ \A i \in Installs : plan[i] = None \/ plan[i] \in [Planned(i) -> Objects]
    /\ backup \in [Installs -> [Targets -> Objects]]
    /\ \A i \in Installs : receipt[i] = None \/ receipt[i] \in Receipts(i)
    /\ registry \in [Installs -> Statuses \cup {None}]
    /\ pc \in [Procs -> PCs]
    /\ \A p \in Procs : pc[p] # "idle" =>
          /\ job[p].cmd \in {"apply", "rollback", "retire"} /\ job[p].inst \in Installs
          /\ job[p].k \in 0 .. IF job[p].cmd = "rollback" THEN Len(Units[job[p].inst])
                             ELSE Len(Order(job[p].inst))
          /\ job[p].todo \subseteq Planned(job[p].inst)
          /\ pc[p] \in {"rm", "cp"} => job[p].todo # {}
    /\ clock \in Nat /\ calls \in Nat /\ faults \in Nat /\ crashes \in Nat /\ edits \in Nat

Init ==
    /\ live \in [Targets -> Objects]
    /\ plan = [i \in Installs |-> None]
    /\ backup = [i \in Installs |-> NoBackup]
    /\ receipt = [i \in Installs |-> None]
    /\ registry = [i \in Installs |-> None]
    /\ clock = 0
    /\ pc = [p \in Procs |-> "idle"] /\ job = [p \in Procs |-> None]
    /\ calls = 0 /\ faults = 0 /\ crashes = 0 /\ edits = 0

-----------------------------------------------------------------------------
Inst(p) == job[p].inst
Running(p, c) == pc[p] # "idle" /\ job[p].cmd = c

Goto(p, l) == pc' = [pc EXCEPT ![p] = l]
Set(p, j) == job' = [job EXCEPT ![p] = j]
End(p) == Goto(p, "idle") /\ Set(p, None)

Fault == faults < MaxFaults /\ faults' = faults + 1

\* A command begins; was is what it finds (history).
Command(p, c, i, k, ack) ==
    /\ pc[p] = "idle" /\ calls < MaxCalls /\ calls' = calls + 1
    /\ Set(p, [cmd |-> c, inst |-> i, k |-> k, todo |-> {}, ack |-> ack, why |-> None,
               failed |-> FALSE, lost |-> FALSE, drifted |-> FALSE, reg |-> None,
               status |-> IF c = "retire" THEN "retired" ELSE "active", was |-> live])
    /\ UNCHANGED <<state, faults, crashes, edits>>

\* _ensure_unused_installation: registered, or with anything in its directory.
Used(i) == \/ registry[i] # None \/ receipt[i] # None
           \/ backup[i] # NoBackup

-----------------------------------------------------------------------------
(* The chain: find_chain_gaps. *)

\* Active installations that wrote t, not merely adopted it.
Writers(t, i) == {j \in Installs \ {i} :
    /\ registry[j] = "active" /\ receipt[j] # None /\ t \in Planned(j)
    /\ Output[j][t] \notin {Absent, receipt[j].original[t]}}

\* (mutant) a file the latest writer created counts as adopted.
GapMerged(t, i, expected) ==
    \E j \in Writers(t, i) :
        /\ \A h \in Writers(t, i) : receipt[h].time <= receipt[j].time
        /\ Output[j][t] # expected /\ receipt[j].original[t] # Absent

\* The latest of them left something else than the plan expects.
Gap(t, i, expected) ==
    \E j \in Writers(t, i) :
        /\ \A h \in Writers(t, i) : receipt[h].time <= receipt[j].time
        /\ Output[j][t] # expected

-----------------------------------------------------------------------------
(* apply_plan. *)

\* A plan is made for the targets as they are now; they may change before it is
\* applied.  A directory is only ever replaced as the source of a relocation.
MakePlan(i) ==
    /\ \A q \in Procs : pc[q] = "idle"
    /\ ~Used(i) /\ plan[i] # Restrict(live, Planned(i))
    /\ \A u \in ToSet(Units[i]) :
          /\ live[u[1]] \notin (IF Len(u) = 2 THEN {Absent, Torn} ELSE Trees \cup {Torn})
          /\ Len(u) = 2 => live[u[2]] = Absent
    /\ calls < MaxCalls /\ calls' = calls + 1
    /\ plan' = [plan EXCEPT ![i] = Restrict(live, Planned(i))]
    /\ UNCHANGED <<live, backup, receipt, registry, clock, pc, job, faults, crashes, edits>>

\* Refused for a used id, and for a gap nobody acknowledged.  (Ids are made from
\* the time: no two processes apply under one.)
Apply(p, i) ==
    /\ plan[i] # None /\ ~Used(i)
    /\ \A q \in Procs : pc[q] # "idle" => Inst(q) # i
    /\ \E ack \in BOOLEAN :
          /\ ack \/ \A t \in Planned(i) : ~Gap(t, i, plan[i][t])
          /\ Command(p, "apply", i, 1, ack)
    /\ Goto(p, "preflight")

At(p) == Order(Inst(p))[job[p].k]
Original(p, t) == plan[Inst(p)][t]
New(p, t) == Output[Inst(p)][t]

\* _preflight_all, one operation: precondition, rendering, backup.
Preflight(p) ==
    /\ pc[p] = "preflight"
    /\ \/ /\ live[At(p)] = Original(p, At(p))
          /\ backup' = [backup EXCEPT ![Inst(p)][At(p)] = live[At(p)]]
          /\ IF job[p].k < Len(Order(Inst(p)))
             THEN Goto(p, "preflight") /\ Set(p, [job[p] EXCEPT !.k = @ + 1])
             ELSE Goto(p, "groups") /\ UNCHANGED job
          /\ UNCHANGED faults
       \/ /\ (live[At(p)] # Original(p, At(p)) /\ UNCHANGED faults) \/ Fault
          /\ Goto(p, "undo") /\ Set(p, [job[p] EXCEPT !.k = 0]) /\ UNCHANGED backup
    /\ UNCHANGED <<live, plan, receipt, registry, clock, calls, crashes, edits>>

\* _verify_atomic_groups: what a relocation removes is what it creates.
Groups(p) ==
    /\ pc[p] = "groups"
    /\ IF \A u \in ToSet(Units[Inst(p)]) : Len(u) = 2 => Original(p, u[1]) = New(p, u[2])
       THEN Goto(p, "commit") /\ Set(p, [job[p] EXCEPT !.k = 1])
       ELSE Goto(p, "undo") /\ Set(p, [job[p] EXCEPT !.k = 0])
    /\ UNCHANGED <<state, bounds>>

\* The operation is committed: the next one, or the receipt.
Committed(p) ==
    IF job[p].k < Len(Order(Inst(p)))
    THEN Goto(p, "commit") /\ Set(p, [job[p] EXCEPT !.k = @ + 1])
    ELSE Goto(p, "record") /\ UNCHANGED job

\* A file over a file, or into an empty place, is one rename.
OneRename(p) ==
    /\ New(p, At(p)) # Absent
    /\ live[At(p)] = Absent \/ {live[At(p)], New(p, At(p))} \cap (Trees \cup {Torn}) = {}

\* _restore_item of the operation that failed.
Repair(p) ==
    Goto(p, "rm") /\ Set(p, [job[p] EXCEPT !.why = "repair", !.todo = {At(p)}])

\* The parent directories, and the rename if that is all.
Commit(p) ==
    /\ pc[p] = "commit"
    /\ \/ /\ OneRename(p) /\ live' = [live EXCEPT ![At(p)] = New(p, At(p))]
          /\ Committed(p) /\ UNCHANGED faults
       \/ /\ ~OneRename(p) /\ Goto(p, "remove") /\ UNCHANGED <<live, job, faults>>
       \/ /\ OneRename(p) /\ live[At(p)] # Absent /\ Fault   \* the chmod fails
          /\ live' = [live EXCEPT ![At(p)] = New(p, At(p))] /\ Repair(p)
       \/ /\ Fault /\ UNCHANGED live
          /\ Goto(p, "undo") /\ Set(p, [job[p] EXCEPT !.k = @ - 1])
    /\ UNCHANGED <<plan, backup, receipt, registry, clock, calls, crashes, edits>>

\* _remove_object: unlink is atomic, rmtree is not.
Removed(t) == IF live[t] \in Trees THEN {Torn, Absent} ELSE {Absent}

RemoveOld(p) ==
    /\ pc[p] = "remove"
    /\ \/ /\ \E o \in Removed(At(p)) :
                /\ live' = [live EXCEPT ![At(p)] = o]
                /\ IF o = Torn THEN UNCHANGED <<pc, job>>
                   ELSE IF New(p, At(p)) = Absent THEN Committed(p)
                   ELSE Goto(p, "place") /\ UNCHANGED job
          /\ UNCHANGED faults
       \/ Fault /\ Repair(p) /\ UNCHANGED live
    /\ UNCHANGED <<plan, backup, receipt, registry, clock, calls, crashes, edits>>

Place(p) ==
    /\ pc[p] = "place"
    /\ \/ /\ OneRename(p) /\ live' = [live EXCEPT ![At(p)] = New(p, At(p))]
          /\ Committed(p) /\ UNCHANGED faults
       \/ Fault /\ Repair(p) /\ UNCHANGED live
    /\ UNCHANGED <<plan, backup, receipt, registry, clock, calls, crashes, edits>>

\* _build_receipt and write_receipt.
Record(p) ==
    /\ pc[p] = "record"
    /\ \/ /\ clock' = clock + 1
          /\ receipt' = [receipt EXCEPT ![Inst(p)] =
                [time |-> clock', ack |-> job[p].ack, original |-> plan[Inst(p)],
                 status |-> "available"]]
          /\ Goto(p, "read") /\ UNCHANGED <<job, faults>>
       \/ Fault /\ Goto(p, "undo") /\ UNCHANGED <<receipt, clock, job>>
    /\ UNCHANGED <<live, plan, backup, registry, calls, crashes, edits>>

\* update_registry reads the registry and writes it back with its own entry.
ReadRegistry(p) ==
    /\ pc[p] = "read"
    /\ Set(p, [job[p] EXCEPT !.reg = registry]) /\ Goto(p, "write")
    /\ UNCHANGED <<state, bounds>>

WriteRegistry(p) ==
    /\ pc[p] = "write"
    /\ \/ /\ registry' = [job[p].reg EXCEPT ![Inst(p)] = job[p].status]
          /\ End(p) /\ UNCHANGED faults
       \/ /\ Fault /\ UNCHANGED registry
          /\ IF job[p].cmd = "apply" THEN Goto(p, "undo") /\ UNCHANGED job ELSE End(p)
    /\ UNCHANGED <<live, plan, backup, receipt, clock, calls, crashes, edits>>

\* (mutant) the operations are put back from the second on.
UndoShort(p) ==
    /\ pc[p] = "undo"
    /\ IF job[p].k <= 1 THEN Goto(p, "discard") /\ UNCHANGED job
       ELSE /\ Goto(p, "rm")
            /\ Set(p, [job[p] EXCEPT !.why = "undo", !.todo = {At(p)}])
    /\ UNCHANGED <<state, bounds>>

\* _restore_applied, in reverse order.
Undo(p) ==
    /\ pc[p] = "undo"
    /\ IF job[p].k = 0 THEN Goto(p, "discard") /\ UNCHANGED job
       ELSE /\ Goto(p, "rm")
            /\ Set(p, [job[p] EXCEPT !.why = "undo", !.todo = {At(p)}])
    /\ UNCHANGED <<state, bounds>>

\* (mutant) the backups are removed whatever _restore_applied reported.
DiscardAlways(p) ==
    /\ pc[p] = "discard"
    /\ backup' = [backup EXCEPT ![Inst(p)] = NoBackup]
    /\ receipt' = [receipt EXCEPT ![Inst(p)] = None]
    /\ End(p)
    /\ UNCHANGED <<live, plan, registry, clock, bounds>>

\* The installation's directory is removed, unless _restore_applied failed.
Discard(p) ==
    /\ pc[p] = "discard"
    /\ IF job[p].failed THEN UNCHANGED <<backup, receipt>>
       ELSE /\ backup' = [backup EXCEPT ![Inst(p)] = NoBackup]
            /\ receipt' = [receipt EXCEPT ![Inst(p)] = None]
    /\ End(p)
    /\ UNCHANGED <<live, plan, registry, clock, bounds>>

-----------------------------------------------------------------------------
(* Restoring one target: _restore_item of apply.py, _restore of rollback.py. *)

\* What is left to restore is restored last operation first.
Turn(p, t) == \E n \in DOMAIN Order(Inst(p)) :
    /\ t = Order(Inst(p))[n] /\ t \in job[p].todo
    /\ \A m \in DOMAIN Order(Inst(p)) : m > n => Order(Inst(p))[m] \notin job[p].todo

RestoreRemove(p) ==
    /\ pc[p] = "rm"
    /\ \E t \in job[p].todo : Turn(p, t) /\ \E o \in Removed(t) :
          /\ live' = [live EXCEPT ![t] = o]
          /\ Goto(p, IF o = Torn THEN "rm" ELSE "cp")
    /\ UNCHANGED <<plan, backup, receipt, registry, clock, job, bounds>>

\* The next target of the unit, the next unit, or the next operation back.
Restored(p, t) ==
    IF job[p].todo # {t}
    THEN Goto(p, "rm") /\ Set(p, [job[p] EXCEPT !.todo = @ \ {t}])
    ELSE /\ Goto(p, IF job[p].why = "roll" THEN "unit" ELSE "undo")
         /\ Set(p, [job[p] EXCEPT !.todo = {}, !.k = @ - 1])

\* What was there comes back, a piece at a time.
RestoreCopy(p) ==
    /\ pc[p] = "cp"
    /\ \E t \in job[p].todo : Turn(p, t) /\
       LET saved == backup[Inst(p)][t] IN
       \/ live' = [live EXCEPT ![t] = saved] /\ Restored(p, t)
       \/ /\ saved # Absent /\ live[t] # Torn
          /\ live' = [live EXCEPT ![t] = Torn] /\ UNCHANGED <<pc, job>>
    /\ UNCHANGED <<plan, backup, receipt, registry, clock, bounds>>

\* An error: a failed repair and a failed undo are reported, the first as the
\* failure of the operation and the second after the other operations are put
\* back; a rollback stops.
RestoreFails(p) ==
    /\ pc[p] \in {"rm", "cp"} /\ Fault
    /\ \/ /\ job[p].why = "roll" /\ End(p)
       \/ /\ job[p].why # "roll" /\ Goto(p, "undo")
          /\ Set(p, [job[p] EXCEPT !.todo = {}, !.k = @ - 1,
                                   !.lost = @ \/ job[p].why = "repair",
                                   !.failed = @ \/ job[p].why = "undo"])
    /\ UNCHANGED <<state, calls, crashes, edits>>

-----------------------------------------------------------------------------
(* rollback_receipt and retire_installation. *)

\* The receipt is the registered one and every backup is intact; a retired
\* installation needs --allow-retired.
Rollback(p, i) ==
    /\ receipt[i] # None /\ registry[i] # None
    /\ \A t \in Planned(i) : backup[i][t] = receipt[i].original[t]
    /\ Command(p, "rollback", i, Len(Units[i]), FALSE) /\ Goto(p, "unit")

IsRestored(i, t) == live[t] = receipt[i].original[t]
CanRestore(i, t) == live[t] = Output[i][t]

\* The last unit left: skipped when any of its targets drifted.
RollbackUnit(p) ==
    /\ pc[p] = "unit" /\ job[p].k > 0
    /\ LET i == Inst(p)
           u == Units[i][job[p].k]
           drifted == \E t \in ToSet(u) : ~IsRestored(i, t) /\ ~CanRestore(i, t)
           todo == {t \in ToSet(u) : ~IsRestored(i, t)} IN
       IF drifted \/ todo = {}
       THEN /\ Set(p, [job[p] EXCEPT !.k = @ - 1, !.drifted = @ \/ drifted])
            /\ Goto(p, "unit")
       ELSE /\ Set(p, [job[p] EXCEPT !.why = "roll", !.todo = todo])
            /\ Goto(p, "rm")
    /\ UNCHANGED <<state, bounds>>

\* The receipt gets the outcome, then the registry.
Conclude(p) ==
    /\ pc[p] = "unit" /\ job[p].k = 0
    /\ LET status == IF job[p].drifted THEN "drifted" ELSE "rolled_back" IN
       \/ /\ receipt' = [receipt EXCEPT ![Inst(p)].status = status]
          /\ Set(p, [job[p] EXCEPT !.status = status]) /\ Goto(p, "read")
          /\ UNCHANGED faults
       \/ Fault /\ End(p) /\ UNCHANGED receipt
    /\ UNCHANGED <<live, plan, backup, registry, clock, calls, crashes, edits>>

\* Only an active installation retires; --force and --allow-uncovered lift the
\* other refusals.
Retire(p, i) ==
    /\ receipt[i] # None /\ registry[i] = "active"
    /\ Command(p, "retire", i, 0, FALSE) /\ Goto(p, "read")

-----------------------------------------------------------------------------
(* The environment. *)

\* Somebody changes a target between commands.
Edit(t, o) ==
    /\ \A q \in Procs : pc[q] = "idle"
    /\ edits < MaxEdits /\ edits' = edits + 1
    /\ live[t] # o /\ live' = [live EXCEPT ![t] = o]
    /\ UNCHANGED <<plan, backup, receipt, registry, clock, pc, job, calls, faults, crashes>>

Crash(p) ==
    /\ pc[p] # "idle" /\ crashes < MaxCrashes /\ crashes' = crashes + 1
    /\ End(p)
    /\ UNCHANGED <<state, calls, faults, edits>>

Step(p) ==
    \/ Preflight(p) \/ Groups(p) \/ Commit(p) \/ RemoveOld(p) \/ Place(p)
    \/ Record(p) \/ ReadRegistry(p) \/ WriteRegistry(p)
    \/ Undo(p) \/ Discard(p)
    \/ RestoreRemove(p) \/ RestoreCopy(p) \/ RestoreFails(p)
    \/ RollbackUnit(p) \/ Conclude(p)

Next ==
    \/ \E i \in Installs : MakePlan(i)
    \/ \E p \in Procs, i \in Installs : Apply(p, i) \/ Rollback(p, i) \/ Retire(p, i)
    \/ \E p \in Procs : Step(p) \/ Crash(p)
    \/ \E t \in Targets, o \in Objects : Edit(t, o)

Spec == Init /\ [][Next]_vars

-----------------------------------------------------------------------------
(* What is true of one operator's commands. *)

\* An apply that ends has installed and registered everything, or has put back
\* everything and left no trace, or has reported that it could not
\* (_restore_applied, and the recovery inside _commit).
AllOrNothing == [][\A p \in Procs :
    Running(p, "apply") /\ pc'[p] = "idle" /\ crashes' = crashes =>
        LET i == Inst(p) IN
        \/ /\ registry'[i] = "active" /\ receipt'[i] # None
           /\ \A t \in Planned(i) : live'[t] = Output[i][t]
        \/ /\ registry'[i] = None /\ receipt'[i] = None /\ backup'[i] = NoBackup
           /\ \A t \in Planned(i) : live'[t] = job[p].was[t]
        \/ job[p].failed \/ job[p].lost]_vars

\* The same while no operation's own recovery fails: an error of
\* _restore_applied, of a rollback or of a death keeps the backups.
BackupOutlivesUndo == [][\A p \in Procs, i \in Installs : \A t \in Planned(i) :
    backup'[i][t] # backup[i][t] /\ Running(p, "apply") /\ ~job[p].lost =>
        backup[i][t] \in {Absent, live'[t]}]_vars

\* What a rollback is about to say is so: after "rolled_back" every target is
\* what it was before the installation, and a relocated pair went back
\* together or not at all (_rollback_loaded_receipt).
RollbackTruth == \A p \in Procs : Running(p, "rollback") /\ pc[p] \in {"read", "write"} =>
    LET i == Inst(p) IN
    /\ job[p].status = "rolled_back" => \A t \in Planned(i) : IsRestored(i, t)
    /\ \A u \in ToSet(Units[i]) :
          \/ \A t \in ToSet(u) : IsRestored(i, t)
          \/ \A t \in ToSet(u) : live[t] = job[p].was[t]

\* An apply nobody acknowledged replaces only what the latest active writer of
\* the target left (find_chain_gaps; README.md:646).
ChainUnbroken == \A p \in Procs : Running(p, "apply") /\ pc[p] = "record" /\ ~job[p].ack =>
    \A t \in Planned(Inst(p)) : \A j \in Writers(t, Inst(p)) :
        (\A h \in Writers(t, Inst(p)) : receipt[h].time <= receipt[j].time)
            => job[p].was[t] = Output[j][t]

\* What the record tells of the targets is so: a rollback reports what it did,
\* and an apply builds on what the latest installation left.
RecordTrue == TypeOK /\ RollbackTruth /\ ChainUnbroken
=============================================================================

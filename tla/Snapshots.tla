------------------------------ MODULE Snapshots ------------------------------
(***************************************************************************)
(* Restore points over content-addressed blobs: snapshots.py,              *)
(* snapshot_restore.py, and the commands that take, prune and restore them *)
(* (`apu snapshot`, the backup of a Claude upgrade, the snapshot of a      *)
(* campaign).                                                              *)
(*                                                                         *)
(* A snapshot stores the blobs of the files it walks one by one, checks    *)
(* them and then writes its manifest.  Retention drops old manifests and   *)
(* then the blobs that no manifest names.  Retention and the backup of an  *)
(* upgrade exclude one another; nothing else takes that lock.              *)
(*                                                                         *)
(* The object at a path is its description (type, hash, link, mode); a     *)
(* snapshot's id is the time it was begun.  How a restore swaps its        *)
(* targets is RestoreJournal: here it is one step.                         *)
(***************************************************************************)
EXTENDS Naturals, FiniteSets, FiniteSetsExt, Maps

CONSTANTS
    Procs,       \* processes
    Commands,    \* the commands of each process
    Files,       \* paths below the surfaces of the profile
    SurfaceOf,   \* the surface of each file
    Excluded,    \* the files the profile excludes
    Contents,    \* descriptions of objects; each has a blob of its own
    Absent,
    KeepLast,    \* DEFAULT_RETENTION_COUNT
    MaxCalls,    \* bound: commands issued
    MaxStops,    \* bound: process deaths, and errors that end a command
    MaxEdits     \* bound: changes of files by others

ASSUME SnapshotAssumption ==
    /\ Excluded \subseteq Files /\ KeepLast \in Nat
    /\ Absent \notin Contents /\ None \notin Procs \cup Nat

Objects == Contents \cup {Absent}
Surfaces == {SurfaceOf[f] : f \in Files}

VARIABLES
    live,       \* what each path holds
    blobs,      \* snapshots/blobs
    manifests,  \* snapshots/manifests: for each id what it says of each file
    points,     \* the snapshots claude-restore-points/ names
    index,      \* the snapshot an open campaign is bound to
    retention,  \* who holds the lock "snapshot-retention"
    clock,
    pc, job,    \* each process: where it is, and its command
    calls, stops, edits

store == <<blobs, manifests, points, index>>
bounds == <<calls, stops, edits>>
vars == <<live, store, retention, clock, pc, job, bounds>>

Captured == Files \ Excluded
Needs(m) == {m[f] : f \in Captured} \ {Absent}
Referenced == UNION {Needs(manifests[i]) : i \in DOMAIN manifests}
PCs == {"idle", "capture", "validate", "write", "lock", "list", "prune", "collect",
        "delete", "point", "bind", "load", "materialize", "swap"}

TypeOK ==
    /\ live \in [Files -> Objects] /\ blobs \subseteq Contents
    /\ DOMAIN manifests \subseteq 1 .. clock
    /\ \A i \in DOMAIN manifests : manifests[i] \in [Captured -> Objects]
    /\ points \subseteq 1 .. clock /\ index \in 1 .. clock \cup {None}
    /\ retention \in Procs \cup {None} /\ clock \in Nat
    /\ pc \in [Procs -> PCs]
    /\ \A p \in Procs : pc[p] # "idle" =>
          /\ job[p].cmd \in Commands[p] /\ job[p].id \in 1 .. clock
          /\ DOMAIN job[p].got \subseteq Files
    /\ retention # None => pc[retention] # "idle"
    /\ calls \in Nat /\ stops \in Nat /\ edits \in Nat

Init ==
    /\ live \in [Files -> Objects]
    /\ blobs = {} /\ manifests = <<>> /\ points = {} /\ index = None
    /\ retention = None /\ clock = 0
    /\ pc = [p \in Procs |-> "idle"] /\ job = [p \in Procs |-> None]
    /\ calls = 0 /\ stops = 0 /\ edits = 0

-----------------------------------------------------------------------------
(* Commands. *)

Goto(p, l) == pc' = [pc EXCEPT ![p] = l]

\* The command ends; a lock it holds is released.
End(p) ==
    /\ Goto(p, "idle") /\ job' = [job EXCEPT ![p] = None]
    /\ retention' = IF retention = p THEN None ELSE retention

Refuse(p) == End(p) /\ UNCHANGED <<live, store, clock, bounds>>

\* was: what the command saw at each path before it began to copy.
Call(p, c, l, id, was) ==
    /\ c \in Commands[p] /\ pc[p] = "idle" /\ calls < MaxCalls /\ calls' = calls + 1
    /\ job' = [job EXCEPT ![p] = [cmd |-> c, id |-> id, got |-> <<>>, was |-> was, todo |-> {},
                                   refs |-> {}]]
    /\ Goto(p, l) /\ UNCHANGED <<live, store, stops, edits>>

\* created_at is read before the walk begins.
Create(p, c) ==
    /\ c \in {"create", "campaign"} /\ c = "campaign" => index = None
    /\ clock' = clock + 1 /\ UNCHANGED retention
    /\ Call(p, c, "capture", clock', <<>>)

\* (mutant) the backup is made without the lock.
BackupUnlocked(p) ==
    /\ retention = None /\ UNCHANGED retention /\ clock' = clock + 1
    /\ Call(p, "upgrade", "capture", clock', live)

\* update_exact: the surfaces are hashed, and the backup is made under the lock.
Backup(p) ==
    /\ retention = None /\ retention' = p /\ clock' = clock + 1
    /\ Call(p, "upgrade", "capture", clock', live)

\* _store_blob: the blob is there already, or its copy is read while the file keeps
\* still and is put in place by a rename.
BlobsWith(o) == blobs \cup ({o} \ {Absent})

\* One file of the walk.  A directory's own hash follows from its children.
Capture(p) ==
    /\ pc[p] = "capture"
    /\ \E f \in Captured \ DOMAIN job[p].got :
          /\ blobs' = BlobsWith(live[f])
          /\ job' = [job EXCEPT ![p].got = With(@, f, live[f])]
          /\ Goto(p, IF DOMAIN job[p].got \cup {f} = Captured THEN "validate" ELSE "capture")
    /\ UNCHANGED <<live, manifests, points, index, retention, clock, bounds>>

\* _validate_manifest: every entry agrees with the surfaces and every blob is
\* there and whole.
Complete(m) == Needs(m) \subseteq blobs

Validate(p) ==
    /\ pc[p] = "validate"
    /\ IF Complete(job[p].got)
       THEN Goto(p, "write") /\ UNCHANGED <<live, store, retention, clock, job, bounds>>
       ELSE Refuse(p)

Write(p) ==
    /\ pc[p] = "write"
    /\ manifests' = With(manifests, job[p].id, job[p].got)
    /\ Goto(p, CASE job[p].cmd = "create" -> "lock"
                 [] job[p].cmd = "campaign" -> "bind"
                 [] OTHER -> "point")
    /\ UNCHANGED <<live, blobs, points, index, retention, clock, job, bounds>>

\* The surfaces must hash as they did before the backup; then the restore
\* point names the snapshot.
Point(p) ==
    /\ pc[p] = "point"
    /\ IF live = job[p].was
       THEN points' = points \cup {job[p].id} /\ End(p)
            /\ UNCHANGED <<live, blobs, manifests, index, clock, bounds>>
       ELSE Refuse(p)

\* The artifact and the index of the campaign (Campaigns).
Bind(p) ==
    /\ pc[p] = "bind" /\ index' = job[p].id /\ End(p)
    /\ UNCHANGED <<live, blobs, manifests, points, clock, bounds>>

-----------------------------------------------------------------------------
(* Retention: enforce_retention. *)

Lock(p) ==
    /\ pc[p] = "lock"
    /\ IF retention = None
       THEN /\ retention' = p /\ Goto(p, "list")
            /\ UNCHANGED <<live, store, clock, job, bounds>>
       ELSE Refuse(p)

\* The newest KeepLast.
Newest == {i \in DOMAIN manifests : Cardinality({j \in DOMAIN manifests : j > i}) < KeepLast}

\* The command line passes neither protected nor open snapshots, so those of
\* restore points alone stay however old.
Retained == Newest \cup points

\* list_snapshots refuses when any manifest is broken.
List(p) ==
    /\ pc[p] = "list"
    /\ IF \A i \in DOMAIN manifests : Complete(manifests[i])
       THEN /\ job' = [job EXCEPT ![p].todo = DOMAIN manifests \ Retained]
            /\ Goto(p, "prune") /\ UNCHANGED <<live, store, retention, clock, bounds>>
       ELSE Refuse(p)

\* (mutant) blobs are left for another time.
PruneOnly(p) ==
    /\ pc[p] = "prune"
    /\ IF job[p].todo = {} THEN Refuse(p)
       ELSE /\ manifests' = [j \in DOMAIN manifests \ {Max(job[p].todo)} |-> manifests[j]]
            /\ job' = [job EXCEPT ![p].todo = @ \ {Max(job[p].todo)}]
            /\ UNCHANGED <<live, blobs, points, index, retention, clock, pc, bounds>>

\* Manifests go one by one, the newest first.
Prune(p) ==
    /\ pc[p] = "prune"
    /\ IF job[p].todo = {}
       THEN Goto(p, "collect") /\ UNCHANGED <<manifests, job>>
       ELSE LET i == Max(job[p].todo) IN
            /\ manifests' = [j \in DOMAIN manifests \ {i} |-> manifests[j]]
            /\ job' = [job EXCEPT ![p].todo = @ \ {i}] /\ UNCHANGED pc
    /\ UNCHANGED <<live, blobs, points, index, retention, clock, bounds>>

\* _garbage_collect_blobs reads all manifests, then looks at each blob once.
Collect(p) ==
    /\ pc[p] = "collect"
    /\ job' = [job EXCEPT ![p].refs = Referenced, ![p].todo = Contents]
    /\ Goto(p, "delete") /\ UNCHANGED <<live, store, retention, clock, bounds>>

Delete(p) ==
    /\ pc[p] = "delete"
    /\ IF job[p].todo = {} THEN Refuse(p)
       ELSE \E c \in job[p].todo :
            /\ blobs' = blobs \ ({c} \ job[p].refs)
            /\ job' = [job EXCEPT ![p].todo = @ \ {c}]
            /\ UNCHANGED <<live, manifests, points, index, retention, clock, pc, bounds>>

-----------------------------------------------------------------------------
(* Restore and diff. *)

\* What a restore selects: whole surfaces, or paths the manifest names.
Targets == {{f \in Files : SurfaceOf[f] = s} : s \in Surfaces} \cup {{f} : f \in Captured}

Restore(p) ==
    /\ UNCHANGED <<retention, clock>>
    /\ \E i \in DOMAIN manifests : Call(p, "restore", "load", i, <<>>)

\* load_snapshot and _select_entries: targets do not overlap.
Load(p) ==
    /\ pc[p] = "load"
    /\ IF job[p].id \in DOMAIN manifests /\ Complete(manifests[job[p].id])
       THEN \E ts \in SUBSET Targets \ {{}} :
            /\ \A t, u \in ts : t = u \/ t \cap u = {}
            /\ job' = [job EXCEPT ![p].todo = ts, ![p].got = manifests[job[p].id]]
            /\ Goto(p, "materialize") /\ UNCHANGED <<live, store, retention, clock, bounds>>
       ELSE Refuse(p)

\* materialize_snapshot_object checks the blobs again; then the target is
\* described as it is.
Materialize(p) ==
    /\ pc[p] = "materialize"
    /\ IF job[p].todo = {}
       THEN Goto(p, "swap") /\ UNCHANGED <<live, store, retention, clock, job, bounds>>
       ELSE IF Complete(job[p].got)
       THEN \E t \in job[p].todo :
            /\ job' = [job EXCEPT ![p].todo = @ \ {t}, ![p].was = Over([f \in t |-> live[f]], @)]
            /\ UNCHANGED <<live, store, retention, clock, pc, bounds>>
       ELSE Refuse(p)

\* _materialize_entries: a surface is rebuilt as a whole, from what the manifest has
\* of it.
Desired(p) == [f \in DOMAIN job[p].was |-> IF f \in Captured THEN job[p].got[f] ELSE Absent]

\* restore_items replaces every target, unless one is no longer as described.
Drifted(p) == \E f \in DOMAIN job[p].was : live[f] # job[p].was[f]

Swap(p) ==
    /\ pc[p] = "swap"
    /\ IF Drifted(p) THEN Refuse(p)
       ELSE live' = Over(Desired(p), live) /\ End(p) /\ UNCHANGED <<store, clock, bounds>>

-----------------------------------------------------------------------------
(* The environment. *)

\* A death, or an error that leaves the command: the lock is released and what
\* was written stays.
Stop(p) == pc[p] # "idle" /\ stops < MaxStops /\ stops' = stops + 1
           /\ End(p) /\ UNCHANGED <<live, store, clock, calls, edits>>

Edit(f, o) ==
    /\ edits < MaxEdits /\ edits' = edits + 1
    /\ live[f] # o /\ live' = [live EXCEPT ![f] = o]
    /\ UNCHANGED <<store, retention, clock, pc, job, calls, stops>>

Step(p) ==
    \/ Capture(p) \/ Validate(p) \/ Write(p) \/ Point(p) \/ Bind(p)
    \/ Lock(p) \/ List(p) \/ Prune(p) \/ Collect(p) \/ Delete(p)
    \/ Load(p) \/ Materialize(p) \/ Swap(p)

Next ==
    \/ \E p \in Procs, c \in {"create", "campaign"} : Create(p, c)
    \/ \E p \in Procs : Backup(p) \/ Restore(p) \/ Step(p) \/ Stop(p)
    \/ \E f \in Files, o \in Objects : Edit(f, o)

Spec == Init /\ [][Next]_vars

-----------------------------------------------------------------------------
(* What the store promises. *)

\* No blob of a manifest on file is missing: neither collection, nor a death
\* inside it, nor an upgrade's backup meanwhile leaves a manifest broken, which
\* would stop every later listing and retention (list_snapshots).
BlobsComplete == Referenced \subseteq blobs

\* The snapshot a restore point names is there as long as the point is ("Restore
\* points remain protected from snapshot retention", README.md:245).
PointsKept == points \subseteq DOMAIN manifests

\* A retention that ends by itself has left no blob without a manifest, those of
\* interrupted snapshots included.
CollectsAll == [][\A p \in Procs :
    pc[p] \in {"prune", "delete"} /\ pc'[p] = "idle" /\ stops' = stops =>
        \A c \in blobs \ Referenced : \E q \in Procs \ {p} : pc[q] # "idle"]_vars

\* Whatever a manifest or a restore point needs is in the store.
StoreComplete == TypeOK /\ BlobsComplete /\ PointsKept
=============================================================================

------------------------------ MODULE Campaigns ------------------------------
(***************************************************************************)
(* One campaign, from its proposal to the rollback of what it installed:   *)
(* campaigns.py, system_campaign.py, dispatch.py, dispatch_apply.py and    *)
(* the campaign side of rollback.py.                                       *)
(*                                                                         *)
(* A command is a list of operations, job[p].todo, of which one that looks *)
(* at the state may put more in front.  Every command but the creation of  *)
(* the campaign holds the campaign's lock, which is refused when taken and *)
(* released by the system when the holder dies.  The artifacts and the     *)
(* revisions of the index are files created exclusively and then filled,   *)
(* so a death in between leaves one torn.                                  *)
(*                                                                         *)
(* index.json is only read when there is no revision, and every revision   *)
(* is written before it: it is left out.  Each plan writes one target of   *)
(* its own; how an apply and a rollback replace it is Installations.       *)
(***************************************************************************)
EXTENDS Naturals, Sequences, FiniteSets, Maps

CONSTANTS
    Procs,       \* operator processes
    Orders,      \* the work orders of the campaign, all dispatchable
    Installs,    \* installation ids
    Attempts,    \* attempt numbers an operator dispatches with
    Commands,    \* the commands operators use
    Begun,
    MaxCalls,    \* bound: commands after the proposal
    MaxFaults,   \* bound: errors of the operating system
    MaxCrashes,  \* bound: process deaths
    MaxEdits     \* bound: changes of a target by somebody else

\* A file that was created and is not filled yet, or never will be.
Torn == [torn |-> TRUE]

Plans == {"auto"} \cup Orders

ASSUME CampaignAssumption ==
    /\ None \notin Procs \cup {Begun} \cup Nat \cup {"active", "rolled_back", "drifted"}
    /\ {None, Begun} \cap [plan : Plans, snap : Nat] = {}
    /\ "auto" \notin Orders /\ Attempts \subseteq Nat \ {0}

Contents == {"original", "installed", "other"}

VARIABLES
    manifest,  \* manifest.json: "none", "torn" or "whole"
    files,     \* the plans, work orders and bundle that are written
    leaves,    \* artifacts/<type>/<id>.json, by <<type, id>>
    revs,      \* revisions/: the indexes in order
    snaps,     \* the snapshots taken for the campaign, in order
    receipt,   \* installations/<id>: None, Begun or the receipt
    registry,  \* the status of each registered installation
    live,      \* what each plan's target holds
    lock,      \* who holds lock.handle
    job,       \* each process: its command and what is left of it
    calls, faults, crashes, edits

bounds == <<calls, faults, crashes, edits>>
proposal == <<manifest, files>>
record == <<leaves, revs>>
machine == <<snaps, receipt, registry, live>>
vars == <<proposal, record, machine, lock, job, bounds>>

\* A process without a command, and one that has something left to do.
Idle == [cmd |-> "none", todo |-> <<>>]
Busy(p) == job[p].todo # <<>>

Whole == {k \in DOMAIN leaves : leaves[k] # Torn}
LeafTypes == {"work-order", "plan", "snapshot", "snapshot-binding",
              "work-order-result", "receipt", "rollback"}

TypeOK ==
    /\ manifest \in {"none", "torn", "whole"}
    /\ files \subseteq Orders \cup {"plans", "bundle"}
    /\ \A k \in DOMAIN leaves : k[1] \in LeafTypes
    /\ \A k \in Whole : leaves[k].snap \in {None} \cup 1 .. Len(snaps)
    /\ \A n \in DOMAIN revs : revs[n] = Torn \/
          /\ revs[n].snap \in {None} \cup 1 .. Len(snaps)
          /\ revs[n].refs \subseteq DOMAIN leaves
    /\ \A s \in DOMAIN snaps : snaps[s].of \in [Plans -> Contents]
    /\ \A i \in Installs : receipt[i] \in {None, Begun} \/
          receipt[i] \in [plan : Plans, snap : 1 .. Len(snaps)]
    /\ registry \in [Installs -> {None, "active", "rolled_back", "drifted"}]
    /\ live \in [Plans -> Contents]
    /\ lock \in Procs \cup {None}
    /\ \A p \in Procs : Busy(p) => job[p].cmd \in Commands
    /\ lock # None => Busy(lock)
    /\ calls \in Nat /\ faults \in Nat /\ crashes \in Nat /\ edits \in Nat

Init ==
    /\ manifest = "none" /\ files = {} /\ leaves = <<>> /\ revs = <<>>
    /\ snaps = <<>> /\ live = [t \in Plans |-> "original"]
    /\ receipt = [i \in Installs |-> None] /\ registry = [i \in Installs |-> None]
    /\ lock = None /\ job = [p \in Procs |-> Idle]
    /\ calls = 0 /\ faults = 0 /\ crashes = 0 /\ edits = 0

-----------------------------------------------------------------------------
(* Commands and their operations. *)

Op(o) == [op |-> o]
At(p, o) == Busy(p) /\ Head(job[p].todo).op = o
Arg(p) == Head(job[p].todo)

Continue(p, ops) == job' = [job EXCEPT ![p].todo = ops \o Tail(@)] /\ UNCHANGED lock

\* The command ends; leaving CampaignLock frees it.
End(p) ==
    /\ job' = [job EXCEPT ![p] = Idle]
    /\ lock' = IF lock = p THEN None ELSE lock

Start(p, c, ops) ==
    /\ c \in Commands /\ ~Busy(p)
    /\ job' = [job EXCEPT ![p] = [cmd |-> c, todo |-> ops \o <<Op("done")>>]]
    /\ UNCHANGED <<proposal, record, machine, lock, faults, crashes, edits>>

Call(p, c, ops) == calls < MaxCalls /\ calls' = calls + 1 /\ Start(p, c, ops)

Done(p) == At(p, "done") /\ End(p) /\ UNCHANGED <<proposal, record, machine, bounds>>

\* An error before anything changed.
Refuse(p) == End(p) /\ UNCHANGED <<proposal, record, machine, bounds>>

\* (mutant) the lock does not exclude.
FreeAlways == TRUE

Free == lock = None

\* CampaignLock.__enter__: fail-fast.
Lock(p) ==
    /\ At(p, "lock")
    /\ \/ /\ Free /\ lock' = p
          /\ job' = [job EXCEPT ![p].todo = Tail(@)]
          /\ UNCHANGED <<proposal, record, machine, bounds>>
       \/ ~Free /\ Refuse(p)

-----------------------------------------------------------------------------
(* campaigns.py: artifacts and index. *)

Leaf(type, id, snap, what) ==
    [op |-> "leaf", key |-> <<type, id>>, body |-> [snap |-> snap, what |-> what]]

\* (mutant) an existing artifact is replaced.
RegisterLeafOver(p) ==
    /\ At(p, "leaf")
    /\ IF manifest # "whole" THEN Refuse(p)
       ELSE /\ leaves' = With(leaves, Arg(p).key, Torn)
            /\ Continue(p, <<[op |-> "fill_leaf", key |-> Arg(p).key, body |-> Arg(p).body]>>)
            /\ UNCHANGED <<proposal, revs, machine, bounds>>

\* register_leaf_artifact: created, or there already with the same content.
RegisterLeaf(p) ==
    /\ At(p, "leaf")
    /\ LET k == Arg(p).key IN
       IF manifest # "whole" THEN Refuse(p)
       ELSE IF k \notin DOMAIN leaves
       THEN /\ leaves' = With(leaves, k, Torn)
            /\ Continue(p, <<[op |-> "fill_leaf", key |-> Arg(p).key, body |-> Arg(p).body]>>)
            /\ UNCHANGED <<proposal, revs, machine, bounds>>
       ELSE IF leaves[k] = Arg(p).body
       THEN Continue(p, <<>>) /\ UNCHANGED <<proposal, record, machine, bounds>>
       ELSE Refuse(p)

FillLeaf(p) ==
    /\ At(p, "fill_leaf")
    /\ leaves' = [leaves EXCEPT ![Arg(p).key] = Arg(p).body]
    /\ Continue(p, <<>>)
    /\ UNCHANGED <<proposal, revs, machine, bounds>>

\* load_campaign_index: the highest revision, if it can be read.
Index == revs[Len(revs)]
Readable == revs # <<>> /\ Index # Torn

SnapshotsNamed == {leaves[k].snap : k \in Whole} \ {None}

\* reconstruct_campaign_index fails on a torn artifact and on two snapshots.
Foldable == Whole = DOMAIN leaves /\ \A s, t \in SnapshotsNamed : s = t
Folded == [snap |-> IF SnapshotsNamed = {} THEN None
                    ELSE CHOOSE s \in SnapshotsNamed : TRUE,
           refs |-> DOMAIN leaves]

\* _write_revision_once begins.
NewRevision(p, index) ==
    /\ revs' = Append(revs, Torn)
    /\ Continue(p, <<[op |-> "fill_revision", index |-> index]>>)
    /\ UNCHANGED <<proposal, leaves, machine, bounds>>

\* reconcile_campaign_locked.  The revision it expects was read under the lock.
Fold(p) ==
    /\ At(p, "fold")
    /\ IF ~(Readable /\ Foldable) THEN Refuse(p)
       ELSE IF Index = Folded
       THEN Continue(p, <<>>) /\ UNCHANGED <<proposal, record, machine, bounds>>
       ELSE NewRevision(p, Folded)

FillRevision(p) ==
    /\ At(p, "fill_revision")
    /\ revs' = [revs EXCEPT ![Len(revs)] = Arg(p).index]
    /\ Continue(p, <<>>)
    /\ UNCHANGED <<proposal, leaves, machine, bounds>>

\* load_campaign_index, when its absence is an error too.
Load(p) ==
    /\ At(p, "load")
    /\ IF Readable THEN Continue(p, <<>>) /\ UNCHANGED <<proposal, record, machine, bounds>>
       ELSE Refuse(p)

-----------------------------------------------------------------------------
(* propose_campaign. *)

\* The campaign id is fresh.  Every work order's file precedes its artifact.
Propose(p) ==
    /\ manifest = "none" /\ \A q \in Procs : ~Busy(q)
    /\ Start(p, "propose",
          <<Op("manifest"), Op("index"), Op("lock"), Op("load"), [op |-> "file", name |-> "plans"],
               [op |-> "orders", left |-> Orders],
            Leaf("plan", "plan", None, None), [op |-> "file", name |-> "bundle"], Op("fold")>>)
    /\ UNCHANGED calls

Manifest(p) ==
    /\ At(p, "manifest")
    /\ manifest' = "torn" /\ Continue(p, <<Op("fill_manifest")>>)
    /\ UNCHANGED <<files, record, machine, bounds>>

FillManifest(p) ==
    /\ At(p, "fill_manifest")
    /\ manifest' = "whole" /\ Continue(p, <<>>)
    /\ UNCHANGED <<files, record, machine, bounds>>

\* create_campaign reads the index, and without the lock: status may build it
\* meanwhile.
ReadFirst(p) ==
    /\ At(p, "index")
    /\ IF revs = <<>>
       THEN Continue(p, <<Op("first")>>) /\ UNCHANGED <<proposal, record, machine, bounds>>
       ELSE IF Readable
       THEN Continue(p, <<>>) /\ UNCHANGED <<proposal, record, machine, bounds>>
       ELSE Refuse(p)

FirstRevision(p) ==
    /\ At(p, "first")
    /\ LET empty == [snap |-> None, refs |-> {}] IN
       IF revs = <<>> THEN NewRevision(p, empty)
       ELSE IF revs[1] = empty
       THEN Continue(p, <<>>) /\ UNCHANGED <<proposal, record, machine, bounds>>
       ELSE Refuse(p)

File(p) ==
    /\ At(p, "file")
    /\ files' = files \cup {Arg(p).name} /\ Continue(p, <<>>)
    /\ UNCHANGED <<manifest, record, machine, bounds>>

\* Each work order in turn.
WriteOrders(p) ==
    /\ At(p, "orders")
    /\ \/ Arg(p).left = {} /\ Continue(p, <<>>)
       \/ \E o \in Arg(p).left :
             Continue(p, <<[op |-> "file", name |-> o], Leaf("work-order", o, None, None),
                           [op |-> "orders", left |-> Arg(p).left \ {o}]>>)
    /\ UNCHANGED <<proposal, record, machine, bounds>>

-----------------------------------------------------------------------------
(* apply_plan, as a campaign uses it. *)

Installation(i, t, s, by, ack) ==
    <<[op |-> "install", inst |-> i, plan |-> t, ack |-> ack],
      [op |-> "receipt", inst |-> i, body |-> [plan |-> t, snap |-> s]],
      [op |-> "registry", inst |-> i, status |-> "active"],
      Leaf("receipt", i, s, by), Op("fold")>>

\* find_chain_gaps: what an active installation left is not what this one expects.
Gap(t) == \E j \in Installs :
    registry[j] = "active" /\ receipt[j] \notin {None, Begun} /\ receipt[j].plan = t

\* An unused id, no unacknowledged gap, and the target as it was planned.
Install(p) ==
    /\ At(p, "install")
    /\ LET i == Arg(p).inst
           t == Arg(p).plan IN
       IF receipt[i] = None /\ (Arg(p).ack \/ ~Gap(t)) /\ live[t] = "original"
       THEN /\ receipt' = [receipt EXCEPT ![i] = Begun]
            /\ live' = [live EXCEPT ![t] = "installed"]
            /\ Continue(p, <<>>)
            /\ UNCHANGED <<proposal, record, snaps, registry, bounds>>
       ELSE Refuse(p)

WriteReceipt(p) ==
    /\ At(p, "receipt")
    /\ receipt' = [receipt EXCEPT ![Arg(p).inst] = Arg(p).body]
    /\ Continue(p, <<>>)
    /\ UNCHANGED <<proposal, record, snaps, registry, live, bounds>>

UpdateRegistry(p) ==
    /\ At(p, "registry")
    /\ registry' = [registry EXCEPT ![Arg(p).inst] = Arg(p).status]
    /\ Continue(p, <<>>)
    /\ UNCHANGED <<proposal, record, snaps, receipt, live, bounds>>

-----------------------------------------------------------------------------
(* apply_campaign and dispatch_work_order. *)

\* The bundle comes from the proposal; the id is new to this operator.
ApplyCampaign(p, i) ==
    /\ "bundle" \in files
    /\ Call(p, "apply", <<Op("lock"), [op |-> "bind", type |-> "snapshot", inst |-> i]>>)

Dispatch(p, o, a) ==
    /\ o \in files
    /\ Call(p, "dispatch", <<Op("lock"), [op |-> "find", order |-> o, attempt |-> a]>>)

\* _existing_result.
Recorded(o, a) == \E k \in Whole :
    k[1] = "work-order-result" /\ <<leaves[k].what[1], leaves[k].what[2]>> = <<o, a>>

\* A recorded attempt is returned.  Otherwise the plans and the target must be
\* what the proposal saw.
FindResult(p) ==
    /\ At(p, "find")
    /\ LET o == Arg(p).order
           a == Arg(p).attempt IN
       IF Whole # DOMAIN leaves THEN Refuse(p)
       ELSE IF Recorded(o, a)
       THEN Continue(p, <<>>) /\ UNCHANGED <<proposal, record, machine, bounds>>
       ELSE IF manifest = "whole" /\ "plans" \in files /\ live[o] = "original"
       THEN /\ Continue(p, <<[op |-> "bind", type |-> "snapshot-binding", order |-> o,
                              attempt |-> a]>>)
            /\ UNCHANGED <<proposal, record, machine, bounds>>
       ELSE Refuse(p)

\* What follows once the campaign is bound to snapshot s.
Rest(b, s) ==
    IF b.type = "snapshot"
    THEN <<[op |-> "covered", snap |-> s]>> \o Installation(b.inst, "auto", s, "system-apply", FALSE)
    ELSE <<[op |-> "run", order |-> b.order, attempt |-> b.attempt, snap |-> s]>>

Binding(type, s) == <<Leaf(type, s, s, None), Op("fold")>>

\* The index's snapshot, or a new one (_bind_snapshot; apply_campaign does the
\* same): taken, recorded, and folded into the index.
Bind(p) ==
    /\ At(p, "bind")
    /\ IF ~Readable \/ (Arg(p).type = "snapshot" /\ ~(Orders \cup {"plans"} \subseteq files))
       THEN Refuse(p)
       ELSE IF Index.snap # None
       THEN Continue(p, Rest(Arg(p), Index.snap)) /\ UNCHANGED <<proposal, record, machine, bounds>>
       ELSE LET s == Len(snaps) + 1 IN
            /\ snaps' = Append(snaps, [of |-> live, clean |-> \A i \in Installs : receipt[i] = None])
            /\ Continue(p, Binding(Arg(p).type, s) \o Rest(Arg(p), s))
            /\ UNCHANGED <<proposal, record, receipt, registry, live, bounds>>

\* _verify_snapshot_coverage: the snapshot holds what the plan expects.
Covered(p) ==
    /\ At(p, "covered")
    /\ IF snaps[Arg(p).snap].of["auto"] = "original"
       THEN Continue(p, <<>>) /\ UNCHANGED <<proposal, record, machine, bounds>>
       ELSE Refuse(p)

\* The provider answers: unavailable, rejected, or accepted, which needs a target
\* untouched meanwhile.  The result's id is the hash of its content.
Run(p) ==
    /\ At(p, "run")
    /\ \/ Refuse(p)
       \/ \E status \in {"quarantined", "accepted"} :
             /\ status = "accepted" => live[Arg(p).order] = "original"
             /\ LET n == Cardinality({k \in DOMAIN leaves : k[1] = "work-order-result"}) IN
                Continue(p, <<Leaf("work-order-result", n + 1, Arg(p).snap,
                                   <<Arg(p).order, Arg(p).attempt, status>>), Op("fold")>>)
             /\ UNCHANGED <<proposal, record, machine, bounds>>

-----------------------------------------------------------------------------
(* apply_dispatched_plan. *)

Accepted(o, s) == {k \in Whole : /\ k[1] = "work-order-result"
                                 /\ leaves[k].snap = s
                                 /\ leaves[k].what[1] = o /\ leaves[k].what[3] = "accepted"}

\* The reviewed plan is that of result r; dispatch_plan_binding is checked before
\* the lock is taken and again under it.
Bound(r) ==
    /\ Readable /\ Index.snap = leaves[r].snap /\ Whole = DOMAIN leaves
    /\ Accepted(leaves[r].what[1], leaves[r].snap) = {r}

DispatchApply(p, i, r, ack) ==
    /\ r[1] = "work-order-result" /\ leaves[r] # Torn /\ leaves[r].what[3] = "accepted"
    /\ Bound(r)
    /\ Call(p, "dispatch_apply",
            <<Op("lock"), [op |-> "reviewed", result |-> r, inst |-> i, ack |-> ack]>>)

Reviewed(p) ==
    /\ At(p, "reviewed")
    /\ LET r == Arg(p).result
           o == leaves[r].what[1] IN
       IF Bound(r)
       THEN /\ Continue(p, Installation(Arg(p).inst, o, leaves[r].snap, o, Arg(p).ack))
            /\ UNCHANGED <<proposal, record, machine, bounds>>
       ELSE Refuse(p)

-----------------------------------------------------------------------------
(* list_campaign_status. *)

Status(p) ==
    /\ manifest = "whole"
    /\ Call(p, "status", <<Op("lock"), Op("attach"), Op("rebuild"), Op("fold")>>)

\* (mutant) receipts whose artifact is missing are not looked for.
AttachNone(p) ==
    At(p, "attach") /\ Continue(p, <<>>) /\ UNCHANGED <<proposal, record, machine, bounds>>

\* _attach_orphan_receipts: every receipt of the campaign in turn, as of a
\* system apply.
Attach(p) ==
    /\ At(p, "attach")
    /\ Continue(p, <<[op |-> "receipts", left |-> {i \in Installs : receipt[i] \notin {None, Begun}}]>>)
    /\ UNCHANGED <<proposal, record, machine, bounds>>

AttachNext(p) ==
    /\ At(p, "receipts")
    /\ \/ Arg(p).left = {} /\ Continue(p, <<>>)
       \/ \E i \in Arg(p).left :
             Continue(p, <<Leaf("receipt", i, receipt[i].snap, "system-apply"),
                           [op |-> "receipts", left |-> Arg(p).left \ {i}]>>)
    /\ UNCHANGED <<proposal, record, machine, bounds>>

\* No revision at all: rebuild_campaign_index_locked.
Rebuild(p) ==
    /\ At(p, "rebuild")
    /\ IF Readable
       THEN Continue(p, <<>>) /\ UNCHANGED <<proposal, record, machine, bounds>>
       ELSE IF revs = <<>> /\ Foldable THEN NewRevision(p, Folded)
       ELSE Refuse(p)

-----------------------------------------------------------------------------
(* rollback_receipt, of a campaign's receipt. *)

Rollback(p, i) ==
    /\ receipt[i] \notin {None, Begun}
    /\ Call(p, "rollback", <<Op("lock"), [op |-> "committed", inst |-> i]>>)

\* (mutant) the registry is written before the artifact.
RollbackRecordEarly(i, status) ==
    <<[op |-> "registry", inst |-> i, status |-> status], Op("load"),
      Leaf("rollback", i, receipt[i].snap, status), Op("fold")>>

RollbackRecord(i, status) ==
    <<Op("load"), Leaf("rollback", i, receipt[i].snap, status), Op("fold"),
      [op |-> "registry", inst |-> i, status |-> status]>>

\* A registered installation; its rollback may have been committed before, and
\* then only the registry is repaired.
Committed(p) ==
    /\ At(p, "committed")
    /\ LET i == Arg(p).inst
           k == <<"rollback", i>> IN
       IF registry[i] = None \/ Whole # DOMAIN leaves THEN Refuse(p)
       ELSE /\ Continue(p, IF k \in Whole
                           THEN <<[op |-> "registry", inst |-> i, status |-> leaves[k].what]>>
                           ELSE IF registry[i] # "active" THEN <<>>
                           ELSE <<[op |-> "restore", inst |-> i]>>)
            /\ UNCHANGED <<proposal, record, machine, bounds>>

\* The target goes back unless it holds something else, which is drift.
Restore(p) ==
    /\ At(p, "restore")
    /\ LET i == Arg(p).inst
           t == receipt[i].plan IN
       /\ live' = [live EXCEPT ![t] = IF @ = "installed" THEN "original" ELSE @]
       /\ Continue(p, RollbackRecord(i, IF live[t] = "other" THEN "drifted" ELSE "rolled_back"))
    /\ UNCHANGED <<proposal, record, snaps, receipt, registry, bounds>>

-----------------------------------------------------------------------------
(* The environment. *)

\* What an error undoes: a file that was being created once is unlinked, an
\* apply that did not register puts its target back and removes its directory.
Undone(p) ==
    LET o == Arg(p) IN
    /\ manifest' = IF o.op = "fill_manifest" THEN "none" ELSE manifest
    /\ leaves' = IF o.op = "fill_leaf" THEN [k \in DOMAIN leaves \ {o.key} |-> leaves[k]]
                 ELSE leaves
    /\ revs' = IF o.op = "fill_revision" THEN SubSeq(revs, 1, Len(revs) - 1) ELSE revs
    /\ IF o.op = "receipt" \/ (o.op = "registry" /\ job[p].cmd # "rollback")
       THEN /\ receipt' = [receipt EXCEPT ![o.inst] = None]
            /\ live' = [live EXCEPT ![IF o.op = "receipt" THEN o.body.plan
                                      ELSE receipt[o.inst].plan] = "original"]
       ELSE UNCHANGED <<receipt, live>>

Fault(p) ==
    /\ Busy(p) /\ ~At(p, "done") /\ faults < MaxFaults /\ faults' = faults + 1
    /\ Undone(p) /\ End(p)
    /\ UNCHANGED <<files, snaps, registry, calls, crashes, edits>>

Crash(p) ==
    /\ Busy(p) /\ crashes < MaxCrashes /\ crashes' = crashes + 1
    /\ End(p)
    /\ UNCHANGED <<proposal, record, machine, calls, faults, edits>>

Edit(t, c) ==
    /\ edits < MaxEdits /\ edits' = edits + 1
    /\ live[t] # c /\ live' = [live EXCEPT ![t] = c]
    /\ UNCHANGED <<proposal, record, snaps, receipt, registry, lock, job, calls, faults, crashes>>

Step(p) ==
    \/ Lock(p) \/ Done(p) \/ RegisterLeaf(p) \/ FillLeaf(p)
    \/ Fold(p) \/ FillRevision(p) \/ Load(p)
    \/ Manifest(p) \/ FillManifest(p) \/ ReadFirst(p) \/ FirstRevision(p) \/ File(p)
    \/ Install(p) \/ WriteReceipt(p) \/ UpdateRegistry(p)
    \/ FindResult(p) \/ Bind(p) \/ Covered(p) \/ Run(p) \/ Reviewed(p)
    \/ WriteOrders(p) \/ Attach(p) \/ AttachNext(p) \/ Rebuild(p) \/ Committed(p) \/ Restore(p)

Next ==
    \/ \E p \in Procs : Propose(p) \/ Status(p) \/ Step(p) \/ Fault(p) \/ Crash(p)
    \/ \E p \in Procs, i \in Installs : ApplyCampaign(p, i) \/ Rollback(p, i)
    \/ \E p \in Procs, o \in Orders, a \in Attempts : Dispatch(p, o, a)
    \/ \E p \in Procs, i \in Installs, r \in DOMAIN leaves, ack \in BOOLEAN :
          DispatchApply(p, i, r, ack)
    \/ \E t \in Plans, c \in Contents : Edit(t, c)

Spec == Init /\ [][Next]_vars

-----------------------------------------------------------------------------
(* What is true of a campaign. *)

\* The revisions but one that is being written.
Revisions == IF revs # <<>> /\ Index = Torn THEN SubSeq(revs, 1, Len(revs) - 1) ELSE revs
Last(s) == s[Len(s)]
Doing(p, c) == Busy(p) /\ job[p].cmd = c

\* The artifacts and the revisioned index are the abstract record: nothing is
\* replaced or forgotten, and each revision is what the artifacts said
\* (campaigns.py; "the mutable record is an index, never the sole authority for
\* anything", roadmap.md:117).
Ledger == INSTANCE CampaignLedger WITH
    artifacts <- {<<k, leaves[k]>> : k \in Whole},
    revisions <- Revisions
LedgerSpec == Ledger!LedgerSpec

\* The index names a snapshot before anything is installed, and that snapshot was
\* taken before anything was: it is the restore point of everything the campaign
\* did ("record the snapshot_id into the campaign record before the first
\* mutation", roadmap.md:86-87).
SnapshotFirst == \A i \in Installs : receipt[i] # None =>
    /\ Revisions # <<>> /\ Last(Revisions).snap # None
    /\ LET s == Last(Revisions).snap IN
       /\ snaps[s].clean
       /\ receipt[i] # Begun =>
             /\ receipt[i].snap = s
             /\ receipt[i].plan = "auto" => snaps[s].of["auto"] = "original"

\* While no command fails, applies and dispatches that race bind the campaign to
\* one snapshot, and its artifacts can always be folded (CampaignLock around
\* _bind_snapshot and apply_campaign).
OneSnapshot == faults = 0 /\ crashes = 0 => Cardinality(SnapshotsNamed) <= 1

\* An attempt of a work order has one result, however often and by however many
\* operators it is dispatched (_existing_result).
AttemptOnce ==
    LET Results == {k \in Whole : k[1] = "work-order-result"}
        Attempt(k) == <<leaves[k].what[1], leaves[k].what[2]>> IN
    \A k, l \in Results : Attempt(k) = Attempt(l) => k = l

\* A status that reports no error has repaired the record: every receipt of the
\* campaign has its artifact, and the index names every artifact
\* (list_campaign_status, _attach_orphan_receipts).
StatusTruth == \A p \in Procs : At(p, "done") /\ Doing(p, "status") =>
    /\ Readable /\ Index.refs = Whole
    /\ \A i \in Installs : receipt[i] \notin {None, Begun} => <<"receipt", i>> \in Whole

\* A rollback the registry reports is on record, with the same outcome
\* (_rollback_loaded_receipt writes the artifact first).
RollbackEvidence == \A i \in Installs : registry[i] \in {"rolled_back", "drifted"} =>
    <<"rollback", i>> \in Whole /\ leaves[<<"rollback", i>>].what = registry[i]

\* A rollback on record never restores anything again
\* (_committed_campaign_rollback).
RollbackOnce == \A p \in Procs :
    At(p, "restore") => <<"rollback", Arg(p).inst>> \notin DOMAIN leaves

\* What is done once stays done once, whatever is repeated: one snapshot, one
\* result of an attempt, one rollback of an installation.
DoneOnce == TypeOK /\ OneSnapshot /\ AttemptOnce /\ RollbackOnce

\* The evidence of a change is on record before the change is: the snapshot
\* before an installation, the rollback's artifact before the registry.
EvidenceFirst == SnapshotFirst /\ RollbackEvidence
=============================================================================

---------------------------- MODULE ClaudeUpgrade ----------------------------
(***************************************************************************)
(* Journaled package upgrades over the Claude plugin store: the            *)
(* coordinator of package_transactions.py, the executor of                 *)
(* claude_package_upgrade.py it drives, the commands of                    *)
(* package_upgrade_cli.py and the two locks of package_state.py.           *)
(*                                                                         *)
(* Several operator processes upgrade, recover and roll back at the same   *)
(* time.  The store is one restore unit that holds every package, so the   *)
(* backup of one package's upgrade is also a backup of all the others.     *)
(* What restore_items and resume_restore do inside is the subject of       *)
(* RestoreJournal; here a restore takes the store away, puts the backup in *)
(* its place, and may stop in between.                                     *)
(***************************************************************************)
EXTENDS Naturals, FiniteSets

CONSTANTS
    Procs,       \* operator processes
    Packages,    \* the parts of the one store that change on their own
    Requests,    \* transaction ids: an operation id and an attempt
    PackageOf,   \* the package of each request
    TargetOf,    \* the version each request asks for
    Versions,    \* package identities: version, tree and scope
    Away,        \* the store while a restore has displaced it
    None,
    MaxCalls,    \* bound: commands issued
    MaxFaults,   \* bound: errors of the provider or the operating system
    MaxCrashes,  \* bound: process deaths
    MaxEdits     \* bound: changes of the store by Claude or its user

ASSUME RequestAssumption ==
    /\ PackageOf \in [Requests -> Packages]
    /\ TargetOf \in [Requests -> Versions]

VARIABLES
    store,    \* the plugin store, its metadata and settings
    journal,  \* transactions/package-upgrades/<package>/<request>.json
    point,    \* claude-restore-points/<request>.json
    restore,  \* the restore journal its point names: none, dir or journal
    pkgLock, storeLock,
    pc, job,  \* each process: where it is, and its command
    runs,     \* history: provider updates per request
    known,    \* history: stores an update recorded or an operator reviewed
    calls, faults, crashes, edits

files == <<store, journal, point, restore>>
locks == <<pkgLock, storeLock>>
histories == <<runs, known>>
bounds == <<calls, faults, crashes, edits>>
vars == <<files, locks, pc, job, histories, bounds>>

Stores == [Packages -> Versions]
Terminal == {"verified", "rolled-back"}
Unfinished == {"prepared", "provider-update-returned", "rollback-requested",
               "rollback-failed"}
PCs == {"idle", "load", "prepare", "update", "backup", "run", "after_ok", "after_bad",
        "returned", "verify", "roll", "lock", "begin", "capture", "journal", "out", "in",
        "verify_restore", "settle", "record", "finish"}

NoJournal == [status |-> "none", pre |-> None]
NoRestore == [state |-> "none", original |-> None]
Journals == [status : Terminal \cup Unfinished, pre : Versions]
Points == [pre : Versions, before : Stores, after : Stores \cup {Away, None},
           status : {"prepared", "update-returned", "restore-started", "restored"}]
Restores == [state : {"none", "dir", "journal"}, original : Stores \cup {Away, None}]

\* cmd, req and the pre-state of the request are what the command began with;
\* bound is --expected-state of rollback or expected_current of recover; out is
\* the status the command is about to write.
Jobs == [cmd : {"upgrade", "recover", "rollback"}, req : Requests, pre : Versions,
         bound : Stores \cup Versions \cup {None, Away},
         out : Terminal \cup {"rollback-failed", None}]

ASSUME NoneAssumption ==
    /\ None \notin Versions \cup Stores \cup Procs \cup Points \cup Jobs
    /\ None \notin Terminal \cup Unfinished
    /\ Away \notin Stores /\ Away # None

TypeOK ==
    /\ store \in Stores \cup {Away}
    /\ journal \in [Requests -> Journals \cup {NoJournal}]
    /\ point \in [Requests -> Points \cup {None}]
    /\ restore \in [Requests -> Restores]
    /\ pkgLock \in [Packages -> Procs \cup {None}]
    /\ storeLock \in Procs \cup {None}
    /\ pc \in [Procs -> PCs]
    /\ job \in [Procs -> Jobs \cup {None}]
    /\ runs \in [Requests -> Nat]
    /\ known \in [Requests -> SUBSET (Stores \cup {Away})]
    /\ calls \in Nat /\ faults \in Nat /\ crashes \in Nat /\ edits \in Nat

Init ==
    /\ store \in Stores
    /\ journal = [r \in Requests |-> NoJournal]
    /\ point = [r \in Requests |-> None]
    /\ restore = [r \in Requests |-> NoRestore]
    /\ pkgLock = [k \in Packages |-> None] /\ storeLock = None
    /\ pc = [p \in Procs |-> "idle"] /\ job = [p \in Procs |-> None]
    /\ runs = [r \in Requests |-> 0] /\ known = [r \in Requests |-> {}]
    /\ calls = 0 /\ faults = 0 /\ crashes = 0 /\ edits = 0

-----------------------------------------------------------------------------
Req(p) == job[p].req
Package(p) == PackageOf[Req(p)]
Target(p) == TargetOf[Req(p)]

\* The authoritative observation; it fails while the store is away.
Seen(k) == IF store = Away THEN None ELSE store[k]

\* verify_rollback: the whole restore unit is as it was captured; true before
\* there is a restore point.
Restored(r) == point[r] = None \/ store = point[r].before

Goto(p, l) == pc' = [pc EXCEPT ![p] = l]

Unlock(p) == storeLock' = IF storeLock = p THEN None ELSE storeLock

\* The command ends and the locks it holds are released.
End(p) ==
    /\ Goto(p, "idle") /\ job' = [job EXCEPT ![p] = None]
    /\ pkgLock' = [k \in Packages |-> IF pkgLock[k] = p THEN None ELSE pkgLock[k]]
    /\ Unlock(p)

Fault == faults < MaxFaults /\ faults' = faults + 1

\* _save and _finish: one atomic write of status and receipt.
Save(p, status) ==
    journal' = [journal EXCEPT ![Req(p)] = [status |-> status, pre |-> job[p].pre]]

-----------------------------------------------------------------------------
(* The commands. *)

\* A command begins: what it read before it takes a lock stays with it.
Call(p, c, r, preState, b) ==
    /\ pc[p] = "idle" /\ calls < MaxCalls /\ calls' = calls + 1
    /\ job' = [job EXCEPT ![p] = [cmd |-> c, req |-> r, pre |-> preState, bound |-> b,
                                  out |-> None]]
    /\ Goto(p, IF c = "rollback" THEN "lock" ELSE "load")
    /\ known' = [known EXCEPT ![r] = IF c = "rollback" /\ b # None THEN @ \cup {b} ELSE @]
    /\ UNCHANGED <<files, locks, runs, faults, crashes, edits>>

\* (mutant) the pre-state is taken without an observation.
UpgradeUnobserved(p, r) ==
    Call(p, "upgrade", r,
         IF point[r] = None THEN Seen(PackageOf[r]) ELSE point[r].pre, None)

\* packages upgrade: an operation that has a restore point keeps its pre-state,
\* a new one takes the one just observed.
Upgrade(p, r) ==
    /\ store # Away
    /\ Call(p, "upgrade", r,
            IF point[r] = None THEN Seen(PackageOf[r]) ELSE point[r].pre, None)

\* recover_package_upgrade, for the state its caller observed.
Recover(p, r) ==
    /\ store # Away /\ journal[r] # NoJournal
    /\ Call(p, "recover", r, journal[r].pre, Seen(PackageOf[r]))

\* packages rollback, with or without the digest of a reviewed state.
Rollback(p, r) ==
    /\ point[r] # None
    /\ \E b \in {None, store} : Call(p, "rollback", r, point[r].pre, b)

-----------------------------------------------------------------------------
(* execute_package_upgrade and recover_package_upgrade. *)

\* (mutant) only the journal of this operation is looked at.
BlockedByOwn(p) == journal[Req(p)] # NoJournal /\ journal[Req(p)].pre # job[p].pre

\* _load refuses while another operation of the package is unfinished, and a
\* journal of this operation made for another pre-state.
Blocked(p) ==
    \/ \E r \in Requests \ {Req(p)} :
          PackageOf[r] = Package(p) /\ journal[r].status \in Unfinished
    \/ journal[Req(p)] # NoJournal /\ journal[Req(p)].pre # job[p].pre

\* PackageLock, _load and _observe; the lock is refused, never waited for.
Admitted(p) == pkgLock[Package(p)] = None /\ ~Blocked(p) /\ Seen(Package(p)) # None

\* (mutant) an interrupted operation is closed on the package's identity alone.
ReplayIdentity(p) ==
    LET status == journal[Req(p)].status
        atPre == Seen(Package(p)) = job[p].pre
        atTarget == Seen(Package(p)) = Target(p)
    IN  IF status = "none" THEN (IF atPre THEN "prepare" ELSE "refuse")
        ELSE IF status = "verified" THEN (IF atTarget THEN "verified" ELSE "refuse")
        ELSE IF status = "rollback-failed" THEN "refuse"
        ELSE IF atPre THEN "rolled-back"
        ELSE IF status \in {"prepared", "provider-update-returned"} /\ atTarget
        THEN "verified"
        ELSE "refuse"

\* What the journal and the observation decide: a status to write, the next
\* step, or "refuse" (PackageUpgradeRecoveryRequired).
Replay(p) ==
    LET status == journal[Req(p)].status
        atPre == Seen(Package(p)) = job[p].pre
        atTarget == Seen(Package(p)) = Target(p)
    IN  IF status = "none" THEN (IF atPre THEN "prepare" ELSE "refuse")
        ELSE IF status = "verified" THEN (IF atTarget THEN "verified" ELSE "refuse")
        ELSE IF status = "rollback-failed" THEN "refuse"
        ELSE IF atPre THEN (IF Restored(Req(p)) THEN "rolled-back" ELSE "refuse")
        ELSE IF status \in {"prepared", "provider-update-returned"} /\ atTarget
        THEN "verified"
        ELSE "refuse"

Recovery(p) ==
    IF journal[Req(p)].status \notin Unfinished \/ Seen(Package(p)) # job[p].bound
    THEN "refuse"
    ELSE IF Seen(Package(p)) = job[p].pre /\ Restored(Req(p)) THEN "rolled-back" ELSE "roll"

Decision(p) == IF job[p].cmd = "recover" THEN Recovery(p) ELSE Replay(p)

Load(p) ==
    /\ pc[p] = "load"
    /\ \/ /\ ~Admitted(p) \/ Decision(p) = "refuse"
          /\ End(p)
       \/ /\ Admitted(p) /\ Decision(p) # "refuse"
          /\ pkgLock' = [pkgLock EXCEPT ![Package(p)] = p]
          /\ IF Decision(p) \in Terminal
             THEN job' = [job EXCEPT ![p].out = Decision(p)] /\ Goto(p, "finish")
             ELSE Goto(p, Decision(p)) /\ UNCHANGED job
          /\ UNCHANGED storeLock
    /\ UNCHANGED <<files, histories, bounds>>

Prepare(p) ==
    /\ pc[p] = "prepare"
    /\ Save(p, "prepared") /\ Goto(p, "update")
    /\ UNCHANGED <<store, point, restore, locks, job, histories, bounds>>

\* (mutant) the update does not take the store lock.
UpdateUnlocked(p) ==
    /\ pc[p] = "update"
    /\ IF storeLock = None /\ point[Req(p)] = None /\ Seen(Package(p)) = job[p].pre
       THEN Goto(p, "backup") ELSE Goto(p, "roll")
    /\ UNCHANGED <<files, locks, job, histories, bounds>>

\* update_exact: the store lock, no earlier point, an unchanged package.
Update(p) ==
    /\ pc[p] = "update"
    /\ IF storeLock = None /\ point[Req(p)] = None /\ Seen(Package(p)) = job[p].pre
       THEN storeLock' = p /\ Goto(p, "backup")
       ELSE Goto(p, "roll") /\ UNCHANGED storeLock
    /\ UNCHANGED <<files, pkgLock, job, histories, bounds>>

\* The snapshot, the comparison with what was read first, and the durable
\* restore point; an error leaves no point and the provider is not called.
Backup(p) ==
    /\ pc[p] = "backup"
    /\ \/ /\ Seen(Package(p)) = job[p].pre
          /\ point' = [point EXCEPT ![Req(p)] =
                 [pre |-> job[p].pre, before |-> store, after |-> None, status |-> "prepared"]]
          /\ Goto(p, "run") /\ UNCHANGED <<storeLock, faults>>
       \/ /\ Fault /\ storeLock' = None /\ Goto(p, "roll") /\ UNCHANGED point
    /\ UNCHANGED <<store, journal, restore, pkgLock, job, histories, calls, crashes, edits>>

\* (mutant) a failed update is tried again.
RunRetried(p) ==
    /\ pc[p] = "run"
    /\ \E v \in Versions : store' = [store EXCEPT ![Package(p)] = v]
    /\ runs' = [runs EXCEPT ![Req(p)] = @ + 1]
    /\ \/ Goto(p, "after_ok") /\ UNCHANGED faults
       \/ Goto(p, "run") /\ Fault
    /\ UNCHANGED <<journal, point, restore, locks, job, known, calls, crashes, edits>>

\* `claude plugin update`: Claude selects the version.
Run(p) ==
    /\ pc[p] = "run"
    /\ \E v \in Versions : store' = [store EXCEPT ![Package(p)] = v]
    /\ runs' = [runs EXCEPT ![Req(p)] = @ + 1]
    /\ \/ Goto(p, "after_ok") /\ UNCHANGED faults
       \/ Goto(p, "after_bad") /\ Fault
    /\ UNCHANGED <<journal, point, restore, locks, job, known, calls, crashes, edits>>

\* The finally clause: what the update left is recorded as its own.
After(p) ==
    /\ pc[p] \in {"after_ok", "after_bad"}
    /\ storeLock' = None
    /\ \/ /\ point' = [point EXCEPT ![Req(p)].after = store,
                                    ![Req(p)].status = "update-returned"]
          /\ known' = [known EXCEPT ![Req(p)] = @ \cup {store}]
          /\ Goto(p, IF pc[p] = "after_ok" THEN "returned" ELSE "roll")
          /\ UNCHANGED faults
       \/ Fault /\ Goto(p, "roll") /\ UNCHANGED <<point, known>>
    /\ UNCHANGED <<store, journal, restore, pkgLock, job, runs, calls, crashes, edits>>

Returned(p) ==
    /\ pc[p] = "returned"
    /\ Save(p, "provider-update-returned") /\ Goto(p, "verify")
    /\ UNCHANGED <<store, point, restore, locks, job, histories, bounds>>

Verify(p) ==
    /\ pc[p] = "verify"
    /\ IF Seen(Package(p)) = Target(p)
       THEN job' = [job EXCEPT ![p].out = "verified"] /\ Goto(p, "finish")
       ELSE Goto(p, "roll") /\ UNCHANGED job
    /\ UNCHANGED <<files, locks, histories, bounds>>

\* _rollback: the executor's rollback, then the observation that counts.
Roll(p) ==
    /\ pc[p] = "roll"
    /\ Save(p, "rollback-requested") /\ Goto(p, "lock")
    /\ UNCHANGED <<store, point, restore, locks, job, histories, bounds>>

Settle(p) ==
    /\ pc[p] = "settle"
    /\ job' = [job EXCEPT ![p].out = IF Seen(Package(p)) = job[p].pre /\ Restored(Req(p))
                                 THEN "rolled-back" ELSE "rollback-failed"]
    /\ Goto(p, "finish")
    /\ UNCHANGED <<files, locks, histories, bounds>>

Finish(p) ==
    /\ pc[p] = "finish"
    /\ Save(p, job[p].out) /\ End(p)
    /\ UNCHANGED <<store, point, restore, histories, bounds>>

-----------------------------------------------------------------------------
(* rollback_exact, called by _rollback or by the command line. *)

\* An error ends the command of the operator; _rollback survives it.
Leave(p, done) ==
    IF job[p].cmd = "rollback" /\ ~done
    THEN End(p)
    ELSE /\ Goto(p, IF job[p].cmd = "rollback" THEN "record" ELSE "settle")
         /\ Unlock(p) /\ UNCHANGED <<pkgLock, job>>

\* The restore goes on, under the store lock.
Stay(p, l) == Goto(p, l) /\ UNCHANGED <<locks, job>>

XLock(p) ==
    /\ pc[p] = "lock"
    /\ IF storeLock = None /\ point[Req(p)] # None
       THEN storeLock' = p /\ Goto(p, "begin") /\ UNCHANGED <<pkgLock, job>>
       ELSE Leave(p, FALSE)
    /\ UNCHANGED <<files, histories, bounds>>

\* A restore that has begun is resumed, if every object is in a place its
\* journal knows.
MustResume(r) == point[r].status = "restore-started" /\ restore[r].state # "none"
Resumable(r) == /\ restore[r].state = "journal"
                /\ store \in {restore[r].original, point[r].before, Away}
XResume(p) ==
    /\ pc[p] = "begin" /\ MustResume(Req(p))
    /\ IF Resumable(Req(p))
       THEN Stay(p, IF store = point[Req(p)].before THEN "verify_restore"
                    ELSE IF store = Away THEN "in" ELSE "out")
       ELSE Leave(p, FALSE)
    /\ UNCHANGED <<files, histories, bounds>>

\* A new restore: nothing to do, or the store is as the update left it, or as
\* the caller reviewed it, which is first recorded in the point.
Reviewed(p) == job[p].cmd = "rollback" /\ job[p].bound # None
Begins(p) == pc[p] = "begin" /\ ~MustResume(Req(p))
Differs(p) == store # point[Req(p)].before

XReview(p) ==
    /\ Begins(p) /\ Differs(p) /\ Reviewed(p)
    /\ job[p].bound = store /\ point[Req(p)].after # store
    /\ point' = [point EXCEPT ![Req(p)].after = store]
    /\ UNCHANGED <<store, journal, restore, locks, pc, job, histories, bounds>>

XRefuse(p) ==
    /\ Begins(p)
    /\ \/ ~Differs(p) /\ Leave(p, TRUE)
       \/ /\ Differs(p)
          /\ IF Reviewed(p) THEN job[p].bound # store ELSE point[Req(p)].after # store
          /\ Leave(p, FALSE)
    /\ UNCHANGED <<files, histories, bounds>>

\* (mutant) the recorded state is refreshed without a review.
XBeginRefreshed(p) ==
    /\ Begins(p) /\ Differs(p)
    /\ point' = [point EXCEPT ![Req(p)].after = store, ![Req(p)].status = "restore-started"]
    /\ restore' = [restore EXCEPT ![Req(p)] = NoRestore]
    /\ Stay(p, "capture")
    /\ UNCHANGED <<store, journal, histories, bounds>>

XBegin(p) ==
    /\ Begins(p) /\ Differs(p) /\ point[Req(p)].after = store
    /\ Reviewed(p) => job[p].bound = store
    /\ point' = [point EXCEPT ![Req(p)].status = "restore-started"]
    /\ restore' = [restore EXCEPT ![Req(p)] = NoRestore]
    /\ Stay(p, "capture")
    /\ UNCHANGED <<store, journal, histories, bounds>>

\* restore_items creates the transaction directory, and journal.json only when
\* everything is captured; an error before that removes the directory.
XCapture(p) ==
    /\ pc[p] = "capture"
    /\ IF store = point[Req(p)].after
       THEN /\ restore' = [restore EXCEPT ![Req(p)].state = "dir"]
            /\ Stay(p, "journal")
       ELSE Leave(p, FALSE) /\ UNCHANGED restore
    /\ UNCHANGED <<store, journal, point, histories, bounds>>

XJournal(p) ==
    /\ pc[p] = "journal"
    /\ \/ /\ restore' = [restore EXCEPT ![Req(p)] = [state |-> "journal", original |-> store]]
          /\ Stay(p, "out") /\ UNCHANGED faults
       \/ /\ Fault /\ Leave(p, FALSE)
          /\ restore' = [restore EXCEPT ![Req(p)] = NoRestore]
    /\ UNCHANGED <<store, journal, point, histories, calls, crashes, edits>>

\* The two moves of a swap.  A failed one is undone, or left to a resume.
XOut(p) ==
    /\ pc[p] = "out"
    /\ \/ store' = Away /\ Stay(p, "in") /\ UNCHANGED faults
       \/ Fault /\ Leave(p, FALSE) /\ UNCHANGED store
    /\ UNCHANGED <<journal, point, restore, histories, calls, crashes, edits>>

XIn(p) ==
    /\ pc[p] = "in"
    /\ \/ /\ store' = point[Req(p)].before
          /\ Stay(p, "verify_restore") /\ UNCHANGED faults
       \/ /\ Fault /\ Leave(p, FALSE)
          /\ store' \in {store, restore[Req(p)].original}
    /\ UNCHANGED <<journal, point, restore, histories, calls, crashes, edits>>

XVerify(p) ==
    /\ pc[p] = "verify_restore"
    /\ IF Restored(Req(p)) /\ Seen(Package(p)) = job[p].pre
       THEN point' = [point EXCEPT ![Req(p)].status = "restored"] /\ Leave(p, TRUE)
       ELSE Leave(p, FALSE) /\ UNCHANGED point
    /\ UNCHANGED <<store, journal, restore, histories, bounds>>

\* record_package_restoration, after a rollback by command.
Record(p) ==
    /\ pc[p] = "record"
    /\ IF Admitted(p) /\ journal[Req(p)] # NoJournal
          /\ Seen(Package(p)) = job[p].pre /\ Restored(Req(p))
       THEN /\ pkgLock' = [pkgLock EXCEPT ![Package(p)] = p]
            /\ job' = [job EXCEPT ![p].out = "rolled-back"] /\ Goto(p, "finish")
            /\ UNCHANGED storeLock
       ELSE End(p)
    /\ UNCHANGED <<files, histories, bounds>>

-----------------------------------------------------------------------------
(* The environment. *)

\* A process dies, or an error escapes its command (a failed write of the
\* journal): its locks are released, its memory is lost.
Crash(p) ==
    /\ pc[p] # "idle" /\ crashes < MaxCrashes /\ crashes' = crashes + 1
    /\ End(p)
    /\ UNCHANGED <<files, histories, calls, faults, edits>>

\* Claude or its user changes the store.  README.md:260 keeps them idle
\* while a command runs.
Edit ==
    /\ \A p \in Procs : pc[p] = "idle"
    /\ store # Away /\ edits < MaxEdits /\ edits' = edits + 1
    /\ \E k \in Packages, v \in Versions :
          v # store[k] /\ store' = [store EXCEPT ![k] = v]
    /\ UNCHANGED <<journal, point, restore, locks, pc, job, histories, calls, faults, crashes>>

Coordinate(p) == \/ Load(p) \/ Prepare(p) \/ Update(p) \/ Backup(p) \/ Run(p) \/ After(p)
                 \/ Returned(p) \/ Verify(p) \/ Roll(p) \/ Settle(p) \/ Finish(p)
Restoring(p) == \/ XLock(p) \/ XResume(p) \/ XReview(p) \/ XRefuse(p) \/ XBegin(p)
                \/ XCapture(p) \/ XJournal(p) \/ XOut(p) \/ XIn(p) \/ XVerify(p)
                \/ Record(p)
Command(p, r) == Upgrade(p, r) \/ Recover(p, r) \/ Rollback(p, r)

Next ==
    \/ \E p \in Procs, r \in Requests : Command(p, r)
    \/ \E p \in Procs : Coordinate(p) \/ Restoring(p) \/ Crash(p)
    \/ Edit

Spec == Init /\ [][Next]_vars

-----------------------------------------------------------------------------
(* Properties. *)

\* "Replaying an interrupted call never repeats an update"
\* (package_transactions.py:208): whatever crashes, errors, retries, recoveries
\* and rollbacks of whichever processes, one request calls Claude at most once.
AtMostOnce == \A r \in Requests : runs[r] <= 1

\* While Claude runs, its request is journaled and its restore point holds the
\* store as it is: the journal, the point and the store agree across the two
\* locks, so the backup is neither missing nor stale.
RunIsBacked ==
    \A p \in Procs : pc[p] = "run" =>
        /\ journal[Req(p)] = [status |-> "prepared", pre |-> job[p].pre]
        /\ point[Req(p)] # None
        /\ point[Req(p)].before = store /\ point[Req(p)].pre = Seen(Package(p))

\* A package has at most one unfinished operation, so a crash never leaves two
\* of them to reconcile against one another.
OneUnfinished ==
    \A r, s \in Requests :
        (PackageOf[r] = PackageOf[s] /\ journal[r].status \in Unfinished
            /\ journal[s].status \in Unfinished) => r = s

\* What a restore takes away is what its own update was seen to leave, what the
\* operator reviewed, or what it put there: across crashes, retries and the
\* upgrades of other packages, a later change is never overwritten unseen
\* (README.md:260-264).
NoLoss ==
    [][\A p \in Procs :
          (pc[p] \in {"out", "in"} /\ store' # store /\ store # Away) =>
              store \in known[Req(p)] \cup {point[Req(p)].before}]_vars

\* A "verified" receipt is written while the package is at the target and a
\* restore point can undo the update; "rolled-back" while the package, and
\* everything captured with it, is as before the update.
TruthfulReceipt ==
    [][\A r \in Requests :
          /\ journal'[r].status = "verified" /\ journal[r].status # "verified" =>
                Seen(PackageOf[r]) = TargetOf[r] /\ point[r] # None
          /\ journal'[r].status = "rolled-back" /\ journal[r].status # "rolled-back" =>
                Seen(PackageOf[r]) = journal[r].pre /\ Restored(r)]_vars

=============================================================================

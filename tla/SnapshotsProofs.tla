--------------------------- MODULE SnapshotsProofs ---------------------------
(***************************************************************************)
(* What Snapshots promises, proved for every set of processes, files and   *)
(* contents and every bound, where one process at most takes snapshots     *)
(* without the lock of retention while it runs one itself (OneOperator):   *)
(* two operators at once do lose blobs, as the README says.                *)
(*                                                                         *)
(* That no blob of a manifest is missing needs what is not on file yet: a  *)
(* snapshot being taken has its blobs from the first file to the manifest, *)
(* and a collection knows every manifest from the moment it read them.     *)
(* Both hold because who captures and who collects exclude one another.    *)
(***************************************************************************)
EXTENDS Snapshots, TLAPS, WellFoundedInduction

\* `apu snapshot create` runs retention after its snapshot, and neither it nor
\* the snapshot of a campaign takes the lock while it captures: one operator at
\* a time is what keeps them apart.
OneOperator ==
    \A p, q \in Procs :
        p # q /\ "create" \in Commands[p] => Commands[q] \cap {"create", "campaign"} = {}

Capturing == {"capture", "validate", "write"}
Retaining == {"list", "prune", "collect", "delete"}
Restoring == {"load", "materialize", "swap"}

Fields == {"cmd", "id", "got", "was", "todo", "refs"}

\* Which command can be at which line.
CommandAt(p) ==
    /\ pc[p] # "idle" => /\ DOMAIN job[p] = Fields
                         /\ job[p].cmd \in Commands[p] /\ job[p].id \in 1 .. clock
                         /\ DOMAIN job[p].got \subseteq Captured
                         /\ job[p].got \in [DOMAIN job[p].got -> Objects]
    /\ pc[p] \in Capturing => job[p].cmd \in {"create", "campaign", "upgrade"}
    /\ pc[p] \in {"lock"} \cup Retaining => job[p].cmd = "create"
    /\ pc[p] = "point" => job[p].cmd = "upgrade"
    /\ pc[p] \in {"validate", "write", "materialize", "swap"} => DOMAIN job[p].got = Captured
    /\ pc[p] \in Restoring => DOMAIN job[p].was \subseteq Files
    /\ pc[p] = "materialize" => job[p].todo \subseteq SUBSET Files

\* Retention and the backup of an upgrade hold the lock.
LockHeld(p) ==
    pc[p] \in Retaining \/ (pc[p] # "idle" /\ job[p].cmd = "upgrade") => retention = p

\* A snapshot being taken has the blobs of what it has seen, and its point waits
\* for a manifest that is there.
HasBlobs(p) ==
    /\ pc[p] \in Capturing =>
          \A f \in DOMAIN job[p].got : job[p].got[f] \in blobs \cup {Absent}
    /\ pc[p] = "point" => job[p].id \in DOMAIN manifests

\* What retention is about to drop: no manifest of a restore point, and no blob a
\* manifest names.  What it has looked at already is named by one.
DropsGarbage(p) ==
    /\ pc[p] = "prune" => /\ job[p].todo \subseteq DOMAIN manifests
                          /\ job[p].todo \cap points = {}
    /\ pc[p] = "delete" => /\ job[p].refs = Referenced
                           /\ blobs \ job[p].todo \subseteq Referenced

Own(p) == CommandAt(p) /\ LockHeld(p) /\ HasBlobs(p) /\ DropsGarbage(p)

StoreTypes ==
    /\ live \in [Files -> Objects] /\ blobs \subseteq Contents
    /\ DOMAIN manifests \subseteq 1 .. clock
    /\ \A i \in DOMAIN manifests : manifests[i] \in [Captured -> Objects]
    /\ points \subseteq 1 .. clock /\ index \in 1 .. clock \cup {None}
ProcTypes ==
    /\ retention \in Procs \cup {None} /\ clock \in Nat
    /\ pc \in [Procs -> PCs] /\ DOMAIN job = Procs
    /\ retention # None => pc[retention] # "idle"
    /\ calls \in Nat /\ stops \in Nat /\ edits \in Nat

IInv ==
    /\ StoreTypes /\ ProcTypes /\ BlobsComplete /\ PointsKept
    /\ \A p \in Procs : Own(p)

LEMMA InvImplies == IInv => StoreComplete
  BY DEF IInv, Own, CommandAt, StoreTypes, ProcTypes, StoreComplete, TypeOK, Captured

-----------------------------------------------------------------------------
(* Facts about maps, maxima and the shared state. *)

LEMMA EmptyMap == DOMAIN <<>> = {} /\ \A S : <<>> \in [{} -> S]
  OBVIOUS

\* The least n - x is of the greatest x.
LEMMA MaxMember ==
    ASSUME NEW n \in Nat, NEW S, S \subseteq 1 .. n, S # {}
    PROVE  Max(S) \in S
<1> DEFINE Less == {ss \in Nat \X Nat : ss[1] < ss[2]}
           Gaps == {n - x : x \in S}
<1>1. IsWellFoundedOn(Less, Nat)  BY NatLessThanWellFounded DEF OpToRel
<1>2. \A x \in S : n - x \in Nat
  OBVIOUS
<1>3. Gaps \subseteq Nat  BY <1>2
<1>4. Gaps # {}  OBVIOUS
<1>5. PICK m \in Gaps : \A y \in Gaps : ~ (<<y, m>> \in Less)
  <2> HIDE DEF Less, Gaps
  <2> QED  BY <1>1, <1>3, <1>4, WFMin
<1>6. PICK x \in S : m = n - x  BY <1>5
<1>7. \A y \in S : x >= y
  <2> TAKE y \in S
  <2>1. n - y \in Gaps  OBVIOUS
  <2>2. ~ (n - y < m)  BY <1>3, <1>5, <2>1
  <2> QED  BY <1>6, <2>2
<1> QED  BY <1>6, <1>7 DEF Max

-----------------------------------------------------------------------------
(* What a step of one process leaves to the others. *)

LEMMA Exclusion ==
    ASSUME OneOperator, IInv, NEW p \in Procs, NEW q \in Procs, p # q, pc[p] \in Retaining
    PROVE  pc[q] \notin Retaining \cup Capturing \cup {"point"}
<1>1. Own(p) /\ Own(q) /\ pc[p] # "idle"  BY DEF IInv, Retaining
<1>2. retention = p /\ "create" \in Commands[p]
  BY <1>1 DEF Own, LockHeld, CommandAt
<1>3. pc[q] \in Retaining \cup Capturing \cup {"point"} => pc[q] # "idle"
  BY DEF Retaining, Capturing
<1>4. pc[q] \in Retaining \cup Capturing \cup {"point"} =>
          /\ retention # q => pc[q] \notin Retaining /\ job[q].cmd # "upgrade"
          /\ job[q].cmd \in Commands[q]
  BY <1>1, <1>3 DEF Own, LockHeld, CommandAt
<1>5. "create" \notin Commands[q] /\ "campaign" \notin Commands[q]
  BY <1>2 DEF OneOperator
<1> QED  BY <1>1, <1>2, <1>4, <1>5 DEF Own, CommandAt, Retaining, Capturing

\* p may change only itself and what its own line lets it.
ProcFrame(p) ==
    /\ ProcTypes'
    /\ clock <= clock'
    /\ \A q \in Procs \ {p} :
        /\ pc'[q] = pc[q] /\ job'[q] = job[q]
        /\ retention = q => retention' = q
StoreFrame(p) ==
    /\ blobs \subseteq blobs' \/ pc[p] \in Retaining
    /\ blobs' \subseteq blobs \/ pc[p] \in Capturing
    /\ DOMAIN manifests \subseteq DOMAIN manifests' \/ pc[p] \in Retaining
    /\ Referenced' = Referenced \/ pc[p] \in Capturing \cup Retaining
    /\ points' \subseteq points \/ pc[p] = "point"

LEMMA OthersKeep ==
    ASSUME OneOperator, IInv, NEW p \in Procs, ProcFrame(p), StoreFrame(p)
    PROVE  \A q \in Procs \ {p} : Own(q)'
<1> SUFFICES ASSUME NEW q \in Procs \ {p} PROVE Own(q)'
  OBVIOUS
<1>1. Own(q) /\ pc'[q] = pc[q] /\ job'[q] = job[q]  BY DEF IInv, ProcFrame
<1>2. CommandAt(q)'
  <2>1. 1 .. clock \subseteq 1 .. clock'  BY DEF ProcFrame, IInv, ProcTypes
  <2> QED  BY <1>1, <2>1 DEF Own, CommandAt
<1>3. LockHeld(q)'  BY <1>1 DEF Own, LockHeld, ProcFrame
<1>4. HasBlobs(q)'
  <2>1. CASE pc[q] \notin Capturing \cup {"point"}
    BY <1>1, <2>1 DEF HasBlobs
  <2>2. CASE pc[q] \in Capturing \cup {"point"}
    <3>1. pc[p] \notin Retaining  BY <2>2, Exclusion
    <3> QED  BY <1>1, <3>1 DEF Own, HasBlobs, StoreFrame
  <2> QED  BY <2>1, <2>2
<1>5. DropsGarbage(q)'
  <2>1. CASE pc[q] \notin {"prune", "delete"}
    BY <1>1, <2>1 DEF DropsGarbage
  <2>2. CASE pc[q] \in {"prune", "delete"}
    <3>1. pc[p] \notin Retaining \cup Capturing \cup {"point"}
      BY <2>2, Exclusion DEF Retaining
    <3> QED  BY <1>1, <3>1 DEF Own, DropsGarbage, StoreFrame
  <2> QED  BY <2>1, <2>2
<1> QED  BY <1>2, <1>3, <1>4, <1>5 DEF Own

LEMMA Invariant ==
    ASSUME OneOperator, IInv, NEW p \in Procs, ProcFrame(p), StoreFrame(p), Own(p)',
           StoreTypes', BlobsComplete', PointsKept'
    PROVE  IInv'
<1>1. \A q \in Procs : Own(q)'  BY OthersKeep
<1> QED  BY <1>1 DEF IInv, ProcFrame

\* A step that leaves the store alone.
LEMMA StoreKept ==
    ASSUME IInv, NEW p \in Procs, UNCHANGED store, clock' \in Nat, clock <= clock',
           live' \in [Files -> Objects]
    PROVE  StoreFrame(p) /\ StoreTypes' /\ BlobsComplete' /\ PointsKept'
           /\ Referenced' = Referenced
<1>1. UNCHANGED <<blobs, manifests, points, index>>  BY DEF store
<1>2. 1 .. clock \subseteq 1 .. clock'  BY DEF IInv, ProcTypes
<1>3. Referenced' = Referenced  BY <1>1 DEF Referenced, Needs
<1> QED  BY <1>1, <1>2, <1>3 DEF IInv, StoreFrame, StoreTypes, BlobsComplete, PointsKept

\* A step from one line to another of the same command.
LEMMA GotoFrame ==
    ASSUME IInv, NEW p \in Procs, NEW l \in PCs \ {"idle"}, Goto(p, l), UNCHANGED <<clock, bounds>>,
           retention' = retention \/ (retention = None /\ retention' = p), DOMAIN job' = Procs,
           \A q \in Procs \ {p} : job'[q] = job[q]
    PROVE  ProcFrame(p) /\ pc'[p] = l
<1>1. /\ pc' \in [Procs -> PCs] /\ pc'[p] = l
      /\ \A q \in Procs \ {p} : pc'[q] = pc[q]
  BY DEF Goto, IInv, ProcTypes
<1>2. retention' \in Procs \cup {None} /\ (retention' # None => pc'[retention'] # "idle")
  BY <1>1 DEF IInv, ProcTypes
<1>3. \A q \in Procs : q # None  BY SnapshotAssumption
<1> QED  BY <1>1, <1>2, <1>3 DEF ProcFrame, IInv, ProcTypes, bounds

LEMMA EndFrame ==
    ASSUME IInv, NEW p \in Procs, End(p), UNCHANGED <<clock, calls, edits>>, stops' \in Nat
    PROVE  ProcFrame(p) /\ pc'[p] = "idle" /\ Own(p)'
<1>1. /\ pc' \in [Procs -> PCs] /\ pc'[p] = "idle"
      /\ \A q \in Procs \ {p} : pc'[q] = pc[q]
      /\ DOMAIN job' = Procs /\ \A q \in Procs \ {p} : job'[q] = job[q]
  BY DEF End, Goto, IInv, ProcTypes, PCs
<1>2. retention' = IF retention = p THEN None ELSE retention  BY DEF End
<1>3. retention' \in Procs \cup {None} /\ (retention' # None => pc'[retention'] # "idle")
  BY <1>1, <1>2 DEF IInv, ProcTypes
<1>4. ProcFrame(p)  BY <1>1, <1>2, <1>3 DEF ProcFrame, IInv, ProcTypes
<1>5. Own(p)'
  BY <1>1 DEF Own, CommandAt, LockHeld, HasBlobs, DropsGarbage, Capturing, Retaining, Restoring
<1> QED  BY <1>1, <1>4, <1>5

LEMMA RefuseStep ==
    ASSUME OneOperator, IInv, NEW p \in Procs, Refuse(p)
    PROVE  IInv'
<1>1. ProcFrame(p) /\ Own(p)'  BY EndFrame DEF Refuse, bounds, IInv, ProcTypes
<1>2. StoreFrame(p) /\ StoreTypes' /\ BlobsComplete' /\ PointsKept'
  BY StoreKept DEF Refuse, IInv, StoreTypes, ProcTypes
<1> QED  BY <1>1, <1>2, Invariant
-----------------------------------------------------------------------------
(* Taking a snapshot. *)

LEMMA CallFrame ==
    ASSUME IInv, NEW p \in Procs, NEW c, NEW l \in PCs \ {"idle"}, NEW id, NEW was,
           Call(p, c, l, id, was), clock' \in Nat, clock <= clock',
           retention' = retention \/ (retention = None /\ retention' = p)
    PROVE  /\ ProcFrame(p) /\ pc'[p] = l /\ UNCHANGED <<live, store>>
           /\ job'[p] = [cmd |-> c, id |-> id, got |-> <<>>, was |-> was, todo |-> {}, refs |-> {}]
<1>1. /\ pc' \in [Procs -> PCs] /\ pc'[p] = l
      /\ \A q \in Procs \ {p} : pc'[q] = pc[q]
  BY DEF Call, Goto, IInv, ProcTypes
<1>2. /\ DOMAIN job' = Procs /\ \A q \in Procs \ {p} : job'[q] = job[q]
      /\ job'[p] = [cmd |-> c, id |-> id, got |-> <<>>, was |-> was, todo |-> {}, refs |-> {}]
  BY DEF Call, IInv, ProcTypes
<1>3. retention' \in Procs \cup {None} /\ (retention' # None => pc'[retention'] # "idle")
  BY <1>1 DEF IInv, ProcTypes
<1>4. \A q \in Procs : q # None  BY SnapshotAssumption
<1>5. calls' \in Nat /\ UNCHANGED <<live, store, stops, edits>>
  BY DEF Call, IInv, ProcTypes
<1> QED  BY <1>1, <1>2, <1>3, <1>4, <1>5 DEF ProcFrame, IInv, ProcTypes

LEMMA CallStep ==
    ASSUME OneOperator, IInv, NEW p \in Procs, NEW c \in Commands[p],
           NEW l \in {"capture", "load"}, NEW id \in 1 .. clock', NEW was,
           Call(p, c, l, id, was), clock' \in Nat, clock <= clock',
           retention' = retention \/ (retention = None /\ retention' = p),
           c = "upgrade" => retention' = p,
           IF l = "capture" THEN c \in {"create", "campaign", "upgrade"} ELSE was = <<>>
    PROVE  IInv'
<1>1. /\ ProcFrame(p) /\ pc'[p] = l /\ UNCHANGED <<live, store>>
      /\ job'[p] = [cmd |-> c, id |-> id, got |-> <<>>, was |-> was, todo |-> {}, refs |-> {}]
  BY CallFrame DEF PCs
<1>2. StoreFrame(p) /\ StoreTypes' /\ BlobsComplete' /\ PointsKept'
  BY <1>1, StoreKept DEF IInv, StoreTypes
<1>3. CommandAt(p)'
  BY <1>1, EmptyMap DEF CommandAt, Capturing, Retaining, Restoring, Fields
<1>4. (LockHeld(p) /\ HasBlobs(p) /\ DropsGarbage(p))'
  BY <1>1, EmptyMap DEF LockHeld, HasBlobs, DropsGarbage, Retaining
<1> QED  BY <1>1, <1>2, <1>3, <1>4, Invariant DEF Own

LEMMA CreateStep ==
    ASSUME OneOperator, IInv, NEW p \in Procs, NEW c \in {"create", "campaign"}, Create(p, c)
    PROVE  IInv'
<1>1. clock' \in Nat /\ clock <= clock' /\ clock' \in 1 .. clock'
  BY DEF Create, IInv, ProcTypes
<1>2. c \in Commands[p] /\ Call(p, c, "capture", clock', <<>>) /\ retention' = retention
  BY DEF Create, Call
<1> QED  BY <1>1, <1>2, CallStep

LEMMA BackupStep ==
    ASSUME OneOperator, IInv, NEW p \in Procs, Backup(p)
    PROVE  IInv'
<1>1. clock' \in Nat /\ clock <= clock' /\ clock' \in 1 .. clock'
  BY DEF Backup, IInv, ProcTypes
<1>2. /\ "upgrade" \in Commands[p] /\ Call(p, "upgrade", "capture", clock', live)
      /\ retention = None /\ retention' = p
  BY DEF Backup, Call
<1> QED  BY <1>1, <1>2, CallStep

LEMMA RestoreStep ==
    ASSUME OneOperator, IInv, NEW p \in Procs, Restore(p)
    PROVE  IInv'
<1>1. PICK i \in DOMAIN manifests : Call(p, "restore", "load", i, <<>>)
  BY DEF Restore
<1>2. clock' = clock /\ retention' = retention /\ clock \in Nat /\ i \in 1 .. clock
  BY DEF Restore, IInv, StoreTypes, ProcTypes
<1>3. "restore" \in Commands[p]  BY <1>1 DEF Call
<1> QED  BY <1>1, <1>2, <1>3, CallStep

LEMMA CaptureStep ==
    ASSUME OneOperator, IInv, NEW p \in Procs, Capture(p)
    PROVE  IInv'
<1>1. PICK f \in Captured \ DOMAIN job[p].got :
        /\ blobs' = BlobsWith(live[f])
        /\ job' = [job EXCEPT ![p].got = With(@, f, live[f])]
        /\ Goto(p, IF DOMAIN job[p].got \cup {f} = Captured THEN "validate" ELSE "capture")
  BY DEF Capture
<1>2. pc[p] = "capture" /\ UNCHANGED <<live, manifests, points, index, retention, clock, bounds>>
  BY DEF Capture
<1>3. Own(p) /\ DOMAIN job[p] = Fields /\ DOMAIN job = Procs
  BY <1>2 DEF IInv, Own, CommandAt, ProcTypes
<1>4. DEFINE l == IF DOMAIN job[p].got \cup {f} = Captured THEN "validate" ELSE "capture"
<1>5. \A q \in Procs \ {p} : job'[q] = job[q]  BY <1>1, <1>3
<1>6. ProcFrame(p) /\ pc'[p] = l  BY <1>1, <1>2, <1>3, <1>5, GotoFrame DEF PCs
<1>7. /\ DOMAIN job'[p] = Fields /\ job'[p].got = With(job[p].got, f, live[f])
      /\ job'[p].cmd = job[p].cmd /\ job'[p].id = job[p].id
  BY <1>1, <1>3 DEF Fields
<1>8. live[f] \in Objects /\ blobs' = blobs \cup ({live[f]} \ {Absent})
  BY <1>1 DEF BlobsWith, Captured, IInv, StoreTypes
<1>9. Referenced' = Referenced  BY <1>2 DEF Referenced, Needs
<1>10. StoreFrame(p) /\ StoreTypes' /\ BlobsComplete' /\ PointsKept'
  BY <1>2, <1>8, <1>9
     DEF StoreFrame, IInv, StoreTypes, Objects, BlobsComplete, PointsKept, Capturing
<1>11. /\ DOMAIN job'[p].got = DOMAIN job[p].got \cup {f} /\ job'[p].got[f] = live[f]
       /\ \A y \in DOMAIN job[p].got \ {f} : job'[p].got[y] = job[p].got[y]
       /\ \A S : job[p].got \in [DOMAIN job[p].got -> S] /\ live[f] \in S =>
              job'[p].got \in [DOMAIN job'[p].got -> S]
  <2> HIDE DEF l
  <2> QED  BY <1>7 DEF With
<1>12. CommandAt(p)'
  BY <1>1, <1>2, <1>3, <1>6, <1>7, <1>8, <1>11
     DEF Own, CommandAt, Capturing, Retaining, Restoring
<1>13. LockHeld(p)'  BY <1>2, <1>3, <1>6, <1>7 DEF Own, LockHeld, Retaining
<1>14. (HasBlobs(p) /\ DropsGarbage(p))'
  BY <1>2, <1>3, <1>6, <1>7, <1>8, <1>11 DEF Own, HasBlobs, DropsGarbage, Capturing
<1> QED  BY <1>6, <1>10, <1>12, <1>13, <1>14, Invariant DEF Own

LEMMA ValidateStep ==
    ASSUME OneOperator, IInv, NEW p \in Procs, Validate(p)
    PROVE  IInv'
<1>1. CASE ~Complete(job[p].got)  BY <1>1, RefuseStep DEF Validate
<1>2. CASE Complete(job[p].got)
  <2>1. /\ pc[p] = "validate" /\ Goto(p, "write")
        /\ UNCHANGED <<live, store, retention, clock, job, bounds>>
    BY <1>2 DEF Validate
  <2>2. ProcFrame(p) /\ pc'[p] = "write"
    BY <2>1, GotoFrame DEF PCs, IInv, ProcTypes
  <2>3. StoreFrame(p) /\ StoreTypes' /\ BlobsComplete' /\ PointsKept'
    BY <2>1, StoreKept DEF IInv, StoreTypes, ProcTypes
  <2>4. Own(p)  BY DEF IInv
  <2>5. Own(p)'
    BY <2>1, <2>2, <2>4
       DEF Own, CommandAt, LockHeld, HasBlobs, DropsGarbage, store, Capturing, Retaining, Restoring
  <2> QED  BY <2>2, <2>3, <2>5, Invariant
<1> QED  BY <1>1, <1>2

LEMMA WriteStep ==
    ASSUME OneOperator, IInv, NEW p \in Procs, Write(p)
    PROVE  IInv'
<1> DEFINE l == CASE job[p].cmd = "create" -> "lock"
                  [] job[p].cmd = "campaign" -> "bind"
                  [] OTHER -> "point"
<1>1. /\ pc[p] = "write" /\ manifests' = With(manifests, job[p].id, job[p].got) /\ Goto(p, l)
      /\ UNCHANGED <<live, blobs, points, index, retention, clock, job, bounds>>
  BY DEF Write
<1>2. Own(p)  BY DEF IInv
<1>3. /\ job[p].id \in 1 .. clock /\ DOMAIN job[p].got = Captured
      /\ job[p].cmd \in {"create", "campaign", "upgrade"} /\ job[p].got \in [Captured -> Objects]
      /\ \A f \in Captured : job[p].got[f] \in blobs \cup {Absent}
  BY <1>1, <1>2 DEF Own, CommandAt, HasBlobs, Capturing
<1>4. l \in PCs \ {"idle"} /\ l \in {"lock", "bind", "point"} /\ (l = "point" <=> job[p].cmd = "upgrade")
      /\ (l = "lock" <=> job[p].cmd = "create")
  BY <1>3 DEF PCs
<1>5. ProcFrame(p) /\ pc'[p] = l
  <2> HIDE DEF l
  <2> QED  BY <1>1, <1>4, GotoFrame DEF IInv, ProcTypes
<1>6. /\ DOMAIN manifests' = DOMAIN manifests \cup {job[p].id}
      /\ manifests'[job[p].id] = job[p].got
      /\ \A i \in DOMAIN manifests \ {job[p].id} : manifests'[i] = manifests[i]
  <2> HIDE DEF l
  <2> QED  BY <1>1 DEF With
<1>7. \A i \in DOMAIN manifests' : manifests'[i] \in [Captured -> Objects]
  BY <1>3, <1>6 DEF IInv, StoreTypes
<1>8. Needs(job[p].got) \subseteq blobs  BY <1>3 DEF Needs
<1>9. Referenced' \subseteq blobs
  BY <1>6, <1>8 DEF Referenced, Needs, IInv, BlobsComplete
<1>10. StoreTypes' /\ BlobsComplete' /\ PointsKept' /\ StoreFrame(p)
  BY <1>1, <1>3, <1>6, <1>7, <1>9
     DEF StoreTypes, BlobsComplete, PointsKept, StoreFrame, IInv, Capturing
<1>11. Own(p)'
  <2>1. CommandAt(p)'
    BY <1>1, <1>2, <1>3, <1>4, <1>5 DEF Own, CommandAt, Capturing, Retaining, Restoring
  <2>2. LockHeld(p)'  BY <1>1, <1>2, <1>4, <1>5 DEF Own, LockHeld, Retaining
  <2>3. (HasBlobs(p) /\ DropsGarbage(p))'
    BY <1>1, <1>4, <1>5, <1>6 DEF HasBlobs, DropsGarbage, Capturing
  <2> QED  BY <2>1, <2>2, <2>3 DEF Own
<1> QED  BY <1>5, <1>10, <1>11, Invariant

LEMMA PointStep ==
    ASSUME OneOperator, IInv, NEW p \in Procs, Point(p)
    PROVE  IInv'
<1>1. CASE live # job[p].was  BY <1>1, RefuseStep DEF Point
<1>2. CASE live = job[p].was
  <2>1. /\ pc[p] = "point" /\ points' = points \cup {job[p].id} /\ End(p)
        /\ UNCHANGED <<live, blobs, manifests, index, clock, bounds>>
    BY <1>2 DEF Point
  <2>2. ProcFrame(p) /\ pc'[p] = "idle" /\ Own(p)'
    BY <2>1, EndFrame DEF bounds, IInv, ProcTypes
  <2>3. job[p].id \in 1 .. clock /\ job[p].id \in DOMAIN manifests
    BY <2>1 DEF IInv, Own, CommandAt, HasBlobs
  <2>4. Referenced' = Referenced  BY <2>1 DEF Referenced, Needs
  <2>5. StoreTypes' /\ BlobsComplete' /\ PointsKept' /\ StoreFrame(p)
    BY <2>1, <2>3, <2>4 DEF StoreTypes, BlobsComplete, PointsKept, StoreFrame, IInv
  <2> QED  BY <2>2, <2>5, Invariant
<1> QED  BY <1>1, <1>2

LEMMA BindStep ==
    ASSUME OneOperator, IInv, NEW p \in Procs, Bind(p)
    PROVE  IInv'
<1>1. /\ pc[p] = "bind" /\ index' = job[p].id /\ End(p)
      /\ UNCHANGED <<live, blobs, manifests, points, clock, bounds>>
  BY DEF Bind
<1>2. ProcFrame(p) /\ Own(p)'  BY <1>1, EndFrame DEF bounds, IInv, ProcTypes
<1>3. job[p].id \in 1 .. clock  BY <1>1 DEF IInv, Own, CommandAt
<1>4. Referenced' = Referenced  BY <1>1 DEF Referenced, Needs
<1>5. StoreTypes' /\ BlobsComplete' /\ PointsKept' /\ StoreFrame(p)
  BY <1>1, <1>3, <1>4 DEF StoreTypes, BlobsComplete, PointsKept, StoreFrame, IInv
<1> QED  BY <1>2, <1>5, Invariant
-----------------------------------------------------------------------------
(* Retention. *)

\* A step that goes from line to line and leaves the store alone.
LEMMA LocalStep ==
    ASSUME OneOperator, IInv, NEW p \in Procs, NEW l \in PCs \ {"idle"}, Goto(p, l),
           UNCHANGED <<live, store, clock, bounds>>,
           retention' = retention \/ (retention = None /\ retention' = p),
           DOMAIN job' = Procs, \A q \in Procs \ {p} : job'[q] = job[q],
           pc'[p] = l => Own(p)'
    PROVE  IInv'
<1>1. ProcFrame(p) /\ pc'[p] = l  BY GotoFrame
<1>2. StoreFrame(p) /\ StoreTypes' /\ BlobsComplete' /\ PointsKept'
  BY StoreKept DEF IInv, StoreTypes, ProcTypes
<1> QED  BY <1>1, <1>2, Invariant

LEMMA LockStep ==
    ASSUME OneOperator, IInv, NEW p \in Procs, Lock(p)
    PROVE  IInv'
<1>1. CASE retention # None  BY <1>1, RefuseStep DEF Lock
<1>2. CASE retention = None
  <2>1. /\ pc[p] = "lock" /\ Goto(p, "list") /\ retention' = p
        /\ UNCHANGED <<live, store, clock, job, bounds>>
    BY <1>2 DEF Lock
  <2>2. Own(p)  BY DEF IInv
  <2>3. pc'[p] = "list" => Own(p)'
    BY <2>1, <2>2
       DEF Own, CommandAt, LockHeld, HasBlobs, DropsGarbage, Capturing, Retaining, Restoring
  <2> QED  BY <1>2, <2>1, <2>3, LocalStep DEF PCs, IInv, ProcTypes
<1> QED  BY <1>1, <1>2

LEMMA ListStep ==
    ASSUME OneOperator, IInv, NEW p \in Procs, List(p)
    PROVE  IInv'
<1>1. CASE ~ \A i \in DOMAIN manifests : Complete(manifests[i])
  BY <1>1, RefuseStep DEF List
<1>2. CASE \A i \in DOMAIN manifests : Complete(manifests[i])
  <2>1. /\ pc[p] = "list" /\ job' = [job EXCEPT ![p].todo = DOMAIN manifests \ Retained]
        /\ Goto(p, "prune") /\ UNCHANGED <<live, store, retention, clock, bounds>>
    BY <1>2 DEF List
  <2>2. Own(p) /\ DOMAIN job[p] = Fields /\ DOMAIN job = Procs
    BY <2>1 DEF IInv, Own, CommandAt, ProcTypes
  <2>3. /\ job'[p] = [job[p] EXCEPT !.todo = DOMAIN manifests \ Retained]
        /\ DOMAIN job' = Procs /\ \A q \in Procs \ {p} : job'[q] = job[q]
    BY <2>1, <2>2
  <2>4. /\ DOMAIN job'[p] = Fields /\ job'[p].todo = DOMAIN manifests \ Retained
        /\ job'[p].cmd = job[p].cmd /\ job'[p].id = job[p].id /\ job'[p].got = job[p].got
    BY <2>2, <2>3 DEF Fields
  <2>5. pc'[p] = "prune" => Own(p)'
    BY <2>1, <2>2, <2>4
       DEF Own, CommandAt, LockHeld, HasBlobs, DropsGarbage, Capturing, Retaining, Restoring,
           Retained, store
  <2> QED  BY <2>1, <2>3, <2>5, LocalStep DEF PCs
<1> QED  BY <1>1, <1>2

LEMMA PruneStep ==
    ASSUME OneOperator, IInv, NEW p \in Procs, Prune(p)
    PROVE  IInv'
<1> DEFINE i == Max(job[p].todo)
<1>1. Own(p) /\ pc[p] = "prune" /\ DOMAIN job[p] = Fields /\ DOMAIN job = Procs
  BY DEF Prune, IInv, Own, CommandAt, ProcTypes
<1>2. job[p].todo \subseteq DOMAIN manifests /\ job[p].todo \cap points = {} /\ clock \in Nat
      /\ DOMAIN manifests \subseteq 1 .. clock
  BY <1>1 DEF Own, DropsGarbage, IInv, ProcTypes, StoreTypes
<1>3. CASE job[p].todo = {}
  <2>1. Goto(p, "collect") /\ UNCHANGED <<live, store, job, retention, clock, bounds>>
    BY <1>3 DEF Prune, store
  <2>2. pc'[p] = "collect" => Own(p)'
    BY <1>1, <2>1
       DEF Own, CommandAt, LockHeld, HasBlobs, DropsGarbage, Capturing, Retaining, Restoring
  <2> QED  BY <1>1, <2>1, <2>2, LocalStep DEF PCs
<1>4. CASE job[p].todo # {}
  <2>1. /\ manifests' = [j \in DOMAIN manifests \ {i} |-> manifests[j]]
        /\ job' = [job EXCEPT ![p].todo = @ \ {i}]
        /\ UNCHANGED <<live, blobs, points, index, retention, clock, pc, bounds>>
    BY <1>4 DEF Prune
  <2>2. i \in job[p].todo  BY <1>2, <1>4, MaxMember
  <2> HIDE DEF i
  <2>3. /\ job'[p] = [job[p] EXCEPT !.todo = @ \ {i}]
        /\ DOMAIN job' = Procs /\ \A q \in Procs \ {p} : job'[q] = job[q]
    BY <1>1, <2>1
  <2>4. /\ DOMAIN job'[p] = Fields /\ job'[p].todo = job[p].todo \ {i}
        /\ job'[p].cmd = job[p].cmd /\ job'[p].id = job[p].id /\ job'[p].got = job[p].got
    BY <1>1, <2>3 DEF Fields
  <2>5. ProcFrame(p)
    BY <2>1, <2>3 DEF ProcFrame, IInv, ProcTypes, bounds
  <2>6. DOMAIN manifests' = DOMAIN manifests \ {i} /\ \A j \in DOMAIN manifests' : manifests'[j] = manifests[j]
    BY <2>1
  <2>7. Referenced' \subseteq Referenced  BY <2>6 DEF Referenced, Needs
  <2>8. StoreTypes' /\ BlobsComplete' /\ PointsKept' /\ StoreFrame(p)
    BY <1>1, <1>2, <2>1, <2>2, <2>6, <2>7
       DEF StoreTypes, BlobsComplete, PointsKept, StoreFrame, IInv, Retaining
  <2>9. Own(p)'
    BY <1>1, <1>2, <2>1, <2>4, <2>6
       DEF Own, CommandAt, LockHeld, HasBlobs, DropsGarbage, Capturing, Retaining, Restoring
  <2> QED  BY <2>5, <2>8, <2>9, Invariant
<1> QED  BY <1>3, <1>4

LEMMA CollectStep ==
    ASSUME OneOperator, IInv, NEW p \in Procs, Collect(p)
    PROVE  IInv'
<1>1. /\ pc[p] = "collect" /\ Goto(p, "delete")
      /\ job' = [job EXCEPT ![p].refs = Referenced, ![p].todo = Contents]
      /\ UNCHANGED <<live, store, retention, clock, bounds>>
  BY DEF Collect
<1>2. Own(p) /\ DOMAIN job[p] = Fields /\ DOMAIN job = Procs /\ blobs \subseteq Contents
  BY <1>1 DEF IInv, Own, CommandAt, ProcTypes, StoreTypes
<1>3. DOMAIN job' = Procs /\ \A q \in Procs \ {p} : job'[q] = job[q]  BY <1>1, <1>2
<1>4. /\ DOMAIN job'[p] = Fields /\ job'[p].todo = Contents /\ job'[p].refs = Referenced
      /\ job'[p].cmd = job[p].cmd /\ job'[p].id = job[p].id /\ job'[p].got = job[p].got
  BY <1>1, <1>2 DEF Fields
<1>5. Referenced' = Referenced /\ blobs' = blobs  BY <1>1 DEF store, Referenced, Needs
<1>6. pc'[p] = "delete" => Own(p)'
  BY <1>1, <1>2, <1>4, <1>5
     DEF Own, CommandAt, LockHeld, HasBlobs, DropsGarbage, Capturing, Retaining, Restoring
<1> QED  BY <1>1, <1>3, <1>6, LocalStep DEF PCs

LEMMA DeleteStep ==
    ASSUME OneOperator, IInv, NEW p \in Procs, Delete(p)
    PROVE  IInv'
<1>1. CASE job[p].todo = {}  BY <1>1, RefuseStep DEF Delete
<1>2. CASE job[p].todo # {}
  <2>1. PICK c \in job[p].todo :
          /\ blobs' = blobs \ ({c} \ job[p].refs)
          /\ job' = [job EXCEPT ![p].todo = @ \ {c}]
          /\ UNCHANGED <<live, manifests, points, index, retention, clock, pc, bounds>>
    BY <1>2 DEF Delete
  <2>2. Own(p) /\ pc[p] = "delete" /\ DOMAIN job[p] = Fields /\ DOMAIN job = Procs
    BY DEF Delete, IInv, Own, CommandAt, ProcTypes
  <2>3. DOMAIN job' = Procs /\ \A q \in Procs \ {p} : job'[q] = job[q]  BY <2>1, <2>2
  <2>4. /\ DOMAIN job'[p] = Fields /\ job'[p].todo = job[p].todo \ {c}
        /\ job'[p].refs = job[p].refs
        /\ job'[p].cmd = job[p].cmd /\ job'[p].id = job[p].id /\ job'[p].got = job[p].got
    BY <2>1, <2>2 DEF Fields
  <2>5. ProcFrame(p)  BY <2>1, <2>3 DEF ProcFrame, IInv, ProcTypes, bounds
  <2>6. Referenced' = Referenced  BY <2>1 DEF Referenced, Needs
  <2>7. job[p].refs = Referenced /\ blobs \ job[p].todo \subseteq Referenced
    BY <2>2 DEF Own, DropsGarbage
  <2>8. StoreTypes' /\ BlobsComplete' /\ PointsKept' /\ StoreFrame(p)
    BY <2>1, <2>2, <2>6, <2>7
       DEF StoreTypes, BlobsComplete, PointsKept, StoreFrame, IInv, Retaining
  <2>9. DropsGarbage(p)'
    BY <2>1, <2>2, <2>4, <2>6, <2>7 DEF DropsGarbage
  <2>10. Own(p)'
    BY <2>1, <2>2, <2>4, <2>9
       DEF Own, CommandAt, LockHeld, HasBlobs, Capturing, Retaining, Restoring
  <2> QED  BY <2>5, <2>8, <2>10, Invariant
<1> QED  BY <1>1, <1>2

-----------------------------------------------------------------------------
(* Restore. *)

LEMMA LoadStep ==
    ASSUME OneOperator, IInv, NEW p \in Procs, Load(p)
    PROVE  IInv'
<1>1. CASE ~ (job[p].id \in DOMAIN manifests /\ Complete(manifests[job[p].id]))
  BY <1>1, RefuseStep DEF Load
<1>2. CASE job[p].id \in DOMAIN manifests /\ Complete(manifests[job[p].id])
  <2>1. PICK ts \in SUBSET Targets \ {{}} :
          /\ job' = [job EXCEPT ![p].todo = ts, ![p].got = manifests[job[p].id]]
          /\ Goto(p, "materialize") /\ UNCHANGED <<live, store, retention, clock, bounds>>
    BY <1>2 DEF Load
  <2>2. Own(p) /\ pc[p] = "load" /\ DOMAIN job[p] = Fields /\ DOMAIN job = Procs
    BY DEF Load, IInv, Own, CommandAt, ProcTypes
  <2>3. DOMAIN job' = Procs /\ \A q \in Procs \ {p} : job'[q] = job[q]  BY <2>1, <2>2
  <2>4. /\ DOMAIN job'[p] = Fields /\ job'[p].todo = ts /\ job'[p].got = manifests[job[p].id]
        /\ job'[p].was = job[p].was
        /\ job'[p].cmd = job[p].cmd /\ job'[p].id = job[p].id
    BY <2>1, <2>2 DEF Fields
  <2>5. manifests[job[p].id] \in [Captured -> Objects]  BY <1>2 DEF IInv, StoreTypes
  <2>6. ts \subseteq SUBSET Files  BY <2>1 DEF Targets, Captured
  <2>7. pc'[p] = "materialize" => Own(p)'
    BY <2>1, <2>2, <2>4, <2>5, <2>6
       DEF Own, CommandAt, LockHeld, HasBlobs, DropsGarbage, Capturing, Retaining, Restoring
  <2> QED  BY <2>1, <2>3, <2>7, LocalStep DEF PCs
<1> QED  BY <1>1, <1>2

LEMMA MaterializeStep ==
    ASSUME OneOperator, IInv, NEW p \in Procs, Materialize(p)
    PROVE  IInv'
<1>1. Own(p) /\ pc[p] = "materialize" /\ DOMAIN job[p] = Fields /\ DOMAIN job = Procs
  BY DEF Materialize, IInv, Own, CommandAt, ProcTypes
<1>2. CASE job[p].todo = {}
  <2>1. Goto(p, "swap") /\ UNCHANGED <<live, store, retention, clock, job, bounds>>
    BY <1>2 DEF Materialize
  <2>2. pc'[p] = "swap" => Own(p)'
    BY <1>1, <2>1
       DEF Own, CommandAt, LockHeld, HasBlobs, DropsGarbage, Capturing, Retaining, Restoring
  <2> QED  BY <1>1, <2>1, <2>2, LocalStep DEF PCs
<1>3. CASE job[p].todo # {} /\ Complete(job[p].got)
  <2>1. PICK t \in job[p].todo :
          job' = [job EXCEPT ![p].todo = @ \ {t}, ![p].was = Over([f \in t |-> live[f]], @)]
    BY <1>3 DEF Materialize
  <2>2. UNCHANGED <<live, store, retention, clock, pc, bounds>>
    BY <1>3 DEF Materialize
  <2>3. DOMAIN job' = Procs /\ \A q \in Procs \ {p} : job'[q] = job[q]  BY <1>1, <2>1
  <2>4. job'[p] = [job[p] EXCEPT !.todo = @ \ {t}, !.was = Over([f \in t |-> live[f]], @)]
    BY <1>1, <2>1
  <2>5. /\ DOMAIN job'[p] = Fields /\ job'[p].todo = job[p].todo \ {t}
        /\ job'[p].got = job[p].got /\ job'[p].cmd = job[p].cmd /\ job'[p].id = job[p].id
        /\ job'[p].was = Over([f \in t |-> live[f]], job[p].was)
    BY <1>1, <2>4 DEF Fields
  <2>6. DOMAIN job'[p].was = t \cup DOMAIN job[p].was  BY <2>5 DEF Over
  <2>7. t \subseteq Files /\ DOMAIN job[p].was \subseteq Files
    BY <1>1, <2>1 DEF Own, CommandAt, Restoring
  <2>8. Own(p)'
    BY <1>1, <2>2, <2>5, <2>6, <2>7
       DEF Own, CommandAt, LockHeld, HasBlobs, DropsGarbage, Capturing, Retaining, Restoring
  <2>9. ProcFrame(p)  BY <2>2, <2>3 DEF ProcFrame, IInv, ProcTypes, bounds
  <2>10. StoreFrame(p) /\ StoreTypes' /\ BlobsComplete' /\ PointsKept'
    BY <2>2, StoreKept DEF IInv, StoreTypes, ProcTypes
  <2> QED  BY <2>8, <2>9, <2>10, Invariant
<1>4. CASE job[p].todo # {} /\ ~Complete(job[p].got)
  BY <1>4, RefuseStep DEF Materialize
<1> QED  BY <1>2, <1>3, <1>4

LEMMA SwapStep ==
    ASSUME OneOperator, IInv, NEW p \in Procs, Swap(p)
    PROVE  IInv'
<1>1. CASE Drifted(p)  BY <1>1, RefuseStep DEF Swap
<1>2. CASE ~Drifted(p)
  <2>1. live' = Over(Desired(p), live) /\ End(p) /\ UNCHANGED <<store, clock, bounds>>
    BY <1>2 DEF Swap
  <2>2. Own(p) /\ pc[p] = "swap"  BY DEF Swap, IInv
  <2>3. /\ DOMAIN job[p].was \subseteq Files /\ DOMAIN job[p].got = Captured
        /\ job[p].got \in [Captured -> Objects]
    BY <2>2 DEF Own, CommandAt, Restoring
  <2>4. Desired(p) \in [DOMAIN job[p].was -> Objects]  BY <2>3 DEF Desired, Objects
  <2>5. live' \in [Files -> Objects]
    BY <2>1, <2>3, <2>4 DEF Over, IInv, StoreTypes
  <2>6. ProcFrame(p) /\ Own(p)'  BY <2>1, EndFrame DEF bounds, IInv, ProcTypes
  <2>7. StoreFrame(p) /\ StoreTypes' /\ BlobsComplete' /\ PointsKept'
    BY <2>1, <2>5, StoreKept DEF IInv, ProcTypes
  <2> QED  BY <2>6, <2>7, Invariant
<1> QED  BY <1>1, <1>2

-----------------------------------------------------------------------------
(* The environment, and the invariant. *)

LEMMA StopStep ==
    ASSUME OneOperator, IInv, NEW p \in Procs, Stop(p)
    PROVE  IInv'
<1>1. ProcFrame(p) /\ Own(p)'  BY EndFrame DEF Stop, IInv, ProcTypes
<1>2. StoreFrame(p) /\ StoreTypes' /\ BlobsComplete' /\ PointsKept'
  BY StoreKept DEF Stop, IInv, StoreTypes, ProcTypes
<1> QED  BY <1>1, <1>2, Invariant

LEMMA EditStep ==
    ASSUME IInv, NEW f \in Files, NEW o \in Objects, Edit(f, o)
    PROVE  IInv'
<1>1. live' \in [Files -> Objects] /\ edits' \in Nat
  BY DEF Edit, IInv, StoreTypes, ProcTypes
<1>2. UNCHANGED <<blobs, manifests, points, index, retention, clock, pc, job, calls, stops>>
  BY DEF Edit, store
<1>3. Referenced' = Referenced  BY <1>2 DEF Referenced, Needs
<1>4. StoreTypes' /\ ProcTypes' /\ BlobsComplete' /\ PointsKept'
  BY <1>1, <1>2, <1>3 DEF IInv, StoreTypes, ProcTypes, BlobsComplete, PointsKept
<1>5. \A p \in Procs : Own(p)'
  BY <1>2, <1>3 DEF IInv, Own, CommandAt, LockHeld, HasBlobs, DropsGarbage
<1> QED  BY <1>4, <1>5 DEF IInv

LEMMA InitInv == Init => IInv
<1> SUFFICES ASSUME Init PROVE IInv  OBVIOUS
<1>1. StoreTypes  BY EmptyMap DEF Init, StoreTypes
<1>2. ProcTypes /\ \A p \in Procs : pc[p] = "idle"  BY DEF Init, ProcTypes, PCs
<1>3. BlobsComplete /\ PointsKept  BY EmptyMap DEF Init, BlobsComplete, PointsKept, Referenced
<1>4. \A p \in Procs : Own(p)
  BY <1>2 DEF Own, CommandAt, LockHeld, HasBlobs, DropsGarbage, Capturing, Retaining, Restoring
<1> QED  BY <1>1, <1>2, <1>3, <1>4 DEF IInv

LEMMA StutterStep == ASSUME IInv, UNCHANGED vars PROVE IInv'
<1>1. UNCHANGED <<live, blobs, manifests, points, index, retention, clock, pc, job, calls,
                  stops, edits>>
  BY DEF vars, store, bounds
<1>2. Referenced' = Referenced  BY <1>1 DEF Referenced, Needs
<1>3. StoreTypes' /\ ProcTypes' /\ BlobsComplete' /\ PointsKept'
  BY <1>1, <1>2 DEF IInv, StoreTypes, ProcTypes, BlobsComplete, PointsKept
<1>4. \A p \in Procs : Own(p)'
  BY <1>1, <1>2 DEF IInv, Own, CommandAt, LockHeld, HasBlobs, DropsGarbage
<1> QED  BY <1>3, <1>4 DEF IInv

LEMMA NextInv == ASSUME OneOperator, IInv, [Next]_vars PROVE IInv'
<1>1. CASE UNCHANGED vars  BY <1>1, StutterStep
<1>2. ASSUME NEW p \in Procs, NEW c \in {"create", "campaign"}, Create(p, c) PROVE IInv'
  BY <1>2, CreateStep
<1>3. ASSUME NEW p \in Procs, Backup(p) \/ Restore(p) \/ Stop(p) PROVE IInv'
  BY <1>3, BackupStep, RestoreStep, StopStep
<1>4. ASSUME NEW p \in Procs, Step(p) PROVE IInv'
  BY <1>4, CaptureStep, ValidateStep, WriteStep, PointStep, BindStep, LockStep, ListStep,
     PruneStep, CollectStep, DeleteStep, LoadStep, MaterializeStep, SwapStep DEF Step
<1>5. ASSUME NEW f \in Files, NEW o \in Objects, Edit(f, o) PROVE IInv'
  BY <1>5, EditStep
<1> QED  BY <1>1, <1>2, <1>3, <1>4, <1>5 DEF Next

-----------------------------------------------------------------------------
(* The theorems. *)

\* What captures, collections and the manifests keep together, whatever the
\* processes do (snapshots.py:181-247, 250-330).
THEOREM Invariance == OneOperator /\ Spec => []IInv
<1> SUFFICES ASSUME OneOperator PROVE Spec => []IInv  OBVIOUS
<1>1. IInv /\ [Next]_vars => IInv'  BY NextInv
<1> QED  BY <1>1, InitInv, PTL DEF Spec

\* Whatever a manifest or a restore point names is in the store: neither retention
\* nor a death in it, nor a backup meanwhile, breaks a snapshot that is on file.
THEOREM StoreStaysComplete == OneOperator /\ Spec => []StoreComplete
<1> QED  BY Invariance, InvImplies, PTL

\* Only a process itself leaves its line.
LEMMA OwnLine ==
    ASSUME NEW p \in Procs, NEW q \in Procs, p # q, pc \in [Procs -> PCs],
           Step(q) \/ Stop(q) \/ Backup(q) \/ Restore(q)
           \/ \E c \in {"create", "campaign"} : Create(q, c)
    PROVE  pc'[p] = pc[p]
<1>1. CASE Capture(q) \/ Write(q) \/ Collect(q) \/ Bind(q) \/ Stop(q) \/ Delete(q) \/ Prune(q)
  BY <1>1 DEF Capture, Write, Collect, Bind, Stop, Delete, Prune, Goto, End, Refuse
<1>2. CASE Validate(q) \/ Point(q) \/ Lock(q) \/ List(q)
  BY <1>2 DEF Validate, Point, Lock, List, Goto, End, Refuse
<1>3. CASE Load(q) \/ Materialize(q) \/ Swap(q)
  BY <1>3 DEF Load, Materialize, Swap, Goto, End, Refuse
<1>4. CASE Backup(q) \/ Restore(q) \/ \E c \in {"create", "campaign"} : Create(q, c)
  BY <1>4 DEF Backup, Restore, Create, Call, Goto
<1> QED  BY <1>1, <1>2, <1>3, <1>4 DEF Step

\* A retention that ends by itself has left no blob without a manifest.
THEOREM EverythingCollected == OneOperator /\ Spec => CollectsAll
<1> SUFFICES ASSUME OneOperator PROVE Spec => CollectsAll  OBVIOUS
<1>1. ASSUME IInv, [Next]_vars, NEW p \in Procs, pc[p] \in {"prune", "delete"}, pc'[p] = "idle",
             stops' = stops
      PROVE  blobs \subseteq Referenced
  <2>1. pc \in [Procs -> PCs] /\ stops \in Nat /\ Own(p)  BY <1>1 DEF IInv, ProcTypes
  <2>2. ~ UNCHANGED vars /\ \A f \in Files, o \in Objects : ~ Edit(f, o)
    BY <1>1 DEF vars, Edit
  <2>3. Step(p) \/ Stop(p) \/ Backup(p) \/ Restore(p) \/ \E c \in {"create", "campaign"} : Create(p, c)
    BY <1>1, <2>1, <2>2, OwnLine DEF Next
  <2>4. ~ Stop(p)  BY <1>1, <2>1 DEF Stop
  <2>5. ~ Prune(p)  BY <1>1, <2>1 DEF Prune, Goto
  <2>6. Delete(p)
    BY <1>1, <2>3, <2>4, <2>5
       DEF Step, Capture, Validate, Write, Point, Bind, Lock, List, Collect, Load, Materialize,
           Swap, Backup, Restore, Create, Call
  <2>7. pc[p] = "delete" /\ job[p].todo = {}  BY <1>1, <2>6 DEF Delete
  <2> QED  BY <2>1, <2>7 DEF Own, DropsGarbage
<1>2. IInv /\ [Next]_vars =>
        [\A p \in Procs : pc[p] \in {"prune", "delete"} /\ pc'[p] = "idle" /\ stops' = stops =>
            \A c \in blobs \ Referenced : \E q \in Procs \ {p} : pc[q] # "idle"]_vars
  BY <1>1
<1>3. Spec => []IInv  BY Invariance
<1> QED  BY <1>2, <1>3, PTL DEF Spec, CollectsAll
=============================================================================

------------------------- MODULE ClaudeUpgradeProofs -------------------------
(***************************************************************************)
(* What ClaudeUpgrade promises, proved for every set of processes,         *)
(* packages, requests and versions and every bound on calls, errors,       *)
(* deaths and edits.                                                       *)
(*                                                                         *)
(* None of the invariants is inductive alone: that a request runs once     *)
(* needs the restore point to be there before the run and to stay, and     *)
(* that the point is of the store as it runs needs the store lock; that a  *)
(* package has one unfinished operation needs the package lock.  IInv says *)
(* which steps hold which lock and what they rely on meanwhile.            *)
(***************************************************************************)
EXTENDS ClaudeUpgrade, TLAPS

InRestore == {"lock", "begin", "capture", "journal", "out", "in", "verify_restore"}
StoreHeld == {"backup", "run", "after_ok", "after_bad"} \cup (InRestore \ {"lock"})
Updating == {"prepare", "update", "backup", "run", "after_ok", "after_bad", "returned",
             "verify", "roll", "settle"}

\* p executes or recovers an upgrade, or records its restoration.
Coordinates(p) ==
    \/ pc[p] \in Updating \cup {"finish"}
    \/ pc[p] \in InRestore /\ job[p].cmd # "rollback"

\* Where p is, the locks it has and what it may rely on meanwhile: no other
\* operation of the package is unfinished, its own is prepared until the
\* provider has run, the restore point precedes the run and is of the store, and
\* what the restore takes away was recorded or reviewed.
Holds(p) ==
    /\ pc[p] # "idle" => job[p] \in Jobs
    /\ pc[p] \in StoreHeld => storeLock = p
    /\ pc[p] \in Updating \cup {"load"} => job[p].cmd # "rollback"
    /\ pc[p] = "finish" => job[p].out # None
    /\ Coordinates(p) =>
        /\ pkgLock[Package(p)] = p
        /\ \A r \in Requests \ {Req(p)} :
              PackageOf[r] = Package(p) => journal[r].status \notin Unfinished
Relies(p) ==
    /\ pc[p] \in {"update", "backup", "run"} =>
           journal[Req(p)] = [status |-> "prepared", pre |-> job[p].pre]
    /\ pc[p] = "backup" => point[Req(p)] = None
    /\ pc[p] = "run" => /\ runs[Req(p)] = 0
                        /\ point[Req(p)].before = store
                        /\ point[Req(p)].pre = Seen(Package(p))
    /\ pc[p] \in {"run", "after_ok", "after_bad"} \cup (InRestore \ {"lock"}) =>
           point[Req(p)] # None
    /\ pc[p] \in InRestore /\ job[p].cmd = "rollback" =>
           job[p].bound \in known[Req(p)] \cup {None}
    /\ pc[p] \in {"journal", "out"} => store \in known[Req(p)]
    /\ pc[p] \in {"out", "in"} => restore[Req(p)].state = "journal"
    /\ pc[p] = "in" => store = Away

\* The files and histories of one request.
Recorded(r) ==
    /\ runs[r] \in {0, 1} /\ (runs[r] = 1 => point[r] # None)
    /\ point[r] # None => point[r].after \in known[r] \cup {None}
    /\ restore[r].state = "journal" => restore[r].original \in known[r]

IInv == /\ TypeOK /\ OneUnfinished
        /\ \A p \in Procs : Holds(p) /\ Relies(p)
        /\ \A r \in Requests : Recorded(r)

\* What a step of p leaves to the others.
FileTypes ==
    /\ store \in Stores \cup {Away}
    /\ journal \in [Requests -> Journals \cup {NoJournal}]
    /\ point \in [Requests -> Points \cup {None}]
    /\ restore \in [Requests -> Restores]
ProcTypes ==
    /\ pkgLock \in [Packages -> Procs \cup {None}]
    /\ storeLock \in Procs \cup {None}
    /\ pc \in [Procs -> PCs]
    /\ job \in [Procs -> Jobs \cup {None}]
HistoryTypes ==
    /\ runs \in [Requests -> Nat]
    /\ known \in [Requests -> SUBSET (Stores \cup {Away})]
    /\ calls \in Nat /\ faults \in Nat /\ crashes \in Nat /\ edits \in Nat

ProcFrame(p) ==
    /\ ProcTypes'
    /\ \A q \in Procs \ {p} :
        /\ pc'[q] = pc[q] /\ job'[q] = job[q]
        /\ storeLock = q => storeLock' = q
        /\ \A k \in Packages : pkgLock[k] = q => pkgLock'[k] = q
JournalFrame(p) ==
    /\ journal' \in [Requests -> Journals \cup {NoJournal}]
    /\ \A r \in Requests :
        journal'[r] = journal[r] \/ (r = Req(p) /\ pkgLock[PackageOf[r]] = p)
StoreFrame(p) ==
    /\ store' \in Stores \cup {Away}
    /\ point' \in [Requests -> Points \cup {None}]
    /\ restore' \in [Requests -> Restores]
    /\ store' = store \/ storeLock = p
    /\ \A r \in Requests :
        \/ point'[r] = point[r] /\ restore'[r] = restore[r] /\ runs'[r] = runs[r]
        \/ r = Req(p) /\ storeLock = p
HistoryFrame(p) ==
    /\ HistoryTypes'
    /\ \A r \in Requests : known[r] \subseteq known'[r]
Frame(p) == ProcFrame(p) /\ JournalFrame(p) /\ StoreFrame(p) /\ HistoryFrame(p)

-----------------------------------------------------------------------------
(* Facts about the records. *)

LEMMA JobFields ==
    ASSUME NEW x \in Jobs
    PROVE  /\ x.req \in Requests /\ x.pre \in Versions /\ x # None
           /\ x.bound \in Stores \cup Versions \cup {None, Away}
           /\ x.out \in Terminal \cup {"rollback-failed", None}
           /\ PackageOf[x.req] \in Packages
           /\ \A s \in Terminal \cup {"rollback-failed"} : [x EXCEPT !.out = s] \in Jobs
  BY RequestAssumption, NoneAssumption DEF Jobs

LEMMA NewJob ==
    ASSUME NEW c \in {"upgrade", "recover", "rollback"}, NEW r \in Requests,
           NEW v \in Versions, NEW b \in Stores \cup Versions \cup {None, Away}
    PROVE  [cmd |-> c, req |-> r, pre |-> v, bound |-> b, out |-> None] \in Jobs
  BY DEF Jobs

LEMMA PointFields ==
    ASSUME NEW x \in Points
    PROVE  /\ x.pre \in Versions /\ x.before \in Stores /\ x # None
           /\ \A s \in Stores \cup {Away} : [x EXCEPT !.after = s] \in Points
           /\ \A t \in {"update-returned", "restore-started", "restored"} :
                 [x EXCEPT !.status = t] \in Points
  BY NoneAssumption DEF Points

LEMMA NewPoint ==
    ASSUME NEW v \in Versions, NEW s \in Stores
    PROVE  [pre |-> v, before |-> s, after |-> None, status |-> "prepared"] \in Points
  BY DEF Points

LEMMA JournalFields ==
    /\ \A x \in Journals : x.pre \in Versions
    /\ \A v \in Versions, s \in Terminal \cup Unfinished :
          [status |-> s, pre |-> v] \in Journals
  BY DEF Journals

LEMMA DecisionRange ==
    ASSUME NEW p \in Procs
    PROVE  Decision(p) \in {"prepare", "roll", "refuse"} \cup Terminal
  BY DEF Decision, Recovery, Replay, Terminal

LEMMA TypeParts == TypeOK <=> FileTypes /\ ProcTypes /\ HistoryTypes
  BY DEF TypeOK, FileTypes, ProcTypes, HistoryTypes

LEMMA SeenVersion ==
    ASSUME TypeOK, NEW k \in Packages, store # Away
    PROVE  Seen(k) \in Versions /\ store \in Stores
  BY DEF TypeOK, Stores, Seen

LEMMA OwnFacts ==
    ASSUME IInv, NEW p \in Procs, pc[p] # "idle"
    PROVE  /\ job[p] \in Jobs /\ Req(p) \in Requests /\ Package(p) \in Packages
           /\ job[p].pre \in Versions /\ p # None
  BY JobFields, NoneAssumption DEF IInv, Holds, Req, Package

-----------------------------------------------------------------------------
(* The parts steps are made of. *)

LEMMA GotoEffect ==
    ASSUME ProcTypes, NEW p \in Procs, NEW l \in PCs, Goto(p, l)
    PROVE  /\ pc' \in [Procs -> PCs] /\ pc'[p] = l
           /\ \A q \in Procs \ {p} : pc'[q] = pc[q]
  BY DEF ProcTypes, Goto

LEMMA GotoFrame ==
    ASSUME ProcTypes, NEW p \in Procs, NEW l \in PCs, Goto(p, l), UNCHANGED <<locks, job>>
    PROVE  ProcFrame(p) /\ pc'[p] = l
  BY GotoEffect DEF ProcTypes, ProcFrame, locks

LEMMA EndFrame ==
    ASSUME ProcTypes, NEW p \in Procs, End(p)
    PROVE  ProcFrame(p) /\ pc'[p] = "idle"
<1>1. "idle" \in PCs  BY DEF PCs
<1>2. /\ pc' \in [Procs -> PCs] /\ pc'[p] = "idle"
      /\ \A q \in Procs \ {p} : pc'[q] = pc[q]
  BY <1>1, GotoEffect DEF End
<1>3. /\ job' \in [Procs -> Jobs \cup {None}]
      /\ \A q \in Procs \ {p} : job'[q] = job[q]
  BY DEF End, ProcTypes
<1>4. /\ pkgLock' \in [Packages -> Procs \cup {None}]
      /\ \A q \in Procs \ {p}, k \in Packages : pkgLock[k] = q => pkgLock'[k] = q
  BY DEF End, ProcTypes
<1>5. /\ storeLock' \in Procs \cup {None}
      /\ \A q \in Procs \ {p} : storeLock = q => storeLock' = q
  BY DEF End, Unlock, ProcTypes
<1> QED  BY <1>2, <1>3, <1>4, <1>5 DEF ProcFrame, ProcTypes

LEMMA LeaveFrame ==
    ASSUME ProcTypes, NEW p \in Procs, NEW done \in BOOLEAN, Leave(p, done)
    PROVE  /\ ProcFrame(p)
           /\ \/ pc'[p] = "idle"
              \/ pc'[p] = "record" /\ job' = job /\ job[p].cmd = "rollback"
              \/ /\ pc'[p] = "settle" /\ job' = job /\ pkgLock' = pkgLock
                 /\ job[p].cmd # "rollback"
<1>1. CASE job[p].cmd = "rollback" /\ ~done
  BY <1>1, EndFrame DEF Leave
<1>2. CASE ~(job[p].cmd = "rollback" /\ ~done)
  <2> DEFINE l == IF job[p].cmd = "rollback" THEN "record" ELSE "settle"
  <2>1. l \in PCs /\ Goto(p, l) /\ Unlock(p) /\ pkgLock' = pkgLock /\ job' = job
    BY <1>2 DEF Leave, PCs
  <2>2. /\ pc' \in [Procs -> PCs] /\ pc'[p] = l
        /\ \A q \in Procs \ {p} : pc'[q] = pc[q]
    BY <2>1, GotoEffect
  <2>3. /\ storeLock' \in Procs \cup {None}
        /\ \A q \in Procs \ {p} : storeLock = q => storeLock' = q
    BY <2>1 DEF Unlock, ProcTypes
  <2>4. ProcFrame(p)  BY <2>1, <2>2, <2>3 DEF ProcFrame, ProcTypes
  <2> QED  BY <2>1, <2>2, <2>4
<1> QED  BY <1>1, <1>2

LEMMA SaveFrame ==
    ASSUME IInv, NEW p \in Procs, pc[p] # "idle", Coordinates(p),
           NEW s \in Terminal \cup Unfinished, Save(p, s)
    PROVE  /\ JournalFrame(p) /\ OneUnfinished'
           /\ journal'[Req(p)] = [status |-> s, pre |-> job[p].pre]
           /\ \A r \in Requests \ {Req(p)} : journal'[r] = journal[r]
<1>1. job[p] \in Jobs /\ Req(p) \in Requests /\ job[p].pre \in Versions
  BY OwnFacts
<1>2. pkgLock[PackageOf[Req(p)]] = p
  BY DEF IInv, Holds, Package
<1>3. journal \in [Requests -> Journals \cup {NoJournal}]
  BY DEF IInv, TypeOK
<1>4. [status |-> s, pre |-> job[p].pre] \in Journals
  BY <1>1, JournalFields
<1>5. /\ journal' \in [Requests -> Journals \cup {NoJournal}]
      /\ journal'[Req(p)] = [status |-> s, pre |-> job[p].pre]
      /\ \A r \in Requests \ {Req(p)} : journal'[r] = journal[r]
  BY <1>1, <1>3, <1>4 DEF Save
<1>6. OneUnfinished'
  BY <1>5 DEF IInv, Holds, OneUnfinished, Package
<1> QED  BY <1>2, <1>5, <1>6 DEF JournalFrame

\* A step that keeps to its frame leaves every other process what it relies on.
LEMMA OthersKeep ==
    ASSUME IInv, NEW p \in Procs, Frame(p), NEW q \in Procs \ {p}
    PROVE  (Holds(q) /\ Relies(q))'
<1>1. pc'[q] = pc[q] /\ job'[q] = job[q] /\ Req(q)' = Req(q) /\ Package(q)' = Package(q)
      /\ (Coordinates(q)' <=> Coordinates(q))
  BY DEF Frame, ProcFrame, Req, Package, Coordinates
<1>2. Holds(q) /\ Relies(q)  BY DEF IInv
<1>3. ASSUME Coordinates(q)
      PROVE  /\ pkgLock'[Package(q)] = q /\ Req(q) \in Requests
             /\ \A r \in Requests : PackageOf[r] = Package(q) => journal'[r] = journal[r]
  <2>1. pc[q] # "idle"  BY <1>3 DEF Coordinates, Updating, InRestore
  <2>2. pkgLock[Package(q)] = q /\ Package(q) \in Packages /\ Req(q) \in Requests
    BY <2>1, <1>2, <1>3, OwnFacts DEF Holds
  <2> QED  BY <2>2 DEF Frame, ProcFrame, JournalFrame
<1>4. Holds(q)'
  BY <1>1, <1>2, <1>3 DEF Holds, Frame, ProcFrame
<1>5. ASSUME storeLock = q, pc[q] # "idle"
      PROVE  /\ store' = store /\ point'[Req(q)] = point[Req(q)]
             /\ restore'[Req(q)] = restore[Req(q)] /\ runs'[Req(q)] = runs[Req(q)]
             /\ Seen(Package(q))' = Seen(Package(q))
  <2>1. Req(q) \in Requests  BY <1>5, OwnFacts
  <2>2. store' = store  BY <1>5 DEF Frame, StoreFrame
  <2> QED  BY <1>1, <1>5, <2>1, <2>2 DEF Frame, StoreFrame, Seen
<1>6. pc[q] \in {"update", "backup", "run"} => Coordinates(q) /\ PackageOf[Req(q)] = Package(q)
  BY DEF Coordinates, Updating, Package
<1>7. pc[q] \in StoreHeld => storeLock = q /\ pc[q] # "idle"
  BY <1>2 DEF Holds, StoreHeld, InRestore
<1>8. pc[q] # "idle" => known[Req(q)] \subseteq known'[Req(q)]
  BY OwnFacts DEF Frame, HistoryFrame
<1>9. Relies(q)'
  BY <1>1, <1>2, <1>3, <1>5, <1>6, <1>7, <1>8 DEF Relies, StoreHeld, InRestore
<1> QED  BY <1>4, <1>9

LEMMA Invariant ==
    ASSUME IInv, NEW p \in Procs, Frame(p), (Holds(p) /\ Relies(p))', OneUnfinished',
           \A r \in Requests : Recorded(r)'
    PROVE  IInv'
<1>1. TypeOK'
  BY TypeParts DEF Frame, ProcFrame, JournalFrame, StoreFrame, HistoryFrame, TypeOK,
                   ProcTypes, HistoryTypes
<1>2. \A q \in Procs : (Holds(q) /\ Relies(q))'  BY OthersKeep
<1> QED  BY <1>1, <1>2 DEF IInv

\* Steps that leave the files alone.
LEMMA FilesKept ==
    ASSUME IInv, NEW p \in Procs, UNCHANGED <<store, point, restore, histories>>
    PROVE  /\ (calls' \in Nat /\ faults' \in Nat /\ crashes' \in Nat /\ edits' \in Nat) =>
                  StoreFrame(p) /\ HistoryFrame(p)
           /\ \A r \in Requests : Recorded(r)'
  BY DEF IInv, TypeOK, StoreFrame, HistoryFrame, HistoryTypes, histories, Recorded

LEMMA JournalKept ==
    ASSUME IInv, NEW p \in Procs, UNCHANGED journal
    PROVE  JournalFrame(p) /\ OneUnfinished'
  BY DEF IInv, TypeOK, JournalFrame, OneUnfinished

LEMMA BoundTypes ==
    ASSUME IInv
    PROVE  /\ ProcTypes
           /\ calls \in Nat /\ faults \in Nat /\ crashes \in Nat /\ edits \in Nat
           /\ calls + 1 \in Nat /\ faults + 1 \in Nat /\ crashes + 1 \in Nat
  BY DEF IInv, TypeOK, ProcTypes

LEMMA NoneStrings == None \notin Terminal \cup {"rollback-failed"}
  BY NoneAssumption DEF Terminal, Unfinished

LEMMA LockFrame ==
    ASSUME ProcTypes, NEW p \in Procs, NEW l \in PCs, Goto(p, l),
           storeLock = None, storeLock' = p, UNCHANGED <<pkgLock, job>>
    PROVE  ProcFrame(p) /\ pc'[p] = l
<1>1. /\ pc' \in [Procs -> PCs] /\ pc'[p] = l
      /\ \A q \in Procs \ {p} : pc'[q] = pc[q]
  BY GotoEffect
<1>2. \A q \in Procs : storeLock # q  BY NoneAssumption
<1> QED  BY <1>1, <1>2 DEF ProcFrame, ProcTypes

LEMMA JobFrame ==
    ASSUME ProcTypes, NEW p \in Procs, NEW l \in PCs, Goto(p, l), UNCHANGED locks,
           job' \in [Procs -> Jobs \cup {None}],
           \A q \in Procs \ {p} : job'[q] = job[q]
    PROVE  ProcFrame(p) /\ pc'[p] = l
<1>1. /\ pc' \in [Procs -> PCs] /\ pc'[p] = l
      /\ \A q \in Procs \ {p} : pc'[q] = pc[q]
  BY GotoEffect
<1> QED  BY <1>1 DEF ProcFrame, ProcTypes, locks

LEMMA LoadStep ==
    ASSUME IInv, NEW p \in Procs, Load(p)
    PROVE  IInv'
<1>1. /\ job[p] \in Jobs /\ Req(p) \in Requests /\ Package(p) \in Packages
      /\ job[p].pre \in Versions /\ p # None
  BY OwnFacts DEF Load
<1>2. Holds(p) /\ Relies(p) /\ ProcTypes  BY BoundTypes DEF IInv
<1>3. journal' = journal /\ UNCHANGED <<store, point, restore, histories, bounds>>
  BY DEF Load, files
<1>4. StoreFrame(p) /\ HistoryFrame(p) /\ \A r \in Requests : Recorded(r)'
  BY <1>3, FilesKept, BoundTypes DEF bounds
<1>5. JournalFrame(p) /\ OneUnfinished'  BY <1>3, JournalKept
<1>6. CASE End(p)
  <2>1. ProcFrame(p) /\ pc'[p] = "idle"  BY <1>2, <1>6, EndFrame
  <2>2. (Holds(p) /\ Relies(p))'  BY <2>1 DEF Holds, Relies, Coordinates, Updating, InRestore, StoreHeld
  <2> QED  BY <1>4, <1>5, <2>1, <2>2, Invariant DEF Frame
<1>7. CASE ~End(p)
  <2>1. /\ pkgLock[Package(p)] = None /\ ~Blocked(p) /\ Decision(p) # "refuse"
        /\ pkgLock' = [pkgLock EXCEPT ![Package(p)] = p] /\ storeLock' = storeLock
        /\ IF Decision(p) \in Terminal
           THEN job' = [job EXCEPT ![p].out = Decision(p)] /\ Goto(p, "finish")
           ELSE Goto(p, Decision(p)) /\ job' = job
    BY <1>7 DEF Load, Admitted
  <2>2. /\ pc' \in [Procs -> PCs] /\ pc'[p] \in {"finish", "prepare", "roll"}
        /\ \A q \in Procs \ {p} : pc'[q] = pc[q]
    BY <1>2, <2>1, DecisionRange, GotoEffect DEF PCs, Terminal
  <2>3. /\ job' \in [Procs -> Jobs \cup {None}]
        /\ \A q \in Procs \ {p} : job'[q] = job[q]
        /\ job'[p] \in Jobs /\ job'[p].req = job[p].req /\ job'[p].cmd = job[p].cmd
        /\ pc'[p] = "finish" => job'[p].out # None
    <3>1. CASE Decision(p) \in Terminal
      <4>1. job'[p] = [job[p] EXCEPT !.out = Decision(p)] /\ Decision(p) # None
        BY <1>2, <2>1, <3>1, NoneStrings DEF ProcTypes
      <4>2. job'[p] \in Jobs  BY <1>1, <3>1, <4>1, JobFields
      <4>3. job'[p].req = job[p].req /\ job'[p].cmd = job[p].cmd /\ job'[p].out # None
        BY <1>1, <4>1 DEF Jobs
      <4> QED  BY <1>2, <2>1, <3>1, <4>2, <4>3 DEF ProcTypes
    <3>2. CASE Decision(p) \notin Terminal
      <4>1. pc'[p] \in {"prepare", "roll"}
        BY <1>2, <2>1, <3>2, DecisionRange DEF Goto, ProcTypes
      <4> QED  BY <1>1, <1>2, <2>1, <3>2, <4>1 DEF ProcTypes
    <3> QED  BY <3>1, <3>2
  <2>4. /\ pkgLock' \in [Packages -> Procs \cup {None}] /\ pkgLock'[Package(p)] = p
        /\ \A q \in Procs, k \in Packages : pkgLock[k] = q => pkgLock'[k] = q
    BY <1>1, <1>2, <2>1, NoneAssumption DEF ProcTypes
  <2>5. ProcFrame(p)
    BY <1>2, <2>1, <2>2, <2>3, <2>4 DEF ProcFrame, ProcTypes
  <2>6. \A r \in Requests \ {Req(p)} :
           PackageOf[r] = Package(p) => journal'[r].status \notin Unfinished
    BY <1>3, <2>1 DEF Blocked
  <2>7. Req(p)' = Req(p) /\ Package(p)' = Package(p)  BY <2>3 DEF Req, Package
  <2>8. (Holds(p) /\ Relies(p))'
    BY <1>2, <2>2, <2>3, <2>4, <2>6, <2>7
       DEF Load, Holds, Relies, Coordinates, Updating, InRestore, StoreHeld
  <2> QED  BY <1>4, <1>5, <2>5, <2>8, Invariant DEF Frame
<1> QED  BY <1>6, <1>7

LEMMA PrepareStep ==
    ASSUME IInv, NEW p \in Procs, Prepare(p)
    PROVE  IInv'
<1>1. /\ job[p] \in Jobs /\ Req(p) \in Requests /\ Package(p) \in Packages
      /\ job[p].pre \in Versions /\ p # None
  BY OwnFacts DEF Prepare
<1>2. Holds(p) /\ Relies(p) /\ ProcTypes  BY BoundTypes DEF IInv
<1>3. UNCHANGED <<store, point, restore, histories, bounds>>
  BY DEF Prepare
<1>4. StoreFrame(p) /\ HistoryFrame(p) /\ \A r \in Requests : Recorded(r)'
  BY <1>3, FilesKept, BoundTypes DEF bounds
<1>5. /\ JournalFrame(p) /\ OneUnfinished'
      /\ journal'[Req(p)] = [status |-> "prepared", pre |-> job[p].pre]
      /\ \A r \in Requests \ {Req(p)} : journal'[r] = journal[r]
  <2>1. /\ Save(p, "prepared") /\ Coordinates(p) /\ pc[p] # "idle"
        /\ "prepared" \in Terminal \cup Unfinished
    BY <1>1, <1>2, JobFields DEF Prepare, Coordinates, Updating, Terminal, Unfinished, Holds
  <2> QED  BY <2>1, SaveFrame
<1>6. ProcFrame(p)
  BY <1>2, GotoFrame DEF Prepare, PCs, locks
<1>7. (Holds(p) /\ Relies(p))'
  <2>1. pc'[p] = "update" /\ UNCHANGED <<pkgLock, storeLock, job>>
    BY <1>2, GotoEffect DEF Prepare, PCs, locks
  <2>2. Req(p)' = Req(p) /\ Package(p)' = Package(p)  BY <2>1 DEF Req, Package
  <2> QED  BY <1>1, <1>2, <1>5, <2>1, <2>2 DEF Prepare, Holds, Relies, Coordinates, Updating, InRestore, StoreHeld
<1> QED  BY <1>4, <1>5, <1>6, <1>7, Invariant DEF Frame

LEMMA ReturnedStep ==
    ASSUME IInv, NEW p \in Procs, Returned(p)
    PROVE  IInv'
<1>1. /\ job[p] \in Jobs /\ Req(p) \in Requests /\ Package(p) \in Packages
      /\ job[p].pre \in Versions /\ p # None
  BY OwnFacts DEF Returned
<1>2. Holds(p) /\ Relies(p) /\ ProcTypes  BY BoundTypes DEF IInv
<1>3. UNCHANGED <<store, point, restore, histories, bounds>>
  BY DEF Returned
<1>4. StoreFrame(p) /\ HistoryFrame(p) /\ \A r \in Requests : Recorded(r)'
  BY <1>3, FilesKept, BoundTypes DEF bounds
<1>5. /\ JournalFrame(p) /\ OneUnfinished'
      /\ journal'[Req(p)] = [status |-> "provider-update-returned", pre |-> job[p].pre]
      /\ \A r \in Requests \ {Req(p)} : journal'[r] = journal[r]
  <2>1. /\ Save(p, "provider-update-returned") /\ Coordinates(p) /\ pc[p] # "idle"
        /\ "provider-update-returned" \in Terminal \cup Unfinished
    BY <1>1, <1>2, JobFields DEF Returned, Coordinates, Updating, Terminal, Unfinished, Holds
  <2> QED  BY <2>1, SaveFrame
<1>6. ProcFrame(p)
  BY <1>2, GotoFrame DEF Returned, PCs, locks
<1>7. (Holds(p) /\ Relies(p))'
  <2>1. pc'[p] = "verify" /\ UNCHANGED <<pkgLock, storeLock, job>>
    BY <1>2, GotoEffect DEF Returned, PCs, locks
  <2>2. Req(p)' = Req(p) /\ Package(p)' = Package(p)  BY <2>1 DEF Req, Package
  <2> QED  BY <1>1, <1>2, <1>5, <2>1, <2>2 DEF Returned, Holds, Relies, Coordinates, Updating, InRestore, StoreHeld
<1> QED  BY <1>4, <1>5, <1>6, <1>7, Invariant DEF Frame

LEMMA RollStep ==
    ASSUME IInv, NEW p \in Procs, Roll(p)
    PROVE  IInv'
<1>1. /\ job[p] \in Jobs /\ Req(p) \in Requests /\ Package(p) \in Packages
      /\ job[p].pre \in Versions /\ p # None
  BY OwnFacts DEF Roll
<1>2. Holds(p) /\ Relies(p) /\ ProcTypes  BY BoundTypes DEF IInv
<1>3. UNCHANGED <<store, point, restore, histories, bounds>>
  BY DEF Roll
<1>4. StoreFrame(p) /\ HistoryFrame(p) /\ \A r \in Requests : Recorded(r)'
  BY <1>3, FilesKept, BoundTypes DEF bounds
<1>5. /\ JournalFrame(p) /\ OneUnfinished'
      /\ journal'[Req(p)] = [status |-> "rollback-requested", pre |-> job[p].pre]
      /\ \A r \in Requests \ {Req(p)} : journal'[r] = journal[r]
  <2>1. /\ Save(p, "rollback-requested") /\ Coordinates(p) /\ pc[p] # "idle"
        /\ "rollback-requested" \in Terminal \cup Unfinished
    BY <1>1, <1>2, JobFields DEF Roll, Coordinates, Updating, Terminal, Unfinished, Holds
  <2> QED  BY <2>1, SaveFrame
<1>6. ProcFrame(p)
  BY <1>2, GotoFrame DEF Roll, PCs, locks
<1>7. (Holds(p) /\ Relies(p))'
  <2>1. pc'[p] = "lock" /\ UNCHANGED <<pkgLock, storeLock, job>>
    BY <1>2, GotoEffect DEF Roll, PCs, locks
  <2>2. Req(p)' = Req(p) /\ Package(p)' = Package(p)  BY <2>1 DEF Req, Package
  <2> QED  BY <1>1, <1>2, <1>5, <2>1, <2>2 DEF Roll, Holds, Relies, Coordinates, Updating, InRestore, StoreHeld
<1> QED  BY <1>4, <1>5, <1>6, <1>7, Invariant DEF Frame

LEMMA FinishStep ==
    ASSUME IInv, NEW p \in Procs, Finish(p)
    PROVE  IInv'
<1>1. /\ job[p] \in Jobs /\ Req(p) \in Requests /\ Package(p) \in Packages
      /\ job[p].pre \in Versions /\ p # None
  BY OwnFacts DEF Finish
<1>2. Holds(p) /\ Relies(p) /\ ProcTypes  BY BoundTypes DEF IInv
<1>3. UNCHANGED <<store, point, restore, histories, bounds>>
  BY DEF Finish
<1>4. StoreFrame(p) /\ HistoryFrame(p) /\ \A r \in Requests : Recorded(r)'
  BY <1>3, FilesKept, BoundTypes DEF bounds
<1>5. /\ JournalFrame(p) /\ OneUnfinished'
      /\ journal'[Req(p)] = [status |-> job[p].out, pre |-> job[p].pre]
      /\ \A r \in Requests \ {Req(p)} : journal'[r] = journal[r]
  <2>1. /\ Save(p, job[p].out) /\ Coordinates(p) /\ pc[p] # "idle"
        /\ job[p].out \in Terminal \cup Unfinished
    BY <1>1, <1>2, JobFields DEF Finish, Coordinates, Updating, Terminal, Unfinished, Holds
  <2> QED  BY <2>1, SaveFrame
<1>6. ProcFrame(p)
  BY <1>2, EndFrame DEF Finish
<1>7. (Holds(p) /\ Relies(p))'
  <2>1. pc'[p] = "idle"  BY <1>2, EndFrame DEF Finish
  <2> QED  BY <2>1 DEF Holds, Relies, Coordinates, Updating, InRestore, StoreHeld
<1> QED  BY <1>4, <1>5, <1>6, <1>7, Invariant DEF Frame

LEMMA UpdateStep ==
    ASSUME IInv, NEW p \in Procs, Update(p)
    PROVE  IInv'
<1>1. /\ job[p] \in Jobs /\ Req(p) \in Requests /\ Package(p) \in Packages
      /\ job[p].pre \in Versions /\ p # None
  BY OwnFacts DEF Update
<1>2. Holds(p) /\ Relies(p) /\ ProcTypes  BY BoundTypes DEF IInv
<1>3. journal' = journal /\ UNCHANGED <<store, point, restore, histories, bounds>>
  BY DEF Update, files
<1>4. StoreFrame(p) /\ HistoryFrame(p) /\ \A r \in Requests : Recorded(r)'
  BY <1>3, FilesKept, BoundTypes DEF bounds
<1>5. JournalFrame(p) /\ OneUnfinished'  BY <1>3, JournalKept
<1>6. ProcFrame(p)
  <2>1. CASE storeLock' = storeLock
    BY <1>2, <2>1, GotoFrame DEF Update, PCs, locks
  <2>2. CASE storeLock = None /\ storeLock' = p
    <3>1. Goto(p, "backup") /\ UNCHANGED <<pkgLock, job>> /\ "backup" \in PCs
      BY <1>1, <2>2 DEF Update, PCs
    <3> QED  BY <1>2, <2>2, <3>1, LockFrame
  <2> QED  BY <2>1, <2>2 DEF Update
<1>7. (Holds(p) /\ Relies(p))'
  <2>1. /\ \/ pc'[p] = "backup" /\ storeLock' = p /\ point[Req(p)] = None
           \/ pc'[p] = "roll"
        /\ UNCHANGED <<pkgLock, job>>
    BY <1>2, GotoEffect DEF Update, PCs
  <2>2. Req(p)' = Req(p) /\ Package(p)' = Package(p)  BY <2>1 DEF Req, Package
  <2> QED  BY <1>1, <1>2, <1>3, <2>1, <2>2 DEF Update, Holds, Relies, Coordinates, Updating, InRestore, StoreHeld
<1> QED  BY <1>4, <1>5, <1>6, <1>7, Invariant DEF Frame

LEMMA VerifyStep ==
    ASSUME IInv, NEW p \in Procs, Verify(p)
    PROVE  IInv'
<1>1. /\ job[p] \in Jobs /\ Req(p) \in Requests /\ Package(p) \in Packages
      /\ job[p].pre \in Versions /\ p # None
  BY OwnFacts DEF Verify
<1>2. Holds(p) /\ Relies(p) /\ ProcTypes  BY BoundTypes DEF IInv
<1>3. journal' = journal /\ UNCHANGED <<store, point, restore, histories, bounds>>
  BY DEF Verify, files
<1>4. StoreFrame(p) /\ HistoryFrame(p) /\ \A r \in Requests : Recorded(r)'
  BY <1>3, FilesKept, BoundTypes DEF bounds
<1>5. JournalFrame(p) /\ OneUnfinished'  BY <1>3, JournalKept
<1>8. /\ pc' \in [Procs -> PCs] /\ (\A q \in Procs \ {p} : pc'[q] = pc[q])
      /\ job' \in [Procs -> Jobs \cup {None}] /\ UNCHANGED <<pkgLock, storeLock>>
      /\ \A q \in Procs \ {p} : job'[q] = job[q]
      /\ job'[p].req = job[p].req /\ job'[p].cmd = job[p].cmd /\ job'[p] \in Jobs
      /\ (pc'[p] = "finish" /\ job'[p].out # None) \/ pc'[p] = "roll"
  <2>1. CASE Seen(Package(p)) = Target(p)
    <3>1. PICK s \in Terminal : /\ job' = [job EXCEPT ![p].out = s] /\ Goto(p, "finish")
                                /\ UNCHANGED locks
      BY <2>1 DEF Verify, Terminal
    <3>2. job'[p] = [job[p] EXCEPT !.out = s] /\ s # None
      BY <1>2, <3>1, NoneStrings DEF ProcTypes
    <3>3. job'[p] \in Jobs  BY <1>1, <3>2, JobFields
    <3>4. job'[p].req = job[p].req /\ job'[p].cmd = job[p].cmd /\ job'[p].out # None
      BY <1>1, <3>2 DEF Jobs
    <3>5. /\ pc' \in [Procs -> PCs] /\ (\A q \in Procs \ {p} : pc'[q] = pc[q])
          /\ pc'[p] = "finish"
      BY <1>2, <3>1, GotoEffect DEF PCs
    <3> QED  BY <1>2, <3>1, <3>3, <3>4, <3>5 DEF ProcTypes, locks
  <2>2. CASE Seen(Package(p)) # Target(p)
    <3>1. Goto(p, "roll") /\ job' = job /\ UNCHANGED locks  BY <2>2 DEF Verify
    <3> QED  BY <1>1, <1>2, <3>1, GotoEffect DEF PCs, ProcTypes, locks
  <2> QED  BY <2>1, <2>2
<1>6. ProcFrame(p)
  BY <1>2, <1>8 DEF ProcFrame, ProcTypes
<1>7. (Holds(p) /\ Relies(p))'
  <2>1. Req(p)' = Req(p) /\ Package(p)' = Package(p)  BY <1>8 DEF Req, Package
  <2> QED  BY <1>2, <1>3, <1>8, <2>1 DEF Verify, Holds, Relies, Coordinates, Updating, InRestore, StoreHeld
<1> QED  BY <1>4, <1>5, <1>6, <1>7, Invariant DEF Frame

LEMMA SettleStep ==
    ASSUME IInv, NEW p \in Procs, Settle(p)
    PROVE  IInv'
<1>1. /\ job[p] \in Jobs /\ Req(p) \in Requests /\ Package(p) \in Packages
      /\ job[p].pre \in Versions /\ p # None
  BY OwnFacts DEF Settle
<1>2. Holds(p) /\ Relies(p) /\ ProcTypes  BY BoundTypes DEF IInv
<1>3. journal' = journal /\ UNCHANGED <<store, point, restore, histories, bounds>>
  BY DEF Settle, files
<1>4. StoreFrame(p) /\ HistoryFrame(p) /\ \A r \in Requests : Recorded(r)'
  BY <1>3, FilesKept, BoundTypes DEF bounds
<1>5. JournalFrame(p) /\ OneUnfinished'  BY <1>3, JournalKept
<1>8. /\ pc' \in [Procs -> PCs] /\ (\A q \in Procs \ {p} : pc'[q] = pc[q])
      /\ job' \in [Procs -> Jobs \cup {None}] /\ UNCHANGED <<pkgLock, storeLock>>
      /\ \A q \in Procs \ {p} : job'[q] = job[q]
      /\ job'[p].req = job[p].req /\ job'[p].cmd = job[p].cmd /\ job'[p] \in Jobs
      /\ pc'[p] = "finish" /\ job'[p].out # None 
  <2>1. PICK s \in Terminal \cup {"rollback-failed"} :
           /\ job' = [job EXCEPT ![p].out = s] /\ Goto(p, "finish") /\ UNCHANGED locks
    BY DEF Settle, Terminal
  <2>2. job'[p] = [job[p] EXCEPT !.out = s] /\ s # None
    BY <1>2, <2>1, NoneStrings DEF ProcTypes
  <2>3. job'[p] \in Jobs  BY <1>1, <2>2, JobFields
  <2>4. job'[p].req = job[p].req /\ job'[p].cmd = job[p].cmd /\ job'[p].out # None
    BY <1>1, <2>2 DEF Jobs
  <2>5. /\ pc' \in [Procs -> PCs] /\ (\A q \in Procs \ {p} : pc'[q] = pc[q])
        /\ pc'[p] = "finish"
    BY <1>2, <2>1, GotoEffect DEF PCs
  <2> QED  BY <1>2, <2>1, <2>3, <2>4, <2>5 DEF ProcTypes, locks
<1>6. ProcFrame(p)
  BY <1>2, <1>8 DEF ProcFrame, ProcTypes
<1>7. (Holds(p) /\ Relies(p))'
  <2>1. Req(p)' = Req(p) /\ Package(p)' = Package(p)  BY <1>8 DEF Req, Package
  <2> QED  BY <1>2, <1>3, <1>8, <2>1 DEF Settle, Holds, Relies, Coordinates, Updating, InRestore, StoreHeld
<1> QED  BY <1>4, <1>5, <1>6, <1>7, Invariant DEF Frame

LEMMA XLockStep ==
    ASSUME IInv, NEW p \in Procs, XLock(p)
    PROVE  IInv'
<1>1. /\ job[p] \in Jobs /\ Req(p) \in Requests /\ Package(p) \in Packages
      /\ job[p].pre \in Versions /\ p # None
  BY OwnFacts DEF XLock
<1>2. Holds(p) /\ Relies(p) /\ ProcTypes  BY BoundTypes DEF IInv
<1>3. journal' = journal /\ UNCHANGED <<store, point, restore, histories, bounds>>
  BY DEF XLock, files
<1>4. StoreFrame(p) /\ HistoryFrame(p) /\ \A r \in Requests : Recorded(r)'
  BY <1>3, FilesKept, BoundTypes DEF bounds
<1>5. JournalFrame(p) /\ OneUnfinished'  BY <1>3, JournalKept
<1>8. \/ /\ storeLock = None /\ point[Req(p)] # None
         /\ storeLock' = p /\ Goto(p, "begin") /\ UNCHANGED <<pkgLock, job>>
      \/ Leave(p, FALSE)
  BY DEF XLock
<1>6. ProcFrame(p)
  <2>1. CASE ~Leave(p, FALSE)
    <3>1. Goto(p, "begin") /\ UNCHANGED <<pkgLock, job>> /\ "begin" \in PCs
      BY <1>1, <1>8, <2>1 DEF PCs
    <3> QED  BY <1>2, <1>8, <2>1, <3>1, LockFrame
  <2>2. CASE Leave(p, FALSE)  BY <1>2, <2>2, LeaveFrame
  <2> QED  BY <1>8, <2>1, <2>2
<1>7. (Holds(p) /\ Relies(p))'
  <2>1. CASE Leave(p, FALSE)
    <3>1. \/ pc'[p] = "idle"
          \/ pc'[p] = "record" /\ job' = job /\ job[p].cmd = "rollback"
          \/ /\ pc'[p] = "settle" /\ job' = job /\ pkgLock' = pkgLock
             /\ job[p].cmd # "rollback"
      BY <1>2, <2>1, LeaveFrame
    <3>2. job' = job => Req(p)' = Req(p) /\ Package(p)' = Package(p)  BY DEF Req, Package
    <3> QED  BY <1>1, <1>2, <1>3, <3>1, <3>2 DEF XLock, Holds, Relies, Coordinates, Updating, InRestore, StoreHeld
  <2>2. CASE ~Leave(p, FALSE)
    <3>1. pc'[p] = "begin" /\ storeLock' = p /\ UNCHANGED <<pkgLock, job>>
          /\ point[Req(p)] # None
      BY <1>2, <1>8, <2>2, GotoEffect DEF PCs
    <3>2. Req(p)' = Req(p) /\ Package(p)' = Package(p)  BY <3>1 DEF Req, Package
    <3> QED  BY <1>1, <1>2, <1>3, <3>1, <3>2 DEF XLock, Holds, Relies, histories, Coordinates, Updating, InRestore, StoreHeld
  <2> QED  BY <2>1, <2>2
<1> QED  BY <1>4, <1>5, <1>6, <1>7, Invariant DEF Frame

-----------------------------------------------------------------------------
(* The steps of a restore, under the store lock. *)

LEMMA MorePointFields ==
    ASSUME NEW x \in Points
    PROVE  /\ \A s : [x EXCEPT !.after = s].after = s
           /\ \A t : [x EXCEPT !.status = t].after = x.after
           /\ x.after \in Stores \cup {Away, None}
  BY DEF Points

LEMMA RestoreFields ==
    /\ NoRestore \in Restores /\ NoRestore.state = "none"
    /\ \A x \in Restores : /\ [x EXCEPT !.state = "dir"] \in Restores
                           /\ [x EXCEPT !.state = "dir"].state = "dir"
    /\ \A s \in Stores \cup {Away} : [state |-> "journal", original |-> s] \in Restores
  BY DEF NoRestore, Restores

LEMMA LeaveKeeps ==
    ASSUME IInv, NEW p \in Procs, pc[p] \in InRestore, NEW done \in BOOLEAN, Leave(p, done),
           journal' = journal
    PROVE  ProcFrame(p) /\ (Holds(p) /\ Relies(p))'
<1>1. /\ job[p] \in Jobs /\ ProcTypes /\ Holds(p)
  BY OwnFacts, BoundTypes DEF IInv, InRestore
<1>2. /\ ProcFrame(p)
      /\ \/ pc'[p] = "idle"
         \/ pc'[p] = "record" /\ job' = job /\ job[p].cmd = "rollback"
         \/ /\ pc'[p] = "settle" /\ job' = job /\ pkgLock' = pkgLock
            /\ job[p].cmd # "rollback"
  BY <1>1, LeaveFrame
<1>3. job' = job => Req(p)' = Req(p) /\ Package(p)' = Package(p)  BY DEF Req, Package
<1> QED  BY <1>1, <1>2, <1>3 DEF Holds, Relies, Coordinates, Updating, InRestore, StoreHeld

LEMMA StayKeeps ==
    ASSUME IInv, NEW p \in Procs, pc[p] \in InRestore \ {"lock"},
           NEW l \in InRestore \ {"lock"}, Stay(p, l), journal' = journal
    PROVE  /\ ProcFrame(p) /\ Holds(p)' /\ pc'[p] = l /\ job' = job /\ Req(p)' = Req(p)
<1>1. /\ job[p] \in Jobs /\ ProcTypes /\ Holds(p)
  BY OwnFacts, BoundTypes DEF IInv, InRestore
<1>2. ProcFrame(p) /\ pc'[p] = l /\ UNCHANGED <<pkgLock, storeLock, job>>
  BY <1>1, GotoFrame DEF Stay, locks, PCs, InRestore
<1>3. Req(p)' = Req(p) /\ Package(p)' = Package(p)  BY <1>2 DEF Req, Package
<1> QED  BY <1>1, <1>2, <1>3 DEF Holds, Coordinates, Updating, InRestore, StoreHeld

\* p holds the store lock, so that only the types of what it writes matter.
LEMMA OwnedFrame ==
    ASSUME IInv, NEW p \in Procs, pc[p] \in StoreHeld,
           store' \in Stores \cup {Away},
           point' \in [Requests -> Points \cup {None}], restore' \in [Requests -> Restores],
           runs' = runs, \A r \in Requests \ {Req(p)} :
                             point'[r] = point[r] /\ restore'[r] = restore[r]
    PROVE  StoreFrame(p)
  BY DEF StoreFrame, IInv, Holds

LEMMA OthersRecorded ==
    ASSUME IInv, NEW p \in Procs, Req(p) \in Requests, UNCHANGED histories,
           \A r \in Requests \ {Req(p)} : point'[r] = point[r] /\ restore'[r] = restore[r],
           \A r \in Requests : r = Req(p) => Recorded(r)'
    PROVE  \A r \in Requests : Recorded(r)'
<1>1. SUFFICES ASSUME NEW r \in Requests \ {Req(p)} PROVE Recorded(r)'
  OBVIOUS
<1>2. /\ Recorded(r) /\ runs' = runs /\ known' = known
      /\ point'[r] = point[r] /\ restore'[r] = restore[r]
  BY DEF IInv, histories
<1> QED  BY <1>2 DEF Recorded

LEMMA HistoryKept ==
    ASSUME IInv, NEW p \in Procs, UNCHANGED histories,
           calls' \in Nat /\ faults' \in Nat /\ crashes' \in Nat /\ edits' \in Nat
    PROVE  HistoryFrame(p)
  BY DEF IInv, TypeOK, HistoryFrame, HistoryTypes, histories

LEMMA XRefuseStep ==
    ASSUME IInv, NEW p \in Procs, XRefuse(p)
    PROVE  IInv'
<1>1. /\ job[p] \in Jobs /\ Req(p) \in Requests /\ Package(p) \in Packages
      /\ job[p].pre \in Versions /\ p # None
  BY OwnFacts DEF XRefuse, Begins
<1>2. Holds(p) /\ Relies(p) /\ ProcTypes  BY BoundTypes DEF IInv
<1>3. journal' = journal /\ UNCHANGED <<store, point, restore, histories, bounds>>
  BY DEF XRefuse, files
<1>4. StoreFrame(p) /\ HistoryFrame(p) /\ \A r \in Requests : Recorded(r)'
  BY <1>3, FilesKept, BoundTypes DEF bounds
<1>5. JournalFrame(p) /\ OneUnfinished'  BY <1>3, JournalKept
<1>8. ProcFrame(p) /\ (Holds(p) /\ Relies(p))'
  <2>1. pc[p] \in InRestore /\ (Leave(p, TRUE) \/ Leave(p, FALSE))
    BY DEF XRefuse, Begins, InRestore
  <2>2. CASE Leave(p, TRUE)  BY <1>3, <2>1, <2>2, LeaveKeeps
  <2>3. CASE Leave(p, FALSE)  BY <1>3, <2>1, <2>3, LeaveKeeps
  <2> QED  BY <2>1, <2>2, <2>3
<1>6. ProcFrame(p)
  BY <1>8
<1>7. (Holds(p) /\ Relies(p))'
  BY <1>8
<1> QED  BY <1>4, <1>5, <1>6, <1>7, Invariant DEF Frame

LEMMA XResumeStep ==
    ASSUME IInv, NEW p \in Procs, XResume(p)
    PROVE  IInv'
<1>1. /\ job[p] \in Jobs /\ Req(p) \in Requests /\ Package(p) \in Packages
      /\ job[p].pre \in Versions /\ p # None
  BY OwnFacts DEF XResume
<1>2. Holds(p) /\ Relies(p) /\ ProcTypes  BY BoundTypes DEF IInv
<1>3. journal' = journal /\ UNCHANGED <<store, point, restore, histories, bounds>>
  BY DEF XResume, files
<1>4. StoreFrame(p) /\ HistoryFrame(p) /\ \A r \in Requests : Recorded(r)'
  BY <1>3, FilesKept, BoundTypes DEF bounds
<1>5. JournalFrame(p) /\ OneUnfinished'  BY <1>3, JournalKept
<1>8. ProcFrame(p) /\ (Holds(p) /\ Relies(p))'
  <2>1. CASE ~Resumable(Req(p))
    <3>1. pc[p] \in InRestore /\ Leave(p, FALSE)  BY <2>1 DEF XResume, InRestore
    <3> QED  BY <1>3, <3>1, LeaveKeeps
  <2>2. CASE Resumable(Req(p))
    <3> DEFINE l == IF store = point[Req(p)].before THEN "verify_restore"
                    ELSE IF store = Away THEN "in" ELSE "out"
    <3>1. pc[p] \in InRestore \ {"lock"} /\ l \in InRestore \ {"lock"} /\ Stay(p, l)
      BY <2>2 DEF XResume, InRestore
    <3>2. /\ ProcFrame(p) /\ Holds(p)' /\ pc'[p] = l /\ job' = job /\ Req(p)' = Req(p)
      BY <1>3, <3>1, StayKeeps
    <3>3. /\ restore[Req(p)].state = "journal" /\ restore[Req(p)].original \in known[Req(p)]
          /\ store \in {restore[Req(p)].original, point[Req(p)].before, Away}
      BY <1>1, <2>2 DEF Resumable, IInv, Recorded
    <3>4. UNCHANGED <<store, point, restore, runs, known>>  BY <1>3 DEF histories
    <3>5. point[Req(p)] # None /\ (job[p].cmd = "rollback" =>
                                     job[p].bound \in known[Req(p)] \cup {None})
      BY <1>2 DEF XResume, Relies, InRestore
    <3>6. Relies(p)'
      BY <3>2, <3>3, <3>4, <3>5 DEF Relies, InRestore
    <3> QED  BY <3>2, <3>6
  <2> QED  BY <2>1, <2>2
<1>6. ProcFrame(p)
  BY <1>8
<1>7. (Holds(p) /\ Relies(p))'
  BY <1>8
<1> QED  BY <1>4, <1>5, <1>6, <1>7, Invariant DEF Frame

LEMMA XReviewStep ==
    ASSUME IInv, NEW p \in Procs, XReview(p)
    PROVE  IInv'
<1>1. /\ job[p] \in Jobs /\ Req(p) \in Requests /\ Package(p) \in Packages
      /\ job[p].pre \in Versions /\ p # None
  BY OwnFacts DEF XReview, Begins
<1>2. Holds(p) /\ Relies(p) /\ ProcTypes  BY BoundTypes DEF IInv
<1>3. /\ point \in [Requests -> Points \cup {None}] /\ restore \in [Requests -> Restores]
      /\ store \in Stores \cup {Away} /\ known \in [Requests -> SUBSET (Stores \cup {Away})]
      /\ Recorded(Req(p)) /\ point[Req(p)] \in Points
      /\ pc[p] \in InRestore \ {"lock"} /\ pc[p] \in StoreHeld
      /\ (job[p].cmd = "rollback" => job[p].bound \in known[Req(p)] \cup {None})
  BY <1>1, <1>2 DEF IInv, TypeOK, Relies, InRestore, StoreHeld, XReview, Begins
<1>4. journal' = journal /\ UNCHANGED histories
  BY DEF XReview
<1>5. JournalFrame(p) /\ OneUnfinished'  BY <1>4, JournalKept
<1>6. HistoryFrame(p)
  BY <1>4, BoundTypes, HistoryKept DEF XReview, bounds, Fault
<1>10. /\ store \in known[Req(p)] /\ UNCHANGED <<store, restore, locks, pc, job>>
       /\ point' = [point EXCEPT ![Req(p)].after = store]
  BY <1>3 DEF XReview, Reviewed
<1>11. /\ point' \in [Requests -> Points \cup {None}] /\ point'[Req(p)] \in Points
       /\ point'[Req(p)].after = store
       /\ \A r \in Requests \ {Req(p)} : point'[r] = point[r]
  <2>1. point'[Req(p)] = [point[Req(p)] EXCEPT !.after = store]  BY <1>1, <1>3, <1>10
  <2> QED  BY <1>1, <1>3, <1>10, <2>1, PointFields, MorePointFields
<1>7. StoreFrame(p)
  BY <1>3, <1>4, <1>10, <1>11, OwnedFrame DEF histories
<1>8. \A r \in Requests : Recorded(r)'
  <2>1. ASSUME NEW r \in Requests, r = Req(p) PROVE Recorded(r)'
    BY <2>1, <1>3, <1>4, <1>10, <1>11, PointFields DEF Recorded, histories
  <2> QED  BY <1>1, <1>4, <1>10, <1>11, <2>1, OthersRecorded
<1>9. ProcFrame(p) /\ (Holds(p) /\ Relies(p))'
  <2>1. Stay(p, "begin") /\ "begin" \in InRestore \ {"lock"}
    BY <1>2, <1>10 DEF Stay, Goto, ProcTypes, XReview, Begins, InRestore
  <2>2. ProcFrame(p) /\ Holds(p)' /\ pc'[p] = "begin" /\ job' = job /\ Req(p)' = Req(p)
    BY <1>3, <1>4, <2>1, StayKeeps
  <2> QED  BY <1>3, <1>4, <1>11, <2>2, PointFields DEF Relies, InRestore, histories
<1> QED  BY <1>5, <1>6, <1>7, <1>8, <1>9, Invariant DEF Frame

LEMMA XBeginStep ==
    ASSUME IInv, NEW p \in Procs, XBegin(p)
    PROVE  IInv'
<1>1. /\ job[p] \in Jobs /\ Req(p) \in Requests /\ Package(p) \in Packages
      /\ job[p].pre \in Versions /\ p # None
  BY OwnFacts DEF XBegin, Begins
<1>2. Holds(p) /\ Relies(p) /\ ProcTypes  BY BoundTypes DEF IInv
<1>3. /\ point \in [Requests -> Points \cup {None}] /\ restore \in [Requests -> Restores]
      /\ store \in Stores \cup {Away} /\ known \in [Requests -> SUBSET (Stores \cup {Away})]
      /\ Recorded(Req(p)) /\ point[Req(p)] \in Points
      /\ pc[p] \in InRestore \ {"lock"} /\ pc[p] \in StoreHeld
      /\ (job[p].cmd = "rollback" => job[p].bound \in known[Req(p)] \cup {None})
  BY <1>1, <1>2 DEF IInv, TypeOK, Relies, InRestore, StoreHeld, XBegin, Begins
<1>4. journal' = journal /\ UNCHANGED histories
  BY DEF XBegin
<1>5. JournalFrame(p) /\ OneUnfinished'  BY <1>4, JournalKept
<1>6. HistoryFrame(p)
  BY <1>4, BoundTypes, HistoryKept DEF XBegin, bounds, Fault
<1>10. /\ UNCHANGED store
       /\ point' = [point EXCEPT ![Req(p)].status = "restore-started"]
       /\ restore' = [restore EXCEPT ![Req(p)] = NoRestore]
  BY DEF XBegin
<1>11. /\ point' \in [Requests -> Points \cup {None}] /\ point'[Req(p)] \in Points
       /\ point'[Req(p)].after = point[Req(p)].after
       /\ \A r \in Requests \ {Req(p)} : point'[r] = point[r]
  <2>1. point'[Req(p)] = [point[Req(p)] EXCEPT !.status = "restore-started"]
    BY <1>1, <1>3, <1>10
  <2> QED  BY <1>1, <1>3, <1>10, <2>1, PointFields, MorePointFields
<1>12. /\ restore' \in [Requests -> Restores] /\ restore'[Req(p)].state = "none"
       /\ \A r \in Requests \ {Req(p)} : restore'[r] = restore[r]
  BY <1>1, <1>3, <1>10, RestoreFields
<1>7. StoreFrame(p)
  BY <1>3, <1>4, <1>10, <1>11, <1>12, OwnedFrame DEF histories
<1>8. \A r \in Requests : Recorded(r)'
  <2>1. ASSUME NEW r \in Requests, r = Req(p) PROVE Recorded(r)'
    BY <2>1, <1>3, <1>4, <1>11, <1>12, PointFields DEF Recorded, histories
  <2> QED  BY <1>1, <1>4, <1>11, <1>12, <2>1, OthersRecorded
<1>9. ProcFrame(p) /\ (Holds(p) /\ Relies(p))'
  <2>1. Stay(p, "capture") /\ "capture" \in InRestore \ {"lock"}  BY DEF XBegin, InRestore
  <2>2. ProcFrame(p) /\ Holds(p)' /\ pc'[p] = "capture" /\ job' = job /\ Req(p)' = Req(p)
    BY <1>3, <1>4, <2>1, StayKeeps
  <2> QED  BY <1>3, <1>4, <1>11, <2>2, PointFields DEF Relies, InRestore, histories
<1> QED  BY <1>5, <1>6, <1>7, <1>8, <1>9, Invariant DEF Frame

LEMMA XCaptureStep ==
    ASSUME IInv, NEW p \in Procs, XCapture(p)
    PROVE  IInv'
<1>1. /\ job[p] \in Jobs /\ Req(p) \in Requests /\ Package(p) \in Packages
      /\ job[p].pre \in Versions /\ p # None
  BY OwnFacts DEF XCapture
<1>2. Holds(p) /\ Relies(p) /\ ProcTypes  BY BoundTypes DEF IInv
<1>3. /\ point \in [Requests -> Points \cup {None}] /\ restore \in [Requests -> Restores]
      /\ store \in Stores \cup {Away} /\ known \in [Requests -> SUBSET (Stores \cup {Away})]
      /\ Recorded(Req(p)) /\ point[Req(p)] \in Points
      /\ pc[p] \in InRestore \ {"lock"} /\ pc[p] \in StoreHeld
      /\ (job[p].cmd = "rollback" => job[p].bound \in known[Req(p)] \cup {None})
  BY <1>1, <1>2 DEF IInv, TypeOK, Relies, InRestore, StoreHeld, XCapture
<1>4. journal' = journal /\ UNCHANGED histories
  BY DEF XCapture
<1>5. JournalFrame(p) /\ OneUnfinished'  BY <1>4, JournalKept
<1>6. HistoryFrame(p)
  BY <1>4, BoundTypes, HistoryKept DEF XCapture, bounds, Fault
<1>10. /\ UNCHANGED <<store, point>>
       /\ \/ restore' = restore
          \/ restore' = [restore EXCEPT ![Req(p)].state = "dir"]
  BY DEF XCapture
<1>12. /\ restore' \in [Requests -> Restores]
       /\ restore'[Req(p)] = restore[Req(p)] \/ restore'[Req(p)].state = "dir"
       /\ \A r \in Requests \ {Req(p)} : restore'[r] = restore[r]
  <2>1. CASE restore' = restore  BY <1>3, <2>1
  <2>2. CASE restore' = [restore EXCEPT ![Req(p)].state = "dir"]
    <3>1. restore'[Req(p)] = [restore[Req(p)] EXCEPT !.state = "dir"]  BY <1>1, <1>3, <2>2
    <3> QED  BY <1>1, <1>3, <2>2, <3>1, RestoreFields
  <2> QED  BY <1>10, <2>1, <2>2
<1>7. StoreFrame(p)
  BY <1>3, <1>4, <1>10, <1>12, OwnedFrame DEF histories
<1>8. \A r \in Requests : Recorded(r)'
  <2>1. ASSUME NEW r \in Requests, r = Req(p) PROVE Recorded(r)'
    BY <2>1, <1>3, <1>4, <1>10, <1>12 DEF Recorded, histories
  <2> QED  BY <1>1, <1>4, <1>10, <1>12, <2>1, OthersRecorded
<1>9. ProcFrame(p) /\ (Holds(p) /\ Relies(p))'
  <2>1. CASE Leave(p, FALSE)  BY <1>3, <1>4, <2>1, LeaveKeeps
  <2>2. CASE ~Leave(p, FALSE)
    <3>1. Stay(p, "journal") /\ "journal" \in InRestore \ {"lock"} /\ store = point[Req(p)].after
      BY <2>2 DEF XCapture, InRestore
    <3>2. ProcFrame(p) /\ Holds(p)' /\ pc'[p] = "journal" /\ job' = job /\ Req(p)' = Req(p)
      BY <1>3, <1>4, <3>1, StayKeeps
    <3>3. store \in known[Req(p)]
      BY <1>3, <3>1, NoneAssumption, PointFields DEF Recorded
    <3> QED  BY <1>3, <1>4, <1>10, <3>2, <3>3, PointFields DEF Relies, InRestore, histories
  <2> QED  BY <2>1, <2>2
<1> QED  BY <1>5, <1>6, <1>7, <1>8, <1>9, Invariant DEF Frame

LEMMA XJournalStep ==
    ASSUME IInv, NEW p \in Procs, XJournal(p)
    PROVE  IInv'
<1>1. /\ job[p] \in Jobs /\ Req(p) \in Requests /\ Package(p) \in Packages
      /\ job[p].pre \in Versions /\ p # None
  BY OwnFacts DEF XJournal
<1>2. Holds(p) /\ Relies(p) /\ ProcTypes  BY BoundTypes DEF IInv
<1>3. /\ point \in [Requests -> Points \cup {None}] /\ restore \in [Requests -> Restores]
      /\ store \in Stores \cup {Away} /\ known \in [Requests -> SUBSET (Stores \cup {Away})]
      /\ Recorded(Req(p)) /\ point[Req(p)] \in Points
      /\ pc[p] \in InRestore \ {"lock"} /\ pc[p] \in StoreHeld
      /\ (job[p].cmd = "rollback" => job[p].bound \in known[Req(p)] \cup {None})
  BY <1>1, <1>2 DEF IInv, TypeOK, Relies, InRestore, StoreHeld, XJournal
<1>4. journal' = journal /\ UNCHANGED histories
  BY DEF XJournal
<1>5. JournalFrame(p) /\ OneUnfinished'  BY <1>4, JournalKept
<1>6. HistoryFrame(p)
  BY <1>4, BoundTypes, HistoryKept DEF XJournal, bounds, Fault
<1>10. /\ UNCHANGED <<store, point>> /\ store \in known[Req(p)]
       /\ \/ restore' = [restore EXCEPT ![Req(p)] = NoRestore]
          \/ restore' = [restore EXCEPT ![Req(p)] =
                           [state |-> "journal", original |-> store]]
  BY <1>2 DEF XJournal, Relies
<1>12. /\ restore' \in [Requests -> Restores]
       /\ \/ restore'[Req(p)].state = "none"
          \/ restore'[Req(p)] = [state |-> "journal", original |-> store]
       /\ \A r \in Requests \ {Req(p)} : restore'[r] = restore[r]
  BY <1>1, <1>3, <1>10, RestoreFields
<1>7. StoreFrame(p)
  BY <1>3, <1>4, <1>10, <1>12, OwnedFrame DEF histories
<1>8. \A r \in Requests : Recorded(r)'
  <2>1. ASSUME NEW r \in Requests, r = Req(p) PROVE Recorded(r)'
    BY <2>1, <1>3, <1>4, <1>10, <1>12 DEF Recorded, histories
  <2> QED  BY <1>1, <1>4, <1>10, <1>12, <2>1, OthersRecorded
<1>9. ProcFrame(p) /\ (Holds(p) /\ Relies(p))'
  <2>1. CASE Leave(p, FALSE)  BY <1>3, <1>4, <2>1, LeaveKeeps
  <2>2. CASE ~Leave(p, FALSE)
    <3>1. Stay(p, "out") /\ "out" \in InRestore \ {"lock"} /\ restore' =
             [restore EXCEPT ![Req(p)] = [state |-> "journal", original |-> store]]
      BY <2>2 DEF XJournal, InRestore
    <3>2. ProcFrame(p) /\ Holds(p)' /\ pc'[p] = "out" /\ job' = job /\ Req(p)' = Req(p)
      BY <1>3, <1>4, <3>1, StayKeeps
    <3>3. restore'[Req(p)].state = "journal"  BY <1>1, <1>3, <3>1
    <3> QED  BY <1>3, <1>4, <1>10, <3>2, <3>3, PointFields DEF Relies, InRestore, histories
  <2> QED  BY <2>1, <2>2
<1> QED  BY <1>5, <1>6, <1>7, <1>8, <1>9, Invariant DEF Frame

LEMMA XOutStep ==
    ASSUME IInv, NEW p \in Procs, XOut(p)
    PROVE  IInv'
<1>1. /\ job[p] \in Jobs /\ Req(p) \in Requests /\ Package(p) \in Packages
      /\ job[p].pre \in Versions /\ p # None
  BY OwnFacts DEF XOut
<1>2. Holds(p) /\ Relies(p) /\ ProcTypes  BY BoundTypes DEF IInv
<1>3. /\ point \in [Requests -> Points \cup {None}] /\ restore \in [Requests -> Restores]
      /\ store \in Stores \cup {Away} /\ known \in [Requests -> SUBSET (Stores \cup {Away})]
      /\ Recorded(Req(p)) /\ point[Req(p)] \in Points
      /\ pc[p] \in InRestore \ {"lock"} /\ pc[p] \in StoreHeld
      /\ (job[p].cmd = "rollback" => job[p].bound \in known[Req(p)] \cup {None})
  BY <1>1, <1>2 DEF IInv, TypeOK, Relies, InRestore, StoreHeld, XOut
<1>4. journal' = journal /\ UNCHANGED histories
  BY DEF XOut
<1>5. JournalFrame(p) /\ OneUnfinished'  BY <1>4, JournalKept
<1>6. HistoryFrame(p)
  BY <1>4, BoundTypes, HistoryKept DEF XOut, bounds, Fault
<1>10. UNCHANGED <<point, restore>> /\ restore[Req(p)].state = "journal"
  BY <1>2 DEF XOut, Relies
<1>11. store' \in Stores \cup {Away}
  BY <1>3 DEF XOut
<1>7. StoreFrame(p)
  BY <1>3, <1>4, <1>10, <1>11, OwnedFrame DEF histories
<1>8. \A r \in Requests : Recorded(r)'
  <2>1. ASSUME NEW r \in Requests, r = Req(p) PROVE Recorded(r)'
    BY <2>1, <1>3, <1>4, <1>10 DEF Recorded, histories
  <2> QED  BY <1>1, <1>4, <1>10, <2>1, OthersRecorded
<1>9. ProcFrame(p) /\ (Holds(p) /\ Relies(p))'
  <2>1. CASE Leave(p, FALSE)  BY <1>3, <1>4, <2>1, LeaveKeeps
  <2>2. CASE ~Leave(p, FALSE)
    <3>1. Stay(p, "in") /\ "in" \in InRestore \ {"lock"} /\ store' = Away
      BY <2>2 DEF XOut, InRestore
    <3>2. ProcFrame(p) /\ Holds(p)' /\ pc'[p] = "in" /\ job' = job /\ Req(p)' = Req(p)
      BY <1>3, <1>4, <3>1, StayKeeps
    <3> QED  BY <1>3, <1>4, <1>10, <3>1, <3>2, PointFields DEF Relies, InRestore, histories
  <2> QED  BY <2>1, <2>2
<1> QED  BY <1>5, <1>6, <1>7, <1>8, <1>9, Invariant DEF Frame

LEMMA XInStep ==
    ASSUME IInv, NEW p \in Procs, XIn(p)
    PROVE  IInv'
<1>1. /\ job[p] \in Jobs /\ Req(p) \in Requests /\ Package(p) \in Packages
      /\ job[p].pre \in Versions /\ p # None
  BY OwnFacts DEF XIn
<1>2. Holds(p) /\ Relies(p) /\ ProcTypes  BY BoundTypes DEF IInv
<1>3. /\ point \in [Requests -> Points \cup {None}] /\ restore \in [Requests -> Restores]
      /\ store \in Stores \cup {Away} /\ known \in [Requests -> SUBSET (Stores \cup {Away})]
      /\ Recorded(Req(p)) /\ point[Req(p)] \in Points
      /\ pc[p] \in InRestore \ {"lock"} /\ pc[p] \in StoreHeld
      /\ (job[p].cmd = "rollback" => job[p].bound \in known[Req(p)] \cup {None})
  BY <1>1, <1>2 DEF IInv, TypeOK, Relies, InRestore, StoreHeld, XIn
<1>4. journal' = journal /\ UNCHANGED histories
  BY DEF XIn
<1>5. JournalFrame(p) /\ OneUnfinished'  BY <1>4, JournalKept
<1>6. HistoryFrame(p)
  BY <1>4, BoundTypes, HistoryKept DEF XIn, bounds, Fault
<1>10. UNCHANGED <<point, restore>> /\ restore[Req(p)].state = "journal"
  BY <1>2 DEF XIn, Relies
<1>11. store' \in Stores \cup {Away}
  BY <1>1, <1>3, <1>2, PointFields DEF XIn, Recorded, Relies
<1>7. StoreFrame(p)
  BY <1>3, <1>4, <1>10, <1>11, OwnedFrame DEF histories
<1>8. \A r \in Requests : Recorded(r)'
  <2>1. ASSUME NEW r \in Requests, r = Req(p) PROVE Recorded(r)'
    BY <2>1, <1>3, <1>4, <1>10 DEF Recorded, histories
  <2> QED  BY <1>1, <1>4, <1>10, <2>1, OthersRecorded
<1>9. ProcFrame(p) /\ (Holds(p) /\ Relies(p))'
  <2>1. CASE Leave(p, FALSE)  BY <1>3, <1>4, <2>1, LeaveKeeps
  <2>2. CASE ~Leave(p, FALSE)
    <3>1. Stay(p, "verify_restore") /\ "verify_restore" \in InRestore \ {"lock"} /\ TRUE
      BY <2>2 DEF XIn, InRestore
    <3>2. ProcFrame(p) /\ Holds(p)' /\ pc'[p] = "verify_restore" /\ job' = job /\ Req(p)' = Req(p)
      BY <1>3, <1>4, <3>1, StayKeeps
    <3> QED  BY <1>3, <1>4, <1>10, <3>1, <3>2, PointFields DEF Relies, InRestore, histories
  <2> QED  BY <2>1, <2>2
<1> QED  BY <1>5, <1>6, <1>7, <1>8, <1>9, Invariant DEF Frame

LEMMA XVerifyStep ==
    ASSUME IInv, NEW p \in Procs, XVerify(p)
    PROVE  IInv'
<1>1. /\ job[p] \in Jobs /\ Req(p) \in Requests /\ Package(p) \in Packages
      /\ job[p].pre \in Versions /\ p # None
  BY OwnFacts DEF XVerify
<1>2. Holds(p) /\ Relies(p) /\ ProcTypes  BY BoundTypes DEF IInv
<1>3. /\ point \in [Requests -> Points \cup {None}] /\ restore \in [Requests -> Restores]
      /\ store \in Stores \cup {Away} /\ known \in [Requests -> SUBSET (Stores \cup {Away})]
      /\ Recorded(Req(p)) /\ point[Req(p)] \in Points
      /\ pc[p] \in InRestore \ {"lock"} /\ pc[p] \in StoreHeld
      /\ (job[p].cmd = "rollback" => job[p].bound \in known[Req(p)] \cup {None})
  BY <1>1, <1>2 DEF IInv, TypeOK, Relies, InRestore, StoreHeld, XVerify
<1>4. journal' = journal /\ UNCHANGED histories
  BY DEF XVerify
<1>5. JournalFrame(p) /\ OneUnfinished'  BY <1>4, JournalKept
<1>6. HistoryFrame(p)
  BY <1>4, BoundTypes, HistoryKept DEF XVerify, bounds, Fault
<1>10. /\ UNCHANGED <<store, restore>>
       /\ point' = point \/ point' = [point EXCEPT ![Req(p)].status = "restored"]
  BY DEF XVerify
<1>11. /\ point' \in [Requests -> Points \cup {None}]
       /\ point'[Req(p)] \in Points /\ point'[Req(p)].after = point[Req(p)].after
       /\ \A r \in Requests \ {Req(p)} : point'[r] = point[r]
  <2>1. CASE point' = point  BY <1>3, <2>1
  <2>2. CASE point' = [point EXCEPT ![Req(p)].status = "restored"]
    <3>1. point'[Req(p)] = [point[Req(p)] EXCEPT !.status = "restored"]
      BY <1>1, <1>3, <2>2
    <3> QED  BY <1>1, <1>3, <2>2, <3>1, PointFields, MorePointFields
  <2> QED  BY <1>10, <2>1, <2>2
<1>7. StoreFrame(p)
  BY <1>3, <1>4, <1>10, <1>11, OwnedFrame DEF histories
<1>8. \A r \in Requests : Recorded(r)'
  <2>1. ASSUME NEW r \in Requests, r = Req(p) PROVE Recorded(r)'
    BY <2>1, <1>3, <1>4, <1>10, <1>11, PointFields DEF Recorded, histories
  <2> QED  BY <1>1, <1>4, <1>10, <1>11, <2>1, OthersRecorded
<1>9. ProcFrame(p) /\ (Holds(p) /\ Relies(p))'
  <2>1. Leave(p, TRUE) \/ Leave(p, FALSE)  BY DEF XVerify
  <2>2. CASE Leave(p, TRUE)  BY <1>3, <1>4, <2>2, LeaveKeeps
  <2>3. CASE Leave(p, FALSE)  BY <1>3, <1>4, <2>3, LeaveKeeps
  <2> QED  BY <2>1, <2>2, <2>3
<1> QED  BY <1>5, <1>6, <1>7, <1>8, <1>9, Invariant DEF Frame

-----------------------------------------------------------------------------
(* The steps of an update, under both locks. *)

LEMMA GotoHolds ==
    ASSUME IInv, NEW p \in Procs, pc[p] \in Updating, NEW l \in Updating, Goto(p, l),
           job' = job, pkgLock' = pkgLock, journal' = journal,
           l \in StoreHeld => storeLock' = p
    PROVE  Holds(p)' /\ pc'[p] = l /\ Req(p)' = Req(p) /\ Package(p)' = Package(p)
<1>1. job[p] \in Jobs /\ ProcTypes /\ Holds(p)
  BY OwnFacts, BoundTypes DEF IInv, Updating
<1>2. pc'[p] = l  BY <1>1 DEF Goto, ProcTypes
<1>3. Req(p)' = Req(p) /\ Package(p)' = Package(p)  BY DEF Req, Package
<1> QED  BY <1>1, <1>2, <1>3 DEF Holds, Coordinates, Updating, InRestore

LEMMA BackupStep ==
    ASSUME IInv, NEW p \in Procs, Backup(p)
    PROVE  IInv'
<1>1. /\ job[p] \in Jobs /\ Req(p) \in Requests /\ Package(p) \in Packages
      /\ job[p].pre \in Versions /\ p # None
  BY OwnFacts DEF Backup
<1>2. Holds(p) /\ Relies(p) /\ ProcTypes  BY BoundTypes DEF IInv
<1>3. /\ point \in [Requests -> Points \cup {None}] /\ restore \in [Requests -> Restores]
      /\ store \in Stores \cup {Away} /\ known \in [Requests -> SUBSET (Stores \cup {Away})]
      /\ runs \in [Requests -> Nat] /\ Recorded(Req(p))
      /\ pc[p] \in Updating /\ pc[p] \in StoreHeld /\ storeLock = p
  BY <1>1, <1>2 DEF IInv, TypeOK, Holds, Updating, StoreHeld, Backup
<1>4. journal' = journal /\ job' = job /\ restore' = restore /\ pkgLock' = pkgLock
  BY DEF Backup, locks
<1>5. JournalFrame(p) /\ OneUnfinished'  BY <1>4, JournalKept
<1>10. ProcFrame(p)
  <2>1. PICK l \in Updating : Goto(p, l)  BY DEF Backup, Updating
  <2>2. l \in PCs  BY <2>1 DEF Updating, PCs
  <2>3. /\ pc' \in [Procs -> PCs] /\ \A q \in Procs \ {p} : pc'[q] = pc[q]
    BY <1>2, <2>1, <2>2, GotoEffect
  <2>4. storeLock' \in {storeLock, None}  BY DEF Backup, locks
  <2> QED  BY <1>2, <1>3, <1>4, <2>3, <2>4 DEF ProcFrame, ProcTypes
<1>11. /\ UNCHANGED <<store, runs, known>> /\ runs[Req(p)] = 0
  BY <1>2, <1>3 DEF Backup, histories, Recorded, Relies
<1>12. /\ point' \in [Requests -> Points \cup {None}]
       /\ \A r \in Requests \ {Req(p)} : point'[r] = point[r]
       /\ \/ point' = point /\ Goto(p, "roll")
          \/ /\ point'[Req(p)] \in Points /\ point'[Req(p)].after = None
             /\ point'[Req(p)].before = store /\ point'[Req(p)].pre = Seen(Package(p))
             /\ Goto(p, "run") /\ storeLock' = storeLock
  <2>1. CASE point' = point /\ Goto(p, "roll")  BY <1>3, <2>1
  <2>2. CASE ~(point' = point /\ Goto(p, "roll"))
    <3> DEFINE new == [pre |-> job[p].pre, before |-> store, after |-> None,
                       status |-> "prepared"]
    <3>1. /\ point' = [point EXCEPT ![Req(p)] = new] /\ Seen(Package(p)) = job[p].pre
          /\ Goto(p, "run") /\ storeLock' = storeLock
      BY <2>2 DEF Backup
    <3>2. store \in Stores
      BY <1>1, <1>3, <3>1, NoneAssumption DEF Seen
    <3>3. new \in Points  BY <1>1, <3>2, NewPoint
    <3> HIDE DEF new
    <3>4. point'[Req(p)] = new  BY <1>1, <1>3, <3>1
    <3>5. new.after = None /\ new.before = store /\ new.pre = Seen(Package(p))
      BY <3>1 DEF new
    <3> QED  BY <1>1, <1>3, <3>1, <3>3, <3>4, <3>5
  <2> QED  BY <2>1, <2>2
<1>6. HistoryFrame(p)
  BY BoundTypes, HistoryKept DEF Backup, bounds, Fault
<1>7. StoreFrame(p)
  BY <1>3, <1>4, <1>11, <1>12, OwnedFrame
<1>8. \A r \in Requests : Recorded(r)'
  <2>1. ASSUME NEW r \in Requests, r = Req(p) PROVE Recorded(r)'
    BY <2>1, <1>3, <1>4, <1>11, <1>12, PointFields DEF Recorded
  <2> QED  BY <1>1, <1>4, <1>11, <1>12, <2>1, OthersRecorded DEF histories
<1>9. ProcFrame(p) /\ (Holds(p) /\ Relies(p))'
  <2>1. CASE Goto(p, "roll")
    <3>1. Holds(p)' /\ pc'[p] = "roll"
      BY <1>3, <1>4, <2>1, GotoHolds DEF Updating, StoreHeld, InRestore
    <3> QED  BY <1>10, <3>1 DEF Relies, InRestore
  <2>2. CASE ~Goto(p, "roll")
    <3>1. Goto(p, "run") /\ storeLock' = p  BY <1>3, <1>12, <2>2
    <3>2. Holds(p)' /\ pc'[p] = "run" /\ Req(p)' = Req(p) /\ Package(p)' = Package(p)
      BY <1>3, <1>4, <3>1, GotoHolds DEF Updating, StoreHeld, InRestore
    <3>3. Seen(Package(p))' = Seen(Package(p))  BY <1>11, <3>2 DEF Seen
    <3>4. journal'[Req(p)] = [status |-> "prepared", pre |-> job[p].pre]
      BY <1>2, <1>4 DEF Backup, Relies
    <3>5. /\ point'[Req(p)] \in Points /\ point'[Req(p)].after = None
          /\ point'[Req(p)].before = store /\ point'[Req(p)].pre = Seen(Package(p))
          /\ job'[p].pre = job[p].pre
      BY <1>4, <1>12, <2>2
    <3>6. Relies(p)'
      BY <1>4, <1>11, <3>2, <3>3, <3>4, <3>5, PointFields DEF Relies, InRestore
    <3> QED  BY <1>10, <3>2, <3>6
  <2> QED  BY <2>1, <2>2
<1> QED  BY <1>5, <1>6, <1>7, <1>8, <1>9, Invariant DEF Frame

LEMMA RunStep ==
    ASSUME IInv, NEW p \in Procs, Run(p)
    PROVE  IInv'
<1>1. /\ job[p] \in Jobs /\ Req(p) \in Requests /\ Package(p) \in Packages
      /\ job[p].pre \in Versions /\ p # None
  BY OwnFacts DEF Run
<1>2. Holds(p) /\ Relies(p) /\ ProcTypes  BY BoundTypes DEF IInv
<1>3. /\ point \in [Requests -> Points \cup {None}] /\ restore \in [Requests -> Restores]
      /\ store \in Stores \cup {Away} /\ known \in [Requests -> SUBSET (Stores \cup {Away})]
      /\ runs \in [Requests -> Nat] /\ Recorded(Req(p))
      /\ pc[p] \in Updating /\ pc[p] \in StoreHeld /\ storeLock = p
  BY <1>1, <1>2 DEF IInv, TypeOK, Holds, Updating, StoreHeld, Run
<1>4. journal' = journal /\ job' = job /\ restore' = restore /\ pkgLock' = pkgLock
  BY DEF Run, locks
<1>5. JournalFrame(p) /\ OneUnfinished'  BY <1>4, JournalKept
<1>10. ProcFrame(p)
  <2>1. PICK l \in Updating : Goto(p, l)  BY DEF Run, Updating
  <2>2. l \in PCs  BY <2>1 DEF Updating, PCs
  <2>3. /\ pc' \in [Procs -> PCs] /\ \A q \in Procs \ {p} : pc'[q] = pc[q]
    BY <1>2, <2>1, <2>2, GotoEffect
  <2>4. storeLock' \in {storeLock, None}  BY DEF Run, locks
  <2> QED  BY <1>2, <1>3, <1>4, <2>3, <2>4 DEF ProcFrame, ProcTypes
<1>11. /\ point' = point /\ known' = known /\ storeLock' = storeLock
       /\ runs[Req(p)] = 0 /\ point[Req(p)] \in Points /\ point[Req(p)].before = store
  BY <1>1, <1>2, <1>3 DEF Run, locks, Relies
<1>12. store' \in Stores
  <2>1. store \in Stores  BY <1>11, PointFields
  <2> QED  BY <1>1, <2>1 DEF Run, Stores
<1>13. /\ runs' \in [Requests -> Nat] /\ runs'[Req(p)] = 1
       /\ \A r \in Requests \ {Req(p)} : runs'[r] = runs[r]
  BY <1>1, <1>3, <1>11 DEF Run
<1>6. HistoryFrame(p)
  <2>1. calls' \in Nat /\ faults' \in Nat /\ crashes' \in Nat /\ edits' \in Nat
    BY BoundTypes DEF Run, Fault
  <2> QED  BY <1>3, <1>11, <1>13, <2>1 DEF HistoryFrame, HistoryTypes
<1>7. StoreFrame(p)
  BY <1>3, <1>4, <1>11, <1>12, <1>13 DEF StoreFrame
<1>8. \A r \in Requests : Recorded(r)'
  BY <1>3, <1>4, <1>11, <1>13, PointFields DEF IInv, Recorded
<1>9. ProcFrame(p) /\ (Holds(p) /\ Relies(p))'
  <2>1. PICK l \in {"after_ok", "after_bad"} : Goto(p, l)  BY DEF Run
  <2>2. Holds(p)' /\ pc'[p] = l /\ Req(p)' = Req(p)
    BY <1>3, <1>4, <1>11, <2>1, GotoHolds DEF Updating, StoreHeld, InRestore
  <2> QED  BY <1>10, <1>11, <2>1, <2>2, PointFields DEF Relies, InRestore
<1> QED  BY <1>5, <1>6, <1>7, <1>8, <1>9, Invariant DEF Frame

LEMMA AfterStep ==
    ASSUME IInv, NEW p \in Procs, After(p)
    PROVE  IInv'
<1>1. /\ job[p] \in Jobs /\ Req(p) \in Requests /\ Package(p) \in Packages
      /\ job[p].pre \in Versions /\ p # None
  BY OwnFacts DEF After
<1>2. Holds(p) /\ Relies(p) /\ ProcTypes  BY BoundTypes DEF IInv
<1>3. /\ point \in [Requests -> Points \cup {None}] /\ restore \in [Requests -> Restores]
      /\ store \in Stores \cup {Away} /\ known \in [Requests -> SUBSET (Stores \cup {Away})]
      /\ runs \in [Requests -> Nat] /\ Recorded(Req(p))
      /\ pc[p] \in Updating /\ pc[p] \in StoreHeld /\ storeLock = p
  BY <1>1, <1>2 DEF IInv, TypeOK, Holds, Updating, StoreHeld, After
<1>4. journal' = journal /\ job' = job /\ restore' = restore /\ pkgLock' = pkgLock
  BY DEF After, locks
<1>5. JournalFrame(p) /\ OneUnfinished'  BY <1>4, JournalKept
<1>10. ProcFrame(p)
  <2>1. PICK l \in Updating : Goto(p, l)  BY DEF After, Updating
  <2>2. l \in PCs  BY <2>1 DEF Updating, PCs
  <2>3. /\ pc' \in [Procs -> PCs] /\ \A q \in Procs \ {p} : pc'[q] = pc[q]
    BY <1>2, <2>1, <2>2, GotoEffect
  <2>4. storeLock' \in {storeLock, None}  BY DEF After, locks
  <2> QED  BY <1>2, <1>3, <1>4, <2>3, <2>4 DEF ProcFrame, ProcTypes
<1>11. /\ UNCHANGED <<store, runs>> /\ point[Req(p)] \in Points
       /\ \/ point' = point /\ known' = known
          \/ /\ point' = [point EXCEPT ![Req(p)].after = store,
                                      ![Req(p)].status = "update-returned"]
             /\ known' = [known EXCEPT ![Req(p)] = @ \cup {store}]
  BY <1>1, <1>2, <1>3 DEF After, Relies
<1>12. /\ point' \in [Requests -> Points \cup {None}]
       /\ point'[Req(p)] \in Points
       /\ \A r \in Requests \ {Req(p)} : point'[r] = point[r] /\ known'[r] = known[r]
       /\ known' \in [Requests -> SUBSET (Stores \cup {Away})]
       /\ known[Req(p)] \subseteq known'[Req(p)]
       /\ \/ point'[Req(p)] = point[Req(p)]
          \/ point'[Req(p)].after = store /\ store \in known'[Req(p)]
  <2>1. CASE point' = point /\ known' = known  BY <1>3, <1>11, <2>1
  <2>2. CASE /\ point' = [point EXCEPT ![Req(p)].after = store,
                                      ![Req(p)].status = "update-returned"]
             /\ known' = [known EXCEPT ![Req(p)] = @ \cup {store}]
    <3>1. point'[Req(p)] = [point[Req(p)] EXCEPT !.after = store,
                                                 !.status = "update-returned"]
      BY <1>1, <1>3, <2>2
    <3>2. point'[Req(p)] \in Points /\ point'[Req(p)].after = store
      <4> DEFINE x == point[Req(p)]
      <4>1. x \in Points  BY <1>11
      <4> HIDE DEF x
      <4>2. /\ [x EXCEPT !.after = store, !.status = "update-returned"] \in Points
            /\ [x EXCEPT !.after = store, !.status = "update-returned"].after = store
        BY <1>3, <4>1 DEF Points
      <4> QED  BY <3>1, <4>2 DEF x
    <3>3. known'[Req(p)] = known[Req(p)] \cup {store}  BY <1>1, <1>3, <2>2
    <3>4. known' \in [Requests -> SUBSET (Stores \cup {Away})]
      BY <1>1, <1>3, <2>2
    <3>5. point' \in [Requests -> Points \cup {None}]
      BY <1>1, <1>3, <2>2, <3>1, <3>2
    <3>6. \A r \in Requests \ {Req(p)} : point'[r] = point[r] /\ known'[r] = known[r]
      BY <1>3, <2>2
    <3> QED  BY <3>2, <3>3, <3>4, <3>5, <3>6
  <2> QED  BY <1>11, <2>1, <2>2
<1>6. HistoryFrame(p)
  <2>1. calls' \in Nat /\ faults' \in Nat /\ crashes' \in Nat /\ edits' \in Nat
    BY BoundTypes DEF After, Fault
  <2> QED  BY <1>3, <1>11, <1>12, <2>1 DEF HistoryFrame, HistoryTypes
<1>7. StoreFrame(p)
  BY <1>3, <1>4, <1>11, <1>12, OwnedFrame
<1>8. \A r \in Requests : Recorded(r)'
  BY <1>3, <1>4, <1>11, <1>12, PointFields DEF IInv, Recorded
<1>9. ProcFrame(p) /\ (Holds(p) /\ Relies(p))'
  <2>1. PICK l \in {"returned", "roll"} : Goto(p, l)  BY DEF After
  <2>2. Holds(p)' /\ pc'[p] = l
    BY <1>3, <1>4, <2>1, GotoHolds DEF Updating, StoreHeld, InRestore
  <2> QED  BY <1>10, <2>1, <2>2 DEF Relies, InRestore
<1> QED  BY <1>5, <1>6, <1>7, <1>8, <1>9, Invariant DEF Frame

LEMMA RecordStep ==
    ASSUME IInv, NEW p \in Procs, Record(p)
    PROVE  IInv'
<1>1. /\ job[p] \in Jobs /\ Req(p) \in Requests /\ Package(p) \in Packages
      /\ job[p].pre \in Versions /\ p # None
  BY OwnFacts DEF Record
<1>2. Holds(p) /\ Relies(p) /\ ProcTypes  BY BoundTypes DEF IInv
<1>3. journal' = journal /\ UNCHANGED <<store, point, restore, histories, bounds>>
  BY DEF Record, files
<1>4. StoreFrame(p) /\ HistoryFrame(p) /\ \A r \in Requests : Recorded(r)'
  BY <1>3, FilesKept, BoundTypes DEF bounds
<1>5. JournalFrame(p) /\ OneUnfinished'  BY <1>3, JournalKept
<1>6. CASE End(p)
  <2>1. ProcFrame(p) /\ pc'[p] = "idle"  BY <1>2, <1>6, EndFrame
  <2>2. (Holds(p) /\ Relies(p))'  BY <2>1 DEF Holds, Relies, Coordinates, Updating, InRestore, StoreHeld
  <2> QED  BY <1>4, <1>5, <2>1, <2>2, Invariant DEF Frame
<1>7. CASE ~End(p)
  <2>1. /\ pkgLock[Package(p)] = None /\ ~Blocked(p)
        /\ pkgLock' = [pkgLock EXCEPT ![Package(p)] = p] /\ storeLock' = storeLock
        /\ job' = [job EXCEPT ![p].out = "rolled-back"] /\ Goto(p, "finish")
    BY <1>7 DEF Record, Admitted
  <2>2. /\ pc' \in [Procs -> PCs] /\ pc'[p] = "finish"
        /\ \A q \in Procs \ {p} : pc'[q] = pc[q]
    BY <1>2, <2>1, GotoEffect DEF PCs
  <2>3. /\ job' \in [Procs -> Jobs \cup {None}]
        /\ \A q \in Procs \ {p} : job'[q] = job[q]
        /\ job'[p] \in Jobs /\ job'[p].req = job[p].req /\ job'[p].out # None
    <3>1. job'[p] = [job[p] EXCEPT !.out = "rolled-back"]  BY <1>2, <2>1 DEF ProcTypes
    <3>4. "rolled-back" \in Terminal \cup {"rollback-failed"}  BY DEF Terminal
    <3>2. job'[p] \in Jobs  BY <1>1, <3>1, <3>4, JobFields
    <3>3. job'[p].req = job[p].req /\ job'[p].out # None
      BY <1>1, <3>1, NoneStrings DEF Jobs, Terminal
    <3> QED  BY <1>2, <2>1, <3>2, <3>3 DEF ProcTypes
  <2>4. /\ pkgLock' \in [Packages -> Procs \cup {None}] /\ pkgLock'[Package(p)] = p
        /\ \A q \in Procs, k \in Packages : pkgLock[k] = q => pkgLock'[k] = q
    BY <1>1, <1>2, <2>1, NoneAssumption DEF ProcTypes
  <2>5. ProcFrame(p)
    BY <1>2, <2>1, <2>2, <2>3, <2>4 DEF ProcFrame, ProcTypes
  <2>6. \A r \in Requests \ {Req(p)} :
           PackageOf[r] = Package(p) => journal'[r].status \notin Unfinished
    BY <1>3, <2>1 DEF Blocked
  <2>7. Req(p)' = Req(p) /\ Package(p)' = Package(p)  BY <2>3 DEF Req, Package
  <2>8. (Holds(p) /\ Relies(p))'
    BY <2>2, <2>3, <2>4, <2>6, <2>7
       DEF Holds, Relies, Coordinates, Updating, InRestore, StoreHeld
  <2> QED  BY <1>4, <1>5, <2>5, <2>8, Invariant DEF Frame
<1> QED  BY <1>6, <1>7

-----------------------------------------------------------------------------
(* Commands, deaths and edits. *)

LEMMA CrashStep ==
    ASSUME IInv, NEW p \in Procs, Crash(p)
    PROVE  IInv'
<1>1. ProcTypes  BY BoundTypes
<1>2. ProcFrame(p) /\ pc'[p] = "idle"  BY <1>1, EndFrame DEF Crash
<1>3. journal' = journal /\ UNCHANGED <<store, point, restore, histories>>
  BY DEF Crash, files
<1>4. StoreFrame(p) /\ HistoryFrame(p) /\ \A r \in Requests : Recorded(r)'
  BY <1>3, FilesKept, BoundTypes DEF Crash
<1>5. JournalFrame(p) /\ OneUnfinished'  BY <1>3, JournalKept
<1>6. (Holds(p) /\ Relies(p))'
  BY <1>2 DEF Holds, Relies, Coordinates, Updating, InRestore, StoreHeld
<1> QED  BY <1>2, <1>4, <1>5, <1>6, Invariant DEF Frame

LEMMA CallStep ==
    ASSUME IInv, NEW p \in Procs, NEW r \in Requests,
           NEW c \in {"upgrade", "recover", "rollback"}, NEW v \in Versions,
           NEW b \in Stores \cup Versions \cup {None, Away},
           c = "rollback" => b \in Stores \cup {None, Away},
           Call(p, c, r, v, b)
    PROVE  IInv'
<1> DEFINE new == [cmd |-> c, req |-> r, pre |-> v, bound |-> b, out |-> None]
           l == IF c = "rollback" THEN "lock" ELSE "load"
<1>1. ProcTypes /\ new \in Jobs /\ new.cmd = c /\ new.req = r /\ new.bound = b
  BY BoundTypes, NewJob
<1> HIDE DEF new
<1>2. /\ job' = [job EXCEPT ![p] = new] /\ Goto(p, l) /\ l \in PCs
      /\ known' = [known EXCEPT ![r] = IF c = "rollback" /\ b # None THEN @ \cup {b} ELSE @]
      /\ UNCHANGED <<files, locks, runs, faults, crashes, edits>> /\ calls' = calls + 1
  BY DEF Call, new, PCs
<1>3. /\ pc' \in [Procs -> PCs] /\ pc'[p] = l /\ job'[p] = new
      /\ job' \in [Procs -> Jobs \cup {None}]
      /\ \A q \in Procs \ {p} : pc'[q] = pc[q] /\ job'[q] = job[q]
  BY <1>1, <1>2, GotoEffect DEF ProcTypes
<1>4. ProcFrame(p)  BY <1>1, <1>2, <1>3 DEF ProcFrame, ProcTypes, locks
<1>5. /\ known' \in [Requests -> SUBSET (Stores \cup {Away})]
      /\ \A s \in Requests : known[s] \subseteq known'[s]
      /\ c = "rollback" => b \in known'[r] \cup {None}
  <2>1. known \in [Requests -> SUBSET (Stores \cup {Away})]  BY DEF IInv, TypeOK
  <2> QED  BY <1>2, <2>1
<1>6. HistoryFrame(p)
  BY <1>2, <1>5, BoundTypes DEF HistoryFrame, HistoryTypes, IInv, TypeOK
<1>7. StoreFrame(p)  BY <1>2 DEF StoreFrame, IInv, TypeOK, files
<1>8. JournalFrame(p) /\ OneUnfinished'  BY <1>2, JournalKept DEF files
<1>9. \A s \in Requests : Recorded(s)'
  BY <1>2, <1>5 DEF IInv, Recorded, files
<1>10. Req(p)' = r /\ job'[p].cmd = c /\ job'[p].bound = b
  BY <1>1, <1>3 DEF Req
<1>11. (Holds(p) /\ Relies(p))'
  BY <1>1, <1>3, <1>5, <1>10 DEF Holds, Relies, Coordinates, Updating, InRestore, StoreHeld
<1> QED  BY <1>4, <1>6, <1>7, <1>8, <1>9, <1>11, Invariant DEF Frame

LEMMA CommandStep ==
    ASSUME IInv, NEW p \in Procs, NEW r \in Requests, Command(p, r)
    PROVE  IInv'
<1>1. /\ PackageOf[r] \in Packages /\ TypeOK
      /\ point[r] \in Points \cup {None} /\ journal[r] \in Journals \cup {NoJournal}
      /\ store \in Stores \cup {Away}
  BY RequestAssumption DEF IInv, TypeOK
<1>2. CASE Upgrade(p, r)
  <2>1. (IF point[r] = None THEN Seen(PackageOf[r]) ELSE point[r].pre) \in Versions
    BY <1>1, <1>2, SeenVersion, PointFields DEF Upgrade
  <2> QED  BY <1>2, <2>1, CallStep DEF Upgrade
<1>3. CASE Recover(p, r)
  <2>1. journal[r].pre \in Versions /\ Seen(PackageOf[r]) \in Versions
    BY <1>1, <1>3, SeenVersion, JournalFields DEF Recover
  <2> QED  BY <1>3, <2>1, CallStep DEF Recover
<1>4. CASE Rollback(p, r)
  <2>1. point[r].pre \in Versions  BY <1>1, <1>4, PointFields DEF Rollback
  <2>2. PICK b \in {None, store} : Call(p, "rollback", r, point[r].pre, b)
    BY <1>4 DEF Rollback
  <2> QED  BY <1>1, <2>1, <2>2, CallStep
<1> QED  BY <1>2, <1>3, <1>4 DEF Command

LEMMA EditStep ==
    ASSUME IInv, Edit
    PROVE  IInv'
<1>1. /\ \A p \in Procs : pc'[p] = "idle"
      /\ UNCHANGED <<journal, point, restore, pkgLock, storeLock, pc, job, runs, known>>
      /\ calls' \in Nat /\ faults' \in Nat /\ crashes' \in Nat /\ edits' \in Nat
  BY BoundTypes DEF Edit, locks, histories, IInv, TypeOK
<1>2. store' \in Stores
  BY DEF Edit, IInv, TypeOK, Stores
<1>3. TypeOK'  BY <1>1, <1>2 DEF IInv, TypeOK
<1>4. \A p \in Procs : (Holds(p) /\ Relies(p))'
  BY <1>1 DEF Holds, Relies, Coordinates, Updating, InRestore, StoreHeld
<1>5. OneUnfinished' /\ \A r \in Requests : Recorded(r)'
  BY <1>1 DEF IInv, OneUnfinished, Recorded
<1> QED  BY <1>3, <1>4, <1>5 DEF IInv

LEMMA InitInv == Init => IInv
<1> SUFFICES ASSUME Init PROVE IInv  OBVIOUS
<1>1. TypeOK
  BY RestoreFields DEF Init, TypeOK, PCs
<1>2. OneUnfinished  BY DEF Init, OneUnfinished, NoJournal, Unfinished
<1>3. \A p \in Procs : Holds(p) /\ Relies(p)
  BY DEF Init, Holds, Relies, Coordinates, Updating, InRestore, StoreHeld
<1>4. \A r \in Requests : Recorded(r)
  BY RestoreFields DEF Init, Recorded
<1> QED  BY <1>1, <1>2, <1>3, <1>4 DEF IInv

LEMMA StutterStep ==
    ASSUME IInv, UNCHANGED vars
    PROVE  IInv'
<1>1. UNCHANGED <<store, journal, point, restore, pkgLock, storeLock, pc, job, runs, known,
                 calls, faults, crashes, edits>>
  BY DEF vars, files, locks, histories, bounds
<1>2. TypeOK' /\ OneUnfinished'  BY <1>1 DEF IInv, TypeOK, OneUnfinished
<1>3. \A r \in Requests : Recorded(r)'  BY <1>1 DEF IInv, Recorded
<1>4. \A p \in Procs : (Holds(p) /\ Relies(p))'
  BY <1>1 DEF IInv, Holds, Relies, Coordinates, Req, Package, Seen
<1> QED  BY <1>2, <1>3, <1>4 DEF IInv

LEMMA NextInv == IInv /\ [Next]_vars => IInv'
<1> SUFFICES ASSUME IInv, [Next]_vars PROVE IInv'  OBVIOUS
<1>1. CASE UNCHANGED vars  BY <1>1, StutterStep
<1>2. CASE Edit  BY <1>2, EditStep
<1>3. ASSUME NEW p \in Procs, NEW r \in Requests, Command(p, r) PROVE IInv'
  BY <1>3, CommandStep
<1>4. ASSUME NEW p \in Procs, Coordinate(p) PROVE IInv'
  BY <1>4, LoadStep, PrepareStep, UpdateStep, BackupStep, RunStep, AfterStep, ReturnedStep,
     VerifyStep, RollStep, SettleStep, FinishStep DEF Coordinate
<1>5. ASSUME NEW p \in Procs, Restoring(p) PROVE IInv'
  BY <1>5, XLockStep, XResumeStep, XReviewStep, XRefuseStep, XBeginStep, XCaptureStep,
     XJournalStep, XOutStep, XInStep, XVerifyStep, RecordStep DEF Restoring
<1>6. ASSUME NEW p \in Procs, Crash(p) PROVE IInv'  BY <1>6, CrashStep
<1> QED  BY <1>1, <1>2, <1>3, <1>4, <1>5, <1>6 DEF Next

-----------------------------------------------------------------------------
(* The second invariant, of one operator: what a receipt is written from. *)

OneOperator == \E p : Procs = {p}

\* The operation is journaled, for the pre-state of the command.
Journaled(p) ==
    \/ pc[p] \in (Updating \ {"prepare"}) \cup {"finish"}
    \/ pc[p] \in InRestore /\ job[p].cmd # "rollback"

\* An upgrade whose request has no restore point has just observed its
\* pre-state; what a command decided to write is so, or was written before.
Witnessed(p) ==
    /\ pc[p] = "load" /\ job[p].cmd = "upgrade" =>
           point[Req(p)] # None \/ Seen(Package(p)) = job[p].pre
    /\ Journaled(p) => journal[Req(p)].pre = job[p].pre
    /\ pc[p] \in {"returned", "verify"} => point[Req(p)] # None
    /\ pc[p] = "finish" /\ job[p].out = "verified" =>
           \/ journal[Req(p)].status = "verified"
           \/ Seen(Package(p)) = Target(p) /\ point[Req(p)] # None
    /\ pc[p] = "finish" /\ job[p].out = "rolled-back" =>
           Seen(Package(p)) = job[p].pre /\ Restored(Req(p))

LEMMA IdleWitnessed ==
    ASSUME NEW p \in Procs, pc'[p] = "idle"
    PROVE  Witnessed(p)'
  BY DEF Witnessed, Journaled, Updating, InRestore

LEMMA StaysWitnessed ==
    ASSUME NEW p \in Procs, Witnessed(p), journal' = journal, job' = job,
           pc'[p] \notin {"load", "returned", "verify", "finish"},
           Journaled(p)' => Journaled(p)
    PROVE  Witnessed(p)'
  BY DEF Witnessed, Req

\* A step of rollback_exact writes no journal; when it is left the observation,
\* or the record, comes next.
LEMMA RestoringGoesOn ==
    ASSUME IInv, NEW p \in Procs, Restoring(p), ~Record(p)
    PROVE  /\ journal' = journal
           /\ \/ pc'[p] = "idle"
              \/ /\ pc[p] \in InRestore /\ job' = job
                 /\ \/ pc'[p] \in InRestore
                    \/ pc'[p] = "settle" /\ job[p].cmd # "rollback"
                    \/ pc'[p] = "record"
<1>1. ProcTypes  BY BoundTypes
<1>2. pc[p] \in InRestore /\ journal' = journal
  BY DEF Restoring, XLock, XResume, XReview, XRefuse, XBegin, XCapture, XJournal, XOut, XIn,
         XVerify, Begins, InRestore, files
<1>3. CASE Leave(p, TRUE) \/ Leave(p, FALSE)
  <2>1. ASSUME NEW done \in BOOLEAN, Leave(p, done)
        PROVE  \/ pc'[p] = "idle"
               \/ pc'[p] = "record" /\ job' = job
               \/ pc'[p] = "settle" /\ job' = job /\ job[p].cmd # "rollback"
    BY <1>1, <2>1, LeaveFrame
  <2> QED  BY <1>2, <1>3, <2>1
<1>4. CASE ~(Leave(p, TRUE) \/ Leave(p, FALSE))
  <2>1. \/ job' = job /\ \E l \in InRestore : Goto(p, l)
        \/ pc' = pc /\ job' = job
    BY <1>4 DEF Restoring, XLock, XResume, XReview, XRefuse, XBegin, XCapture, XJournal, XOut,
         XIn, XVerify, Stay, InRestore
  <2> QED  BY <1>1, <1>2, <2>1 DEF Goto, ProcTypes
<1> QED  BY <1>3, <1>4

LEMMA RestoringWitnessed ==
    ASSUME IInv, NEW p \in Procs, Witnessed(p), Restoring(p), ~Record(p)
    PROVE  Witnessed(p)'
<1>1. CASE pc'[p] = "idle"  BY <1>1, IdleWitnessed
<1>2. CASE pc'[p] # "idle"
  <2>1. /\ journal' = journal /\ job' = job /\ pc[p] \in InRestore
        /\ \/ pc'[p] \in InRestore
           \/ pc'[p] = "settle" /\ job[p].cmd # "rollback"
           \/ pc'[p] = "record"
    BY <1>2, RestoringGoesOn
  <2>2. Journaled(p)' => Journaled(p)
    BY <2>1 DEF Journaled, Updating, InRestore
  <2> QED  BY <2>1, <2>2, StaysWitnessed DEF InRestore
<1> QED  BY <1>1, <1>2

\* What a command that was let in has found in the journal.
LEMMA AdmittedPre ==
    ASSUME NEW p \in Procs, Admitted(p), journal[Req(p)] # NoJournal
    PROVE  journal[Req(p)].pre = job[p].pre
  BY DEF Admitted, Blocked

LEMMA OutJob ==
    ASSUME IInv, NEW p \in Procs, pc[p] # "idle",
           NEW s \in Terminal \cup {"rollback-failed"}, job' = [job EXCEPT ![p].out = s]
    PROVE  /\ job'[p].out = s /\ job'[p].pre = job[p].pre
           /\ Req(p)' = Req(p) /\ Package(p)' = Package(p) /\ Target(p)' = Target(p)
<1>1. job[p] \in Jobs /\ ProcTypes  BY OwnFacts, BoundTypes
<1>2. job'[p] = [job[p] EXCEPT !.out = s]  BY <1>1 DEF ProcTypes
<1>3. job'[p].out = s /\ job'[p].pre = job[p].pre /\ job'[p].req = job[p].req
  BY <1>1, <1>2 DEF Jobs
<1> QED  BY <1>3 DEF Req, Package, Target

LEMMA NoStatus == NoJournal.status = "none" /\ "none" \notin Terminal \cup Unfinished
  BY DEF NoJournal, Terminal, Unfinished

\* A replay closes an operation as verified when the package is at the target
\* and was not before the command, and as rolled back when it is as before.
LEMMA LoadDecides ==
    ASSUME NEW p \in Procs, Decision(p) \notin {"prepare", "refuse"},
           journal[Req(p)].status \in Terminal \cup Unfinished \cup {"none"}
    PROVE  /\ journal[Req(p)].status # "none"
           /\ Decision(p) = "verified" =>
                 \/ journal[Req(p)].status = "verified"
                 \/ /\ job[p].cmd # "recover"
                    /\ Seen(Package(p)) = Target(p) /\ Seen(Package(p)) # job[p].pre
           /\ Decision(p) = "rolled-back" =>
                 Seen(Package(p)) = job[p].pre /\ Restored(Req(p))
<1>1. CASE job[p].cmd = "recover"
  <2>1. Decision(p) = Recovery(p)  BY <1>1 DEF Decision
  <2> QED  BY <2>1 DEF Recovery, Unfinished
<1>2. CASE job[p].cmd # "recover"
  <2>1. Decision(p) = Replay(p)  BY <1>2 DEF Decision
  <2>2. journal[Req(p)].status # "none"
    BY <2>1 DEF Replay
  <2> QED  BY <1>2, <2>1, <2>2 DEF Replay, Terminal, Unfinished
<1> QED  BY <1>1, <1>2

LEMMA LoadWitnessed ==
    ASSUME IInv, NEW p \in Procs, Witnessed(p), Load(p)
    PROVE  Witnessed(p)'
<1>1. pc[p] # "idle" /\ pc[p] = "load" /\ job[p].cmd # "rollback" /\ ProcTypes
  BY BoundTypes DEF Load, IInv, Holds
<1>2. /\ job[p] \in Jobs /\ Req(p) \in Requests /\ job[p].cmd \in {"upgrade", "recover"}
      /\ journal[Req(p)] \in Journals \cup {NoJournal}
  BY <1>1, OwnFacts DEF IInv, TypeOK, Jobs
<1>3. journal[Req(p)].status \in Terminal \cup Unfinished \cup {"none"}
  BY <1>2, NoStatus DEF Journals
<1>4. UNCHANGED <<store, journal, point>>  BY DEF Load, files
<1>5. CASE End(p)
  <2>1. pc'[p] = "idle"  BY <1>1, <1>5, EndFrame
  <2> QED  BY <2>1, IdleWitnessed
<1>6. CASE ~End(p)
  <2>1. /\ Admitted(p) /\ Decision(p) # "refuse"
        /\ IF Decision(p) \in Terminal
           THEN job' = [job EXCEPT ![p].out = Decision(p)] /\ Goto(p, "finish")
           ELSE Goto(p, Decision(p)) /\ job' = job
    BY <1>6 DEF Load
  <2>2. CASE Decision(p) = "prepare"
    <3>1. pc'[p] = "prepare" /\ job' = job
      BY <1>1, <2>1, <2>2 DEF Goto, ProcTypes, Terminal
    <3> QED  BY <1>4, <3>1, StaysWitnessed DEF Journaled, Updating, InRestore
  <2>3. CASE Decision(p) # "prepare"
    <3>1. /\ journal[Req(p)].status # "none"
          /\ Decision(p) = "verified" =>
                 \/ journal[Req(p)].status = "verified"
                 \/ /\ job[p].cmd # "recover"
                    /\ Seen(Package(p)) = Target(p) /\ Seen(Package(p)) # job[p].pre
          /\ Decision(p) = "rolled-back" =>
                 Seen(Package(p)) = job[p].pre /\ Restored(Req(p))
      BY <1>3, <2>1, <2>3, LoadDecides
    <3>2. journal[Req(p)].pre = job[p].pre
      BY <2>1, <3>1, AdmittedPre, NoStatus
    <3>3. CASE Decision(p) \in Terminal
      <4>1. pc'[p] = "finish" /\ job' = [job EXCEPT ![p].out = Decision(p)]
        BY <1>1, <2>1, <3>3 DEF Goto, ProcTypes
      <4>2. /\ job'[p].out = Decision(p) /\ job'[p].pre = job[p].pre
            /\ Req(p)' = Req(p) /\ Package(p)' = Package(p) /\ Target(p)' = Target(p)
        BY <1>1, <3>3, <4>1, OutJob
      <4>3. Decision(p) = "verified" =>
                 \/ journal[Req(p)].status = "verified"
                 \/ Seen(Package(p)) = Target(p) /\ point[Req(p)] # None
        BY <1>1, <1>2, <3>1 DEF Witnessed
      <4>4. /\ journal'[Req(p)'] = journal[Req(p)] /\ point'[Req(p)'] = point[Req(p)]
            /\ Seen(Package(p))' = Seen(Package(p))
            /\ Restored(Req(p))' <=> Restored(Req(p))
        BY <1>4, <4>2 DEF Seen, Restored
      <4> QED  BY <3>1, <3>2, <4>1, <4>2, <4>3, <4>4 DEF Witnessed
    <3>4. CASE Decision(p) \notin Terminal
      <4>1. Decision(p) = "roll"  BY <2>1, <2>3, <3>4, DecisionRange
      <4>2. pc'[p] = "roll" /\ job' = job
        BY <1>1, <2>1, <3>4, <4>1 DEF Goto, ProcTypes
      <4> QED  BY <1>4, <3>2, <4>2 DEF Witnessed, Req
    <3> QED  BY <3>3, <3>4
  <2> QED  BY <2>2, <2>3
<1> QED  BY <1>5, <1>6

\* A status written on the way is journaled for the pre-state of the command.
LEMMA SaveWitnessed ==
    ASSUME IInv, NEW p \in Procs, pc[p] # "idle", NEW s, Save(p, s), job' = job,
           NEW l \in {"update", "verify", "lock"}, Goto(p, l),
           l = "verify" => point'[Req(p)] # None
    PROVE  Witnessed(p)'
<1>1. /\ Req(p) \in Requests /\ ProcTypes /\ job[p] \in Jobs
      /\ journal \in [Requests -> Journals \cup {NoJournal}]
  BY OwnFacts, BoundTypes DEF IInv, TypeOK
<1>2. pc'[p] = l  BY <1>1 DEF Goto, ProcTypes
<1>3. journal'[Req(p)] = [status |-> s, pre |-> job[p].pre]  BY <1>1 DEF Save
<1> QED  BY <1>2, <1>3 DEF Witnessed, Req

LEMMA CoordinateWitnessed ==
    ASSUME IInv, NEW p \in Procs, Witnessed(p), Coordinate(p)
    PROVE  Witnessed(p)'
<1>1. /\ pc[p] # "idle" /\ ProcTypes /\ Relies(p)
  BY BoundTypes DEF Coordinate, Load, Prepare, Update, Backup, Run, After, Returned, Verify,
     Roll, Settle, Finish, IInv
<1>2. /\ job[p] \in Jobs /\ Req(p) \in Requests
      /\ point \in [Requests -> Points \cup {None}]
  BY <1>1, OwnFacts DEF IInv, TypeOK
<1>3. CASE Load(p)  BY <1>3, LoadWitnessed
<1>4. CASE Prepare(p)  BY <1>1, <1>4, SaveWitnessed DEF Prepare
<1>5. CASE Roll(p)  BY <1>1, <1>5, SaveWitnessed DEF Roll
<1>6. CASE Returned(p)
  <2>1. point'[Req(p)] # None  BY <1>6 DEF Returned, Witnessed
  <2> QED  BY <1>1, <1>6, <2>1, SaveWitnessed DEF Returned
<1>7. CASE Update(p) \/ Backup(p) \/ Run(p)
  <2>1. PICK l \in {"backup", "roll", "run", "after_ok", "after_bad"} : Goto(p, l)
    BY <1>7 DEF Update, Backup, Run
  <2>2. pc'[p] = l  BY <1>1, <2>1 DEF Goto, ProcTypes
  <2>3. journal' = journal /\ job' = job /\ Journaled(p)
    BY <1>7 DEF Update, Backup, Run, files, Journaled, Updating, locks
  <2> QED  BY <2>2, <2>3, StaysWitnessed
<1>8. CASE After(p)
  <2>1. journal' = journal /\ job' = job /\ Journaled(p) /\ point[Req(p)] # None
    BY <1>1, <1>8 DEF After, Journaled, Updating, Relies
  <2>2. PICK l \in {"returned", "roll"} : Goto(p, l)  BY <1>8 DEF After
  <2>3. pc'[p] = l  BY <1>1, <2>2 DEF Goto, ProcTypes
  <2>4. CASE l = "roll"  BY <2>1, <2>3, <2>4, StaysWitnessed
  <2>5. CASE l = "returned"
    <3>1. point' = [point EXCEPT ![Req(p)].after = store, ![Req(p)].status = "update-returned"]
      BY <1>1, <1>8, <2>3, <2>5 DEF After, Goto, ProcTypes
    <3>2. point'[Req(p)] # None
      <4> DEFINE x == point[Req(p)]
      <4>1. x \in Points  BY <1>2, <2>1
      <4> HIDE DEF x
      <4>2. [x EXCEPT !.after = store, !.status = "update-returned"] \in Points
        BY <4>1 DEF IInv, TypeOK, Points
      <4>3. point'[Req(p)] = [x EXCEPT !.after = store, !.status = "update-returned"]
        BY <1>2, <3>1 DEF x
      <4> QED  BY <4>2, <4>3, NoneAssumption
    <3> QED  BY <2>1, <2>3, <2>5, <3>2 DEF Witnessed, Req
  <2> QED  BY <2>2, <2>4, <2>5
<1>9. CASE Verify(p)
  <2>1. /\ UNCHANGED <<store, journal, point>> /\ Journaled(p) /\ point[Req(p)] # None
        /\ journal[Req(p)].pre = job[p].pre
    BY <1>9 DEF Verify, files, Journaled, Updating, Witnessed
  <2>2. CASE Seen(Package(p)) = Target(p)
    <3>1. job' = [job EXCEPT ![p].out = "verified"] /\ pc'[p] = "finish"
      BY <1>1, <1>9, <2>2 DEF Verify, Goto, ProcTypes
    <3>2. /\ job'[p].out = "verified" /\ job'[p].pre = job[p].pre
          /\ Req(p)' = Req(p) /\ Package(p)' = Package(p) /\ Target(p)' = Target(p)
      BY <1>1, <3>1, OutJob DEF Terminal
    <3>3. Seen(Package(p))' = Seen(Package(p))  BY <2>1, <3>2 DEF Seen
    <3> QED  BY <2>1, <2>2, <3>1, <3>2, <3>3 DEF Witnessed
  <2>3. CASE Seen(Package(p)) # Target(p)
    <3>1. job' = job /\ pc'[p] = "roll"
      BY <1>1, <1>9, <2>3 DEF Verify, Goto, ProcTypes
    <3> QED  BY <2>1, <3>1, StaysWitnessed
  <2> QED  BY <2>2, <2>3
<1>10. CASE Settle(p)
  <2> DEFINE s == IF Seen(Package(p)) = job[p].pre /\ Restored(Req(p))
                  THEN "rolled-back" ELSE "rollback-failed"
  <2>1. /\ UNCHANGED <<store, journal, point>> /\ journal[Req(p)].pre = job[p].pre
        /\ job' = [job EXCEPT ![p].out = s] /\ pc'[p] = "finish"
    BY <1>1, <1>10 DEF Settle, files, Journaled, Updating, Witnessed, Goto, ProcTypes
  <2>2. s \in Terminal \cup {"rollback-failed"} /\ s # "verified"
        /\ (s = "rolled-back" => Seen(Package(p)) = job[p].pre /\ Restored(Req(p)))
    BY DEF Terminal
  <2> HIDE DEF s
  <2>3. /\ job'[p].out = s /\ job'[p].pre = job[p].pre
        /\ Req(p)' = Req(p) /\ Package(p)' = Package(p) /\ Target(p)' = Target(p)
    BY <1>1, <2>1, <2>2, OutJob
  <2>4. Seen(Package(p))' = Seen(Package(p)) /\ (Restored(Req(p))' <=> Restored(Req(p)))
    BY <2>1, <2>3 DEF Seen, Restored
  <2> QED  BY <2>1, <2>2, <2>3, <2>4 DEF Witnessed
<1>11. CASE Finish(p)
  <2>1. pc'[p] = "idle"  BY <1>1, <1>11, EndFrame DEF Finish
  <2> QED  BY <2>1, IdleWitnessed
<1> QED  BY <1>3, <1>4, <1>5, <1>6, <1>7, <1>8, <1>9, <1>10, <1>11 DEF Coordinate

LEMMA RecordWitnessed ==
    ASSUME IInv, NEW p \in Procs, Witnessed(p), Record(p)
    PROVE  Witnessed(p)'
<1>1. pc[p] # "idle" /\ ProcTypes /\ UNCHANGED <<store, journal, point>>
  BY BoundTypes DEF Record, files
<1>2. CASE End(p)
  <2>1. pc'[p] = "idle"  BY <1>1, <1>2, EndFrame
  <2> QED  BY <2>1, IdleWitnessed
<1>3. CASE ~End(p)
  <2>1. /\ Admitted(p) /\ journal[Req(p)] # NoJournal
        /\ Seen(Package(p)) = job[p].pre /\ Restored(Req(p))
        /\ job' = [job EXCEPT ![p].out = "rolled-back"] /\ pc'[p] = "finish"
    BY <1>1, <1>3 DEF Record, Goto, ProcTypes
  <2>2. journal[Req(p)].pre = job[p].pre  BY <2>1, AdmittedPre
  <2>3. /\ job'[p].out = "rolled-back" /\ job'[p].pre = job[p].pre
        /\ Req(p)' = Req(p) /\ Package(p)' = Package(p) /\ Target(p)' = Target(p)
    BY <1>1, <2>1, OutJob DEF Terminal
  <2>4. Seen(Package(p))' = Seen(Package(p)) /\ (Restored(Req(p))' <=> Restored(Req(p)))
    BY <1>1, <2>3 DEF Seen, Restored
  <2> QED  BY <1>1, <2>1, <2>2, <2>3, <2>4 DEF Witnessed
<1> QED  BY <1>2, <1>3

\* An upgrade whose request has no restore point takes what it has just seen.
LEMMA CommandWitnessed ==
    ASSUME IInv, NEW p \in Procs, NEW r \in Requests, Command(p, r)
    PROVE  Witnessed(p)'
<1>1. PICK c, v, b :
         /\ c \in {"upgrade", "recover", "rollback"} /\ Call(p, c, r, v, b)
         /\ c = "upgrade" => point[r] # None \/ Seen(PackageOf[r]) = v
  BY DEF Command, Upgrade, Recover, Rollback
<1>2. ProcTypes  BY BoundTypes
<1>3. /\ pc'[p] = IF c = "rollback" THEN "lock" ELSE "load"
      /\ job'[p] = [cmd |-> c, req |-> r, pre |-> v, bound |-> b, out |-> None]
      /\ store' = store /\ point' = point
  BY <1>1, <1>2 DEF Call, Goto, ProcTypes, files
<1>4. job'[p].cmd = c /\ job'[p].pre = v /\ Req(p)' = r /\ Package(p)' = PackageOf[r]
  BY <1>3 DEF Req, Package
<1>5. Seen(Package(p))' = Seen(PackageOf[r])  BY <1>3, <1>4 DEF Seen
<1>6. ~Journaled(p)'
  BY <1>3, <1>4 DEF Journaled, Updating, InRestore
<1> QED  BY <1>1, <1>3, <1>4, <1>5, <1>6 DEF Witnessed

LEMMA WitnessedStep ==
    ASSUME IInv, OneOperator, \A p \in Procs : Witnessed(p), [Next]_vars
    PROVE  \A p \in Procs : Witnessed(p)'
<1>1. ASSUME NEW p \in Procs, NEW q \in Procs PROVE p = q
  BY DEF OneOperator
<1>2. CASE UNCHANGED vars
  BY <1>2 DEF vars, files, locks, histories, bounds, Witnessed, Journaled, Req, Package,
              Target, Seen, Restored
<1>3. CASE Edit
  BY <1>3, IdleWitnessed DEF Edit
<1>4. ASSUME NEW p \in Procs, NEW r \in Requests, Command(p, r) PROVE Witnessed(p)'
  BY <1>4, CommandWitnessed
<1>5. ASSUME NEW p \in Procs, Coordinate(p) PROVE Witnessed(p)'
  BY <1>5, CoordinateWitnessed
<1>6. ASSUME NEW p \in Procs, Restoring(p) PROVE Witnessed(p)'
  BY <1>6, RestoringWitnessed, RecordWitnessed
<1>7. ASSUME NEW p \in Procs, Crash(p) PROVE Witnessed(p)'
  BY <1>7, BoundTypes, EndFrame, IdleWitnessed DEF Crash
<1> QED  BY <1>1, <1>2, <1>3, <1>4, <1>5, <1>6, <1>7 DEF Next

\* Only the last write of a command closes an operation.
LEMMA ReceiptStep ==
    ASSUME IInv, \A p \in Procs : Witnessed(p), [Next]_vars, NEW r \in Requests
    PROVE  /\ journal'[r].status = "verified" /\ journal[r].status # "verified" =>
                Seen(PackageOf[r]) = TargetOf[r] /\ point[r] # None
           /\ journal'[r].status = "rolled-back" /\ journal[r].status # "rolled-back" =>
                Seen(PackageOf[r]) = journal[r].pre /\ Restored(r)
<1>1. CASE journal'[r] = journal[r]  BY <1>1
<1>2. ASSUME NEW p \in Procs, NEW s, Save(p, s), pc[p] # "idle",
             s \in Terminal => pc[p] = "finish" /\ s = job[p].out
      PROVE  /\ journal'[r].status = "verified" /\ journal[r].status # "verified" =>
                   Seen(PackageOf[r]) = TargetOf[r] /\ point[r] # None
             /\ journal'[r].status = "rolled-back" /\ journal[r].status # "rolled-back" =>
                   Seen(PackageOf[r]) = journal[r].pre /\ Restored(r)
  <2>1. CASE r # Req(p)
    BY <1>2, <2>1 DEF Save, IInv, TypeOK
  <2>2. CASE r = Req(p)
    <3>1. journal'[r].status = s  BY <1>2, <2>2 DEF Save, IInv, TypeOK
    <3>2. Witnessed(p) /\ Package(p) = PackageOf[r] /\ Target(p) = TargetOf[r]
      BY <2>2 DEF Package, Target
    <3>3. s \in Terminal => journal[r].pre = job[p].pre
      BY <1>2, <2>2, <3>2 DEF Witnessed, Journaled
    <3> QED  BY <1>2, <2>2, <3>1, <3>2, <3>3 DEF Witnessed, Terminal
  <2> QED  BY <2>1, <2>2
<1>3. CASE UNCHANGED vars \/ Edit  BY <1>1, <1>3 DEF vars, files, Edit
<1>4. ASSUME NEW p \in Procs, Coordinate(p)
      PROVE  \/ journal' = journal
             \/ \E s : /\ Save(p, s) /\ pc[p] # "idle"
                       /\ s \in Terminal => pc[p] = "finish" /\ s = job[p].out
  BY <1>4 DEF Coordinate, Load, Prepare, Update, Backup, Run, After, Returned, Verify,
     Roll, Settle, Finish, files, Terminal
<1>5. ASSUME NEW p \in Procs, Restoring(p) PROVE journal' = journal
  BY <1>5, RestoringGoesOn DEF Record, files
<1>6. ASSUME NEW p \in Procs, Crash(p) \/ \E q \in Requests : Command(p, q)
      PROVE  journal' = journal
  BY <1>6 DEF Crash, Command, Upgrade, Recover, Rollback, Call, files
<1> QED  BY <1>1, <1>2, <1>3, <1>4, <1>5, <1>6 DEF Next

-----------------------------------------------------------------------------
(* The theorems. *)

\* The invariant that locks, journals, restore points and restores keep
\* together, whatever the processes do.
THEOREM Invariance == Spec => []IInv
<1> QED  BY InitInv, NextInv, PTL DEF Spec

\* Every file, lock and history of the upgrade keeps its type.
THEOREM TypeCorrect == Spec => []TypeOK
<1>1. IInv => TypeOK  BY DEF IInv
<1> QED  BY <1>1, Invariance, PTL

\* One request calls Claude's update at most once (package_transactions.py:208).
THEOREM RunsOnce == Spec => []AtMostOnce
<1>1. IInv => AtMostOnce  BY DEF IInv, Recorded, AtMostOnce
<1> QED  BY <1>1, Invariance, PTL

\* Claude updates a package only when a journal and a backup of the store as it
\* is are on disk.
THEOREM RunsBacked == Spec => []RunIsBacked
<1>1. IInv => RunIsBacked  BY DEF IInv, Relies, RunIsBacked
<1> QED  BY <1>1, Invariance, PTL

\* No crash or concurrency leaves two unfinished operations of one package.
THEOREM SingleUnfinished == Spec => []OneUnfinished
<1>1. IInv => OneUnfinished  BY DEF IInv
<1> QED  BY <1>1, Invariance, PTL

\* A restore takes away only a store its update recorded, an operator reviewed,
\* or the backup itself.
THEOREM NothingLost == Spec => NoLoss
<1>1. ASSUME IInv, [Next]_vars
      PROVE  [\A p \in Procs :
                 (pc[p] \in {"out", "in"} /\ store' # store /\ store # Away) =>
                     store \in known[Req(p)] \cup {point[Req(p)].before}]_vars
  BY <1>1 DEF IInv, Relies
<1> QED  BY <1>1, Invariance, PTL DEF Spec, NoLoss

\* A receipt tells the truth when one operator works: "verified" is written at
\* the target version and with a restore point, "rolled-back" when all that was
\* captured is as before (package_transactions.py:159-195, 229-309).
THEOREM ReceiptsTrue == OneOperator /\ Spec => TruthfulReceipt
<1> SUFFICES ASSUME OneOperator PROVE Spec => TruthfulReceipt
  OBVIOUS
<1> DEFINE WInv == IInv /\ \A p \in Procs : Witnessed(p)
<1>1. Init => WInv
  BY InitInv DEF Init, Witnessed, Journaled, Updating, InRestore
<1>2. WInv /\ [Next]_vars => WInv'
  BY NextInv, WitnessedStep
<1>3. WInv /\ [Next]_vars =>
        [\A r \in Requests :
          /\ journal'[r].status = "verified" /\ journal[r].status # "verified" =>
                Seen(PackageOf[r]) = TargetOf[r] /\ point[r] # None
          /\ journal'[r].status = "rolled-back" /\ journal[r].status # "rolled-back" =>
                Seen(PackageOf[r]) = journal[r].pre /\ Restored(r)]_vars
  BY ReceiptStep
<1> QED  BY <1>1, <1>2, <1>3, PTL DEF Spec, TruthfulReceipt

=============================================================================

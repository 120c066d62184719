------------------------- MODULE InstallationsProofs -------------------------
(***************************************************************************)
(* What Installations promises, proved for every set of installations,     *)
(* targets and contents, for plans of any length and every bound, of one   *)
(* operator (OneOperator): two at once do break it, as the README says.    *)
(*                                                                         *)
(* The promises are about the end of a command.  What leads there is a     *)
(* statement for each line a command can be at (Holding): an apply that    *)
(* got as far as its kth operation has made those before it, left those    *)
(* behind it and backed up all of them; an undo that is back at the kth    *)
(* has put back those behind it, or knows that it could not; a rollback    *)
(* has restored the units behind the one it is at, or left them as they    *)
(* were because they drifted.                                              *)
(***************************************************************************)
EXTENDS Installations, TLAPS

\* Neither an apply nor a rollback takes a lock, and registry.json is read and
\* written in two steps: what is proved is proved of one operator at a time.
OneOperator == \E p : Procs = {p}

-----------------------------------------------------------------------------
(* The inductive invariant. *)

Paths == [Targets -> Objects \cup {Torn}]
Registries == [Installs -> Statuses \cup {None}]
Jobs == [cmd : {"apply", "rollback", "retire"}, inst : Installs, k : Nat, todo : SUBSET Targets, ack : BOOLEAN,
         why : {None, "repair", "undo", "roll"}, failed : BOOLEAN, lost : BOOLEAN, drifted : BOOLEAN,
         reg : {None} \cup Registries, status : Statuses, was : Paths]

StoreOK ==
    /\ live \in Paths
    /\ DOMAIN plan = Installs /\ \A i \in Installs : plan[i] = None \/ plan[i] \in [Planned(i) -> Objects]
    /\ backup \in [Installs -> [Targets -> Objects]]
    /\ DOMAIN receipt = Installs /\ \A i \in Installs : receipt[i] = None \/ receipt[i] \in Receipts(i)
    /\ registry \in Registries /\ clock \in Nat
ControlOK == pc \in [Procs -> PCs] /\ job \in [Procs -> {None} \cup Jobs]
CountsOK == calls \in Nat /\ faults \in Nat /\ crashes \in Nat /\ edits \in Nat

\* The operations of an installation by their number, and what is so of one.
Ops(i) == DOMAIN Order(i)
Op(i, m) == Order(i)[m]
Left(j, m) == live[Op(j.inst, m)] = j.was[Op(j.inst, m)]
Made(j, m) == live[Op(j.inst, m)] = Output[j.inst][Op(j.inst, m)]
Kept(j, m) == backup[j.inst][Op(j.inst, m)] = j.was[Op(j.inst, m)]
Seen(j, m) == Kept(j, m) /\ plan[j.inst][Op(j.inst, m)] = j.was[Op(j.inst, m)]
PutBack(j, m) == j.failed \/ j.lost \/ Left(j, m)
Linked(j) == j.ack \/ \A t \in Planned(j.inst) : ~Gap(t, j.inst, plan[j.inst][t])

\* An apply, where it stands: what is before the operation it is at, and what is
\* behind it.
Preparing(l, j) ==
    /\ receipt[j.inst] = None /\ Linked(j) /\ j.k \in Ops(j.inst)
    /\ \A m \in Ops(j.inst) : Left(j, m)
    /\ l = "preflight" =>
          \A m \in Ops(j.inst) : IF m < j.k THEN Seen(j, m) ELSE backup[j.inst][Op(j.inst, m)] = Absent
    /\ l = "groups" => \A m \in Ops(j.inst) : Seen(j, m)
Committing(l, j) ==
    /\ receipt[j.inst] = None /\ Linked(j) /\ j.k \in Ops(j.inst)
    /\ \A m \in Ops(j.inst) :
          /\ Seen(j, m) /\ (m < j.k => Made(j, m)) /\ (m > j.k => Left(j, m))
          /\ l = "commit" /\ m = j.k => Left(j, m)
Registering(l, j) ==
    /\ j.k = Len(Order(j.inst))
    /\ \A m \in Ops(j.inst) : Seen(j, m) /\ Made(j, m)
    /\ l = "record" => receipt[j.inst] = None /\ Linked(j)
    /\ l \in {"read", "write"} => receipt[j.inst] # None
    /\ l = "write" => j.reg = registry
Undoing(l, j) ==
    /\ j.k \in {0} \cup Ops(j.inst)
    /\ \A m \in Ops(j.inst) : m > j.k => PutBack(j, m)
    /\ l \in {"rm", "cp"} =>
          j.why \in {"repair", "undo"} /\ j.k \in Ops(j.inst) /\ j.todo = {Op(j.inst, j.k)}
    /\ IF j.k = 0 THEN \A m \in Ops(j.inst) : backup[j.inst][Op(j.inst, m)] = Absent \/ Kept(j, m)
       ELSE \A m \in Ops(j.inst) : Kept(j, m)
    /\ l = "discard" => j.k = 0
Applying(l, j) ==
    /\ j.cmd = "apply" /\ j.status = "active" /\ registry[j.inst] = None /\ plan[j.inst] # None
    /\ \/ l \in {"preflight", "groups"} /\ Preparing(l, j)
       \/ l \in {"commit", "remove", "place"} /\ Committing(l, j)
       \/ l \in {"record", "read", "write"} /\ Registering(l, j)
       \/ l \in {"undo", "rm", "cp", "discard"} /\ Undoing(l, j)

\* A rollback: the units behind the one it is at are restored or were skipped.
AllRestored(j, m) == \A t \in ToSet(Units[j.inst][m]) : IsRestored(j.inst, t)
AllLeft(j, m) == \A t \in ToSet(Units[j.inst][m]) : live[t] = j.was[t]
Rolling(l, j) ==
    /\ j.cmd = "rollback" /\ l \in {"unit", "rm", "cp", "read", "write"}
    /\ receipt[j.inst] # None /\ \A t \in Planned(j.inst) : backup[j.inst][t] = receipt[j.inst].original[t]
    /\ j.k \in {0} \cup DOMAIN Units[j.inst]
    /\ \A m \in DOMAIN Units[j.inst] :
          /\ m > j.k => AllRestored(j, m) \/ (j.drifted /\ AllLeft(j, m))
          /\ m < j.k \/ (m = j.k /\ l = "unit") => AllLeft(j, m)
    /\ l \in {"rm", "cp"} =>
          /\ j.why = "roll" /\ j.k \in DOMAIN Units[j.inst] /\ j.todo \subseteq ToSet(Units[j.inst][j.k])
          /\ \A t \in ToSet(Units[j.inst][j.k]) \ j.todo : IsRestored(j.inst, t)
    /\ l \in {"read", "write"} => j.k = 0 /\ j.status = (IF j.drifted THEN "drifted" ELSE "rolled_back")

Retiring(l, j) == j.cmd = "retire" /\ l \in {"read", "write"} /\ j.k = 0

Holding(l, j) ==
    /\ j \in Jobs /\ (l \in {"rm", "cp"} => j.todo # {}) /\ (l \notin {"rm", "cp"} => j.todo = {})
    /\ l = "write" => j.reg \in Registries
    /\ Applying(l, j) \/ Rolling(l, j) \/ Retiring(l, j)
Own(p) == pc[p] # "idle" => Holding(pc[p], job[p])

Good(p) == StoreOK /\ ControlOK /\ Own(p)
IInv == CountsOK /\ StoreOK /\ ControlOK /\ \A p \in Procs : Own(p)

-----------------------------------------------------------------------------
(* Operations and units. *)

LEMMA OrderIs ==
    ASSUME NEW i \in Installs
    PROVE  /\ Len(Order(i)) \in Nat \ {0} /\ Ops(i) = 1 .. Len(Order(i))
           /\ \A m \in Ops(i) : Op(i, m) \in Planned(i) /\ Op(i, m) \in Targets
           /\ \A m, h \in Ops(i) : Op(i, m) = Op(i, h) => m = h
           /\ \A t \in Planned(i) : \E m \in Ops(i) : t = Op(i, m)
           /\ Planned(i) \subseteq Targets
<1>1. Order(i) \in Seq(Targets) /\ Len(Order(i)) > 0 /\ IsInjective(Order(i))
  BY PlanAssumption, OrderAssumption
<1>2. Ops(i) = 1 .. Len(Order(i)) /\ Len(Order(i)) \in Nat \ {0} /\ \A m \in Ops(i) : Op(i, m) \in Targets
  BY <1>1 DEF Ops, Op
<1>3. Planned(i) = {Op(i, m) : m \in Ops(i)}
  BY DEF Planned, ToSet, Op, Ops
<1>4. \A m, h \in Ops(i) : Op(i, m) = Op(i, h) => m = h
  BY <1>1 DEF IsInjective, Ops, Op
<1> QED BY <1>2, <1>3, <1>4

LEMMA UnitsAre ==
    ASSUME NEW i \in Installs
    PROVE  /\ Len(Units[i]) \in Nat /\ DOMAIN Units[i] = 1 .. Len(Units[i])
           /\ \A m \in DOMAIN Units[i] : ToSet(Units[i][m]) \subseteq Planned(i)
           /\ \A t \in Planned(i) : \E m \in DOMAIN Units[i] : t \in ToSet(Units[i][m])
           /\ \A m, n \in DOMAIN Units[i] : m # n => ToSet(Units[i][m]) \cap ToSet(Units[i][n]) = {}
<1>1. Units[i] \in Seq(Seq(Targets))
  BY PlanAssumption
<1>2. ToSet(Units[i]) = {Units[i][m] : m \in DOMAIN Units[i]}
  BY DEF ToSet
<1>3. Planned(i) = UNION {ToSet(u) : u \in ToSet(Units[i])}
  BY OrderAssumption
<1>4. \A m, n \in DOMAIN Units[i] : m # n => ToSet(Units[i][m]) \cap ToSet(Units[i][n]) = {}
  BY OrderAssumption
<1>5. Len(Units[i]) \in Nat /\ DOMAIN Units[i] = 1 .. Len(Units[i])
  BY <1>1
<1>6. \A t : t \in Planned(i) <=> \E m \in DOMAIN Units[i] : t \in ToSet(Units[i][m])
  BY <1>2, <1>3
<1> QED BY <1>4, <1>5, <1>6

LEMMA Apart == Absent # Torn /\ Torn \notin Objects /\ None \notin Statuses
BY PlanAssumption DEF Objects

\* What a target gets, and what is behind it.
LEMMA OutputIs ==
    ASSUME NEW i \in Installs, NEW t \in Planned(i)
    PROVE  Output[i][t] \in Objects
BY PlanAssumption

-----------------------------------------------------------------------------
(* A command goes on, or ends. *)

LEMMA NextGood ==
    ASSUME NEW p \in Procs, Good(p), StoreOK', NEW l \in PCs, NEW j, Goto(p, l),
           Set(p, j) \/ (job' = job /\ j = job[p]), Holding(l, j)'
    PROVE  Good(p)'
<1>1. pc' \in [Procs -> PCs] /\ pc'[p] = l
  BY DEF Good, ControlOK, Goto
<1>2. job' \in [Procs -> {None} \cup Jobs] /\ job'[p] = j
  <2>1. j \in Jobs
    BY DEF Holding
  <2> QED BY <2>1 DEF Good, ControlOK, Set
<1> QED BY <1>1, <1>2 DEF Good, ControlOK, Own

LEMMA EndGood == ASSUME NEW p \in Procs, Good(p), StoreOK', End(p) PROVE Good(p)'
<1>1. pc' \in [Procs -> PCs] /\ pc'[p] = "idle"
  BY DEF Good, ControlOK, End, Goto, PCs
<1>2. job' \in [Procs -> {None} \cup Jobs]
  BY DEF Good, ControlOK, End, Set
<1> QED BY <1>1, <1>2 DEF Good, ControlOK, Own

\* Who is at a line of an apply applies.
LEMMA AtWork ==
    ASSUME NEW p \in Procs, Good(p), pc[p] # "idle"
    PROVE  /\ Holding(pc[p], job[p]) /\ job[p] \in Jobs /\ Inst(p) \in Installs
           /\ pc[p] \in {"preflight", "groups", "commit", "remove", "place", "record", "undo", "discard"}
                 => Applying(pc[p], job[p])
           /\ pc[p] = "unit" => Rolling(pc[p], job[p])
<1>1. Holding(pc[p], job[p])
  BY DEF Good, Own
<1>2. job[p] \in Jobs
  BY <1>1 DEF Holding
<1> QED BY <1>1, <1>2 DEF Holding, Rolling, Retiring, Applying, Jobs, Inst

\* The link to the installation before stands while the record does.
LEMMA LinkedStands ==
    ASSUME NEW j, NEW h, h.inst = j.inst, h.ack = j.ack, Linked(j), UNCHANGED <<plan, registry, receipt>>
    PROVE  Linked(h)'
BY DEF Linked, Gap, Writers

\* What is so of an operation stays so when neither its target nor its backup
\* changes.
LEMMA Unmoved ==
    ASSUME NEW j, NEW h, NEW m, h.inst = j.inst, h.was = j.was, UNCHANGED plan
    PROVE  /\ live'[Op(j.inst, m)] = live[Op(j.inst, m)] =>
                 (Left(h, m)' <=> Left(j, m)) /\ (Made(h, m)' <=> Made(j, m))
           /\ backup'[j.inst][Op(j.inst, m)] = backup[j.inst][Op(j.inst, m)] =>
                 (Kept(h, m)' <=> Kept(j, m)) /\ (Seen(h, m)' <=> Seen(j, m))
BY DEF Left, Made, Kept, Seen, Op

\* A command that goes on with an apply.
LEMMA StillApplying ==
    ASSUME NEW l, NEW h \in Jobs, h.cmd = "apply", h.status = "active", (registry[h.inst] = None /\ plan[h.inst] # None)',
           l # "write", l \in {"rm", "cp"} <=> h.todo # {},
           \/ l \in {"preflight", "groups"} /\ Preparing(l, h)'
           \/ l \in {"commit", "remove", "place"} /\ Committing(l, h)'
           \/ l \in {"record", "read", "write"} /\ Registering(l, h)'
           \/ l \in {"undo", "rm", "cp", "discard"} /\ Undoing(l, h)'
    PROVE  Holding(l, h)'
BY DEF Holding, Applying

-----------------------------------------------------------------------------
(* The steps of an apply. *)

LEMMA PreflightGood == ASSUME NEW p \in Procs, Good(p), Preflight(p) PROVE Good(p)'
<1>1. PICK j, i, t : j = job[p] /\ i = j.inst /\ t = Op(i, j.k)
  OBVIOUS
<1>2. /\ j \in Jobs /\ i \in Installs /\ pc[p] = "preflight" /\ Preparing("preflight", j)
      /\ j.cmd = "apply" /\ j.status = "active" /\ registry[i] = None /\ plan[i] # None /\ j.todo = {}
  <2>1. Holding("preflight", j) /\ Applying("preflight", j) /\ pc[p] = "preflight"
    BY <1>1, AtWork DEF Preflight
  <2> QED BY <1>1, <2>1 DEF Holding, Applying, Jobs
<1>3. /\ Len(Order(i)) \in Nat \ {0} /\ Ops(i) = 1 .. Len(Order(i)) /\ j.k \in Ops(i) /\ t \in Targets
      /\ \A m \in Ops(i) : Op(i, m) = t => m = j.k
  BY <1>1, <1>2, OrderIs DEF Preparing
<1>4. At(p) = t /\ Inst(p) = i /\ Original(p, t) = plan[i][t]
  BY <1>1 DEF At, Inst, Op, Original
<1>5. UNCHANGED <<live, plan, receipt, registry, clock>>
  BY DEF Preflight
<1>6. /\ receipt[i] = None /\ Linked(j) /\ \A m \in Ops(i) : Left(j, m)
      /\ \A m \in Ops(i) : IF m < j.k THEN Seen(j, m) ELSE backup[i][Op(i, m)] = Absent
  BY <1>1, <1>2 DEF Preparing
<1>7. CASE /\ live[t] = plan[i][t] /\ backup' = [backup EXCEPT ![i][t] = live[t]]
           /\ IF j.k < Len(Order(i))
              THEN Goto(p, "preflight") /\ Set(p, [j EXCEPT !.k = j.k + 1])
              ELSE Goto(p, "groups") /\ job' = job
  <2>1. backup' \in [Installs -> [Targets -> Objects]] /\ StoreOK'
    <3>1. plan[i] \in [Planned(i) -> Objects] /\ backup \in [Installs -> [Targets -> Objects]]
      BY <1>2, <1>6 DEF Good, StoreOK
    <3>2. t \in Planned(i)
      BY <1>1, <1>2, <1>3, OrderIs
    <3>3. backup' \in [Installs -> [Targets -> Objects]]
      BY <1>2, <1>3, <1>7, <3>1, <3>2
    <3> QED BY <1>5, <3>3 DEF Good, StoreOK
  <2>2. /\ backup'[i][t] = live[t]
        /\ \A m \in Ops(i) : m # j.k => backup'[i][Op(i, m)] = backup[i][Op(i, m)]
    BY <1>2, <1>3, <1>7, OrderIs DEF Good, StoreOK
  <2>3. ASSUME NEW h, h.inst = i, h.was = j.was
        PROVE  \A m \in Ops(i) : /\ Left(h, m)' /\ (m <= j.k => Seen(h, m)')
                                 /\ m > j.k => backup'[i][Op(i, m)] = Absent
    <3> SUFFICES ASSUME NEW m \in Ops(i) PROVE /\ Left(h, m)' /\ (m <= j.k => Seen(h, m)')
                                               /\ m > j.k => backup'[i][Op(i, m)] = Absent
      OBVIOUS
    <3>1. m \in Nat /\ j.k \in Nat
      BY <1>3
    <3>2. Left(h, m)'
      BY <1>1, <1>5, <1>6, <2>3, Unmoved
    <3>3. CASE m < j.k
      <4>1. Seen(h, m)'
        BY <1>1, <1>5, <1>6, <2>2, <2>3, <3>1, <3>3, Unmoved
      <4> QED BY <3>1, <3>2, <3>3, <4>1
    <3>4. CASE m = j.k
      <4>1. Left(j, m)
        BY <1>6
      <4>2. Seen(h, m)'
        BY <1>1, <1>5, <1>7, <2>2, <2>3, <3>4, <4>1 DEF Seen, Kept, Left, Op
      <4> QED BY <3>1, <3>2, <3>4, <4>2
    <3>5. CASE m > j.k
      BY <1>6, <2>2, <3>1, <3>2, <3>5
    <3> QED BY <3>1, <3>3, <3>4, <3>5
  <2>4. CASE j.k < Len(Order(i))
    <3>1. PICK h : h = [j EXCEPT !.k = j.k + 1]
      OBVIOUS
    <3>2. /\ h \in Jobs /\ h.inst = i /\ h.was = j.was /\ h.ack = j.ack /\ h.k = j.k + 1
          /\ h.cmd = "apply" /\ h.status = "active" /\ h.todo = {}
      BY <1>1, <1>2, <3>1 DEF Jobs
    <3>3. Linked(h)'
      BY <1>1, <1>5, <1>6, <3>2, LinkedStands
    <3>4. Preparing("preflight", h)'
      <4>1. h.k \in Ops(i) /\ \A m \in Ops(i) : m < h.k <=> m <= j.k
        BY <1>3, <2>4, <3>2
      <4>2. \A m \in Ops(i) : /\ Left(h, m)'
                              /\ IF m < h.k THEN Seen(h, m)' ELSE backup'[i][Op(i, m)] = Absent
        <5> SUFFICES ASSUME NEW m \in Ops(i) PROVE /\ Left(h, m)'
                              /\ IF m < h.k THEN Seen(h, m)' ELSE backup'[i][Op(i, m)] = Absent
          OBVIOUS
        <5>1. m < h.k <=> ~(m > j.k)
          BY <1>3, <3>2
        <5>2. m <= j.k <=> ~(m > j.k)
          BY <1>3
        <5>3. Left(h, m)' /\ (m <= j.k => Seen(h, m)') /\ (m > j.k => backup'[i][Op(i, m)] = Absent)
          BY <2>3, <3>2
        <5> QED BY <5>1, <5>2, <5>3
      <4> QED BY <1>5, <1>6, <3>2, <3>3, <4>1, <4>2 DEF Preparing, Op, Ops
    <3>5. Holding("preflight", h)'
      BY <1>2, <1>5, <3>2, <3>4, StillApplying
    <3> QED BY <1>7, <2>1, <2>4, <3>1, <3>5, NextGood DEF PCs
  <2>5. CASE ~(j.k < Len(Order(i)))
    <3>1. Linked(j)'
      BY <1>1, <1>5, <1>6, LinkedStands
    <3>2. \A m \in Ops(i) : m <= j.k
      BY <1>3, <2>5
    <3>3. Preparing("groups", j)'
      BY <1>1, <1>3, <1>5, <1>6, <2>3, <3>1, <3>2 DEF Preparing, Op, Ops
    <3>4. Holding("groups", j)'
      BY <1>1, <1>2, <1>5, <3>3, StillApplying
    <3> QED BY <1>1, <1>7, <2>1, <2>5, <3>4, NextGood DEF PCs
  <2> QED BY <2>4, <2>5
<1>8. CASE Goto(p, "undo") /\ Set(p, [j EXCEPT !.k = 0]) /\ backup' = backup
  <2>1. StoreOK'
    BY <1>5, <1>8 DEF Good, StoreOK
  <2>2. PICK h : h = [j EXCEPT !.k = 0]
    OBVIOUS
  <2>3. /\ h \in Jobs /\ h.inst = i /\ h.was = j.was /\ h.k = 0
        /\ h.cmd = "apply" /\ h.status = "active" /\ h.todo = {}
    BY <1>1, <1>2, <2>2 DEF Jobs
  <2>4. \A m \in Ops(i) : Left(h, m)' /\ (backup'[i][Op(i, m)] = Absent \/ Kept(h, m)')
    BY <1>1, <1>5, <1>6, <1>8, <2>3, Unmoved DEF Seen
  <2>5. Undoing("undo", h)'
    BY <2>3, <2>4 DEF Undoing, PutBack, Op, Ops
  <2>6. Holding("undo", h)'
    BY <1>2, <1>5, <2>3, <2>5, StillApplying
  <2> QED BY <1>8, <2>1, <2>2, <2>6, NextGood DEF PCs
<1> QED BY <1>1, <1>4, <1>7, <1>8 DEF Preflight

LEMMA GroupsGood == ASSUME NEW p \in Procs, Good(p), Groups(p) PROVE Good(p)'
<1>1. PICK j, i : j = job[p] /\ i = j.inst
  OBVIOUS
<1>2. /\ j \in Jobs /\ i \in Installs /\ Preparing("groups", j)
      /\ j.cmd = "apply" /\ j.status = "active" /\ registry[i] = None /\ plan[i] # None /\ j.todo = {}
  <2>1. Holding("groups", j) /\ Applying("groups", j)
    BY <1>1, AtWork DEF Groups
  <2> QED BY <1>1, <2>1 DEF Holding, Applying, Jobs
<1>3. UNCHANGED state
  BY DEF Groups
<1>4. StoreOK'
  BY <1>3 DEF Good, StoreOK, state
<1>5. /\ receipt[i] = None /\ Linked(j) /\ \A m \in Ops(i) : Left(j, m) /\ Seen(j, m)
  BY <1>1, <1>2 DEF Preparing
<1>6. \A h, m : h.inst = i /\ h.was = j.was /\ m \in Ops(i) => Left(h, m)' /\ Seen(h, m)' /\ Kept(h, m)'
  BY <1>1, <1>3, <1>5, Unmoved DEF state, Seen
<1>7. CASE Goto(p, "commit") /\ Set(p, [j EXCEPT !.k = 1])
  <2>1. PICK h : h = [j EXCEPT !.k = 1]
    OBVIOUS
  <2>2. /\ h \in Jobs /\ h.inst = i /\ h.was = j.was /\ h.ack = j.ack /\ h.k = 1
        /\ h.cmd = "apply" /\ h.status = "active" /\ h.todo = {}
    BY <1>1, <1>2, <2>1 DEF Jobs
  <2>3. Linked(h)'
    BY <1>1, <1>3, <1>5, <2>2, LinkedStands DEF state
  <2>4. 1 \in Ops(i) /\ \A m \in Ops(i) : ~(m < 1)
    BY <1>2, OrderIs
  <2>5. Committing("commit", h)'
    BY <1>3, <1>5, <1>6, <2>2, <2>3, <2>4 DEF Committing, Op, Ops, state
  <2>6. Holding("commit", h)'
    BY <1>2, <1>3, <2>2, <2>5, StillApplying DEF state
  <2> QED BY <1>4, <1>7, <2>1, <2>6, NextGood DEF PCs
<1>8. CASE Goto(p, "undo") /\ Set(p, [j EXCEPT !.k = 0])
  <2>1. PICK h : h = [j EXCEPT !.k = 0]
    OBVIOUS
  <2>2. /\ h \in Jobs /\ h.inst = i /\ h.was = j.was /\ h.k = 0
        /\ h.cmd = "apply" /\ h.status = "active" /\ h.todo = {}
    BY <1>1, <1>2, <2>1 DEF Jobs
  <2>3. Undoing("undo", h)'
    BY <1>6, <2>2 DEF Undoing, PutBack, Op, Ops
  <2>4. Holding("undo", h)'
    BY <1>2, <1>3, <2>2, <2>3, StillApplying DEF state
  <2> QED BY <1>4, <1>8, <2>1, <2>4, NextGood DEF PCs
<1> QED BY <1>1, <1>7, <1>8 DEF Groups

\* Where an apply stands among its operations.
AtOp(p, j, i, t) == /\ Good(p) /\ pc[p] \in {"commit", "remove", "place"}
                    /\ j = job[p] /\ i = j.inst /\ t = Op(i, j.k)

LEMMA CommittingIs ==
    ASSUME NEW p \in Procs, NEW j, NEW i, NEW t, AtOp(p, j, i, t)
    PROVE  /\ j \in Jobs /\ i \in Installs /\ j.cmd = "apply" /\ j.status = "active" /\ j.todo = {}
           /\ registry[i] = None /\ plan[i] # None /\ receipt[i] = None /\ Linked(j)
           /\ j.k \in Ops(i) /\ Len(Order(i)) \in Nat \ {0} /\ Ops(i) = 1 .. Len(Order(i))
           /\ t \in Targets /\ t \in Planned(i) /\ \A m \in Ops(i) : Op(i, m) = t => m = j.k
           /\ \A m \in Ops(i) : Seen(j, m) /\ (m < j.k => Made(j, m)) /\ (m > j.k => Left(j, m))
           /\ pc[p] = "commit" => Left(j, j.k)
           /\ At(p) = t /\ Inst(p) = i /\ New(p, t) = Output[i][t] /\ Output[i][t] \in Objects
<1>1. Holding(pc[p], j) /\ Applying(pc[p], j) /\ j \in Jobs /\ i \in Installs
  BY AtWork DEF Inst, AtOp
<1>2. /\ Committing(pc[p], j) /\ j.cmd = "apply" /\ j.status = "active" /\ j.todo = {} /\ registry[i] = None /\ plan[i] # None
  BY <1>1 DEF Holding, Applying, AtOp
<1>3. /\ receipt[i] = None /\ Linked(j) /\ j.k \in Ops(i)
      /\ \A m \in Ops(i) : Seen(j, m) /\ (m < j.k => Made(j, m)) /\ (m > j.k => Left(j, m))
      /\ pc[p] = "commit" => Left(j, j.k)
  BY <1>2 DEF Committing, AtOp
<1>4. /\ Len(Order(i)) \in Nat \ {0} /\ Ops(i) = 1 .. Len(Order(i))
      /\ t \in Targets /\ t \in Planned(i) /\ \A m \in Ops(i) : Op(i, m) = t => m = j.k
  BY <1>1, <1>3, OrderIs DEF AtOp
<1>5. At(p) = t /\ Inst(p) = i /\ New(p, t) = Output[i][t]
  BY DEF AtOp, At, Inst, New, Op
<1>6. Output[i][t] \in Objects
  BY <1>1, <1>4, OutputIs
<1> QED BY <1>1, <1>2, <1>3, <1>4, <1>5, <1>6

\* Only the target of the operation changes.
LEMMA OneMoved ==
    ASSUME NEW p \in Procs, NEW j, NEW i, NEW t, AtOp(p, j, i, t),
           NEW o \in Objects \cup {Torn}, live' = [live EXCEPT ![t] = o],
           UNCHANGED <<plan, backup, receipt, registry, clock>>
    PROVE  /\ StoreOK' /\ live'[t] = o
           /\ (registry[i] = None /\ plan[i] # None)' /\ (receipt[i] = None)' /\ Linked(j)'
           /\ \A m \in Ops(i) : Seen(j, m)' /\ (m < j.k => Made(j, m)') /\ (m > j.k => Left(j, m)')
           /\ \A m \in Ops(i) : m = j.k /\ o = Output[i][t] => Made(j, m)'
           /\ live' = live /\ pc[p] = "commit" => \A m \in Ops(i) : m >= j.k => Left(j, m)'
<1>1. /\ j \in Jobs /\ i \in Installs /\ t \in Targets /\ j.k \in Ops(i) /\ Ops(i) = 1 .. Len(Order(i))
      /\ Len(Order(i)) \in Nat
      /\ registry[i] = None /\ plan[i] # None /\ receipt[i] = None /\ Linked(j) /\ \A m \in Ops(i) : Op(i, m) = t => m = j.k
      /\ \A m \in Ops(i) : Seen(j, m) /\ (m < j.k => Made(j, m)) /\ (m > j.k => Left(j, m))
      /\ pc[p] = "commit" => Left(j, j.k)
  BY CommittingIs
<1>2. live \in Paths
  BY DEF Good, StoreOK, AtOp
<1>3. live' \in Paths /\ live'[t] = o
  BY <1>1, <1>2 DEF Paths
<1>4. StoreOK'
  BY <1>3 DEF Good, StoreOK, AtOp
<1>5. \A m \in Ops(i) : m # j.k => live'[Op(i, m)] = live[Op(i, m)]
  BY <1>1, <1>2 DEF Paths, AtOp
<1>6. \A m \in Ops(i) : Seen(j, m)'
  BY <1>1, Unmoved DEF AtOp
<1>7. \A m \in Ops(i) : (m < j.k => m # j.k) /\ (m > j.k => m # j.k) /\ (m >= j.k => m = j.k \/ m > j.k)
  BY <1>1
<1>8. \A m \in Ops(i) : (m < j.k => Made(j, m)') /\ (m > j.k => Left(j, m)')
  <2>1. \A m \in Ops(i) : m # j.k => (Made(j, m)' <=> Made(j, m)) /\ (Left(j, m)' <=> Left(j, m))
    BY <1>5, Unmoved DEF AtOp
  <2> QED BY <1>1, <1>7, <2>1
<1>9. \A m \in Ops(i) : m = j.k /\ o = Output[i][t] => Made(j, m)'
  BY <1>3 DEF Made, Op, AtOp
<1>10. live' = live /\ pc[p] = "commit" => \A m \in Ops(i) : m >= j.k => Left(j, m)'
  BY <1>1, <1>7, Unmoved DEF AtOp
<1>11. Linked(j)'
  BY <1>1, LinkedStands
<1> QED BY <1>1, <1>3, <1>4, <1>6, <1>8, <1>9, <1>10, <1>11

\* The next operation, or the receipt.
LEMMA CommittedGood ==
    ASSUME NEW p \in Procs, NEW j, NEW i, NEW t, AtOp(p, j, i, t),
           live' = [live EXCEPT ![t] = Output[i][t]], UNCHANGED <<plan, backup, receipt, registry, clock>>,
           Committed(p)
    PROVE  Good(p)'
<1>1. /\ j \in Jobs /\ i \in Installs /\ j.k \in Ops(i) /\ Ops(i) = 1 .. Len(Order(i)) /\ Len(Order(i)) \in Nat
      /\ j.cmd = "apply" /\ j.status = "active" /\ j.todo = {} /\ Output[i][t] \in Objects /\ Inst(p) = i
  BY CommittingIs
<1>2. /\ StoreOK' /\ (registry[i] = None /\ plan[i] # None)' /\ (receipt[i] = None)' /\ Linked(j)'
      /\ \A m \in Ops(i) : Seen(j, m)' /\ (m < j.k => Made(j, m)') /\ (m > j.k => Left(j, m)')
      /\ \A m \in Ops(i) : m = j.k => Made(j, m)'
  BY <1>1, OneMoved
<1>3. \A m \in Ops(i) : m <= j.k => Made(j, m)'
  BY <1>1, <1>2
<1>4. CASE j.k < Len(Order(i))
  <2>1. PICK h : h = [j EXCEPT !.k = j.k + 1]
    OBVIOUS
  <2>2. /\ h \in Jobs /\ h.inst = i /\ h.was = j.was /\ h.ack = j.ack /\ h.k = j.k + 1
        /\ h.cmd = "apply" /\ h.status = "active" /\ h.todo = {}
    BY <1>1, <2>1 DEF Jobs, AtOp
  <2>3. h.k \in Ops(i) /\ \A m \in Ops(i) : (m < h.k => m <= j.k) /\ (m >= h.k => m > j.k) /\ (m > h.k => m > j.k)
    BY <1>1, <1>4, <2>2
  <2>4. Linked(h)'
    BY <1>2, <2>2 DEF AtOp, Linked, Gap, Writers
  <2>5. \A m : (Seen(h, m)' <=> Seen(j, m)') /\ (Made(h, m)' <=> Made(j, m)') /\ (Left(h, m)' <=> Left(j, m)')
    BY <2>2 DEF AtOp, Seen, Kept, Made, Left
  <2>6. \A m \in Ops(i) : m = h.k => m > j.k
    BY <1>1, <2>2
  <2>7. Committing("commit", h)'
    BY <1>2, <1>3, <2>2, <2>3, <2>4, <2>5, <2>6 DEF AtOp, Committing, Op, Ops
  <2>8. Holding("commit", h)'
    BY <1>2, <2>2, <2>7, StillApplying DEF AtOp
  <2>9. Goto(p, "commit") /\ Set(p, h)
    BY <1>1, <1>4, <2>1 DEF Committed, AtOp
  <2> QED BY <1>2, <2>8, <2>9, NextGood DEF PCs, AtOp
<1>5. CASE ~(j.k < Len(Order(i)))
  <2>1. j.k = Len(Order(i)) /\ \A m \in Ops(i) : m <= j.k
    BY <1>1, <1>5
  <2>2. Registering("record", j)'
    BY <1>2, <1>3, <2>1 DEF AtOp, Registering, Ops, Op
  <2>3. Holding("record", j)'
    BY <1>1, <1>2, <2>2, StillApplying DEF AtOp
  <2>4. Goto(p, "record") /\ job' = job
    BY <1>1, <1>5 DEF Committed, AtOp
  <2> QED BY <1>2, <2>3, <2>4, NextGood DEF PCs, AtOp
<1> QED BY <1>4, <1>5

\* The operation that failed is repaired.
LEMMA RepairGood ==
    ASSUME NEW p \in Procs, NEW j, NEW i, NEW t, AtOp(p, j, i, t),
           NEW o \in Objects \cup {Torn}, live' = [live EXCEPT ![t] = o],
           UNCHANGED <<plan, backup, receipt, registry, clock>>, Repair(p)
    PROVE  Good(p)'
<1>1. /\ j \in Jobs /\ i \in Installs /\ j.k \in Ops(i) /\ Ops(i) = 1 .. Len(Order(i)) /\ Len(Order(i)) \in Nat
      /\ j.cmd = "apply" /\ j.status = "active" /\ j.todo = {} /\ At(p) = t /\ t \in Targets
  BY CommittingIs
<1>2. /\ StoreOK' /\ (registry[i] = None /\ plan[i] # None)'
      /\ \A m \in Ops(i) : Seen(j, m)' /\ (m > j.k => Left(j, m)')
  BY OneMoved, ZenonT(30)
<1>3. PICK h : h = [j EXCEPT !.why = "repair", !.todo = {t}]
  OBVIOUS
<1>4. /\ h \in Jobs /\ h.inst = i /\ h.was = j.was /\ h.k = j.k /\ h.why = "repair" /\ h.todo = {t}
      /\ h.cmd = "apply" /\ h.status = "active"
  BY <1>1, <1>3 DEF Jobs, AtOp
<1>5. \A m : (Seen(h, m)' <=> Seen(j, m)') /\ (Left(h, m)' <=> Left(j, m)')
  BY <1>4 DEF AtOp, Seen, Kept, Left
<1>6. j.k # 0
  BY <1>1
<1>7. Undoing("rm", h)'
  BY <1>1, <1>2, <1>4, <1>5, <1>6 DEF AtOp, Undoing, PutBack, Seen, Ops, Op
<1>8. Holding("rm", h)'
  BY <1>2, <1>4, <1>7, StillApplying DEF AtOp
<1>9. Goto(p, "rm") /\ Set(p, h)
  BY <1>1, <1>3 DEF Repair, AtOp
<1> QED BY <1>2, <1>8, <1>9, NextGood DEF PCs, AtOp

\* It goes on with the same operation.
LEMMA SameOpGood ==
    ASSUME NEW p \in Procs, NEW j, NEW i, NEW t, AtOp(p, j, i, t), NEW l \in {"remove", "place"},
           NEW o \in Objects \cup {Torn}, live' = [live EXCEPT ![t] = o],
           UNCHANGED <<plan, backup, receipt, registry, clock, job>>, Goto(p, l)
    PROVE  Good(p)'
<1>1. j \in Jobs /\ i \in Installs /\ j.k \in Ops(i) /\ j.cmd = "apply" /\ j.status = "active" /\ j.todo = {}
  BY CommittingIs
<1>2. /\ StoreOK' /\ (registry[i] = None /\ plan[i] # None)' /\ (receipt[i] = None)' /\ Linked(j)'
      /\ \A m \in Ops(i) : Seen(j, m)' /\ (m < j.k => Made(j, m)') /\ (m > j.k => Left(j, m)')
  BY OneMoved, ZenonT(30)
<1>3. Committing(l, j)'
  BY <1>1, <1>2 DEF AtOp, Committing, Ops, Op
<1>4. Holding(l, j)'
  BY <1>1, <1>2, <1>3, StillApplying DEF AtOp
<1> QED BY <1>2, <1>4, NextGood DEF PCs, AtOp

\* The operation changed nothing: those before it are put back.
LEMMA OpFailsGood ==
    ASSUME NEW p \in Procs, NEW j, NEW i, NEW t, AtOp(p, j, i, t), pc[p] = "commit",
           UNCHANGED <<live, plan, backup, receipt, registry, clock>>,
           Goto(p, "undo"), Set(p, [j EXCEPT !.k = j.k - 1])
    PROVE  Good(p)'
<1>1. /\ j \in Jobs /\ i \in Installs /\ j.k \in Ops(i) /\ Ops(i) = 1 .. Len(Order(i)) /\ Len(Order(i)) \in Nat
      /\ j.cmd = "apply" /\ j.status = "active" /\ j.todo = {} /\ t \in Targets /\ registry[i] = None /\ plan[i] # None
      /\ \A m \in Ops(i) : Seen(j, m) /\ (m > j.k => Left(j, m))
      /\ Left(j, j.k)
  BY CommittingIs
<1>2. StoreOK'
  BY DEF AtOp, Good, StoreOK
<1>3. PICK h : h = [j EXCEPT !.k = j.k - 1]
  OBVIOUS
<1>4. /\ h \in Jobs /\ h.inst = i /\ h.was = j.was /\ h.k = j.k - 1 /\ h.todo = {}
      /\ h.cmd = "apply" /\ h.status = "active"
  BY <1>1, <1>3 DEF Jobs, AtOp
<1>5. \A m \in Ops(i) : Kept(h, m)' /\ (m > h.k => Left(h, m)')
  <2> SUFFICES ASSUME NEW m \in Ops(i) PROVE Kept(h, m)' /\ (m > h.k => Left(h, m)')
    OBVIOUS
  <2>1. m > h.k => m > j.k \/ m = j.k
    BY <1>1, <1>4
  <2>2. m > h.k => Left(j, m)
    BY <1>1, <2>1
  <2>3. (Kept(h, m)' <=> Kept(j, m)) /\ (Left(h, m)' <=> Left(j, m))
    BY <1>4, Unmoved DEF AtOp
  <2> QED BY <1>1, <2>2, <2>3 DEF Seen
<1>6. h.k \in {0} \cup Ops(i)
  BY <1>1, <1>4
<1>7. \A m \in Ops(i) : Kept(h, m)' /\ (m > h.k => PutBack(h, m)')
  BY <1>5 DEF PutBack
<1>8. Undoing("undo", h)'
  BY <1>4, <1>6, <1>7 DEF Undoing, Ops, Op
<1>9. Holding("undo", h)'
  BY <1>1, <1>4, <1>8, StillApplying
<1> QED BY <1>2, <1>3, <1>9, NextGood DEF PCs, AtOp

LEMMA CommitGood == ASSUME NEW p \in Procs, Good(p), Commit(p) PROVE Good(p)'
<1>1. PICK j, i, t : j = job[p] /\ i = j.inst /\ t = Op(i, j.k)
  OBVIOUS
<1>2. AtOp(p, j, i, t) /\ pc[p] = "commit"
  BY <1>1 DEF AtOp, Commit
<1>3. At(p) = t /\ New(p, t) = Output[i][t] /\ Output[i][t] \in Objects \cup {Torn} /\ t \in Targets
  BY <1>2, CommittingIs
<1>4. UNCHANGED <<plan, backup, receipt, registry, clock>>
  BY DEF Commit
<1>5. live[t] \in Objects \cup {Torn} /\ live = [live EXCEPT ![t] = live[t]]
  BY <1>3 DEF Good, StoreOK, Paths
<1>6. CASE live' = [live EXCEPT ![t] = Output[i][t]] /\ Committed(p)
  BY <1>2, <1>4, <1>6, CommittedGood
<1>7. CASE Goto(p, "remove") /\ UNCHANGED <<live, job>>
  <2>1. PICK o \in Objects \cup {Torn} : live' = [live EXCEPT ![t] = o]
    BY <1>5, <1>7
  <2> QED BY <1>2, <1>4, <1>7, <2>1, SameOpGood
<1>8. CASE live' = [live EXCEPT ![t] = Output[i][t]] /\ Repair(p)
  BY <1>2, <1>3, <1>4, <1>8, RepairGood
<1>9. CASE live' = live /\ Goto(p, "undo") /\ Set(p, [j EXCEPT !.k = j.k - 1])
  BY <1>2, <1>4, <1>9, OpFailsGood
<1> QED BY <1>1, <1>3, <1>6, <1>7, <1>8, <1>9 DEF Commit

LEMMA RemovedIs == ASSUME NEW t, NEW o \in Removed(t) PROVE o = Torn \/ o = Absent
BY DEF Removed

LEMMA RemoveOldGood == ASSUME NEW p \in Procs, Good(p), RemoveOld(p) PROVE Good(p)'
<1>1. PICK j, i, t : j = job[p] /\ i = j.inst /\ t = Op(i, j.k)
  OBVIOUS
<1>2. AtOp(p, j, i, t) /\ pc[p] = "remove"
  BY <1>1 DEF AtOp, RemoveOld
<1>3. At(p) = t /\ New(p, t) = Output[i][t] /\ t \in Targets
  BY <1>2, CommittingIs
<1>4. UNCHANGED <<plan, backup, receipt, registry, clock>>
  BY DEF RemoveOld
<1>5. live[t] \in Objects \cup {Torn} /\ live = [live EXCEPT ![t] = live[t]]
  BY <1>3 DEF Good, StoreOK, Paths
<1>6. ASSUME NEW o \in Removed(t), live' = [live EXCEPT ![t] = o],
             IF o = Torn THEN UNCHANGED <<pc, job>>
             ELSE IF Output[i][t] = Absent THEN Committed(p)
             ELSE Goto(p, "place") /\ UNCHANGED job
      PROVE  Good(p)'
  <2>1. o \in Objects \cup {Torn} /\ (o # Torn => o = Absent)
    BY <1>6, RemovedIs DEF Objects
  <2>2. CASE o = Torn
    <3>1. Goto(p, "remove") /\ UNCHANGED job
      BY <1>2, <1>6, <2>2 DEF Goto, Good, ControlOK
    <3> QED BY <1>2, <1>4, <1>6, <2>1, <3>1, SameOpGood
  <2>3. CASE o # Torn /\ Output[i][t] = Absent
    BY <1>2, <1>4, <1>6, <2>1, <2>3, CommittedGood
  <2>4. CASE o # Torn /\ Output[i][t] # Absent
    BY <1>2, <1>4, <1>6, <2>1, <2>4, SameOpGood
  <2> QED BY <2>2, <2>3, <2>4
<1>7. CASE live' = live /\ Repair(p)
  <2>1. PICK o \in Objects \cup {Torn} : live' = [live EXCEPT ![t] = o]
    BY <1>5, <1>7
  <2> QED BY <1>2, <1>4, <1>7, <2>1, RepairGood
<1> QED BY <1>3, <1>6, <1>7 DEF RemoveOld

LEMMA PlaceGood == ASSUME NEW p \in Procs, Good(p), Place(p) PROVE Good(p)'
<1>1. PICK j, i, t : j = job[p] /\ i = j.inst /\ t = Op(i, j.k)
  OBVIOUS
<1>2. AtOp(p, j, i, t)
  BY <1>1 DEF AtOp, Place
<1>3. At(p) = t /\ New(p, t) = Output[i][t] /\ t \in Targets
  BY <1>2, CommittingIs
<1>4. UNCHANGED <<plan, backup, receipt, registry, clock>>
  BY DEF Place
<1>5. live[t] \in Objects \cup {Torn} /\ live = [live EXCEPT ![t] = live[t]]
  BY <1>3 DEF Good, StoreOK, Paths
<1>6. CASE live' = [live EXCEPT ![t] = Output[i][t]] /\ Committed(p)
  BY <1>2, <1>4, <1>6, CommittedGood
<1>7. CASE live' = live /\ Repair(p)
  <2>1. PICK o \in Objects \cup {Torn} : live' = [live EXCEPT ![t] = o]
    BY <1>5, <1>7
  <2> QED BY <1>2, <1>4, <1>7, <2>1, RepairGood
<1> QED BY <1>3, <1>6, <1>7 DEF Place

LEMMA RecordGood == ASSUME NEW p \in Procs, Good(p), Record(p) PROVE Good(p)'
<1>1. PICK j, i : j = job[p] /\ i = j.inst
  OBVIOUS
<1>2. /\ j \in Jobs /\ i \in Installs /\ Registering("record", j)
      /\ j.cmd = "apply" /\ j.status = "active" /\ registry[i] = None /\ plan[i] # None /\ j.todo = {}
  <2>1. Holding("record", j) /\ Applying("record", j)
    BY <1>1, AtWork DEF Record
  <2> QED BY <1>1, <2>1 DEF Holding, Applying, Jobs
<1>3. UNCHANGED <<live, plan, backup, registry>> /\ Inst(p) = i
  BY <1>1 DEF Record, Inst
<1>4. \A m \in Ops(i) : Seen(j, m)' /\ Made(j, m)'
  BY <1>1, <1>2, <1>3, Unmoved DEF Registering
<1>5. j.k = Len(Order(i)) /\ j.k \in Ops(i) /\ Ops(i) = 1 .. Len(Order(i)) /\ Len(Order(i)) \in Nat
  BY <1>1, <1>2, OrderIs DEF Registering
<1>6. CASE /\ clock' = clock + 1 /\ Goto(p, "read") /\ job' = job
           /\ receipt' = [receipt EXCEPT ![i] =
                [time |-> clock', ack |-> j.ack, original |-> plan[i], status |-> "available"]]
  <2>1. [time |-> clock', ack |-> j.ack, original |-> plan[i], status |-> "available"] \in Receipts(i)
    <3>1. clock' \in Nat
      BY <1>6 DEF Good, StoreOK
    <3>2. plan[i] \in [Planned(i) -> Objects]
      BY <1>2 DEF Good, StoreOK
    <3>3. j.ack \in BOOLEAN
      BY <1>2 DEF Jobs
    <3> QED BY <3>1, <3>2, <3>3 DEF Receipts
  <2>2. receipt'[i] \in Receipts(i) /\ receipt'[i] # None
        /\ DOMAIN receipt' = Installs /\ \A n \in Installs : n # i => receipt'[n] = receipt[n]
    BY <1>2, <1>6, <2>1, PlanAssumption DEF Good, StoreOK
  <2>3. StoreOK'
    <3>1. DOMAIN receipt' = Installs /\ \A n \in Installs : receipt'[n] = None \/ receipt'[n] \in Receipts(n)
      BY <2>2 DEF Good, StoreOK
    <3>2. clock' \in Nat
      BY <1>6 DEF Good, StoreOK
    <3> QED BY <1>3, <3>1, <3>2 DEF Good, StoreOK
  <2>4. Registering("read", j)'
    BY <1>1, <1>4, <1>5, <2>2 DEF Registering, Ops, Op
  <2>5. Holding("read", j)'
    BY <1>1, <1>2, <1>3, <2>4, StillApplying
  <2> QED BY <1>1, <1>6, <2>3, <2>5, NextGood DEF PCs
<1>7. CASE Goto(p, "undo") /\ UNCHANGED <<receipt, clock, job>>
  <2>1. StoreOK'
    BY <1>3, <1>7 DEF Good, StoreOK
  <2>2. j.k # 0 /\ \A m \in Ops(i) : ~(m > j.k)
    BY <1>5
  <2>3. Undoing("undo", j)'
    BY <1>1, <1>4, <1>5, <2>2 DEF Undoing, Seen, Ops, Op
  <2>4. Holding("undo", j)'
    BY <1>1, <1>2, <1>3, <2>3, StillApplying
  <2> QED BY <1>1, <1>7, <2>1, <2>4, NextGood DEF PCs
<1> QED BY <1>1, <1>3, <1>6, <1>7 DEF Record

\* A command of which only the registry is left to be read or written, whatever
\* its kind.
LEMMA ReadRegistryGood == ASSUME NEW p \in Procs, Good(p), ReadRegistry(p) PROVE Good(p)'
<1>1. PICK j, i : j = job[p] /\ i = j.inst
  OBVIOUS
<1>2. /\ j \in Jobs /\ i \in Installs /\ j.todo = {} /\ pc[p] = "read"
      /\ Applying("read", j) \/ Rolling("read", j) \/ Retiring("read", j)
  <2>1. Holding("read", j)
    BY <1>1, AtWork DEF ReadRegistry
  <2> QED BY <1>1, <2>1 DEF Holding, Jobs, ReadRegistry
<1>3. PICK h : h = [j EXCEPT !.reg = registry]
  OBVIOUS
<1>4. /\ h \in Jobs /\ h.inst = i /\ h.was = j.was /\ h.k = j.k /\ h.todo = {} /\ h.reg = registry
      /\ h.cmd = j.cmd /\ h.status = j.status /\ h.drifted = j.drifted
  BY <1>1, <1>2, <1>3 DEF Jobs, Good, StoreOK
<1>5. UNCHANGED state /\ Goto(p, "write") /\ Set(p, h)
  BY <1>1, <1>3 DEF ReadRegistry
<1>6. StoreOK'
  BY <1>5 DEF Good, StoreOK, state
<1>7. h.reg \in Registries
  BY <1>4 DEF Good, StoreOK
<1>8. CASE Applying("read", j)
  <2>1. Registering("read", j) /\ j.cmd = "apply" /\ j.status = "active" /\ registry[i] = None /\ plan[i] # None
    BY <1>1, <1>8 DEF Applying
  <2>2. \A m \in Ops(i) : Seen(h, m)' /\ Made(h, m)'
    BY <1>1, <1>4, <1>5, <2>1, Unmoved DEF Registering, state
  <2>3. Registering("write", h)'
    BY <1>1, <1>4, <1>5, <2>1, <2>2 DEF Registering, state, Ops, Op
  <2>4. Holding("write", h)'
    BY <1>4, <1>5, <1>7, <2>1, <2>3 DEF Holding, Applying, state
  <2> QED BY <1>5, <1>6, <2>4, NextGood DEF PCs
<1>9. CASE Rolling("read", j)
  <2>1. Rolling("write", h)'
    BY <1>1, <1>4, <1>5, <1>9 DEF Rolling, AllRestored, AllLeft, IsRestored, state
  <2>2. Holding("write", h)'
    BY <1>4, <1>7, <2>1 DEF Holding
  <2> QED BY <1>5, <1>6, <2>2, NextGood DEF PCs
<1>10. CASE Retiring("read", j)
  <2>1. Retiring("write", h)'
    BY <1>4, <1>10 DEF Retiring
  <2>2. Holding("write", h)'
    BY <1>4, <1>7, <2>1 DEF Holding
  <2> QED BY <1>5, <1>6, <2>2, NextGood DEF PCs
<1> QED BY <1>2, <1>8, <1>9, <1>10

LEMMA WriteRegistryGood == ASSUME NEW p \in Procs, Good(p), WriteRegistry(p) PROVE Good(p)'
<1>1. PICK j, i : j = job[p] /\ i = j.inst
  OBVIOUS
<1>2. /\ j \in Jobs /\ i \in Installs /\ j.todo = {} /\ j.reg \in Registries /\ Inst(p) = i
      /\ j.cmd = "apply" => Applying("write", j)
  <2>1. Holding("write", j)
    BY <1>1, AtWork DEF WriteRegistry
  <2> QED BY <1>1, <2>1 DEF Holding, Jobs, Rolling, Retiring, Inst
<1>3. UNCHANGED <<live, plan, backup, receipt, clock>>
  BY DEF WriteRegistry
<1>4. CASE registry' = [j.reg EXCEPT ![i] = j.status] /\ End(p)
  <2>1. registry' \in Registries
    BY <1>2, <1>4 DEF Registries, Jobs
  <2>2. StoreOK'
    BY <1>3, <2>1 DEF Good, StoreOK
  <2> QED BY <1>4, <2>2, EndGood
<1>5. CASE UNCHANGED registry /\ IF j.cmd = "apply" THEN Goto(p, "undo") /\ UNCHANGED job ELSE End(p)
  <2>1. StoreOK'
    BY <1>3, <1>5 DEF Good, StoreOK
  <2>2. CASE j.cmd = "apply"
    <3>1. Registering("write", j) /\ j.status = "active" /\ registry[i] = None /\ plan[i] # None
      BY <1>1, <1>2, <2>2 DEF Applying
    <3>2. j.k = Len(Order(i)) /\ j.k \in Ops(i) /\ \A m \in Ops(i) : ~(m > j.k)
      BY <1>1, <1>2, <3>1, OrderIs DEF Registering
    <3>3. j.k # 0
      BY <1>2, <3>2, OrderIs
    <3>4. \A m \in Ops(i) : Kept(j, m)'
      BY <1>1, <1>3, <3>1, Unmoved DEF Registering, Seen
    <3>5. Undoing("undo", j)'
      BY <1>1, <3>2, <3>3, <3>4 DEF Undoing, Ops, Op
    <3>6. Holding("undo", j)'
      BY <1>1, <1>2, <1>3, <1>5, <2>2, <3>1, <3>5, StillApplying
    <3> QED BY <1>1, <1>5, <2>1, <2>2, <3>6, NextGood DEF PCs
  <2>3. CASE j.cmd # "apply"
    BY <1>5, <2>1, <2>3, EndGood
  <2> QED BY <2>2, <2>3
<1> QED BY <1>1, <1>2, <1>4, <1>5 DEF WriteRegistry

-----------------------------------------------------------------------------
(* Putting back. *)

\* Where the undoing of an apply stands.
AtUndo(p, j, i) == Good(p) /\ pc[p] \in {"undo", "rm", "cp", "discard"} /\ j = job[p] /\ i = j.inst /\ j.cmd = "apply"

LEMMA UndoingIs ==
    ASSUME NEW p \in Procs, NEW j, NEW i, AtUndo(p, j, i)
    PROVE  /\ j \in Jobs /\ i \in Installs /\ j.cmd = "apply" /\ j.status = "active" /\ Inst(p) = i
           /\ registry[i] = None /\ plan[i] # None /\ Undoing(pc[p], j)
           /\ j.k \in {0} \cup Ops(i) /\ Ops(i) = 1 .. Len(Order(i)) /\ Len(Order(i)) \in Nat
           /\ pc[p] \notin {"rm", "cp"} => j.todo = {}
<1>1. Holding(pc[p], j) /\ j \in Jobs /\ i \in Installs /\ Inst(p) = i
  BY AtWork DEF AtUndo, Inst
<1>2. Applying(pc[p], j)
  BY <1>1 DEF Holding, Rolling, Retiring, AtUndo
<1>3. /\ j.cmd = "apply" /\ j.status = "active" /\ registry[i] = None /\ plan[i] # None /\ Undoing(pc[p], j)
      /\ pc[p] \notin {"rm", "cp"} => j.todo = {}
  BY <1>1, <1>2 DEF Applying, AtUndo, Holding
<1> QED BY <1>1, <1>3, OrderIs DEF Undoing, AtUndo

LEMMA UndoGood == ASSUME NEW p \in Procs, Good(p), Undo(p) PROVE Good(p)'
<1>1. PICK j, i : j = job[p] /\ i = j.inst
  OBVIOUS
<1>2. AtUndo(p, j, i) /\ pc[p] = "undo"
  BY <1>1, AtWork DEF AtUndo, Undo, Applying
<1>3. /\ j \in Jobs /\ i \in Installs /\ j.cmd = "apply" /\ j.status = "active" /\ j.todo = {} /\ Inst(p) = i
      /\ registry[i] = None /\ plan[i] # None /\ Undoing("undo", j) /\ j.k \in {0} \cup Ops(i)
  BY <1>2, UndoingIs
<1>4. UNCHANGED state
  BY DEF Undo
<1>5. StoreOK'
  BY <1>4 DEF Good, StoreOK, state
<1>6. CASE j.k = 0 /\ Goto(p, "discard") /\ UNCHANGED job
  <2>1. Undoing("discard", j)'
    BY <1>1, <1>3, <1>4, <1>6 DEF Undoing, PutBack, Left, Kept, state
  <2>2. Holding("discard", j)'
    BY <1>1, <1>3, <1>4, <2>1, StillApplying DEF state
  <2> QED BY <1>1, <1>5, <1>6, <2>2, NextGood DEF PCs
<1>7. CASE j.k # 0 /\ Goto(p, "rm") /\ Set(p, [j EXCEPT !.why = "undo", !.todo = {Op(i, j.k)}])
  <2>1. PICK h : h = [j EXCEPT !.why = "undo", !.todo = {Op(i, j.k)}]
    OBVIOUS
  <2>2. Op(i, j.k) \in Targets
    BY <1>3, <1>7, OrderIs
  <2>3. /\ h \in Jobs /\ h.inst = i /\ h.was = j.was /\ h.k = j.k /\ h.todo = {Op(i, j.k)} /\ h.why = "undo"
        /\ h.cmd = "apply" /\ h.status = "active" /\ h.failed = j.failed /\ h.lost = j.lost
    BY <1>1, <1>3, <2>1, <2>2 DEF Jobs
  <2>4. /\ \A m \in Ops(i) : m > j.k => PutBack(j, m)
        /\ \A m \in Ops(i) : Kept(j, m)
    BY <1>1, <1>3, <1>7 DEF Undoing
  <2>5. \A m : (Kept(h, m)' <=> Kept(j, m)) /\ (PutBack(h, m)' <=> PutBack(j, m))
    BY <1>1, <1>4, <2>3 DEF Kept, PutBack, Left, Op, state
  <2>6. Undoing("rm", h)'
    BY <1>3, <1>7, <2>3, <2>4, <2>5 DEF Undoing, Ops, Op
  <2>7. Holding("rm", h)'
    BY <1>3, <1>4, <2>3, <2>6, StillApplying DEF state
  <2> QED BY <1>5, <1>7, <2>1, <2>7, NextGood DEF PCs
<1> QED BY <1>1, <1>3, <1>6, <1>7 DEF Undo, At, Op

LEMMA DiscardGood == ASSUME NEW p \in Procs, Good(p), Discard(p) PROVE Good(p)'
<1>1. backup' = backup \/ backup' = [backup EXCEPT ![Inst(p)] = NoBackup]
  BY DEF Discard
<1>2. backup' \in [Installs -> [Targets -> Objects]]
  BY <1>1 DEF Good, StoreOK, NoBackup, Objects
<1>3. receipt' = receipt \/ receipt' = [receipt EXCEPT ![Inst(p)] = None]
  BY DEF Discard
<1>4. DOMAIN receipt' = Installs /\ \A i \in Installs : receipt'[i] = None \/ receipt'[i] \in Receipts(i)
  BY <1>3 DEF Good, StoreOK
<1>5. StoreOK'
  BY <1>2, <1>4 DEF Good, StoreOK, Discard
<1> QED BY <1>5, EndGood DEF Discard

\* A target is being put back.
Restoring(p, j, t) == pc[p] \in {"rm", "cp"} /\ t \in j.todo

\* Only that target changes.
Becomes(t, o) == /\ o \in Objects \cup {Torn} /\ live' = [live EXCEPT ![t] = o]
                 /\ UNCHANGED <<plan, backup, receipt, registry, clock>>

LEMMA UndoMoved ==
    ASSUME NEW p \in Procs, NEW j, NEW i, NEW t, AtUndo(p, j, i), Restoring(p, j, t),
           NEW o, Becomes(t, o)
    PROVE  /\ StoreOK' /\ (registry[i] = None /\ plan[i] # None)' /\ t = Op(i, j.k) /\ live'[t] = o
           /\ j.k \in Ops(i) /\ j.k # 0 /\ j.todo = {t} /\ j.why \in {"repair", "undo"} /\ Kept(j, j.k)
           /\ \A m \in Ops(i) : Kept(j, m)' /\ (m > j.k => PutBack(j, m)')
<1>1. /\ i \in Installs /\ registry[i] = None /\ plan[i] # None /\ Undoing(pc[p], j)
      /\ Ops(i) = 1 .. Len(Order(i)) /\ Len(Order(i)) \in Nat
  BY UndoingIs
<1>2. /\ j.k \in Ops(i) /\ j.todo = {Op(i, j.k)} /\ j.why \in {"repair", "undo"} /\ j.k # 0
  BY <1>1 DEF Undoing, AtUndo, Restoring
<1>3. \A m \in Ops(i) : Kept(j, m) /\ (m > j.k => PutBack(j, m))
  BY <1>1, <1>2 DEF Undoing, AtUndo
<1>4. t = Op(i, j.k) /\ t \in Targets /\ \A m \in Ops(i) : Op(i, m) = t => m = j.k
  BY <1>1, <1>2, OrderIs DEF Restoring
<1>5. live \in Paths
  BY DEF AtUndo, Good, StoreOK
<1>6. live' \in Paths /\ live'[t] = o /\ \A m \in Ops(i) : m # j.k => live'[Op(i, m)] = live[Op(i, m)]
  BY <1>4, <1>5 DEF Paths, Becomes
<1>7. StoreOK'
  BY <1>6 DEF AtUndo, Good, StoreOK, Becomes
<1>8. \A m \in Ops(i) : Kept(j, m)'
  BY <1>3 DEF Kept, Becomes
<1>9. \A m \in Ops(i) : m > j.k => m # j.k
  BY <1>1, <1>2
<1>10. \A m \in Ops(i) : m > j.k => PutBack(j, m)'
  BY <1>3, <1>6, <1>9 DEF PutBack, Left, AtUndo, Becomes
<1> QED BY <1>1, <1>2, <1>3, <1>4, <1>6, <1>7, <1>8, <1>10 DEF Becomes

LEMMA SameUndoGood ==
    ASSUME NEW p \in Procs, NEW j, NEW i, NEW t, AtUndo(p, j, i), Restoring(p, j, t),
           NEW o, Becomes(t, o), job' = job, NEW l \in {"rm", "cp"}, Goto(p, l)
    PROVE  Good(p)'
<1>1. /\ StoreOK' /\ (registry[i] = None /\ plan[i] # None)' /\ t = Op(i, j.k)
      /\ j.k \in Ops(i) /\ j.k # 0 /\ j.todo = {t} /\ j.why \in {"repair", "undo"}
      /\ \A m \in Ops(i) : Kept(j, m)' /\ (m > j.k => PutBack(j, m)')
  BY UndoMoved
<1>2. j \in Jobs /\ j.cmd = "apply" /\ j.status = "active" /\ i = j.inst
  BY UndoingIs DEF AtUndo
<1>3. Undoing(l, j)'
  BY <1>1, <1>2 DEF Undoing, Ops, Op
<1>4. Holding(l, j)'
  BY <1>1, <1>2, <1>3, StillApplying
<1> QED BY <1>1, <1>4, NextGood DEF PCs, AtUndo

\* The operation is put back, or was given up: the one before it is next.
LEMMA BackGood ==
    ASSUME NEW p \in Procs, NEW j, NEW i, AtUndo(p, j, i), StoreOK', (registry[i] = None /\ plan[i] # None)',
           j.k \in Ops(i), \A m \in Ops(i) : Kept(j, m)' /\ (m > j.k => PutBack(j, m)'),
           NEW h \in Jobs, h.inst = i, h.was = j.was, h.cmd = "apply", h.status = "active", h.todo = {},
           h.k = j.k - 1, j.failed => h.failed, j.lost => h.lost, PutBack(h, j.k)',
           Goto(p, "undo"), Set(p, h)
    PROVE  Good(p)'
<1>1. Ops(i) = 1 .. Len(Order(i)) /\ Len(Order(i)) \in Nat /\ i = j.inst
  BY UndoingIs DEF AtUndo
<1>2. h.k \in {0} \cup Ops(i) /\ \A m \in Ops(i) : m > h.k => m > j.k \/ m = j.k
  BY <1>1
<1>3. \A m : (Kept(j, m)' => Kept(h, m)') /\ (PutBack(j, m)' => PutBack(h, m)')
  BY <1>1 DEF Kept, PutBack, Left
<1>4. \A m \in Ops(i) : Kept(h, m)' /\ (m > h.k => PutBack(h, m)')
  BY <1>2, <1>3
<1>5. Undoing("undo", h)'
  BY <1>2, <1>4 DEF Undoing, Ops, Op
<1>6. Holding("undo", h)'
  BY <1>5, StillApplying
<1> QED BY <1>6, NextGood DEF PCs, AtUndo

\* Where a rollback stands.
AtRoll(p, j, i) == Good(p) /\ pc[p] \in {"unit", "rm", "cp"} /\ j = job[p] /\ i = j.inst /\ j.cmd = "rollback"

LEMMA RollingIs ==
    ASSUME NEW p \in Procs, NEW j, NEW i, AtRoll(p, j, i)
    PROVE  /\ j \in Jobs /\ i \in Installs /\ Inst(p) = i /\ Rolling(pc[p], j)
           /\ receipt[i] # None /\ \A t \in Planned(i) : backup[i][t] = receipt[i].original[t]
           /\ j.k \in {0} \cup DOMAIN Units[i]
           /\ \A m \in DOMAIN Units[i] :
                 /\ m > j.k => AllRestored(j, m) \/ (j.drifted /\ AllLeft(j, m))
                 /\ m < j.k \/ (m = j.k /\ pc[p] = "unit") => AllLeft(j, m)
           /\ pc[p] \in {"rm", "cp"} =>
                 /\ j.why = "roll" /\ j.k \in DOMAIN Units[i] /\ j.todo \subseteq ToSet(Units[i][j.k])
                 /\ \A t \in ToSet(Units[i][j.k]) \ j.todo : IsRestored(i, t)
           /\ pc[p] \notin {"rm", "cp"} => j.todo = {}
<1>1. Holding(pc[p], j) /\ j \in Jobs /\ i \in Installs /\ Inst(p) = i
  BY AtWork DEF AtRoll, Inst
<1>2. Rolling(pc[p], j) /\ (pc[p] \notin {"rm", "cp"} => j.todo = {})
  BY <1>1 DEF Holding, Applying, Retiring, AtRoll
<1> QED BY <1>1, <1>2 DEF Rolling, AtRoll

\* A command that goes on with a rollback.
LEMMA StillRolling ==
    ASSUME NEW l \in {"unit", "rm", "cp"}, NEW h \in Jobs, l \in {"rm", "cp"} <=> h.todo # {}, Rolling(l, h)'
    PROVE  Holding(l, h)'
BY DEF Holding

LEMMA RollMoved ==
    ASSUME NEW p \in Procs, NEW j, NEW i, NEW t, AtRoll(p, j, i), Restoring(p, j, t),
           NEW o, Becomes(t, o)
    PROVE  /\ StoreOK' /\ t \in Planned(i) /\ live'[t] = o
           /\ (receipt[i] # None)' /\ \A n \in Planned(i) : (backup[i][n] = receipt[i].original[n])'
           /\ j.k \in DOMAIN Units[i] /\ j.todo \subseteq ToSet(Units[i][j.k]) /\ j.why = "roll"
           /\ \A m \in DOMAIN Units[i] :
                 /\ m > j.k => AllRestored(j, m)' \/ (j.drifted /\ AllLeft(j, m)')
                 /\ m < j.k => AllLeft(j, m)'
           /\ \A n \in ToSet(Units[i][j.k]) \ j.todo : IsRestored(i, n)'
<1>1. /\ i \in Installs /\ receipt[i] # None /\ \A n \in Planned(i) : backup[i][n] = receipt[i].original[n]
      /\ j.k \in DOMAIN Units[i] /\ j.todo \subseteq ToSet(Units[i][j.k]) /\ j.why = "roll"
      /\ \A n \in ToSet(Units[i][j.k]) \ j.todo : IsRestored(i, n)
  BY RollingIs DEF Restoring
<1>2. \A m \in DOMAIN Units[i] : /\ m > j.k => AllRestored(j, m) \/ (j.drifted /\ AllLeft(j, m))
                                 /\ m < j.k => AllLeft(j, m)
  BY RollingIs
<1>3. t \in ToSet(Units[i][j.k]) /\ t \in Planned(i) /\ t \in Targets
  BY <1>1, UnitsAre, OrderIs DEF Restoring
<1>4. live \in Paths
  BY DEF AtRoll, Good, StoreOK
<1>5. live' \in Paths /\ live'[t] = o /\ \A n : n # t => live'[n] = live[n]
  BY <1>3, <1>4 DEF Paths, Becomes
<1>6. StoreOK'
  BY <1>5 DEF AtRoll, Good, StoreOK, Becomes
<1>7. \A m \in DOMAIN Units[i] : m # j.k => (\A n \in ToSet(Units[i][m]) : live'[n] = live[n])
  <2> SUFFICES ASSUME NEW m \in DOMAIN Units[i], m # j.k, NEW n \in ToSet(Units[i][m]) PROVE live'[n] = live[n]
    OBVIOUS
  <2>1. ToSet(Units[i][m]) \cap ToSet(Units[i][j.k]) = {}
    BY <1>1, UnitsAre
  <2> QED BY <1>3, <1>5, <2>1
<1>8. \A m \in DOMAIN Units[i] : m # j.k => (AllRestored(j, m)' <=> AllRestored(j, m)) /\ (AllLeft(j, m)' <=> AllLeft(j, m))
  BY <1>7 DEF AllRestored, AllLeft, IsRestored, AtRoll, Becomes
<1>9. \A m \in DOMAIN Units[i] : (m > j.k => m # j.k) /\ (m < j.k => m # j.k)
  BY <1>1, UnitsAre
<1>10. \A m \in DOMAIN Units[i] :
                 /\ m > j.k => AllRestored(j, m)' \/ (j.drifted /\ AllLeft(j, m)')
                 /\ m < j.k => AllLeft(j, m)'
  BY <1>2, <1>8, <1>9
<1>11. \A n \in ToSet(Units[i][j.k]) \ j.todo : n # t
  BY DEF Restoring
<1>12. \A n \in ToSet(Units[i][j.k]) \ j.todo : IsRestored(i, n)'
  BY <1>1, <1>5, <1>11 DEF IsRestored, Becomes
<1> QED BY <1>1, <1>3, <1>5, <1>6, <1>10, <1>12 DEF Becomes

LEMMA SameRollGood ==
    ASSUME NEW p \in Procs, NEW j, NEW i, NEW t, AtRoll(p, j, i), Restoring(p, j, t),
           NEW o, Becomes(t, o), job' = job, NEW l \in {"rm", "cp"}, Goto(p, l)
    PROVE  Good(p)'
<1>1. /\ StoreOK' /\ (receipt[i] # None)' /\ \A n \in Planned(i) : (backup[i][n] = receipt[i].original[n])'
      /\ j.k \in DOMAIN Units[i] /\ j.todo \subseteq ToSet(Units[i][j.k]) /\ j.why = "roll"
      /\ \A m \in DOMAIN Units[i] :
            /\ m > j.k => AllRestored(j, m)' \/ (j.drifted /\ AllLeft(j, m)')
            /\ m < j.k => AllLeft(j, m)'
      /\ \A n \in ToSet(Units[i][j.k]) \ j.todo : IsRestored(i, n)'
  BY RollMoved
<1>2. j \in Jobs /\ i = j.inst /\ j.cmd = "rollback"
  BY RollingIs DEF AtRoll
<1>3. Rolling(l, j)'
  BY <1>1, <1>2 DEF Rolling
<1>4. Holding(l, j)'
  BY <1>2, <1>3, StillRolling DEF Restoring
<1> QED BY <1>1, <1>4, NextGood DEF PCs, AtRoll

\* Who puts a target back undoes an apply or rolls an installation back.
LEMMA WhoRestores ==
    ASSUME NEW p \in Procs, Good(p), pc[p] \in {"rm", "cp"}, NEW j, NEW i, j = job[p], i = j.inst
    PROVE  AtUndo(p, j, i) \/ AtRoll(p, j, i)
<1>1. Holding(pc[p], j)
  BY AtWork
<1>2. j.cmd = "apply" \/ j.cmd = "rollback"
  BY <1>1 DEF Holding, Applying, Rolling, Retiring
<1> QED BY <1>2 DEF AtUndo, AtRoll

LEMMA RestoreRemoveGood == ASSUME NEW p \in Procs, Good(p), RestoreRemove(p) PROVE Good(p)'
<1>1. PICK j, i : j = job[p] /\ i = j.inst
  OBVIOUS
<1>2. AtUndo(p, j, i) \/ AtRoll(p, j, i)
  BY <1>1, WhoRestores DEF RestoreRemove
<1>3. PICK t, o : /\ t \in j.todo /\ o \in Removed(t) /\ live' = [live EXCEPT ![t] = o]
                  /\ Goto(p, "rm") \/ Goto(p, "cp")
  BY <1>1 DEF RestoreRemove
<1>4. UNCHANGED <<plan, backup, receipt, registry, clock, job>> /\ Restoring(p, j, t)
  BY <1>1, <1>3 DEF RestoreRemove, Restoring
<1>5. Becomes(t, o)
  BY <1>3, <1>4, RemovedIs DEF Becomes, Objects
<1>6. PICK l \in {"rm", "cp"} : Goto(p, l)
  BY <1>3
<1>7. CASE AtUndo(p, j, i)
  BY <1>4, <1>5, <1>6, <1>7, SameUndoGood
<1>8. CASE AtRoll(p, j, i)
  BY <1>4, <1>5, <1>6, <1>8, SameRollGood
<1> QED BY <1>2, <1>7, <1>8

\* The unit is restored: the one before it is next.
LEMMA UnitDoneGood ==
    ASSUME NEW p \in Procs, NEW j, NEW i, AtRoll(p, j, i), StoreOK',
           (receipt[i] # None)', \A n \in Planned(i) : (backup[i][n] = receipt[i].original[n])',
           j.k \in DOMAIN Units[i],
           \A m \in DOMAIN Units[i] :
                 /\ m > j.k => AllRestored(j, m)' \/ (j.drifted /\ AllLeft(j, m)')
                 /\ m < j.k => AllLeft(j, m)',
           NEW h \in Jobs, h.inst = i, h.was = j.was, h.cmd = "rollback", h.todo = {}, h.k = j.k - 1,
           j.drifted => h.drifted, AllRestored(h, j.k)' \/ (h.drifted /\ AllLeft(h, j.k)'),
           Goto(p, "unit"), Set(p, h)
    PROVE  Good(p)'
<1>1. /\ i \in Installs /\ i = j.inst /\ DOMAIN Units[i] = 1 .. Len(Units[i]) /\ Len(Units[i]) \in Nat
  BY RollingIs, UnitsAre DEF AtRoll
<1>2. /\ h.k \in {0} \cup DOMAIN Units[i]
      /\ \A m \in DOMAIN Units[i] : (m > h.k => m > j.k \/ m = j.k) /\ (m < h.k => m < j.k) /\ (m = h.k => m < j.k)
  BY <1>1
<1>3. \A m : (AllRestored(j, m)' <=> AllRestored(h, m)') /\ (AllLeft(j, m)' <=> AllLeft(h, m)')
  BY <1>1 DEF AllRestored, AllLeft, IsRestored
<1>4. \A m \in DOMAIN Units[i] :
         /\ m > h.k => AllRestored(h, m)' \/ (h.drifted /\ AllLeft(h, m)')
         /\ m < h.k \/ m = h.k => AllLeft(h, m)'
  <2> SUFFICES ASSUME NEW m \in DOMAIN Units[i]
               PROVE  /\ m > h.k => AllRestored(h, m)' \/ (h.drifted /\ AllLeft(h, m)')
                      /\ m < h.k \/ m = h.k => AllLeft(h, m)'
    OBVIOUS
  <2>1. CASE m > j.k
    BY <1>2, <1>3, <2>1
  <2>2. CASE m = j.k
    BY <1>1, <1>2, <2>2
  <2>3. CASE m < j.k
    BY <1>1, <1>2, <1>3, <2>3
  <2> QED BY <1>1, <2>1, <2>2, <2>3
<1>5. Rolling("unit", h)'
  BY <1>2, <1>4 DEF Rolling
<1>6. Holding("unit", h)'
  BY <1>5, StillRolling
<1> QED BY <1>6, NextGood DEF PCs, AtRoll

LEMMA RestoreCopyGood == ASSUME NEW p \in Procs, Good(p), RestoreCopy(p) PROVE Good(p)'
<1>1. PICK j, i : j = job[p] /\ i = j.inst
  OBVIOUS
<1>2. AtUndo(p, j, i) \/ AtRoll(p, j, i)
  BY <1>1, WhoRestores DEF RestoreCopy
<1>3. PICK t \in j.todo :
        \/ live' = [live EXCEPT ![t] = backup[i][t]] /\ Restored(p, t)
        \/ live' = [live EXCEPT ![t] = Torn] /\ UNCHANGED <<pc, job>>
  BY <1>1 DEF RestoreCopy, Inst
<1>4. UNCHANGED <<plan, backup, receipt, registry, clock>> /\ Restoring(p, j, t) /\ pc[p] = "cp"
  BY <1>1, <1>3 DEF RestoreCopy, Restoring
<1>5. i \in Installs /\ t \in Targets /\ j \in Jobs
  <2>1. i \in Installs /\ j \in Jobs
    BY <1>2, UndoingIs, RollingIs
  <2> QED BY <2>1, <1>3 DEF Jobs
<1>6. CASE live' = [live EXCEPT ![t] = Torn] /\ UNCHANGED <<pc, job>>
  <2>1. Becomes(t, Torn)
    BY <1>4, <1>6 DEF Becomes
  <2>2. Goto(p, "cp") /\ job' = job
    BY <1>4, <1>6 DEF Goto, Good, ControlOK
  <2>3. CASE AtUndo(p, j, i)
    BY <1>4, <2>1, <2>2, <2>3, SameUndoGood
  <2>4. CASE AtRoll(p, j, i)
    BY <1>4, <2>1, <2>2, <2>4, SameRollGood
  <2> QED BY <1>2, <2>3, <2>4
<1>7. CASE live' = [live EXCEPT ![t] = backup[i][t]] /\ Restored(p, t)
  <2>1. PICK o : o = backup[i][t]
    OBVIOUS
  <2>2. Becomes(t, o)
    BY <1>4, <1>5, <1>7, <2>1 DEF Becomes, Good, StoreOK
  <2>3. CASE AtUndo(p, j, i)
    <3>1. /\ StoreOK' /\ (registry[i] = None /\ plan[i] # None)' /\ t = Op(i, j.k) /\ live'[t] = o
          /\ j.k \in Ops(i) /\ j.todo = {t} /\ j.why \in {"repair", "undo"} /\ Kept(j, j.k)
          /\ \A m \in Ops(i) : Kept(j, m)' /\ (m > j.k => PutBack(j, m)')
      BY <1>4, <2>2, <2>3, UndoMoved
    <3>2. PICK h : h = [j EXCEPT !.todo = {}, !.k = j.k - 1]
      OBVIOUS
    <3>3. j.k - 1 \in Nat /\ j.cmd = "apply" /\ j.status = "active"
      BY <2>3, <3>1, UndoingIs
    <3>4. /\ h \in Jobs /\ h.inst = i /\ h.was = j.was /\ h.cmd = "apply" /\ h.status = "active" /\ h.todo = {}
          /\ h.k = j.k - 1 /\ h.failed = j.failed /\ h.lost = j.lost
      BY <1>1, <1>5, <3>2, <3>3 DEF Jobs
    <3>5. PutBack(h, j.k)'
      BY <1>1, <2>1, <3>1, <3>4 DEF PutBack, Left, Kept
    <3>6. Goto(p, "undo") /\ Set(p, h)
      BY <1>1, <1>7, <3>1, <3>2 DEF Restored
    <3> QED BY <2>3, <3>1, <3>4, <3>5, <3>6, BackGood
  <2>4. CASE AtRoll(p, j, i)
    <3>1. /\ StoreOK' /\ t \in Planned(i) /\ live'[t] = o
          /\ (receipt[i] # None)' /\ \A n \in Planned(i) : (backup[i][n] = receipt[i].original[n])'
          /\ j.k \in DOMAIN Units[i] /\ j.todo \subseteq ToSet(Units[i][j.k]) /\ j.why = "roll"
          /\ \A m \in DOMAIN Units[i] :
                /\ m > j.k => AllRestored(j, m)' \/ (j.drifted /\ AllLeft(j, m)')
                /\ m < j.k => AllLeft(j, m)'
          /\ \A n \in ToSet(Units[i][j.k]) \ j.todo : IsRestored(i, n)'
      BY <1>4, <2>2, <2>4, RollMoved
    <3>2. IsRestored(i, t)'
      BY <1>4, <2>1, <3>1 DEF IsRestored
    <3>3. j.cmd = "rollback"
      BY <2>4 DEF AtRoll
    <3>4. CASE j.todo # {t}
      <4>1. PICK h : h = [j EXCEPT !.todo = j.todo \ {t}]
        OBVIOUS
      <4>2. /\ h \in Jobs /\ h.inst = i /\ h.was = j.was /\ h.cmd = "rollback" /\ h.todo = j.todo \ {t}
            /\ h.k = j.k /\ h.drifted = j.drifted /\ h.why = "roll"
        BY <1>1, <1>5, <3>1, <3>3, <4>1 DEF Jobs
      <4>3. h.todo # {} /\ h.todo \subseteq ToSet(Units[i][h.k])
        BY <1>3, <3>1, <3>4, <4>2
      <4>4. \A n \in ToSet(Units[i][h.k]) \ h.todo : IsRestored(i, n)'
        BY <3>1, <3>2, <4>2
      <4>5. \A m : (AllRestored(j, m)' <=> AllRestored(h, m)') /\ (AllLeft(j, m)' <=> AllLeft(h, m)')
        BY <1>1, <4>2 DEF AllRestored, AllLeft, IsRestored
      <4>6. \A m \in DOMAIN Units[i] :
                /\ m > h.k => AllRestored(h, m)' \/ (h.drifted /\ AllLeft(h, m)')
                /\ m < h.k => AllLeft(h, m)'
        BY <3>1, <4>2, <4>5
      <4>7. Rolling("rm", h)'
        BY <3>1, <4>2, <4>3, <4>4, <4>6 DEF Rolling
      <4>8. Holding("rm", h)'
        BY <4>2, <4>3, <4>7, StillRolling
      <4>9. Goto(p, "rm") /\ Set(p, h)
        BY <1>1, <1>7, <3>4, <4>1 DEF Restored
      <4> QED BY <3>1, <4>8, <4>9, NextGood DEF PCs
    <3>5. CASE j.todo = {t}
      <4>1. PICK h : h = [j EXCEPT !.todo = {}, !.k = j.k - 1]
        OBVIOUS
      <4>2. j.k - 1 \in Nat
        BY <1>5, <3>1, UnitsAre
      <4>3. /\ h \in Jobs /\ h.inst = i /\ h.was = j.was /\ h.cmd = "rollback" /\ h.todo = {}
            /\ h.k = j.k - 1 /\ h.drifted = j.drifted
        BY <1>1, <1>5, <3>3, <4>1, <4>2 DEF Jobs
      <4>4. AllRestored(h, j.k)'
        BY <3>1, <3>2, <3>5, <4>3 DEF AllRestored
      <4>5. Goto(p, "unit") /\ Set(p, h)
        BY <1>1, <1>7, <3>1, <3>5, <4>1 DEF Restored
      <4> QED BY <2>4, <3>1, <4>3, <4>4, <4>5, UnitDoneGood
    <3> QED BY <3>4, <3>5
  <2> QED BY <1>2, <2>3, <2>4
<1> QED BY <1>3, <1>6, <1>7

LEMMA RestoreFailsGood == ASSUME NEW p \in Procs, Good(p), RestoreFails(p) PROVE Good(p)'
<1>1. PICK j, i : j = job[p] /\ i = j.inst
  OBVIOUS
<1>2. (AtUndo(p, j, i) \/ AtRoll(p, j, i)) /\ UNCHANGED state /\ pc[p] \in {"rm", "cp"}
  BY <1>1, WhoRestores DEF RestoreFails
<1>3. StoreOK'
  BY <1>2 DEF Good, StoreOK, state
<1>4. CASE AtRoll(p, j, i)
  <2>1. j.why = "roll"
    BY <1>2, <1>4, RollingIs
  <2>2. End(p)
    BY <1>1, <2>1 DEF RestoreFails
  <2> QED BY <1>3, <2>2, EndGood
<1>5. CASE AtUndo(p, j, i)
  <2>1. /\ j \in Jobs /\ i \in Installs /\ j.cmd = "apply" /\ j.status = "active"
        /\ registry[i] = None /\ plan[i] # None /\ Undoing(pc[p], j)
    BY <1>5, UndoingIs
  <2>2. j.k \in Ops(i) /\ j.why \in {"repair", "undo"} /\ j.k - 1 \in Nat
    BY <1>1, <1>2, <2>1, OrderIs DEF Undoing
  <2>3. \A m \in Ops(i) : Kept(j, m) /\ (m > j.k => PutBack(j, m))
    <3>1. j.k # 0
      BY <2>2
    <3> QED BY <1>1, <2>1, <3>1 DEF Undoing
  <2>4. \A m \in Ops(i) : Kept(j, m)' /\ (m > j.k => PutBack(j, m)')
    BY <1>2, <2>3 DEF Kept, PutBack, Left, state
  <2>5. PICK lost, failed \in BOOLEAN :
           lost = (j.lost \/ j.why = "repair") /\ failed = (j.failed \/ j.why = "undo")
    <3>1. (j.lost \/ j.why = "repair") \in BOOLEAN /\ (j.failed \/ j.why = "undo") \in BOOLEAN
      OBVIOUS
    <3> QED BY <3>1
  <2>6. PICK h : h = [j EXCEPT !.todo = {}, !.k = j.k - 1, !.lost = lost, !.failed = failed]
    OBVIOUS
  <2>7. /\ h \in Jobs /\ h.inst = i /\ h.was = j.was /\ h.cmd = "apply" /\ h.status = "active" /\ h.todo = {}
        /\ h.k = j.k - 1 /\ h.lost = lost /\ h.failed = failed
    BY <1>1, <2>1, <2>2, <2>6, ZenonT(30) DEF Jobs
  <2>8. (j.failed => h.failed) /\ (j.lost => h.lost) /\ PutBack(h, j.k)'
    BY <2>2, <2>5, <2>7 DEF PutBack
  <2>9. (registry[i] = None /\ plan[i] # None)'
    BY <1>2, <2>1 DEF state
  <2>10. Goto(p, "undo") /\ Set(p, h)
    BY <1>1, <2>2, <2>5, <2>6 DEF RestoreFails
  <2> QED BY <1>3, <1>5, <2>2, <2>4, <2>7, <2>8, <2>9, <2>10, BackGood
<1> QED BY <1>2, <1>4, <1>5

LEMMA RollbackUnitGood == ASSUME NEW p \in Procs, Good(p), RollbackUnit(p) PROVE Good(p)'
<1>1. PICK j, i : j = job[p] /\ i = j.inst
  OBVIOUS
<1>2. AtRoll(p, j, i) /\ pc[p] = "unit"
  BY <1>1, AtWork DEF AtRoll, RollbackUnit, Rolling
<1>3. /\ j \in Jobs /\ i \in Installs /\ Inst(p) = i /\ j.todo = {} /\ j.cmd = "rollback"
      /\ receipt[i] # None /\ \A n \in Planned(i) : backup[i][n] = receipt[i].original[n]
      /\ j.k \in {0} \cup DOMAIN Units[i]
      /\ \A m \in DOMAIN Units[i] :
            /\ m > j.k => AllRestored(j, m) \/ (j.drifted /\ AllLeft(j, m))
            /\ m < j.k \/ m = j.k => AllLeft(j, m)
  BY <1>2, RollingIs DEF AtRoll
<1>4. j.k \in DOMAIN Units[i] /\ j.k - 1 \in Nat
  <2>1. j.k # 0
    BY <1>1, <1>3 DEF RollbackUnit, Jobs
  <2> QED BY <1>3, <2>1, UnitsAre
<1>5. UNCHANGED state
  BY DEF RollbackUnit
<1>6. StoreOK'
  BY <1>5 DEF Good, StoreOK, state
<1>7. \A m : \A h : h.inst = i /\ h.was = j.was =>
         (AllRestored(h, m)' <=> AllRestored(j, m)) /\ (AllLeft(h, m)' <=> AllLeft(j, m))
  BY <1>1, <1>5 DEF AllRestored, AllLeft, IsRestored, state
<1>8. (receipt[i] # None)' /\ \A n \in Planned(i) : (backup[i][n] = receipt[i].original[n])'
  BY <1>3, <1>5 DEF state
<1>9. PICK drifted \in BOOLEAN :
        drifted = \E t \in ToSet(Units[i][j.k]) : ~IsRestored(i, t) /\ ~CanRestore(i, t)
  <2>1. (\E t \in ToSet(Units[i][j.k]) : ~IsRestored(i, t) /\ ~CanRestore(i, t)) \in BOOLEAN
    OBVIOUS
  <2> QED BY <2>1
<1>10. PICK todo : todo = {t \in ToSet(Units[i][j.k]) : ~IsRestored(i, t)}
  OBVIOUS
<1>11. IF drifted \/ todo = {}
       THEN Set(p, [j EXCEPT !.k = j.k - 1, !.drifted = j.drifted \/ drifted]) /\ Goto(p, "unit")
       ELSE Set(p, [j EXCEPT !.why = "roll", !.todo = todo]) /\ Goto(p, "rm")
  BY <1>1, <1>3, <1>9, <1>10 DEF RollbackUnit
<1>12. CASE drifted \/ todo = {}
  <2>1. PICK d \in BOOLEAN : d = (j.drifted \/ drifted)
    OBVIOUS
  <2>2. PICK h : h = [j EXCEPT !.k = j.k - 1, !.drifted = d]
    OBVIOUS
  <2>3. /\ h \in Jobs /\ h.inst = i /\ h.was = j.was /\ h.cmd = "rollback" /\ h.todo = {}
        /\ h.k = j.k - 1 /\ h.drifted = d
    BY <1>1, <1>3, <1>4, <2>2 DEF Jobs
  <2>4. AllRestored(h, j.k)' \/ (h.drifted /\ AllLeft(h, j.k)')
    <3>1. CASE drifted
      BY <1>3, <1>4, <1>7, <2>1, <2>3, <3>1
    <3>2. CASE todo = {}
      <4>1. AllRestored(j, j.k)
        BY <1>1, <1>10, <3>2 DEF AllRestored
      <4> QED BY <1>7, <2>3, <4>1
    <3> QED BY <1>12, <3>1, <3>2
  <2>5. \A m \in DOMAIN Units[i] :
           /\ m > j.k => AllRestored(j, m)' \/ (j.drifted /\ AllLeft(j, m)')
           /\ m < j.k => AllLeft(j, m)'
    BY <1>1, <1>3, <1>7
  <2>6. Goto(p, "unit") /\ Set(p, h)
    BY <1>11, <1>12, <2>1, <2>2
  <2>7. j.drifted => h.drifted
    BY <2>1, <2>3
  <2> QED BY <1>2, <1>4, <1>6, <1>8, <2>3, <2>4, <2>5, <2>6, <2>7, UnitDoneGood
<1>13. CASE ~(drifted \/ todo = {})
  <2>1. PICK h : h = [j EXCEPT !.why = "roll", !.todo = todo]
    OBVIOUS
  <2>2. todo \subseteq ToSet(Units[i][j.k]) /\ todo \subseteq Targets /\ todo # {}
    BY <1>3, <1>4, <1>10, <1>13, UnitsAre, OrderIs
  <2>3. /\ h \in Jobs /\ h.inst = i /\ h.was = j.was /\ h.cmd = "rollback" /\ h.todo = todo
        /\ h.k = j.k /\ h.drifted = j.drifted /\ h.why = "roll"
    BY <1>1, <1>3, <2>1, <2>2 DEF Jobs
  <2>4. \A t \in ToSet(Units[i][h.k]) \ h.todo : IsRestored(i, t)'
    BY <1>5, <1>10, <2>3 DEF IsRestored, state
  <2>5. \A m \in DOMAIN Units[i] :
           /\ m > h.k => AllRestored(h, m)' \/ (h.drifted /\ AllLeft(h, m)')
           /\ m < h.k => AllLeft(h, m)'
    BY <1>3, <1>7, <2>3
  <2>6. Rolling("rm", h)'
    BY <1>4, <1>8, <2>2, <2>3, <2>4, <2>5 DEF Rolling
  <2>7. Holding("rm", h)'
    BY <2>2, <2>3, <2>6, StillRolling
  <2> QED BY <1>6, <1>11, <1>13, <2>1, <2>7, NextGood DEF PCs
<1> QED BY <1>12, <1>13

LEMMA ConcludeGood == ASSUME NEW p \in Procs, Good(p), Conclude(p) PROVE Good(p)'
<1>1. PICK j, i : j = job[p] /\ i = j.inst
  OBVIOUS
<1>2. AtRoll(p, j, i) /\ pc[p] = "unit"
  BY <1>1, AtWork DEF AtRoll, Conclude, Rolling
<1>3. /\ j \in Jobs /\ i \in Installs /\ Inst(p) = i /\ j.todo = {} /\ j.cmd = "rollback" /\ j.k = 0
      /\ receipt[i] # None /\ \A n \in Planned(i) : backup[i][n] = receipt[i].original[n]
      /\ \A m \in DOMAIN Units[i] :
            /\ m > j.k => AllRestored(j, m) \/ (j.drifted /\ AllLeft(j, m))
            /\ m < j.k => AllLeft(j, m)
  BY <1>1, <1>2, RollingIs DEF AtRoll, Conclude
<1>4. UNCHANGED <<live, plan, backup, registry, clock>>
  BY DEF Conclude
<1>5. PICK status : status = IF j.drifted THEN "drifted" ELSE "rolled_back"
  OBVIOUS
<1>6. CASE /\ receipt' = [receipt EXCEPT ![i].status = status]
           /\ Set(p, [j EXCEPT !.status = status]) /\ Goto(p, "read")
  <2>1. receipt[i] \in Receipts(i) /\ status \in {"rolled_back", "drifted"}
    BY <1>3, <1>5 DEF Good, StoreOK
  <2>2. /\ DOMAIN receipt' = Installs /\ \A n \in Installs : n # i => receipt'[n] = receipt[n]
        /\ receipt'[i] = [receipt[i] EXCEPT !.status = status]
    BY <1>3, <1>6 DEF Good, StoreOK
  <2>3. receipt'[i] \in Receipts(i) /\ receipt'[i].original = receipt[i].original
    BY <2>1, <2>2 DEF Receipts
  <2>4. receipt'[i] # None
    BY <1>3, <2>3, PlanAssumption
  <2>5. \A n \in Installs : receipt'[n] = None \/ receipt'[n] \in Receipts(n)
    BY <2>2, <2>3 DEF Good, StoreOK
  <2>6. StoreOK'
    BY <1>4, <2>2, <2>5 DEF Good, StoreOK
  <2>7. PICK h : h = [j EXCEPT !.status = status]
    OBVIOUS
  <2>8. /\ h \in Jobs /\ h.inst = i /\ h.was = j.was /\ h.cmd = "rollback" /\ h.todo = {}
        /\ h.k = 0 /\ h.drifted = j.drifted /\ h.status = status
    BY <1>1, <1>3, <2>1, <2>7 DEF Jobs, Statuses
  <2>9. \A m : (AllRestored(h, m)' <=> AllRestored(j, m)) /\ (AllLeft(h, m)' <=> AllLeft(j, m))
    BY <1>1, <1>4, <2>3, <2>8 DEF AllRestored, AllLeft, IsRestored
  <2>10. \A m \in DOMAIN Units[i] :
           /\ m > h.k => AllRestored(h, m)' \/ (h.drifted /\ AllLeft(h, m)')
           /\ m < h.k => AllLeft(h, m)'
    BY <1>3, <2>8, <2>9
  <2>11. \A n \in Planned(i) : (backup[i][n] = receipt[i].original[n])'
    BY <1>3, <1>4, <2>3
  <2>12. h.k \in {0} \cup DOMAIN Units[i] /\ h.status = (IF h.drifted THEN "drifted" ELSE "rolled_back")
    BY <1>5, <2>8
  <2>13. ~(\E m \in DOMAIN Units[i] : m = h.k)
    BY <1>3, <2>8, UnitsAre
  <2>14. Rolling("read", h)'
    BY <2>4, <2>8, <2>10, <2>11, <2>12, <2>13 DEF Rolling
  <2>15. Holding("read", h)'
    BY <2>8, <2>14 DEF Holding
  <2> QED BY <1>6, <2>6, <2>7, <2>15, NextGood DEF PCs
<1>7. CASE End(p) /\ UNCHANGED receipt
  <2>1. StoreOK'
    BY <1>4, <1>7 DEF Good, StoreOK
  <2> QED BY <1>7, <2>1, EndGood
<1> QED BY <1>1, <1>3, <1>5, <1>6, <1>7 DEF Conclude

-----------------------------------------------------------------------------
(* The commands begin. *)

Begun(p, c, i, k, ack, h) ==
    /\ h \in Jobs /\ Set(p, h) /\ h.cmd = c /\ h.inst = i /\ h.k = k /\ h.ack = ack
    /\ h.todo = {} /\ h.drifted = FALSE /\ h.was = live
    /\ h.status = IF c = "retire" THEN "retired" ELSE "active"

LEMMA CommandIs ==
    ASSUME NEW p \in Procs, Good(p), NEW i \in Installs, NEW c \in {"apply", "rollback", "retire"},
           NEW k \in Nat, NEW ack \in BOOLEAN, Command(p, c, i, k, ack)
    PROVE  /\ StoreOK' /\ UNCHANGED state
           /\ \E h : Begun(p, c, i, k, ack, h)
<1>1. UNCHANGED state
  BY DEF Command
<1>2. StoreOK'
  BY <1>1 DEF Good, StoreOK, state
<1>3. PICK status : status = IF c = "retire" THEN "retired" ELSE "active"
  OBVIOUS
<1>4. PICK h : h = [cmd |-> c, inst |-> i, k |-> k, todo |-> {}, ack |-> ack, why |-> None,
                    failed |-> FALSE, lost |-> FALSE, drifted |-> FALSE, reg |-> None,
                    status |-> status, was |-> live]
  OBVIOUS
<1>5. Set(p, h)
  BY <1>3, <1>4 DEF Command
<1>6. live \in Paths /\ status \in Statuses
  BY <1>3 DEF Good, StoreOK, Statuses
<1>7. h \in Jobs
  BY <1>4, <1>6 DEF Jobs
<1>8. Begun(p, c, i, k, ack, h)
  BY <1>3, <1>4, <1>5, <1>7 DEF Begun
<1> QED BY <1>1, <1>2, <1>8

LEMMA ApplyGood == ASSUME NEW p \in Procs, NEW i \in Installs, Good(p), Apply(p, i) PROVE Good(p)'
<1>1. plan[i] # None /\ ~Used(i) /\ Goto(p, "preflight")
  BY DEF Apply
<1>2. PICK ack \in BOOLEAN : /\ ack \/ \A t \in Planned(i) : ~Gap(t, i, plan[i][t])
                             /\ Command(p, "apply", i, 1, ack)
  BY DEF Apply
<1>3. StoreOK' /\ UNCHANGED state
  BY <1>2, CommandIs
<1>4. PICK h : /\ h \in Jobs /\ Set(p, h) /\ h.cmd = "apply" /\ h.inst = i /\ h.k = 1 /\ h.ack = ack
               /\ h.todo = {} /\ h.was = live /\ h.status = "active"
  <2>1. \E h : Begun(p, "apply", i, 1, ack, h)
    BY <1>2, CommandIs
  <2> QED BY <2>1 DEF Begun
<1>5. registry[i] = None /\ receipt[i] = None /\ backup[i] = NoBackup
  BY <1>1 DEF Used
<1>6. Linked(h)
  BY <1>2, <1>4 DEF Linked
<1>7. Linked(h)'
  BY <1>3, <1>6, LinkedStands DEF state
<1>8. \A m \in Ops(i) : Left(h, m)'
  BY <1>3, <1>4 DEF Left, state
<1>9. \A m \in Ops(i) : backup[i][Op(i, m)] = Absent
  BY <1>5, OrderIs DEF NoBackup
<1>10. 1 \in Ops(i) /\ \A m \in Ops(i) : ~(m < 1)
  BY OrderIs
<1>11. Preparing("preflight", h)'
  BY <1>3, <1>4, <1>5, <1>7, <1>8, <1>9, <1>10 DEF Preparing, Op, Ops, state
<1>12. (registry[h.inst] = None /\ plan[h.inst] # None)'
  BY <1>1, <1>3, <1>4, <1>5 DEF state
<1>13. Holding("preflight", h)'
  BY <1>4, <1>11, <1>12, StillApplying
<1> QED BY <1>1, <1>3, <1>4, <1>13, NextGood DEF PCs

LEMMA RollbackGood == ASSUME NEW p \in Procs, NEW i \in Installs, Good(p), Rollback(p, i) PROVE Good(p)'
<1>1. /\ receipt[i] # None /\ \A t \in Planned(i) : backup[i][t] = receipt[i].original[t]
      /\ Command(p, "rollback", i, Len(Units[i]), FALSE) /\ Goto(p, "unit")
  BY DEF Rollback
<1>2. Len(Units[i]) \in Nat /\ DOMAIN Units[i] = 1 .. Len(Units[i])
  BY UnitsAre
<1>3. StoreOK' /\ UNCHANGED state
  BY <1>1, <1>2, CommandIs
<1>4. PICK h : /\ h \in Jobs /\ Set(p, h) /\ h.cmd = "rollback" /\ h.inst = i /\ h.k = Len(Units[i])
               /\ h.todo = {} /\ h.was = live
  <2>1. \E h : Begun(p, "rollback", i, Len(Units[i]), FALSE, h)
    BY <1>1, <1>2, CommandIs
  <2> QED BY <2>1 DEF Begun
<1>5. \A m \in DOMAIN Units[i] : ~(m > h.k) /\ AllLeft(h, m)'
  BY <1>2, <1>3, <1>4 DEF AllLeft, state
<1>6. h.k \in {0} \cup DOMAIN Units[i]
  BY <1>2, <1>4
<1>7. Rolling("unit", h)'
  BY <1>1, <1>3, <1>4, <1>5, <1>6 DEF Rolling, state
<1>8. Holding("unit", h)'
  BY <1>4, <1>7, StillRolling
<1> QED BY <1>1, <1>3, <1>4, <1>8, NextGood DEF PCs

LEMMA RetireGood == ASSUME NEW p \in Procs, NEW i \in Installs, Good(p), Retire(p, i) PROVE Good(p)'
<1>1. Command(p, "retire", i, 0, FALSE) /\ Goto(p, "read")
  BY DEF Retire
<1>2. StoreOK' /\ UNCHANGED state
  BY <1>1, CommandIs
<1>3. PICK h : h \in Jobs /\ Set(p, h) /\ h.cmd = "retire" /\ h.k = 0 /\ h.todo = {}
  <2>1. \E h : Begun(p, "retire", i, 0, FALSE, h)
    BY <1>1, CommandIs
  <2> QED BY <2>1 DEF Begun
<1>4. Holding("read", h)'
  BY <1>3 DEF Holding, Retiring
<1> QED BY <1>1, <1>2, <1>3, <1>4, NextGood DEF PCs

-----------------------------------------------------------------------------
(* What happens between commands, and a death. *)

LEMMA MakePlanGood == ASSUME NEW p \in Procs, NEW i \in Installs, Good(p), MakePlan(i) PROVE Good(p)'
<1>1. /\ pc[p] = "idle" /\ plan' = [plan EXCEPT ![i] = Restrict(live, Planned(i))]
      /\ UNCHANGED <<live, backup, receipt, registry, clock, pc, job>>
  BY DEF MakePlan
<1>2. Restrict(live, Planned(i)) \in [Planned(i) -> Objects]
  <2>1. live \in Paths /\ Planned(i) \subseteq Targets
    BY OrderIs DEF Good, StoreOK
  <2>2. \A t \in Planned(i) : live[t] # Torn
    <3> SUFFICES ASSUME NEW t \in Planned(i) PROVE live[t] # Torn
      OBVIOUS
    <3>1. PICK m \in DOMAIN Units[i] : t \in ToSet(Units[i][m])
      BY UnitsAre
    <3>2. PICK u : u = Units[i][m]
      OBVIOUS
    <3>3. u \in ToSet(Units[i]) /\ u \in Seq(Targets) /\ Len(u) \in 1 .. 2
      BY <3>1, <3>2, PlanAssumption DEF ToSet
    <3>4. t = u[1] \/ (Len(u) = 2 /\ t = u[2])
      BY <3>1, <3>2, <3>3 DEF ToSet
    <3>5. /\ live[u[1]] # Torn
          /\ Len(u) = 2 => live[u[2]] = Absent
      BY <3>3 DEF MakePlan
    <3> QED BY <3>4, <3>5, Apart
  <2> QED BY <2>1, <2>2 DEF Restrict, Paths
<1>3. StoreOK'
  <2>1. DOMAIN plan' = Installs /\ \A n \in Installs : n # i => plan'[n] = plan[n]
    BY <1>1 DEF Good, StoreOK
  <2>2. plan'[i] = Restrict(live, Planned(i))
    BY <1>1 DEF Good, StoreOK
  <2>3. \A n \in Installs : plan'[n] = None \/ plan'[n] \in [Planned(n) -> Objects]
    BY <1>2, <2>1, <2>2 DEF Good, StoreOK
  <2> QED BY <1>1, <2>1, <2>3 DEF Good, StoreOK
<1> QED BY <1>1, <1>3 DEF Good, ControlOK, Own

LEMMA EditGood ==
    ASSUME NEW p \in Procs, NEW t \in Targets, NEW o \in Objects, Good(p), Edit(t, o) PROVE Good(p)'
<1>1. /\ pc[p] = "idle" /\ live' = [live EXCEPT ![t] = o]
      /\ UNCHANGED <<plan, backup, receipt, registry, clock, pc, job>>
  BY DEF Edit
<1>2. live' \in Paths
  BY <1>1 DEF Good, StoreOK, Paths
<1> QED BY <1>1, <1>2 DEF Good, StoreOK, ControlOK, Own

LEMMA CrashGood == ASSUME NEW p \in Procs, Good(p), Crash(p) PROVE Good(p)'
<1>1. StoreOK'
  BY DEF Crash, Good, StoreOK, state
<1> QED BY <1>1, EndGood DEF Crash

LEMMA StutterGood == ASSUME NEW p \in Procs, Good(p), UNCHANGED vars PROVE Good(p)'
<1>1. UNCHANGED state /\ UNCHANGED <<pc, job>>
  BY DEF vars
<1>2. StoreOK' /\ ControlOK'
  BY <1>1 DEF Good, StoreOK, ControlOK, state
<1>3. Own(p)'
  <2>1. CASE pc[p] = "idle"
    BY <1>1, <2>1 DEF Own
  <2>2. CASE pc[p] # "idle"
    <3>1. PICK l, j : l = pc[p] /\ j = job[p] /\ Holding(l, j)
      BY <2>2 DEF Good, Own
    <3>2. \A m : /\ (Left(j, m)' <=> Left(j, m)) /\ (Made(j, m)' <=> Made(j, m)) /\ (Kept(j, m)' <=> Kept(j, m))
                /\ (Seen(j, m)' <=> Seen(j, m)) /\ (PutBack(j, m)' <=> PutBack(j, m))
                /\ (AllRestored(j, m)' <=> AllRestored(j, m)) /\ (AllLeft(j, m)' <=> AllLeft(j, m))
      BY <1>1 DEF Left, Made, Seen, Kept, PutBack, AllRestored, AllLeft, IsRestored, state
    <3>3. Linked(j)' <=> Linked(j)
      BY <1>1 DEF Linked, Gap, Writers, state
    <3>4. /\ Preparing(l, j) => Preparing(l, j)'
          /\ Committing(l, j) => Committing(l, j)'
          /\ Registering(l, j) => Registering(l, j)'
          /\ Undoing(l, j) => Undoing(l, j)'
      <4>1. Preparing(l, j) => Preparing(l, j)'
        BY <1>1, <3>2, <3>3 DEF Preparing, Ops, Op, state
      <4>2. Committing(l, j) => Committing(l, j)'
        BY <1>1, <3>2, <3>3 DEF Committing, Ops, Op, state
      <4>3. Registering(l, j) => Registering(l, j)'
        BY <1>1, <3>2, <3>3 DEF Registering, Ops, Op, state
      <4>4. Undoing(l, j) => Undoing(l, j)'
        BY <1>1, <3>2 DEF Undoing, Ops, Op, state
      <4> QED BY <4>1, <4>2, <4>3, <4>4
    <3>5. Applying(l, j) => Applying(l, j)'
      BY <1>1, <3>4 DEF Applying, state
    <3>6. Rolling(l, j) => Rolling(l, j)'
      BY <1>1, <3>2 DEF Rolling, IsRestored, state
    <3>7. Holding(l, j)'
      BY <3>1, <3>5, <3>6 DEF Holding, Retiring
    <3> QED BY <1>1, <3>1, <3>7 DEF Own
  <2> QED BY <2>1, <2>2
<1> QED BY <1>2, <1>3 DEF Good

LEMMA StepGood == ASSUME NEW p \in Procs, Good(p), Step(p) PROVE Good(p)'
BY PreflightGood, GroupsGood, CommitGood, RemoveOldGood, PlaceGood, RecordGood, ReadRegistryGood,
   WriteRegistryGood, UndoGood, DiscardGood, RestoreRemoveGood, RestoreCopyGood, RestoreFailsGood,
   RollbackUnitGood, ConcludeGood DEF Step

-----------------------------------------------------------------------------
(* The invariant. *)

LEMMA InitInv == Init => IInv
<1> SUFFICES ASSUME Init PROVE IInv
  OBVIOUS
<1>1. StoreOK
  BY DEF Init, StoreOK, Paths, Registries, NoBackup, Objects
<1>2. ControlOK /\ \A p \in Procs : Own(p)
  BY DEF Init, ControlOK, Own, PCs
<1>3. CountsOK
  BY DEF Init, CountsOK
<1> QED BY <1>1, <1>2, <1>3 DEF IInv

\* The bounds' counters stay numbers.
LEMMA StepCounts == ASSUME NEW p \in Procs, CountsOK, Step(p) PROVE CountsOK'
<1>1. calls' = calls /\ crashes' = crashes /\ edits' = edits /\ faults' \in {faults, faults + 1}
  <2>1. CASE Preflight(p) \/ Groups(p) \/ Commit(p) \/ RemoveOld(p) \/ Place(p)
    BY <2>1 DEF Preflight, Groups, Commit, RemoveOld, Place, Fault, bounds
  <2>2. CASE Record(p) \/ ReadRegistry(p) \/ WriteRegistry(p) \/ Undo(p) \/ Discard(p)
    BY <2>2 DEF Record, ReadRegistry, WriteRegistry, Undo, Discard, Fault, bounds
  <2>3. CASE RestoreRemove(p) \/ RestoreCopy(p) \/ RestoreFails(p) \/ RollbackUnit(p) \/ Conclude(p)
    BY <2>3 DEF RestoreRemove, RestoreCopy, RestoreFails, RollbackUnit, Conclude, Fault, bounds
  <2> QED BY <2>1, <2>2, <2>3 DEF Step
<1> QED BY <1>1 DEF CountsOK

LEMMA NextCounts == CountsOK /\ [Next]_vars => CountsOK'
<1> SUFFICES ASSUME CountsOK, [Next]_vars PROVE CountsOK'
  OBVIOUS
<1>1. ASSUME NEW i \in Installs, MakePlan(i) PROVE CountsOK'
  BY <1>1 DEF MakePlan, CountsOK
<1>2. ASSUME NEW p \in Procs, NEW i \in Installs, Apply(p, i) \/ Rollback(p, i) \/ Retire(p, i) PROVE CountsOK'
  <2>1. \E c, k, ack : Command(p, c, i, k, ack)
    BY <1>2 DEF Apply, Rollback, Retire
  <2> QED BY <2>1 DEF Command, CountsOK
<1>3. ASSUME NEW p \in Procs, Crash(p) PROVE CountsOK'
  BY <1>3 DEF Crash, CountsOK
<1>4. ASSUME NEW t \in Targets, NEW o \in Objects, Edit(t, o) PROVE CountsOK'
  BY <1>4 DEF Edit, CountsOK
<1>5. UNCHANGED vars => CountsOK'
  BY DEF vars, bounds, CountsOK
<1> QED BY <1>1, <1>2, <1>3, <1>4, <1>5, StepCounts DEF Next

\* What one operator's next step is.
LEMMA NextIs ==
    ASSUME OneOperator, [Next]_vars, NEW p \in Procs
    PROVE  \/ Step(p) \/ Crash(p) \/ UNCHANGED vars
           \/ \E i \in Installs : MakePlan(i) \/ Apply(p, i) \/ Rollback(p, i) \/ Retire(p, i)
           \/ \E t \in Targets, o \in Objects : Edit(t, o)
BY DEF Next, OneOperator

LEMMA NextInv == OneOperator /\ IInv /\ [Next]_vars => IInv'
<1> SUFFICES ASSUME OneOperator, IInv, [Next]_vars PROVE IInv'
  OBVIOUS
<1>1. ASSUME NEW p \in Procs PROVE Good(p)'
  <2>1. Good(p)
    BY DEF IInv, Good
  <2> QED BY <2>1, NextIs, StepGood, CrashGood, StutterGood, MakePlanGood, ApplyGood, RollbackGood, RetireGood, EditGood
<1>2. CountsOK'
  BY NextCounts DEF IInv
<1>3. Procs # {}
  BY DEF OneOperator
<1> QED BY <1>1, <1>2, <1>3 DEF IInv, Good

-----------------------------------------------------------------------------
(* What follows from it. *)

LEMMA TypeHolds == IInv => TypeOK
<1> SUFFICES ASSUME IInv PROVE TypeOK
  OBVIOUS
<1>1. StoreOK /\ ControlOK /\ CountsOK
  BY DEF IInv
<1>2. ASSUME NEW p \in Procs, pc[p] # "idle"
      PROVE  /\ job[p].cmd \in {"apply", "rollback", "retire"} /\ job[p].inst \in Installs
             /\ job[p].k \in 0 .. IF job[p].cmd = "rollback" THEN Len(Units[job[p].inst])
                                ELSE Len(Order(job[p].inst))
             /\ job[p].todo \subseteq Planned(job[p].inst)
             /\ pc[p] \in {"rm", "cp"} => job[p].todo # {}
  <2>1. PICK l, j, i : l = pc[p] /\ j = job[p] /\ i = j.inst
    OBVIOUS
  <2>2. Holding(l, j) /\ j \in Jobs /\ i \in Installs /\ j.cmd \in {"apply", "rollback", "retire"}
    BY <1>1, <1>2, <2>1 DEF IInv, Own, Holding, Jobs
  <2>3. /\ Len(Order(i)) \in Nat \ {0} /\ Ops(i) = 1 .. Len(Order(i))
        /\ Len(Units[i]) \in Nat /\ DOMAIN Units[i] = 1 .. Len(Units[i])
    BY <2>2, OrderIs, UnitsAre
  <2>4. CASE Applying(l, j)
    <3>1. j.cmd = "apply" /\ j.k \in {0} \cup Ops(i) /\ (l \in {"rm", "cp"} => j.k \in Ops(i) /\ j.todo = {Op(i, j.k)})
      <4>1. CASE l \in {"preflight", "commit", "remove", "place"}
        BY <2>1, <2>4, <4>1 DEF Applying, Preparing, Committing
      <4>2. CASE l = "groups"
        BY <2>1, <2>2, <2>4, <4>2 DEF Applying, Preparing
      <4>3. CASE l \in {"record", "read", "write"}
        BY <2>1, <2>3, <2>4, <4>3 DEF Applying, Registering
      <4>4. CASE l \in {"undo", "rm", "cp", "discard"}
        BY <2>1, <2>4, <4>4 DEF Applying, Undoing
      <4> QED BY <2>4, <4>1, <4>2, <4>3, <4>4 DEF Applying
    <3>2. j.todo \subseteq Planned(i)
      BY <2>2, <3>1, OrderIs DEF Holding
    <3> QED BY <2>1, <2>2, <2>3, <3>1, <3>2 DEF Holding
  <2>5. CASE Rolling(l, j)
    <3>1. j.cmd = "rollback" /\ j.k \in {0} \cup DOMAIN Units[i]
      BY <2>1, <2>5 DEF Rolling
    <3>2. j.todo \subseteq Planned(i)
      BY <2>1, <2>2, <2>5, UnitsAre, ZenonT(30) DEF Holding, Rolling
    <3> QED BY <2>1, <2>2, <2>3, <3>1, <3>2 DEF Holding
  <2>6. CASE Retiring(l, j)
    BY <2>1, <2>2, <2>3, <2>6 DEF Holding, Retiring
  <2> QED BY <2>2, <2>4, <2>5, <2>6 DEF Holding
<1>3. live \in [Targets -> Objects \cup {Torn}]
  BY <1>1 DEF StoreOK, Paths
<1>4. registry \in [Installs -> Statuses \cup {None}]
  BY <1>1 DEF StoreOK, Registries
<1> QED BY <1>1, <1>2, <1>3, <1>4 DEF TypeOK, StoreOK, ControlOK, CountsOK

LEMMA RollbackHolds == IInv => RollbackTruth
<1> SUFFICES ASSUME IInv, NEW p \in Procs, Running(p, "rollback"), pc[p] \in {"read", "write"}
             PROVE  LET i == Inst(p) IN
                    /\ job[p].status = "rolled_back" => \A t \in Planned(i) : IsRestored(i, t)
                    /\ \A u \in ToSet(Units[i]) : \/ \A t \in ToSet(u) : IsRestored(i, t)
                                                  \/ \A t \in ToSet(u) : live[t] = job[p].was[t]
  BY DEF RollbackTruth
<1>1. PICK l, j, i : l = pc[p] /\ j = job[p] /\ i = j.inst
  OBVIOUS
<1>2. Holding(l, j) /\ l \in {"read", "write"} /\ j.cmd = "rollback" /\ i \in Installs
  BY <1>1 DEF IInv, Own, Running, Holding, Jobs
<1>3. Rolling(l, j)
  BY <1>2 DEF Holding, Applying, Retiring
<1>4. j.k = 0 /\ j.status = (IF j.drifted THEN "drifted" ELSE "rolled_back")
  BY <1>2, <1>3 DEF Rolling
<1>5. \A m \in DOMAIN Units[i] : AllRestored(j, m) \/ (j.drifted /\ AllLeft(j, m))
  <2>1. \A m \in DOMAIN Units[i] : m > j.k
    BY <1>2, <1>4, UnitsAre
  <2> QED BY <1>1, <1>3, <2>1 DEF Rolling
<1>6. j.status = "rolled_back" => \A t \in Planned(i) : IsRestored(i, t)
  BY <1>1, <1>2, <1>4, <1>5, UnitsAre DEF AllRestored
<1>7. \A u \in ToSet(Units[i]) : \/ \A t \in ToSet(u) : IsRestored(i, t)
                                 \/ \A t \in ToSet(u) : live[t] = j.was[t]
  BY <1>1, <1>5 DEF AllRestored, AllLeft, ToSet
<1> QED BY <1>1, <1>6, <1>7 DEF Inst

LEMMA ChainHolds == IInv => ChainUnbroken
<1> SUFFICES ASSUME IInv, NEW p \in Procs, Running(p, "apply"), pc[p] = "record", ~job[p].ack,
                    NEW t \in Planned(Inst(p)), NEW w \in Writers(t, Inst(p)),
                    \A h \in Writers(t, Inst(p)) : receipt[h].time <= receipt[w].time
             PROVE  job[p].was[t] = Output[w][t]
  BY DEF ChainUnbroken
<1>1. PICK j, i : j = job[p] /\ i = j.inst
  OBVIOUS
<1>2. Holding("record", j) /\ i \in Installs /\ Inst(p) = i
  BY <1>1 DEF IInv, Own, Holding, Jobs, Inst
<1>3. Registering("record", j)
  BY <1>2 DEF Holding, Applying, Rolling, Retiring
<1>4. Linked(j) /\ \A m \in Ops(i) : Seen(j, m)
  BY <1>1, <1>3 DEF Registering
<1>5. plan[i][t] = j.was[t]
  BY <1>1, <1>2, <1>4, OrderIs DEF Seen
<1>6. ~Gap(t, i, plan[i][t])
  BY <1>1, <1>2, <1>4 DEF Linked
<1>7. Output[w][t] = plan[i][t]
  BY <1>2, <1>6 DEF Gap
<1> QED BY <1>1, <1>5, <1>7

\* A step of an apply that ends without a death: everything is made, put back, or
\* reported lost.
LEMMA EndIs ==
    ASSUME OneOperator, IInv, [Next]_vars, NEW p \in Procs, Running(p, "apply"), pc'[p] = "idle", crashes' = crashes
    PROVE  WriteRegistry(p) \/ Discard(p)
<1>1. pc[p] # "idle" /\ job[p].cmd = "apply" /\ pc \in [Procs -> PCs] /\ crashes \in Nat
  BY DEF Running, IInv, ControlOK, CountsOK
<1>2. \A l : Goto(p, l) => l = "idle"
  BY <1>1 DEF Goto
<1>3. ~Crash(p) /\ ~UNCHANGED vars
  BY <1>1 DEF Crash, vars
<1>4. \A i \in Installs : ~MakePlan(i) /\ ~Apply(p, i) /\ ~Rollback(p, i) /\ ~Retire(p, i)
  BY <1>1 DEF MakePlan, Apply, Rollback, Retire, Command
<1>5. \A t \in Targets, o \in Objects : ~Edit(t, o)
  BY <1>1 DEF Edit
<1>6. Step(p)
  BY <1>3, <1>4, <1>5, NextIs
<1>7. PICK j, i : j = job[p] /\ i = j.inst
  OBVIOUS
<1>8. Applying(pc[p], j)
  BY <1>1, <1>7 DEF IInv, Own, Holding, Rolling, Retiring
<1>9. pc[p] # "unit" /\ (pc[p] \in {"rm", "cp"} => j.why # "roll")
  BY <1>8 DEF Applying, Undoing
<1>10. ~Committed(p) /\ ~Repair(p)
  BY <1>2 DEF Committed, Repair
<1>11. ~Preflight(p) /\ ~Groups(p) /\ ~Commit(p) /\ ~Place(p) /\ ~Record(p) /\ ~ReadRegistry(p) /\ ~Undo(p)
  BY <1>2, <1>10 DEF Preflight, Groups, Commit, Place, Record, ReadRegistry, Undo
<1>12. ~RemoveOld(p)
  <2>1. ~UNCHANGED <<pc, job>>
    BY <1>1
  <2> QED BY <1>2, <1>10, <2>1 DEF RemoveOld
<1>13. ~RestoreRemove(p) /\ ~RestoreCopy(p) /\ ~RestoreFails(p)
  <2>1. \A t : ~Restored(p, t)
    BY <1>2 DEF Restored
  <2>2. ~UNCHANGED <<pc, job>>
    BY <1>1
  <2> QED BY <1>2, <1>7, <1>9, <2>1, <2>2 DEF RestoreRemove, RestoreCopy, RestoreFails
<1>14. ~RollbackUnit(p) /\ ~Conclude(p)
  BY <1>9 DEF RollbackUnit, Conclude
<1> QED BY <1>6, <1>11, <1>12, <1>13, <1>14 DEF Step

LEMMA EndHolds ==
    ASSUME OneOperator, IInv, [Next]_vars, NEW p \in Procs, Running(p, "apply"), pc'[p] = "idle", crashes' = crashes
    PROVE  LET i == Inst(p) IN
           \/ /\ registry'[i] = "active" /\ receipt'[i] # None
              /\ \A t \in Planned(i) : live'[t] = Output[i][t]
           \/ /\ registry'[i] = None /\ receipt'[i] = None /\ backup'[i] = NoBackup
              /\ \A t \in Planned(i) : live'[t] = job[p].was[t]
           \/ job[p].failed \/ job[p].lost
<1>1. PICK j, i : j = job[p] /\ i = j.inst
  OBVIOUS
<1>2. pc[p] # "idle" /\ j.cmd = "apply" /\ StoreOK
  BY <1>1 DEF Running, IInv
<1>3. Holding(pc[p], j) /\ Applying(pc[p], j) /\ j \in Jobs /\ i \in Installs /\ Inst(p) = i
  BY <1>1, <1>2 DEF IInv, Own, Holding, Rolling, Retiring, Jobs, Inst
<1>4. CASE WriteRegistry(p)
  <2>1. pc[p] = "write" /\ UNCHANGED <<live, receipt>>
    BY <1>4 DEF WriteRegistry
  <2>2. registry' = [j.reg EXCEPT ![i] = j.status]
    <3>1. ~Goto(p, "undo")
      BY DEF Goto, IInv, ControlOK
    <3> QED BY <1>1, <1>2, <1>3, <1>4, <3>1 DEF WriteRegistry
  <2>3. Registering("write", j) /\ j.status = "active"
    BY <1>3, <2>1 DEF Applying
  <2>4. registry'[i] = "active"
    BY <1>1, <1>2, <1>3, <2>2, <2>3 DEF Registering, StoreOK, Registries
  <2>5. receipt[i] # None /\ \A m \in Ops(i) : Made(j, m)
    BY <1>1, <2>3 DEF Registering
  <2>6. \A t \in Planned(i) : live[t] = Output[i][t]
    BY <1>1, <1>3, <2>5, OrderIs DEF Made
  <2> QED BY <1>3, <2>1, <2>4, <2>5, <2>6
<1>5. CASE Discard(p)
  <2>1. pc[p] = "discard" /\ UNCHANGED <<live, registry>>
    BY <1>5 DEF Discard
  <2>2. Undoing("discard", j) /\ registry[i] = None
    BY <1>1, <1>3, <2>1 DEF Applying
  <2>3. CASE j.failed \/ j.lost
    BY <1>1, <2>3
  <2>4. CASE ~j.failed /\ ~j.lost
    <3>1. \A m \in Ops(i) : Left(j, m)
      <4>1. \A m \in Ops(i) : m > j.k
        BY <1>1, <1>3, <2>2, OrderIs DEF Undoing
      <4> QED BY <1>1, <2>2, <2>4, <4>1 DEF Undoing, PutBack
    <3>2. \A t \in Planned(i) : live[t] = j.was[t]
      BY <1>1, <1>3, <3>1, OrderIs DEF Left
    <3>3. backup' = [backup EXCEPT ![i] = NoBackup] /\ receipt' = [receipt EXCEPT ![i] = None]
      BY <1>1, <1>3, <1>5, <2>4 DEF Discard
    <3>4. backup'[i] = NoBackup /\ receipt'[i] = None
      BY <1>2, <1>3, <3>3 DEF StoreOK
    <3> QED BY <1>1, <1>3, <2>1, <2>2, <3>2, <3>4
  <2> QED BY <2>3, <2>4
<1> QED BY <1>4, <1>5, EndIs

\* Only checking a target and forgetting an apply touch the backups.
LEMMA BackupHolds ==
    ASSUME OneOperator, IInv, [Next]_vars, NEW p \in Procs, NEW i \in Installs, NEW t \in Planned(i),
           backup'[i][t] # backup[i][t], Running(p, "apply"), ~job[p].lost
    PROVE  backup[i][t] \in {Absent, live'[t]}
<1>1. PICK j : j = job[p]
  OBVIOUS
<1>2. pc[p] # "idle" /\ j.cmd = "apply" /\ StoreOK
  BY <1>1 DEF Running, IInv
<1>3. Holding(pc[p], j) /\ Applying(pc[p], j) /\ j \in Jobs /\ j.inst \in Installs /\ Inst(p) = j.inst
  BY <1>1, <1>2 DEF IInv, Own, Holding, Rolling, Retiring, Jobs, Inst
<1>4. Preflight(p) \/ Discard(p)
  <2>1. backup' # backup
    OBVIOUS
  <2>2. ~Crash(p) /\ ~UNCHANGED vars
    BY <2>1 DEF Crash, vars, state
  <2>3. \A n \in Installs : ~MakePlan(n) /\ ~Apply(p, n) /\ ~Rollback(p, n) /\ ~Retire(p, n)
    BY <1>2 DEF MakePlan, Apply, Rollback, Retire, Command
  <2>4. \A n \in Targets, o \in Objects : ~Edit(n, o)
    BY <2>1 DEF Edit
  <2>5. Step(p)
    BY <2>2, <2>3, <2>4, NextIs
  <2>6. ~Groups(p) /\ ~Commit(p) /\ ~RemoveOld(p) /\ ~Place(p) /\ ~Record(p) /\ ~ReadRegistry(p)
        /\ ~WriteRegistry(p) /\ ~Undo(p)
    BY <2>1 DEF Groups, Commit, RemoveOld, Place, Record, ReadRegistry, WriteRegistry, Undo, state
  <2>7. ~RestoreRemove(p) /\ ~RestoreCopy(p) /\ ~RestoreFails(p) /\ ~RollbackUnit(p) /\ ~Conclude(p)
    BY <2>1 DEF RestoreRemove, RestoreCopy, RestoreFails, RollbackUnit, Conclude, state
  <2> QED BY <2>5, <2>6, <2>7 DEF Step
<1>5. CASE Preflight(p)
  <2>1. pc[p] = "preflight"
    BY <1>5 DEF Preflight
  <2>2. backup' = [backup EXCEPT ![j.inst][At(p)] = live[At(p)]]
    BY <1>3, <1>5 DEF Preflight
  <2>3. Preparing("preflight", j)
    BY <1>3, <2>1 DEF Applying
  <2>4. At(p) = Op(j.inst, j.k)
    BY <1>1, <1>3 DEF At, Op
  <2>5. i = j.inst /\ t = At(p)
    BY <1>2, <2>2 DEF StoreOK
  <2>6. j.k \in Ops(j.inst) /\ ~(j.k < j.k)
    BY <1>3, <2>3, OrderIs DEF Preparing
  <2> QED BY <2>3, <2>4, <2>5, <2>6 DEF Preparing
<1>6. CASE Discard(p)
  <2>1. pc[p] = "discard" /\ live' = live
    BY <1>6 DEF Discard
  <2>2. ~j.failed /\ backup' = [backup EXCEPT ![j.inst] = NoBackup]
    BY <1>1, <1>3, <1>6 DEF Discard
  <2>3. i = j.inst
    BY <1>2, <2>2 DEF StoreOK
  <2>4. Undoing("discard", j)
    BY <1>3, <2>1 DEF Applying
  <2>5. PICK m \in Ops(i) : t = Op(i, m)
    BY OrderIs
  <2>6. j.k = 0 /\ m > j.k
    BY <2>4, <2>5, OrderIs DEF Undoing
  <2>7. Left(j, m) /\ (backup[i][t] = Absent \/ Kept(j, m))
    BY <1>1, <2>2, <2>3, <2>4, <2>5, <2>6 DEF Undoing, PutBack
  <2> QED BY <2>1, <2>3, <2>5, <2>7 DEF Left, Kept
<1> QED BY <1>4, <1>5, <1>6

-----------------------------------------------------------------------------
(* The theorems, of one operator. *)

\* Where an apply or a rollback stands, what is done, what is left and what is
\* backed up agree (apply.py:108-155, 411-427; rollback.py:136-167).
THEOREM Invariance == OneOperator /\ Spec => []IInv
<1> SUFFICES ASSUME OneOperator PROVE Spec => []IInv
  OBVIOUS
<1>1. IInv /\ [Next]_vars => IInv'
  BY NextInv
<1> QED BY <1>1, InitInv, PTL DEF Spec

\* The record tells the truth of the targets: what a rollback reports restored is
\* restored, a relocated pair went back together or not at all, and an apply builds
\* on what the latest active installation left (rollback.py:136-167; chain.py:39-92).
THEOREM RecordIsTrue == OneOperator /\ Spec => []RecordTrue
<1>1. IInv => RecordTrue
  BY TypeHolds, RollbackHolds, ChainHolds DEF RecordTrue
<1> QED BY <1>1, Invariance, PTL

\* An apply that ends has installed and registered everything, has put back
\* everything without a trace, or knows that it could not (apply.py:108-155).
THEOREM NothingByHalves == OneOperator /\ Spec => AllOrNothing
<1> SUFFICES ASSUME OneOperator PROVE Spec => AllOrNothing
  OBVIOUS
<1>1. IInv /\ [Next]_vars =>
        [\A p \in Procs : Running(p, "apply") /\ pc'[p] = "idle" /\ crashes' = crashes =>
            LET i == Inst(p) IN
            \/ /\ registry'[i] = "active" /\ receipt'[i] # None
               /\ \A t \in Planned(i) : live'[t] = Output[i][t]
            \/ /\ registry'[i] = None /\ receipt'[i] = None /\ backup'[i] = NoBackup
               /\ \A t \in Planned(i) : live'[t] = job[p].was[t]
            \/ job[p].failed \/ job[p].lost]_vars
  BY EndHolds
<1> QED BY <1>1, Invariance, PTL DEF Spec, AllOrNothing

\* What an apply saved is given up only when it is back in its place
\* (apply.py:146-155).
THEOREM BackupsOutlive == OneOperator /\ Spec => BackupOutlivesUndo
<1> SUFFICES ASSUME OneOperator PROVE Spec => BackupOutlivesUndo
  OBVIOUS
<1>1. IInv /\ [Next]_vars =>
        [\A p \in Procs, i \in Installs : \A t \in Planned(i) :
            backup'[i][t] # backup[i][t] /\ Running(p, "apply") /\ ~job[p].lost =>
                backup[i][t] \in {Absent, live'[t]}]_vars
  BY BackupHolds
<1> QED BY <1>1, Invariance, PTL DEF Spec, BackupOutlivesUndo
=============================================================================

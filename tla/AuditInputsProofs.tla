------------------------- MODULE AuditInputsProofs -------------------------
(***************************************************************************)
(* What the inputs of an audit promise, proved for every set of processes, *)
(* sources, contents, runtimes and configurations and every bound.         *)
(*                                                                         *)
(* None of these commands takes a lock, so the argument is about files: a  *)
(* file created exclusively has one process that may fill it or take it    *)
(* away, and nothing that is safely on disk is ever changed.               *)
(***************************************************************************)
EXTENDS AuditInputs, TLAPS, NaturalsInduction, WellFoundedInduction

USE DEF objectVars, observationVars, baselineVars

RefreshJobs ==
    [cmd : {"refresh"}, pc : {"read", "fetch", "fill", "filled", "observe", "record", "status"},
     at : 1..MaxCalls, todo : SUBSET Sources, previous : Success \cup {None},
     result : Result \cup {None}, cites : SUBSET Success]
AdoptJobs == [cmd : {"adopt"}, pc : {"create", "fill", "filled", "point"}, baseline : Baseline]
ModelsJobs ==
    [cmd : {"models"}, pc : {"fetch"}, at : 1..MaxCalls, obs : [Runtimes -> Observation],
     prior : Registry]
StampJobs == [cmd : {"audit"}, pc : {"stamp"}, registry : Registry]
PolicyJobs ==
    [cmd : {"audit"}, pc : {"policy"}, registry : Registry, baseline : Baseline \cup {None},
     stamp : {"unconfigured", "adopted", "stale"}]

JobTypes ==
    job \in [Procs -> {Idle} \cup RefreshJobs \cup AdoptJobs \cup ModelsJobs
                        \cup StampJobs \cup PolicyJobs]

Types ==
    /\ TypeOK /\ JobTypes
    /\ DOMAIN observed = Sources /\ DOMAIN partial = Sources /\ DOMAIN status = Sources
    /\ DOMAIN local = Runtimes

-----------------------------------------------------------------------------
(* Guidance                                                                 *)

\* Contents that were taken for on file, and the observations that cite them.
Sure(h) == object[h] = "whole" \/ h \in early
Backed(c) == (\E o \in observed[c.src] : o \in Fresh /\ Reference(o) = c) /\ Sure(c.hash)
Onfile(cites) == \A c \in cites : Backed(c)

\* Baselines that were taken for on file, and those that can be read.
Adopted == baselines \cup trusted
Shown == baselines \cup filled

\* A file that is begun is as its writer left it.
Begun(p) ==
    /\ At(p, "refresh", "fill") => object[job[p].result.hash] = "partial"
    /\ At(p, "refresh", "filled") => object[job[p].result.hash] = "filled"
    /\ At(p, "adopt", "fill") => VersionOf(job[p].baseline) \in unfilled
    /\ At(p, "adopt", "filled") => job[p].baseline \in filled

\* What a refresh holds of its source: the result it fetched, whose object is
\* its own until it is safely on disk, or the last success it carries on; and
\* in the end the observation it made.
Held(p) ==
    LET j == job[p]
        r == j.result
    IN
    j.cmd = "refresh" =>
        /\ j.at <= calls /\ j.todo # {}
        /\ Onfile(j.cites)
        /\ j.pc = "fetch" => Onfile({j.previous} \ {None})
        /\ j.pc \in {"fill", "filled", "observe", "record", "status"} =>
              /\ r # None /\ r.src = NextSource(p) /\ r.at = j.at
              /\ r \in Fresh /\ j.pc \notin {"fill", "filled"} => Sure(r.hash)
              /\ r \notin Fresh => j.pc \notin {"fill", "filled"} /\ Onfile({r.last} \ {None})
        /\ j.pc = "status" => r \in observed[r.src]

\* A baseline about to be current was taken for on file.
Distilled(p) ==
    LET b == job[p].baseline
    IN
    job[p].cmd = "adopt" =>
        /\ Onfile(b.cites)
        /\ job[p].pc = "point" => b \in Adopted

\* A file that is begun has one process to fill it.
Filling(p, cmd) == At(p, cmd, "fill") \/ At(p, cmd, "filled")

OneFiller ==
    \A p, q \in Procs : p # q =>
        /\ Filling(p, "refresh") /\ Filling(q, "refresh") =>
              job[p].result.hash # job[q].result.hash
        /\ Filling(p, "adopt") /\ Filling(q, "adopt") =>
              VersionOf(job[p].baseline) # VersionOf(job[q].baseline)

Filed ==
    /\ \A order \in orders : Onfile(order)
    /\ \A b \in Shown : Onfile(b.cites) /\ VersionOf(b) \notin unfilled
    /\ \A b, c \in Shown : VersionOf(b) = VersionOf(c) => b = c
    /\ current # None => current \in Adopted
    /\ \A s \in Sources :
          /\ status[s] # None => Onfile(Cited(status[s]))
          /\ \A o \in observed[s] : o.at <= calls

\* The source a refresh has observed anew and whose status it has not saved.
Ahead(p, s) ==
    At(p, "refresh", "status") /\ job[p].result \in Fresh /\ job[p].result.src = s

Abreast(s) == LastSuccess(s) = NewestSuccess(s)

\* A refresh alone on its way makes the newest observation of each source
\* still to be visited, and knows the last success it carries on.
Alone(p) ==
    LET j == job[p]
    IN
    j.cmd = "refresh" =>
        /\ \A s \in j.todo : \A o \in observed[s] :
              o.at < j.at \/ (j.pc = "status" /\ o = j.result)
        /\ j.pc = "fetch" => j.previous = LastSuccess(NextSource(p))
        /\ j.pc \in {"observe", "record", "status"} /\ j.result \notin Fresh =>
              j.result.last = LastSuccess(NextSource(p))

InOrder ==
    stops = 0 /\ ~overlapped =>
        /\ \A s \in Sources : (\A p \in Procs : ~Ahead(p, s)) => Abreast(s)
        /\ \A p, q \in Procs : Refreshing(p) /\ Refreshing(q) => p = q
        /\ \A p \in Procs : Alone(p)

-----------------------------------------------------------------------------
(* The registry and the audits                                              *)

\* What an audit holds is Bound, and the baseline it will claim was on file.
Auditing(p) ==
    job[p].cmd = "audit" =>
        /\ Bound(job[p].registry)
        /\ job[p].pc = "policy" =>
              /\ job[p].baseline # None => job[p].baseline \in Adopted
              /\ job[p].stamp = "unconfigured" <=> job[p].baseline = None

Audited ==
    \A a \in audits : Bound(a.registry) /\ (a.baseline # None => a.baseline \in Adopted)

\* A refresh of the models alone on its way has the registry that is saved.
Saved ==
    /\ Bound(Loaded)
    /\ pointer # None => pointer.models # None
    /\ ~raced =>
          /\ \A rt \in Runtimes : LastKnown(EntryOf(Loaded, rt)) = resolved[rt]
          /\ Loaded.known = complete
          /\ \A p, q \in Procs : RefreshingModels(p) /\ RefreshingModels(q) => p = q
          /\ \A p \in Procs : RefreshingModels(p) => job[p].prior = Loaded

\* The inductive invariant.
IInv ==
    /\ Types /\ OneFiller /\ Filed /\ InOrder /\ Audited /\ Saved
    /\ \A p \in Procs : Begun(p) /\ Held(p) /\ Distilled(p) /\ Auditing(p)
-----------------------------------------------------------------------------
(* The operators. *)

LEMMA LeastMember ==
    ASSUME NEW S, S \subseteq Nat, S # {}
    PROVE  Least(S) \in S /\ \A t \in S : Least(S) <= t
<1> DEFINE Less == {ss \in Nat \X Nat : ss[1] < ss[2]}
<1>1. IsWellFoundedOn(Less, Nat)  BY NatLessThanWellFounded DEF OpToRel
<1>2. PICK m \in S : \A y \in S : ~ (<<y, m>> \in Less)
  <2> HIDE DEF Less
  <2> QED  BY <1>1, WFMin
<1>3. \A y \in S : m <= y
  <2> TAKE y \in S
  <2>1. y \in Nat /\ m \in Nat /\ ~ (y < m)  BY <1>2
  <2> QED  BY <2>1
<1> QED  BY <1>2, <1>3 DEF Least

LEMMA NewestIs ==
    ASSUME NEW F, NEW f \in F, \A g \in F : g.at \in Nat,
           \A g \in F : g # f => g.at < f.at
    PROVE  Newest(F) = f
<1>1. \A g \in F : g.at <= f.at  OBVIOUS
<1>2. \A h \in F : (\A g \in F : g.at <= h.at) => h = f  OBVIOUS
<1>3. (CHOOSE h \in F : \A g \in F : g.at <= h.at) = f  BY <1>1, <1>2
<1> QED  BY <1>3 DEF Newest

\* A reference to what was fetched.
LEMMA Referred ==
    ASSUME NEW r \in Fresh
    PROVE  /\ Reference(r) \in Success /\ Reference(r).src = r.src
           /\ Reference(r).at = r.at /\ Reference(r).hash = r.hash
           /\ r.hash \in Contents /\ r.hash # None
  BY NoneIsNoResult DEF Fresh, Success, Reference

LEMMA OfResult ==
    ASSUME NEW r \in Result
    PROVE  /\ r.src \in Sources /\ r.at \in 1..MaxCalls /\ r # None
           /\ r \notin Fresh => r.hash = None /\ r.last \in Success \cup {None}
           /\ r \in Fresh <=> r.hash \in Contents
           /\ Cited(r) \subseteq Success
<1>1. CASE r \in Fresh
  BY <1>1, Referred, NoneIsNoResult DEF Fresh, Result, Cited
<1>2. CASE r \in Failed
  BY <1>2, NoneIsNoResult, Referred DEF Fresh, Failed, Result, Cited
<1> QED  BY <1>1, <1>2 DEF Result

LEMMA LastSuccessIs ==
    ASSUME NEW s \in Sources
    PROVE  /\ status[s] = None => LastSuccess(s) = None
           /\ status[s] # None /\ status[s] \in Fresh => LastSuccess(s) = Reference(status[s])
           /\ status[s] # None /\ status[s] \notin Fresh => LastSuccess(s) = status[s].last
  BY DEF LastSuccess

LEMMA LastSuccessKept ==
    ASSUME NEW s \in Sources, status'[s] = status[s]
    PROVE  LastSuccess(s)' = LastSuccess(s)
  BY DEF LastSuccess

LEMMA NewestKept ==
    ASSUME NEW s \in Sources, observed'[s] \cap Fresh = observed[s] \cap Fresh
    PROVE  NewestSuccess(s)' = NewestSuccess(s)
  BY DEF NewestSuccess
-----------------------------------------------------------------------------
(* What a step of one process leaves to the others. *)

\* What was taken for on file stays so, observations are only added, and what
\* another process has begun is left to it.
Grows ==
    /\ \A s \in Sources : observed[s] \subseteq observed'[s]
    /\ \A c \in Contents : Sure(c) => Sure(c)'
    /\ Adopted \subseteq Adopted' /\ calls <= calls'

Leaves(p) == \A q \in Procs : q # p => job'[q] = job[q] /\ Begun(q)'

LEMMA SuccessFields ==
    ASSUME NEW c \in Success
    PROVE  c.src \in Sources /\ c.at \in 1..MaxCalls /\ c.hash \in Contents
  BY DEF Success

LEMMA OnfileKept ==
    ASSUME Grows
    PROVE  \A cites \in SUBSET Success : Onfile(cites) => Onfile(cites)'
<1> TAKE cites \in SUBSET Success
<1> HAVE Onfile(cites)
<1>1. \A c \in cites : Backed(c)'
  <2> TAKE c \in cites
  <2>1. c.src \in Sources /\ c.hash \in Contents  BY SuccessFields
  <2>2. Backed(c)  BY DEF Onfile
  <2>3. PICK o \in observed[c.src] : o \in Fresh /\ Reference(o) = c
    BY <2>2 DEF Backed
  <2>4. o \in observed'[c.src]  BY <2>1, <2>3 DEF Grows
  <2>5. Sure(c.hash)'  BY <2>1, <2>2 DEF Grows, Backed
  <2> QED  BY <2>3, <2>4, <2>5 DEF Backed
<1> QED  BY <1>1 DEF Onfile

LEMMA JobIs ==
    ASSUME JobTypes, NEW p \in Procs
    PROVE  /\ job[p].cmd = "refresh" => job[p] \in RefreshJobs
           /\ job[p].cmd = "adopt" => job[p] \in AdoptJobs
           /\ job[p].cmd = "models" => job[p] \in ModelsJobs
           /\ job[p].cmd = "audit" => job[p] \in StampJobs \cup PolicyJobs
           /\ job[p].cmd = "audit" /\ job[p].pc = "stamp" => job[p] \in StampJobs
           /\ job[p].cmd = "audit" /\ job[p].pc = "policy" => job[p] \in PolicyJobs
           /\ job[p] = Idle <=> job[p].cmd = None
           /\ job[p].cmd \in {None, "refresh", "adopt", "models", "audit"}
<1> USE NoneIsNoCommand
<1>1. job[p] \in {Idle} \cup RefreshJobs \cup AdoptJobs \cup ModelsJobs
                   \cup StampJobs \cup PolicyJobs
  BY DEF JobTypes
<1>2. CASE job[p] = Idle  BY <1>2 DEF Idle
<1>3. CASE job[p] \in RefreshJobs  BY <1>3 DEF RefreshJobs, Idle
<1>4. CASE job[p] \in AdoptJobs  BY <1>4 DEF AdoptJobs, Idle
<1>5. CASE job[p] \in ModelsJobs  BY <1>5 DEF ModelsJobs, Idle
<1>6. CASE job[p] \in StampJobs  BY <1>6 DEF StampJobs, Idle
<1>7. CASE job[p] \in PolicyJobs  BY <1>7 DEF PolicyJobs, Idle
<1> QED  BY <1>1, <1>2, <1>3, <1>4, <1>5, <1>6, <1>7

LEMMA HeldKept ==
    ASSUME IInv, Grows, calls' \in Nat, NEW p \in Procs, Leaves(p), NEW q \in Procs, q # p
    PROVE  Held(q)'
<1>1. CASE job[q].cmd # "refresh"  BY <1>1 DEF Held, Leaves
<1>2. CASE job[q].cmd = "refresh"
  <2> DEFINE j == job[q]
             r == j.result
  <2>1. j \in RefreshJobs /\ job'[q] = j /\ JobTypes  BY <1>2, JobIs DEF Leaves, IInv, Types
  <2>2. Held(q)  BY DEF IInv
  <2>3. PICK k : k = job[q]  OBVIOUS
  <2>4. k \in RefreshJobs /\ k.cites \subseteq Success
        /\ {k.previous} \ {None} \subseteq Success
        /\ k.at \in Nat
    BY <2>1, <2>3, JobBounds DEF RefreshJobs
  <2>5. k.at <= calls'
    <3>1. k.at <= calls /\ calls \in Nat  BY <1>2, <2>2, <2>3, JobBounds DEF Held, IInv, Types, TypeOK
    <3> QED  BY <2>4, <3>1 DEF Grows
  <2>6. Onfile(k.cites)'
    <3>1. Onfile(k.cites)  BY <1>2, <2>2, <2>3 DEF Held
    <3> QED  BY <2>4, <3>1, OnfileKept
  <2>7. ASSUME k.pc = "fetch" PROVE Onfile({k.previous} \ {None})'
    <3>1. Onfile({k.previous} \ {None})  BY <1>2, <2>2, <2>3, <2>7 DEF Held
    <3> QED  BY <2>4, <3>1, OnfileKept
  <2>8. ASSUME k.pc \in {"fill", "filled", "observe", "record", "status"}
        PROVE  /\ k.result \in Fresh /\ k.pc \notin {"fill", "filled"} => Sure(k.result.hash)'
               /\ k.result \notin Fresh => Onfile({k.result.last} \ {None})'
               /\ k.pc = "status" => k.result \in observed'[k.result.src]
    <3>1. /\ k.result \in Result
          /\ k.result \in Fresh /\ k.pc \notin {"fill", "filled"} => Sure(k.result.hash)
          /\ k.result \notin Fresh => Onfile({k.result.last} \ {None})
          /\ k.pc = "status" => k.result \in observed[k.result.src]
      BY <1>2, <2>2, <2>3, <2>4, <2>8 DEF Held, RefreshJobs
    <3>2. k.result.src \in Sources  BY <3>1, OfResult
    <3>3. k.result \notin Fresh => {k.result.last} \ {None} \subseteq Success
      BY <3>1, OfResult
    <3>4. k.result \in Fresh => k.result.hash \in Contents  BY Referred
    <3> QED  BY <3>1, <3>2, <3>3, <3>4, OnfileKept DEF Grows
  <2>9. NextSource(q)' = NextSource(q)  BY <2>1 DEF NextSource
  <2> QED
    BY <1>2, <2>1, <2>2, <2>3, <2>5, <2>6, <2>7, <2>8, <2>9 DEF Held
<1> QED  BY <1>1, <1>2

LEMMA DistilledKept ==
    ASSUME IInv, Grows, NEW p \in Procs, Leaves(p), NEW q \in Procs, q # p
    PROVE  Distilled(q)'
<1>1. CASE job[q].cmd # "adopt"  BY <1>1 DEF Distilled, Leaves
<1>2. CASE job[q].cmd = "adopt"
  <2>1. job[q] \in AdoptJobs /\ job'[q] = job[q]  BY <1>2, JobIs DEF Leaves, IInv, Types
  <2>2. Distilled(q)  BY DEF IInv
  <2>3. PICK b : b = job[q].baseline  OBVIOUS
  <2>4. b.cites \subseteq Success  BY <2>1, <2>3 DEF AdoptJobs, Baseline
  <2>5. Onfile(b.cites)  BY <1>2, <2>2, <2>3 DEF Distilled
  <2>6. Onfile(b.cites)'  BY <2>4, <2>5, OnfileKept
  <2>7. job[q].pc = "point" => b \in Adopted'  BY <1>2, <2>2, <2>3 DEF Distilled, Grows
  <2> QED  BY <2>1, <2>3, <2>6, <2>7 DEF Distilled
<1> QED  BY <1>1, <1>2

LEMMA AuditingKept ==
    ASSUME IInv, Adopted \subseteq Adopted', NEW q \in Procs, job'[q] = job[q]
    PROVE  Auditing(q)'
<1>1. Auditing(q)  BY DEF IInv
<1> QED  BY <1>1 DEF Auditing, Bound

LEMMA OthersKept ==
    ASSUME IInv, Grows, calls' \in Nat, NEW p \in Procs, Leaves(p)
    PROVE  \A q \in Procs : q # p => Begun(q)' /\ Held(q)' /\ Distilled(q)' /\ Auditing(q)'
  BY HeldKept, DistilledKept, AuditingKept DEF Leaves, Grows
\* A step that begins no file leaves every file to its own filler.
LEMMA FillersKept ==
    ASSUME IInv, NEW p \in Procs, \A q \in Procs : q # p => job'[q] = job[q],
           Filling(p, "refresh")' => Filling(p, "refresh") /\ job'[p].result = job[p].result,
           Filling(p, "adopt")' => Filling(p, "adopt") /\ job'[p].baseline = job[p].baseline
    PROVE  OneFiller'
<1>1. \A q, r \in Procs : q # r =>
         /\ Filling(q, "refresh")' => Filling(q, "refresh") /\ job'[q].result = job[q].result
         /\ Filling(q, "adopt")' => Filling(q, "adopt") /\ job'[q].baseline = job[q].baseline
  BY DEF Filling, At
<1>2. \A b : VersionOf(b)' = VersionOf(b)  BY DEF VersionOf
<1> QED  BY <1>1, <1>2 DEF IInv, OneFiller, VersionOf

LEMMA BegunKept ==
    ASSUME NEW q \in Procs, Begun(q), job'[q] = job[q], UNCHANGED <<object, unfilled, filled>>
    PROVE  Begun(q)'
  BY DEF Begun, At, VersionOf

\* What the orders and the baselines cite, and the statuses, stay on file.
LEMMA CitesKept ==
    ASSUME IInv, Grows
    PROVE  /\ \A order \in orders : Onfile(order)'
           /\ \A b \in Shown : Onfile(b.cites)'
           /\ \A s \in Sources : status'[s] = status[s] /\ status[s] # None =>
                  Onfile(Cited(status[s]))'
<1>1. /\ orders \subseteq SUBSET Success /\ Shown \subseteq Baseline
      /\ \A s \in Sources : status[s] \in Result \cup {None}
  BY DEF IInv, Types, TypeOK, GuidanceTypeOK, Shown
<1>2. Filed  BY DEF IInv
<1>3. \A order \in orders : Onfile(order)'
  BY <1>1, <1>2, OnfileKept DEF Filed
<1>4. ASSUME NEW b \in Shown PROVE Onfile(b.cites)'
  <2>1. b.cites \in SUBSET Success /\ Onfile(b.cites)
    BY <1>1, <1>2 DEF Filed, Baseline
  <2> QED  BY <2>1, OnfileKept
<1>5. ASSUME NEW s \in Sources, status'[s] = status[s], status[s] # None
      PROVE  Onfile(Cited(status[s]))'
  <2>1. PICK cites : cites = Cited(status[s])  OBVIOUS
  <2>2. cites \in SUBSET Success  BY <1>1, <1>5, <2>1, OfResult
  <2>3. Onfile(cites)  BY <1>2, <1>5, <2>1 DEF Filed
  <2>4. Onfile(cites)'  BY <2>2, <2>3, OnfileKept
  <2>5. Cited(status[s])' = cites  BY <1>5, <2>1 DEF Cited
  <2> QED  BY <2>4, <2>5 DEF Onfile
<1> QED  BY <1>3, <1>4, <1>5

LEMMA TimesKept ==
    ASSUME IInv, Grows, calls' \in Nat,
           \A s \in Sources : \A o \in observed'[s] : o \in observed[s] \/ o.at <= calls'
    PROVE  \A s \in Sources : \A o \in observed'[s] : o.at <= calls'
<1> TAKE s \in Sources
<1> TAKE o \in observed'[s]
<1>1. CASE o \in observed[s]
  <2>1. o.at <= calls /\ o \in Result /\ calls \in Nat
    BY <1>1, JobBounds DEF IInv, Filed, Types, TypeOK, GuidanceTypeOK
  <2>2. o.at \in Nat  BY <2>1, OfResult, JobBounds
  <2> QED  BY <2>1, <2>2 DEF Grows
<1> QED  BY <1>1

LEMMA FiledKept ==
    ASSUME IInv, Grows, calls' \in Nat,
           UNCHANGED <<orders, current, status>>,
           Shown' \subseteq Shown, unfilled' \subseteq unfilled,
           \A s \in Sources : \A o \in observed'[s] : o \in observed[s] \/ o.at <= calls'
    PROVE  Filed'
<1>1. Filed  BY DEF IInv
<1>2. \A b : VersionOf(b)' = VersionOf(b)  BY DEF VersionOf
<1> QED  BY <1>1, <1>2, CitesKept, TimesKept DEF Filed, Grows

\* Nothing but refreshes has a part in their order.
LEMMA OrderKept ==
    ASSUME IInv, NEW p \in Procs, UNCHANGED <<observed, status, overlapped>>,
           stops' = 0 => stops = 0,
           \A q \in Procs : q # p => job'[q] = job[q],
           ~Refreshing(p)',
           stops' = 0 /\ ~overlapped => \A s \in Sources : ~Ahead(p, s)
    PROVE  InOrder'
<1> SUFFICES ASSUME stops' = 0 /\ ~overlapped'
             PROVE  /\ \A s \in Sources : (\A q \in Procs : ~Ahead(q, s)') => Abreast(s)'
                    /\ \A q, r \in Procs : Refreshing(q)' /\ Refreshing(r)' => q = r
                    /\ \A q \in Procs : Alone(q)'
  BY DEF InOrder
<1>1. InOrder /\ stops = 0 /\ ~overlapped  BY DEF IInv
<1>2. ASSUME NEW s \in Sources, \A q \in Procs : ~Ahead(q, s)'  PROVE Abreast(s)'
  <2>1. \A q \in Procs : ~Ahead(q, s)  BY <1>1, <1>2 DEF Ahead, At
  <2>2. Abreast(s)  BY <1>1, <2>1 DEF InOrder
  <2> QED  BY <2>2, LastSuccessKept, NewestKept DEF Abreast
<1>3. \A q, r \in Procs : Refreshing(q)' /\ Refreshing(r)' => q = r
  BY <1>1 DEF InOrder, Refreshing
<1>4. ASSUME NEW q \in Procs PROVE Alone(q)'
  <2>1. CASE job'[q].cmd # "refresh"  BY <2>1 DEF Alone
  <2>2. CASE job'[q].cmd = "refresh"
    <3>1. q # p /\ job'[q] = job[q]  BY <2>2 DEF Refreshing
    <3>2. Alone(q)  BY <1>1 DEF InOrder
    <3>3. job[q] \in RefreshJobs  BY <2>2, <3>1, JobIs DEF IInv, Types
    <3>4. NextSource(q)' = NextSource(q)  BY <3>1 DEF NextSource
    <3>5. \A s : LastSuccess(s)' = LastSuccess(s)  BY DEF LastSuccess
    <3> QED  BY <2>2, <3>1, <3>2, <3>4, <3>5 DEF Alone
  <2> QED  BY <2>1, <2>2
<1> QED  BY <1>2, <1>3, <1>4

LEMMA SavedKept ==
    ASSUME IInv, UNCHANGED <<pointer, resolved, complete, raced>>,
           \A q \in Procs : RefreshingModels(q)' => job'[q] = job[q]
    PROVE  Saved'
<1>1. Saved  BY DEF IInv
<1>2. Loaded' = Loaded  BY DEF Loaded
<1>3. \A q \in Procs : RefreshingModels(q)' => RefreshingModels(q) /\ job'[q].prior = job[q].prior
  BY DEF RefreshingModels
<1> QED  BY <1>1, <1>2, <1>3 DEF Saved, Bound, EntryOf, LastKnown

LEMMA AuditedKept ==
    ASSUME IInv, Adopted \subseteq Adopted', audits' = audits
    PROVE  Audited'
  BY DEF IInv, Audited, Bound

LEMMA JobTypesKept ==
    ASSUME JobTypes, NEW p \in Procs, NEW j,
           j \in {Idle} \cup RefreshJobs \cup AdoptJobs \cup ModelsJobs
                   \cup StampJobs \cup PolicyJobs,
           job' = [job EXCEPT ![p] = j]
    PROVE  JobTypes' /\ job'[p] = j /\ \A q \in Procs : q # p => job'[q] = job[q]
  BY DEF JobTypes
AllJobs ==
    {Idle} \cup RefreshJobs \cup AdoptJobs \cup ModelsJobs \cup StampJobs \cup PolicyJobs

LEMMA CommandOf ==
    ASSUME NEW j \in AllJobs
    PROVE  /\ j.cmd \in {None, "refresh", "adopt", "models", "audit"}
           /\ j \in RefreshJobs => j.cmd = "refresh"
           /\ j \in AdoptJobs => j.cmd = "adopt"
           /\ j \in ModelsJobs => j.cmd = "models"
           /\ j \in StampJobs \cup PolicyJobs => j.cmd = "audit"
  BY DEF AllJobs, Idle, RefreshJobs, AdoptJobs, ModelsJobs, StampJobs, PolicyJobs

FilesTyped ==
    /\ GuidanceTypeOK
    /\ DOMAIN observed = Sources /\ DOMAIN partial = Sources /\ DOMAIN status = Sources

LEMMA TypesKept ==
    ASSUME Types, JobTypes', FilesTyped', calls' \in 0..MaxCalls, stops' \in 0..MaxStops,
           UNCHANGED <<registryVars, audits, moves>>
    PROVE  Types'
<1>1. \A p \in Procs : job'[p].cmd \in {None, "refresh", "adopt", "models", "audit"}
  BY CommandOf DEF JobTypes, AllJobs
<1>2. RegistryTypeOK' /\ DOMAIN local' = Runtimes
  BY DEF Types, TypeOK, RegistryTypeOK, registryVars
<1> QED  BY <1>1, <1>2 DEF Types, TypeOK, FilesTyped, registryVars

\* A guidance step of which only the refresh, the adoption or nothing is left.
LEMMA GuidanceKept ==
    ASSUME IInv, NEW p \in Procs, NEW j \in AllJobs, job' = [job EXCEPT ![p] = j],
           j.cmd \in {None, "refresh", "adopt"},
           calls' \in 0..MaxCalls, stops' \in 0..MaxStops, FilesTyped', Grows, Leaves(p),
           UNCHANGED <<registryVars, audits, moves>>,
           Begun(p)', Held(p)', Distilled(p)', OneFiller', Filed', InOrder'
    PROVE  IInv'
<1>1. JobTypes' /\ job'[p] = j /\ \A q \in Procs : q # p => job'[q] = job[q]
  BY JobTypesKept DEF IInv, Types, AllJobs
<1>2. Types'  BY <1>1, TypesKept DEF IInv
<1>3. Auditing(p)'  BY <1>1, NoneIsNoCommand DEF Auditing
<1>4. \A q \in Procs : RefreshingModels(q)' => job'[q] = job[q]
  BY <1>1, NoneIsNoCommand DEF RefreshingModels
<1>5. Saved'  BY <1>4, SavedKept DEF registryVars
<1>6. Audited'  BY AuditedKept DEF Grows
<1>7. calls' \in Nat  BY JobBounds
<1>8. \A q \in Procs : Begun(q)' /\ Held(q)' /\ Distilled(q)' /\ Auditing(q)'
  BY <1>3, <1>7, OthersKept
<1> QED  BY <1>2, <1>5, <1>6, <1>8 DEF IInv

\* A step that changes no file of the guidance.
LEMMA FilesKept ==
    ASSUME IInv, NEW p \in Procs, UNCHANGED guidanceVars, calls' \in Nat, calls <= calls',
           \A q \in Procs : q # p => job'[q] = job[q]
    PROVE  FilesTyped' /\ Grows /\ Leaves(p) /\ Filed'
<1>1. FilesTyped
  BY DEF IInv, Types, TypeOK, FilesTyped
<1>2. FilesTyped'
  BY <1>1 DEF guidanceVars, FilesTyped, GuidanceTypeOK
<1>3. Grows  BY DEF guidanceVars, Grows, Sure, Adopted
<1>4. \A q \in Procs : Begun(q)  BY DEF IInv
<1>5. Leaves(p)  BY <1>4, BegunKept DEF Leaves, guidanceVars
<1>6. Shown' = Shown  BY DEF Shown, guidanceVars
<1>7. Filed'  BY <1>3, <1>6, FiledKept DEF guidanceVars
<1> QED  BY <1>2, <1>3, <1>5, <1>7

LEMMA CallsTyped == IInv => calls \in 0..MaxCalls /\ calls \in Nat /\ stops \in 0..MaxStops
  BY JobBounds DEF IInv, Types, TypeOK
-----------------------------------------------------------------------------
(* apu refresh guidance, step by step. *)

\* A refresh has a source to visit.
LEMMA Visiting ==
    ASSUME IInv, NEW p \in Procs, Refreshing(p)
    PROVE  /\ job[p] \in RefreshJobs /\ Held(p) /\ Sources \subseteq Nat
           /\ NextSource(p) \in job[p].todo /\ NextSource(p) \in Sources
           /\ \A s \in job[p].todo : NextSource(p) <= s
<1>1. job[p] \in RefreshJobs  BY JobIs DEF IInv, Types, Refreshing
<1>2. Held(p)  BY DEF IInv
<1>3. job[p].todo \subseteq Sources  BY <1>1 DEF RefreshJobs
<1>4. job[p].todo # {}  BY <1>2 DEF Held, Refreshing
<1>5. Sources \subseteq Nat  BY SourcesOrdered
<1> QED  BY <1>1, <1>2, <1>3, <1>4, <1>5, LeastMember DEF NextSource

LEMMA LastSuccessFiled ==
    ASSUME IInv, NEW s \in Sources
    PROVE  LastSuccess(s) \in Success \cup {None} /\ Onfile({LastSuccess(s)} \ {None})
<1>1. status[s] \in Result \cup {None}  BY DEF IInv, Types, TypeOK, GuidanceTypeOK
<1>2. status[s] # None => Onfile(Cited(status[s]))  BY DEF IInv, Filed
<1>3. CASE status[s] = None  BY <1>3, LastSuccessIs DEF Onfile
<1>4. CASE status[s] # None /\ status[s] \in Fresh
  BY <1>2, <1>4, LastSuccessIs, Referred DEF Onfile, Cited
<1>5. CASE status[s] # None /\ status[s] \notin Fresh
  BY <1>1, <1>2, <1>5, LastSuccessIs, OfResult DEF Onfile, Cited
<1> QED  BY <1>3, <1>4, <1>5

\* The order of refreshes, after a step of one.
LEMMA RefreshOrder ==
    ASSUME IInv, NEW p \in Procs, Refreshing(p), UNCHANGED <<stops, overlapped>>,
           \A q \in Procs : q # p => job'[q] = job[q],
           stops = 0 /\ ~overlapped =>
              /\ \A s \in Sources : ~Ahead(p, s)' => Abreast(s)'
              /\ Alone(p)'
    PROVE  InOrder'
<1> SUFFICES ASSUME stops = 0 /\ ~overlapped  PROVE InOrder'
  BY DEF InOrder
<1>1. \A q \in Procs : Refreshing(q) => q = p  BY DEF IInv, InOrder
<1>2. \A q \in Procs : Refreshing(q)' => q = p  BY <1>1 DEF Refreshing
<1>3. \A q \in Procs : q # p => Alone(q)'  BY <1>2 DEF Alone, Refreshing
<1> QED  BY <1>2, <1>3 DEF InOrder

\* What a refresh alone on its way knows before a step.
LEMMA RefreshAlone ==
    ASSUME IInv, NEW p \in Procs, Refreshing(p), stops = 0 /\ ~overlapped
    PROVE  /\ Alone(p)
           /\ \A s \in Sources : ~Ahead(p, s) => Abreast(s)
<1>1. InOrder  BY DEF IInv
<1>2. \A q \in Procs : Refreshing(q) => q = p  BY <1>1 DEF InOrder
<1>3. \A q \in Procs, s \in Sources : Ahead(q, s) => q = p  BY <1>2 DEF Ahead, At, Refreshing
<1> QED  BY <1>1, <1>3 DEF InOrder

LEMMA AbreastKept ==
    ASSUME NEW s \in Sources, Abreast(s), status'[s] = status[s],
           observed'[s] \cap Fresh = observed[s] \cap Fresh
    PROVE  Abreast(s)'
  BY LastSuccessKept, NewestKept DEF Abreast

LEMMA OthersBegun ==
    ASSUME IInv, NEW p \in Procs, \A q \in Procs : q # p => job'[q] = job[q],
           UNCHANGED <<object, unfilled, filled>>
    PROVE  \A q \in Procs : q # p => Begun(q)'
  BY BegunKept DEF IInv

LEMMA BeginRefreshStep ==
    ASSUME IInv, NEW p \in Procs, BeginRefresh(p), UNCHANGED <<registryVars, audits, moves>>
    PROVE  IInv'
<1> DEFINE j == [cmd |-> "refresh", pc |-> "read", at |-> calls + 1, todo |-> Sources,
                 previous |-> None, result |-> None, cites |-> {}]
<1>1. /\ calls < MaxCalls /\ calls' = calls + 1 /\ job' = [job EXCEPT ![p] = j]
      /\ stops' = stops /\ job[p] = Idle
      /\ UNCHANGED <<object, early, observed, partial, status, orders, baselines, unfilled,
                   filled, trusted, current>>
      /\ overlapped' = (overlapped \/ \E q \in Procs : Refreshing(q))
  BY DEF BeginRefresh, Begin
<1>2. calls \in Nat /\ stops \in 0..MaxStops /\ MaxCalls \in Nat
  BY CallsTyped, JobBounds
<1>3. calls' \in 0..MaxCalls /\ calls' \in Nat /\ calls <= calls' /\ calls' \in 1..MaxCalls
  BY <1>1, <1>2
<1>4. j \in RefreshJobs  BY <1>1, <1>3 DEF RefreshJobs
<1>5. job'[p] = j /\ \A q \in Procs : q # p => job'[q] = job[q]
  BY <1>1, <1>4, JobTypesKept DEF IInv, Types
<1> HIDE DEF j
<1>6. /\ j.cmd = "refresh" /\ j.pc = "read" /\ j.at = calls' /\ j.todo = Sources /\ j.cites = {}
  BY <1>1 DEF j
<1>7. FilesTyped
  BY DEF IInv, Types, TypeOK, FilesTyped
<1>8. overlapped' \in BOOLEAN  BY <1>1, <1>7 DEF FilesTyped, GuidanceTypeOK
<1>9. FilesTyped'
  BY <1>1, <1>7, <1>8 DEF FilesTyped, GuidanceTypeOK
<1>10. Grows  BY <1>1, <1>3 DEF Grows, Sure, Adopted
<1>11. Leaves(p)  BY <1>1, <1>5, OthersBegun DEF Leaves
<1>12. Filed'  BY <1>1, <1>3, <1>10, FiledKept DEF Shown
<1>13. OneFiller'  BY <1>5, <1>6, FillersKept DEF Filling, At
<1>14. Held(p)'  BY <1>3, <1>5, <1>6, SourcesOrdered DEF Held, Onfile
<1>15. Distilled(p)' /\ Begun(p)'  BY <1>5, <1>6 DEF Distilled, Begun, At
<1>16. InOrder'
  <2> SUFFICES ASSUME stops = 0 /\ ~overlapped, \A q \in Procs : ~Refreshing(q)
               PROVE  InOrder'
    BY <1>1, <1>8 DEF InOrder
  <2>1. \A q \in Procs : Refreshing(q)' => q = p  BY <1>5 DEF Refreshing
  <2>2. \A q \in Procs : q # p => Alone(q)'  BY <2>1 DEF Alone, Refreshing
  <2>3. Alone(p)'
    <3>1. \A s \in Sources : \A o \in observed[s] : o.at < calls'
      <4> TAKE s \in Sources
      <4> TAKE o \in observed[s]
      <4>1. o.at <= calls /\ o \in Result
        BY DEF IInv, Filed, Types, TypeOK, GuidanceTypeOK
      <4>2. o.at \in Nat  BY <4>1, OfResult, JobBounds
      <4> QED  BY <1>1, <1>2, <4>1, <4>2
    <3> QED  BY <1>1, <1>5, <1>6, <3>1 DEF Alone
  <2>4. ASSUME NEW s \in Sources PROVE Abreast(s)'
    <3>1. Abreast(s)  BY DEF IInv, InOrder, Ahead, At, Refreshing
    <3> QED  BY <1>1, <3>1, AbreastKept
  <2> QED  BY <2>1, <2>2, <2>3, <2>4 DEF InOrder
<1> QED
  BY <1>1, <1>2, <1>3, <1>4, <1>6, <1>9, <1>10, <1>11, <1>12, <1>13, <1>14, <1>15, <1>16, GuidanceKept
     DEF AllJobs
\* A step of a refresh that has begun.
LEMMA RefreshKept ==
    ASSUME IInv, NEW p \in Procs, Refreshing(p), NEW j \in RefreshJobs \cup {Idle},
           job' = [job EXCEPT ![p] = j],
           UNCHANGED <<calls, stops, overlapped, baselineVars, registryVars, audits, moves>>,
           FilesTyped', Grows, Filed', Begun(p)', Held(p)', OneFiller',
           \A q \in Procs : q # p => Begun(q)',
           stops = 0 /\ ~overlapped =>
              /\ \A s \in Sources : ~Ahead(p, s)' => Abreast(s)'
              /\ Alone(p)'
    PROVE  IInv'
<1>1. j \in AllJobs /\ j.cmd \in {None, "refresh"}
  BY CommandOf DEF AllJobs, Idle
<1>2. job'[p] = j /\ \A q \in Procs : q # p => job'[q] = job[q]
  BY <1>1, JobTypesKept DEF IInv, Types, AllJobs
<1>3. Leaves(p)  BY <1>2 DEF Leaves
<1>4. Distilled(p)'  BY <1>1, <1>2, NoneIsNoCommand DEF Distilled
<1>5. InOrder'  BY <1>2, RefreshOrder
<1> QED  BY <1>1, <1>3, <1>4, <1>5, CallsTyped, GuidanceKept

LEMMA ReadPreviousStep ==
    ASSUME IInv, NEW p \in Procs, ReadPrevious(p), UNCHANGED <<registryVars, audits, moves>>
    PROVE  IInv'
<1> DEFINE i == job[p]
           j == [i EXCEPT !.pc = "fetch", !.previous = LastSuccess(NextSource(p))]
<1>1. Refreshing(p) /\ i.pc = "read" /\ job' = [job EXCEPT ![p] = j]
      /\ UNCHANGED <<calls, stops>> /\ UNCHANGED guidanceVars
  BY DEF ReadPrevious, At, Goto, Refreshing
<1>2. i \in RefreshJobs /\ Held(p) /\ NextSource(p) \in Sources  BY <1>1, Visiting
<1>3. /\ LastSuccess(NextSource(p)) \in Success \cup {None}
      /\ Onfile({LastSuccess(NextSource(p))} \ {None})
  BY <1>2, LastSuccessFiled
<1>4. j \in RefreshJobs  BY <1>2, <1>3 DEF RefreshJobs
<1>5. /\ j.cmd = "refresh" /\ j.pc = "fetch" /\ j.at = i.at /\ j.todo = i.todo
      /\ j.cites = i.cites /\ j.previous = LastSuccess(NextSource(p))
  BY <1>2 DEF RefreshJobs
<1>6. job'[p] = j /\ \A q \in Procs : q # p => job'[q] = job[q]
  BY <1>1, <1>4, JobTypesKept DEF IInv, Types
<1> HIDE DEF j
<1>7. FilesTyped' /\ Grows /\ Leaves(p) /\ Filed'
  BY <1>1, <1>6, CallsTyped, FilesKept
<1>8. OneFiller'  BY <1>5, <1>6, FillersKept DEF Filling, At
<1>9. NextSource(p)' = NextSource(p)  BY <1>5, <1>6 DEF NextSource
<1>10. Begun(p)'  BY <1>5, <1>6 DEF Begun, At
<1>11. Held(p)'
  <2>1. i.at <= calls /\ i.todo # {} /\ Onfile(i.cites)  BY <1>1, <1>2 DEF Held, Refreshing
  <2> QED  BY <1>1, <1>3, <1>5, <1>6, <2>1 DEF Held, Onfile, Backed, Sure, guidanceVars
<1>12. ASSUME stops = 0 /\ ~overlapped
       PROVE  /\ \A s \in Sources : ~Ahead(p, s)' => Abreast(s)'
              /\ Alone(p)'
  <2>1. Alone(p) /\ \A s \in Sources : Abreast(s)
    BY <1>1, <1>12, RefreshAlone DEF Ahead, At
  <2>2. \A s \in Sources : Abreast(s)'  BY <1>1, <2>1, AbreastKept DEF guidanceVars
  <2>3. LastSuccess(NextSource(p))' = LastSuccess(NextSource(p))
    BY <1>1, <1>2, <1>9, LastSuccessKept DEF guidanceVars
  <2>4. Alone(p)'
    BY <1>1, <1>5, <1>6, <2>1, <2>3 DEF Alone, Refreshing, guidanceVars
  <2> QED  BY <2>2, <2>4
<1> QED
  BY <1>1, <1>4, <1>7, <1>8, <1>10, <1>11, <1>12, RefreshKept DEF guidanceVars, Leaves

LEMMA FetchFailsStep ==
    ASSUME IInv, NEW p \in Procs, FetchFails(p), UNCHANGED <<registryVars, audits, moves>>
    PROVE  IInv'
<1> DEFINE i == job[p]
           r == [src |-> NextSource(p), at |-> i.at, hash |-> None, last |-> i.previous]
           j == [i EXCEPT !.pc = "observe", !.result = r]
<1>1. Refreshing(p) /\ i.pc = "fetch" /\ job' = [job EXCEPT ![p] = j]
      /\ UNCHANGED <<calls, stops>> /\ UNCHANGED guidanceVars
  BY DEF FetchFails, At, Goto, Refreshing
<1>2. i \in RefreshJobs /\ Held(p) /\ NextSource(p) \in Sources  BY <1>1, Visiting
<1>3. r \in Result /\ r \notin Fresh
  BY <1>2, NoneIsNoResult DEF Result, Failed, Fresh, RefreshJobs
<1>4. r.src = NextSource(p) /\ r.at = i.at /\ r.last = i.previous
  OBVIOUS
<1> HIDE DEF r
<1>5. j \in RefreshJobs  BY <1>2, <1>3 DEF RefreshJobs
<1>6. /\ j.cmd = "refresh" /\ j.pc = "observe" /\ j.at = i.at /\ j.todo = i.todo
      /\ j.cites = i.cites /\ j.result = r
  BY <1>2 DEF RefreshJobs
<1>7. job'[p] = j /\ \A q \in Procs : q # p => job'[q] = job[q]
  BY <1>1, <1>5, JobTypesKept DEF IInv, Types
<1> HIDE DEF j
<1>8. FilesTyped' /\ Grows /\ Leaves(p) /\ Filed'
  BY <1>1, <1>7, CallsTyped, FilesKept
<1>9. OneFiller'  BY <1>6, <1>7, FillersKept DEF Filling, At
<1>10. NextSource(p)' = NextSource(p)  BY <1>6, <1>7 DEF NextSource
<1>11. Held(p)'
  <2>1. i.at <= calls /\ i.todo # {} /\ Onfile(i.cites) /\ Onfile({i.previous} \ {None})
    BY <1>1, <1>2 DEF Held, Refreshing
  <2> QED
    BY <1>1, <1>3, <1>4, <1>6, <1>7, <1>10, <2>1, OfResult
       DEF Held, Onfile, Backed, Sure, guidanceVars
<1>12. ASSUME stops = 0 /\ ~overlapped
       PROVE  /\ \A s \in Sources : ~Ahead(p, s)' => Abreast(s)'
              /\ Alone(p)'
  <2>1. Alone(p) /\ \A s \in Sources : Abreast(s)
    BY <1>1, <1>12, RefreshAlone DEF Ahead, At
  <2>2. \A s \in Sources : Abreast(s)'  BY <1>1, <2>1, AbreastKept DEF guidanceVars
  <2>3. LastSuccess(NextSource(p))' = LastSuccess(NextSource(p))
    BY <1>1, <1>2, <1>10, LastSuccessKept DEF guidanceVars
  <2>4. Alone(p)'
    BY <1>1, <1>4, <1>6, <1>7, <1>10, <2>1, <2>3 DEF Alone, Refreshing, guidanceVars
  <2> QED  BY <2>2, <2>4
<1>13. Begun(p)'  BY <1>6, <1>7 DEF Begun, At
<1> QED
  BY <1>1, <1>5, <1>8, <1>9, <1>11, <1>12, <1>13, RefreshKept DEF guidanceVars, Leaves
LEMMA FetchedStep ==
    ASSUME IInv, NEW p \in Procs, NEW c \in Contents, Fetched(p, c),
           UNCHANGED <<registryVars, audits, moves>>
    PROVE  IInv'
<1> DEFINE i == job[p]
           r == [src |-> NextSource(p), at |-> i.at, hash |-> c, last |-> None]
<1>1. /\ Refreshing(p) /\ i.pc = "fetch"
      /\ UNCHANGED <<calls, stops>>
      /\ UNCHANGED <<observed, partial, status, orders, baselines, unfilled, filled, trusted,
                     current, overlapped>>
      /\ \/ /\ object[c] = "absent" /\ early' = early
            /\ object' = [object EXCEPT ![c] = "partial"]
            /\ job' = [job EXCEPT ![p] = [i EXCEPT !.pc = "fill", !.result = r]]
         \/ /\ object[c] \in {"filled", "whole"} /\ object' = object
            /\ early' = IF object[c] = "filled" THEN early \cup {c} ELSE early
            /\ job' = [job EXCEPT ![p] = [i EXCEPT !.pc = "observe", !.result = r]]
         \/ /\ object' = object /\ early' = early
            /\ job' = [job EXCEPT ![p] = Idle]
  BY DEF Fetched, ObjectMatchesHash, At, Goto, Refreshing
<1>2. i \in RefreshJobs /\ Held(p) /\ NextSource(p) \in Sources  BY <1>1, Visiting
<1>3. r \in Result /\ r \in Fresh /\ r # None
  BY <1>2, NoneIsNoResult DEF Result, Failed, Fresh, RefreshJobs
<1>4. r.src = NextSource(p) /\ r.at = i.at /\ r.hash = c
  OBVIOUS
<1> HIDE DEF r
<1>5. i.at <= calls /\ i.todo # {} /\ Onfile(i.cites) /\ i.cites \in SUBSET Success
  BY <1>1, <1>2 DEF Held, Refreshing, RefreshJobs
<1>6. object \in [Contents -> {"absent", "partial", "filled", "whole"}] /\ early \subseteq Contents
  BY DEF IInv, Types, TypeOK, GuidanceTypeOK
<1>7. /\ object' \in [Contents -> {"absent", "partial", "filled", "whole"}]
      /\ early \subseteq early' /\ early' \subseteq Contents
      /\ \A h \in Contents : object[h] # "absent" => object'[h] = object[h]
  BY <1>1, <1>6
<1>8. FilesTyped'
  <2>1. FilesTyped  BY DEF IInv, Types, TypeOK, FilesTyped
  <2> QED  BY <1>1, <1>7, <2>1 DEF FilesTyped, GuidanceTypeOK
<1>9. Grows
  <2>1. \A h \in Contents : Sure(h) => Sure(h)'  BY <1>7 DEF Sure
  <2> QED  BY <1>1, <2>1, CallsTyped DEF Grows, Adopted
<1>10. Filed'  BY <1>1, <1>9, CallsTyped, FiledKept DEF Shown
<1>11. \A q \in Procs : Filling(q, "refresh") =>
          job[q].result.hash \in Contents /\ object[job[q].result.hash] # "absent"
  <2> TAKE q \in Procs
  <2> HAVE Filling(q, "refresh")
  <2>1. Held(q) /\ Begun(q)  BY DEF IInv
  <2>2. job[q].result \in Fresh /\ object[job[q].result.hash] # "absent"
    BY <2>1 DEF Held, Begun, Filling, At
  <2> QED  BY <2>2, Referred
<1>12. ASSUME NEW q \in Procs, job'[q] = job[q]  PROVE Begun(q)'
  <2>1. Begun(q)  BY DEF IInv
  <2>2. Filling(q, "refresh") => object'[job[q].result.hash] = object[job[q].result.hash]
    BY <1>7, <1>11
  <2>3. UNCHANGED <<unfilled, filled>>  BY <1>1
  <2> QED  BY <1>12, <2>1, <2>2, <2>3 DEF Begun, Filling, At, VersionOf
<1>14. ASSUME NEW j \in RefreshJobs, job' = [job EXCEPT ![p] = j], j.pc \in {"fill", "observe"},
              j.result = r, j.at = i.at, j.todo = i.todo, j.cites = i.cites,
              IF j.pc = "fill" THEN object'[c] = "partial" ELSE Sure(c)',
              j.pc = "fill" => object[c] = "absent"
       PROVE  IInv'
  <2>1. job'[p] = j /\ (\A q \in Procs : q # p => job'[q] = job[q]) /\ j.cmd = "refresh"
    BY <1>14, JobTypesKept, CommandOf DEF IInv, Types, AllJobs
  <2>2. OneFiller'
    <3>1. CASE j.pc = "observe"  BY <1>14, <2>1, <3>1, FillersKept DEF Filling, At
    <3>2. CASE j.pc = "fill"
      <4>1. \A q \in Procs : q # p /\ Filling(q, "refresh")' => job'[q].result.hash # c
        BY <1>11, <1>14, <2>1, <3>2 DEF Filling, At
      <4>2. ~Filling(p, "adopt")'  BY <2>1 DEF Filling, At
      <4> QED  BY <1>4, <1>14, <2>1, <4>1, <4>2 DEF IInv, OneFiller, Filling, At, VersionOf
    <3> QED  BY <1>14, <3>1, <3>2
  <2>3. NextSource(p)' = NextSource(p)  BY <1>14, <2>1 DEF NextSource
  <2>4. Onfile(i.cites)'
    <3>1. PICK cites \in SUBSET Success : cites = i.cites  BY <1>5
    <3>2. Onfile(cites)'  BY <1>5, <1>9, <3>1, OnfileKept
    <3>3. i.cites = job'[p].cites  BY <1>14, <2>1
    <3> QED  BY <3>1, <3>2, <3>3 DEF Onfile
  <2>5. Held(p)'
    BY <1>1, <1>3, <1>4, <1>5, <1>14, <2>1, <2>3, <2>4 DEF Held, Onfile
  <2>6. ASSUME stops = 0 /\ ~overlapped
        PROVE  /\ \A s \in Sources : ~Ahead(p, s)' => Abreast(s)'
               /\ Alone(p)'
    <3>1. Alone(p) /\ \A s \in Sources : Abreast(s)
      BY <1>1, <2>6, RefreshAlone DEF Ahead, At
    <3>2. \A s \in Sources : Abreast(s)'  BY <1>1, <3>1, AbreastKept
    <3>3. Alone(p)'
      BY <1>1, <1>3, <1>14, <2>1, <3>1 DEF Alone, Refreshing
    <3> QED  BY <3>2, <3>3
  <2>7. Begun(p)'  BY <1>4, <1>14, <2>1 DEF Begun, At
  <2> QED
    BY <1>1, <1>8, <1>9, <1>10, <1>12, <1>14, <2>1, <2>2, <2>5, <2>6, <2>7, RefreshKept
<1>15. CASE job' = [job EXCEPT ![p] = Idle]
  <2>1. job'[p] = Idle /\ \A q \in Procs : q # p => job'[q] = job[q]
    BY <1>15, JobTypesKept DEF IInv, Types
  <2>2. job'[p].cmd # "refresh" /\ job'[p].cmd # "adopt"
    BY <2>1, NoneIsNoCommand DEF Idle
  <2>3. OneFiller'  BY <2>1, <2>2, FillersKept DEF Filling, At
  <2>4. Begun(p)' /\ Held(p)' /\ Alone(p)'  BY <2>2 DEF Begun, At, Held, Alone
  <2>5. ASSUME stops = 0 /\ ~overlapped PROVE \A s \in Sources : Abreast(s)'
    <3>1. \A s \in Sources : Abreast(s)
      BY <1>1, <2>5, RefreshAlone DEF Ahead, At
    <3> QED  BY <1>1, <3>1, AbreastKept
  <2> QED
    BY <1>1, <1>8, <1>9, <1>10, <1>12, <1>15, <2>1, <2>3, <2>4, <2>5, RefreshKept
<1>16. CASE /\ object[c] = "absent" /\ early' = early
            /\ object' = [object EXCEPT ![c] = "partial"]
            /\ job' = [job EXCEPT ![p] = [i EXCEPT !.pc = "fill", !.result = r]]
  <2> DEFINE j == [i EXCEPT !.pc = "fill", !.result = r]
  <2>1. j \in RefreshJobs  BY <1>2, <1>3 DEF RefreshJobs
  <2>2. /\ j.pc = "fill" /\ j.result = r /\ j.at = i.at /\ j.todo = i.todo /\ j.cites = i.cites
    BY <1>2 DEF RefreshJobs
  <2>3. object'[c] = "partial"  BY <1>6, <1>16
  <2> HIDE DEF j
  <2> QED  BY <1>14, <1>16, <2>1, <2>2, <2>3 DEF j
<1>17. CASE /\ object[c] \in {"filled", "whole"} /\ object' = object
            /\ early' = IF object[c] = "filled" THEN early \cup {c} ELSE early
            /\ job' = [job EXCEPT ![p] = [i EXCEPT !.pc = "observe", !.result = r]]
  <2> DEFINE j == [i EXCEPT !.pc = "observe", !.result = r]
  <2>1. j \in RefreshJobs  BY <1>2, <1>3 DEF RefreshJobs
  <2>2. /\ j.pc = "observe" /\ j.result = r /\ j.at = i.at /\ j.todo = i.todo /\ j.cites = i.cites
    BY <1>2 DEF RefreshJobs
  <2>3. Sure(c)'  BY <1>17 DEF Sure
  <2> HIDE DEF j
  <2> QED  BY <1>14, <1>17, <2>1, <2>2, <2>3 DEF j
<1> QED  BY <1>1, <1>15, <1>16, <1>17
\* What a refresh that has its result has.
LEMMA ResultHeld ==
    ASSUME IInv, NEW p \in Procs, Refreshing(p),
           job[p].pc \in {"fill", "filled", "observe", "record", "status"}
    PROVE  /\ job[p].result \in Result
           /\ job[p].result.src = NextSource(p) /\ job[p].result.src \in Sources
           /\ job[p].result.at = job[p].at
           /\ job[p].result \in Fresh =>
                 /\ job[p].result.hash \in Contents
                 /\ job[p].pc \notin {"fill", "filled"} => Sure(job[p].result.hash)
           /\ job[p].result \notin Fresh =>
                 job[p].pc \notin {"fill", "filled"} /\ Onfile({job[p].result.last} \ {None})
           /\ job[p].at <= calls /\ job[p].todo # {} /\ Onfile(job[p].cites)
           /\ job[p].cites \in SUBSET Success
<1>1. job[p] \in RefreshJobs /\ Held(p) /\ NextSource(p) \in Sources
  BY Visiting
<1>2. job[p].result \in Result  BY <1>1 DEF Held, Refreshing, RefreshJobs
<1> QED  BY <1>1, <1>2, Referred DEF Held, Refreshing, RefreshJobs

\* The same refresh one line further, with the result it has.
LEMMA FurtherHeld ==
    ASSUME IInv, NEW p \in Procs, Refreshing(p), Grows, calls' = calls,
           job[p].pc \in {"filled", "observe", "record"},
           NEW j, j.cmd = "refresh", j.pc \in {"observe", "record", "status"},
           j.at = job[p].at, j.todo = job[p].todo, j.cites = job[p].cites,
           j.result = job[p].result, job'[p] = j,
           job[p].pc = "filled" => Sure(j.result.hash)',
           j.pc = "status" => j.result \in observed'[j.result.src]
    PROVE  Held(p)'
<1> DEFINE i == job[p]
<1>1. PICK k : k = i  OBVIOUS
<1>2. /\ k.result \in Result /\ k.result # None
      /\ k.result.src = NextSource(p) /\ k.result.at = k.at
      /\ k.result \in Fresh => /\ k.result.hash \in Contents
                               /\ k.pc # "filled" => Sure(k.result.hash)
      /\ k.result \notin Fresh => Onfile({k.result.last} \ {None})
      /\ k.at <= calls /\ k.todo # {} /\ Onfile(k.cites)
      /\ k.cites \in SUBSET Success
  BY <1>1, ResultHeld, OfResult
<1>3. NextSource(p)' = NextSource(p)  BY DEF NextSource
<1>4. k.result \notin Fresh => {k.result.last} \ {None} \in SUBSET Success
  BY <1>2, OfResult
<1>5. k.result \notin Fresh => Onfile({k.result.last} \ {None})'
  BY <1>2, <1>4, OnfileKept
<1>6. Onfile(k.cites)'  BY <1>2, OnfileKept
<1>7. k.result \in Fresh => Sure(k.result.hash)'
  BY <1>1, <1>2 DEF Grows
<1> QED  BY <1>1, <1>2, <1>3, <1>5, <1>6, <1>7 DEF Held

\* What becomes of an object whose writer goes on is no other writer's.
LEMMA ObjectBegun ==
    ASSUME IInv, NEW p \in Procs, Filling(p, "refresh"), UNCHANGED <<unfilled, filled>>,
           \A h \in Contents : h # job[p].result.hash => object'[h] = object[h],
           NEW q \in Procs, q # p, job'[q] = job[q]
    PROVE  Begun(q)'
<1>1. Begun(q)  BY DEF IInv
<1>2. ASSUME Filling(q, "refresh")
      PROVE  object'[job[q].result.hash] = object[job[q].result.hash]
  <2>1. Refreshing(q) /\ job[q].pc \in {"fill", "filled"}  BY <1>2 DEF Filling, At, Refreshing
  <2>2. job[q].result.hash \in Contents  BY <2>1, ResultHeld
  <2>3. job[q].result.hash # job[p].result.hash  BY <1>2 DEF IInv, OneFiller
  <2> QED  BY <2>2, <2>3
<1> QED  BY <1>1, <1>2 DEF Begun, Filling, At, VersionOf

LEMMA FillObjectStep ==
    ASSUME IInv, NEW p \in Procs, FillObject(p), UNCHANGED <<registryVars, audits, moves>>
    PROVE  IInv'
<1> DEFINE i == job[p]
           r == i.result
           j == [i EXCEPT !.pc = "filled"]
<1>1. /\ Refreshing(p) /\ i.pc = "fill" /\ job' = [job EXCEPT ![p] = j]
      /\ object' = [object EXCEPT ![r.hash] = "filled"]
      /\ UNCHANGED <<calls, stops>>
      /\ UNCHANGED <<early, observed, partial, status, orders, baselines, unfilled, filled, trusted,
                     current, overlapped>>
  BY DEF FillObject, At, Goto, Refreshing
<1>2. i \in RefreshJobs /\ Held(p)  BY <1>1, Visiting
<1>3. /\ r \in Fresh /\ r \in Result /\ r.hash \in Contents /\ object[r.hash] = "partial"
  BY <1>1, ResultHeld DEF IInv, Begun, At, Refreshing
<1>4. j \in RefreshJobs  BY <1>2 DEF RefreshJobs
<1>5. /\ j.cmd = "refresh" /\ j.pc = "filled" /\ j.at = i.at /\ j.todo = i.todo
      /\ j.cites = i.cites /\ j.result = r
  BY <1>2 DEF RefreshJobs
<1>6. job'[p] = j /\ \A q \in Procs : q # p => job'[q] = job[q]
  BY <1>1, <1>4, JobTypesKept DEF IInv, Types
<1> HIDE DEF j
<1>7. object \in [Contents -> {"absent", "partial", "filled", "whole"}]
  BY DEF IInv, Types, TypeOK, GuidanceTypeOK
<1>8. /\ object'[r.hash] = "filled"
      /\ object' \in [Contents -> {"absent", "partial", "filled", "whole"}]
      /\ \A h \in Contents : h # r.hash => object'[h] = object[h]
  BY <1>1, <1>3, <1>7
<1>9. FilesTyped'
  <2>1. FilesTyped  BY DEF IInv, Types, TypeOK, FilesTyped
  <2> QED  BY <1>1, <1>8, <2>1 DEF FilesTyped, GuidanceTypeOK
<1>10. Grows
  <2>1. \A h \in Contents : Sure(h) => Sure(h)'  BY <1>1, <1>3, <1>8 DEF Sure
  <2> QED  BY <1>1, <2>1, CallsTyped DEF Grows, Adopted
<1>11. Filed'  BY <1>1, <1>10, CallsTyped, FiledKept DEF Shown
<1>12. \A q \in Procs : q # p => Begun(q)'
  BY <1>1, <1>6, <1>8, ObjectBegun DEF Filling, At, Refreshing
<1>13. OneFiller'
  BY <1>1, <1>5, <1>6, FillersKept DEF Filling, At, Refreshing
<1>14. Held(p)' /\ Begun(p)'
  <2>1. NextSource(p)' = NextSource(p)  BY <1>5, <1>6 DEF NextSource
  <2>2. Onfile(i.cites)'
    <3>1. PICK cites \in SUBSET Success : cites = i.cites /\ Onfile(cites)
      BY <1>1, ResultHeld
    <3>2. Onfile(cites)'  BY <1>10, <3>1, OnfileKept
    <3>3. i.cites = job'[p].cites  BY <1>5, <1>6
    <3> QED  BY <3>1, <3>2, <3>3 DEF Onfile
  <2>3. Held(p)'
    BY <1>1, <1>2, <1>3, <1>5, <1>6, <2>1, <2>2 DEF Held, Refreshing, Onfile
  <2>4. Begun(p)'  BY <1>5, <1>6, <1>8 DEF Begun, At
  <2> QED  BY <2>3, <2>4
<1>15. ASSUME stops = 0 /\ ~overlapped
       PROVE  /\ \A s \in Sources : ~Ahead(p, s)' => Abreast(s)'
              /\ Alone(p)'
  <2>1. Alone(p) /\ \A s \in Sources : Abreast(s)
    BY <1>1, <1>15, RefreshAlone DEF Ahead, At
  <2>2. \A s \in Sources : Abreast(s)'  BY <1>1, <2>1, AbreastKept
  <2>3. Alone(p)'  BY <1>1, <1>3, <1>5, <1>6, <2>1 DEF Alone, Refreshing
  <2> QED  BY <2>2, <2>3
<1> QED
  BY <1>1, <1>4, <1>9, <1>10, <1>11, <1>12, <1>13, <1>14, <1>15, RefreshKept

\* fsync has returned for an object.
LEMMA SyncedObjectStep ==
    ASSUME IInv, NEW p \in Procs, Synced(p), At(p, "refresh", "filled"),
           UNCHANGED <<registryVars, audits, moves>>
    PROVE  IInv'
<1> DEFINE i == job[p]
           r == i.result
           j == [i EXCEPT !.pc = "observe"]
<1>1. /\ Refreshing(p) /\ i.pc = "filled" /\ job' = [job EXCEPT ![p] = j]
      /\ object' = [object EXCEPT ![r.hash] = "whole"] /\ early' = early \ {r.hash}
      /\ UNCHANGED <<calls, stops>>
      /\ UNCHANGED <<observed, partial, status, orders, baselines, unfilled, filled, trusted,
                     current, overlapped>>
  BY DEF Synced, Settle, At, Goto, Refreshing
<1>2. i \in RefreshJobs  BY <1>1, Visiting
<1>3. /\ r \in Fresh /\ r \in Result /\ r.hash \in Contents
  BY <1>1, ResultHeld
<1>4. j \in RefreshJobs  BY <1>2 DEF RefreshJobs
<1>5. /\ j.cmd = "refresh" /\ j.pc = "observe" /\ j.at = i.at /\ j.todo = i.todo
      /\ j.cites = i.cites /\ j.result = r
  BY <1>2 DEF RefreshJobs
<1>6. job'[p] = j /\ \A q \in Procs : q # p => job'[q] = job[q]
  BY <1>1, <1>4, JobTypesKept DEF IInv, Types
<1> HIDE DEF j
<1>7. object \in [Contents -> {"absent", "partial", "filled", "whole"}] /\ early \subseteq Contents
  BY DEF IInv, Types, TypeOK, GuidanceTypeOK
<1>8. /\ object'[r.hash] = "whole"
      /\ object' \in [Contents -> {"absent", "partial", "filled", "whole"}]
      /\ \A h \in Contents : h # r.hash => object'[h] = object[h]
      /\ early' \subseteq Contents
  BY <1>1, <1>3, <1>7
<1>9. FilesTyped'
  <2>1. FilesTyped  BY DEF IInv, Types, TypeOK, FilesTyped
  <2> QED  BY <1>1, <1>8, <2>1 DEF FilesTyped, GuidanceTypeOK
<1>10. Grows
  <2>1. \A h \in Contents : Sure(h) => Sure(h)'  BY <1>1, <1>8 DEF Sure
  <2> QED  BY <1>1, <2>1, CallsTyped DEF Grows, Adopted
<1>11. Filed'  BY <1>1, <1>10, CallsTyped, FiledKept DEF Shown
<1>12. \A q \in Procs : q # p => Begun(q)'
  BY <1>1, <1>6, <1>8, ObjectBegun DEF Filling, At, Refreshing
<1>13. OneFiller'  BY <1>5, <1>6, FillersKept DEF Filling, At
<1>14. Held(p)' /\ Begun(p)'
  <2>1. Sure(r.hash)'  BY <1>5, <1>6, <1>8 DEF Sure
  <2> QED  BY <1>1, <1>5, <1>6, <1>10, <2>1, FurtherHeld DEF Begun, At
<1>15. ASSUME stops = 0 /\ ~overlapped
       PROVE  /\ \A s \in Sources : ~Ahead(p, s)' => Abreast(s)'
              /\ Alone(p)'
  <2>1. Alone(p) /\ \A s \in Sources : Abreast(s)
    BY <1>1, <1>15, RefreshAlone DEF Ahead, At
  <2>2. \A s \in Sources : Abreast(s)'  BY <1>1, <2>1, AbreastKept
  <2>3. Alone(p)'  BY <1>1, <1>3, <1>5, <1>6, <2>1 DEF Alone, Refreshing
  <2> QED  BY <2>2, <2>3
<1> QED
  BY <1>1, <1>4, <1>9, <1>10, <1>11, <1>12, <1>13, <1>14, <1>15, RefreshKept

LEMMA CreateObservationStep ==
    ASSUME IInv, NEW p \in Procs, CreateObservation(p), UNCHANGED <<registryVars, audits, moves>>
    PROVE  IInv'
<1> DEFINE i == job[p]
           r == i.result
           j == [i EXCEPT !.pc = "record"]
<1>1. /\ Refreshing(p) /\ i.pc = "observe" /\ job' = [job EXCEPT ![p] = j]
      /\ partial' = [partial EXCEPT ![r.src] = @ \cup {r}]
      /\ UNCHANGED <<calls, stops>>
      /\ UNCHANGED <<object, early, observed, status, orders, baselines, unfilled, filled, trusted,
                   current, overlapped>>
  BY DEF CreateObservation, At, Goto, Refreshing
<1>2. i \in RefreshJobs  BY <1>1, Visiting
<1>3. r \in Result /\ r.src \in Sources /\ r.src = NextSource(p)
  BY <1>1, ResultHeld
<1>4. j \in RefreshJobs  BY <1>2 DEF RefreshJobs
<1>5. /\ j.cmd = "refresh" /\ j.pc = "record" /\ j.at = i.at /\ j.todo = i.todo
      /\ j.cites = i.cites /\ j.result = r
  BY <1>2 DEF RefreshJobs
<1>6. job'[p] = j /\ \A q \in Procs : q # p => job'[q] = job[q]
  BY <1>1, <1>4, JobTypesKept DEF IInv, Types
<1> HIDE DEF j
<1>7. FilesTyped'
  <2>1. FilesTyped  BY DEF IInv, Types, TypeOK, FilesTyped
  <2>2. DOMAIN partial' = Sources /\ \A s \in Sources : partial'[s] = IF s = r.src THEN partial[s] \cup {r} ELSE partial[s]
    BY <1>1, <1>3, <2>1 DEF FilesTyped
  <2>3. \A s \in Sources : partial'[s] \subseteq Result /\ \A o \in partial'[s] : o.src = s
    BY <1>3, <2>1, <2>2 DEF FilesTyped, GuidanceTypeOK
  <2> QED  BY <1>1, <2>1, <2>2, <2>3 DEF FilesTyped, GuidanceTypeOK
<1>8. Grows  BY <1>1, CallsTyped DEF Grows, Sure, Adopted
<1>9. Filed'  BY <1>1, <1>8, CallsTyped, FiledKept DEF Shown
<1>10. Begun(p)' /\ \A q \in Procs : q # p => Begun(q)'
  BY <1>1, <1>5, <1>6, OthersBegun DEF Begun, At
<1>11. OneFiller'  BY <1>5, <1>6, FillersKept DEF Filling, At
<1>12. Held(p)'  BY <1>1, <1>5, <1>6, <1>8, FurtherHeld
<1>13. ASSUME stops = 0 /\ ~overlapped
       PROVE  /\ \A s \in Sources : ~Ahead(p, s)' => Abreast(s)'
              /\ Alone(p)'
  <2>1. Alone(p) /\ \A s \in Sources : Abreast(s)
    BY <1>1, <1>13, RefreshAlone DEF Ahead, At
  <2>2. \A s \in Sources : Abreast(s)'  BY <1>1, <2>1, AbreastKept
  <2>3. LastSuccess(NextSource(p))' = LastSuccess(NextSource(p))
    BY <1>1, <1>3, <1>5, <1>6, LastSuccessKept DEF NextSource
  <2>4. Alone(p)'  BY <1>1, <1>5, <1>6, <2>1, <2>3 DEF Alone, Refreshing
  <2> QED  BY <2>2, <2>4
<1> QED
  BY <1>1, <1>4, <1>7, <1>8, <1>9, <1>10, <1>11, <1>12, <1>13, RefreshKept
LEMMA FillObservationStep ==
    ASSUME IInv, NEW p \in Procs, FillObservation(p), UNCHANGED <<registryVars, audits, moves>>
    PROVE  IInv'
<1> DEFINE i == job[p]
           r == i.result
           j == [i EXCEPT !.pc = "status"]
<1>1. /\ Refreshing(p) /\ i.pc = "record" /\ job' = [job EXCEPT ![p] = j]
      /\ partial' = [partial EXCEPT ![r.src] = @ \ {r}]
      /\ observed' = [observed EXCEPT ![r.src] = @ \cup {r}]
      /\ UNCHANGED <<calls, stops>>
      /\ UNCHANGED <<object, early, status, orders, baselines, unfilled, filled, trusted,
                   current, overlapped>>
  BY DEF FillObservation, At, Goto, Refreshing
<1>2. i \in RefreshJobs  BY <1>1, Visiting
<1>3. r \in Result /\ r.src \in Sources /\ r.src = NextSource(p) /\ r.at = i.at /\ i.at <= calls
  BY <1>1, ResultHeld
<1>4. j \in RefreshJobs  BY <1>2 DEF RefreshJobs
<1>5. /\ j.cmd = "refresh" /\ j.pc = "status" /\ j.at = i.at /\ j.todo = i.todo
      /\ j.cites = i.cites /\ j.result = r
  BY <1>2 DEF RefreshJobs
<1>6. job'[p] = j /\ \A q \in Procs : q # p => job'[q] = job[q]
  BY <1>1, <1>4, JobTypesKept DEF IInv, Types
<1> HIDE DEF j
<1>7. FilesTyped  BY DEF IInv, Types, TypeOK, FilesTyped
<1>8. /\ DOMAIN partial' = Sources /\ DOMAIN observed' = Sources
      /\ \A s \in Sources :
            /\ partial'[s] = IF s = r.src THEN partial[s] \ {r} ELSE partial[s]
            /\ observed'[s] = IF s = r.src THEN observed[s] \cup {r} ELSE observed[s]
  BY <1>1, <1>3, <1>7 DEF FilesTyped
<1>9. FilesTyped'
  <2>1. \A s \in Sources : /\ partial'[s] \cup observed'[s] \subseteq Result
                           /\ \A o \in partial'[s] \cup observed'[s] : o.src = s
    BY <1>3, <1>7, <1>8 DEF FilesTyped, GuidanceTypeOK
  <2> QED  BY <1>1, <1>7, <1>8, <2>1 DEF FilesTyped, GuidanceTypeOK
<1>10. Grows  BY <1>1, <1>8, CallsTyped DEF Grows, Sure, Adopted
<1>11. Filed'
  <2>1. \A s \in Sources : \A o \in observed'[s] : o \in observed[s] \/ o.at <= calls'
    BY <1>1, <1>3, <1>8
  <2> QED  BY <1>1, <1>10, <2>1, CallsTyped, FiledKept DEF Shown
<1>12. Begun(p)' /\ \A q \in Procs : q # p => Begun(q)'
  BY <1>1, <1>5, <1>6, OthersBegun DEF Begun, At
<1>13. OneFiller'  BY <1>5, <1>6, FillersKept DEF Filling, At
<1>14. Held(p)'
  <2>1. r \in observed'[r.src]  BY <1>3, <1>8
  <2> QED  BY <1>1, <1>5, <1>6, <1>10, <2>1, FurtherHeld
<1>15. ASSUME stops = 0 /\ ~overlapped
       PROVE  /\ \A s \in Sources : ~Ahead(p, s)' => Abreast(s)'
              /\ Alone(p)'
  <2>1. Alone(p) /\ \A s \in Sources : Abreast(s)
    BY <1>1, <1>15, RefreshAlone DEF Ahead, At
  <2>2. ASSUME NEW s \in Sources, ~Ahead(p, s)'  PROVE Abreast(s)'
    <3>1. s = r.src => r \notin Fresh  BY <1>5, <1>6, <2>2 DEF Ahead, At
    <3>2. observed'[s] \cap Fresh = observed[s] \cap Fresh  BY <1>8, <3>1
    <3> QED  BY <1>1, <2>1, <3>2, AbreastKept
  <2>3. LastSuccess(NextSource(p))' = LastSuccess(NextSource(p))
    BY <1>1, <1>3, <1>5, <1>6, LastSuccessKept DEF NextSource
  <2>4. \A s \in i.todo : \A o \in observed'[s] : o.at < i.at \/ o = r
    <3>1. i.todo \subseteq Sources  BY <1>2 DEF RefreshJobs
    <3> QED  BY <1>1, <1>8, <2>1, <3>1 DEF Alone, Refreshing
  <2>5. Alone(p)'  BY <1>1, <1>5, <1>6, <2>1, <2>3, <2>4 DEF Alone, Refreshing
  <2> QED  BY <2>2, <2>5
<1> QED
  BY <1>1, <1>4, <1>9, <1>10, <1>11, <1>12, <1>13, <1>14, <1>15, RefreshKept

LEMMA SaveStatusStep ==
    ASSUME IInv, NEW p \in Procs, SaveStatus(p), UNCHANGED <<registryVars, audits, moves>>
    PROVE  IInv'
<1> DEFINE i == job[p]
           r == i.result
           todo == i.todo \ {r.src}
           cites == i.cites \cup Cited(r)
           j == [i EXCEPT !.pc = "read", !.todo = todo, !.cites = cites,
                          !.previous = None, !.result = None]
<1>1. /\ Refreshing(p) /\ i.pc = "status"
      /\ status' = [status EXCEPT ![r.src] = r]
      /\ \/ todo = {} /\ orders' = orders \cup {cites} /\ job' = [job EXCEPT ![p] = Idle]
         \/ todo # {} /\ orders' = orders /\ job' = [job EXCEPT ![p] = j]
      /\ UNCHANGED <<calls, stops>>
      /\ UNCHANGED <<object, early, observed, partial, baselines, unfilled, filled, trusted,
                   current, overlapped>>
  BY DEF SaveStatus, At, Goto, Refreshing
<1>2. i \in RefreshJobs /\ i.todo \subseteq Sources /\ r \in observed[r.src]
  BY <1>1, Visiting DEF RefreshJobs, Held, Refreshing
<1>3. /\ r \in Result /\ r.src \in Sources /\ r.src = NextSource(p) /\ r.at = i.at
      /\ i.at <= calls /\ Onfile(i.cites) /\ i.cites \in SUBSET Success
      /\ r \in Fresh => r.hash \in Contents /\ Sure(r.hash)
      /\ r \notin Fresh => Onfile({r.last} \ {None})
  BY <1>1, ResultHeld
<1>4. Cited(r) \subseteq Success /\ Onfile(Cited(r))
  <2>1. CASE r \in Fresh
    <3>1. Backed(Reference(r))
      BY <1>2, <1>3, <2>1, Referred DEF Backed
    <3> QED  BY <1>3, <2>1, <3>1, OfResult DEF Cited, Onfile
  <2>2. CASE r \notin Fresh  BY <1>3, <2>2, OfResult DEF Cited
  <2> QED  BY <2>1, <2>2
<1>5. cites \in SUBSET Success /\ Onfile(cites)  BY <1>3, <1>4 DEF Onfile
<1>7. PICK fetch : fetch = r  OBVIOUS
<1>8. PICK made : made = cites  OBVIOUS
<1>9. FilesTyped  BY DEF IInv, Types, TypeOK, FilesTyped
<1>10. DOMAIN status' = Sources
       /\ \A s \in Sources : status'[s] = IF s = r.src THEN r ELSE status[s]
  BY <1>1, <1>3, <1>9 DEF FilesTyped
<1>11. FilesTyped'
  <2>1. orders' \subseteq SUBSET Success  BY <1>1, <1>5, <1>9 DEF FilesTyped, GuidanceTypeOK
  <2>2. \A s \in Sources :
            status'[s] \in Result \cup {None} /\ (status'[s] # None => status'[s].src = s)
    BY <1>3, <1>9, <1>10 DEF FilesTyped, GuidanceTypeOK
  <2> QED  BY <1>1, <1>9, <1>10, <2>1, <2>2 DEF FilesTyped, GuidanceTypeOK
<1>12. Grows  BY <1>1, CallsTyped DEF Grows, Sure, Adopted
<1>13. Onfile(made)' /\ Onfile(Cited(fetch))'
  <2>1. PICK a \in SUBSET Success, b \in SUBSET Success : a = made /\ b = Cited(fetch)
    BY <1>4, <1>5, <1>7, <1>8
  <2>2. Onfile(a)' /\ Onfile(b)'  BY <1>4, <1>5, <1>7, <1>8, <1>12, <2>1, OnfileKept
  <2> QED  BY <2>1, <2>2 DEF Onfile, Cited, Reference
<1>14. Filed'
  <2>1. \A order \in orders' : Onfile(order)'  BY <1>1, <1>8, <1>12, <1>13, CitesKept
  <2>2. \A s \in Sources : status'[s] # None => Onfile(Cited(status[s]))'
    <3> TAKE s \in Sources
    <3>1. CASE s = fetch.src
      <4>1. status'[s] = fetch  BY <1>7, <1>10, <3>1
      <4> QED  BY <1>13, <4>1 DEF Cited
    <3>2. CASE s # fetch.src  BY <1>7, <1>10, <1>12, <3>2, CitesKept
    <3> QED  BY <3>1, <3>2
  <2>3. \A s \in Sources : \A o \in observed'[s] : o.at <= calls'
    BY <1>1, <1>12, CallsTyped, TimesKept
  <2>4. \A b : VersionOf(b)' = VersionOf(b)  BY DEF VersionOf
  <2>5. Filed  BY DEF IInv
  <2> QED  BY <1>1, <1>12, <2>1, <2>2, <2>3, <2>4, <2>5, CitesKept DEF Filed, Grows, Shown
<1>15. (\A q \in Procs : q # p => job'[q] = job[q]) => \A q \in Procs : q # p => Begun(q)'
  BY <1>1, OthersBegun
<1>16. ASSUME stops = 0 /\ ~overlapped  PROVE \A s \in Sources : Abreast(s)'
  <2>1. Alone(p) /\ \A s \in Sources : ~Ahead(p, s) => Abreast(s)
    BY <1>1, <1>16, RefreshAlone
  <2>2. ASSUME NEW s \in Sources, s # fetch.src  PROVE Abreast(s)'
    <3>1. Abreast(s)  BY <1>7, <2>1, <2>2 DEF Ahead
    <3> QED  BY <1>1, <1>7, <1>10, <2>2, <3>1, AbreastKept
  <2>3. Abreast(fetch.src)'
    <3>1. NewestSuccess(fetch.src)' = NewestSuccess(fetch.src)
      BY <1>1, <1>3, <1>7, NewestKept
    <3>2. status'[fetch.src] = fetch /\ fetch # None  BY <1>3, <1>7, <1>10, OfResult
    <3>3. CASE fetch \in Fresh
      <4> DEFINE F == {Reference(o) : o \in observed[fetch.src] \cap Fresh}
      <4>1. Reference(fetch) \in F  BY <1>2, <1>7, <3>3
      <4>2. ASSUME NEW g \in F, g # Reference(fetch)
            PROVE  g.at \in Nat /\ g.at < Reference(fetch).at
        <5>1. PICK o \in observed[fetch.src] \cap Fresh : g = Reference(o)  BY <4>2
        <5>2. o.at \in Nat /\ g.at = o.at /\ Reference(fetch).at = fetch.at
          BY <3>3, <5>1, Referred, JobBounds DEF Fresh
        <5>3. o.at < i.at \/ o = r
          <6>1. fetch.src \in i.todo  BY <1>1, <1>3, <1>7, Visiting
          <6> QED  BY <1>1, <1>7, <2>1, <5>1, <6>1 DEF Alone, Refreshing
        <5> QED  BY <1>3, <1>7, <4>2, <5>1, <5>2, <5>3
      <4>3. Reference(fetch).at \in Nat  BY <3>3, Referred, JobBounds DEF Fresh
      <4>4. Newest(F) = Reference(fetch)
        <5> HIDE DEF F
        <5> QED  BY <4>1, <4>2, <4>3, NewestIs
      <4>5. LastSuccess(fetch.src)' = Reference(fetch)
        BY <3>2, <3>3 DEF LastSuccess, Reference
      <4> QED  BY <1>7, <3>1, <4>4, <4>5 DEF Abreast, NewestSuccess
    <3>4. CASE fetch \notin Fresh
      <4>1. Abreast(fetch.src)  BY <1>3, <1>7, <2>1, <3>4 DEF Ahead
      <4>2. fetch.last = LastSuccess(fetch.src)
        BY <1>1, <1>3, <1>7, <2>1, <3>4 DEF Alone, Refreshing
      <4>3. LastSuccess(fetch.src)' = fetch.last
        BY <3>2, <3>4 DEF LastSuccess
      <4> QED  BY <1>7, <3>1, <4>1, <4>2, <4>3 DEF Abreast
    <3> QED  BY <3>3, <3>4
  <2> QED  BY <2>2, <2>3
<1>17. CASE job' = [job EXCEPT ![p] = Idle]
  <2>1. job'[p] = Idle /\ \A q \in Procs : q # p => job'[q] = job[q]
    BY <1>17, JobTypesKept DEF IInv, Types
  <2>2. job'[p].cmd # "refresh" /\ job'[p].cmd # "adopt"
    BY <2>1, NoneIsNoCommand DEF Idle
  <2>3. OneFiller'  BY <2>1, <2>2, FillersKept DEF Filling, At
  <2>4. Begun(p)' /\ Held(p)' /\ Alone(p)'  BY <2>2 DEF Begun, At, Held, Alone
  <2> QED
    BY <1>1, <1>11, <1>12, <1>14, <1>15, <1>16, <1>17, <2>1, <2>3, <2>4, RefreshKept
<1>18. CASE todo # {} /\ job' = [job EXCEPT ![p] = j]
  <2>1. j \in RefreshJobs  BY <1>2, <1>5 DEF RefreshJobs
  <2>2. /\ j.cmd = "refresh" /\ j.pc = "read" /\ j.at = i.at /\ j.todo = todo /\ j.cites = cites
    BY <1>2 DEF RefreshJobs
  <2>3. job'[p] = j /\ \A q \in Procs : q # p => job'[q] = job[q]
    BY <1>18, <2>1, JobTypesKept DEF IInv, Types
  <2> HIDE DEF j
  <2>4. OneFiller'  BY <2>2, <2>3, FillersKept DEF Filling, At
  <2>5. Held(p)'  BY <1>1, <1>3, <1>8, <1>13, <1>18, <2>2, <2>3 DEF Held, Onfile
  <2>7. Begun(p)'  BY <2>2, <2>3 DEF Begun, At
  <2>6. ASSUME stops = 0 /\ ~overlapped  PROVE Alone(p)'
    <3>1. Alone(p)  BY <1>1, <2>6, RefreshAlone
    <3>2. ASSUME NEW s \in todo, NEW o \in observed[s]  PROVE o.at < i.at
      <4>1. o.at < i.at \/ o = r  BY <1>1, <3>1, <3>2 DEF Alone, Refreshing
      <4>2. o.src = s  BY <1>2, <1>9, <3>2 DEF FilesTyped, GuidanceTypeOK
      <4> QED  BY <4>1, <4>2
    <3> QED  BY <1>1, <2>2, <2>3, <3>2 DEF Alone
  <2> QED
    BY <1>1, <1>11, <1>12, <1>14, <1>15, <1>16, <1>18, <2>1, <2>3, <2>4, <2>5, <2>6, <2>7, RefreshKept
<1> QED  BY <1>1, <1>17, <1>18
-----------------------------------------------------------------------------
(* apu refresh guidance --adopt, step by step. *)

\* A step of an adoption: only baselines are concerned.
LEMMA AdoptKept ==
    ASSUME IInv, NEW p \in Procs, job[p].cmd \in {None, "adopt"}, NEW j \in AdoptJobs \cup {Idle},
           job' = [job EXCEPT ![p] = j], calls' \in 0..MaxCalls, calls <= calls',
           UNCHANGED <<stops, objectVars, observationVars, status, orders, overlapped,
                       registryVars, audits, moves>>,
           baselines' \cup filled' \cup trusted' \subseteq Baseline, Adopted \subseteq Adopted',
           unfilled' \subseteq SUBSET (Sources \X Contents), current' \in Baseline \cup {None},
           Filed', Begun(p)', Distilled(p)', OneFiller',
           \A q \in Procs : q # p => Begun(q)'
    PROVE  IInv'
<1>1. j \in AllJobs /\ j.cmd \in {None, "adopt"}
  BY CommandOf DEF AllJobs, Idle
<1>2. job'[p] = j /\ \A q \in Procs : q # p => job'[q] = job[q]
  BY <1>1, JobTypesKept DEF IInv, Types, AllJobs
<1>3. FilesTyped'
  <2>1. FilesTyped  BY DEF IInv, Types, TypeOK, FilesTyped
  <2> QED  BY <2>1 DEF FilesTyped, GuidanceTypeOK
<1>4. Grows  BY DEF Grows, Sure
<1>5. Leaves(p)  BY <1>2 DEF Leaves
<1>6. Held(p)'  BY <1>1, <1>2, NoneIsNoCommand DEF Held
<1>7. InOrder'
  <2>1. ~Refreshing(p)' /\ \A s \in Sources : ~Ahead(p, s)
    BY <1>1, <1>2, NoneIsNoCommand DEF Refreshing, Ahead, At
  <2> QED  BY <1>2, <2>1, OrderKept
<1> QED  BY <1>1, <1>3, <1>4, <1>5, <1>6, <1>7, CallsTyped, GuidanceKept

LEMMA BaselinesTyped ==
    IInv => /\ baselines \cup filled \cup trusted \subseteq Baseline
            /\ unfilled \subseteq SUBSET (Sources \X Contents)
            /\ current \in Baseline \cup {None} /\ orders \subseteq SUBSET Success
  BY DEF IInv, Types, TypeOK, GuidanceTypeOK

LEMMA VersionTyped ==
    ASSUME NEW b \in Baseline
    PROVE  VersionOf(b) \in SUBSET (Sources \X Contents)
  BY SuccessFields DEF Baseline, VersionOf

LEMMA BeginAdoptStep ==
    ASSUME IInv, NEW p \in Procs, BeginAdopt(p), UNCHANGED <<registryVars, audits, moves>>
    PROVE  IInv'
<1>1. PICK order \in orders : \E cites \in Citations(order) :
         /\ Begin(p, [cmd |-> "adopt", pc |-> "create",
                      baseline |-> [cites |-> cites, at |-> calls + 1]])
         /\ UNCHANGED guidanceVars
  BY DEF BeginAdopt
<1>2. PICK cites \in Citations(order) :
         /\ Begin(p, [cmd |-> "adopt", pc |-> "create",
                      baseline |-> [cites |-> cites, at |-> calls + 1]])
         /\ UNCHANGED guidanceVars
  BY <1>1
<1> DEFINE b == [cites |-> cites, at |-> calls + 1]
           j == [cmd |-> "adopt", pc |-> "create", baseline |-> b]
<1>3. /\ job[p] = Idle /\ calls < MaxCalls /\ calls' = calls + 1 /\ stops' = stops
      /\ job' = [job EXCEPT ![p] = j]
  BY <1>2 DEF Begin
<1>4. calls' \in 0..MaxCalls /\ calls' \in 1..MaxCalls /\ calls <= calls' /\ calls' \in Nat
  BY <1>3, CallsTyped, JobBounds
<1>5. cites \in SUBSET Success /\ Onfile(cites)
  BY BaselinesTyped DEF Citations, IInv, Filed, Onfile
<1>6. b \in Baseline /\ b.cites = cites  BY <1>3, <1>4, <1>5 DEF Baseline
<1> HIDE DEF b
<1>7. j \in AdoptJobs /\ j.cmd = "adopt" /\ j.pc = "create" /\ j.baseline = b
  BY <1>6 DEF AdoptJobs
<1> HIDE DEF j
<1>8. job'[p] = j /\ \A q \in Procs : q # p => job'[q] = job[q]
  BY <1>3, <1>7, JobTypesKept DEF IInv, Types
<1>9. FilesTyped' /\ Grows /\ Leaves(p) /\ Filed'
  BY <1>2, <1>4, <1>8, FilesKept
<1>10. Onfile(cites)'
  BY <1>2, <1>5, <1>9, OnfileKept DEF Onfile
<1>11. Distilled(p)' /\ Begun(p)'
  BY <1>6, <1>7, <1>8, <1>10 DEF Distilled, Onfile, Begun, At
<1>12. OneFiller'  BY <1>7, <1>8, FillersKept DEF Filling, At
<1>13. job[p].cmd = None  BY <1>3 DEF Idle
<1> QED
  BY <1>2, <1>3, <1>4, <1>7, <1>9, <1>11, <1>12, <1>13, BaselinesTyped, AdoptKept
     DEF guidanceVars, Leaves, Grows

LEMMA Adopting ==
    ASSUME IInv, NEW p \in Procs, job[p].cmd = "adopt"
    PROVE  /\ job[p] \in AdoptJobs /\ job[p].baseline \in Baseline
           /\ Onfile(job[p].baseline.cites) /\ job[p].baseline.cites \in SUBSET Success
           /\ VersionOf(job[p].baseline) \in SUBSET (Sources \X Contents)
           /\ job[p].pc = "fill" => VersionOf(job[p].baseline) \in unfilled
           /\ job[p].pc = "filled" => job[p].baseline \in filled
           /\ job[p].pc = "point" => job[p].baseline \in Adopted
<1>1. job[p] \in AdoptJobs /\ Distilled(p) /\ Begun(p)  BY JobIs DEF IInv, Types
<1>2. job[p].baseline \in Baseline  BY <1>1 DEF AdoptJobs
<1>3. job[p].baseline.cites \in SUBSET Success  BY <1>2 DEF Baseline
<1> QED  BY <1>1, <1>2, <1>3, VersionTyped DEF Distilled, Begun, At

LEMMA CreateBaselineStep ==
    ASSUME IInv, NEW p \in Procs, CreateBaseline(p), UNCHANGED <<registryVars, audits, moves>>
    PROVE  IInv'
<1> DEFINE i == job[p]
           v == VersionOf(i.baseline)
<1>1. /\ i.cmd = "adopt"
      /\ \/ UNCHANGED <<unfilled, trusted>> /\ job' = [job EXCEPT ![p] = Idle]
         \/ /\ unfilled' = unfilled
            /\ \E b \in Kept(v) :
                  /\ job' = [job EXCEPT ![p] = [i EXCEPT !.pc = "point", !.baseline = b]]
                  /\ trusted' = trusted \cup ({b} \cap filled)
         \/ /\ v \notin unfilled /\ Kept(v) = {} /\ unfilled' = unfilled \cup {v}
            /\ trusted' = trusted /\ job' = [job EXCEPT ![p] = [i EXCEPT !.pc = "fill"]]
      /\ UNCHANGED <<calls, stops>>
      /\ UNCHANGED <<object, early, observed, partial, status, orders, baselines, filled, current,
                     overlapped>>
  BY DEF CreateBaseline, At, Goto
<1>2. /\ i \in AdoptJobs /\ Onfile(i.baseline.cites) /\ i.baseline.cites \in SUBSET Success
      /\ v \in SUBSET (Sources \X Contents)
  BY <1>1, Adopting
<1>3. Grows
  <2>1. UNCHANGED <<calls, object, early, observed, baselines>> /\ trusted \subseteq trusted'
    BY <1>1
  <2> QED  BY <2>1, CallsTyped DEF Grows, Sure, Adopted
<1>4. Filed  BY DEF IInv
<1>5. \A b : VersionOf(b)' = VersionOf(b)  BY DEF VersionOf
<1>6. Filed'
  <2>1. \A b \in Shown : VersionOf(b) \notin unfilled'
    <3>1. PICK w : w = v  OBVIOUS
    <3>2. unfilled' = unfilled \/ (Kept(w) = {} /\ unfilled' = unfilled \cup {w})
      BY <1>1, <3>1
    <3>3. CASE unfilled' = unfilled  BY <1>4, <3>3 DEF Filed
    <3>4. CASE Kept(w) = {} /\ unfilled' = unfilled \cup {w}
      <4>1. \A b \in Shown : VersionOf(b) # w  BY <3>4 DEF Kept, Shown
      <4> QED  BY <1>4, <3>4, <4>1 DEF Filed
    <3> QED  BY <3>2, <3>3, <3>4
  <2>2. \A s \in Sources : \A o \in observed'[s] : o.at <= calls'
    BY <1>1, <1>3, CallsTyped, TimesKept
  <2>3. Shown' = Shown  BY <1>1 DEF Shown
  <2> QED  BY <1>1, <1>3, <1>4, <1>5, <2>1, <2>2, <2>3, CitesKept DEF Filed, Grows
<1>7. ASSUME NEW q \in Procs, q # p, job'[q] = job[q]  PROVE Begun(q)'
  <2>1. Begun(q) /\ unfilled \subseteq unfilled' /\ UNCHANGED <<object, filled>>
    BY <1>1 DEF IInv
  <2> QED  BY <1>7, <2>1 DEF Begun, At, VersionOf
<1>8. unfilled' \subseteq SUBSET (Sources \X Contents)
  BY <1>1, <1>2, BaselinesTyped
<1>9. ASSUME NEW j \in AdoptJobs \cup {Idle}, job' = [job EXCEPT ![p] = j],
             Begun(p)', Distilled(p)', OneFiller'
      PROVE  IInv'
  <2>1. \A q \in Procs : q # p => job'[q] = job[q]
    BY <1>9, JobTypesKept DEF IInv, Types
  <2>2. baselines' \cup filled' \cup trusted' \subseteq Baseline  BY <1>1, BaselinesTyped
  <2> QED
    BY <1>1, <1>3, <1>6, <1>7, <1>8, <1>9, <2>1, <2>2, CallsTyped, BaselinesTyped, AdoptKept
       DEF Grows
<1>10. CASE job' = [job EXCEPT ![p] = Idle]
  <2>1. job'[p] = Idle /\ \A q \in Procs : q # p => job'[q] = job[q]
    BY <1>10, JobTypesKept DEF IInv, Types
  <2>2. job'[p].cmd # "refresh" /\ job'[p].cmd # "adopt"
    BY <2>1, NoneIsNoCommand DEF Idle
  <2>3. OneFiller'  BY <2>1, <2>2, FillersKept DEF Filling, At
  <2> QED  BY <1>9, <1>10, <2>2, <2>3 DEF Distilled, Begun, At
<1>11. ASSUME NEW b \in Kept(v), trusted' = trusted \cup ({b} \cap filled),
              job' = [job EXCEPT ![p] = [i EXCEPT !.pc = "point", !.baseline = b]]
       PROVE  IInv'
  <2> DEFINE j == [i EXCEPT !.pc = "point", !.baseline = b]
  <2>1. b \in Shown /\ b \in Baseline  BY <1>11, BaselinesTyped DEF Kept, Shown
  <2>2. j \in AdoptJobs /\ j.cmd = "adopt" /\ j.pc = "point" /\ j.baseline = b
    BY <1>2, <2>1 DEF AdoptJobs
  <2> HIDE DEF j
  <2>3. job' = [job EXCEPT ![p] = j]  BY <1>11 DEF j
  <2>4. job'[p] = j /\ \A q \in Procs : q # p => job'[q] = job[q]
    BY <2>2, <2>3, JobTypesKept DEF IInv, Types
  <2>5. Onfile(b.cites)'  BY <1>3, <2>1, CitesKept
  <2>6. Distilled(p)' /\ Begun(p)'
    <3>1. b \in Adopted'  BY <1>1, <1>11, <2>1 DEF Shown, Adopted
    <3> QED  BY <2>2, <2>4, <2>5, <3>1 DEF Distilled, Onfile, Begun, At
  <2>7. OneFiller'  BY <2>2, <2>4, FillersKept DEF Filling, At
  <2> QED  BY <1>9, <2>2, <2>3, <2>6, <2>7
<1>12. CASE /\ v \notin unfilled /\ Kept(v) = {} /\ unfilled' = unfilled \cup {v}
            /\ job' = [job EXCEPT ![p] = [i EXCEPT !.pc = "fill"]]
  <2> DEFINE j == [i EXCEPT !.pc = "fill"]
  <2>1. j \in AdoptJobs /\ j.cmd = "adopt" /\ j.pc = "fill" /\ j.baseline = i.baseline
    BY <1>2 DEF AdoptJobs
  <2> HIDE DEF j
  <2>2. job' = [job EXCEPT ![p] = j]  BY <1>12 DEF j
  <2>3. job'[p] = j /\ \A q \in Procs : q # p => job'[q] = job[q]
    BY <2>1, <2>2, JobTypesKept DEF IInv, Types
  <2>4. PICK b : b = i.baseline  OBVIOUS
  <2>5. VersionOf(b) \in unfilled' /\ VersionOf(b) \notin unfilled
    BY <1>12, <2>4
  <2>6. Onfile(b.cites)'
    <3>1. Onfile(b.cites) /\ b.cites \in SUBSET Success  BY <1>2, <2>4
    <3> QED  BY <1>3, <3>1, OnfileKept
  <2>7. Distilled(p)' /\ Begun(p)'
    BY <1>5, <2>1, <2>3, <2>4, <2>5, <2>6 DEF Distilled, Onfile, Begun, At, VersionOf
  <2>8. OneFiller'
    <3>1. ASSUME NEW q \in Procs, q # p, Filling(q, "adopt")
          PROVE  VersionOf(job[q].baseline) # VersionOf(b)
      <4>1. VersionOf(job[q].baseline) \in unfilled \/ job[q].baseline \in filled
        BY <3>1, Adopting DEF Filling, At
      <4>2. \A c \in filled : VersionOf(c) # VersionOf(b)  BY <1>12, <2>4 DEF Kept
      <4> QED  BY <2>5, <4>1, <4>2
    <3>2. VersionOf(job[p].baseline)' = VersionOf(b)  BY <2>1, <2>3, <2>4 DEF VersionOf
    <3>3. \A q \in Procs : q # p => VersionOf(job[q].baseline)' = VersionOf(job[q].baseline)
      BY <2>3 DEF VersionOf
    <3> QED  BY <2>1, <2>3, <3>1, <3>2, <3>3 DEF IInv, OneFiller, Filling, At
  <2> QED  BY <1>9, <2>1, <2>2, <2>7, <2>8
<1> QED  BY <1>1, <1>10, <1>11, <1>12

\* What becomes of a baseline whose writer goes on is no other writer's.
LEMMA BaselineBegun ==
    ASSUME IInv, NEW p \in Procs, Filling(p, "adopt"), object' = object,
           unfilled \ {VersionOf(job[p].baseline)} \subseteq unfilled',
           filled \ {job[p].baseline} \subseteq filled',
           NEW q \in Procs, q # p, job'[q] = job[q]
    PROVE  Begun(q)'
<1>1. Begun(q)  BY DEF IInv
<1>2. Filling(q, "adopt") => VersionOf(job[q].baseline) # VersionOf(job[p].baseline)
  BY DEF IInv, OneFiller
<1>3. VersionOf(job[q].baseline)' = VersionOf(job[q].baseline)  BY DEF VersionOf
<1>4. Filling(q, "adopt") => job[q].baseline # job[p].baseline  BY <1>2
<1> QED  BY <1>1, <1>2, <1>3, <1>4 DEF Begun, Filling, At

LEMMA FillBaselineStep ==
    ASSUME IInv, NEW p \in Procs, FillBaseline(p), UNCHANGED <<registryVars, audits, moves>>
    PROVE  IInv'
<1> DEFINE i == job[p]
           j == [i EXCEPT !.pc = "filled"]
<1>1. PICK b : b = i.baseline  OBVIOUS
<1>2. PICK v : v = VersionOf(b)  OBVIOUS
<1>3. /\ i.cmd = "adopt" /\ i.pc = "fill"
      /\ unfilled' = unfilled \ {v} /\ filled' = filled \cup {b}
      /\ job' = [job EXCEPT ![p] = j]
      /\ UNCHANGED <<calls, stops>>
      /\ UNCHANGED <<object, early, observed, partial, status, orders, baselines, trusted, current,
                     overlapped>>
  BY <1>1, <1>2 DEF FillBaseline, At, Goto
<1>4. /\ i \in AdoptJobs /\ b \in Baseline /\ Onfile(b.cites) /\ b.cites \in SUBSET Success
      /\ v \in unfilled
  BY <1>1, <1>2, <1>3, Adopting
<1>5. Grows  BY <1>3, CallsTyped DEF Grows, Sure, Adopted
<1>6. \A c : VersionOf(c)' = VersionOf(c)  BY DEF VersionOf
<1>7. Filed  BY DEF IInv
<1>8. Filed'
  <2>1. \A c \in Shown : VersionOf(c) \notin unfilled /\ VersionOf(c) # v
    BY <1>4, <1>7 DEF Filed
  <2>2. Shown' = Shown \cup {b}  BY <1>3 DEF Shown
  <2>3. \A c \in Shown' : VersionOf(c) \notin unfilled'
    BY <1>2, <1>3, <2>1, <2>2
  <2>4. \A c, d \in Shown' : VersionOf(c) = VersionOf(d) => c = d
    BY <1>2, <1>7, <2>1, <2>2 DEF Filed
  <2>5. \A c \in Shown' : Onfile(c.cites)'
    <3>1. Onfile(b.cites)'  BY <1>4, <1>5, OnfileKept
    <3> QED  BY <1>5, <2>2, <3>1, CitesKept
  <2>6. \A s \in Sources : \A o \in observed'[s] : o.at <= calls'
    BY <1>3, <1>5, CallsTyped, TimesKept
  <2>7. \A s \in Sources : status'[s] # None => Onfile(Cited(status[s]))'
    BY <1>3, <1>5, CitesKept
  <2> QED  BY <1>3, <1>5, <1>6, <1>7, <2>3, <2>4, <2>5, <2>6, <2>7, CitesKept DEF Filed, Grows
<1>10. j \in AdoptJobs /\ j.cmd = "adopt" /\ j.pc = "filled" /\ j.baseline = b
  BY <1>1, <1>4 DEF AdoptJobs
<1> HIDE DEF j
<1>11. job'[p] = j /\ \A q \in Procs : q # p => job'[q] = job[q]
  BY <1>3, <1>10, JobTypesKept DEF IInv, Types
<1>9. \A q \in Procs : q # p => Begun(q)'
  BY <1>1, <1>2, <1>3, <1>11, BaselineBegun DEF Filling, At
<1>12. Onfile(b.cites)'  BY <1>4, <1>5, OnfileKept
<1>13. Distilled(p)' /\ Begun(p)'
  BY <1>3, <1>10, <1>11, <1>12 DEF Distilled, Onfile, Begun, At
<1>14. OneFiller'  BY <1>1, <1>3, <1>10, <1>11, FillersKept DEF Filling, At
<1>15. baselines' \cup filled' \cup trusted' \subseteq Baseline  BY <1>3, <1>4, BaselinesTyped
<1> QED
  BY <1>3, <1>4, <1>5, <1>8, <1>9, <1>10, <1>13, <1>14, <1>15, CallsTyped, BaselinesTyped, AdoptKept
     DEF Grows

LEMMA PointCurrentStep ==
    ASSUME IInv, NEW p \in Procs, PointCurrent(p), UNCHANGED <<registryVars, audits, moves>>
    PROVE  IInv'
<1>1. PICK b : b = job[p].baseline  OBVIOUS
<1>2. /\ job[p].cmd = "adopt" /\ job[p].pc = "point" /\ current' = b
      /\ job' = [job EXCEPT ![p] = Idle]
      /\ UNCHANGED <<calls, stops>>
      /\ UNCHANGED <<object, early, observed, partial, status, orders, baselines, unfilled,
                     filled, trusted, overlapped>>
  BY <1>1 DEF PointCurrent, At, Goto
<1>3. b \in Baseline /\ b \in Adopted  BY <1>1, <1>2, Adopting
<1>4. Grows  BY <1>2, CallsTyped DEF Grows, Sure, Adopted
<1>5. Filed'
  <2>1. \A c : VersionOf(c)' = VersionOf(c)  BY DEF VersionOf
  <2>2. \A s \in Sources : \A o \in observed'[s] : o.at <= calls'
    BY <1>2, <1>4, CallsTyped, TimesKept
  <2>3. Filed  BY DEF IInv
  <2>4. Shown' = Shown  BY <1>2 DEF Shown
  <2> QED  BY <1>2, <1>3, <1>4, <2>1, <2>2, <2>3, <2>4, CitesKept DEF Filed, Grows
<1>6. job'[p] = Idle /\ \A q \in Procs : q # p => job'[q] = job[q]
  BY <1>2, JobTypesKept DEF IInv, Types
<1>7. job'[p].cmd # "refresh" /\ job'[p].cmd # "adopt"
  BY <1>6, NoneIsNoCommand DEF Idle
<1>8. OneFiller'  BY <1>6, <1>7, FillersKept DEF Filling, At
<1>9. Distilled(p)' /\ Begun(p)'  BY <1>7 DEF Distilled, Begun, At
<1>10. \A q \in Procs : q # p => Begun(q)'  BY <1>2, <1>6, OthersBegun
<1> QED
  BY <1>2, <1>3, <1>4, <1>5, <1>8, <1>9, <1>10, CallsTyped, BaselinesTyped, AdoptKept DEF Grows

-----------------------------------------------------------------------------
(* The end of a write. *)

LEMMA SettleKept ==
    ASSUME IInv, NEW p \in Procs, Settle(p), calls' = calls,
           \A q \in Procs : q # p => job'[q] = job[q]
    PROVE  /\ FilesTyped' /\ Grows /\ Shown' = Shown
           /\ UNCHANGED <<observed, status, orders, unfilled, current, overlapped>>
           /\ \A q \in Procs : q # p => Begun(q)'
<1>1. UNCHANGED <<observed, partial, status, orders, unfilled, current, overlapped>>
  BY DEF Settle
<1>2. FilesTyped /\ baselines \cup filled \cup trusted \subseteq Baseline
  BY BaselinesTyped DEF IInv, Types, TypeOK, FilesTyped
<1>3. object \in [Contents -> {"absent", "partial", "filled", "whole"}] /\ early \subseteq Contents
  BY <1>2 DEF FilesTyped, GuidanceTypeOK
<1>4. CASE At(p, "refresh", "filled")
  <2>1. PICK h : h = job[p].result.hash  OBVIOUS
  <2>2. h \in Contents
    BY <1>4, <2>1, ResultHeld DEF At, Refreshing
  <2>3. /\ object' = [object EXCEPT ![h] = "whole"] /\ early' = early \ {h}
        /\ UNCHANGED <<baselines, filled, trusted>>
    BY <1>4, <2>1 DEF Settle, At
  <2>4. /\ object' \in [Contents -> {"absent", "partial", "filled", "whole"}]
        /\ object'[h] = "whole" /\ \A g \in Contents : g # h => object'[g] = object[g]
    BY <1>3, <2>2, <2>3
  <2>5. FilesTyped'  BY <1>1, <1>2, <1>3, <2>3, <2>4 DEF FilesTyped, GuidanceTypeOK
  <2>6. \A g \in Contents : Sure(g) => Sure(g)'  BY <2>3, <2>4 DEF Sure
  <2>7. Grows  BY <1>1, <2>3, <2>6, CallsTyped DEF Grows, Adopted
  <2>8. \A q \in Procs : q # p => Begun(q)'
    BY <1>1, <1>4, <2>1, <2>3, <2>4, ObjectBegun DEF Filling
  <2> QED  BY <1>1, <2>3, <2>5, <2>7, <2>8 DEF Shown
<1>5. CASE At(p, "adopt", "filled")
  <2>1. PICK b : b = job[p].baseline  OBVIOUS
  <2>2. b \in filled /\ b \in Baseline
    BY <1>5, <2>1, Adopting DEF At
  <2>3. /\ baselines' = baselines \cup {b} /\ filled' = filled \ {b} /\ trusted' = trusted \ {b}
        /\ UNCHANGED <<object, early>>
    BY <1>5, <2>1 DEF Settle, At
  <2>4. FilesTyped'  BY <1>1, <1>2, <2>2, <2>3 DEF FilesTyped, GuidanceTypeOK
  <2>5. Grows  BY <1>1, <2>3, CallsTyped DEF Grows, Sure, Adopted
  <2>6. Shown' = Shown  BY <2>2, <2>3 DEF Shown
  <2>7. \A q \in Procs : q # p => Begun(q)'
    BY <1>1, <1>5, <2>1, <2>3, BaselineBegun DEF Filling
  <2> QED  BY <1>1, <2>4, <2>5, <2>6, <2>7
<1>6. CASE ~At(p, "refresh", "filled") /\ ~At(p, "adopt", "filled")
  <2>1. UNCHANGED <<object, early, baselines, filled, trusted>>
    BY <1>6 DEF Settle
  <2>2. FilesTyped'  BY <1>1, <1>2, <2>1 DEF FilesTyped, GuidanceTypeOK
  <2> QED  BY <1>1, <2>1, <2>2, CallsTyped, OthersBegun DEF Grows, Sure, Adopted, Shown
<1> QED  BY <1>4, <1>5, <1>6

LEMMA SyncedStep ==
    ASSUME IInv, NEW p \in Procs, Synced(p), UNCHANGED <<registryVars, audits, moves>>
    PROVE  IInv'
<1>1. CASE At(p, "refresh", "filled")  BY <1>1, SyncedObjectStep
<1>2. CASE At(p, "adopt", "filled")
  <2> DEFINE i == job[p]
             j == [i EXCEPT !.pc = "point"]
  <2>1. PICK b : b = i.baseline  OBVIOUS
  <2>2. /\ i.cmd = "adopt" /\ i.pc = "filled" /\ job' = [job EXCEPT ![p] = j]
        /\ UNCHANGED <<calls, stops>> /\ Settle(p)
        /\ UNCHANGED <<object, early, partial>>
        /\ baselines' = baselines \cup {b}
    BY <1>2, <2>1 DEF Synced, Settle, At, Goto
  <2>3. i \in AdoptJobs /\ b.cites \in SUBSET Success /\ Onfile(b.cites)
    BY <2>1, <2>2, Adopting
  <2>4. j \in AdoptJobs /\ j.cmd = "adopt" /\ j.pc = "point" /\ j.baseline = b
    BY <2>1, <2>3 DEF AdoptJobs
  <2> HIDE DEF j
  <2>5. job'[p] = j /\ \A q \in Procs : q # p => job'[q] = job[q]
    BY <2>2, <2>4, JobTypesKept DEF IInv, Types
  <2>6. /\ FilesTyped' /\ Grows /\ Shown' = Shown
        /\ UNCHANGED <<observed, status, orders, unfilled, current, overlapped>>
        /\ \A q \in Procs : q # p => Begun(q)'
    BY <2>2, <2>5, SettleKept
  <2>7. Filed'  BY <2>2, <2>6, CallsTyped, FiledKept
  <2>8. Onfile(b.cites)'  BY <2>3, <2>6, OnfileKept
  <2>9. Distilled(p)' /\ Begun(p)'
    BY <2>2, <2>4, <2>5, <2>8 DEF Distilled, Onfile, Begun, At, Adopted
  <2>10. OneFiller'  BY <2>4, <2>5, FillersKept DEF Filling, At
  <2>11. baselines' \cup filled' \cup trusted' \subseteq Baseline
         /\ unfilled' \subseteq SUBSET (Sources \X Contents) /\ current' \in Baseline \cup {None}
    BY <2>6 DEF FilesTyped, GuidanceTypeOK
  <2> QED
    BY <2>2, <2>4, <2>6, <2>7, <2>9, <2>10, <2>11, CallsTyped, AdoptKept DEF Grows
<1> QED  BY <1>1, <1>2 DEF Synced

\* A command that ends, with what its own file was settled or taken away.
LEMMA EndKept ==
    ASSUME IInv, NEW p \in Procs, job' = [job EXCEPT ![p] = Idle],
           calls' = calls, stops < MaxStops, stops' = stops + 1,
           UNCHANGED <<observed, status, orders, current, overlapped, registryVars, audits, moves>>,
           FilesTyped', Grows, Shown' \subseteq Shown, unfilled' \subseteq unfilled,
           \A q \in Procs : q # p => Begun(q)'
    PROVE  IInv'
<1>1. job'[p] = Idle /\ \A q \in Procs : q # p => job'[q] = job[q]
  BY JobTypesKept DEF IInv, Types
<1>2. job'[p].cmd # "refresh" /\ job'[p].cmd # "adopt"
  BY <1>1, NoneIsNoCommand DEF Idle
<1>3. Leaves(p)  BY <1>1 DEF Leaves
<1>4. Filed'  BY CallsTyped, FiledKept
<1>5. OneFiller'  BY <1>1, <1>2, FillersKept DEF Filling, At
<1>6. Begun(p)' /\ Held(p)' /\ Distilled(p)'  BY <1>2 DEF Begun, At, Held, Distilled
<1>7. stops' \in 0..MaxStops /\ stops' # 0  BY CallsTyped, JobBounds
<1>8. InOrder'  BY <1>7 DEF InOrder
<1>9. Idle \in AllJobs /\ Idle.cmd \in {None, "refresh", "adopt"}
  BY DEF AllJobs, Idle
<1> QED  BY <1>3, <1>4, <1>5, <1>6, <1>7, <1>8, <1>9, CallsTyped, GuidanceKept

LEMMA GuidanceDiesStep ==
    ASSUME IInv, NEW p \in Procs, GuidanceDies(p), UNCHANGED <<registryVars, audits, moves>>
    PROVE  IInv'
<1>1. /\ job' = [job EXCEPT ![p] = Idle] /\ calls' = calls
      /\ stops < MaxStops /\ stops' = stops + 1 /\ Settle(p)
  BY DEF GuidanceDies, Die
<1>2. \A q \in Procs : q # p => job'[q] = job[q]
  BY <1>1, JobTypesKept DEF IInv, Types
<1>3. /\ FilesTyped' /\ Grows /\ Shown' = Shown
      /\ UNCHANGED <<observed, status, orders, unfilled, current, overlapped>>
      /\ \A q \in Procs : q # p => Begun(q)'
  BY <1>1, <1>2, SettleKept
<1> QED  BY <1>1, <1>3, EndKept

LEMMA WriteFailsStep ==
    ASSUME IInv, NEW p \in Procs, WriteFails(p), UNCHANGED <<registryVars, audits, moves>>
    PROVE  IInv'
<1>1. /\ job' = [job EXCEPT ![p] = Idle] /\ calls' = calls
      /\ stops < MaxStops /\ stops' = stops + 1
      /\ UNCHANGED <<observed, status, orders, baselines, current, overlapped, early, trusted>>
  BY DEF WriteFails
<1>2. FilesTyped  BY DEF IInv, Types, TypeOK, FilesTyped
<1>3. \A q \in Procs : q # p => job'[q] = job[q]
  BY <1>1, JobTypesKept DEF IInv, Types
<1>4. CASE /\ Filling(p, "refresh")
           /\ object' = [object EXCEPT ![job[p].result.hash] = "absent"]
           /\ UNCHANGED <<partial, unfilled, filled>>
  <2>1. PICK h : h = job[p].result.hash  OBVIOUS
  <2>2. h \in Contents /\ object[h] # "whole"
    <3>1. Refreshing(p) /\ job[p].pc \in {"fill", "filled"} /\ Begun(p)
      BY <1>4 DEF Filling, At, Refreshing, IInv
    <3> QED  BY <1>4, <2>1, <3>1, ResultHeld DEF Begun, Filling
  <2>3. /\ object' \in [Contents -> {"absent", "partial", "filled", "whole"}]
        /\ \A g \in Contents : g # h => object'[g] = object[g]
    <3>1. object \in [Contents -> {"absent", "partial", "filled", "whole"}]
      BY <1>2 DEF FilesTyped, GuidanceTypeOK
    <3> QED  BY <1>4, <2>1, <3>1
  <2>4. FilesTyped'  BY <1>1, <1>2, <1>4, <2>3 DEF FilesTyped, GuidanceTypeOK
  <2>5. \A g \in Contents : Sure(g) => Sure(g)'  BY <1>1, <2>2, <2>3 DEF Sure
  <2>6. Grows  BY <1>1, <2>5, CallsTyped DEF Grows, Adopted
  <2>7. \A q \in Procs : q # p => Begun(q)'  BY <1>3, <1>4, <2>1, <2>3, ObjectBegun
  <2> QED  BY <1>1, <1>4, <2>4, <2>6, <2>7, EndKept DEF Shown
<1>5. CASE /\ At(p, "refresh", "record")
           /\ partial' = [partial EXCEPT ![job[p].result.src] = @ \ {job[p].result}]
           /\ UNCHANGED <<object, unfilled, filled>>
  <2>1. \A s \in Sources : partial'[s] \subseteq partial[s]  BY <1>2, <1>5 DEF FilesTyped
  <2>2. FilesTyped'  BY <1>1, <1>2, <1>5, <2>1 DEF FilesTyped, GuidanceTypeOK
  <2>3. Grows  BY <1>1, <1>5, CallsTyped DEF Grows, Sure, Adopted
  <2>4. \A q \in Procs : q # p => Begun(q)'  BY <1>3, <1>5, OthersBegun
  <2> QED  BY <1>1, <1>5, <2>2, <2>3, <2>4, EndKept DEF Shown
<1>6. CASE /\ Filling(p, "adopt")
           /\ unfilled' = unfilled \ {VersionOf(job[p].baseline)}
           /\ filled' = filled \ {job[p].baseline}
           /\ UNCHANGED <<object, partial>>
  <2>1. unfilled' \subseteq unfilled /\ filled' \subseteq filled  BY <1>6
  <2>2. FilesTyped'  BY <1>1, <1>2, <1>6, <2>1 DEF FilesTyped, GuidanceTypeOK
  <2>3. Grows  BY <1>1, <1>6, CallsTyped DEF Grows, Sure, Adopted
  <2>4. Shown' \subseteq Shown  BY <1>1, <2>1 DEF Shown
  <2>5. \A q \in Procs : q # p => Begun(q)'  BY <1>3, <1>6, BaselineBegun
  <2> QED  BY <1>1, <2>1, <2>2, <2>3, <2>4, <2>5, EndKept
<1> QED  BY <1>4, <1>5, <1>6 DEF WriteFails, Filling
-----------------------------------------------------------------------------
(* The model registry. *)

LEMMA ObservedTyped ==
    ASSUME IInv
    PROVE  Observed \in [Runtimes -> Observation]
<1> SUFFICES ASSUME NEW rt \in Runtimes PROVE Observed[rt] \in Observation
  BY DEF Observed
<1>1. local[rt] \in Setups
  BY DEF IInv, Types, TypeOK, RegistryTypeOK, Setups
<1> QED  BY <1>1 DEF Observed, Observation

LEMMA LoadedTyped ==
    ASSUME IInv
    PROVE  Loaded \in Registry
<1>1. EmptyRegistry \in Registry  BY DEF EmptyRegistry, Registry
<1> QED  BY <1>1 DEF Loaded, IInv, Types, TypeOK, RegistryTypeOK

LEMMA EntryTyped ==
    ASSUME NEW registry \in Registry, NEW rt \in Runtimes
    PROVE  EntryOf(registry, rt) \in Entry \cup {None}
  BY DEF Registry, EntryOf

LEMMA DegradedTyped ==
    ASSUME NEW previous \in Entry \cup {None}, NEW obs \in Observation
    PROVE  /\ MatchingPrevious(previous, obs) \in Resolution \cup {None}
           /\ previous = None => MatchingPrevious(previous, obs) = None
           /\ DegradedEntry(obs, previous) \in Entry
           /\ DegradedEntry(obs, previous).status # "current"
           /\ DegradedEntry(obs, previous).known = LastKnown(previous)
<1>1. LastKnown(previous) \in Resolution \cup {None}  BY DEF LastKnown, Entry
<1>2. MatchingPrevious(previous, obs) \in Resolution \cup {None}
  <2>1. CASE previous = None \/ previous.obs.provider # obs.provider
    BY <2>1 DEF MatchingPrevious
  <2>2. CASE ~ (previous = None \/ previous.obs.provider # obs.provider)
    <3>1. previous.resolution \in Resolution \cup {None} /\ previous.known \in Resolution \cup {None}
      BY <2>2 DEF Entry
    <3>2. MatchingPrevious(previous, obs) \in {previous.resolution, previous.known, None}
      BY <2>2 DEF MatchingPrevious
    <3> QED  BY <3>1, <3>2
  <2> QED  BY <2>1, <2>2
<1>3. previous = None => MatchingPrevious(previous, obs) = None  BY DEF MatchingPrevious
<1> HIDE DEF MatchingPrevious, LastKnown
<1> QED  BY <1>1, <1>2, <1>3 DEF DegradedEntry, Entry

LEMMA RefreshedTyped ==
    ASSUME NEW previous \in Entry \cup {None}, NEW obs \in Observation,
           NEW listing \in Listings \cup {None}, NEW at \in 1..MaxCalls
    PROVE  LET e == RefreshedEntry(obs, previous, listing, at)
           IN /\ e \in Entry
              /\ e.status # "current" => e.known = LastKnown(previous)
              /\ e.status = "current" => e.known = e.resolution /\ e.resolution.at = at
<1> DEFINE model == Resolved(listing, obs.alias)
<1>1. CASE obs.provider \notin Listed \/ listing = None \/ model = None
  <2>1. RefreshedEntry(obs, previous, listing, at) = DegradedEntry(obs, previous)
    BY <1>1 DEF RefreshedEntry
  <2> QED  BY <2>1, DegradedTyped
<1>2. CASE ~ (obs.provider \notin Listed \/ listing = None \/ model = None)
  <2> DEFINE r == [provider |-> obs.provider, alias |-> obs.alias, model |-> model, at |-> at]
  <2>1. listing \in Listings /\ model # None  BY <1>2
  <2>2. model \in Models
    <3>1. \/ obs.alias \in DOMAIN listing.aliases /\ model = listing.aliases[obs.alias]
          \/ obs.alias \in listing.ids /\ model = obs.alias
      BY <2>1 DEF Resolved
    <3> QED  BY <2>1, <3>1 DEF Models
  <2> HIDE DEF model
  <2>3. r \in Resolution /\ r.at = at  BY <2>2 DEF Resolution, Observation
  <2>4. RefreshedEntry(obs, previous, listing, at) = CurrentEntry(obs, r)
    BY <1>2 DEF RefreshedEntry, model
  <2> HIDE DEF r
  <2>5. CurrentEntry(obs, r) \in Entry  BY <2>3 DEF CurrentEntry, Entry
  <2> QED  BY <2>3, <2>4, <2>5 DEF CurrentEntry
<1> QED  BY <1>1, <1>2

LEMMA ReconciledEntryTyped ==
    ASSUME NEW previous \in Entry \cup {None}, NEW obs \in Observation
    PROVE  LET e == ReconciledEntry(previous, obs)
           IN /\ e \in Entry
              /\ e.status = "current" => previous # None /\ e = previous
<1> DEFINE same == LocalObservationMatches(previous, obs)
           kept == IF same THEN MatchingPrevious(previous, obs) ELSE None
           d == DegradedEntry(obs, previous)
<1>1. kept # None => previous # None /\ previous \in Entry  BY DegradedTyped
<1>2. d \in Entry /\ d.status # "current"  BY DegradedTyped
<1>3. ReconciledEntry(previous, obs) =
         IF kept # None /\ previous.resolution = kept THEN previous
         ELSE IF same THEN d ELSE [d EXCEPT !.resolution = None, !.status = "unverified"]
  BY DEF ReconciledEntry
<1> HIDE DEF d, kept, same
<1>4. [d EXCEPT !.resolution = None, !.status = "unverified"] \in Entry
      /\ [d EXCEPT !.resolution = None, !.status = "unverified"].status # "current"
  BY <1>2 DEF Entry
<1> QED  BY <1>1, <1>2, <1>3, <1>4

LEMMA SummaryTyped ==
    ASSUME NEW prior \in Registry, NEW models \in [Runtimes -> Entry],
           NEW attempted \in 1..MaxCalls \cup {None}, NEW succeeded \in 1..MaxCalls \cup {None}
    PROVE  /\ Summary(prior, models, attempted, succeeded) \in Registry
           /\ Summary(prior, models, attempted, succeeded).models = models
           /\ Summary(prior, models, attempted, succeeded).models # None
           /\ Summary(prior, models, attempted, succeeded).attempted = attempted
           /\ Summary(prior, models, attempted, succeeded).known =
                  IF Generation(models) # {} THEN Generation(models) ELSE prior.known
<1> DEFINE Known == SUBSET ({c.provider : c \in Setups} \X Runtimes \X Models)
<1>1. Identities(models) \in Known
  <2> SUFFICES ASSUME NEW rt \in Runtimes, models[rt].resolution # None
               PROVE  IdentityOf(rt, models[rt].resolution)
                          \in {c.provider : c \in Setups} \X Runtimes \X Models
    BY DEF Identities
  <2>1. models[rt].resolution \in Resolution  BY DEF Entry
  <2> QED  BY <2>1 DEF IdentityOf, Resolution
<1>2. Generation(models) \in Known  BY <1>1 DEF Generation
<1>3. prior.known \in Known  BY DEF Registry
<1>4. StatusOf(models) \in {"current", "degraded", "unverified"}  BY DEF StatusOf
<1>5. models # None  BY NoneIsNoEntry
<1> HIDE DEF Generation, StatusOf
<1> QED  BY <1>2, <1>3, <1>4, <1>5 DEF Summary, Registry

\* An audit's registry is as well bound as the one it was reconciled with.
LEMMA ReconciledBound ==
    ASSUME NEW prior \in Registry, NEW obs \in [Runtimes -> Observation]
    PROVE  /\ Reconciled(prior, obs) \in Registry
           /\ Bound(prior) /\ Valid(Reconciled(prior, obs)) => Bound(Reconciled(prior, obs))
<1> DEFINE models == [rt \in Runtimes |-> ReconciledEntry(EntryOf(prior, rt), obs[rt])]
           summary == Summary(prior, models, prior.attempted, prior.succeeded)
<1>1. \A rt \in Runtimes :
         /\ models[rt] \in Entry
         /\ models[rt].status = "current" =>
               EntryOf(prior, rt) # None /\ models[rt] = EntryOf(prior, rt)
  BY EntryTyped, ReconciledEntryTyped
<1>2. models \in [Runtimes -> Entry]  BY <1>1
<1>3. Reconciled(prior, obs) = IF models = prior.models THEN prior ELSE summary
  BY DEF Reconciled
<1> HIDE DEF models
<1>4. prior.attempted \in 1..MaxCalls \cup {None} /\ prior.succeeded \in 1..MaxCalls \cup {None}
  BY DEF Registry
<1>5. summary \in Registry /\ summary.models = models /\ summary.attempted = prior.attempted
      /\ summary.models # None
  <2>1. PICK a \in 1..MaxCalls \cup {None}, b \in 1..MaxCalls \cup {None} :
            a = prior.attempted /\ b = prior.succeeded
    BY <1>4
  <2>2. summary = Summary(prior, models, a, b)  BY <2>1
  <2>3. /\ Summary(prior, models, a, b) \in Registry
        /\ Summary(prior, models, a, b).models = models
        /\ Summary(prior, models, a, b).attempted = a
        /\ Summary(prior, models, a, b).models # None
    BY <1>2, SummaryTyped
  <2> QED  BY <2>1, <2>2, <2>3
<1> HIDE DEF summary
<1>6. ASSUME Bound(prior), Valid(summary)  PROVE Bound(summary)
  <2> SUFFICES ASSUME NEW rt \in Runtimes, models[rt].resolution # None
               PROVE  /\ models[rt].resolution.provider = models[rt].obs.provider
                      /\ models[rt].resolution.alias = models[rt].obs.alias
                      /\ models[rt].status = "current" =>
                             models[rt].resolution.at = prior.attempted
    BY <1>5 DEF Bound
  <2>1. ValidEntry(models[rt])  BY <1>5, <1>6 DEF Valid
  <2>2. models[rt].status = "current" =>
            prior.models # None /\ models[rt] = prior.models[rt]
    BY <1>1 DEF EntryOf
  <2> QED  BY <1>6, <2>1, <2>2 DEF ValidEntry, Bound
<1> QED  BY <1>3, <1>5, <1>6
-----------------------------------------------------------------------------
(* apu refresh models and apu system audit, step by step. *)

\* A step that leaves the guidance alone.
LEMMA ElsewhereKept ==
    ASSUME IInv, NEW p \in Procs, NEW j \in ModelsJobs \cup StampJobs \cup PolicyJobs \cup {Idle},
           job' = [job EXCEPT ![p] = j], job[p].cmd \in {None, "models", "audit"},
           calls' \in 0..MaxCalls, calls <= calls', stops' = stops, UNCHANGED guidanceVars,
           Types', Auditing(p)', Audited', Saved'
    PROVE  IInv'
<1>1. j.cmd \in {None, "models", "audit"}  BY CommandOf DEF AllJobs, Idle
<1>2. job'[p] = j /\ \A q \in Procs : q # p => job'[q] = job[q]
  BY JobTypesKept DEF IInv, Types
<1>3. calls' \in Nat  BY JobBounds
<1>4. FilesTyped' /\ Grows /\ Leaves(p) /\ Filed'  BY <1>2, <1>3, FilesKept
<1>5. ~Refreshing(p) /\ job'[p].cmd # "refresh" /\ job'[p].cmd # "adopt"
  BY <1>1, <1>2, NoneIsNoCommand DEF Refreshing
<1>6. OneFiller'  BY <1>2, <1>5, FillersKept DEF Filling, At
<1>7. InOrder'
  <2>1. \A s \in Sources : ~Ahead(p, s)  BY <1>5 DEF Ahead, At, Refreshing
  <2> QED  BY <1>2, <1>5, <2>1, OrderKept DEF guidanceVars, Refreshing
<1>8. Begun(p)' /\ Held(p)' /\ Distilled(p)'  BY <1>5 DEF Begun, At, Held, Distilled
<1>9. \A q \in Procs : Begun(q)' /\ Held(q)' /\ Distilled(q)' /\ Auditing(q)'
  BY <1>3, <1>4, <1>8, OthersKept
<1> QED  BY <1>4, <1>6, <1>7, <1>9 DEF IInv

\* The types, after such a step.
LEMMA ElsewhereTyped ==
    ASSUME IInv, NEW p \in Procs, NEW j \in ModelsJobs \cup StampJobs \cup PolicyJobs \cup {Idle},
           job' = [job EXCEPT ![p] = j], calls' \in 0..MaxCalls, calls <= calls', stops' = stops,
           UNCHANGED guidanceVars, UNCHANGED <<local, moves>>,
           pointer' \in Registry \cup {None}, resolved' \in [Runtimes -> Resolution \cup {None}],
           raced' \in BOOLEAN,
           \A a \in audits' : /\ a.registry \in Registry
                              /\ {a.baseline, a.used} \subseteq Baseline \cup {None}
                              /\ a.stamp = "unconfigured" <=> a.baseline = None
    PROVE  Types'
<1>1. JobTypes' /\ \A q \in Procs : q # p => job'[q] = job[q]
  BY JobTypesKept DEF IInv, Types
<1>2. calls' \in Nat  BY JobBounds
<1>3. FilesTyped'  BY <1>1, <1>2, FilesKept
<1>4. \A q \in Procs : job'[q].cmd \in {None, "refresh", "adopt", "models", "audit"}
  BY <1>1, CommandOf DEF JobTypes, AllJobs
<1>5. RegistryTypeOK' /\ DOMAIN local' = Runtimes
  BY DEF IInv, Types, TypeOK, RegistryTypeOK
<1> QED  BY <1>1, <1>3, <1>4, <1>5 DEF IInv, Types, TypeOK, FilesTyped

LEMMA AuditsTyped ==
    IInv => /\ pointer \in Registry \cup {None} /\ raced \in BOOLEAN
            /\ resolved \in [Runtimes -> Resolution \cup {None}]
            /\ \A a \in audits : /\ a.registry \in Registry
                                 /\ {a.baseline, a.used} \subseteq Baseline \cup {None}
                                 /\ a.stamp = "unconfigured" <=> a.baseline = None
  BY DEF IInv, Types, TypeOK, RegistryTypeOK

LEMMA BeginModelsStep ==
    ASSUME IInv, NEW p \in Procs, BeginModels(p), UNCHANGED <<guidanceVars, audits, moves>>
    PROVE  IInv'
<1> DEFINE j == [cmd |-> "models", pc |-> "fetch", at |-> calls + 1,
                 obs |-> Observed, prior |-> Loaded]
<1>1. /\ job[p] = Idle /\ calls < MaxCalls /\ calls' = calls + 1 /\ stops' = stops
      /\ job' = [job EXCEPT ![p] = j]
      /\ raced' = (raced \/ \E q \in Procs : RefreshingModels(q))
      /\ UNCHANGED <<local, pointer, resolved, complete>>
  BY DEF BeginModels, Begin
<1>2. calls' \in 0..MaxCalls /\ calls' \in 1..MaxCalls /\ calls <= calls'
  BY <1>1, CallsTyped, JobBounds
<1>3. j \in ModelsJobs  BY <1>1, <1>2, ObservedTyped, LoadedTyped DEF ModelsJobs
<1>4. j.cmd = "models" /\ j.prior = Loaded  OBVIOUS
<1> HIDE DEF j
<1>5. job'[p] = j /\ \A q \in Procs : q # p => job'[q] = job[q]
  BY <1>1, <1>3, JobTypesKept DEF IInv, Types
<1>6. raced' \in BOOLEAN  BY <1>1, AuditsTyped
<1>7. Types'  BY <1>1, <1>2, <1>3, <1>6, AuditsTyped, ElsewhereTyped
<1>8. Auditing(p)'  BY <1>4, <1>5 DEF Auditing
<1>9. Audited'  BY AuditedKept DEF guidanceVars, Adopted
<1>10. Saved'
  <2>1. Saved /\ Loaded' = Loaded  BY <1>1 DEF IInv, Loaded
  <2>2. ASSUME ~raced'
        PROVE  /\ \A q, r \in Procs : RefreshingModels(q)' /\ RefreshingModels(r)' => q = r
               /\ \A q \in Procs : RefreshingModels(q)' => job'[q].prior = Loaded
    <3>1. \A q \in Procs : RefreshingModels(q)' => q = p
      BY <1>1, <1>5, <2>2 DEF RefreshingModels
    <3> QED  BY <1>4, <1>5, <3>1
  <2>3. ~raced' => ~raced  BY <1>1, AuditsTyped
  <2> QED  BY <1>1, <2>1, <2>2, <2>3 DEF Saved, Bound, EntryOf, LastKnown
<1>11. job[p].cmd = None  BY <1>1 DEF Idle
<1> QED  BY <1>1, <1>2, <1>3, <1>7, <1>8, <1>9, <1>10, <1>11, ElsewhereKept

LEMMA RefreshModelsStep ==
    ASSUME IInv, NEW p \in Procs, RefreshModels(p), UNCHANGED <<guidanceVars, audits, moves>>
    PROVE  IInv'
<1> DEFINE i == job[p]
<1>1. PICK listing \in [Listed -> Listings \cup {None}] :
         LET models == [rt \in Runtimes |->
                          RefreshedEntry(i.obs[rt], EntryOf(i.prior, rt),
                                         IF i.obs[rt].provider \in Listed
                                         THEN listing[i.obs[rt].provider] ELSE None, i.at)]
             registry == Summary(i.prior, models, i.at,
                                 IF StatusOf(models) = "current" THEN i.at
                                 ELSE i.prior.succeeded)
         IN
         /\ At(p, "models", "fetch")
         /\ Goto(p, Idle)
         /\ IF Valid(registry)
            THEN /\ pointer' = registry
                 /\ resolved' = [rt \in Runtimes |->
                                    IF models[rt].status = "current"
                                    THEN models[rt].resolution ELSE resolved[rt]]
                 /\ complete' = IF Generation(models) # {} THEN Generation(models) ELSE complete
            ELSE UNCHANGED <<pointer, resolved, complete>>
         /\ UNCHANGED <<local, raced>>
  BY DEF RefreshModels
<1> DEFINE L(rt) == IF i.obs[rt].provider \in Listed
                    THEN listing[i.obs[rt].provider] ELSE None
           models == [rt \in Runtimes |->
                        RefreshedEntry(i.obs[rt], EntryOf(i.prior, rt), L(rt), i.at)]
           succeeded == IF StatusOf(models) = "current" THEN i.at ELSE i.prior.succeeded
           registry == Summary(i.prior, models, i.at, succeeded)
<1>2. /\ i.cmd = "models" /\ job' = [job EXCEPT ![p] = Idle] /\ UNCHANGED <<calls, stops>>
      /\ \/ /\ Valid(registry) /\ pointer' = registry
            /\ resolved' = [rt \in Runtimes |-> IF models[rt].status = "current"
                                                THEN models[rt].resolution ELSE resolved[rt]]
            /\ complete' = IF Generation(models) # {} THEN Generation(models) ELSE complete
         \/ UNCHANGED <<pointer, resolved, complete>>
      /\ UNCHANGED <<local, raced>>
  BY <1>1 DEF At, Goto
<1>3. i \in ModelsJobs  BY <1>2, JobIs DEF IInv, Types
<1>4. i.at \in 1..MaxCalls /\ i.obs \in [Runtimes -> Observation] /\ i.prior \in Registry
  BY <1>3 DEF ModelsJobs
<1>5. \A rt \in Runtimes :
         /\ models[rt] \in Entry
         /\ models[rt].status # "current" => models[rt].known = LastKnown(EntryOf(i.prior, rt))
         /\ models[rt].status = "current" =>
               models[rt].known = models[rt].resolution /\ models[rt].resolution.at = i.at
  <2> TAKE rt \in Runtimes
  <2>1. L(rt) \in Listings \cup {None}  OBVIOUS
  <2> HIDE DEF L
  <2>2. models[rt] = RefreshedEntry(i.obs[rt], EntryOf(i.prior, rt), L(rt), i.at)  OBVIOUS
  <2>3. EntryOf(i.prior, rt) \in Entry \cup {None}  BY <1>4, EntryTyped
  <2>4. i.obs[rt] \in Observation  BY <1>4
  <2>5. PICK a \in 1..MaxCalls, o \in Observation, e \in Entry \cup {None},
             l \in Listings \cup {None} :
            a = i.at /\ o = i.obs[rt] /\ e = EntryOf(i.prior, rt) /\ l = L(rt)
    BY <1>4, <2>1, <2>3, <2>4
  <2>6. models[rt] = RefreshedEntry(o, e, l, a)  BY <2>2, <2>5
  <2> HIDE DEF models, i
  <2>7. /\ RefreshedEntry(o, e, l, a) \in Entry
        /\ RefreshedEntry(o, e, l, a).status # "current" =>
              RefreshedEntry(o, e, l, a).known = LastKnown(e)
        /\ RefreshedEntry(o, e, l, a).status = "current" =>
              /\ RefreshedEntry(o, e, l, a).known = RefreshedEntry(o, e, l, a).resolution
              /\ RefreshedEntry(o, e, l, a).resolution.at = a
    BY RefreshedTyped
  <2> QED  BY <2>5, <2>6, <2>7
<1>6. models \in [Runtimes -> Entry]  BY <1>5
<1> HIDE DEF models
<1>7. succeeded \in 1..MaxCalls \cup {None}  BY <1>4 DEF Registry
<1>8. /\ registry \in Registry /\ registry.models = models /\ registry.attempted = i.at
      /\ registry.models # None
      /\ registry.known = IF Generation(models) # {} THEN Generation(models) ELSE i.prior.known
  <2>1. PICK a \in 1..MaxCalls \cup {None}, b \in 1..MaxCalls \cup {None}, r \in Registry :
            a = i.at /\ b = succeeded /\ r = i.prior
    BY <1>4, <1>7
  <2>2. registry = Summary(r, models, a, b)  BY <2>1
  <2> HIDE DEF registry, succeeded, i
  <2>3. /\ Summary(r, models, a, b) \in Registry
        /\ Summary(r, models, a, b).models = models
        /\ Summary(r, models, a, b).attempted = a
        /\ Summary(r, models, a, b).models # None
        /\ Summary(r, models, a, b).known =
              IF Generation(models) # {} THEN Generation(models) ELSE r.known
    BY <1>6, SummaryTyped
  <2> QED  BY <2>1, <2>2, <2>3
<1>9. Valid(registry) => Bound(registry)
  BY <1>5, <1>8 DEF Valid, ValidEntry, Bound
<1>10. registry # None  BY <1>8, NoneIsNoRegistry
<1> HIDE DEF registry
<1>11. pointer' \in Registry \cup {None} /\ resolved' \in [Runtimes -> Resolution \cup {None}]
  <2>1. \A rt \in Runtimes : models[rt].resolution \in Resolution \cup {None}
    BY <1>5 DEF Entry
  <2> QED  BY <1>2, <1>8, <2>1, AuditsTyped
<1>12. /\ job' = [job EXCEPT ![p] = Idle] /\ UNCHANGED <<local, raced>>
       /\ calls' \in 0..MaxCalls /\ calls <= calls' /\ stops' = stops
       /\ job[p].cmd \in {None, "models", "audit"}
  BY <1>2, CallsTyped
<1>13. Types'  BY <1>11, <1>12, AuditsTyped, ElsewhereTyped
<1>14. job'[p] = Idle /\ \A q \in Procs : q # p => job'[q] = job[q]
  BY <1>2, JobTypesKept DEF IInv, Types
<1>15. job'[p].cmd # "models" /\ job'[p].cmd # "audit"
  BY <1>14, NoneIsNoCommand DEF Idle
<1>16. Auditing(p)'  BY <1>15 DEF Auditing
<1>17. Audited'  BY AuditedKept DEF guidanceVars, Adopted
<1>18. Saved'
  <2>1. CASE UNCHANGED <<pointer, resolved, complete>>
    BY <1>2, <1>14, <1>15, <2>1, SavedKept DEF RefreshingModels
  <2>2. CASE /\ Valid(registry) /\ pointer' = registry
             /\ resolved' = [rt \in Runtimes |-> IF models[rt].status = "current"
                                                 THEN models[rt].resolution ELSE resolved[rt]]
             /\ complete' = IF Generation(models) # {} THEN Generation(models) ELSE complete
    <3>1. Loaded' = registry  BY <1>10, <2>2 DEF Loaded
    <3>2. Bound(registry) /\ pointer'.models # None  BY <1>8, <1>9, <2>2
    <3>3. Bound(Loaded)'  BY <3>1, <3>2 DEF Bound
    <3>4. ASSUME ~raced
          PROVE  /\ \A rt \in Runtimes : LastKnown(EntryOf(Loaded, rt))' = resolved'[rt]
                 /\ registry.known = complete'
                 /\ \A q \in Procs : ~RefreshingModels(q)'
      <4>1. /\ \A rt \in Runtimes : LastKnown(EntryOf(Loaded, rt)) = resolved[rt]
            /\ Loaded.known = complete /\ i.prior = Loaded
            /\ \A q \in Procs : RefreshingModels(q) => q = p
        BY <1>2, <3>4 DEF IInv, Saved, RefreshingModels
      <4>2. ASSUME NEW rt \in Runtimes  PROVE LastKnown(EntryOf(Loaded, rt))' = resolved'[rt]
        <5>1. EntryOf(Loaded, rt)' = models[rt] /\ models[rt] # None
          BY <1>5, <1>8, <3>1, NoneIsNoEntry DEF EntryOf
        <5>2. LastKnown(EntryOf(Loaded, rt))' = models[rt].known  BY <5>1 DEF LastKnown
        <5>3. resolved'[rt] = IF models[rt].status = "current"
                              THEN models[rt].resolution ELSE resolved[rt]
          BY <2>2
        <5> QED  BY <1>5, <4>1, <5>2, <5>3
      <4>3. registry.known = complete'  BY <1>8, <2>2, <4>1
      <4>4. \A q \in Procs : ~RefreshingModels(q)'
        BY <1>14, <1>15, <4>1 DEF RefreshingModels
      <4> QED  BY <4>2, <4>3, <4>4
    <3> QED  BY <1>2, <3>1, <3>2, <3>3, <3>4 DEF Saved
  <2> QED  BY <1>2, <2>1, <2>2
<1> QED  BY <1>12, <1>13, <1>16, <1>17, <1>18, ElsewhereKept
LEMMA BeginAuditStep ==
    ASSUME IInv, NEW p \in Procs, BeginAudit(p)
    PROVE  IInv'
<1>1. PICK registry : registry = Reconciled(Loaded, Observed)  OBVIOUS
<1> DEFINE j == [cmd |-> "audit", pc |-> "stamp", registry |-> registry]
<1>2. /\ Valid(registry) /\ job[p] = Idle /\ calls < MaxCalls /\ calls' = calls + 1
      /\ stops' = stops /\ job' = [job EXCEPT ![p] = j]
      /\ UNCHANGED <<guidanceVars, registryVars, audits, moves>>
  BY <1>1 DEF BeginAudit, Begin
<1>3. calls' \in 0..MaxCalls /\ calls <= calls'
  BY <1>2, CallsTyped, JobBounds
<1>4. registry \in Registry /\ Bound(registry)
  <2>1. PICK prior \in Registry, obs \in [Runtimes -> Observation] :
            prior = Loaded /\ obs = Observed
    BY LoadedTyped, ObservedTyped
  <2>2. Bound(prior)  BY <2>1 DEF IInv, Saved
  <2> QED  BY <1>1, <1>2, <2>1, <2>2, ReconciledBound
<1>5. j \in StampJobs  BY <1>4 DEF StampJobs
<1>6. j.cmd = "audit" /\ j.pc = "stamp" /\ j.registry = registry  OBVIOUS
<1> HIDE DEF j
<1>7. job'[p] = j /\ \A q \in Procs : q # p => job'[q] = job[q]
  BY <1>2, <1>5, JobTypesKept DEF IInv, Types
<1>8. Types'
  BY <1>2, <1>3, <1>5, AuditsTyped, ElsewhereTyped DEF registryVars
<1>9. Auditing(p)'  BY <1>4, <1>6, <1>7 DEF Auditing, Bound
<1>10. Audited'  BY <1>2, AuditedKept DEF guidanceVars, Adopted
<1>11. Saved'
  <2>1. \A q \in Procs : RefreshingModels(q)' => job'[q] = job[q]
    BY <1>6, <1>7 DEF RefreshingModels
  <2> QED  BY <1>2, <2>1, SavedKept DEF registryVars
<1>12. job[p].cmd = None  BY <1>2 DEF Idle
<1> QED  BY <1>2, <1>3, <1>5, <1>8, <1>9, <1>10, <1>11, <1>12, ElsewhereKept

\* An audit that ends: refused, or with what it has found.
LEMMA AuditEnds ==
    ASSUME IInv, NEW p \in Procs, job[p].cmd = "audit", job' = [job EXCEPT ![p] = Idle],
           UNCHANGED <<calls, stops>>, UNCHANGED <<guidanceVars, registryVars, moves>>,
           \A a \in audits' \ audits :
              /\ a.registry \in Registry /\ Bound(a.registry)
              /\ {a.baseline, a.used} \subseteq Baseline \cup {None}
              /\ a.baseline # None => a.baseline \in Adopted
              /\ a.stamp = "unconfigured" <=> a.baseline = None
    PROVE  IInv'
<1>1. job'[p] = Idle /\ \A q \in Procs : q # p => job'[q] = job[q]
  BY JobTypesKept DEF IInv, Types
<1>2. job'[p].cmd # "models" /\ job'[p].cmd # "audit"
  BY <1>1, NoneIsNoCommand DEF Idle
<1>3. calls' \in 0..MaxCalls /\ calls <= calls' /\ stops' = stops
  BY CallsTyped
<1>4. \A e \in audits' : /\ e.registry \in Registry
                         /\ {e.baseline, e.used} \subseteq Baseline \cup {None}
                         /\ e.stamp = "unconfigured" <=> e.baseline = None
  BY AuditsTyped
<1>5. Types'  BY <1>3, <1>4, AuditsTyped, ElsewhereTyped DEF registryVars
<1>6. Auditing(p)'  BY <1>2 DEF Auditing
<1>7. Audited'
  <2>1. Adopted' = Adopted  BY DEF guidanceVars, Adopted
  <2>2. Audited  BY DEF IInv
  <2> QED  BY <2>1, <2>2 DEF Audited, Bound
<1>8. Saved'
  <2>1. \A q \in Procs : RefreshingModels(q)' => job'[q] = job[q]
    BY <1>1, <1>2 DEF RefreshingModels
  <2> QED  BY <2>1, SavedKept DEF registryVars
<1> QED  BY <1>3, <1>5, <1>6, <1>7, <1>8, ElsewhereKept

LEMMA StampAuditStep ==
    ASSUME IInv, NEW p \in Procs, StampAudit(p)
    PROVE  IInv'
<1>1. PICK registry, b, stamp :
         registry = job[p].registry /\ b = current /\ stamp = StampStatus
  OBVIOUS
<1> DEFINE j == [cmd |-> "audit", pc |-> "policy", registry |-> registry,
                 baseline |-> b, stamp |-> stamp]
<1>2. /\ job[p].cmd = "audit" /\ job[p].pc = "stamp" /\ UNCHANGED <<calls, stops>>
      /\ job' = [job EXCEPT ![p] = j] \/ job' = [job EXCEPT ![p] = Idle]
      /\ UNCHANGED <<guidanceVars, registryVars, audits, moves>>
  BY <1>1 DEF StampAudit, At, Goto
<1>3. CASE job' = [job EXCEPT ![p] = Idle]  BY <1>2, <1>3, AuditEnds
<1>4. CASE job' = [job EXCEPT ![p] = j]
  <2>1. job[p] \in StampJobs  BY <1>2, JobIs DEF IInv, Types
  <2>2. registry \in Registry /\ Bound(registry)
    BY <1>1, <1>2, <2>1 DEF StampJobs, IInv, Auditing
  <2>3. b \in Baseline \cup {None} /\ (b # None => b \in Adopted)
    BY <1>1, BaselinesTyped DEF IInv, Filed
  <2>4. stamp \in {"unconfigured", "adopted", "stale"} /\ (stamp = "unconfigured" <=> b = None)
    BY <1>1 DEF StampStatus
  <2>5. j \in PolicyJobs  BY <2>2, <2>3, <2>4 DEF PolicyJobs
  <2>6. /\ j.cmd = "audit" /\ j.registry = registry /\ j.baseline = b /\ j.stamp = stamp
    OBVIOUS
  <2> HIDE DEF j
  <2>7. job'[p] = j /\ \A q \in Procs : q # p => job'[q] = job[q]
    BY <1>4, <2>5, JobTypesKept DEF IInv, Types
  <2>8. calls' \in 0..MaxCalls /\ calls <= calls' /\ stops' = stops
    BY <1>2, CallsTyped
  <2>9. Types'
    BY <1>2, <1>4, <2>5, <2>8, AuditsTyped, ElsewhereTyped DEF registryVars
  <2>10. Adopted' = Adopted  BY <1>2 DEF guidanceVars, Adopted
  <2>11. Auditing(p)'  BY <2>2, <2>3, <2>4, <2>6, <2>7, <2>10 DEF Auditing, Bound
  <2>12. Audited'  BY <1>2, <2>10, AuditedKept
  <2>13. Saved'
    <3>1. \A q \in Procs : RefreshingModels(q)' => job'[q] = job[q]
      BY <2>6, <2>7 DEF RefreshingModels
    <3> QED  BY <1>2, <3>1, SavedKept DEF registryVars
  <2> QED  BY <1>2, <1>4, <2>5, <2>8, <2>9, <2>11, <2>12, <2>13, ElsewhereKept
<1> QED  BY <1>2, <1>3, <1>4

LEMMA FinishAuditStep ==
    ASSUME IInv, NEW p \in Procs, FinishAudit(p)
    PROVE  IInv'
<1>1. PICK a : a = [registry |-> job[p].registry, baseline |-> job[p].baseline,
                    stamp |-> job[p].stamp, used |-> current]
  OBVIOUS
<1>2. /\ job[p].cmd = "audit" /\ job[p].pc = "policy" /\ UNCHANGED <<calls, stops>>
      /\ job' = [job EXCEPT ![p] = Idle] /\ audits' \subseteq audits \cup {a}
      /\ UNCHANGED <<guidanceVars, registryVars, moves>>
  BY <1>1 DEF FinishAudit, At, Goto
<1>3. job[p] \in PolicyJobs /\ Auditing(p)  BY <1>2, JobIs DEF IInv, Types
<1>4. /\ a.registry \in Registry /\ Bound(a.registry)
      /\ {a.baseline, a.used} \subseteq Baseline \cup {None}
      /\ a.baseline # None => a.baseline \in Adopted
      /\ a.stamp = "unconfigured" <=> a.baseline = None
  BY <1>1, <1>2, <1>3, BaselinesTyped DEF PolicyJobs, Auditing
<1>5. \A e \in audits' \ audits : e = a  BY <1>2
<1> QED  BY <1>2, <1>4, <1>5, AuditEnds

LEMMA MoveStep ==
    ASSUME IInv, NEW rt \in Runtimes, NEW c \in Configs[rt], Move(rt, c)
    PROVE  IInv'
<1>1. /\ moves < MaxMoves /\ moves' = moves + 1 /\ local' = [local EXCEPT ![rt] = c]
      /\ UNCHANGED <<jobVars, pointer, resolved, complete, raced>>
      /\ UNCHANGED <<guidanceVars, audits>>
  BY DEF Move, Reconfigure
<1>2. UNCHANGED <<job, calls, stops>>  BY <1>1 DEF jobVars
<1>3. moves' \in 0..MaxMoves  BY <1>1, MaxMovesOK DEF IInv, Types, TypeOK
<1>4. DOMAIN local' = Runtimes /\ \A x \in Runtimes : local'[x] \in Configs[x]
  BY <1>1 DEF IInv, Types, TypeOK, RegistryTypeOK
<1>5. Types'
  <2>1. RegistryTypeOK'  BY <1>1, <1>4 DEF IInv, Types, TypeOK, RegistryTypeOK
  <2>2. GuidanceTypeOK' /\ JobTypes'
    BY <1>1, <1>2 DEF IInv, Types, TypeOK, GuidanceTypeOK, JobTypes, guidanceVars
  <2> QED  BY <1>1, <1>2, <1>3, <1>4, <2>1, <2>2 DEF IInv, Types, TypeOK, guidanceVars
<1>6. Saved'  BY <1>1, <1>2, SavedKept DEF RefreshingModels
<1>7. Audited'  BY <1>1, AuditedKept DEF guidanceVars, Adopted
<1>8. UNCHANGED <<object, early, observed, partial, status, orders, baselines, unfilled, filled,
                  trusted, current, overlapped>>
  BY <1>1 DEF guidanceVars
<1>9. OneFiller'  BY <1>2 DEF IInv, OneFiller, Filling, At, VersionOf
<1>10. Grows  BY <1>2, <1>8, CallsTyped DEF Grows, Sure, Adopted
<1>11. Filed'  BY <1>2, <1>8, <1>10, CallsTyped, FiledKept DEF Shown
<1>12. ASSUME NEW p \in Procs PROVE Begun(p)' /\ Held(p)' /\ Distilled(p)' /\ Auditing(p)'
  <2>1. Held(p)'
    <3>1. Held(p)  BY DEF IInv
    <3> QED  BY <1>2, <1>8, <3>1 DEF Held, Onfile, Backed, Sure, NextSource
  <2>2. Distilled(p)'
    <3>1. Distilled(p)  BY DEF IInv
    <3> QED  BY <1>2, <1>8, <3>1 DEF Distilled, Onfile, Backed, Sure, Adopted
  <2>3. Auditing(p)'  BY <1>2, <1>10, AuditingKept DEF Grows
  <2>4. Begun(p)'  BY <1>2, <1>8, BegunKept DEF IInv
  <2> QED  BY <2>1, <2>2, <2>3, <2>4
<1>13. InOrder'
  <2>1. InOrder  BY DEF IInv
  <2>2. \A s : LastSuccess(s)' = LastSuccess(s)  BY <1>8 DEF LastSuccess
  <2>3. \A s : NewestSuccess(s)' = NewestSuccess(s)  BY <1>8 DEF NewestSuccess
  <2>4. \A p : NextSource(p)' = NextSource(p)  BY <1>2 DEF NextSource
  <2>5. \A p \in Procs : Alone(p) => Alone(p)'  BY <1>2, <1>8, <2>2, <2>4 DEF Alone
  <2>6. \A s : Abreast(s)' <=> Abreast(s)  BY <2>2, <2>3 DEF Abreast
  <2>7. \A p, s : Ahead(p, s)' <=> Ahead(p, s)  BY <1>2 DEF Ahead, At
  <2> QED  BY <1>2, <1>8, <2>1, <2>5, <2>6, <2>7 DEF InOrder, Refreshing
<1> QED  BY <1>5, <1>6, <1>7, <1>9, <1>11, <1>12, <1>13 DEF IInv
-----------------------------------------------------------------------------
(* The invariant and what it implies. *)

LEMMA InitInv == Init => IInv
<1> SUFFICES ASSUME Init PROVE IInv
  OBVIOUS
<1> USE DEF Init, JobsInit, GuidanceInit, RegistryInit
<1>1. \A p \in Procs : job[p] = Idle /\ job[p].cmd = None
  BY DEF Idle
<1>2. JobTypes  BY DEF JobTypes
<1>3. GuidanceTypeOK
  <2>1. object \in [Contents -> {"absent", "partial", "filled", "whole"}]  OBVIOUS
  <2> QED  BY <2>1 DEF GuidanceTypeOK
<1>4. RegistryTypeOK  BY ConfiguredOK DEF RegistryTypeOK
<1>5. TypeOK
  BY <1>1, <1>3, <1>4, JobBounds, MaxMovesOK DEF TypeOK
<1>6. DOMAIN local = Runtimes
  BY ConfiguredOK
<1>7. Types  BY <1>2, <1>5, <1>6 DEF Types
<1>8. OneFiller  BY <1>1, NoneIsNoCommand DEF OneFiller, Filling, At
<1>9. Filed  BY DEF Filed, Shown
<1>10. InOrder
  <2>1. \A s \in Sources : Abreast(s)
    <3> TAKE s \in Sources
    <3>1. LastSuccess(s) = None  BY DEF LastSuccess
    <3>2. NewestSuccess(s) = None  BY DEF NewestSuccess, Newest
    <3> QED  BY <3>1, <3>2 DEF Abreast
  <2> QED  BY <1>1, <2>1, NoneIsNoCommand DEF InOrder, Refreshing, Alone
<1>11. Audited  BY DEF Audited
<1>12. Saved
  BY <1>1, NoneIsNoCommand DEF Saved, Loaded, EmptyRegistry, Bound, EntryOf, LastKnown, RefreshingModels
<1>13. \A p \in Procs : Begun(p) /\ Held(p) /\ Distilled(p) /\ Auditing(p)
  BY <1>1, NoneIsNoCommand DEF Begun, At, Held, Distilled, Auditing
<1> QED  BY <1>7, <1>8, <1>9, <1>10, <1>11, <1>12, <1>13 DEF IInv

LEMMA StepInv == IInv /\ [Next]_vars => IInv'
<1> SUFFICES ASSUME IInv, [Next]_vars PROVE IInv'
  OBVIOUS
<1>1. ASSUME NEW p \in Procs, GuidanceStep(p), UNCHANGED <<registryVars, audits, moves>>
      PROVE  IInv'
  <2>1. CASE BeginRefresh(p)  BY <1>1, <2>1, BeginRefreshStep
  <2>2. CASE ReadPrevious(p)  BY <1>1, <2>2, ReadPreviousStep
  <2>3. CASE FetchFails(p)  BY <1>1, <2>3, FetchFailsStep
  <2>4. CASE \E c \in Contents : Fetched(p, c)  BY <1>1, <2>4, FetchedStep
  <2>5. CASE FillObject(p)  BY <1>1, <2>5, FillObjectStep
  <2>6. CASE CreateObservation(p)  BY <1>1, <2>6, CreateObservationStep
  <2>7. CASE FillObservation(p)  BY <1>1, <2>7, FillObservationStep
  <2>8. CASE SaveStatus(p)  BY <1>1, <2>8, SaveStatusStep
  <2>9. CASE BeginAdopt(p)  BY <1>1, <2>9, BeginAdoptStep
  <2>10. CASE CreateBaseline(p)  BY <1>1, <2>10, CreateBaselineStep
  <2>11. CASE FillBaseline(p)  BY <1>1, <2>11, FillBaselineStep
  <2>12. CASE PointCurrent(p)  BY <1>1, <2>12, PointCurrentStep
  <2>13. CASE WriteFails(p)  BY <1>1, <2>13, WriteFailsStep
  <2>14. CASE Synced(p)  BY <1>1, <2>14, SyncedStep
  <2> QED
    BY <1>1, <2>1, <2>2, <2>3, <2>4, <2>5, <2>6, <2>7, <2>8, <2>9, <2>10, <2>11, <2>12, <2>13,
       <2>14
       DEF GuidanceStep
<1>2. ASSUME NEW p \in Procs, RegistryStep(p), UNCHANGED <<guidanceVars, audits, moves>>
      PROVE  IInv'
  BY <1>2, BeginModelsStep, RefreshModelsStep DEF RegistryStep
<1>3. ASSUME NEW p \in Procs, BeginAudit(p) \/ StampAudit(p) \/ FinishAudit(p)
      PROVE  IInv'
  BY <1>3, BeginAuditStep, StampAuditStep, FinishAuditStep
<1>4. ASSUME NEW p \in Procs, GuidanceDies(p) /\ UNCHANGED <<registryVars, audits, moves>>
      PROVE  IInv'
  BY <1>4, GuidanceDiesStep
<1>5. ASSUME NEW rt \in Runtimes, NEW c \in Configs[rt], Move(rt, c)
      PROVE  IInv'
  BY <1>5, MoveStep
<1>6. CASE UNCHANGED vars
  <2>1. /\ UNCHANGED <<object, early, observed, partial, status, orders, baselines, unfilled,
                       filled, trusted, current, overlapped, local, pointer, resolved, complete, raced, audits, moves,
                       job, calls, stops>>
    BY <1>6 DEF vars, jobVars, guidanceVars, registryVars
  <2>2. Types'
    BY <2>1 DEF IInv, Types, TypeOK, GuidanceTypeOK, RegistryTypeOK, JobTypes
  <2>3. Saved'  BY <2>1, SavedKept
  <2>5. OneFiller'  BY <2>1 DEF IInv, OneFiller, Filling, At, VersionOf
  <2>6. Grows  BY <2>1, CallsTyped DEF Grows, Sure, Adopted
  <2>4. Audited'  BY <2>1, <2>6, AuditedKept DEF Grows
  <2>7. Filed'  BY <2>1, <2>6, CallsTyped, FiledKept DEF Shown
  <2>8. ASSUME NEW p \in Procs PROVE Begun(p)' /\ Held(p)' /\ Distilled(p)' /\ Auditing(p)'
    <3>1. Held(p) /\ Distilled(p)  BY DEF IInv
    <3>2. Held(p)'  BY <2>1, <3>1 DEF Held, Onfile, Backed, Sure, NextSource
    <3>3. Distilled(p)'  BY <2>1, <3>1 DEF Distilled, Onfile, Backed, Sure, Adopted
    <3>4. Begun(p)'  BY <2>1, BegunKept DEF IInv
    <3> QED  BY <2>1, <2>6, <3>2, <3>3, <3>4, AuditingKept DEF Grows
  <2>9. InOrder'
    <3>1. InOrder  BY DEF IInv
    <3>2. \A s : LastSuccess(s)' = LastSuccess(s)  BY <2>1 DEF LastSuccess
    <3>3. \A s : NewestSuccess(s)' = NewestSuccess(s)  BY <2>1 DEF NewestSuccess
    <3>4. \A p : NextSource(p)' = NextSource(p)  BY <2>1 DEF NextSource
    <3>5. \A p \in Procs : Alone(p) => Alone(p)'  BY <2>1, <3>2, <3>4 DEF Alone
    <3>6. \A s : Abreast(s)' <=> Abreast(s)  BY <3>2, <3>3 DEF Abreast
    <3>7. \A p, s : Ahead(p, s)' <=> Ahead(p, s)  BY <2>1 DEF Ahead, At
    <3> QED  BY <2>1, <3>1, <3>5, <3>6, <3>7 DEF InOrder, Refreshing
  <2> QED  BY <2>2, <2>3, <2>4, <2>5, <2>7, <2>8, <2>9 DEF IInv
<1> QED  BY <1>1, <1>2, <1>3, <1>4, <1>5, <1>6 DEF Next

LEMMA EvidenceFollows == IInv => EvidenceStands
<1> SUFFICES ASSUME IInv PROVE EvidenceStands
  OBVIOUS
<1>1. TypeOK /\ Filed /\ Audited  BY DEF IInv, Types
<1>2. CitedIntact
  <2>1. \A cites : Onfile(cites) => \A c \in cites :
           /\ \E o \in observed[c.src] : o \in Fresh /\ Reference(o) = c
           /\ c.hash \notin early => ObjectMatchesHash(c.hash)
    BY DEF Onfile, Backed, Sure, ObjectMatchesHash
  <2>2. \A order \in orders : \A c \in order : c.hash \notin early => SnapshotRead(order, c.hash) = c.hash
    BY <1>1, <2>1 DEF Filed, SnapshotRead
  <2>3. \A cites \in orders \cup {b.cites : b \in baselines \cup filled} : Onfile(cites)
    BY <1>1 DEF Filed, Shown
  <2> HIDE DEF ObjectMatchesHash
  <2> QED  BY <2>1, <2>2, <2>3 DEF CitedIntact
<1>3. ASSUME NEW b \in Adopted PROVE Immutable(b) \/ b \in trusted
  <2>1. CASE b \in baselines
    <3>1. b \in Shown  BY <2>1 DEF Shown
    <3>2. \A c \in Shown : VersionOf(c) = VersionOf(b) => c = b  BY <1>1, <3>1 DEF Filed
    <3>3. Kept(VersionOf(b)) = {b}  BY <3>1, <3>2 DEF Kept, Shown
    <3> QED  BY <1>1, <3>1, <3>3 DEF Immutable, Filed
  <2> QED  BY <1>3, <2>1 DEF Adopted
<1>4. CurrentImmutable  BY <1>1, <1>3 DEF Filed, Shown, CurrentImmutable
<1>5. ProvenanceStands  BY <1>1, <1>3 DEF Audited, ProvenanceStands, BaselineVerified
<1> QED  BY <1>1, <1>2, <1>4, <1>5 DEF EvidenceStands

LEMMA NewestFollows == IInv => NewestKnown
<1> SUFFICES ASSUME IInv, stops = 0 /\ ~overlapped, \A p \in Procs : ~Refreshing(p)
             PROVE  /\ \A s \in Sources : LastSuccess(s) = NewestSuccess(s)
                    /\ StampStatus = "adopted" =>
                          \A c \in current.cites : NewestSuccess(c.src).hash = c.hash
  BY DEF NewestKnown
<1>1. \A s \in Sources : LastSuccess(s) = NewestSuccess(s)
  BY DEF IInv, InOrder, Ahead, At, Refreshing, Abreast
<1>2. ASSUME StampStatus = "adopted", NEW c \in current.cites
      PROVE  NewestSuccess(c.src).hash = c.hash
  <2>1. current # None /\ status[c.src] # None /\ status[c.src].hash = c.hash
    BY <1>2 DEF StampStatus
  <2>2. c \in Success  BY <1>2, <2>1, BaselinesTyped DEF Baseline
  <2>3. c.src \in Sources /\ c.hash \in Contents  BY <2>2, SuccessFields
  <2>4. status[c.src] \in Result  BY <2>1, <2>3 DEF IInv, Types, TypeOK, GuidanceTypeOK
  <2>5. status[c.src] \in Fresh  BY <2>1, <2>3, <2>4, OfResult
  <2>6. LastSuccess(c.src) = Reference(status[c.src])  BY <2>1, <2>3, <2>5, LastSuccessIs
  <2>7. Reference(status[c.src]).hash = status[c.src].hash  BY <2>5, Referred
  <2> QED  BY <1>1, <2>1, <2>3, <2>6, <2>7
<1> QED  BY <1>1, <1>2

LEMMA ModelsFollow == IInv => ModelsTrue
<1> SUFFICES ASSUME IInv PROVE ModelsTrue
  OBVIOUS
<1>1. NeverCarried  BY DEF IInv, Saved, Audited, NeverCarried
<1>2. KnownTruth
  <2> SUFFICES ASSUME ~raced, pointer # None
               PROVE  /\ \A rt \in Runtimes : pointer.models[rt].known = resolved[rt]
                      /\ pointer.known = complete
    BY DEF KnownTruth
  <2>1. Loaded = pointer /\ Loaded \in Registry /\ Saved
    BY LoadedTyped DEF Loaded, IInv
  <2>2. pointer.known = complete  BY <2>1 DEF Saved
  <2>3. ASSUME NEW rt \in Runtimes PROVE pointer.models[rt].known = resolved[rt]
    <3>1. pointer.models # None  BY <2>1 DEF Saved
    <3>2. pointer.models[rt] \in Entry  BY <2>1, <3>1 DEF Registry
    <3>3. EntryOf(Loaded, rt) = pointer.models[rt] /\ EntryOf(Loaded, rt) # None
      BY <2>1, <3>1, <3>2, NoneIsNoEntry DEF EntryOf
    <3>4. LastKnown(EntryOf(Loaded, rt)) = resolved[rt]  BY <2>1 DEF Saved
    <3> QED  BY <3>3, <3>4 DEF LastKnown
  <2> QED  BY <2>2, <2>3
<1> QED  BY <1>1, <1>2 DEF ModelsTrue

\* Every state has the files each command counts on: what a refresh, an
\* adoption and an audit hold, and one process to fill each file begun.
THEOREM Invariance == Spec => []IInv
<1> QED  BY InitInv, StepInv, PTL DEF Spec

\* What work orders, baselines and audits refer to is on file and is what they
\* say, whatever died, failed or ran at the same time, but for what was taken
\* from a file between its filling and its fsync: that, its writer could still
\* take away (guidance.py, _write_json_once and _write_bytes_once, and the citation checks
\* of adopt_guidance_baseline; verify_evaluation_context).
THEOREM EvidenceStanding == Spec => []EvidenceStands
<1> QED  BY Invariance, EvidenceFollows, PTL

\* As long as no refresh overlapped another and none was cut short, the last
\* success of a source is its newest successful observation, and a baseline
\* stamped adopted cites the newest content (_last_success and
\* guidance_evaluation_stamp).
THEOREM NewestIsKnown == Spec => []NewestKnown
<1> QED  BY Invariance, NewestFollows, PTL

\* No registry, saved or audited, carries a resolution across a change of
\* provider or selector, and what it last knew is what was last saved
\* (refresh_model_registry and reconcile_model_registry_observations).
THEOREM ModelsAreTrue == Spec => []ModelsTrue
<1> QED  BY Invariance, ModelsFollow, PTL
=============================================================================

------------------------------ MODULE Guidance ------------------------------
(***************************************************************************)
(* Guidance: what APU fetched from the configured sources, the work orders *)
(* a reviewer distils, and the baseline adopted from them.                 *)
(*                                                                         *)
(* `apu refresh guidance` visits its sources in order.  Of each it reads   *)
(* the last success, fetches, and writes an object named by the hash of    *)
(* what came, an observation and the status of the source.  Objects,       *)
(* observations and baselines are files created exclusively and filled     *)
(* afterwards: until then, and for ever after a death, such a file is torn *)
(* ("partial").  A writer that fails before its file is safely on disk     *)
(* takes it away, also when it could be read for a while ("filled") and    *)
(* another command has relied on it.  Status and current baseline are      *)
(* replaced atomically.                                                    *)
(*                                                                         *)
(* A content stands for its hash.  Of the principles of a baseline only    *)
(* the citations are kept: the same principles are distilled from the same *)
(* contents.  The version of a baseline leaves the retrieval times out, so *)
(* one version can be distilled from two fetches.                          *)
(***************************************************************************)
EXTENDS Jobs

CONSTANTS Sources,    \* the URLs of the profile, numbered in their order
          Contents

\* _source_urls: one source at least.
ASSUME SourcesOrdered == Sources \subseteq Nat /\ IsFiniteSet(Sources) /\ Sources # {}

VARIABLES
    object,     \* of each content: its file is absent, partial, filled or whole
    observed,   \* of each source: the observations on file
    partial,    \* of each source: the observations whose writer is not done with them
    status,     \* of each source: its last result, or None
    orders,     \* the distillation work orders: the sets of what they cite
    baselines,  \* the immutable baselines
    unfilled,   \* the versions whose immutable baseline is torn
    filled,     \* the baselines that can be read while their writer may take them away
    current,    \* current.json
    overlapped, \* history: two refreshes have run at once
    early,      \* history: contents taken from a file that was filled and no more
    trusted     \* history: baselines taken while they were filled and no more

objectVars == <<object, early>>
observationVars == <<observed, partial>>
baselineVars == <<baselines, unfilled, filled, trusted>>
guidanceVars ==
    <<objectVars, observationVars, status, orders, baselineVars, current, overlapped>>

Success == [src : Sources, at : 1..MaxCalls, hash : Contents]
Fresh == [src : Sources, at : 1..MaxCalls, hash : Contents, last : {None}]
Failed == [src : Sources, at : 1..MaxCalls, hash : {None}, last : Success \cup {None}]
Result == Fresh \cup Failed
Baseline == [cites : SUBSET Success, at : 1..MaxCalls]

ASSUME NoneIsNoResult == None \notin Contents /\ None \notin Result

Reference(r) == [src |-> r.src, at |-> r.at, hash |-> r.hash]

LastSuccessFresh(s) ==     \* mutant: a failure forgets the success before it
    IF status[s] = None THEN None
    ELSE IF status[s] \in Fresh THEN Reference(status[s]) ELSE None

LastSuccess(s) ==
    CASE status[s] = None -> None
      [] status[s] # None /\ status[s] \in Fresh -> Reference(status[s])
      [] OTHER -> status[s].last

\* The baseline_version of a baseline: its meaning without times.
VersionOf(b) == {<<c.src, c.hash>> : c \in b.cites}

GuidanceInit ==
    /\ object = [c \in Contents |-> "absent"]
    /\ observed = [s \in Sources |-> {}]
    /\ partial = [s \in Sources |-> {}]
    /\ status = [s \in Sources |-> None]
    /\ orders = {}
    /\ baselines = {}
    /\ unfilled = {} /\ filled = {}
    /\ current = None
    /\ overlapped = FALSE /\ early = {} /\ trusted = {}

----------------------------------------------------------------------------
(* apu refresh guidance                                                     *)

Refreshing(p) == job[p].cmd = "refresh"
Least(todo) == CHOOSE s \in todo : \A t \in todo : s <= t
NextSource(p) == Least(job[p].todo)

BeginRefresh(p) ==
    /\ Begin(p, [cmd |-> "refresh", pc |-> "read", at |-> calls + 1, todo |-> Sources,
                 previous |-> None, result |-> None, cites |-> {}])
    /\ overlapped' = (overlapped \/ \E q \in Procs : Refreshing(q))
    /\ UNCHANGED <<objectVars, observationVars, status, orders, baselineVars, current>>

\* Whoever compares contents cannot tell a filled file from one that will stay.
ObjectMatchesHash(h) == object[h] \in {"filled", "whole"}

ReadPrevious(p) ==
    /\ At(p, "refresh", "read")
    /\ Goto(p, [job[p] EXCEPT !.pc = "fetch", !.previous = LastSuccess(NextSource(p))])
    /\ UNCHANGED guidanceVars

\* A failed fetch is a result like another: it carries the last success on.
FetchFails(p) ==
    /\ At(p, "refresh", "fetch")
    /\ Goto(p, [job[p] EXCEPT
                !.pc = "observe",
                !.result = [src |-> NextSource(p), at |-> job[p].at, hash |-> None,
                            last |-> job[p].previous]])
    /\ UNCHANGED guidanceVars

\* The object of this content: made, or found with that content, or found
\* torn, which is a collision and ends the command.
Fetched(p, c) ==
    LET fresh == [src |-> NextSource(p), at |-> job[p].at, hash |-> c, last |-> None]
    IN
    /\ At(p, "refresh", "fetch")
    /\ \/ /\ object[c] = "absent"
          /\ object' = [object EXCEPT ![c] = "partial"]
          /\ Goto(p, [job[p] EXCEPT !.pc = "fill", !.result = fresh])
          /\ UNCHANGED early
       \/ /\ ObjectMatchesHash(c)
          /\ Goto(p, [job[p] EXCEPT !.pc = "observe", !.result = fresh])
          /\ early' = IF object[c] = "filled" THEN early \cup {c} ELSE early
          /\ UNCHANGED object
       \/ /\ object[c] = "partial"
          /\ Goto(p, Idle)
          /\ UNCHANGED objectVars
    /\ UNCHANGED <<observationVars, status, orders, baselineVars, current, overlapped>>

\* The content can be read from here on, and is not safely on disk yet.
FillObject(p) ==
    /\ At(p, "refresh", "fill")
    /\ object' = [object EXCEPT ![job[p].result.hash] = "filled"]
    /\ Goto(p, [job[p] EXCEPT !.pc = "filled"])
    /\ UNCHANGED <<early, observationVars, status, orders, baselineVars, current, overlapped>>

CreateObservation(p) ==
    /\ At(p, "refresh", "observe")
    /\ partial' = [partial EXCEPT ![job[p].result.src] = @ \cup {job[p].result}]
    /\ Goto(p, [job[p] EXCEPT !.pc = "record"])
    /\ UNCHANGED <<objectVars, observed, status, orders, baselineVars, current, overlapped>>

\* Filled and safely on disk.  That it can be read somewhat earlier makes no
\* difference: nobody cites this fetch before its status or its work order.
FillObservation(p) ==
    LET r == job[p].result
    IN
    /\ At(p, "refresh", "record")
    /\ partial' = [partial EXCEPT ![r.src] = @ \ {r}]
    /\ observed' = [observed EXCEPT ![r.src] = @ \cup {r}]
    /\ Goto(p, [job[p] EXCEPT !.pc = "status"])
    /\ UNCHANGED <<objectVars, status, orders, baselineVars, current, overlapped>>

\* What a work order may cite of a result: the fetch, or the last success.
Cited(r) == IF r \in Fresh THEN {Reference(r)} ELSE {r.last} \ {None}

\* The status of the source, atomically; after the last source the refresh
\* artifact and the distillation work order (neither is read before the
\* command has named it).
SaveStatus(p) ==
    LET r == job[p].result
        todo == job[p].todo \ {r.src}
        cites == job[p].cites \cup Cited(r)
    IN
    /\ At(p, "refresh", "status")
    /\ status' = [status EXCEPT ![r.src] = r]
    /\ IF todo = {}
       THEN orders' = orders \cup {cites} /\ Goto(p, Idle)
       ELSE /\ Goto(p, [job[p] EXCEPT !.pc = "read", !.todo = todo, !.cites = cites,
                                      !.previous = None, !.result = None])
            /\ UNCHANGED orders
    /\ UNCHANGED <<objectVars, observationVars, baselineVars, current, overlapped>>

----------------------------------------------------------------------------
(* apu refresh guidance --adopt                                             *)

\* read_guidance_work_order_snapshot: the content, if it can be handed out
SnapshotRead(order, h) ==
    IF (\E c \in order : c.hash = h) /\ ObjectMatchesHash(h) THEN h ELSE None

\* glob order decides whether a torn observation is met before the one
\* that is looked for: a torn one may refuse the adoption, never allow it.
HasSuccessfulObservation(c) ==
    /\ \E o \in observed[c.src] : o \in Fresh /\ Reference(o) = c
    /\ ObjectMatchesHash(c.hash)

\* What a candidate may cite of a work order.
Citations(order) == SUBSET order \ {{}}

\* A reviewed candidate that cites part of a work order.  A candidate that
\* fails a check changes nothing.
BeginAdopt(p) ==
    \E order \in orders : \E cites \in Citations(order) :
        /\ \A c \in cites : HasSuccessfulObservation(c)
        /\ Begin(p, [cmd |-> "adopt", pc |-> "create",
                     baseline |-> [cites |-> cites, at |-> calls + 1]])
        /\ UNCHANGED guidanceVars

Kept(v) == {b \in baselines \cup filled : VersionOf(b) = v}

CreateBaselineAnew(p) ==     \* mutant: the artifact on file is opened for writing
    LET v == VersionOf(job[p].baseline)
    IN
    /\ At(p, "adopt", "create")
    /\ baselines' = baselines \ Kept(v) /\ filled' = filled \ Kept(v)
    /\ unfilled' = unfilled \cup {v}
    /\ Goto(p, [job[p] EXCEPT !.pc = "fill"])
    /\ UNCHANGED <<objectVars, observationVars, status, orders, trusted, current, overlapped>>

\* Write-once: an immutable baseline of this version, adopted before from
\* other fetches, stands for the new one; a torn one refuses.
CreateBaseline(p) ==
    LET v == VersionOf(job[p].baseline)
    IN
    /\ At(p, "adopt", "create")
    /\ \/ /\ v \in unfilled
          /\ Goto(p, Idle)
          /\ UNCHANGED <<unfilled, trusted>>
       \/ /\ v \notin unfilled
          /\ \E b \in Kept(v) : /\ Goto(p, [job[p] EXCEPT !.pc = "point", !.baseline = b])
                                /\ trusted' = trusted \cup ({b} \cap filled)
          /\ UNCHANGED unfilled
       \/ /\ v \notin unfilled
          /\ Kept(v) = {}
          /\ unfilled' = unfilled \cup {v}
          /\ Goto(p, [job[p] EXCEPT !.pc = "fill"])
          /\ UNCHANGED trusted
    /\ UNCHANGED <<objectVars, observationVars, status, orders, baselines, filled, current,
                   overlapped>>

FillBaseline(p) ==
    /\ At(p, "adopt", "fill")
    /\ unfilled' = unfilled \ {VersionOf(job[p].baseline)}
    /\ filled' = filled \cup {job[p].baseline}
    /\ Goto(p, [job[p] EXCEPT !.pc = "filled"])
    /\ UNCHANGED <<objectVars, observationVars, status, orders, baselines, trusted, current,
                   overlapped>>

PointCurrent(p) ==
    /\ At(p, "adopt", "point")
    /\ current' = job[p].baseline
    /\ Goto(p, Idle)
    /\ UNCHANGED <<objectVars, observationVars, status, orders, baselineVars, overlapped>>

----------------------------------------------------------------------------
(* The end of a write                                                       *)

\* What p has filled stays: p is done with it, or dies.
Settle(p) ==
    /\ IF At(p, "refresh", "filled")
       THEN LET h == job[p].result.hash
            IN object' = [object EXCEPT ![h] = "whole"] /\ early' = early \ {h}
       ELSE UNCHANGED objectVars
    /\ IF At(p, "adopt", "filled")
       THEN LET b == job[p].baseline
            IN baselines' = baselines \cup {b} /\ filled' = filled \ {b} /\ trusted' = trusted \ {b}
       ELSE UNCHANGED <<baselines, filled, trusted>>
    /\ UNCHANGED <<observationVars, status, orders, unfilled, current, overlapped>>

\* fsync has returned.
Synced(p) ==
    /\ \/ At(p, "refresh", "filled") /\ Goto(p, [job[p] EXCEPT !.pc = "observe"])
       \/ At(p, "adopt", "filled") /\ Goto(p, [job[p] EXCEPT !.pc = "point"])
    /\ Settle(p)

\* A write that fails, or is interrupted, takes its own file away and ends the
\* command, whoever has read the file meanwhile.
WriteFails(p) ==
    /\ stops < MaxStops
    /\ stops' = stops + 1
    /\ \/ /\ At(p, "refresh", "fill") \/ At(p, "refresh", "filled")
          /\ object' = [object EXCEPT ![job[p].result.hash] = "absent"]
          /\ UNCHANGED <<partial, unfilled, filled>>
       \/ /\ At(p, "refresh", "record")
          /\ partial' = [partial EXCEPT ![job[p].result.src] = @ \ {job[p].result}]
          /\ UNCHANGED <<object, unfilled, filled>>
       \/ /\ At(p, "adopt", "fill") \/ At(p, "adopt", "filled")
          /\ unfilled' = unfilled \ {VersionOf(job[p].baseline)}
          /\ filled' = filled \ {job[p].baseline}
          /\ UNCHANGED <<object, partial>>
    /\ job' = [job EXCEPT ![p] = Idle]
    /\ UNCHANGED <<calls, observed, status, orders, baselines, current, overlapped, early, trusted>>

\* The process is killed: nothing it has begun is taken away.
GuidanceDies(p) == Die(p) /\ Settle(p)

GuidanceStep(p) ==
    \/ BeginRefresh(p) \/ ReadPrevious(p) \/ FetchFails(p)
    \/ \E c \in Contents : Fetched(p, c)
    \/ FillObject(p) \/ CreateObservation(p) \/ FillObservation(p) \/ SaveStatus(p)
    \/ BeginAdopt(p) \/ CreateBaseline(p) \/ FillBaseline(p) \/ PointCurrent(p)
    \/ Synced(p) \/ WriteFails(p)

----------------------------------------------------------------------------
(* What is read of the current baseline                                     *)

\* The immutable artifact of its version can be read and is this baseline.
Immutable(b) == VersionOf(b) \notin unfilled /\ Kept(VersionOf(b)) = {b}

\* status of guidance_evaluation_stamp
StampStatus ==
    CASE current = None -> "unconfigured"
      [] current # None /\ \A c \in current.cites :
             status[c.src] # None /\ status[c.src].hash = c.hash -> "adopted"
      [] OTHER -> "stale"

----------------------------------------------------------------------------
(* Properties                                                               *)

\* Every file holds what its validator accepts (_validate_observation,
\* _validate_work_order, _validate_baseline).
GuidanceTypeOK ==
    /\ object \in [Contents -> {"absent", "partial", "filled", "whole"}]
    /\ early \subseteq Contents
    /\ \A s \in Sources :
          /\ observed[s] \subseteq Result
          /\ partial[s] \subseteq Result
          /\ status[s] \in Result \cup {None}
          /\ \A r \in observed[s] \cup partial[s] \cup ({status[s]} \ {None}) : r.src = s
    /\ orders \subseteq SUBSET Success
    /\ baselines \cup filled \cup trusted \subseteq Baseline
    /\ unfilled \subseteq SUBSET (Sources \X Contents)
    /\ current \in Baseline \cup {None}
    /\ overlapped \in BOOLEAN

\* Whatever a work order or a baseline cites was fetched and stays on file,
\* whichever command died or failed on the way: the reviewer can read every
\* snapshot of an order, and no citation is refused for a torn object.  Only
\* of a content that was taken from a file too early is that not so.
CitedIntact ==
    /\ \A order \in orders : \A c \in order :
          c.hash \notin early => SnapshotRead(order, c.hash) = c.hash
    /\ \A cites \in orders \cup {b.cites : b \in baselines \cup filled} : \A c \in cites :
          /\ \E o \in observed[c.src] : o \in Fresh /\ Reference(o) = c
          /\ c.hash \notin early => ObjectMatchesHash(c.hash)

\* The current baseline is the one immutable baseline of its version, also
\* after a version is adopted again from later fetches: else every audit is
\* refused ("does not match its immutable artifact").  Only a baseline that
\* was taken from a file too early can be current without.
CurrentImmutable ==
    /\ \A b, c \in baselines \cup filled : VersionOf(b) = VersionOf(c) => b = c
    /\ current # None => Immutable(current) \/ current \in trusted

Newest(fetched) ==
    IF fetched = {} THEN None
    ELSE CHOOSE f \in fetched : \A g \in fetched : g.at <= f.at

NewestSuccess(s) == Newest({Reference(o) : o \in observed[s] \cap Fresh})

\* With no refresh on its way, none that overlapped another and none that
\* was cut short, the last success of a source is its newest successful
\* observation, through any number of failures since; a baseline stamped
\* adopted then cites the newest content of each of its sources.
NewestKnown ==
    stops = 0 /\ ~overlapped /\ (\A p \in Procs : ~Refreshing(p)) =>
        /\ \A s \in Sources : LastSuccess(s) = NewestSuccess(s)
        /\ StampStatus = "adopted" =>
              \A c \in current.cites : NewestSuccess(c.src).hash = c.hash
=============================================================================

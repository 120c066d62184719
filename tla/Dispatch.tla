------------------------------ MODULE Dispatch ------------------------------
(***************************************************************************)
(* The automated dispatch of one work order: dispatch.py,                  *)
(* dispatch_runtime.py, dispatch_process.py, work_orders.py and the part   *)
(* of system_campaign.py that writes the order and its sanitized stage.    *)
(*                                                                         *)
(* A proposal renders the order from an audited surface.  A dispatch reads *)
(* the target, gives a model a disposable stage of it inside a sandbox     *)
(* that was just shown to deny writes to the target, and keeps what the    *)
(* model answers as a plan to review, or as a quarantine of hashes.  The   *)
(* target may change at any moment, the model may do anything in its       *)
(* stage, hang, fail or answer anything; the dispatcher may die.           *)
(*                                                                         *)
(* The campaign's index, the torn artifact and the snapshot bound before   *)
(* the model runs are Campaigns; here a result is recorded in one step.    *)
(***************************************************************************)
EXTENDS Redaction

CONSTANTS
    Procs, None,
    Attempts,    \* attempt numbers an operator dispatches with
    Lives,       \* the texts the target may hold
    Proposed,    \* the texts a model may answer
    Scribbled,   \* what a model may leave of its stage
    Missed,      \* credentials only find_secret_spans recognizes
    MaxCalls,    \* bound: commands
    MaxStops,    \* bound: deaths and failed writes
    MaxEdits     \* bound: changes of the target by somebody else

\* A file that is not there is no content of it, and lines are sequences.
ASSUME DispatchAssumption ==
    /\ None \notin Procs /\ None \notin {Redactions(text) : text \in Lives}
    /\ \A text \in Lives \cup Proposed : \A l \in DOMAIN text : DOMAIN text[l] \subseteq Nat
    /\ MaxCalls \in Nat /\ MaxStops \in Nat /\ MaxEdits \in Nat

VARIABLES
    audited,     \* the text of the surface and the category of its finding
    live,        \* what the target holds
    order,       \* work-orders/<id>.md: None, or the line it quotes
    redactions,  \* redactions/<id>.json: None or a set of entries
    staging,     \* staging/<id>.json: None or a text
    torn, whole, \* accepted-candidates/<id>: by the content they are named for
    plans,       \* plans/<hash>.json
    results,     \* the result artifacts
    lock,        \* who holds the campaign
    job,         \* each process: its command and where it stands
    seen,        \* what models were shown
    reports,     \* what dispatches answered
    calls, stops, edits

campaign == <<audited, order, redactions, staging>>
kept == <<torn, whole, plans, results>>
bounds == <<calls, stops, edits>>
vars == <<campaign, live, kept, lock, job, seen, reports, bounds>>

-----------------------------------------------------------------------------
(* The order: system_planning.py and render_work_order. *)

\* _CREDENTIAL_PATTERN of the adapters knows fewer shapes than work_orders.py.
SurfaceSensitive(text) ==
    \E at \in Places(text) : PieceAt(text, at).kind = "secret" /\ PieceAt(text, at).of \notin Missed

Handling ==
    CASE audited.category = "sensitive-material-exposure" -> "manual-only"
      [] audited.category # "sensitive-material-exposure" /\ SurfaceSensitive(audited.text) -> "sanitized"
      [] OTHER -> "standard"

Dispatchable == Handling # "manual-only"
Sanitize == Handling = "sanitized"

\* The line a finding is at, as the file is when the order is rendered; it is
\* left out when it holds a credential or the surface does.
Quote ==
    IF Handling = "standard" /\ live # <<>> /\ Spans(<<live[1]>>) = {} THEN live[1] ELSE <<>>

Entries == IF Sanitize THEN redactions ELSE {}

-----------------------------------------------------------------------------
(* Commands. *)

Idle == [pc |-> "idle"]
Busy(p) == job[p].pc # "idle"

TypeOK ==
    /\ audited.text \in Lives /\ live \in Lives
    /\ staging # None => redactions # None /\ Sanitize
    /\ torn \cap whole = {}
    /\ \A r \in results \cup reports :
          /\ r.attempt \in Attempts /\ r.status \in {"accepted", "quarantined"}
          /\ r.status = "accepted" => r.plan \in plans
    /\ lock \in Procs \cup {None}
    /\ \A p \in Procs : Busy(p) <=> lock = p
    /\ calls \in 0 .. MaxCalls /\ stops \in 0 .. MaxStops /\ edits \in 0 .. MaxEdits

Init ==
    /\ audited \in [text : Lives, category : {"unmaintained", "sensitive-material-exposure"}]
    /\ live = audited.text
    /\ order = None /\ redactions = None /\ staging = None
    /\ torn = {} /\ whole = {} /\ plans = {} /\ results = {}
    /\ lock = None /\ job = [p \in Procs |-> Idle]
    /\ seen = {} /\ reports = {}
    /\ calls = 0 /\ stops = 0 /\ edits = 0

\* (mutant) the lock does not exclude.
FreeAlways == TRUE

Free == lock = None

\* CampaignLock fails at once when it is held.
Begin(p, j) ==
    /\ ~Busy(p) /\ Free
    /\ calls < MaxCalls /\ calls' = calls + 1
    /\ lock' = p /\ job' = [job EXCEPT ![p] = j]
    /\ UNCHANGED <<stops, edits>>

At(p, pc) == job[p].pc = pc

Goto(p, j) ==
    /\ job' = [job EXCEPT ![p] = j]
    /\ UNCHANGED <<lock, bounds>>

\* However a dispatch ends, its stage is removed and its lock is released.
End(p) ==
    /\ job' = [job EXCEPT ![p] = Idle]
    /\ lock' = IF lock = p THEN None ELSE lock
    /\ UNCHANGED bounds

Refuse(p) == End(p) /\ UNCHANGED <<campaign, live, kept, seen, reports>>

-----------------------------------------------------------------------------
(* propose_system_campaign, as far as the order goes. *)

BeginPropose(p) ==
    /\ order = None
    /\ Begin(p, [pc |-> "write order", quote |-> Quote])
    /\ UNCHANGED <<campaign, live, kept, seen, reports>>

WriteOrder(p) ==
    /\ At(p, "write order")
    /\ order' = job[p].quote
    /\ IF Sanitize THEN Goto(p, [pc |-> "write redactions"]) ELSE End(p)
    /\ UNCHANGED <<audited, redactions, staging, live, kept, seen, reports>>

\* _write_sanitized_stage reads the surface again, which must not have changed.
WriteRedactions(p) ==
    /\ At(p, "write redactions")
    /\ \/ /\ live = audited.text /\ Stageable(live)
          /\ redactions' = Redactions(live)
          /\ Goto(p, [pc |-> "write staging", text |-> Sanitized(live)])
          /\ UNCHANGED <<audited, order, staging, live, kept, seen, reports>>
       \/ ~(live = audited.text /\ Stageable(live)) /\ Refuse(p)

WriteStaging(p) ==
    /\ At(p, "write staging")
    /\ staging' = job[p].text
    /\ End(p)
    /\ UNCHANGED <<audited, order, redactions, live, kept, seen, reports>>

-----------------------------------------------------------------------------
(* dispatch_work_order up to the model. *)

Existing(a) == {r \in results : r.attempt = a}

\* A recorded attempt is answered from the record.
Repeat(p, a) ==
    /\ ~Busy(p) /\ Free
    /\ Cardinality(Existing(a)) = 1
    /\ calls < MaxCalls /\ calls' = calls + 1
    /\ reports' = reports \cup Existing(a)
    /\ UNCHANGED <<campaign, live, kept, lock, job, seen, stops, edits>>

BeginDispatch(p, a, runtime) ==
    /\ order # None
    /\ Existing(a) = {}
    /\ Begin(p, [pc |-> "read target", attempt |-> a, runtime |-> runtime,
                 created |-> calls, source |-> None, stage |-> None,
                 given |-> None, before |-> None, proven |-> FALSE])
    /\ UNCHANGED <<campaign, live, kept, seen, reports>>

\* The target is the surface that was audited, byte for byte.
TargetMatches == live = audited.text

ReadTarget(p) ==
    /\ At(p, "read target")
    /\ \/ /\ Dispatchable /\ TargetMatches
          /\ Goto(p, [job[p] EXCEPT !.pc = "fill stage", !.source = live])
          /\ UNCHANGED <<campaign, live, kept, seen, reports>>
       \/ ~(Dispatchable /\ TargetMatches) /\ Refuse(p)

\* _load_stage_input
StageText(source) == IF Sanitize THEN staging ELSE source

Reconstructs(source) ==
    Sanitize =>
        /\ staging # None /\ redactions # None
        /\ Verified(staging, redactions)
        /\ Materialized(staging, redactions) = source

\* The stage is filled, then the target is hashed before the probe.
FillStage(p) ==
    /\ At(p, "fill stage")
    /\ LET source == job[p].source IN
       \/ /\ Reconstructs(source)
          /\ Goto(p, [job[p] EXCEPT !.pc = "probe", !.stage = StageText(source), !.before = live])
          /\ UNCHANGED <<campaign, live, kept, seen, reports>>
       \/ ~Reconstructs(source) /\ Refuse(p)

\* A target that changed meanwhile is taken for the doing of the probe.
ProbeHarmless(p) == live = job[p].before

\* The sandbox shows that it denies writes to the target, or there is no
\* dispatch.
Probe(p) ==
    /\ At(p, "probe")
    /\ \/ /\ ProbeHarmless(p)
          /\ Goto(p, [job[p] EXCEPT !.pc = "start", !.proven = TRUE])
          /\ UNCHANGED <<campaign, live, kept, seen, reports>>
       \/ Refuse(p)

\* The prompt is the order; a Codex agent reads the stage as it goes.
StartCodex(p) ==
    /\ At(p, "start") /\ job[p].runtime = "codex"
    /\ Goto(p, [job[p] EXCEPT !.pc = "running"])
    /\ seen' = seen \cup {[text |-> job[p].stage, quote |-> order]}
    /\ UNCHANGED <<campaign, live, kept, reports>>

\* Claude has no tools: the staged text goes with the prompt, and only from
\* the stage of a probe that is not used up.
StartClaude(p) ==
    /\ At(p, "start") /\ job[p].runtime = "claude" /\ job[p].proven
    /\ Goto(p, [job[p] EXCEPT !.pc = "running", !.given = job[p].stage, !.proven = FALSE])
    /\ seen' = seen \cup {[text |-> job[p].stage, quote |-> order]}
    /\ UNCHANGED <<campaign, live, kept, reports>>

Start(p) == StartCodex(p) \/ StartClaude(p)

-----------------------------------------------------------------------------
(* The model. *)

\* The sandbox lets it write its stage.
Meddle(p, text) ==
    /\ At(p, "running")
    /\ job[p].stage # text
    /\ Goto(p, [job[p] EXCEPT !.stage = text])
    /\ UNCHANGED <<campaign, live, kept, seen, reports>>

Hang(p) ==
    /\ At(p, "running")
    /\ Goto(p, [job[p] EXCEPT !.pc = "hung"])
    /\ UNCHANGED <<campaign, live, kept, seen, reports>>

\* (mutant) nothing bounds the time a model takes.
TimeoutNever(p) == At(p, "running") /\ Refuse(p)

\* The time limit of the runtime: run_confined kills the process tree of Claude,
\* subprocess.run the process of Codex.  Like an exit status that is not zero, it
\* makes the runtime unavailable and leaves no result.
Timeout(p) == (At(p, "running") \/ At(p, "hung")) /\ Refuse(p)

Quarantine(p) ==
    /\ Goto(p, [pc |-> "record", result |-> [attempt |-> job[p].attempt, status |-> "quarantined"]])
    /\ UNCHANGED <<campaign, live, kept, seen, reports>>

\* No JSON of the schema, too long, or two texts of one path.
FailCodex(p) == At(p, "running") /\ job[p].runtime = "codex" /\ Quarantine(p)

\* The same, an envelope that reports an error, or a path it was not given.
FailClaude(p) == At(p, "running") /\ job[p].runtime = "claude" /\ Quarantine(p)

\* Not a text for the target and for nothing else.
Misshapen(p) == At(p, "running") /\ Quarantine(p)

\* (mutant) the stage is not compared.
UntouchedTarget(p) == live = job[p].before

\* Neither the target nor the stage changed under the model.
Untouched(p) ==
    /\ live = job[p].before
    /\ job[p].stage = StageText(job[p].source)

\* What the model made its answer of.
MadeFrom(p) == IF job[p].runtime = "claude" THEN job[p].given ELSE job[p].stage

Answer(p, text) ==
    /\ At(p, "running")
    /\ \/ /\ Untouched(p) /\ Verified(text, Entries)
          /\ Goto(p, [pc |-> "write candidate", attempt |-> job[p].attempt,
                      plan |-> [text |-> Materialized(text, Entries),
                                precondition |-> job[p].source,
                                created |-> job[p].created, from |-> MadeFrom(p)]])
          /\ UNCHANGED <<campaign, live, kept, seen, reports>>
       \/ ~(Untouched(p) /\ Verified(text, Entries)) /\ Quarantine(p)

-----------------------------------------------------------------------------
(* _persist_accepted and _persist_quarantine. *)

SameContent(text) == text \notin torn

\* _write_bytes_once: created, or there with this content, or a collision.
WriteCandidate(p) ==
    /\ At(p, "write candidate")
    /\ LET text == job[p].plan.text IN
       \/ /\ text \notin torn \cup whole
          /\ torn' = torn \cup {text}
          /\ Goto(p, [job[p] EXCEPT !.pc = "fill candidate"])
          /\ UNCHANGED <<campaign, live, whole, plans, results, seen, reports>>
       \/ /\ text \in torn \cup whole /\ SameContent(text)
          /\ Goto(p, [job[p] EXCEPT !.pc = "write plan"])
          /\ UNCHANGED <<campaign, live, kept, seen, reports>>
       \/ text \in torn /\ ~SameContent(text) /\ Refuse(p)

FillCandidate(p) ==
    /\ At(p, "fill candidate")
    /\ torn' = torn \ {job[p].plan.text}
    /\ whole' = whole \cup {job[p].plan.text}
    /\ Goto(p, [job[p] EXCEPT !.pc = "write plan"])
    /\ UNCHANGED <<campaign, live, plans, results, seen, reports>>

WritePlan(p) ==
    /\ At(p, "write plan")
    /\ plans' = plans \cup {job[p].plan}
    /\ Goto(p, [pc |-> "record", result |-> [attempt |-> job[p].attempt, status |-> "accepted",
                                            plan |-> job[p].plan]])
    /\ UNCHANGED <<campaign, live, torn, whole, results, seen, reports>>

Record(p) ==
    /\ At(p, "record")
    /\ results' = results \cup {job[p].result}
    /\ reports' = reports \cup {job[p].result}
    /\ End(p)
    /\ UNCHANGED <<campaign, live, torn, whole, plans, seen>>

-----------------------------------------------------------------------------
(* The rest of the world. *)

Edit(text) ==
    /\ edits < MaxEdits /\ edits' = edits + 1
    /\ live # text /\ live' = text
    /\ UNCHANGED <<campaign, kept, lock, job, seen, reports, calls, stops>>

\* The process is killed, or one of its writes fails.
Die(p) ==
    /\ Busy(p)
    /\ stops < MaxStops /\ stops' = stops + 1
    /\ job' = [job EXCEPT ![p] = Idle]
    /\ lock' = IF lock = p THEN None ELSE lock
    /\ UNCHANGED <<campaign, live, kept, seen, reports, calls, edits>>

\* The steps of a command that is under way.
Step(p) ==
    \/ WriteOrder(p) \/ WriteRedactions(p) \/ WriteStaging(p)
    \/ ReadTarget(p) \/ FillStage(p) \/ Probe(p) \/ Start(p)
    \/ Timeout(p) \/ FailCodex(p) \/ FailClaude(p) \/ Misshapen(p)
    \/ \E text \in Proposed : Answer(p, text)
    \/ WriteCandidate(p) \/ FillCandidate(p) \/ WritePlan(p) \/ Record(p)

Next ==
    \/ \E p \in Procs :
          \/ BeginPropose(p) \/ Step(p) \/ Hang(p) \/ Die(p)
          \/ \E a \in Attempts : Repeat(p, a) \/ \E rt \in {"codex", "claude"} : BeginDispatch(p, a, rt)
          \/ \E text \in Scribbled : Meddle(p, text)
    \/ \E text \in Lives : Edit(text)

Spec == Init /\ [][Next]_vars

\* A command under way takes its next step, and every wait in it is bounded.
FairSpec == Spec /\ \A p \in Procs : WF_vars(Step(p))

-----------------------------------------------------------------------------
\* A plan is of what it replaces: the text its precondition names is the one
\* the model worked from, though the target and the stage change meanwhile.
PlanOfWhatItReplaces ==
    \A plan \in plans :
        IF Sanitize
        THEN Verified(plan.from, redactions) /\ Materialized(plan.from, redactions) = plan.precondition
        ELSE plan.from = plan.precondition

\* The credentials of a text, line by line: those found in it, and those of
\* the order wherever they stand.
Credentials(text, entries) ==
    {[line |-> at[1], text |-> text[at[1]]] :
        at \in Spans(text) \cup UNION {Occurrences(text, e.value) : e \in entries}}

\* A plan leaves every credential in its line, and that line as it was, and
\* puts none anywhere else.
CredentialsKept ==
    Sanitize => \A plan \in plans :
        Credentials(plan.text, redactions) = Credentials(plan.precondition, redactions)

\* A model is shown no credential of a surface known to be sensitive, and no
\* order quotes one.
CredentialsUnseen ==
    \A s \in seen :
        /\ Spans(<<s.quote>>) = {}
        /\ Sanitize => Credentials(s.text, redactions) = {}

\* A plan that can be reviewed has its whole candidate behind it.
SourceWhole == \A plan \in plans : plan.text \in whole

\* An attempt has one answer, however often and by whom it is asked for.
OneAnswer == \A x, y \in results \cup reports : x.attempt = y.attempt => x = y

\* A dispatch ends, and with it the lock on its campaign.
EveryCallEnds == \A p \in Procs : Busy(p) ~> ~Busy(p)

\* A plan on file can be reviewed for what it is: the answer to the text it
\* replaces, with its candidate whole.
PlanSound == TypeOK /\ PlanOfWhatItReplaces /\ SourceWhole

\* Credentials neither leave their lines nor reach a model.
CredentialsInPlace == CredentialsKept /\ CredentialsUnseen
=============================================================================

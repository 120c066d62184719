---------------------------- MODULE EvidenceStore ----------------------------
(***************************************************************************)
(* The evidence of one provider session and its retention: evidence.py,    *)
(* evidence_retention.py, behavior_lock.py, codex_results.py, and the      *)
(* commands that write evidence (`apu evidence`, the mark of an incident,  *)
(* `apu behavior audit`) or delete it (`apu behavior prune`).              *)
(*                                                                         *)
(* Three formats are stored side by side, one file each.  An event keeps   *)
(* its identity when the same record is ingested again; a reader picks one *)
(* projection per source record, the newest format first, and refuses when *)
(* two disagree in a way no newer format explains.                         *)
(*                                                                         *)
(* A command that writes holds the behavior lock from its first read to    *)
(* its last write; a preview of retention and the snapshot of a transcript *)
(* do not.  The transcript is the provider's and only grows.               *)
(***************************************************************************)
EXTENDS Naturals, Sequences, FiniteSets, FiniteSetsExt, Maps

CONSTANTS
    Procs,
    Kinds,        \* what each line of the transcript is: "exec" a command request,
                  \* "result" the failure of one
    Formats,      \* schema versions a command may be told to write
    Ages,         \* attributions a selection may record: they name the age of the session
    MaxIngests,   \* bound: `apu evidence ingest-codex`
    MaxReports,   \* bound: incidents and audits
    MaxPreviews,  \* bound: previews of retention
    MaxStops,     \* bound: process deaths and failed writes
    MaxAges       \* bound: periods longer than the retention

ASSUME EvidenceAssumption ==
    /\ Formats \subseteq 1 .. 3 /\ None \notin Procs
    /\ Kinds \in Seq({"exec", "result"}) /\ Kinds # <<>>

Routes == 1 .. 3

VARIABLES
    trace,      \* lines the provider has written
    files,      \* the events in the file of each format
    tail,       \* how each file ends: "ok", "empty", "bare" (no newline), "cut" (half a line)
    mtime,      \* when each file was last written
    written,    \* the retention period in which each file was last written
    home,       \* the state directory exists
    stamp,      \* counts the writes of other state records
    refs,       \* events that saved incidents and audits name
    pinned,     \* some saved record names the session
    plans,      \* previews on file
    journals,   \* retention journals: plan to "prepared" or "complete"
    lock,       \* who holds .behavior.lock
    at, work,    \* each process: where it is, and what it read
    ingests, reports, stops, ages

store == <<files, tail, mtime, written>>
records == <<home, stamp, refs, pinned>>
pruning == <<plans, journals>>
limits == <<ingests, reports, stops, ages>>
evidenceVars == <<trace, store, records, pruning, lock, at, work, limits>>

-----------------------------------------------------------------------------
(* Events. *)

\* What the prose rules of formats 1 and 2 and the typed rules of format 3 make
\* of a line; only format 3 classifies an exec_command.
Status(v, k) == IF k = "exec" THEN "requested" ELSE IF v = 3 THEN "failed" ELSE "completed"
Class(v, k) == IF v = 3 /\ k = "exec" THEN "test" ELSE "none"

\* Line n, ingested in format v with attribution a from the first t lines.
Reading(v, n, t, a) ==
    [v |-> v, line |-> n, snap |-> t, att |-> a, st |-> Status(v, Kinds[n]),
     class |-> Class(v, Kinds[n])]
Ingested(v, t, a) == {Reading(v, n, t, a) : n \in 1 .. t}

Exec(e) == Kinds[e.line] = "exec"
Result(e) == Kinds[e.line] = "result"
EventType(e) == IF Result(e) THEN e.st ELSE "requested"

\* event_id: the attribution is part of it from format 2 on, a class in format 3.
Id(e) == [v |-> e.v, line |-> e.line, type |-> EventType(e),
          att |-> IF e.v = 1 THEN None ELSE e.att,
          class |-> IF e.v = 3 /\ Exec(e) THEN e.class ELSE "none"]

Present == {v \in Routes : files[v] # {} \/ tail[v] # "ok"}
Stored == UNION {files[v] : v \in Routes}
Ids == {Id(e) : e \in Stored}

\* Half a line stops every reader; a line without its newline still reads.
Parses == \A v \in Routes : tail[v] # "cut"

\* (mutant) a format-3 result does not replace older readings of the record.
KeyTyped(e) == <<e.line, EventType(e)>>

\* _logical_event_key, and read_evidence's key for results that format 3 revised.
Key(e) == <<e.line,
            IF Result(e) /\ \E f \in Stored : f.v = 3 /\ f.line = e.line THEN "result"
            ELSE EventType(e)>>

\* The newest format first, a classified request before an unclassified one.
Before(e, f) == e.v > f.v \/ (e.v = f.v /\ Exec(e) /\ e.class # "none" /\ f.class = "none")
First(k) == CHOOSE e \in Stored : Key(e) = k /\ \A f \in Stored : Key(f) = k => ~Before(f, e)

\* Format 3 may correct an older status and fill in a class that was absent;
\* without it the comparison is strict, the snapshot included.
Agree(e, f) ==
    IF e.v = 3
    THEN /\ e.st = f.st \/ (f.v < 3 /\ Result(e))
         /\ e.class = f.class \/ (Exec(e) /\ "none" \in {e.class, f.class})
    ELSE e.st = f.st /\ e.class = f.class /\ e.snap = f.snap

RecordKeys == {Key(e) : e \in Stored}
Reads == Parses /\ \A e \in Stored : Agree(First(Key(e)), e)
Effective == {First(k) : k \in RecordKeys}

-----------------------------------------------------------------------------

PCs == {"idle", "snapped", "marking", "report", "unlink"}

EvidenceTypes ==
    /\ trace \in 0 .. Len(Kinds)
    /\ \A v \in Routes : \A e \in files[v] : e.v = v /\ e.line \in 1 .. e.snap /\ e.snap <= trace
    /\ tail \in [Routes -> {"ok", "empty", "bare", "cut"}]
    /\ mtime \in [Routes -> Nat] /\ written \in [Routes -> 0 .. ages + 1]
    /\ home \in BOOLEAN /\ stamp \in Nat /\ pinned \in BOOLEAN
    /\ \A x \in DOMAIN journals : journals[x] \in {"prepared", "complete"}
    /\ lock \in Procs \cup {None} /\ at \in [Procs -> PCs]
    /\ \A p \in Procs : at[p] = "unlink" => lock = p
    /\ lock # None => at[lock] # "idle" /\ home

\* An older build may have left an unclassified request in format 3.
EvidenceInit ==
    /\ trace = 1
    /\ \E old \in {{}, {[Reading(3, 1, 1, "old") EXCEPT !.class = "none"]}} :
          files = [v \in Routes |-> IF v = 3 THEN old ELSE {}] /\ home = (old # {})
    /\ tail = [v \in Routes |-> "ok"] /\ mtime = [v \in Routes |-> 0]
    /\ written = [v \in Routes |-> 0]
    /\ stamp = 0 /\ refs = {} /\ pinned = FALSE
    /\ plans = <<>> /\ journals = <<>> /\ lock = None
    /\ at = [p \in Procs |-> "idle"] /\ work = [p \in Procs |-> None]
    /\ ingests = 0 /\ reports = 0 /\ stops = 0 /\ ages = 0

To(p, l) == at' = [at EXCEPT ![p] = l]

\* es: what the command ingests itself; want: what an audit is to report on.
Hold(p, es, want) == work' = [work EXCEPT ![p] = [es |-> es, want |-> want]]

End(p) ==
    /\ To(p, "idle") /\ work' = [work EXCEPT ![p] = None]
    /\ lock' = IF lock = p THEN None ELSE lock

\* The provider goes on.
Grow == trace < Len(Kinds) /\ trace' = trace + 1
        /\ UNCHANGED <<store, records, pruning, lock, at, work, limits>>

\* The period that runs; what was on file at the start is older.
Period == ages + 1

\* A month passes; no command runs that long.
Age == /\ ages < MaxAges /\ ages' = ages + 1 /\ \A p \in Procs : at[p] = "idle"
       /\ UNCHANGED <<trace, store, records, pruning, lock, at, work,
                      ingests, reports, stops>>

-----------------------------------------------------------------------------
(* Appending. *)

\* append_evidence_events: events whose id is on file already are left out.
Missing(es) == {e \in es : Id(e) \notin Ids}

\* ok: the whole append, in one write; otherwise a death or a full disk after some
\* bytes of it: at the end of a line, before its newline or in its middle, or with
\* the file created and nothing in it.
AppendEvents(es, ok) ==
    /\ Parses /\ home' = TRUE
    /\ LET v == (CHOOSE e \in es : TRUE).v IN
       IF Missing(es) = {} THEN ok /\ UNCHANGED store
       ELSE /\ written' = [written EXCEPT ![v] = Period] /\ mtime' = [mtime EXCEPT ![v] = @ + 1]
            /\ IF tail[v] = "bare"
               THEN tail' = [tail EXCEPT ![v] = "cut"] /\ UNCHANGED files
               ELSE IF ok
               THEN /\ files' = [files EXCEPT ![v] = @ \cup Missing(es)]
                    /\ tail' = [tail EXCEPT ![v] = "ok"]
               ELSE \E done \in SUBSET Missing(es), t \in {"ok", "empty", "bare", "cut"} :
                    /\ \A e \in done, f \in Missing(es) \ done : e.line < f.line
                    /\ t = "empty" => done = {} /\ v \notin Present
                    /\ done = {} => t \in {"empty", "cut"}
                    /\ done = Missing(es) => t = "bare"
                    /\ files' = [files EXCEPT ![v] = @ \cup done]
                    /\ tail' = [tail EXCEPT ![v] = t]

\* `apu evidence ingest-codex`: the selection writes the selector health, then
\* the transcript is frozen as it is, before any lock.
Snap(p, v, a) ==
    /\ at[p] = "idle" /\ ingests < MaxIngests /\ ingests' = ingests + 1
    /\ home' = TRUE /\ stamp' = stamp + 1
    /\ Hold(p, Ingested(v, trace, a), {}) /\ To(p, "snapped")
    /\ UNCHANGED <<trace, store, refs, pinned, pruning, lock, reports, stops, ages>>

\* The command ends with an error; so does one that finds the lock held.
Refuse(p) == End(p) /\ UNCHANGED <<trace, store, records, pruning, limits>>

Ingest(p) ==
    /\ at[p] = "snapped"
    /\ IF lock = None /\ Parses
       THEN /\ AppendEvents(work[p].es, TRUE) /\ End(p)
            /\ UNCHANGED <<trace, stamp, refs, pinned, pruning, limits>>
       ELSE Refuse(p)

-----------------------------------------------------------------------------
(* Incidents and audits: both ingest, then save a record that names events. *)

\* serialized_behavior: the lock is for a state directory that exists.
Mark(p, v, a) ==
    /\ at[p] = "idle" /\ reports < MaxReports /\ reports' = reports + 1
    /\ home => lock = None
    /\ lock' = IF home THEN p ELSE lock
    /\ home' = TRUE /\ stamp' = stamp + 1
    /\ Hold(p, Ingested(v, trace, a), {}) /\ To(p, "marking")
    /\ UNCHANGED <<trace, store, refs, pinned, pruning, ingests, stops, ages>>

\* The append takes the lock again, or for the first time.
MarkAppend(p) ==
    /\ at[p] = "marking"
    /\ IF lock \in {None, p} /\ Parses
       THEN /\ AppendEvents(work[p].es, TRUE) /\ To(p, "report")
            /\ UNCHANGED <<trace, stamp, refs, pinned, pruning, lock, work, limits>>
       ELSE Refuse(p)

\* (mutant) an audit reuses evidence whatever it lacks.
ReusedAny(v) == files[v] # {}

\* _already_ingested_unchanged: the newest snapshot in this format is the
\* transcript as it is, and no request waits for its class.
Reused(v) ==
    /\ v = 3 => \A e \in files[3] : Exec(e) =>
                   \E f \in files[3] : f.line = e.line /\ f.class # "none"
    /\ \E e \in files[v] : e.snap = trace /\ \A f \in files[v] : f.snap <= trace

\* audit_behavior: the attribution is the path of the transcript.
Audit(p, v) ==
    /\ at[p] = "idle" /\ reports < MaxReports /\ reports' = reports + 1
    /\ home /\ lock = None /\ Parses /\ lock' = p
    /\ IF Reused(v) THEN UNCHANGED <<store, home>> ELSE AppendEvents(Ingested(v, trace, "path"), TRUE)
    /\ Hold(p, {}, {Reading(v, n, trace, "path") : n \in 1 .. trace}) /\ To(p, "report")
    /\ UNCHANGED <<trace, stamp, refs, pinned, pruning, ingests, stops, ages>>

\* The incident names the events it ingested; the audit those it reads back.
Report(p) ==
    /\ at[p] = "report"
    /\ IF work[p].es = {} /\ ~Reads THEN Refuse(p)
       ELSE /\ refs' = refs \cup {Id(e) : e \in IF work[p].es = {} THEN Effective ELSE work[p].es}
            /\ pinned' = TRUE /\ stamp' = stamp + 1 /\ End(p)
            /\ UNCHANGED <<trace, store, home, pruning, limits>>

-----------------------------------------------------------------------------
(* Retention. *)

\* preview_retention as of period t: all formats of the session, or none of them.
Eligible(t) ==
    IF \A v \in Present : ~pinned /\ tail[v] \in {"ok", "bare"} /\ written[v] < t
    THEN Present ELSE {}
Fingerprint(v) == <<v, mtime[v], files[v], tail[v]>>
PreviewAt(t) == [asOf |-> t, refs |-> stamp, evidence |-> {Fingerprint(v) : v \in Present},
                 candidates |-> {Fingerprint(v) : v \in Eligible(t)}]

\* Without the lock; nothing is written to the state directory.
Preview ==
    /\ Len(plans) < MaxPreviews /\ Eligible(Period) # {}
    /\ plans' = Append(plans, PreviewAt(Period))
    /\ UNCHANGED <<trace, store, records, journals, lock, at, work, limits>>

\* (mutant) a journal on file is taken up whatever happened since.
ConfirmedOnce(x) == x \in DOMAIN journals \/ PreviewAt(x.asOf) = x

\* apply_retention: a first run needs the preview unchanged, a later one the
\* references and every candidate still on file, judged as of the preview.
Confirmed(x) ==
    /\ x \in DOMAIN journals \/ PreviewAt(x.asOf) = x
    /\ x.refs = stamp
    /\ \A c \in x.candidates : c[1] \in Present => c \in PreviewAt(x.asOf).candidates

\* (mutant) a plan that has a journal is refused.
PruneOnce(p, x) ==
    /\ at[p] = "idle" /\ lock = None /\ home
    /\ x \notin DOMAIN journals /\ Confirmed(x)
    /\ lock' = p /\ To(p, "unlink") /\ work' = [work EXCEPT ![p] = x]
    /\ journals' = With(journals, x, "prepared")
    /\ UNCHANGED <<trace, store, records, plans, limits>>

Prune(p, x) ==
    /\ at[p] = "idle" /\ lock = None /\ home
    /\ x \in DOMAIN journals => journals[x] = "prepared"
    /\ Confirmed(x)
    /\ lock' = p /\ To(p, "unlink") /\ work' = [work EXCEPT ![p] = x]
    /\ journals' = With(journals, x, "prepared")
    /\ UNCHANGED <<trace, store, records, plans, limits>>

\* The formats the plan of p names and that are still there.
ToUnlink(p) == {c[1] : c \in work[p].candidates} \cap Present

\* (mutant) the newest format goes first.
NextUnlinkNewest(p) == Max(ToUnlink(p))

\* Candidates are sorted by path: behavior/evidence/<provider>, then v2, then v3.
NextUnlink(p) == Min(ToUnlink(p))

Unlink(p) ==
    /\ at[p] = "unlink" /\ ToUnlink(p) # {}
    /\ LET v == NextUnlink(p) IN
       /\ files' = [files EXCEPT ![v] = {}] /\ tail' = [tail EXCEPT ![v] = "ok"]
       /\ written' = [written EXCEPT ![v] = 0]
    /\ UNCHANGED <<trace, mtime, records, pruning, lock, at, work, limits>>

PruneDone(p) ==
    /\ at[p] = "unlink" /\ ToUnlink(p) = {}
    /\ journals' = [journals EXCEPT ![work[p]] = "complete"]
    /\ End(p) /\ UNCHANGED <<trace, store, records, plans, limits>>

-----------------------------------------------------------------------------
(* Deaths and failed writes. *)

Stop(p) ==
    /\ at[p] # "idle" /\ stops < MaxStops /\ stops' = stops + 1 /\ End(p)
    /\ \/ UNCHANGED <<store, home>>
       \/ /\ at[p] \in {"snapped", "marking"} /\ lock \in {None, p}
          /\ AppendEvents(work[p].es, FALSE)
    /\ UNCHANGED <<trace, stamp, refs, pinned, pruning, ingests, reports, ages>>

Advance(p) == \/ Ingest(p) \/ MarkAppend(p) \/ Report(p) \/ Unlink(p) \/ PruneDone(p)
              \/ \E i \in DOMAIN plans : Prune(p, plans[i])

EvidenceNext ==
    \/ \E p \in Procs, v \in Formats, a \in Ages : Snap(p, v, a) \/ Mark(p, v, a)
    \/ \E p \in Procs, v \in Formats : Audit(p, v)
    \/ \E p \in Procs : Advance(p) \/ Stop(p)
    \/ Grow \/ Age \/ Preview

\* A command that runs goes on; the operator repeats an interrupted prune.
EvidenceSpec == EvidenceInit /\ [][EvidenceNext]_evidenceVars /\ \A p \in Procs : WF_evidenceVars(Advance(p))

-----------------------------------------------------------------------------
(* What the store promises. *)

Covered == \A e \in Stored : \E f \in files[3] : f.line = e.line

\* "Readers select v3's result status for the same Codex source record without
\* double-counting older interpretations" (README.md:463-464): once format 3 has
\* every record the session reads, each record counts once, and as format 3 has it.
OneReading == Parses /\ Covered =>
    /\ Reads /\ Cardinality(Effective) = Cardinality({e.line : e \in Stored})
    /\ \A e \in Effective : e.v = 3

\* An event that a saved incident or audit names stays on file: "a reference to a
\* session ... pins all versions of that session" (README.md:583-584), also when the
\* record is saved between a preview and its application or while one is interrupted.
\* (What an append spoils that follows a line without its newline no reader gets past.)
RefsKept == Parses => refs \subseteq Ids

\* Evidence goes only when every format of the session is old and nothing names
\* the session, also in a prune taken up after a death.
OnlyOldPruned == [][\A v \in Routes : files[v] # {} /\ files'[v] = {} =>
    ~pinned /\ Parses /\ \A w \in Present : written[w] < Period]_evidenceVars

\* A prune never makes a session unreadable, wherever it is interrupted: the
\* formats go oldest first, so what explains a disagreement goes last.
ReadableWhilePruned == [][Reads /\ files' # files /\ Cardinality(Stored') < Cardinality(Stored)
    => Reads']_evidenceVars

\* The receipt says complete when every file of the plan has gone.
ReceiptTrue == [][\A x \in DOMAIN journals' :
    journals'[x] = "complete" /\ (x \in DOMAIN journals => journals[x] # "complete")
        => \A c \in x.candidates : c \notin {Fingerprint(v) : v \in Present}']_evidenceVars

\* "Audits reingest raw Codex traces when the requested writer version or
\* execution-command classification is missing" (README.md:472-474): unless an append
\* was cut short, an audit is saved over evidence that has every record of the
\* transcript it selected, in the format it was told to write and with its class.
AuditFresh == [][\A p \in Procs :
    stops = 0 /\ at[p] = "report" /\ at'[p] = "idle" /\ stamp' # stamp =>
        \A e \in work[p].want : \E f \in files'[e.v] : f.line = e.line /\ f.class = e.class]_evidenceVars

\* "Repeating the same plan resumes interrupted deletion or returns its completed
\* receipt" (README.md:591-592): a prepared journal completes unless the state it was
\* prepared for changes.
PruneEnds == \A i \in 1 .. MaxPreviews :
    (i \in DOMAIN plans /\ plans[i] \in DOMAIN journals) ~>
        (i \in DOMAIN plans /\ plans[i] \in DOMAIN journals /\ journals[plans[i]] = "complete")
        \/ (i \in DOMAIN plans /\ ~Confirmed(plans[i]))

\* The formats of a session are one record of it.
ReadOnce == EvidenceTypes /\ OneReading

\* A prune takes what is old and unnamed, keeps the session readable at every
\* step and says it is done when it is, also when it is interrupted.
PruneSafe == OnlyOldPruned /\ ReadableWhilePruned /\ ReceiptTrue
=============================================================================

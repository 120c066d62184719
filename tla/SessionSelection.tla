-------------------------- MODULE SessionSelection --------------------------
(***************************************************************************)
(* Which session a report is about: select_session of behavior_watch.py.   *)
(*                                                                         *)
(* The selector reads other programs' transcripts while they are written:  *)
(* it lists them, peeks into each for its session and directory, parses    *)
(* those that match and decides.  A Claude session moves among directories,*)
(* any session may end or fall silent, and transcripts appear meanwhile.   *)
(*                                                                         *)
(* Of a transcript the model keeps what a reader makes of it: the session  *)
(* id, the latest directory, whether its last turn is complete, whether    *)
(* its last event is recent.                                               *)
(***************************************************************************)
EXTENDS Naturals, Sequences, FiniteSets, Maps

CONSTANTS
    Traces,      \* the files, in the order a listing has them
    ProviderOf, IdOf,
    Moves,       \* providers whose sessions change directory
    Dirs,
    Queries,     \* [provider, id, cwd], each None when it is not asked for
    MaxChanges   \* bound: changes of transcripts

Providers == {ProviderOf[f] : f \in Traces}

ASSUME SelectionAssumption ==
    /\ None \notin Traces /\ None \notin Dirs /\ None \notin Providers
    /\ Traces \subseteq Nat /\ Traces # {} /\ IsFiniteSet(Traces)
    /\ \A q \in Queries : q.provider \in Providers \cup {None}

VARIABLES
    file,       \* what each transcript is now
    roots,      \* providers whose trace directory exists
    stage, search,    \* the selector: where it is, and what it found
    health,     \* selector-health.json
    still,      \* transcripts that suit the query since the selection began
    changes

selectionVars == <<file, roots, stage, search, health, still, changes>>

Reasons == {"ambiguous_active_candidates", "ambiguous_session_id", "ambiguous_provider",
            "cwd_mismatch", "no_active_candidate", "stale_trace", "unparsable_trace",
            "no_exact_cwd_candidate", "session_not_found", "trace_root_unavailable"}
Selected(f, dir) == [trace |-> f, dir |-> dir, reason |-> "selected"]
Nothing(reason) == [trace |-> None, dir |-> None, reason |-> reason]

SelectionTypes ==
    /\ \A f \in Traces : file[f].state \in {"absent", "broken", "ok"} /\ file[f].dir \in Dirs
    /\ roots \subseteq Providers /\ still \subseteq Traces
    /\ stage \in {"idle", "list", "peek", "parse", "choose", "health", "done"}
    /\ stage \in {"health", "done"} =>
          /\ search.result.reason \in Reasons \cup {"selected"}
          /\ (search.result.trace = None) = (search.result.reason # "selected")
    /\ \A p \in Providers : health[p].ambiguous <= health[None].ambiguous

\* What a parse makes of a transcript: where its latest record is, whether a turn was
\* begun that no record ends, whether its last record is recent.
Readable == [state : {"ok"}, dir : Dirs, open : BOOLEAN, fresh : BOOLEAN]

\* A file that does not exist has no history of its own; of one that is refused (too
\* large, no directory, the id of another session) only the directory can be seen.
Contents == {[state |-> "absent", dir |-> d, open |-> TRUE, fresh |-> TRUE] : d \in Dirs}
            \cup {[state |-> "broken", dir |-> d, open |-> TRUE, fresh |-> TRUE] : d \in Dirs}
            \cup Readable

SelectionInit ==
    /\ file \in [Traces -> Contents] /\ roots \in SUBSET Providers
    /\ \A f \in Traces : ProviderOf[f] \notin roots => file[f].state = "absent"
    /\ stage = "idle" /\ search = None /\ still = {} /\ changes = 0
    /\ health = [p \in Providers \cup {None} |-> [ambiguous |-> 0, beats |-> 0, hits |-> 0]]

-----------------------------------------------------------------------------
(* One provider: _select_provider_session. *)

\* What the query asks of a transcript: by id also a completed session will do.
Suits(f, q) ==
    /\ file[f].state = "ok" /\ file[f].fresh
    /\ q.provider \in {None, ProviderOf[f]}
    /\ IF q.id # None THEN IdOf[f] = q.id /\ q.cwd \in {None, file[f].dir}
       ELSE file[f].open /\ file[f].dir = q.cwd

NoFlags == [mismatch |-> FALSE, stale |-> FALSE, unparsable |-> FALSE, completed |-> FALSE]

Ask(q) ==
    /\ stage = "idle" /\ stage' = "list" /\ still' = {f \in Traces : Suits(f, q)}
    /\ search' = [query |-> q, results |-> <<>>, provider |-> None, left |-> {}, matched |-> {},
               active |-> {}, flags |-> NoFlags, result |-> None, quiet |-> TRUE,
               providers |-> IF q.provider = None THEN Providers ELSE {q.provider}]
    /\ UNCHANGED <<file, roots, health, changes>>

Searched(p, r) == [search EXCEPT !.results = With(@, p, r)]
Unasked == search.providers \ DOMAIN search.results

List ==
    /\ stage = "list"
    /\ IF Unasked = {} THEN stage' = "choose" /\ UNCHANGED search
       ELSE LET p == CHOOSE p \in Unasked : TRUE IN
            IF p \notin roots
            THEN search' = Searched(p, Nothing("trace_root_unavailable")) /\ UNCHANGED stage
            ELSE /\ search' = [search EXCEPT !.provider = p, !.matched = {}, !.active = {},
                              !.flags = NoFlags,
                              !.left = {f \in Traces : ProviderOf[f] = p
                                                       /\ file[f].state # "absent"}]
                 /\ stage' = "peek"
    /\ UNCHANGED <<file, roots, health, still, changes>>

Nearest(s) == CHOOSE f \in s : \A g \in s : f <= g

\* A transcript that cannot be parsed as a whole can still be peeked into.
Matches(f) == IF search.query.id # None THEN IdOf[f] = search.query.id
              ELSE file[f].dir = search.query.cwd

Peek ==
    /\ stage = "peek"
    /\ IF search.left # {}
       THEN LET f == Nearest(search.left) IN
            /\ search' = [search EXCEPT !.left = @ \ {f},
                         !.matched = IF Matches(f) THEN @ \cup {f} ELSE @]
            /\ UNCHANGED stage
       ELSE IF search.matched = {}
       THEN /\ search' = Searched(search.provider, Nothing(
                    IF search.query.id # None THEN "session_not_found"
                    ELSE "no_exact_cwd_candidate"))
            /\ stage' = "list"
       ELSE search' = [search EXCEPT !.left = @ \cup search.matched] /\ stage' = "parse"
    /\ UNCHANGED <<file, roots, health, still, changes>>

\* By directory nothing looks at the directory again.
Verdict(f) ==
    IF file[f].state = "broken" THEN "unparsable"
    ELSE IF search.query.id # None /\ search.query.cwd \notin {None, file[f].dir} THEN "mismatch"
    ELSE IF ~file[f].fresh THEN "stale"
    ELSE IF search.query.id = None /\ ~file[f].open THEN "completed"
    ELSE "active"

\* One candidate is selected; else the reason that says most.
Found ==
    IF Cardinality(search.active) = 1 THEN CHOOSE r \in search.active : TRUE
    ELSE LET fl == search.flags
             byId == search.query.id # None IN
         Nothing(
           IF search.active # {}
           THEN (IF byId THEN "ambiguous_session_id" ELSE "ambiguous_active_candidates")
           ELSE IF fl.mismatch THEN "cwd_mismatch"
           ELSE IF fl.completed THEN "no_active_candidate"
           ELSE IF fl.stale THEN "stale_trace"
           ELSE IF fl.unparsable THEN "unparsable_trace"
           ELSE IF byId THEN "session_not_found" ELSE "no_active_candidate")

Parse ==
    /\ stage = "parse"
    /\ IF search.left # {}
       THEN LET f == Nearest(search.left)
                v == Verdict(f) IN
            /\ search' = [search EXCEPT !.left = @ \ {f},
                         !.active = IF v = "active" THEN @ \cup {Selected(f, file[f].dir)} ELSE @,
                         !.flags = IF v = "active" THEN @ ELSE [@ EXCEPT ![v] = TRUE]]
            /\ UNCHANGED stage
       ELSE search' = Searched(search.provider, Found) /\ stage' = "list"
    /\ UNCHANGED <<file, roots, health, still, changes>>

-----------------------------------------------------------------------------
(* All providers: select_session. *)

Priority == <<"ambiguous_active_candidates", "ambiguous_session_id", "cwd_mismatch",
              "no_active_candidate", "stale_trace", "unparsable_trace",
              "no_exact_cwd_candidate", "session_not_found", "trace_root_unavailable">>
Rank(r) == CHOOSE i \in DOMAIN Priority : Priority[i] = r.reason

Hits == {p \in search.providers : search.results[p].reason = "selected"}
Unclear == {p \in search.providers :
               search.results[p].reason \in {"ambiguous_active_candidates", "ambiguous_session_id"}}
Clearest == CHOOSE p \in search.providers :
    \A o \in search.providers : Rank(search.results[p]) <= Rank(search.results[o])

\* (mutant) a provider that is undecided does not stand in the way of another.
ChoiceSelected ==
    IF Cardinality(Hits) = 1 THEN search.results[CHOOSE p \in Hits : TRUE]
    ELSE IF Hits # {} THEN Nothing("ambiguous_provider")
    ELSE search.results[Clearest]

Choice ==
    IF search.query.provider # None THEN search.results[search.query.provider]
    ELSE IF Cardinality(Hits) = 1 /\ Unclear = {} THEN search.results[CHOOSE p \in Hits : TRUE]
    ELSE IF Hits # {} THEN Nothing("ambiguous_provider")
    ELSE search.results[Clearest]

Choose ==
    /\ stage = "choose" /\ stage' = "health"
    /\ search' = [search EXCEPT !.result = Choice]
    /\ UNCHANGED <<file, roots, health, still, changes>>

Ambiguous(r) == r.reason \in {"ambiguous_active_candidates", "ambiguous_provider",
                              "ambiguous_session_id"}

\* (mutant) every provider that was asked is credited.
CreditedAll(p, r) == r.trace # None

Credited(p, r) == r.trace # None /\ p \in {None, ProviderOf[r.trace]}

\* _record_selector_health, for the providers that were asked and over all (None).
Health ==
    /\ stage = "health" /\ stage' = "done"
    /\ health' = [p \in DOMAIN health |->
           IF p \notin search.providers \cup {None} THEN health[p]
           ELSE [beats |-> health[p].beats + 1,
                 ambiguous |-> health[p].ambiguous + IF Ambiguous(search.result) THEN 1 ELSE 0,
                 hits |-> health[p].hits + IF Credited(p, search.result) THEN 1 ELSE 0]]
    /\ UNCHANGED <<file, roots, search, still, changes>>

-----------------------------------------------------------------------------
(* The providers write on. *)

\* Sessions work, end their turn, fall silent, move; a transcript becomes unreadable
\* (too large, another session's id); a new one appears.
Becomes(f, c) ==
    \/ file[f].state = "ok" /\ c.state = "ok" /\ c.fresh
       /\ (c.dir = file[f].dir \/ ProviderOf[f] \in Moves)
    \/ file[f].state = "ok" /\ c = [file[f] EXCEPT !.fresh = FALSE]
    \/ file[f].state = "ok" /\ c.state = "broken" /\ c.dir = file[f].dir
    \/ file[f].state = "absent" /\ ProviderOf[f] \in roots /\ c.state = "ok"
       /\ c.open /\ c.fresh

Change(f, c) ==
    /\ stage \notin {"idle", "done"} /\ changes < MaxChanges /\ changes' = changes + 1
    /\ Becomes(f, c) /\ file' = [file EXCEPT ![f] = c]
    /\ search' = [search EXCEPT !.quiet = FALSE]
    /\ still' = {g \in still : Suits(g, search.query)'}
    /\ UNCHANGED <<roots, stage, health>>

SelectionNext ==
    \/ \E q \in Queries : Ask(q)
    \/ List \/ Peek \/ Parse \/ Choose \/ Health
    \/ \E f \in Traces, c \in Contents : Change(f, c)

SelectionSpec == SelectionInit /\ [][SelectionNext]_selectionVars

-----------------------------------------------------------------------------
(* What a selection promises. *)

\* "Select one fresh, incomplete, exact-cwd session across providers"
\* (behavior_watch.py:1626): when nothing is written meanwhile, a transcript is
\* selected just when it alone suits the query.
UniqueSelected == stage = "done" /\ search.quiet =>
    IF Cardinality(still) = 1 THEN search.result.trace \in still ELSE search.result.trace = None

\* Whatever is written meanwhile: a session that suits the query all along is never
\* passed over in favour of another.
NeverPassedOver == stage = "done" /\ search.result.trace # None => still \subseteq {search.result.trace}

\* A selection by id and directory is never of a session that was elsewhere when its
\* transcript was read, whatever the peek had seen.
BoundDirectory == stage = "done" /\ search.query.id # None /\ search.query.cwd # None
                  /\ search.result.trace # None => search.result.dir = search.query.cwd

\* The health record credits a selection to the provider of the session alone, and an
\* ambiguity to every provider that was asked.
HealthTruth == stage = "done" =>
    /\ \A p \in Providers : health[p].hits > 0 =>
          search.result.trace # None /\ p = ProviderOf[search.result.trace]
    /\ Ambiguous(search.result) <=> \E p \in search.providers : health[p].ambiguous > 0

\* A selection is of the session that was asked for, or of none.
RightSession == SelectionTypes /\ UniqueSelected /\ NeverPassedOver /\ BoundDirectory
=============================================================================

--------------------------- MODULE DispatchProofs ---------------------------
(***************************************************************************)
(* Theorems about Dispatch, for every set of processes, texts and bounds:  *)
(* a plan is of the text it replaces and leaves its credentials where they *)
(* were, a model is shown none, and an attempt has one answer.             *)
(***************************************************************************)
EXTENDS Dispatch, TLAPS

-----------------------------------------------------------------------------
(* The inductive invariant.  The lock makes a command alone with the files; *)
(* what it has read or worked out under the lock still stands where it is   *)
(* used.                                                                    *)

Formed(text) == \A l \in DOMAIN text : DOMAIN text[l] \subseteq Nat

OrderLines == {"write order", "write redactions", "write staging"}
ModelLines == {"read target", "fill stage", "probe", "start", "running", "hung"}
PlanLines == {"write candidate", "fill candidate", "write plan"}

Proposing(p) == job[p].pc \in OrderLines
Dispatching(p) == job[p].pc \in ModelLines
Keeping(p) == job[p].pc \in PlanLines

\* What a process holds at each line.
JobOf(p) ==
    /\ job[p].pc \in {"idle", "record"} \cup OrderLines \cup ModelLines \cup PlanLines
    /\ Dispatching(p) =>
          job[p] \in [pc : ModelLines, attempt : Attempts, runtime : {"codex", "claude"},
                      created : {job[p].created}, source : Lives \cup {None}, stage : {job[p].stage},
                      given : {job[p].given}, before : {job[p].before}, proven : BOOLEAN]
    /\ Keeping(p) => job[p] \in [pc : PlanLines, attempt : Attempts, plan : {job[p].plan}]

\* While an order is being written nothing was done with it yet, and what it
\* quotes and stages is harmless.
Ordered(p) ==
    /\ Proposing(p) => plans = {} /\ seen = {}
    /\ At(p, "write order") => Spans(<<job[p].quote>>) = {}
    /\ At(p, "write redactions") => Sanitize
    /\ At(p, "write staging") => Sanitize /\ redactions # None /\ Formed(job[p].text)
    /\ Dispatching(p) \/ Keeping(p) \/ At(p, "record") => order # None

Orders ==
    /\ order = None => plans = {} /\ seen = {}
    /\ order # None => Spans(<<order>>) = {}
    /\ staging # None => Formed(staging)

\* The stage gives the target back, and is what the model was started with.
Staged(p) ==
    /\ job[p].pc \in {"probe", "start", "running", "hung"} => Reconstructs(job[p].source)
    /\ job[p].pc \in {"probe", "start"} => job[p].stage = StageText(job[p].source)
    /\ job[p].pc \in {"running", "hung"} /\ job[p].runtime = "claude" => job[p].given = StageText(job[p].source)

\* A plan is of what it replaces, and leaves the credentials of it.
Faithful(plan) ==
    IF Sanitize
    THEN /\ Verified(plan.from, redactions) /\ Materialized(plan.from, redactions) = plan.precondition
         /\ Credentials(plan.text, redactions) = Credentials(plan.precondition, redactions)
    ELSE plan.from = plan.precondition

Planned(p) ==
    /\ Keeping(p) => Faithful(job[p].plan)
    /\ At(p, "write plan") => job[p].plan.text \in whole

Plans == \A plan \in plans : Faithful(plan) /\ plan.text \in whole

\* An attempt under way has no answer yet.
Unanswered(p) ==
    /\ Dispatching(p) \/ Keeping(p) => Existing(job[p].attempt) = {}
    /\ At(p, "record") =>
          /\ Existing(job[p].result.attempt) = {}
          /\ job[p].result.attempt \in Attempts /\ job[p].result.status \in {"accepted", "quarantined"}
          /\ job[p].result.status = "accepted" => job[p].result.plan \in plans

Answers ==
    /\ reports \subseteq results
    /\ \A x, y \in results : x.attempt = y.attempt => x = y

Own(p) == JobOf(p) /\ Ordered(p) /\ Staged(p) /\ Planned(p) /\ Unanswered(p)

IInv ==
    /\ TypeOK /\ job = [p \in Procs |-> job[p]]
    /\ Orders /\ CredentialsUnseen /\ Plans /\ Answers
    /\ \A p \in Procs : Own(p)
-----------------------------------------------------------------------------
(* Texts and placeholders. *)

\* A place is a line and a position in it.
LEMMA PlaceParts ==
    ASSUME NEW text, NEW at \in Places(text)
    PROVE  at[1] \in DOMAIN text /\ at[2] \in DOMAIN text[at[1]] /\ at = <<at[1], at[2]>>
<1>1. PICK l \in DOMAIN text : at \in {l} \X DOMAIN text[l]
  BY DEF Places
<1>2. PICK i \in DOMAIN text[l] : at = <<l, i>>
  BY <1>1
<1> QED BY <1>2

LEMMA APlace ==
    ASSUME NEW text, NEW l \in DOMAIN text, NEW i \in DOMAIN text[l]
    PROVE  <<l, i>> \in Places(text)
BY DEF Places

\* A placeholder that stands once stands at its first place.
LEMMA AtItsPlace ==
    ASSUME NEW text, Formed(text), NEW n, NEW at \in Places(text), PlacesOf(text, n) = {at}
    PROVE  FirstPlace(text, n) = at
<1>1. at[2] \in Nat
  BY PlaceParts DEF Formed
<1>2. NotAfter(at, at)
  BY <1>1 DEF NotAfter
<1> QED BY <1>2 DEF FirstPlace

\* The values change no line that holds no placeholder, and are found where
\* they are put.
LEMMA PutBack ==
    ASSUME NEW text, NEW entries, NEW l \in DOMAIN text, NEW i \in DOMAIN text[l]
    PROVE  LET back == Materialized(text, entries) IN
           /\ DOMAIN back = DOMAIN text /\ DOMAIN back[l] = DOMAIN text[l]
           /\ text[l][i].kind = "token" => back[l][i].kind = "secret"
<1> DEFINE back == Materialized(text, entries)
<1>1. DOMAIN back = DOMAIN text
  BY DEF Materialized
<1>2. back[l] = [k \in DOMAIN text[l] |->
            IF text[l][k].kind = "token"
            THEN Secret((CHOOSE e \in entries : e.token = text[l][k].of).value)
            ELSE text[l][k]]
  BY DEF Materialized
<1>3. text[l][i].kind = "token" => back[l][i] = Secret((CHOOSE e \in entries : e.token = text[l][i].of).value)
  BY <1>2
<1>4. ASSUME NEW v PROVE Secret(v).kind = "secret"
  BY DEF Secret
<1> QED BY <1>1, <1>2, <1>3, <1>4

\* Lines that agree agree when the values are back.
LEMMA SameLine ==
    ASSUME NEW a, NEW b, NEW entries, NEW l \in DOMAIN a, l \in DOMAIN b, a[l] = b[l]
    PROVE  Materialized(a, entries)[l] = Materialized(b, entries)[l]
<1> DEFINE Line(x) == [k \in DOMAIN x |->
            IF x[k].kind = "token"
            THEN Secret((CHOOSE e \in entries : e.token = x[k].of).value)
            ELSE x[k]]
<1>1. Materialized(a, entries)[l] = Line(a[l]) /\ Materialized(b, entries)[l] = Line(b[l])
  BY DEF Materialized
<1> QED BY <1>1

\* Of two texts that were verified with the same entries, each has the
\* credentials of the other once the values are back: every placeholder
\* stands once, in the line and the context its entry has recorded.
LEMMA NoCredentialMoved ==
    ASSUME NEW a, NEW b, NEW entries, Formed(a), Formed(b),
           Verified(a, entries), Verified(b, entries)
    PROVE  Credentials(Materialized(a, entries), entries)
             \subseteq Credentials(Materialized(b, entries), entries)
<1> DEFINE ma == Materialized(a, entries)
           mb == Materialized(b, entries)
<1>1. SUFFICES ASSUME NEW at \in Spans(ma) \cup UNION {Occurrences(ma, e.value) : e \in entries}
               PROVE  [line |-> at[1], text |-> ma[at[1]]] \in Credentials(mb, entries)
  BY DEF Credentials
<1>2. PICK e \in entries : at \in PlacesOf(a, e.token)
  BY DEF Verified
<1>3. /\ at \in Places(a) /\ at[1] = e.line /\ a[at[1]] = e.context
  <2>1. PICK x \in Places(a) : PlacesOf(a, e.token) = {x}
    BY DEF Verified, Structured, Once
  <2>2. x = at
    BY <1>2, <2>1
  <2>3. FirstPlace(a, e.token) = at
    BY <2>1, <2>2, AtItsPlace
  <2> QED BY <2>2, <2>3 DEF Verified, Structured
<1>4. PICK bt \in Places(b) : PlacesOf(b, e.token) = {bt}
  BY DEF Verified, Structured, Once
<1>5. bt[1] = e.line /\ b[bt[1]] = e.context
  <2>1. FirstPlace(b, e.token) = bt
    BY <1>4, AtItsPlace
  <2> QED BY <2>1 DEF Verified, Structured
<1>6. at[1] \in DOMAIN a /\ bt[1] \in DOMAIN b /\ bt[2] \in DOMAIN b[bt[1]] /\ bt = <<bt[1], bt[2]>>
  BY <1>3, <1>4, PlaceParts
<1>7. ma[at[1]] = mb[bt[1]] /\ bt[1] = at[1]
  BY <1>3, <1>5, <1>6, SameLine
<1>8. PieceAt(b, bt).kind = "token"
  BY <1>4 DEF PlacesOf, Token
<1>9. bt \in Spans(mb)
  <2>1. DOMAIN mb = DOMAIN b /\ DOMAIN mb[bt[1]] = DOMAIN b[bt[1]] /\ mb[bt[1]][bt[2]].kind = "secret"
    BY <1>6, <1>8, PutBack DEF PieceAt
  <2>2. bt \in Places(mb)
    BY <1>6, <2>1, APlace
  <2> QED BY <2>1, <2>2 DEF Spans, PieceAt
<1>10. [line |-> bt[1], text |-> mb[bt[1]]] \in Credentials(mb, entries)
  BY <1>9 DEF Credentials
<1> QED BY <1>7, <1>10

\* Numbering the credentials of a text leaves its shape.
LEMMA SanitizedFormed ==
    ASSUME NEW text, Formed(text)
    PROVE  Formed(Sanitized(text))
<1>1. DOMAIN Sanitized(text) = DOMAIN text
  BY DEF Sanitized
<1>2. \A l \in DOMAIN text : DOMAIN Sanitized(text)[l] = DOMAIN text[l]
  BY DEF Sanitized
<1> QED BY <1>1, <1>2 DEF Formed

\* A verified text holds none of the order's credentials.
LEMMA NoneLeft ==
    ASSUME NEW text, NEW entries, Verified(text, entries)
    PROVE  Credentials(text, entries) = {}
BY DEF Verified, Credentials

\* An order quotes no credential.
LEMMA QuoteHarmless == Spans(<<Quote>>) = {}
<1>1. CASE Handling = "standard" /\ live # <<>> /\ Spans(<<live[1]>>) = {}
  BY <1>1 DEF Quote
<1>2. CASE ~(Handling = "standard" /\ live # <<>> /\ Spans(<<live[1]>>) = {})
  <2>1. Quote = <<>>
    BY <1>2 DEF Quote
  <2>2. Places(<< <<>> >>) = {}
    BY DEF Places
  <2> QED BY <2>1, <2>2 DEF Spans
<1> QED BY <1>1, <1>2
-----------------------------------------------------------------------------
(* What a step leaves alone. *)

Alone(p) == \A q \in Procs : q # p => job[q].pc = "idle"

\* The lock makes a command alone, and only a free one is taken.
LEMMA LockExcludes ==
    ASSUME TypeOK, NEW p \in Procs, Busy(p) \/ Free
    PROVE  Alone(p) /\ (Busy(p) => lock = p)
BY DispatchAssumption DEF TypeOK, Alone, Busy, Free

\* A step of a command that is alone.
LEMMA JobMoves ==
    ASSUME IInv, NEW p \in Procs, Alone(p), NEW j, job' = [job EXCEPT ![p] = j],
           \/ j.pc # "idle" /\ lock' = p
           \/ j.pc = "idle" /\ lock' = None,
           Own(p)'
    PROVE  /\ job' = [q \in Procs |-> job'[q]]
           /\ lock' \in Procs \cup {None}
           /\ \A q \in Procs : Busy(q)' <=> lock' = q
           /\ \A q \in Procs : Own(q)'
<1>1. job' = [q \in Procs |-> IF q = p THEN j ELSE job[q]]
  BY DEF IInv
<1>2. \A q \in Procs : q # p => job'[q].pc = "idle"
  BY <1>1 DEF Alone
<1>3. job'[p] = j
  BY <1>1
<1>4. \A q \in Procs : q # p => Own(q)'
  BY <1>2 DEF Own, JobOf, Ordered, Staged, Planned, Unanswered, At, Proposing, Dispatching, Keeping,
       OrderLines, ModelLines, PlanLines
<1>5. \A q \in Procs : Busy(q)' <=> lock' = q
  BY <1>2, <1>3, DispatchAssumption DEF Busy
<1> QED BY <1>1, <1>4, <1>5

\* What the files say does not change while they do not.
LEMMA SameOrder ==
    ASSUME UNCHANGED audited
    PROVE  Sanitize' = Sanitize
<1>1. \A text : SurfaceSensitive(text)' = SurfaceSensitive(text)
  BY DEF SurfaceSensitive
<1> QED BY <1>1 DEF Sanitize, Handling

LEMMA SameFiles ==
    ASSUME IInv, UNCHANGED <<campaign, kept, seen, reports>>
    PROVE  /\ Orders' /\ CredentialsUnseen' /\ Plans' /\ Answers'
           /\ Sanitize' = Sanitize
<1>0. UNCHANGED <<audited, order, redactions, staging, torn, whole, plans, results, seen, reports>>
  BY DEF campaign, kept
<1>1. Sanitize' = Sanitize
  BY <1>0, SameOrder
<1>2. Orders'
  BY <1>0 DEF IInv, Orders
<1>3. CredentialsUnseen'
  BY <1>0, <1>1 DEF IInv, CredentialsUnseen
<1>4. Plans'
  BY <1>0, <1>1 DEF IInv, Plans, Faithful
<1>5. Answers'
  BY <1>0 DEF IInv, Answers
<1> QED BY <1>1, <1>2, <1>3, <1>4, <1>5
\* A step that only changes where its command stands.
LEMMA QuietStep ==
    ASSUME IInv, NEW p \in Procs, Alone(p), NEW j, job' = [job EXCEPT ![p] = j],
           \/ j.pc # "idle" /\ lock' = p
           \/ j.pc = "idle" /\ lock' = None,
           UNCHANGED <<campaign, live, kept, seen, reports>>,
           calls' \in 0 .. MaxCalls /\ stops' \in 0 .. MaxStops /\ edits' \in 0 .. MaxEdits,
           Own(p)'
    PROVE  IInv'
<1>1. /\ job' = [q \in Procs |-> job'[q]]
      /\ lock' \in Procs \cup {None}
      /\ \A q \in Procs : Busy(q)' <=> lock' = q
      /\ \A q \in Procs : Own(q)'
  BY JobMoves
<1>2. /\ Orders' /\ CredentialsUnseen' /\ Plans' /\ Answers' /\ Sanitize' = Sanitize
  BY SameFiles
<1>3. TypeOK'
  BY <1>1, <1>2 DEF IInv, TypeOK, campaign, kept
<1> QED BY <1>1, <1>2, <1>3 DEF IInv

\* A command that ends leaves nothing behind that it still answers for.
LEMMA Ends ==
    ASSUME IInv, NEW p \in Procs, Busy(p), job' = [job EXCEPT ![p] = Idle],
           lock' = IF lock = p THEN None ELSE lock,
           UNCHANGED <<campaign, live, kept, seen, reports>>,
           calls' \in 0 .. MaxCalls /\ stops' \in 0 .. MaxStops /\ edits' \in 0 .. MaxEdits
    PROVE  IInv'
<1>1. Alone(p) /\ lock' = None
  BY LockExcludes DEF IInv
<1>2. (job[p].pc = "idle")'
  BY DEF IInv, Idle
<1>3. Own(p)'
  BY <1>2 DEF Own, JobOf, Ordered, Staged, Planned, Unanswered, At, Proposing, Dispatching, Keeping,
       OrderLines, ModelLines, PlanLines
<1> QED BY <1>1, <1>3, QuietStep DEF Idle

LEMMA RefuseKeeps == ASSUME IInv, NEW p \in Procs, Busy(p), Refuse(p) PROVE IInv'
<1>1. calls' \in 0 .. MaxCalls /\ stops' \in 0 .. MaxStops /\ edits' \in 0 .. MaxEdits
  BY DEF IInv, TypeOK, Refuse, End, bounds
<1> QED BY <1>1, Ends DEF Refuse, End

LEMMA DieKeeps == ASSUME IInv, NEW p \in Procs, Die(p) PROVE IInv'
<1>1. calls' \in 0 .. MaxCalls /\ stops' \in 0 .. MaxStops /\ edits' \in 0 .. MaxEdits
  BY DispatchAssumption DEF IInv, TypeOK, Die
<1> QED BY <1>1, Ends DEF Die

\* A command that goes on with the files as they are.
LEMMA GoesOn ==
    ASSUME IInv, NEW p \in Procs, Busy(p), NEW j, Goto(p, j), j.pc # "idle",
           UNCHANGED <<campaign, live, kept, seen, reports>>, Own(p)'
    PROVE  IInv'
<1>1. Alone(p) /\ lock' = p
  BY LockExcludes DEF IInv, Goto
<1>2. calls' \in 0 .. MaxCalls /\ stops' \in 0 .. MaxStops /\ edits' \in 0 .. MaxEdits
  BY DEF IInv, TypeOK, Goto, bounds
<1> QED BY <1>1, <1>2, QuietStep DEF Goto

\* A dispatch up to the end of the model: what remains to be shown of it.
LEMMA DispatchGoesOn ==
    ASSUME IInv, NEW p \in Procs, Dispatching(p), NEW j, Goto(p, j), j.pc \in ModelLines,
           j \in [pc : ModelLines, attempt : Attempts, runtime : {"codex", "claude"},
                  created : {j.created}, source : Lives \cup {None}, stage : {j.stage},
                  given : {j.given}, before : {j.before}, proven : BOOLEAN],
           j.attempt = job[p].attempt,
           UNCHANGED <<campaign, live, kept, seen, reports>>,
           Staged(p)'
    PROVE  IInv'
<1>1. job'[p] = j
  BY DEF IInv, Goto
<1>2. Busy(p) /\ j.pc # "idle"
  BY DEF Busy, Dispatching, ModelLines
<1>3. JobOf(p)'
  BY <1>1 DEF JobOf, Dispatching, Keeping, ModelLines, PlanLines, OrderLines
<1>4. Ordered(p)'
  BY <1>1 DEF IInv, Own, Ordered, Proposing, Dispatching, Keeping, At, ModelLines, PlanLines, OrderLines, campaign
<1>5. Planned(p)'
  BY <1>1 DEF Planned, Keeping, At, ModelLines, PlanLines
<1>6. Unanswered(p)'
  <2>1. PICK a : a = job[p].attempt
    OBVIOUS
  <2>2. Existing(a) = {}
    BY <2>1 DEF IInv, Own, Unanswered
  <2>3. Existing(a)' = Existing(a)
    BY DEF Existing, kept
  <2>4. job'[p].attempt = a
    BY <1>1, <2>1
  <2> QED BY <1>1, <2>2, <2>3, <2>4 DEF Unanswered, At, ModelLines
<1>7. Own(p)'
  BY <1>3, <1>4, <1>5, <1>6 DEF Own
<1> QED BY <1>2, <1>7, GoesOn
-----------------------------------------------------------------------------
(* A dispatch up to the model's answer. *)

LEMMA ReadTargetKeeps == ASSUME IInv, NEW p \in Procs, ReadTarget(p) PROVE IInv'
<1>1. Busy(p) /\ Dispatching(p)
  BY DEF ReadTarget, At, Busy, Dispatching, ModelLines
<1>2. CASE Refuse(p)
  BY <1>1, <1>2, RefuseKeeps
<1>3. CASE /\ TargetMatches
           /\ Goto(p, [job[p] EXCEPT !.pc = "fill stage", !.source = live])
           /\ UNCHANGED <<campaign, live, kept, seen, reports>>
  <2> DEFINE j == [job[p] EXCEPT !.pc = "fill stage", !.source = live]
  <2>1. j \in [pc : ModelLines, attempt : Attempts, runtime : {"codex", "claude"},
               created : {j.created}, source : Lives \cup {None}, stage : {j.stage},
               given : {j.given}, before : {j.before}, proven : BOOLEAN]
    BY <1>1, ZenonT(30) DEF IInv, TypeOK, Own, JobOf, ModelLines
  <2>2. j.pc = "fill stage" /\ j.attempt = job[p].attempt
    BY <1>1 DEF IInv, Own, JobOf
  <2>3. job'[p].pc = "fill stage"
    BY <1>3, <2>2 DEF IInv, Goto
  <2>4. Staged(p)'
    BY <2>3 DEF Staged
  <2> QED BY <1>1, <1>3, <2>1, <2>2, <2>4, DispatchGoesOn DEF ModelLines
<1> QED BY <1>2, <1>3 DEF ReadTarget

LEMMA FillStageKeeps == ASSUME IInv, NEW p \in Procs, FillStage(p) PROVE IInv'
<1>1. Busy(p) /\ Dispatching(p)
  BY DEF FillStage, At, Busy, Dispatching, ModelLines
<1>2. CASE Refuse(p)
  BY <1>1, <1>2, RefuseKeeps
<1>3. CASE /\ Reconstructs(job[p].source)
           /\ Goto(p, [job[p] EXCEPT !.pc = "probe", !.stage = StageText(job[p].source), !.before = live])
           /\ UNCHANGED <<campaign, live, kept, seen, reports>>
  <2> DEFINE j == [job[p] EXCEPT !.pc = "probe", !.stage = StageText(job[p].source), !.before = live]
  <2>1. j \in [pc : ModelLines, attempt : Attempts, runtime : {"codex", "claude"},
               created : {j.created}, source : Lives \cup {None}, stage : {j.stage},
               given : {j.given}, before : {j.before}, proven : BOOLEAN]
    BY <1>1 DEF IInv, Own, JobOf, ModelLines
  <2>2. /\ j.pc = "probe" /\ j.attempt = job[p].attempt
        /\ j.source = job[p].source /\ j.stage = StageText(job[p].source)
    BY <1>1 DEF IInv, Own, JobOf
  <2>3. job'[p] = j
    BY <1>3 DEF IInv, Goto
  <2>4. Sanitize' = Sanitize
    BY <1>3, SameFiles
  <2>5. Staged(p)'
    BY <1>3, <2>2, <2>3, <2>4 DEF Staged, Reconstructs, StageText, campaign
  <2> QED BY <1>1, <1>3, <2>1, <2>2, <2>5, DispatchGoesOn DEF ModelLines
<1> QED BY <1>2, <1>3 DEF FillStage

\* What a dispatch has staged stays so while the files stay.
LEMMA StillStaged ==
    ASSUME IInv, NEW p \in Procs, NEW j, Goto(p, j), UNCHANGED <<campaign, live, kept, seen, reports>>,
           job[p].pc \in {"probe", "start", "running", "hung"}, j.source = job[p].source,
           j.pc \in {"probe", "start"} => job[p].pc \in {"probe", "start"} /\ j.stage = job[p].stage,
           j.pc \in {"running", "hung"} /\ j.runtime = "claude" =>
              \/ job[p].pc \in {"running", "hung"} /\ job[p].runtime = "claude" /\ j.given = job[p].given
              \/ job[p].pc = "start" /\ j.given = job[p].stage
    PROVE  Staged(p)'
<1>1. job'[p] = j
  BY DEF IInv, Goto
<1>2. Sanitize' = Sanitize
  BY SameFiles
<1>3. Reconstructs(job[p].source)
  BY DEF IInv, Own, Staged
<1>4. Reconstructs(job[p].source)'
  BY <1>1, <1>2, <1>3 DEF Reconstructs, campaign
<1>5. j.pc \in {"probe", "start"} => j.stage = StageText(job[p].source)
  BY DEF IInv, Own, Staged
<1>6. j.pc \in {"running", "hung"} /\ j.runtime = "claude" => j.given = StageText(job[p].source)
  BY DEF IInv, Own, Staged
<1> QED BY <1>1, <1>2, <1>4, <1>5, <1>6 DEF Staged, StageText, campaign

LEMMA ProbeKeeps == ASSUME IInv, NEW p \in Procs, Probe(p) PROVE IInv'
<1>1. Busy(p) /\ Dispatching(p)
  BY DEF Probe, At, Busy, Dispatching, ModelLines
<1>2. CASE Refuse(p)
  BY <1>1, <1>2, RefuseKeeps
<1>3. CASE /\ Goto(p, [job[p] EXCEPT !.pc = "start", !.proven = TRUE])
           /\ UNCHANGED <<campaign, live, kept, seen, reports>>
  <2> DEFINE j == [job[p] EXCEPT !.pc = "start", !.proven = TRUE]
  <2>1. j \in [pc : ModelLines, attempt : Attempts, runtime : {"codex", "claude"},
               created : {j.created}, source : Lives \cup {None}, stage : {j.stage},
               given : {j.given}, before : {j.before}, proven : BOOLEAN]
    BY <1>1 DEF IInv, Own, JobOf, ModelLines
  <2>2. /\ j.pc = "start" /\ j.attempt = job[p].attempt
        /\ j.source = job[p].source /\ j.stage = job[p].stage
    BY <1>1 DEF IInv, Own, JobOf
  <2>3. job[p].pc = "probe"
    BY DEF Probe, At
  <2>4. Staged(p)'
    BY <1>3, <2>2, <2>3, StillStaged
  <2> QED BY <1>1, <1>3, <2>1, <2>2, <2>4, DispatchGoesOn DEF ModelLines
<1> QED BY <1>2, <1>3 DEF Probe

LEMMA MeddleKeeps == ASSUME IInv, NEW p \in Procs, NEW text, Meddle(p, text) PROVE IInv'
<1>1. Dispatching(p) /\ job[p].pc = "running"
  BY DEF Meddle, At, Dispatching, ModelLines
<1> DEFINE j == [job[p] EXCEPT !.stage = text]
<1>2. j \in [pc : ModelLines, attempt : Attempts, runtime : {"codex", "claude"},
             created : {j.created}, source : Lives \cup {None}, stage : {j.stage},
             given : {j.given}, before : {j.before}, proven : BOOLEAN]
  BY <1>1 DEF IInv, Own, JobOf, ModelLines
<1>3. /\ j.pc = "running" /\ j.attempt = job[p].attempt /\ j.runtime = job[p].runtime
      /\ j.source = job[p].source /\ j.given = job[p].given
  BY <1>1 DEF IInv, Own, JobOf
<1>4. Goto(p, j) /\ UNCHANGED <<campaign, live, kept, seen, reports>>
  BY DEF Meddle
<1>5. Staged(p)'
  BY <1>1, <1>3, <1>4, StillStaged
<1> QED BY <1>1, <1>2, <1>3, <1>4, <1>5, DispatchGoesOn DEF ModelLines

LEMMA HangKeeps == ASSUME IInv, NEW p \in Procs, Hang(p) PROVE IInv'
<1>1. Dispatching(p) /\ job[p].pc = "running"
  BY DEF Hang, At, Dispatching, ModelLines
<1> DEFINE j == [job[p] EXCEPT !.pc = "hung"]
<1>2. j \in [pc : ModelLines, attempt : Attempts, runtime : {"codex", "claude"},
             created : {j.created}, source : Lives \cup {None}, stage : {j.stage},
             given : {j.given}, before : {j.before}, proven : BOOLEAN]
  BY <1>1 DEF IInv, Own, JobOf, ModelLines
<1>3. /\ j.pc = "hung" /\ j.attempt = job[p].attempt /\ j.runtime = job[p].runtime
      /\ j.source = job[p].source /\ j.given = job[p].given
  BY <1>1 DEF IInv, Own, JobOf
<1>4. Goto(p, j) /\ UNCHANGED <<campaign, live, kept, seen, reports>>
  BY DEF Hang
<1>5. Staged(p)'
  BY <1>1, <1>3, <1>4, StillStaged
<1> QED BY <1>1, <1>2, <1>3, <1>4, <1>5, DispatchGoesOn DEF ModelLines

\* A quarantine is the answer of an attempt that has none.
LEMMA QuarantineKeeps ==
    ASSUME IInv, NEW p \in Procs, At(p, "running"), Quarantine(p)
    PROVE  IInv'
<1> DEFINE j == [pc |-> "record", result |-> [attempt |-> job[p].attempt, status |-> "quarantined"]]
<1>1. Dispatching(p) /\ Busy(p)
  BY DEF At, Dispatching, ModelLines, Busy
<1>2. Goto(p, j) /\ UNCHANGED <<campaign, live, kept, seen, reports>>
  BY DEF Quarantine
<1>3. job'[p] = j
  BY <1>2 DEF IInv, Goto
<1>4. JobOf(p)' /\ Staged(p)' /\ Planned(p)'
  BY <1>3 DEF JobOf, Staged, Planned, Dispatching, Keeping, At, ModelLines, PlanLines
<1>5. Ordered(p)'
  <2>1. order # None /\ order' = order
    BY <1>1, <1>2 DEF IInv, Own, Ordered, campaign
  <2>2. job'[p].pc = "record"
    BY <1>3
  <2> QED BY <2>1, <2>2 DEF Ordered, Proposing, At, OrderLines
<1>6. Unanswered(p)'
  <2>1. PICK a \in Attempts : a = job[p].attempt
    BY <1>1 DEF IInv, Own, JobOf
  <2>2. Existing(a) = {}
    BY <1>1, <2>1 DEF IInv, Own, Unanswered
  <2>3. Existing(a)' = Existing(a)
    BY <1>2 DEF Existing, kept
  <2>4. job'[p].result.attempt = a /\ job'[p].result.status = "quarantined" /\ job'[p].pc = "record"
    BY <1>3, <2>1
  <2> QED BY <2>2, <2>3, <2>4 DEF Unanswered, Dispatching, Keeping, At, ModelLines, PlanLines
<1> QED BY <1>1, <1>2, <1>4, <1>5, <1>6, GoesOn DEF Own
LEMMA BeginDispatchKeeps ==
    ASSUME IInv, NEW p \in Procs, NEW a \in Attempts, NEW rt \in {"codex", "claude"}, BeginDispatch(p, a, rt)
    PROVE  IInv'
<1> DEFINE j == [pc |-> "read target", attempt |-> a, runtime |-> rt,
                 created |-> calls, source |-> None, stage |-> None,
                 given |-> None, before |-> None, proven |-> FALSE]
<1>1. /\ order # None /\ Existing(a) = {} /\ ~Busy(p) /\ Free /\ calls < MaxCalls
      /\ calls' = calls + 1 /\ lock' = p /\ job' = [job EXCEPT ![p] = j]
      /\ UNCHANGED <<stops, edits>> /\ UNCHANGED <<campaign, live, kept, seen, reports>>
  BY DEF BeginDispatch, Begin
<1>2. Alone(p)
  BY <1>1, LockExcludes DEF IInv
<1>3. /\ j.pc = "read target" /\ j.attempt = a
      /\ j \in [pc : ModelLines, attempt : Attempts, runtime : {"codex", "claude"},
                created : {j.created}, source : Lives \cup {None}, stage : {j.stage},
                given : {j.given}, before : {j.before}, proven : BOOLEAN]
  BY DEF ModelLines
<1> HIDE DEF j
<1>4. job'[p] = j
  BY <1>1 DEF IInv
<1>5. JobOf(p)' /\ Staged(p)' /\ Planned(p)'
  BY <1>3, <1>4 DEF JobOf, Staged, Planned, Dispatching, Keeping, At, ModelLines, PlanLines
<1>6. Ordered(p)'
  BY <1>1, <1>3, <1>4 DEF Ordered, Proposing, At, OrderLines, campaign
<1>7. Unanswered(p)'
  BY <1>1, <1>3, <1>4 DEF Unanswered, At, Existing, kept
<1>8. calls' \in 0 .. MaxCalls /\ stops' \in 0 .. MaxStops /\ edits' \in 0 .. MaxEdits
  <2>1. calls \in 0 .. MaxCalls /\ stops \in 0 .. MaxStops /\ edits \in 0 .. MaxEdits
    BY DEF IInv, TypeOK
  <2> QED BY <1>1, <2>1, DispatchAssumption
<1> QED BY <1>1, <1>2, <1>3, <1>5, <1>6, <1>7, <1>8, QuietStep DEF Own

\* The model is shown its stage and the order, under a stage that gives the
\* target back.
LEMMA StartKeeps == ASSUME IInv, NEW p \in Procs, Start(p) PROVE IInv'
<1>1. /\ job[p].pc = "start" /\ UNCHANGED <<campaign, live, kept, reports>>
      /\ seen' = seen \cup {[text |-> job[p].stage, quote |-> order]}
  BY DEF Start, StartCodex, StartClaude, At
<1>2. PICK j : /\ Goto(p, j) /\ j.pc = "running"
               /\ j \in [pc : ModelLines, attempt : Attempts, runtime : {"codex", "claude"},
                         created : {j.created}, source : Lives \cup {None}, stage : {j.stage},
                         given : {j.given}, before : {j.before}, proven : BOOLEAN]
               /\ j.attempt = job[p].attempt /\ j.source = job[p].source
               /\ j.runtime = "claude" => j.given = job[p].stage
  <2>0. job[p] \in [pc : ModelLines, attempt : Attempts, runtime : {"codex", "claude"},
                    created : {job[p].created}, source : Lives \cup {None}, stage : {job[p].stage},
                    given : {job[p].given}, before : {job[p].before}, proven : BOOLEAN]
    BY <1>1 DEF IInv, Own, JobOf, Dispatching, ModelLines
  <2>1. CASE StartCodex(p)
    <3> DEFINE j == [job[p] EXCEPT !.pc = "running"]
    <3>1. /\ j.pc = "running" /\ j.attempt = job[p].attempt /\ j.source = job[p].source /\ j.runtime = job[p].runtime
          /\ j \in [pc : ModelLines, attempt : Attempts, runtime : {"codex", "claude"},
                    created : {j.created}, source : Lives \cup {None}, stage : {j.stage},
                    given : {j.given}, before : {j.before}, proven : BOOLEAN]
      BY <2>0 DEF ModelLines
    <3>2. Goto(p, j) /\ job[p].runtime = "codex"
      BY <2>1 DEF StartCodex
    <3> QED BY <3>1, <3>2
  <2>2. CASE StartClaude(p)
    <3> DEFINE j == [job[p] EXCEPT !.pc = "running", !.given = job[p].stage, !.proven = FALSE]
    <3>1. /\ j.pc = "running" /\ j.attempt = job[p].attempt /\ j.source = job[p].source /\ j.given = job[p].stage
          /\ j \in [pc : ModelLines, attempt : Attempts, runtime : {"codex", "claude"},
                    created : {j.created}, source : Lives \cup {None}, stage : {j.stage},
                    given : {j.given}, before : {j.before}, proven : BOOLEAN]
      BY <2>0 DEF ModelLines
    <3>2. Goto(p, j)
      BY <2>2 DEF StartClaude
    <3> QED BY <3>1, <3>2
  <2> QED BY <2>1, <2>2 DEF Start
<1>3. job'[p] = j /\ job' = [job EXCEPT ![p] = j] /\ lock' = lock
  BY <1>2 DEF IInv, Goto
<1>4. Busy(p) /\ Alone(p) /\ lock' = p
  BY <1>1, <1>3, LockExcludes DEF IInv, Busy
<1>5. UNCHANGED <<audited, order, redactions, staging, live, torn, whole, plans, results, reports>>
  BY <1>1 DEF campaign, kept
<1>6. Sanitize' = Sanitize
  BY <1>5, SameOrder
<1>7. order # None /\ Existing(job[p].attempt) = {}
  BY <1>1 DEF IInv, Own, Ordered, Unanswered, Dispatching, ModelLines
<1>8. Reconstructs(job[p].source) /\ job[p].stage = StageText(job[p].source)
  BY <1>1 DEF IInv, Own, Staged
<1>9. JobOf(p)'
  BY <1>2, <1>3 DEF JobOf, Dispatching, Keeping, ModelLines, PlanLines
<1>10. Ordered(p)'
  BY <1>2, <1>3, <1>5, <1>7 DEF Ordered, Proposing, At, OrderLines
<1>11. Staged(p)'
  BY <1>2, <1>3, <1>5, <1>6, <1>8 DEF Staged, Reconstructs, StageText
<1>12. Planned(p)'
  BY <1>2, <1>3 DEF Planned, Keeping, At, PlanLines
<1>13. Unanswered(p)'
  BY <1>2, <1>3, <1>5, <1>7 DEF Unanswered, At, Existing
<1>14. /\ job' = [q \in Procs |-> job'[q]]
       /\ lock' \in Procs \cup {None}
       /\ \A q \in Procs : Busy(q)' <=> lock' = q
       /\ \A q \in Procs : Own(q)'
  BY <1>2, <1>3, <1>4, <1>9, <1>10, <1>11, <1>12, <1>13, JobMoves DEF Own
<1>15. TypeOK'
  BY <1>2, <1>3, <1>5, <1>6, <1>14 DEF IInv, TypeOK, Goto, bounds
<1>16. CredentialsUnseen'
  <2>1. Spans(<<order>>) = {}
    BY <1>7 DEF IInv, Orders
  <2>2. Sanitize => Credentials(job[p].stage, redactions) = {}
    BY <1>8, NoneLeft DEF Reconstructs, StageText
  <2> QED BY <1>1, <1>5, <1>6, <2>1, <2>2 DEF IInv, CredentialsUnseen
<1>17. Orders' /\ Plans' /\ Answers'
  BY <1>5, <1>6, <1>7 DEF IInv, Orders, Plans, Faithful, Answers
<1> QED BY <1>14, <1>15, <1>16, <1>17 DEF IInv
-----------------------------------------------------------------------------
(* The proposal. *)

LEMMA BeginProposeKeeps == ASSUME IInv, NEW p \in Procs, BeginPropose(p) PROVE IInv'
<1> DEFINE j == [pc |-> "write order", quote |-> Quote]
<1>1. /\ order = None /\ ~Busy(p) /\ Free /\ calls < MaxCalls
      /\ calls' = calls + 1 /\ lock' = p /\ job' = [job EXCEPT ![p] = j]
      /\ UNCHANGED <<stops, edits>> /\ UNCHANGED <<campaign, live, kept, seen, reports>>
  BY DEF BeginPropose, Begin
<1>2. Alone(p)
  BY <1>1, LockExcludes DEF IInv
<1>3. j.pc = "write order" /\ Spans(<<j.quote>>) = {}
  BY QuoteHarmless
<1> HIDE DEF j
<1>4. job'[p] = j
  BY <1>1 DEF IInv
<1>5. JobOf(p)' /\ Staged(p)' /\ Planned(p)' /\ Unanswered(p)'
  BY <1>3, <1>4 DEF JobOf, Staged, Planned, Unanswered, Dispatching, Keeping, At, OrderLines, ModelLines, PlanLines
<1>6. Ordered(p)'
  <2>1. plans' = {} /\ seen' = {}
    BY <1>1 DEF IInv, Orders, kept
  <2> QED BY <1>3, <1>4, <2>1 DEF Ordered, At, Dispatching, Keeping, ModelLines, PlanLines
<1>8. calls' \in 0 .. MaxCalls /\ stops' \in 0 .. MaxStops /\ edits' \in 0 .. MaxEdits
  <2>1. calls \in 0 .. MaxCalls /\ stops \in 0 .. MaxStops /\ edits \in 0 .. MaxEdits
    BY DEF IInv, TypeOK
  <2> QED BY <1>1, <2>1, DispatchAssumption
<1> QED BY <1>1, <1>2, <1>3, <1>5, <1>6, <1>8, QuietStep DEF Own

\* A step of the proposal writes a file before anything was made of it.
LEMMA ProposalStep ==
    ASSUME IInv, NEW p \in Procs, Proposing(p), NEW j, job' = [job EXCEPT ![p] = j],
           \/ j.pc \in {"write redactions", "write staging"} /\ lock' = p
           \/ j.pc = "idle" /\ lock' = None,
           UNCHANGED <<audited, live, kept, seen, reports, bounds>>,
           j.pc = "write redactions" => Sanitize,
           j.pc = "write staging" => Sanitize /\ redactions' # None /\ Formed(j.text),
           order' # None => Spans(<<order'>>) = {},
           staging' # None => Formed(staging') /\ redactions' # None /\ Sanitize
    PROVE  IInv'
<1>1. Busy(p) /\ Alone(p)
  BY LockExcludes DEF IInv, Busy, Proposing, OrderLines
<1>2. plans = {} /\ seen = {}
  BY DEF IInv, Own, Ordered
<1>3. UNCHANGED <<audited, live, torn, whole, plans, results, seen, reports, calls, stops, edits>>
  BY DEF kept, bounds
<1>4. Sanitize' = Sanitize
  BY <1>3, SameOrder
<1>5. job'[p] = j
  BY DEF IInv
<1>6. JobOf(p)' /\ Staged(p)' /\ Planned(p)' /\ Unanswered(p)'
  BY <1>5 DEF JobOf, Staged, Planned, Unanswered, Dispatching, Keeping, At, OrderLines, ModelLines, PlanLines
<1>7. Ordered(p)'
  BY <1>2, <1>3, <1>4, <1>5 DEF Ordered, At, Dispatching, Keeping, ModelLines, PlanLines
<1>8. /\ job' = [q \in Procs |-> job'[q]]
      /\ lock' \in Procs \cup {None}
      /\ \A q \in Procs : Busy(q)' <=> lock' = q
      /\ \A q \in Procs : Own(q)'
  BY <1>1, <1>6, <1>7, JobMoves DEF Own
<1>9. TypeOK'
  BY <1>3, <1>4, <1>8 DEF IInv, TypeOK
<1>10. Orders' /\ Plans' /\ CredentialsUnseen'
  BY <1>2, <1>3 DEF Orders, Plans, CredentialsUnseen
<1>11. Answers'
  BY <1>3 DEF IInv, Answers
<1> QED BY <1>8, <1>9, <1>10, <1>11 DEF IInv

LEMMA WriteOrderKeeps == ASSUME IInv, NEW p \in Procs, WriteOrder(p) PROVE IInv'
<1>1. /\ job[p].pc = "write order" /\ order' = job[p].quote
      /\ UNCHANGED <<audited, redactions, staging, live, kept, seen, reports>>
  BY DEF WriteOrder, At
<1>2. Proposing(p) /\ Busy(p)
  BY <1>1 DEF Proposing, OrderLines, Busy
<1>3. lock = p
  BY <1>2, LockExcludes DEF IInv
<1>4. Spans(<<order'>>) = {}
  BY <1>1 DEF IInv, Own, Ordered, At
<1>5. staging' # None => Formed(staging') /\ redactions' # None /\ Sanitize
  BY <1>1 DEF IInv, TypeOK, Orders
<1>6. CASE Sanitize /\ Goto(p, [pc |-> "write redactions"])
  BY <1>1, <1>2, <1>3, <1>4, <1>5, <1>6, ProposalStep DEF Goto
<1>7. CASE End(p)
  BY <1>1, <1>2, <1>3, <1>4, <1>5, <1>7, ProposalStep DEF End, Idle
<1> QED BY <1>6, <1>7 DEF WriteOrder

LEMMA WriteRedactionsKeeps == ASSUME IInv, NEW p \in Procs, WriteRedactions(p) PROVE IInv'
<1>1. job[p].pc = "write redactions" /\ Sanitize
  BY DEF WriteRedactions, At, IInv, Own, Ordered
<1>2. Proposing(p) /\ Busy(p)
  BY <1>1 DEF Proposing, OrderLines, Busy
<1>3. lock = p
  BY <1>2, LockExcludes DEF IInv
<1>4. CASE /\ redactions' = Redactions(live)
           /\ Goto(p, [pc |-> "write staging", text |-> Sanitized(live)])
           /\ UNCHANGED <<audited, order, staging, live, kept, seen, reports>>
  <2>1. live \in Lives
    BY DEF IInv, TypeOK
  <2>2. redactions' # None /\ Formed(Sanitized(live))
    BY <1>4, <2>1, SanitizedFormed, DispatchAssumption DEF Formed
  <2>3. order' # None => Spans(<<order'>>) = {}
    BY <1>4 DEF IInv, Orders
  <2>4. staging' # None => Formed(staging')
    BY <1>4 DEF IInv, Orders
  <2> QED BY <1>1, <1>2, <1>3, <1>4, <2>2, <2>3, <2>4, ProposalStep DEF Goto
<1>5. CASE Refuse(p)
  BY <1>2, <1>5, RefuseKeeps
<1> QED BY <1>4, <1>5 DEF WriteRedactions

LEMMA WriteStagingKeeps == ASSUME IInv, NEW p \in Procs, WriteStaging(p) PROVE IInv'
<1>1. /\ job[p].pc = "write staging" /\ staging' = job[p].text /\ End(p)
      /\ UNCHANGED <<audited, order, redactions, live, kept, seen, reports>>
  BY DEF WriteStaging, At
<1>2. Proposing(p) /\ Busy(p)
  BY <1>1 DEF Proposing, OrderLines, Busy
<1>3. lock = p
  BY <1>2, LockExcludes DEF IInv
<1>4. Formed(staging') /\ redactions' # None /\ Sanitize
  BY <1>1 DEF IInv, Own, Ordered, At
<1>5. order' # None => Spans(<<order'>>) = {}
  BY <1>1 DEF IInv, Orders
<1> QED BY <1>1, <1>2, <1>3, <1>4, <1>5, ProposalStep DEF End, Idle

-----------------------------------------------------------------------------
(* What is made of the answer. *)

\* An accepted answer makes a plan of the text the dispatch has read.
LEMMA AnswerKeeps ==
    ASSUME IInv, NEW p \in Procs, NEW text \in Proposed, Answer(p, text)
    PROVE  IInv'
<1>1. job[p].pc = "running" /\ Busy(p) /\ Dispatching(p)
  BY DEF Answer, At, Busy, Dispatching, ModelLines
<1>2. CASE Quarantine(p)
  BY <1>2, QuarantineKeeps DEF Answer
<1>3. CASE /\ Untouched(p) /\ Verified(text, Entries)
           /\ Goto(p, [pc |-> "write candidate", attempt |-> job[p].attempt,
                       plan |-> [text |-> Materialized(text, Entries),
                                 precondition |-> job[p].source,
                                 created |-> job[p].created, from |-> MadeFrom(p)]])
           /\ UNCHANGED <<campaign, live, kept, seen, reports>>
  <2> DEFINE plan == [text |-> Materialized(text, Entries),
                      precondition |-> job[p].source,
                      created |-> job[p].created, from |-> MadeFrom(p)]
             j == [pc |-> "write candidate", attempt |-> job[p].attempt, plan |-> plan]
  <2>1. MadeFrom(p) = StageText(job[p].source) /\ Reconstructs(job[p].source)
    BY <1>1, <1>3 DEF IInv, Own, Staged, Untouched, MadeFrom
  <2>2. /\ plan.text = Materialized(text, Entries) /\ plan.precondition = job[p].source
        /\ plan.from = StageText(job[p].source)
    BY <2>1
  <2>3. /\ j.pc = "write candidate" /\ j.attempt = job[p].attempt /\ j.plan = plan
        /\ j \in [pc : PlanLines, attempt : Attempts, plan : {j.plan}]
    BY <1>1 DEF PlanLines, IInv, Own, JobOf
  <2>4. Goto(p, j)
    BY <1>3
  <2> HIDE DEF j, plan
  <2>5. Faithful(plan)
    <3>1. CASE Sanitize
      <4>1. /\ staging # None /\ redactions # None /\ Verified(staging, redactions)
            /\ Materialized(staging, redactions) = job[p].source /\ plan.from = staging
        BY <2>1, <2>2, <3>1 DEF Reconstructs, StageText
      <4>2. Formed(staging) /\ Formed(text) /\ Verified(text, redactions)
        BY <1>3, <3>1, <4>1, DispatchAssumption DEF IInv, Orders, Formed, Entries
      <4>3. Credentials(Materialized(text, redactions), redactions)
              = Credentials(Materialized(staging, redactions), redactions)
        BY <4>1, <4>2, NoCredentialMoved
      <4> QED BY <2>2, <3>1, <4>1, <4>3 DEF Faithful, Entries
    <3>2. CASE ~Sanitize
      BY <2>2, <3>2 DEF Faithful, StageText
    <3> QED BY <3>1, <3>2
  <2>6. job'[p] = j
    BY <2>4 DEF IInv, Goto
  <2>7. Sanitize' = Sanitize /\ UNCHANGED <<redactions, order, results>>
    BY <1>3, SameFiles DEF campaign, kept
  <2>8. JobOf(p)' /\ Staged(p)'
    BY <2>3, <2>6 DEF JobOf, Staged, Dispatching, Keeping, ModelLines, PlanLines
  <2>9. Ordered(p)'
    BY <1>1, <2>3, <2>6, <2>7 DEF IInv, Own, Ordered, Proposing, At, OrderLines
  <2>10. Planned(p)'
    BY <2>3, <2>5, <2>6, <2>7 DEF Planned, Faithful, At
  <2>11. Unanswered(p)'
    <3>1. PICK a : a = job[p].attempt
      OBVIOUS
    <3>2. Existing(a) = {} /\ Existing(a)' = Existing(a)
      BY <1>1, <2>7, <3>1 DEF IInv, Own, Unanswered, Existing
    <3> QED BY <2>3, <2>6, <3>1, <3>2 DEF Unanswered, At
  <2> QED BY <1>1, <1>3, <2>3, <2>4, <2>8, <2>9, <2>10, <2>11, GoesOn DEF Own
<1> QED BY <1>2, <1>3 DEF Answer
\* A step that keeps the answer: the order stays, candidates and plans are
\* only added to.
LEMMA KeepingStep ==
    ASSUME IInv, NEW p \in Procs, Keeping(p), NEW j, Goto(p, j),
           UNCHANGED <<campaign, live, results, seen, reports>>,
           \/ /\ j \in [pc : PlanLines, attempt : Attempts, plan : {job[p].plan}]
              /\ j.attempt = job[p].attempt
              /\ plans' = plans
              /\ j.pc = "write plan" => job[p].plan.text \in whole'
           \/ /\ j = [pc |-> "record", result |-> [attempt |-> job[p].attempt, status |-> "accepted",
                                                   plan |-> job[p].plan]]
              /\ plans' = plans \cup {job[p].plan}
              /\ job[p].plan.text \in whole',
           whole \subseteq whole', torn' \cap whole' = {}
    PROVE  IInv'
<1>1. Busy(p) /\ Alone(p) /\ lock = p
  BY LockExcludes DEF IInv, Busy, Keeping, PlanLines
<1>2. UNCHANGED <<audited, order, redactions, staging, live, results, seen, reports, lock, calls, stops, edits>>
  BY DEF campaign, Goto, bounds
<1>3. Sanitize' = Sanitize
  BY <1>2, SameOrder
<1>4. job'[p] = j
  BY DEF IInv, Goto
<1>5. /\ order # None /\ Existing(job[p].attempt) = {} /\ Faithful(job[p].plan)
      /\ job[p].attempt \in Attempts
  BY DEF IInv, Own, Ordered, Unanswered, Planned, JobOf
<1>6. PICK a, plan : a = job[p].attempt /\ plan = job[p].plan
  OBVIOUS
<1>7. /\ Existing(a)' = {} /\ Faithful(plan)' /\ plans \subseteq plans' /\ plans' \subseteq plans \cup {plan}
      /\ order' # None /\ a \in Attempts
  <2>1. Faithful(plan)'
    BY <1>2, <1>3, <1>5, <1>6 DEF Faithful
  <2>2. Existing(a)' = {}
    BY <1>2, <1>5, <1>6 DEF Existing
  <2>3. plans' = plans \/ plans' = plans \cup {plan}
    BY <1>6
  <2> QED BY <1>2, <1>5, <1>6, <2>1, <2>2, <2>3
<1>8. Own(p)' /\ j.pc # "idle"
  <2>1. CASE j \in [pc : PlanLines, attempt : Attempts, plan : {plan}] /\ j.attempt = a
             /\ (j.pc = "write plan" => plan.text \in whole')
    <3>1. j.plan = plan /\ j.pc \in PlanLines
      BY <2>1
    <3>2. JobOf(p)'
      BY <1>4, <2>1, <3>1 DEF JobOf, Dispatching, Keeping, ModelLines, PlanLines
    <3>3. Ordered(p)'
      BY <1>4, <1>7, <3>1 DEF Ordered, Proposing, At, OrderLines, PlanLines
    <3>4. Staged(p)'
      BY <1>4, <3>1 DEF Staged, PlanLines
    <3>5. Planned(p)'
      BY <1>4, <1>7, <2>1, <3>1 DEF Planned, At
    <3>6. Unanswered(p)'
      BY <1>4, <1>7, <2>1, <3>1 DEF Unanswered, At, PlanLines
    <3> QED BY <3>1, <3>2, <3>3, <3>4, <3>5, <3>6 DEF Own, PlanLines
  <2>2. CASE j = [pc |-> "record", result |-> [attempt |-> a, status |-> "accepted", plan |-> plan]]
             /\ plan \in plans'
    <3>1. /\ j.pc = "record" /\ j.result.attempt = a /\ j.result.status = "accepted"
          /\ j.result.plan = plan
      BY <2>2
    <3>2. JobOf(p)' /\ Staged(p)' /\ Planned(p)'
      BY <1>4, <3>1 DEF JobOf, Staged, Planned, Dispatching, Keeping, At, ModelLines, PlanLines
    <3>3. Ordered(p)'
      BY <1>4, <1>7, <3>1 DEF Ordered, Proposing, At, OrderLines
    <3>4. Unanswered(p)'
      BY <1>4, <1>7, <2>2, <3>1 DEF Unanswered, Dispatching, Keeping, At, ModelLines, PlanLines
    <3> QED BY <3>1, <3>2, <3>3, <3>4 DEF Own
  <2> QED BY <1>6, <2>1, <2>2
<1>9. /\ job' = [q \in Procs |-> job'[q]]
      /\ lock' \in Procs \cup {None}
      /\ \A q \in Procs : Busy(q)' <=> lock' = q
      /\ \A q \in Procs : Own(q)'
  BY <1>1, <1>2, <1>8, JobMoves DEF Goto
<1>10. TypeOK'
  BY <1>2, <1>3, <1>7, <1>9 DEF IInv, TypeOK
<1>11. Orders' /\ CredentialsUnseen' /\ Answers'
  BY <1>2, <1>3, <1>7 DEF IInv, Orders, CredentialsUnseen, Answers
<1>12. Plans'
  <2>1. \A x \in plans' : x.text \in whole'
    BY <1>6, <1>7 DEF IInv, Plans
  <2>2. \A x \in plans' : Faithful(x)'
    BY <1>2, <1>3, <1>7 DEF IInv, Plans, Faithful
  <2> QED BY <2>1, <2>2 DEF Plans
<1> QED BY <1>9, <1>10, <1>11, <1>12 DEF IInv

\* A candidate is whole before its plan is written.
LEMMA CandidateKeeps ==
    ASSUME IInv, NEW p \in Procs, WriteCandidate(p) \/ FillCandidate(p) \/ WritePlan(p)
    PROVE  IInv'
<1>1. /\ Keeping(p) /\ Busy(p) /\ torn \cap whole = {}
      /\ job[p] \in [pc : PlanLines, attempt : Attempts, plan : {job[p].plan}]
  BY DEF IInv, TypeOK, Own, JobOf, WriteCandidate, FillCandidate, WritePlan, At, Keeping, Busy, PlanLines
<1>2. CASE Refuse(p)
  BY <1>1, <1>2, RefuseKeeps
<1>3. CASE /\ torn' = torn \cup {job[p].plan.text} /\ job[p].plan.text \notin torn \cup whole
           /\ Goto(p, [job[p] EXCEPT !.pc = "fill candidate"])
           /\ UNCHANGED <<campaign, live, whole, plans, results, seen, reports>>
  <2> DEFINE j == [job[p] EXCEPT !.pc = "fill candidate"]
  <2>1. /\ j \in [pc : PlanLines, attempt : Attempts, plan : {job[p].plan}]
        /\ j.attempt = job[p].attempt /\ j.pc = "fill candidate"
    BY <1>1 DEF PlanLines
  <2>2. torn' \cap whole' = {}
    BY <1>1, <1>3
  <2> HIDE DEF j
  <2> QED BY <1>1, <1>3, <2>1, <2>2, KeepingStep DEF j
<1>4. CASE /\ job[p].plan.text \in whole /\ UNCHANGED <<campaign, live, kept, seen, reports>>
           /\ Goto(p, [job[p] EXCEPT !.pc = "write plan"])
  <2> DEFINE j == [job[p] EXCEPT !.pc = "write plan"]
  <2>1. /\ j \in [pc : PlanLines, attempt : Attempts, plan : {job[p].plan}]
        /\ j.attempt = job[p].attempt /\ j.pc = "write plan"
    BY <1>1 DEF PlanLines
  <2>2. torn' \cap whole' = {} /\ UNCHANGED <<torn, whole, plans, results>>
    BY <1>1, <1>4 DEF kept
  <2> QED BY <1>1, <1>4, <2>1, <2>2, KeepingStep
<1>5. CASE /\ torn' = torn \ {job[p].plan.text} /\ whole' = whole \cup {job[p].plan.text}
           /\ Goto(p, [job[p] EXCEPT !.pc = "write plan"])
           /\ UNCHANGED <<campaign, live, plans, results, seen, reports>>
  <2> DEFINE j == [job[p] EXCEPT !.pc = "write plan"]
  <2>1. /\ j \in [pc : PlanLines, attempt : Attempts, plan : {job[p].plan}]
        /\ j.attempt = job[p].attempt /\ j.pc = "write plan"
    BY <1>1 DEF PlanLines
  <2>2. torn' \cap whole' = {}
    BY <1>1, <1>5
  <2> QED BY <1>1, <1>5, <2>1, <2>2, KeepingStep
<1>6. CASE WritePlan(p)
  <2>1. job[p].plan.text \in whole
    BY <1>6 DEF WritePlan, IInv, Own, Planned
  <2> QED BY <1>1, <1>6, <2>1, KeepingStep DEF WritePlan
<1>7. CASE WriteCandidate(p)
  BY <1>2, <1>3, <1>4, <1>7 DEF WriteCandidate, SameContent
<1>8. CASE FillCandidate(p)
  BY <1>5, <1>8 DEF FillCandidate
<1> QED BY <1>6, <1>7, <1>8

\* The answer of an attempt is recorded once.
LEMMA RecordKeeps == ASSUME IInv, NEW p \in Procs, Record(p) PROVE IInv'
<1>1. /\ job[p].pc = "record" /\ End(p)
      /\ results' = results \cup {job[p].result} /\ reports' = reports \cup {job[p].result}
      /\ UNCHANGED <<campaign, live, torn, whole, plans, seen>>
  BY DEF Record, At
<1>2. Busy(p) /\ Alone(p) /\ lock = p
  BY <1>1, LockExcludes DEF IInv, Busy
<1>3. /\ UNCHANGED <<audited, order, redactions, staging, live, torn, whole, plans, seen, calls, stops, edits>>
      /\ job' = [job EXCEPT ![p] = Idle] /\ lock' = None
  BY <1>1, <1>2 DEF campaign, bounds, End
<1>4. Sanitize' = Sanitize
  BY <1>3, SameOrder
<1>5. job'[p].pc = "idle"
  BY <1>3 DEF IInv, Idle
<1>6. Own(p)'
  BY <1>5 DEF Own, JobOf, Ordered, Staged, Planned, Unanswered, At, Proposing, Dispatching, Keeping,
       OrderLines, ModelLines, PlanLines
<1>7. /\ job' = [q \in Procs |-> job'[q]]
      /\ lock' \in Procs \cup {None}
      /\ \A q \in Procs : Busy(q)' <=> lock' = q
      /\ \A q \in Procs : Own(q)'
  BY <1>2, <1>3, <1>6, JobMoves DEF Idle
<1>8. PICK r : r = job[p].result
  OBVIOUS
<1>9. /\ \A x \in results : x.attempt # r.attempt
      /\ r.attempt \in Attempts /\ r.status \in {"accepted", "quarantined"}
      /\ r.status = "accepted" => r.plan \in plans
  BY <1>1, <1>8 DEF IInv, Own, Unanswered, At, Existing
<1>10. TypeOK'
  BY <1>1, <1>3, <1>4, <1>7, <1>8, <1>9 DEF IInv, TypeOK
<1>11. Orders' /\ CredentialsUnseen' /\ Plans'
  BY <1>3, <1>4 DEF IInv, Orders, CredentialsUnseen, Plans, Faithful
<1>12. Answers'
  BY <1>1, <1>8, <1>9 DEF IInv, Answers
<1> QED BY <1>7, <1>10, <1>11, <1>12 DEF IInv

-----------------------------------------------------------------------------
(* What happens beside the commands that are under way. *)

\* The lines of the processes and the files are what the invariant is about.
LEMMA JobsStay ==
    ASSUME IInv, UNCHANGED <<campaign, kept, seen, job, lock>>,
           reports' \subseteq results, live' \in Lives,
           calls' \in 0 .. MaxCalls /\ stops' \in 0 .. MaxStops /\ edits' \in 0 .. MaxEdits
    PROVE  IInv'
<1>1. UNCHANGED <<audited, order, redactions, staging, torn, whole, plans, results, seen, job, lock>>
  BY DEF campaign, kept
<1>2. Sanitize' = Sanitize
  BY <1>1, SameOrder
<1>3. ASSUME NEW p \in Procs PROVE Own(p)'
  <2>1. Own(p)
    BY DEF IInv
  <2>2. JobOf(p)' /\ Ordered(p)'
    BY <1>1, <1>2, <2>1 DEF Own, JobOf, Ordered, Proposing, Dispatching, Keeping, At
  <2>3. Staged(p)'
    BY <1>1, <1>2, <2>1 DEF Own, Staged, Reconstructs, StageText
  <2>4. Planned(p)'
    BY <1>1, <1>2, <2>1 DEF Own, Planned, Faithful, Keeping, At
  <2>5. Unanswered(p)'
    BY <1>1, <2>1 DEF Own, Unanswered, Existing, Dispatching, Keeping, At
  <2> QED BY <2>2, <2>3, <2>4, <2>5 DEF Own
<1>4. TypeOK'
  <2>1. results' \cup reports' \subseteq results
    BY <1>1
  <2> QED BY <1>1, <1>2, <2>1 DEF IInv, TypeOK, Busy
<1>5. Orders' /\ CredentialsUnseen' /\ Plans'
  BY <1>1, <1>2 DEF IInv, Orders, CredentialsUnseen, Plans, Faithful
<1>6. Answers'
  BY <1>1 DEF IInv, Answers
<1> QED BY <1>1, <1>3, <1>4, <1>5, <1>6 DEF IInv

LEMMA RepeatKeeps == ASSUME IInv, NEW p \in Procs, NEW a, Repeat(p, a) PROVE IInv'
<1>1. reports' \subseteq results
  BY DEF Repeat, Existing, IInv, Answers
<1>2. calls \in 0 .. MaxCalls /\ stops \in 0 .. MaxStops /\ edits \in 0 .. MaxEdits /\ live \in Lives
  BY DEF IInv, TypeOK
<1>3. calls' \in 0 .. MaxCalls /\ stops' \in 0 .. MaxStops /\ edits' \in 0 .. MaxEdits /\ live' \in Lives
  BY <1>2, DispatchAssumption DEF Repeat
<1> QED BY <1>1, <1>3, JobsStay DEF Repeat

LEMMA EditKeeps == ASSUME IInv, NEW text \in Lives, Edit(text) PROVE IInv'
<1>1. reports' \subseteq results
  BY DEF Edit, IInv, Answers
<1>2. calls \in 0 .. MaxCalls /\ stops \in 0 .. MaxStops /\ edits \in 0 .. MaxEdits
  BY DEF IInv, TypeOK
<1>3. calls' \in 0 .. MaxCalls /\ stops' \in 0 .. MaxStops /\ edits' \in 0 .. MaxEdits /\ live' \in Lives
  BY <1>2, DispatchAssumption DEF Edit
<1> QED BY <1>1, <1>3, JobsStay DEF Edit

-----------------------------------------------------------------------------
(* The theorems. *)

LEMMA InitHolds == Init => IInv
<1> SUFFICES ASSUME Init PROVE IInv
  OBVIOUS
<1>1. \A p \in Procs : job[p].pc = "idle"
  BY DEF Init, Idle
<1>2. \A p \in Procs : Own(p)
  BY <1>1 DEF Own, JobOf, Ordered, Staged, Planned, Unanswered, At, Proposing, Dispatching, Keeping,
       OrderLines, ModelLines, PlanLines
<1>3. TypeOK
  BY <1>1, DispatchAssumption DEF Init, TypeOK, Busy
<1>4. Orders /\ CredentialsUnseen /\ Plans /\ Answers /\ job = [p \in Procs |-> job[p]]
  BY DEF Init, Orders, CredentialsUnseen, Plans, Answers
<1> QED BY <1>2, <1>3, <1>4 DEF IInv

LEMMA StepKeeps == IInv /\ [Next]_vars => IInv'
<1> SUFFICES ASSUME IInv, [Next]_vars PROVE IInv'
  OBVIOUS
<1>1. CASE UNCHANGED vars
  <2>1. /\ UNCHANGED <<campaign, kept, seen, job, lock>> /\ live' = live /\ reports' = reports
        /\ calls' = calls /\ stops' = stops /\ edits' = edits
    BY <1>1 DEF vars, bounds
  <2>2. reports \subseteq results /\ live \in Lives
        /\ calls \in 0 .. MaxCalls /\ stops \in 0 .. MaxStops /\ edits \in 0 .. MaxEdits
    BY DEF IInv, TypeOK, Answers
  <2> QED BY <2>1, <2>2, JobsStay
<1>2. ASSUME NEW p \in Procs, Step(p) PROVE IInv'
  <2>1. CASE WriteOrder(p) \/ WriteRedactions(p) \/ WriteStaging(p)
    BY <2>1, WriteOrderKeeps, WriteRedactionsKeeps, WriteStagingKeeps
  <2>2. CASE ReadTarget(p) \/ FillStage(p) \/ Probe(p) \/ Start(p)
    BY <2>2, ReadTargetKeeps, FillStageKeeps, ProbeKeeps, StartKeeps
  <2>3. CASE Timeout(p)
    BY <2>3, RefuseKeeps DEF Timeout, At, Busy
  <2>4. CASE FailCodex(p) \/ FailClaude(p) \/ Misshapen(p)
    BY <2>4, QuarantineKeeps DEF FailCodex, FailClaude, Misshapen
  <2>5. CASE \E text \in Proposed : Answer(p, text)
    BY <2>5, AnswerKeeps
  <2>6. CASE WriteCandidate(p) \/ FillCandidate(p) \/ WritePlan(p)
    BY <2>6, CandidateKeeps
  <2>7. CASE Record(p)
    BY <2>7, RecordKeeps
  <2> QED BY <1>2, <2>1, <2>2, <2>3, <2>4, <2>5, <2>6, <2>7 DEF Step
<1>3. ASSUME NEW p \in Procs, NEW a \in Attempts,
             Repeat(p, a) \/ \E rt \in {"codex", "claude"} : BeginDispatch(p, a, rt)
      PROVE  IInv'
  BY <1>3, RepeatKeeps, BeginDispatchKeeps
<1>4. ASSUME NEW p \in Procs, BeginPropose(p) \/ Hang(p) \/ Die(p) PROVE IInv'
  BY <1>4, BeginProposeKeeps, HangKeeps, DieKeeps
<1>5. ASSUME NEW p \in Procs, NEW text \in Scribbled, Meddle(p, text) PROVE IInv'
  BY <1>5, MeddleKeeps
<1>6. ASSUME NEW text \in Lives, Edit(text) PROVE IInv'
  BY <1>6, EditKeeps
<1> QED BY <1>1, <1>2, <1>3, <1>4, <1>5, <1>6 DEF Next

THEOREM Invariance == Spec => []IInv
BY InitHolds, StepKeeps, PTL DEF Spec

\* A plan on file can be reviewed for what it is: it answers the very text it
\* replaces (dispatch.py:140-199, 228-262), and its candidate is whole.
THEOREM PlansSound == Spec => []PlanSound
<1>1. IInv => PlanSound
  BY DEF IInv, Plans, Faithful, PlanSound, PlanOfWhatItReplaces, SourceWhole
<1> QED BY <1>1, Invariance, PTL

\* No accepted answer moves, drops or copies a credential of the order, and
\* no model is shown one (work_orders.py:457-580).
THEOREM CredentialsStay == Spec => []CredentialsInPlace
<1>1. IInv => CredentialsInPlace
  BY DEF IInv, Plans, Faithful, CredentialsInPlace, CredentialsKept
<1> QED BY <1>1, Invariance, PTL

\* However often and by whom an attempt is dispatched, it has one answer
\* (dispatch.py:742-777).
THEOREM AnsweredOnce == Spec => []OneAnswer
<1>1. IInv => OneAnswer
  BY DEF IInv, Answers, OneAnswer
<1> QED BY <1>1, Invariance, PTL
=============================================================================

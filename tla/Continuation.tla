---------------------------- MODULE Continuation ----------------------------
(***************************************************************************)
(* Continuing a Claude session from its own terminal: the plugin           *)
(* (hooks/register.js), the commands it runs (behavior_cli.py) and the     *)
(* reservation they keep (native_continuation.py), over the session binding*)
(* of behavior_watch.py.                                                   *)
(*                                                                         *)
(* The plugin is single-threaded and every await is a point where other    *)
(* handlers run: a task below is one press of a button or one command.     *)
(* The commands are processes that hold the behavior lock from first read  *)
(* to last write, so each takes effect in one step; its answer arrives     *)
(* later, or never.  The host changes session, runs turns and reloads the  *)
(* plugin when it pleases, and its events arrive later and in order.       *)
(*                                                                         *)
(* A session here is an id with its directory; its native evidence is the  *)
(* number of its turns.  A reservation is named by session, evidence and   *)
(* prompt.  The prompt follows from the diagnosis; its text is one of a few *)
(* templates, so that different reservations may have the same text, and a *)
(* user may send that text as well.                                        *)
(***************************************************************************)
EXTENDS Naturals, Sequences, FiniteSets, Maps

CONSTANTS
    Sessions,
    Texts,        \* what the prompts say
    Text,         \* the prompt that follows from each diagnosis
    UserTexts,    \* bound: those of them that a user may send too
    Tasks,        \* 1 .. n: tasks the plugin may run at once; a new one takes the least
    MaxTurns,     \* bound: turns of the host
    MaxActs,      \* bound: commands
    MaxPresses,   \* bound: presses of the button
    MaxFaults     \* bound: changes of session or directory, refusals, lost answers, rejected
                  \* submissions and reloads

Keys == [sess : Sessions, ev : 0 .. MaxTurns]

ASSUME ContinuationAssumption ==
    /\ None \notin Sessions \cup Nat \cup BOOLEAN \cup Keys \cup Texts
    /\ Sessions # {} /\ Tasks \subseteq Nat /\ MaxTurns \in Nat
    /\ Text \in [Keys -> Texts] /\ UserTexts \subseteq Texts

VARIABLES
    sess, ev,      \* the session in front; turns each session has recorded
    turn,          \* the number of the turn that runs, or None
    ran,           \* the turns so far: whose prompt, its text, and how it went
    prompts,       \* prompts the plugin submitted and the host still holds
    events,        \* events the plugin has not handled yet
    plugin,        \* the variables of register.js
    attempts,      \* the attempt objects the plugin still refers to
    pc, job,       \* each task
    recs,          \* reservations on file
    submitted,     \* how often the prompt of each reservation was submitted
    acts, presses, faults

host == <<sess, ev, turn, ran, prompts, events>>
bounds == <<acts, presses, faults>>
vars == <<host, plugin, attempts, pc, job, recs, submitted, bounds>>

States == {"reserved", "admitted", "queued", "started", "turn-ended", "dropped",
           "outcome-unknown"}
Observation(o, id, ok) == [state |-> o, turn |-> id, ok |-> ok]

TypeOK ==
    /\ sess \in Sessions /\ ev \in [Sessions -> 0 .. MaxTurns]
    /\ prompts \subseteq Keys /\ DOMAIN attempts \subseteq DOMAIN recs
    /\ plugin.gen \in Nat /\ plugin.turnGen \in Nat /\ plugin.busy \in BOOLEAN
    /\ plugin.pane \in BOOLEAN /\ plugin.active \in Nat \cup {None}
    /\ plugin.attempt \in DOMAIN attempts \cup {None}
    /\ \A k \in DOMAIN recs : k \in Keys /\ recs[k].state \in States
                              /\ (recs[k].state = "turn-ended") = (recs[k].done # None)
    /\ DOMAIN submitted \subseteq DOMAIN recs /\ turn \in DOMAIN ran \cup {None}
    /\ \A n \in DOMAIN ran : ran[n].key \in DOMAIN submitted \cup {None}
    /\ \A t \in Tasks : pc[t] \in {"idle", "acted", "claim", "claimed", "checked", "admit",
                                   "admitted", "submit", "submitted", "observing"}

Fresh == [gen |-> 0, turnGen |-> 0, diag |-> None, busy |-> FALSE, pane |-> FALSE,
          attempt |-> None, active |-> None]

Init ==
    /\ sess = (CHOOSE s \in Sessions : TRUE) /\ ev = [s \in Sessions |-> 0]
    /\ turn = None /\ ran = <<>> /\ prompts = {} /\ events = <<>>
    /\ plugin = Fresh /\ attempts = <<>>
    /\ pc = [t \in Tasks |-> "idle"] /\ job = [t \in Tasks |-> None]
    /\ recs = <<>> /\ submitted = <<>>
    /\ acts = 0 /\ presses = 0 /\ faults = 0

-----------------------------------------------------------------------------
(* The plugin's tasks. *)

Goto(t, l) == pc' = [pc EXCEPT ![t] = l]

\* The finally of both: a reset has cleared busy, and a newer task may have set it.
Ended(t) == [plugin EXCEPT !.busy = @ /\ job[t].epoch # plugin.gen]
Finish(t) == Goto(t, "idle") /\ job' = [job EXCEPT ![t] = None]

Idle(t) == pc[t] = "idle" /\ ~plugin.busy /\ \A u \in Tasks : u < t => pc[u] # "idle"
Begin(t, l, key, diag) ==
    /\ Goto(t, l)
    /\ job' = [job EXCEPT ![t] = [epoch |-> plugin.gen, key |-> key, idle |-> plugin.turnGen,
                                  ans |-> "none", diag |-> diag, same |-> FALSE]]

\* sameSession, once the host has answered.
Same(key, epoch) == epoch = plugin.gen /\ sess = key.sess

Fault == faults < MaxFaults /\ faults' = faults + 1

\* The digest of a transcript, without what the plugin's own commands leave in it.
Evidence(s) == ev[s]

\* apu-wtf marks and diagnoses the session as its transcript is.
Diagnosed(s) == [sess |-> s, ev |-> Evidence(s), prepared |-> FALSE]

\* apu-intervene --dry-run binds the session again and leaves its evidence alone.
Prepared(d) == [d EXCEPT !.prepared = TRUE]

\* /apu-diagnose and /apu-prepare run at any time, also during a turn, once the host
\* has told session and directory.
Act(t, prepare) ==
    /\ Idle(t) /\ acts < MaxActs /\ acts' = acts + 1
    /\ LET d == IF plugin.diag # None /\ plugin.diag.sess # sess THEN None ELSE plugin.diag IN
       IF prepare THEN /\ d # None /\ ~d.prepared
                       /\ plugin' = [plugin EXCEPT !.busy = TRUE]
                       /\ Begin(t, "acted", None, Prepared(d))
       ELSE /\ plugin' = [plugin EXCEPT !.busy = TRUE, !.diag = None]
            /\ Begin(t, "acted", None, Diagnosed(sess))
    /\ UNCHANGED <<host, attempts, recs, submitted, presses, faults>>

\* An answer for another generation is discarded; a failure discards the diagnosis.
ActAnswer(t) ==
    /\ pc[t] = "acted" /\ Finish(t)
    /\ \/ /\ plugin' = IF job[t].epoch # plugin.gen THEN plugin
                        ELSE [Ended(t) EXCEPT !.diag = job[t].diag]
          /\ UNCHANGED faults
       \/ /\ Fault
          /\ plugin' = IF job[t].epoch # plugin.gen THEN plugin
                        ELSE [Ended(t) EXCEPT !.diag = None]
    /\ UNCHANGED <<host, attempts, recs, submitted, acts, presses>>

\* /apu-continue waits for the end of the turn, and opens the panel.
OpenPane ==
    /\ turn = None /\ ~plugin.pane
    /\ plugin.diag # None /\ plugin.diag.prepared /\ plugin.diag.sess = sess
    /\ plugin' = [plugin EXCEPT !.pane = TRUE]
    /\ UNCHANGED <<host, attempts, pc, job, recs, submitted, bounds>>

ClosePane ==
    /\ plugin.pane /\ plugin' = [plugin EXCEPT !.pane = FALSE]
    /\ UNCHANGED <<host, attempts, pc, job, recs, submitted, bounds>>

-----------------------------------------------------------------------------
(* The button: continueNative. *)

\* Pressed in a view of this generation and turn, and the host has told the session.
Press(t) ==
    /\ Idle(t) /\ plugin.pane /\ plugin.active = None /\ plugin.attempt = None
    /\ presses < MaxPresses /\ presses' = presses + 1
    /\ plugin.diag # None /\ plugin.diag.prepared /\ plugin.diag.sess = sess
    /\ plugin' = [plugin EXCEPT !.busy = TRUE]
    /\ Begin(t, "claim", [sess |-> sess, ev |-> plugin.diag.ev], None)
    /\ UNCHANGED <<host, attempts, recs, submitted, acts, faults>>

\* (mutant) the evidence is what it was when the turn ran: nobody looks again.
ContextBound(k) == TRUE

\* _context: the session of the incident, with the evidence it had.
Context(k) == Evidence(k.sess) = k.ev

\* (mutant) a reservation whose turn nobody saw is handed out again.
ClaimableAgain(k) == k \in DOMAIN recs => recs[k].turn = None

Claimable(k) == k \notin DOMAIN recs

\* claim: the first to reserve gets the prompt, if the answer comes in time.
Claim(t) ==
    /\ pc[t] = "claim" /\ Goto(t, "claimed")
    /\ \/ /\ Context(job[t].key) /\ Claimable(job[t].key)
          /\ recs' = With(recs, job[t].key, [state |-> "reserved", turn |-> None, done |-> None])
          /\ \/ job' = [job EXCEPT ![t].ans = "prompt"] /\ UNCHANGED faults
             \/ job' = [job EXCEPT ![t].ans = "none"] /\ Fault
       \/ /\ UNCHANGED recs /\ job' = [job EXCEPT ![t].ans = "none"]
          /\ IF Context(job[t].key) /\ Claimable(job[t].key) THEN Fault ELSE UNCHANGED faults
    /\ UNCHANGED <<host, plugin, attempts, submitted, acts, presses>>

Attempt(t) == [epoch |-> job[t].epoch, admitted |-> FALSE, turn |-> None, outbox |-> <<>>]

\* The observations of an attempt are recorded one after the other.
Observe(as, k, o) == [as EXCEPT ![k].outbox = Append(@, o)]

\* The answer with a prompt, which is checked against the session the host names now.
Claimed(t) ==
    /\ pc[t] = "claimed"
    /\ IF job[t].ans = "none" THEN plugin' = Ended(t) /\ Finish(t) /\ UNCHANGED attempts
       ELSE /\ attempts' = With(attempts, job[t].key, Attempt(t))
            /\ job' = [job EXCEPT ![t].same = sess = job[t].key.sess]
            /\ Goto(t, "checked") /\ UNCHANGED plugin
    /\ UNCHANGED <<host, recs, submitted, bounds>>

Quiet(t) == job[t].epoch = plugin.gen /\ plugin.active = None /\ plugin.turnGen = job[t].idle

\* The host has named its session; what the plugin heard meanwhile counts as well.
Checked(t) ==
    /\ pc[t] = "checked"
    /\ LET k == job[t].key IN
       IF job[t].same /\ Quiet(t)
       THEN plugin' = [plugin EXCEPT !.attempt = k] /\ Goto(t, "admit") /\ UNCHANGED attempts
       ELSE /\ attempts' = Observe(attempts, k, Observation("outcome-unknown", None, FALSE))
            /\ Goto(t, "observing") /\ UNCHANGED plugin
    /\ UNCHANGED <<host, job, recs, submitted, bounds>>

\* admit: once per reservation, and the context is checked again; an answer that comes
\* too late is an error, whatever was saved.
Admit(t) ==
    /\ pc[t] = "admit" /\ Goto(t, "admitted")
    /\ LET k == job[t].key IN
       \/ /\ recs[k].state # "reserved"
          /\ job' = [job EXCEPT ![t].ans = "no"] /\ UNCHANGED <<recs, faults>>
       \/ /\ recs[k].state = "reserved" /\ Context(k)
          /\ recs' = [recs EXCEPT ![k].state = "admitted"]
          /\ \/ job' = [job EXCEPT ![t].ans = "yes"] /\ UNCHANGED faults
             \/ job' = [job EXCEPT ![t].ans = "error"] /\ Fault
       \/ /\ job' = [job EXCEPT ![t].ans = "error"] /\ UNCHANGED recs
          /\ IF Context(k) THEN Fault ELSE UNCHANGED faults
    /\ UNCHANGED <<host, plugin, attempts, submitted, acts, presses>>

\* An answer that says yes is checked against the session the host names now.
Admitted(t) ==
    /\ pc[t] = "admitted"
    /\ IF job[t].ans = "yes"
       THEN /\ job' = [job EXCEPT ![t].same = sess = job[t].key.sess]
            /\ Goto(t, "submit") /\ UNCHANGED attempts
       ELSE /\ attempts' = Observe(attempts, job[t].key, Observation(
                    IF job[t].ans = "no" THEN "outcome-unknown" ELSE "dropped", None, FALSE))
            /\ Goto(t, "observing") /\ UNCHANGED job
    /\ UNCHANGED <<host, plugin, recs, submitted, bounds>>

Submit(t) ==
    /\ pc[t] = "submit"
    /\ LET k == job[t].key IN
       IF job[t].same /\ Quiet(t)
       THEN /\ attempts' = [attempts EXCEPT ![k].admitted = TRUE]
            /\ prompts' = prompts \cup {k}
            /\ submitted' = With(submitted, k,
                                 IF k \in DOMAIN submitted THEN submitted[k] + 1 ELSE 1)
            /\ Goto(t, "submitted")
       ELSE /\ attempts' = Observe(attempts, k, Observation("outcome-unknown", None, FALSE))
            /\ Goto(t, "observing") /\ UNCHANGED <<prompts, submitted>>
    /\ UNCHANGED <<sess, ev, turn, ran, events, plugin, job, recs, bounds>>

\* (mutant) a submission without an answer counts as dropped.
RejectedDropped == "dropped"
Rejected == "outcome-unknown"

\* The host answers: it took the prompt, dropped it, or something went wrong.
Acknowledge(t) ==
    /\ pc[t] = "submitted" /\ Goto(t, "observing")
    /\ LET k == job[t].key
           same(o) == IF Same(k, job[t].epoch) THEN o ELSE "outcome-unknown" IN
       \/ /\ attempts' = Observe(attempts, k, Observation(same("queued"), None, FALSE))
          /\ UNCHANGED <<prompts, faults>>
       \/ /\ k \in prompts /\ prompts' = prompts \ {k} /\ Fault
          /\ attempts' = Observe(attempts, k, Observation(same("dropped"), None, FALSE))
       \/ /\ Fault /\ UNCHANGED prompts
          /\ attempts' = Observe(attempts, k, Observation(Rejected, None, FALSE))
    /\ UNCHANGED <<sess, ev, turn, ran, events, plugin, job, recs, submitted, acts, presses>>

Observed(t) ==
    /\ pc[t] = "observing" /\ attempts[job[t].key].outbox = <<>>
    /\ plugin' = Ended(t) /\ Finish(t)
    /\ UNCHANGED <<host, attempts, recs, submitted, bounds>>

-----------------------------------------------------------------------------
(* observe: what the reservation says of the delivery. *)

\* (mutant) any later observation replaces an earlier one.
RefusedNever(r, o) == FALSE

\* The observation is refused, or changes nothing.
Refused(r, o) ==
    \/ o.turn # None /\ r.turn \notin {None, o.turn}
    \/ o.state = "turn-ended" /\ r.turn = None
    \/ r.state \in {"dropped", "turn-ended"}
    \/ o.state = "queued" /\ r.state \in {"started", "outcome-unknown"}
    \/ r.state = "reserved" /\ o.state \in {"queued", "started", "turn-ended"}
    \/ o.state = "dropped" /\ r.state = "started"

After(r, o) == [state |-> o.state,
                turn |-> IF o.state = "started" THEN o.turn ELSE r.turn,
                done |-> IF o.state = "turn-ended" THEN o.ok ELSE r.done]

\* A command that fails is noted in the panel and not repeated.
Record(k) ==
    /\ attempts[k].outbox # <<>>
    /\ attempts' = [attempts EXCEPT ![k].outbox = Tail(@)]
    /\ LET o == Head(attempts[k].outbox) IN
       \/ /\ recs' = IF Refused(recs[k], o) THEN recs ELSE [recs EXCEPT ![k] = After(@, o)]
          /\ UNCHANGED faults
       \/ Fault /\ UNCHANGED recs
    /\ UNCHANGED <<host, plugin, pc, job, submitted, acts, presses>>

-----------------------------------------------------------------------------
(* Events the host sends. *)

Reset == [Fresh EXCEPT !.gen = plugin.gen + 1, !.turnGen = plugin.turnGen + 1]

\* isNativeTurn compares what the turn says, and nothing else.
IsNativeTurn(id, k) == ran[id].text = Text[k]

\* turn.start and turn.complete look at the session before they record anything; the host
\* waits for the handler of an event before it sends the next one.
Deliver ==
    /\ events # <<>> /\ events' = Tail(events)
    /\ LET e == Head(events)
           k == plugin.attempt
           mine == k # None /\ Same(k, attempts[k].epoch) IN
       \/ e.type = "reset" /\ plugin' = Reset /\ UNCHANGED attempts
       \/ /\ e.type = "start"
          /\ plugin' = [plugin EXCEPT !.active = e.id, !.turnGen = @ + 1]
          /\ attempts' = IF /\ mine /\ attempts[k].admitted /\ attempts[k].turn = None
                            /\ IsNativeTurn(e.id, k)
                         THEN Observe([attempts EXCEPT ![k].turn = e.id], k,
                                      Observation("started", e.id, FALSE))
                         ELSE attempts
       \/ /\ e.type = "end"
          /\ plugin' = [plugin EXCEPT !.active = IF @ = e.id THEN None ELSE @]
          /\ attempts' = IF mine /\ attempts[k].turn = e.id
                         THEN Observe(attempts, k, Observation("turn-ended", e.id, e.ok))
                         ELSE attempts
    /\ UNCHANGED <<sess, ev, turn, ran, prompts, pc, job, recs, submitted, bounds>>

Event(type, id, ok) == [type |-> type, id |-> id, ok |-> ok]

\* A turn of a prompt the plugin submitted, or of the user, who may say anything.
StartTurn(key, text) ==
    /\ turn = None /\ Len(ran) < MaxTurns /\ turn' = Len(ran) + 1
    /\ IF key = None THEN text \in UserTexts \cup {None} ELSE text = Text[key]
    /\ ran' = Append(ran, [key |-> key, text |-> text, how |-> "running"])
    /\ ev' = [ev EXCEPT ![sess] = @ + 1] /\ prompts' = prompts \ {key}
    /\ events' = Append(events, Event("start", turn', FALSE))
    /\ UNCHANGED <<sess, plugin, attempts, pc, job, recs, submitted, bounds>>

How(ok) == IF ok THEN "answer" ELSE "aborted"

EndTurn(ok) ==
    /\ turn # None /\ turn' = None /\ ran' = [ran EXCEPT ![turn].how = How(ok)]
    /\ events' = Append(events, Event("end", turn, ok))
    /\ UNCHANGED <<sess, ev, prompts, plugin, attempts, pc, job, recs, submitted, bounds>>

\* Another session, or another directory: the change comes before its event.
Switch(s) ==
    /\ s # sess /\ sess' = s /\ Fault
    /\ events' = Append(events, Event("reset", 0, FALSE))
    /\ UNCHANGED <<ev, turn, ran, prompts, plugin, attempts, pc, job, recs, submitted,
                   acts, presses>>

\* The plugin is loaded again: what it knew and what it waited for is gone.
Reload ==
    /\ Fault /\ plugin' = Reset /\ attempts' = <<>> /\ events' = <<>>
    /\ pc' = [t \in Tasks |-> "idle"] /\ job' = [t \in Tasks |-> None]
    /\ UNCHANGED <<sess, ev, turn, ran, prompts, recs, submitted, acts, presses>>

-----------------------------------------------------------------------------

Step(t) ==
    \/ ActAnswer(t) \/ Claim(t) \/ Claimed(t) \/ Checked(t)
    \/ Admit(t) \/ Admitted(t) \/ Submit(t) \/ Acknowledge(t) \/ Observed(t)

Next ==
    \/ \E t \in Tasks : (\E prepare \in BOOLEAN : Act(t, prepare)) \/ Press(t) \/ Step(t)
    \/ \E k \in DOMAIN attempts : Record(k)
    \/ OpenPane \/ ClosePane \/ Deliver \/ Reload
    \/ \E key \in prompts \cup {None}, text \in Texts \cup {None} : StartTurn(key, text)
    \/ \E ok \in BOOLEAN : EndTurn(ok)
    \/ \E s \in Sessions : Switch(s)

Spec == Init /\ [][Next]_vars

-----------------------------------------------------------------------------
(* What a continuation promises. *)

\* "A repeated claim ... cannot return a prompt, including after reload or a lost
\* response": the prompt of a reservation is submitted once, whatever the plugin
\* forgets, whatever answer it misses and however often the button is pressed.
SubmittedOnce == \A k \in DOMAIN submitted : submitted[k] <= 1

\* What was submitted was admitted on file before, and the file can still tell.
AdmittedFirst == \A k \in DOMAIN submitted : recs[k].state # "reserved"

\* "session evidence changed; diagnose the current request again": a prompt goes to
\* the session and the evidence it was diagnosed for, and never into a running turn.
\* This holds when no event of the host is pending (events = <<>>): of what has changed
\* and not been told yet the plugin cannot know, and nothing is promised of it.
FreshSubmit == [][\A k \in Keys : k \in prompts' \ prompts /\ events = <<>> =>
    sess = k.sess /\ ev[sess] = k.ev /\ turn = None]_vars

\* Whether a turn of the prompt of k ever started.
Ran(k) == \E n \in DOMAIN ran : ran[n].key = k

\* A record that says dropped is about a prompt that never started, and stays so.
DroppedTruth == \A k \in DOMAIN recs : recs[k].state = "dropped" => ~Ran(k)

\* The turn on record is one the host ran with the text of the prompt, and of no other
\* reservation; a record that says it ended says how it ended.
TurnTruth == \A k \in DOMAIN recs :
    /\ recs[k].done # None => recs[k].turn # None /\ ran[recs[k].turn].how = How(recs[k].done)
    /\ recs[k].turn # None =>
          /\ recs[k].turn \in DOMAIN ran /\ ran[recs[k].turn].text = Text[k]
          /\ \A j \in DOMAIN recs : recs[j].turn = recs[k].turn => j = k

\* "exact turn observations", as far as the text of a turn can tell: the turn on record is
\* that of the prompt that was submitted for this reservation, unless a user, or another
\* prompt that was submitted, says the same.
ExactTurn == \A k \in DOMAIN recs : recs[k].turn # None =>
    LET key == ran[recs[k].turn].key IN
    IF key = None THEN Text[k] \in UserTexts
    ELSE key \in DOMAIN submitted /\ Text[key] = Text[k]

\* "Record transport observations": a turn that was seen to end stays ended, and one
\* seen to start is never taken back to queued or dropped.
NotDowngraded == [][\A k \in DOMAIN recs :
    /\ recs[k].state = "turn-ended" => recs'[k] = recs[k]
    /\ recs[k].state = "started" => recs'[k].state \notin {"queued", "dropped"}]_vars

\* The plugin refuses commands only while a task of its own generation still runs: what
\* changes while a task waits neither leaves it busy for ever nor lets two such tasks run.
BusyOwned ==
    plugin.busy <=> Cardinality({t \in Tasks : pc[t] # "idle" /\ job[t].epoch = plugin.gen}) = 1

\* A prepared prompt is delivered at most once and never unannounced, and the
\* plugin that waits for it is busy with that and nothing else.
DeliveredOnce == TypeOK /\ SubmittedOnce /\ AdmittedFirst /\ BusyOwned

\* What is finally on record of a prompt, and of which turn.
Final(k) == recs[k].state = "dropped" \/ recs[k].done # None
FinalWord(k) == IF recs[k].state = "dropped" THEN <<k, None, "dropped">>
                ELSE <<k, recs[k].turn, How(recs[k].done)>>
Said == {FinalWord(k) : k \in {j \in DOMAIN recs : Final(j)}}

\* Plugin, commands and host together deliver a prompt at most once, and the record of
\* that stands and is true as far as the text of a turn can tell ("A repeated claim ...
\* cannot return a prompt, including after reload or a lost response").
Promise == INSTANCE Delivery WITH
    reserved <- DOMAIN recs, sent <- submitted, said <- Said
DeliverySpec == Promise!DeliverySpec

\* What the reservation file says became of a prompt did become of it.
RecordTruth == DroppedTruth /\ TurnTruth /\ ExactTurn
=============================================================================

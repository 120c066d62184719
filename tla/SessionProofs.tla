----------------------------- MODULE SessionProofs -----------------------------
(***************************************************************************)
(* The three components about one provider session, each proved for every  *)
(* value of its constants: the delivery of a prompt to it (Continuation),  *)
(* its evidence (EvidenceStore) and its selection among the transcripts    *)
(* (SessionSelection).                                                     *)
(*                                                                         *)
(* That a prompt is submitted once rests on the reservation, not on the    *)
(* plugin: the first claim is answered with the prompt, and whoever has it *)
(* alone may submit it (Holder).  What a record says of a delivery is true *)
(* because an observation is of the turn whose number its attempt has,     *)
(* that number is one of a turn with the text of the prompt, and the       *)
(* plugin hears of the start of a turn once, so that no two attempts have  *)
(* one number.  That a prompt is not submitted into another session, turn  *)
(* or evidence needs what the plugin cannot see yet: whatever changed      *)
(* since has left an event it has still to handle.                         *)
(*                                                                         *)
(* The evidence is written without a lock when there was no directory for  *)
(* one; what makes that safe for retention is that then no plan exists and *)
(* nothing on file is old enough for one (Unguarded).  A prune that was    *)
(* interrupted may go on because what is left of its plan is all there is, *)
(* still old and still unnamed (Deleting).                                 *)
(*                                                                         *)
(* A selection is right because half way through a provider whatever suits *)
(* the question all along is still to be looked at or was found (Reached). *)
(***************************************************************************)
EXTENDS Continuation, EvidenceStore, SessionSelection, TLAPS, FiniteSetTheorems,
        FunctionTheorems, WellFoundedInduction

-----------------------------------------------------------------------------
(* The delivery of a prompt: Continuation. *)

Diags == [sess : Sessions, ev : 0 .. MaxTurns, prepared : BOOLEAN]
Plugins == [gen : Nat, turnGen : Nat, diag : Diags \cup {None}, busy : BOOLEAN,
            pane : BOOLEAN, attempt : Keys \cup {None}, active : Nat \cup {None}]
Jobs == [epoch : Nat, key : Keys \cup {None}, idle : Nat, diag : Diags \cup {None},
         ans : {"none", "prompt", "yes", "no", "error"}, same : BOOLEAN]
Observations == [state : States \ {"reserved", "admitted"}, turn : Nat \cup {None}, ok : BOOLEAN]
Attempts == [epoch : Nat, admitted : BOOLEAN, turn : Nat \cup {None}, outbox : Seq(Observations)]
Records == [state : States, turn : Nat \cup {None}, done : BOOLEAN \cup {None}]
Events == [type : {"start", "end", "reset"}, id : Nat, ok : BOOLEAN]
RanTurns == [key : Keys \cup {None}, text : Texts \cup {None},
             how : {"running", "answer", "aborted"}]
Lines == {"idle", "acted", "claim", "claimed", "checked", "admit", "admitted", "submit",
          "submitted", "observing"}
Pressing == Lines \ {"idle", "acted"}
turns == Len(ran)

HostTypes ==
    /\ sess \in Sessions /\ ev \in [Sessions -> 0 .. MaxTurns]
    /\ ran \in Seq(RanTurns) /\ turns <= MaxTurns /\ \A s \in Sessions : ev[s] <= turns
    /\ turn \in (1 .. turns) \cup {None} /\ prompts \subseteq Keys /\ events \in Seq(Events)
PluginTypes ==
    /\ plugin \in Plugins
    /\ attempts \in [DOMAIN attempts -> Attempts] /\ DOMAIN attempts \subseteq DOMAIN recs
    /\ plugin.attempt \in DOMAIN attempts \cup {None}
    /\ pc \in [Tasks -> Lines] /\ job \in [Tasks -> Jobs \cup {None}]
    /\ \A t \in Tasks : pc[t] # "idle" => job[t] \in Jobs
    /\ \A t \in Tasks : pc[t] \in Pressing => job[t].key \in Keys
    /\ \A t \in Tasks : pc[t] = "claimed" => job[t].ans \in {"none", "prompt"}
    /\ \A t \in Tasks :
          pc[t] \in {"checked", "admit", "admitted", "submit", "submitted", "observing"} =>
              job[t].key \in DOMAIN attempts
FileTypes ==
    /\ DOMAIN recs \subseteq Keys /\ recs \in [DOMAIN recs -> Records]
    /\ DOMAIN submitted \subseteq DOMAIN recs /\ submitted \in [DOMAIN submitted -> Nat]
    /\ \A n \in 1 .. turns : ran[n].key # None => ran[n].key \in DOMAIN submitted
    /\ \A k \in DOMAIN recs : recs[k].state = "turn-ended" <=> recs[k].done # None
Types == HostTypes /\ PluginTypes /\ FileTypes

\* The tasks of the plugin's own generation: it is busy with one, or idle.
Owner(t) == pc[t] # "idle" /\ job[t].epoch = plugin.gen
Owned ==
    /\ \A t \in Tasks : pc[t] # "idle" => job[t].epoch <= plugin.gen
    /\ \A t, u \in Tasks : Owner(t) /\ Owner(u) => t = u
    /\ plugin.busy <=> \E t \in Tasks : Owner(t)

\* Who has the prompt of a reservation and has not submitted it yet.
Holder(t, k) ==
    /\ \/ pc[t] \in {"checked", "admit", "admitted", "submit"}
       \/ pc[t] = "claimed" /\ job[t].ans = "prompt"
    /\ job[t].key = k
Held ==
    /\ \A t \in Tasks, k \in Keys : Holder(t, k) => k \in DOMAIN recs \ DOMAIN submitted
    /\ \A t, u \in Tasks, k \in Keys : Holder(t, k) /\ Holder(u, k) => t = u
    /\ \A t \in Tasks : pc[t] = "submit" \/ (pc[t] = "admitted" /\ job[t].ans = "yes") =>
          recs[job[t].key].state # "reserved"
    /\ \A t \in Tasks : pc[t] = "submitted" => job[t].key \in DOMAIN submitted
    /\ \A k \in DOMAIN submitted : submitted[k] = 1 /\ recs[k].state # "reserved"

\* A prompt that was dropped, or is said to have been, starts no turn any more.
Gone(k) == k \notin prompts /\ ~Ran(k) /\ \A t \in Tasks : ~ Holder(t, k)
Told(k) == {attempts[k].outbox[i] : i \in 1 .. Len(attempts[k].outbox)}
Dropped ==
    /\ prompts \subseteq DOMAIN submitted /\ \A k \in prompts : ~Ran(k)
    /\ \A k \in DOMAIN attempts : \A o \in Told(k) : o.state = "dropped" => Gone(k)
    /\ \A k \in DOMAIN recs : recs[k].state = "dropped" => Gone(k)

\* One number, one reservation: an attempt takes the number of a turn with its text when the
\* plugin hears of the start of that turn, which it does once.
Upcoming == {events[i] : i \in 1 .. Len(events)}
Has(k, n) ==
    \/ k \in DOMAIN recs /\ recs[k].turn = n
    \/ k \in DOMAIN attempts /\ attempts[k].turn = n
Numbered ==
    /\ \A e \in Upcoming : e.type # "reset" => e.id \in 1 .. turns
    /\ \A k \in Keys, n \in Nat : Has(k, n) =>
          /\ n \in 1 .. turns /\ ran[n].text = Text[k]
          /\ \A e \in Upcoming : e.type = "start" => e.id # n
          /\ \A j \in Keys : Has(j, n) => j = k
    /\ \A k \in DOMAIN attempts : \A o \in Told(k) : o.state \in {"started", "turn-ended"} =>
          o.turn # None /\ o.turn = attempts[k].turn

\* What the plugin will hear, what an attempt has been told and what is on record agree on
\* how a turn went.
Fated(n, ok) == n \in 1 .. turns /\ ran[n].how = How(ok)
Completed ==
    /\ turn # None => ran[turn].how = "running"
    /\ \A e \in Upcoming : e.type = "end" => Fated(e.id, e.ok)
    /\ \A k \in DOMAIN attempts : \A o \in Told(k) : o.state = "turn-ended" => Fated(o.turn, o.ok)
    /\ \A k \in DOMAIN recs : recs[k].done # None =>
          recs[k].turn # None /\ Fated(recs[k].turn, recs[k].done)

\* Turns are numbered as they start, and the plugin hears of them in that order.
Ordered ==
    /\ turn # None => turn = turns
    /\ \A i, j \in 1 .. Len(events) :
          i < j /\ events[i].type = "start" /\ events[j].type = "start" => events[i].id < events[j].id
    /\ plugin.active # None =>
          /\ plugin.active <= turns
          /\ \A e \in Upcoming : e.type = "start" => plugin.active < e.id

\* What the plugin has still to hear of.
Pending(type) == \E e \in Upcoming : e.type = type
Current(t) == pc[t] \in Pressing /\ job[t].epoch = plugin.gen
Informed ==
    /\ turn # None => \A e \in Upcoming : e.type = "end" => e.id # turn
    /\ turn # None /\ (plugin.pane \/ \E t \in Tasks : Current(t)) =>
          \/ \E e \in Upcoming : e.type = "start" /\ e.id = turn
          \/ Pending("reset") \/ plugin.active = turn
    /\ \A t \in Tasks : Current(t) => job[t].idle <= plugin.turnGen
    /\ \A t \in Tasks :
          Current(t) /\ (pc[t] = "submit" \/ (pc[t] = "admitted" /\ job[t].ans = "yes")) =>
              \/ Pending("start") \/ Pending("reset") \/ job[t].idle < plugin.turnGen
              \/ ev[job[t].key.sess] = job[t].key.ev
    /\ \A t \in Tasks : Current(t) /\ pc[t] = "submit" /\ job[t].same =>
          Pending("reset") \/ sess = job[t].key.sess

IInv == Types /\ Owned /\ Held /\ Dropped /\ Numbered /\ Completed /\ Ordered /\ Informed
-----------------------------------------------------------------------------
(* Types. *)

LEMMA TailTypes ==
    ASSUME NEW S, NEW q \in Seq(S), q # <<>>
    PROVE  /\ Tail(q) \in Seq(S) /\ Head(q) \in S /\ Len(q) \in Nat \ {0}
           /\ Head(q) = q[1] /\ Len(Tail(q)) = Len(q) - 1
           /\ \A i \in 1 .. Len(Tail(q)) : Tail(q)[i] = q[i + 1]
  OBVIOUS

LEMMA AppendTypes ==
    ASSUME NEW S, NEW q \in Seq(S), NEW e \in S
    PROVE  /\ Append(q, e) \in Seq(S) /\ Len(q) \in Nat /\ Len(Append(q, e)) = Len(q) + 1
           /\ Append(q, e)[Len(q) + 1] = e
           /\ \A i \in 1 .. Len(q) : Append(q, e)[i] = q[i]
  OBVIOUS

LEMMA StartedTurn ==
    ASSUME Types, NEW key \in prompts \cup {None}, NEW text \in Texts \cup {None},
           StartTurn(key, text)
    PROVE  /\ ran' \in Seq(RanTurns) /\ turns \in Nat /\ turns' = turns + 1
           /\ turn = None /\ turn' = turns + 1 /\ turns < MaxTurns
           /\ ran'[turns + 1] = [key |-> key, text |-> text, how |-> "running"]
           /\ ran'[turns + 1].key = key /\ ran'[turns + 1].text = text
           /\ ran'[turns + 1].how = "running"
           /\ \A n \in 1 .. turns : ran'[n] = ran[n]
<1> DEFINE r == [key |-> key, text |-> text, how |-> "running"]
<1>1. r \in RanTurns /\ r.key = key /\ r.text = text /\ r.how = "running"
  BY DEF RanTurns, Types, HostTypes
<1>2. ran \in Seq(RanTurns) /\ turns \in Nat  BY DEF Types, HostTypes, turns
<1>3. ran' = Append(ran, r) /\ turn = None /\ turn' = turns + 1 /\ turns < MaxTurns
  BY DEF StartTurn, turns
<1>4. /\ ran' \in Seq(RanTurns) /\ turns' = turns + 1 /\ ran'[turns + 1] = r
      /\ \A n \in 1 .. turns : ran'[n] = ran[n]
  <2> HIDE DEF r
  <2> QED  BY <1>1, <1>2, <1>3, AppendTypes DEF turns
<1> QED  BY <1>1, <1>2, <1>3, <1>4

LEMMA EndedTurn ==
    ASSUME Types, NEW ok \in BOOLEAN, EndTurn(ok)
    PROVE  /\ ran' \in Seq(RanTurns) /\ turns \in Nat /\ turns' = turns
           /\ turn \in 1 .. turns /\ turn' = None /\ ran'[turn].how = How(ok)
           /\ ran'[turn].key = ran[turn].key /\ ran'[turn].text = ran[turn].text
           /\ \A n \in (1 .. turns) \ {turn} : ran'[n] = ran[n]
<1>1. ran \in Seq(RanTurns) /\ turns \in Nat  BY DEF Types, HostTypes, turns
<1>2. /\ turn \in 1 .. turns /\ turn' = None /\ turn \in 1 .. Len(ran)
      /\ ran' = [ran EXCEPT ![turn].how = How(ok)]
  BY DEF EndTurn, Types, HostTypes, turns
<1>3. How(ok) \in {"running", "answer", "aborted"}  BY DEF How
<1>4. ran[turn] \in RanTurns  BY <1>1, <1>2
<1>5. [ran[turn] EXCEPT !.how = How(ok)] \in RanTurns  BY <1>3, <1>4 DEF RanTurns
<1>6. ran' = [ran EXCEPT ![turn] = [ran[turn] EXCEPT !.how = How(ok)]]  BY <1>2
<1>7. /\ ran' \in Seq(RanTurns) /\ Len(ran') = Len(ran)
      /\ ran'[turn] = [ran[turn] EXCEPT !.how = How(ok)]
      /\ \A n \in (1 .. turns) \ {turn} : ran'[n] = ran[n]
  BY <1>1, <1>2, <1>5, <1>6 DEF turns
<1> QED  BY <1>1, <1>2, <1>4, <1>7 DEF turns, RanTurns

LEMMA RanCases ==
    ASSUME [Next]_vars
    PROVE  \/ UNCHANGED <<turn, ran>>
           \/ \E key \in prompts \cup {None}, text \in Texts \cup {None} : StartTurn(key, text)
           \/ \E ok \in BOOLEAN : EndTurn(ok)
<1>1. ASSUME NEW t \in Tasks,
             (\E prepare \in BOOLEAN : Act(t, prepare)) \/ Press(t) \/ Step(t)
      PROVE  UNCHANGED <<turn, ran>>
  BY <1>1 DEF Act, Press, Step, ActAnswer, Claim, Claimed, Checked, Admit, Admitted, Submit,
              Acknowledge, Observed, host
<1>2. ASSUME OpenPane \/ ClosePane \/ Deliver \/ Reload \/ (\E k \in DOMAIN attempts : Record(k))
             \/ (\E s \in Sessions : Switch(s)) \/ UNCHANGED vars
      PROVE  UNCHANGED <<turn, ran>>
  BY <1>2 DEF OpenPane, ClosePane, Deliver, Reload, Record, Switch, host, vars
<1> QED  BY <1>1, <1>2 DEF Next

\* The turns so far: they keep whose they are and what they say, and one that has ended
\* stays as it ended.
LEMMA RanStep ==
    ASSUME Types, [Next]_vars
    PROVE  /\ ran' \in Seq(RanTurns) /\ turns \in Nat /\ turns' \in {turns, turns + 1}
           /\ \A n \in 1 .. turns :
                 /\ ran'[n].key = ran[n].key /\ ran'[n].text = ran[n].text
                 /\ turn # n => ran'[n].how = ran[n].how
           /\ \A n \in 1 .. turns' : n \in 1 .. turns \/ n = turns + 1
           /\ 1 .. turns \subseteq 1 .. turns'
<1>1. CASE ran' = ran  BY <1>1 DEF turns, Types, HostTypes
<1>2. ASSUME NEW key \in prompts \cup {None}, NEW text \in Texts \cup {None}, StartTurn(key, text)
      PROVE  /\ ran' \in Seq(RanTurns) /\ turns \in Nat /\ turns' = turns + 1
             /\ \A n \in 1 .. turns : ran'[n] = ran[n]
  BY <1>2, StartedTurn
<1>3. ASSUME NEW ok \in BOOLEAN, EndTurn(ok)
      PROVE  /\ ran' \in Seq(RanTurns) /\ turns \in Nat /\ turns' = turns
             /\ \A n \in 1 .. turns :
                   /\ ran'[n].key = ran[n].key /\ ran'[n].text = ran[n].text
                   /\ turn # n => ran'[n].how = ran[n].how
  BY <1>3, EndedTurn
<1>4. turns \in Nat  BY DEF turns, Types, HostTypes
<1>5. turns' \in {turns, turns + 1} =>
          /\ \A n \in 1 .. turns' : n \in 1 .. turns \/ n = turns + 1
          /\ 1 .. turns \subseteq 1 .. turns'
  BY <1>4
<1> QED  BY <1>1, <1>2, <1>3, <1>4, <1>5, RanCases

\* A turn of a prompt starts as the host takes the prompt.
LEMMA RanGrows ==
    ASSUME Types, [Next]_vars, NEW k \in Keys, Ran(k)', ~Ran(k)
    PROVE  k \in prompts /\ prompts' = prompts \ {k}
<1>1. ran' # ran  BY DEF Ran
<1>2. ASSUME NEW ok \in BOOLEAN, EndTurn(ok) PROVE FALSE
  <2>1. turns' = turns /\ \A n \in 1 .. turns : ran'[n].key = ran[n].key
    BY <1>2, EndedTurn
  <2>2. DOMAIN ran = 1 .. turns /\ DOMAIN ran' = 1 .. turns'
    BY <1>2, EndedTurn DEF turns, Types, HostTypes
  <2> QED  BY <2>1, <2>2 DEF Ran
<1>3. PICK key \in prompts \cup {None}, text \in Texts \cup {None} : StartTurn(key, text)
  BY <1>1, <1>2, RanCases
<1>4. /\ turns \in Nat /\ turns' = turns + 1 /\ ran'[turns + 1].key = key
      /\ \A n \in 1 .. turns : ran'[n].key = ran[n].key
  BY <1>3, StartedTurn
<1>5. DOMAIN ran = 1 .. turns /\ DOMAIN ran' = 1 .. turns'
  BY <1>3, StartedTurn DEF turns, Types, HostTypes
<1>6. \A n \in DOMAIN ran' : n \in DOMAIN ran \/ n = turns + 1  BY <1>4, <1>5
<1>7. key = k  BY <1>4, <1>5, <1>6 DEF Ran
<1>8. k # None  BY ContinuationAssumption
<1> QED  BY <1>3, <1>7, <1>8 DEF StartTurn

LEMMA HostStep == ASSUME Types, [Next]_vars PROVE HostTypes'
<1> USE DEF Types
<1>0. ran' \in Seq(RanTurns) /\ turns \in Nat /\ turns' \in {turns, turns + 1}  BY RanStep
<1>1. CASE UNCHANGED host  BY <1>1 DEF HostTypes, host, turns
<1>2. ASSUME NEW t \in Tasks, Submit(t) PROVE HostTypes'
  <2>1. pc[t] = "submit"  BY <1>2 DEF Submit
  <2>2. job[t].key \in Keys  BY <2>1 DEF PluginTypes, Pressing, Lines
  <2> QED  BY <1>2, <2>2 DEF HostTypes, Submit, bounds, turns
<1>3. ASSUME NEW t \in Tasks, Acknowledge(t) PROVE HostTypes'
  BY <1>3 DEF HostTypes, Acknowledge, turns
<1>4. CASE Deliver  BY <1>4, TailTypes DEF HostTypes, Deliver, bounds, turns
<1>5. CASE Reload  BY <1>5 DEF HostTypes, Reload, turns
<1>6. ASSUME NEW key \in prompts \cup {None}, NEW text \in Texts \cup {None}, StartTurn(key, text)
      PROVE  HostTypes'
  <2>1. /\ turns < MaxTurns /\ turn' = turns + 1
        /\ ev' = [ev EXCEPT ![sess] = @ + 1] /\ sess' = sess /\ prompts' \subseteq prompts
        /\ events' = Append(events, Event("start", turn', FALSE))
        /\ ran' = Append(ran, [key |-> key, text |-> text, how |-> "running"])
    BY <1>6 DEF StartTurn, turns
  <2>2. Event("start", turn', FALSE) \in Events  BY <1>0, <2>1 DEF Event, Events
  <2>3. events' \in Seq(Events)  BY <2>1, <2>2, AppendTypes DEF HostTypes
  <2>4. turns' = turns + 1  BY <2>1 DEF HostTypes, turns
  <2>5. ev' \in [Sessions -> 0 .. MaxTurns] /\ \A s \in Sessions : ev'[s] <= turns'
    BY <1>0, <2>1, <2>4, ContinuationAssumption DEF HostTypes
  <2>6. turns' <= MaxTurns /\ turn' \in 1 .. turns'
    BY <1>0, <2>1, <2>4, ContinuationAssumption DEF HostTypes
  <2>7. sess' \in Sessions /\ prompts' \subseteq Keys  BY <2>1 DEF HostTypes
  <2> QED  BY <1>0, <2>3, <2>5, <2>6, <2>7 DEF HostTypes
<1>7. ASSUME NEW ok \in BOOLEAN, EndTurn(ok) PROVE HostTypes'
  <2>1. turn \in Nat  BY <1>0, <1>7 DEF EndTurn, HostTypes
  <2>2. Event("end", turn, ok) \in Events  BY <2>1 DEF Event, Events
  <2>3. events' \in Seq(Events)  BY <1>7, <2>2, AppendTypes DEF HostTypes, EndTurn
  <2>4. turns' = turns  BY <1>7 DEF EndTurn, turns, HostTypes
  <2> QED  BY <1>0, <1>7, <2>3, <2>4 DEF HostTypes, EndTurn, bounds
<1>8. ASSUME NEW s \in Sessions, Switch(s) PROVE HostTypes'
  <2>1. Event("reset", 0, FALSE) \in Events  BY DEF Event, Events
  <2>2. events' \in Seq(Events)  BY <1>8, <2>1, AppendTypes DEF HostTypes, Switch
  <2> QED  BY <1>8, <2>2 DEF HostTypes, Switch, turns
<1>9. ASSUME NEW t \in Tasks,
             (\E prepare \in BOOLEAN : Act(t, prepare)) \/ Press(t) \/ ActAnswer(t) \/ Claim(t)
             \/ Claimed(t) \/ Checked(t) \/ Admit(t) \/ Admitted(t) \/ Observed(t)
      PROVE  UNCHANGED host
  BY <1>9 DEF Act, Press, ActAnswer, Claim, Claimed, Checked, Admit, Admitted, Observed, bounds
<1>10. CASE OpenPane \/ ClosePane \/ \E k \in DOMAIN attempts : Record(k)
  BY <1>10, <1>1 DEF OpenPane, ClosePane, Record, bounds
<1>11. CASE UNCHANGED vars  BY <1>11, <1>1 DEF vars, bounds
<1> QED
  BY <1>1, <1>2, <1>3, <1>4, <1>5, <1>6, <1>7, <1>8, <1>9, <1>10, <1>11 DEF Next, Step

\* What a step of task t does to the tasks.
LEMMA GotoEffect ==
    ASSUME PluginTypes, NEW t \in Tasks, NEW l \in Lines, Goto(t, l)
    PROVE  /\ pc' \in [Tasks -> Lines] /\ pc'[t] = l
           /\ \A u \in Tasks \ {t} : pc'[u] = pc[u]
  BY DEF Goto, PluginTypes

LEMMA EndedTypes ==
    ASSUME PluginTypes, NEW t \in Tasks, job[t] \in Jobs
    PROVE  /\ Ended(t) \in Plugins
           /\ \A d \in Diags \cup {None} : [Ended(t) EXCEPT !.diag = d] \in Plugins
           /\ \A d : LET e == [Ended(t) EXCEPT !.diag = d] IN
                 /\ e.attempt = plugin.attempt /\ e.gen = plugin.gen /\ e.turnGen = plugin.turnGen
                 /\ e.pane = plugin.pane /\ e.active = plugin.active /\ e.busy = Ended(t).busy
           /\ Ended(t).attempt = plugin.attempt /\ Ended(t).gen = plugin.gen
           /\ Ended(t).turnGen = plugin.turnGen /\ Ended(t).pane = plugin.pane
           /\ Ended(t).active = plugin.active
           /\ Ended(t).busy = (plugin.busy /\ job[t].epoch # plugin.gen)
  BY DEF Ended, PluginTypes, Plugins

LEMMA BeginEffect ==
    ASSUME PluginTypes, NEW t \in Tasks, NEW l \in Lines, NEW key \in Keys \cup {None},
           NEW diag \in Diags \cup {None}, Begin(t, l, key, diag)
    PROVE  /\ pc' \in [Tasks -> Lines] /\ pc'[t] = l /\ job' \in [Tasks -> Jobs \cup {None}]
           /\ job'[t] = [epoch |-> plugin.gen, key |-> key, idle |-> plugin.turnGen,
                         ans |-> "none", diag |-> diag, same |-> FALSE]
           /\ job'[t] \in Jobs
           /\ \A u \in Tasks \ {t} : pc'[u] = pc[u] /\ job'[u] = job[u]
<1>1. plugin.gen \in Nat /\ plugin.turnGen \in Nat  BY DEF PluginTypes, Plugins
<1>2. [epoch |-> plugin.gen, key |-> key, idle |-> plugin.turnGen,
       ans |-> "none", diag |-> diag, same |-> FALSE] \in Jobs
  BY <1>1 DEF Jobs
<1> QED  BY <1>2 DEF Begin, Goto, PluginTypes

LEMMA FinishEffect ==
    ASSUME PluginTypes, NEW t \in Tasks, Finish(t)
    PROVE  /\ pc' \in [Tasks -> Lines] /\ pc'[t] = "idle" /\ job' \in [Tasks -> Jobs \cup {None}]
           /\ \A u \in Tasks \ {t} : pc'[u] = pc[u] /\ job'[u] = job[u]
  BY DEF Finish, Goto, PluginTypes, Lines

\* An attempt that has one more observation to record.
LEMMA ObserveEffect ==
    ASSUME NEW as, as \in [DOMAIN as -> Attempts], NEW k \in DOMAIN as, NEW o \in Observations
    PROVE  /\ Observe(as, k, o) \in [DOMAIN as -> Attempts]
           /\ DOMAIN Observe(as, k, o) = DOMAIN as
           /\ Observe(as, k, o)[k].outbox = Append(as[k].outbox, o)
           /\ Observe(as, k, o)[k].epoch = as[k].epoch /\ Observe(as, k, o)[k].turn = as[k].turn
           /\ Observe(as, k, o)[k].admitted = as[k].admitted
           /\ \A j \in DOMAIN as \ {k} : Observe(as, k, o)[j] = as[j]
<1>1. as[k] \in Attempts /\ as[k].outbox \in Seq(Observations)  BY DEF Attempts
<1>2. Append(as[k].outbox, o) \in Seq(Observations)  BY <1>1, AppendTypes
<1>3. [as[k] EXCEPT !.outbox = Append(@, o)] \in Attempts  BY <1>1, <1>2 DEF Attempts
<1> QED  BY <1>1, <1>3 DEF Observe, Attempts

LEMMA NewAttempt ==
    ASSUME Types, NEW t \in Tasks, job[t] \in Jobs, NEW k
    PROVE  /\ With(attempts, k, Attempt(t)) \in [DOMAIN attempts \cup {k} -> Attempts]
           /\ DOMAIN With(attempts, k, Attempt(t)) = DOMAIN attempts \cup {k}
           /\ With(attempts, k, Attempt(t))[k] = Attempt(t)
           /\ \A j \in DOMAIN attempts \ {k} : With(attempts, k, Attempt(t))[j] = attempts[j]
           /\ Attempt(t).turn = None /\ Attempt(t).outbox = <<>>
<1>1. Attempt(t) \in Attempts /\ Attempt(t).turn = None /\ Attempt(t).outbox = <<>>
  BY DEF Attempt, Attempts, Jobs
<1> QED  BY <1>1 DEF Types, PluginTypes, With

LEMMA ObservationTypes ==
    /\ \A s \in States \ {"reserved", "admitted"}, n \in Nat \cup {None}, ok \in BOOLEAN :
          Observation(s, n, ok) \in Observations
    /\ \A s, n, ok : /\ Observation(s, n, ok).state = s /\ Observation(s, n, ok).turn = n
                     /\ Observation(s, n, ok).ok = ok
  BY DEF Observation, Observations

LEMMA ActTypes ==
    ASSUME Types, NEW t \in Tasks, NEW prepare \in BOOLEAN, Act(t, prepare)
    PROVE  PluginTypes'
<1> DEFINE d == IF plugin.diag # None /\ plugin.diag.sess # sess THEN None ELSE plugin.diag
<1>1. plugin.diag \in Diags \cup {None}  BY DEF Types, PluginTypes, Plugins
<1>2. CASE prepare
  <2>1. d # None /\ plugin' = [plugin EXCEPT !.busy = TRUE] /\ Begin(t, "acted", None, Prepared(d))
    BY <1>2 DEF Act
  <2>2. Prepared(d) \in Diags  BY <1>1, <2>1 DEF Prepared, Diags
  <2>3. /\ pc' \in [Tasks -> Lines] /\ pc'[t] = "acted" /\ job' \in [Tasks -> Jobs \cup {None}]
        /\ job'[t] \in Jobs /\ \A u \in Tasks \ {t} : pc'[u] = pc[u] /\ job'[u] = job[u]
    BY <2>1, <2>2, BeginEffect DEF Lines, Types
  <2>4. plugin' \in Plugins /\ plugin'.attempt = plugin.attempt
    BY <2>1 DEF Types, PluginTypes, Plugins
  <2> QED  BY <2>3, <2>4 DEF Act, Types, PluginTypes, Pressing
<1>3. CASE ~prepare
  <2>1. /\ plugin' = [plugin EXCEPT !.busy = TRUE, !.diag = None]
        /\ Begin(t, "acted", None, Diagnosed(sess))
    BY <1>3 DEF Act
  <2>2. Diagnosed(sess) \in Diags  BY DEF Diagnosed, Evidence, Diags, Types, HostTypes
  <2>3. /\ pc' \in [Tasks -> Lines] /\ pc'[t] = "acted" /\ job' \in [Tasks -> Jobs \cup {None}]
        /\ job'[t] \in Jobs /\ \A u \in Tasks \ {t} : pc'[u] = pc[u] /\ job'[u] = job[u]
    BY <2>1, <2>2, BeginEffect DEF Lines, Types
  <2>4. plugin' \in Plugins /\ plugin'.attempt = plugin.attempt
    BY <2>1 DEF Types, PluginTypes, Plugins
  <2> QED  BY <2>3, <2>4 DEF Act, Types, PluginTypes, Pressing
<1> QED  BY <1>2, <1>3

LEMMA ActAnswerTypes ==
    ASSUME Types, NEW t \in Tasks, ActAnswer(t)
    PROVE  PluginTypes'
<1>1. job[t] \in Jobs  BY DEF ActAnswer, Types, PluginTypes
<1>2. job[t].diag \in Diags \cup {None}  BY <1>1 DEF Jobs
<1>3. /\ pc' \in [Tasks -> Lines] /\ pc'[t] = "idle" /\ job' \in [Tasks -> Jobs \cup {None}]
      /\ \A u \in Tasks \ {t} : pc'[u] = pc[u] /\ job'[u] = job[u]
  BY FinishEffect DEF ActAnswer, Types
<1>4. plugin' \in {plugin, [Ended(t) EXCEPT !.diag = job[t].diag], [Ended(t) EXCEPT !.diag = None]}
  BY DEF ActAnswer
<1>5. plugin' \in Plugins /\ plugin'.attempt = plugin.attempt
  <2>1. PluginTypes /\ None \in Diags \cup {None}  BY DEF Types
  <2>2. CASE plugin' = plugin  BY <2>1, <2>2 DEF PluginTypes
  <2>3. ASSUME NEW d \in Diags \cup {None}, plugin' = [Ended(t) EXCEPT !.diag = d]
        PROVE  plugin' \in Plugins /\ plugin'.attempt = plugin.attempt
    BY <1>1, <2>1, <2>3, EndedTypes
  <2> QED  BY <1>2, <1>4, <2>2, <2>3
<1> QED  BY <1>3, <1>5 DEF ActAnswer, Types, PluginTypes, Pressing

LEMMA PressTypes ==
    ASSUME Types, NEW t \in Tasks, Press(t)
    PROVE  /\ PluginTypes' /\ pc'[t] = "claim" /\ \A u \in Tasks \ {t} : pc'[u] = pc[u] /\ job'[u] = job[u]
           /\ job'[t] = [epoch |-> plugin.gen, key |-> [sess |-> sess, ev |-> plugin.diag.ev],
                         idle |-> plugin.turnGen, ans |-> "none", diag |-> None, same |-> FALSE]
<1> DEFINE k == [sess |-> sess, ev |-> plugin.diag.ev]
<1>1. plugin.diag \in Diags  BY DEF Press, Types, PluginTypes, Plugins
<1>2. k \in Keys  BY <1>1 DEF Keys, Diags, Types, HostTypes
<1>3. Begin(t, "claim", k, None)  BY DEF Press
<1> HIDE DEF k
<1>4. /\ pc' \in [Tasks -> Lines] /\ pc'[t] = "claim" /\ job' \in [Tasks -> Jobs \cup {None}]
      /\ job'[t] = [epoch |-> plugin.gen, key |-> k, idle |-> plugin.turnGen,
                    ans |-> "none", diag |-> None, same |-> FALSE]
      /\ job'[t] \in Jobs /\ \A u \in Tasks \ {t} : pc'[u] = pc[u] /\ job'[u] = job[u]
  BY <1>2, <1>3, BeginEffect DEF Lines, Types
<1>5. job'[t].key \in Keys  BY <1>2, <1>4
<1>6. plugin' \in Plugins /\ plugin'.attempt = plugin.attempt
  BY DEF Press, Types, PluginTypes, Plugins
<1>7. PluginTypes'  BY <1>4, <1>5, <1>6 DEF Press, Types, PluginTypes, Pressing
<1> QED  BY <1>4, <1>7 DEF k

LEMMA ClaimTypes ==
    ASSUME Types, NEW t \in Tasks, Claim(t)
    PROVE  /\ PluginTypes' /\ pc'[t] = "claimed" /\ job'[t].key = job[t].key
           /\ job'[t].epoch = job[t].epoch /\ job'[t].idle = job[t].idle
           /\ \A u \in Tasks \ {t} : pc'[u] = pc[u] /\ job'[u] = job[u]
           /\ DOMAIN recs \subseteq DOMAIN recs'
<1>1. job[t] \in Jobs /\ job[t].key \in Keys /\ pc[t] = "claim"
  BY DEF Claim, Types, PluginTypes, Pressing, Lines
<1>2. pc' \in [Tasks -> Lines] /\ pc'[t] = "claimed" /\ \A u \in Tasks \ {t} : pc'[u] = pc[u]
  BY GotoEffect DEF Claim, Lines, Types
<1>3. PICK a \in {"none", "prompt"} : job' = [job EXCEPT ![t].ans = a]  BY DEF Claim
<1>4. job'[t] = [job[t] EXCEPT !.ans = a] /\ \A u \in Tasks \ {t} : job'[u] = job[u]
  BY <1>3 DEF Types, PluginTypes
<1>5. /\ job'[t] \in Jobs /\ job'[t].key = job[t].key /\ job'[t].ans = a
      /\ job'[t].epoch = job[t].epoch /\ job'[t].idle = job[t].idle
  BY <1>1, <1>4 DEF Jobs
<1>6. job' \in [Tasks -> Jobs \cup {None}]  BY <1>3, <1>5 DEF Types, PluginTypes
<1>7. DOMAIN recs \subseteq DOMAIN recs'  BY DEF Claim, With
<1> QED  BY <1>1, <1>2, <1>4, <1>5, <1>6, <1>7 DEF Claim, Types, PluginTypes, Pressing

LEMMA ClaimedTypes ==
    ASSUME Types, Held, NEW t \in Tasks, Claimed(t)
    PROVE  /\ PluginTypes'
           /\ job[t].ans # "none" =>
                 /\ pc'[t] = "checked" /\ job'[t].key = job[t].key /\ job'[t].ans = job[t].ans
                 /\ job'[t].epoch = job[t].epoch /\ job'[t].idle = job[t].idle
                 /\ \A u \in Tasks \ {t} : pc'[u] = pc[u] /\ job'[u] = job[u]
<1> DEFINE k == job[t].key
<1>1. job[t] \in Jobs /\ k \in Keys /\ pc[t] = "claimed"
  BY DEF Claimed, Types, PluginTypes, Pressing, Lines
<1>2. CASE job[t].ans = "none"
  <2>1. plugin' = Ended(t) /\ Finish(t) /\ UNCHANGED <<attempts, recs>>
    BY <1>2 DEF Claimed
  <2>2. /\ pc' \in [Tasks -> Lines] /\ pc'[t] = "idle" /\ job' \in [Tasks -> Jobs \cup {None}]
        /\ \A u \in Tasks \ {t} : pc'[u] = pc[u] /\ job'[u] = job[u]
    BY <2>1, FinishEffect DEF Types
  <2>3. plugin' \in Plugins /\ plugin'.attempt = plugin.attempt
    BY <1>1, <2>1, EndedTypes DEF Types
  <2>4. PluginTypes'  BY <2>1, <2>2, <2>3 DEF Types, PluginTypes, Pressing
  <2> QED  BY <1>2, <2>4
<1>3. CASE job[t].ans # "none"
  <2>1. /\ plugin' = plugin /\ recs' = recs /\ Goto(t, "checked")
        /\ attempts' = With(attempts, k, Attempt(t))
        /\ job' = [job EXCEPT ![t].same = (sess = k.sess)]
    BY <1>3 DEF Claimed
  <2>2. pc' \in [Tasks -> Lines] /\ pc'[t] = "checked" /\ \A u \in Tasks \ {t} : pc'[u] = pc[u]
    BY <2>1, GotoEffect DEF Lines, Types
  <2>3. job'[t] = [job[t] EXCEPT !.same = (sess = k.sess)] /\ \A u \in Tasks \ {t} : job'[u] = job[u]
    BY <2>1 DEF Types, PluginTypes
  <2>4. /\ job'[t] \in Jobs /\ job'[t].key = k /\ job'[t].ans = job[t].ans
        /\ job'[t].epoch = job[t].epoch /\ job'[t].idle = job[t].idle
    BY <1>1, <2>3 DEF Jobs
  <2>5. job' \in [Tasks -> Jobs \cup {None}]  BY <2>1, <2>4 DEF Types, PluginTypes
  <2>6. k \in DOMAIN recs
    <3>1. Holder(t, k)  BY <1>1, <1>3 DEF Holder, Types, PluginTypes
    <3> QED  BY <1>1, <3>1 DEF Held
  <2>7. attempts' \in [DOMAIN attempts' -> Attempts] /\ DOMAIN attempts' = DOMAIN attempts \cup {k}
    BY <1>1, <2>1, NewAttempt
  <2>8. PluginTypes'
    BY <1>1, <2>1, <2>2, <2>3, <2>4, <2>5, <2>6, <2>7 DEF Types, PluginTypes, Pressing
  <2> QED  BY <2>2, <2>3, <2>4, <2>8
<1> QED  BY <1>2, <1>3

LEMMA CheckedTypes ==
    ASSUME Types, NEW t \in Tasks, Checked(t)
    PROVE  /\ PluginTypes' /\ pc'[t] \in {"admit", "observing"} /\ job' = job
           /\ \A u \in Tasks \ {t} : pc'[u] = pc[u]
           /\ plugin' \in {plugin, [plugin EXCEPT !.attempt = job[t].key]}
<1> DEFINE k == job[t].key
           o == Observation("outcome-unknown", None, FALSE)
<1>1. job[t] \in Jobs /\ k \in Keys /\ pc[t] = "checked" /\ k \in DOMAIN attempts
  BY DEF Checked, Types, PluginTypes, Pressing, Lines
<1>2. PICK l \in {"admit", "observing"} : Goto(t, l)  BY DEF Checked
<1>3. pc' \in [Tasks -> Lines] /\ pc'[t] = l /\ \A u \in Tasks \ {t} : pc'[u] = pc[u]
  BY <1>2, GotoEffect DEF Lines, Types
<1>4. attempts' \in {attempts, Observe(attempts, k, o)}  BY DEF Checked
<1>5. attempts' \in [DOMAIN attempts' -> Attempts] /\ DOMAIN attempts' = DOMAIN attempts
  <2>1. o \in Observations  BY ObservationTypes DEF States
  <2> HIDE DEF o
  <2> QED  BY <1>1, <1>4, <2>1, ObserveEffect DEF Types, PluginTypes
<1>6. plugin' \in {plugin, [plugin EXCEPT !.attempt = k]}  BY DEF Checked
<1>7. plugin' \in Plugins /\ plugin'.attempt \in DOMAIN attempts' \cup {None}
  BY <1>1, <1>5, <1>6 DEF Types, PluginTypes, Plugins
<1>8. job' = job /\ recs' = recs  BY DEF Checked
<1>9. PluginTypes'  BY <1>1, <1>3, <1>5, <1>7, <1>8 DEF Types, PluginTypes, Pressing
<1> QED  BY <1>3, <1>6, <1>8, <1>9

LEMMA AdmitTypes ==
    ASSUME Types, NEW t \in Tasks, Admit(t)
    PROVE  /\ PluginTypes' /\ pc'[t] = "admitted" /\ job'[t].key = job[t].key
           /\ job'[t].epoch = job[t].epoch /\ job'[t].idle = job[t].idle
           /\ \A u \in Tasks \ {t} : pc'[u] = pc[u] /\ job'[u] = job[u]
           /\ DOMAIN recs' = DOMAIN recs
<1>1. job[t] \in Jobs /\ job[t].key \in Keys /\ pc[t] = "admit" /\ job[t].key \in DOMAIN attempts
  BY DEF Admit, Types, PluginTypes, Pressing, Lines
<1>2. pc' \in [Tasks -> Lines] /\ pc'[t] = "admitted" /\ \A u \in Tasks \ {t} : pc'[u] = pc[u]
  BY GotoEffect DEF Admit, Lines, Types
<1>3. PICK a \in {"yes", "no", "error"} : job' = [job EXCEPT ![t].ans = a]  BY DEF Admit
<1>4. job'[t] = [job[t] EXCEPT !.ans = a] /\ \A u \in Tasks \ {t} : job'[u] = job[u]
  BY <1>3 DEF Types, PluginTypes
<1>5. /\ job'[t] \in Jobs /\ job'[t].key = job[t].key
      /\ job'[t].epoch = job[t].epoch /\ job'[t].idle = job[t].idle
  BY <1>1, <1>4 DEF Jobs
<1>6. job' \in [Tasks -> Jobs \cup {None}]  BY <1>3, <1>5 DEF Types, PluginTypes
<1>7. DOMAIN recs' = DOMAIN recs  BY DEF Admit
<1> QED  BY <1>1, <1>2, <1>4, <1>5, <1>6, <1>7 DEF Admit, Types, PluginTypes, Pressing

LEMMA AdmittedTypes ==
    ASSUME Types, NEW t \in Tasks, Admitted(t)
    PROVE  /\ PluginTypes' /\ pc'[t] \in {"submit", "observing"} /\ job'[t].key = job[t].key
           /\ job'[t].epoch = job[t].epoch /\ job'[t].idle = job[t].idle
           /\ \A u \in Tasks \ {t} : pc'[u] = pc[u] /\ job'[u] = job[u]
<1> DEFINE k == job[t].key
<1>1. job[t] \in Jobs /\ k \in Keys /\ pc[t] = "admitted" /\ k \in DOMAIN attempts
  BY DEF Admitted, Types, PluginTypes, Pressing, Lines
<1>2. CASE job[t].ans = "yes"
  <2>1. attempts' = attempts /\ Goto(t, "submit") /\ job' = [job EXCEPT ![t].same = (sess = k.sess)]
    BY <1>2 DEF Admitted
  <2>2. pc' \in [Tasks -> Lines] /\ pc'[t] = "submit" /\ \A u \in Tasks \ {t} : pc'[u] = pc[u]
    BY <2>1, GotoEffect DEF Lines, Types
  <2>3. job'[t] = [job[t] EXCEPT !.same = (sess = k.sess)] /\ \A u \in Tasks \ {t} : job'[u] = job[u]
    BY <2>1 DEF Types, PluginTypes
  <2>4. /\ job'[t] \in Jobs /\ job'[t].key = k
        /\ job'[t].epoch = job[t].epoch /\ job'[t].idle = job[t].idle
    BY <1>1, <2>3 DEF Jobs
  <2>5. job' \in [Tasks -> Jobs \cup {None}]  BY <2>1, <2>4 DEF Types, PluginTypes
  <2> QED  BY <1>1, <2>1, <2>2, <2>3, <2>4, <2>5 DEF Admitted, Types, PluginTypes, Pressing
<1>3. CASE job[t].ans # "yes"
  <2>1. PICK s \in {"outcome-unknown", "dropped"} :
            attempts' = Observe(attempts, k, Observation(s, None, FALSE))
    BY <1>3 DEF Admitted
  <2>2. job' = job /\ Goto(t, "observing")  BY <1>3 DEF Admitted
  <2>3. pc' \in [Tasks -> Lines] /\ pc'[t] = "observing" /\ \A u \in Tasks \ {t} : pc'[u] = pc[u]
    BY <2>2, GotoEffect DEF Lines, Types
  <2>4. Observation(s, None, FALSE) \in Observations  BY ObservationTypes DEF States
  <2>5. attempts' \in [DOMAIN attempts -> Attempts] /\ DOMAIN attempts' = DOMAIN attempts
    BY <1>1, <2>1, <2>4, ObserveEffect DEF Types, PluginTypes
  <2> QED  BY <1>1, <2>2, <2>3, <2>5 DEF Admitted, Types, PluginTypes, Pressing
<1> QED  BY <1>2, <1>3

LEMMA SubmitTypes ==
    ASSUME Types, NEW t \in Tasks, Submit(t)
    PROVE  /\ PluginTypes' /\ pc'[t] \in {"submitted", "observing"}
           /\ \A u \in Tasks \ {t} : pc'[u] = pc[u]
<1> DEFINE k == job[t].key
<1>1. job[t] \in Jobs /\ k \in Keys /\ pc[t] = "submit" /\ k \in DOMAIN attempts
  BY DEF Submit, Types, PluginTypes, Pressing, Lines
<1>2. PICK l \in {"submitted", "observing"} : Goto(t, l)  BY DEF Submit
<1>3. pc' \in [Tasks -> Lines] /\ pc'[t] = l /\ \A u \in Tasks \ {t} : pc'[u] = pc[u]
  BY <1>2, GotoEffect DEF Lines, Types
<1>4. attempts' \in [DOMAIN attempts -> Attempts] /\ DOMAIN attempts' = DOMAIN attempts
  <2>1. CASE attempts' = [attempts EXCEPT ![k].admitted = TRUE]
    <3>1. [attempts[k] EXCEPT !.admitted = TRUE] \in Attempts
      BY <1>1 DEF Types, PluginTypes, Attempts
    <3> QED  BY <1>1, <2>1, <3>1 DEF Types, PluginTypes
  <2>2. CASE attempts' = Observe(attempts, k, Observation("outcome-unknown", None, FALSE))
    <3>1. Observation("outcome-unknown", None, FALSE) \in Observations
      BY ObservationTypes DEF States
    <3> QED  BY <1>1, <2>2, <3>1, ObserveEffect DEF Types, PluginTypes
  <2> QED  BY <2>1, <2>2 DEF Submit
<1> QED  BY <1>1, <1>3, <1>4 DEF Submit, Types, PluginTypes, Pressing

LEMMA AcknowledgeTypes ==
    ASSUME Types, NEW t \in Tasks, Acknowledge(t)
    PROVE  /\ PluginTypes' /\ pc'[t] = "observing" /\ \A u \in Tasks \ {t} : pc'[u] = pc[u]
<1> DEFINE k == job[t].key
<1>1. job[t] \in Jobs /\ k \in Keys /\ pc[t] = "submitted" /\ k \in DOMAIN attempts
  BY DEF Acknowledge, Types, PluginTypes, Pressing, Lines
<1>2. pc' \in [Tasks -> Lines] /\ pc'[t] = "observing" /\ \A u \in Tasks \ {t} : pc'[u] = pc[u]
  BY GotoEffect DEF Acknowledge, Lines, Types
<1>3. PICK s \in {"queued", "dropped", "outcome-unknown"} :
          attempts' = Observe(attempts, k, Observation(s, None, FALSE))
  BY DEF Acknowledge, Rejected
<1>4. Observation(s, None, FALSE) \in Observations  BY ObservationTypes DEF States
<1>5. attempts' \in [DOMAIN attempts -> Attempts] /\ DOMAIN attempts' = DOMAIN attempts
  BY <1>1, <1>3, <1>4, ObserveEffect DEF Types, PluginTypes
<1> QED  BY <1>1, <1>2, <1>5 DEF Acknowledge, Types, PluginTypes, Pressing

LEMMA ObservedTypes ==
    ASSUME Types, NEW t \in Tasks, Observed(t)
    PROVE  /\ PluginTypes' /\ pc'[t] = "idle"
           /\ \A u \in Tasks \ {t} : pc'[u] = pc[u] /\ job'[u] = job[u]
<1>1. job[t] \in Jobs  BY DEF Observed, Types, PluginTypes
<1>2. /\ pc' \in [Tasks -> Lines] /\ pc'[t] = "idle" /\ job' \in [Tasks -> Jobs \cup {None}]
      /\ \A u \in Tasks \ {t} : pc'[u] = pc[u] /\ job'[u] = job[u]
  BY FinishEffect DEF Observed, Types
<1>3. plugin' \in Plugins /\ plugin'.attempt = plugin.attempt
  BY <1>1, EndedTypes DEF Observed, Types
<1> QED  BY <1>2, <1>3 DEF Observed, Types, PluginTypes, Pressing

\* What Record does to the attempt whose observation it takes.
LEMMA RecordTypes ==
    ASSUME Types, NEW k \in DOMAIN attempts, Record(k)
    PROVE  /\ PluginTypes' /\ DOMAIN attempts' = DOMAIN attempts
           /\ attempts[k].outbox \in Seq(Observations) /\ attempts[k].outbox # <<>>
           /\ attempts'[k].outbox = Tail(attempts[k].outbox)
           /\ attempts'[k].turn = attempts[k].turn
           /\ \A j \in DOMAIN attempts \ {k} : attempts'[j] = attempts[j]
<1>1. attempts[k] \in Attempts /\ attempts[k].outbox \in Seq(Observations) /\ attempts[k].outbox # <<>>
  BY DEF Record, Types, PluginTypes, Attempts
<1>2. Tail(attempts[k].outbox) \in Seq(Observations)  BY <1>1, TailTypes
<1>3. [attempts[k] EXCEPT !.outbox = Tail(@)] \in Attempts  BY <1>1, <1>2 DEF Attempts
<1>4. attempts' = [attempts EXCEPT ![k] = [attempts[k] EXCEPT !.outbox = Tail(@)]]  BY DEF Record
<1>5. attempts' \in [DOMAIN attempts -> Attempts] /\ DOMAIN attempts' = DOMAIN attempts
  BY <1>3, <1>4 DEF Types, PluginTypes
<1>6. /\ attempts'[k].outbox = Tail(attempts[k].outbox) /\ attempts'[k].turn = attempts[k].turn
      /\ \A j \in DOMAIN attempts \ {k} : attempts'[j] = attempts[j]
  BY <1>1, <1>4 DEF Types, PluginTypes, Attempts
<1>7. DOMAIN recs' = DOMAIN recs  BY DEF Record
<1> QED  BY <1>1, <1>5, <1>6, <1>7 DEF Record, Types, PluginTypes
\* Deliver hands over the next event, e: what it does to the attempt k in progress.
Starting(e, k) == /\ k # None /\ attempts[k].epoch = plugin.gen /\ sess = k.sess
                  /\ attempts[k].turn = None /\ e.type = "start" /\ IsNativeTurn(e.id, k)
Ending(e, k) == /\ k # None /\ attempts[k].epoch = plugin.gen /\ sess = k.sess
                /\ attempts[k].turn = e.id /\ e.type = "end"
Started(e, k) == Observe([attempts EXCEPT ![k].turn = e.id], k, Observation("started", e.id, FALSE))
Closed(e, k) == Observe(attempts, k, Observation("turn-ended", e.id, e.ok))

LEMMA DeliverEffect ==
    ASSUME Types, Deliver, NEW e, e = Head(events)
    PROVE  /\ events \in Seq(Events) /\ events # <<>> /\ e \in Events /\ events' = Tail(events)
           /\ \/ attempts' = attempts
              \/ Starting(e, plugin.attempt) /\ attempts' = Started(e, plugin.attempt)
              \/ Ending(e, plugin.attempt) /\ attempts' = Closed(e, plugin.attempt)
           /\ \/ e.type = "reset" /\ plugin' = Reset
              \/ e.type = "start" /\ plugin' = [plugin EXCEPT !.active = e.id, !.turnGen = @ + 1]
              \/ /\ e.type = "end"
                 /\ plugin' = [plugin EXCEPT !.active = IF @ = e.id THEN None ELSE @]
           /\ UNCHANGED <<sess, ev, turn, ran, prompts, pc, job, recs, submitted, bounds>>
<1>1. events \in Seq(Events) /\ events # <<>> /\ events' = Tail(events)
  BY DEF Deliver, Types, HostTypes
<1>2. e \in Events  BY <1>1, TailTypes
<1> QED  BY <1>1, <1>2 DEF Deliver, Starting, Ending, Started, Closed, Same

LEMMA DeliveredAttempts ==
    ASSUME Types, NEW e \in Events, NEW k \in DOMAIN attempts
    PROVE  /\ Started(e, k) \in [DOMAIN attempts -> Attempts]
           /\ Started(e, k)[k].turn = e.id
           /\ Started(e, k)[k].outbox = Append(attempts[k].outbox, Observation("started", e.id, FALSE))
           /\ \A j \in DOMAIN attempts \ {k} : Started(e, k)[j] = attempts[j]
           /\ Closed(e, k) \in [DOMAIN attempts -> Attempts]
           /\ Closed(e, k)[k].turn = attempts[k].turn
           /\ Closed(e, k)[k].outbox = Append(attempts[k].outbox, Observation("turn-ended", e.id, e.ok))
           /\ \A j \in DOMAIN attempts \ {k} : Closed(e, k)[j] = attempts[j]
<1> DEFINE as == [attempts EXCEPT ![k].turn = e.id]
<1>1. e.id \in Nat \cup {None} /\ e.ok \in BOOLEAN  BY DEF Events
<1>2. /\ Observation("started", e.id, FALSE) \in Observations
      /\ Observation("turn-ended", e.id, e.ok) \in Observations
  BY <1>1, ObservationTypes DEF States
<1>3. attempts[k] \in Attempts /\ attempts \in [DOMAIN attempts -> Attempts]
  BY DEF Types, PluginTypes
<1>4. [attempts[k] EXCEPT !.turn = e.id] \in Attempts  BY <1>1, <1>3 DEF Attempts
<1>5. /\ as \in [DOMAIN as -> Attempts] /\ DOMAIN as = DOMAIN attempts /\ as[k].turn = e.id
      /\ as[k].outbox = attempts[k].outbox
      /\ \A j \in DOMAIN attempts \ {k} : as[j] = attempts[j]
  BY <1>3, <1>4 DEF Attempts
<1>6. Started(e, k) = Observe(as, k, Observation("started", e.id, FALSE))  BY DEF Started
<1> HIDE DEF as
<1>7. k \in DOMAIN as  BY <1>5
<1>8. /\ Started(e, k) \in [DOMAIN as -> Attempts] /\ Started(e, k)[k].turn = as[k].turn
      /\ Started(e, k)[k].outbox = Append(as[k].outbox, Observation("started", e.id, FALSE))
      /\ \A j \in DOMAIN as \ {k} : Started(e, k)[j] = as[j]
  <2> DEFINE o == Observation("started", e.id, FALSE)
  <2>1. o \in Observations  BY <1>2
  <2> HIDE DEF o
  <2>2. /\ Observe(as, k, o) \in [DOMAIN as -> Attempts] /\ Observe(as, k, o)[k].turn = as[k].turn
        /\ Observe(as, k, o)[k].outbox = Append(as[k].outbox, o)
        /\ \A j \in DOMAIN as \ {k} : Observe(as, k, o)[j] = as[j]
    BY <1>5, <1>7, <2>1, ObserveEffect
  <2> QED  BY <1>6, <2>2 DEF o
<1>9. /\ Closed(e, k) \in [DOMAIN attempts -> Attempts] /\ Closed(e, k)[k].turn = attempts[k].turn
      /\ Closed(e, k)[k].outbox = Append(attempts[k].outbox, Observation("turn-ended", e.id, e.ok))
      /\ \A j \in DOMAIN attempts \ {k} : Closed(e, k)[j] = attempts[j]
  BY <1>2, <1>3, ObserveEffect DEF Closed
<1> QED  BY <1>5, <1>8, <1>9

LEMMA ResetTypes ==
    ASSUME plugin \in Plugins
    PROVE  /\ Reset \in Plugins /\ Reset.attempt = None /\ Reset.active = None /\ Reset.gen = plugin.gen + 1
           /\ Reset.turnGen = plugin.turnGen + 1 /\ ~Reset.busy /\ ~Reset.pane
           /\ plugin.gen \in Nat /\ plugin.turnGen \in Nat
<1>1. plugin.gen \in Nat /\ plugin.turnGen \in Nat  BY DEF Plugins
<1>2. Reset = [gen |-> plugin.gen + 1, turnGen |-> plugin.turnGen + 1, diag |-> None,
               busy |-> FALSE, pane |-> FALSE, attempt |-> None, active |-> None]
  <2>1. Fresh \in Plugins  BY DEF Fresh, Plugins
  <2>2. Reset = [[Fresh EXCEPT !.gen = plugin.gen + 1] EXCEPT !.turnGen = plugin.turnGen + 1]
    BY <2>1 DEF Reset, Plugins
  <2> QED  BY <2>2 DEF Fresh
<1> QED  BY <1>1, <1>2 DEF Plugins

LEMMA DeliverTypes == ASSUME Types, Deliver PROVE PluginTypes'
<1> DEFINE e == Head(events)
           k == plugin.attempt
<1>1. /\ e \in Events
      /\ \/ attempts' = attempts
         \/ k # None /\ attempts' = Started(e, k)
         \/ k # None /\ attempts' = Closed(e, k)
      /\ \/ plugin' = Reset
         \/ plugin' = [plugin EXCEPT !.active = e.id, !.turnGen = @ + 1]
         \/ plugin' = [plugin EXCEPT !.active = IF @ = e.id THEN None ELSE @]
      /\ UNCHANGED <<pc, job, recs>>
  BY DeliverEffect DEF Starting, Ending
<1>2. plugin \in Plugins /\ plugin.attempt \in DOMAIN attempts \cup {None}
  BY DEF Types, PluginTypes
<1>3. attempts' \in [DOMAIN attempts -> Attempts]
  BY <1>1, <1>2, DeliveredAttempts DEF Types, PluginTypes
<1>4. e.id \in Nat \cup {None}  BY <1>1 DEF Events
<1>5. plugin' \in Plugins /\ plugin'.attempt \in {plugin.attempt, None}
  BY <1>1, <1>2, <1>4, ResetTypes DEF Plugins
<1> QED  BY <1>1, <1>2, <1>3, <1>5 DEF Types, PluginTypes

LEMMA ReloadTypes == ASSUME Types, Reload PROVE PluginTypes'
<1>1. plugin' \in Plugins /\ plugin'.attempt = None
  BY ResetTypes DEF Reload, Types, PluginTypes
<1>2. /\ pc' \in [Tasks -> Lines] /\ job' \in [Tasks -> Jobs \cup {None}]
      /\ \A t \in Tasks : pc'[t] = "idle"
  BY DEF Reload, Lines
<1>3. attempts' \in [DOMAIN attempts' -> Attempts] /\ DOMAIN attempts' = {}
  BY DEF Reload
<1> QED  BY <1>1, <1>2, <1>3 DEF PluginTypes, Pressing

LEMMA PluginStep == ASSUME Types, Held, [Next]_vars PROVE PluginTypes'
<1>1. CASE UNCHANGED <<plugin, attempts, pc, job, recs>>
  BY <1>1 DEF Types, PluginTypes
<1>2. ASSUME NEW t \in Tasks,
             (\E prepare \in BOOLEAN : Act(t, prepare)) \/ Press(t) \/ Step(t)
      PROVE  PluginTypes'
  BY <1>2, ActTypes, PressTypes, ActAnswerTypes, ClaimTypes, ClaimedTypes, CheckedTypes,
     AdmitTypes, AdmittedTypes, SubmitTypes, AcknowledgeTypes, ObservedTypes DEF Step
<1>3. CASE \E k \in DOMAIN attempts : Record(k)  BY <1>3, RecordTypes
<1>4. CASE OpenPane \/ ClosePane
  <2>1. plugin' \in Plugins /\ plugin'.attempt = plugin.attempt
    BY <1>4 DEF OpenPane, ClosePane, Types, PluginTypes, Plugins
  <2> QED  BY <1>4, <2>1 DEF OpenPane, ClosePane, Types, PluginTypes
<1>5. CASE Deliver \/ Reload  BY <1>5, DeliverTypes, ReloadTypes
<1>6. CASE \E key \in prompts \cup {None}, text \in Texts \cup {None} : StartTurn(key, text)
  BY <1>1, <1>6 DEF StartTurn
<1>7. CASE \E ok \in BOOLEAN : EndTurn(ok)  BY <1>1, <1>7 DEF EndTurn
<1>8. CASE \E s \in Sessions : Switch(s)  BY <1>1, <1>8 DEF Switch
<1>9. CASE UNCHANGED vars  BY <1>1, <1>9 DEF vars
<1> QED  BY <1>2, <1>3, <1>4, <1>5, <1>6, <1>7, <1>8, <1>9 DEF Next

\* What Record does to the record of k, for the observation o.
LEMMA RecordEffect ==
    ASSUME Types, NEW k \in DOMAIN attempts, Record(k), NEW o, o = Head(attempts[k].outbox)
    PROVE  /\ o \in Observations /\ o \in Told(k) /\ k \in DOMAIN recs /\ recs[k] \in Records
           /\ recs' \in [DOMAIN recs -> Records] /\ DOMAIN recs' = DOMAIN recs
           /\ \A j \in DOMAIN recs \ {k} : recs'[j] = recs[j]
           /\ \/ recs' = recs
              \/ /\ ~Refused(recs[k], o) /\ recs'[k].state = o.state
                 /\ recs'[k].turn = (IF o.state = "started" THEN o.turn ELSE recs[k].turn)
                 /\ recs'[k].done = (IF o.state = "turn-ended" THEN o.ok ELSE recs[k].done)
<1>1. attempts[k].outbox \in Seq(Observations) /\ attempts[k].outbox # <<>>
  BY RecordTypes
<1>2. o \in Observations /\ o \in Told(k)
  <2>1. o \in Observations /\ o = attempts[k].outbox[1] /\ Len(attempts[k].outbox) \in Nat \ {0}
    BY <1>1, TailTypes
  <2>2. 1 \in 1 .. Len(attempts[k].outbox)  BY <2>1
  <2> QED  BY <2>1, <2>2 DEF Told
<1>3. k \in DOMAIN recs /\ recs[k] \in Records /\ recs \in [DOMAIN recs -> Records]
  BY DEF Types, PluginTypes, FileTypes
<1>4. /\ After(recs[k], o) \in Records
      /\ After(recs[k], o).state = o.state
      /\ After(recs[k], o).turn = (IF o.state = "started" THEN o.turn ELSE recs[k].turn)
      /\ After(recs[k], o).done = (IF o.state = "turn-ended" THEN o.ok ELSE recs[k].done)
  BY <1>2, <1>3 DEF After, Records, Observations
<1>5. recs' = recs \/ (~Refused(recs[k], o) /\ recs' = [recs EXCEPT ![k] = After(recs[k], o)])
  BY DEF Record
<1> QED  BY <1>2, <1>3, <1>4, <1>5

LEMMA FileStep == ASSUME Types, Held, Dropped, [Next]_vars PROVE FileTypes'
<1> USE DEF FileTypes
<1>0. ASSUME ran' = ran, DOMAIN submitted \subseteq DOMAIN submitted'
      PROVE  \A n \in 1 .. turns' : ran'[n].key # None => ran'[n].key \in DOMAIN submitted'
  BY <1>0 DEF Types, turns
<1>1. CASE UNCHANGED <<recs, submitted, ran>>  BY <1>0, <1>1 DEF Types
<1>2. ASSUME NEW t \in Tasks, Claim(t) PROVE FileTypes'
  <2> DEFINE r == [state |-> "reserved", turn |-> None, done |-> None]
  <2>1. job[t].key \in Keys  BY <1>2 DEF Claim, Types, PluginTypes, Pressing, Lines
  <2>2. r \in Records  BY DEF Records, States
  <2>3. CASE recs' = With(recs, job[t].key, r)
    <3>1. recs' \in [DOMAIN recs \cup {job[t].key} -> Records]
      BY <2>2, <2>3 DEF With, Types
    <3> QED  BY <1>0, <1>2, <2>1, <2>3, <3>1 DEF With, Types, Claim, host
  <2>4. CASE recs' = recs  BY <1>0, <1>2, <2>4 DEF Types, Claim, host
  <2> QED  BY <1>2, <2>3, <2>4 DEF Claim
<1>3. ASSUME NEW t \in Tasks, Admit(t) PROVE FileTypes'
  <2> DEFINE k == job[t].key
  <2>1. CASE recs[k].state = "reserved" /\ recs' = [recs EXCEPT ![k].state = "admitted"]
    <3>1. k \in DOMAIN recs
      BY <1>3 DEF Admit, Types, PluginTypes
    <3>2. [recs[k] EXCEPT !.state = "admitted"] \in Records
      BY <3>1 DEF Types, Records, States
    <3>3. recs' \in [DOMAIN recs -> Records] /\ DOMAIN recs' = DOMAIN recs
      BY <2>1, <3>2 DEF Types
    <3>4. /\ recs'[k].state = "admitted" /\ recs'[k].done = recs[k].done
          /\ \A j \in DOMAIN recs \ {k} : recs'[j] = recs[j]
      BY <2>1, <3>1 DEF Types, Records
    <3> QED  BY <1>0, <1>3, <2>1, <3>1, <3>3, <3>4 DEF Types, Admit, host
  <2>2. CASE recs' = recs  BY <1>0, <1>3, <2>2 DEF Types, Admit, host
  <2> QED  BY <1>3, <2>1, <2>2 DEF Admit
<1>4. ASSUME NEW t \in Tasks, Submit(t) PROVE FileTypes'
  <2>1. job[t].key \in DOMAIN recs  BY <1>4 DEF Submit, Types, PluginTypes
  <2> DEFINE k == job[t].key
             n == IF k \in DOMAIN submitted THEN submitted[k] + 1 ELSE 1
  <2>2. n \in Nat  BY DEF Types
  <2> HIDE DEF n
  <2>3. submitted' = submitted \/ submitted' = With(submitted, k, n)  BY <1>4 DEF Submit, n
  <2>4. /\ DOMAIN submitted \subseteq DOMAIN submitted' /\ DOMAIN submitted' \subseteq DOMAIN recs
        /\ submitted' \in [DOMAIN submitted' -> Nat]
    BY <2>1, <2>2, <2>3 DEF With, Types
  <2> QED  BY <1>0, <1>4, <2>4 DEF Submit, Types
<1>5. ASSUME NEW k \in DOMAIN attempts, Record(k) PROVE FileTypes'
  <2> DEFINE o == Head(attempts[k].outbox)
  <2>1. /\ o \in Observations /\ k \in DOMAIN recs
        /\ recs' \in [DOMAIN recs -> Records] /\ DOMAIN recs' = DOMAIN recs
        /\ \A j \in DOMAIN recs \ {k} : recs'[j] = recs[j]
        /\ \/ recs' = recs
           \/ /\ ~Refused(recs[k], o) /\ recs'[k].state = o.state
              /\ recs'[k].done = (IF o.state = "turn-ended" THEN o.ok ELSE recs[k].done)
    BY <1>5, RecordEffect
  <2>2. recs'[k].state = "turn-ended" <=> recs'[k].done # None
    BY <2>1, ContinuationAssumption DEF Types, Refused, Observations
  <2> QED  BY <1>0, <1>5, <2>1, <2>2 DEF Types, Record, host
<1>6. ASSUME NEW key \in prompts \cup {None}, NEW text \in Texts \cup {None}, StartTurn(key, text)
      PROVE  FileTypes'
  <2>1. /\ UNCHANGED <<recs, submitted>> /\ turns' = turns + 1 /\ ran'[turns + 1].key = key
        /\ \A n \in 1 .. turns : ran'[n].key = ran[n].key
    <3>1. UNCHANGED <<recs, submitted>>  BY <1>6 DEF StartTurn
    <3> QED  BY <1>6, <3>1, StartedTurn
  <2>2. key # None => key \in DOMAIN submitted  BY DEF Dropped
  <2>3. \A n \in 1 .. turns' : n \in 1 .. turns \/ n = turns + 1  BY RanStep
  <2>4. \A n \in 1 .. turns' : ran'[n].key # None => ran'[n].key \in DOMAIN submitted'
    BY <2>1, <2>2, <2>3 DEF Types
  <2> QED  BY <2>1, <2>4 DEF Types
<1>7. ASSUME NEW ok \in BOOLEAN, EndTurn(ok) PROVE FileTypes'
  <2>1. UNCHANGED <<recs, submitted>> /\ turns' = turns  BY <1>7, EndedTurn DEF EndTurn
  <2>2. \A n \in 1 .. turns' : ran'[n].key = ran[n].key  BY <2>1, RanStep
  <2> QED  BY <2>1, <2>2 DEF Types
<1>8. ASSUME NEW t \in Tasks,
             (\E prepare \in BOOLEAN : Act(t, prepare)) \/ Press(t) \/ ActAnswer(t)
             \/ Claimed(t) \/ Checked(t) \/ Admitted(t) \/ Acknowledge(t) \/ Observed(t)
      PROVE  UNCHANGED <<recs, submitted, ran>>
  BY <1>8 DEF Act, Press, ActAnswer, Claimed, Checked, Admitted, Acknowledge, Observed, host
<1>9. CASE OpenPane \/ ClosePane \/ Deliver \/ Reload \/ \E s \in Sessions : Switch(s)
  BY <1>1, <1>9 DEF OpenPane, ClosePane, Deliver, Reload, Switch, host
<1>10. CASE UNCHANGED vars  BY <1>1, <1>10 DEF vars, host
<1> QED
  BY <1>1, <1>2, <1>3, <1>4, <1>5, <1>6, <1>7, <1>8, <1>9, <1>10 DEF Next, Step

LEMMA TypesStep == ASSUME Types, Held, Dropped, [Next]_vars PROVE Types'
  BY HostStep, PluginStep, FileStep DEF Types
-----------------------------------------------------------------------------
(* The plugin is busy with one task of its own, or with none. *)

\* The state of a task of this generation that has ended.
LEMMA OwnedEnds ==
    ASSUME Types, Owned, NEW t \in Tasks, Finish(t), pc[t] # "idle",
           plugin'.gen = plugin.gen, plugin'.busy = (plugin.busy /\ job[t].epoch # plugin.gen)
    PROVE  Owned'
<1>1. /\ pc' \in [Tasks -> Lines] /\ pc'[t] = "idle"
      /\ \A u \in Tasks \ {t} : pc'[u] = pc[u] /\ job'[u] = job[u]
  BY FinishEffect DEF Types
<1>2. \A u \in Tasks : pc'[u] # "idle" => u # t /\ pc[u] # "idle" /\ job'[u].epoch = job[u].epoch
  BY <1>1
<1>3. \A u \in Tasks : Owner(u)' <=> u # t /\ Owner(u)  BY <1>1, <1>2 DEF Owner
<1>4. \A u \in Tasks : pc'[u] # "idle" => job'[u].epoch <= plugin'.gen  BY <1>2 DEF Owned
<1>5. \A u, v \in Tasks : Owner(u)' /\ Owner(v)' => u = v  BY <1>3 DEF Owned
<1>6. plugin'.busy <=> \E u \in Tasks : Owner(u)'
  <2>1. CASE job[t].epoch = plugin.gen
    <3>1. Owner(t)  BY <2>1 DEF Owner
    <3> QED  BY <1>3, <2>1, <3>1 DEF Owned
  <2>2. CASE job[t].epoch # plugin.gen
    <3>1. ~Owner(t)  BY <2>2 DEF Owner
    <3>2. plugin'.busy = plugin.busy  BY <2>2 DEF Types, PluginTypes, Plugins
    <3> QED  BY <1>3, <3>1, <3>2 DEF Owned
  <2> QED  BY <2>1, <2>2
<1> QED  BY <1>4, <1>5, <1>6 DEF Owned

\* Between its first step and its last a task keeps its generation.
LEMMA OwnedGoesOn ==
    ASSUME Owned, NEW t \in Tasks, pc[t] # "idle", pc'[t] # "idle",
           job'[t].epoch = job[t].epoch, plugin'.gen = plugin.gen, plugin'.busy = plugin.busy,
           \A u \in Tasks \ {t} : pc'[u] = pc[u] /\ job'[u].epoch = job[u].epoch
    PROVE  Owned'
  BY DEF Owned, Owner

LEMMA OwnedBegins ==
    ASSUME Owned, Types, NEW t \in Tasks, ~plugin.busy, plugin'.busy, plugin'.gen = plugin.gen,
           pc'[t] # "idle", job'[t].epoch = plugin.gen,
           \A u \in Tasks \ {t} : pc'[u] = pc[u] /\ job'[u] = job[u]
    PROVE  Owned'
<1>1. plugin.gen \in Nat  BY DEF Types, PluginTypes, Plugins
<1> QED  BY <1>1 DEF Owned, Owner

LEMMA OwnedStep == ASSUME Types, Owned, Held, [Next]_vars PROVE Owned'
<1> USE DEF Types
<1>0. plugin \in Plugins /\ plugin.gen \in Nat  BY DEF PluginTypes, Plugins
<1>1. CASE UNCHANGED <<plugin, pc, job>>  BY <1>1 DEF Owned, Owner
<1>2. ASSUME NEW t \in Tasks, NEW prepare \in BOOLEAN, Act(t, prepare) PROVE Owned'
  <2>1. PICK d : Begin(t, "acted", None, d)  BY <1>2 DEF Act
  <2>2. /\ pc'[t] = "acted" /\ job'[t].epoch = plugin.gen
        /\ \A u \in Tasks \ {t} : pc'[u] = pc[u] /\ job'[u] = job[u]
    BY <2>1 DEF Begin, Goto, PluginTypes
  <2>3. plugin'.busy /\ plugin'.gen = plugin.gen /\ ~plugin.busy
    BY <1>0, <1>2 DEF Act, Idle, Plugins
  <2> QED  BY <2>2, <2>3, OwnedBegins
<1>3. ASSUME NEW t \in Tasks, Press(t) PROVE Owned'
  <2>1. plugin'.busy /\ plugin'.gen = plugin.gen /\ ~plugin.busy
    BY <1>0, <1>3 DEF Press, Idle, Plugins
  <2> QED  BY <1>3, <2>1, PressTypes, OwnedBegins
<1>4. ASSUME NEW t \in Tasks, ActAnswer(t) PROVE Owned'
  <2>1. job[t] \in Jobs /\ pc[t] = "acted"  BY <1>4 DEF ActAnswer, PluginTypes
  <2>2. plugin'.gen = plugin.gen /\ plugin'.busy = (plugin.busy /\ job[t].epoch # plugin.gen)
    <3>1. CASE job[t].epoch # plugin.gen  BY <1>4, <3>1, <1>0 DEF ActAnswer, Plugins
    <3>2. CASE job[t].epoch = plugin.gen
      <4>1. PICK d : plugin' = [Ended(t) EXCEPT !.diag = d]  BY <1>4, <3>2 DEF ActAnswer
      <4> QED  BY <2>1, <4>1, EndedTypes
    <3> QED  BY <3>1, <3>2
  <2> QED  BY <1>4, <2>1, <2>2, OwnedEnds DEF ActAnswer
<1>5. ASSUME NEW t \in Tasks, Claimed(t) \/ Observed(t) PROVE Owned'
  <2>1. job[t] \in Jobs /\ pc[t] # "idle"  BY <1>5 DEF Claimed, Observed, PluginTypes
  <2>2. CASE plugin' = Ended(t) /\ Finish(t)  BY <2>1, <2>2, EndedTypes, OwnedEnds
  <2>3. CASE Claimed(t) /\ job[t].ans # "none"
    <3>1. /\ pc'[t] # "idle" /\ job'[t].epoch = job[t].epoch
          /\ \A u \in Tasks \ {t} : pc'[u] = pc[u] /\ job'[u] = job[u]
      BY <2>3, ClaimedTypes
    <3>2. plugin' = plugin  BY <2>3 DEF Claimed
    <3> QED  BY <2>1, <3>1, <3>2, OwnedGoesOn
  <2> QED  BY <1>5, <2>2, <2>3 DEF Claimed, Observed
<1>6. ASSUME NEW t \in Tasks, Claim(t) \/ Admit(t) \/ Admitted(t) PROVE Owned'
  <2>1. pc[t] # "idle" /\ plugin' = plugin  BY <1>6 DEF Claim, Admit, Admitted
  <2> QED  BY <1>6, <2>1, ClaimTypes, AdmitTypes, AdmittedTypes, OwnedGoesOn
<1>7. ASSUME NEW t \in Tasks, Submit(t) \/ Acknowledge(t) PROVE Owned'
  <2>1. pc[t] # "idle" /\ plugin' = plugin /\ job' = job  BY <1>7 DEF Submit, Acknowledge
  <2> QED  BY <1>7, <2>1, SubmitTypes, AcknowledgeTypes, OwnedGoesOn
<1>16. ASSUME NEW t \in Tasks, Checked(t) PROVE Owned'
  <2>1. pc[t] # "idle"  BY <1>16 DEF Checked
  <2>2. plugin'.gen = plugin.gen /\ plugin'.busy = plugin.busy
    BY <1>0, <1>16, CheckedTypes DEF Plugins
  <2> QED  BY <1>16, <2>1, <2>2, CheckedTypes, OwnedGoesOn
<1>8. CASE OpenPane \/ ClosePane
  <2>1. plugin'.gen = plugin.gen /\ plugin'.busy = plugin.busy /\ UNCHANGED <<pc, job>>
    BY <1>0, <1>8 DEF OpenPane, ClosePane, Plugins
  <2> QED  BY <2>1 DEF Owned, Owner
<1>9. CASE Deliver
  <2>1. UNCHANGED <<pc, job>>  BY <1>9 DEF Deliver
  <2>2. CASE plugin' = Reset
    <3>1. plugin'.gen = plugin.gen + 1 /\ ~plugin'.busy  BY <1>0, <2>2, ResetTypes
    <3>2. \A t \in Tasks : pc[t] # "idle" => job[t].epoch \in Nat  BY DEF PluginTypes, Jobs
    <3> QED  BY <1>0, <2>1, <3>1, <3>2 DEF Owned, Owner
  <2>3. CASE plugin'.gen = plugin.gen /\ plugin'.busy = plugin.busy
    BY <2>1, <2>3 DEF Owned, Owner
  <2>4. plugin' = Reset \/ (plugin'.gen = plugin.gen /\ plugin'.busy = plugin.busy)
    BY <1>0, <1>9, DeliverEffect DEF Plugins
  <2> QED  BY <2>2, <2>3, <2>4
<1>10. CASE Reload
  <2>1. ~plugin'.busy /\ \A t \in Tasks : pc'[t] = "idle"  BY <1>0, <1>10, ResetTypes DEF Reload
  <2> QED  BY <2>1 DEF Owned, Owner
<1>11. CASE \E k \in DOMAIN attempts : Record(k)  BY <1>1, <1>11 DEF Record
<1>12. CASE \E key \in prompts \cup {None}, text \in Texts \cup {None} : StartTurn(key, text)
  BY <1>1, <1>12 DEF StartTurn
<1>13. CASE \E ok \in BOOLEAN : EndTurn(ok)  BY <1>1, <1>13 DEF EndTurn
<1>14. CASE \E s \in Sessions : Switch(s)  BY <1>1, <1>14 DEF Switch
<1>15. CASE UNCHANGED vars  BY <1>1, <1>15 DEF vars
<1> QED
  BY <1>2, <1>3, <1>4, <1>5, <1>6, <1>7, <1>8, <1>9, <1>10, <1>11, <1>12, <1>13, <1>14, <1>15,
     <1>16 DEF Next, Step
-----------------------------------------------------------------------------
(* Who has the prompt of a reservation. *)

Ready(t) == pc[t] = "submit" \/ (pc[t] = "admitted" /\ job[t].ans = "yes")

\* A step that hands nobody a prompt and submits none.
LEMMA HeldKeeps ==
    ASSUME Types, Held, submitted' = submitted, DOMAIN recs \subseteq DOMAIN recs',
           \A t \in Tasks, k \in Keys : Holder(t, k)' => Holder(t, k),
           \A k \in DOMAIN recs : recs[k].state # "reserved" => recs'[k].state # "reserved",
           \A t \in Tasks : Ready(t)' => recs'[job'[t].key].state # "reserved",
           \A t \in Tasks : pc'[t] = "submitted" => job'[t].key \in DOMAIN submitted
    PROVE  Held'
  BY DEF Held, Types, FileTypes, Ready

\* A task that does not step has what it had.
LEMMA SameTask ==
    ASSUME NEW u \in Tasks, pc'[u] = pc[u], job'[u] = job[u]
    PROVE  /\ Ready(u)' = Ready(u) /\ (pc'[u] = "submitted") = (pc[u] = "submitted")
           /\ \A k \in Keys : Holder(u, k)' = Holder(u, k)
  BY DEF Ready, Holder

\* A step of t that leaves the files alone and after which t has not more than before.
LEMMA HeldByOne ==
    ASSUME Types, Held, UNCHANGED <<recs, submitted>>, NEW t \in Tasks,
           \A u \in Tasks \ {t} : pc'[u] = pc[u] /\ job'[u] = job[u],
           \A k \in Keys : Holder(t, k)' => Holder(t, k),
           Ready(t)' => Ready(t) /\ job'[t].key = job[t].key,
           pc'[t] # "submitted"
    PROVE  Held'
<1>1. \A u \in Tasks, k \in Keys : Holder(u, k)' => Holder(u, k)
  <2> TAKE u \in Tasks, k \in Keys
  <2>1. CASE u = t  BY <2>1
  <2>2. CASE u # t  BY <2>2, SameTask
  <2> QED  BY <2>1, <2>2
<1>2. \A u \in Tasks : Ready(u)' => recs'[job'[u].key].state # "reserved"
  <2> TAKE u \in Tasks
  <2>1. CASE u = t  BY <2>1 DEF Held, Ready
  <2>2. CASE u # t  BY <2>2, SameTask DEF Held, Ready
  <2> QED  BY <2>1, <2>2
<1>3. \A u \in Tasks : pc'[u] = "submitted" => job'[u].key \in DOMAIN submitted
  <2> TAKE u \in Tasks
  <2>1. CASE u = t  BY <2>1
  <2>2. CASE u # t  BY <2>2 DEF Held
  <2> QED  BY <2>1, <2>2
<1> QED  BY <1>1, <1>2, <1>3, HeldKeeps

LEMMA HeldClaim == ASSUME Types, Held, NEW t \in Tasks, Claim(t) PROVE Held'
<1> DEFINE k == job[t].key
           r == [state |-> "reserved", turn |-> None, done |-> None]
<1>1. /\ pc'[t] = "claimed" /\ job'[t].key = k /\ PluginTypes'
      /\ \A u \in Tasks \ {t} : pc'[u] = pc[u] /\ job'[u] = job[u]
  BY ClaimTypes
<1>2. job[t] \in Jobs /\ k \in Keys /\ pc[t] = "claim"
  BY DEF Claim, Types, PluginTypes, Pressing, Lines
<1>3. CASE k \notin DOMAIN recs /\ recs' = With(recs, k, r)
  <2>1. /\ DOMAIN recs' = DOMAIN recs \cup {k}
        /\ \A j \in DOMAIN recs : recs'[j] = recs[j]
    BY <1>3 DEF With
  <2>2. \A u \in Tasks : ~Holder(u, k)  BY <1>2, <1>3 DEF Held
  <2>3. k \notin DOMAIN submitted /\ submitted' = submitted
    BY <1>3 DEF Types, FileTypes, Claim
  <2>4. \A u \in Tasks, j \in Keys : Holder(u, j)' => IF u = t THEN j = k ELSE Holder(u, j)
    <3> TAKE u \in Tasks, j \in Keys
    <3>1. CASE u = t  BY <1>1, <3>1 DEF Holder
    <3>2. CASE u # t  BY <1>1, <3>2, SameTask
    <3> QED  BY <3>1, <3>2
  <2>5. \A u \in Tasks, j \in Keys : Holder(u, j)' => j \in DOMAIN recs' \ DOMAIN submitted'
    BY <2>1, <2>3, <2>4 DEF Held
  <2>6. \A u, v \in Tasks, j \in Keys : Holder(u, j)' /\ Holder(v, j)' => u = v
    BY <1>2, <2>2, <2>4 DEF Held
  <2>7. \A u \in Tasks : (Ready(u)' => u # t /\ Ready(u)) /\ (pc'[u] = "submitted" => u # t /\ pc[u] = "submitted")
    <3> TAKE u \in Tasks
    <3>1. CASE u = t  BY <1>1, <3>1 DEF Ready
    <3>2. CASE u # t  BY <1>1, <3>2, SameTask
    <3> QED  BY <3>1, <3>2
  <2>8. \A u \in Tasks : Ready(u) => Holder(u, job[u].key) /\ job[u].key \in Keys
    BY DEF Ready, Holder, Types, PluginTypes, Pressing, Lines
  <2>9. \A u \in Tasks : Ready(u)' => recs'[job'[u].key].state # "reserved"
    <3> TAKE u \in Tasks
    <3> HAVE Ready(u)'
    <3>1. u # t /\ Ready(u) /\ job'[u].key = job[u].key  BY <1>1, <2>7
    <3>2. job[u].key \in DOMAIN recs /\ recs[job[u].key].state # "reserved"
      BY <2>8, <3>1 DEF Held, Ready
    <3> QED  BY <2>1, <3>1, <3>2
  <2>10. \A u \in Tasks : pc'[u] = "submitted" => job'[u].key \in DOMAIN submitted'
    BY <1>1, <2>3, <2>7 DEF Held
  <2>11. \A j \in DOMAIN submitted' : submitted'[j] = 1 /\ recs'[j].state # "reserved"
    BY <2>1, <2>3 DEF Held, Types, FileTypes
  <2> QED  BY <2>5, <2>6, <2>9, <2>10, <2>11 DEF Held, Ready
<1>4. CASE recs' = recs /\ job'[t].ans = "none"
  BY <1>1, <1>2, <1>4, HeldByOne DEF Claim, Holder, Ready
<1>5. \/ (k \notin DOMAIN recs /\ recs' = With(recs, k, r))
      \/ (recs' = recs /\ job' = [job EXCEPT ![t].ans = "none"])
  BY DEF Claim, Claimable
<1>6. job' = [job EXCEPT ![t].ans = "none"] => job'[t].ans = "none"
  BY <1>2 DEF Types, PluginTypes, Jobs
<1> QED  BY <1>3, <1>4, <1>5, <1>6

LEMMA HeldAdmit == ASSUME Types, Held, NEW t \in Tasks, Admit(t) PROVE Held'
<1> DEFINE k == job[t].key
<1>1. /\ pc'[t] = "admitted" /\ job'[t].key = k /\ DOMAIN recs' = DOMAIN recs
      /\ \A u \in Tasks \ {t} : pc'[u] = pc[u] /\ job'[u] = job[u]
  BY AdmitTypes
<1>2. job[t] \in Jobs /\ k \in Keys /\ pc[t] = "admit" /\ k \in DOMAIN recs
  BY DEF Admit, Types, PluginTypes, Pressing, Lines
<1>3. recs[k] \in Records  BY <1>2 DEF Types, FileTypes
<1>4. /\ \A j \in DOMAIN recs \ {k} : recs'[j] = recs[j]
      /\ recs'[k].state \in {recs[k].state, "admitted"}
      /\ job'[t].ans = "yes" => recs'[k].state = "admitted"
  <2>1. CASE recs' = recs /\ job' \in {[job EXCEPT ![t].ans = "no"], [job EXCEPT ![t].ans = "error"]}
    <3>1. job'[t].ans # "yes"  BY <1>2, <2>1 DEF Types, PluginTypes, Jobs
    <3> QED  BY <2>1, <3>1
  <2>2. CASE recs' = [recs EXCEPT ![k].state = "admitted"]
    BY <1>2, <1>3, <2>2 DEF Types, FileTypes, Records
  <2> QED  BY <2>1, <2>2 DEF Admit
<1>5. \A u \in Tasks, j \in Keys : Holder(u, j)' => Holder(u, j)
  <2> TAKE u \in Tasks, j \in Keys
  <2>1. CASE u = t  BY <1>1, <1>2, <2>1 DEF Holder
  <2>2. CASE u # t  BY <1>1, <2>2, SameTask
  <2> QED  BY <2>1, <2>2
<1>6. \A j \in DOMAIN recs : recs[j].state # "reserved" => recs'[j].state # "reserved"
  BY <1>4
<1>7. \A u \in Tasks : Ready(u)' => recs'[job'[u].key].state # "reserved"
  <2> TAKE u \in Tasks
  <2> HAVE Ready(u)'
  <2>1. CASE u = t  BY <1>1, <1>4, <2>1 DEF Ready
  <2>2. CASE u # t
    <3>1. Ready(u) /\ job'[u].key = job[u].key  BY <1>1, <2>2, SameTask
    <3>2. job[u].key \in DOMAIN recs /\ recs[job[u].key].state # "reserved"
      BY <3>1 DEF Held, Ready, Types, PluginTypes
    <3> QED  BY <1>6, <3>1, <3>2
  <2> QED  BY <2>1, <2>2
<1>8. \A u \in Tasks : pc'[u] = "submitted" => job'[u].key \in DOMAIN submitted
  BY <1>1 DEF Held
<1> QED  BY <1>1, <1>5, <1>6, <1>7, <1>8, HeldKeeps DEF Admit

LEMMA HeldSubmit == ASSUME Types, Held, NEW t \in Tasks, Submit(t) PROVE Held'
<1> DEFINE k == job[t].key
<1>1. /\ job' = job /\ recs' = recs /\ pc'[t] \in {"submitted", "observing"}
      /\ \A u \in Tasks \ {t} : pc'[u] = pc[u]
  BY SubmitTypes DEF Submit
<1>2. pc[t] = "submit" /\ k \in Keys  BY DEF Submit, Types, PluginTypes, Pressing, Lines
<1>3. Holder(t, k)  BY <1>2 DEF Holder
<1>4. k \in DOMAIN recs /\ k \notin DOMAIN submitted /\ recs[k].state # "reserved"
  BY <1>2, <1>3 DEF Held
<1>5. \A u \in Tasks, j \in Keys : Holder(u, j)' => Holder(u, j) /\ u # t
  BY <1>1 DEF Holder
<1>6. \A u \in Tasks, j \in Keys : Holder(u, j)' => j # k
  BY <1>2, <1>3, <1>5 DEF Held
<1>7. \A u \in Tasks : Ready(u)' => Ready(u)  BY <1>1 DEF Ready
<1>8. CASE pc'[t] = "observing" /\ submitted' = submitted
  <2>1. \A u \in Tasks : pc'[u] = "submitted" => pc[u] = "submitted"  BY <1>1, <1>8
  <2> QED  BY <1>1, <1>5, <1>7, <1>8, <2>1, HeldKeeps DEF Held, Ready
<1>9. CASE submitted' = With(submitted, k, 1)
  <2>1. DOMAIN submitted' = DOMAIN submitted \cup {k}  BY <1>9 DEF With
  <2>2. \A j \in DOMAIN submitted' : submitted'[j] = 1 /\ recs'[j].state # "reserved"
    BY <1>1, <1>4, <1>9 DEF With, Held
  <2>3. \A u \in Tasks : pc'[u] = "submitted" => job'[u].key \in DOMAIN submitted'
    BY <1>1, <2>1 DEF Held
  <2>4. \A u \in Tasks : Ready(u)' => recs'[job'[u].key].state # "reserved"
    BY <1>1, <1>7 DEF Held, Ready
  <2>5. \A u \in Tasks, j \in Keys : Holder(u, j)' => j \in DOMAIN recs' \ DOMAIN submitted'
    BY <1>1, <1>5, <1>6, <2>1 DEF Held
  <2>6. \A u, v \in Tasks, j \in Keys : Holder(u, j)' /\ Holder(v, j)' => u = v
    BY <1>5 DEF Held
  <2> QED  BY <2>2, <2>3, <2>4, <2>5, <2>6 DEF Held, Ready
<1>10. \/ (Goto(t, "observing") /\ submitted' = submitted)
       \/ submitted' = With(submitted, k, 1)
  BY <1>4 DEF Submit
<1>11. Goto(t, "observing") => pc'[t] = "observing"  BY GotoEffect DEF Types, Lines
<1> QED  BY <1>8, <1>9, <1>10, <1>11

LEMMA HeldStep == ASSUME Types, Held, [Next]_vars PROVE Held'
<1>1. CASE UNCHANGED <<pc, job, recs, submitted>>  BY <1>1 DEF Held, Holder
<1>2. ASSUME NEW t \in Tasks, NEW prepare \in BOOLEAN, Act(t, prepare) PROVE Held'
  <2>1. PICK d : Begin(t, "acted", None, d)  BY <1>2 DEF Act
  <2>2. /\ pc'[t] = "acted" /\ \A u \in Tasks \ {t} : pc'[u] = pc[u] /\ job'[u] = job[u]
    BY <2>1 DEF Begin, Goto, Types, PluginTypes
  <2> QED  BY <1>2, <2>2, HeldByOne DEF Act, Holder, Ready
<1>3. ASSUME NEW t \in Tasks, Press(t) PROVE Held'
  BY <1>3, PressTypes, HeldByOne DEF Press, Holder, Ready
<1>4. ASSUME NEW t \in Tasks, ActAnswer(t) \/ Observed(t) PROVE Held'
  <2>1. Finish(t) /\ UNCHANGED <<recs, submitted>>  BY <1>4 DEF ActAnswer, Observed
  <2> QED  BY <2>1, FinishEffect, HeldByOne DEF Types, Holder, Ready
<1>5. ASSUME NEW t \in Tasks, Claimed(t) PROVE Held'
  <2>1. pc[t] = "claimed" /\ UNCHANGED <<recs, submitted>>  BY <1>5 DEF Claimed
  <2>2. CASE job[t].ans = "none"
    <3>1. Finish(t)  BY <1>5, <2>2 DEF Claimed
    <3> QED  BY <2>1, <3>1, FinishEffect, HeldByOne DEF Types, Holder, Ready
  <2>3. CASE job[t].ans # "none"
    <3>1. /\ pc'[t] = "checked" /\ job'[t].key = job[t].key
          /\ \A u \in Tasks \ {t} : pc'[u] = pc[u] /\ job'[u] = job[u]
      BY <1>5, <2>3, ClaimedTypes
    <3>2. job[t].ans = "prompt"  BY <2>1, <2>3 DEF Types, PluginTypes
    <3>3. \A k \in Keys : Holder(t, k)' => Holder(t, k)  BY <2>1, <3>1, <3>2 DEF Holder
    <3> QED  BY <2>1, <3>1, <3>3, HeldByOne DEF Ready
  <2> QED  BY <2>2, <2>3
<1>19. ASSUME NEW t \in Tasks, Checked(t) PROVE Held'
  <2>1. pc[t] = "checked" /\ UNCHANGED <<recs, submitted>>  BY <1>19 DEF Checked
  <2>2. /\ pc'[t] \in {"admit", "observing"} /\ job' = job
        /\ \A u \in Tasks \ {t} : pc'[u] = pc[u]
    BY <1>19, CheckedTypes
  <2>3. \A k \in Keys : Holder(t, k)' => Holder(t, k)  BY <2>1, <2>2 DEF Holder
  <2> QED  BY <2>1, <2>2, <2>3, HeldByOne DEF Ready
<1>6. ASSUME NEW t \in Tasks, Admitted(t) PROVE Held'
  <2>1. pc[t] = "admitted" /\ UNCHANGED <<recs, submitted>>  BY <1>6 DEF Admitted
  <2>2. /\ pc'[t] \in {"submit", "observing"} /\ job'[t].key = job[t].key
        /\ \A u \in Tasks \ {t} : pc'[u] = pc[u] /\ job'[u] = job[u]
    BY <1>6, AdmittedTypes
  <2>3. \A k \in Keys : Holder(t, k)' => Holder(t, k)  BY <2>1, <2>2 DEF Holder
  <2>4. Ready(t)' => job[t].ans = "yes"
    <3>1. job[t].ans # "yes" => Goto(t, "observing")  BY <1>6 DEF Admitted
    <3> QED  BY <3>1, GotoEffect DEF Ready, Types, Lines
  <2> QED  BY <2>1, <2>2, <2>3, <2>4, HeldByOne DEF Ready
<1>7. ASSUME NEW t \in Tasks, Acknowledge(t) PROVE Held'
  <2>1. job' = job /\ UNCHANGED <<recs, submitted>>  BY <1>7 DEF Acknowledge
  <2> QED  BY <1>7, <2>1, AcknowledgeTypes, HeldByOne DEF Holder, Ready
<1>8. ASSUME NEW k \in DOMAIN attempts, Record(k) PROVE Held'
  <2> DEFINE o == Head(attempts[k].outbox)
  <2>1. /\ o \in Observations /\ DOMAIN recs' = DOMAIN recs
        /\ \A j \in DOMAIN recs \ {k} : recs'[j] = recs[j]
        /\ recs' = recs \/ recs'[k].state = o.state
    BY <1>8, RecordEffect
  <2>2. \A j \in DOMAIN recs : recs[j].state # "reserved" => recs'[j].state # "reserved"
    BY <2>1 DEF Observations
  <2>3. UNCHANGED <<pc, job, submitted>>  BY <1>8 DEF Record
  <2>4. \A t \in Tasks : Ready(t) => job[t].key \in DOMAIN recs
    BY DEF Ready, Types, PluginTypes
  <2> QED  BY <2>1, <2>2, <2>3, <2>4, HeldKeeps DEF Held, Holder, Ready
<1>9. CASE Reload
  <2>1. UNCHANGED <<recs, submitted>> /\ \A t \in Tasks : pc'[t] = "idle"  BY <1>9 DEF Reload
  <2> QED  BY <2>1, HeldKeeps DEF Held, Holder, Ready
<1>10. CASE OpenPane \/ ClosePane \/ Deliver
  BY <1>1, <1>10 DEF OpenPane, ClosePane, Deliver
<1>11. CASE \E key \in prompts \cup {None}, text \in Texts \cup {None} : StartTurn(key, text)
  BY <1>1, <1>11 DEF StartTurn
<1>12. CASE \E ok \in BOOLEAN : EndTurn(ok)  BY <1>1, <1>12 DEF EndTurn
<1>13. CASE \E s \in Sessions : Switch(s)  BY <1>1, <1>13 DEF Switch
<1>14. CASE UNCHANGED vars  BY <1>1, <1>14 DEF vars
<1> QED
  BY <1>2, <1>3, <1>4, <1>5, <1>6, <1>7, <1>8, <1>9, <1>10, <1>11, <1>12, <1>13, <1>14, <1>19,
     HeldClaim, HeldAdmit, HeldSubmit DEF Next, Step
-----------------------------------------------------------------------------
(* What was dropped stays so. *)

\* What a task told an attempt.
LEMMA ObserveTold ==
    ASSUME NEW k \in DOMAIN attempts, NEW o, attempts \in [DOMAIN attempts -> Attempts],
           o \in Observations, attempts' = Observe(attempts, k, o)
    PROVE  /\ DOMAIN attempts' = DOMAIN attempts /\ Told(k)' = Told(k) \cup {o}
           /\ attempts'[k].turn = attempts[k].turn
           /\ \A j \in DOMAIN attempts \ {k} : Told(j)' = Told(j) /\ attempts'[j] = attempts[j]
<1>1. attempts[k].outbox \in Seq(Observations)  BY DEF Attempts
<1>2. /\ attempts'[k].outbox = Append(attempts[k].outbox, o) /\ DOMAIN attempts' = DOMAIN attempts
      /\ attempts'[k].turn = attempts[k].turn
      /\ \A j \in DOMAIN attempts \ {k} : attempts'[j] = attempts[j]
  BY ObserveEffect
<1>3. Told(k)' = Told(k) \cup {o}
  <2> DEFINE q == attempts[k].outbox
             r == Append(q, o)
  <2>1. /\ Len(q) \in Nat /\ Len(r) = Len(q) + 1 /\ r[Len(q) + 1] = o
        /\ \A i \in 1 .. Len(q) : r[i] = q[i]
    BY <1>1, AppendTypes
  <2>2. 1 .. Len(r) = (1 .. Len(q)) \cup {Len(q) + 1}  BY <2>1
  <2> HIDE DEF r
  <2>3. {r[i] : i \in 1 .. Len(r)} = {q[i] : i \in 1 .. Len(q)} \cup {o}  BY <2>1, <2>2
  <2> QED  BY <1>2, <2>3 DEF Told, r
<1> QED  BY <1>2, <1>3 DEF Told

\* Nobody gets a prompt but by the claim that makes its reservation.
LEMMA HolderStep ==
    ASSUME Types, Held, [Next]_vars, NEW t \in Tasks, NEW k \in Keys, Holder(t, k)'
    PROVE  Holder(t, k) \/ k \notin DOMAIN recs
<1> DEFINE Unmoved == pc'[t] = pc[t] /\ job'[t] = job[t]
<1>1. CASE Unmoved  BY <1>1, SameTask
<1>2. ASSUME NEW u \in Tasks, (\E prepare \in BOOLEAN : Act(u, prepare)) \/ Press(u)
      PROVE  Unmoved
  <2>1. CASE u = t
    <3>1. PICK l \in {"acted", "claim"} : Goto(t, l)  BY <1>2, <2>1 DEF Act, Press, Begin
    <3> QED  BY <3>1, GotoEffect DEF Holder, Types, Lines
  <2>2. CASE u # t  BY <1>2, <2>2 DEF Act, Press, Begin, Goto, Types, PluginTypes
  <2> QED  BY <2>1, <2>2
<1>3. ASSUME NEW u \in Tasks, ActAnswer(u) \/ Observed(u) PROVE Unmoved
  <2>1. Finish(u)  BY <1>3 DEF ActAnswer, Observed
  <2> QED  BY <2>1, FinishEffect DEF Holder, Types
<1>4. ASSUME NEW u \in Tasks, Claim(u) PROVE Unmoved \/ k \notin DOMAIN recs
  <2>1. CASE u = t
    <3>1. /\ pc'[t] = "claimed" /\ job'[t].key = job[t].key  BY <1>4, <2>1, ClaimTypes
    <3>2. job'[t].ans = "prompt" /\ job[t].key = k  BY <3>1 DEF Holder
    <3>3. job[t] \in Jobs  BY <1>4, <2>1 DEF Claim, Types, PluginTypes
    <3>4. job' # [job EXCEPT ![t].ans = "none"]  BY <3>2, <3>3 DEF Types, PluginTypes, Jobs
    <3> QED  BY <1>4, <2>1, <3>2, <3>4 DEF Claim, Claimable
  <2>2. CASE u # t  BY <1>4, <2>2, ClaimTypes
  <2> QED  BY <2>1, <2>2
<1>5. ASSUME NEW u \in Tasks, Claimed(u) PROVE Unmoved \/ Holder(t, k)
  <2>1. pc[u] = "claimed"  BY <1>5 DEF Claimed
  <2>2. CASE Finish(u)  BY <2>2, FinishEffect DEF Holder, Types
  <2>3. CASE job[u].ans # "none"
    <3>1. /\ pc'[u] = "checked" /\ job'[u].key = job[u].key
          /\ \A v \in Tasks \ {u} : pc'[v] = pc[v] /\ job'[v] = job[v]
      BY <1>5, <2>3, ClaimedTypes
    <3>2. job[u].ans = "prompt"  BY <2>1, <2>3 DEF Types, PluginTypes
    <3> QED  BY <2>1, <3>1, <3>2 DEF Holder
  <2> QED  BY <1>5, <2>2, <2>3 DEF Claimed
<1>10. ASSUME NEW u \in Tasks, Checked(u) PROVE Unmoved \/ Holder(t, k)
  <2>1. pc[u] = "checked"  BY <1>10 DEF Checked
  <2>2. job' = job /\ \A v \in Tasks \ {u} : pc'[v] = pc[v]  BY <1>10, CheckedTypes
  <2> QED  BY <2>1, <2>2 DEF Holder
<1>6. ASSUME NEW u \in Tasks, Admit(u) \/ Admitted(u) PROVE Unmoved \/ Holder(t, k)
  <2>1. /\ pc[u] \in {"admit", "admitted"} /\ job'[u].key = job[u].key
        /\ \A v \in Tasks \ {u} : pc'[v] = pc[v] /\ job'[v] = job[v]
    BY <1>6, AdmitTypes, AdmittedTypes DEF Admit, Admitted
  <2> QED  BY <2>1 DEF Holder
<1>7. ASSUME NEW u \in Tasks, Submit(u) \/ Acknowledge(u) PROVE Unmoved
  <2>1. /\ job' = job /\ pc'[u] \in {"submitted", "observing"}
        /\ \A v \in Tasks \ {u} : pc'[v] = pc[v]
    BY <1>7, SubmitTypes, AcknowledgeTypes DEF Submit, Acknowledge
  <2> QED  BY <2>1 DEF Holder
<1>8. ~Reload  BY DEF Reload, Holder
<1>9. CASE UNCHANGED <<pc, job>>  BY <1>9, <1>1
<1> QED
  BY <1>1, <1>2, <1>3, <1>4, <1>5, <1>6, <1>7, <1>8, <1>9, <1>10
  DEF Next, Step, Record, OpenPane, ClosePane, Deliver, StartTurn, EndTurn, Switch, vars

\* A prompt that is Gone comes back with no step: the one who may submit it is no more.
LEMMA GoneStays ==
    ASSUME Types, Held, Dropped, [Next]_vars, NEW k \in DOMAIN recs, Gone(k)
    PROVE  Gone(k)'
<1>1. k \in Keys  BY DEF Types, FileTypes
<1>2. prompts' \subseteq prompts \cup {j \in Keys : \E t \in Tasks : Holder(t, j)}
  <2>1. ASSUME NEW t \in Tasks, Submit(t) PROVE Holder(t, job[t].key) /\ job[t].key \in Keys
    BY <2>1 DEF Submit, Holder, Types, PluginTypes, Pressing, Lines
  <2>2. ASSUME NEW t \in Tasks, Submit(t) PROVE prompts' \subseteq prompts \cup {job[t].key}
    BY <2>2 DEF Submit
  <2>3. (\E t \in Tasks : Submit(t)) \/ prompts' \subseteq prompts
    BY DEF Next, Step, Act, ActAnswer, Press, Claim, Claimed, Checked, Admit, Admitted, Acknowledge,
       Observed, Record, OpenPane, ClosePane, Deliver, Reload, StartTurn, EndTurn, Switch, vars, host
  <2> QED  BY <2>1, <2>2, <2>3
<1>3. ~Ran(k)'  BY <1>1, RanGrows DEF Gone
<1>4. \A t \in Tasks : ~Holder(t, k)'
  BY <1>1, HolderStep DEF Gone
<1> QED  BY <1>1, <1>2, <1>3, <1>4 DEF Gone
\* How an attempt comes to an observation, and to the turn it is about.
Learned(k, o) ==
    \/ k \in DOMAIN attempts /\ o \in Told(k) /\ attempts[k].turn \in {None, attempts'[k].turn}
    \/ o.state \notin {"dropped", "started", "turn-ended"}
    \/ o.state = "dropped" /\ Gone(k)'
    \/ o.state = "started" /\ o.turn # None /\ o.turn = attempts'[k].turn
    \/ /\ o.state = "turn-ended" /\ k \in DOMAIN attempts /\ attempts'[k].turn = attempts[k].turn
       /\ \E e \in Upcoming : /\ e.type = "end" /\ e.id = attempts[k].turn /\ e.id # None
                              /\ o.turn = e.id /\ o.ok = e.ok
Matched(k) ==
    \/ k \in DOMAIN attempts /\ attempts'[k].turn = attempts[k].turn
    \/ attempts'[k].turn = None
    \/ /\ k = plugin.attempt /\ k \in DOMAIN attempts /\ attempts[k].turn = None
       /\ events \in Seq(Events) /\ events # <<>> /\ events' = Tail(events)
       /\ Head(events).type = "start" /\ Head(events).id = attempts'[k].turn
       /\ ran[attempts'[k].turn].text = Text[k] /\ UNCHANGED <<ran, recs>>

\* One more observation, and nothing else.
LEMMA LearnedOne ==
    ASSUME Types, NEW k \in DOMAIN attempts, NEW o \in Observations,
           attempts' = Observe(attempts, k, o), Learned(k, o)
    PROVE  \A j \in DOMAIN attempts' : Matched(j) /\ \A p \in Told(j)' : Learned(j, p)
  BY ObserveTold DEF Learned, Matched, Types, PluginTypes

LEMMA LearnedClaimed ==
    ASSUME Types, NEW t \in Tasks, Claimed(t)
    PROVE  \A j \in DOMAIN attempts' : Matched(j) /\ \A p \in Told(j)' : Learned(j, p)
<1>0. PICK k : k = job[t].key  OBVIOUS
<1>1. job[t] \in Jobs  BY DEF Claimed, Types, PluginTypes
<1>2. CASE attempts' = attempts  BY <1>2 DEF Learned, Matched, Told
<1>3. CASE attempts' = With(attempts, k, Attempt(t))
  <2>1. /\ DOMAIN attempts' = DOMAIN attempts \cup {k}
        /\ attempts'[k].turn = None /\ attempts'[k].outbox = <<>>
        /\ \A j \in DOMAIN attempts \ {k} : attempts'[j] = attempts[j]
    BY <1>0, <1>1, <1>3, NewAttempt
  <2>2. Told(k)' = {}
    <3>1. Told(k)' = {attempts'[k].outbox[i] : i \in 1 .. Len(attempts'[k].outbox)}  BY DEF Told
    <3>2. Len(<<>>) = 0  OBVIOUS
    <3>3. 1 .. Len(attempts'[k].outbox) = {}  BY <2>1, <3>2
    <3> QED  BY <3>1, <3>3
  <2>3. \A j \in DOMAIN attempts' \ {k} : Told(j)' = Told(j)  BY <2>1 DEF Told
  <2> QED  BY <2>1, <2>2, <2>3 DEF Learned, Matched
<1> QED  BY <1>0, <1>2, <1>3 DEF Claimed

LEMMA LearnedChecked ==
    ASSUME Types, NEW t \in Tasks, Checked(t)
    PROVE  \A j \in DOMAIN attempts' : Matched(j) /\ \A p \in Told(j)' : Learned(j, p)
<1>0. PICK k : k = job[t].key  OBVIOUS
<1> DEFINE o == Observation("outcome-unknown", None, FALSE)
<1>1. k \in DOMAIN attempts  BY <1>0 DEF Checked, Types, PluginTypes
<1>2. CASE attempts' = attempts  BY <1>2 DEF Learned, Matched, Told
<1>3. CASE attempts' = Observe(attempts, k, o)
  <2>1. o \in Observations /\ o.state = "outcome-unknown"  BY ObservationTypes DEF States
  <2>2. Learned(k, o)  BY <2>1 DEF Learned
  <2> HIDE DEF o
  <2> QED  BY <1>1, <1>3, <2>1, <2>2, LearnedOne
<1> QED  BY <1>0, <1>2, <1>3 DEF Checked

LEMMA LearnedAdmitted ==
    ASSUME Types, Held, Dropped, NEW t \in Tasks, Admitted(t)
    PROVE  \A j \in DOMAIN attempts' : Matched(j) /\ \A p \in Told(j)' : Learned(j, p)
<1>0. PICK k : k = job[t].key  OBVIOUS
<1>1. pc[t] = "admitted" /\ k \in DOMAIN attempts /\ k \in Keys /\ Holder(t, k)
  BY <1>0 DEF Admitted, Holder, Types, PluginTypes, Pressing, Lines
<1>2. CASE attempts' = attempts  BY <1>2 DEF Learned, Matched, Told
<1>3. CASE job[t].ans # "yes"
  <2>1. PICK s \in {"outcome-unknown", "dropped"} :
            attempts' = Observe(attempts, k, Observation(s, None, FALSE))
    BY <1>0, <1>3 DEF Admitted
  <2>2. /\ Observation(s, None, FALSE) \in Observations
        /\ Observation(s, None, FALSE).state = s
    BY ObservationTypes DEF States
  <2>3. Gone(k)'
    <3>1. k \notin prompts /\ ~Ran(k)
      <4>1. k \notin DOMAIN submitted  BY <1>1 DEF Held
      <4>2. k # None  BY <1>1, ContinuationAssumption
      <4>3. DOMAIN ran = 1 .. turns  BY DEF turns, Types, HostTypes
      <4> QED  BY <4>1, <4>2, <4>3 DEF Dropped, Ran, Types, FileTypes
    <3>2. Goto(t, "observing") /\ UNCHANGED <<prompts, ran, job>>
      BY <1>3 DEF Admitted, host
    <3>3. pc'[t] = "observing" /\ \A u \in Tasks \ {t} : pc'[u] = pc[u]
      BY <3>2, GotoEffect DEF Types, Lines
    <3>4. \A u \in Tasks : ~Holder(u, k)'
      BY <1>1, <3>2, <3>3 DEF Held, Holder
    <3> QED  BY <3>1, <3>2, <3>4 DEF Gone, Ran
  <2>4. Learned(k, Observation(s, None, FALSE))  BY <2>2, <2>3 DEF Learned
  <2> QED  BY <1>1, <2>1, <2>2, <2>4, LearnedOne
<1> QED  BY <1>2, <1>3 DEF Admitted

LEMMA LearnedAcknowledge ==
    ASSUME Types, Held, Dropped, NEW t \in Tasks, Acknowledge(t)
    PROVE  \A j \in DOMAIN attempts' : Matched(j) /\ \A p \in Told(j)' : Learned(j, p)
<1>0. PICK k : k = job[t].key  OBVIOUS
<1>1. pc[t] = "submitted" /\ k \in DOMAIN attempts /\ k \in Keys /\ k \in DOMAIN submitted
  BY <1>0 DEF Acknowledge, Types, PluginTypes, Pressing, Lines, Held
<1>2. PICK s \in {"queued", "dropped", "outcome-unknown"} :
          /\ attempts' = Observe(attempts, k, Observation(s, None, FALSE))
          /\ s = "dropped" => k \in prompts /\ prompts' = prompts \ {k}
  BY <1>0 DEF Acknowledge, Rejected
<1>3. /\ Observation(s, None, FALSE) \in Observations
      /\ Observation(s, None, FALSE).state = s
  BY ObservationTypes DEF States
<1>4. s = "dropped" => Gone(k)'
  <2> HAVE s = "dropped"
  <2>1. k \notin prompts' /\ ~Ran(k)'  BY <1>2 DEF Dropped, Acknowledge, Ran
  <2>2. job' = job /\ pc'[t] = "observing" /\ \A u \in Tasks \ {t} : pc'[u] = pc[u]
    BY AcknowledgeTypes DEF Acknowledge
  <2>3. \A u \in Tasks : ~Holder(u, k)  BY <1>1 DEF Held
  <2>4. \A u \in Tasks : ~Holder(u, k)'  BY <2>2, <2>3 DEF Holder
  <2> QED  BY <2>1, <2>4 DEF Gone
<1>5. Learned(k, Observation(s, None, FALSE))  BY <1>3, <1>4 DEF Learned
<1> QED  BY <1>1, <1>2, <1>3, <1>5, LearnedOne

LEMMA LearnedSubmit ==
    ASSUME Types, NEW t \in Tasks, Submit(t)
    PROVE  \A j \in DOMAIN attempts' : Matched(j) /\ \A p \in Told(j)' : Learned(j, p)
<1>0. PICK k : k = job[t].key  OBVIOUS
<1> DEFINE o == Observation("outcome-unknown", None, FALSE)
<1>1. k \in DOMAIN attempts  BY <1>0 DEF Submit, Types, PluginTypes
<1>2. CASE attempts' = [attempts EXCEPT ![k].admitted = TRUE]
  <2>1. /\ DOMAIN attempts' = DOMAIN attempts
        /\ \A j \in DOMAIN attempts : /\ attempts'[j].outbox = attempts[j].outbox
                                      /\ attempts'[j].turn = attempts[j].turn
    BY <1>1, <1>2 DEF Types, PluginTypes, Attempts
  <2> QED  BY <2>1 DEF Learned, Matched, Told
<1>3. CASE attempts' = Observe(attempts, k, o)
  <2>1. o \in Observations /\ o.state = "outcome-unknown"  BY ObservationTypes DEF States
  <2>2. Learned(k, o)  BY <2>1 DEF Learned
  <2> HIDE DEF o
  <2> QED  BY <1>1, <1>3, <2>1, <2>2, LearnedOne
<1> QED  BY <1>0, <1>2, <1>3 DEF Submit

LEMMA LearnedRecord ==
    ASSUME Types, NEW k \in DOMAIN attempts, Record(k)
    PROVE  \A j \in DOMAIN attempts' : Matched(j) /\ \A p \in Told(j)' : Learned(j, p)
<1>1. /\ DOMAIN attempts' = DOMAIN attempts
      /\ attempts[k].outbox \in Seq(Observations) /\ attempts[k].outbox # <<>>
      /\ attempts'[k].outbox = Tail(attempts[k].outbox)
      /\ attempts'[k].turn = attempts[k].turn
      /\ \A j \in DOMAIN attempts \ {k} : attempts'[j] = attempts[j]
  BY RecordTypes
<1>2. Told(k)' \subseteq Told(k)
  <2> DEFINE q == attempts[k].outbox
             r == Tail(q)
  <2>1. /\ Len(q) \in Nat \ {0} /\ Len(r) = Len(q) - 1
        /\ \A i \in 1 .. Len(r) : r[i] = q[i + 1] /\ i + 1 \in 1 .. Len(q)
    BY <1>1, TailTypes
  <2> HIDE DEF q, r
  <2>2. {r[i] : i \in 1 .. Len(r)} \subseteq {q[i] : i \in 1 .. Len(q)}  BY <2>1
  <2> QED  BY <1>1, <2>2 DEF Told, q, r
<1>3. \A j \in DOMAIN attempts \ {k} : Told(j)' = Told(j)  BY <1>1 DEF Told
<1> QED  BY <1>1, <1>2, <1>3 DEF Learned, Matched

LEMMA LearnedDeliver ==
    ASSUME Types, Deliver
    PROVE  \A j \in DOMAIN attempts' : Matched(j) /\ \A p \in Told(j)' : Learned(j, p)
<1>0. PICK e, k : e = Head(events) /\ k = plugin.attempt  OBVIOUS
<1>1. /\ e \in Events /\ events \in Seq(Events) /\ events # <<>>
      /\ \/ attempts' = attempts
         \/ Starting(e, k) /\ attempts' = Started(e, k)
         \/ Ending(e, k) /\ attempts' = Closed(e, k)
      /\ events' = Tail(events) /\ UNCHANGED <<ran, recs>> /\ e.id \in Nat /\ e.id # None
  <2>1. /\ e \in Events /\ events \in Seq(Events) /\ events # <<>>
        /\ \/ attempts' = attempts
           \/ Starting(e, k) /\ attempts' = Started(e, k)
           \/ Ending(e, k) /\ attempts' = Closed(e, k)
        /\ events' = Tail(events) /\ UNCHANGED <<ran, recs>>
    BY <1>0, DeliverEffect
  <2>2. e.id \in Nat  BY <2>1 DEF Events
  <2> QED  BY <2>1, <2>2, ContinuationAssumption
<1>2. e \in Upcoming
  <2>1. e = events[1] /\ 1 \in 1 .. Len(events)  BY <1>0, <1>1, TailTypes
  <2> QED  BY <2>1 DEF Upcoming
<1>3. CASE attempts' = attempts  BY <1>3 DEF Learned, Matched, Told
<1>4. CASE Starting(e, k) /\ attempts' = Started(e, k)
  <2>1. k \in DOMAIN attempts  BY <1>0, <1>4 DEF Starting, Types, PluginTypes
  <2> DEFINE o == Observation("started", e.id, FALSE)
  <2>2. o \in Observations /\ o.state = "started" /\ o.turn = e.id
    <3>1. e.id \in Nat \cup {None}  BY <1>1 DEF Events
    <3>2. "started" \in States \ {"reserved", "admitted"}  BY DEF States
    <3>3. o \in Observations  BY <3>1, <3>2, ObservationTypes
    <3>4. o.state = "started" /\ o.turn = e.id  BY DEF Observation
    <3> QED  BY <3>3, <3>4
  <2>3. /\ DOMAIN attempts' = DOMAIN attempts /\ attempts'[k].turn = e.id
        /\ attempts'[k].outbox = Append(attempts[k].outbox, o)
        /\ \A j \in DOMAIN attempts \ {k} : attempts'[j] = attempts[j]
    BY <1>1, <1>4, <2>1, DeliveredAttempts
  <2> HIDE DEF o
  <2>4. Told(k)' \subseteq Told(k) \cup {o}
    <3> DEFINE q == attempts[k].outbox
               r == Append(q, o)
    <3>1. q \in Seq(Observations)  BY <2>1 DEF Types, PluginTypes, Attempts
    <3>2. /\ Len(q) \in Nat /\ Len(r) = Len(q) + 1 /\ r[Len(q) + 1] = o
          /\ \A i \in 1 .. Len(q) : r[i] = q[i]
      BY <2>2, <3>1, AppendTypes
    <3>3. 1 .. Len(r) = (1 .. Len(q)) \cup {Len(q) + 1}  BY <3>2
    <3> HIDE DEF r
    <3>4. {r[i] : i \in 1 .. Len(r)} \subseteq {q[i] : i \in 1 .. Len(q)} \cup {o}  BY <3>2, <3>3
    <3> QED  BY <2>3, <3>4 DEF Told, r
  <2>5. \A j \in DOMAIN attempts \ {k} : Told(j)' = Told(j)  BY <2>3 DEF Told
  <2>6. e.type = "start" /\ ran[e.id].text = Text[k] /\ attempts[k].turn = None
    BY <1>4 DEF Starting, IsNativeTurn
  <2>7. Matched(k)  BY <1>0, <1>1, <2>1, <2>3, <2>6 DEF Matched
  <2>8. Learned(k, o)  BY <1>1, <2>2, <2>3 DEF Learned
  <2>9. \A p \in Told(k)' : Learned(k, p)  BY <2>1, <2>4, <2>6, <2>8 DEF Learned
  <2>10. ASSUME NEW j \in DOMAIN attempts \ {k}
         PROVE  Matched(j) /\ \A p \in Told(j)' : Learned(j, p)
    BY <2>3, <2>5, <2>10 DEF Learned, Matched
  <2> QED  BY <2>3, <2>7, <2>9, <2>10
<1>5. CASE Ending(e, k) /\ attempts' = Closed(e, k)
  <2>1. k \in DOMAIN attempts  BY <1>0, <1>5 DEF Ending, Types, PluginTypes
  <2> DEFINE o == Observation("turn-ended", e.id, e.ok)
  <2>2. o \in Observations /\ o.state = "turn-ended" /\ o.turn = e.id /\ o.ok = e.ok
    <3>1. e.id \in Nat \cup {None} /\ e.ok \in BOOLEAN  BY <1>1 DEF Events
    <3>2. "turn-ended" \in States \ {"reserved", "admitted"}  BY DEF States
    <3>3. o \in Observations  BY <3>1, <3>2, ObservationTypes
    <3>4. o.state = "turn-ended" /\ o.turn = e.id  BY DEF Observation
    <3>5. o.ok = e.ok  BY <3>1 DEF Observation
    <3> QED  BY <3>3, <3>4, <3>5
  <2>4. attempts' = Observe(attempts, k, o)  BY <1>5 DEF Closed
  <2> HIDE DEF o
  <2>5. attempts'[k].turn = attempts[k].turn
    BY <2>1, <2>2, <2>4, ObserveTold DEF Types, PluginTypes
  <2>3. Learned(k, o)  BY <1>1, <1>2, <1>5, <2>1, <2>2, <2>5 DEF Ending, Learned
  <2> QED  BY <2>1, <2>2, <2>3, <2>4, LearnedOne
<1> QED  BY <1>1, <1>3, <1>4, <1>5

LEMMA LearnedStep ==
    ASSUME Types, Held, Dropped, [Next]_vars
    PROVE  \A j \in DOMAIN attempts' : Matched(j) /\ \A p \in Told(j)' : Learned(j, p)
<1>1. CASE attempts' = attempts  BY <1>1 DEF Learned, Matched, Told
<1>2. CASE Reload  BY <1>2 DEF Reload
<1>3. ASSUME NEW t \in Tasks,
             (\E prepare \in BOOLEAN : Act(t, prepare)) \/ Press(t) \/ ActAnswer(t) \/ Claim(t)
             \/ Admit(t) \/ Observed(t)
      PROVE  attempts' = attempts
  BY <1>3 DEF Act, Press, ActAnswer, Claim, Admit, Observed
<1> QED
  BY <1>1, <1>2, <1>3, LearnedClaimed, LearnedChecked, LearnedAdmitted, LearnedAcknowledge,
     LearnedSubmit, LearnedRecord, LearnedDeliver
  DEF Next, Step, OpenPane, ClosePane, StartTurn, EndTurn, Switch, vars
\* How a record comes to say what it says.
Recorded(k) ==
    \/ k \in DOMAIN recs /\ recs'[k] = recs[k]
    \/ /\ recs'[k].state \in {"reserved", "admitted"} /\ recs'[k].done = None
       /\ recs'[k].turn = None \/ (k \in DOMAIN recs /\ recs'[k].turn = recs[k].turn)
    \/ k \in DOMAIN attempts /\ k \in DOMAIN recs /\ \E o \in Told(k) :
          /\ ~Refused(recs[k], o) /\ recs'[k].state = o.state
          /\ recs'[k].turn = (IF o.state = "started" THEN o.turn ELSE recs[k].turn)
          /\ recs'[k].done = (IF o.state = "turn-ended" THEN o.ok ELSE recs[k].done)

LEMMA RecordedStep == ASSUME Types, [Next]_vars PROVE \A j \in DOMAIN recs' : Recorded(j)
<1>1. CASE recs' = recs  BY <1>1 DEF Recorded
<1>2. ASSUME NEW t \in Tasks, Claim(t) PROVE \A j \in DOMAIN recs' : Recorded(j)
  <2>1. recs' = recs \/ recs' = With(recs, job[t].key,
                                     [state |-> "reserved", turn |-> None, done |-> None])
    BY <1>2 DEF Claim
  <2> QED  BY <1>1, <2>1 DEF With, Recorded
<1>3. ASSUME NEW t \in Tasks, Admit(t) PROVE \A j \in DOMAIN recs' : Recorded(j)
  <2> DEFINE k == job[t].key
  <2>1. k \in DOMAIN recs  BY <1>3 DEF Admit, Types, PluginTypes
  <2>2. recs[k] \in Records  BY <2>1 DEF Types, FileTypes
  <2>3. CASE recs[k].state = "reserved" /\ recs' = [recs EXCEPT ![k].state = "admitted"]
    <3>1. recs[k].done = None  BY <2>1, <2>3 DEF Types, FileTypes
    <3>2. recs'[k].state = "admitted" /\ recs'[k].done = None /\ recs'[k].turn = recs[k].turn
      BY <2>1, <2>2, <2>3, <3>1 DEF Types, FileTypes, Records
    <3>3. \A j \in DOMAIN recs \ {k} : recs'[j] = recs[j]  BY <2>3 DEF Types, FileTypes
    <3> QED  BY <2>1, <2>3, <3>2, <3>3 DEF Recorded
  <2> QED  BY <1>1, <1>3, <2>3 DEF Admit
<1>4. ASSUME NEW k \in DOMAIN attempts, Record(k) PROVE \A j \in DOMAIN recs' : Recorded(j)
  <2> PICK o : o = Head(attempts[k].outbox)  OBVIOUS
  <2> QED  BY <1>4, RecordEffect DEF Recorded
<1>5. ASSUME NEW t \in Tasks,
             (\E prepare \in BOOLEAN : Act(t, prepare)) \/ Press(t) \/ ActAnswer(t)
             \/ Claimed(t) \/ Checked(t) \/ Admitted(t) \/ Submit(t) \/ Acknowledge(t)
             \/ Observed(t)
      PROVE  recs' = recs
  BY <1>5 DEF Act, Press, ActAnswer, Claimed, Checked, Admitted, Submit, Acknowledge, Observed
<1>6. CASE OpenPane \/ ClosePane \/ Deliver \/ Reload \/ \E s \in Sessions : Switch(s)
  BY <1>1, <1>6 DEF OpenPane, ClosePane, Deliver, Reload, Switch
<1>7. CASE \E key \in prompts \cup {None}, text \in Texts \cup {None} : StartTurn(key, text)
  BY <1>1, <1>7 DEF StartTurn
<1>8. CASE \E ok \in BOOLEAN : EndTurn(ok)  BY <1>1, <1>8 DEF EndTurn
<1>9. CASE UNCHANGED vars  BY <1>1, <1>9 DEF vars
<1> QED  BY <1>1, <1>2, <1>3, <1>4, <1>5, <1>6, <1>7, <1>8, <1>9 DEF Next, Step

\* A prompt with the host was submitted, and starts a turn only once.
LEMMA PromptsStep ==
    ASSUME Types, Held, Dropped, [Next]_vars
    PROVE  prompts' \subseteq DOMAIN submitted' /\ \A k \in prompts' : ~Ran(k)'
<1>1. DOMAIN submitted \subseteq DOMAIN submitted'
  BY DEF Next, Step, Act, ActAnswer, Press, Claim, Claimed, Checked, Admit, Admitted, Submit,
     Acknowledge, Observed, Record, OpenPane, ClosePane, Deliver, Reload, StartTurn, EndTurn,
     Switch, vars, With
<1>2. ASSUME NEW k \in prompts', k \notin prompts
      PROVE  \E t \in Tasks : Submit(t) /\ k = job[t].key /\ k \in DOMAIN submitted'
  BY <1>2 DEF Next, Step, Act, ActAnswer, Press, Claim, Claimed, Checked, Admit, Admitted, Submit,
     Acknowledge, Observed, Record, OpenPane, ClosePane, Deliver, Reload, StartTurn, EndTurn,
     Switch, vars, host, With
<1>3. ASSUME NEW k \in prompts', k \notin prompts PROVE k \in DOMAIN submitted' /\ ~Ran(k)
  <2>1. PICK t \in Tasks : Submit(t) /\ k = job[t].key /\ k \in DOMAIN submitted'
    BY <1>2, <1>3
  <2>2. k \in Keys /\ Holder(t, k)
    BY <2>1 DEF Submit, Holder, Types, PluginTypes, Pressing, Lines
  <2>3. k \notin DOMAIN submitted /\ k # None  BY <2>2, ContinuationAssumption DEF Held
  <2>4. DOMAIN ran = 1 .. turns  BY DEF turns, Types, HostTypes
  <2> QED  BY <2>1, <2>3, <2>4 DEF Ran, Types, FileTypes
<1>4. ASSUME NEW k \in prompts' PROVE k \in DOMAIN submitted' /\ ~Ran(k)
  BY <1>1, <1>3, <1>4 DEF Dropped
<1>5. ASSUME NEW k \in prompts' PROVE k \in Keys
  <2>1. HostTypes'  BY HostStep
  <2> QED  BY <1>5, <2>1 DEF HostTypes
<1> QED  BY <1>4, <1>5, RanGrows

LEMMA DroppedStep == ASSUME Types, Held, Dropped, [Next]_vars PROVE Dropped'
<1>1. \A k \in DOMAIN recs : Gone(k) => Gone(k)'  BY GoneStays
<1>2. \A k \in DOMAIN attempts' : \A o \in Told(k)' : o.state = "dropped" => Gone(k)'
  <2> SUFFICES ASSUME NEW k \in DOMAIN attempts', NEW o \in Told(k)', o.state = "dropped"
               PROVE  Gone(k)'
    OBVIOUS
  <2>1. Learned(k, o)  BY LearnedStep
  <2>2. CASE k \in DOMAIN attempts /\ o \in Told(k)
    <3>1. Gone(k) /\ k \in DOMAIN recs  BY <2>2 DEF Dropped, Types, PluginTypes
    <3> QED  BY <1>1, <3>1
  <2> QED  BY <2>1, <2>2 DEF Learned
<1>3. \A k \in DOMAIN recs' : recs'[k].state = "dropped" => Gone(k)'
  <2> SUFFICES ASSUME NEW k \in DOMAIN recs', recs'[k].state = "dropped"
               PROVE  Gone(k)'
    OBVIOUS
  <2>1. Recorded(k)  BY RecordedStep
  <2>2. k \in DOMAIN recs /\ Gone(k)  BY <2>1 DEF Recorded, Dropped
  <2> QED  BY <1>1, <2>2
<1> QED  BY <1>2, <1>3, PromptsStep DEF Dropped
-----------------------------------------------------------------------------
(* Numbers of turns. *)

\* An event that follows, and one that is handled.
LEMMA UpcomingTypes ==
    ASSUME HostTypes
    PROVE  Upcoming \subseteq Events /\ \A e \in Upcoming : e \in Events
  BY DEF Upcoming, HostTypes

LEMMA OneMoreEvent ==
    ASSUME HostTypes, NEW e \in Events, events' = Append(events, e)
    PROVE  Upcoming' = Upcoming \cup {e}
<1> DEFINE q == events
           r == Append(q, e)
<1>1. q \in Seq(Events)  BY DEF HostTypes
<1>2. /\ Len(q) \in Nat /\ Len(r) = Len(q) + 1 /\ r[Len(q) + 1] = e
      /\ \A i \in 1 .. Len(q) : r[i] = q[i]
  BY <1>1, AppendTypes
<1>3. 1 .. Len(r) = (1 .. Len(q)) \cup {Len(q) + 1}  BY <1>2
<1>4. Upcoming' = {r[i] : i \in 1 .. Len(r)}  BY DEF Upcoming
<1> HIDE DEF r
<1>5. {r[i] : i \in 1 .. Len(r)} = {q[i] : i \in 1 .. Len(q)} \cup {e}  BY <1>2, <1>3
<1> QED  BY <1>4, <1>5 DEF Upcoming

LEMMA OneEventLess ==
    ASSUME HostTypes, events # <<>>, events' = Tail(events)
    PROVE  /\ Upcoming' \subseteq Upcoming /\ Head(events) \in Upcoming
           /\ Upcoming \subseteq Upcoming' \cup {Head(events)}
<1>1. PICK q, r : q = events /\ r = Tail(events)  OBVIOUS
<1>2. /\ q \in Seq(Events) /\ Len(q) \in Nat \ {0} /\ Head(q) = q[1] /\ Len(r) = Len(q) - 1
      /\ \A i \in 1 .. Len(r) : r[i] = q[i + 1]
  BY <1>1, TailTypes DEF HostTypes
<1>3. Upcoming = {q[i] : i \in 1 .. Len(q)} /\ Upcoming' = {r[i] : i \in 1 .. Len(r)}
  BY <1>1 DEF Upcoming
<1>4. Len(r) \in Nat  BY <1>2
<1>5. \A i \in 1 .. Len(r) : i + 1 \in 1 .. Len(q) /\ r[i] = q[i + 1]  BY <1>2, <1>4
<1>6. \A i \in 1 .. Len(q) : i = 1 \/ (i - 1 \in 1 .. Len(r) /\ q[i] = r[i - 1])
  <2> TAKE i \in 1 .. Len(q)
  <2>1. CASE i # 1
    <3>1. i - 1 \in 1 .. Len(r) /\ (i - 1) + 1 = i  BY <1>2, <1>4, <2>1
    <3> QED  BY <1>2, <3>1
  <2> QED  BY <2>1
<1>7. 1 \in 1 .. Len(q)  BY <1>2
<1>8. q[1] = Head(events)  BY <1>1, <1>2
<1>9. Upcoming' \subseteq Upcoming
  <2> SUFFICES ASSUME NEW i \in 1 .. Len(r) PROVE r[i] \in Upcoming  BY <1>3
  <2> QED  BY <1>3, <1>5
<1>10. Upcoming \subseteq Upcoming' \cup {Head(events)}
  <2> SUFFICES ASSUME NEW i \in 1 .. Len(q) PROVE q[i] \in Upcoming' \cup {Head(events)}
    BY <1>3
  <2> QED  BY <1>3, <1>6, <1>8
<1>11. Head(events) \in Upcoming  BY <1>3, <1>7, <1>8
<1> QED  BY <1>9, <1>10, <1>11

\* What a step of the host or the plugin does to the turn and the events it is known by.
Heard ==
    \/ UNCHANGED <<turn, turns>> /\ Upcoming' \subseteq Upcoming
    \/ UNCHANGED <<turn, turns>> /\ \E e : e.type = "reset" /\ Upcoming' = Upcoming \cup {e}
    \/ /\ turns' = turns + 1 /\ turn = None /\ turn' = turns'
       /\ \E e : e.type = "start" /\ e.id = turns' /\ Upcoming' = Upcoming \cup {e}
    \/ /\ turns' = turns /\ turn # None /\ turn' = None
       /\ \E e : e.type = "end" /\ e.id = turn /\ Upcoming' = Upcoming \cup {e}

LEMMA HeardStep == ASSUME Types, [Next]_vars PROVE Heard
<1>1. CASE UNCHANGED <<turn, ran, events>>  BY <1>1 DEF Heard, Upcoming, turns
<1>2. CASE Deliver
  <2>1. UNCHANGED <<turn, turns>> /\ events # <<>> /\ events' = Tail(events)
    BY <1>2 DEF Deliver, turns
  <2> QED  BY <2>1, OneEventLess DEF Heard, Types
<1>3. CASE Reload
  <2>1. UNCHANGED <<turn, turns>> /\ Upcoming' = {}  BY <1>3 DEF Reload, Upcoming, turns
  <2> QED  BY <2>1 DEF Heard
<1>4. ASSUME NEW s \in Sessions, Switch(s) PROVE Heard
  <2> PICK e : e = Event("reset", 0, FALSE)  OBVIOUS
  <2>1. e \in Events /\ e.type = "reset"  BY DEF Event, Events
  <2>2. UNCHANGED <<turn, turns>> /\ events' = Append(events, e)  BY <1>4 DEF Switch, turns
  <2>3. Upcoming' = Upcoming \cup {e}  BY <2>1, <2>2, OneMoreEvent DEF Types
  <2> QED  BY <2>1, <2>2, <2>3 DEF Heard
<1>5. ASSUME NEW key \in prompts \cup {None}, NEW text \in Texts \cup {None}, StartTurn(key, text)
      PROVE  Heard
  <2> PICK e : e = Event("start", turn', FALSE)  OBVIOUS
  <2>1. turns \in Nat /\ turns' = turns + 1 /\ turn = None /\ turn' = turns'
    BY <1>5, StartedTurn
  <2>2. e \in Events /\ e.type = "start" /\ e.id = turns'  BY <2>1 DEF Event, Events
  <2>3. Upcoming' = Upcoming \cup {e}  BY <1>5, <2>2, OneMoreEvent DEF StartTurn, Types
  <2> QED  BY <2>1, <2>2, <2>3 DEF Heard
<1>6. ASSUME NEW ok \in BOOLEAN, EndTurn(ok) PROVE Heard
  <2> PICK e : e = Event("end", turn, ok)  OBVIOUS
  <2>1. turns \in Nat /\ turn \in 1 .. turns /\ turn' = None /\ turns' = turns
    BY <1>6, EndedTurn
  <2>2. e \in Events /\ e.type = "end" /\ e.id = turn  BY <2>1 DEF Event, Events
  <2>3. Upcoming' = Upcoming \cup {e}  BY <1>6, <2>2, OneMoreEvent DEF EndTurn, Types
  <2> QED  BY <1>6, <2>1, <2>2, <2>3 DEF Heard, EndTurn
<1>7. ASSUME NEW t \in Tasks,
             (\E prepare \in BOOLEAN : Act(t, prepare)) \/ Press(t) \/ Step(t)
      PROVE  UNCHANGED <<turn, ran, events>>
  BY <1>7 DEF Step, Act, Press, ActAnswer, Claim, Claimed, Checked, Admit, Admitted, Submit,
     Acknowledge, Observed, bounds, host
<1> QED
  BY <1>1, <1>2, <1>3, <1>4, <1>5, <1>6, <1>7
  DEF Next, Record, OpenPane, ClosePane, vars, bounds, host

\* The event handled is older than those that follow it.
LEMMA FirstStart ==
    ASSUME Types, Ordered, events # <<>>, events' = Tail(events), Head(events).type = "start"
    PROVE  \A e \in Upcoming' : e.type = "start" => Head(events).id < e.id
<1>1. PICK q, r : q = events /\ r = Tail(events)  OBVIOUS
<1>2. /\ q \in Seq(Events) /\ Len(q) \in Nat \ {0} /\ Head(q) = q[1] /\ Len(r) = Len(q) - 1
      /\ \A i \in 1 .. Len(r) : r[i] = q[i + 1]
  BY <1>1, TailTypes DEF Types, HostTypes
<1>3. Upcoming' = {r[i] : i \in 1 .. Len(r)}  BY <1>1 DEF Upcoming
<1> SUFFICES ASSUME NEW i \in 1 .. Len(r), r[i].type = "start"
             PROVE  q[1].id < r[i].id
  BY <1>1, <1>2, <1>3
<1>4. i + 1 \in 1 .. Len(q) /\ 1 \in 1 .. Len(q) /\ 1 < i + 1  BY <1>2
<1>5. r[i] = q[i + 1] /\ q[1].type = "start"  BY <1>1, <1>2
<1> QED  BY <1>1, <1>4, <1>5 DEF Ordered

\* The event handled gives its number to the attempt in progress.
Taken(k, n) ==
    /\ k = plugin.attempt /\ events # <<>> /\ events' = Tail(events)
    /\ Head(events).type = "start" /\ Head(events).id = n /\ Head(events) \in Upcoming
    /\ ran[n].text = Text[k] /\ UNCHANGED <<ran, recs>>

LEMMA HasStep ==
    ASSUME Types, Held, Dropped, Numbered, [Next]_vars, NEW k \in Keys, NEW n \in Nat, Has(k, n)'
    PROVE  Has(k, n) \/ Taken(k, n)
<1>1. n # None  BY ContinuationAssumption
<1>2. CASE k \in DOMAIN recs' /\ recs'[k].turn = n
  <2>1. Recorded(k)  BY <1>2, RecordedStep
  <2>2. CASE k \in DOMAIN recs /\ recs'[k].turn = recs[k].turn  BY <1>2, <2>2 DEF Has
  <2>3. CASE recs'[k].turn = None  BY <1>1, <1>2, <2>3
  <2>4. ASSUME k \in DOMAIN attempts, NEW o \in Told(k), o.state = "started", recs'[k].turn = o.turn
        PROVE  Has(k, n)
    BY <1>2, <2>4 DEF Numbered, Has
  <2> QED  BY <2>1, <2>2, <2>3, <2>4 DEF Recorded
<1>3. CASE k \in DOMAIN attempts' /\ attempts'[k].turn = n
  <2>1. Matched(k)  BY <1>3, LearnedStep
  <2>2. HostTypes  BY DEF Types
  <2>3. events # <<>> /\ events' = Tail(events) => Head(events) \in Upcoming
    BY <2>2, OneEventLess
  <2> QED  BY <1>1, <1>3, <2>1, <2>3 DEF Matched, Has, Taken
<1> QED  BY <1>2, <1>3 DEF Has

LEMMA NumberedStep ==
    ASSUME Types, Held, Dropped, Numbered, Ordered, [Next]_vars
    PROVE  Numbered'
<1>1. turns \in Nat /\ turns' \in {turns, turns + 1} /\ Heard  BY HeardStep, RanStep
<1>2. turn # None => turn \in 1 .. turns  BY DEF Types, HostTypes
<1>3. \A e \in Upcoming' : e.type # "reset" => e.id \in 1 .. turns'
  <2>1. \A e \in Upcoming : e.type # "reset" => e.id \in 1 .. turns  BY DEF Numbered
  <2>2. 1 .. turns \subseteq 1 .. turns'  BY <1>1
  <2>3. turns' = turns + 1 => turns' \in 1 .. turns'  BY <1>1
  <2> QED  BY <1>1, <1>2, <2>1, <2>2, <2>3 DEF Heard
<1>4. ASSUME NEW k \in Keys, NEW n \in Nat, Has(k, n)
      PROVE  /\ n \in 1 .. turns /\ ran[n].text = Text[k]
             /\ \A e \in Upcoming : e.type = "start" => e.id # n
             /\ \A j \in Keys : Has(j, n) => j = k
  BY <1>4 DEF Numbered
<1>5. ASSUME NEW k \in Keys, NEW n \in Nat, Has(k, n), NEW j \in Keys PROVE ~Taken(j, n)
  BY <1>4, <1>5 DEF Taken
<1>6. ASSUME NEW k \in Keys, NEW n \in Nat, Has(k, n)'
      PROVE  /\ n \in 1 .. turns' /\ ran'[n].text = Text[k]
             /\ \A e \in Upcoming' : e.type = "start" => e.id # n
             /\ \A j \in Keys : Has(j, n)' => j = k
  <2>1. Has(k, n) \/ Taken(k, n)  BY <1>6, HasStep
  <2>2. n \in 1 .. turns /\ ran[n].text = Text[k]
    BY <1>4, <2>1 DEF Taken, Numbered
  <2>3. n \in 1 .. turns' /\ ran'[n].text = Text[k]  BY <2>2, RanStep
  <2>4. \A e \in Upcoming' : e.type = "start" => e.id # n
    <3>1. CASE Has(k, n)
      <4>1. \A e \in Upcoming : e.type = "start" => e.id # n  BY <1>4, <3>1
      <4>2. n # turns + 1  BY <1>1, <2>2
      <4> QED  BY <1>1, <4>1, <4>2 DEF Heard
    <3>2. CASE Taken(k, n)
      <4>1. \A e \in Upcoming' : e.type = "start" => n < e.id
        BY <3>2, FirstStart DEF Taken
      <4> QED  BY <4>1
    <3> QED  BY <2>1, <3>1, <3>2
  <2>5. ASSUME NEW j \in Keys, Has(j, n)' PROVE j = k
    <3>1. Has(j, n) \/ Taken(j, n)  BY <2>5, HasStep
    <3>2. Taken(j, n) /\ Taken(k, n) => j = k  BY DEF Taken
    <3> QED  BY <1>4, <1>5, <2>1, <3>1, <3>2
  <2> QED  BY <2>3, <2>4, <2>5
<1>7. \A k \in DOMAIN attempts' : \A o \in Told(k)' : o.state \in {"started", "turn-ended"} =>
          o.turn # None /\ o.turn = attempts'[k].turn
  <2> SUFFICES ASSUME NEW k \in DOMAIN attempts', NEW o \in Told(k)',
                      o.state \in {"started", "turn-ended"}
               PROVE  o.turn # None /\ o.turn = attempts'[k].turn
    OBVIOUS
  <2>1. Learned(k, o)  BY LearnedStep
  <2>2. CASE k \in DOMAIN attempts /\ o \in Told(k) /\ attempts[k].turn \in {None, attempts'[k].turn}
    BY <2>2 DEF Numbered
  <2> QED  BY <2>1, <2>2 DEF Learned
<1> QED  BY <1>3, <1>6, <1>7 DEF Numbered
-----------------------------------------------------------------------------
(* What is said to have ended has, in that way. *)

\* A turn only ends, and once.
LEMMA FatedStays ==
    ASSUME Types, Completed, [Next]_vars, NEW n, NEW done, Fated(n, done)
    PROVE  Fated(n, done)'
<1>1. n \in 1 .. turns /\ ran[n].how = How(done) /\ How(done) # "running"  BY DEF Fated, How
<1>2. turn # n  BY <1>1, ContinuationAssumption DEF Completed
<1>3. n \in 1 .. turns' /\ ran'[n].how = ran[n].how  BY <1>1, <1>2, RanStep
<1> QED  BY <1>1, <1>3 DEF Fated

LEMMA RunningStep ==
    ASSUME Types, Completed, [Next]_vars
    PROVE  turn' # None => ran'[turn'].how = "running"
<1>1. CASE UNCHANGED <<turn, ran>>  BY <1>1 DEF Completed
<1>2. ASSUME NEW key \in prompts \cup {None}, NEW text \in Texts \cup {None}, StartTurn(key, text)
      PROVE  ran'[turn'].how = "running"
  BY <1>2, StartedTurn
<1>3. ASSUME NEW ok \in BOOLEAN, EndTurn(ok) PROVE turn' = None
  BY <1>3 DEF EndTurn
<1> QED  BY <1>1, <1>2, <1>3, RanCases

\* Every event that says a turn ended says how it did.
LEMMA EventsFated ==
    ASSUME Types, Completed, [Next]_vars
    PROVE  \A e \in Upcoming' : e.type = "end" => Fated(e.id, e.ok)'
<1> SUFFICES ASSUME NEW e \in Upcoming', e.type = "end"
             PROVE  Fated(e.id, e.ok)'
  OBVIOUS
<1>1. CASE e \in Upcoming  BY <1>1, FatedStays DEF Completed
<1>2. CASE Upcoming' \subseteq Upcoming  BY <1>1, <1>2
<1>3. ASSUME NEW ok \in BOOLEAN, EndTurn(ok) PROVE Fated(e.id, e.ok)'
  <2>1. PICK f : f = Event("end", turn, ok)  OBVIOUS
  <2>2. turns \in Nat /\ turn \in 1 .. turns /\ turns' = turns /\ ran'[turn].how = How(ok)
    BY <1>3, EndedTurn
  <2>3. f \in Events /\ f.id = turn /\ f.ok = ok  BY <2>1, <2>2 DEF Event, Events
  <2>4. Upcoming' = Upcoming \cup {f}  BY <1>3, <2>1, <2>3, OneMoreEvent DEF EndTurn, Types
  <2>5. CASE e = f  BY <2>2, <2>3, <2>5 DEF Fated
  <2> QED  BY <1>1, <2>4, <2>5
<1>4. \/ Upcoming' \subseteq Upcoming
      \/ \E f : f.type # "end" /\ Upcoming' = Upcoming \cup {f}
      \/ turn # None /\ turn' = None
  BY HeardStep DEF Heard
<1>5. turn # None /\ turn' = None => \E ok \in BOOLEAN : EndTurn(ok)
  BY RanCases DEF StartTurn
<1>6. CASE \E f : f.type # "end" /\ Upcoming' = Upcoming \cup {f}  BY <1>1, <1>6
<1> QED  BY <1>2, <1>3, <1>4, <1>5, <1>6

LEMMA CompletedStep ==
    ASSUME Types, Held, Dropped, Numbered, Completed, [Next]_vars
    PROVE  Completed'
<1>1. \A k \in DOMAIN attempts' : \A o \in Told(k)' : o.state = "turn-ended" => Fated(o.turn, o.ok)'
  <2> SUFFICES ASSUME NEW k \in DOMAIN attempts', NEW o \in Told(k)', o.state = "turn-ended"
               PROVE  Fated(o.turn, o.ok)'
    OBVIOUS
  <2>1. Learned(k, o)  BY LearnedStep
  <2>2. Fated(o.turn, o.ok)  BY <2>1 DEF Learned, Completed
  <2> QED  BY <2>2, FatedStays
<1>2. \A k \in DOMAIN recs' : recs'[k].done # None =>
          recs'[k].turn # None /\ Fated(recs[k].turn, recs[k].done)'
  <2> SUFFICES ASSUME NEW k \in DOMAIN recs', recs'[k].done # None
               PROVE  recs'[k].turn # None /\ Fated(recs[k].turn, recs[k].done)'
    OBVIOUS
  <2>1. Recorded(k)  BY RecordedStep
  <2>2. PICK d, n : d = recs'[k].done /\ n = recs'[k].turn  OBVIOUS
  <2>3. n # None /\ Fated(n, d)
    <3>1. CASE k \in DOMAIN recs /\ recs'[k] = recs[k]  BY <2>2, <3>1 DEF Completed
    <3>2. ASSUME k \in DOMAIN attempts, k \in DOMAIN recs, NEW o \in Told(k),
                 ~Refused(recs[k], o),
                 recs'[k].turn = (IF o.state = "started" THEN o.turn ELSE recs[k].turn),
                 recs'[k].done = (IF o.state = "turn-ended" THEN o.ok ELSE recs[k].done)
          PROVE  n # None /\ Fated(n, d)
      <4>1. recs[k].state # "turn-ended"  BY <3>2 DEF Refused
      <4>2. o.state = "turn-ended"  BY <3>2, <4>1 DEF Types, FileTypes
      <4>3. o.turn # None /\ Fated(o.turn, o.ok)  BY <3>2, <4>2 DEF Numbered, Completed
      <4>4. recs[k].turn = o.turn  BY <3>2, <4>2, <4>3 DEF Refused
      <4> QED  BY <2>2, <3>2, <4>2, <4>3, <4>4
    <3> QED  BY <2>1, <3>1, <3>2 DEF Recorded
  <2>4. Fated(n, d)'  BY <2>3, FatedStays
  <2> QED  BY <2>2, <2>3, <2>4 DEF Fated
<1> QED  BY <1>1, <1>2, RunningStep, EventsFated DEF Completed
-----------------------------------------------------------------------------
(* What the plugin has still to hear of. *)

\* A step of the plugin that handles no event, and what it leaves as it was.
Inward ==
    \/ OpenPane \/ ClosePane \/ \E k \in DOMAIN attempts : Record(k)
    \/ UNCHANGED vars
    \/ \E t \in Tasks : (\E prepare \in BOOLEAN : Act(t, prepare)) \/ Press(t) \/ Step(t)

LEMMA PluginOnly ==
    ASSUME Types, Inward
    PROVE  /\ sess' = sess /\ ev' = ev /\ turn' = turn /\ turns' = turns /\ events' = events
           /\ plugin'.gen = plugin.gen /\ plugin'.turnGen = plugin.turnGen
           /\ plugin'.active = plugin.active
           /\ plugin'.pane => plugin.pane \/ turn = None
<1>1. plugin \in Plugins  BY DEF Types, PluginTypes
<1>2. CASE OpenPane \/ ClosePane  BY <1>1, <1>2 DEF OpenPane, ClosePane, Plugins, host, bounds, turns
<1>3. ASSUME NEW k \in DOMAIN attempts, Record(k)
      PROVE  UNCHANGED <<sess, ev, turn, turns, events, plugin>>
  BY <1>3 DEF Record, host, turns
<1>4. ASSUME NEW t \in Tasks, Claim(t) \/ Admit(t) \/ Admitted(t) \/ Submit(t) \/ Acknowledge(t)
      PROVE  UNCHANGED <<sess, ev, turn, turns, events, plugin>>
  BY <1>4 DEF Claim, Admit, Admitted, Submit, Acknowledge, host, bounds, turns
<1>5. ASSUME NEW t \in Tasks,
             (\E prepare \in BOOLEAN : Act(t, prepare)) \/ Press(t) \/ ActAnswer(t) \/ Claimed(t)
             \/ Checked(t) \/ Observed(t)
      PROVE  /\ UNCHANGED <<sess, ev, turn, turns, events>>
             /\ plugin'.gen = plugin.gen /\ plugin'.turnGen = plugin.turnGen
             /\ plugin'.active = plugin.active
             /\ plugin'.pane => plugin.pane
  <2>1. UNCHANGED <<sess, ev, turn, turns, events>>
    BY <1>5 DEF Act, Press, ActAnswer, Claimed, Checked, Observed, host, bounds, turns
  <2>2. CASE (\E prepare \in BOOLEAN : Act(t, prepare)) \/ Press(t)
    BY <1>1, <2>1, <2>2 DEF Act, Press, Plugins
  <2>3. CASE ActAnswer(t) \/ Claimed(t) \/ Checked(t) \/ Observed(t)
    <3>1. job[t] \in Jobs  BY <2>3 DEF ActAnswer, Claimed, Checked, Observed, Types, PluginTypes
    <3>2. CASE plugin' = plugin \/ plugin' = Ended(t) \/ \E d : plugin' = [Ended(t) EXCEPT !.diag = d]
      <4>1. PluginTypes  BY DEF Types
      <4>2. CASE plugin' = plugin  BY <2>1, <4>2
      <4>3. CASE plugin' = Ended(t)  BY <2>1, <3>1, <4>1, <4>3, EndedTypes
      <4>4. ASSUME NEW d, plugin' = [Ended(t) EXCEPT !.diag = d]
            PROVE  /\ plugin'.gen = plugin.gen /\ plugin'.turnGen = plugin.turnGen
                   /\ plugin'.active = plugin.active /\ plugin'.pane = plugin.pane
        BY <3>1, <4>1, <4>4, EndedTypes
      <4> QED  BY <2>1, <3>2, <4>2, <4>3, <4>4
    <3>3. CASE plugin' = [plugin EXCEPT !.attempt = job[t].key]
      BY <1>1, <2>1, <3>3 DEF Plugins
    <3> QED  BY <2>3, <3>2, <3>3 DEF ActAnswer, Claimed, Checked, Observed
  <2> QED  BY <1>5, <2>2, <2>3
<1>6. CASE UNCHANGED vars  BY <1>6 DEF vars, host, bounds, turns
<1> QED  BY <1>2, <1>3, <1>4, <1>5, <1>6 DEF Step, Inward

\* The queue of events keeps its order when one more follows or the first is handled.
LEMMA QueueStep ==
    ASSUME Types, Numbered, Ordered,
           \/ events' = events \/ events' = <<>>
           \/ events # <<>> /\ events' = Tail(events)
           \/ \E e \in Events : /\ events' = Append(events, e)
                                /\ e.type = "start" => e.id = turns + 1
    PROVE  \A i, j \in 1 .. Len(events') :
              i < j /\ events'[i].type = "start" /\ events'[j].type = "start"
                => events'[i].id < events'[j].id
<1> DEFINE q == events
<1>0. q \in Seq(Events) /\ Len(q) \in Nat /\ turns \in Nat  BY DEF Types, HostTypes, turns
<1>1. \A i, j \in 1 .. Len(q) :
         i < j /\ q[i].type = "start" /\ q[j].type = "start" => q[i].id < q[j].id
  BY DEF Ordered
<1>2. \A i \in 1 .. Len(q) : q[i].type = "start" => q[i].id \in Nat /\ q[i].id <= turns
  <2> TAKE i \in 1 .. Len(q)
  <2> HAVE q[i].type = "start"
  <2>1. q[i] \in Upcoming /\ q[i] \in Events  BY <1>0 DEF Upcoming
  <2> QED  BY <2>1 DEF Numbered, Events
<1>3. CASE events' = q  BY <1>1, <1>3
<1>4. CASE events' = <<>>
  <2>1. Len(events') = 0 /\ 1 .. 0 = {}  BY <1>4
  <2> QED  BY <2>1
<1>5. CASE q # <<>> /\ events' = Tail(q)
  <2>1. PICK r : r = events'  OBVIOUS
  <2>2. /\ Len(q) \in Nat \ {0} /\ Len(r) = Len(q) - 1
        /\ \A i \in 1 .. Len(r) : r[i] = q[i + 1]
    BY <1>0, <1>5, <2>1, TailTypes
  <2> SUFFICES ASSUME NEW i \in 1 .. Len(r), NEW j \in 1 .. Len(r), i < j,
                      r[i].type = "start", r[j].type = "start"
               PROVE  r[i].id < r[j].id
    BY <2>1
  <2>3. i + 1 \in 1 .. Len(q) /\ j + 1 \in 1 .. Len(q) /\ i + 1 < j + 1  BY <2>2
  <2>4. r[i] = q[i + 1] /\ r[j] = q[j + 1]  BY <2>2
  <2> QED  BY <1>1, <2>3, <2>4
<1>6. ASSUME NEW e \in Events, events' = Append(q, e), e.type = "start" => e.id = turns + 1
      PROVE  \A i, j \in 1 .. Len(events') :
                i < j /\ events'[i].type = "start" /\ events'[j].type = "start"
                  => events'[i].id < events'[j].id
  <2>1. PICK r : r = events'  OBVIOUS
  <2>2. /\ Len(r) = Len(q) + 1 /\ r[Len(q) + 1] = e
        /\ \A i \in 1 .. Len(q) : r[i] = q[i]
    BY <1>0, <1>6, <2>1, AppendTypes
  <2> SUFFICES ASSUME NEW i \in 1 .. Len(r), NEW j \in 1 .. Len(r), i < j,
                      r[i].type = "start", r[j].type = "start"
               PROVE  r[i].id < r[j].id
    BY <2>1
  <2>3. i \in 1 .. Len(q) /\ r[i] = q[i]  BY <1>0, <2>2
  <2>4. CASE j \in 1 .. Len(q)  BY <1>1, <2>2, <2>3, <2>4
  <2>5. CASE j = Len(q) + 1
    <3>1. r[j].id = turns + 1  BY <1>6, <2>2, <2>5
    <3>2. r[i].id \in Nat /\ r[i].id <= turns  BY <1>2, <2>3
    <3> QED  BY <1>0, <3>1, <3>2
  <2> QED  BY <1>0, <2>2, <2>4, <2>5
<1> QED  BY <1>3, <1>4, <1>5, <1>6

LEMMA OrderedStep == ASSUME Types, Numbered, Ordered, [Next]_vars PROVE Ordered'
<1>00. HostTypes  BY DEF Types
<1>0. /\ turns \in Nat /\ plugin \in Plugins /\ plugin.active \in Nat \cup {None}
      /\ \A e \in Upcoming : e \in Events /\ e.id \in Nat
  BY UpcomingTypes DEF Types, HostTypes, PluginTypes, Plugins, Events, turns
<1>1. turn' # None => turn' = turns'
  BY <1>0, HeardStep DEF Heard, Ordered
<1>2. CASE Inward
  <2>1. turn' = turn /\ turns' = turns /\ events' = events /\ plugin'.active = plugin.active
    BY <1>2, PluginOnly
  <2> QED  BY <2>1 DEF Ordered, Upcoming
<1>3. CASE Deliver
  <2>1. PICK e : e = Head(events)  OBVIOUS
  <2>2. events # <<>> /\ events' = Tail(events) /\ turns' = turns  BY <1>3 DEF Deliver, turns
  <2>3. Upcoming' \subseteq Upcoming /\ e \in Upcoming  BY <1>00, <2>1, <2>2, OneEventLess
  <2>4. \/ plugin'.active = None
        \/ plugin'.active = plugin.active
        \/ e.type = "start" /\ plugin'.active = e.id
    <3>1. \/ plugin' = Reset
          \/ e.type = "start" /\ plugin' = [plugin EXCEPT !.active = e.id, !.turnGen = @ + 1]
          \/ plugin' = [plugin EXCEPT !.active = IF @ = e.id THEN None ELSE @]
      BY <1>3, <2>1, DeliverEffect
    <3>2. CASE plugin' = Reset  BY <1>0, <3>2, ResetTypes
    <3>3. CASE e.type = "start" /\ plugin' = [plugin EXCEPT !.active = e.id, !.turnGen = @ + 1]
      BY <1>0, <3>3 DEF Plugins
    <3>4. CASE plugin' = [plugin EXCEPT !.active = IF @ = e.id THEN None ELSE @]
      BY <1>0, <3>4 DEF Plugins
    <3> QED  BY <3>1, <3>2, <3>3, <3>4
  <2>5. plugin'.active # None => /\ plugin'.active <= turns'
                                 /\ \A f \in Upcoming' : f.type = "start" => plugin'.active < f.id
    <3>1. CASE plugin'.active = plugin.active  BY <2>2, <2>3, <3>1 DEF Ordered
    <3>2. CASE e.type = "start" /\ plugin'.active = e.id
      <4>1. e.id <= turns  BY <2>3, <3>2 DEF Numbered
      <4>2. \A f \in Upcoming' : f.type = "start" => e.id < f.id
        BY <2>1, <2>2, <3>2, FirstStart
      <4> QED  BY <2>2, <3>2, <4>1, <4>2
    <3> QED  BY <2>4, <3>1, <3>2
  <2> QED  BY <1>1, <2>2, <2>5, QueueStep DEF Ordered
<1>4. CASE Reload
  <2>1. plugin'.active = None  BY <1>0, <1>4, ResetTypes DEF Reload
  <2>2. events' = <<>>  BY <1>4 DEF Reload
  <2> QED  BY <1>1, <2>1, <2>2, QueueStep DEF Ordered
<1>5. ASSUME NEW f \in Events, events' = Append(events, f), f.type = "start" => f.id = turns + 1,
             turns' = (IF f.type = "start" THEN turns + 1 ELSE turns), plugin' = plugin
      PROVE  Ordered'
  <2>1. Upcoming' = Upcoming \cup {f}  BY <1>00, <1>5, OneMoreEvent
  <2>2. plugin'.active # None => /\ plugin'.active <= turns'
                                 /\ \A e \in Upcoming' : e.type = "start" => plugin'.active < e.id
    BY <1>0, <1>5, <2>1 DEF Ordered
  <2> QED  BY <1>1, <1>5, <2>2, QueueStep DEF Ordered
<1>6. ASSUME NEW s \in Sessions, Switch(s) PROVE Ordered'
  <2> PICK f : f = Event("reset", 0, FALSE)  OBVIOUS
  <2>1. f \in Events /\ f.type # "start"  BY DEF Event, Events
  <2>2. turns' = turns /\ plugin' = plugin /\ events' = Append(events, f)
    BY <1>6 DEF Switch, turns
  <2> QED  BY <1>5, <2>1, <2>2
<1>7. ASSUME NEW key \in prompts \cup {None}, NEW text \in Texts \cup {None}, StartTurn(key, text)
      PROVE  Ordered'
  <2> PICK f : f = Event("start", turn', FALSE)  OBVIOUS
  <2>1. turns' = turns + 1 /\ turn' = turns + 1  BY <1>7, StartedTurn
  <2>2. f \in Events /\ f.type = "start" /\ f.id = turns + 1
    BY <1>0, <2>1 DEF Event, Events
  <2> QED  BY <1>5, <1>7, <2>1, <2>2 DEF StartTurn
<1>8. ASSUME NEW ok \in BOOLEAN, EndTurn(ok) PROVE Ordered'
  <2> PICK f : f = Event("end", turn, ok)  OBVIOUS
  <2>1. turn \in 1 .. turns /\ turns' = turns  BY <1>8, EndedTurn
  <2>2. f \in Events /\ f.type # "start"  BY <1>0, <2>1 DEF Event, Events
  <2> QED  BY <1>5, <1>8, <2>1, <2>2 DEF EndTurn
<1> QED  BY <1>2, <1>3, <1>4, <1>6, <1>7, <1>8 DEF Next, Inward
\* How a task of the button comes to where it is.
Came(t) ==
    \/ pc'[t] = pc[t] /\ job'[t] = job[t]
    \/ /\ job'[t].key = job[t].key /\ job'[t].epoch = job[t].epoch /\ job'[t].idle = job[t].idle
       /\ pc[t] \in Pressing
       /\ pc'[t] \notin {"admitted", "submit"} \/ Admit(t) \/ Admitted(t)

LEMMA CameStep ==
    ASSUME Types, Held, Inward, NEW t \in Tasks, pc'[t] \in Pressing
    PROVE  Came(t) \/ Press(t)
<1>1. CASE pc'[t] = pc[t] /\ job'[t] = job[t]  BY <1>1 DEF Came
<1>2. CASE UNCHANGED <<pc, job>>  BY <1>2 DEF Came
<1>3. ASSUME NEW u \in Tasks, (\E prepare \in BOOLEAN : Act(u, prepare)) PROVE Came(t)
  <2>1. CASE u = t
    <3>1. Goto(t, "acted")  BY <1>3, <2>1 DEF Act, Begin
    <3> QED  BY <3>1, GotoEffect DEF Types, Lines, Pressing
  <2>2. CASE u # t  BY <1>3, <2>2 DEF Act, Begin, Goto, Types, PluginTypes, Came
  <2> QED  BY <2>1, <2>2
<1>4. ASSUME NEW u \in Tasks, Press(u) PROVE Came(t) \/ Press(t)
  BY <1>4, PressTypes DEF Came
<1>5. ASSUME NEW u \in Tasks, Finish(u) PROVE Came(t)
  <2>1. /\ pc'[u] = "idle"
        /\ \A v \in Tasks \ {u} : pc'[v] = pc[v] /\ job'[v] = job[v]
    BY <1>5, FinishEffect DEF Types
  <2> QED  BY <2>1 DEF Came, Pressing
<1>6. ASSUME NEW u \in Tasks, Claim(u) PROVE Came(t)
  <2>1. pc[u] \in Pressing  BY <1>6 DEF Claim, Pressing, Lines
  <2> QED  BY <1>6, <2>1, ClaimTypes DEF Came
<1>7. ASSUME NEW u \in Tasks, Admit(u) PROVE Came(t)
  <2>1. pc[u] \in Pressing  BY <1>7 DEF Admit, Pressing, Lines
  <2>2. CASE u = t  BY <1>7, <2>1, <2>2, AdmitTypes DEF Came
  <2>3. CASE u # t  BY <1>7, <2>3, AdmitTypes DEF Came
  <2> QED  BY <2>2, <2>3
<1>8. ASSUME NEW u \in Tasks, Admitted(u) PROVE Came(t)
  <2>1. pc[u] \in Pressing  BY <1>8 DEF Admitted, Pressing, Lines
  <2>2. CASE u = t  BY <1>8, <2>1, <2>2, AdmittedTypes DEF Came
  <2>3. CASE u # t  BY <1>8, <2>3, AdmittedTypes DEF Came
  <2> QED  BY <2>2, <2>3
<1>9. ASSUME NEW u \in Tasks, Submit(u) \/ Acknowledge(u) PROVE Came(t)
  <2>1. /\ pc'[u] \in {"submitted", "observing"} /\ \A v \in Tasks \ {u} : pc'[v] = pc[v]
        /\ job' = job /\ pc[u] \in Pressing
    BY <1>9, SubmitTypes, AcknowledgeTypes DEF Submit, Acknowledge, Pressing, Lines
  <2> QED  BY <2>1 DEF Came
<1>10. ASSUME NEW u \in Tasks, Claimed(u) PROVE Came(t)
  <2>1. pc[u] \in Pressing  BY <1>10 DEF Claimed, Pressing, Lines
  <2>2. CASE job[u].ans # "none"  BY <1>10, <2>1, <2>2, ClaimedTypes DEF Came
  <2> QED  BY <1>5, <1>10, <2>2 DEF Claimed
<1>11. ASSUME NEW u \in Tasks, Checked(u) PROVE Came(t)
  <2>1. pc[u] \in Pressing  BY <1>11 DEF Checked, Pressing, Lines
  <2> QED  BY <1>11, <2>1, CheckedTypes DEF Came
<1> QED
  BY <1>2, <1>3, <1>4, <1>5, <1>6, <1>7, <1>8, <1>9, <1>10, <1>11
  DEF Inward, Step, OpenPane, ClosePane, Record, ActAnswer, Observed, vars

\* A step of the plugin that handles no event: what it was informed of it still is.
LEMMA InformedInward ==
    ASSUME Types, Held, Owned, Informed, Inward
    PROVE  Informed'
<1>1. /\ sess' = sess /\ ev' = ev /\ turn' = turn /\ turns' = turns /\ events' = events
      /\ plugin'.gen = plugin.gen /\ plugin'.turnGen = plugin.turnGen
      /\ plugin'.active = plugin.active
      /\ plugin'.pane => plugin.pane \/ turn = None
  BY PluginOnly
<1>2. Upcoming' = Upcoming /\ \A type : Pending(type)' = Pending(type)
  BY <1>1 DEF Upcoming, Pending
<1>3. \A t \in Tasks : Current(t)' => (Current(t) /\ Came(t)) \/ Press(t)
  <2> SUFFICES ASSUME NEW t \in Tasks, Current(t)', ~Press(t)
               PROVE  Current(t) /\ Came(t)
    OBVIOUS
  <2>1. Came(t)  BY CameStep DEF Current
  <2> QED  BY <1>1, <2>1 DEF Current, Came
<1>4. turn' # None => \A e \in Upcoming' : e.type = "end" => e.id # turn'
  BY <1>1, <1>2 DEF Informed
<1>5. turn' # None /\ (plugin'.pane \/ \E t \in Tasks : Current(t)') =>
         \/ \E e \in Upcoming' : e.type = "start" /\ e.id = turn'
         \/ Pending("reset")' \/ plugin'.active = turn'
  <2> HAVE turn' # None /\ (plugin'.pane \/ \E t \in Tasks : Current(t)')
  <2>1. plugin.pane \/ \E t \in Tasks : Current(t)  BY <1>1, <1>3 DEF Press
  <2> QED  BY <1>1, <1>2, <2>1 DEF Informed
<1>6. \A t \in Tasks : Current(t)' => job'[t].idle <= plugin'.turnGen
  <2> SUFFICES ASSUME NEW t \in Tasks, Current(t)' PROVE job'[t].idle <= plugin'.turnGen
    OBVIOUS
  <2>1. CASE Press(t)
    <3>1. job'[t].idle = plugin.turnGen /\ plugin.turnGen \in Nat
      BY <2>1, PressTypes DEF Types, PluginTypes, Plugins
    <3> QED  BY <1>1, <3>1
  <2>2. CASE Current(t) /\ Came(t)  BY <1>1, <2>2 DEF Informed, Came
  <2> QED  BY <1>3, <2>1, <2>2
<1>7. \A t \in Tasks : Current(t)' /\ Ready(t)' =>
         \/ Pending("start")' \/ Pending("reset")' \/ job'[t].idle < plugin'.turnGen
         \/ ev'[job'[t].key.sess] = job'[t].key.ev
  <2> SUFFICES ASSUME NEW t \in Tasks, Current(t)', Ready(t)'
               PROVE  \/ Pending("start") \/ Pending("reset") \/ job'[t].idle < plugin.turnGen
                      \/ ev[job'[t].key.sess] = job'[t].key.ev
    BY <1>1, <1>2
  <2>1. ~Press(t)  BY PressTypes DEF Ready
  <2>2. Current(t) /\ Came(t)  BY <1>3, <2>1
  <2>3. CASE Ready(t) /\ job'[t].key = job[t].key /\ job'[t].idle = job[t].idle
    BY <2>2, <2>3 DEF Informed, Ready
  <2>4. CASE Admit(t)
    <3>1. pc'[t] = "admitted" /\ job'[t].ans = "yes" /\ job'[t].key = job[t].key
      BY <2>4, AdmitTypes DEF Ready
    <3>2. job[t] \in Jobs  BY <2>2 DEF Current, Pressing, Lines, Types, PluginTypes
    <3>3. job' # [job EXCEPT ![t].ans = "no"] /\ job' # [job EXCEPT ![t].ans = "error"]
      BY <3>1, <3>2 DEF Types, PluginTypes, Jobs
    <3>4. Context(job[t].key)  BY <2>4, <3>3 DEF Admit
    <3> QED  BY <3>1, <3>4 DEF Context, Evidence
  <2>5. CASE Admitted(t)
    <3>1. job[t].ans = "yes"
      <4>1. job[t].ans # "yes" => Goto(t, "observing")  BY <2>5 DEF Admitted
      <4> QED  BY <4>1, GotoEffect DEF Ready, Types, Lines
    <3> QED  BY <2>3, <2>5, <3>1, AdmittedTypes DEF Ready, Admitted
  <2>6. CASE pc'[t] = pc[t] /\ job'[t] = job[t]  BY <2>3, <2>6 DEF Ready
  <2> QED  BY <2>2, <2>4, <2>5, <2>6 DEF Came, Ready
<1>8. \A t \in Tasks : Current(t)' /\ pc'[t] = "submit" /\ job'[t].same =>
         Pending("reset")' \/ sess' = job'[t].key.sess
  <2> SUFFICES ASSUME NEW t \in Tasks, Current(t)', pc'[t] = "submit", job'[t].same
               PROVE  Pending("reset") \/ sess = job'[t].key.sess
    BY <1>1, <1>2
  <2>1. ~Press(t)  BY PressTypes
  <2>2. Current(t) /\ Came(t)  BY <1>3, <2>1
  <2>3. CASE pc'[t] = pc[t] /\ job'[t] = job[t]  BY <2>2, <2>3 DEF Informed
  <2>4. CASE Admitted(t)
    <3>1. job[t].ans = "yes"
      <4>1. job[t].ans # "yes" => Goto(t, "observing")  BY <2>4 DEF Admitted
      <4> QED  BY <4>1, GotoEffect DEF Types, Lines
    <3>2. job' = [job EXCEPT ![t].same = (sess = job[t].key.sess)]  BY <2>4, <3>1 DEF Admitted
    <3>3. job[t] \in Jobs  BY <2>2 DEF Current, Pressing, Lines, Types, PluginTypes
    <3>4. job'[t] = [job[t] EXCEPT !.same = (sess = job[t].key.sess)]
      BY <3>2 DEF Types, PluginTypes
    <3>5. job'[t].same = (sess = job[t].key.sess) /\ job'[t].key = job[t].key
      BY <3>3, <3>4 DEF Jobs
    <3> QED  BY <3>5
  <2>5. ~Admit(t)  BY AdmitTypes
  <2> QED  BY <2>2, <2>3, <2>4, <2>5 DEF Came
<1> QED  BY <1>4, <1>5, <1>6, <1>7, <1>8 DEF Informed, Ready

LEMMA InformedDeliver ==
    ASSUME Types, Owned, Numbered, Ordered, Informed, Deliver
    PROVE  Informed'
<1>1. PICK e : e = Head(events)  OBVIOUS
<1>2. /\ sess' = sess /\ ev' = ev /\ turn' = turn /\ pc' = pc /\ job' = job
      /\ e \in Events /\ events # <<>> /\ events' = Tail(events)
  BY <1>1, DeliverEffect
<1>3. /\ Upcoming' \subseteq Upcoming /\ e \in Upcoming /\ Upcoming \subseteq Upcoming' \cup {e}
  BY <1>1, <1>2, OneEventLess DEF Types
<1>4. plugin \in Plugins /\ plugin.gen \in Nat /\ plugin.turnGen \in Nat /\ e.id \in Nat
  BY <1>2 DEF Types, PluginTypes, Plugins, Events
<1>5. \A t \in Tasks : pc[t] \in Pressing => job[t].epoch <= plugin.gen /\ job[t] \in Jobs
  BY DEF Owned, Pressing, Types, PluginTypes
<1>6. turn' # None => \A f \in Upcoming' : f.type = "end" => f.id # turn'
  BY <1>2, <1>3 DEF Informed
<1>7. CASE e.type = "reset" /\ plugin' = Reset
  <2>1. plugin'.gen = plugin.gen + 1 /\ ~plugin'.pane  BY <1>4, <1>7, ResetTypes
  <2>2. \A t \in Tasks : ~Current(t)'
    <3> TAKE t \in Tasks
    <3>1. CASE pc[t] \in Pressing
      <4>1. job[t].epoch \in Nat  BY <1>5, <3>1 DEF Jobs
      <4> QED  BY <1>2, <1>4, <1>5, <2>1, <3>1, <4>1 DEF Current
    <3> QED  BY <1>2, <3>1 DEF Current
  <2> QED  BY <1>6, <2>1, <2>2 DEF Informed
<1>8. CASE e.type # "reset" /\ plugin'.gen = plugin.gen /\ plugin'.pane = plugin.pane
  <2>1. \A t \in Tasks : Current(t)' => Current(t) /\ job'[t] = job[t]
    BY <1>2, <1>8 DEF Current
  <2>2. Pending("reset") => Pending("reset")'  BY <1>3, <1>8 DEF Pending
  <2>3. \/ e.type = "start" /\ plugin'.turnGen = plugin.turnGen + 1 /\ plugin'.active = e.id
        \/ /\ e.type = "end" /\ plugin'.turnGen = plugin.turnGen
           /\ plugin'.active = (IF plugin.active = e.id THEN None ELSE plugin.active)
    <3>1. \/ e.type = "start" /\ plugin' = [plugin EXCEPT !.active = e.id, !.turnGen = @ + 1]
          \/ /\ e.type = "end"
             /\ plugin' = [plugin EXCEPT !.active = IF @ = e.id THEN None ELSE @]
      BY <1>1, <1>8, DeliverEffect
    <3> QED  BY <1>4, <3>1 DEF Plugins
  <2>4. turn' # None /\ (plugin'.pane \/ \E t \in Tasks : Current(t)') =>
           \/ \E f \in Upcoming' : f.type = "start" /\ f.id = turn'
           \/ Pending("reset")' \/ plugin'.active = turn'
    <3> HAVE turn' # None /\ (plugin'.pane \/ \E t \in Tasks : Current(t)')
    <3>1. \/ \E f \in Upcoming : f.type = "start" /\ f.id = turn
          \/ Pending("reset") \/ plugin.active = turn
      BY <1>2, <1>8, <2>1 DEF Informed
    <3>2. turn \in Nat /\ turn # None
      BY <1>2, ContinuationAssumption DEF Types, HostTypes, turns
    <3>3. CASE \E f \in Upcoming : f.type = "start" /\ f.id = turn
      BY <1>2, <1>3, <2>3, <3>3
    <3>4. CASE plugin.active = turn
      <4>1. e.type = "end" => e.id # turn  BY <1>2, <1>3 DEF Informed
      <4>2. e.type # "start"
        <5> SUFFICES ASSUME e.type = "start" PROVE FALSE  OBVIOUS
        <5>1. plugin.active < e.id  BY <1>3, <3>2, <3>4 DEF Ordered
        <5>2. e.id <= turns /\ turn = turns  BY <1>2, <1>3 DEF Numbered, Ordered
        <5> QED  BY <1>4, <3>2, <3>4, <5>1, <5>2
      <4> QED  BY <1>2, <2>3, <3>4, <4>1, <4>2
    <3> QED  BY <2>2, <3>1, <3>3, <3>4
  <2>5. \A t \in Tasks : Current(t) => job[t].idle \in Nat /\ job[t].idle <= plugin.turnGen
    BY <1>5 DEF Informed, Current, Jobs
  <2>6. \A t \in Tasks : Current(t)' => job'[t].idle <= plugin'.turnGen
    BY <1>4, <2>1, <2>3, <2>5
  <2>7. \A t \in Tasks : Current(t)' /\ Ready(t)' =>
           \/ Pending("start")' \/ Pending("reset")' \/ job'[t].idle < plugin'.turnGen
           \/ ev'[job'[t].key.sess] = job'[t].key.ev
    <3> SUFFICES ASSUME NEW t \in Tasks, Current(t)', Ready(t)'
                 PROVE  \/ Pending("start")' \/ Pending("reset")'
                        \/ job[t].idle < plugin'.turnGen
                        \/ ev[job[t].key.sess] = job[t].key.ev
      BY <1>2
    <3>1. Current(t) /\ Ready(t)  BY <1>2, <2>1 DEF Ready
    <3>2. CASE Pending("start")
      <4>1. Pending("start")' \/ e.type = "start"  BY <1>3, <3>2 DEF Pending
      <4> QED  BY <1>4, <2>3, <2>5, <3>1, <4>1
    <3>3. CASE job[t].idle < plugin.turnGen  BY <1>4, <2>3, <2>5, <3>1, <3>3
    <3> QED  BY <2>2, <3>1, <3>2, <3>3 DEF Informed, Ready
  <2>8. \A t \in Tasks : Current(t)' /\ pc'[t] = "submit" /\ job'[t].same =>
           Pending("reset")' \/ sess' = job'[t].key.sess
    BY <1>2, <2>1, <2>2 DEF Informed
  <2> QED  BY <1>6, <2>4, <2>6, <2>7, <2>8 DEF Informed, Ready
<1>9. \/ e.type = "reset" /\ plugin' = Reset
      \/ e.type # "reset" /\ plugin'.gen = plugin.gen /\ plugin'.pane = plugin.pane
  <2>1. \/ e.type = "reset" /\ plugin' = Reset
        \/ e.type = "start" /\ plugin' = [plugin EXCEPT !.active = e.id, !.turnGen = @ + 1]
        \/ e.type = "end" /\ plugin' = [plugin EXCEPT !.active = IF @ = e.id THEN None ELSE @]
    BY <1>1, DeliverEffect
  <2> QED  BY <1>4, <2>1 DEF Plugins
<1> QED  BY <1>7, <1>8, <1>9

\* What the host does leaves an event behind.
LEMMA InformedHost ==
    ASSUME Types, Numbered, Informed, plugin' = plugin, pc' = pc, job' = job,
           NEW e \in Events, events' = Append(events, e),
           \/ /\ e.type = "start" /\ e.id = turns + 1 /\ sess' = sess
              /\ turn' # None => turn' = turns + 1
           \/ e.type = "end" /\ turn' = None /\ ev' = ev /\ sess' = sess
           \/ e.type = "reset" /\ turn' = turn /\ ev' = ev
    PROVE  Informed'
<1>1. Upcoming' = Upcoming \cup {e}  BY OneMoreEvent DEF Types
<1>2. /\ Pending(e.type)'
      /\ \A type : Pending(type) => Pending(type)'
  BY <1>1 DEF Pending
<1>3. \A t \in Tasks : Current(t)' = Current(t) /\ Ready(t)' = Ready(t)  BY DEF Current, Ready
<1>4. turns \in Nat /\ \A f \in Upcoming : f.type = "end" => f.id \in Nat /\ f.id <= turns
  BY UpcomingTypes DEF Types, HostTypes, Events, Numbered, turns
<1>5. turn' # None => \A f \in Upcoming' : f.type = "end" => f.id # turn'
  BY <1>1, <1>4 DEF Informed
<1>6. turn' # None /\ (plugin'.pane \/ \E t \in Tasks : Current(t)') =>
         \/ \E f \in Upcoming' : f.type = "start" /\ f.id = turn'
         \/ Pending("reset")' \/ plugin'.active = turn'
  <2>1. CASE e.type = "start"  BY <1>1, <2>1
  <2>2. CASE e.type = "reset"  BY <1>2, <2>2
  <2> QED  BY <2>1, <2>2
<1>7. \A t \in Tasks : Current(t)' => job'[t].idle <= plugin'.turnGen  BY <1>3 DEF Informed
<1>8. \A t \in Tasks : Current(t)' /\ Ready(t)' =>
         \/ Pending("start")' \/ Pending("reset")' \/ job'[t].idle < plugin'.turnGen
         \/ ev'[job'[t].key.sess] = job'[t].key.ev
  BY <1>2, <1>3 DEF Informed, Ready
<1>9. \A t \in Tasks : Current(t)' /\ pc'[t] = "submit" /\ job'[t].same =>
         Pending("reset")' \/ sess' = job'[t].key.sess
  BY <1>2, <1>3 DEF Informed
<1> QED  BY <1>5, <1>6, <1>7, <1>8, <1>9 DEF Informed, Ready

LEMMA InformedStep ==
    ASSUME Types, Held, Owned, Numbered, Ordered, Informed, [Next]_vars
    PROVE  Informed'
<1>1. CASE Inward  BY <1>1, InformedInward
<1>2. CASE Deliver  BY <1>2, InformedDeliver
<1>3. CASE Reload
  <2>1. \A t \in Tasks : pc'[t] = "idle"  BY <1>3 DEF Reload
  <2>2. ~plugin'.pane  BY <1>3, ResetTypes DEF Reload, Types, PluginTypes
  <2>3. Upcoming' = {}
    <3>1. events' = <<>>  BY <1>3 DEF Reload
    <3>2. Len(events') = 0 /\ 1 .. 0 = {}  BY <3>1
    <3> QED  BY <3>2 DEF Upcoming
  <2> QED  BY <2>1, <2>2, <2>3 DEF Informed, Current, Pressing
<1>4. ASSUME NEW s \in Sessions, Switch(s) PROVE Informed'
  <2> PICK e : e = Event("reset", 0, FALSE)  OBVIOUS
  <2>1. e \in Events /\ e.type = "reset"  BY DEF Event, Events
  <2> QED  BY <1>4, <2>1, InformedHost DEF Switch
<1>5. ASSUME NEW key \in prompts \cup {None}, NEW text \in Texts \cup {None}, StartTurn(key, text)
      PROVE  Informed'
  <2> PICK e : e = Event("start", turn', FALSE)  OBVIOUS
  <2>1. turns \in Nat /\ turn' = turns + 1  BY <1>5, StartedTurn
  <2>2. e \in Events /\ e.type = "start" /\ e.id = turns + 1  BY <2>1 DEF Event, Events
  <2> QED  BY <1>5, <2>1, <2>2, InformedHost DEF StartTurn
<1>6. ASSUME NEW ok \in BOOLEAN, EndTurn(ok) PROVE Informed'
  <2> PICK e : e = Event("end", turn, ok)  OBVIOUS
  <2>1. turns \in Nat /\ turn \in 1 .. turns  BY <1>6, EndedTurn
  <2>2. e \in Events /\ e.type = "end"  BY <2>1 DEF Event, Events
  <2> QED  BY <1>6, <2>2, InformedHost DEF EndTurn
<1> QED  BY <1>1, <1>2, <1>3, <1>4, <1>5, <1>6 DEF Next, Inward
-----------------------------------------------------------------------------
(* Theorems. *)

LEMMA Initially == Init => IInv
<1> SUFFICES ASSUME Init PROVE IInv  OBVIOUS
<1>1. plugin = Fresh /\ Fresh \in Plugins /\ Fresh.gen = 0 /\ Fresh.active = None
      /\ Fresh.attempt = None /\ ~Fresh.busy /\ ~Fresh.pane
  BY DEF Init, Fresh, Plugins
<1>2. sess \in Sessions  BY ContinuationAssumption DEF Init
<1>3. Upcoming = {} /\ events \in Seq(Events) /\ 1 .. Len(events) = {}
  <2>1. events = <<>> /\ Len(events) = 0 /\ 1 .. 0 = {}  BY DEF Init
  <2> QED  BY <2>1 DEF Upcoming
<1>4. HostTypes /\ turns = 0 /\ ran = <<>> /\ 1 .. turns = {} /\ \A k : ~Ran(k)
  <2>1. ran = <<>> /\ turns = 0 /\ 1 .. 0 = {} /\ ran \in Seq(RanTurns)  BY DEF Init, turns
  <2>2. \A k : ~Ran(k)  BY <2>1 DEF Ran
  <2> QED  BY <1>2, <1>3, <2>1, <2>2, ContinuationAssumption DEF Init, HostTypes
<1>5. /\ \A t \in Tasks : pc[t] = "idle"
      /\ pc \in [Tasks -> Lines] /\ job \in [Tasks -> Jobs \cup {None}]
  BY DEF Init, Lines
<1>6. /\ DOMAIN attempts = {} /\ DOMAIN recs = {} /\ DOMAIN submitted = {}
      /\ attempts \in [{} -> Attempts] /\ recs \in [{} -> Records]
      /\ submitted \in [{} -> Nat]
  BY DEF Init
<1>7. turn = None /\ prompts = {}  BY DEF Init
<1>8. Types  BY <1>1, <1>4, <1>5, <1>6 DEF Types, PluginTypes, FileTypes, Pressing
<1>9. Owned /\ Held /\ Dropped
  BY <1>1, <1>4, <1>5, <1>6, <1>7 DEF Owned, Owner, Held, Holder, Dropped
<1>10. Numbered /\ Completed /\ Ordered /\ Informed
  <2>1. \A k, n : ~Has(k, n)  BY <1>6 DEF Has
  <2>2. Len(events) = 0  BY DEF Init
  <2> QED
    BY <1>1, <1>3, <1>5, <1>6, <1>7, <2>1, <2>2
    DEF Numbered, Completed, Ordered, Informed, Current, Pressing
<1> QED  BY <1>8, <1>9, <1>10 DEF IInv

LEMMA Inductive == IInv /\ [Next]_vars => IInv'
  BY TypesStep, OwnedStep, HeldStep, DroppedStep, NumberedStep, CompletedStep, OrderedStep,
     InformedStep DEF IInv

\* The inductive invariant: the reservation, its holder, the host's turns and what the
\* plugin has heard of them agree in every state of register.js and its commands.
THEOREM Invariance == Spec => []IInv
  BY Initially, Inductive, PTL DEF Spec

\* The prompt of a reservation is submitted once, after it was admitted on file, and the
\* plugin that waits for it is busy with exactly one task of its own generation.
THEOREM Delivered == Spec => []DeliveredOnce
<1>1. IInv => DeliveredOnce
  <2> SUFFICES ASSUME IInv PROVE DeliveredOnce  OBVIOUS
  <2>1. TypeOK
    <3>1. DOMAIN ran = 1 .. turns  BY DEF IInv, Types, HostTypes, turns
    <3>2. turn \in DOMAIN ran \cup {None} /\ \A n \in DOMAIN ran :
             ran[n].key \in DOMAIN submitted \cup {None}
      BY <3>1 DEF IInv, Types, HostTypes, FileTypes
    <3> QED
      BY <3>2, ContinuationAssumption
      DEF IInv, Types, HostTypes, PluginTypes, FileTypes, TypeOK, Plugins, Lines, Records
  <2>2. SubmittedOnce /\ AdmittedFirst  BY DEF IInv, Held, SubmittedOnce, AdmittedFirst
  <2>3. BusyOwned
    <3> DEFINE Own == {t \in Tasks : pc[t] # "idle" /\ job[t].epoch = plugin.gen}
    <3>1. plugin.busy <=> Own # {}  BY DEF IInv, Owned, Owner
    <3>2. \A t, u \in Own : t = u  BY DEF IInv, Owned, Owner
    <3> HIDE DEF Own
    <3>3. CASE Own = {}
      <4>1. Cardinality(Own) = 0  BY <3>3, FS_EmptySet
      <4> QED  BY <3>1, <3>3, <4>1 DEF BusyOwned, Own
    <3>4. CASE Own # {}
      <4>1. PICK t : Own = {t}  BY <3>2, <3>4
      <4>2. Cardinality(Own) = 1  BY <4>1, FS_Singleton
      <4> QED  BY <3>1, <3>4, <4>2 DEF BusyOwned, Own
    <3> QED  BY <3>3, <3>4
  <2> QED  BY <2>1, <2>2, <2>3 DEF DeliveredOnce
<1> QED  BY <1>1, Invariance, PTL

\* What a turn says is what the prompt of it says, or what its user may say.
Voiced == \A n \in 1 .. turns :
    IF ran[n].key = None THEN ran[n].text \in UserTexts \cup {None}
    ELSE ran[n].text = Text[ran[n].key]

LEMMA VoicedStep == ASSUME Types, Voiced, [Next]_vars PROVE Voiced'
<1>1. ASSUME NEW n \in 1 .. turns
      PROVE  IF ran'[n].key = None THEN ran'[n].text \in UserTexts \cup {None}
             ELSE ran'[n].text = Text[ran'[n].key]
  BY RanStep DEF Voiced
<1>2. ASSUME NEW key \in prompts \cup {None}, NEW text \in Texts \cup {None}, StartTurn(key, text)
      PROVE  /\ ran'[turns + 1].key = key /\ ran'[turns + 1].text = text
             /\ IF key = None THEN text \in UserTexts \cup {None} ELSE text = Text[key]
  BY <1>2, StartedTurn DEF StartTurn
<1>3. ASSUME NEW ok \in BOOLEAN, EndTurn(ok) PROVE turns' = turns  BY <1>3, EndedTurn
<1>4. ASSUME UNCHANGED <<turn, ran>> PROVE turns' = turns  BY <1>4 DEF turns
<1>5. \A n \in 1 .. turns' : n \in 1 .. turns \/ n = turns + 1  BY RanStep
<1> SUFFICES ASSUME NEW n \in 1 .. turns'
            PROVE  IF ran'[n].key = None THEN ran'[n].text \in UserTexts \cup {None}
                   ELSE ran'[n].text = Text[ran'[n].key]
  BY DEF Voiced
<1> QED  BY <1>1, <1>2, <1>3, <1>4, <1>5, RanCases

\* A record that says dropped is of a prompt that started no turn.  The turn on record is
\* one with the text of the prompt, it is on record for no other reservation, and one that
\* is said to have ended did, with that result.  It is the turn of that very prompt, unless
\* a user or another submitted prompt says the same.
THEOREM RecordsTrue == Spec => []RecordTruth
<1>1. IInv /\ Voiced => RecordTruth
  <2> SUFFICES ASSUME IInv, Voiced PROVE RecordTruth  OBVIOUS
  <2>1. DroppedTruth  BY DEF IInv, Dropped, Gone, DroppedTruth
  <2>2. ASSUME NEW k \in DOMAIN recs, recs[k].done # None
        PROVE  recs[k].turn # None /\ ran[recs[k].turn].how = How(recs[k].done)
    BY <2>2 DEF IInv, Completed, Fated
  <2>3. ASSUME NEW k \in DOMAIN recs, recs[k].turn # None
        PROVE  /\ k \in Keys /\ recs[k].turn \in 1 .. turns /\ recs[k].turn \in DOMAIN ran
               /\ ran[recs[k].turn].text = Text[k]
               /\ \A j \in DOMAIN recs : recs[j].turn = recs[k].turn => j = k
    <3>1. /\ k \in Keys /\ recs[k].turn \in Nat /\ Has(k, recs[k].turn)
          /\ \A j \in DOMAIN recs : j \in Keys /\ (recs[j].turn = recs[k].turn => Has(j, recs[k].turn))
      BY <2>3 DEF IInv, Types, FileTypes, Records, Has
    <3>2. DOMAIN ran = 1 .. turns  BY DEF IInv, Types, HostTypes, turns
    <3> QED  BY <3>1, <3>2 DEF IInv, Numbered
  <2>4. ASSUME NEW k \in DOMAIN recs, recs[k].turn # None
        PROVE  LET key == ran[recs[k].turn].key IN
               IF key = None THEN Text[k] \in UserTexts
               ELSE key \in DOMAIN submitted /\ Text[key] = Text[k]
    <3>1. Text[k] # None  BY <2>3, <2>4, ContinuationAssumption
    <3> QED  BY <2>3, <2>4, <3>1 DEF Voiced, IInv, Types, FileTypes
  <2> QED  BY <2>1, <2>2, <2>3, <2>4 DEF RecordTruth, TurnTruth, ExactTurn
<1>2. Init => Voiced
  <2> SUFFICES ASSUME Init PROVE Voiced  OBVIOUS
  <2>1. turns = 0  BY DEF Init, turns
  <2> QED  BY <2>1 DEF Voiced
<1>3. IInv /\ Voiced /\ [Next]_vars => Voiced'  BY VoicedStep DEF IInv
<1> QED  BY <1>1, <1>2, <1>3, Invariance, PTL DEF Spec

\* What is finally said of prompts grows by what one record comes to say.
LEMMA SaidStep ==
    ASSUME NEW k \in DOMAIN recs', DOMAIN recs' = DOMAIN recs \cup {k},
           \A j \in DOMAIN recs \ {k} : recs'[j] = recs[j],
           k \in DOMAIN recs => ~Final(k)
    PROVE  Said' = Said \cup (IF Final(k)' THEN {FinalWord(k)'} ELSE {})
<1>1. \A j \in DOMAIN recs \ {k} : Final(j)' = Final(j) /\ FinalWord(j)' = FinalWord(j)
  BY DEF Final, FinalWord
<1>2. Said = {FinalWord(j) : j \in {i \in DOMAIN recs \ {k} : Final(i)}}
  BY DEF Said
<1>3. Said' = {FinalWord(j)' : j \in {i \in DOMAIN recs \ {k} : Final(i)}}
              \cup (IF Final(k)' THEN {FinalWord(k)'} ELSE {})
  <2>1. Said' = {FinalWord(j)' : j \in {i \in DOMAIN recs' : Final(i)'}}  BY DEF Said
  <2>2. {i \in DOMAIN recs' : Final(i)'}
          = {i \in DOMAIN recs \ {k} : Final(i)} \cup (IF Final(k)' THEN {k} ELSE {})
    BY <1>1
  <2> QED  BY <2>1, <2>2
<1> QED  BY <1>1, <1>2, <1>3

\* What is said of a prompt, as Delivery names it.
LEMMA SaidOf ==
    ASSUME NEW k
    PROVE  /\ Promise!Dropped(k) <=> k \in DOMAIN recs /\ recs[k].state = "dropped"
           /\ Promise!Settled(k) => k \in DOMAIN recs /\ Final(k)
<1>1. \A s \in Said : s[1] = k => k \in DOMAIN recs /\ Final(k) /\ s = FinalWord(k)
  BY DEF Said, FinalWord
<1>2. FinalWord(k) = <<k, None, "dropped">> <=> recs[k].state = "dropped"
  BY DEF FinalWord, How
<1>3. k \in DOMAIN recs /\ Final(k) => FinalWord(k) \in Said  BY DEF Said
<1>4. Promise!Dropped(k) => k \in DOMAIN recs /\ recs[k].state = "dropped"
  BY <1>1, <1>2 DEF Promise!Dropped
<1>5. k \in DOMAIN recs /\ recs[k].state = "dropped" => Promise!Dropped(k)
  BY <1>2, <1>3 DEF Promise!Dropped, Final
<1> QED  BY <1>1, <1>4, <1>5 DEF Promise!Settled

\* No turn is said to have ended for two reservations.
LEMMA SaidOnce ==
    ASSUME Types, Numbered, NEW k \in DOMAIN recs, recs[k].turn # None, ~Final(k)
    PROVE  \A s \in Said : s[2] # recs[k].turn
<1> SUFFICES ASSUME NEW j \in DOMAIN recs, Final(j), FinalWord(j)[2] = recs[k].turn PROVE FALSE
  BY DEF Said
<1>1. recs[j].turn = recs[k].turn  BY DEF FinalWord
<1>2. j \in Keys /\ k \in Keys /\ recs[k].turn \in Nat  BY DEF Types, FileTypes, Records
<1>3. Has(j, recs[k].turn) /\ Has(k, recs[k].turn)  BY <1>1 DEF Has
<1> QED  BY <1>2, <1>3 DEF Numbered

Promised == <<DOMAIN recs, submitted, ran, Said>>

\* A claim is the reservation, and no other step makes one.
LEMMA ReserveStep ==
    ASSUME Types, NEW t \in Tasks, Claim(t)
    PROVE  Promise!DeliveryNext \/ UNCHANGED Promised
<1> PICK k : k = job[t].key  OBVIOUS
<1>1. CASE recs' = recs  BY <1>1 DEF Claim, Promised, Said, Final, FinalWord, host
<1>2. ASSUME k \notin DOMAIN recs,
             recs' = With(recs, k, [state |-> "reserved", turn |-> None, done |-> None])
      PROVE  Promise!DeliveryNext
  <2>1. /\ DOMAIN recs' = DOMAIN recs \cup {k} /\ k \in DOMAIN recs'
        /\ \A j \in DOMAIN recs \ {k} : recs'[j] = recs[j]
        /\ recs'[k].state = "reserved" /\ recs'[k].done = None
    BY <1>2 DEF With
  <2>2. ~Final(k)'  BY <2>1 DEF Final
  <2>3. Said' = Said  BY <1>2, <2>1, <2>2, SaidStep
  <2>4. Promise!Reserve(k)  BY <1>2, <2>1, <2>3 DEF Claim, Promise!Reserve, host
  <2> QED  BY <2>1, <2>4 DEF Promise!DeliveryNext
<1> QED  BY <1>1, <1>2 DEF Claim, Claimable

\* An admission says nothing final: the record was just reserved.
LEMMA AdmitSilent ==
    ASSUME Types, NEW t \in Tasks, Admit(t)
    PROVE  UNCHANGED Promised
<1> PICK k : k = job[t].key  OBVIOUS
<1>1. CASE recs' = recs  BY <1>1 DEF Admit, Promised, Said, Final, FinalWord, host
<1>2. CASE recs[k].state = "reserved" /\ recs' = [recs EXCEPT ![k].state = "admitted"]
  <2>1. k \in DOMAIN recs  BY DEF Admit, Types, PluginTypes
  <2>2. recs[k] \in Records /\ recs[k].done = None  BY <1>2, <2>1 DEF Types, FileTypes
  <2>3. /\ DOMAIN recs' = DOMAIN recs \cup {k} /\ k \in DOMAIN recs'
        /\ \A j \in DOMAIN recs \ {k} : recs'[j] = recs[j]
    BY <1>2, <2>1 DEF Types, FileTypes
  <2>4. recs'[k] = [recs[k] EXCEPT !.state = "admitted"]
    BY <1>2, <2>1 DEF Types, FileTypes
  <2>5. recs'[k].state = "admitted" /\ recs'[k].done = None  BY <2>2, <2>4 DEF Records
  <2>6. ~Final(k) /\ ~Final(k)'  BY <1>2, <2>2, <2>5 DEF Final
  <2>7. Said' = Said  BY <2>3, <2>6, SaidStep
  <2> QED  BY <2>1, <2>3, <2>7 DEF Admit, Promised, host
<1> QED  BY <1>1, <1>2 DEF Admit

\* Who submits holds the prompt, so it was not submitted before and is not said dropped.
LEMMA SendStep ==
    ASSUME Types, Held, Dropped, NEW t \in Tasks, Submit(t)
    PROVE  Promise!DeliveryNext \/ UNCHANGED Promised
<1> DEFINE k == job[t].key
<1>1. recs' = recs /\ ran' = ran  BY DEF Submit
<1>2. Said' = Said  BY <1>1 DEF Said, Final, FinalWord
<1>3. CASE submitted' = submitted  BY <1>1, <1>2, <1>3 DEF Promised
<1>4. CASE submitted' = With(submitted, k, IF k \in DOMAIN submitted THEN submitted[k] + 1 ELSE 1)
  <2>1. k \in Keys /\ Holder(t, k)
    BY DEF Submit, Holder, Types, PluginTypes, Pressing, Lines
  <2>2. k \in DOMAIN recs \ DOMAIN submitted  BY <2>1 DEF Held
  <2>3. ~Promise!Dropped(k)  BY <2>1, <2>2, SaidOf DEF Dropped, Gone
  <2>4. Promise!Send(k)  BY <1>1, <1>2, <1>4, <2>2, <2>3 DEF Promise!Send, Promise!With, With
  <2> QED  BY <1>1, <2>2, <2>4 DEF Promise!DeliveryNext
<1> QED  BY <1>3, <1>4 DEF Submit

\* The host starts a turn of a prompt it holds, or one of the user.
LEMMA StartStep ==
    ASSUME Types, Dropped, NEW key \in prompts \cup {None}, NEW text \in Texts \cup {None},
           StartTurn(key, text)
    PROVE  Promise!DeliveryNext
<1>1. recs' = recs /\ submitted' = submitted  BY DEF StartTurn
<1>2. Said' = Said  BY <1>1 DEF Said, Final, FinalWord
<1>3. /\ turns + 1 \in DOMAIN ran' /\ ran'[turns + 1].key = key
      /\ ran'[turns + 1].text = text
  <2>1. /\ ran' \in Seq(RanTurns) /\ turns \in Nat /\ turns' = turns + 1
        /\ ran'[turns + 1].key = key /\ ran'[turns + 1].text = text
    BY StartedTurn
  <2>2. DOMAIN ran' = 1 .. turns'  BY <2>1 DEF turns
  <2> QED  BY <2>1, <2>2
<1>4. key # None => key \in DOMAIN submitted /\ ~Ran(key) /\ ~Promise!Dropped(key)
  BY SaidOf DEF Dropped, Gone
<1>5. Promise!Start(key, text)
  BY <1>1, <1>2, <1>4 DEF Promise!Start, StartTurn, Ran
<1> QED  BY <1>3, <1>5 DEF Promise!DeliveryNext

LEMMA EndStep ==
    ASSUME Types, Completed, NEW ok \in BOOLEAN, EndTurn(ok)
    PROVE  Promise!DeliveryNext
<1>1. recs' = recs /\ submitted' = submitted  BY DEF EndTurn
<1>2. Said' = Said  BY <1>1 DEF Said, Final, FinalWord
<1>3. turn \in DOMAIN ran  BY EndedTurn DEF Types, HostTypes, turns
<1>4. ran[turn].how = "running" /\ ran' = [ran EXCEPT ![turn].how = How(ok)]
  BY DEF EndTurn, Completed
<1>5. How(ok) \in Promise!Results  BY DEF How, Promise!Results
<1>6. Promise!End(turn, How(ok))  BY <1>1, <1>2, <1>4 DEF Promise!End
<1> QED  BY <1>3, <1>5, <1>6 DEF Promise!DeliveryNext

\* What an observation adds to the record is so when it comes on file.
LEMMA SayStep ==
    ASSUME Types, Dropped, Numbered, Completed, NEW k \in DOMAIN attempts, Record(k)
    PROVE  Promise!DeliveryNext \/ UNCHANGED Promised
<1> PICK o : o = Head(attempts[k].outbox)  OBVIOUS
<1>1. submitted' = submitted /\ ran' = ran  BY DEF Record, host
<1>2. CASE recs' = recs  BY <1>1, <1>2 DEF Promised, Said, Final, FinalWord
<1>3. ASSUME ~Refused(recs[k], o), recs'[k].state = o.state,
             recs'[k].turn = (IF o.state = "started" THEN o.turn ELSE recs[k].turn),
             recs'[k].done = (IF o.state = "turn-ended" THEN o.ok ELSE recs[k].done)
      PROVE  Promise!DeliveryNext \/ UNCHANGED Promised
  <2>1. /\ o \in Observations /\ o \in Told(k) /\ k \in DOMAIN recs /\ DOMAIN recs' = DOMAIN recs
        /\ \A j \in DOMAIN recs \ {k} : recs'[j] = recs[j]
    BY RecordEffect
  <2>2. recs[k].state \notin {"dropped", "turn-ended"}  BY <1>3 DEF Refused
  <2>3. recs[k].done = None /\ ~Final(k)  BY <2>1, <2>2 DEF Types, FileTypes, Final
  <2>4. ~Promise!Settled(k)  BY <2>3, SaidOf
  <2>5. Said' = Said \cup (IF Final(k)' THEN {FinalWord(k)'} ELSE {})
    BY <2>1, <2>3, SaidStep
  <2>6. CASE o.state = "dropped"
    <3>1. Final(k)' /\ FinalWord(k)' = <<k, None, "dropped">>
      BY <1>3, <2>6 DEF Final, FinalWord
    <3>2. ~Ran(k)  BY <2>1, <2>6 DEF Dropped, Gone
    <3>3. Promise!SayDropped(k)
      BY <1>1, <2>1, <2>4, <2>5, <3>1, <3>2 DEF Promise!SayDropped, Ran
    <3> QED  BY <2>1, <3>3 DEF Promise!DeliveryNext
  <2>7. CASE o.state = "turn-ended"
    <3> DEFINE n == recs[k].turn
    <3>1. recs'[k].done = o.ok /\ o.ok # None /\ recs'[k].turn = n
      BY <1>3, <2>1, <2>7, ContinuationAssumption DEF Observations
    <3>2. Final(k)' /\ FinalWord(k)' = <<k, n, How(o.ok)>>
      BY <1>3, <2>7, <3>1 DEF Final, FinalWord
    <3>3. o.turn # None /\ n = o.turn
      BY <1>3, <2>1, <2>7 DEF Numbered, Refused
    <3>4. ran[n].how = How(o.ok) /\ n \in 1 .. turns  BY <2>1, <2>7, <3>3 DEF Completed, Fated
    <3>5. ran[n].how \in Promise!Results  BY <3>4 DEF How, Promise!Results
    <3>6. n \in DOMAIN ran  BY <3>4 DEF Types, HostTypes, turns
    <3>7. ran[n].text = Text[k]
      <4>1. k \in Keys /\ n \in Nat /\ Has(k, n)
        BY <2>1, <3>3 DEF Types, FileTypes, Records, Has
      <4> QED  BY <4>1 DEF Numbered
    <3>8. \A s \in Said : s[2] # n  BY <2>1, <2>3, <3>3, SaidOnce
    <3>9. Promise!SayEnded(k, n)
      BY <1>1, <2>1, <2>4, <2>5, <3>2, <3>4, <3>5, <3>7, <3>8 DEF Promise!SayEnded
    <3> QED  BY <2>1, <3>6, <3>9 DEF Promise!DeliveryNext
  <2>8. CASE o.state \notin {"dropped", "turn-ended"}
    <3>1. ~Final(k)'  BY <1>3, <2>3, <2>8 DEF Final
    <3> QED  BY <1>1, <2>1, <2>5, <3>1 DEF Promised
  <2> QED  BY <2>6, <2>7, <2>8
<1> QED  BY <1>2, <1>3, RecordEffect

LEMMA PromiseStep == IInv /\ [Next]_vars => [Promise!DeliveryNext]_Promised
<1> SUFFICES ASSUME IInv, [Next]_vars PROVE Promise!DeliveryNext \/ UNCHANGED Promised
  OBVIOUS
<1>1. Types /\ Held /\ Dropped /\ Numbered /\ Completed  BY DEF IInv
<1>2. CASE UNCHANGED <<recs, submitted, ran>>  BY <1>2 DEF Promised, Said, Final, FinalWord
<1>3. ASSUME NEW t \in Tasks,
             (\E prepare \in BOOLEAN : Act(t, prepare)) \/ Press(t) \/ ActAnswer(t)
             \/ Claimed(t) \/ Checked(t) \/ Admitted(t) \/ Acknowledge(t) \/ Observed(t)
      PROVE  UNCHANGED <<recs, submitted, ran>>
  BY <1>3 DEF Act, Press, ActAnswer, Claimed, Checked, Admitted, Acknowledge, Observed, host
<1>4. CASE OpenPane \/ ClosePane \/ Deliver \/ Reload \/ (\E s \in Sessions : Switch(s))
           \/ UNCHANGED vars
  BY <1>2, <1>4 DEF OpenPane, ClosePane, Deliver, Reload, Switch, vars, host
<1> QED
  BY <1>1, <1>2, <1>3, <1>4, ReserveStep, AdmitSilent, SendStep, StartStep, EndStep, SayStep
  DEF Next, Step

\* A reservation, its commands and the plugin deliver a prompt as Delivery says: at most
\* once, at most one turn comes of it, and what is finally on record of it stands and is so,
\* as far as a turn is known by its text.
THEOREM DeliveryKept == Spec => DeliverySpec
<1>1. Init => Promise!DeliveryInit
  <2> SUFFICES ASSUME Init PROVE Promise!DeliveryInit  OBVIOUS
  <2>1. DOMAIN recs = {} /\ submitted = <<>> /\ ran = <<>>  BY DEF Init
  <2>2. Said = {}  BY <2>1 DEF Said
  <2> QED  BY <2>1, <2>2 DEF Promise!DeliveryInit
<1>2. IInv /\ [Next]_vars => [Promise!DeliveryNext]_<<DOMAIN recs, submitted, ran, Said>>
  BY PromiseStep DEF Promised
<1> QED  BY <1>1, <1>2, Invariance, PTL DEF Spec, DeliverySpec, Promise!DeliverySpec

\* What the record of a delivery has come to is not taken back, whatever is observed late.
THEOREM NothingDowngraded == Spec => NotDowngraded
<1> DEFINE Kept(k) == /\ recs[k].state = "turn-ended" => recs'[k] = recs[k]
                      /\ recs[k].state = "started" => recs'[k].state \notin {"queued", "dropped"}
<1>1. ASSUME IInv, [Next]_vars PROVE \A k \in DOMAIN recs : Kept(k)
  <2>1. CASE recs' = recs  BY <2>1
  <2>2. ASSUME NEW t \in Tasks, Claim(t) PROVE \A k \in DOMAIN recs : Kept(k)
    BY <2>1, <2>2 DEF Claim, Claimable, With
  <2>3. ASSUME NEW t \in Tasks, Admit(t) PROVE \A k \in DOMAIN recs : Kept(k)
    <3>1. CASE recs[job[t].key].state = "reserved"
               /\ recs' = [recs EXCEPT ![job[t].key].state = "admitted"]
      <4>1. \A k \in DOMAIN recs \ {job[t].key} : recs'[k] = recs[k]
        BY <3>1 DEF IInv, Types, FileTypes
      <4> QED  BY <3>1, <4>1
    <3> QED  BY <2>1, <2>3, <3>1 DEF Admit
  <2>4. ASSUME NEW j \in DOMAIN attempts, Record(j) PROVE \A k \in DOMAIN recs : Kept(k)
    <3> PICK o : o = Head(attempts[j].outbox)  OBVIOUS
    <3>1. /\ \A k \in DOMAIN recs \ {j} : recs'[k] = recs[k]
          /\ recs' = recs \/ (~Refused(recs[j], o) /\ recs'[j].state = o.state)
      BY <1>1, <2>4, RecordEffect DEF IInv
    <3> QED  BY <3>1 DEF Refused
  <2>5. ASSUME NEW t \in Tasks,
               (\E prepare \in BOOLEAN : Act(t, prepare)) \/ Press(t) \/ ActAnswer(t)
               \/ Claimed(t) \/ Checked(t) \/ Admitted(t) \/ Submit(t) \/ Acknowledge(t)
               \/ Observed(t)
        PROVE  recs' = recs
    BY <2>5 DEF Act, Press, ActAnswer, Claimed, Checked, Admitted, Submit, Acknowledge, Observed
  <2> QED
    BY <1>1, <2>1, <2>2, <2>3, <2>4, <2>5
    DEF Next, Step, OpenPane, ClosePane, Deliver, Reload, StartTurn, EndTurn, Switch, vars
<1>2. IInv /\ [Next]_vars => [\A k \in DOMAIN recs : Kept(k)]_vars  BY <1>1
<1> QED  BY <1>2, Invariance, PTL DEF Spec, NotDowngraded

\* A prompt is submitted to the session and the evidence it was diagnosed for, and never
\* into a turn that runs, unless the plugin has still to hear of what changed.
THEOREM SubmittedFresh == Spec => FreshSubmit
<1> DEFINE Free(k) == k \in prompts' \ prompts /\ events = <<>> =>
                            sess = k.sess /\ ev[sess] = k.ev /\ turn = None
<1>1. ASSUME IInv, [Next]_vars, NEW k \in Keys PROVE Free(k)
  <2> SUFFICES ASSUME k \in prompts' \ prompts, events = <<>>
               PROVE  sess = k.sess /\ ev[sess] = k.ev /\ turn = None
    OBVIOUS
  <2>1. PICK t \in Tasks : Submit(t)
    BY <1>1
    DEF Next, Step, Act, ActAnswer, Press, Claim, Claimed, Checked, Admit, Admitted, Acknowledge,
        Observed, Record, OpenPane, ClosePane, Deliver, Reload, StartTurn, EndTurn, Switch, vars, host
  <2>2. pc[t] = "submit" /\ job[t].key = k /\ job[t].same /\ Quiet(t)  BY <2>1 DEF Submit
  <2>3. Current(t) /\ plugin.active = None /\ plugin.turnGen = job[t].idle
    BY <2>2 DEF Quiet, Current, Pressing, Lines
  <2>4. Upcoming = {}
    <3>1. Len(events) = 0 /\ 1 .. 0 = {}  OBVIOUS
    <3> QED  BY <3>1 DEF Upcoming
  <2>5. plugin.turnGen \in Nat  BY <1>1 DEF IInv, Types, PluginTypes, Plugins
  <2>6. ev[k.sess] = k.ev
    BY <1>1, <2>2, <2>3, <2>4, <2>5 DEF IInv, Informed, Pending
  <2>7. sess = k.sess  BY <1>1, <2>2, <2>3, <2>4 DEF IInv, Informed, Pending
  <2>8. turn = None
    BY <1>1, <2>3, <2>4 DEF IInv, Informed, Pending
  <2> QED  BY <2>6, <2>7, <2>8
<1>2. IInv /\ [Next]_vars => [\A k \in Keys : Free(k)]_vars  BY <1>1
<1> QED  BY <1>2, Invariance, PTL DEF Spec, FreshSubmit

-----------------------------------------------------------------------------
(* The evidence of a session: EvidenceStore. *)

Tails == {"ok", "empty", "bare", "cut"}
Readings ==
    [v : Routes, line : 1 .. Len(Kinds), snap : Nat, att : Ages \cup {"path", "old"},
     st : {"requested", "failed", "completed"}, class : {"test", "none"}]
Fingerprints == Routes \X Nat \X (SUBSET Readings) \X Tails
Plans == [asOf : Nat, refs : Nat, evidence : SUBSET Fingerprints, candidates : SUBSET Fingerprints]

\* What an event says is what its format makes of its line; an older build may have left
\* the class out.
Genuine(e) ==
    /\ e.st = Status(e.v, Kinds[e.line]) /\ e.class \in {"none", Class(e.v, Kinds[e.line])}
    /\ e.line <= e.snap /\ e.snap <= trace

EventsTyped ==
    /\ trace \in 1 .. Len(Kinds) /\ files \in [Routes -> SUBSET Readings]
    /\ \A v \in Routes : IsFiniteSet(files[v]) /\ \A e \in files[v] : e.v = v /\ Genuine(e)

StateTyped ==
    /\ tail \in [Routes -> Tails] /\ mtime \in [Routes -> Nat] /\ ages \in Nat
    /\ written \in [Routes -> 0 .. Period]
    /\ home \in BOOLEAN /\ stamp \in Nat /\ pinned \in BOOLEAN /\ stops \in Nat
    /\ \A x \in DOMAIN journals : journals[x] \in {"prepared", "complete"}
    /\ at \in [Procs -> PCs] /\ DOMAIN work = Procs /\ work = [p \in Procs |-> work[p]]

Locked ==
    /\ lock \in Procs \cup {None} /\ (lock # None => at[lock] # "idle" /\ home)

\* Nothing is on file before there is a state directory.
Homed == ~home => Present = {} /\ plans = <<>>

\* A plan names every file that was written before it was made.
Naming(x) ==
    /\ x \in Plans /\ x.asOf <= Period
    /\ \A v \in Present : written[v] < x.asOf => \E c \in x.candidates : c[1] = v
Planned == plans \in Seq(Plans) /\ \A i \in DOMAIN plans : Naming(plans[i])

Referred == (refs # {} => pinned) /\ RefsKept

\* Without a death or a failed write every snapshot on file is there as a whole.
Whole == stops = 0 =>
    /\ \A v \in Routes : tail[v] = "ok"
    /\ \A v \in Routes : \A e \in files[v] : \A n \in 1 .. e.snap : \E f \in files[v] : f.line = n

Ingesting(p) == \E v \in Formats, t \in 1 .. trace, a \in Ages :
    work[p] = [es |-> Ingested(v, t, a), want |-> {}]
Reviewing(p) == lock = p /\ \E v \in Formats, t \in 1 .. trace :
    work[p] = [es |-> {}, want |-> {Reading(v, n, t, "path") : n \in 1 .. t}]

\* Who deletes has the lock, and what is left of the plan is all there is, old and unnamed.
Deleting(p) ==
    /\ lock = p /\ \E i \in DOMAIN plans : work[p] = plans[i]
    /\ ToUnlink(p) # {} =>
          ~pinned /\ \A w \in Present : tail[w] \in {"ok", "bare"} /\ written[w] < work[p].asOf

\* Who started without a state directory works without the lock, but then there is no
\* plan, and nothing on file is old enough for one.
Unguarded(p) == plans = <<>> /\ \A v \in Present : written[v] = Period

OnFile(p) == Parses => \A e \in work[p].es : Id(e) \in Ids
\* Every event of es is on file with its class.
Serving(f, es) == \A e \in es : \E x \in f[e.v] : x.line = e.line /\ x.class = e.class
UpToDate(p) == stops = 0 => Serving(files, work[p].want)

Own(p) ==
    /\ at[p] \in {"snapped", "marking"} => Ingesting(p)
    /\ at[p] = "report" => (Ingesting(p) \/ Reviewing(p)) /\ OnFile(p) /\ UpToDate(p)
    /\ at[p] = "unlink" => Deleting(p)
    /\ at[p] \in {"marking", "report"} /\ lock # p => Unguarded(p)

EvidenceInv ==
    /\ EventsTyped /\ StateTyped /\ Locked /\ Homed /\ Planned /\ Referred /\ Whole
    /\ \A p \in Procs : Own(p)

LEMMA KindsTyped == Len(Kinds) \in Nat /\ Len(Kinds) >= 1 /\ \A n \in 1 .. Len(Kinds) : Kinds[n] \in {"exec", "result"}
BY EvidenceAssumption

\* What is ingested: one genuine event of each line read.
LEMMA IngestedIs ==
    ASSUME EventsTyped, NEW v \in Formats, NEW t \in 1 .. trace, NEW a \in Ages \cup {"path"}
    PROVE  LET es == Ingested(v, t, a) IN
           /\ es # {} /\ IsFiniteSet(es) /\ es \subseteq Readings
           /\ \A e \in es : e.v = v /\ e.snap = t /\ Genuine(e)
           /\ \A n \in 1 .. t : Reading(v, n, t, a) \in es /\ Reading(v, n, t, a).line = n
                                /\ Reading(v, n, t, a).class = Class(v, Kinds[n])
<1> USE KindsTyped, EvidenceAssumption
<1> DEFINE es == Ingested(v, t, a)
           g == [n \in 1 .. t |-> Reading(v, n, t, a)]
<1>1. v \in Routes /\ t \in Nat /\ 1 \in 1 .. t /\ t <= trace /\ trace <= Len(Kinds) /\ 1 .. t \subseteq 1 .. Len(Kinds)
  BY DEF EventsTyped, Routes
<1>2. IsFiniteSet(es)
  <2>1. g \in Surjection(1 .. t, es) BY DEF Surjection, Ingested
  <2> QED BY <1>1, <2>1, FS_Surjection, FS_Interval
<1>3. ASSUME NEW n \in 1 .. t
      PROVE  /\ Reading(v, n, t, a) \in Readings /\ Reading(v, n, t, a).v = v
             /\ Reading(v, n, t, a).snap = t /\ Genuine(Reading(v, n, t, a))
             /\ Reading(v, n, t, a).line = n /\ Reading(v, n, t, a).class = Class(v, Kinds[n])
  <2>1. Kinds[n] \in {"exec", "result"} BY <1>1
  <2>2. Status(v, Kinds[n]) \in {"requested", "failed", "completed"} /\ Class(v, Kinds[n]) \in {"test", "none"}
    BY DEF Status, Class
  <2> QED BY <1>1, <2>1, <2>2 DEF Reading, Readings, Genuine
<1> QED BY <1>1, <1>2, <1>3 DEF Ingested

-----------------------------------------------------------------------------
(* Reading the formats together. *)

LEMMA StoredAre ==
    ASSUME EventsTyped
    PROVE  /\ Stored = files[1] \cup files[2] \cup files[3] /\ IsFiniteSet(Stored)
           /\ Stored \subseteq Readings
           /\ \A e \in Stored : /\ e \in files[e.v] /\ e.v \in {1, 2, 3} /\ Genuine(e)
                                /\ Kinds[e.line] \in {"exec", "result"}
<1>1. Routes = {1, 2, 3} BY DEF Routes
<1>2. Stored = files[1] \cup files[2] \cup files[3] BY <1>1 DEF Stored
<1>3. IsFiniteSet(files[1]) /\ IsFiniteSet(files[2]) /\ IsFiniteSet(files[3]) BY <1>1 DEF EventsTyped
<1>4. IsFiniteSet(files[1] \cup files[2]) BY <1>3, FS_Union
<1>5. IsFiniteSet(Stored) BY <1>2, <1>3, <1>4, FS_Union
<1>6. \A e \in Stored : e \in Readings /\ e \in files[e.v] /\ e.v \in {1, 2, 3} /\ Genuine(e)
  BY <1>1, <1>2 DEF EventsTyped
<1>7. \A e \in Stored : Kinds[e.line] \in {"exec", "result"} BY <1>6, KindsTyped DEF Readings
<1> QED BY <1>2, <1>5, <1>6, <1>7

\* A key has a first event.
FirstsExist == \A k \in RecordKeys :
    First(k) \in Stored /\ Key(First(k)) = k /\ \A f \in Stored : Key(f) = k => ~Before(f, First(k))

LEMMA FirstExists == EventsTyped => FirstsExist
<1> SUFFICES ASSUME EventsTyped, NEW k \in RecordKeys
             PROVE  \E e \in Stored : Key(e) = k /\ \A f \in Stored : Key(f) = k => ~Before(f, e)
  BY DEF FirstsExist, First
<1> DEFINE S == {e \in Stored : Key(e) = k}
<1>1. S # {} BY DEF RecordKeys
<1>2. \A e \in S : e.v \in {1, 2, 3} /\ (e.v # 3 => e.class = "none")
  BY StoredAre DEF Genuine, Class
<1>3. CASE \E e \in S : e.v = 3 /\ e.class # "none" BY <1>2, <1>3 DEF Before
<1>4. CASE (\E e \in S : e.v = 3) /\ \A e \in S : e.v = 3 => e.class = "none" BY <1>2, <1>4 DEF Before
<1>5. CASE (\E e \in S : e.v = 2) /\ \A e \in S : e.v # 3 BY <1>2, <1>5 DEF Before
<1>6. CASE \A e \in S : e.v = 1 BY <1>1, <1>2, <1>6 DEF Before
<1> QED BY <1>2, <1>3, <1>4, <1>5, <1>6

\* Format 3 agrees with every reading of its record that is not before it.
NewestAgrees == \A g, e \in Stored : g.v = 3 /\ Key(g) = Key(e) /\ ~Before(e, g) => Agree(g, e)

LEMMA NewestAgree == EventsTyped => NewestAgrees
<1> SUFFICES ASSUME EventsTyped, NEW g \in Stored, NEW e \in Stored, g.v = 3, Key(g) = Key(e), ~Before(e, g)
             PROVE  Agree(g, e)
  BY DEF NewestAgrees
<1>1. g.line = e.line BY DEF Key
<1>2. /\ Genuine(g) /\ Genuine(e) /\ e.v \in {1, 2, 3} /\ Kinds[e.line] \in {"exec", "result"}
  BY StoredAre
<1>3. CASE Kinds[e.line] = "exec"
  BY <1>1, <1>2, <1>3 DEF Genuine, Status, Class, Agree, Exec, Result, Before
<1>4. CASE Kinds[e.line] = "result"
  BY <1>1, <1>2, <1>4 DEF Genuine, Status, Class, Agree, Exec, Result, Before
<1> QED BY <1>2, <1>3, <1>4

LEMMA ReadsOnce == EventsTyped => OneReading
<1> SUFFICES ASSUME EventsTyped, Parses, Covered
             PROVE  /\ Reads /\ Cardinality(Effective) = Cardinality({e.line : e \in Stored})
                    /\ \A e \in Effective : e.v = 3
  BY DEF OneReading
<1>1. FirstsExist /\ NewestAgrees BY FirstExists, NewestAgree
<1>2. \A e \in Stored : \E f \in Stored : f.line = e.line /\ f.v = 3
  <2>1. \A f \in files[3] : f \in Stored /\ f.v = 3 BY StoredAre DEF EventsTyped, Routes
  <2> QED BY <2>1 DEF Covered
<1>3. \A e, f \in Stored : Key(e) = Key(f) <=> e.line = f.line
  <2>1. \A e \in Stored : Key(e) = <<e.line, IF Kinds[e.line] = "result" THEN "result" ELSE "requested">>
    BY <1>2 DEF Key, EventType, Result
  <2> QED BY <2>1 DEF Key
<1>4. ASSUME NEW e \in Stored
      PROVE  LET g == First(Key(e)) IN
             /\ Key(e) \in RecordKeys /\ g \in Stored /\ g \in Effective /\ g.v = 3
             /\ Key(g) = Key(e) /\ Agree(g, e)
  <2> DEFINE g == First(Key(e))
  <2>1. Key(e) \in RecordKeys BY DEF RecordKeys
  <2>2. g \in Stored /\ Key(g) = Key(e) /\ ~Before(e, g) /\ \A f \in Stored : Key(f) = Key(e) => ~Before(f, g)
    BY <1>1, <2>1 DEF FirstsExist
  <2>3. PICK f \in Stored : f.line = e.line /\ f.v = 3 BY <1>2
  <2>4. ~Before(f, g) BY <1>3, <2>2, <2>3
  <2>5. g.v = 3 BY <2>2, <2>3, <2>4, StoredAre DEF Before
  <2>6. Agree(g, e) BY <1>1, <2>2, <2>5 DEF NewestAgrees
  <2> QED BY <2>1, <2>2, <2>5, <2>6 DEF Effective
<1>5. Reads BY <1>4 DEF Reads
<1>6. \A g \in Effective : g \in Stored /\ g.v = 3 /\ g = First(Key(g))
  <2> TAKE g \in Effective
  <2>1. PICK k \in RecordKeys : g = First(k) BY DEF Effective
  <2>2. PICK e \in Stored : k = Key(e) BY DEF RecordKeys
  <2> QED BY <1>4, <2>1, <2>2
<1>7. Cardinality(Effective) = Cardinality({e.line : e \in Stored})
  <2> DEFINE L == {e.line : e \in Stored}
             h == [g \in Effective |-> g.line]
  <2>1. h \in [Effective -> L] BY <1>6
  <2>2. \A a, b \in Effective : h[a] = h[b] => a = b
    <3> TAKE a, b \in Effective
    <3> HAVE h[a] = h[b]
    <3>1. Key(a) = Key(b) BY <1>3, <1>6
    <3> QED BY <1>6, <3>1
  <2>3. \A l \in L : \E g \in Effective : h[g] = l
    <3> TAKE l \in L
    <3>1. PICK e \in Stored : l = e.line OBVIOUS
    <3>2. First(Key(e)) \in Effective /\ First(Key(e)).line = e.line BY <1>3, <1>4
    <3> QED BY <3>1, <3>2
  <2> HIDE DEF h
  <2>4. h \in Bijection(Effective, L) BY <2>1, <2>2, <2>3 DEF Bijection, Injection, Surjection, IsInjective
  <2>5. IsFiniteSet(Effective)
    <3>1. Effective \subseteq Stored BY <1>6
    <3> QED BY <3>1, StoredAre, FS_Subset
  <2> QED BY <2>4, <2>5, FS_Bijection DEF ExistsBijection
<1> QED BY <1>5, <1>6, <1>7

-----------------------------------------------------------------------------
(* What the steps leave alone. *)

LEMMA EvidenceStart == EvidenceInit => EvidenceInv
<1> SUFFICES ASSUME EvidenceInit PROVE EvidenceInv OBVIOUS
<1> USE KindsTyped, EvidenceAssumption DEF EvidenceInit
<1>1. PICK old \in {{}, {[Reading(3, 1, 1, "old") EXCEPT !.class = "none"]}} :
          files = [v \in Routes |-> IF v = 3 THEN old ELSE {}] /\ home = (old # {})
  OBVIOUS
<1> DEFINE e == [Reading(3, 1, 1, "old") EXCEPT !.class = "none"]
<1>2. e \in Readings /\ e.v = 3 /\ e.line = 1 /\ e.snap = 1 /\ Genuine(e)
  <2>1. Kinds[1] \in {"exec", "result"} OBVIOUS
  <2> QED BY <2>1 DEF Reading, Readings, Genuine, Status, Class, Routes
<1>3. old \subseteq {e} /\ IsFiniteSet(old)
  <2>1. old = {} \/ old = {e} OBVIOUS
  <2> HIDE DEF e
  <2>2. IsFiniteSet({}) /\ IsFiniteSet({e}) BY FS_EmptySet, FS_Singleton
  <2> QED BY <2>1, <2>2
<1> HIDE DEF e
<1>4. EventsTyped BY <1>1, <1>2, <1>3, FS_EmptySet DEF EventsTyped, Routes
<1>5. StateTyped
  <2>1. tail \in [Routes -> Tails] /\ mtime \in [Routes -> Nat] /\ written \in [Routes -> 0 .. Period]
    BY DEF Tails, Period
  <2>2. home \in BOOLEAN BY <1>1
  <2>3. at \in [Procs -> PCs] /\ DOMAIN work = Procs /\ work = [p \in Procs |-> work[p]] BY DEF PCs
  <2>4. \A x \in DOMAIN journals : journals[x] \in {"prepared", "complete"}
    <3>1. journals = <<>> OBVIOUS
    <3> QED BY <3>1
  <2> QED BY <2>1, <2>2, <2>3, <2>4 DEF StateTyped
<1>6. Homed BY <1>1 DEF Homed, Present, Routes
<1>7. Planned BY DEF Planned
<1>8. Referred BY DEF Referred, RefsKept
<1>9. Whole BY <1>1, <1>2, <1>3 DEF Whole, Routes
<1> QED BY <1>4, <1>5, <1>6, <1>7, <1>8, <1>9 DEF EvidenceInv, Own, Locked

LEMMA IdleOwn == \A p \in Procs : at[p] = "idle" => Own(p)
BY DEF Own

\* A step that leaves what is on file as it is.
LEMMA SameFiles ==
    ASSUME UNCHANGED <<files, tail>>
    PROVE  Present' = Present /\ Stored' = Stored /\ Ids' = Ids /\ Parses' = Parses
BY DEF Present, Stored, Ids, Parses

LEMMA SameStore ==
    ASSUME EvidenceInv, UNCHANGED <<files, tail, written>>, home' \in {home, TRUE}, plans' = plans,
           trace' \in trace .. Len(Kinds), ages' \in Nat, ages <= ages', stops' \in Nat, stops <= stops'
    PROVE  /\ EventsTyped' /\ Homed' /\ Planned' /\ Whole'
           /\ refs' = refs /\ pinned' = pinned => Referred'
<1> USE SameFiles DEF EvidenceInv
<1>1. EventsTyped'
  <2>1. trace \in 1 .. Len(Kinds) /\ trace' \in 1 .. Len(Kinds) /\ trace <= trace' BY KindsTyped DEF EventsTyped
  <2>2. \A e \in Readings : Genuine(e) => Genuine(e)' BY <2>1 DEF Genuine, Readings
  <2>3. \A v \in Routes : files[v] \subseteq Readings BY DEF EventsTyped
  <2> QED BY <2>1, <2>2, <2>3 DEF EventsTyped
<1>2. Homed' BY DEF Homed
<1>3. Planned'
  <2> SUFFICES ASSUME NEW i \in DOMAIN plans PROVE Naming(plans[i])'
    BY DEF Planned
  <2>1. Naming(plans[i]) /\ ages \in Nat BY DEF Planned, StateTyped
  <2> QED BY <2>1 DEF Naming, Plans, Period
<1>4. Whole' BY DEF Whole, StateTyped
<1>5. refs' = refs /\ pinned' = pinned => Referred' BY DEF Referred, RefsKept
<1> QED BY <1>1, <1>2, <1>3, <1>4, <1>5

\* What another process works with stays when the files and the plans do.
LEMMA OthersSame ==
    ASSUME EvidenceInv, NEW q \in Procs, at'[q] = at[q], work'[q] = work[q], lock' = q <=> lock = q,
           UNCHANGED <<files, tail, written, plans, ages>>, trace' \in Nat, trace <= trace',
           pinned' = pinned \/ at[q] # "unlink", stops' \in Nat, stops <= stops'
    PROVE  Own(q)'
<1> USE SameFiles DEF EvidenceInv
<1>1. Own(q) /\ trace \in Nat /\ stops \in Nat BY KindsTyped DEF EventsTyped, StateTyped
<1>2. Ingesting(q) => Ingesting(q)'
  <2> SUFFICES ASSUME Ingesting(q) PROVE Ingesting(q)' OBVIOUS
  <2>1. PICK v \in Formats, t \in 1 .. trace, a \in Ages : work[q] = [es |-> Ingested(v, t, a), want |-> {}]
    BY DEF Ingesting
  <2>2. t \in 1 .. trace' BY <1>1
  <2> QED BY <2>1, <2>2 DEF Ingesting
<1>3. Reviewing(q) => Reviewing(q)'
  <2> SUFFICES ASSUME Reviewing(q) PROVE Reviewing(q)' OBVIOUS
  <2>1. PICK v \in Formats, t \in 1 .. trace :
            work[q] = [es |-> {}, want |-> {Reading(v, n, t, "path") : n \in 1 .. t}]
    BY DEF Reviewing
  <2>2. t \in 1 .. trace' BY <1>1
  <2> QED BY <2>1, <2>2 DEF Reviewing
<1>4. OnFile(q) => OnFile(q)' BY DEF OnFile
<1>5. UpToDate(q) => UpToDate(q)' BY <1>1 DEF UpToDate
<1>6. at[q] = "unlink" /\ Deleting(q) => Deleting(q)' BY DEF Deleting, ToUnlink
<1>7. Unguarded(q) => Unguarded(q)' BY DEF Unguarded, Period
<1> QED BY <1>1, <1>2, <1>3, <1>4, <1>5, <1>6, <1>7 DEF Own

\* Who deletes excludes whoever works without the lock.
LEMMA Excluded ==
    ASSUME EvidenceInv, NEW p \in Procs, NEW q \in Procs, at[p] \in {"marking", "report"},
           at[q] = "unlink"
    PROVE  FALSE
<1>1. Own(p) /\ Own(q) BY DEF EvidenceInv
<1>2. lock = q /\ \E i \in DOMAIN plans : work[q] = plans[i] BY <1>1 DEF Own, Deleting
<1>3. p # q OBVIOUS
<1>4. plans = <<>> BY <1>1, <1>2, <1>3 DEF Own, Unguarded
<1> QED BY <1>2, <1>4

\* A step of p that ends its command and leaves the store alone.
LEMMA EndOwn ==
    ASSUME EvidenceInv, NEW p \in Procs, End(p), at[p] # "idle",
           \A q \in Procs : q # p /\ at'[q] = at[q] /\ work'[q] = work[q] /\ (lock' = q <=> lock = q) => Own(q)'
    PROVE  /\ \A q \in Procs : Own(q)'
           /\ lock' \in Procs \cup {None} /\ (lock' # None => at'[lock'] # "idle" /\ home)
           /\ at' \in [Procs -> PCs] /\ DOMAIN work' = Procs /\ work' = [q \in Procs |-> work'[q]]
<1> USE EvidenceAssumption DEF EvidenceInv, End, To
<1>1. at \in [Procs -> PCs] /\ DOMAIN work = Procs BY DEF StateTyped
<1>2. at'[p] = "idle" BY <1>1
<1>3. Own(p)' BY <1>2 DEF Own
<1>4. ASSUME NEW q \in Procs, q # p PROVE Own(q)'
  <2>1. at'[q] = at[q] /\ work'[q] = work[q] BY <1>1, <1>4
  <2>2. lock' = q <=> lock = q BY <1>4
  <2> QED BY <1>4, <2>1, <2>2
<1>5. lock' \in Procs \cup {None} BY DEF Locked
<1>6. lock' # None => at'[lock'] # "idle" /\ home BY <1>1 DEF Locked
<1>7. at' \in [Procs -> PCs] BY <1>1 DEF PCs
<1>8. DOMAIN work' = Procs /\ work' = [q \in Procs |-> work'[q]] BY <1>1
<1> QED BY <1>3, <1>4, <1>5, <1>6, <1>7, <1>8

-----------------------------------------------------------------------------
(* Appending. *)

LEMMA Appended ==
    ASSUME EventsTyped, StateTyped, NEW es, es # {}, IsFiniteSet(es), es \subseteq Readings,
           NEW v \in Routes, \A e \in es : e.v = v /\ Genuine(e), NEW ok \in BOOLEAN,
           AppendEvents(es, ok), trace' = trace, ages' = ages
    PROVE  /\ Parses /\ home' = TRUE /\ EventsTyped'
           /\ tail' \in [Routes -> Tails] /\ mtime' \in [Routes -> Nat] /\ written' \in [Routes -> 0 .. Period]
           /\ \A w \in Routes : files[w] \subseteq files'[w]
           /\ \A w \in Present' : written'[w] = Period \/ (w \in Present /\ written'[w] = written[w])
           /\ \A w \in Routes : w # v => files'[w] = files[w]
           /\ ok /\ Parses' => files'[v] = files[v] \cup Missing(es)
           /\ ok /\ (\A w \in Routes : tail[w] = "ok") => \A w \in Routes : tail'[w] = "ok"
<1> USE DEF AppendEvents
<1>1. (CHOOSE e \in es : TRUE).v = v OBVIOUS
<1>2. /\ files \in [Routes -> SUBSET Readings] /\ tail \in [Routes -> Tails] /\ mtime \in [Routes -> Nat]
      /\ written \in [Routes -> 0 .. Period] /\ Period \in Nat
  BY DEF EventsTyped, StateTyped, Period
<1>3. Missing(es) \subseteq es BY DEF Missing
<1>4. CASE Missing(es) = {}
  <2>1. UNCHANGED <<files, tail, mtime, written>> /\ ok BY <1>4 DEF store
  <2>2. EventsTyped' BY <2>1 DEF EventsTyped, Genuine
  <2>3. Present' = Present /\ Period' = Period BY <2>1 DEF Present, Period
  <2> QED BY <1>2, <1>4, <2>1, <2>2, <2>3
<1>5. CASE Missing(es) # {}
  <2>1. PICK done \in SUBSET Missing(es), t \in Tails :
          /\ written' = [written EXCEPT ![v] = Period] /\ mtime' = [mtime EXCEPT ![v] = @ + 1]
          /\ files' = [files EXCEPT ![v] = @ \cup done] /\ tail' = [tail EXCEPT ![v] = t]
          /\ ok => t = "cut" \/ (t = "ok" /\ done = Missing(es))
          /\ ok /\ tail[v] # "bare" => t = "ok"
    <3>1. CASE tail[v] = "bare"
      <4>1. files' = [files EXCEPT ![v] = @ \cup {}] BY <1>1, <1>2, <1>5, <3>1
      <4> QED BY <1>1, <1>5, <3>1, <4>1 DEF Tails
    <3>2. CASE tail[v] # "bare" /\ ok BY <1>1, <1>5, <3>2 DEF Tails
    <3>3. CASE tail[v] # "bare" /\ ~ok BY <1>1, <1>5, <3>3 DEF Tails
    <3> QED BY <3>1, <3>2, <3>3
  <2>2. done \subseteq es /\ IsFiniteSet(done) BY <1>3, FS_Subset
  <2>3. IsFiniteSet(files[v] \cup done) BY <2>2, FS_Union DEF EventsTyped
  <2>4. files' \in [Routes -> SUBSET Readings] BY <1>2, <2>1, <2>2
  <2>5. EventsTyped'
    <3> SUFFICES ASSUME NEW w \in Routes
                 PROVE  IsFiniteSet(files'[w]) /\ \A e \in files'[w] : e.v = w /\ Genuine(e)'
      BY <2>4 DEF EventsTyped
    <3>1. CASE w = v
      <4>1. files'[v] = files[v] \cup done BY <1>2, <2>1
      <4> QED BY <2>2, <2>3, <3>1, <4>1 DEF EventsTyped, Genuine
    <3>2. CASE w # v
      <4>1. files'[w] = files[w] BY <1>2, <2>1, <3>2
      <4> QED BY <4>1 DEF EventsTyped, Genuine
    <3> QED BY <3>1, <3>2
  <2>6. tail' \in [Routes -> Tails] /\ mtime' \in [Routes -> Nat] BY <1>2, <2>1
  <2>7. written' \in [Routes -> 0 .. Period] /\ Period' = Period BY <1>2, <2>1 DEF Period
  <2>8. \A w \in Present' : written'[w] = Period \/ (w \in Present /\ written'[w] = written[w])
    <3> TAKE w \in Present'
    <3>1. w \in Routes BY DEF Present
    <3> QED BY <1>2, <2>1, <3>1 DEF Present
  <2>9. ok /\ Parses' => files'[v] = files[v] \cup Missing(es)
    <3> SUFFICES ASSUME ok, Parses' PROVE files'[v] = files[v] \cup Missing(es) OBVIOUS
    <3>1. t # "cut" BY <1>2, <2>1 DEF Parses
    <3> QED BY <1>2, <2>1, <3>1
  <2>10. ok /\ (\A w \in Routes : tail[w] = "ok") => \A w \in Routes : tail'[w] = "ok"
    BY <1>2, <2>1
  <2>11. Parses /\ home' = TRUE OBVIOUS
  <2>12. (\A w \in Routes : files[w] \subseteq files'[w]) /\ \A w \in Routes : w # v => files'[w] = files[w]
    BY <1>2, <2>1
  <2> QED BY <2>5, <2>6, <2>7, <2>8, <2>9, <2>10, <2>11, <2>12
<1> QED BY <1>4, <1>5

LEMMA IdTells ==
    ASSUME NEW e \in Readings, NEW f \in Readings, Id(e) = Id(f)
    PROVE  /\ e.v = f.v /\ e.line = f.line
           /\ Genuine(e) /\ Genuine(f) /\ (e.v = 3 => e.class = f.class \/ ~Exec(e)) => e.class = f.class
<1>1. Id(e).v = Id(f).v /\ Id(e).line = Id(f).line OBVIOUS
<1>2. e.v = f.v /\ e.line = f.line BY <1>1 DEF Id
<1>3. Kinds[e.line] \in {"exec", "result"} BY KindsTyped DEF Readings
<1>4. e.v = 3 /\ Exec(e) => Id(e).class = e.class /\ Id(f).class = f.class BY <1>2 DEF Id, Exec
<1> QED BY <1>2, <1>3, <1>4 DEF Genuine, Class, Exec

\* An append by a process that has the lock, or that nobody has.
LEMMA AppendKeeps ==
    ASSUME EvidenceInv, NEW p \in Procs, lock \in {None, p}, NEW v \in Formats, NEW t \in 1 .. trace,
           NEW a \in Ages \cup {"path"}, NEW ok \in BOOLEAN, AppendEvents(Ingested(v, t, a), ok),
           UNCHANGED <<trace, ages, refs, pinned, plans>>, stops' \in Nat, stops <= stops',
           ok \/ stops' > stops
    PROVE  /\ Parses /\ home' = TRUE /\ EventsTyped' /\ Homed' /\ Planned' /\ Referred' /\ Whole'
           /\ tail' \in [Routes -> Tails] /\ mtime' \in [Routes -> Nat] /\ written' \in [Routes -> 0 .. Period]
           /\ (\A w \in Present : written[w] = Period) => \A w \in Present' : written'[w] = Period
           /\ ok /\ Parses' => \A e \in Ingested(v, t, a) : Id(e) \in Ids'
           /\ stops' = 0 => Serving(files', Ingested(v, t, a))
           /\ \A q \in Procs : q # p /\ at'[q] = at[q] /\ work'[q] = work[q] /\ (lock' = q <=> lock = q)
                                => Own(q)'
<1> USE EvidenceAssumption DEF EvidenceInv
<1> DEFINE es == Ingested(v, t, a)
<1>1. /\ es # {} /\ IsFiniteSet(es) /\ es \subseteq Readings
      /\ \A e \in es : e.v = v /\ e.snap = t /\ Genuine(e)
      /\ \A n \in 1 .. t : \E e \in es : e.line = n
  BY IngestedIs
<1>2. v \in Routes BY DEF Routes
<1> HIDE DEF es
<1>3. AppendEvents(es, ok) BY DEF es
<1>4. /\ Parses /\ home' = TRUE /\ EventsTyped'
      /\ tail' \in [Routes -> Tails] /\ mtime' \in [Routes -> Nat] /\ written' \in [Routes -> 0 .. Period]
      /\ \A w \in Routes : files[w] \subseteq files'[w]
      /\ \A w \in Present' : written'[w] = Period \/ (w \in Present /\ written'[w] = written[w])
      /\ \A w \in Routes : w # v => files'[w] = files[w]
      /\ ok /\ Parses' => files'[v] = files[v] \cup Missing(es)
      /\ ok /\ (\A w \in Routes : tail[w] = "ok") => \A w \in Routes : tail'[w] = "ok"
  BY <1>1, <1>2, <1>3, Appended
<1>5. Stored \subseteq Stored' /\ Ids \subseteq Ids' BY <1>4 DEF Stored, Ids
<1>6. ok /\ Parses' => \A e \in es : Id(e) \in Ids'
  <2> SUFFICES ASSUME ok, Parses', NEW e \in es PROVE Id(e) \in Ids' OBVIOUS
  <2>1. CASE Id(e) \in Ids BY <1>5, <2>1
  <2>2. CASE Id(e) \notin Ids
    <3>1. e \in files'[v] BY <1>4, <2>2 DEF Missing
    <3> QED BY <1>2, <3>1 DEF Ids, Stored
  <2> QED BY <2>1, <2>2
<1>7. stops' = 0 => ok /\ stops = 0 /\ (\A w \in Routes : tail[w] = "ok" /\ tail'[w] = "ok") /\ Parses'
  <2>1. stops' = 0 => ok /\ stops = 0 BY DEF StateTyped
  <2> QED BY <1>4, <2>1 DEF Whole, Parses
<1>8. ASSUME stops' = 0, NEW e \in es
      PROVE \E f \in files'[v] : Id(f) = Id(e) /\ f.line = e.line /\ f.class = e.class
  <2>1. PICK f \in Stored' : Id(f) = Id(e) BY <1>6, <1>7, <1>8 DEF Ids
  <2>2. PICK w \in Routes : f \in files'[w] BY <2>1 DEF Stored
  <2>3. f \in Readings /\ f.v = w /\ Genuine(f) BY <1>4, <2>2 DEF EventsTyped, Genuine
  <2>4. e \in Readings /\ e.v = v /\ Genuine(e) BY <1>1
  <2>5. e.v = f.v /\ e.line = f.line BY <2>1, <2>3, <2>4, IdTells
  <2>6. e.class = f.class
    <3>1. e.v = 3 /\ Exec(e) => Id(e).class = e.class BY DEF Id
    <3>2. e.v = 3 /\ Exec(e) => Id(f).class = f.class BY <2>5 DEF Id, Exec
    <3> QED BY <2>1, <2>3, <2>4, <3>1, <3>2, IdTells
  <2> QED BY <2>1, <2>2, <2>3, <2>4, <2>5, <2>6
<1>9. Whole'
  <2> SUFFICES ASSUME stops' = 0, NEW w \in Routes, NEW e \in files'[w], NEW n \in 1 .. e.snap
               PROVE  \E f \in files'[w] : f.line = n
    BY <1>7 DEF Whole
  <2>1. CASE e \in files[w] BY <1>4, <1>7, <2>1 DEF Whole
  <2>2. CASE e \notin files[w]
    <3>1. w = v /\ e \in es BY <1>4, <1>7, <2>2 DEF Missing
    <3>2. PICK d \in es : d.line = n BY <1>1, <3>1
    <3> QED BY <1>8, <3>1, <3>2
  <2> QED BY <2>1, <2>2
<1>10. Homed' BY <1>4 DEF Homed
<1>11. Planned'
  <2> SUFFICES ASSUME NEW i \in DOMAIN plans PROVE Naming(plans[i])'
    BY DEF Planned
  <2>1. Naming(plans[i]) BY DEF Planned
  <2>2. plans[i].asOf \in Nat /\ plans[i].asOf <= Period /\ Period \in Nat /\ Period' = Period
    BY <2>1 DEF Naming, Plans, Period, StateTyped
  <2> QED BY <1>4, <2>1, <2>2 DEF Naming
<1>12. Referred' BY <1>4, <1>5 DEF Referred, RefsKept
<1>13. ASSUME NEW q \in Procs, q # p, at'[q] = at[q], work'[q] = work[q], lock' = q <=> lock = q
       PROVE  Own(q)'
  <2>1. Own(q) /\ stops \in Nat BY DEF StateTyped
  <2>2. at[q] # "unlink" BY <1>13, <2>1 DEF Own, Deleting
  <2>3. Ingesting(q) => Ingesting(q)' BY <1>13 DEF Ingesting
  <2>4. Reviewing(q) => Reviewing(q)' BY <1>13 DEF Reviewing
  <2>5. OnFile(q) => OnFile(q)' BY <1>4, <1>5, <1>13 DEF OnFile
  <2>6. (Ingesting(q) \/ Reviewing(q)) /\ UpToDate(q) => UpToDate(q)'
    <3> SUFFICES ASSUME Ingesting(q) \/ Reviewing(q), UpToDate(q), stops' = 0, NEW e \in work[q].want
                 PROVE  \E f \in files'[e.v] : f.line = e.line /\ f.class = e.class
      BY <1>13 DEF UpToDate, Serving
    <3>1. \E f \in files[e.v] : f.line = e.line /\ f.class = e.class BY <2>1 DEF UpToDate, Serving
    <3>2. CASE Ingesting(q)
      <4>1. work[q].want = {} BY <3>2 DEF Ingesting
      <4> QED BY <1>13, <4>1
    <3>3. CASE Reviewing(q)
      <4>1. PICK w \in Formats, m \in 1 .. trace :
                work[q] = [es |-> {}, want |-> {Reading(w, n, m, "path") : n \in 1 .. m}]
        BY <3>3 DEF Reviewing
      <4>2. PICK n \in 1 .. m : e = Reading(w, n, m, "path") BY <4>1
      <4>3. e.v \in Routes BY <4>2 DEF Reading, Routes
      <4> QED BY <1>4, <3>1, <4>3
    <3> QED BY <3>2, <3>3
  <2>7. Unguarded(q) => Unguarded(q)' BY <1>4 DEF Unguarded, Period
  <2> QED BY <1>13, <2>1, <2>2, <2>3, <2>4, <2>5, <2>6, <2>7 DEF Own
<1>14. (\A w \in Present : written[w] = Period) => \A w \in Present' : written'[w] = Period
  BY <1>4
<1>15. stops' = 0 => Serving(files', es)
  BY <1>1, <1>8 DEF Serving
<1> QED BY <1>4, <1>6, <1>9, <1>10, <1>11, <1>12, <1>13, <1>14, <1>15 DEF es

-----------------------------------------------------------------------------
(* Each action keeps the invariant. *)

LEMMA GrowKeeps == ASSUME EvidenceInv, Grow PROVE EvidenceInv'
<1> USE DEF EvidenceInv, Grow, store, records, pruning, limits
<1>1. trace \in Nat /\ trace' \in trace .. Len(Kinds) /\ ages \in Nat /\ stops \in Nat
  BY KindsTyped DEF EventsTyped, StateTyped
<1>2. EventsTyped' /\ Homed' /\ Planned' /\ Whole' /\ Referred' BY <1>1, SameStore
<1>3. StateTyped' BY DEF StateTyped, Period
<1>4. Locked' BY DEF Locked
<1>5. \A q \in Procs : Own(q)'
  <2> TAKE q \in Procs
  <2> QED BY <1>1, OthersSame
<1> QED BY <1>2, <1>3, <1>4, <1>5

LEMMA AgeKeeps == ASSUME EvidenceInv, Age PROVE EvidenceInv'
<1> USE DEF EvidenceInv, Age, store, records, pruning
<1>1. trace \in Nat /\ trace' \in trace .. Len(Kinds) /\ ages \in Nat /\ ages' \in Nat /\ ages <= ages' /\ stops \in Nat
  BY KindsTyped DEF EventsTyped, StateTyped
<1>2. EventsTyped' /\ Homed' /\ Planned' /\ Whole' /\ Referred' BY <1>1, SameStore
<1>3. StateTyped'
  <2>1. 0 .. Period \subseteq 0 .. Period' BY <1>1 DEF Period
  <2>2. written' \in [Routes -> 0 .. Period'] BY <2>1 DEF StateTyped
  <2> QED BY <1>1, <2>2 DEF StateTyped
<1>4. Locked' BY DEF Locked
<1>5. \A q \in Procs : Own(q)' BY DEF Own
<1> QED BY <1>2, <1>3, <1>4, <1>5

LEMMA SnapKeeps ==
    ASSUME EvidenceInv, NEW p \in Procs, NEW v \in Formats, NEW a \in Ages, Snap(p, v, a) PROVE EvidenceInv'
<1> USE DEF EvidenceInv, Snap, store, pruning, To, Hold
<1>1. trace \in 1 .. Len(Kinds) /\ trace \in Nat /\ trace' \in trace .. Len(Kinds) /\ ages \in Nat /\ stops \in Nat
  BY KindsTyped DEF EventsTyped, StateTyped
<1>2. EventsTyped' /\ Homed' /\ Planned' /\ Whole' /\ Referred' BY <1>1, SameStore
<1>3. StateTyped'
  <2>1. at' \in [Procs -> PCs] /\ DOMAIN work' = Procs /\ work' = [q \in Procs |-> work'[q]]
    BY DEF StateTyped, PCs
  <2> QED BY <2>1 DEF StateTyped, Period
<1>4. at'[p] = "snapped" /\ work'[p] = [es |-> Ingested(v, trace, a), want |-> {}] BY DEF StateTyped
<1>5. Locked' BY <1>3, <1>4 DEF Locked, StateTyped
<1>6. Own(p)'
  <2>1. trace \in 1 .. trace' BY <1>1
  <2>2. Ingesting(p)' BY <1>4, <2>1 DEF Ingesting
  <2> QED BY <1>4, <2>2 DEF Own
<1>7. ASSUME NEW q \in Procs, q # p PROVE Own(q)'
  <2>1. at'[q] = at[q] /\ work'[q] = work[q] BY <1>7 DEF StateTyped
  <2>2. UNCHANGED <<files, tail, written, plans, ages, pinned, lock, trace, stops>> OBVIOUS
  <2> HIDE DEF EvidenceInv, Snap
  <2> QED BY <1>1, <2>1, <2>2, OthersSame
<1> QED BY <1>2, <1>3, <1>5, <1>6, <1>7

LEMMA RefuseKeeps == ASSUME EvidenceInv, NEW p \in Procs, at[p] # "idle", Refuse(p) PROVE EvidenceInv'
<1> USE DEF EvidenceInv, Refuse, store, records, pruning, limits
<1>1. trace \in Nat /\ trace' \in trace .. Len(Kinds) /\ ages \in Nat /\ stops \in Nat
  BY KindsTyped DEF EventsTyped, StateTyped
<1>2. EventsTyped' /\ Homed' /\ Planned' /\ Whole' /\ Referred' BY <1>1, SameStore
<1>3. \A q \in Procs : q # p /\ at'[q] = at[q] /\ work'[q] = work[q] /\ (lock' = q <=> lock = q) => Own(q)'
  <2> TAKE q \in Procs
  <2> QED BY <1>1, OthersSame
<1>4. (\A q \in Procs : Own(q)') /\ Locked' /\ StateTyped'
  <2>1. End(p) OBVIOUS
  <2> QED BY <1>3, <2>1, EndOwn DEF Locked, StateTyped, Period
<1> QED BY <1>2, <1>4

LEMMA IngestKeeps == ASSUME EvidenceInv, NEW p \in Procs, Ingest(p) PROVE EvidenceInv'
<1> USE DEF EvidenceInv, Ingest, pruning, limits
<1>1. CASE Refuse(p) BY <1>1, RefuseKeeps
<1>2. CASE lock = None /\ AppendEvents(work[p].es, TRUE) /\ End(p)
           /\ UNCHANGED <<trace, stamp, refs, pinned, pruning, limits>>
  <2>1. Own(p) OBVIOUS
  <2>2. PICK v \in Formats, t \in 1 .. trace, a \in Ages : work[p] = [es |-> Ingested(v, t, a), want |-> {}]
    BY <2>1 DEF Own, Ingesting
  <2>3. AppendEvents(Ingested(v, t, a), TRUE)
    <3>1. work[p].es = Ingested(v, t, a) BY <2>2
    <3> QED BY <1>2, <3>1
  <2>4. a \in Ages \cup {"path"} /\ stops' = stops /\ stops \in Nat BY <1>2 DEF StateTyped
  <2>5. /\ home' = TRUE /\ EventsTyped' /\ Homed' /\ Planned' /\ Referred' /\ Whole'
        /\ tail' \in [Routes -> Tails] /\ mtime' \in [Routes -> Nat] /\ written' \in [Routes -> 0 .. Period]
        /\ \A q \in Procs : q # p /\ at'[q] = at[q] /\ work'[q] = work[q] /\ (lock' = q <=> lock = q) => Own(q)'
    <3>1. UNCHANGED <<trace, ages, refs, pinned, plans>> /\ lock \in {None, p} BY <1>2
    <3>2. stops' \in Nat /\ stops <= stops' /\ TRUE \in BOOLEAN BY <2>4
    <3> HIDE DEF EvidenceInv, Ingest, MarkAppend
    <3> QED BY <2>3, <2>4, <3>1, <3>2, AppendKeeps
  <2>6. End(p) /\ at[p] # "idle" BY <1>2
  <2>7. /\ \A q \in Procs : Own(q)'
        /\ lock' \in Procs \cup {None} /\ (lock' # None => at'[lock'] # "idle")
        /\ at' \in [Procs -> PCs] /\ DOMAIN work' = Procs /\ work' = [q \in Procs |-> work'[q]]
    BY <2>5, <2>6, EndOwn
  <2>8. StateTyped' BY <1>2, <2>5, <2>7 DEF StateTyped, Period
  <2>9. Locked' BY <2>5, <2>7 DEF Locked
  <2> QED BY <2>5, <2>7, <2>8, <2>9
<1> QED BY <1>1, <1>2

LEMMA MarkKeeps ==
    ASSUME EvidenceInv, NEW p \in Procs, NEW v \in Formats, NEW a \in Ages, Mark(p, v, a) PROVE EvidenceInv'
<1> USE EvidenceAssumption DEF EvidenceInv, Mark, store, pruning, To, Hold
<1>1. trace \in 1 .. Len(Kinds) /\ trace \in Nat /\ trace' \in trace .. Len(Kinds) /\ ages \in Nat /\ stops \in Nat
  BY KindsTyped DEF EventsTyped, StateTyped
<1>2. EventsTyped' /\ Homed' /\ Planned' /\ Whole' /\ Referred' BY <1>1, SameStore
<1>3. StateTyped'
  <2>1. at' \in [Procs -> PCs] /\ DOMAIN work' = Procs /\ work' = [q \in Procs |-> work'[q]]
    BY DEF StateTyped, PCs
  <2> QED BY <2>1 DEF StateTyped, Period
<1>4. at'[p] = "marking" /\ work'[p] = [es |-> Ingested(v, trace, a), want |-> {}] BY DEF StateTyped
<1>5. lock = None BY DEF Locked
<1>6. Locked' BY <1>3, <1>4, <1>5 DEF Locked, StateTyped
<1>7. Own(p)'
  <2>1. trace \in 1 .. trace' BY <1>1
  <2>2. Ingesting(p)' BY <1>4, <2>1 DEF Ingesting
  <2>3. lock' # p => Unguarded(p)'
    <3> SUFFICES ASSUME lock' # p PROVE Unguarded(p)' OBVIOUS
    <3>1. plans = <<>> /\ Present = {} BY DEF Homed, StateTyped
    <3> QED BY <3>1, SameFiles DEF Unguarded
  <2> QED BY <1>4, <2>2, <2>3 DEF Own
<1>8. ASSUME NEW q \in Procs, q # p PROVE Own(q)'
  <2>1. at'[q] = at[q] /\ work'[q] = work[q] BY <1>8 DEF StateTyped
  <2>2. lock' = q <=> lock = q BY <1>5, <1>8
  <2>3. UNCHANGED <<files, tail, written, plans, ages, pinned, trace, stops>> OBVIOUS
  <2> HIDE DEF EvidenceInv, Mark
  <2> QED BY <1>1, <2>1, <2>2, <2>3, OthersSame
<1> QED BY <1>2, <1>3, <1>6, <1>7, <1>8

LEMMA MarkAppendKeeps == ASSUME EvidenceInv, NEW p \in Procs, MarkAppend(p) PROVE EvidenceInv'
<1> USE DEF EvidenceInv, MarkAppend, pruning, limits
<1>1. CASE Refuse(p) BY <1>1, RefuseKeeps
<1>2. CASE lock \in {None, p} /\ AppendEvents(work[p].es, TRUE) /\ To(p, "report")
           /\ UNCHANGED <<trace, stamp, refs, pinned, pruning, lock, work, limits>>
  <2>1. Own(p) OBVIOUS
  <2>2. PICK v \in Formats, t \in 1 .. trace, a \in Ages : work[p] = [es |-> Ingested(v, t, a), want |-> {}]
    BY <2>1 DEF Own, Ingesting
  <2>3. AppendEvents(Ingested(v, t, a), TRUE)
    <3>1. work[p].es = Ingested(v, t, a) BY <2>2
    <3> QED BY <1>2, <3>1
  <2>4. a \in Ages \cup {"path"} /\ stops' = stops /\ stops \in Nat BY <1>2 DEF StateTyped
  <2>5. /\ home' = TRUE /\ EventsTyped' /\ Homed' /\ Planned' /\ Referred' /\ Whole'
        /\ tail' \in [Routes -> Tails] /\ mtime' \in [Routes -> Nat] /\ written' \in [Routes -> 0 .. Period]
        /\ (\A w \in Present : written[w] = Period) => \A w \in Present' : written'[w] = Period
        /\ Parses' => \A e \in Ingested(v, t, a) : Id(e) \in Ids'
        /\ \A q \in Procs : q # p /\ at'[q] = at[q] /\ work'[q] = work[q] /\ (lock' = q <=> lock = q) => Own(q)'
    <3>1. UNCHANGED <<trace, ages, refs, pinned, plans>> /\ lock \in {None, p} BY <1>2
    <3>2. stops' \in Nat /\ stops <= stops' /\ TRUE \in BOOLEAN BY <2>4
    <3> HIDE DEF EvidenceInv, Ingest, MarkAppend
    <3> QED BY <2>3, <2>4, <3>1, <3>2, AppendKeeps
  <2>6. at'[p] = "report" /\ at' \in [Procs -> PCs] /\ \A q \in Procs : q # p => at'[q] = at[q]
    BY <1>2 DEF StateTyped, PCs, To
  <2>7. StateTyped' BY <1>2, <2>5, <2>6 DEF StateTyped, Period
  <2>8. Locked' BY <1>2, <2>5, <2>6 DEF Locked
  <2>9. Own(p)'
    <3>1. Ingesting(p)' BY <1>2, <2>2 DEF Ingesting
    <3>2. OnFile(p)' BY <1>2, <2>2, <2>5 DEF OnFile
    <3>3. UpToDate(p)' BY <1>2, <2>2 DEF UpToDate, Serving
    <3>4. lock # p => Unguarded(p)' BY <1>2, <2>1, <2>5 DEF Own, Unguarded, Period
    <3> QED BY <1>2, <2>6, <3>1, <3>2, <3>3, <3>4 DEF Own
  <2>10. \A q \in Procs : Own(q)' BY <1>2, <2>5, <2>6, <2>9
  <2> QED BY <2>5, <2>7, <2>8, <2>10
<1> QED BY <1>1, <1>2

LEMMA AuditKeeps ==
    ASSUME EvidenceInv, NEW p \in Procs, NEW v \in Formats, Audit(p, v) PROVE EvidenceInv'
<1> USE EvidenceAssumption DEF EvidenceInv, Audit, pruning, To, Hold
<1>1. /\ trace \in 1 .. Len(Kinds) /\ trace \in Nat /\ trace' \in trace .. Len(Kinds) /\ ages \in Nat
      /\ stops \in Nat /\ trace \in 1 .. trace
  BY KindsTyped DEF EventsTyped, StateTyped
<1>2. v \in Routes BY DEF Routes
<1> DEFINE want == {Reading(v, n, trace, "path") : n \in 1 .. trace}
<1>3. /\ EventsTyped' /\ Homed' /\ Planned' /\ Whole' /\ Referred' /\ home' = TRUE
      /\ tail' \in [Routes -> Tails] /\ mtime' \in [Routes -> Nat] /\ written' \in [Routes -> 0 .. Period]
      /\ stops = 0 => Serving(files', want)
      /\ \A q \in Procs : q # p /\ at'[q] = at[q] /\ work'[q] = work[q] /\ (lock' = q <=> lock = q) => Own(q)'
  <2>1. CASE Reused(v) /\ UNCHANGED <<store, home>>
    <3>1. UNCHANGED <<files, tail, mtime, written, home, ages, stops, refs, pinned, plans>> BY <2>1 DEF store
    <3>2. EventsTyped' /\ Homed' /\ Planned' /\ Whole' /\ Referred' BY <1>1, <3>1, SameStore
    <3>3. tail' \in [Routes -> Tails] /\ mtime' \in [Routes -> Nat] /\ written' \in [Routes -> 0 .. Period]
      BY <3>1 DEF StateTyped
    <3>4. ASSUME stops = 0, NEW e \in want
          PROVE  \E f \in files'[e.v] : f.line = e.line /\ f.class = e.class
      <4>1. PICK n \in 1 .. trace : e = Reading(v, n, trace, "path") OBVIOUS
      <4>2. e.v = v /\ e.line = n /\ e.class = Class(v, Kinds[n]) BY <4>1 DEF Reading
      <4>3. PICK d \in files[v] : d.snap = trace BY <2>1 DEF Reused
      <4>4. PICK f \in files[v] : f.line = n BY <1>2, <3>4, <4>1, <4>3 DEF Whole
      <4>5. f.class \in {"none", Class(v, Kinds[n])} BY <1>2, <4>4 DEF EventsTyped, Genuine
      <4>6. CASE Class(v, Kinds[n]) = "none" BY <3>1, <4>2, <4>4, <4>5, <4>6
      <4>7. CASE Class(v, Kinds[n]) # "none"
        <5>1. v = 3 /\ Exec(f) BY <4>4, <4>7 DEF Class, Exec
        <5>2. PICK g \in files[v] : g.line = n /\ g.class # "none" BY <2>1, <4>4, <5>1 DEF Reused
        <5>3. g.class \in {"none", Class(v, Kinds[n])} BY <1>2, <5>2 DEF EventsTyped, Genuine
        <5> QED BY <3>1, <4>2, <5>2, <5>3
      <4> QED BY <4>6, <4>7
    <3>5. ASSUME NEW q \in Procs, q # p, at'[q] = at[q], work'[q] = work[q], lock' = q <=> lock = q PROVE Own(q)'
      <4>1. trace' = trace OBVIOUS
      <4> HIDE DEF EvidenceInv, Audit
      <4> QED BY <1>1, <3>1, <3>5, <4>1, OthersSame
    <3>6. home' = TRUE BY <3>1
    <3>7. stops = 0 => Serving(files', want)
      <4> HIDE DEF want
      <4> QED BY <3>4 DEF Serving
    <3> QED BY <3>2, <3>3, <3>5, <3>6, <3>7
  <2>2. CASE AppendEvents(Ingested(v, trace, "path"), TRUE)
    <3>1. UNCHANGED <<trace, ages, refs, pinned, plans, stops>> /\ lock \in {None, p} OBVIOUS
    <3>2. stops' \in Nat /\ stops <= stops' /\ TRUE \in BOOLEAN /\ "path" \in Ages \cup {"path"} BY <1>1, <3>1
    <3>3. want = Ingested(v, trace, "path") BY DEF Ingested
    <3> HIDE DEF EvidenceInv, Audit, want
    <3>4. /\ EventsTyped' /\ Homed' /\ Planned' /\ Whole' /\ Referred' /\ home' = TRUE
          /\ tail' \in [Routes -> Tails] /\ mtime' \in [Routes -> Nat] /\ written' \in [Routes -> 0 .. Period]
          /\ \A q \in Procs : q # p /\ at'[q] = at[q] /\ work'[q] = work[q] /\ (lock' = q <=> lock = q) => Own(q)'
      BY <1>1, <2>2, <3>1, <3>2, AppendKeeps
    <3>5. stops' = 0 => Serving(files', Ingested(v, trace, "path"))
      BY <1>1, <2>2, <3>1, <3>2, AppendKeeps
    <3> QED BY <3>1, <3>3, <3>4, <3>5
  <2> QED BY <2>1, <2>2
<1>4. at'[p] = "report" /\ work'[p] = [es |-> {}, want |-> want] BY DEF StateTyped
<1>5. StateTyped'
  <2>1. at' \in [Procs -> PCs] /\ DOMAIN work' = Procs /\ work' = [q \in Procs |-> work'[q]]
    BY DEF StateTyped, PCs
  <2> QED BY <1>3, <2>1 DEF StateTyped, Period
<1>6. Locked' BY <1>3, <1>4 DEF Locked
<1>7. Own(p)'
  <2>1. Reviewing(p)' BY <1>1, <1>4 DEF Reviewing
  <2>2. OnFile(p)' BY <1>4 DEF OnFile
  <2>3. stops' = stops OBVIOUS
  <2>4. UpToDate(p)'
    <3> HIDE DEF want, Audit, EvidenceInv
    <3>1. work'[p].want = want BY <1>4
    <3> QED BY <1>3, <2>3, <3>1 DEF UpToDate
  <2> QED BY <1>4, <2>1, <2>2, <2>4 DEF Own
<1>8. ASSUME NEW q \in Procs, q # p PROVE Own(q)'
  <2>1. at'[q] = at[q] /\ work'[q] = work[q] /\ (lock' = q <=> lock = q) BY <1>8 DEF StateTyped
  <2> QED BY <1>3, <1>8, <2>1
<1> QED BY <1>3, <1>5, <1>6, <1>7, <1>8

LEMMA EffectiveStored == EventsTyped => Effective \subseteq Stored
BY FirstExists DEF FirstsExist, Effective

LEMMA ReportKeeps == ASSUME EvidenceInv, NEW p \in Procs, Report(p) PROVE EvidenceInv'
<1> USE DEF EvidenceInv, Report, store, pruning, limits
<1>1. CASE Refuse(p) BY <1>1, RefuseKeeps
<1>2. CASE /\ refs' = refs \cup {Id(e) : e \in IF work[p].es = {} THEN Effective ELSE work[p].es}
           /\ pinned' = TRUE /\ stamp' = stamp + 1 /\ End(p)
           /\ UNCHANGED <<trace, store, home, pruning, limits>>
  <2>1. /\ trace \in Nat /\ trace' \in trace .. Len(Kinds) /\ ages \in Nat /\ stops \in Nat
        /\ UNCHANGED <<files, tail, mtime, written, plans, journals, ages, stops, trace, home>>
    BY <1>2, KindsTyped DEF EventsTyped, StateTyped
  <2>2. EventsTyped' /\ Homed' /\ Planned' /\ Whole' BY <2>1, SameStore
  <2>3. Referred'
    <3>1. Parses => \A e \in IF work[p].es = {} THEN Effective ELSE work[p].es : Id(e) \in Ids
      <4>1. OnFile(p) BY DEF Own
      <4>2. \A e \in Effective : Id(e) \in Ids BY EffectiveStored DEF Ids
      <4> QED BY <4>1, <4>2 DEF OnFile
    <3>2. Ids' = Ids /\ Parses' = Parses BY <2>1, SameFiles
    <3> QED BY <1>2, <3>1, <3>2 DEF Referred, RefsKept
  <2>4. ASSUME NEW q \in Procs, q # p, at'[q] = at[q], work'[q] = work[q], lock' = q <=> lock = q PROVE Own(q)'
    <3>1. at[q] # "unlink" BY Excluded
    <3> HIDE DEF EvidenceInv, Report
    <3> QED BY <2>1, <2>4, <3>1, OthersSame
  <2>5. End(p) /\ at[p] # "idle" BY <1>2
  <2>6. (\A q \in Procs : Own(q)') /\ Locked' /\ StateTyped'
    <3>1. /\ \A q \in Procs : Own(q)'
          /\ lock' \in Procs \cup {None} /\ (lock' # None => at'[lock'] # "idle" /\ home)
          /\ at' \in [Procs -> PCs] /\ DOMAIN work' = Procs /\ work' = [q \in Procs |-> work'[q]]
      BY <2>4, <2>5, EndOwn
    <3> QED BY <1>2, <2>1, <3>1 DEF Locked, StateTyped, Period
  <2> QED BY <2>2, <2>3, <2>6
<1> QED BY <1>1, <1>2

LEMMA FingerprintIs ==
    ASSUME EvidenceInv, NEW v \in Present
    PROVE  Fingerprint(v) \in Fingerprints /\ Fingerprint(v)[1] = v
BY DEF EvidenceInv, EventsTyped, StateTyped, Fingerprint, Fingerprints, Present

LEMMA PreviewKeeps == ASSUME EvidenceInv, Preview PROVE EvidenceInv'
<1> USE DEF EvidenceInv, Preview, store, records, limits
<1>1. /\ \A v \in Present : ~pinned /\ tail[v] \in {"ok", "bare"} /\ written[v] < Period
      /\ Eligible(Period) = Present /\ Present # {}
  BY DEF Eligible
<1>2. Period \in Nat /\ stamp \in Nat /\ plans \in Seq(Plans) BY DEF StateTyped, Period, Planned
<1>3. PreviewAt(Period) \in Plans BY <1>1, <1>2, FingerprintIs DEF PreviewAt, Plans
<1>4. /\ plans' \in Seq(Plans) /\ DOMAIN plans' = DOMAIN plans \cup {Len(plans) + 1}
      /\ plans'[Len(plans) + 1] = PreviewAt(Period) /\ \A i \in DOMAIN plans : plans'[i] = plans[i]
  BY <1>2, <1>3
<1>5. Present' = Present /\ Stored' = Stored /\ Ids' = Ids /\ Parses' = Parses /\ Period' = Period
  BY SameFiles DEF Period
<1>6. EventsTyped' /\ Whole' BY DEF EventsTyped, Genuine, Whole
<1>7. StateTyped' BY <1>5 DEF StateTyped
<1>8. Locked' BY DEF Locked
<1>9. Homed' BY <1>1, <1>5 DEF Homed
<1>10. Planned'
  <2>1. \A i \in DOMAIN plans : Naming(plans[i])' BY <1>4, <1>5 DEF Planned, Naming
  <2>2. Naming(PreviewAt(Period))
    <3>1. \A v \in Present : Fingerprint(v) \in PreviewAt(Period).candidates BY <1>1 DEF PreviewAt
    <3>2. PreviewAt(Period).asOf = Period BY DEF PreviewAt
    <3> QED BY <1>2, <1>3, <3>1, <3>2, FingerprintIs DEF Naming
  <2> SUFFICES ASSUME NEW i \in DOMAIN plans' PROVE Naming(plans[i])'
    BY <1>4 DEF Planned
  <2>3. CASE i \in DOMAIN plans BY <2>1, <2>3
  <2>4. CASE i = Len(plans) + 1 BY <1>4, <1>5, <2>2, <2>4 DEF Naming
  <2> QED BY <1>4, <2>3, <2>4
<1>11. Referred' BY <1>5 DEF Referred, RefsKept
<1>12. ASSUME NEW q \in Procs PROVE Own(q)'
  <2>1. Own(q) OBVIOUS
  <2>2. ~Unguarded(q) BY <1>1, <1>2 DEF Unguarded
  <2>3. Ingesting(q) => Ingesting(q)' BY DEF Ingesting
  <2>4. Reviewing(q) => Reviewing(q)' BY DEF Reviewing
  <2>5. OnFile(q) => OnFile(q)' BY <1>5 DEF OnFile
  <2>6. UpToDate(q) => UpToDate(q)' BY DEF UpToDate
  <2>7. Deleting(q) => Deleting(q)' BY <1>4, <1>5 DEF Deleting, ToUnlink
  <2> QED BY <2>1, <2>2, <2>3, <2>4, <2>5, <2>6, <2>7 DEF Own
<1> QED BY <1>6, <1>7, <1>8, <1>9, <1>10, <1>11, <1>12

\* What is left of a confirmed plan can be deleted.
LEMMA ConfirmedIs ==
    ASSUME NEW x, Confirmed(x), {c[1] : c \in x.candidates} \cap Present # {}
    PROVE  \A w \in Present : ~pinned /\ tail[w] \in {"ok", "bare"} /\ written[w] < x.asOf
<1>1. PICK c \in x.candidates : c[1] \in Present OBVIOUS
<1>2. c \in {Fingerprint(v) : v \in Eligible(x.asOf)} BY <1>1 DEF Confirmed, PreviewAt
<1> QED BY <1>2 DEF Eligible

LEMMA PruneKeeps ==
    ASSUME EvidenceInv, NEW p \in Procs, NEW i \in DOMAIN plans, Prune(p, plans[i]) PROVE EvidenceInv'
<1> USE EvidenceAssumption DEF EvidenceInv, Prune, store, records, limits, To
<1>1. trace \in Nat /\ trace' \in trace .. Len(Kinds) /\ ages \in Nat /\ stops \in Nat
  BY KindsTyped DEF EventsTyped, StateTyped
<1>2. EventsTyped' /\ Homed' /\ Planned' /\ Whole' /\ Referred' BY <1>1, SameStore
<1>3. at' \in [Procs -> PCs] /\ DOMAIN work' = Procs /\ work' = [q \in Procs |-> work'[q]]
  BY DEF StateTyped, PCs
<1>4. StateTyped'
  <2>1. \A x \in DOMAIN journals' : journals'[x] \in {"prepared", "complete"} BY DEF With, StateTyped
  <2> QED BY <1>3, <2>1 DEF StateTyped, Period
<1>5. at'[p] = "unlink" /\ work'[p] = plans[i] BY DEF StateTyped
<1>6. Locked' BY <1>5 DEF Locked
<1>7. Own(p)'
  <2>1. Present' = Present BY SameFiles
  <2>2. ToUnlink(p)' = {c[1] : c \in plans[i].candidates} \cap Present BY <1>5, <2>1 DEF ToUnlink
  <2>3. ToUnlink(p)' # {} => \A w \in Present : ~pinned /\ tail[w] \in {"ok", "bare"} /\ written[w] < plans[i].asOf
    BY <2>2, ConfirmedIs
  <2>4. ToUnlink(p)' # {} => Present # {} BY <2>2
  <2>5. Deleting(p)' BY <1>5, <2>1, <2>3, <2>4 DEF Deleting
  <2> QED BY <1>5, <2>5 DEF Own
<1>8. ASSUME NEW q \in Procs, q # p PROVE Own(q)'
  <2>1. at'[q] = at[q] /\ work'[q] = work[q] /\ (lock' = q <=> lock = q) BY <1>8 DEF StateTyped
  <2>2. UNCHANGED <<files, tail, written, plans, ages, pinned, trace, stops>> OBVIOUS
  <2> HIDE DEF EvidenceInv, Prune
  <2> QED BY <1>1, <2>1, <2>2, OthersSame
<1> QED BY <1>2, <1>4, <1>6, <1>7, <1>8

\* Of the formats that are left, the oldest goes.
LEMMA NextUnlinkIs ==
    ASSUME NEW p \in Procs, ToUnlink(p) # {}
    PROVE  /\ NextUnlink(p) \in ToUnlink(p) /\ NextUnlink(p) \in Present /\ NextUnlink(p) \in {1, 2, 3}
           /\ \A v \in ToUnlink(p) : NextUnlink(p) <= v
<1> DEFINE S == ToUnlink(p)
<1>1. S \subseteq {1, 2, 3} /\ S \subseteq Present /\ S # {} BY DEF ToUnlink, Present, Routes
<1>2. \E x \in S : \A y \in S : x <= y
  <2> HIDE DEF S
  <2>1. CASE 1 \in S BY <1>1, <2>1
  <2>2. CASE 1 \notin S /\ 2 \in S BY <1>1, <2>2
  <2>3. CASE 1 \notin S /\ 2 \notin S
    <3>1. S = {3} BY <1>1, <2>3
    <3> QED BY <3>1
  <2> QED BY <2>1, <2>2, <2>3
<1>3. NextUnlink(p) = CHOOSE x \in S : \A y \in S : x <= y BY DEF NextUnlink, Min
<1> HIDE DEF S
<1>4. NextUnlink(p) \in S /\ \A y \in S : NextUnlink(p) <= y BY <1>2, <1>3
<1> QED BY <1>1, <1>4 DEF S

\* What a deletion leaves.
LEMMA Unlinked ==
    ASSUME EvidenceInv, NEW p \in Procs, Unlink(p)
    PROVE  LET v == NextUnlink(p) IN
           /\ v \in Present /\ v \in {1, 2, 3} /\ ToUnlink(p) = Present /\ \A w \in Present : v <= w
           /\ ~pinned /\ \A w \in Present : tail[w] \in {"ok", "bare"} /\ written[w] < work[p].asOf
           /\ lock = p /\ work[p].asOf \in Nat /\ work[p].asOf <= Period
           /\ files'[v] = {} /\ tail'[v] = "ok" /\ Present' = Present \ {v}
           /\ \A w \in Routes : w # v => files'[w] = files[w] /\ tail'[w] = tail[w] /\ written'[w] = written[w]
<1> USE DEF EvidenceInv, Unlink
<1> DEFINE v == NextUnlink(p)
<1>1. lock = p /\ ToUnlink(p) # {} /\ \E i \in DOMAIN plans : work[p] = plans[i] BY DEF Own, Deleting
<1>2. ~pinned /\ \A w \in Present : tail[w] \in {"ok", "bare"} /\ written[w] < work[p].asOf
  BY DEF Own, Deleting
<1>3. Naming(work[p]) BY <1>1 DEF Planned
<1>4. Present \subseteq ToUnlink(p) BY <1>2, <1>3 DEF ToUnlink, Naming
<1>5. ToUnlink(p) = Present BY <1>4 DEF ToUnlink
<1>6. v \in Present /\ v \in {1, 2, 3} /\ \A w \in Present : v <= w BY <1>1, <1>5, NextUnlinkIs
<1>7. v \in Routes BY <1>6 DEF Present
<1> HIDE DEF v
<1>8. /\ files' = [files EXCEPT ![v] = {}] /\ tail' = [tail EXCEPT ![v] = "ok"] /\ written' = [written EXCEPT ![v] = 0]
      /\ DOMAIN files = Routes /\ DOMAIN tail = Routes /\ DOMAIN written = Routes
  BY DEF EventsTyped, StateTyped, v
<1>9. files'[v] = {} /\ tail'[v] = "ok" BY <1>7, <1>8
<1>10. \A w \in Routes : w # v => files'[w] = files[w] /\ tail'[w] = tail[w] /\ written'[w] = written[w] BY <1>8
<1>11. Present' = Present \ {v} BY <1>9, <1>10 DEF Present
<1>12. work[p].asOf \in Nat /\ work[p].asOf <= Period BY <1>3 DEF Naming, Plans
<1> QED BY <1>1, <1>2, <1>5, <1>6, <1>9, <1>10, <1>11, <1>12 DEF v

LEMMA UnlinkKeeps == ASSUME EvidenceInv, NEW p \in Procs, Unlink(p) PROVE EvidenceInv'
<1> DEFINE v == NextUnlink(p)
<1>1. /\ v \in Present /\ v \in Routes /\ ~pinned
      /\ \A w \in Present : tail[w] \in {"ok", "bare"} /\ written[w] < work[p].asOf
      /\ lock = p /\ files'[v] = {} /\ tail'[v] = "ok" /\ Present' = Present \ {v}
      /\ \A w \in Routes : w # v => files'[w] = files[w] /\ tail'[w] = tail[w] /\ written'[w] = written[w]
  BY Unlinked DEF Routes
<1>2. /\ files' = [files EXCEPT ![v] = {}] /\ tail' = [tail EXCEPT ![v] = "ok"] /\ written' = [written EXCEPT ![v] = 0]
      /\ UNCHANGED <<trace, mtime, home, stamp, refs, pinned, plans, journals, lock, at, work, ingests, reports, stops, ages>>
      /\ at[p] = "unlink"
  BY DEF Unlink, records, pruning, limits
<1> HIDE DEF v
<1> USE DEF EvidenceInv
<1>3. EventsTyped'
  <2>1. files' \in [Routes -> SUBSET Readings] BY <1>2 DEF EventsTyped
  <2>2. \A w \in Routes : IsFiniteSet(files'[w]) /\ files'[w] \subseteq files[w] BY <1>1, FS_EmptySet DEF EventsTyped
  <2>3. \A e : Genuine(e)' <=> Genuine(e) BY <1>2 DEF Genuine
  <2> QED BY <1>2, <2>1, <2>2, <2>3 DEF EventsTyped
<1>4. StateTyped' BY <1>1, <1>2 DEF StateTyped, Tails, Period
<1>5. Locked' BY <1>2 DEF Locked
<1>6. Homed' BY <1>1, <1>2 DEF Homed
<1>7. Planned'
  <2> SUFFICES ASSUME NEW i \in DOMAIN plans PROVE Naming(plans[i])' BY <1>2 DEF Planned
  <2>1. Naming(plans[i]) BY DEF Planned
  <2>2. \A w \in Present' : w \in Present /\ written'[w] = written[w] BY <1>1 DEF Present
  <2> QED BY <1>2, <2>1, <2>2 DEF Naming, Period
<1>8. Referred' BY <1>1, <1>2 DEF Referred, RefsKept
<1>9. Whole'
  <2> SUFFICES ASSUME stops = 0
               PROVE  \A w \in Routes : tail'[w] = "ok" /\ \A e \in files'[w] : \A n \in 1 .. e.snap :
                          \E f \in files'[w] : f.line = n
    BY <1>2 DEF Whole
  <2> QED BY <1>1 DEF Whole
<1>10. ASSUME NEW q \in Procs PROVE Own(q)'
  <2>1. Own(q) OBVIOUS
  <2>2. at[q] \notin {"marking", "report"} BY <1>2, Excluded
  <2>3. Ingesting(q) => Ingesting(q)' BY <1>2 DEF Ingesting
  <2>4. CASE at[q] = "unlink"
    <3>1. Deleting(q) /\ q = p BY <1>1, <2>1, <2>4 DEF Own, Deleting
    <3>2. \A w \in Present' : w \in Routes /\ w \in Present /\ tail'[w] = tail[w] /\ written'[w] = written[w]
      BY <1>1 DEF Present
    <3>3. Deleting(q)' BY <1>1, <1>2, <3>1, <3>2 DEF Deleting
    <3> QED BY <1>2, <2>4, <3>3 DEF Own
  <2>5. CASE at[q] # "unlink" BY <1>2, <2>1, <2>2, <2>3, <2>5 DEF Own
  <2> QED BY <2>4, <2>5
<1> QED BY <1>3, <1>4, <1>5, <1>6, <1>7, <1>8, <1>9, <1>10

LEMMA PruneDoneKeeps == ASSUME EvidenceInv, NEW p \in Procs, PruneDone(p) PROVE EvidenceInv'
<1> USE DEF EvidenceInv, PruneDone, store, records, limits
<1>1. trace \in Nat /\ trace' \in trace .. Len(Kinds) /\ ages \in Nat /\ stops \in Nat
  BY KindsTyped DEF EventsTyped, StateTyped
<1>2. EventsTyped' /\ Homed' /\ Planned' /\ Whole' /\ Referred' BY <1>1, SameStore
<1>3. \A q \in Procs : q # p /\ at'[q] = at[q] /\ work'[q] = work[q] /\ (lock' = q <=> lock = q) => Own(q)'
  <2> TAKE q \in Procs
  <2> QED BY <1>1, OthersSame
<1>4. End(p) /\ at[p] # "idle" OBVIOUS
<1>5. /\ \A q \in Procs : Own(q)'
      /\ lock' \in Procs \cup {None} /\ (lock' # None => at'[lock'] # "idle" /\ home)
      /\ at' \in [Procs -> PCs] /\ DOMAIN work' = Procs /\ work' = [q \in Procs |-> work'[q]]
  BY <1>3, <1>4, EndOwn
<1>6. \A x \in DOMAIN journals' : journals'[x] \in {"prepared", "complete"} BY DEF StateTyped
<1>7. StateTyped' /\ Locked' BY <1>5, <1>6 DEF StateTyped, Locked, Period
<1> QED BY <1>2, <1>5, <1>7

LEMMA StopKeeps == ASSUME EvidenceInv, NEW p \in Procs, Stop(p) PROVE EvidenceInv'
<1> USE DEF EvidenceInv, Stop, pruning
<1>1. /\ trace \in Nat /\ trace' \in trace .. Len(Kinds) /\ ages \in Nat /\ stops \in Nat
      /\ stops' \in Nat /\ stops < stops' /\ stops <= stops'
  BY KindsTyped DEF EventsTyped, StateTyped
<1>2. /\ EventsTyped' /\ Homed' /\ Planned' /\ Whole' /\ Referred' /\ home' \in {home, TRUE}
      /\ tail' \in [Routes -> Tails] /\ mtime' \in [Routes -> Nat] /\ written' \in [Routes -> 0 .. Period]
      /\ \A q \in Procs : q # p /\ at'[q] = at[q] /\ work'[q] = work[q] /\ (lock' = q <=> lock = q) => Own(q)'
  <2>1. CASE UNCHANGED <<store, home>>
    <3>1. UNCHANGED <<files, tail, mtime, written, home, ages, refs, pinned, plans, trace>> BY <2>1 DEF store
    <3>2. EventsTyped' /\ Homed' /\ Planned' /\ Whole' /\ Referred' BY <1>1, <3>1, SameStore
    <3>3. tail' \in [Routes -> Tails] /\ mtime' \in [Routes -> Nat] /\ written' \in [Routes -> 0 .. Period]
      BY <3>1 DEF StateTyped
    <3>4. ASSUME NEW q \in Procs, at'[q] = at[q], work'[q] = work[q], lock' = q <=> lock = q PROVE Own(q)'
      <4> HIDE DEF EvidenceInv, Stop
      <4> QED BY <1>1, <3>1, <3>4, OthersSame
    <3> QED BY <3>1, <3>2, <3>3, <3>4
  <2>2. CASE at[p] \in {"snapped", "marking"} /\ lock \in {None, p} /\ AppendEvents(work[p].es, FALSE)
    <3>1. PICK v \in Formats, t \in 1 .. trace, a \in Ages : work[p] = [es |-> Ingested(v, t, a), want |-> {}]
      BY <2>2 DEF Own, Ingesting
    <3>2. AppendEvents(Ingested(v, t, a), FALSE)
      <4>1. work[p].es = Ingested(v, t, a) BY <3>1
      <4> QED BY <2>2, <4>1
    <3>3. UNCHANGED <<trace, ages, refs, pinned, plans>> /\ FALSE \in BOOLEAN /\ a \in Ages \cup {"path"} OBVIOUS
    <3> HIDE DEF EvidenceInv, Stop
    <3> QED BY <1>1, <2>2, <3>2, <3>3, AppendKeeps
  <2> QED BY <2>1, <2>2
<1>3. End(p) /\ at[p] # "idle" OBVIOUS
<1>4. /\ \A q \in Procs : Own(q)'
      /\ lock' \in Procs \cup {None} /\ (lock' # None => at'[lock'] # "idle" /\ home)
      /\ at' \in [Procs -> PCs] /\ DOMAIN work' = Procs /\ work' = [q \in Procs |-> work'[q]]
  BY <1>2, <1>3, EndOwn
<1>5. StateTyped' BY <1>1, <1>2, <1>4 DEF StateTyped, Period
<1>6. Locked' BY <1>2, <1>4 DEF Locked
<1> QED BY <1>2, <1>4, <1>5, <1>6

LEMMA EvidenceStep == ASSUME EvidenceInv, [EvidenceNext]_evidenceVars PROVE EvidenceInv'
<1>1. CASE UNCHANGED evidenceVars
  <2>1. UNCHANGED <<trace, files, tail, mtime, written, home, stamp, refs, pinned, plans, journals, lock, at, work,
                    ingests, reports, stops, ages>>
    BY <1>1 DEF evidenceVars, store, records, pruning, limits
  <2>2. EventsTyped' /\ StateTyped' /\ Locked' /\ Homed' /\ Planned' /\ Referred' /\ Whole'
    BY <2>1, SameFiles
       DEF EvidenceInv, EventsTyped, Genuine, StateTyped, Period, Locked, Homed, Planned, Naming, Referred, RefsKept, Whole
  <2>3. ASSUME NEW q \in Procs PROVE Own(q)'
    <3>1. trace \in Nat /\ stops \in Nat /\ ages \in Nat BY KindsTyped DEF EvidenceInv, EventsTyped, StateTyped
    <3> QED BY <2>1, <3>1, OthersSame
  <2> QED BY <2>2, <2>3 DEF EvidenceInv
<1>2. ASSUME NEW p \in Procs, NEW v \in Formats, NEW a \in Ages, Snap(p, v, a) \/ Mark(p, v, a) PROVE EvidenceInv'
  BY <1>2, SnapKeeps, MarkKeeps
<1>3. ASSUME NEW p \in Procs, NEW v \in Formats, Audit(p, v) PROVE EvidenceInv' BY <1>3, AuditKeeps
<1>4. ASSUME NEW p \in Procs, Advance(p) PROVE EvidenceInv'
  <2>1. ASSUME NEW i \in DOMAIN plans, Prune(p, plans[i]) PROVE EvidenceInv' BY <2>1, PruneKeeps
  <2> QED BY <1>4, <2>1, IngestKeeps, MarkAppendKeeps, ReportKeeps, UnlinkKeeps, PruneDoneKeeps DEF Advance
<1>5. ASSUME NEW p \in Procs, Stop(p) PROVE EvidenceInv' BY <1>5, StopKeeps
<1>6. CASE Grow \/ Age \/ Preview BY <1>6, GrowKeeps, AgeKeeps, PreviewKeeps
<1> QED BY <1>1, <1>2, <1>3, <1>4, <1>5, <1>6 DEF EvidenceNext

LEMMA EvidenceAlways == EvidenceSpec => []EvidenceInv
<1>1. EvidenceInit => EvidenceInv BY EvidenceStart
<1>2. EvidenceInv /\ [EvidenceNext]_evidenceVars => EvidenceInv' BY EvidenceStep
<1> QED BY <1>1, <1>2, PTL DEF EvidenceSpec

-----------------------------------------------------------------------------
(* What the store promises. *)

\* read_evidence and refresh_codex_evidence: once format 3 has every record of a session,
\* the formats side by side count each record once, and as format 3 has it.
THEOREM ReadsAreOnce == EvidenceSpec => []ReadOnce
<1>1. EvidenceInv => EvidenceTypes
  <2> SUFFICES ASSUME EvidenceInv PROVE EvidenceTypes OBVIOUS
  <2> USE DEF EvidenceInv
  <2>1. trace \in 0 .. Len(Kinds) BY KindsTyped DEF EventsTyped
  <2>2. \A v \in Routes : \A e \in files[v] : e.v = v /\ e.line \in 1 .. e.snap /\ e.snap <= trace
    <3> TAKE v \in Routes
    <3> TAKE e \in files[v]
    <3>1. e \in Readings /\ e.v = v /\ Genuine(e) BY DEF EventsTyped
    <3>2. e.line \in Nat /\ e.line >= 1 /\ e.snap \in Nat BY <3>1, KindsTyped DEF Readings
    <3> QED BY <3>1, <3>2 DEF Genuine
  <2>3. \A p \in Procs : at[p] = "unlink" => lock = p BY DEF Own, Deleting
  <2> QED BY <2>1, <2>2, <2>3 DEF EvidenceTypes, StateTyped, Locked, Tails, Period
<1>2. EvidenceInv => ReadOnce BY <1>1, ReadsOnce DEF ReadOnce, EvidenceInv
<1> QED BY <1>2, EvidenceAlways, PTL

\* `apu evidence`, `apu behavior audit` and `prune`: an event that a saved incident or
\* audit names stays on file, whatever prunes, deaths and failed writes come between.
THEOREM RefsAreKept == EvidenceSpec => []RefsKept
<1>1. EvidenceInv => RefsKept BY DEF EvidenceInv, Referred
<1> QED BY <1>1, EvidenceAlways, PTL

LEMMA AppendGrows ==
    ASSUME EventsTyped, NEW es, NEW ok, AppendEvents(es, ok)
    PROVE  \A w \in Routes : files[w] \subseteq files'[w]
<1> DEFINE v == (CHOOSE e \in es : TRUE).v
<1> HIDE DEF v
<1>1. \/ files' = files
      \/ \E done : files' = [files EXCEPT ![v] = @ \cup done]
  BY DEF AppendEvents, store, v
<1>2. DOMAIN files = Routes BY DEF EventsTyped
<1> QED BY <1>1, <1>2

LEMMA OnlyUnlinks ==
    ASSUME EvidenceInv, [EvidenceNext]_evidenceVars
    PROVE  (\E p \in Procs : Unlink(p)) \/ \A w \in Routes : files[w] \subseteq files'[w]
<1> SUFFICES ASSUME ~\E p \in Procs : Unlink(p) PROVE \A w \in Routes : files[w] \subseteq files'[w] OBVIOUS
<1>1. \/ files' = files \/ \E es, ok : AppendEvents(es, ok)
  <2> USE DEF store
  <2>1. CASE UNCHANGED evidenceVars BY <2>1 DEF evidenceVars
  <2>2. ASSUME NEW p \in Procs, NEW v \in Formats, NEW a \in Ages, Snap(p, v, a) \/ Mark(p, v, a)
        PROVE files' = files
    BY <2>2 DEF Snap, Mark
  <2>3. ASSUME NEW p \in Procs, NEW v \in Formats, Audit(p, v)
        PROVE files' = files \/ \E es, ok : AppendEvents(es, ok)
    BY <2>3 DEF Audit
  <2>4. ASSUME NEW p \in Procs, Advance(p) PROVE files' = files \/ \E es, ok : AppendEvents(es, ok)
    BY <2>4 DEF Advance, Ingest, MarkAppend, Report, Refuse, PruneDone, Prune
  <2>5. ASSUME NEW p \in Procs, Stop(p) PROVE files' = files \/ \E es, ok : AppendEvents(es, ok)
    BY <2>5 DEF Stop
  <2>6. CASE Grow \/ Age \/ Preview BY <2>6 DEF Grow, Age, Preview
  <2> QED BY <2>1, <2>2, <2>3, <2>4, <2>5, <2>6 DEF EvidenceNext
<1> QED BY <1>1, AppendGrows DEF EvidenceInv

\* Whatever comes first for a record agrees with all that is on file of it.
FirstsAgree == \A g, e \in Stored :
    Key(g) = Key(e) /\ (\A f \in Stored : Key(f) = Key(e) => ~Before(f, g)) => Agree(g, e)

LEMMA ReadsAs == EventsTyped => (Reads <=> Parses /\ FirstsAgree)
<1> SUFFICES ASSUME EventsTyped PROVE Reads <=> Parses /\ FirstsAgree OBVIOUS
<1>1. FirstsExist /\ NewestAgrees BY FirstExists, NewestAgree
<1>2. ASSUME NEW e \in Stored
      PROVE  LET h == First(Key(e)) IN
             h \in Stored /\ Key(h) = Key(e) /\ \A f \in Stored : Key(f) = Key(e) => ~Before(f, h)
  <2>1. Key(e) \in RecordKeys BY DEF RecordKeys
  <2> QED BY <1>1, <2>1 DEF FirstsExist
<1>3. Parses /\ FirstsAgree => Reads BY <1>2 DEF Reads, FirstsAgree
<1>4. ASSUME Reads, NEW g \in Stored, NEW e \in Stored, Key(g) = Key(e),
             \A f \in Stored : Key(f) = Key(e) => ~Before(f, g)
      PROVE  Agree(g, e)
  <2>1. CASE g.v = 3 BY <1>1, <1>4, <2>1 DEF NewestAgrees
  <2>2. CASE g.v # 3
    <3> DEFINE h == First(Key(e))
    <3>1. h \in Stored /\ ~Before(h, g) /\ ~Before(g, h) BY <1>2, <1>4
    <3>2. Agree(h, g) /\ Agree(h, e) BY <1>4 DEF Reads
    <3> HIDE DEF h
    <3>3. h.v # 3 BY <2>2, <3>1, StoredAre DEF Before
    <3> QED BY <2>2, <3>2, <3>3 DEF Agree
  <2> QED BY <2>1, <2>2
<1>5. Reads => Parses /\ FirstsAgree BY <1>4 DEF Reads, FirstsAgree
<1> QED BY <1>3, <1>5

\* What explains a disagreement goes last.
LEMMA UnlinkReads ==
    ASSUME EvidenceInv, EventsTyped', NEW p \in Procs, Unlink(p), Reads PROVE Reads'
<1>1. (Reads <=> Parses /\ FirstsAgree) /\ FirstsExist /\ NewestAgrees
  BY ReadsAs, FirstExists, NewestAgree DEF EvidenceInv
<1>2. Reads' <=> Parses' /\ FirstsAgree'
  <2>1. (EventsTyped => (Reads <=> Parses /\ FirstsAgree))' BY ReadsAs, PTL
  <2> QED BY <2>1
<1> DEFINE v == NextUnlink(p)
<1>3. /\ v \in {1, 2, 3} /\ v \in Present /\ Routes = {1, 2, 3} /\ (\A w \in Present : v <= w)
      /\ files'[v] = {} /\ tail'[v] = "ok"
      /\ \A w \in Routes : w # v => files'[w] = files[w] /\ tail'[w] = tail[w]
  BY Unlinked DEF Routes
<1> HIDE DEF v
<1>4. Parses'
  <2> SUFFICES ASSUME NEW w \in Routes PROVE tail'[w] # "cut" BY DEF Parses
  <2>1. CASE w = v BY <1>3, <2>1
  <2>2. CASE w # v BY <1>1, <1>3, <2>2 DEF Parses
  <2> QED BY <2>1, <2>2
<1>5. Stored' \subseteq Stored BY <1>3 DEF Stored
<1>6. CASE v = 3
  <2>1. files[1] = {} /\ files[2] = {} BY <1>3, <1>6 DEF Present
  <2>2. Stored' = {} BY <1>3, <1>6, <2>1 DEF Stored
  <2>3. FirstsAgree' BY <2>2 DEF FirstsAgree
  <2> QED BY <1>2, <1>4, <2>3
<1>7. CASE v # 3
  <2>1. \A f \in Stored : f.v = 3 => f \in Stored'
    <3> TAKE f \in Stored
    <3> HAVE f.v = 3
    <3>1. f \in files[3] BY StoredAre DEF EvidenceInv
    <3> QED BY <1>3, <1>7, <3>1 DEF Stored
  <2>2. ASSUME NEW e PROVE Key(e)' = Key(e) BY <1>5, <2>1 DEF Key
  <2>3. ASSUME NEW g \in Stored', NEW e \in Stored', Key(g) = Key(e),
               \A f \in Stored' : Key(f) = Key(e) => ~Before(f, g)
        PROVE  Agree(g, e)
    <3>1. g \in Stored /\ e \in Stored BY <1>5
    <3>2. CASE g.v = 3 BY <1>1, <2>3, <3>1, <3>2 DEF NewestAgrees
    <3>3. CASE g.v # 3
      <4>1. PICK h \in Stored : Key(h) = Key(e) /\ \A f \in Stored : Key(f) = Key(e) => ~Before(f, h)
        <5>1. Key(e) \in RecordKeys BY <3>1 DEF RecordKeys
        <5> QED BY <1>1, <5>1 DEF FirstsExist
      <4>2. Agree(h, g) /\ Agree(h, e) BY <1>1, <2>3, <3>1, <4>1 DEF FirstsAgree
      <4>3. h.v # 3
        <5> SUFFICES ASSUME h.v = 3 PROVE FALSE OBVIOUS
        <5>1. ~Before(h, g) BY <2>1, <2>3, <4>1
        <5>2. g.v \in {1, 2, 3} BY <3>1, StoredAre DEF EvidenceInv
        <5> QED BY <3>3, <5>1, <5>2 DEF Before
      <4> QED BY <3>3, <4>2, <4>3 DEF Agree
    <3> QED BY <3>2, <3>3
  <2>4. FirstsAgree' BY <2>2, <2>3 DEF FirstsAgree
  <2> QED BY <1>2, <1>4, <2>4
<1> QED BY <1>6, <1>7

LEMMA StoredFinite == EventsTyped => IsFiniteSet(Stored)
BY StoredAre

\* apply_retention: evidence goes only when all of the session is old and nothing names it;
\* at every step of a prune the session still reads; and the receipt says complete when
\* every file of the plan has gone.
THEOREM PrunesAreSafe == EvidenceSpec => PruneSafe
<1>1. ASSUME EvidenceInv, EvidenceInv', [EvidenceNext]_evidenceVars
      PROVE  [\A v \in Routes : files[v] # {} /\ files'[v] = {} =>
                 ~pinned /\ Parses /\ \A w \in Present : written[w] < Period]_evidenceVars
  <2> SUFFICES ASSUME NEW v \in Routes, files[v] # {}, files'[v] = {}
               PROVE  ~pinned /\ Parses /\ \A w \in Present : written[w] < Period
    OBVIOUS
  <2>1. PICK p \in Procs : Unlink(p) BY <1>1, OnlyUnlinks
  <2>2. /\ ~pinned /\ \A w \in Present : tail[w] \in {"ok", "bare"} /\ written[w] < work[p].asOf
        /\ work[p].asOf \in Nat /\ work[p].asOf <= Period
    BY <1>1, <2>1, Unlinked
  <2>3. Parses BY <2>2 DEF Parses, Present
  <2>4. Period \in Nat /\ \A w \in Present : w \in Routes /\ written[w] \in Nat
    BY <1>1 DEF EvidenceInv, StateTyped, Period, Present
  <2> QED BY <2>2, <2>3, <2>4
<1>2. ASSUME EvidenceInv, EvidenceInv', [EvidenceNext]_evidenceVars
      PROVE  [Reads /\ files' # files /\ Cardinality(Stored') < Cardinality(Stored) => Reads']_evidenceVars
  <2> SUFFICES ASSUME Reads, Cardinality(Stored') < Cardinality(Stored) PROVE Reads' OBVIOUS
  <2>1. EventsTyped /\ EventsTyped' BY <1>2 DEF EvidenceInv
  <2>2. PICK p \in Procs : Unlink(p)
    <3> SUFFICES ASSUME \A w \in Routes : files[w] \subseteq files'[w] PROVE FALSE BY <1>2, OnlyUnlinks
    <3>1. Stored \subseteq Stored' BY DEF Stored
    <3>2. IsFiniteSet(Stored')
      <4>1. (EventsTyped => IsFiniteSet(Stored))' BY StoredFinite, PTL
      <4> QED BY <2>1, <4>1
    <3>3. Cardinality(Stored) <= Cardinality(Stored') /\ IsFiniteSet(Stored) BY <3>1, <3>2, FS_Subset
    <3>4. Cardinality(Stored) \in Nat /\ Cardinality(Stored') \in Nat BY <3>2, <3>3, FS_CardinalityType
    <3> QED BY <3>3, <3>4
  <2> QED BY <1>2, <2>1, <2>2, UnlinkReads
<1>3. ASSUME EvidenceInv, EvidenceInv', [EvidenceNext]_evidenceVars
      PROVE  [\A x \in DOMAIN journals' :
                 journals'[x] = "complete" /\ (x \in DOMAIN journals => journals[x] # "complete")
                     => \A c \in x.candidates : c \notin {Fingerprint(v) : v \in Present}']_evidenceVars
  <2> SUFFICES ASSUME NEW x \in DOMAIN journals', journals'[x] = "complete",
                      x \in DOMAIN journals => journals[x] # "complete", NEW c \in x.candidates,
                      NEW v \in Present', c = Fingerprint(v)'
               PROVE  FALSE
    OBVIOUS
  <2> USE DEF pruning
  <2>1. journals' # journals OBVIOUS
  <2>2. \E p \in Procs : PruneDone(p) \/ \E y : Prune(p, y)
    <3>1. ~UNCHANGED evidenceVars BY <2>1 DEF evidenceVars
    <3>2. \A p \in Procs, w \in Formats, a \in Ages : ~Snap(p, w, a) /\ ~Mark(p, w, a) BY <2>1 DEF Snap, Mark
    <3>3. \A p \in Procs, w \in Formats : ~Audit(p, w) BY <2>1 DEF Audit
    <3>4. \A p \in Procs : ~Ingest(p) /\ ~MarkAppend(p) /\ ~Report(p) /\ ~Unlink(p) /\ ~Stop(p)
      BY <2>1 DEF Ingest, MarkAppend, Report, Unlink, Stop, Refuse
    <3>5. ~Grow /\ ~Age /\ ~Preview BY <2>1 DEF Grow, Age, Preview
    <3> QED BY <1>3, <3>1, <3>2, <3>3, <3>4, <3>5 DEF EvidenceNext, Advance
  <2>3. ASSUME NEW p \in Procs, NEW y, Prune(p, y) PROVE FALSE BY <2>3 DEF Prune, With
  <2>4. ASSUME NEW p \in Procs, PruneDone(p) PROVE FALSE
    <3>1. /\ UNCHANGED <<files, tail>> /\ ToUnlink(p) = {} /\ journals' = [journals EXCEPT ![work[p]] = "complete"]
      BY <2>4 DEF PruneDone, store
    <3>2. x = work[p] BY <3>1
    <3>3. c[1] = v BY DEF Fingerprint
    <3>4. v \in Present BY <3>1, SameFiles
    <3> QED BY <3>1, <3>2, <3>3, <3>4 DEF ToUnlink
  <2> QED BY <2>2, <2>3, <2>4
<1> QED BY <1>1, <1>2, <1>3, EvidenceAlways, PTL DEF EvidenceSpec, PruneSafe, OnlyOldPruned, ReadableWhilePruned, ReceiptTrue

\* audit_behavior: unless a death or a failed write cut an append short, an audit is saved
\* over every record of the transcript it selected, in its format and with its class.
THEOREM AuditsAreFresh == EvidenceSpec => AuditFresh
<1>1. ASSUME EvidenceInv, [EvidenceNext]_evidenceVars
      PROVE  [\A p \in Procs : stops = 0 /\ at[p] = "report" /\ at'[p] = "idle" /\ stamp' # stamp =>
                 \A e \in work[p].want : \E f \in files'[e.v] : f.line = e.line /\ f.class = e.class]_evidenceVars
  <2> SUFFICES ASSUME NEW p \in Procs, stops = 0, at[p] = "report", stamp' # stamp, NEW e \in work[p].want
               PROVE  \E f \in files'[e.v] : f.line = e.line /\ f.class = e.class
    OBVIOUS
  <2>1. \A w \in Routes : files[w] \subseteq files'[w]
    <3>1. \A q \in Procs : ~Unlink(q) BY DEF Unlink, records
    <3> QED BY <1>1, <3>1, OnlyUnlinks
  <2>2. (Ingesting(p) \/ Reviewing(p)) /\ UpToDate(p) BY <1>1 DEF EvidenceInv, Own
  <2>3. PICK f \in files[e.v] : f.line = e.line /\ f.class = e.class BY <2>2 DEF UpToDate, Serving
  <2>4. Reviewing(p)
    <3>1. Ingesting(p) => work[p].want = {} BY DEF Ingesting
    <3> QED BY <2>2, <3>1
  <2>5. PICK w \in Formats, t \in 1 .. trace :
            work[p] = [es |-> {}, want |-> {Reading(w, n, t, "path") : n \in 1 .. t}]
    BY <2>4 DEF Reviewing
  <2>6. e.v \in Routes BY <2>5, EvidenceAssumption DEF Reading, Routes
  <2> QED BY <2>1, <2>3, <2>6
<1> QED BY <1>1, EvidenceAlways, PTL DEF EvidenceSpec, AuditFresh

-----------------------------------------------------------------------------
(* The session a report is about: SessionSelection. *)

Outcomes ==
    {r \in [trace : Traces \cup {None}, dir : Dirs \cup {None}, reason : Reasons \cup {"selected"}] :
        (r.trace = None) <=> (r.reason # "selected")}
Flags == [mismatch : BOOLEAN, stale : BOOLEAN, unparsable : BOOLEAN, completed : BOOLEAN]
Searches ==
    [query : Queries, results : UNION {[D -> Outcomes] : D \in SUBSET Providers},
     provider : Providers \cup {None}, left : SUBSET Traces, matched : SUBSET Traces,
     active : SUBSET Outcomes, flags : Flags, result : Outcomes \cup {None}, quiet : BOOLEAN,
     providers : SUBSET Providers]
Tallies == [ambiguous : Nat, beats : Nat, hits : Nat]
Stages == {"idle", "list", "peek", "parse", "choose", "health", "done"}

SearchTypes ==
    /\ file \in [Traces -> Contents] /\ roots \subseteq Providers /\ still \subseteq Traces
    /\ stage \in Stages
    /\ stage # "idle" =>
          /\ search \in Searches
          /\ search.providers =
                IF search.query.provider = None THEN Providers ELSE {search.query.provider}
    /\ stage \in {"health", "done"} => search.result \in Outcomes

\* One selection is made; what the record says is of that one.
HealthTypes ==
    /\ health \in [Providers \cup {None} -> Tallies]
    /\ stage # "done" => \A p \in Providers \cup {None} : health[p].ambiguous = 0 /\ health[p].hits = 0
    /\ \A p \in Providers : health[p].ambiguous <= health[None].ambiguous

\* A provider without a trace directory has no transcripts.
Rooted == \A f \in Traces : ProviderOf[f] \notin roots => file[f].state = "absent"

\* The transcripts that suit the query all along do so now; when nothing is written they
\* are all that do.
Suiting == stage # "idle" =>
    /\ \A f \in still : Suits(f, search.query)
    /\ search.quiet => still = {f \in Traces : Suits(f, search.query)}

Of(o) == {f \in Traces : ProviderOf[f] = o}
StillOf(o) == {f \in still : ProviderOf[f] = o}
Undecided(r) == r.reason \in {"ambiguous_active_candidates", "ambiguous_session_id"}

\* A result r is where a query by id and directory wants it.
Bound(r) == search.query.id # None /\ search.query.cwd # None /\ r.trace # None =>
                r.dir = search.query.cwd

\* What the result of provider o says of the transcripts that suit all along.
Settled(o, r) ==
    /\ r.trace # None => ProviderOf[r.trace] = o /\ StillOf(o) \subseteq {r.trace}
    /\ r.trace = None => Undecided(r) \/ StillOf(o) = {}
    /\ r.reason # "ambiguous_provider" /\ Bound(r)
    /\ search.quiet /\ r.trace # None => r.trace \in still
    /\ search.quiet /\ Undecided(r) => \E f, g \in StillOf(o) : f # g

AllSettled == stage # "idle" =>
    \A o \in DOMAIN search.results : Settled(o, search.results[o])

\* Half way through a provider: what suits all along is still to be looked at, or found.
Reached(o, s) == StillOf(o) \subseteq s /\ s \subseteq Of(o) /\ \A f \in s : file[f].state # "absent"
Peeking == stage = "peek" =>
    Reached(search.provider, search.left \cup search.matched) /\ search.active = {}
Found1(o, r) ==
    /\ r.reason = "selected" /\ r.trace \in Of(o) /\ Bound(r)
    /\ search.quiet => r.trace \in still /\ r.dir = file[r.trace].dir
Parsing == stage = "parse" =>
    /\ Reached(search.provider, search.left \cup {r.trace : r \in search.active})
    /\ IsFiniteSet(search.active)
    /\ \A r \in search.active : Found1(search.provider, r)
Matching ==
    /\ stage = "peek" /\ search.quiet => \A f \in search.matched : Matches(f)
    /\ stage = "parse" /\ search.quiet => \A f \in search.left : Matches(f)
Asking == stage \in {"peek", "parse"} =>
    search.provider \in search.providers /\ search.provider \notin DOMAIN search.results

\* The end of it, when every provider has answered.
Chosen == stage \in {"health", "done"} =>
    LET r == search.result IN
    /\ Bound(r) /\ (r.trace # None => still \subseteq {r.trace})
    /\ search.quiet => IF Cardinality(still) = 1 THEN r.trace \in still ELSE r.trace = None

SelectionInv ==
    /\ SearchTypes /\ HealthTypes /\ Rooted /\ Suiting /\ AllSettled /\ Peeking /\ Parsing
    /\ Matching /\ Asking /\ Chosen
    /\ stage = "choose" => search.providers \subseteq DOMAIN search.results

LEMMA SelectionStart == SelectionInit => SelectionInv
<1> SUFFICES ASSUME SelectionInit PROVE SelectionInv OBVIOUS
<1> USE DEF SelectionInit
<1>1. SearchTypes BY DEF SearchTypes, Stages
<1>2. HealthTypes BY DEF HealthTypes, Tallies
<1> QED BY <1>1, <1>2 DEF SelectionInv, Rooted, Suiting, AllSettled, Peeking, Parsing, Matching, Asking, Chosen

LEMMA ProvidersFinite == Providers # {} /\ IsFiniteSet(Providers)
<1> DEFINE g == [f \in Traces |-> ProviderOf[f]]
<1>1. g \in Surjection(Traces, Providers) BY DEF Surjection, Providers
<1> QED BY <1>1, FS_Surjection, SelectionAssumption DEF Providers

\* A map that is extended by an outcome is a map to outcomes.
LEMMA AnsweredType ==
    ASSUME NEW s \in Searches, NEW p \in Providers, NEW r \in Outcomes
    PROVE  /\ With(s.results, p, r) \in UNION {[D -> Outcomes] : D \in SUBSET Providers}
           /\ DOMAIN With(s.results, p, r) = DOMAIN s.results \cup {p}
           /\ With(s.results, p, r)[p] = r
           /\ \A o \in DOMAIN s.results : o # p => With(s.results, p, r)[o] = s.results[o]
<1>1. PICK D \in SUBSET Providers : s.results \in [D -> Outcomes] BY DEF Searches
<1> DEFINE E == D \cup {p}
<1>2. With(s.results, p, r) \in [E -> Outcomes] /\ E \in SUBSET Providers BY <1>1 DEF With
<1> QED BY <1>1, <1>2 DEF With

LEMMA AskKeeps == ASSUME SelectionInv, NEW q \in Queries, Ask(q) PROVE SelectionInv'
<1> USE SelectionAssumption DEF SelectionInv, Ask
<1>1. search' \in Searches
  <2>1. <<>> \in [{} -> Outcomes] OBVIOUS
  <2>2. NoFlags \in Flags BY DEF NoFlags, Flags
  <2> QED BY <2>1, <2>2 DEF Searches
<1>2. SearchTypes' BY <1>1 DEF SearchTypes, Stages
<1>3. HealthTypes' BY DEF HealthTypes
<1>4. Rooted' BY DEF Rooted
<1>5. Suiting' BY DEF Suiting, Suits
<1>6. AllSettled' BY DEF AllSettled
<1> QED BY <1>2, <1>3, <1>4, <1>5, <1>6 DEF Peeking, Parsing, Matching, Asking, Chosen

LEMMA LeastOf == \A S \in SUBSET Nat : S # {} => \E n \in S : \A m \in S : n <= m
<1> DEFINE Less == {ss \in Nat \X Nat : ss[1] < ss[2]}
<1>1. IsWellFoundedOn(Less, Nat)  BY NatLessThanWellFounded DEF OpToRel
<1> SUFFICES ASSUME NEW S \in SUBSET Nat, S # {} PROVE \E n \in S : \A m \in S : n <= m  OBVIOUS
<1>2. PICK n \in S : \A m \in S : ~ (<<m, n>> \in Less)  BY <1>1, WFMin
<1>3. \A m \in S : m \in Nat /\ n \in Nat /\ ~ (m < n)  BY <1>2
<1> QED  BY <1>3

LEMMA NearestIn == \A s \in SUBSET Traces : s # {} => Nearest(s) \in s
BY LeastOf, SelectionAssumption DEF Nearest

\* A step of the selector between its first and its last leaves these as they are.
LEMMA Frame ==
    ASSUME SelectionInv, UNCHANGED <<file, roots, health, still>>, stage \notin {"idle", "done"},
           stage' \in Stages \ {"idle", "done"}, search' \in Searches,
           search'.query = search.query, search'.quiet = search.quiet,
           search'.providers = search.providers
    PROVE  /\ HealthTypes' /\ Rooted' /\ Suiting'
           /\ stage' # "health" => SearchTypes' /\ Chosen'
<1> USE DEF SelectionInv
<1>1. HealthTypes' BY DEF HealthTypes
<1>2. Rooted' BY DEF Rooted
<1>3. Suiting' BY DEF Suiting, Suits
<1>4. stage' # "health" => SearchTypes' /\ Chosen' BY DEF SearchTypes, Chosen
<1> QED BY <1>1, <1>2, <1>3, <1>4

\* A provider that has answered stays settled, and the one that answers now is.
LEMMA Answering ==
    ASSUME SelectionInv, stage \in {"list", "peek", "parse"}, NEW p \in search.providers, NEW r \in Outcomes,
           search' = Searched(p, r), Settled(p, r), stage' = "list",
           UNCHANGED <<file, roots, health, still>>
    PROVE  SelectionInv'
<1> USE DEF SelectionInv
<1>1. search \in Searches /\ p \in Providers BY DEF SearchTypes, Searches
<1> DEFINE w == With(search.results, p, r)
<1>2. /\ search' \in Searches /\ search'.query = search.query /\ search'.quiet = search.quiet
      /\ search'.providers = search.providers /\ search'.results = w
  BY <1>1, AnsweredType DEF Searched, Searches
<1>3. HealthTypes' /\ Rooted' /\ Suiting' /\ SearchTypes' /\ Chosen'
  BY <1>2, Frame DEF Stages
<1>4. AllSettled'
  <2>1. /\ DOMAIN w = DOMAIN search.results \cup {p} /\ w[p] = r
        /\ \A o \in DOMAIN search.results : o # p => w[o] = search.results[o]
    BY <1>1, AnsweredType
  <2>2. \A o \in DOMAIN w : Settled(o, w[o])
    BY <2>1 DEF AllSettled
  <2> HIDE DEF w
  <2>3. \A o \in DOMAIN w :
          /\ w[o].trace # None => ProviderOf[w[o].trace] = o /\ StillOf(o)' \subseteq {w[o].trace}
          /\ w[o].trace = None => Undecided(w[o]) \/ StillOf(o)' = {}
          /\ w[o].reason # "ambiguous_provider" /\ Bound(w[o])
          /\ search'.quiet /\ w[o].trace # None => w[o].trace \in still'
          /\ search'.quiet /\ Undecided(w[o]) => \E f, g \in StillOf(o)' : f # g
    BY <2>2, <1>2 DEF Settled, StillOf
  <2> QED BY <2>3, <1>2 DEF AllSettled, Settled, Bound, StillOf, Undecided
<1> QED BY <1>3, <1>4 DEF Peeking, Parsing, Matching, Asking

LEMMA ListKeeps == ASSUME SelectionInv, List PROVE SelectionInv'
<1> USE SelectionAssumption DEF SelectionInv, List
<1>1. search \in Searches BY DEF SearchTypes
<1>2. CASE Unasked = {}
  <2>1. HealthTypes' /\ Rooted' /\ Suiting' /\ SearchTypes' /\ Chosen'
    BY <1>1, <1>2, Frame DEF Stages
  <2>2. AllSettled' BY <1>2 DEF AllSettled, Settled, Bound, StillOf
  <2>3. search'.providers \subseteq DOMAIN search'.results BY <1>2 DEF Unasked
  <2> QED BY <1>2, <2>1, <2>2, <2>3 DEF Peeking, Parsing, Matching, Asking
<1>3. CASE Unasked # {}
  <2> DEFINE p == CHOOSE p \in Unasked : TRUE
  <2>1. p \in Unasked BY <1>3
  <2>2. p \in search.providers /\ p \notin DOMAIN search.results /\ p \in Providers
    BY <2>1, <1>1 DEF Unasked, Searches
  <2>3. CASE p \notin roots
    <3> DEFINE r == Nothing("trace_root_unavailable")
    <3>1. r \in Outcomes /\ r.trace = None /\ ~Undecided(r) /\ r.reason # "ambiguous_provider"
      BY DEF Nothing, Outcomes, Reasons, Undecided
    <3>2. StillOf(p) = {} BY <2>3 DEF StillOf, Rooted, Suiting, Suits, SearchTypes
    <3>3. Settled(p, r) BY <3>1, <3>2 DEF Settled, Bound
    <3>4. search' = Searched(p, r) /\ stage' = "list" BY <1>3, <2>3
    <3> HIDE DEF r, p
    <3> QED BY <2>2, <3>1, <3>3, <3>4, Answering
  <2>4. CASE p \in roots
    <3> HIDE DEF p
    <3> DEFINE listed == {f \in Traces : ProviderOf[f] = p /\ file[f].state # "absent"}
    <3>1. /\ search' = [search EXCEPT !.provider = p, !.matched = {}, !.active = {},
                              !.flags = NoFlags, !.left = listed]
          /\ stage' = "peek"
      BY <1>3, <2>4 DEF p
    <3>2. search' \in Searches
      BY <1>1, <2>2, <3>1 DEF Searches, NoFlags, Flags
    <3>3. HealthTypes' /\ Rooted' /\ Suiting' /\ SearchTypes' /\ Chosen'
      BY <1>1, <3>1, <3>2, Frame DEF Stages, Searches
    <3>4. AllSettled' BY <1>1, <3>1 DEF AllSettled, Settled, Bound, StillOf, Searches
    <3>5. Peeking'
      <4>1. StillOf(p) \subseteq listed BY DEF StillOf, Suiting, Suits, SearchTypes
      <4>2. search'.provider = p /\ search'.left \cup search'.matched = listed /\ search'.active = {}
        BY <1>1, <3>1 DEF Searches
      <4> QED BY <4>1, <4>2, <3>1 DEF Peeking, Reached, StillOf, Of
    <3>6. Matching' BY <1>1, <3>1 DEF Matching, Searches
    <3>7. Asking' BY <1>1, <2>2, <3>1 DEF Asking, Searches
    <3> QED BY <3>1, <3>3, <3>4, <3>5, <3>6, <3>7 DEF Parsing
  <2> QED BY <2>3, <2>4
<1> QED BY <1>2, <1>3

LEMMA PeekKeeps == ASSUME SelectionInv, Peek PROVE SelectionInv'
<1> USE SelectionAssumption DEF SelectionInv, Peek
<1> DEFINE o == search.provider
<1>1. search \in Searches BY DEF SearchTypes
<1>2. o \in search.providers /\ o \in Providers BY <1>1 DEF Asking, Searches
<1>3. CASE search.left # {}
  <2> DEFINE f == Nearest(search.left)
             seen == IF Matches(f) THEN search.matched \cup {f} ELSE search.matched
  <2>1. f \in search.left /\ f \in Traces BY <1>1, <1>3, NearestIn DEF Searches
  <2>2. search' = [search EXCEPT !.left = @ \ {f}, !.matched = seen] /\ stage' = "peek" BY <1>3
  <2> HIDE DEF f
  <2>3. seen \subseteq Traces /\ seen \subseteq search.matched \cup {f}
    BY <1>1, <2>1 DEF Searches
  <2>4. f \in still => Matches(f)
    BY DEF Suiting, Suits, Matches
  <2>5. search.quiet => \A g \in seen : Matches(g) BY DEF Matching
  <2>6. search.matched \subseteq seen /\ (f \in still => f \in seen) BY <2>4
  <2> HIDE DEF seen
  <2>7. /\ search' \in Searches /\ search'.query = search.query /\ search'.quiet = search.quiet
        /\ search'.providers = search.providers /\ search'.results = search.results
        /\ search'.left = search.left \ {f} /\ search'.matched = seen /\ search'.provider = o
        /\ search'.active = search.active
    BY <1>1, <2>2, <2>3 DEF Searches
  <2>8. HealthTypes' /\ Rooted' /\ Suiting' /\ SearchTypes' /\ Chosen'
    BY <2>2, <2>7, Frame DEF Stages
  <2>9. AllSettled' BY <2>7 DEF AllSettled, Settled, Bound, StillOf
  <2>10. Peeking'
    BY <2>1, <2>3, <2>6, <2>7 DEF Peeking, Reached, StillOf, Of
  <2>11. Matching' BY <2>2, <2>5, <2>7 DEF Matching, Matches
  <2>12. Asking' BY <2>7 DEF Asking
  <2> QED BY <2>2, <2>8, <2>9, <2>10, <2>11, <2>12 DEF Parsing
<1>4. CASE search.left = {} /\ search.matched = {}
  <2> DEFINE why == IF search.query.id # None THEN "session_not_found" ELSE "no_exact_cwd_candidate"
             r == Nothing(why)
  <2>1. r \in Outcomes /\ r.trace = None /\ ~Undecided(r) /\ r.reason # "ambiguous_provider"
    BY DEF Nothing, Outcomes, Reasons, Undecided
  <2>2. StillOf(o) = {} BY <1>4 DEF Peeking, Reached
  <2>3. Settled(o, r) BY <2>1, <2>2 DEF Settled, Bound
  <2>4. search' = Searched(o, r) /\ stage' = "list" BY <1>4
  <2> HIDE DEF r, o
  <2> QED BY <1>2, <2>1, <2>3, <2>4, Answering
<1>5. CASE search.left = {} /\ search.matched # {}
  <2>1. search' = [search EXCEPT !.left = @ \cup search.matched] /\ stage' = "parse" BY <1>5
  <2>2. /\ search' \in Searches /\ search'.query = search.query /\ search'.quiet = search.quiet
        /\ search'.providers = search.providers /\ search'.results = search.results
        /\ search'.left = search.left \cup search.matched /\ search'.active = search.active
        /\ search'.provider = o
    BY <1>1, <2>1 DEF Searches
  <2>3. HealthTypes' /\ Rooted' /\ Suiting' /\ SearchTypes' /\ Chosen'
    BY <2>1, <2>2, Frame DEF Stages
  <2>4. AllSettled' BY <2>2 DEF AllSettled, Settled, Bound, StillOf
  <2>5. Parsing'
    <3>1. search.active = {} BY DEF Peeking
    <3>2. IsFiniteSet({}) BY FS_EmptySet
    <3> QED BY <1>5, <2>1, <2>2, <3>1, <3>2 DEF Parsing, Peeking, Reached, StillOf, Of
  <2>6. Matching' BY <1>5, <2>1, <2>2 DEF Matching, Matches
  <2>7. Asking' BY <2>2 DEF Asking
  <2> QED BY <2>1, <2>3, <2>4, <2>5, <2>6, <2>7 DEF Peeking
<1> QED BY <1>3, <1>4, <1>5
\* The verdict on a transcript: it is active when it suits the query, and by
\* directory also when it suited the directory when it was peeked into.
LEMMA ActiveSuits ==
    ASSUME SelectionInv, stage = "parse", NEW f \in search.left
    PROVE  /\ f \in still => Verdict(f) = "active"
           /\ Verdict(f) = "active" /\ search.quiet => f \in still
           /\ Verdict(f) = "active" => Found1(search.provider, Selected(f, file[f].dir))
           /\ Verdict(f) \in {"active", "unparsable", "mismatch", "stale", "completed"}
<1> USE DEF SelectionInv
<1> DEFINE q == search.query
<1>1. /\ search \in Searches /\ f \in Traces /\ file[f].state # "absent" /\ f \in Of(search.provider)
      /\ search.provider \in search.providers
  BY DEF SearchTypes, Searches, Parsing, Reached, Asking
<1>2. file[f].state \in {"absent", "broken", "ok"} /\ file[f].dir \in Dirs
  <2>1. file[f] \in Contents BY <1>1 DEF SearchTypes
  <2> QED BY <2>1 DEF Contents, Readable
<1>3. ProviderOf[f] \in search.providers /\ (q.provider = None \/ q.provider = ProviderOf[f])
  BY <1>1 DEF Of, SearchTypes
<1>4. f \in still => Verdict(f) = "active" BY <1>2 DEF Suiting, Suits, Verdict
<1>5. ASSUME Verdict(f) = "active", search.quiet PROVE f \in still
  <2>1. Matches(f) BY <1>5 DEF Matching
  <2>2. Suits(f, q) BY <1>1, <1>2, <1>3, <1>5, <2>1 DEF Verdict, Matches, Suits
  <2> QED BY <1>1, <1>5, <2>2 DEF Suiting
<1>6. ASSUME Verdict(f) = "active" PROVE Found1(search.provider, Selected(f, file[f].dir))
  <2>1. Bound(Selected(f, file[f].dir)) BY <1>6 DEF Bound, Selected, Verdict
  <2> QED BY <1>1, <1>5, <1>6, <2>1 DEF Found1, Selected
<1>7. Verdict(f) \in {"active", "unparsable", "mismatch", "stale", "completed"} BY DEF Verdict
<1> QED BY <1>4, <1>5, <1>6, <1>7

\* What the provider answers in the end.
LEMMA FoundSettled ==
    ASSUME SelectionInv, stage = "parse", search.left = {}
    PROVE  Found \in Outcomes /\ Settled(search.provider, Found)
<1> USE SelectionAssumption DEF SelectionInv
<1> DEFINE o == search.provider
           act == search.active
<1>1. search \in Searches /\ act \subseteq Outcomes /\ IsFiniteSet(act) BY DEF SearchTypes, Searches, Parsing
<1>2. StillOf(o) \subseteq {r.trace : r \in act} BY DEF Parsing, Reached
<1>3. \A r \in act : r.reason = "selected" /\ r.trace # None /\ r.trace \in Of(o) /\ Bound(r)
  BY <1>1 DEF Parsing, Found1, Outcomes
<1>4. CASE Cardinality(act) = 1
  <2>1. PICK r : act = {r} BY <1>1, <1>4, FS_Singleton
  <2>2. Found = r BY <1>4, <2>1 DEF Found
  <2>3. r \in Outcomes /\ ProviderOf[r.trace] = o /\ StillOf(o) \subseteq {r.trace} BY <1>1, <1>2, <1>3, <2>1 DEF Of
  <2>4. search.quiet => r.trace \in still BY <2>1 DEF Parsing, Found1
  <2>5. ~Undecided(r) BY <1>3, <2>1 DEF Undecided
  <2> QED BY <1>3, <2>1, <2>2, <2>3, <2>4, <2>5 DEF Settled
<1>5. CASE Cardinality(act) # 1
  <2>1. PICK why \in Reasons : /\ Found = Nothing(why) /\ why # "ambiguous_provider"
                               /\ act # {} <=> why \in {"ambiguous_active_candidates", "ambiguous_session_id"}
    BY <1>5 DEF Found, Reasons
  <2>2. Found \in Outcomes /\ Found.trace = None /\ Found.reason = why /\ Bound(Found)
    BY <2>1 DEF Outcomes, Nothing, Reasons, Bound
  <2>3. Undecided(Found) <=> act # {} BY <2>1, <2>2 DEF Undecided
  <2>4. act = {} => StillOf(o) = {} BY <1>2
  <2>5. ASSUME search.quiet, act # {} PROVE \E f, g \in StillOf(o) : f # g
    <3>1. PICK r \in act : TRUE BY <2>5
    <3>2. act # {r} BY <1>5, FS_Singleton
    <3>3. PICK s \in act : s # r BY <3>1, <3>2
    <3>4. /\ r.trace \in still /\ r.dir = file[r.trace].dir /\ s.trace \in still /\ s.dir = file[s.trace].dir
      BY <2>5 DEF Parsing, Found1
    <3>5. r \in [trace : Traces \cup {None}, dir : Dirs \cup {None}, reason : Reasons \cup {"selected"}]
          /\ s \in [trace : Traces \cup {None}, dir : Dirs \cup {None}, reason : Reasons \cup {"selected"}]
      BY <1>1, <3>1, <3>3 DEF Outcomes
    <3>6. r = [trace |-> r.trace, dir |-> r.dir, reason |-> r.reason]
          /\ s = [trace |-> s.trace, dir |-> s.dir, reason |-> s.reason]
      BY <3>5
    <3>7. r.trace # s.trace BY <1>3, <3>3, <3>4, <3>6
    <3> QED BY <1>3, <3>4, <3>7 DEF StillOf, Of
  <2> QED BY <2>1, <2>2, <2>3, <2>4, <2>5 DEF Settled
<1> QED BY <1>4, <1>5

LEMMA ParseKeeps == ASSUME SelectionInv, Parse PROVE SelectionInv'
<1> USE SelectionAssumption DEF SelectionInv, Parse
<1> DEFINE o == search.provider
<1>1. search \in Searches BY DEF SearchTypes
<1>2. o \in search.providers /\ o \in Providers BY <1>1 DEF Asking, Searches
<1>3. CASE search.left # {}
  <2> DEFINE f == Nearest(search.left)
             v == Verdict(f)
             act == IF v = "active" THEN search.active \cup {Selected(f, file[f].dir)} ELSE search.active
             fl == IF v = "active" THEN search.flags ELSE [search.flags EXCEPT ![v] = TRUE]
  <2>1. f \in search.left /\ f \in Traces BY <1>1, <1>3, NearestIn DEF Searches
  <2>2. search' = [search EXCEPT !.left = @ \ {f}, !.active = act, !.flags = fl] /\ stage' = "parse"
    BY <1>3
  <2>3. /\ f \in still => v = "active"
        /\ v = "active" => Found1(o, Selected(f, file[f].dir))
        /\ v \in {"active", "unparsable", "mismatch", "stale", "completed"}
    BY <2>1, ActiveSuits
  <2>4. file[f].dir \in Dirs BY <2>1 DEF SearchTypes, Contents, Readable
  <2> HIDE DEF f, v
  <2>5. act \subseteq Outcomes /\ IsFiniteSet(act)
    <3>1. Selected(f, file[f].dir) \in Outcomes BY <2>1, <2>4 DEF Selected, Outcomes
    <3>2. IsFiniteSet(search.active) /\ search.active \subseteq Outcomes BY <1>1 DEF Parsing, Searches
    <3> QED BY <3>1, <3>2, FS_AddElement
  <2>6. \A r \in act : Found1(o, r) BY <2>3 DEF Parsing
  <2>7. /\ {r.trace : r \in act} \subseteq {r.trace : r \in search.active} \cup {f}
        /\ {r.trace : r \in search.active} \subseteq {r.trace : r \in act}
        /\ f \in still => f \in {r.trace : r \in act}
    <3>1. Selected(f, file[f].dir).trace = f BY DEF Selected
    <3> QED BY <2>3, <3>1
  <2>8. fl \in Flags
    <3>1. search.flags \in Flags BY <1>1 DEF Searches
    <3> QED BY <2>3, <3>1 DEF Flags
  <2> HIDE DEF act, fl
  <2>9. /\ search' \in Searches /\ search'.query = search.query /\ search'.quiet = search.quiet
        /\ search'.providers = search.providers /\ search'.results = search.results
        /\ search'.left = search.left \ {f} /\ search'.active = act /\ search'.provider = o
    BY <1>1, <2>2, <2>5, <2>8 DEF Searches
  <2>10. HealthTypes' /\ Rooted' /\ Suiting' /\ SearchTypes' /\ Chosen'
    BY <2>2, <2>9, Frame DEF Stages
  <2>11. AllSettled' BY <2>9 DEF AllSettled, Settled, Bound, StillOf
  <2>12. Parsing'
    <3> DEFINE old == {r.trace : r \in search.active}
               new == {r.trace : r \in act}
    <3>1. Reached(o, search.left \cup old) BY DEF Parsing
    <3>2. new \subseteq old \cup {f} /\ old \subseteq new /\ (f \in still => f \in new) BY <2>7
    <3> HIDE DEF old, new
    <3>3. Reached(o, (search.left \ {f}) \cup new)
      BY <2>1, <3>1, <3>2 DEF Reached, StillOf
    <3>4. Reached(search.provider, search.left \cup {r.trace : r \in search.active})'
      <4>1. new = {r.trace : r \in search'.active} BY <2>9 DEF new
      <4> QED BY <2>9, <3>3, <4>1 DEF Reached, StillOf, Of
    <3>5. \A r \in search'.active : Found1(search.provider, r)' BY <2>6, <2>9 DEF Found1, Bound, Of
    <3>6. IsFiniteSet(search'.active) BY <2>5, <2>9
    <3> QED BY <3>4, <3>5, <3>6 DEF Parsing
  <2>13. Matching' BY <2>2, <2>9 DEF Matching, Matches
  <2>14. Asking' BY <2>9 DEF Asking
  <2> QED BY <2>2, <2>10, <2>11, <2>12, <2>13, <2>14 DEF Peeking
<1>4. CASE search.left = {}
  <2>1. Found \in Outcomes /\ Settled(o, Found) BY <1>4, FoundSettled
  <2>2. search' = Searched(o, Found) /\ stage' = "list" BY <1>4
  <2> QED BY <1>2, <2>1, <2>2, Answering
<1> QED BY <1>3, <1>4

-----------------------------------------------------------------------------
(* The choice among the providers. *)

\* A provider whose answer is the most telling exists when none selected.
LEMMA ClearestIn ==
    ASSUME SelectionInv, stage = "choose", Hits = {}
    PROVE  Clearest \in search.providers
<1> USE DEF SelectionInv
<1> DEFINE ranks == {Rank(search.results[p]) : p \in search.providers}
<1>1. search \in Searches /\ search.providers \subseteq DOMAIN search.results /\ search.providers # {}
  BY ProvidersFinite DEF SearchTypes
<1>2. ASSUME NEW p \in search.providers PROVE Rank(search.results[p]) \in Nat
  <2>1. search.results[p] \in Outcomes BY <1>1 DEF Searches
  <2>2. search.results[p].reason \in Reasons \ {"ambiguous_provider"}
    BY <1>1, <2>1 DEF Hits, Outcomes, AllSettled, Settled
  <2>3. \E i \in DOMAIN Priority : Priority[i] = search.results[p].reason
    <3>1. DOMAIN Priority = 1 .. 9 BY DEF Priority
    <3>2. /\ Priority[1] = "ambiguous_active_candidates" /\ Priority[2] = "ambiguous_session_id"
          /\ Priority[3] = "cwd_mismatch" /\ Priority[4] = "no_active_candidate"
          /\ Priority[5] = "stale_trace" /\ Priority[6] = "unparsable_trace"
          /\ Priority[7] = "no_exact_cwd_candidate" /\ Priority[8] = "session_not_found"
          /\ Priority[9] = "trace_root_unavailable"
      BY DEF Priority
    <3> QED BY <2>2, <3>1, <3>2 DEF Reasons
  <2>4. DOMAIN Priority \subseteq Nat BY DEF Priority
  <2> QED BY <2>3, <2>4 DEF Rank
<1>3. ranks \subseteq Nat /\ ranks # {} BY <1>1, <1>2
<1>4. PICK n \in ranks : \A m \in ranks : n <= m BY <1>3, LeastOf
<1>5. \E p \in search.providers : \A o \in search.providers :
          Rank(search.results[p]) <= Rank(search.results[o])
  BY <1>4
<1> QED BY <1>5 DEF Clearest

\* A transcript that suits is of a provider that was asked.
LEMMA StillAsked ==
    ASSUME SelectionInv, stage = "choose", NEW f \in still
    PROVE  ProviderOf[f] \in search.providers /\ f \in StillOf(ProviderOf[f])
BY DEF SelectionInv, Suiting, Suits, SearchTypes, StillOf, Providers

LEMMA ChoiceRight ==
    ASSUME SelectionInv, stage = "choose"
    PROVE  /\ Choice \in Outcomes /\ Bound(Choice)
           /\ Choice.trace # None => still \subseteq {Choice.trace}
           /\ search.quiet => IF Cardinality(still) = 1 THEN Choice.trace \in still
                              ELSE Choice.trace = None
<1> USE SelectionAssumption DEF SelectionInv
<1> DEFINE res == search.results
<1>1. /\ search \in Searches /\ search.providers \subseteq DOMAIN res /\ search.providers # {}
      /\ search.providers \subseteq Providers /\ still \subseteq Traces
  BY ProvidersFinite DEF SearchTypes, Searches
<1>2. \A p \in search.providers : Settled(p, res[p]) /\ res[p] \in Outcomes
  BY <1>1 DEF AllSettled, Searches
<1>3. \A p \in search.providers : p \in Hits <=> res[p].trace # None
  BY <1>2 DEF Hits, Outcomes
<1>4. \A p \in search.providers : p \in Unclear <=> Undecided(res[p])
  BY DEF Unclear, Undecided
<1>5. IsFiniteSet(Hits) /\ IsFiniteSet(still)
  <2>1. Hits \subseteq Providers BY <1>1 DEF Hits
  <2> QED BY <1>1, <2>1, ProvidersFinite, FS_Subset
\* The answer of one provider, when nothing that suits is of another.
<1>6. ASSUME NEW p \in search.providers, Choice = res[p],
             \A o \in search.providers : o # p => StillOf(o) = {} \/ (res[p].trace = None)
      PROVE  /\ Choice \in Outcomes /\ Bound(Choice)
             /\ Choice.trace # None => still \subseteq {Choice.trace}
  <2>1. Choice \in Outcomes /\ Bound(Choice) BY <1>2, <1>6 DEF Settled
  <2>2. ASSUME Choice.trace # None, NEW f \in still PROVE f = Choice.trace
    <3>1. ProviderOf[f] \in search.providers /\ f \in StillOf(ProviderOf[f]) BY StillAsked
    <3>2. ProviderOf[f] = p BY <1>6, <2>2, <3>1
    <3> QED BY <1>2, <1>6, <2>2, <3>1, <3>2 DEF Settled
  <2> QED BY <2>1, <2>2
\* When nothing was written, what is selected is in still, so still is a singleton.
<1>7. ASSUME search.quiet, Choice.trace # None, Choice.trace \in still, still \subseteq {Choice.trace}
      PROVE  IF Cardinality(still) = 1 THEN Choice.trace \in still ELSE Choice.trace = None
  <2>1. still = {Choice.trace} BY <1>7
  <2> QED BY <1>7, <2>1, FS_Singleton
\* When nothing is selected, still is no singleton.
<1>8. ASSUME search.quiet, Cardinality(still) = 1
      PROVE  \E p \in search.providers, f \in Traces :
                 /\ still = {f} /\ p \in Hits /\ res[p].trace = f
                 /\ \A o \in search.providers : o # p => o \notin Hits
                 /\ Unclear = {}
  <2>1. PICK f : still = {f} BY <1>5, <1>8, FS_Singleton
  <2> DEFINE p == ProviderOf[f]
  <2>2. f \in Traces /\ p \in search.providers /\ f \in StillOf(p) BY <1>1, <2>1, StillAsked
  <2>3. \A o \in search.providers : ~Undecided(res[o])
    BY <1>2, <1>8, <2>1 DEF Settled, StillOf
  <2>4. res[p].trace = f BY <1>2, <2>2, <2>3 DEF Settled
  <2>5. \A o \in search.providers : o # p => res[o].trace = None
    BY <1>2, <1>8, <2>1 DEF Settled
  <2> QED BY <1>1, <1>3, <1>4, <2>1, <2>2, <2>3, <2>4, <2>5 DEF Unclear, Undecided
<1>9. CASE search.query.provider # None
  <2> DEFINE p == search.query.provider
  <2>1. search.providers = {p} BY <1>9 DEF SearchTypes
  <2>2. Choice = res[p] BY <1>9 DEF Choice
  <2>3. /\ Choice \in Outcomes /\ Bound(Choice)
        /\ Choice.trace # None => still \subseteq {Choice.trace}
    BY <1>6, <2>1, <2>2
  <2>4. search.quiet /\ Choice.trace # None => Choice.trace \in still BY <1>2, <2>1, <2>2 DEF Settled
  <2>5. search.quiet /\ Cardinality(still) = 1 => Choice.trace \in still BY <1>8, <2>1, <2>2
  <2> QED BY <1>7, <2>3, <2>4, <2>5
<1>10. CASE search.query.provider = None /\ Cardinality(Hits) = 1 /\ Unclear = {}
  <2>1. PICK p : Hits = {p} BY <1>5, <1>10, FS_Singleton
  <2>2. p \in search.providers BY <2>1 DEF Hits
  <2>3. Choice = res[p] BY <1>10, <2>1 DEF Choice
  <2>4. \A o \in search.providers : o # p => StillOf(o) = {}
    BY <1>2, <1>3, <1>4, <1>10, <2>1 DEF Settled
  <2>5. /\ Choice \in Outcomes /\ Bound(Choice)
        /\ Choice.trace # None => still \subseteq {Choice.trace}
    BY <1>6, <2>2, <2>3, <2>4
  <2>6. search.quiet /\ Choice.trace # None => Choice.trace \in still BY <1>2, <2>2, <2>3 DEF Settled
  <2>7. search.quiet /\ Cardinality(still) = 1 => Choice.trace \in still BY <1>8, <2>1, <2>3
  <2> QED BY <1>7, <2>5, <2>6, <2>7
<1>11. CASE search.query.provider = None /\ ~(Cardinality(Hits) = 1 /\ Unclear = {}) /\ Hits # {}
  <2>1. Choice = Nothing("ambiguous_provider") BY <1>11 DEF Choice
  <2>2. Choice \in Outcomes /\ Bound(Choice) /\ Choice.trace = None
    BY <2>1 DEF Outcomes, Nothing, Reasons, Bound
  <2>3. search.quiet => Cardinality(still) # 1
    <3> SUFFICES ASSUME search.quiet, Cardinality(still) = 1 PROVE FALSE OBVIOUS
    <3>1. PICK p \in search.providers :
              p \in Hits /\ Unclear = {} /\ \A o \in search.providers : o # p => o \notin Hits
      BY <1>8
    <3>2. Hits = {p} BY <3>1 DEF Hits
    <3> QED BY <1>11, <3>1, <3>2, FS_Singleton
  <2> QED BY <2>2, <2>3
<1>12. CASE search.query.provider = None /\ Hits = {}
  <2> DEFINE p == Clearest
  <2>1. p \in search.providers BY <1>12, ClearestIn
  <2>2. Choice = res[p]
    <3>1. Cardinality(Hits) # 1 BY <1>12, FS_EmptySet
    <3> QED BY <1>12, <3>1 DEF Choice
  <2>3. Choice.trace = None BY <1>3, <1>12, <2>1, <2>2
  <2>4. Choice \in Outcomes /\ Bound(Choice) BY <1>2, <2>1, <2>2 DEF Settled
  <2>5. search.quiet => Cardinality(still) # 1 BY <1>8, <1>12
  <2> QED BY <2>3, <2>4, <2>5
<1> QED BY <1>9, <1>10, <1>11, <1>12

LEMMA ChooseKeeps == ASSUME SelectionInv, Choose PROVE SelectionInv'
<1> USE SelectionAssumption DEF SelectionInv, Choose
<1>1. search \in Searches BY DEF SearchTypes
<1>2. /\ Choice \in Outcomes /\ Bound(Choice)
      /\ Choice.trace # None => still \subseteq {Choice.trace}
      /\ search.quiet => IF Cardinality(still) = 1 THEN Choice.trace \in still
                         ELSE Choice.trace = None
  BY ChoiceRight
<1>3. search' = [search EXCEPT !.result = Choice] OBVIOUS
<1> DEFINE c == Choice
<1> HIDE DEF c
<1>4. /\ search' \in Searches /\ search'.query = search.query /\ search'.quiet = search.quiet
      /\ search'.providers = search.providers /\ search'.results = search.results
      /\ search'.result = c
  BY <1>1, <1>2, <1>3 DEF Searches, c
<1>5. HealthTypes' /\ Rooted' /\ Suiting' BY <1>4, Frame DEF Stages
<1>6. SearchTypes' BY <1>2, <1>4 DEF SearchTypes, Stages, c
<1>7. AllSettled' BY <1>4 DEF AllSettled, Settled, Bound, StillOf
<1>8. Chosen' BY <1>2, <1>4 DEF Chosen, Bound, c
<1> QED BY <1>5, <1>6, <1>7, <1>8 DEF Peeking, Parsing, Matching, Asking

LEMMA HealthKeeps == ASSUME SelectionInv, Health PROVE SelectionInv' /\ HealthTruth'
<1> USE SelectionAssumption DEF SelectionInv, Health
<1>1. search \in Searches /\ search.result \in Outcomes BY DEF SearchTypes
<1>2. search.providers \subseteq Providers /\ search.providers # {} BY ProvidersFinite DEF SearchTypes, Searches
<1>3. health' \in [Providers \cup {None} -> Tallies]
      /\ \A p \in Providers \cup {None} :
            /\ health'[p].ambiguous = IF p \in search.providers \cup {None} /\ Ambiguous(search.result) THEN 1 ELSE 0
            /\ health'[p].hits = IF p \in search.providers \cup {None} /\ Credited(p, search.result) THEN 1 ELSE 0
  BY DEF HealthTypes, Tallies
<1>4. HealthTypes' BY <1>3 DEF HealthTypes
<1>5. SearchTypes' BY DEF SearchTypes, Stages
<1>6. Rooted' BY DEF Rooted
<1>7. Suiting' BY DEF Suiting, Suits
<1>8. AllSettled' BY DEF AllSettled, Settled, Bound, StillOf
<1>9. Chosen' BY DEF Chosen, Bound
<1>10. stage' = "done" /\ search' = search  OBVIOUS
<1>11. HealthTruth'
  <2> HIDE SelectionAssumption DEF SelectionInv, Health
  <2> DEFINE r == search.result
  <2>1. \A p \in Providers : health'[p].hits > 0 => r.trace # None /\ p = ProviderOf[r.trace]
    <3> SUFFICES ASSUME NEW p \in Providers, health'[p].hits > 0
                 PROVE r.trace # None /\ p = ProviderOf[r.trace]
      OBVIOUS
    <3>1. health'[p].hits # 0 OBVIOUS
    <3>2. Credited(p, r) BY <1>3, <3>1
    <3>3. p # None BY SelectionAssumption
    <3> QED BY <3>2, <3>3 DEF Credited
  <2>2. Ambiguous(r) <=> \E p \in search.providers : health'[p].ambiguous > 0
    <3>1. \A p \in search.providers :
             health'[p].ambiguous = IF p \in search.providers \cup {None} /\ Ambiguous(search.result) THEN 1 ELSE 0
      BY <1>2, <1>3
    <3>2. CASE Ambiguous(search.result)
      <4>1. \A p \in search.providers : health'[p].ambiguous = 1 BY <3>1, <3>2
      <4>2. PICK p \in search.providers : TRUE BY <1>2
      <4>3. health'[p].ambiguous > 0
        <5>1. health'[p].ambiguous = 1 BY <4>1
        <5> QED BY <5>1
      <4> QED BY <3>2, <4>3
    <3>3. CASE ~Ambiguous(search.result) BY <3>1, <3>3
    <3> QED BY <3>2, <3>3
  <2> QED BY <1>10, <2>1, <2>2 DEF HealthTruth, Ambiguous
<1> QED BY <1>4, <1>5, <1>6, <1>7, <1>8, <1>9, <1>11 DEF Peeking, Parsing, Matching, Asking
LEMMA BecomesKeeps ==
    ASSUME SearchTypes, Rooted, NEW f \in Traces, NEW c \in Contents, Becomes(f, c)
    PROVE  /\ file[f].state # "absent" => c.state # "absent"
           /\ ProviderOf[f] \notin roots => c.state = "absent"
<1> USE DEF Becomes
<1>1. file[f] \in Contents /\ c \in Contents BY DEF SearchTypes
<1>2. file[f].state = "ok" => ProviderOf[f] \in roots BY DEF Rooted
<1>3. ASSUME c = [file[f] EXCEPT !.fresh = FALSE] PROVE c.state = file[f].state
  BY <1>1, <1>3 DEF Contents, Readable
<1> QED BY <1>1, <1>2, <1>3

LEMMA ChangeKeeps ==
    ASSUME SelectionInv, NEW f \in Traces, NEW c \in Contents, Change(f, c)
    PROVE  SelectionInv'
<1> USE SelectionAssumption DEF SelectionInv, Change
<1> DEFINE q == search.query
<1>1. search \in Searches /\ stage \notin {"idle", "done"} BY DEF SearchTypes
<1>2. /\ search' \in Searches /\ search'.query = search.query /\ search'.quiet = FALSE
      /\ search'.providers = search.providers /\ search'.results = search.results
      /\ search'.left = search.left /\ search'.matched = search.matched
      /\ search'.active = search.active /\ search'.provider = search.provider
      /\ search'.result = search.result
  BY <1>1 DEF Searches
<1>3. still' \subseteq still /\ \A g \in still' : Suits(g, search.query)' OBVIOUS
<1>4. /\ \A g \in Traces : file[g].state # "absent" => file'[g].state # "absent"
      /\ \A g \in Traces : ProviderOf[g] \notin roots => file'[g].state = "absent"
      /\ file' \in [Traces -> Contents]
  BY BecomesKeeps DEF Rooted, SearchTypes
<1>5. SearchTypes' BY <1>1, <1>2, <1>3, <1>4 DEF SearchTypes
<1>6. HealthTypes' BY DEF HealthTypes
<1>7. Rooted' BY <1>4 DEF Rooted
<1>8. Suiting' BY <1>2, <1>3 DEF Suiting
<1>9. AllSettled'
  <2> SUFFICES ASSUME NEW o \in DOMAIN search.results PROVE Settled(o, search.results[o])'
    BY <1>2 DEF AllSettled
  <2>1. Settled(o, search.results[o]) BY <1>1 DEF AllSettled
  <2> QED BY <1>2, <1>3, <2>1 DEF Settled, Bound, StillOf, Undecided
<1>10. \A o, s : s \subseteq Traces /\ Reached(o, s) => Reached(o, s)'
  BY <1>3, <1>4 DEF Reached, StillOf, Of
<1>11. Peeking'
  <2>1. stage = "peek" => search.left \cup search.matched \subseteq Traces BY <1>1 DEF Searches
  <2> QED BY <1>2, <1>10, <2>1 DEF Peeking
<1>12. Parsing'
  <2> SUFFICES ASSUME stage = "parse" PROVE Parsing' BY DEF Parsing
  <2> DEFINE s == search.left \cup {r.trace : r \in search.active}
  <2>1. Reached(search.provider, s) BY DEF Parsing
  <2>2. s \subseteq Traces BY <2>1 DEF Reached, Of
  <2>3. s' = s BY <1>2
  <2> HIDE DEF s
  <2>4. Reached(search.provider, s)'
    <3> HIDE SelectionAssumption DEF SelectionInv, Change
    <3>1. PICK o, u : o = search.provider /\ u = s OBVIOUS
    <3>2. Reached(o, u) /\ u \subseteq Traces BY <2>1, <2>2, <3>1
    <3>3. Reached(o, u)' BY <1>10, <3>2
    <3>4. o = search'.provider /\ u = s' BY <1>2, <2>3, <3>1
    <3> QED BY <3>3, <3>4 DEF Reached, StillOf
  <2>5. \A r \in search'.active : Found1(search.provider, r)' BY <1>2 DEF Parsing, Found1, Bound, Of
  <2>6. IsFiniteSet(search'.active) BY <1>2 DEF Parsing
  <2> QED BY <2>4, <2>5, <2>6 DEF Parsing, s
<1>13. Matching' BY <1>2 DEF Matching
<1>14. Asking' BY <1>2 DEF Asking
<1>15. Chosen' BY <1>2, <1>3 DEF Chosen, Bound
<1> QED BY <1>2, <1>5, <1>6, <1>7, <1>8, <1>9, <1>11, <1>12, <1>13, <1>14, <1>15

-----------------------------------------------------------------------------

LEMMA SelectionStutters == ASSUME SelectionInv, UNCHANGED selectionVars PROVE SelectionInv' /\ (HealthTruth => HealthTruth')
<1> USE DEF SelectionInv, selectionVars
<1>1. SearchTypes' BY DEF SearchTypes
<1>2. HealthTypes' BY DEF HealthTypes
<1>3. Rooted' BY DEF Rooted
<1>4. Suiting' BY DEF Suiting, Suits
<1>5. AllSettled' BY DEF AllSettled, Settled, Bound, StillOf
<1>6. Peeking' BY DEF Peeking, Reached, StillOf, Of
<1>7. Parsing' BY DEF Parsing, Reached, StillOf, Of, Found1, Bound
<1>8. Matching' BY DEF Matching, Matches
<1>9. Asking' BY DEF Asking
<1>10. Chosen' BY DEF Chosen, Bound
<1>11. HealthTruth => HealthTruth' BY DEF HealthTruth
<1> QED BY <1>1, <1>2, <1>3, <1>4, <1>5, <1>6, <1>7, <1>8, <1>9, <1>10, <1>11

LEMMA SelectionStep ==
    ASSUME SelectionInv, HealthTruth, [SelectionNext]_selectionVars
    PROVE  SelectionInv' /\ HealthTruth'
<1>1. CASE UNCHANGED selectionVars BY <1>1, SelectionStutters
<1>2. CASE Health BY <1>2, HealthKeeps
<1>3. ASSUME SelectionInv', stage' # "done" PROVE HealthTruth' BY <1>3 DEF HealthTruth
<1>4. ASSUME NEW q \in Queries, Ask(q) PROVE SelectionInv' /\ HealthTruth'
  BY <1>3, <1>4, AskKeeps DEF Ask
<1>5. CASE List BY <1>3, <1>5, ListKeeps DEF List
<1>6. CASE Peek BY <1>3, <1>6, PeekKeeps DEF Peek
<1>7. CASE Parse BY <1>3, <1>7, ParseKeeps DEF Parse
<1>8. CASE Choose BY <1>3, <1>8, ChooseKeeps DEF Choose
<1>9. ASSUME NEW f \in Traces, NEW c \in Contents, Change(f, c) PROVE SelectionInv' /\ HealthTruth'
  BY <1>3, <1>9, ChangeKeeps DEF Change
<1> QED BY <1>1, <1>2, <1>4, <1>5, <1>6, <1>7, <1>8, <1>9 DEF SelectionNext

LEMMA SelectionAlways == SelectionSpec => [](SelectionInv /\ HealthTruth)
<1>1. SelectionInit => SelectionInv /\ HealthTruth
  <2>1. SelectionInit => HealthTruth BY DEF SelectionInit, HealthTruth
  <2> QED BY <2>1, SelectionStart
<1>2. SelectionInv /\ HealthTruth /\ [SelectionNext]_selectionVars => (SelectionInv /\ HealthTruth)'
  BY SelectionStep
<1> QED BY <1>1, <1>2, PTL DEF SelectionSpec

LEMMA SelectionImplies == SelectionInv => RightSession
<1> SUFFICES ASSUME SelectionInv PROVE RightSession OBVIOUS
<1> USE SelectionAssumption DEF SelectionInv
<1>1. SelectionTypes
  <2>1. \A f \in Traces : file[f].state \in {"absent", "broken", "ok"} /\ file[f].dir \in Dirs
    <3> TAKE f \in Traces
    <3>1. file[f] \in Contents BY DEF SearchTypes
    <3> QED BY <3>1 DEF Contents, Readable
  <2>2. stage \in {"health", "done"} =>
          /\ search.result.reason \in Reasons \cup {"selected"}
          /\ (search.result.trace = None) = (search.result.reason # "selected")
    BY DEF SearchTypes, Outcomes
  <2>3. \A p \in Providers : health[p].ambiguous <= health[None].ambiguous BY DEF HealthTypes
  <2> QED BY <2>1, <2>2, <2>3 DEF SelectionTypes, SearchTypes, Stages
<1>2. UniqueSelected /\ NeverPassedOver /\ BoundDirectory
  BY DEF Chosen, Bound, UniqueSelected, NeverPassedOver, BoundDirectory
<1> QED BY <1>1, <1>2 DEF RightSession

\* A selection is of the session that was asked for, or of none: whatever the
\* providers write while the selector reads, and exactly so when they write nothing
\* (select_session, behavior_watch.py).
THEOREM SelectedIsRight == SelectionSpec => []RightSession
BY SelectionAlways, SelectionImplies, PTL

\* The health record credits a selection to the provider of the session, and an
\* ambiguity to every provider that was asked (_record_selector_health).
THEOREM HealthIsTrue == SelectionSpec => []HealthTruth
BY SelectionAlways, PTL
================================================================================

------------------------------ MODULE Delivery ------------------------------
(***************************************************************************)
(* What a reservation promises of its prompt (native_continuation.py): it  *)
(* is submitted once and only after it was reserved, at most one turn      *)
(* comes of it, and what is finally said of it is said once and stands: of *)
(* a dropped prompt no turn ever comes, and a turn that is said to have    *)
(* ended has, with that result.  Such a turn had the text of the prompt and *)
(* is said of one reservation only; that it was the turn of that very      *)
(* prompt is not promised, as prompts share their texts and a user may     *)
(* send the same.                                                          *)
(***************************************************************************)
EXTENDS Maps, Sequences

CONSTANT Text  \* what each prompt says

VARIABLES
    reserved,  \* prompts there is a reservation for
    sent,      \* how often each was submitted
    ran,       \* the turns: whose prompt, its text, and how it went
    said       \* what is finally on record: <<prompt, turn, how>>

Results == {"answer", "aborted"}
Dropped(k) == <<k, None, "dropped">> \in said
Settled(k) == \E s \in said : s[1] = k

DeliveryInit == reserved = {} /\ sent = <<>> /\ ran = <<>> /\ said = {}

Reserve(k) ==
    /\ k \notin reserved /\ reserved' = reserved \cup {k}
    /\ UNCHANGED <<sent, ran, said>>

Send(k) ==
    /\ k \in reserved \ DOMAIN sent /\ ~Dropped(k) /\ sent' = With(sent, k, 1)
    /\ UNCHANGED <<reserved, ran, said>>

\* Turns of users come and go as they please.
Start(k, text) ==
    /\ k # None => /\ k \in DOMAIN sent /\ ~Dropped(k) /\ text = Text[k]
                   /\ \A n \in DOMAIN ran : ran[n].key # k
    /\ ran' = Append(ran, [key |-> k, text |-> text, how |-> "running"])
    /\ UNCHANGED <<reserved, sent, said>>

End(n, result) ==
    /\ ran[n].how = "running" /\ ran' = [ran EXCEPT ![n].how = result]
    /\ UNCHANGED <<reserved, sent, said>>

SayDropped(k) ==
    /\ ~Settled(k) /\ \A n \in DOMAIN ran : ran[n].key # k
    /\ said' = said \cup {<<k, None, "dropped">>}
    /\ UNCHANGED <<reserved, sent, ran>>

SayEnded(k, n) ==
    /\ ~Settled(k) /\ ran[n].text = Text[k] /\ ran[n].how \in Results
    /\ \A s \in said : s[2] # n
    /\ said' = said \cup {<<k, n, ran[n].how>>}
    /\ UNCHANGED <<reserved, sent, ran>>

DeliveryNext ==
    \/ \E k \in reserved' : Reserve(k) \/ Send(k)
    \/ \E k \in reserved : SayDropped(k) \/ \E n \in DOMAIN ran : SayEnded(k, n)
    \/ \E n \in DOMAIN ran' : Start(ran'[n].key, ran'[n].text)
    \/ \E n \in DOMAIN ran, result \in Results : End(n, result)

DeliverySpec == DeliveryInit /\ [][DeliveryNext]_<<reserved, sent, ran, said>>
=============================================================================

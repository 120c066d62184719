------------------------------ MODULE Redaction ------------------------------
(***************************************************************************)
(* What a model is shown of a file that holds credentials, and what of the *)
(* model's answer is taken back: work_orders.py.  A text is a sequence of  *)
(* lines, a line a sequence of pieces, a piece a kind and its content:     *)
(*   "word"   anything that is no credential                               *)
(*   "secret" a credential where a detector finds it (by label or shape)   *)
(*   "bare"   the same credential where no detector would find it          *)
(*   "token"  a placeholder, APU-REDACTED-n                                *)
(* A work order has one target, so there is one file.                      *)
(***************************************************************************)
EXTENDS Naturals, FiniteSets, Sequences

Word(w)   == [kind |-> "word", of |-> w]
Secret(v) == [kind |-> "secret", of |-> v]
Bare(v)   == [kind |-> "bare", of |-> v]
Token(n)  == [kind |-> "token", of |-> n]

Places(text) == UNION {{l} \X DOMAIN text[l] : l \in DOMAIN text}
PieceAt(text, at) == text[at[1]][at[2]]
NotAfter(a, b) == a[1] < b[1] \/ (a[1] = b[1] /\ a[2] <= b[2])

\* find_secret_spans
Spans(text) == {at \in Places(text) : PieceAt(text, at).kind = "secret"}

\* Where a value stands, whatever stands around it.
Occurrences(text, v) == {at \in Places(text) : PieceAt(text, at) \in {Secret(v), Bare(v)}}

PlacesOf(text, n) == {at \in Places(text) : PieceAt(text, at) = Token(n)}
Tokens(text) == {PieceAt(text, at).of : at \in {x \in Places(text) : PieceAt(text, x).kind = "token"}}

-----------------------------------------------------------------------------
(* sanitize_staged_files *)

\* Credentials are numbered in the order of the text.
NumberOf(text, at) == Cardinality({x \in Spans(text) : NotAfter(x, at)})

Sanitized(text) ==
    [l \in DOMAIN text |->
        [i \in DOMAIN text[l] |->
            IF <<l, i>> \in Spans(text) THEN Token(NumberOf(text, <<l, i>>)) ELSE text[l][i]]]

\* The line and the context of an entry are those of the first place the
\* token has in the sanitized text, which may be a place it had before.
FirstPlace(text, n) ==
    CHOOSE at \in PlacesOf(text, n) : \A x \in PlacesOf(text, n) : NotAfter(at, x)

Entry(stage, n, v) ==
    LET line == FirstPlace(stage, n)[1]
    IN [token |-> n, line |-> line, context |-> stage[line], value |-> v]

Redactions(text) ==
    {Entry(Sanitized(text), NumberOf(text, at), PieceAt(text, at).of) : at \in Spans(text)}

-----------------------------------------------------------------------------
(* verify_plan_candidate *)

Once(text, n) == \E at \in Places(text) : PlacesOf(text, n) = {at}

\* (mutant) a token may stand anywhere in its file.
StructuredLoose(text, entries) ==
    /\ Tokens(text) = {e.token : e \in entries}
    /\ \A e \in entries : Once(text, e.token)

\* Every token once, at its line, in its whole line; and no other token.
Structured(text, entries) ==
    /\ Tokens(text) = {e.token : e \in entries}
    /\ \A e \in entries :
          /\ Once(text, e.token)
          /\ LET line == FirstPlace(text, e.token)[1]
             IN line = e.line /\ text[line] = e.context

\* The values are put back for the tokens.
Materialized(text, entries) ==
    [l \in DOMAIN text |->
        [i \in DOMAIN text[l] |->
            IF text[l][i].kind = "token"
            THEN Secret((CHOOSE e \in entries : e.token = text[l][i].of).value)
            ELSE text[l][i]]]

\* Nothing of the text itself is a credential, and nothing outside the places
\* of the tokens is one when their values are back.
Verified(text, entries) ==
    /\ Spans(text) = {}
    /\ \A e \in entries : Occurrences(text, e.value) = {}
    /\ Structured(text, entries)
    /\ LET back == Materialized(text, entries)
           restored == UNION {PlacesOf(text, e.token) : e \in entries}
       IN Spans(back) \cup UNION {Occurrences(back, e.value) : e \in entries} \subseteq restored

-----------------------------------------------------------------------------
(* What an order says and how it may be handled. *)

\* _write_sanitized_stage: every credential is recognized, none survives, and
\* the stage gives the text back.
Stageable(text) ==
    LET stage == Sanitized(text)
        entries == Redactions(text)
    IN
    /\ Spans(text) # {} /\ Cardinality(entries) = Cardinality(Spans(text))
    /\ Verified(stage, entries)
    /\ Materialized(stage, entries) = text
=============================================================================

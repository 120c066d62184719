----------------------------- MODULE MCDispatch -----------------------------
(* Texts of at most two lines.  The target holds nothing of note; one         *)
(* credential; two in one line; one with a copy no detector finds; one beside *)
(* a placeholder of its own; one whose shape only find_secret_spans knows.    *)
EXTENDS Dispatch

Plain == <<Word("a")>>
Changed == <<Word("b")>>

\* Kept, moved, copied, split, joined, named or left out.
MCProposed ==
    {<<x, y>> : x \in {Plain, Changed}, y \in {<<Token(1)>>, <<Secret("s")>>, <<Bare("s")>>, Changed}}
    \cup {<<<<Token(1)>>, y>> : y \in {Plain, <<Token(1)>>, <<Token(2)>>}}
    \cup {<<<<Token(1), Token(2)>>, y>> : y \in {Plain, Changed}}
    \cup {<<<<Token(2), Token(1)>>, Plain>>, <<<<Token(1), Word("a")>>, Plain>>, <<Changed>>}

MCScribbled == {<<Changed, Plain>>}

MCLives == {<<Plain, Plain>>,
            <<Plain, <<Secret("s")>>>>,
            <<<<Secret("s"), Secret("t")>>, Plain>>,
            <<<<Bare("s")>>, <<Secret("s")>>>>,
            <<<<Token(1)>>, <<Secret("s")>>>>,
            <<<<Secret("m")>>, Plain>>}

MCMissed == {"m"}
=============================================================================

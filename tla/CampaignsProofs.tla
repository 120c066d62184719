-------------------------- MODULE CampaignsProofs --------------------------
(***************************************************************************)
(* Campaigns implements CampaignLedger, for every set of processes, work   *)
(* orders, installations and bounds: an artifact that is whole stays as it *)
(* is, and a revision of the index says exactly what the artifacts said.   *)
(* A second invariant, on the first, shows that the evidence of a change   *)
(* is on record before the change: whatever a command has yet to do is     *)
(* recorded, or will be by what it does before it.  A third shows what is  *)
(* done once: a status reports what it repaired, an attempt has one        *)
(* result, and while nothing fails the campaign has one snapshot.          *)
(***************************************************************************)
EXTENDS Campaigns, FiniteSetTheorems, TLAPS

-----------------------------------------------------------------------------
(* The inductive invariant. *)

\* A list of operations.  Those that fill a file, and the one that begins with
\* the manifest, are only ever next.
IsList(s) == s \in Seq({s[n] : n \in DOMAIN s})
Creates == {"manifest", "fill_manifest", "index", "first"}
Fillers == {"manifest", "fill_manifest", "fill_leaf", "fill_revision"}
Plain(o) == o.op \notin Fillers /\ (o.op = "leaf" => o.body # Torn)
PlainList(s) == IsList(s) /\ \A n \in DOMAIN s : Plain(s[n])
Late(s) == \A n \in DOMAIN s : s[n].op \notin Creates

\* Only the operation that is next has begun a file.
Listed(p) ==
    /\ IsList(job[p].todo)
    /\ Busy(p) =>
          /\ PlainList(Tail(job[p].todo))
          /\ Arg(p).op \in {"leaf", "fill_leaf"} => Arg(p).body # Torn

\* Without the lock a command is about to take it, or creates the campaign.
Opening(s) == \E n \in DOMAIN s :
    /\ s[n].op = "lock"
    /\ \A m \in DOMAIN s : IF m < n THEN s[m].op \in Creates \cup {"fill_revision"}
                             ELSE s[m].op \notin Creates
Held(p) == Busy(p) => IF lock = p THEN Late(job[p].todo) ELSE Opening(job[p].todo)

\* What an operation that fills a file has created.
Fills(p) ==
    /\ At(p, "fill_leaf") => Arg(p).key \in DOMAIN leaves /\ leaves[Arg(p).key] = Torn
    /\ At(p, "fill_revision") => revs # <<>> /\ Index = Torn /\ Foldable /\ Arg(p).index = Folded
    /\ At(p, "manifest") \/ At(p, "fill_manifest") => manifest # "whole"

\* While the campaign is created nothing is in it, and whoever looks at it
\* writes none of its artifacts.
Blank == files = {} /\ DOMAIN leaves = {} /\ \A i \in Installs : receipt[i] = None
Young(p) == Busy(p) /\ lock # p /\ Arg(p).op \in Creates \cup {"fill_revision"}
Watching(q) ==
    Busy(q) =>
        /\ lock = q \/ At(q, "lock")
        /\ \A n \in DOMAIN job[q].todo :
              /\ job[q].todo[n].op \in {"lock", "attach", "receipts", "rebuild", "fold", "fill_revision", "done"}
              /\ job[q].todo[n].op = "receipts" => job[q].todo[n].left = {}
Creation == \A p \in Procs : Young(p) => Blank /\ \A q \in Procs \ {p} : Watching(q)

\* Before its manifest is whole only its creator is at work.
Unmade ==
    manifest # "whole" =>
        /\ Blank /\ revs = <<>> /\ lock = None
        /\ \A p \in Procs : Busy(p) => At(p, "manifest") \/ At(p, "fill_manifest")
        /\ \A p, q \in Procs : Busy(p) /\ Busy(q) => p = q

\* One revision at a time is written, the last.
OneWriter ==
    /\ IsList(revs)
    /\ \A n \in DOMAIN revs : revs[n] = Torn => n = Len(revs)
    /\ \A p, q \in Procs : At(p, "fill_revision") /\ At(q, "fill_revision") => p = q

Own(p) == Listed(p) /\ Held(p) /\ Fills(p)

IInv ==
    /\ job = [p \in Procs |-> [cmd |-> job[p].cmd, todo |-> job[p].todo]]
    /\ \A p \in Procs : Own(p)
    /\ Creation /\ Unmade /\ OneWriter
-----------------------------------------------------------------------------
(* Lists of operations. *)

LEMMA Lists ==
    ASSUME NEW S, NEW s \in Seq(S)
    PROVE  IsList(s) /\ Len(s) \in Nat /\ DOMAIN s = 1 .. Len(s)
<1>1. Len(s) \in Nat /\ DOMAIN s = 1 .. Len(s) /\ s \in [1 .. Len(s) -> S]
  OBVIOUS
<1> DEFINE R == {s[n] : n \in DOMAIN s}
<1>2. \A n \in 1 .. Len(s) : s[n] \in R
  BY <1>1
<1> HIDE DEF R
<1>3. s \in [1 .. Len(s) -> R]
  BY <1>1, <1>2
<1>4. s \in Seq(R)
  BY <1>1, <1>3
<1> QED BY <1>1, <1>4 DEF IsList, R

LEMMA TailOf ==
    ASSUME NEW s, IsList(s), s # <<>>
    PROVE  /\ IsList(Tail(s)) /\ Len(s) \in Nat \ {0} /\ DOMAIN s = 1 .. Len(s) /\ Head(s) = s[1]
           /\ Len(Tail(s)) = Len(s) - 1 /\ DOMAIN Tail(s) = 1 .. Len(s) - 1
           /\ \A n \in 1 .. Len(s) - 1 : Tail(s)[n] = s[n + 1]
<1> DEFINE R == {s[n] : n \in DOMAIN s}
<1>1. s \in Seq(R)
  BY DEF IsList
<1> HIDE DEF R
<1>2. Tail(s) \in Seq(R) /\ Len(s) \in Nat \ {0} /\ Head(s) = s[1] /\ Len(Tail(s)) = Len(s) - 1
      /\ DOMAIN s = 1 .. Len(s)
      /\ \A n \in 1 .. Len(Tail(s)) : Tail(s)[n] = s[n + 1]
  BY <1>1
<1> QED BY <1>2, Lists

LEMMA Joined ==
    ASSUME NEW s, NEW t, IsList(s), IsList(t)
    PROVE  /\ IsList(s \o t) /\ Len(s) \in Nat /\ Len(t) \in Nat
           /\ DOMAIN s = 1 .. Len(s) /\ DOMAIN t = 1 .. Len(t)
           /\ Len(s \o t) = Len(s) + Len(t) /\ DOMAIN (s \o t) = 1 .. Len(s) + Len(t)
           /\ \A n \in 1 .. Len(s) : (s \o t)[n] = s[n]
           /\ \A n \in Len(s) + 1 .. Len(s) + Len(t) : (s \o t)[n] = t[n - Len(s)]
<1> DEFINE R == {s[n] : n \in DOMAIN s} \cup {t[n] : n \in DOMAIN t}
<1>1. s \in Seq(R) /\ t \in Seq(R)
  <2>1. ASSUME NEW A, NEW B, NEW q \in Seq(A), A \subseteq B PROVE q \in Seq(B)
    BY <2>1
  <2> QED BY <2>1 DEF IsList
<1> HIDE DEF R
<1>2. s \o t \in Seq(R) /\ Len(s \o t) = Len(s) + Len(t) /\ Len(s) \in Nat /\ Len(t) \in Nat
      /\ \A n \in 1 .. Len(s) + Len(t) : (s \o t)[n] = IF n <= Len(s) THEN s[n] ELSE t[n - Len(s)]
  BY <1>1
<1>3. IsList(s \o t) /\ DOMAIN (s \o t) = 1 .. Len(s) + Len(t) /\ DOMAIN s = 1 .. Len(s) /\ DOMAIN t = 1 .. Len(t)
  BY <1>1, <1>2, Lists
<1>4. \A n \in 1 .. Len(s) : n \in 1 .. Len(s) + Len(t) /\ n <= Len(s)
  BY <1>2
<1>5. \A n \in Len(s) + 1 .. Len(s) + Len(t) : n \in 1 .. Len(s) + Len(t) /\ ~(n <= Len(s))
  BY <1>2
<1> QED BY <1>2, <1>3, <1>4, <1>5

\* Lists of plain operations, joined, remain such.
LEMMA PlainJoined ==
    ASSUME NEW s, NEW t, PlainList(s), PlainList(t)
    PROVE  PlainList(s \o t) /\ (Late(s) /\ Late(t) => Late(s \o t))
<1>1. IsList(s) /\ IsList(t)
  BY DEF PlainList
<1>2. \A n \in DOMAIN (s \o t) : (\E m \in DOMAIN s : (s \o t)[n] = s[m]) \/ (\E m \in DOMAIN t : (s \o t)[n] = t[m])
  BY <1>1, Joined
<1> QED BY <1>1, <1>2, Joined DEF PlainList, Late

LEMMA NextPlain ==
    ASSUME NEW s, PlainList(s), s # <<>>
    PROVE  PlainList(Tail(s)) /\ Head(s) = s[1] /\ Plain(Head(s)) /\ 1 \in DOMAIN s
<1>1. IsList(s)
  BY DEF PlainList
<1>2. /\ IsList(Tail(s)) /\ DOMAIN s = 1 .. Len(s) /\ Len(s) \in Nat \ {0} /\ Head(s) = s[1]
      /\ DOMAIN Tail(s) = 1 .. Len(s) - 1 /\ \A n \in 1 .. Len(s) - 1 : Tail(s)[n] = s[n + 1]
  BY <1>1, TailOf
<1> QED BY <1>2 DEF PlainList

\* A list with a new head.
LEMMA Cons ==
    ASSUME NEW s, NEW o, IsList(s)
    PROVE  /\ IsList(<<o>> \o s) /\ <<o>> \o s # <<>>
           /\ Head(<<o>> \o s) = o /\ Tail(<<o>> \o s) = s
           /\ (<<o>> \o s)[1] = o
           /\ (o.op \notin Creates /\ Late(s) => Late(<<o>> \o s))
<1> DEFINE R == {s[n] : n \in DOMAIN s} \cup {o}
<1>1. s \in Seq(R)
  <2>1. ASSUME NEW A, NEW B, NEW q \in Seq(A), A \subseteq B PROVE q \in Seq(B)
    BY <2>1
  <2> QED BY <2>1 DEF IsList
<1>2. o \in R
  OBVIOUS
<1> HIDE DEF R
<1>3. /\ <<o>> \o s \in Seq(R) /\ Len(<<o>> \o s) = Len(s) + 1 /\ Len(s) \in Nat
      /\ (<<o>> \o s)[1] = o /\ \A n \in 2 .. Len(s) + 1 : (<<o>> \o s)[n] = s[n - 1]
  BY <1>1, <1>2
<1>4. IsList(<<o>> \o s) /\ DOMAIN (<<o>> \o s) = 1 .. Len(s) + 1
  BY <1>3, Lists
<1>5. Head(<<o>> \o s) = o /\ <<o>> \o s # <<>>
  BY <1>1, <1>2
<1>6. Tail(<<o>> \o s) = s
  BY <1>1, <1>2
<1>7. DOMAIN s = 1 .. Len(s)
  BY <1>1, Lists
<1>8. ASSUME o.op \notin Creates, Late(s) PROVE Late(<<o>> \o s)
  <2> SUFFICES ASSUME NEW n \in 1 .. Len(s) + 1 PROVE (<<o>> \o s)[n].op \notin Creates
    BY <1>4 DEF Late
  <2>1. CASE n = 1
    BY <1>3, <1>8, <2>1
  <2>2. CASE n # 1
    <3>1. n \in 2 .. Len(s) + 1 /\ n - 1 \in 1 .. Len(s)
      BY <1>3, <2>2
    <3> QED BY <1>3, <1>7, <1>8, <3>1 DEF Late
  <2> QED BY <2>1, <2>2
<1> QED BY <1>3, <1>4, <1>5, <1>6, <1>8

LEMMA LateTail ==
    ASSUME NEW s, IsList(s), s # <<>>, Late(s)
    PROVE  Late(Tail(s))
BY TailOf DEF Late

LEMMA Before ==
    ASSUME NEW s, IsList(s), NEW n \in DOMAIN s, n # 1
    PROVE  1 \in DOMAIN s /\ 1 < n
<1>1. DOMAIN s = 1 .. Len(s) /\ Len(s) \in Nat
  BY Lists DEF IsList
<1> QED BY <1>1

LEMMA Empty == PlainList(<<>>) /\ Late(<<>>) /\ IsList(<<>>)
<1>1. IsList(<<>>)
  BY DEF IsList
<1> QED BY <1>1 DEF PlainList, Late

\* Lists written out.
Fit(o) == Plain(o) /\ o.op \notin Creates

LEMMA Single == ASSUME NEW o, Plain(o) PROVE PlainList(<<o>>) /\ (o.op \notin Creates => Late(<<o>>))
<1>1. <<o>> \in Seq({o})
  OBVIOUS
<1>2. IsList(<<o>>) /\ DOMAIN <<o>> = 1 .. 1
  BY <1>1, Lists
<1> QED BY <1>2 DEF PlainList, Late

LEMMA Pair == ASSUME NEW a, NEW b, Fit(a), Fit(b) PROVE PlainList(<<a, b>>) /\ Late(<<a, b>>)
<1>1. <<a, b>> \in Seq({a, b})
  OBVIOUS
<1>2. IsList(<<a, b>>) /\ DOMAIN <<a, b>> = 1 .. 2
  BY <1>1, Lists
<1> QED BY <1>2 DEF PlainList, Late, Fit

LEMMA Triple ==
    ASSUME NEW a, NEW b, NEW c, Fit(a), Fit(b), Fit(c)
    PROVE  PlainList(<<a, b, c>>) /\ Late(<<a, b, c>>)
<1>1. <<a, b, c>> \in Seq({a, b, c})
  OBVIOUS
<1>2. IsList(<<a, b, c>>) /\ DOMAIN <<a, b, c>> = 1 .. 3
  BY <1>1, Lists
<1> QED BY <1>2 DEF PlainList, Late, Fit

LEMMA Four ==
    ASSUME NEW a, NEW b, NEW c, NEW d, Fit(a), Fit(b), Fit(c), Fit(d)
    PROVE  PlainList(<<a, b, c, d>>) /\ Late(<<a, b, c, d>>)
<1>1. <<a, b, c, d>> \in Seq({a, b, c, d})
  OBVIOUS
<1>2. IsList(<<a, b, c, d>>) /\ DOMAIN <<a, b, c, d>> = 1 .. 4
  BY <1>1, Lists
<1> QED BY <1>2 DEF PlainList, Late, Fit

LEMMA Five ==
    ASSUME NEW a, NEW b, NEW c, NEW d, NEW e, Fit(a), Fit(b), Fit(c), Fit(d), Fit(e)
    PROVE  PlainList(<<a, b, c, d, e>>) /\ Late(<<a, b, c, d, e>>)
<1>1. <<a, b, c, d, e>> \in Seq({a, b, c, d, e})
  OBVIOUS
<1>2. IsList(<<a, b, c, d, e>>) /\ DOMAIN <<a, b, c, d, e>> = 1 .. 5
  BY <1>1, Lists
<1> QED BY <1>2 DEF PlainList, Late, Fit

\* Operations.
LEMMA Ops ==
    /\ \A o : o \notin Creates \cup Fillers \cup {"leaf"} => Fit(Op(o))
    /\ \A type, id, s, w : Fit(Leaf(type, id, s, w))
<1>1. ASSUME NEW o, o \notin Creates \cup Fillers \cup {"leaf"} PROVE Fit(Op(o))
  BY <1>1 DEF Fit, Plain, Op, Creates, Fillers
<1>2. ASSUME NEW type, NEW id, NEW s, NEW w PROVE Fit(Leaf(type, id, s, w))
  <2>1. Leaf(type, id, s, w).op = "leaf" /\ Leaf(type, id, s, w).body = [snap |-> s, what |-> w]
    BY DEF Leaf
  <2>2. [snap |-> s, what |-> w] # Torn
    <3>1. "torn" \in DOMAIN Torn /\ "torn" \notin DOMAIN [snap |-> s, what |-> w]
      BY DEF Torn
    <3> QED BY <3>1
  <2> QED BY <2>1, <2>2 DEF Fit, Plain, Creates, Fillers
<1> QED BY <1>1, <1>2
-----------------------------------------------------------------------------
(* What a step leaves alone. *)

LEMMA FirstOp ==
    ASSUME NEW p \in Procs, IsList(job[p].todo), Busy(p)
    PROVE  Arg(p) = job[p].todo[1] /\ 1 \in DOMAIN job[p].todo
BY TailOf DEF Busy, Arg

\* Every other operation is under the lock.
LEMMA UnderLock ==
    ASSUME NEW p \in Procs, Own(p), Busy(p), Arg(p).op \notin Creates \cup {"fill_revision", "lock"}
    PROVE  lock = p
<1>1. IsList(job[p].todo)
  BY DEF Own, Listed
<1>2. Arg(p) = job[p].todo[1] /\ DOMAIN job[p].todo = 1 .. Len(job[p].todo) /\ Len(job[p].todo) \in Nat
  BY <1>1, FirstOp, TailOf DEF Busy
<1>3. ~Opening(job[p].todo)
  <2> SUFFICES ASSUME NEW n \in DOMAIN job[p].todo, job[p].todo[n].op = "lock",
                      \A m \in DOMAIN job[p].todo : m < n => job[p].todo[m].op \in Creates \cup {"fill_revision"}
               PROVE  FALSE
    BY DEF Opening
  <2>1. CASE n = 1
    BY <1>2, <2>1
  <2>2. CASE n # 1
    <3>1. 1 \in DOMAIN job[p].todo /\ 1 < n
      BY <1>1, <2>2, Before
    <3> QED BY <1>2, <3>1
  <2> QED BY <2>1, <2>2
<1> QED BY <1>3 DEF Own, Held

\* A campaign is created by somebody nobody else interferes with.
WatchOps == {"lock", "attach", "receipts", "rebuild", "fold", "fill_revision", "done"}

LEMMA NobodyYoung ==
    ASSUME IInv, NEW p \in Procs, Busy(p), Arg(p).op \notin WatchOps
    PROVE  \A q \in Procs \ {p} : ~Young(q)
<1>1. Arg(p) = job[p].todo[1] /\ 1 \in DOMAIN job[p].todo
  BY FirstOp DEF IInv, Own, Listed
<1>2. ~Watching(p)
  BY <1>1 DEF Watching, WatchOps
<1> QED BY <1>2 DEF IInv, Creation

LEMMA Frame ==
    ASSUME NEW q \in Procs, Own(q), job'[q] = job[q], lock' = q <=> lock = q,
           UNCHANGED <<manifest, leaves, revs>>
    PROVE  Own(q)'
<1>1. Listed(q)' /\ Held(q)'
  BY DEF Own, Listed, Held, Busy, Arg
<1>2. (Foldable <=> Foldable') /\ Folded' = Folded /\ Index' = Index
  BY DEF Foldable, Folded, Whole, SnapshotsNamed, Index
<1>3. Fills(q)'
  BY <1>2 DEF Own, Fills, At, Busy, Arg
<1> QED BY <1>1, <1>3 DEF Own

LEMMA CreationKept ==
    ASSUME Creation, NEW p \in Procs,
           \A q \in Procs \ {p} : job'[q] = job[q] /\ (lock' = q <=> lock = q),
           Young(p)' => Blank' /\ \A q \in Procs \ {p} : Watching(q),
           (\E q \in Procs \ {p} : Young(q)) => Blank' /\ Watching(p)'
    PROVE  Creation'
<1>1. \A q \in Procs \ {p} : /\ Young(q)' => Young(q)
                             /\ Watching(q) => Watching(q)'
  BY DEF Young, Watching, Busy, At, Arg
<1>2. ASSUME NEW q \in Procs, Young(q)' PROVE Blank' /\ \A r \in Procs \ {q} : Watching(r)'
  <2>1. CASE q = p
    BY <1>1, <1>2, <2>1
  <2>2. CASE q # p
    <3>1. Young(q) /\ Blank' /\ Watching(p)'
      BY <1>1, <1>2, <2>2
    <3> QED BY <1>1, <3>1 DEF Creation
  <2> QED BY <2>1, <2>2
<1> QED BY <1>2 DEF Creation

LEMMA Goes ==
    ASSUME IInv, NEW p \in Procs, NEW ops, Continue(p, ops)
    PROVE  /\ job'[p].todo = ops \o Tail(job[p].todo) /\ job'[p].cmd = job[p].cmd
           /\ \A q \in Procs \ {p} : job'[q] = job[q]
           /\ job' = [q \in Procs |-> [cmd |-> job'[q].cmd, todo |-> job'[q].todo]]
           /\ lock' = lock
<1>1. job = [q \in Procs |-> [cmd |-> job[q].cmd, todo |-> job[q].todo]]
  BY DEF IInv
<1>2. job' = [job EXCEPT ![p].todo = ops \o Tail(@)] /\ lock' = lock
  BY DEF Continue
<1>3. job' = [q \in Procs |-> IF q = p THEN [job[p] EXCEPT !.todo = ops \o Tail(@)] ELSE job[q]]
  BY <1>1, <1>2
<1>4. job[p] = [cmd |-> job[p].cmd, todo |-> job[p].todo]
  BY <1>1
<1>5. [job[p] EXCEPT !.todo = ops \o Tail(@)] = [cmd |-> job[p].cmd, todo |-> ops \o Tail(job[p].todo)]
  <2>1. ASSUME NEW c, NEW t, NEW u PROVE [[cmd |-> c, todo |-> t] EXCEPT !.todo = u] = [cmd |-> c, todo |-> u]
    OBVIOUS
  <2>2. PICK t, u : t = job[p].todo /\ u = ops \o Tail(t)
    OBVIOUS
  <2>3. [[cmd |-> job[p].cmd, todo |-> t] EXCEPT !.todo = u] = [cmd |-> job[p].cmd, todo |-> u]
    BY <2>1
  <2> QED BY <1>4, <2>2, <2>3
<1>6. job'[p] = [cmd |-> job[p].cmd, todo |-> ops \o Tail(job[p].todo)]
  BY <1>3, <1>5
<1>7. \A q \in Procs \ {p} : job'[q] = job[q]
  BY <1>3
<1>8. \A q \in Procs : job'[q] = [cmd |-> job'[q].cmd, todo |-> job'[q].todo]
  BY <1>1, <1>6, <1>7
<1> QED BY <1>2, <1>3, <1>6, <1>7, <1>8

LEMMA EndGoes ==
    ASSUME IInv, NEW p \in Procs, End(p)
    PROVE  /\ job'[p].todo = <<>> /\ ~Busy(p)'
           /\ \A q \in Procs \ {p} : job'[q] = job[q] /\ (lock' = q => lock = q)
           /\ job' = [q \in Procs |-> [cmd |-> job'[q].cmd, todo |-> job'[q].todo]]
           /\ lock' # p \/ lock' = None
           /\ lock' = lock \/ (lock = p /\ lock' = None)
<1>1. job = [q \in Procs |-> [cmd |-> job[q].cmd, todo |-> job[q].todo]]
  BY DEF IInv
<1>2. job' = [q \in Procs |-> IF q = p THEN Idle ELSE job[q]]
  BY <1>1 DEF End
<1>3. job'[p] = [cmd |-> "none", todo |-> <<>>]
  BY <1>2 DEF Idle
<1>4. \A q \in Procs : job'[q] = [cmd |-> job'[q].cmd, todo |-> job'[q].todo]
  BY <1>1, <1>2, <1>3
<1>5. job'[p].todo = <<>>
  BY <1>3
<1> QED BY <1>2, <1>4, <1>5, CampaignAssumption DEF End, Busy

LEMMA DropNothing ==
    ASSUME NEW p \in Procs, Listed(p), Busy(p)
    PROVE  <<>> \o Tail(job[p].todo) = Tail(job[p].todo)
<1>1. IsList(Tail(job[p].todo))
  BY DEF Listed, PlainList
<1>2. ASSUME NEW S, NEW u \in Seq(S) PROVE <<>> \o u = u
  BY <1>2
<1> QED BY <1>1, <1>2 DEF IsList

\* Of a step that goes on with plain operations: the list and the lock.
LEMMA GoesOn ==
    ASSUME IInv, NEW p \in Procs, Busy(p), NEW ops, PlainList(ops), Continue(p, ops)
    PROVE  /\ Listed(p)'
           /\ lock = p /\ Late(ops) => Held(p)'
           /\ Busy(p)' => Arg(p)'.op \notin Fillers
           /\ Late(ops) /\ lock = p /\ Busy(p)' => Arg(p)'.op \notin Creates
<1> DEFINE s == job[p].todo
           t == job'[p].todo
<1>1. IsList(s) /\ PlainList(Tail(s)) /\ s # <<>>
  BY DEF IInv, Own, Listed, Busy
<1>2. t = ops \o Tail(s) /\ lock' = lock
  BY Goes
<1>3. PlainList(t)
  BY <1>1, <1>2, PlainJoined
<1>4. lock = p /\ Late(ops) => Late(t)
  BY <1>1, <1>2, LateTail, PlainJoined DEF IInv, Own, Held, Busy
<1>5. t # <<>> => PlainList(Tail(t)) /\ Head(t) = t[1] /\ Plain(Head(t)) /\ 1 \in DOMAIN t
  BY <1>3, NextPlain
<1>6. Listed(p)'
  BY <1>3, <1>5 DEF Listed, PlainList, Plain, Arg, Busy, Fillers
<1>7. lock = p /\ Late(ops) => Held(p)'
  BY <1>2, <1>4 DEF Held
<1>8. Busy(p)' => Arg(p)'.op \notin Fillers
  BY <1>5 DEF Busy, Arg, Plain, Fillers
<1>9. Late(ops) /\ lock = p /\ Busy(p)' => Arg(p)'.op \notin Creates
  BY <1>4, <1>5 DEF Busy, Arg, Late
<1> QED BY <1>6, <1>7, <1>8, <1>9

\* A step under the lock that writes none of the campaign's record.
LEMMA QuietStep ==
    ASSUME IInv, NEW p \in Procs, Busy(p), lock = p, NEW ops, PlainList(ops), Late(ops),
           Continue(p, ops), UNCHANGED <<manifest, leaves, revs>>,
           (\E q \in Procs \ {p} : Young(q)) => Blank' /\ Watching(p)'
    PROVE  IInv'
<1>1. /\ \A q \in Procs \ {p} : job'[q] = job[q]
      /\ job' = [q \in Procs |-> [cmd |-> job'[q].cmd, todo |-> job'[q].todo]]
      /\ lock' = lock
  BY Goes
<1>2. \A q \in Procs \ {p} : Own(q)'
  BY <1>1, Frame DEF IInv
<1>3. Fills(p)'
  <2>1. Busy(p)' => Arg(p)'.op \notin Fillers /\ Arg(p)'.op \notin Creates
    BY GoesOn
  <2>2. \A o \in Fillers \cup Creates : ~At(p, o)'
    BY <2>1 DEF At, Arg
  <2> QED BY <2>2 DEF Fills, Fillers, Creates
<1>4. Own(p)'
  BY <1>3, GoesOn DEF Own
<1>5. manifest = "whole" \/ lock = None
  BY DEF IInv, Unmade
<1>6. p # None => manifest = "whole"
  BY <1>5
<1>7. ~Young(p)'
  BY <1>1 DEF Young
<1>8. Creation'
  BY <1>1, <1>7, CreationKept DEF IInv
<1>9. OneWriter'
  BY <1>1, GoesOn, ZenonT(40) DEF IInv, OneWriter, At, Busy, Arg, Fillers
<1>10. Unmade'
  BY <1>6, CampaignAssumption DEF Unmade
<1> QED BY <1>1, <1>2, <1>4, <1>8, <1>9, <1>10 DEF IInv
\* The same, of an operation whoever looks at a new campaign does not reach.
LEMMA QuietOp ==
    ASSUME IInv, NEW p \in Procs, Busy(p), Arg(p).op \notin WatchOps \cup Creates,
           NEW ops, PlainList(ops), Late(ops), Continue(p, ops), UNCHANGED <<manifest, leaves, revs>>
    PROVE  IInv'
<1>1. lock = p
  BY UnderLock DEF IInv, WatchOps
<1>2. ~ \E q \in Procs \ {p} : Young(q)
  BY NobodyYoung
<1> QED BY <1>1, <1>2, QuietStep

\* What is left of a list that only looks, or acquires the lock.
LEMMA WatchedNext ==
    ASSUME NEW p \in Procs, Listed(p), Busy(p), Watching(p), lock' = p,
           job'[p].todo = Tail(job[p].todo)
    PROVE  Watching(p)'
<1>1. IsList(job[p].todo) /\ job[p].todo # <<>>
  BY DEF Listed, Busy
<1>2. \A n \in DOMAIN Tail(job[p].todo) : \E m \in DOMAIN job[p].todo : Tail(job[p].todo)[n] = job[p].todo[m]
  BY <1>1, TailOf
<1> QED BY <1>2 DEF Watching, Busy

LEMMA WatchedGoes ==
    ASSUME NEW p \in Procs, Listed(p), Busy(p), Watching(p), lock' = p,
           NEW o, o.op \in WatchOps, o.op = "receipts" => o.left = {},
           job'[p].todo = <<o>> \o Tail(job[p].todo)
    PROVE  Watching(p)'
<1>1. IsList(job[p].todo) /\ job[p].todo # <<>>
  BY DEF Listed, Busy
<1>2. IsList(Tail(job[p].todo)) /\ \A n \in DOMAIN Tail(job[p].todo) : \E m \in DOMAIN job[p].todo : Tail(job[p].todo)[n] = job[p].todo[m]
  BY <1>1, TailOf
<1>3. IsList(<<o>>) /\ DOMAIN <<o>> = 1 .. 1 /\ Len(<<o>>) = 1 /\ <<o>>[1] = o
  <2>1. <<o>> \in Seq({o})
    OBVIOUS
  <2> QED BY <2>1, Lists
<1>4. \A n \in DOMAIN (<<o>> \o Tail(job[p].todo)) :
         \/ (<<o>> \o Tail(job[p].todo))[n] = o
         \/ \E m \in DOMAIN job[p].todo : (<<o>> \o Tail(job[p].todo))[n] = job[p].todo[m]
  <2> DEFINE t == Tail(job[p].todo)
             l == Len(t)
  <2>1. DOMAIN (<<o>> \o t) = 1 .. 1 + l /\ l \in Nat /\ DOMAIN t = 1 .. l
        /\ (<<o>> \o t)[1] = o /\ \A n \in 2 .. 1 + l : (<<o>> \o t)[n] = t[n - 1]
    BY <1>2, <1>3, Joined
  <2> SUFFICES ASSUME NEW n \in 1 .. 1 + l PROVE (<<o>> \o t)[n] = o \/ \E m \in DOMAIN job[p].todo : (<<o>> \o t)[n] = job[p].todo[m]
    BY <2>1
  <2> HIDE DEF l
  <2>2. CASE n = 1
    BY <2>1, <2>2
  <2>3. CASE n # 1
    <3>1. n \in 2 .. 1 + l /\ n - 1 \in 1 .. l
      BY <2>1, <2>3
    <3> QED BY <1>2, <2>1, <3>1
  <2> QED BY <2>2, <2>3
<1> QED BY <1>4, SMTT(30) DEF Watching, Busy, WatchOps

\* Who has the lock, and nobody is creating the campaign: nobody else writes.
LEMMA OthersQuiet ==
    ASSUME IInv, NEW p \in Procs, lock = p, NEW q \in Procs \ {p}, ~Young(q)
    PROVE  ~At(q, "fill_leaf") /\ ~At(q, "fill_revision")
<1>1. Own(q)
  BY DEF IInv
<1>2. ~At(q, "fill_leaf")
  BY <1>1, UnderLock DEF At, Arg, Creates
<1>3. ~At(q, "fill_revision")
  BY DEF Young, At, Arg
<1> QED BY <1>2, <1>3

\* The end of a command, whatever the reason.
LEMMA EndStep ==
    ASSUME IInv, NEW p \in Procs, Busy(p), End(p), UNCHANGED <<manifest, leaves, revs>>,
           manifest # "whole" \/ (\E q \in Procs \ {p} : Young(q)) => Blank'
    PROVE  IInv'
<1>1. /\ job'[p].todo = <<>> /\ ~Busy(p)'
      /\ \A q \in Procs \ {p} : job'[q] = job[q] /\ (lock' = q <=> lock = q)
      /\ job' = [q \in Procs |-> [cmd |-> job'[q].cmd, todo |-> job'[q].todo]]
      /\ lock' = lock \/ (lock = p /\ lock' = None)
  BY EndGoes, CampaignAssumption
<1>2. \A q \in Procs \ {p} : Own(q)'
  BY <1>1, Frame DEF IInv
<1>3. Own(p)'
  BY <1>1, Empty DEF Own, Listed, Held, Fills, At
<1>4. Creation'
  <2>1. ~Young(p)' /\ Watching(p)'
    BY <1>1 DEF Young, Watching
  <2> QED BY <1>1, <2>1, CreationKept DEF IInv
<1>5. \A q \in Procs : Busy(q)' => q # p
  BY <1>1
<1>6. \A q \in Procs \ {p} : job'[q] = job[q]
  BY <1>1
<1>7. \A q \in Procs : Busy(q)' => Busy(q) /\ q # p /\ job'[q] = job[q]
  BY <1>5, <1>6 DEF Busy
<1>8. \A q \in Procs : \A o : At(q, o)' => At(q, o) /\ q # p
  BY <1>7 DEF At, Busy
<1>9. Unmade'
  <2>1. ~Busy(p)' /\ (lock = None => lock' = None)
    BY <1>1
  <2>2. manifest # "whole" => Blank'
    OBVIOUS
  <2>3. manifest # "whole" => \A q \in Procs : ~Busy(q)'
    BY <1>7 DEF IInv, Unmade
  <2> QED BY <2>1, <2>2, <2>3 DEF IInv, Unmade
<1>10. OneWriter'
  BY <1>8 DEF IInv, OneWriter
<1> QED BY <1>1, <1>2, <1>3, <1>4, <1>9, <1>10 DEF IInv

LEMMA RefuseStep ==
    ASSUME IInv, NEW p \in Procs, Busy(p), End(p), UNCHANGED <<proposal, record, machine>>
    PROVE  IInv'
<1>1. UNCHANGED <<manifest, leaves, revs>> /\ (Blank => Blank')
  BY DEF proposal, record, machine, Blank
<1>2. manifest # "whole" \/ (\E q \in Procs \ {p} : Young(q)) => Blank
  BY DEF IInv, Creation, Unmade
<1> QED BY <1>1, <1>2, EndStep

\* CampaignLock.
LEMMA LockStep == ASSUME IInv, NEW p \in Procs, Lock(p) PROVE IInv'
<1>1. Busy(p) /\ Arg(p).op = "lock" /\ IsList(job[p].todo) /\ job[p].todo # <<>> /\ PlainList(Tail(job[p].todo))
  BY DEF Lock, At, Arg, IInv, Own, Listed, Busy
<1>2. CASE Refuse(p)
  BY <1>1, <1>2, RefuseStep DEF Refuse
<1>3. CASE /\ lock = None /\ lock' = p /\ job' = [job EXCEPT ![p].todo = Tail(@)]
           /\ UNCHANGED <<proposal, record, machine, bounds>>
  <2>1. /\ job'[p].todo = Tail(job[p].todo)
        /\ \A q \in Procs \ {p} : job'[q] = job[q]
        /\ job' = [q \in Procs |-> [cmd |-> job'[q].cmd, todo |-> job'[q].todo]]
    <3>1. job = [q \in Procs |-> [cmd |-> job[q].cmd, todo |-> job[q].todo]]
      BY DEF IInv
    <3>2. job' = [q \in Procs |-> IF q = p THEN [job[p] EXCEPT !.todo = Tail(@)] ELSE job[q]]
      BY <1>3, <3>1
    <3>3. ASSUME NEW c, NEW t, NEW u PROVE [[cmd |-> c, todo |-> t] EXCEPT !.todo = u] = [cmd |-> c, todo |-> u]
      OBVIOUS
    <3>4. PICK t, u : t = job[p].todo /\ u = Tail(t)
      OBVIOUS
    <3>5. [[cmd |-> job[p].cmd, todo |-> t] EXCEPT !.todo = u] = [cmd |-> job[p].cmd, todo |-> u]
      BY <3>3
    <3>6. job[p] = [cmd |-> job[p].cmd, todo |-> t]
      BY <3>1, <3>4
    <3>7. [job[p] EXCEPT !.todo = Tail(@)] = [cmd |-> job[p].cmd, todo |-> u]
      BY <3>4, <3>5, <3>6
    <3>8. job'[p] = [cmd |-> job[p].cmd, todo |-> u]
      BY <3>2, <3>7
    <3> QED BY <3>1, <3>2, <3>4, <3>8
  <2>2. None # p
    BY CampaignAssumption
  <2>3. Late(job[p].todo)
    <3>1. Opening(job[p].todo)
      BY <1>1, <1>3, <2>2 DEF IInv, Own, Held
    <3>2. Arg(p) = job[p].todo[1] /\ 1 \in DOMAIN job[p].todo
      BY <1>1, FirstOp
    <3>3. PICK n \in DOMAIN job[p].todo :
             /\ job[p].todo[n].op = "lock"
             /\ \A m \in DOMAIN job[p].todo :
                   IF m < n THEN job[p].todo[m].op \in Creates \cup {"fill_revision"}
                   ELSE job[p].todo[m].op \notin Creates
      BY <3>1 DEF Opening
    <3>4. n = 1
      <4>1. CASE n # 1
        <5>1. 1 < n
          BY <1>1, <4>1, Before
        <5> QED BY <1>1, <3>2, <3>3, <5>1 DEF Creates
      <4> QED BY <4>1
    <3>5. DOMAIN job[p].todo = 1 .. Len(job[p].todo) /\ Len(job[p].todo) \in Nat
      BY <1>1, TailOf
    <3>6. \A m \in DOMAIN job[p].todo : ~(m < n)
      BY <3>4, <3>5
    <3> QED BY <3>3, <3>6 DEF Late
  <2>4. Late(Tail(job[p].todo))
    BY <1>1, <2>3, LateTail
  <2>5. Listed(p)' /\ Held(p)'
    <3>1. Held(p)'
      BY <1>3, <2>1, <2>4 DEF Held
    <3>2. PlainList(job'[p].todo)
      BY <1>1, <2>1
    <3>3. job'[p].todo # <<>> => PlainList(Tail(job'[p].todo)) /\ Plain(Head(job'[p].todo))
      BY <3>2, NextPlain
    <3>4. Listed(p)'
      BY <3>2, <3>3 DEF Listed, Busy, Arg, PlainList, Plain, Fillers
    <3> QED BY <3>1, <3>4
  <2>6. Busy(p)' => Arg(p)'.op \notin Fillers
    BY <1>1, <2>1, NextPlain DEF Busy, Arg, Plain
  <2>7. Fills(p)'
    BY <2>6 DEF Fills, Fillers, At, Arg
  <2>8. UNCHANGED <<manifest, files, leaves, revs, receipt>>
    BY <1>3 DEF proposal, record, machine
  <2>9. \A q \in Procs \ {p} : lock' = q <=> lock = q
    BY <1>3, CampaignAssumption
  <2>10. \A q \in Procs : Own(q)'
    BY <2>1, <2>5, <2>7, <2>8, <2>9, Frame DEF IInv, Own
  <2>11. Creation'
    <3>1. ~Young(p)'
      BY <1>3 DEF Young
    <3>2. ASSUME NEW q \in Procs \ {p}, Young(q) PROVE Blank' /\ Watching(p)'
      <4>1. Blank /\ Watching(p)
        BY <3>2 DEF IInv, Creation
      <4> QED BY <1>1, <1>3, <2>1, <2>8, <4>1, WatchedNext DEF IInv, Own, Blank
    <3> QED BY <2>1, <2>9, <3>1, <3>2, CreationKept DEF IInv
  <2>12. Unmade'
    <3>1. manifest = "whole"
      BY <1>1 DEF IInv, Unmade, At, Arg
    <3> QED BY <2>8, <3>1 DEF Unmade
  <2>13. OneWriter'
    <3>1. ~At(p, "fill_revision")'
      BY <2>6 DEF At, Arg, Fillers
    <3>2. \A q \in Procs \ {p} : At(q, "fill_revision")' => At(q, "fill_revision")
      BY <2>1 DEF At, Busy
    <3> QED BY <2>8, <3>1, <3>2 DEF IInv, OneWriter
  <2> QED BY <2>1, <2>10, <2>11, <2>12, <2>13 DEF IInv
<1> QED BY <1>2, <1>3 DEF Lock, Free
-----------------------------------------------------------------------------
(* The artifacts. *)

\* A step that goes on with one operation.
LEMMA GoesTo ==
    ASSUME IInv, NEW p \in Procs, Busy(p), NEW o, Continue(p, <<o>>),
           o.op \in {"leaf", "fill_leaf"} => o.body # Torn
    PROVE  /\ Busy(p)' /\ Arg(p)' = o /\ Listed(p)'
           /\ lock = p /\ o.op \notin Creates => Held(p)'
<1>1. IsList(job[p].todo) /\ PlainList(Tail(job[p].todo)) /\ job[p].todo # <<>>
  BY DEF IInv, Own, Listed, Busy
<1>2. job'[p].todo = <<o>> \o Tail(job[p].todo) /\ lock' = lock
  BY Goes
<1>3. IsList(Tail(job[p].todo))
  BY <1>1 DEF PlainList
<1>4. /\ IsList(job'[p].todo) /\ job'[p].todo # <<>> /\ Head(job'[p].todo) = o
      /\ Tail(job'[p].todo) = Tail(job[p].todo)
  <2>1. PICK s : s = Tail(job[p].todo)
    OBVIOUS
  <2>2. IsList(<<o>> \o s) /\ <<o>> \o s # <<>> /\ Head(<<o>> \o s) = o /\ Tail(<<o>> \o s) = s
    BY <1>3, <2>1, Cons
  <2>3. job'[p].todo = <<o>> \o s
    BY <1>2, <2>1
  <2> QED BY <2>1, <2>2, <2>3
<1>5. Busy(p)' /\ Arg(p)' = o
  BY <1>4 DEF Busy, Arg
<1>6. Listed(p)'
  BY <1>1, <1>4, <1>5 DEF Listed
<1>7. ASSUME lock = p, o.op \notin Creates PROVE Held(p)'
  <2>1. Late(Tail(job[p].todo))
    BY <1>1, <1>7, LateTail DEF IInv, Own, Held, Busy
  <2>2. Late(job'[p].todo)
    BY <1>2, <1>3, <1>7, <2>1, Cons
  <2> QED BY <1>2, <1>7, <2>2 DEF Held
<1> QED BY <1>5, <1>6, <1>7

LEMMA RegisterLeafStep == ASSUME IInv, NEW p \in Procs, RegisterLeaf(p) PROVE IInv'
<1>1. Busy(p) /\ Arg(p).op = "leaf"
  BY DEF RegisterLeaf, At, Arg
<1>2. lock = p
  BY <1>1, UnderLock DEF IInv, Creates
<1>3. \A q \in Procs \ {p} : ~Young(q) /\ ~At(q, "fill_leaf") /\ ~At(q, "fill_revision")
  BY <1>1, <1>2, NobodyYoung, OthersQuiet DEF WatchOps
<1>4. CASE Refuse(p)
  BY <1>1, <1>4, RefuseStep DEF Refuse
<1>5. CASE Continue(p, <<>>) /\ UNCHANGED <<proposal, record, machine, bounds>>
  <2>1. UNCHANGED <<manifest, leaves, revs>>
    BY <1>5 DEF proposal, record
  <2> QED BY <1>1, <1>5, <2>1, Empty, QuietOp DEF WatchOps, Creates
<1>6. CASE /\ manifest = "whole" /\ Arg(p).key \notin DOMAIN leaves
           /\ leaves' = With(leaves, Arg(p).key, Torn)
           /\ Continue(p, <<[op |-> "fill_leaf", key |-> Arg(p).key, body |-> Arg(p).body]>>)
           /\ UNCHANGED <<proposal, revs, machine, bounds>>
  <2> DEFINE o == [op |-> "fill_leaf", key |-> Arg(p).key, body |-> Arg(p).body]
  <2>1. o.op = "fill_leaf" /\ o.key = Arg(p).key /\ o.body = Arg(p).body
    OBVIOUS
  <2>2. o.body # Torn
    BY <1>1, <2>1 DEF IInv, Own, Listed
  <2> HIDE DEF o
  <2>3. Busy(p)' /\ Arg(p)' = o /\ Listed(p)' /\ Held(p)'
    BY <1>1, <1>2, <1>6, <2>1, <2>2, GoesTo DEF o, Creates
  <2>4. /\ \A q \in Procs \ {p} : job'[q] = job[q]
        /\ job' = [q \in Procs |-> [cmd |-> job'[q].cmd, todo |-> job'[q].todo]]
        /\ lock' = lock
    BY <1>6, Goes
  <2>5. manifest' = "whole" /\ revs' = revs
    BY <1>6 DEF proposal
  <2>6. Fills(p)'
    <3>1. Arg(p).key \in DOMAIN leaves' /\ leaves'[Arg(p).key] = Torn
      BY <1>6 DEF With
    <3> QED BY <2>1, <2>3, <3>1 DEF Fills, At, Arg
  <2>7. \A q \in Procs \ {p} : Own(q)'
    <3> SUFFICES ASSUME NEW q \in Procs \ {p} PROVE Own(q)'
      OBVIOUS
    <3>1. job'[q] = job[q] /\ Own(q)
      BY <2>4 DEF IInv
    <3>2. Listed(q)' /\ Held(q)'
      BY <2>4, <3>1 DEF Own, Listed, Held, Busy, Arg
    <3>3. ~At(q, "fill_leaf")' /\ ~At(q, "fill_revision")'
      BY <1>3, <3>1 DEF At, Busy
    <3>4. At(q, "manifest")' \/ At(q, "fill_manifest")' => At(q, "manifest") \/ At(q, "fill_manifest")
      BY <3>1 DEF At, Busy
    <3>5. Fills(q)'
      BY <1>6, <3>1, <3>3, <3>4 DEF Fills, Own
    <3> QED BY <3>2, <3>5 DEF Own
  <2>8. Creation'
    <3>1. ~Young(p)'
      BY <1>2, <2>4 DEF Young
    <3> QED BY <1>3, <2>4, <3>1, CreationKept DEF IInv
  <2>9. OneWriter'
    <3>1. ~At(p, "fill_revision")'
      BY <2>1, <2>3 DEF At, Arg
    <3>2. \A q \in Procs \ {p} : ~At(q, "fill_revision")'
      BY <1>3, <2>4 DEF At, Busy
    <3> QED BY <2>5, <3>1, <3>2 DEF IInv, OneWriter
  <2>10. Unmade'
    BY <2>5 DEF Unmade
  <2>11. Own(p)'
    BY <2>3, <2>6 DEF Own
  <2> QED BY <2>4, <2>7, <2>8, <2>9, <2>10, <2>11 DEF IInv
<1> QED BY <1>4, <1>5, <1>6 DEF RegisterLeaf
LEMMA FillLeafStep == ASSUME IInv, NEW p \in Procs, FillLeaf(p) PROVE IInv'
<1>1. Busy(p) /\ Arg(p).op = "fill_leaf"
  BY DEF FillLeaf, At, Arg
<1>2. lock = p
  BY <1>1, UnderLock DEF IInv, Creates
<1>3. \A q \in Procs \ {p} : ~Young(q) /\ ~At(q, "fill_leaf") /\ ~At(q, "fill_revision")
  BY <1>1, <1>2, NobodyYoung, OthersQuiet DEF WatchOps
<1>4. Continue(p, <<>>) /\ UNCHANGED <<manifest, revs>>
  BY DEF FillLeaf, proposal
<1>5. /\ \A q \in Procs \ {p} : job'[q] = job[q]
      /\ job' = [q \in Procs |-> [cmd |-> job'[q].cmd, todo |-> job'[q].todo]]
      /\ lock' = lock
  BY <1>4, Goes
<1>6. Listed(p)' /\ Held(p)' /\ (Busy(p)' => Arg(p)'.op \notin Fillers)
  BY <1>1, <1>2, <1>4, Empty, GoesOn
<1>7. \A o \in Fillers : ~At(p, o)'
  BY <1>6 DEF At, Arg
<1>8. Own(p)'
  BY <1>6, <1>7 DEF Own, Fills, Fillers
<1>9. \A q \in Procs \ {p} : Own(q)'
  <2> SUFFICES ASSUME NEW q \in Procs \ {p} PROVE Own(q)'
    OBVIOUS
  <2>1. job'[q] = job[q] /\ Own(q)
    BY <1>5 DEF IInv
  <2>2. Listed(q)' /\ Held(q)'
    BY <1>5, <2>1 DEF Own, Listed, Held, Busy, Arg
  <2>3. ~At(q, "fill_leaf")' /\ ~At(q, "fill_revision")'
    BY <1>3, <2>1 DEF At, Busy
  <2>4. At(q, "manifest")' \/ At(q, "fill_manifest")' => At(q, "manifest") \/ At(q, "fill_manifest")
    BY <2>1 DEF At, Busy
  <2>5. Fills(q)'
    BY <1>4, <2>1, <2>3, <2>4 DEF Fills, Own
  <2> QED BY <2>2, <2>5 DEF Own
<1>10. Creation'
  <2>1. ~Young(p)'
    BY <1>2, <1>5 DEF Young
  <2> QED BY <1>3, <1>5, <2>1, CreationKept DEF IInv
<1>11. OneWriter'
  <2>1. \A q \in Procs \ {p} : ~At(q, "fill_revision")'
    BY <1>3, <1>5 DEF At, Busy
  <2> QED BY <1>4, <1>7, <2>1 DEF IInv, OneWriter, Fillers
<1>12. Unmade'
  <2>1. manifest = "whole"
    BY <1>2, CampaignAssumption DEF IInv, Unmade
  <2> QED BY <1>4, <2>1 DEF Unmade
<1> QED BY <1>5, <1>8, <1>9, <1>10, <1>11, <1>12 DEF IInv
-----------------------------------------------------------------------------
(* The revisions of the index. *)

LEMMA Appended ==
    ASSUME NEW s, IsList(s), NEW o
    PROVE  /\ IsList(Append(s, o)) /\ Append(s, o) # <<>>
           /\ Len(Append(s, o)) = Len(s) + 1 /\ Len(s) \in Nat
           /\ Append(s, o)[Len(s) + 1] = o
           /\ \A n \in 1 .. Len(s) : Append(s, o)[n] = s[n]
           /\ DOMAIN s = 1 .. Len(s) /\ DOMAIN Append(s, o) = 1 .. Len(s) + 1
           /\ SubSeq(Append(s, o), 1, Len(s)) = s
<1> DEFINE R == {s[n] : n \in DOMAIN s} \cup {o}
<1>1. s \in Seq(R) /\ o \in R
  <2>1. ASSUME NEW A, NEW B, NEW q \in Seq(A), A \subseteq B PROVE q \in Seq(B)
    BY <2>1
  <2> QED BY <2>1 DEF IsList
<1> HIDE DEF R
<1>2. Append(s, o) \in Seq(R) /\ Len(Append(s, o)) = Len(s) + 1 /\ Len(s) \in Nat /\ Append(s, o) # <<>>
  BY <1>1
<1>3. /\ Append(s, o)[Len(s) + 1] = o
      /\ \A n \in 1 .. Len(s) : Append(s, o)[n] = s[n]
  BY <1>1
<1>4. SubSeq(Append(s, o), 1, Len(s)) = s
  <2> DEFINE t == Append(s, o)
             u == SubSeq(t, 1, Len(s))
  <2>1. u = [n \in 1 .. Len(s) |-> t[n]]
    BY <1>1, <1>2
  <2>2. s = [n \in 1 .. Len(s) |-> s[n]]
    BY <1>1
  <2> QED BY <1>3, <2>1, <2>2
<1> QED BY <1>1, <1>2, <1>3, <1>4, Lists

LEMMA Shortened ==
    ASSUME NEW s, IsList(s), s # <<>>
    PROVE  /\ IsList(SubSeq(s, 1, Len(s) - 1)) /\ Len(s) \in Nat \ {0} /\ DOMAIN s = 1 .. Len(s)
           /\ Len(SubSeq(s, 1, Len(s) - 1)) = Len(s) - 1
           /\ DOMAIN SubSeq(s, 1, Len(s) - 1) = 1 .. Len(s) - 1
           /\ \A n \in 1 .. Len(s) - 1 : SubSeq(s, 1, Len(s) - 1)[n] = s[n]
           /\ \A o : [s EXCEPT ![Len(s)] = o] = Append(SubSeq(s, 1, Len(s) - 1), o)
<1> DEFINE R == {s[n] : n \in DOMAIN s}
<1>1. s \in Seq(R)
  BY DEF IsList
<1> HIDE DEF R
<1>2. Len(s) \in Nat \ {0} /\ DOMAIN s = 1 .. Len(s)
  BY <1>1
<1> DEFINE u == SubSeq(s, 1, Len(s) - 1)
<1>3. u = [n \in 1 .. Len(s) - 1 |-> s[n]]
  BY <1>1, <1>2
<1>4. u \in Seq(R) /\ Len(u) = Len(s) - 1
  BY <1>1, <1>2
<1>5. ASSUME NEW o PROVE [s EXCEPT ![Len(s)] = o] = Append(u, o)
  <2>1. [s EXCEPT ![Len(s)] = o] = [n \in 1 .. Len(s) |-> IF n = Len(s) THEN o ELSE s[n]]
    BY <1>1, <1>2
  <2>2. IsList(u)
    BY <1>4, Lists
  <2>3. Append(u, o) = [n \in 1 .. Len(u) + 1 |-> Append(u, o)[n]]
    <3>1. IsList(Append(u, o)) /\ DOMAIN Append(u, o) = 1 .. Len(u) + 1
      BY <2>2, Appended
    <3>2. Append(u, o) = [n \in DOMAIN Append(u, o) |-> Append(u, o)[n]]
      BY <3>1 DEF IsList
    <3> QED BY <3>1, <3>2
  <2>4. \A n \in 1 .. Len(u) : Append(u, o)[n] = u[n]
    BY <2>2, Appended
  <2>5. Append(u, o)[Len(u) + 1] = o
    BY <2>2, Appended
  <2>6. \A n \in 1 .. Len(s) - 1 : u[n] = s[n]
    BY <1>3
  <2>7. Len(u) + 1 = Len(s) /\ \A n \in 1 .. Len(s) : n = Len(s) \/ n \in 1 .. Len(s) - 1
    <3>1. PICK l, k : l = Len(s) /\ k = Len(u)
      OBVIOUS
    <3>2. l \in Nat \ {0} /\ k = l - 1
      BY <1>2, <1>4, <3>1
    <3>3. k + 1 = l /\ \A n \in 1 .. l : n = l \/ n \in 1 .. l - 1
      BY <3>2
    <3> QED BY <3>1, <3>3
  <2>8. \A n \in 1 .. Len(s) : Append(u, o)[n] = IF n = Len(s) THEN o ELSE s[n]
    BY <1>4, <2>4, <2>5, <2>6, <2>7
  <2> QED BY <2>1, <2>3, <2>7, <2>8
<1> QED BY <1>1, <1>2, <1>3, <1>4, <1>5, Lists
\* What is left to its creator.
LEMMA OpeningGoes ==
    ASSUME NEW s, IsList(s), s # <<>>, Opening(s), s[1].op \in Creates \cup {"fill_revision"}
    PROVE  /\ Opening(Tail(s))
           /\ \A o : o.op \in Creates \cup {"fill_revision"} => Opening(<<o>> \o Tail(s))
<1> DEFINE t == Tail(s)
<1>1. /\ IsList(t) /\ Len(s) \in Nat \ {0} /\ DOMAIN s = 1 .. Len(s) /\ DOMAIN t = 1 .. Len(s) - 1
      /\ Len(t) = Len(s) - 1 /\ \A n \in 1 .. Len(s) - 1 : t[n] = s[n + 1]
  BY TailOf
<1>2. PICK n \in DOMAIN s : /\ s[n].op = "lock"
                            /\ \A m \in DOMAIN s : IF m < n THEN s[m].op \in Creates \cup {"fill_revision"}
                                                   ELSE s[m].op \notin Creates
  BY DEF Opening
<1>3. n # 1
  BY <1>2 DEF Creates
<1>4. PICK l : l = Len(s)
  OBVIOUS
<1>5. l \in Nat \ {0} /\ DOMAIN s = 1 .. l /\ DOMAIN t = 1 .. l - 1 /\ Len(t) = l - 1
      /\ \A k \in 1 .. l - 1 : t[k] = s[k + 1]
  BY <1>1, <1>4
<1> HIDE DEF t
<1>6. n \in 1 .. l /\ n - 1 \in 1 .. l - 1 /\ (n - 1) + 1 = n
  BY <1>2, <1>3, <1>5
<1>7. \A m \in 1 .. l - 1 : m + 1 \in 1 .. l /\ (m + 1 < n <=> m < n - 1)
  BY <1>5, <1>6
<1>8. t[n - 1].op = "lock"
  BY <1>2, <1>5, <1>6
<1>9. \A m \in DOMAIN t : IF m < n - 1 THEN t[m].op \in Creates \cup {"fill_revision"}
                          ELSE t[m].op \notin Creates
  BY <1>2, <1>5, <1>7
<1>10. Opening(t)
  BY <1>5, <1>6, <1>8, <1>9 DEF Opening
<1>11. ASSUME NEW o, o.op \in Creates \cup {"fill_revision"} PROVE Opening(<<o>> \o t)
  <2> DEFINE u == <<o>> \o t
  <2>1. <<o>> \in Seq({o})
    OBVIOUS
  <2>2. IsList(<<o>>) /\ Len(<<o>>) = 1 /\ <<o>>[1] = o /\ DOMAIN <<o>> = 1 .. 1
    BY <2>1, Lists
  <2>3. /\ DOMAIN u = 1 .. 1 + (l - 1) /\ u[1] = o
        /\ \A k \in 1 + 1 .. 1 + (l - 1) : u[k] = t[k - 1]
    BY <1>1, <1>5, <2>2, Joined
  <2> HIDE DEF u
  <2>4. DOMAIN u = 1 .. l /\ \A k \in 1 .. l : k # 1 => k - 1 \in 1 .. l - 1 /\ (k - 1) + 1 = k /\ u[k] = t[k - 1]
    BY <1>5, <2>3
  <2>5. \A k \in 1 .. l : k # 1 => u[k] = s[k]
    BY <1>5, <2>4
  <2>6. 1 < n /\ 1 \in 1 .. l
    BY <1>3, <1>5, <1>6
  <2>7. u[n].op = "lock"
    BY <1>2, <1>3, <1>6, <2>5
  <2>8. \A m \in DOMAIN u : IF m < n THEN u[m].op \in Creates \cup {"fill_revision"}
                            ELSE u[m].op \notin Creates
    <3> SUFFICES ASSUME NEW m \in 1 .. l
                 PROVE  IF m < n THEN u[m].op \in Creates \cup {"fill_revision"} ELSE u[m].op \notin Creates
      BY <2>4
    <3>1. CASE m = 1
      BY <1>11, <2>3, <2>6, <3>1
    <3>2. CASE m # 1
      BY <1>2, <1>5, <2>5, <3>2
    <3> QED BY <3>1, <3>2
  <2>9. Opening(u)
    BY <1>6, <2>4, <2>7, <2>8 DEF Opening
  <2> QED BY <2>9 DEF u
<1> QED BY <1>10, <1>11 DEF t

\* A creator, and what is known while there is one.
LEMMA Creator ==
    ASSUME IInv, NEW p \in Procs, Busy(p), lock # p, Arg(p).op \in Creates \cup {"fill_revision"}
    PROVE  /\ Young(p) /\ Blank /\ \A q \in Procs \ {p} : Watching(q)
           /\ IsList(job[p].todo) /\ job[p].todo # <<>> /\ Opening(job[p].todo)
           /\ job[p].todo[1].op \in Creates \cup {"fill_revision"}
<1>1. Young(p) /\ IsList(job[p].todo) /\ job[p].todo # <<>> /\ Opening(job[p].todo)
  BY DEF Young, IInv, Own, Listed, Held, Busy
<1>2. job[p].todo[1] = Arg(p)
  BY <1>1, FirstOp
<1> QED BY <1>1, <1>2 DEF IInv, Creation

LEMMA CreateHeld ==
    ASSUME IInv, NEW p \in Procs, Arg(p).op \in Creates, Busy(p)
    PROVE  lock # p
<1>1. IsList(job[p].todo)
  BY DEF IInv, Own, Listed
<1>2. job[p].todo[1] = Arg(p) /\ 1 \in DOMAIN job[p].todo
  BY <1>1, FirstOp
<1>3. ~Late(job[p].todo)
  BY <1>2 DEF Late
<1> QED BY <1>3 DEF IInv, Own, Held

LEMMA CreatorHeld ==
    ASSUME IInv, NEW p \in Procs, Busy(p), lock # p, Arg(p).op \in Creates \cup {"fill_revision"}
    PROVE  /\ Continue(p, <<>>) => Held(p)'
           /\ \A o : o.op \in Creates \cup {"fill_revision"} /\ Continue(p, <<o>>) => Held(p)'
<1>1. PICK s : s = job[p].todo
  OBVIOUS
<1>2. IsList(s) /\ s # <<>> /\ Opening(s) /\ s[1].op \in Creates \cup {"fill_revision"}
  BY <1>1, Creator
<1>3. Opening(Tail(s)) /\ \A o : o.op \in Creates \cup {"fill_revision"} => Opening(<<o>> \o Tail(s))
  BY <1>2, OpeningGoes
<1>4. IsList(Tail(s)) /\ <<>> \o Tail(s) = Tail(s)
  <2>1. IsList(Tail(s))
    BY <1>2, TailOf
  <2>2. Tail(s) \in Seq({Tail(s)[n] : n \in DOMAIN Tail(s)})
    BY <2>1 DEF IsList
  <2>3. ASSUME NEW S, NEW u \in Seq(S) PROVE <<>> \o u = u
    BY <2>3
  <2> QED BY <2>1, <2>2, <2>3
<1>5. ASSUME Continue(p, <<>>) PROVE Held(p)'
  <2>1. job'[p].todo = Tail(s) /\ lock' = lock
    BY <1>1, <1>4, <1>5, Goes
  <2> QED BY <1>3, <2>1 DEF Held
<1>6. ASSUME NEW o, o.op \in Creates \cup {"fill_revision"}, Continue(p, <<o>>) PROVE Held(p)'
  <2>1. job'[p].todo = <<o>> \o Tail(s) /\ lock' = lock
    BY <1>1, <1>6, Goes
  <2> QED BY <1>3, <1>6, <2>1 DEF Held
<1> QED BY <1>5, <1>6
\* _write_revision_once begins.
LEMMA NewRevisionStep ==
    ASSUME IInv, NEW p \in Procs, Busy(p), Arg(p).op \in {"fold", "rebuild", "first"},
           Readable \/ revs = <<>>, Foldable, NewRevision(p, Folded)
    PROVE  IInv'
<1> DEFINE o == [op |-> "fill_revision", index |-> Folded]
<1>1. o.op = "fill_revision" /\ o.index = Folded
  OBVIOUS
<1>2. Continue(p, <<o>>) /\ UNCHANGED <<manifest, files, leaves, receipt>> /\ revs' = Append(revs, Torn)
  BY DEF NewRevision, proposal, machine
<1> HIDE DEF o
<1>3. /\ \A q \in Procs \ {p} : job'[q] = job[q]
      /\ job' = [q \in Procs |-> [cmd |-> job'[q].cmd, todo |-> job'[q].todo]]
      /\ lock' = lock /\ job'[p].todo = <<o>> \o Tail(job[p].todo)
  BY <1>2, Goes
<1>4. Busy(p)' /\ Arg(p)' = o /\ Listed(p)' /\ (lock = p => Held(p)')
  BY <1>1, <1>2, GoesTo DEF Creates
<1>5. lock # p => Arg(p).op = "first"
  BY UnderLock DEF IInv, Creates
<1>6. Held(p)'
  <2>1. CASE lock # p
    BY <1>1, <1>2, <1>5, <2>1, CreatorHeld DEF Creates
  <2> QED BY <1>4, <2>1
<1>7. IsList(revs) /\ IsList(revs') /\ Len(revs') = Len(revs) + 1 /\ Index' = Torn /\ revs' # <<>>
      /\ DOMAIN revs = 1 .. Len(revs) /\ DOMAIN revs' = 1 .. Len(revs) + 1 /\ Len(revs) \in Nat
      /\ \A n \in 1 .. Len(revs) : revs'[n] = revs[n]
  <2>1. IsList(revs)
    BY DEF IInv, OneWriter
  <2> QED BY <1>2, <2>1, Appended DEF Index
<1>8. \A n \in DOMAIN revs : revs[n] # Torn
  <2>1. CASE revs = <<>>
    <3>1. Len(revs) = 0
      BY <2>1
    <3> QED BY <1>7, <3>1
  <2>2. CASE Readable
    BY <2>2 DEF IInv, OneWriter, Readable, Index
  <2> QED BY <2>1, <2>2
<1>9. Fills(p)'
  <2>1. Foldable' /\ Folded' = Folded
    BY <1>2 DEF Foldable, Folded, Whole, SnapshotsNamed
  <2> QED BY <1>1, <1>4, <1>7, <2>1 DEF Fills, At, Arg
<1>10. \A q \in Procs \ {p} : ~At(q, "fill_revision")
  BY DEF IInv, Own, Fills, Readable
<1>11. \A q \in Procs \ {p} : Own(q)'
  <2> SUFFICES ASSUME NEW q \in Procs \ {p} PROVE Own(q)'
    OBVIOUS
  <2>1. job'[q] = job[q] /\ Own(q)
    BY <1>3 DEF IInv
  <2>2. Listed(q)' /\ Held(q)'
    BY <1>3, <2>1 DEF Own, Listed, Held, Busy, Arg
  <2>3. ~At(q, "fill_revision")'
    BY <1>10, <2>1 DEF At, Busy
  <2>4. /\ At(q, "fill_leaf")' => At(q, "fill_leaf") /\ Arg(q)' = Arg(q)
        /\ At(q, "manifest")' \/ At(q, "fill_manifest")' => At(q, "manifest") \/ At(q, "fill_manifest")
    BY <2>1 DEF At, Busy, Arg
  <2>5. Fills(q)'
    BY <1>2, <2>1, <2>3, <2>4 DEF Fills, Own
  <2> QED BY <2>2, <2>5 DEF Own
<1>12. Creation'
  <2>1. Young(p)' => Blank' /\ \A q \in Procs \ {p} : Watching(q)
    <3> SUFFICES ASSUME lock # p PROVE Blank' /\ \A q \in Procs \ {p} : Watching(q)
      BY <1>3 DEF Young
    <3>1. Blank /\ \A q \in Procs \ {p} : Watching(q)
      BY <1>5, Creator DEF Creates
    <3> QED BY <1>2, <3>1 DEF Blank
  <2>2. ASSUME NEW r \in Procs \ {p}, Young(r) PROVE Blank' /\ Watching(p)'
    <3>1. Blank /\ Watching(p)
      BY <2>2 DEF IInv, Creation
    <3>2. lock = p
      BY <3>1 DEF Watching, At, Arg
    <3>3. Watching(p)'
      BY <1>1, <1>3, <3>1, <3>2, WatchedGoes DEF WatchOps, IInv, Own
    <3> QED BY <1>2, <3>1, <3>3 DEF Blank
  <2> QED BY <1>3, <2>1, <2>2, CreationKept DEF IInv
<1>13. OneWriter'
  <2>1. \A q \in Procs \ {p} : ~At(q, "fill_revision")'
    BY <1>3, <1>10 DEF At, Busy
  <2>2. \A n \in DOMAIN revs' : revs'[n] = Torn => n = Len(revs')
    BY <1>7, <1>8
  <2> QED BY <1>7, <2>1, <2>2 DEF OneWriter
<1>14. manifest = "whole"
  BY DEF IInv, Unmade, At, Arg
<1>15. Unmade'
  BY <1>2, <1>14 DEF Unmade
<1> QED BY <1>3, <1>4, <1>6, <1>9, <1>11, <1>12, <1>13, <1>15 DEF IInv, Own
LEMMA FillRevisionStep == ASSUME IInv, NEW p \in Procs, FillRevision(p) PROVE IInv'
<1>1. Busy(p) /\ Arg(p).op = "fill_revision"
  BY DEF FillRevision, At, Arg
<1>2. revs # <<>> /\ IsList(revs) /\ Arg(p).index = Folded
  BY <1>1 DEF IInv, Own, Fills, At, Arg, OneWriter
<1>3. /\ Continue(p, <<>>) /\ UNCHANGED <<manifest, files, leaves, receipt>>
      /\ revs' = Append(SubSeq(revs, 1, Len(revs) - 1), Folded)
  BY <1>2, Shortened DEF FillRevision, proposal, machine
<1>4. /\ \A q \in Procs \ {p} : job'[q] = job[q]
      /\ job' = [q \in Procs |-> [cmd |-> job'[q].cmd, todo |-> job'[q].todo]]
      /\ lock' = lock
  BY <1>3, Goes
<1>5. Listed(p)' /\ (lock = p => Held(p)') /\ (Busy(p)' => Arg(p)'.op \notin Fillers)
  BY <1>1, <1>3, Empty, GoesOn
<1>6. Held(p)'
  BY <1>1, <1>3, <1>5, CreatorHeld
<1>7. \A f \in Fillers : ~At(p, f)'
  BY <1>5 DEF At, Arg
<1>8. \A q \in Procs \ {p} : ~At(q, "fill_revision")
  BY <1>1 DEF IInv, OneWriter, At, Arg
<1>9. \A q \in Procs \ {p} : Own(q)'
  <2> SUFFICES ASSUME NEW q \in Procs \ {p} PROVE Own(q)'
    OBVIOUS
  <2>1. job'[q] = job[q] /\ Own(q)
    BY <1>4 DEF IInv
  <2>2. Listed(q)' /\ Held(q)'
    BY <1>4, <2>1 DEF Own, Listed, Held, Busy, Arg
  <2>3. ~At(q, "fill_revision")'
    BY <1>8, <2>1 DEF At, Busy
  <2>4. /\ At(q, "fill_leaf")' => At(q, "fill_leaf") /\ Arg(q)' = Arg(q)
        /\ At(q, "manifest")' \/ At(q, "fill_manifest")' => At(q, "manifest") \/ At(q, "fill_manifest")
    BY <2>1 DEF At, Busy, Arg
  <2>5. Fills(q)'
    BY <1>3, <2>1, <2>3, <2>4 DEF Fills, Own
  <2> QED BY <2>2, <2>5 DEF Own
<1>10. Own(p)'
  BY <1>5, <1>6, <1>7 DEF Own, Fills, Fillers
<1>11. Creation'
  <2>1. Young(p)' => Blank' /\ \A q \in Procs \ {p} : Watching(q)
    BY <1>1, <1>3, <1>4, Creator DEF Young, Blank
  <2>2. ASSUME NEW r \in Procs \ {p}, Young(r) PROVE Blank' /\ Watching(p)'
    <3>1. Blank /\ Watching(p)
      BY <2>2 DEF IInv, Creation
    <3>2. lock = p
      BY <1>1, <3>1 DEF Watching, At, Arg
    <3>3. job'[p].todo = Tail(job[p].todo)
      BY <1>1, <1>3, Goes, DropNothing DEF IInv, Own
    <3>4. Watching(p)'
      BY <1>1, <1>4, <3>1, <3>2, <3>3, WatchedNext DEF IInv, Own
    <3> QED BY <1>3, <3>1, <3>4 DEF Blank
  <2> QED BY <1>4, <2>1, <2>2, CreationKept DEF IInv
<1>12. OneWriter'
  <2>1. \A q \in Procs : ~At(q, "fill_revision")'
    BY <1>4, <1>7, <1>8 DEF At, Busy, Fillers
  <2>2. IsList(revs') /\ \A n \in DOMAIN revs' : revs'[n] = Torn => n = Len(revs')
    <3> DEFINE u == SubSeq(revs, 1, Len(revs) - 1)
    <3>1. IsList(u) /\ Len(revs) \in Nat \ {0} /\ DOMAIN u = 1 .. Len(u) /\ Len(u) = Len(revs) - 1
          /\ \A n \in 1 .. Len(u) : u[n] = revs[n] /\ n \in DOMAIN revs /\ n # Len(revs)
      BY <1>2, Shortened
    <3>2. \A n \in 1 .. Len(u) : u[n] # Torn
      BY <3>1 DEF IInv, OneWriter
    <3> HIDE DEF u
    <3>3. /\ IsList(revs') /\ Len(u) \in Nat /\ DOMAIN revs' = 1 .. Len(u) + 1 /\ Len(revs') = Len(u) + 1
          /\ \A n \in 1 .. Len(u) : revs'[n] = u[n]
      BY <1>3, <3>1, Appended DEF u
    <3> QED BY <3>2, <3>3
  <2> QED BY <2>1, <2>2 DEF OneWriter
<1>13. manifest = "whole"
  BY <1>1 DEF IInv, Unmade, At, Arg
<1>14. Unmade'
  BY <1>3, <1>13 DEF Unmade
<1> QED BY <1>4, <1>9, <1>10, <1>11, <1>12, <1>14 DEF IInv

\* A step under the lock that neither waits nor writes, of those a watcher may take.
LEMMA WatchStep ==
    ASSUME IInv, NEW p \in Procs, Busy(p), lock = p, Continue(p, <<>>), UNCHANGED <<proposal, record, machine>>
    PROVE  IInv'
<1>1. UNCHANGED <<manifest, files, leaves, revs, receipt>>
  BY DEF proposal, record, machine
<1>2. lock' = p
  BY Goes
<1>3. ASSUME NEW q \in Procs \ {p}, Young(q) PROVE Blank' /\ Watching(p)'
  <2>1. Blank /\ Watching(p)
    BY <1>3 DEF IInv, Creation
  <2>2. job'[p].todo = Tail(job[p].todo)
    BY Goes, DropNothing DEF IInv, Own
  <2>3. Watching(p)'
    BY <1>2, <2>1, <2>2, WatchedNext DEF IInv, Own
  <2> QED BY <1>1, <2>1, <2>3 DEF Blank
<1> QED BY <1>1, <1>3, Empty, QuietStep

LEMMA FoldStep == ASSUME IInv, NEW p \in Procs, Fold(p) PROVE IInv'
<1>1. Busy(p) /\ Arg(p).op = "fold"
  BY DEF Fold, At, Arg
<1>2. lock = p
  BY <1>1, UnderLock DEF IInv, Creates
<1>3. CASE Refuse(p)
  BY <1>1, <1>3, RefuseStep DEF Refuse
<1>4. CASE Continue(p, <<>>) /\ UNCHANGED <<proposal, record, machine, bounds>>
  BY <1>1, <1>2, <1>4, WatchStep
<1>5. CASE Readable /\ Foldable /\ NewRevision(p, Folded)
  BY <1>1, <1>5, NewRevisionStep
<1> QED BY <1>3, <1>4, <1>5 DEF Fold

LEMMA RebuildStep == ASSUME IInv, NEW p \in Procs, Rebuild(p) PROVE IInv'
<1>1. Busy(p) /\ Arg(p).op = "rebuild"
  BY DEF Rebuild, At, Arg
<1>2. lock = p
  BY <1>1, UnderLock DEF IInv, Creates
<1>3. CASE Refuse(p)
  BY <1>1, <1>3, RefuseStep DEF Refuse
<1>4. CASE Continue(p, <<>>) /\ UNCHANGED <<proposal, record, machine, bounds>>
  BY <1>1, <1>2, <1>4, WatchStep
<1>5. CASE revs = <<>> /\ Foldable /\ NewRevision(p, Folded)
  BY <1>1, <1>5, NewRevisionStep
<1> QED BY <1>3, <1>4, <1>5 DEF Rebuild

LEMMA AttachStep == ASSUME IInv, NEW p \in Procs, Attach(p) PROVE IInv'
<1> DEFINE o == [op |-> "receipts", left |-> {i \in Installs : receipt[i] \notin {None, Begun}}]
<1>1. Busy(p) /\ Arg(p).op = "attach"
  BY DEF Attach, At, Arg
<1>2. lock = p
  BY <1>1, UnderLock DEF IInv, Creates
<1>3. o.op = "receipts" /\ o.left = {i \in Installs : receipt[i] \notin {None, Begun}}
  OBVIOUS
<1>4. Continue(p, <<o>>) /\ UNCHANGED <<manifest, files, leaves, revs, receipt>>
  BY DEF Attach, proposal, record, machine
<1> HIDE DEF o
<1>5. PlainList(<<o>>) /\ Late(<<o>>)
  <2>1. Plain(o) /\ o.op \notin Creates
    BY <1>3 DEF Plain, Creates, Fillers
  <2> QED BY <2>1, Single
<1>6. ASSUME NEW q \in Procs \ {p}, Young(q) PROVE Blank' /\ Watching(p)'
  <2>1. Blank /\ Watching(p)
    BY <1>6 DEF IInv, Creation
  <2>2. o.left = {}
    BY <1>3, <2>1 DEF Blank
  <2>3. job'[p].todo = <<o>> \o Tail(job[p].todo) /\ lock' = p
    BY <1>2, <1>4, Goes
  <2>4. Watching(p)'
    BY <1>1, <1>3, <2>1, <2>2, <2>3, WatchedGoes DEF WatchOps, IInv, Own
  <2> QED BY <1>4, <2>1, <2>4 DEF Blank
<1> QED BY <1>1, <1>2, <1>4, <1>5, <1>6, QuietStep

LEMMA AttachNextStep == ASSUME IInv, NEW p \in Procs, AttachNext(p) PROVE IInv'
<1>1. Busy(p) /\ Arg(p).op = "receipts"
  BY DEF AttachNext, At, Arg
<1>2. lock = p
  BY <1>1, UnderLock DEF IInv, Creates
<1>3. UNCHANGED <<proposal, record, machine>>
  BY DEF AttachNext
<1>4. CASE Continue(p, <<>>)
  BY <1>1, <1>2, <1>3, <1>4, WatchStep
<1>5. ASSUME NEW i \in Arg(p).left,
             Continue(p, <<Leaf("receipt", i, receipt[i].snap, "system-apply"),
                           [op |-> "receipts", left |-> Arg(p).left \ {i}]>>)
      PROVE  IInv'
  <2> DEFINE a == Leaf("receipt", i, receipt[i].snap, "system-apply")
             b == [op |-> "receipts", left |-> Arg(p).left \ {i}]
  <2>1. Fit(a)
    BY Ops
  <2>2. Fit(b)
    BY DEF Fit, Plain, Creates, Fillers
  <2> HIDE DEF a, b
  <2>3. PlainList(<<a, b>>) /\ Late(<<a, b>>)
    BY <2>1, <2>2, Pair
  <2>4. ASSUME NEW q \in Procs \ {p}, Young(q) PROVE FALSE
    <3>1. Watching(p)
      BY <2>4 DEF IInv, Creation
    <3>2. Arg(p) = job[p].todo[1] /\ 1 \in DOMAIN job[p].todo
      BY <1>1, FirstOp DEF IInv, Own, Listed
    <3>3. Arg(p).left = {}
      BY <1>1, <3>1, <3>2 DEF Watching
    <3> QED BY <3>3
  <2>5. Continue(p, <<a, b>>)
    BY <1>5 DEF a, b
  <2>6. UNCHANGED <<manifest, leaves, revs>>
    BY <1>3 DEF proposal, record
  <2> QED BY <1>1, <1>2, <2>3, <2>4, <2>5, <2>6, QuietStep
<1> QED BY <1>4, <1>5 DEF AttachNext
-----------------------------------------------------------------------------
(* The creation of the campaign. *)

\* A creator's step that writes no revision.
LEMMA CreatorStep ==
    ASSUME IInv, NEW p \in Procs, Busy(p), Arg(p).op \in Creates,
           UNCHANGED <<files, leaves, revs, receipt>>,
           NEW o, Continue(p, <<>>) \/ (o.op \in {"fill_manifest", "first"} /\ Continue(p, <<o>>)),
           manifest' # "whole" => At(p, "manifest") /\ At(p, "fill_manifest")',
           manifest = "whole" => manifest' = manifest,
           At(p, "fill_manifest")' => manifest' # "whole"
    PROVE  IInv'
<1>1. lock # p /\ Blank /\ \A q \in Procs \ {p} : Watching(q)
  BY CreateHeld, Creator
<1>2. /\ \A q \in Procs \ {p} : job'[q] = job[q]
      /\ job' = [q \in Procs |-> [cmd |-> job'[q].cmd, todo |-> job'[q].todo]]
      /\ lock' = lock
  BY Goes
<1>3. Listed(p)' /\ Held(p)' /\ (Busy(p)' => Arg(p)'.op \notin Fillers \ {"fill_manifest"})
  <2>1. CASE Continue(p, <<>>)
    BY <1>1, <2>1, Empty, GoesOn, CreatorHeld
  <2>2. CASE o.op \in {"fill_manifest", "first"} /\ Continue(p, <<o>>)
    <3>1. Listed(p)' /\ Arg(p)' = o
      BY <2>2, GoesTo
    <3>2. Held(p)'
      BY <1>1, <2>2, CreatorHeld DEF Creates
    <3> QED BY <2>2, <3>1, <3>2 DEF Fillers
  <2> QED BY <2>1, <2>2
<1>4. Fills(p)'
  <2>1. \A f \in {"manifest", "fill_leaf", "fill_revision"} : ~At(p, f)'
    BY <1>3 DEF At, Arg, Fillers
  <2> QED BY <2>1 DEF Fills
<1>5. manifest # "whole" => \A q \in Procs \ {p} : ~Busy(q)
  BY DEF IInv, Unmade
<1>6. \A q \in Procs \ {p} : Own(q)'
  <2> SUFFICES ASSUME NEW q \in Procs \ {p} PROVE Own(q)'
    OBVIOUS
  <2>1. job'[q] = job[q] /\ Own(q)
    BY <1>2 DEF IInv
  <2>2. Listed(q)' /\ Held(q)'
    BY <1>2, <2>1 DEF Own, Listed, Held, Busy, Arg
  <2>3. (Foldable <=> Foldable') /\ Folded' = Folded /\ Index' = Index
    BY DEF Foldable, Folded, Whole, SnapshotsNamed, Index
  <2>4. /\ At(q, "fill_leaf")' => At(q, "fill_leaf") /\ Arg(q)' = Arg(q)
        /\ At(q, "fill_revision")' => At(q, "fill_revision") /\ Arg(q)' = Arg(q)
    BY <2>1 DEF At, Busy, Arg
  <2>5. ~At(q, "manifest")' /\ ~At(q, "fill_manifest")'
    <3>1. At(q, "manifest")' \/ At(q, "fill_manifest")' => (At(q, "manifest") \/ At(q, "fill_manifest")) /\ Busy(q)
      BY <2>1 DEF At, Busy, Arg
    <3>2. At(q, "manifest") \/ At(q, "fill_manifest") => manifest # "whole"
      BY <2>1 DEF Own, Fills
    <3> QED BY <1>5, <3>1, <3>2
  <2>6. Fills(q)'
    BY <2>1, <2>3, <2>4, <2>5 DEF Fills, Own
  <2> QED BY <2>2, <2>6 DEF Own
<1>7. Creation'
  <2>1. Blank'
    BY <1>1 DEF Blank
  <2>2. \A q \in Procs \ {p} : ~Young(q)
    BY <1>1 DEF Watching, Young, At, Arg, Creates
  <2> QED BY <1>1, <1>2, <2>1, <2>2, CreationKept DEF IInv
<1>8. OneWriter'
  <2>1. ~At(p, "fill_revision")'
    BY <1>3 DEF At, Arg, Fillers
  <2>2. \A q \in Procs \ {p} : At(q, "fill_revision")' => At(q, "fill_revision")
    BY <1>2 DEF At, Busy
  <2> QED BY <2>1, <2>2 DEF IInv, OneWriter
<1>9. Unmade'
  <2> SUFFICES ASSUME manifest' # "whole" PROVE Unmade'
    BY DEF Unmade
  <2>1. manifest # "whole" /\ At(p, "fill_manifest")' /\ Blank'
    BY <1>1 DEF Blank
  <2>2. \A q \in Procs \ {p} : ~Busy(q)'
    BY <1>2, <1>5, <2>1 DEF Busy
  <2>3. revs' = <<>> /\ lock' = None
    BY <1>2, <2>1 DEF IInv, Unmade
  <2> QED BY <2>1, <2>2, <2>3 DEF Unmade
<1> QED BY <1>2, <1>3, <1>4, <1>6, <1>7, <1>8, <1>9 DEF IInv, Own
LEMMA ManifestStep == ASSUME IInv, NEW p \in Procs, Manifest(p) PROVE IInv'
<1> DEFINE o == Op("fill_manifest")
<1>1. o.op = "fill_manifest"
  BY DEF Op
<1>2. /\ Busy(p) /\ Arg(p).op \in Creates /\ At(p, "manifest") /\ manifest' = "torn"
      /\ UNCHANGED <<files, leaves, revs, receipt>> /\ Continue(p, <<o>>)
  BY DEF Manifest, At, Arg, Creates, record, machine
<1> HIDE DEF o
<1>3. At(p, "fill_manifest")'
  <2>1. Busy(p)' /\ Arg(p)' = o
    BY <1>1, <1>2, GoesTo
  <2> QED BY <1>1, <2>1 DEF At, Arg
<1>4. manifest # "whole"
  BY <1>2 DEF IInv, Own, Fills
<1> QED BY <1>1, <1>2, <1>3, <1>4, CreatorStep

LEMMA FillManifestStep == ASSUME IInv, NEW p \in Procs, FillManifest(p) PROVE IInv'
<1>1. /\ Busy(p) /\ Arg(p).op \in Creates /\ At(p, "fill_manifest") /\ manifest' = "whole"
      /\ UNCHANGED <<files, leaves, revs, receipt>> /\ Continue(p, <<>>)
  BY DEF FillManifest, At, Arg, Creates, record, machine
<1>2. ~At(p, "fill_manifest")'
  <2>1. Busy(p)' => Arg(p)'.op \notin Fillers
    BY <1>1, Empty, GoesOn
  <2> QED BY <2>1 DEF At, Arg, Fillers
<1> QED BY <1>1, <1>2, CreatorStep

LEMMA ReadFirstStep == ASSUME IInv, NEW p \in Procs, ReadFirst(p) PROVE IInv'
<1> DEFINE o == Op("first")
<1>1. o.op = "first"
  BY DEF Op
<1>2. Busy(p) /\ Arg(p).op = "index" /\ ~At(p, "manifest") /\ ~At(p, "fill_manifest")
  BY DEF ReadFirst, At, Arg
<1> HIDE DEF o
<1>3. manifest = "whole"
  BY <1>2 DEF IInv, Unmade
<1>4. CASE Refuse(p)
  BY <1>2, <1>4, RefuseStep DEF Refuse
<1>5. CASE Continue(p, <<o>>) /\ UNCHANGED <<proposal, record, machine, bounds>>
  <2>1. UNCHANGED <<manifest, files, leaves, revs, receipt>>
    BY <1>5 DEF proposal, record, machine
  <2>2. ~At(p, "fill_manifest")'
    <3>1. Arg(p)' = o
      BY <1>1, <1>2, <1>5, GoesTo
    <3> QED BY <1>1, <3>1 DEF At, Arg
  <2> QED BY <1>1, <1>2, <1>3, <1>5, <2>1, <2>2, CreatorStep DEF Creates
<1>6. CASE Continue(p, <<>>) /\ UNCHANGED <<proposal, record, machine, bounds>>
  <2>1. UNCHANGED <<manifest, files, leaves, revs, receipt>>
    BY <1>6 DEF proposal, record, machine
  <2>2. ~At(p, "fill_manifest")'
    <3>1. Busy(p)' => Arg(p)'.op \notin Fillers
      BY <1>2, <1>6, Empty, GoesOn
    <3> QED BY <3>1 DEF At, Arg, Fillers
  <2> QED BY <1>1, <1>2, <1>3, <1>6, <2>1, <2>2, CreatorStep DEF Creates
<1> QED BY <1>4, <1>5, <1>6 DEF ReadFirst, o

LEMMA FirstRevisionStep == ASSUME IInv, NEW p \in Procs, FirstRevision(p) PROVE IInv'
<1>1. Busy(p) /\ Arg(p).op = "first" /\ ~At(p, "manifest") /\ ~At(p, "fill_manifest")
  BY DEF FirstRevision, At, Arg
<1>2. manifest = "whole"
  BY <1>1 DEF IInv, Unmade
<1>3. CASE Refuse(p)
  BY <1>1, <1>3, RefuseStep DEF Refuse
<1>4. CASE Continue(p, <<>>) /\ UNCHANGED <<proposal, record, machine, bounds>>
  <2>1. UNCHANGED <<manifest, files, leaves, revs, receipt>>
    BY <1>4 DEF proposal, record, machine
  <2>2. ~At(p, "fill_manifest")'
    <3>1. Busy(p)' => Arg(p)'.op \notin Fillers
      BY <1>1, <1>4, Empty, GoesOn
    <3> QED BY <3>1 DEF At, Arg, Fillers
  <2> QED BY <1>1, <1>2, <1>4, <2>1, <2>2, CreatorStep DEF Creates
<1>5. CASE revs = <<>> /\ NewRevision(p, [snap |-> None, refs |-> {}])
  <2>1. DOMAIN leaves = {}
    BY <1>1, CreateHeld, Creator DEF Creates, Blank
  <2>2. Whole = {} /\ SnapshotsNamed = {}
    BY <2>1 DEF Whole, SnapshotsNamed
  <2>3. Folded = [snap |-> None, refs |-> {}]
    BY <2>1, <2>2 DEF Folded
  <2>4. Foldable
    BY <2>1, <2>2 DEF Foldable
  <2> QED BY <1>1, <1>5, <2>3, <2>4, NewRevisionStep
<1> QED BY <1>3, <1>4, <1>5 DEF FirstRevision
-----------------------------------------------------------------------------
(* What a command does under the lock besides. *)

LEMMA InstallationOk ==
    ASSUME NEW i, NEW t, NEW s, NEW by, NEW ack
    PROVE  PlainList(Installation(i, t, s, by, ack)) /\ Late(Installation(i, t, s, by, ack))
<1> DEFINE a == [op |-> "install", inst |-> i, plan |-> t, ack |-> ack]
           b == [op |-> "receipt", inst |-> i, body |-> [plan |-> t, snap |-> s]]
           c == [op |-> "registry", inst |-> i, status |-> "active"]
           d == Leaf("receipt", i, s, by)
           e == Op("fold")
<1>1. Fit(a) /\ Fit(b) /\ Fit(c)
  BY DEF Fit, Plain, Creates, Fillers
<1>2. Fit(d) /\ Fit(e)
  BY Ops DEF Creates, Fillers
<1>3. Installation(i, t, s, by, ack) = <<a, b, c, d, e>>
  BY DEF Installation
<1> HIDE DEF a, b, c, d, e
<1> QED BY <1>1, <1>2, <1>3, Five

LEMMA RestOk == ASSUME NEW b, NEW s PROVE PlainList(Rest(b, s)) /\ Late(Rest(b, s))
<1>1. CASE b.type = "snapshot"
  <2> DEFINE o == [op |-> "covered", snap |-> s]
  <2>1. Fit(o)
    BY DEF Fit, Plain, Creates, Fillers
  <2>2. Rest(b, s) = <<o>> \o Installation(b.inst, "auto", s, "system-apply", FALSE)
    BY <1>1 DEF Rest
  <2> HIDE DEF o
  <2>3. PlainList(<<o>>) /\ Late(<<o>>)
    BY <2>1, Single DEF Fit
  <2> QED BY <2>2, <2>3, InstallationOk, PlainJoined
<1>2. CASE b.type # "snapshot"
  <2> DEFINE o == [op |-> "run", order |-> b.order, attempt |-> b.attempt, snap |-> s]
  <2>1. Fit(o)
    BY DEF Fit, Plain, Creates, Fillers
  <2>2. Rest(b, s) = <<o>>
    BY <1>2 DEF Rest
  <2> HIDE DEF o
  <2> QED BY <2>1, <2>2, Single DEF Fit
<1> QED BY <1>1, <1>2

LEMMA BindingOk ==
    ASSUME NEW type, NEW b, NEW s
    PROVE  PlainList(Binding(type, s) \o Rest(b, s)) /\ Late(Binding(type, s) \o Rest(b, s))
<1> DEFINE a == Leaf(type, s, s, None)
           e == Op("fold")
<1>1. Fit(a) /\ Fit(e)
  BY Ops DEF Creates, Fillers
<1>2. Binding(type, s) = <<a, e>>
  BY DEF Binding
<1> HIDE DEF a, e
<1>3. PlainList(Binding(type, s)) /\ Late(Binding(type, s))
  BY <1>1, <1>2, Pair
<1> QED BY <1>3, RestOk, PlainJoined

LEMMA RollbackRecordOk ==
    ASSUME NEW i, NEW status
    PROVE  PlainList(RollbackRecord(i, status)) /\ Late(RollbackRecord(i, status))
<1> DEFINE a == Op("load")
           b == Leaf("rollback", i, receipt[i].snap, status)
           c == Op("fold")
           d == [op |-> "registry", inst |-> i, status |-> status]
<1>1. Fit(a) /\ Fit(b) /\ Fit(c)
  BY Ops DEF Creates, Fillers
<1>2. Fit(d)
  BY DEF Fit, Plain, Creates, Fillers
<1>3. RollbackRecord(i, status) = <<a, b, c, d>>
  BY DEF RollbackRecord
<1> HIDE DEF a, b, c, d
<1> QED BY <1>1, <1>2, <1>3, Four

LEMMA One == ASSUME NEW o, Fit(o) PROVE PlainList(<<o>>) /\ Late(<<o>>)
BY Single DEF Fit

LEMMA DoneStep == ASSUME IInv, NEW p \in Procs, Done(p) PROVE IInv'
BY RefuseStep DEF Done, At

LEMMA LoadStep == ASSUME IInv, NEW p \in Procs, Load(p) PROVE IInv'
<1>1. Busy(p) /\ Arg(p).op = "load"
  BY DEF Load, At, Arg
<1>2. CASE Refuse(p)
  BY <1>1, <1>2, RefuseStep DEF Refuse
<1>3. CASE Continue(p, <<>>) /\ UNCHANGED <<proposal, record, machine, bounds>>
  BY <1>1, <1>3, Empty, QuietOp DEF WatchOps, Creates, proposal, record
<1> QED BY <1>2, <1>3 DEF Load

LEMMA FileStep == ASSUME IInv, NEW p \in Procs, File(p) PROVE IInv'
<1>1. Busy(p) /\ Arg(p).op = "file" /\ Continue(p, <<>>) /\ UNCHANGED <<manifest, leaves, revs>>
  BY DEF File, At, Arg, record
<1> QED BY <1>1, Empty, QuietOp DEF WatchOps, Creates

LEMMA WriteOrdersStep == ASSUME IInv, NEW p \in Procs, WriteOrders(p) PROVE IInv'
<1>1. Busy(p) /\ Arg(p).op = "orders" /\ UNCHANGED <<manifest, leaves, revs>>
  BY DEF WriteOrders, At, Arg, proposal, record
<1>2. CASE Continue(p, <<>>)
  BY <1>1, <1>2, Empty, QuietOp DEF WatchOps, Creates
<1>3. ASSUME NEW o \in Arg(p).left,
             Continue(p, <<[op |-> "file", name |-> o], Leaf("work-order", o, None, None),
                           [op |-> "orders", left |-> Arg(p).left \ {o}]>>)
      PROVE  IInv'
  <2> DEFINE a == [op |-> "file", name |-> o]
             b == Leaf("work-order", o, None, None)
             c == [op |-> "orders", left |-> Arg(p).left \ {o}]
  <2>1. Fit(b)
    BY Ops
  <2>2. Fit(a) /\ Fit(c)
    BY DEF Fit, Plain, Creates, Fillers
  <2>3. Continue(p, <<a, b, c>>)
    BY <1>3
  <2> HIDE DEF a, b, c
  <2> QED BY <1>1, <2>1, <2>2, <2>3, Triple, QuietOp DEF WatchOps, Creates
<1> QED BY <1>2, <1>3 DEF WriteOrders

LEMMA InstallStep == ASSUME IInv, NEW p \in Procs, Install(p) PROVE IInv'
<1>1. Busy(p) /\ Arg(p).op = "install"
  BY DEF Install, At, Arg
<1>2. CASE Refuse(p)
  BY <1>1, <1>2, RefuseStep DEF Refuse
<1>3. CASE Continue(p, <<>>) /\ UNCHANGED <<proposal, record>>
  BY <1>1, <1>3, Empty, QuietOp DEF WatchOps, Creates, proposal, record
<1> QED BY <1>2, <1>3 DEF Install

LEMMA RecordSteps == ASSUME IInv, NEW p \in Procs, WriteReceipt(p) \/ UpdateRegistry(p) PROVE IInv'
<1>1. Busy(p) /\ Arg(p).op \in {"receipt", "registry"} /\ Continue(p, <<>>) /\ UNCHANGED <<manifest, leaves, revs>>
  BY DEF WriteReceipt, UpdateRegistry, At, Arg, proposal, record
<1> QED BY <1>1, Empty, QuietOp DEF WatchOps, Creates

LEMMA FindResultStep == ASSUME IInv, NEW p \in Procs, FindResult(p) PROVE IInv'
<1> DEFINE a == [op |-> "bind", type |-> "snapshot-binding", order |-> Arg(p).order, attempt |-> Arg(p).attempt]
<1>1. Busy(p) /\ Arg(p).op = "find"
  BY DEF FindResult, At, Arg
<1>2. CASE Refuse(p)
  BY <1>1, <1>2, RefuseStep DEF Refuse
<1>3. CASE Continue(p, <<>>) /\ UNCHANGED <<proposal, record, machine, bounds>>
  BY <1>1, <1>3, Empty, QuietOp DEF WatchOps, Creates, proposal, record
<1>4. Fit(a)
  BY DEF Fit, Plain, Creates, Fillers
<1>5. FindResult(p) => \/ Refuse(p)
                       \/ Continue(p, <<>>) /\ UNCHANGED <<proposal, record, machine, bounds>>
                       \/ Continue(p, <<a>>) /\ UNCHANGED <<proposal, record, machine, bounds>>
  BY DEF FindResult
<1> HIDE DEF a
<1>6. CASE Continue(p, <<a>>) /\ UNCHANGED <<proposal, record, machine, bounds>>
  BY <1>1, <1>4, <1>6, One, QuietOp DEF WatchOps, Creates, proposal, record
<1> QED BY <1>2, <1>3, <1>5, <1>6

LEMMA BindStep == ASSUME IInv, NEW p \in Procs, Bind(p) PROVE IInv'
<1>1. Busy(p) /\ Arg(p).op = "bind"
  BY DEF Bind, At, Arg
<1>2. CASE Refuse(p)
  BY <1>1, <1>2, RefuseStep DEF Refuse
<1>3. CASE Continue(p, Rest(Arg(p), Index.snap)) /\ UNCHANGED <<proposal, record, machine, bounds>>
  BY <1>1, <1>3, RestOk, QuietOp DEF WatchOps, Creates, proposal, record
<1>4. CASE /\ Continue(p, Binding(Arg(p).type, Len(snaps) + 1) \o Rest(Arg(p), Len(snaps) + 1))
           /\ UNCHANGED <<proposal, record, receipt, registry, live, bounds>>
  BY <1>1, <1>4, BindingOk, QuietOp DEF WatchOps, Creates, proposal, record
<1> QED BY <1>2, <1>3, <1>4 DEF Bind

LEMMA CoveredStep == ASSUME IInv, NEW p \in Procs, Covered(p) PROVE IInv'
<1>1. Busy(p) /\ Arg(p).op = "covered"
  BY DEF Covered, At, Arg
<1>2. CASE Refuse(p)
  BY <1>1, <1>2, RefuseStep DEF Refuse
<1>3. CASE Continue(p, <<>>) /\ UNCHANGED <<proposal, record, machine, bounds>>
  BY <1>1, <1>3, Empty, QuietOp DEF WatchOps, Creates, proposal, record
<1> QED BY <1>2, <1>3 DEF Covered

LEMMA RunStep == ASSUME IInv, NEW p \in Procs, Run(p) PROVE IInv'
<1>1. Busy(p) /\ Arg(p).op = "run"
  BY DEF Run, At, Arg
<1>2. CASE Refuse(p)
  BY <1>1, <1>2, RefuseStep DEF Refuse
<1>3. ASSUME NEW n, NEW what,
             Continue(p, <<Leaf("work-order-result", n, Arg(p).snap, what), Op("fold")>>),
             UNCHANGED <<proposal, record, machine, bounds>>
      PROVE  IInv'
  <2> DEFINE a == Leaf("work-order-result", n, Arg(p).snap, what)
             b == Op("fold")
  <2>1. Fit(a) /\ Fit(b)
    BY Ops DEF Creates, Fillers
  <2>2. Continue(p, <<a, b>>)
    BY <1>3
  <2> HIDE DEF a, b
  <2> QED BY <1>1, <1>3, <2>1, <2>2, Pair, QuietOp DEF WatchOps, Creates, proposal, record
<1> QED BY <1>2, <1>3 DEF Run

LEMMA ReviewedStep == ASSUME IInv, NEW p \in Procs, Reviewed(p) PROVE IInv'
<1>1. Busy(p) /\ Arg(p).op = "reviewed"
  BY DEF Reviewed, At, Arg
<1>2. CASE Refuse(p)
  BY <1>1, <1>2, RefuseStep DEF Refuse
<1>3. CASE /\ Continue(p, Installation(Arg(p).inst, leaves[Arg(p).result].what[1], leaves[Arg(p).result].snap,
                                       leaves[Arg(p).result].what[1], Arg(p).ack))
           /\ UNCHANGED <<proposal, record, machine, bounds>>
  BY <1>1, <1>3, InstallationOk, QuietOp DEF WatchOps, Creates, proposal, record
<1> QED BY <1>2, <1>3 DEF Reviewed

LEMMA CommittedStep == ASSUME IInv, NEW p \in Procs, Committed(p) PROVE IInv'
<1> DEFINE a == [op |-> "registry", inst |-> Arg(p).inst, status |-> leaves[<<"rollback", Arg(p).inst>>].what]
           b == [op |-> "restore", inst |-> Arg(p).inst]
<1>1. Busy(p) /\ Arg(p).op = "committed"
  BY DEF Committed, At, Arg
<1>2. CASE Refuse(p)
  BY <1>1, <1>2, RefuseStep DEF Refuse
<1>3. Committed(p) => \/ Refuse(p)
                      \/ /\ Continue(p, <<a>>) \/ Continue(p, <<>>) \/ Continue(p, <<b>>)
                         /\ UNCHANGED <<proposal, record, machine, bounds>>
  BY DEF Committed
<1>4. Fit(a) /\ Fit(b)
  BY DEF Fit, Plain, Creates, Fillers
<1> HIDE DEF a, b
<1>5. CASE UNCHANGED <<proposal, record, machine, bounds>>
  <2>1. UNCHANGED <<manifest, leaves, revs>>
    BY <1>5 DEF proposal, record
  <2>2. CASE Continue(p, <<>>)
    BY <1>1, <2>1, <2>2, Empty, QuietOp DEF WatchOps, Creates
  <2>3. CASE Continue(p, <<a>>)
    BY <1>1, <1>4, <2>1, <2>3, One, QuietOp DEF WatchOps, Creates
  <2>4. CASE Continue(p, <<b>>)
    BY <1>1, <1>4, <2>1, <2>4, One, QuietOp DEF WatchOps, Creates
  <2> QED BY <1>2, <1>3, <2>2, <2>3, <2>4
<1> QED BY <1>2, <1>3, <1>5

LEMMA RestoreStep == ASSUME IInv, NEW p \in Procs, Restore(p) PROVE IInv'
<1>1. Busy(p) /\ Arg(p).op = "restore"
  BY Zenon DEF Restore, At, Arg
<1>2. PICK i, status : Continue(p, RollbackRecord(i, status))
  BY DEF Restore
<1>3. UNCHANGED <<manifest, leaves, revs>>
  BY DEF Restore, proposal, record
<1> QED BY <1>1, <1>2, <1>3, RollbackRecordOk, QuietOp DEF WatchOps, Creates
-----------------------------------------------------------------------------
(* Commands begin. *)
LEMMA SameList ==
    ASSUME NEW s, NEW t, IsList(s), IsList(t), Len(s) = Len(t), \A n \in 1 .. Len(s) : s[n] = t[n]
    PROVE  s = t
<1>1. s = [n \in 1 .. Len(s) |-> s[n]] /\ t = [n \in 1 .. Len(t) |-> t[n]]
  BY Lists DEF IsList
<1> QED BY <1>1

LEMMA OneMore ==
    ASSUME NEW s, NEW d, NEW u, IsList(s), IsList(u), Len(u) = Len(s) + 1, u[Len(s) + 1] = d,
           \A n \in 1 .. Len(s) : u[n] = s[n]
    PROVE  s \o <<d>> = u
<1> DEFINE v == s \o <<d>>
<1>1. <<d>> \in Seq({d}) /\ Len(<<d>>) = 1 /\ <<d>>[1] = d
  OBVIOUS
<1>2. IsList(<<d>>)
  BY <1>1, Lists
<1>3. /\ IsList(v) /\ Len(v) = Len(s) + Len(<<d>>) /\ Len(s) \in Nat
      /\ \A n \in 1 .. Len(s) : v[n] = s[n]
      /\ \A n \in Len(s) + 1 .. Len(s) + Len(<<d>>) : v[n] = <<d>>[n - Len(s)]
  BY <1>2, Joined
<1> HIDE DEF v
<1>4. PICK l : l = Len(s)
  OBVIOUS
<1>5. l \in Nat /\ Len(v) = l + 1 /\ Len(u) = l + 1 /\ \A n \in l + 1 .. l + 1 : v[n] = <<d>>[n - l]
  BY <1>1, <1>3, <1>4
<1>6. l + 1 \in l + 1 .. l + 1 /\ (l + 1) - l = 1
  BY <1>5
<1>7. v[l + 1] = d
  BY <1>1, <1>5, <1>6
<1>8. \A n \in 1 .. l + 1 : n = l + 1 \/ n \in 1 .. l
  BY <1>5
<1>9. \A n \in 1 .. l + 1 : v[n] = u[n]
  BY <1>3, <1>4, <1>7, <1>8
<1>10. v = u
  BY <1>3, <1>5, <1>9, SameList
<1> QED BY <1>10 DEF v

LEMMA Two == ASSUME NEW a, NEW b, NEW d PROVE <<a, b>> \o <<d>> = <<a, b, d>>
<1>1. <<a, b>> \in Seq({a, b}) /\ <<a, b, d>> \in Seq({a, b, d})
  OBVIOUS
<1>2. IsList(<<a, b>>) /\ IsList(<<a, b, d>>)
  BY <1>1, Lists
<1>3. Len(<<a, b>>) = 2 /\ Len(<<a, b, d>>) = 2 + 1 /\ <<a, b, d>>[2 + 1] = d
      /\ \A n \in 1 .. 2 : <<a, b, d>>[n] = <<a, b>>[n]
  OBVIOUS
<1> QED BY <1>2, <1>3, OneMore

LEMMA FourMore == ASSUME NEW a, NEW b, NEW c, NEW d, NEW e PROVE <<a, b, c, d>> \o <<e>> = <<a, b, c, d, e>>
<1>1. <<a, b, c, d>> \in Seq({a, b, c, d}) /\ <<a, b, c, d, e>> \in Seq({a, b, c, d, e})
  OBVIOUS
<1>2. IsList(<<a, b, c, d>>) /\ IsList(<<a, b, c, d, e>>)
  BY <1>1, Lists
<1>3. Len(<<a, b, c, d>>) = 4 /\ Len(<<a, b, c, d, e>>) = 4 + 1 /\ <<a, b, c, d, e>>[4 + 1] = e
      /\ \A n \in 1 .. 4 : <<a, b, c, d, e>>[n] = <<a, b, c, d>>[n]
  OBVIOUS
<1> QED BY <1>2, <1>3, OneMore

\* Any command but the proposal.
LEMMA StartStep ==
    ASSUME IInv, NEW p \in Procs, NEW c, NEW ops, NEW t, t = ops \o <<Op("done")>>, Start(p, c, ops),
           PlainList(t), Late(t), t # <<>>, t[1].op = "lock", manifest = "whole",
           Blank => \A n \in DOMAIN t : t[n].op \in WatchOps \ {"receipts"}
    PROVE  IInv'
<1>1. job' = [job EXCEPT ![p] = [cmd |-> c, todo |-> t]] /\ UNCHANGED <<manifest, files, leaves, revs, receipt, lock>>
  BY DEF Start, proposal, record, machine
<1>2. /\ job'[p] = [cmd |-> c, todo |-> t]
      /\ \A q \in Procs \ {p} : job'[q] = job[q]
      /\ job' = [q \in Procs |-> [cmd |-> job'[q].cmd, todo |-> job'[q].todo]]
  <2>1. job = [q \in Procs |-> [cmd |-> job[q].cmd, todo |-> job[q].todo]]
    BY DEF IInv
  <2>2. job' = [q \in Procs |-> IF q = p THEN [cmd |-> c, todo |-> t] ELSE job[q]]
    BY <1>1, <2>1
  <2>3. \A q \in Procs : job'[q] = [cmd |-> job'[q].cmd, todo |-> job'[q].todo]
    BY <2>1, <2>2
  <2> QED BY <2>2, <2>3
<1>3. job'[p].todo = t
  BY <1>2
<1>4. PlainList(Tail(t)) /\ Head(t) = t[1] /\ 1 \in DOMAIN t /\ IsList(t) /\ DOMAIN t = 1 .. Len(t) /\ Len(t) \in Nat
  BY NextPlain, TailOf DEF PlainList
<1>5. Busy(p)' /\ Arg(p)' = t[1]
  BY <1>3, <1>4 DEF Busy, Arg
<1>6. Listed(p)'
  BY <1>3, <1>4, <1>5 DEF Listed
<1>7. Held(p)'
  <2>1. 1 \in DOMAIN t /\ t[1].op = "lock" /\ \A m \in DOMAIN t : ~(m < 1) /\ t[m].op \notin Creates
    <3>1. \A m \in 1 .. Len(t) : ~(m < 1)
      BY <1>4
    <3> QED BY <1>4, <3>1 DEF Late
  <2>2. Opening(t)
    BY <2>1 DEF Opening
  <2> QED BY <1>3, <2>2 DEF Held
<1>8. Fills(p)'
  BY <1>5 DEF Fills, At, Arg
<1>9. \A q \in Procs \ {p} : Own(q)'
  BY <1>1, <1>2, Frame DEF IInv
<1>10. Creation'
  <2>1. ~Young(p)'
    BY <1>5 DEF Young, Creates
  <2>2. ASSUME NEW q \in Procs \ {p}, Young(q) PROVE Blank' /\ Watching(p)'
    <3>1. Blank
      BY <2>2 DEF IInv, Creation
    <3>2. At(p, "lock")'
      BY <1>5 DEF At, Arg
    <3>3. Watching(p)'
      BY <1>3, <3>1, <3>2 DEF Watching, WatchOps
    <3> QED BY <1>1, <3>1, <3>3 DEF Blank
  <2> QED BY <1>1, <1>2, <2>1, <2>2, CreationKept DEF IInv
<1>11. Unmade'
  BY <1>1 DEF Unmade
<1>12. OneWriter'
  <2>1. ~At(p, "fill_revision")'
    BY <1>5 DEF At, Arg
  <2>2. \A q \in Procs \ {p} : At(q, "fill_revision")' => At(q, "fill_revision")
    BY <1>2 DEF At, Busy
  <2> QED BY <1>1, <2>1, <2>2 DEF IInv, OneWriter
<1> QED BY <1>2, <1>6, <1>7, <1>8, <1>9, <1>10, <1>11, <1>12 DEF IInv, Own

\* The commands that need what only a campaign that exists can have.
LEMMA LateStart ==
    ASSUME IInv, NEW p \in Procs, NEW c, NEW o, Fit(o), Start(p, c, <<Op("lock"), o>>), ~Blank
    PROVE  IInv'
<1> DEFINE a == Op("lock")
           d == Op("done")
<1>1. Fit(a) /\ Fit(d)
  BY Ops DEF Creates, Fillers
<1>2. a.op = "lock"
  BY DEF Op
<1>3. manifest = "whole"
  BY DEF IInv, Unmade
<1> HIDE DEF a
<1>4. <<a, o>> \o <<d>> = <<a, o, d>>
  BY Two
<1>5. Start(p, c, <<a, o>>)
  BY DEF a
<1>6. <<a, o, d>> = <<a, o>> \o <<Op("done")>>
  BY <1>4
<1> HIDE DEF d
<1>7. PlainList(<<a, o, d>>) /\ Late(<<a, o, d>>) /\ <<a, o, d>> # <<>> /\ <<a, o, d>>[1] = a
  BY <1>1, Triple
<1> QED BY <1>2, <1>3, <1>5, <1>6, <1>7, StartStep

LEMMA ApplyCampaignStep == ASSUME IInv, NEW p \in Procs, NEW i \in Installs, ApplyCampaign(p, i) PROVE IInv'
<1> DEFINE o == [op |-> "bind", type |-> "snapshot", inst |-> i]
<1>1. Fit(o)
  BY DEF Fit, Plain, Creates, Fillers
<1>2. Start(p, "apply", <<Op("lock"), o>>) /\ ~Blank
  BY DEF ApplyCampaign, Call, Blank
<1> HIDE DEF o
<1> QED BY <1>1, <1>2, LateStart

LEMMA DispatchStep ==
    ASSUME IInv, NEW p \in Procs, NEW w \in Orders, NEW a \in Attempts, Dispatch(p, w, a) PROVE IInv'
<1> DEFINE o == [op |-> "find", order |-> w, attempt |-> a]
<1>1. Fit(o)
  BY DEF Fit, Plain, Creates, Fillers
<1>2. Start(p, "dispatch", <<Op("lock"), o>>) /\ ~Blank
  BY DEF Dispatch, Call, Blank
<1> HIDE DEF o
<1> QED BY <1>1, <1>2, LateStart

LEMMA DispatchApplyStep ==
    ASSUME IInv, NEW p \in Procs, NEW i \in Installs, NEW r \in DOMAIN leaves, NEW ack \in BOOLEAN,
           DispatchApply(p, i, r, ack)
    PROVE  IInv'
<1> DEFINE o == [op |-> "reviewed", result |-> r, inst |-> i, ack |-> ack]
<1>1. Fit(o)
  BY DEF Fit, Plain, Creates, Fillers
<1>2. Start(p, "dispatch_apply", <<Op("lock"), o>>) /\ ~Blank
  BY DEF DispatchApply, Call, Blank
<1> HIDE DEF o
<1> QED BY <1>1, <1>2, LateStart

LEMMA RollbackStep == ASSUME IInv, NEW p \in Procs, NEW i \in Installs, Rollback(p, i) PROVE IInv'
<1> DEFINE o == [op |-> "committed", inst |-> i]
<1>1. Fit(o)
  BY DEF Fit, Plain, Creates, Fillers
<1>2. Start(p, "rollback", <<Op("lock"), o>>) /\ ~Blank
  BY DEF Rollback, Call, Blank
<1> HIDE DEF o
<1> QED BY <1>1, <1>2, LateStart

LEMMA StatusStep == ASSUME IInv, NEW p \in Procs, Status(p) PROVE IInv'
<1> DEFINE a == Op("lock")
           b == Op("attach")
           c == Op("rebuild")
           d == Op("fold")
           e == Op("done")
<1>1. Fit(a) /\ Fit(b) /\ Fit(c) /\ Fit(d) /\ Fit(e)
  BY Ops DEF Creates, Fillers
<1>2. a.op = "lock" /\ b.op = "attach" /\ c.op = "rebuild" /\ d.op = "fold" /\ e.op = "done"
  BY DEF Op
<1>3. manifest = "whole" /\ Start(p, "status", <<a, b, c, d>>)
  BY DEF Status, Call
<1> HIDE DEF a, b, c, d
<1>4. <<a, b, c, d, e>> = <<a, b, c, d>> \o <<Op("done")>>
  BY FourMore
<1> HIDE DEF e
<1>5. PlainList(<<a, b, c, d, e>>) /\ Late(<<a, b, c, d, e>>)
  BY <1>1, Five
<1>6. <<a, b, c, d, e>> # <<>> /\ <<a, b, c, d, e>>[1] = a
  OBVIOUS
<1>7. \A n \in DOMAIN <<a, b, c, d, e>> : <<a, b, c, d, e>>[n].op \in WatchOps \ {"receipts"}
  BY <1>2 DEF WatchOps
<1> QED BY <1>2, <1>3, <1>4, <1>5, <1>6, <1>7, StartStep
\* The list of a proposal.
LEMMA ProposalList ==
    ASSUME NEW s, IsList(s), Len(s) = 9, s[1].op = "manifest", s[2].op = "index", s[3].op = "lock",
           \A n \in 3 .. 9 : Fit(s[n]), NEW j, Fit(j)
    PROVE  /\ IsList(s \o <<j>>) /\ s \o <<j>> # <<>>
           /\ Head(s \o <<j>>) = s[1]
           /\ PlainList(Tail(s \o <<j>>))
           /\ Opening(s \o <<j>>)
<1> DEFINE t == s \o <<j>>
<1>1. <<j>> \in Seq({j}) /\ Len(<<j>>) = 1 /\ <<j>>[1] = j
  OBVIOUS
<1>2. IsList(<<j>>)
  BY <1>1, Lists
<1>3. /\ IsList(t) /\ DOMAIN t = 1 .. 9 + 1 /\ Len(t) = 9 + 1
      /\ \A n \in 1 .. 9 : t[n] = s[n]
      /\ \A n \in 9 + 1 .. 9 + 1 : t[n] = <<j>>[n - 9]
  <2>1. PICK k, l : k = Len(s) /\ l = Len(<<j>>)
    OBVIOUS
  <2>2. /\ IsList(t) /\ DOMAIN t = 1 .. k + l /\ Len(t) = k + l
        /\ \A n \in 1 .. k : t[n] = s[n]
        /\ \A n \in k + 1 .. k + l : t[n] = <<j>>[n - k]
    <3>1. /\ IsList(t) /\ DOMAIN t = 1 .. Len(s) + Len(<<j>>) /\ Len(t) = Len(s) + Len(<<j>>)
          /\ \A n \in 1 .. Len(s) : t[n] = s[n]
          /\ \A n \in Len(s) + 1 .. Len(s) + Len(<<j>>) : t[n] = <<j>>[n - Len(s)]
      BY <1>2, Joined, Zenon
    <3> HIDE DEF t
    <3> QED BY <2>1, <3>1
  <2> HIDE DEF t
  <2>3. k = 9 /\ l = 1
    BY <1>1, <2>1
  <2> QED BY <2>2, <2>3
<1> HIDE DEF t
<1>4. t[10] = j /\ DOMAIN t = 1 .. 10 /\ Len(t) = 10
  BY <1>1, <1>3
<1>5. t # <<>>
  BY <1>4
<1>6. \A n \in 3 .. 10 : Fit(t[n])
  BY <1>3, <1>4
<1>7. Plain(t[2])
  BY <1>3 DEF Plain, Fillers
<1>8. PlainList(Tail(t)) /\ Head(t) = t[1]
  <2>1. /\ IsList(Tail(t)) /\ Head(t) = t[1] /\ DOMAIN Tail(t) = 1 .. Len(t) - 1
        /\ \A n \in 1 .. Len(t) - 1 : Tail(t)[n] = t[n + 1]
    BY <1>3, <1>5, TailOf
  <2>2. \A n \in 1 .. 10 - 1 : n + 1 = 2 \/ n + 1 \in 3 .. 10
    OBVIOUS
  <2>3. \A n \in 1 .. 10 - 1 : Plain(t[n + 1])
    BY <1>6, <1>7, <2>2 DEF Fit
  <2> QED BY <1>4, <2>1, <2>3 DEF PlainList
<1>9. Opening(t)
  <2>1. 3 \in DOMAIN t /\ t[3].op = "lock"
    BY <1>3, <1>4
  <2>2. \A m \in DOMAIN t : IF m < 3 THEN m \in {1, 2} ELSE m \in 3 .. 10
    BY <1>4
  <2>3. t[1].op = "manifest" /\ t[2].op = "index"
    BY <1>3
  <2>4. \A m \in DOMAIN t : IF m < 3 THEN t[m].op \in Creates \cup {"fill_revision"} ELSE t[m].op \notin Creates
    BY <1>6, <2>2, <2>3 DEF Creates, Fit
  <2> QED BY <2>1, <2>4 DEF Opening
<1> QED BY <1>3, <1>5, <1>8, <1>9 DEF t

LEMMA ProposeStep == ASSUME IInv, NEW p \in Procs, Propose(p) PROVE IInv'
<1> DEFINE a == Op("manifest")
           b == Op("index")
           c == Op("lock")
           d == Op("load")
           e == [op |-> "file", name |-> "plans"]
           f == [op |-> "orders", left |-> Orders]
           g == Leaf("plan", "plan", None, None)
           h == [op |-> "file", name |-> "bundle"]
           i == Op("fold")
           j == Op("done")
           s == <<a, b, c, d, e, f, g, h, i>>
           t == s \o <<j>>
<1>1. a.op = "manifest" /\ b.op = "index" /\ c.op = "lock"
  BY DEF Op
<1>2. Fit(c) /\ Fit(d) /\ Fit(g) /\ Fit(i) /\ Fit(j)
  BY Ops DEF Creates, Fillers
<1>3. Fit(e) /\ Fit(f) /\ Fit(h)
  BY DEF Fit, Plain, Creates, Fillers
<1>4. /\ job' = [job EXCEPT ![p] = [cmd |-> "propose", todo |-> t]]
      /\ manifest = "none" /\ \A q \in Procs : ~Busy(q)
      /\ UNCHANGED <<manifest, files, leaves, revs, receipt, lock>>
  BY DEF Propose, Start, proposal, record, machine
<1> HIDE DEF a, b, c, d, e, f, g, h, i, j
<1>5. /\ IsList(s) /\ Len(s) = 9 /\ s[1] = a /\ s[2] = b /\ s[3] = c
      /\ \A n \in 3 .. 9 : Fit(s[n])
  <2>1. s \in Seq({a, b, c, d, e, f, g, h, i})
    OBVIOUS
  <2>2. Len(s) = 9 /\ s[1] = a /\ s[2] = b /\ s[3] = c /\ s[4] = d /\ s[5] = e /\ s[6] = f /\ s[7] = g
        /\ s[8] = h /\ s[9] = i
    OBVIOUS
  <2> HIDE DEF s
  <2>3. \A n \in 3 .. 9 : n \in {3, 4, 5, 6, 7, 8, 9}
    OBVIOUS
  <2> QED BY <1>2, <1>3, <2>1, <2>2, <2>3, Lists
<1> HIDE DEF s
<1>6. IsList(t) /\ t # <<>> /\ Head(t) = a /\ PlainList(Tail(t)) /\ Opening(t)
  BY <1>1, <1>2, <1>5, ProposalList
<1> HIDE DEF t
<1>7. /\ job'[p].todo = t
      /\ \A q \in Procs \ {p} : job'[q] = job[q]
      /\ job' = [q \in Procs |-> [cmd |-> job'[q].cmd, todo |-> job'[q].todo]]
  <2>1. job = [q \in Procs |-> [cmd |-> job[q].cmd, todo |-> job[q].todo]]
    BY DEF IInv
  <2>2. job' = [q \in Procs |-> IF q = p THEN [cmd |-> "propose", todo |-> t] ELSE job[q]]
    BY <1>4, <2>1
  <2>3. \A q \in Procs : job'[q] = [cmd |-> job'[q].cmd, todo |-> job'[q].todo]
    BY <2>1, <2>2
  <2> QED BY <2>2, <2>3
<1>8. lock = None /\ Blank /\ revs = <<>>
  BY <1>4 DEF IInv, Unmade
<1>9. lock # p
  BY <1>8, CampaignAssumption
<1>10. Busy(p)' /\ Arg(p)' = a
  BY <1>6, <1>7 DEF Busy, Arg
<1>11. Own(p)'
  <2>1. Listed(p)'
    BY <1>1, <1>6, <1>7, <1>10 DEF Listed
  <2>2. Held(p)'
    BY <1>4, <1>6, <1>7, <1>9 DEF Held
  <2>3. Fills(p)'
    BY <1>1, <1>4, <1>10 DEF Fills, At, Arg
  <2> QED BY <2>1, <2>2, <2>3 DEF Own
<1>12. \A q \in Procs \ {p} : Own(q)' /\ ~Busy(q)'
  <2> SUFFICES ASSUME NEW q \in Procs \ {p} PROVE Own(q)' /\ ~Busy(q)'
    OBVIOUS
  <2>1. ~Busy(q)'
    BY <1>4, <1>7 DEF Busy
  <2> QED BY <1>4, <1>7, <2>1, Frame DEF IInv
<1>13. Creation' /\ Unmade' /\ OneWriter'
  <2>1. Blank'
    BY <1>4, <1>8 DEF Blank
  <2>2. At(p, "manifest")'
    BY <1>1, <1>10 DEF At, Arg
  <2>3. Creation'
    BY <1>12, <2>1 DEF Creation, Watching, Young
  <2>4. Unmade'
    BY <1>4, <1>8, <1>12, <2>1, <2>2 DEF Unmade
  <2>5. OneWriter'
    <3>1. \A q \in Procs : ~At(q, "fill_revision")'
      BY <1>1, <1>10, <1>12 DEF At, Arg
    <3> QED BY <1>4, <3>1 DEF OneWriter, IInv
  <2> QED BY <2>3, <2>4, <2>5
<1> QED BY <1>7, <1>11, <1>12, <1>13 DEF IInv
-----------------------------------------------------------------------------
(* Deaths and errors. *)

LEMMA CrashStep == ASSUME IInv, NEW p \in Procs, Crash(p) PROVE IInv'
BY RefuseStep DEF Crash

LEMMA FaultManifest ==
    ASSUME IInv, NEW p \in Procs, Fault(p), At(p, "fill_manifest")
    PROVE  IInv'
<1>1. Busy(p) /\ Arg(p).op = "fill_manifest" /\ End(p) /\ UNCHANGED files
  BY DEF Fault, At, Arg
<1>2. manifest' = "none" /\ UNCHANGED <<leaves, revs, receipt>>
  BY <1>1 DEF Fault, Undone
<1>3. manifest # "whole"
  BY DEF IInv, Own, Fills
<1>4. Blank /\ revs = <<>> /\ lock = None /\ \A q \in Procs \ {p} : ~Busy(q)
  BY <1>1, <1>3 DEF IInv, Unmade
<1>5. /\ job'[p].todo = <<>> /\ ~Busy(p)'
      /\ \A q \in Procs \ {p} : job'[q] = job[q]
      /\ job' = [q \in Procs |-> [cmd |-> job'[q].cmd, todo |-> job'[q].todo]]
      /\ lock' = None
  BY <1>1, <1>4, EndGoes, CampaignAssumption
<1>6. \A q \in Procs : ~Busy(q)'
  BY <1>4, <1>5 DEF Busy
<1>7. \A q \in Procs : IsList(job'[q].todo)
  BY <1>5, Empty DEF IInv, Own, Listed
<1>8. \A q \in Procs : Own(q)'
  BY <1>6, <1>7 DEF Own, Listed, Held, Fills, At
<1>9. Creation' /\ Unmade'
  BY <1>2, <1>4, <1>5, <1>6, <1>1 DEF Creation, Young, Unmade, Blank
<1>10. OneWriter'
  BY <1>2, <1>6 DEF IInv, OneWriter, At
<1> QED BY <1>5, <1>8, <1>9, <1>10 DEF IInv

LEMMA FaultLeaf ==
    ASSUME IInv, NEW p \in Procs, Fault(p), At(p, "fill_leaf")
    PROVE  IInv'
<1>1. Busy(p) /\ Arg(p).op = "fill_leaf" /\ End(p) /\ UNCHANGED files
  BY DEF Fault, At, Arg
<1>2. lock = p
  BY <1>1, UnderLock DEF IInv, Creates
<1>3. \A q \in Procs \ {p} : ~Young(q) /\ ~At(q, "fill_leaf") /\ ~At(q, "fill_revision")
  BY <1>1, <1>2, NobodyYoung, OthersQuiet DEF WatchOps
<1>4. manifest = "whole"
  BY <1>2, CampaignAssumption DEF IInv, Unmade
<1>5. manifest' = "whole" /\ revs' = revs
  BY <1>1, <1>4 DEF Fault, Undone
<1>6. /\ job'[p].todo = <<>> /\ ~Busy(p)'
      /\ \A q \in Procs \ {p} : job'[q] = job[q] /\ (lock' = q <=> lock = q)
      /\ job' = [q \in Procs |-> [cmd |-> job'[q].cmd, todo |-> job'[q].todo]]
  BY <1>1, EndGoes, CampaignAssumption
<1>7. Own(p)'
  BY <1>6, Empty DEF Own, Listed, Held, Fills, At
<1>8. \A q \in Procs \ {p} : Own(q)'
  <2> SUFFICES ASSUME NEW q \in Procs \ {p} PROVE Own(q)'
    OBVIOUS
  <2>1. job'[q] = job[q] /\ Own(q)
    BY <1>6 DEF IInv
  <2>2. Listed(q)' /\ Held(q)'
    BY <1>6, <2>1 DEF Own, Listed, Held, Busy, Arg
  <2>3. ~At(q, "fill_leaf")' /\ ~At(q, "fill_revision")'
    BY <1>3, <2>1 DEF At, Busy
  <2>4. ~At(q, "manifest")' /\ ~At(q, "fill_manifest")'
    BY <1>4, <2>1 DEF At, Busy, Own, Fills
  <2>5. Fills(q)'
    BY <2>3, <2>4 DEF Fills
  <2> QED BY <2>2, <2>5 DEF Own
<1>9. Creation'
  <2>1. ~Young(p)'
    BY <1>6 DEF Young
  <2> QED BY <1>3, <1>6, <2>1, CreationKept DEF IInv
<1>10. OneWriter'
  <2>1. \A q \in Procs : ~At(q, "fill_revision")'
    BY <1>3, <1>6 DEF At, Busy
  <2> QED BY <1>5, <2>1 DEF IInv, OneWriter
<1>11. Unmade'
  BY <1>5 DEF Unmade
<1> QED BY <1>6, <1>7, <1>8, <1>9, <1>10, <1>11 DEF IInv

LEMMA FaultRevision ==
    ASSUME IInv, NEW p \in Procs, Fault(p), At(p, "fill_revision")
    PROVE  IInv'
<1>1. Busy(p) /\ Arg(p).op = "fill_revision" /\ End(p) /\ UNCHANGED files
  BY DEF Fault, At, Arg
<1>2. manifest = "whole"
  BY <1>1 DEF IInv, Unmade, At, Arg
<1>3. manifest' = "whole" /\ UNCHANGED <<leaves, receipt>> /\ revs' = SubSeq(revs, 1, Len(revs) - 1)
  BY <1>1, <1>2 DEF Fault, Undone
<1>4. /\ job'[p].todo = <<>> /\ ~Busy(p)'
      /\ \A q \in Procs \ {p} : job'[q] = job[q] /\ (lock' = q <=> lock = q)
      /\ job' = [q \in Procs |-> [cmd |-> job'[q].cmd, todo |-> job'[q].todo]]
  BY <1>1, EndGoes, CampaignAssumption
<1>5. \A q \in Procs \ {p} : ~At(q, "fill_revision")
  BY <1>1 DEF IInv, OneWriter, At, Arg
<1>6. Own(p)'
  BY <1>4, Empty DEF Own, Listed, Held, Fills, At
<1>7. \A q \in Procs \ {p} : Own(q)'
  <2> SUFFICES ASSUME NEW q \in Procs \ {p} PROVE Own(q)'
    OBVIOUS
  <2>1. job'[q] = job[q] /\ Own(q)
    BY <1>4 DEF IInv
  <2>2. Listed(q)' /\ Held(q)'
    BY <1>4, <2>1 DEF Own, Listed, Held, Busy, Arg
  <2>3. ~At(q, "fill_revision")'
    BY <1>5, <2>1 DEF At, Busy
  <2>4. /\ At(q, "fill_leaf")' => At(q, "fill_leaf") /\ Arg(q)' = Arg(q)
        /\ ~At(q, "manifest")' /\ ~At(q, "fill_manifest")'
    BY <1>2, <2>1 DEF At, Busy, Arg, Own, Fills
  <2>5. Fills(q)'
    BY <1>3, <2>1, <2>3, <2>4 DEF Fills, Own
  <2> QED BY <2>2, <2>5 DEF Own
<1>8. Creation'
  <2>1. ~Young(p)' /\ Watching(p)'
    BY <1>4 DEF Young, Watching
  <2>2. (\E q \in Procs \ {p} : Young(q)) => Blank'
    BY <1>1, <1>3 DEF IInv, Creation, Blank
  <2> QED BY <1>4, <2>1, <2>2, CreationKept DEF IInv
<1>9. OneWriter'
  <2>1. \A q \in Procs : ~At(q, "fill_revision")'
    BY <1>4, <1>5 DEF At, Busy
  <2>2. revs # <<>> /\ IsList(revs)
    BY DEF IInv, Own, Fills, OneWriter
  <2>3. /\ IsList(revs') /\ Len(revs) \in Nat \ {0} /\ DOMAIN revs = 1 .. Len(revs)
        /\ DOMAIN revs' = 1 .. Len(revs) - 1 /\ \A n \in 1 .. Len(revs) - 1 : revs'[n] = revs[n]
    BY <1>3, <2>2, Shortened
  <2>4. \A n \in 1 .. Len(revs) - 1 : n \in 1 .. Len(revs) /\ n # Len(revs)
    <3>1. \A l \in Nat \ {0} : \A n \in 1 .. l - 1 : n \in 1 .. l /\ n # l
      OBVIOUS
    <3> QED BY <2>3, <3>1, Zenon
  <2>5. \A n \in DOMAIN revs' : revs'[n] # Torn
    BY <2>3, <2>4 DEF IInv, OneWriter
  <2> QED BY <2>1, <2>3, <2>5 DEF OneWriter
<1>10. Unmade'
  BY <1>3 DEF Unmade
<1> QED BY <1>4, <1>6, <1>7, <1>8, <1>9, <1>10 DEF IInv

LEMMA FaultStep == ASSUME IInv, NEW p \in Procs, Fault(p) PROVE IInv'
<1>1. Busy(p) /\ End(p) /\ UNCHANGED files
  BY DEF Fault
<1>2. CASE \A f \in {"fill_manifest", "fill_leaf", "fill_revision"} : ~At(p, f)
  <2>1. Arg(p).op \notin {"fill_manifest", "fill_leaf", "fill_revision"}
    BY <1>1, <1>2 DEF At, Arg
  <2>2. UNCHANGED <<manifest, leaves, revs>>
    BY <2>1 DEF Fault, Undone
  <2>3. CASE Arg(p).op \in {"receipt", "registry"}
    <3>1. lock = p
      BY <1>1, <2>3, UnderLock DEF IInv, Creates
    <3>2. manifest = "whole" /\ \A q \in Procs \ {p} : ~Young(q)
      BY <1>1, <2>3, <3>1, NobodyYoung, CampaignAssumption DEF WatchOps, IInv, Unmade
    <3> QED BY <1>1, <2>2, <3>2, EndStep
  <2>4. CASE Arg(p).op \notin {"receipt", "registry"}
    <3>1. receipt' = receipt
      BY <2>4 DEF Fault, Undone
    <3>2. Blank => Blank'
      BY <1>1, <2>2, <3>1 DEF Blank
    <3>3. manifest # "whole" \/ (\E q \in Procs \ {p} : Young(q)) => Blank
      BY DEF IInv, Creation, Unmade
    <3> QED BY <1>1, <2>2, <3>2, <3>3, EndStep
  <2> QED BY <2>3, <2>4
<1> QED BY <1>2, FaultManifest, FaultLeaf, FaultRevision

-----------------------------------------------------------------------------
(* The invariant. *)

LEMMA Beginning == Init => IInv
<1> SUFFICES ASSUME Init PROVE IInv
  OBVIOUS
<1>1. \A p \in Procs : job[p].todo = <<>> /\ ~Busy(p)
  BY DEF Init, Idle, Busy
<1>2. job = [p \in Procs |-> [cmd |-> job[p].cmd, todo |-> job[p].todo]]
  BY DEF Init, Idle
<1>3. \A p \in Procs : Own(p)
  BY <1>1, Empty DEF Own, Listed, Held, Fills, At
<1>4. Blank
  <2>1. DOMAIN leaves = {}
    BY DEF Init
  <2> QED BY <2>1 DEF Init, Blank
<1>5. Creation /\ Unmade
  BY <1>1, <1>4 DEF Creation, Young, Unmade, Init
<1>6. OneWriter
  <2>1. revs = <<>>
    BY DEF Init
  <2>2. IsList(revs) /\ DOMAIN revs = {}
    BY <2>1, Empty
  <2> QED BY <1>1, <2>2 DEF OneWriter, At
<1> QED BY <1>2, <1>3, <1>5, <1>6 DEF IInv

LEMMA Still ==
    ASSUME IInv, UNCHANGED <<manifest, files, leaves, revs, receipt, lock, job>>
    PROVE  IInv'
<1>1. \A p \in Procs : /\ Own(p)' /\ (Young(p)' <=> Young(p)) /\ (Watching(p)' <=> Watching(p))
                       /\ (Busy(p)' <=> Busy(p)) /\ \A o : At(p, o)' <=> At(p, o)
  BY Frame DEF IInv, Young, Watching, Busy, At, Arg
<1>2. Blank' <=> Blank
  BY DEF Blank
<1>3. Creation' /\ Unmade' /\ OneWriter'
  BY <1>1, <1>2 DEF IInv, Creation, Unmade, OneWriter
<1> QED BY <1>1, <1>3 DEF IInv

LEMMA Stays == IInv /\ [Next]_vars => IInv'
<1> SUFFICES ASSUME IInv, [Next]_vars PROVE IInv'
  OBVIOUS
<1>1. CASE UNCHANGED vars
  BY <1>1, Still DEF vars, proposal, record, machine
<1>2. ASSUME NEW p \in Procs, Step(p) PROVE IInv'
  BY <1>2, LockStep, DoneStep, RegisterLeafStep, FillLeafStep, FoldStep, FillRevisionStep, LoadStep, ManifestStep,
     FillManifestStep, ReadFirstStep, FirstRevisionStep, FileStep, InstallStep, RecordSteps, FindResultStep,
     BindStep, CoveredStep, RunStep, ReviewedStep, WriteOrdersStep, AttachStep, AttachNextStep, RebuildStep,
     CommittedStep, RestoreStep DEF Step
<1>3. ASSUME NEW p \in Procs, Propose(p) \/ Status(p) \/ Fault(p) \/ Crash(p) PROVE IInv'
  BY <1>3, ProposeStep, StatusStep, FaultStep, CrashStep
<1>4. ASSUME NEW t \in Plans, NEW c \in Contents, Edit(t, c) PROVE IInv'
  BY <1>4, Still DEF Edit, proposal, record
<1> QED BY <1>1, <1>2, <1>3, <1>4, ApplyCampaignStep, RollbackStep, DispatchStep, DispatchApplyStep DEF Next
\* The operations a command has left, who holds the lock, and the files that are
\* being written agree, in every state of every campaign (CampaignLock,
\* _write_revision_once, register_leaf_artifact).
THEOREM Invariance == Spec => []IInv
<1> QED BY Beginning, Stays, PTL DEF Spec

-----------------------------------------------------------------------------
(* The record of the campaign is the ledger. *)

Artifacts == {<<k, leaves[k]>> : k \in Whole}

\* What the ledger calls identities and snapshots.
LEMMA Identified == Ledger!Identities = Whole /\ Ledger!SnapshotsOf(Artifacts) = SnapshotsNamed
<1>1. \A k \in Whole : <<k, leaves[k]>> \in Artifacts /\ <<k, leaves[k]>>[1] = k /\ <<k, leaves[k]>>[2] = leaves[k]
  BY DEF Artifacts
<1>2. \A a \in Artifacts : \E k \in Whole : a[1] = k /\ a[2] = leaves[k]
  BY DEF Artifacts
<1>3. \A x : x \in Ledger!Identities <=> \E a \in Artifacts : x = a[1]
  BY DEF Ledger!Identities, Artifacts
<1>4. \A x : x \in Ledger!SnapshotsOf(Artifacts) <=> x # None /\ \E a \in Artifacts : x = a[2].snap
  BY DEF Ledger!SnapshotsOf
<1>5. \A x : x \in SnapshotsNamed <=> x # None /\ \E k \in Whole : x = leaves[k].snap
  BY DEF SnapshotsNamed
<1>6. ASSUME NEW x PROVE x \in Ledger!Identities <=> x \in Whole
  <2>1. CASE x \in Whole
    <3>1. <<x, leaves[x]>> \in Artifacts /\ <<x, leaves[x]>>[1] = x
      BY <1>1, <2>1
    <3> QED BY <1>3, <2>1, <3>1
  <2>2. CASE x \notin Whole
    BY <1>2, <1>3, <2>2
  <2> QED BY <2>1, <2>2
<1>7. ASSUME NEW x PROVE (\E a \in Artifacts : x = a[2].snap) <=> \E k \in Whole : x = leaves[k].snap
  <2>1. ASSUME NEW k \in Whole, x = leaves[k].snap PROVE \E a \in Artifacts : x = a[2].snap
    <3>1. <<k, leaves[k]>> \in Artifacts /\ x = <<k, leaves[k]>>[2].snap
      BY <1>1, <2>1
    <3> QED BY <3>1
  <2> QED BY <1>2, <2>1
<1>8. \A x : x \in Ledger!SnapshotsOf(Artifacts) <=> x \in SnapshotsNamed
  BY <1>4, <1>5, <1>7
<1> QED BY <1>6, <1>8

LEMMA SameRevisions == revs' = revs => Revisions' = Revisions
BY DEF Revisions, Index

LEMMA SameArtifacts == leaves' = leaves => Artifacts' = Artifacts
BY DEF Artifacts, Whole

\* A file that is created, or given up, is not part of the record.
LEMMA LedgerTorn ==
    ASSUME Whole' = Whole, \A k \in Whole : leaves'[k] = leaves[k]
    PROVE  Artifacts' = Artifacts
BY DEF Artifacts

\* An artifact is recorded when it is whole.
LEMMA LedgerRecord ==
    ASSUME IInv, NEW p \in Procs, FillLeaf(p)
    PROVE  Ledger!Record
<1> DEFINE k == Arg(p).key
           b == Arg(p).body
<1>1. Busy(p) /\ At(p, "fill_leaf") /\ leaves' = [leaves EXCEPT ![k] = b] /\ revs' = revs
  BY DEF FillLeaf, At
<1>2. k \in DOMAIN leaves /\ leaves[k] = Torn /\ b # Torn
  BY <1>1 DEF IInv, Own, Fills, Listed, At, Arg
<1> HIDE DEF k, b
<1>3. k \notin Whole /\ Whole' = Whole \cup {k} /\ leaves'[k] = b /\ \A l \in Whole : leaves'[l] = leaves[l]
  BY <1>1, <1>2 DEF Whole
<1>4. Artifacts' = Artifacts \cup {<<k, b>>}
  BY <1>3 DEF Artifacts
<1>5. Revisions' = Revisions
  BY <1>1, SameRevisions
<1>6. Ledger!Identities = Whole
  BY Identified
<1>7. <<k, b>> \in Artifacts' \ Artifacts
  BY <1>3, <1>4 DEF Artifacts
<1>8. <<k, b>>[1] \notin Ledger!Identities
  BY <1>3, <1>6
<1> QED BY <1>4, <1>5, <1>7, <1>8 DEF Ledger!Record, Artifacts

\* A revision is part of the index when it is whole.
LEMMA LedgerFold ==
    ASSUME IInv, NEW p \in Procs, FillRevision(p)
    PROVE  Ledger!Fold
<1>1. Busy(p) /\ At(p, "fill_revision") /\ leaves' = leaves /\ revs' = [revs EXCEPT ![Len(revs)] = Arg(p).index]
  BY DEF FillRevision, At
<1>2. revs # <<>> /\ Index = Torn /\ Foldable /\ Arg(p).index = Folded /\ IsList(revs)
  BY <1>1 DEF IInv, Own, Fills, OneWriter
<1>3. Revisions = SubSeq(revs, 1, Len(revs) - 1)
  BY <1>2 DEF Revisions
<1>4. revs' = Append(Revisions, Folded)
  BY <1>1, <1>2, <1>3, Shortened
<1>5. Folded # Torn
  <2>1. "snap" \in DOMAIN Folded /\ "snap" \notin DOMAIN Torn
    BY DEF Folded, Torn
  <2> QED BY <2>1
<1>6. IsList(Revisions)
  BY <1>2, <1>3, Shortened
<1>7. Revisions' = revs'
  <2>1. revs'[Len(revs')] = Folded
    <3>1. Len(Append(Revisions, Folded)) = Len(Revisions) + 1 /\ Append(Revisions, Folded)[Len(Revisions) + 1] = Folded
      BY <1>6, Appended
    <3> QED BY <1>4, <3>1
  <2> QED BY <1>5, <2>1 DEF Revisions, Index
<1>8. Artifacts' = Artifacts
  BY <1>1, SameArtifacts
<1>9. Ledger!Identities = DOMAIN leaves
  BY <1>2, Identified DEF Foldable
<1>10. Ledger!SnapshotsOf(Artifacts) = SnapshotsNamed
  BY Identified
<1>11. \A s, t \in SnapshotsNamed : s = t
  BY <1>2 DEF Foldable
<1>12. Folded = [snap |-> IF Ledger!SnapshotsOf(Artifacts) = {} THEN None
                          ELSE CHOOSE s \in Ledger!SnapshotsOf(Artifacts) : TRUE,
                 refs |-> Ledger!Identities]
  BY <1>9, <1>10 DEF Folded
<1>13. Revisions' = Append(Revisions, [snap |-> IF Ledger!SnapshotsOf(Artifacts) = {} THEN None
                                                ELSE CHOOSE s \in Ledger!SnapshotsOf(Artifacts) : TRUE,
                                       refs |-> Ledger!Identities])
  BY <1>4, <1>7, <1>12
<1>14. \A s, t \in Ledger!SnapshotsOf(Artifacts) : s = t
  BY <1>10, <1>11
<1> QED BY <1>8, <1>13, <1>14 DEF Ledger!Fold, Artifacts

\* A revision that is begun, or given up, is not part of the index.
LEMMA LedgerBegun ==
    ASSUME IInv, NEW p \in Procs, NEW index, NewRevision(p, index), Readable \/ revs = <<>>
    PROVE  UNCHANGED <<Artifacts, Revisions>>
<1>1. revs' = Append(revs, Torn) /\ leaves' = leaves
  BY DEF NewRevision
<1>2. IsList(revs)
  BY DEF IInv, OneWriter
<1>3. Revisions = revs
  BY DEF Revisions, Readable
<1>4. revs' # <<>> /\ Len(revs') = Len(revs) + 1 /\ Len(revs) \in Nat /\ revs'[Len(revs) + 1] = Torn
      /\ SubSeq(revs', 1, Len(revs)) = revs
  BY <1>1, <1>2, Appended
<1>5. Len(revs') - 1 = Len(revs) /\ Index' = Torn
  <2>1. \A n \in Nat : (n + 1) - 1 = n
    OBVIOUS
  <2> QED BY <1>4, <2>1 DEF Index
<1>6. Revisions' = revs
  BY <1>4, <1>5 DEF Revisions
<1> QED BY <1>1, <1>3, <1>6, SameArtifacts

LEMMA LedgerFault ==
    ASSUME IInv, NEW p \in Procs, Fault(p)
    PROVE  UNCHANGED <<Artifacts, Revisions>>
<1>1. Busy(p)
  BY DEF Fault
<1>2. CASE At(p, "fill_leaf")
  <2>1. revs' = revs /\ leaves' = [k \in DOMAIN leaves \ {Arg(p).key} |-> leaves[k]]
    BY <1>2 DEF Fault, Undone, At, Arg
  <2>2. leaves[Arg(p).key] = Torn
    BY <1>2 DEF IInv, Own, Fills
  <2>3. Whole' = Whole /\ \A k \in Whole : leaves'[k] = leaves[k]
    BY <2>1, <2>2 DEF Whole
  <2> QED BY <2>1, <2>3, LedgerTorn, SameRevisions
<1>3. CASE At(p, "fill_revision")
  <2>1. leaves' = leaves /\ revs' = SubSeq(revs, 1, Len(revs) - 1)
    BY <1>3 DEF Fault, Undone, At, Arg
  <2>2. revs # <<>> /\ IsList(revs) /\ Index = Torn
    BY <1>3 DEF IInv, Own, Fills, OneWriter
  <2>3. Revisions = revs'
    BY <2>1, <2>2 DEF Revisions
  <2>4. /\ Len(revs') = Len(revs) - 1 /\ Len(revs) \in Nat \ {0} /\ DOMAIN revs = 1 .. Len(revs)
        /\ \A n \in 1 .. Len(revs) - 1 : revs'[n] = revs[n]
    BY <2>1, <2>2, Shortened
  <2>5. revs' = <<>> \/ Index' # Torn
    <3>1. IsList(revs')
      BY <2>1, <2>2, Shortened
    <3>2. ASSUME revs' # <<>> PROVE revs'[Len(revs')] # Torn
      <4>1. Len(revs') \in Nat \ {0}
        BY <3>1, <3>2, TailOf
      <4>2. \A l \in Nat \ {0}, m \in Nat \ {0} : m = l - 1 => m \in 1 .. l - 1 /\ m \in 1 .. l /\ m # l
        OBVIOUS
      <4>3. Len(revs') \in 1 .. Len(revs) - 1 /\ Len(revs') \in 1 .. Len(revs) /\ Len(revs') # Len(revs)
        BY <2>4, <4>1, <4>2
      <4> QED BY <2>4, <4>3 DEF IInv, OneWriter
    <3> QED BY <3>2 DEF Index
  <2>6. Revisions' = revs'
    BY <2>5 DEF Revisions
  <2> QED BY <2>1, <2>3, <2>6, SameArtifacts
<1>4. CASE ~At(p, "fill_leaf") /\ ~At(p, "fill_revision")
  <2>1. leaves' = leaves /\ revs' = revs
    BY <1>1, <1>4 DEF Fault, Undone, At, Arg
  <2> QED BY <2>1, SameArtifacts, SameRevisions
<1> QED BY <1>2, <1>3, <1>4

\* Only what is filled is added to the record.
LEMMA LedgerApart ==
    ASSUME IInv, NEW p \in Procs, Step(p), ~FillLeaf(p), ~FillRevision(p)
    PROVE  UNCHANGED <<Artifacts, Revisions>>
<1>1. ASSUME UNCHANGED record PROVE UNCHANGED <<Artifacts, Revisions>>
  BY <1>1, SameArtifacts, SameRevisions DEF record
<1>2. ASSUME RegisterLeaf(p) PROVE UNCHANGED <<Artifacts, Revisions>>
  <2>1. CASE UNCHANGED record
    BY <1>1, <2>1
  <2>2. CASE Arg(p).key \notin DOMAIN leaves /\ leaves' = With(leaves, Arg(p).key, Torn) /\ revs' = revs
    <3>1. Whole' = Whole /\ \A k \in Whole : leaves'[k] = leaves[k]
      BY <2>2 DEF Whole, With
    <3> QED BY <2>2, <3>1, LedgerTorn, SameRevisions
  <2> QED BY <1>2, <2>1, <2>2 DEF RegisterLeaf, Refuse
<1>3. ASSUME Fold(p) \/ Rebuild(p) \/ FirstRevision(p) PROVE UNCHANGED <<Artifacts, Revisions>>
  <2>1. CASE UNCHANGED record
    BY <1>1, <2>1
  <2>2. UNCHANGED record \/ \E index : NewRevision(p, index) /\ (Readable \/ revs = <<>>)
    BY <1>3 DEF Fold, Rebuild, FirstRevision, Refuse
  <2> QED BY <2>1, <2>2, LedgerBegun
<1>4. CASE UNCHANGED record
  BY <1>1, <1>4
<1>5. CASE RegisterLeaf(p) \/ Fold(p) \/ Rebuild(p) \/ FirstRevision(p)
  BY <1>2, <1>3, <1>5
<1>6. Step(p) => \/ UNCHANGED record \/ FillLeaf(p) \/ FillRevision(p)
                 \/ RegisterLeaf(p) \/ Fold(p) \/ Rebuild(p) \/ FirstRevision(p)
  <2>1. Lock(p) \/ Done(p) \/ Load(p) \/ Manifest(p) \/ FillManifest(p) \/ ReadFirst(p) \/ File(p) => UNCHANGED record
    BY DEF Lock, Done, Load, Manifest, FillManifest, ReadFirst, File, Refuse
  <2>2. Install(p) \/ WriteReceipt(p) \/ UpdateRegistry(p) \/ FindResult(p) \/ Bind(p) \/ Covered(p) => UNCHANGED record
    BY DEF Install, WriteReceipt, UpdateRegistry, FindResult, Bind, Covered, Refuse
  <2>3. Run(p) \/ Reviewed(p) \/ WriteOrders(p) \/ Attach(p) \/ AttachNext(p) \/ Committed(p) \/ Restore(p) => UNCHANGED record
    BY DEF Run, Reviewed, WriteOrders, Attach, AttachNext, Committed, Restore, Refuse
  <2> QED BY <2>1, <2>2, <2>3 DEF Step
<1> QED BY <1>4, <1>5, <1>6

LEMMA LedgerStep == IInv /\ [Next]_vars => [Ledger!Record \/ Ledger!Fold]_<<Artifacts, Revisions>>
<1> SUFFICES ASSUME IInv, [Next]_vars PROVE Ledger!Record \/ Ledger!Fold \/ UNCHANGED <<Artifacts, Revisions>>
  OBVIOUS
<1>1. ASSUME UNCHANGED record PROVE UNCHANGED <<Artifacts, Revisions>>
  BY <1>1, SameArtifacts, SameRevisions DEF record
<1>2. ASSUME NEW p \in Procs, Step(p), ~FillLeaf(p), ~FillRevision(p) PROVE UNCHANGED <<Artifacts, Revisions>>
  BY <1>2, LedgerApart
<1>3. ASSUME NEW p \in Procs, Propose(p) \/ Status(p) \/ Crash(p) PROVE UNCHANGED record
  BY <1>3 DEF Propose, Status, Crash, Call, Start
<1>4. ASSUME NEW p \in Procs, NEW i \in Installs, ApplyCampaign(p, i) \/ Rollback(p, i) PROVE UNCHANGED record
  BY <1>4 DEF ApplyCampaign, Rollback, Call, Start
<1>5. ASSUME NEW p \in Procs, NEW o \in Orders, NEW a \in Attempts, Dispatch(p, o, a) PROVE UNCHANGED record
  BY <1>5 DEF Dispatch, Call, Start
<1>6. ASSUME NEW p \in Procs, NEW i \in Installs, NEW r \in DOMAIN leaves, NEW ack \in BOOLEAN,
             DispatchApply(p, i, r, ack)
      PROVE  UNCHANGED record
  BY <1>6 DEF DispatchApply, Call, Start
<1>7. ASSUME NEW t \in Plans, NEW c \in Contents, Edit(t, c) PROVE UNCHANGED record
  BY <1>7 DEF Edit
<1>8. CASE UNCHANGED vars
  BY <1>1, <1>8 DEF vars
<1>9. CASE Next
  BY <1>1, <1>2, <1>3, <1>4, <1>5, <1>6, <1>7, <1>9, LedgerRecord, LedgerFold, LedgerFault DEF Next
<1> QED BY <1>8, <1>9

\* The artifacts and the revisions of a campaign are the ledger: an artifact that
\* is on record stays there as it is, and each revision of the index is what the
\* artifacts said when it was written (register_leaf_artifact,
\* reconcile_campaign_locked, _write_revision_once).
THEOREM LedgerKept == Spec => LedgerSpec
<1>1. Init => Ledger!LedgerInit
  <2> SUFFICES ASSUME Init PROVE Ledger!LedgerInit
    OBVIOUS
  <2>1. Whole = {} /\ Revisions = <<>>
    BY DEF Init, Whole, Revisions
  <2> QED BY <2>1 DEF Ledger!LedgerInit
<1>2. IInv /\ [Next]_vars => [Ledger!Record \/ Ledger!Fold]_<<{<<k, leaves[k]>> : k \in Whole}, Revisions>>
  BY LedgerStep DEF Artifacts
<1> QED BY <1>1, <1>2, Invariance, PTL DEF Spec, LedgerSpec, Ledger!LedgerSpec

-----------------------------------------------------------------------------
(* The second invariant: the evidence of a change is on record before it.   *)

\* What is so of an operation, whenever it comes: of whose command it is, what it
\* records, and what it refers to.
Rolled == {"rolled_back", "drifted"}
Real(i) == receipt[i] \notin {None, Begun}
Leafing(o) == o.op \in {"leaf", "fill_leaf"}
Folding(o) == o.op \in {"fold", "fill_revision"}

BodyOK(k, b) ==
    /\ k[1] \in LeafTypes
    /\ b.snap \in {None} \cup DOMAIN snaps
    /\ k[1] = "work-order-result" => b.snap # None /\ b.what[1] \in Orders
    /\ k[1] = "rollback" => b.what \in Rolled

Fitting(c, o) ==
    /\ Leafing(o) => BodyOK(o.key, o.body)
    /\ o.op \in {"run", "covered"} => o.snap \in DOMAIN snaps
    /\ o.op \in {"run", "find"} => o.order \in Orders
    /\ o.op \in {"install", "receipt", "registry", "reviewed", "committed", "restore"} => o.inst \in Installs
    /\ o.op = "install" => o.plan \in Plans
    /\ o.op = "receipt" => o.body \in [plan : Plans, snap : DOMAIN snaps]
    /\ o.op = "registry" => IF c = "rollback" THEN o.status \in Rolled ELSE o.status = "active"
    /\ o.op = "restore" \/ (o.op = "registry" /\ c = "rollback") => registry[o.inst] # None
    /\ o.op = "bind" => /\ o.type = "snapshot" => o.inst \in Installs
                        /\ o.type = "snapshot-binding" => o.order \in Orders
                        /\ o.type \in {"snapshot", "snapshot-binding"}
    /\ o.op = "orders" => o.left \subseteq Orders
    /\ o.op = "file" => o.name \in Orders \cup {"plans", "bundle"}
    /\ o.op \in {"committed", "restore"} => c = "rollback"
    /\ o.op \in {"install", "receipt", "reviewed", "bind", "find", "run", "covered"} => c # "rollback"

\* The snapshot the index names, once a revision is whole.
Standing == IF Revisions = <<>> THEN None ELSE Last(Revisions).snap

\* What will be so when the operations of s before the n-th are done.
WillName(s, n, sn) ==
    sn \in SnapshotsNamed \/ \E m \in DOMAIN s : m < n /\ Leafing(s[m]) /\ s[m].body.snap = sn
WillStand(s, n, sn) ==
    Standing = sn \/ \E m \in DOMAIN s : m < n /\ Folding(s[m]) /\ WillName(s, m, sn)
WillCover(s, n, sn) ==
    snaps[sn].of["auto"] = "original" \/ \E m \in DOMAIN s : m < n /\ s[m].op = "covered" /\ s[m].snap = sn
OnRecord(i, status) == <<"rollback", i>> \in Whole /\ leaves[<<"rollback", i>>].what = status
WillRecord(s, n, i, status) ==
    OnRecord(i, status) \/ \E m \in DOMAIN s : /\ m < n /\ Leafing(s[m])
                                               /\ s[m].key = <<"rollback", i>> /\ s[m].body.what = status

\* What an operation needs, where it stands in its list.
InstallDue(s, n) ==
    s[n].op = "install" => \E sn \in DOMAIN snaps : WillStand(s, n, sn)
ReceiptDue(s, n) ==
    s[n].op = "receipt" =>
        /\ WillStand(s, n, s[n].body.snap)
        /\ s[n].body.plan = "auto" => WillCover(s, n, s[n].body.snap)
        /\ IF n = 1 THEN receipt[s[n].inst] = Begun /\ registry[s[n].inst] = None
           ELSE s[n - 1].op = "install" /\ s[n - 1].inst = s[n].inst
RegistryDue(c, s, n) ==
    s[n].op = "registry" =>
        IF c = "rollback" THEN WillRecord(s, n, s[n].inst, s[n].status)
        ELSE IF n = 1 THEN Real(s[n].inst) /\ registry[s[n].inst] = None
        ELSE s[n - 1].op = "receipt" /\ s[n - 1].inst = s[n].inst
RestoreDue(s, n) ==
    s[n].op = "restore" => n = 1 /\ <<"rollback", s[n].inst>> \notin DOMAIN leaves
AttachDue(p, s, n) ==
    s[n].op = "receipts" => lock = p /\ s[n].left \subseteq Installs /\ \A i \in s[n].left : Real(i)

Due(p, c, s, n) ==
    /\ Fitting(c, s[n]) /\ InstallDue(s, n) /\ ReceiptDue(s, n)
    /\ RegistryDue(c, s, n) /\ RestoreDue(s, n) /\ AttachDue(p, s, n)
Pending(p) == \A n \in DOMAIN job[p].todo : Due(p, job[p].cmd, job[p].todo, n)

\* The record, the machine and the commands.
RecordKept ==
    /\ \A k \in DOMAIN leaves : k[1] \in LeafTypes
    /\ \A k \in Whole : BodyOK(k, leaves[k])
    /\ \A n \in DOMAIN Revisions : /\ Revisions[n].refs \subseteq Whole
                                   /\ Revisions[n].snap \in {None} \cup SnapshotsNamed
SnapsKept ==
    /\ IsList(snaps)
    /\ \A n \in DOMAIN snaps : snaps[n].clean /\ snaps[n].of \in [Plans -> Contents]
MachineKept ==
    /\ receipt \in [Installs -> {None, Begun} \cup [plan : Plans, snap : DOMAIN snaps]]
    /\ registry \in [Installs -> {None, "active", "rolled_back", "drifted"}]
    /\ live \in [Plans -> Contents]
    /\ \A i \in Installs : registry[i] # None => Real(i)
ControlKept ==
    /\ manifest \in {"none", "torn", "whole"} /\ files \subseteq Orders \cup {"plans", "bundle"}
    /\ lock \in Procs \cup {None} /\ (lock # None => Busy(lock))
    /\ \A p \in Procs : Busy(p) => /\ job[p].cmd \in Commands
                                   /\ job[p].todo[Len(job[p].todo)].op = "done"
    /\ calls \in Nat /\ faults \in Nat /\ crashes \in Nat /\ edits \in Nat

EInv ==
    /\ RecordKept /\ SnapsKept /\ MachineKept /\ ControlKept
    /\ SnapshotFirst /\ RollbackEvidence
    /\ \A p \in Procs : Pending(p)

-----------------------------------------------------------------------------
(* What a step that goes on leaves to be done. *)

\* What no step takes back.
Persists ==
    /\ \A k \in Whole : k \in Whole' /\ leaves'[k] = leaves[k]
    /\ \A n \in DOMAIN snaps : n \in DOMAIN snaps' /\ snaps'[n] = snaps[n]
    /\ Standing # None => Standing' = Standing
    /\ \A i \in Installs : registry[i] # None => registry'[i] # None

\* The operation o is done, or what is left of it is the first of t's first k.
Carried(o, t, k) ==
    /\ Leafing(o) => \/ o.key \in Whole' /\ leaves'[o.key] = o.body
                     \/ k > 0 /\ Leafing(t[1]) /\ t[1].key = o.key /\ t[1].body = o.body
    /\ Folding(o) => \/ \A sn \in SnapshotsNamed : Standing' = sn
                     \/ k > 0 /\ Folding(t[1])
    /\ o.op = "covered" => snaps[o.snap].of["auto"] = "original"
    /\ o.op = "install" => k = 0 /\ receipt'[o.inst] = Begun /\ registry'[o.inst] = None
    /\ o.op = "receipt" => k = 0 /\ receipt'[o.inst] \notin {None, Begun} /\ registry'[o.inst] = None

LEMMA NamesPersist == Persists => SnapshotsNamed \subseteq SnapshotsNamed'
BY DEF Persists, SnapshotsNamed

LEMMA SnapsCount == SnapsKept => DOMAIN snaps = 1 .. Len(snaps) /\ Len(snaps) \in Nat /\ None \notin DOMAIN snaps
<1> SUFFICES ASSUME SnapsKept PROVE DOMAIN snaps = 1 .. Len(snaps) /\ Len(snaps) \in Nat /\ None \notin DOMAIN snaps
  OBVIOUS
<1>1. DOMAIN snaps = 1 .. Len(snaps) /\ Len(snaps) \in Nat
  BY Lists DEF SnapsKept, IsList
<1> QED BY <1>1, CampaignAssumption

LEMMA NameCarried ==
    ASSUME Persists, NEW s, NEW t, NEW l \in Nat, NEW k \in Nat, DOMAIN s = 1 .. l, DOMAIN t = 1 .. k + l - 1,
           \A n \in 2 .. l : t[n + k - 1] = s[n], Carried(s[1], t, k),
           NEW n \in 2 .. l, NEW sn, sn # None, WillName(s, n, sn)
    PROVE  WillName(t, n + k - 1, sn)'
<1>1. CASE sn \in SnapshotsNamed
  BY <1>1, NamesPersist DEF WillName
<1>2. ASSUME NEW m \in 1 .. l, m < n, Leafing(s[m]), s[m].body.snap = sn
      PROVE  WillName(t, n + k - 1, sn)'
  <2>1. CASE m # 1
    <3>1. m + k - 1 \in 1 .. k + l - 1 /\ m + k - 1 < n + k - 1 /\ t[m + k - 1] = s[m]
      BY <1>2, <2>1
    <3> QED BY <1>2, <3>1 DEF WillName
  <2>2. CASE m = 1 /\ s[1].key \in Whole' /\ leaves'[s[1].key] = s[1].body
    <3>1. sn \in SnapshotsNamed'
      BY <1>2, <2>2 DEF SnapshotsNamed
    <3> QED BY <3>1 DEF WillName
  <2>3. CASE m = 1 /\ k > 0 /\ Leafing(t[1]) /\ t[1].body = s[1].body
    <3>1. 1 \in 1 .. k + l - 1 /\ 1 < n + k - 1
      BY <1>2, <2>3
    <3> QED BY <1>2, <2>3, <3>1 DEF WillName
  <2> QED BY <1>2, <2>1, <2>2, <2>3 DEF Carried
<1> QED BY <1>1, <1>2 DEF WillName

LEMMA StandCarried ==
    ASSUME Persists, NEW s, NEW t, NEW l \in Nat, NEW k \in Nat, DOMAIN s = 1 .. l, DOMAIN t = 1 .. k + l - 1,
           \A n \in 2 .. l : t[n + k - 1] = s[n], Carried(s[1], t, k),
           NEW n \in 2 .. l, NEW sn, sn # None, WillStand(s, n, sn)
    PROVE  WillStand(t, n + k - 1, sn)'
<1>1. CASE Standing = sn
  BY <1>1 DEF Persists, WillStand
<1>2. ASSUME NEW m \in 1 .. l, m < n, Folding(s[m]), WillName(s, m, sn)
      PROVE  WillStand(t, n + k - 1, sn)'
  <2>1. CASE m # 1
    <3>1. m \in 2 .. l /\ m + k - 1 \in 1 .. k + l - 1 /\ m + k - 1 < n + k - 1 /\ t[m + k - 1] = s[m]
      BY <1>2, <2>1
    <3>2. WillName(t, m + k - 1, sn)'
      BY <1>2, <3>1, NameCarried
    <3> QED BY <1>2, <3>1, <3>2 DEF WillStand
  <2>2. CASE m = 1
    <3>1. sn \in SnapshotsNamed
      BY <1>2, <2>2 DEF WillName
    <3>2. CASE \A x \in SnapshotsNamed : Standing' = x
      BY <3>1, <3>2 DEF WillStand
    <3>3. CASE k > 0 /\ Folding(t[1])
      <4>1. 1 \in 1 .. k + l - 1 /\ 1 < n + k - 1
        BY <3>3
      <4>2. WillName(t, 1, sn)'
        BY <3>1, NamesPersist DEF WillName
      <4> QED BY <3>3, <4>1, <4>2 DEF WillStand
    <3> QED BY <1>2, <2>2, <3>2, <3>3 DEF Carried
  <2> QED BY <2>1, <2>2
<1> QED BY <1>1, <1>2 DEF WillStand

LEMMA CoverCarried ==
    ASSUME Persists, NEW s, NEW t, NEW l \in Nat, NEW k \in Nat, DOMAIN s = 1 .. l, DOMAIN t = 1 .. k + l - 1,
           \A n \in 2 .. l : t[n + k - 1] = s[n], Carried(s[1], t, k),
           NEW n \in 2 .. l, NEW sn \in DOMAIN snaps, WillCover(s, n, sn)
    PROVE  WillCover(t, n + k - 1, sn)'
<1>1. CASE snaps[sn].of["auto"] = "original"
  BY <1>1 DEF Persists, WillCover
<1>2. ASSUME NEW m \in 1 .. l, m < n, s[m].op = "covered", s[m].snap = sn
      PROVE  WillCover(t, n + k - 1, sn)'
  <2>1. CASE m # 1
    <3>1. m + k - 1 \in 1 .. k + l - 1 /\ m + k - 1 < n + k - 1 /\ t[m + k - 1] = s[m]
      BY <1>2, <2>1
    <3> QED BY <1>2, <3>1 DEF WillCover
  <2>2. CASE m = 1
    BY <1>2, <2>2 DEF Carried, Persists, WillCover
  <2> QED BY <2>1, <2>2
<1> QED BY <1>1, <1>2 DEF WillCover

LEMMA RecordCarried ==
    ASSUME Persists, NEW s, NEW t, NEW l \in Nat, NEW k \in Nat, DOMAIN s = 1 .. l, DOMAIN t = 1 .. k + l - 1,
           \A n \in 2 .. l : t[n + k - 1] = s[n], Carried(s[1], t, k),
           NEW n \in 2 .. l, NEW i, NEW status, WillRecord(s, n, i, status)
    PROVE  WillRecord(t, n + k - 1, i, status)'
<1>1. CASE OnRecord(i, status)
  BY <1>1 DEF Persists, WillRecord, OnRecord
<1>2. ASSUME NEW m \in 1 .. l, m < n, Leafing(s[m]), s[m].key = <<"rollback", i>>, s[m].body.what = status
      PROVE  WillRecord(t, n + k - 1, i, status)'
  <2>1. CASE m # 1
    <3>1. m + k - 1 \in 1 .. k + l - 1 /\ m + k - 1 < n + k - 1 /\ t[m + k - 1] = s[m]
      BY <1>2, <2>1
    <3> QED BY <1>2, <3>1 DEF WillRecord
  <2>2. CASE m = 1 /\ s[1].key \in Whole' /\ leaves'[s[1].key] = s[1].body
    <3>1. OnRecord(i, status)'
      BY <1>2, <2>2 DEF OnRecord
    <3> QED BY <3>1 DEF WillRecord
  <2>3. CASE m = 1 /\ k > 0 /\ Leafing(t[1]) /\ t[1].key = s[1].key /\ t[1].body = s[1].body
    <3>1. 1 \in 1 .. k + l - 1 /\ 1 < n + k - 1
      BY <1>2, <2>3
    <3> QED BY <1>2, <2>3, <3>1 DEF WillRecord
  <2> QED BY <1>2, <2>1, <2>2, <2>3 DEF Carried
<1> QED BY <1>1, <1>2 DEF WillRecord

LEMMA FittingKept ==
    ASSUME Persists, NEW c, NEW o, Fitting(c, o)
    PROVE  Fitting(c, o)'
<1>1. \A k, b : BodyOK(k, b) => BodyOK(k, b)'
  BY DEF BodyOK, Persists
<1>2. DOMAIN snaps \subseteq DOMAIN snaps'
  BY DEF Persists
<1>3. o.inst \in Installs /\ registry[o.inst] # None => registry'[o.inst] # None
  BY DEF Persists
<1>4. o.body \in [plan : Plans, snap : DOMAIN snaps] => o.body \in [plan : Plans, snap : DOMAIN snaps']
  BY <1>2
<1> QED BY <1>1, <1>2, <1>3, <1>4 DEF Fitting

\* The obligations of what is left of a list, when its first operation is done.
LEMMA Advance ==
    ASSUME SnapsKept, Persists, NEW p, NEW c, NEW s, NEW t, NEW l \in Nat, NEW k \in Nat,
           DOMAIN s = 1 .. l, DOMAIN t = 1 .. k + l - 1,
           \A n \in 2 .. l : t[n + k - 1] = s[n], Carried(s[1], t, k),
           \A n \in 1 .. l : Due(p, c, s, n),
           \A i \in Installs : Real(i) => Real(i)', lock = p => lock' = p,
           NEW n \in 2 .. l
    PROVE  Due(p, c, t, n + k - 1)'
<1> DEFINE m == n + k - 1
<1>1. t[m] = s[n] /\ Due(p, c, s, n) /\ m \in Nat /\ (m = 1 <=> n = 2 /\ k = 0)
  OBVIOUS
<1>2. None \notin DOMAIN snaps
  BY SnapsCount
<1>3. n # 2 => n - 1 \in 2 .. l /\ t[m - 1] = s[n - 1]
  <2>1. n # 2 => n - 1 \in 2 .. l /\ (n - 1) + k - 1 = m - 1
    OBVIOUS
  <2> QED BY <2>1
<1>4. n = 2 => n - 1 = 1
  OBVIOUS
<1>5. n # 1
  OBVIOUS
<1>6. ASSUME NEW sn \in DOMAIN snaps PROVE /\ WillStand(s, n, sn) => WillStand(t, m, sn)'
                                           /\ WillCover(s, n, sn) => WillCover(t, m, sn)'
  BY <1>2, StandCarried, CoverCarried
<1>7. ASSUME NEW i, NEW status PROVE WillRecord(s, n, i, status) => WillRecord(t, m, i, status)'
  BY RecordCarried
<1>8. PICK o : o = s[n]
  OBVIOUS
<1> HIDE DEF m
<1>9. t[m] = o
  BY <1>1, <1>8
<1>10. Fitting(c, o) /\ Fitting(c, o)'
  BY <1>1, <1>8, FittingKept DEF Due
<1>11. InstallDue(t, m)'
  BY <1>1, <1>6, <1>8, <1>9 DEF Due, InstallDue, Persists
<1>12. ReceiptDue(t, m)'
  <2> SUFFICES ASSUME o.op = "receipt" PROVE ReceiptDue(t, m)'
    BY <1>9 DEF ReceiptDue
  <2>1. o.body.snap \in DOMAIN snaps
    BY <1>10 DEF Fitting
  <2>2. /\ WillStand(s, n, o.body.snap)
        /\ o.body.plan = "auto" => WillCover(s, n, o.body.snap)
        /\ s[n - 1].op = "install" /\ s[n - 1].inst = o.inst
    BY <1>1, <1>5, <1>8 DEF Due, ReceiptDue
  <2>3. IF m = 1 THEN receipt'[o.inst] = Begun /\ registry'[o.inst] = None
        ELSE t[m - 1].op = "install" /\ t[m - 1].inst = o.inst
    <3>1. CASE n = 2
      <4>1. k = 0 /\ receipt'[o.inst] = Begun /\ registry'[o.inst] = None
        BY <1>4, <2>2, <3>1 DEF Carried
      <4> QED BY <1>1, <3>1, <4>1
    <3>2. CASE n # 2
      BY <1>1, <1>3, <2>2, <3>2
    <3> QED BY <3>1, <3>2
  <2> QED BY <1>6, <1>9, <2>1, <2>2, <2>3 DEF ReceiptDue
<1>13. RegistryDue(c, t, m)'
  <2> SUFFICES ASSUME o.op = "registry" PROVE RegistryDue(c, t, m)'
    BY <1>9 DEF RegistryDue
  <2>1. CASE c = "rollback"
    BY <1>1, <1>7, <1>8, <1>9, <2>1 DEF Due, RegistryDue
  <2>2. CASE c # "rollback"
    <3>1. s[n - 1].op = "receipt" /\ s[n - 1].inst = o.inst
      BY <1>1, <1>5, <1>8, <2>2 DEF Due, RegistryDue
    <3>2. CASE n = 2
      <4>1. k = 0 /\ receipt'[o.inst] \notin {None, Begun} /\ registry'[o.inst] = None
        BY <1>4, <3>1, <3>2 DEF Carried
      <4> QED BY <1>1, <1>9, <2>2, <3>2, <4>1 DEF RegistryDue, Real
    <3>3. CASE n # 2
      BY <1>1, <1>3, <1>9, <2>2, <3>1, <3>3 DEF RegistryDue
    <3> QED BY <3>2, <3>3
  <2> QED BY <2>1, <2>2
<1>14. RestoreDue(t, m)'
  BY <1>1, <1>5, <1>8, <1>9 DEF Due, RestoreDue
<1>15. AttachDue(p, t, m)'
  BY <1>1, <1>8, <1>9 DEF Due, AttachDue
<1> QED BY <1>9, <1>10, <1>11, <1>12, <1>13, <1>14, <1>15 DEF Due, m

\* What the others have left keeps what it needs: whoever has the lock is alone
\* with the artifacts, the receipts and the registry.
LEMMA OthersKeep ==
    ASSUME SnapsKept, Persists, NEW q \in Procs, Own(q), Pending(q), job'[q] = job[q],
           lock = q => lock' = q /\ UNCHANGED <<receipt, registry, leaves>>
    PROVE  Pending(q)'
<1>1. PICK c, s : c = job[q].cmd /\ s = job[q].todo
  OBVIOUS
<1> SUFFICES ASSUME NEW n \in DOMAIN s PROVE Due(q, c, s, n)'
  BY <1>1 DEF Pending
<1>2. Due(q, c, s, n)
  BY <1>1 DEF Pending
<1>3. IsList(s)
  BY <1>1 DEF Own, Listed
<1>4. n = 1 /\ s[n].op \in {"receipt", "registry", "restore"} => lock = q
  <2>1. s # <<>> /\ Head(s) = s[1]
    BY <1>3, TailOf, Empty
  <2>2. s[1].op \in {"receipt", "registry", "restore"} => lock = q
    BY <1>1, <2>1, UnderLock DEF Arg, Busy, Creates
  <2> QED BY <2>2
<1>5. None \notin DOMAIN snaps
  BY SnapsCount
<1>6. ASSUME NEW m, NEW sn PROVE WillName(s, m, sn) => WillName(s, m, sn)'
  BY NamesPersist DEF WillName
<1>7. ASSUME NEW sn \in DOMAIN snaps PROVE /\ WillStand(s, n, sn) => WillStand(s, n, sn)'
                                           /\ WillCover(s, n, sn) => WillCover(s, n, sn)'
  BY <1>5, <1>6 DEF WillStand, WillCover, Persists
<1>8. ASSUME NEW i, NEW status PROVE WillRecord(s, n, i, status) => WillRecord(s, n, i, status)'
  BY DEF WillRecord, OnRecord, Persists
<1>9. Fitting(c, s[n]) /\ Fitting(c, s[n])'
  <2>1. PICK o : o = s[n]
    OBVIOUS
  <2> QED BY <1>2, <2>1, FittingKept DEF Due
<1>10. InstallDue(s, n)'
  BY <1>2, <1>7 DEF Due, InstallDue, Persists
<1>11. ReceiptDue(s, n)'
  <2>1. s[n].op = "receipt" => s[n].body.snap \in DOMAIN snaps
    BY <1>9 DEF Fitting
  <2> QED BY <1>2, <1>4, <1>7, <2>1 DEF Due, ReceiptDue
<1>12. RegistryDue(c, s, n)'
  BY <1>2, <1>4, <1>8 DEF Due, RegistryDue, Real
<1>13. RestoreDue(s, n)'
  BY <1>2, <1>4 DEF Due, RestoreDue
<1>14. AttachDue(q, s, n)'
  BY <1>2 DEF Due, AttachDue, Real
<1> QED BY <1>9, <1>10, <1>11, <1>12, <1>13, <1>14 DEF Due

\* Of the first operations of a list, the rest does not matter.
LEMMA Prefix ==
    ASSUME NEW p, NEW c, NEW ops, NEW t, NEW k \in Nat, DOMAIN ops = 1 .. k, 1 .. k \subseteq DOMAIN t,
           \A n \in 1 .. k : t[n] = ops[n], NEW n \in 1 .. k, Due(p, c, ops, n)'
    PROVE  Due(p, c, t, n)'
<1>1. ASSUME NEW m \in 1 .. k, NEW sn PROVE WillName(ops, m, sn)' => WillName(t, m, sn)'
  BY DEF WillName
<1>2. ASSUME NEW sn PROVE /\ WillStand(ops, n, sn)' => WillStand(t, n, sn)'
                          /\ WillCover(ops, n, sn)' => WillCover(t, n, sn)'
  BY <1>1 DEF WillStand, WillCover
<1>3. ASSUME NEW i, NEW status PROVE WillRecord(ops, n, i, status)' => WillRecord(t, n, i, status)'
  BY DEF WillRecord
<1>4. t[n] = ops[n] /\ (n # 1 => t[n - 1] = ops[n - 1])
  OBVIOUS
<1>5. Fitting(c, t[n])' /\ InstallDue(t, n)'
  BY <1>2, <1>4 DEF Due, InstallDue
<1>6. ReceiptDue(t, n)'
  BY <1>2, <1>4 DEF Due, ReceiptDue
<1>7. RegistryDue(c, t, n)'
  BY <1>3, <1>4 DEF Due, RegistryDue
<1>8. RestoreDue(t, n)' /\ AttachDue(p, t, n)'
  BY <1>4 DEF Due, RestoreDue, AttachDue
<1> QED BY <1>5, <1>6, <1>7, <1>8 DEF Due

\* An operation that needs nothing of where it stands.
Placed == {"install", "receipt", "registry", "restore", "receipts"}

LEMMA Anywhere ==
    ASSUME NEW p, NEW c, NEW s, NEW n, s[n].op \notin Placed, Fitting(c, s[n])'
    PROVE  Due(p, c, s, n)'
BY DEF Placed, Due, InstallDue, ReceiptDue, RegistryDue, RestoreDue, AttachDue

\* What is left of a list after its first operation, and what came in front.
Splices(s, ops, t, l, k) ==
    /\ DOMAIN s = 1 .. l /\ Len(s) = l /\ s[1] = Head(s)
    /\ DOMAIN ops = 1 .. k /\ Len(ops) = k
    /\ DOMAIN t = 1 .. k + l - 1 /\ Len(t) = k + l - 1
    /\ \A n \in 1 .. k : t[n] = ops[n]
    /\ \A n \in 2 .. l : t[n + k - 1] = s[n]

LEMMA Spliced ==
    ASSUME NEW s, IsList(s), s # <<>>, NEW ops, IsList(ops), NEW t, t = ops \o Tail(s)
    PROVE  \E l \in Nat \ {0}, k \in Nat : Splices(s, ops, t, l, k)
<1>1. PICK l, k : l = Len(s) /\ k = Len(ops)
  OBVIOUS
<1>2. /\ IsList(Tail(s)) /\ l \in Nat \ {0} /\ DOMAIN s = 1 .. l /\ Head(s) = s[1]
      /\ Len(Tail(s)) = l - 1 /\ \A n \in 1 .. l - 1 : Tail(s)[n] = s[n + 1]
  BY <1>1, TailOf
<1>3. PICK r : r = Tail(s)
  OBVIOUS
<1>4. /\ k \in Nat /\ DOMAIN ops = 1 .. k /\ Len(t) = k + Len(r) /\ DOMAIN t = 1 .. k + Len(r)
      /\ \A n \in 1 .. k : t[n] = ops[n]
      /\ \A n \in k + 1 .. k + Len(r) : t[n] = r[n - k]
  BY <1>1, <1>2, <1>3, Joined
<1>5. Len(r) = l - 1 /\ \A n \in 1 .. l - 1 : r[n] = s[n + 1]
  BY <1>2, <1>3
<1>6. ASSUME NEW n \in 2 .. l PROVE t[n + k - 1] = s[n]
  <2>1. n + k - 1 \in k + 1 .. k + (l - 1) /\ (n + k - 1) - k = n - 1 /\ n - 1 \in 1 .. l - 1 /\ (n - 1) + 1 = n
    BY <1>2, <1>4
  <2> QED BY <1>4, <1>5, <2>1
<1>7. k + (l - 1) = k + l - 1
  BY <1>2, <1>4
<1>8. DOMAIN t = 1 .. k + l - 1 /\ Len(t) = k + l - 1
  BY <1>4, <1>5, <1>7
<1>9. Splices(s, ops, t, l, k)
  BY <1>1, <1>2, <1>4, <1>6, <1>8 DEF Splices
<1> QED BY <1>2, <1>4, <1>9

\* The command of p goes on, and may have the lock now.
Moves(p, ops) ==
    /\ job'[p].todo = ops \o Tail(job[p].todo) /\ job'[p].cmd = job[p].cmd
    /\ \A q \in Procs \ {p} : job'[q] = job[q]
    /\ lock' = lock \/ (lock = None /\ lock' = p)

LEMMA ContinueMoves ==
    ASSUME IInv, NEW p \in Procs, NEW ops, Continue(p, ops)
    PROVE  Moves(p, ops)
BY Goes DEF Moves

\* The obligations of everybody, when p goes on.
LEMMA GoesDue ==
    ASSUME IInv, EInv, NEW p \in Procs, Busy(p), NEW ops, IsList(ops), Moves(p, ops), Persists,
           NEW o, o = Arg(p), Carried(o, ops, Len(ops)),
           NEW c, c = job[p].cmd, \A n \in DOMAIN ops : Due(p, c, ops, n)',
           \A i \in Installs : Real(i) => Real(i)',
           lock = p \/ UNCHANGED <<receipt, registry, leaves>>
    PROVE  \A q \in Procs : Pending(q)'
<1>1. PICK s, t : s = job[p].todo /\ t = ops \o Tail(s)
  OBVIOUS
<1>2. job'[p].todo = t /\ job'[p].cmd = c /\ (\A q \in Procs \ {p} : job'[q] = job[q])
      /\ (lock' = lock \/ (lock = None /\ lock' = p)) /\ None \notin Procs
  BY <1>1, CampaignAssumption DEF Moves
<1>3. IsList(s) /\ s # <<>>
  BY <1>1 DEF IInv, Own, Listed, Busy
<1>l. PICK l \in Nat \ {0}, k \in Nat : Splices(s, ops, t, l, k)
  BY <1>1, <1>3, Spliced
<1>4. /\ DOMAIN s = 1 .. l /\ Len(s) = l /\ s[1] = Head(s)
      /\ DOMAIN ops = 1 .. k /\ Len(ops) = k
      /\ DOMAIN t = 1 .. k + l - 1 /\ Len(t) = k + l - 1
      /\ \A n \in 1 .. k : t[n] = ops[n]
      /\ \A n \in 2 .. l : t[n + k - 1] = s[n]
  BY <1>l DEF Splices
<1>5. s[1] = o
  BY <1>1, <1>4 DEF Arg
<1>6. Carried(s[1], t, k)
  <2>1. k > 0 => t[1] = ops[1]
    BY <1>4
  <2> QED BY <1>4, <1>5, <2>1 DEF Carried
<1>7. \A n \in 1 .. l : Due(p, c, s, n)
  BY <1>1, <1>4 DEF EInv, Pending
<1>8. ASSUME NEW m \in 1 .. k + l - 1 PROVE Due(p, c, t, m)'
  <2>1. CASE m \in 1 .. k
    <3>1. 1 .. k \subseteq DOMAIN t
      BY <1>4
    <3>2. Due(p, c, ops, m)'
      BY <1>4, <2>1
    <3> QED BY <1>4, <2>1, <3>1, <3>2, Prefix
  <2>2. CASE m \notin 1 .. k
    <3>1. PICK n \in 2 .. l : m = n + k - 1
      <4>1. m - k + 1 \in 2 .. l /\ m = (m - k + 1) + k - 1
        BY <2>2
      <4> QED BY <4>1
    <3>2. l \in Nat
      OBVIOUS
    <3> QED BY <1>2, <1>4, <1>6, <1>7, <3>1, <3>2, Advance DEF EInv
  <2> QED BY <2>1, <2>2
<1>9. Pending(p)'
  BY <1>2, <1>4, <1>8 DEF Pending
<1>10. ASSUME NEW q \in Procs \ {p} PROVE Pending(q)'
  <2>1. Own(q) /\ Pending(q) /\ job'[q] = job[q]
    BY <1>2 DEF IInv, EInv
  <2> QED BY <1>2, <2>1, OthersKeep DEF EInv
<1> QED BY <1>9, <1>10

LEMMA GoesControlled ==
    ASSUME IInv, ControlKept, NEW p \in Procs, Busy(p), Arg(p).op # "done", NEW ops, IsList(ops), Moves(p, ops),
           UNCHANGED bounds, manifest' \in {"none", "torn", "whole"}, files' \subseteq Orders \cup {"plans", "bundle"}
    PROVE  ControlKept'
<1>1. PICK s, t : s = job[p].todo /\ t = ops \o Tail(s)
  OBVIOUS
<1>2. job'[p].todo = t /\ job'[p].cmd = job[p].cmd /\ (\A q \in Procs \ {p} : job'[q] = job[q])
      /\ (lock' = lock \/ (lock = None /\ lock' = p)) /\ None \notin Procs
  BY <1>1, CampaignAssumption DEF Moves
<1>3. IsList(s) /\ s # <<>>
  BY <1>1 DEF IInv, Own, Listed, Busy
<1>l. PICK l \in Nat \ {0}, k \in Nat : Splices(s, ops, t, l, k)
  BY <1>1, <1>3, Spliced
<1>4. /\ DOMAIN s = 1 .. l /\ Len(s) = l /\ s[1] = Head(s)
      /\ DOMAIN ops = 1 .. k /\ Len(ops) = k
      /\ DOMAIN t = 1 .. k + l - 1 /\ Len(t) = k + l - 1
      /\ \A n \in 1 .. k : t[n] = ops[n]
      /\ \A n \in 2 .. l : t[n + k - 1] = s[n]
  BY <1>l DEF Splices
<1>5. s[l].op = "done" /\ s[1].op # "done"
  BY <1>1, <1>4 DEF ControlKept, Arg
<1>6. l \in 2 .. l /\ l + k - 1 = k + l - 1
  BY <1>5
<1>7. t[Len(t)].op = "done" /\ t # <<>>
  <2>1. t[k + l - 1] = s[l]
    BY <1>4, <1>6
  <2>3. k + l - 1 \in 1 .. k + l - 1
    BY <1>6
  <2>2. DOMAIN <<>> = {}
    BY Lists, Empty DEF IsList
  <2> QED BY <1>4, <1>5, <2>1, <2>2, <2>3
<1>8. Busy(p)' /\ \A q \in Procs \ {p} : Busy(q)' <=> Busy(q)
  BY <1>2, <1>7 DEF Busy
<1>9. ASSUME NEW q \in Procs, Busy(q)'
      PROVE  job'[q].cmd \in Commands /\ job'[q].todo[Len(job'[q].todo)].op = "done"
  BY <1>2, <1>7, <1>8, <1>9 DEF ControlKept
<1>10. lock' # None => Busy(lock)'
  <2>1. PICK h : h = lock
    OBVIOUS
  <2>2. h # None => h \in Procs /\ Busy(h)
    BY <2>1 DEF ControlKept
  <2>3. h # None => Busy(h)'
    BY <1>8, <2>2
  <2>4. CASE lock' = p
    BY <1>8, <2>4 DEF Busy
  <2>5. CASE lock' = lock
    BY <2>1, <2>3, <2>5 DEF Busy
  <2> QED BY <1>2, <2>4, <2>5
<1> QED BY <1>2, <1>9, <1>10 DEF ControlKept, bounds

-----------------------------------------------------------------------------
(* Steps that change neither the record nor the machine. *)

LEMMA RecordStill ==
    ASSUME UNCHANGED record
    PROVE  /\ Whole' = Whole /\ SnapshotsNamed' = SnapshotsNamed /\ Revisions' = Revisions /\ Standing' = Standing
           /\ (Foldable' <=> Foldable)
<1>1. leaves' = leaves /\ revs' = revs
  BY DEF record
<1>2. Whole' = Whole /\ Revisions' = Revisions
  BY <1>1, SameRevisions DEF Whole
<1>3. SnapshotsNamed' = SnapshotsNamed
  BY <1>1, <1>2 DEF SnapshotsNamed
<1> QED BY <1>1, <1>2, <1>3 DEF Standing, Foldable

LEMMA SnapshotFirstIs ==
    SnapshotFirst <=> \A i \in Installs : receipt[i] # None =>
        /\ Revisions # <<>> /\ Standing # None /\ snaps[Standing].clean
        /\ receipt[i] # Begun => /\ receipt[i].snap = Standing
                                 /\ receipt[i].plan = "auto" => snaps[Standing].of["auto"] = "original"
<1>1. Revisions # <<>> => Standing = Last(Revisions).snap
  BY DEF Standing
<1> QED BY <1>1 DEF SnapshotFirst

LEMMA SnapshotFirstStill == SnapshotFirst /\ UNCHANGED <<receipt, snaps>> /\ Revisions' = Revisions => SnapshotFirst'
BY DEF SnapshotFirst

LEMMA Unchanged ==
    ASSUME EInv, UNCHANGED <<record, machine>>
    PROVE  /\ RecordKept' /\ SnapsKept' /\ MachineKept' /\ SnapshotFirst' /\ RollbackEvidence' /\ Persists
           /\ \A i \in Installs : Real(i) => Real(i)'
<1>1. /\ Whole' = Whole /\ SnapshotsNamed' = SnapshotsNamed /\ Revisions' = Revisions /\ Standing' = Standing
      /\ leaves' = leaves /\ snaps' = snaps /\ receipt' = receipt /\ registry' = registry /\ live' = live
  BY RecordStill DEF record, machine
<1>2. \A k, b : BodyOK(k, b) => BodyOK(k, b)'
  BY <1>1 DEF BodyOK
<1>3. RecordKept'
  BY <1>1, <1>2 DEF EInv, RecordKept
<1>4. SnapsKept' /\ MachineKept'
  BY <1>1 DEF EInv, SnapsKept, MachineKept, Real
<1>5. SnapshotFirst'
  BY <1>1, SnapshotFirstStill DEF EInv
<1>6. RollbackEvidence'
  BY <1>1 DEF EInv, RollbackEvidence
<1>7. Persists
  BY <1>1 DEF Persists
<1> QED BY <1>1, <1>3, <1>4, <1>5, <1>6, <1>7 DEF Real

LEMMA DueStill ==
    ASSUME UNCHANGED <<record, machine>>, NEW p, lock = p => lock' = p,
           NEW c, NEW s, NEW n, Due(p, c, s, n)
    PROVE  Due(p, c, s, n)'
<1>1. /\ Whole' = Whole /\ SnapshotsNamed' = SnapshotsNamed /\ Standing' = Standing
      /\ leaves' = leaves /\ snaps' = snaps /\ receipt' = receipt /\ registry' = registry
  BY RecordStill DEF record, machine
<1>2. \A m, sn : (WillStand(s, m, sn) => WillStand(s, m, sn)') /\ (WillCover(s, m, sn) => WillCover(s, m, sn)')
  BY <1>1 DEF WillStand, WillName, WillCover
<1>3. \A m, i, status : WillRecord(s, m, i, status) => WillRecord(s, m, i, status)'
  BY <1>1 DEF WillRecord, OnRecord
<1>4. Fitting(c, s[n])'
  BY <1>1 DEF Due, Fitting, BodyOK
<1>5. InstallDue(s, n)' /\ ReceiptDue(s, n)'
  BY <1>1, <1>2 DEF Due, InstallDue, ReceiptDue
<1>6. RegistryDue(c, s, n)' /\ RestoreDue(s, n)' /\ AttachDue(p, s, n)'
  BY <1>1, <1>3 DEF Due, RegistryDue, RestoreDue, AttachDue, Real
<1> QED BY <1>4, <1>5, <1>6 DEF Due

LEMMA QuietGoes ==
    ASSUME IInv, EInv, NEW p \in Procs, Busy(p), NEW ops, IsList(ops), Moves(p, ops),
           UNCHANGED <<record, machine, bounds>>,
           manifest' \in {"none", "torn", "whole"}, files' \subseteq Orders \cup {"plans", "bundle"},
           NEW o, o = Arg(p), o.op # "done", Carried(o, ops, Len(ops)),
           NEW c, c = job[p].cmd, \A n \in DOMAIN ops : Due(p, c, ops, n)
    PROVE  EInv'
<1>1. UNCHANGED <<record, machine>> /\ UNCHANGED bounds /\ UNCHANGED <<receipt, registry, leaves>>
  BY DEF record, machine
<1>2. lock = p => lock' = p
  BY CampaignAssumption DEF Moves
<1>3. \A n \in DOMAIN ops : Due(p, c, ops, n)'
  BY <1>1, <1>2, DueStill
<1>4. \A q \in Procs : Pending(q)'
  BY <1>1, <1>3, Unchanged, GoesDue
<1>5. ControlKept'
  BY <1>1, GoesControlled DEF EInv
<1> QED BY <1>1, <1>4, <1>5, Unchanged DEF EInv

\* An operation that only looks, and nothing comes in front.
Passing == {"leaf", "fill_leaf", "fold", "fill_revision", "covered", "install", "receipt", "done"}

LEMMA PassOn ==
    ASSUME IInv, EInv, NEW p \in Procs, Busy(p), Arg(p).op \notin Passing, NEW ops, IsList(ops),
           Moves(p, ops), UNCHANGED <<record, machine, bounds>>,
           manifest' \in {"none", "torn", "whole"}, files' \subseteq Orders \cup {"plans", "bundle"},
           NEW c, c = job[p].cmd, \A n \in DOMAIN ops : Due(p, c, ops, n)
    PROVE  EInv'
<1>1. PICK o : o = Arg(p)
  OBVIOUS
<1>2. o.op # "done" /\ Carried(o, ops, Len(ops))
  BY <1>1 DEF Carried, Passing, Leafing, Folding
<1> QED BY <1>1, <1>2, QuietGoes

LEMMA Nothing == IsList(<<>>) /\ DOMAIN <<>> = {} /\ Len(<<>>) = 0
BY Empty, Lists DEF IsList

LEMMA Tuples ==
    /\ \A a : IsList(<<a>>) /\ DOMAIN <<a>> = 1 .. 1 /\ Len(<<a>>) = 1 /\ <<a>>[1] = a
    /\ \A a, b : IsList(<<a, b>>) /\ DOMAIN <<a, b>> = 1 .. 2 /\ Len(<<a, b>>) = 2
                 /\ <<a, b>>[1] = a /\ <<a, b>>[2] = b
    /\ \A a, b, c : IsList(<<a, b, c>>) /\ DOMAIN <<a, b, c>> = 1 .. 3 /\ Len(<<a, b, c>>) = 3
                    /\ <<a, b, c>>[1] = a /\ <<a, b, c>>[2] = b /\ <<a, b, c>>[3] = c
<1>1. ASSUME NEW a PROVE IsList(<<a>>) /\ DOMAIN <<a>> = 1 .. 1 /\ Len(<<a>>) = 1 /\ <<a>>[1] = a
  <2>1. <<a>> \in Seq({a})
    OBVIOUS
  <2> QED BY <2>1, Lists
<1>2. ASSUME NEW a, NEW b
      PROVE  IsList(<<a, b>>) /\ DOMAIN <<a, b>> = 1 .. 2 /\ Len(<<a, b>>) = 2 /\ <<a, b>>[1] = a /\ <<a, b>>[2] = b
  <2>1. <<a, b>> \in Seq({a, b})
    OBVIOUS
  <2> QED BY <2>1, Lists
<1>3. ASSUME NEW a, NEW b, NEW c
      PROVE  IsList(<<a, b, c>>) /\ DOMAIN <<a, b, c>> = 1 .. 3 /\ Len(<<a, b, c>>) = 3
             /\ <<a, b, c>>[1] = a /\ <<a, b, c>>[2] = b /\ <<a, b, c>>[3] = c
  <2>1. <<a, b, c>> \in Seq({a, b, c})
    OBVIOUS
  <2> QED BY <2>1, Lists
<1> QED BY <1>1, <1>2, <1>3

\* Operations without arguments.
Words == {"manifest", "fill_manifest", "index", "first", "lock", "load", "fold", "rebuild", "attach", "done"}

LEMMA Word ==
    ASSUME NEW x \in Words, NEW c
    PROVE  Op(x).op = x /\ Op(x).op \notin Placed /\ Fitting(c, Op(x))
<1>1. Op(x).op = x
  BY DEF Op
<1> QED BY <1>1 DEF Words, Placed, Fitting, Leafing

\* What the operation that is next needs.
LEMMA HeadDue ==
    ASSUME IInv, EInv, NEW p \in Procs, Busy(p)
    PROVE  /\ Arg(p) = job[p].todo[1] /\ Due(p, job[p].cmd, job[p].todo, 1) /\ Fitting(job[p].cmd, Arg(p))
<1>1. Arg(p) = job[p].todo[1] /\ 1 \in DOMAIN job[p].todo
  BY FirstOp DEF IInv, Own, Listed
<1> QED BY <1>1 DEF EInv, Pending, Due

LEMMA EndControlled ==
    ASSUME IInv, ControlKept, NEW p \in Procs, End(p),
           calls' = calls, edits' = edits, faults' \in Nat, crashes' \in Nat,
           manifest' \in {"none", "torn", "whole"}, files' = files
    PROVE  ControlKept'
<1>1. /\ job'[p].todo = <<>> /\ ~Busy(p)'
      /\ \A q \in Procs \ {p} : job'[q] = job[q]
      /\ lock' # p \/ lock' = None
      /\ lock' = lock \/ (lock = p /\ lock' = None)
  BY EndGoes
<1>2. \A q \in Procs : Busy(q)' => job'[q] = job[q] /\ Busy(q)
  BY <1>1 DEF Busy
<1>3. ASSUME NEW q \in Procs, Busy(q)'
      PROVE  job'[q].cmd \in Commands /\ job'[q].todo[Len(job'[q].todo)].op = "done"
  BY <1>2, <1>3 DEF ControlKept
<1>4. ASSUME lock' # None PROVE Busy(lock)'
  <2>1. lock' = lock /\ lock # p
    BY <1>1, <1>4
  <2>2. lock \in Procs \ {p} /\ Busy(lock)
    BY <1>4, <2>1 DEF ControlKept
  <2>3. PICK h : h = lock
    OBVIOUS
  <2>4. h \in Procs \ {p} /\ job[h].todo # <<>> /\ lock' = h
    BY <2>1, <2>2, <2>3 DEF Busy
  <2>5. job'[h].todo # <<>>
    BY <1>1, <2>4
  <2> QED BY <2>4, <2>5 DEF Busy
<1> QED BY <1>1, <1>3, <1>4 DEF ControlKept

LEMMA EndDue ==
    ASSUME IInv, EInv, NEW p \in Procs, End(p), Persists,
           lock = p \/ UNCHANGED <<receipt, registry, leaves>>
    PROVE  \A q \in Procs : Pending(q)'
<1>1. /\ job'[p].todo = <<>>
      /\ \A q \in Procs \ {p} : job'[q] = job[q]
      /\ lock' = lock \/ (lock = p /\ lock' = None)
  BY EndGoes
<1>2. Pending(p)'
  BY <1>1, Nothing DEF Pending
<1>3. ASSUME NEW q \in Procs \ {p} PROVE Pending(q)'
  <2>1. Own(q) /\ Pending(q) /\ job'[q] = job[q]
    BY <1>1 DEF IInv, EInv
  <2> QED BY <1>1, <2>1, OthersKeep DEF EInv
<1> QED BY <1>2, <1>3

LEMMA QuietEnd ==
    ASSUME IInv, EInv, NEW p \in Procs, End(p), UNCHANGED <<proposal, record, machine>>,
           calls' = calls, edits' = edits, faults' \in Nat, crashes' \in Nat
    PROVE  EInv'
<1>1. UNCHANGED <<record, machine>> /\ UNCHANGED <<receipt, registry, leaves>> /\ manifest' = manifest /\ files' = files
  BY DEF record, machine, proposal
<1>2. \A q \in Procs : Pending(q)'
  BY <1>1, Unchanged, EndDue
<1>3. ControlKept'
  <2>1. manifest' \in {"none", "torn", "whole"}
    BY <1>1 DEF EInv, ControlKept
  <2> QED BY <1>1, <2>1, EndControlled DEF EInv
<1> QED BY <1>1, <1>2, <1>3, Unchanged DEF EInv

LEMMA RefuseEvident == ASSUME IInv, EInv, NEW p \in Procs, Refuse(p) PROVE EInv'
<1>1. /\ End(p) /\ UNCHANGED <<proposal, record, machine>> /\ calls' = calls /\ edits' = edits
      /\ faults' = faults /\ crashes' = crashes
  BY DEF Refuse, bounds
<1>2. faults' \in Nat /\ crashes' \in Nat
  BY <1>1 DEF EInv, ControlKept
<1> QED BY <1>1, <1>2, QuietEnd

\* Nothing comes in front.
LEMMA PassEvident ==
    ASSUME IInv, EInv, NEW p \in Procs, Busy(p), Arg(p).op \notin Passing, Continue(p, <<>>),
           UNCHANGED <<record, machine, bounds>>,
           manifest' \in {"none", "torn", "whole"}, files' \subseteq Orders \cup {"plans", "bundle"}
    PROVE  EInv'
<1>1. Moves(p, <<>>)
  BY ContinueMoves
<1>2. PICK ops : ops = <<>>
  OBVIOUS
<1>3. IsList(ops) /\ DOMAIN ops = {} /\ Moves(p, ops)
  BY <1>1, <1>2, Nothing
<1>4. PICK c : c = job[p].cmd
  OBVIOUS
<1> QED BY <1>3, <1>4, PassOn

LEMMA LookEvident ==
    ASSUME IInv, EInv, NEW p \in Procs, Busy(p), Arg(p).op \notin Passing, Continue(p, <<>>),
           UNCHANGED <<proposal, record, machine, bounds>>
    PROVE  EInv'
<1>1. manifest' \in {"none", "torn", "whole"} /\ files' \subseteq Orders \cup {"plans", "bundle"}
  BY DEF EInv, ControlKept, proposal
<1>2. UNCHANGED <<record, machine, bounds>>
  OBVIOUS
<1> QED BY <1>1, <1>2, PassEvident

\* One operation comes in front.
LEMMA OneEvident ==
    ASSUME IInv, EInv, NEW p \in Procs, Busy(p), Arg(p).op \notin Passing,
           NEW o, Continue(p, <<o>>), o.op \notin Placed, Fitting(job[p].cmd, o),
           UNCHANGED <<record, machine, bounds>>,
           manifest' \in {"none", "torn", "whole"}, files' \subseteq Orders \cup {"plans", "bundle"}
    PROVE  EInv'
<1>1. PICK ops, c : ops = <<o>> /\ c = job[p].cmd
  OBVIOUS
<1>2. IsList(ops) /\ DOMAIN ops = 1 .. 1 /\ ops[1] = o /\ Moves(p, ops)
  BY <1>1, Tuples, ContinueMoves
<1>3. Due(p, c, ops, 1)
  BY <1>1, <1>2 DEF Placed, Due, InstallDue, ReceiptDue, RegistryDue, RestoreDue, AttachDue
<1>4. \A n \in DOMAIN ops : Due(p, c, ops, n)
  BY <1>2, <1>3
<1> QED BY <1>1, <1>2, <1>4, PassOn

LEMMA LockEvident == ASSUME IInv, EInv, NEW p \in Procs, Lock(p) PROVE EInv'
<1>1. Busy(p) /\ Arg(p).op = "lock"
  BY DEF Lock, At, Arg
<1>2. CASE Refuse(p)
  BY <1>2, RefuseEvident
<1>3. CASE /\ lock = None /\ lock' = p
           /\ job' = [job EXCEPT ![p].todo = Tail(@)]
           /\ UNCHANGED <<proposal, record, machine, bounds>>
  <2>1. job'[p].todo = Tail(job[p].todo) /\ job'[p].cmd = job[p].cmd /\ \A q \in Procs \ {p} : job'[q] = job[q]
    <3>1. job = [q \in Procs |-> [cmd |-> job[q].cmd, todo |-> job[q].todo]]
      BY DEF IInv
    <3> QED BY <1>3, <3>1
  <2>2. Moves(p, <<>>)
    <3>1. <<>> \o Tail(job[p].todo) = Tail(job[p].todo)
      BY <1>1, DropNothing DEF IInv, Own
    <3> QED BY <1>3, <2>1, <3>1 DEF Moves
  <2>3. PICK ops, c : ops = <<>> /\ c = job[p].cmd
    OBVIOUS
  <2>4. IsList(ops) /\ DOMAIN ops = {} /\ Moves(p, ops)
    BY <2>2, <2>3, Nothing
  <2>5. manifest' \in {"none", "torn", "whole"} /\ files' \subseteq Orders \cup {"plans", "bundle"}
    BY <1>3 DEF EInv, ControlKept, proposal
  <2>6. Arg(p).op \notin Passing /\ UNCHANGED <<record, machine, bounds>>
    BY <1>1, <1>3 DEF Passing
  <2> QED BY <1>1, <2>3, <2>4, <2>5, <2>6, PassOn
<1> QED BY <1>2, <1>3 DEF Lock, Free

LEMMA ProposalEvident ==
    ASSUME IInv, EInv, NEW p \in Procs,
           Done(p) \/ Load(p) \/ Manifest(p) \/ FillManifest(p) \/ ReadFirst(p) \/ File(p)
    PROVE  EInv'
<1>1. Busy(p)
  BY DEF Done, Load, Manifest, FillManifest, ReadFirst, File, At
<1>2. manifest \in {"none", "torn", "whole"} /\ files \subseteq Orders \cup {"plans", "bundle"}
  BY DEF EInv, ControlKept
<1>3. ASSUME NEW x \in {"fill_manifest", "first"}, Continue(p, <<Op(x)>>), Arg(p).op \notin Passing,
             UNCHANGED <<record, machine, bounds>>, manifest' \in {"none", "torn", "whole"}, files' = files
      PROVE  EInv'
  <2>1. PICK o : o = Op(x)
    OBVIOUS
  <2>2. o.op \notin Placed /\ Fitting(job[p].cmd, o) /\ Continue(p, <<o>>)
    BY <1>3, <2>1, Word DEF Words
  <2> QED BY <1>1, <1>2, <1>3, <2>2, OneEvident
<1>4. CASE Done(p)
  BY <1>4, RefuseEvident DEF Done, Refuse
<1>5. CASE Load(p)
  <2>1. Arg(p).op \notin Passing
    BY <1>5 DEF Load, At, Arg, Passing
  <2> QED BY <1>1, <1>5, <2>1, LookEvident, RefuseEvident DEF Load
<1>6. CASE Manifest(p)
  <2>1. Arg(p).op \notin Passing
    BY <1>6 DEF Manifest, At, Arg, Passing
  <2> QED BY <1>3, <1>6, <2>1 DEF Manifest
<1>7. CASE FillManifest(p)
  <2>1. Arg(p).op \notin Passing
    BY <1>7 DEF FillManifest, At, Arg, Passing
  <2> QED BY <1>1, <1>2, <1>7, <2>1, PassEvident DEF FillManifest
<1>8. CASE ReadFirst(p)
  <2>1. Arg(p).op \notin Passing
    BY <1>8 DEF ReadFirst, At, Arg, Passing
  <2>2. CASE Continue(p, <<Op("first")>>) /\ UNCHANGED <<proposal, record, machine, bounds>>
    BY <1>2, <1>3, <2>1, <2>2 DEF proposal
  <2> QED BY <1>1, <1>8, <2>1, <2>2, LookEvident, RefuseEvident DEF ReadFirst
<1>9. CASE File(p)
  <2>1. Arg(p).op \notin Passing /\ Arg(p).op = "file"
    BY <1>9 DEF File, At, Arg, Passing
  <2>2. Arg(p).name \in Orders \cup {"plans", "bundle"}
    BY <1>1, <2>1, HeadDue DEF Fitting
  <2> QED BY <1>1, <1>2, <1>9, <2>1, <2>2, PassEvident DEF File
<1> QED BY <1>4, <1>5, <1>6, <1>7, <1>8, <1>9

LEMMA LeafIs ==
    ASSUME NEW type, NEW id, NEW sn, NEW what
    PROVE  /\ Leaf(type, id, sn, what).op = "leaf" /\ Leaf(type, id, sn, what).key = <<type, id>>
           /\ Leaf(type, id, sn, what).key[1] = type /\ Leaf(type, id, sn, what).key[2] = id
           /\ Leaf(type, id, sn, what).body = [snap |-> sn, what |-> what]
           /\ Leaf(type, id, sn, what).body.snap = sn /\ Leaf(type, id, sn, what).body.what = what
BY DEF Leaf

LEMMA LeafFits ==
    ASSUME NEW o, o.op = "leaf", BodyOK(o.key, o.body), NEW c
    PROVE  o.op \notin Placed /\ Fitting(c, o)
BY DEF Placed, Fitting, Leafing

LEMMA LeafGood ==
    ASSUME NEW type \in LeafTypes, NEW id, NEW sn \in {None} \cup DOMAIN snaps, NEW what,
           type = "work-order-result" => sn # None /\ what[1] \in Orders,
           type = "rollback" => what \in Rolled,
           NEW a, a = Leaf(type, id, sn, what), NEW c
    PROVE  a.op \notin Placed /\ Fitting(c, a)
<1>1. PICK k, b : k = <<type, id>> /\ b = [snap |-> sn, what |-> what]
  OBVIOUS
<1>2. a.op = "leaf" /\ a.key = k /\ a.body = b
  BY <1>1, LeafIs
<1>3. k[1] = type /\ b.snap = sn /\ b.what = what
  BY <1>1
<1>4. BodyOK(k, b)
  BY <1>3 DEF BodyOK
<1> QED BY <1>2, <1>4, LeafFits

LEMMA WriteOrdersEvident == ASSUME IInv, EInv, NEW p \in Procs, WriteOrders(p) PROVE EInv'
<1>1. Busy(p) /\ Arg(p).op = "orders" /\ Arg(p).op \notin Passing /\ UNCHANGED <<proposal, record, machine, bounds>>
  BY DEF WriteOrders, At, Arg, Passing
<1>2. Arg(p).left \subseteq Orders
  BY <1>1, HeadDue DEF Fitting
<1>3. CASE Continue(p, <<>>)
  BY <1>1, <1>3, LookEvident
<1>4. ASSUME NEW w \in Arg(p).left,
             Continue(p, <<[op |-> "file", name |-> w], Leaf("work-order", w, None, None),
                           [op |-> "orders", left |-> Arg(p).left \ {w}]>>)
      PROVE  EInv'
  <2>1. PICK a, b, d, ops, c : /\ a = [op |-> "file", name |-> w] /\ b = Leaf("work-order", w, None, None)
                               /\ d = [op |-> "orders", left |-> Arg(p).left \ {w}]
                               /\ ops = <<a, b, d>> /\ c = job[p].cmd
    OBVIOUS
  <2>2. Continue(p, ops)
    BY <1>4, <2>1
  <2>3. IsList(ops) /\ DOMAIN ops = 1 .. 3 /\ ops[1] = a /\ ops[2] = b /\ ops[3] = d
    BY <2>1, Tuples
  <2>4. a.op \notin Placed /\ Fitting(c, a)
    BY <1>2, <2>1 DEF Placed, Fitting, Leafing
  <2>5. d.op \notin Placed /\ Fitting(c, d)
    BY <1>2, <2>1 DEF Placed, Fitting, Leafing
  <2>6. b.op \notin Placed /\ Fitting(c, b)
    <3>1. "work-order" \in LeafTypes
      BY DEF LeafTypes
    <3> QED BY <2>1, <3>1, LeafGood
  <2>7. \A n \in DOMAIN ops : Due(p, c, ops, n)
    BY <2>3, <2>4, <2>5, <2>6 DEF Placed, Due, InstallDue, ReceiptDue, RegistryDue, RestoreDue, AttachDue
  <2>8. manifest' \in {"none", "torn", "whole"} /\ files' \subseteq Orders \cup {"plans", "bundle"}
    BY <1>1 DEF EInv, ControlKept, proposal
  <2>9. Moves(p, ops) /\ UNCHANGED <<record, machine, bounds>>
    BY <1>1, <2>2, ContinueMoves
  <2> QED BY <1>1, <2>1, <2>3, <2>7, <2>8, <2>9, PassOn
<1> QED BY <1>3, <1>4 DEF WriteOrders

LEMMA AttachEvident == ASSUME IInv, EInv, NEW p \in Procs, Attach(p) PROVE EInv'
<1>1. Busy(p) /\ Arg(p).op = "attach" /\ Arg(p).op \notin Passing /\ UNCHANGED <<proposal, record, machine, bounds>>
  BY DEF Attach, At, Arg, Passing
<1>2. lock = p
  BY <1>1, UnderLock DEF IInv, Creates
<1>3. PICK o, ops, c : /\ o = [op |-> "receipts", left |-> {i \in Installs : receipt[i] \notin {None, Begun}}]
                       /\ ops = <<o>> /\ c = job[p].cmd
  OBVIOUS
<1>4. Moves(p, ops) /\ IsList(ops) /\ DOMAIN ops = 1 .. 1 /\ ops[1] = o
  <2>1. Continue(p, ops)
    BY <1>3 DEF Attach
  <2> QED BY <1>3, <2>1, Tuples, ContinueMoves
<1>5. Fitting(c, o)
  BY <1>3 DEF Fitting, Leafing
<1>8. o.op = "receipts" /\ o.left \subseteq Installs /\ \A i \in o.left : Real(i)
  BY <1>3 DEF Real
<1>6. \A n \in DOMAIN ops : Due(p, c, ops, n)
  BY <1>2, <1>4, <1>5, <1>8 DEF Due, InstallDue, ReceiptDue, RegistryDue, RestoreDue, AttachDue
<1>7. manifest' \in {"none", "torn", "whole"} /\ files' \subseteq Orders \cup {"plans", "bundle"}
  BY <1>1 DEF EInv, ControlKept, proposal
<1> QED BY <1>1, <1>3, <1>4, <1>6, <1>7, PassOn

\* A receipt, as it is recorded.
LEMMA RealReceipt ==
    ASSUME EInv, NEW i \in Installs, Real(i)
    PROVE  receipt[i] \in [plan : Plans, snap : DOMAIN snaps] /\ receipt[i].snap = Standing
<1>1. receipt[i] \in {None, Begun} \cup [plan : Plans, snap : DOMAIN snaps]
  BY DEF EInv, MachineKept
<1>2. receipt[i].snap = Standing
  BY SnapshotFirstIs DEF EInv, Real
<1> QED BY <1>1, <1>2 DEF Real

LEMMA AttachNextEvident == ASSUME IInv, EInv, NEW p \in Procs, AttachNext(p) PROVE EInv'
<1>1. Busy(p) /\ Arg(p).op = "receipts" /\ Arg(p).op \notin Passing /\ UNCHANGED <<proposal, record, machine, bounds>>
  BY DEF AttachNext, At, Arg, Passing
<1>2. lock = p /\ Arg(p).left \subseteq Installs /\ \A i \in Arg(p).left : Real(i)
  BY <1>1, HeadDue DEF Due, AttachDue
<1>3. CASE Continue(p, <<>>)
  BY <1>1, <1>3, LookEvident
<1>4. ASSUME NEW i \in Arg(p).left,
             Continue(p, <<Leaf("receipt", i, receipt[i].snap, "system-apply"),
                           [op |-> "receipts", left |-> Arg(p).left \ {i}]>>)
      PROVE  EInv'
  <2>1. PICK a, b, ops, c : /\ a = Leaf("receipt", i, receipt[i].snap, "system-apply")
                            /\ b = [op |-> "receipts", left |-> Arg(p).left \ {i}]
                            /\ ops = <<a, b>> /\ c = job[p].cmd
    OBVIOUS
  <2>2. Continue(p, ops)
    BY <1>4, <2>1
  <2>3. IsList(ops) /\ DOMAIN ops = 1 .. 2 /\ ops[1] = a /\ ops[2] = b
    BY <2>1, Tuples
  <2>4. a.op \notin Placed /\ Fitting(c, a)
    <3>1. receipt[i].snap \in DOMAIN snaps
      BY <1>2, <1>4, RealReceipt
    <3>2. "receipt" \in LeafTypes
      BY DEF LeafTypes
    <3> QED BY <2>1, <3>1, <3>2, LeafGood
  <2>5. Fitting(c, b) /\ b.op = "receipts" /\ b.left \subseteq Installs /\ \A j \in b.left : Real(j)
    BY <1>2, <2>1 DEF Fitting, Leafing
  <2>6. \A n \in DOMAIN ops : Due(p, c, ops, n)
    BY <1>2, <2>3, <2>4, <2>5 DEF Placed, Due, InstallDue, ReceiptDue, RegistryDue, RestoreDue, AttachDue
  <2>8. manifest' \in {"none", "torn", "whole"} /\ files' \subseteq Orders \cup {"plans", "bundle"}
    BY <1>1 DEF EInv, ControlKept, proposal
  <2>9. Moves(p, ops) /\ UNCHANGED <<record, machine, bounds>>
    BY <1>1, <2>2, ContinueMoves
  <2> QED BY <1>1, <2>1, <2>3, <2>6, <2>8, <2>9, PassOn
<1> QED BY <1>3, <1>4 DEF AttachNext

LEMMA FindResultEvident == ASSUME IInv, EInv, NEW p \in Procs, FindResult(p) PROVE EInv'
<1>1. Busy(p) /\ Arg(p).op = "find" /\ Arg(p).op \notin Passing
  BY DEF FindResult, At, Arg, Passing
<1>2. PICK o : o = [op |-> "bind", type |-> "snapshot-binding", order |-> Arg(p).order, attempt |-> Arg(p).attempt]
  OBVIOUS
<1>3. \/ Refuse(p)
      \/ Continue(p, <<>>) /\ UNCHANGED <<proposal, record, machine, bounds>>
      \/ Continue(p, <<o>>) /\ UNCHANGED <<proposal, record, machine, bounds>>
  BY <1>2 DEF FindResult
<1>4. Arg(p).order \in Orders /\ job[p].cmd # "rollback"
  BY <1>1, HeadDue DEF Fitting
<1>5. o.op \notin Placed /\ Fitting(job[p].cmd, o)
  BY <1>2, <1>4 DEF Placed, Fitting, Leafing
<1>6. CASE Continue(p, <<o>>) /\ UNCHANGED <<proposal, record, machine, bounds>>
  <2>1. manifest' \in {"none", "torn", "whole"} /\ files' \subseteq Orders \cup {"plans", "bundle"}
    BY <1>6 DEF EInv, ControlKept, proposal
  <2> QED BY <1>1, <1>5, <1>6, <2>1, OneEvident
<1> QED BY <1>1, <1>3, <1>6, LookEvident, RefuseEvident

LEMMA RunEvident == ASSUME IInv, EInv, NEW p \in Procs, Run(p) PROVE EInv'
<1>1. Busy(p) /\ Arg(p).op = "run" /\ Arg(p).op \notin Passing
  BY DEF Run, At, Arg, Passing
<1>2. Arg(p).snap \in DOMAIN snaps /\ Arg(p).order \in Orders
  BY <1>1, HeadDue DEF Fitting
<1>3. CASE Refuse(p)
  BY <1>3, RefuseEvident
<1>4. ASSUME NEW m, NEW status,
             Continue(p, <<Leaf("work-order-result", m, Arg(p).snap, <<Arg(p).order, Arg(p).attempt, status>>),
                           Op("fold")>>),
             UNCHANGED <<proposal, record, machine, bounds>>
      PROVE  EInv'
  <2>1. PICK what, a, b, ops, c :
             /\ what = <<Arg(p).order, Arg(p).attempt, status>>
             /\ a = Leaf("work-order-result", m, Arg(p).snap, what) /\ b = Op("fold")
             /\ ops = <<a, b>> /\ c = job[p].cmd
    OBVIOUS
  <2>2. Continue(p, ops)
    BY <1>4, <2>1
  <2>3. IsList(ops) /\ DOMAIN ops = 1 .. 2 /\ ops[1] = a /\ ops[2] = b
    BY <2>1, Tuples
  <2>4. a.op \notin Placed /\ Fitting(c, a)
    <3>1. what[1] \in Orders /\ Arg(p).snap # None
      BY <1>2, <2>1, SnapsCount DEF EInv
    <3>2. "work-order-result" \in LeafTypes
      BY DEF LeafTypes
    <3> QED BY <1>2, <2>1, <3>1, <3>2, LeafGood
  <2>5. b.op \notin Placed /\ Fitting(c, b)
    BY <2>1, Word DEF Words
  <2>6. \A n \in DOMAIN ops : Due(p, c, ops, n)
    BY <2>3, <2>4, <2>5 DEF Placed, Due, InstallDue, ReceiptDue, RegistryDue, RestoreDue, AttachDue
  <2>8. manifest' \in {"none", "torn", "whole"} /\ files' \subseteq Orders \cup {"plans", "bundle"}
    BY <1>4 DEF EInv, ControlKept, proposal
  <2>9. Moves(p, ops) /\ UNCHANGED <<record, machine, bounds>>
    BY <1>4, <2>2, ContinueMoves
  <2> QED BY <1>1, <2>1, <2>3, <2>6, <2>8, <2>9, PassOn
<1> QED BY <1>3, <1>4 DEF Run

LEMMA CommittedEvident == ASSUME IInv, EInv, NEW p \in Procs, Committed(p) PROVE EInv'
<1>1. Busy(p) /\ Arg(p).op = "committed" /\ Arg(p).op \notin Passing
  BY DEF Committed, At, Arg, Passing
<1>2. PICK i, k, c : i = Arg(p).inst /\ k = <<"rollback", i>> /\ c = job[p].cmd
  OBVIOUS
<1>3. i \in Installs /\ c = "rollback"
  BY <1>1, <1>2, HeadDue DEF Fitting
<1>4. PICK a, b : a = [op |-> "registry", inst |-> i, status |-> leaves[k].what] /\ b = [op |-> "restore", inst |-> i]
  OBVIOUS
<1>5. \/ Refuse(p)
      \/ /\ registry[i] # None /\ Whole = DOMAIN leaves /\ UNCHANGED <<proposal, record, machine, bounds>>
         /\ \/ k \in Whole /\ Continue(p, <<a>>)
            \/ Continue(p, <<>>)
            \/ k \notin Whole /\ Continue(p, <<b>>)
  BY <1>2, <1>4 DEF Committed
<1>6. CASE /\ registry[i] # None /\ Whole = DOMAIN leaves /\ UNCHANGED <<proposal, record, machine, bounds>>
           /\ (k \in Whole /\ Continue(p, <<a>>)) \/ (k \notin Whole /\ Continue(p, <<b>>))
  <2>1. manifest' \in {"none", "torn", "whole"} /\ files' \subseteq Orders \cup {"plans", "bundle"}
    BY <1>6 DEF EInv, ControlKept, proposal
  <2>2. CASE k \in Whole /\ Continue(p, <<a>>)
    <3>1. PICK ops : ops = <<a>>
      OBVIOUS
    <3>2. Moves(p, ops) /\ IsList(ops) /\ DOMAIN ops = 1 .. 1 /\ ops[1] = a
      BY <2>2, <3>1, Tuples, ContinueMoves
    <3>3. leaves[k].what \in Rolled
      <4>1. k[1] = "rollback"
        BY <1>2
      <4> QED BY <2>2, <4>1 DEF EInv, RecordKept, BodyOK
    <3>4. Fitting(c, a)
      BY <1>3, <1>4, <1>6, <3>3 DEF Fitting, Leafing
    <3>5. OnRecord(i, a.status) /\ a.inst = i
      BY <1>2, <1>4, <2>2 DEF OnRecord
    <3>6. \A n \in DOMAIN ops : Due(p, c, ops, n)
      BY <1>3, <1>4, <3>2, <3>4, <3>5 DEF Due, InstallDue, ReceiptDue, RegistryDue, RestoreDue, AttachDue, WillRecord
    <3> QED BY <1>1, <1>2, <1>6, <2>1, <3>2, <3>6, PassOn
  <2>3. CASE k \notin Whole /\ Continue(p, <<b>>)
    <3>1. PICK ops : ops = <<b>>
      OBVIOUS
    <3>2. Moves(p, ops) /\ IsList(ops) /\ DOMAIN ops = 1 .. 1 /\ ops[1] = b
      BY <2>3, <3>1, Tuples, ContinueMoves
    <3>3. Fitting(c, b)
      BY <1>3, <1>4, <1>6 DEF Fitting, Leafing
    <3>4. <<"rollback", b.inst>> \notin DOMAIN leaves
      BY <1>2, <1>4, <1>6, <2>3
    <3>5. \A n \in DOMAIN ops : Due(p, c, ops, n)
      BY <1>4, <3>2, <3>3, <3>4 DEF Due, InstallDue, ReceiptDue, RegistryDue, RestoreDue, AttachDue
    <3> QED BY <1>1, <1>2, <1>6, <2>1, <3>2, <3>5, PassOn
  <2> QED BY <1>6, <2>2, <2>3
<1> QED BY <1>1, <1>5, <1>6, LookEvident, RefuseEvident

-----------------------------------------------------------------------------
(* Steps that write the record. *)

\* A file that is created, or given up.
LEMMA TornKept ==
    ASSUME EInv, Whole' = Whole, \A k \in Whole : leaves'[k] = leaves[k],
           \A k \in DOMAIN leaves' : k[1] \in LeafTypes, Revisions' = Revisions, UNCHANGED machine
    PROVE  /\ RecordKept' /\ SnapsKept' /\ MachineKept' /\ SnapshotFirst' /\ RollbackEvidence' /\ Persists
           /\ \A i \in Installs : Real(i) => Real(i)'
<1>1. snaps' = snaps /\ receipt' = receipt /\ registry' = registry /\ live' = live
  BY DEF machine
<1>2. SnapshotsNamed' = SnapshotsNamed
  BY DEF SnapshotsNamed
<1>3. Standing' = Standing
  BY DEF Standing
<1>4. \A k, b : BodyOK(k, b) => BodyOK(k, b)'
  BY <1>1 DEF BodyOK
<1>5. RecordKept'
  BY <1>2, <1>4 DEF EInv, RecordKept
<1>6. SnapsKept' /\ MachineKept'
  BY <1>1 DEF EInv, SnapsKept, MachineKept, Real
<1>7. SnapshotFirst'
  BY <1>1, SnapshotFirstStill DEF EInv
<1>8. RollbackEvidence'
  BY <1>1 DEF EInv, RollbackEvidence
<1>9. Persists
  BY <1>1, <1>3 DEF Persists
<1> QED BY <1>1, <1>5, <1>6, <1>7, <1>8, <1>9 DEF Real

LEMMA TornRevisionKept ==
    ASSUME EInv, leaves' = leaves, Revisions' = Revisions, UNCHANGED machine
    PROVE  /\ RecordKept' /\ SnapsKept' /\ MachineKept' /\ SnapshotFirst' /\ RollbackEvidence' /\ Persists
           /\ \A i \in Installs : Real(i) => Real(i)'
<1>1. Whole' = Whole /\ (\A k \in Whole : leaves'[k] = leaves[k]) /\ \A k \in DOMAIN leaves' : k[1] \in LeafTypes
  BY DEF Whole, EInv, RecordKept
<1> QED BY <1>1, TornKept

LEMMA ManifestStill ==
    ASSUME EInv, UNCHANGED proposal
    PROVE  manifest' \in {"none", "torn", "whole"} /\ files' \subseteq Orders \cup {"plans", "bundle"}
BY DEF EInv, ControlKept, proposal

LEMMA RegisterLeafEvident == ASSUME IInv, EInv, NEW p \in Procs, RegisterLeaf(p) PROVE EInv'
<1>1. Busy(p) /\ Arg(p).op = "leaf"
  BY DEF RegisterLeaf, At, Arg
<1>2. lock = p
  BY <1>1, UnderLock DEF IInv, Creates
<1>3. PICK o, k, b, c : o = Arg(p) /\ k = Arg(p).key /\ b = Arg(p).body /\ c = job[p].cmd
  OBVIOUS
<1>4. BodyOK(k, b) /\ k[1] \in LeafTypes
  BY <1>1, <1>3, HeadDue DEF Fitting, Leafing, BodyOK
<1>5. PICK f : f = [op |-> "fill_leaf", key |-> k, body |-> b]
  OBVIOUS
<1>6. \/ Refuse(p)
      \/ /\ k \notin DOMAIN leaves /\ leaves' = With(leaves, k, Torn) /\ Continue(p, <<f>>)
         /\ UNCHANGED <<proposal, revs, machine, bounds>>
      \/ /\ k \in DOMAIN leaves /\ leaves[k] = b /\ Continue(p, <<>>)
         /\ UNCHANGED <<proposal, record, machine, bounds>>
  BY <1>3, <1>5 DEF RegisterLeaf
<1>7. CASE /\ k \notin DOMAIN leaves /\ leaves' = With(leaves, k, Torn) /\ Continue(p, <<f>>)
           /\ UNCHANGED <<proposal, revs, machine, bounds>>
  <2>1. PICK ops : ops = <<f>>
    OBVIOUS
  <2>2. Moves(p, ops) /\ IsList(ops) /\ DOMAIN ops = 1 .. 1 /\ Len(ops) = 1 /\ ops[1] = f
    BY <1>7, <2>1, Tuples, ContinueMoves
  <2>3. Whole' = Whole /\ (\A j \in Whole : leaves'[j] = leaves[j]) /\ DOMAIN leaves' = DOMAIN leaves \cup {k}
    BY <1>7 DEF Whole, With
  <2>4. \A j \in DOMAIN leaves' : j[1] \in LeafTypes
    BY <1>4, <2>3 DEF EInv, RecordKept
  <2>5. Revisions' = Revisions /\ UNCHANGED machine /\ UNCHANGED bounds /\ UNCHANGED proposal
    BY <1>7, SameRevisions
  <2>6. /\ RecordKept' /\ SnapsKept' /\ MachineKept' /\ SnapshotFirst' /\ RollbackEvidence' /\ Persists
        /\ \A i \in Installs : Real(i) => Real(i)'
    BY <2>3, <2>4, <2>5, TornKept
  <2>7. Carried(o, ops, Len(ops))
    BY <1>1, <1>3, <1>5, <2>2 DEF Carried, Leafing, Folding
  <2>8. BodyOK(k, b)'
    BY <1>4, <2>5 DEF BodyOK, machine
  <2>9. Due(p, c, ops, 1)'
    <3>1. f.op \notin Placed /\ Fitting(c, f)'
      BY <1>5, <2>8 DEF Placed, Fitting, Leafing
    <3> QED BY <2>2, <3>1, Anywhere
  <2>10. \A q \in Procs : Pending(q)'
    <3>1. \A n \in DOMAIN ops : Due(p, c, ops, n)'
      BY <2>2, <2>9
    <3> QED BY <1>1, <1>2, <1>3, <2>2, <2>6, <2>7, <3>1, GoesDue
  <2>11. ControlKept'
    BY <1>1, <2>2, <2>5, ManifestStill, GoesControlled DEF EInv
  <2> QED BY <2>6, <2>10, <2>11 DEF EInv
<1>8. CASE /\ k \in DOMAIN leaves /\ leaves[k] = b /\ Continue(p, <<>>)
           /\ UNCHANGED <<proposal, record, machine, bounds>>
  <2>1. PICK ops : ops = <<>>
    OBVIOUS
  <2>2. Moves(p, ops) /\ IsList(ops) /\ DOMAIN ops = {} /\ Len(ops) = 0
    BY <1>8, <2>1, Nothing, ContinueMoves
  <2>3. b # Torn
    BY <1>1, <1>3 DEF IInv, Own, Listed
  <2>4. k \in Whole' /\ leaves'[k] = b
    BY <1>8, <2>3 DEF Whole, record
  <2>5. Carried(o, ops, Len(ops))
    BY <1>1, <1>3, <2>4 DEF Carried, Leafing, Folding
  <2>6. UNCHANGED <<record, machine, bounds>> /\ o.op # "done"
    BY <1>1, <1>3, <1>8
  <2> QED BY <1>1, <1>3, <1>8, <2>2, <2>5, <2>6, ManifestStill, QuietGoes
<1> QED BY <1>6, <1>7, <1>8, RefuseEvident

LEMMA FillLeafEvident == ASSUME IInv, EInv, NEW p \in Procs, FillLeaf(p) PROVE EInv'
<1>1. Busy(p) /\ Arg(p).op = "fill_leaf"
  BY DEF FillLeaf, At, Arg
<1>2. lock = p
  BY <1>1, UnderLock DEF IInv, Creates
<1>3. PICK o, k, b, c, ops : o = Arg(p) /\ k = Arg(p).key /\ b = Arg(p).body /\ c = job[p].cmd /\ ops = <<>>
  OBVIOUS
<1>4. BodyOK(k, b)
  BY <1>1, <1>3, HeadDue DEF Fitting, Leafing
<1>5. leaves' = [leaves EXCEPT ![k] = b] /\ UNCHANGED machine /\ UNCHANGED bounds /\ UNCHANGED proposal /\ revs' = revs
  BY <1>3 DEF FillLeaf
<1>6. k \in DOMAIN leaves /\ leaves[k] = Torn /\ b # Torn
  BY <1>1, <1>3 DEF IInv, Own, Fills, Listed, At, Arg
<1>7. /\ k \notin Whole /\ Whole' = Whole \cup {k} /\ leaves'[k] = b /\ (\A j \in Whole : leaves'[j] = leaves[j])
      /\ DOMAIN leaves' = DOMAIN leaves
  BY <1>5, <1>6 DEF Whole
<1>8. Moves(p, ops) /\ IsList(ops) /\ DOMAIN ops = {} /\ Len(ops) = 0
  <2>1. Continue(p, <<>>)
    BY DEF FillLeaf
  <2> QED BY <1>3, <2>1, Nothing, ContinueMoves
<1>9. Revisions' = Revisions /\ Standing' = Standing
  BY <1>5, SameRevisions DEF Standing
<1>10. snaps' = snaps /\ receipt' = receipt /\ registry' = registry /\ live' = live
  BY <1>5 DEF machine
<1>11. Persists
  BY <1>7, <1>9, <1>10 DEF Persists
<1>12. RecordKept'
  <2>1. \A j, d : BodyOK(j, d) => BodyOK(j, d)'
    BY <1>10 DEF BodyOK
  <2>2. ASSUME NEW j \in Whole' PROVE BodyOK(j, leaves[j])'
    <3>1. PICK d : d = leaves'[j]
      OBVIOUS
    <3>2. BodyOK(j, d)
      BY <1>4, <1>7, <3>1 DEF EInv, RecordKept
    <3>3. BodyOK(j, d)'
      BY <2>1, <3>2
    <3> QED BY <3>1, <3>3 DEF BodyOK
  <2>3. SnapshotsNamed \subseteq SnapshotsNamed'
    BY <1>11, NamesPersist
  <2> QED BY <1>7, <1>9, <2>2, <2>3 DEF EInv, RecordKept
<1>13. SnapsKept' /\ MachineKept' /\ \A i \in Installs : Real(i) => Real(i)'
  BY <1>10 DEF EInv, SnapsKept, MachineKept, Real
<1>14. SnapshotFirst'
  BY <1>9, <1>10, SnapshotFirstStill DEF EInv
<1>15. RollbackEvidence'
  BY <1>7, <1>10 DEF EInv, RollbackEvidence
<1>16. Carried(o, ops, Len(ops))
  BY <1>1, <1>3, <1>7 DEF Carried, Leafing, Folding
<1>17. \A q \in Procs : Pending(q)'
  BY <1>1, <1>2, <1>3, <1>8, <1>11, <1>13, <1>16, GoesDue
<1>18. ControlKept'
  BY <1>1, <1>5, <1>8, ManifestStill, GoesControlled DEF EInv
<1> QED BY <1>12, <1>13, <1>14, <1>15, <1>17, <1>18 DEF EInv

LEMMA NewRevisionEvident ==
    ASSUME IInv, EInv, NEW p \in Procs, Busy(p), Arg(p).op \in {"fold", "rebuild", "first"},
           NEW index, NewRevision(p, index), Readable \/ revs = <<>>, UNCHANGED bounds
    PROVE  EInv'
<1>1. PICK f, ops, o, c : /\ f = [op |-> "fill_revision", index |-> index] /\ ops = <<f>>
                          /\ o = Arg(p) /\ c = job[p].cmd
  OBVIOUS
<1>2. Moves(p, ops) /\ IsList(ops) /\ DOMAIN ops = 1 .. 1 /\ Len(ops) = 1 /\ ops[1] = f
  <2>1. Continue(p, ops)
    BY <1>1 DEF NewRevision
  <2> QED BY <1>1, <2>1, Tuples, ContinueMoves
<1>3. leaves' = leaves /\ UNCHANGED machine /\ UNCHANGED proposal
  BY DEF NewRevision
<1>4. Revisions' = Revisions
  BY LedgerBegun
<1>5. /\ RecordKept' /\ SnapsKept' /\ MachineKept' /\ SnapshotFirst' /\ RollbackEvidence' /\ Persists
      /\ \A i \in Installs : Real(i) => Real(i)'
  BY <1>3, <1>4, TornRevisionKept
<1>6. Carried(o, ops, Len(ops))
  BY <1>1, <1>2 DEF Carried, Leafing, Folding
<1>7. Due(p, c, ops, 1)'
  <2>1. f.op \notin Placed /\ Fitting(c, f)'
    BY <1>1 DEF Placed, Fitting, Leafing
  <2> QED BY <1>2, <2>1, Anywhere
<1>8. \A q \in Procs : Pending(q)'
  <2>1. UNCHANGED <<receipt, registry, leaves>>
    BY <1>3 DEF machine
  <2>2. \A n \in DOMAIN ops : Due(p, c, ops, n)'
    BY <1>2, <1>7
  <2> QED BY <1>1, <1>2, <1>5, <1>6, <2>1, <2>2, GoesDue
<1>9. ControlKept'
  BY <1>1, <1>2, <1>3, ManifestStill, GoesControlled DEF EInv
<1> QED BY <1>5, <1>8, <1>9 DEF EInv

\* The snapshot of a readable index.
LEMMA IndexStands ==
    ASSUME IInv, EInv, Readable
    PROVE  Standing = Index.snap /\ (Index.snap # None => Index.snap \in SnapshotsNamed /\ Index.snap \in DOMAIN snaps)
<1>1. Revisions = revs /\ revs # <<>> /\ Last(Revisions) = Index
  BY DEF Readable, Revisions, Last, Index
<1>2. Standing = Index.snap
  BY <1>1 DEF Standing
<1>3. Len(revs) \in DOMAIN revs
  <2>1. IsList(revs)
    BY DEF IInv, OneWriter
  <2> QED BY <1>1, <2>1, TailOf
<1>4. Index.snap \in {None} \cup SnapshotsNamed
  BY <1>1, <1>3 DEF EInv, RecordKept, Index
<1>5. \A sn \in SnapshotsNamed : sn \in DOMAIN snaps
  BY DEF EInv, RecordKept, BodyOK, SnapshotsNamed
<1> QED BY <1>2, <1>4, <1>5

LEMMA FoldedSnap ==
    ASSUME Foldable
    PROVE  /\ \A sn \in SnapshotsNamed : Folded.snap = sn
           /\ Folded.snap \in {None} \cup SnapshotsNamed /\ Folded.refs = Whole
<1>1. Folded.snap = IF SnapshotsNamed = {} THEN None ELSE CHOOSE s \in SnapshotsNamed : TRUE
  BY DEF Folded
<1>2. Folded.refs = Whole
  BY DEF Folded, Foldable
<1>3. \A s, t \in SnapshotsNamed : s = t
  BY DEF Foldable
<1> QED BY <1>1, <1>2, <1>3

LEMMA FoldEvident == ASSUME IInv, EInv, NEW p \in Procs, Fold(p) PROVE EInv'
<1>1. Busy(p) /\ Arg(p).op = "fold"
  BY DEF Fold, At, Arg
<1>2. CASE Refuse(p)
  BY <1>2, RefuseEvident
<1>3. CASE Readable /\ NewRevision(p, Folded)
  BY <1>1, <1>3, NewRevisionEvident DEF NewRevision
<1>4. CASE /\ Readable /\ Foldable /\ Index = Folded /\ Continue(p, <<>>)
           /\ UNCHANGED <<proposal, record, machine, bounds>>
  <2>1. PICK ops, o, c : ops = <<>> /\ o = Arg(p) /\ c = job[p].cmd
    OBVIOUS
  <2>2. Moves(p, ops) /\ IsList(ops) /\ DOMAIN ops = {} /\ Len(ops) = 0
    BY <1>4, <2>1, Nothing, ContinueMoves
  <2>3. \A sn \in SnapshotsNamed : Standing' = sn
    BY <1>4, IndexStands, FoldedSnap, RecordStill
  <2>4. Carried(o, ops, Len(ops)) /\ o.op # "done"
    BY <1>1, <2>1, <2>3 DEF Carried, Leafing
  <2>5. UNCHANGED <<record, machine, bounds>>
    BY <1>4
  <2> QED BY <1>1, <1>4, <2>1, <2>2, <2>4, <2>5, ManifestStill, QuietGoes
<1> QED BY <1>2, <1>3, <1>4 DEF Fold

LEMMA FirstEvident == ASSUME IInv, EInv, NEW p \in Procs, FirstRevision(p) \/ Rebuild(p) PROVE EInv'
<1>1. Busy(p) /\ Arg(p).op \in {"first", "rebuild"} /\ Arg(p).op \notin Passing
  BY DEF FirstRevision, Rebuild, At, Arg, Passing
<1>2. CASE Refuse(p)
  BY <1>2, RefuseEvident
<1>3. CASE Continue(p, <<>>) /\ UNCHANGED <<proposal, record, machine, bounds>>
  BY <1>1, <1>3, LookEvident
<1>4. ASSUME NEW index, NewRevision(p, index), revs = <<>> PROVE EInv'
  BY <1>1, <1>4, NewRevisionEvident DEF NewRevision
<1> QED BY <1>2, <1>3, <1>4 DEF FirstRevision, Rebuild

LEMMA FillRevisionEvident == ASSUME IInv, EInv, NEW p \in Procs, FillRevision(p) PROVE EInv'
<1>1. Busy(p) /\ Arg(p).op = "fill_revision" /\ leaves' = leaves /\ UNCHANGED machine /\ UNCHANGED proposal /\ UNCHANGED bounds
  BY DEF FillRevision, At, Arg
<1>2. PICK ops, o, c : ops = <<>> /\ o = Arg(p) /\ c = job[p].cmd
  OBVIOUS
<1>3. Moves(p, ops) /\ IsList(ops) /\ DOMAIN ops = {} /\ Len(ops) = 0
  <2>1. Continue(p, <<>>)
    BY DEF FillRevision
  <2> QED BY <1>2, <2>1, Nothing, ContinueMoves
<1>4. Foldable /\ IsList(Revisions) /\ Revisions' = Append(Revisions, Folded)
  <2>1. revs # <<>> /\ Index = Torn /\ Foldable /\ Arg(p).index = Folded /\ IsList(revs)
    <3>1. At(p, "fill_revision")
      BY DEF FillRevision
    <3> QED BY <3>1 DEF IInv, Own, Fills, OneWriter
  <2>2. Revisions = SubSeq(revs, 1, Len(revs) - 1)
    BY <2>1 DEF Revisions
  <2>3. revs' = Append(Revisions, Folded) /\ IsList(Revisions)
    BY <2>1, <2>2, Shortened DEF FillRevision
  <2>4. Folded # Torn
    <3>1. "snap" \in DOMAIN Folded /\ "snap" \notin DOMAIN Torn
      BY DEF Folded, Torn
    <3> QED BY <3>1
  <2>5. Len(revs') = Len(Revisions) + 1 /\ revs'[Len(Revisions) + 1] = Folded
    BY <2>3, Appended
  <2>6. Revisions' = revs'
    BY <2>4, <2>5 DEF Revisions, Index
  <2> QED BY <2>1, <2>3, <2>6
<1>5. PICK r, f, n : r = Revisions /\ f = Folded /\ n = Len(r)
  OBVIOUS
<1>6. /\ n \in Nat /\ DOMAIN r = 1 .. n /\ Revisions' = Append(r, f) /\ Append(r, f) # <<>>
      /\ DOMAIN Append(r, f) = 1 .. n + 1 /\ Append(r, f)[n + 1] = f /\ \A m \in 1 .. n : Append(r, f)[m] = r[m]
      /\ Len(Append(r, f)) = n + 1
  BY <1>4, <1>5, Appended
<1>7. Standing' = f.snap
  BY <1>6 DEF Standing, Last
<1>8. Whole' = Whole /\ SnapshotsNamed' = SnapshotsNamed
  BY <1>1 DEF Whole, SnapshotsNamed
<1>9. (\A sn \in SnapshotsNamed : f.snap = sn) /\ f.snap \in {None} \cup SnapshotsNamed /\ f.refs = Whole
  BY <1>4, <1>5, FoldedSnap
<1>10. Standing # None => Standing \in SnapshotsNamed
  <2>1. CASE r = <<>>
    BY <1>5, <2>1 DEF Standing
  <2>2. CASE r # <<>>
    <3>1. n \in DOMAIN r
      BY <1>4, <1>5, <2>2, TailOf
    <3> QED BY <1>5, <2>2, <3>1 DEF Standing, Last, EInv, RecordKept
  <2> QED BY <2>1, <2>2
<1>11. Standing # None => Standing' = Standing
  BY <1>7, <1>9, <1>10
<1>12. snaps' = snaps /\ receipt' = receipt /\ registry' = registry /\ live' = live
  BY <1>1 DEF machine
<1>13. Persists
  BY <1>1, <1>8, <1>11, <1>12 DEF Persists
<1>14. RecordKept'
  <2>1. \A k, b : BodyOK(k, b) => BodyOK(k, b)'
    BY <1>12 DEF BodyOK
  <2>2. ASSUME NEW m \in 1 .. n + 1
        PROVE  Append(r, f)[m].refs \subseteq Whole /\ Append(r, f)[m].snap \in {None} \cup SnapshotsNamed
    <3>1. CASE m = n + 1
      BY <1>6, <1>9, <3>1
    <3>2. CASE m # n + 1
      <4>1. m \in 1 .. n
        BY <1>6, <3>2
      <4> QED BY <1>5, <1>6, <4>1 DEF EInv, RecordKept
    <3> QED BY <3>1, <3>2
  <2> QED BY <1>1, <1>6, <1>8, <2>1, <2>2 DEF EInv, RecordKept
<1>15. SnapsKept' /\ MachineKept' /\ \A i \in Installs : Real(i) => Real(i)'
  BY <1>12 DEF EInv, SnapsKept, MachineKept, Real
<1>16. SnapshotFirst'
  <2>1. SnapshotFirst => \A i \in Installs : receipt[i] # None =>
          /\ Standing # None /\ snaps[Standing].clean
          /\ receipt[i] # Begun => /\ receipt[i].snap = Standing
                                   /\ receipt[i].plan = "auto" => snaps[Standing].of["auto"] = "original"
    BY SnapshotFirstIs
  <2>3. Revisions' # <<>> /\ Last(Revisions').snap = Standing'
    BY <1>6, <1>7 DEF Last
  <2> QED BY <1>11, <1>12, <2>1, <2>3 DEF EInv, SnapshotFirst
<1>17. RollbackEvidence'
  BY <1>1, <1>8, <1>12 DEF EInv, RollbackEvidence
<1>18. Carried(o, ops, Len(ops))
  BY <1>1, <1>2, <1>7, <1>9 DEF Carried, Leafing
<1>19. \A q \in Procs : Pending(q)'
  BY <1>1, <1>2, <1>3, <1>12, <1>13, <1>15, <1>18, GoesDue
<1>20. ControlKept'
  BY <1>1, <1>3, ManifestStill, GoesControlled DEF EInv
<1> QED BY <1>14, <1>15, <1>16, <1>17, <1>19, <1>20 DEF EInv

-----------------------------------------------------------------------------
(* Steps that change the machine. *)

\* At the head of a list nothing is still to come first.
LEMMA HeadNeeds ==
    ASSUME NEW s, NEW l \in Nat, DOMAIN s = 1 .. l
    PROVE  /\ \A sn : (WillStand(s, 1, sn) => Standing = sn)
           /\ \A sn : (WillCover(s, 1, sn) => snaps[sn].of["auto"] = "original")
           /\ \A i, status : WillRecord(s, 1, i, status) => OnRecord(i, status)
<1>1. \A m \in DOMAIN s : ~(m < 1)
  OBVIOUS
<1> QED BY <1>1 DEF WillStand, WillCover, WillRecord

LEMMA HeadList ==
    ASSUME IInv, EInv, NEW p \in Procs, Busy(p)
    PROVE  \E l \in Nat : DOMAIN job[p].todo = 1 .. l
<1>1. IsList(job[p].todo)
  BY DEF IInv, Own, Listed
<1> QED BY <1>1, Lists DEF IsList

LEMMA LiveKept ==
    ASSUME EInv, UNCHANGED <<record, snaps, receipt, registry>>, live' \in [Plans -> Contents]
    PROVE  /\ RecordKept' /\ SnapsKept' /\ MachineKept' /\ SnapshotFirst' /\ RollbackEvidence' /\ Persists
           /\ \A i \in Installs : Real(i) => Real(i)'
<1>1. /\ Whole' = Whole /\ SnapshotsNamed' = SnapshotsNamed /\ Revisions' = Revisions /\ Standing' = Standing
      /\ leaves' = leaves /\ snaps' = snaps /\ receipt' = receipt /\ registry' = registry
  BY RecordStill DEF record
<1>2. \A k, b : BodyOK(k, b) => BodyOK(k, b)'
  BY <1>1 DEF BodyOK
<1>3. RecordKept'
  BY <1>1, <1>2 DEF EInv, RecordKept
<1>4. SnapsKept' /\ MachineKept'
  BY <1>1 DEF EInv, SnapsKept, MachineKept, Real
<1>5. SnapshotFirst'
  BY <1>1, SnapshotFirstStill DEF EInv
<1>6. RollbackEvidence'
  BY <1>1 DEF EInv, RollbackEvidence
<1>7. Persists
  BY <1>1 DEF Persists
<1> QED BY <1>1, <1>3, <1>4, <1>5, <1>6, <1>7 DEF Real

LEMMA CoveredEvident == ASSUME IInv, EInv, NEW p \in Procs, Covered(p) PROVE EInv'
<1>1. Busy(p) /\ Arg(p).op = "covered"
  BY DEF Covered, At, Arg
<1>2. CASE Refuse(p)
  BY <1>2, RefuseEvident
<1>3. CASE /\ snaps[Arg(p).snap].of["auto"] = "original" /\ Continue(p, <<>>)
           /\ UNCHANGED <<proposal, record, machine, bounds>>
  <2>1. PICK ops, o, c : ops = <<>> /\ o = Arg(p) /\ c = job[p].cmd
    OBVIOUS
  <2>2. Moves(p, ops) /\ IsList(ops) /\ DOMAIN ops = {} /\ Len(ops) = 0
    BY <1>3, <2>1, Nothing, ContinueMoves
  <2>3. Carried(o, ops, Len(ops)) /\ o.op # "done"
    BY <1>1, <1>3, <2>1 DEF Carried, Leafing, Folding
  <2>4. UNCHANGED <<record, machine, bounds>>
    BY <1>3
  <2> QED BY <1>1, <1>3, <2>1, <2>2, <2>3, <2>4, ManifestStill, QuietGoes
<1> QED BY <1>2, <1>3 DEF Covered

LEMMA InstallEvident == ASSUME IInv, EInv, NEW p \in Procs, Install(p) PROVE EInv'
<1>1. Busy(p) /\ Arg(p).op = "install"
  BY DEF Install, At, Arg
<1>2. CASE Refuse(p)
  BY <1>2, RefuseEvident
<1>3. CASE /\ receipt[Arg(p).inst] = None
           /\ receipt' = [receipt EXCEPT ![Arg(p).inst] = Begun]
           /\ live' = [live EXCEPT ![Arg(p).plan] = "installed"]
           /\ Continue(p, <<>>)
           /\ UNCHANGED <<proposal, record, snaps, registry, bounds>>
  <2>1. PICK ops, o, c, i, s : ops = <<>> /\ o = Arg(p) /\ c = job[p].cmd /\ i = o.inst /\ s = job[p].todo
    OBVIOUS
  <2>2. Moves(p, ops) /\ IsList(ops) /\ DOMAIN ops = {} /\ Len(ops) = 0
    BY <1>3, <2>1, Nothing, ContinueMoves
  <2>3. lock = p
    BY <1>1, UnderLock DEF IInv, Creates
  <2>4. i \in Installs /\ s[1].op = "install" /\ Due(p, c, s, 1)
    BY <1>1, <2>1, HeadDue DEF Fitting
  <2>5. PICK sn \in DOMAIN snaps : Standing = sn
    <3>1. PICK l \in Nat : DOMAIN s = 1 .. l
      BY <1>1, <2>1, HeadList
    <3> QED BY <2>4, <3>1, HeadNeeds DEF Due, InstallDue
  <2>6. sn # None /\ snaps[sn].clean
    BY SnapsCount DEF EInv, SnapsKept
  <2>7. receipt \in [Installs -> {None, Begun} \cup [plan : Plans, snap : DOMAIN snaps]] /\ live \in [Plans -> Contents]
    BY DEF EInv, MachineKept
  <2>8. /\ receipt'[i] = Begun /\ (\A j \in Installs \ {i} : receipt'[j] = receipt[j])
        /\ receipt' \in [Installs -> {None, Begun} \cup [plan : Plans, snap : DOMAIN snaps]]
    BY <1>3, <2>1, <2>4, <2>7
  <2>9. live' \in [Plans -> Contents]
    BY <1>3, <2>7 DEF Contents
  <2>10. registry[i] = None /\ registry' = registry /\ snaps' = snaps
    BY <1>3, <2>1, <2>4 DEF EInv, MachineKept, Real
  <2>11. /\ Whole' = Whole /\ SnapshotsNamed' = SnapshotsNamed /\ Revisions' = Revisions /\ Standing' = Standing
         /\ leaves' = leaves
    BY <1>3, RecordStill DEF record
  <2>12. Persists
    BY <2>10, <2>11 DEF Persists
  <2>13. \A j \in Installs : Real(j) => Real(j)'
    BY <1>3, <2>1, <2>8 DEF Real
  <2>14. RecordKept' /\ SnapsKept'
    <3>1. \A k, b : BodyOK(k, b) => BodyOK(k, b)'
      BY <2>10 DEF BodyOK
    <3> QED BY <2>10, <2>11, <3>1 DEF EInv, RecordKept, SnapsKept
  <2>15. MachineKept'
    BY <2>8, <2>9, <2>10, <2>13 DEF EInv, MachineKept
  <2>16. SnapshotFirst'
    <3>1. \A j \in Installs \ {i} : receipt[j] # None =>
            /\ Revisions # <<>> /\ Last(Revisions).snap # None /\ snaps[Last(Revisions).snap].clean
            /\ receipt[j] # Begun =>
                 /\ receipt[j].snap = Last(Revisions).snap
                 /\ receipt[j].plan = "auto" => snaps[Last(Revisions).snap].of["auto"] = "original"
      BY DEF EInv, SnapshotFirst
    <3>2. Revisions # <<>> /\ Last(Revisions).snap = sn
      BY <2>5, <2>6 DEF Standing
    <3> QED BY <2>6, <2>8, <2>10, <2>11, <3>1, <3>2 DEF SnapshotFirst
  <2>17. RollbackEvidence'
    BY <2>10, <2>11 DEF EInv, RollbackEvidence
  <2>18. Carried(o, ops, Len(ops))
    BY <1>1, <2>1, <2>2, <2>8, <2>10 DEF Carried, Leafing, Folding
  <2>19. \A q \in Procs : Pending(q)'
    BY <1>1, <2>1, <2>2, <2>3, <2>12, <2>13, <2>18, GoesDue
  <2>20. ControlKept'
    BY <1>1, <1>3, <2>1, <2>2, ManifestStill, GoesControlled DEF EInv
  <2> QED BY <2>14, <2>15, <2>16, <2>17, <2>19, <2>20 DEF EInv
<1> QED BY <1>2, <1>3 DEF Install

LEMMA WriteReceiptEvident == ASSUME IInv, EInv, NEW p \in Procs, WriteReceipt(p) PROVE EInv'
<1>1. /\ Busy(p) /\ Arg(p).op = "receipt"
      /\ receipt' = [receipt EXCEPT ![Arg(p).inst] = Arg(p).body]
      /\ Continue(p, <<>>)
      /\ UNCHANGED <<proposal, record, snaps, registry, live, bounds>>
  BY DEF WriteReceipt, At, Arg
<1>2. PICK ops, o, c, i, b, s : /\ ops = <<>> /\ o = Arg(p) /\ c = job[p].cmd /\ i = o.inst /\ b = o.body
                                /\ s = job[p].todo
  OBVIOUS
<1>3. Moves(p, ops) /\ IsList(ops) /\ DOMAIN ops = {} /\ Len(ops) = 0
  BY <1>1, <1>2, Nothing, ContinueMoves
<1>4. lock = p
  BY <1>1, UnderLock DEF IInv, Creates
<1>5. i \in Installs /\ b \in [plan : Plans, snap : DOMAIN snaps] /\ s[1] = o /\ Due(p, c, s, 1)
  BY <1>1, <1>2, HeadDue DEF Fitting
<1>6. /\ Standing = b.snap /\ (b.plan = "auto" => snaps[b.snap].of["auto"] = "original")
      /\ receipt[i] = Begun /\ registry[i] = None
  <2>1. PICK l \in Nat : DOMAIN s = 1 .. l
    BY <1>1, <1>2, HeadList
  <2> QED BY <1>1, <1>2, <1>5, <2>1, HeadNeeds DEF Due, ReceiptDue
<1>7. b.snap \in DOMAIN snaps /\ b.snap # None /\ snaps[b.snap].clean
  BY <1>5, SnapsCount DEF EInv, SnapsKept
<1>8. b \notin {None, Begun}
  <2>1. DOMAIN snaps \subseteq Nat
    BY SnapsCount DEF EInv
  <2>2. b \in [plan : Plans, snap : Nat]
    BY <1>5, <2>1
  <2> QED BY <2>2, CampaignAssumption
<1>9. receipt \in [Installs -> {None, Begun} \cup [plan : Plans, snap : DOMAIN snaps]]
  BY DEF EInv, MachineKept
<1>10. /\ receipt'[i] = b /\ (\A j \in Installs \ {i} : receipt'[j] = receipt[j])
       /\ receipt' \in [Installs -> {None, Begun} \cup [plan : Plans, snap : DOMAIN snaps]]
  BY <1>1, <1>2, <1>5, <1>9
<1>11. registry' = registry /\ snaps' = snaps /\ live' = live
  BY <1>1
<1>12. /\ Whole' = Whole /\ SnapshotsNamed' = SnapshotsNamed /\ Revisions' = Revisions /\ Standing' = Standing
       /\ leaves' = leaves
  BY <1>1, RecordStill DEF record
<1>13. Persists
  BY <1>11, <1>12 DEF Persists
<1>14. \A j \in Installs : Real(j) => Real(j)'
  BY <1>8, <1>10 DEF Real
<1>15. RecordKept' /\ SnapsKept'
  <2>1. \A k, d : BodyOK(k, d) => BodyOK(k, d)'
    BY <1>11 DEF BodyOK
  <2> QED BY <1>11, <1>12, <2>1 DEF EInv, RecordKept, SnapsKept
<1>16. MachineKept'
  BY <1>10, <1>11, <1>14 DEF EInv, MachineKept
<1>17. SnapshotFirst'
  <2>1. \A j \in Installs \ {i} : receipt[j] # None =>
          /\ Revisions # <<>> /\ Last(Revisions).snap # None /\ snaps[Last(Revisions).snap].clean
          /\ receipt[j] # Begun =>
               /\ receipt[j].snap = Last(Revisions).snap
               /\ receipt[j].plan = "auto" => snaps[Last(Revisions).snap].of["auto"] = "original"
    BY DEF EInv, SnapshotFirst
  <2>2. Revisions # <<>> /\ Last(Revisions).snap = b.snap
    BY <1>6, <1>7 DEF Standing
  <2> QED BY <1>6, <1>7, <1>10, <1>11, <1>12, <2>1, <2>2 DEF SnapshotFirst
<1>18. RollbackEvidence'
  BY <1>11, <1>12 DEF EInv, RollbackEvidence
<1>19. Carried(o, ops, Len(ops))
  BY <1>1, <1>2, <1>3, <1>6, <1>8, <1>10, <1>11 DEF Carried, Leafing, Folding
<1>20. \A q \in Procs : Pending(q)'
  BY <1>1, <1>2, <1>3, <1>4, <1>13, <1>14, <1>19, GoesDue
<1>21. ControlKept'
  BY <1>1, <1>2, <1>3, ManifestStill, GoesControlled DEF EInv
<1> QED BY <1>15, <1>16, <1>17, <1>18, <1>20, <1>21 DEF EInv

LEMMA UpdateRegistryEvident == ASSUME IInv, EInv, NEW p \in Procs, UpdateRegistry(p) PROVE EInv'
<1>1. /\ Busy(p) /\ Arg(p).op = "registry"
      /\ registry' = [registry EXCEPT ![Arg(p).inst] = Arg(p).status]
      /\ Continue(p, <<>>)
      /\ UNCHANGED <<proposal, record, snaps, receipt, live, bounds>>
  BY DEF UpdateRegistry, At, Arg
<1>2. PICK ops, o, c, i, v, s : /\ ops = <<>> /\ o = Arg(p) /\ c = job[p].cmd /\ i = o.inst /\ v = o.status
                                /\ s = job[p].todo
  OBVIOUS
<1>3. Moves(p, ops) /\ IsList(ops) /\ DOMAIN ops = {} /\ Len(ops) = 0
  BY <1>1, <1>2, Nothing, ContinueMoves
<1>4. lock = p
  BY <1>1, UnderLock DEF IInv, Creates
<1>5. i \in Installs /\ s[1] = o /\ Due(p, c, s, 1) /\ Fitting(c, o)
  BY <1>1, <1>2, HeadDue DEF Fitting
<1>6. v \in {"active", "rolled_back", "drifted"} /\ Real(i) /\ (v # "active" => OnRecord(i, v))
  <2>1. PICK l \in Nat : DOMAIN s = 1 .. l
    BY <1>1, <1>2, HeadList
  <2>2. CASE c = "rollback"
    <3>1. v \in Rolled /\ registry[i] # None
      BY <1>1, <1>2, <1>5, <2>2 DEF Fitting
    <3>2. Real(i)
      BY <1>5, <3>1 DEF EInv, MachineKept
    <3>3. OnRecord(i, v)
      BY <1>1, <1>2, <1>5, <2>1, <2>2, HeadNeeds DEF Due, RegistryDue
    <3> QED BY <3>1, <3>2, <3>3 DEF Rolled
  <2>3. CASE c # "rollback"
    BY <1>1, <1>2, <1>5, <2>3 DEF Fitting, Due, RegistryDue
  <2> QED BY <2>2, <2>3
<1>7. v # None
  BY <1>6, CampaignAssumption
<1>8. registry \in [Installs -> {None, "active", "rolled_back", "drifted"}]
  BY DEF EInv, MachineKept
<1>9. /\ registry'[i] = v /\ (\A j \in Installs \ {i} : registry'[j] = registry[j])
      /\ registry' \in [Installs -> {None, "active", "rolled_back", "drifted"}]
  BY <1>1, <1>2, <1>5, <1>6, <1>8
<1>10. receipt' = receipt /\ snaps' = snaps /\ live' = live
  BY <1>1
<1>11. /\ Whole' = Whole /\ SnapshotsNamed' = SnapshotsNamed /\ Revisions' = Revisions /\ Standing' = Standing
       /\ leaves' = leaves
  BY <1>1, RecordStill DEF record
<1>12. Persists
  BY <1>7, <1>9, <1>10, <1>11 DEF Persists
<1>13. \A j \in Installs : Real(j) => Real(j)'
  BY <1>10 DEF Real
<1>14. RecordKept' /\ SnapsKept'
  <2>1. \A k, d : BodyOK(k, d) => BodyOK(k, d)'
    BY <1>10 DEF BodyOK
  <2> QED BY <1>10, <1>11, <2>1 DEF EInv, RecordKept, SnapsKept
<1>15. MachineKept'
  BY <1>6, <1>9, <1>10, <1>13 DEF EInv, MachineKept
<1>16. SnapshotFirst'
  BY <1>10, <1>11, SnapshotFirstStill DEF EInv
<1>17. RollbackEvidence'
  <2>1. ASSUME NEW j \in Installs, registry'[j] \in {"rolled_back", "drifted"}
        PROVE  <<"rollback", j>> \in Whole /\ leaves[<<"rollback", j>>].what = registry'[j]
    <3>1. CASE j = i
      BY <1>6, <1>9, <2>1, <3>1 DEF OnRecord
    <3>2. CASE j # i
      BY <1>9, <2>1, <3>2 DEF EInv, RollbackEvidence
    <3> QED BY <3>1, <3>2
  <2> QED BY <1>11, <2>1 DEF RollbackEvidence
<1>18. Carried(o, ops, Len(ops))
  BY <1>1, <1>2 DEF Carried, Leafing, Folding
<1>19. \A q \in Procs : Pending(q)'
  BY <1>1, <1>2, <1>3, <1>4, <1>12, <1>13, <1>18, GoesDue
<1>20. ControlKept'
  BY <1>1, <1>2, <1>3, ManifestStill, GoesControlled DEF EInv
<1> QED BY <1>14, <1>15, <1>16, <1>17, <1>19, <1>20 DEF EInv

-----------------------------------------------------------------------------
(* Steps that put an installation or a rollback in front. *)

LEMMA InstallationIs ==
    ASSUME NEW i, NEW t, NEW sn, NEW by, NEW ack, NEW u, u = Installation(i, t, sn, by, ack)
    PROVE  /\ IsList(u) /\ DOMAIN u = 1 .. 5 /\ Len(u) = 5
           /\ u[1] = [op |-> "install", inst |-> i, plan |-> t, ack |-> ack]
           /\ u[2] = [op |-> "receipt", inst |-> i, body |-> [plan |-> t, snap |-> sn]]
           /\ u[3] = [op |-> "registry", inst |-> i, status |-> "active"]
           /\ u[4] = Leaf("receipt", i, sn, by) /\ u[5] = Op("fold")
<1>1. PICK a, b, c, d, e : /\ a = [op |-> "install", inst |-> i, plan |-> t, ack |-> ack]
                           /\ b = [op |-> "receipt", inst |-> i, body |-> [plan |-> t, snap |-> sn]]
                           /\ c = [op |-> "registry", inst |-> i, status |-> "active"]
                           /\ d = Leaf("receipt", i, sn, by) /\ e = Op("fold")
  OBVIOUS
<1>2. u = <<a, b, c, d, e>>
  BY <1>1 DEF Installation
<1>3. u \in Seq({a, b, c, d, e}) /\ Len(u) = 5
  BY <1>2
<1>4. IsList(u) /\ DOMAIN u = 1 .. 5
  BY <1>3, Lists
<1> QED BY <1>1, <1>2, <1>3, <1>4

\* The operations of an installation, from after the h-th.
InstallAt(s, h, i, t, sn, by, ack) ==
    /\ s[h + 1] = [op |-> "install", inst |-> i, plan |-> t, ack |-> ack]
    /\ s[h + 2] = [op |-> "receipt", inst |-> i, body |-> [plan |-> t, snap |-> sn]]
    /\ s[h + 3] = [op |-> "registry", inst |-> i, status |-> "active"]
    /\ s[h + 4] = Leaf("receipt", i, sn, by) /\ s[h + 5] = Op("fold")

LEMMA InstallationDue ==
    ASSUME NEW p, NEW c, c # "rollback", NEW s, NEW h \in Nat, NEW l \in Nat, DOMAIN s = 1 .. l, h + 5 <= l,
           NEW i \in Installs, NEW t \in Plans, NEW sn \in DOMAIN snaps', NEW by, NEW ack,
           InstallAt(s, h, i, t, sn, by, ack),
           WillStand(s, h + 1, sn)', t = "auto" => WillCover(s, h + 1, sn)'
    PROVE  /\ Due(p, c, s, h + 1)' /\ Due(p, c, s, h + 2)' /\ Due(p, c, s, h + 3)'
           /\ Due(p, c, s, h + 4)' /\ Due(p, c, s, h + 5)'
<1>s. /\ s[h + 1] = [op |-> "install", inst |-> i, plan |-> t, ack |-> ack]
      /\ s[h + 2] = [op |-> "receipt", inst |-> i, body |-> [plan |-> t, snap |-> sn]]
      /\ s[h + 3] = [op |-> "registry", inst |-> i, status |-> "active"]
      /\ s[h + 4] = Leaf("receipt", i, sn, by) /\ s[h + 5] = Op("fold")
  BY DEF InstallAt
<1>1. Due(p, c, s, h + 1)'
  <2>1. PICK n, o : n = h + 1 /\ o = s[n]
    OBVIOUS
  <2>2. o.op = "install" /\ o.inst = i /\ o.plan = t
    BY <1>s, <2>1
  <2>3. Fitting(c, o)'
    BY <2>2 DEF Fitting, Leafing
  <2>4. InstallDue(s, n)'
    BY <2>1 DEF InstallDue
  <2>5. ReceiptDue(s, n)' /\ RegistryDue(c, s, n)' /\ RestoreDue(s, n)' /\ AttachDue(p, s, n)'
    BY <2>1, <2>2 DEF ReceiptDue, RegistryDue, RestoreDue, AttachDue
  <2>6. Due(p, c, s, n)'
    BY <2>1, <2>3, <2>4, <2>5 DEF Due
  <2> QED BY <2>1, <2>6
<1>2. Due(p, c, s, h + 2)'
  <2>1. PICK n, o : n = h + 2 /\ o = s[n]
    OBVIOUS
  <2>2. o.op = "receipt" /\ o.inst = i /\ o.body = [plan |-> t, snap |-> sn] /\ o.body.snap = sn /\ o.body.plan = t
    BY <1>s, <2>1
  <2>3. Fitting(c, o)'
    BY <2>2 DEF Fitting, Leafing
  <2>4. ReceiptDue(s, n)'
    <3>1. \A m \in Nat : m < h + 1 => m < n
      BY <2>1
    <3>2. WillStand(s, n, sn)' /\ (t = "auto" => WillCover(s, n, sn)')
      BY <3>1 DEF WillStand, WillCover
    <3>3. n # 1 /\ n - 1 = h + 1
      BY <2>1
    <3>4. s[n - 1].op = "install" /\ s[n - 1].inst = i
      BY <1>s, <3>3
    <3> QED BY <2>1, <2>2, <3>2, <3>3, <3>4 DEF ReceiptDue
  <2>5. InstallDue(s, n)' /\ RegistryDue(c, s, n)' /\ RestoreDue(s, n)' /\ AttachDue(p, s, n)'
    BY <2>1, <2>2 DEF InstallDue, RegistryDue, RestoreDue, AttachDue
  <2>6. Due(p, c, s, n)'
    BY <2>1, <2>3, <2>4, <2>5 DEF Due
  <2> QED BY <2>1, <2>6
<1>3. Due(p, c, s, h + 3)'
  <2>1. PICK n, o : n = h + 3 /\ o = s[n]
    OBVIOUS
  <2>2. o.op = "registry" /\ o.inst = i /\ o.status = "active"
    BY <1>s, <2>1
  <2>3. Fitting(c, o)'
    BY <2>2 DEF Fitting, Leafing
  <2>4. RegistryDue(c, s, n)'
    <3>1. n # 1 /\ n - 1 = h + 2
      BY <2>1
    <3>2. s[n - 1].op = "receipt" /\ s[n - 1].inst = i
      BY <1>s, <3>1
    <3> QED BY <2>1, <2>2, <3>1, <3>2 DEF RegistryDue
  <2>5. InstallDue(s, n)' /\ ReceiptDue(s, n)' /\ RestoreDue(s, n)' /\ AttachDue(p, s, n)'
    BY <2>1, <2>2 DEF InstallDue, ReceiptDue, RestoreDue, AttachDue
  <2>6. Due(p, c, s, n)'
    BY <2>1, <2>3, <2>4, <2>5 DEF Due
  <2> QED BY <2>1, <2>6
<1>4. Due(p, c, s, h + 4)'
  <2>1. PICK k, b : k = <<"receipt", i>> /\ b = [snap |-> sn, what |-> by]
    OBVIOUS
  <2>2. PICK n, o : n = h + 4 /\ o = s[n]
    OBVIOUS
  <2>3. o.op = "leaf" /\ o.key = k /\ o.body = b
    BY <1>s, <2>1, <2>2, LeafIs
  <2>4. k[1] = "receipt" /\ b.snap = sn
    BY <2>1
  <2>5. BodyOK(k, b)'
    BY <2>4 DEF BodyOK, LeafTypes
  <2>6. o.op \notin Placed /\ Fitting(c, o)'
    BY <2>3, <2>5 DEF Placed, Fitting, Leafing
  <2>7. Due(p, c, s, n)'
    BY <2>2, <2>6, Anywhere
  <2> QED BY <2>2, <2>7
<1>5. Due(p, c, s, h + 5)'
  <2>1. PICK n, o : n = h + 5 /\ o = s[n]
    OBVIOUS
  <2>2. o.op = "fold"
    BY <1>s, <2>1, Word DEF Words
  <2>3. o.op \notin Placed /\ Fitting(c, o)'
    BY <2>2 DEF Placed, Fitting, Leafing
  <2>4. Due(p, c, s, n)'
    BY <2>1, <2>3, Anywhere
  <2> QED BY <2>1, <2>4
<1> QED BY <1>1, <1>2, <1>3, <1>4, <1>5

\* As PassOn, of what the operations need in the next state.
LEMMA PassNext ==
    ASSUME IInv, EInv, NEW p \in Procs, Busy(p), Arg(p).op \notin Passing, NEW ops, IsList(ops), Continue(p, ops),
           UNCHANGED <<proposal, record, machine, bounds>>,
           NEW c, c = job[p].cmd, \A n \in DOMAIN ops : Due(p, c, ops, n)'
    PROVE  EInv'
<1>1. PICK o : o = Arg(p)
  OBVIOUS
<1>2. o.op # "done" /\ Carried(o, ops, Len(ops))
  BY <1>1 DEF Carried, Passing, Leafing, Folding
<1>3. Moves(p, ops) /\ UNCHANGED <<record, machine>> /\ UNCHANGED <<receipt, registry, leaves>> /\ UNCHANGED bounds
  BY ContinueMoves DEF record, machine
<1>4. \A q \in Procs : Pending(q)'
  BY <1>1, <1>2, <1>3, Unchanged, GoesDue
<1>5. ControlKept'
  BY <1>1, <1>2, <1>3, ManifestStill, GoesControlled DEF EInv
<1> QED BY <1>3, <1>4, <1>5, Unchanged DEF EInv

LEMMA ReviewedEvident == ASSUME IInv, EInv, NEW p \in Procs, Reviewed(p) PROVE EInv'
<1>1. Busy(p) /\ Arg(p).op = "reviewed" /\ Arg(p).op \notin Passing
  BY DEF Reviewed, At, Arg, Passing
<1>2. CASE Refuse(p)
  BY <1>2, RefuseEvident
<1>3. CASE /\ Bound(Arg(p).result)
           /\ Continue(p, Installation(Arg(p).inst, leaves[Arg(p).result].what[1], leaves[Arg(p).result].snap,
                                       leaves[Arg(p).result].what[1], Arg(p).ack))
           /\ UNCHANGED <<proposal, record, machine, bounds>>
  <2>1. PICK r, i, w, sn, ack, c, ops :
           /\ r = Arg(p).result /\ i = Arg(p).inst /\ w = leaves[r].what[1] /\ sn = leaves[r].snap
           /\ ack = Arg(p).ack /\ c = job[p].cmd /\ ops = Installation(i, w, sn, w, ack)
    OBVIOUS
  <2>2. Continue(p, ops)
    BY <1>3, <2>1
  <2>3. i \in Installs /\ c # "rollback"
    BY <1>1, <2>1, HeadDue DEF Fitting
  <2>4. r \in Whole /\ r[1] = "work-order-result" /\ Readable /\ Index.snap = sn
    BY <1>3, <2>1 DEF Bound, Accepted
  <2>5. w \in Orders /\ sn # None
    BY <2>1, <2>4 DEF EInv, RecordKept, BodyOK
  <2>6. Standing = sn /\ sn \in DOMAIN snaps
    BY <2>4, <2>5, IndexStands
  <2>7. Standing' = sn /\ sn \in DOMAIN snaps' /\ w \in Plans /\ w # "auto"
    BY <1>3, <2>5, <2>6, RecordStill, CampaignAssumption DEF machine, Plans
  <2>8. /\ IsList(ops) /\ DOMAIN ops = 1 .. 5 /\ Len(ops) = 5
        /\ ops[1] = [op |-> "install", inst |-> i, plan |-> w, ack |-> ack]
        /\ ops[2] = [op |-> "receipt", inst |-> i, body |-> [plan |-> w, snap |-> sn]]
        /\ ops[3] = [op |-> "registry", inst |-> i, status |-> "active"]
        /\ ops[4] = Leaf("receipt", i, sn, w) /\ ops[5] = Op("fold")
    BY <2>1, InstallationIs
  <2>9. WillStand(ops, 0 + 1, sn)'
    BY <2>7 DEF WillStand
  <2>10. /\ Due(p, c, ops, 0 + 1)' /\ Due(p, c, ops, 0 + 2)' /\ Due(p, c, ops, 0 + 3)'
         /\ Due(p, c, ops, 0 + 4)' /\ Due(p, c, ops, 0 + 5)'
    <3>1. 0 + 5 <= 5 /\ 0 \in Nat /\ 5 \in Nat
      OBVIOUS
    <3>2. InstallAt(ops, 0, i, w, sn, w, ack)
      BY <2>8 DEF InstallAt
    <3> QED BY <2>3, <2>7, <2>8, <2>9, <3>1, <3>2, InstallationDue
  <2>11. ASSUME NEW n \in DOMAIN ops PROVE Due(p, c, ops, n)'
    <3>1. n = 0 + 1 \/ n = 0 + 2 \/ n = 0 + 3 \/ n = 0 + 4 \/ n = 0 + 5
      BY <2>8
    <3> QED BY <2>10, <3>1
  <2> QED BY <1>1, <1>3, <2>1, <2>2, <2>8, <2>11, PassNext, Zenon
<1> QED BY <1>2, <1>3 DEF Reviewed

\* u is s and then t, m and l operations.
Joins(u, s, t, m, l) ==
    /\ IsList(u) /\ m \in Nat /\ l \in Nat /\ Len(u) = m + l /\ DOMAIN u = 1 .. m + l
    /\ \A n \in 1 .. m : u[n] = s[n]
    /\ \A n \in m + 1 .. m + l : u[n] = t[n - m]

LEMMA JoinedIs == ASSUME NEW s, NEW t, IsList(s), IsList(t) PROVE Joins(s \o t, s, t, Len(s), Len(t))
BY Joined, Zenon DEF Joins

\* What a campaign apply has left, once it is bound to snapshot sn.
ApplyList(u, i, sn, by, ack) ==
    /\ IsList(u) /\ DOMAIN u = 1 .. 6 /\ Len(u) = 6
    /\ u[1] = [op |-> "covered", snap |-> sn]
    /\ u[2] = [op |-> "install", inst |-> i, plan |-> "auto", ack |-> ack]
    /\ u[3] = [op |-> "receipt", inst |-> i, body |-> [plan |-> "auto", snap |-> sn]]
    /\ u[4] = [op |-> "registry", inst |-> i, status |-> "active"]
    /\ u[5] = Leaf("receipt", i, sn, by) /\ u[6] = Op("fold")

LEMMA RestIs ==
    ASSUME NEW b, NEW sn, NEW u, u = Rest(b, sn), b.type = "snapshot"
    PROVE  \E i, by, ack : i = b.inst /\ ApplyList(u, i, sn, by, ack)
<1>1. PICK a, g, i, auto, by, ack, v :
         /\ a = [op |-> "covered", snap |-> sn] /\ g = <<a>> /\ i = b.inst /\ auto = "auto"
         /\ by = "system-apply" /\ ack = FALSE /\ v = Installation(i, auto, sn, by, ack)
  OBVIOUS
<1>2. u = g \o v
  BY <1>1 DEF Rest
<1>3. IsList(g) /\ Len(g) = 1 /\ g[1] = a
  BY <1>1, Tuples
<1>4. v = Installation(i, auto, sn, by, ack)
  BY <1>1
<1>5. /\ IsList(v) /\ Len(v) = 5
      /\ v[1] = [op |-> "install", inst |-> i, plan |-> auto, ack |-> ack]
      /\ v[2] = [op |-> "receipt", inst |-> i, body |-> [plan |-> auto, snap |-> sn]]
      /\ v[3] = [op |-> "registry", inst |-> i, status |-> "active"]
      /\ v[4] = Leaf("receipt", i, sn, by) /\ v[5] = Op("fold")
  BY <1>4, InstallationIs
<1>6. PICK m, l : m = Len(g) /\ l = Len(v)
  OBVIOUS
<1>7. /\ IsList(u) /\ Len(u) = m + l /\ DOMAIN u = 1 .. m + l
      /\ \A n \in 1 .. m : u[n] = g[n]
      /\ \A n \in m + 1 .. m + l : u[n] = v[n - m]
  <2>1. IsList(g) /\ IsList(v)
    BY <1>3, <1>5
  <2>2. Joins(u, g, v, m, l)
    BY <1>2, <1>6, <2>1, JoinedIs
  <2> QED BY <2>2 DEF Joins
<1>8. m = 1 /\ l = 5
  BY <1>3, <1>5, <1>6
<1>9. u[1] = a /\ u[2] = v[1] /\ u[3] = v[2] /\ u[4] = v[3] /\ u[5] = v[4] /\ u[6] = v[5]
  BY <1>3, <1>7, <1>8
<1>10. DOMAIN u = 1 .. 6 /\ Len(u) = 6
  BY <1>7, <1>8
<1>11. ApplyList(u, i, sn, by, ack)
  BY <1>1, <1>5, <1>7, <1>9, <1>10 DEF ApplyList
<1> QED BY <1>1, <1>11

LEMMA RestDue ==
    ASSUME NEW p, NEW c, NEW b, b.op = "bind", Fitting(c, b), NEW sn \in DOMAIN snaps',
           NEW u, u = Rest(b, sn), NEW s, NEW h \in Nat, NEW l \in Nat, DOMAIN s = 1 .. l,
           h + Len(u) <= l, \A m \in 1 .. Len(u) : s[h + m] = u[m], WillStand(s, h + 1, sn)'
    PROVE  IsList(u) /\ \A m \in 1 .. Len(u) : Due(p, c, s, h + m)'
<1>1. c # "rollback" /\ (b.type = "snapshot" => b.inst \in Installs)
      /\ (b.type = "snapshot-binding" => b.order \in Orders) /\ b.type \in {"snapshot", "snapshot-binding"}
  BY DEF Fitting
<1>2. CASE b.type = "snapshot"
  <2>1. PICK i, by, ack : i = b.inst /\ ApplyList(u, i, sn, by, ack)
    BY <1>2, RestIs
  <2>2. /\ i = b.inst /\ IsList(u) /\ Len(u) = 6
        /\ u[1] = [op |-> "covered", snap |-> sn]
        /\ u[2] = [op |-> "install", inst |-> i, plan |-> "auto", ack |-> ack]
        /\ u[3] = [op |-> "receipt", inst |-> i, body |-> [plan |-> "auto", snap |-> sn]]
        /\ u[4] = [op |-> "registry", inst |-> i, status |-> "active"]
        /\ u[5] = Leaf("receipt", i, sn, by) /\ u[6] = Op("fold")
    BY <2>1 DEF ApplyList
  <2>3. PICK g : g = h + 1
    OBVIOUS
  <2>4. g \in Nat /\ g + 5 <= l /\ g \in DOMAIN s /\ g < g + 1
        /\ h + 1 = g /\ h + 2 = g + 1 /\ h + 3 = g + 2 /\ h + 4 = g + 3 /\ h + 5 = g + 4 /\ h + 6 = g + 5
    BY <2>2, <2>3
  <2>5. /\ s[g] = [op |-> "covered", snap |-> sn]
        /\ s[g + 1] = [op |-> "install", inst |-> i, plan |-> "auto", ack |-> ack]
        /\ s[g + 2] = [op |-> "receipt", inst |-> i, body |-> [plan |-> "auto", snap |-> sn]]
        /\ s[g + 3] = [op |-> "registry", inst |-> i, status |-> "active"]
        /\ s[g + 4] = Leaf("receipt", i, sn, by) /\ s[g + 5] = Op("fold")
    <3>1. s[h + 1] = u[1] /\ s[h + 2] = u[2] /\ s[h + 3] = u[3] /\ s[h + 4] = u[4] /\ s[h + 5] = u[5] /\ s[h + 6] = u[6]
      <4>1. \A m \in 1 .. 6 : s[h + m] = u[m]
        BY <2>2
      <4> QED BY <4>1
    <3> QED BY <2>2, <2>4, <3>1
  <2>6. s[g].op = "covered" /\ s[g].snap = sn
    BY <2>5
  <2>7. WillStand(s, g + 1, sn)'
    <3>1. \A m \in Nat : m < g => m < g + 1
      BY <2>4
    <3>2. WillStand(s, g, sn)'
      BY <2>3
    <3> QED BY <3>1, <3>2 DEF WillStand
  <2>8. WillCover(s, g + 1, sn)'
    BY <2>4, <2>6 DEF WillCover
  <2>9. i \in Installs /\ "auto" \in Plans /\ c # "rollback"
    BY <1>1, <1>2, <2>2 DEF Plans
  <2>10. /\ Due(p, c, s, g + 1)' /\ Due(p, c, s, g + 2)' /\ Due(p, c, s, g + 3)'
         /\ Due(p, c, s, g + 4)' /\ Due(p, c, s, g + 5)'
    <3>1. PICK auto : auto = "auto"
      OBVIOUS
    <3>2. auto \in Plans /\ InstallAt(s, g, i, auto, sn, by, ack)
      BY <2>5, <2>9, <3>1 DEF InstallAt
    <3> QED BY <2>4, <2>7, <2>8, <2>9, <3>2, InstallationDue
  <2>11. Due(p, c, s, g)'
    <3>1. PICK o : o = s[g]
      OBVIOUS
    <3>2. o.op \notin Placed /\ Fitting(c, o)'
      BY <1>1, <2>6, <3>1 DEF Placed, Fitting, Leafing
    <3> QED BY <3>1, <3>2, Anywhere
  <2>12. ASSUME NEW m \in 1 .. Len(u) PROVE Due(p, c, s, h + m)'
    <3>1. m \in 1 .. 6
      BY <2>2
    <3>2. PICK n : n = h + m
      OBVIOUS
    <3>3. n \in {g, g + 1, g + 2, g + 3, g + 4, g + 5}
      BY <2>3, <3>1, <3>2
    <3>4. Due(p, c, s, n)'
      BY <2>10, <2>11, <3>3
    <3> QED BY <3>2, <3>4
  <2> QED BY <2>2, <2>12
<1>3. CASE b.type = "snapshot-binding"
  <2>1. PICK o : o = [op |-> "run", order |-> b.order, attempt |-> b.attempt, snap |-> sn]
    OBVIOUS
  <2>2. u = <<o>>
    BY <1>3, <2>1 DEF Rest
  <2>3. IsList(u) /\ Len(u) = 1 /\ u[1] = o
    BY <2>2, Tuples
  <2>4. PICK n : n = h + 1
    OBVIOUS
  <2>5. s[n] = o
    BY <2>3, <2>4
  <2>6. o.op \notin Placed /\ Fitting(c, o)'
    BY <1>1, <1>3, <2>1 DEF Placed, Fitting, Leafing
  <2>7. Due(p, c, s, n)'
    BY <2>5, <2>6, Anywhere
  <2>8. \A m \in 1 .. Len(u) : m = 1
    BY <2>3
  <2> QED BY <2>3, <2>4, <2>7, <2>8
<1> QED BY <1>1, <1>2, <1>3

\* A snapshot was taken, before anything was installed.
LEMMA SnapKept ==
    ASSUME EInv, NEW x, x.clean, x.of \in [Plans -> Contents], snaps' = Append(snaps, x),
           UNCHANGED <<record, receipt, registry, live>>, \A i \in Installs : receipt[i] = None
    PROVE  /\ RecordKept' /\ SnapsKept' /\ MachineKept' /\ SnapshotFirst' /\ RollbackEvidence' /\ Persists
           /\ (\A i \in Installs : Real(i) => Real(i)') /\ Len(snaps) + 1 \in DOMAIN snaps'
<1>1. PICK r, t, n : r = snaps /\ t = snaps' /\ n = Len(r)
  OBVIOUS
<1>2. IsList(r) /\ \A m \in DOMAIN r : r[m].clean /\ r[m].of \in [Plans -> Contents]
  BY <1>1 DEF EInv, SnapsKept
<1>3. /\ t = Append(r, x) /\ IsList(t) /\ n \in Nat /\ DOMAIN r = 1 .. n /\ DOMAIN t = 1 .. n + 1
      /\ t[n + 1] = x /\ \A m \in 1 .. n : t[m] = r[m]
  BY <1>1, <1>2, Appended
<1>4. \A m \in 1 .. n + 1 : m = n + 1 \/ m \in 1 .. n
  BY <1>3
<1>5. n + 1 \in DOMAIN t /\ DOMAIN r \subseteq DOMAIN t /\ \A m \in DOMAIN r : t[m] = r[m]
  BY <1>3
<1>6. \A m \in DOMAIN t : t[m].clean /\ t[m].of \in [Plans -> Contents]
  BY <1>2, <1>3, <1>4
<1>7. SnapsKept'
  BY <1>1, <1>3, <1>6 DEF SnapsKept
<1>8. /\ Whole' = Whole /\ SnapshotsNamed' = SnapshotsNamed /\ Revisions' = Revisions /\ Standing' = Standing
      /\ leaves' = leaves /\ receipt' = receipt /\ registry' = registry /\ live' = live
  BY RecordStill DEF record
<1>9. \A k, b : BodyOK(k, b) => BodyOK(k, b)'
  BY <1>1, <1>5 DEF BodyOK
<1>10. RecordKept'
  BY <1>8, <1>9 DEF EInv, RecordKept
<1>11. MachineKept'
  <2>1. \A b : b \in [plan : Plans, snap : DOMAIN r] => b \in [plan : Plans, snap : DOMAIN t]
    BY <1>5
  <2>2. receipt \in [Installs -> {None, Begun} \cup [plan : Plans, snap : DOMAIN r]]
    BY <1>1 DEF EInv, MachineKept
  <2>3. receipt \in [Installs -> {None, Begun} \cup [plan : Plans, snap : DOMAIN t]]
    BY <2>1, <2>2
  <2> QED BY <1>1, <1>8, <2>3 DEF EInv, MachineKept, Real
<1>12. Persists
  BY <1>1, <1>5, <1>8 DEF Persists
<1>13. SnapshotFirst'
  BY <1>8 DEF SnapshotFirst
<1>14. RollbackEvidence'
  BY <1>8 DEF EInv, RollbackEvidence
<1> QED BY <1>1, <1>5, <1>7, <1>8, <1>10, <1>11, <1>12, <1>13, <1>14 DEF Real

LEMMA BindEvident == ASSUME IInv, EInv, NEW p \in Procs, Bind(p) PROVE EInv'
<1>1. Busy(p) /\ Arg(p).op = "bind" /\ Arg(p).op \notin Passing
  BY DEF Bind, At, Arg, Passing
<1>2. PICK b, c : b = Arg(p) /\ c = job[p].cmd
  OBVIOUS
<1>3. b.op = "bind" /\ Fitting(c, b)
  BY <1>1, <1>2, HeadDue
<1>4. CASE Refuse(p)
  BY <1>4, RefuseEvident
<1>5. CASE /\ Readable /\ Index.snap # None /\ Continue(p, Rest(Arg(p), Index.snap))
           /\ UNCHANGED <<proposal, record, machine, bounds>>
  <2>1. PICK sn, u : sn = Index.snap /\ u = Rest(b, sn)
    OBVIOUS
  <2>2. Standing = sn /\ sn \in DOMAIN snaps /\ Continue(p, u)
    BY <1>2, <1>5, <2>1, IndexStands
  <2>3. Standing' = sn /\ sn \in DOMAIN snaps'
    BY <1>5, <2>2, RecordStill DEF machine
  <2>4. WillStand(u, 0 + 1, sn)'
    BY <2>3 DEF WillStand
  <2>5. IsList(u)
    BY <2>1, RestOk DEF PlainList
  <2>6. PICK l : l = Len(u)
    OBVIOUS
  <2>7. l \in Nat /\ DOMAIN u = 1 .. l /\ 0 + l <= l /\ 0 \in Nat /\ \A m \in 1 .. l : 0 + m = m
    BY <2>5, <2>6, Lists DEF IsList
  <2>8. \A m \in 1 .. Len(u) : Due(p, c, u, 0 + m)'
    BY <1>3, <2>1, <2>3, <2>4, <2>6, <2>7, RestDue
  <2>9. \A m \in DOMAIN u : Due(p, c, u, m)'
    BY <2>6, <2>7, <2>8
  <2> QED BY <1>1, <1>2, <1>5, <2>2, <2>5, <2>9, PassNext
<1>6. CASE /\ Readable /\ Index.snap = None
           /\ snaps' = Append(snaps, [of |-> live, clean |-> \A i \in Installs : receipt[i] = None])
           /\ Continue(p, Binding(Arg(p).type, Len(snaps) + 1) \o Rest(Arg(p), Len(snaps) + 1))
           /\ UNCHANGED <<proposal, record, receipt, registry, live, bounds>>
  <2>1. PICK sn, u, x, a, f, g, ops, o :
           /\ sn = Len(snaps) + 1 /\ u = Rest(b, sn)
           /\ x = [of |-> live, clean |-> \A i \in Installs : receipt[i] = None]
           /\ a = Leaf(b.type, sn, sn, None) /\ f = Op("fold") /\ g = <<a, f>>
           /\ ops = g \o u /\ o = Arg(p)
    OBVIOUS
  <2>2. Continue(p, ops) /\ snaps' = Append(snaps, x)
    BY <1>2, <1>6, <2>1 DEF Binding
  <2>3. \A i \in Installs : receipt[i] = None
    <3>1. Standing = None
      BY <1>6, IndexStands
    <3> QED BY <3>1, SnapshotFirstIs DEF EInv
  <2>4. x.clean /\ x.of \in [Plans -> Contents]
    BY <2>1, <2>3 DEF EInv, MachineKept
  <2>5. /\ RecordKept' /\ SnapsKept' /\ MachineKept' /\ SnapshotFirst' /\ RollbackEvidence' /\ Persists
        /\ (\A i \in Installs : Real(i) => Real(i)') /\ sn \in DOMAIN snaps'
    <3>1. UNCHANGED <<record, receipt, registry, live>>
      BY <1>6
    <3> QED BY <2>1, <2>2, <2>3, <2>4, <3>1, SnapKept
  <2>6. IsList(g) /\ Len(g) = 2 /\ g[1] = a /\ g[2] = f
    BY <2>1, Tuples
  <2>7. IsList(u)
    BY <2>1, RestOk DEF PlainList
  <2>8. PICK k : k = Len(u)
    OBVIOUS
  <2>9. /\ IsList(ops) /\ k \in Nat /\ Len(ops) = 2 + k /\ DOMAIN ops = 1 .. 2 + k
        /\ (\A m \in 1 .. 2 : ops[m] = g[m]) /\ \A m \in 2 + 1 .. 2 + k : ops[m] = u[m - 2]
    <3>1. PICK l : l = Len(g)
      OBVIOUS
    <3>2. /\ IsList(ops) /\ k \in Nat /\ Len(ops) = l + k /\ DOMAIN ops = 1 .. l + k
          /\ (\A m \in 1 .. l : ops[m] = g[m]) /\ \A m \in l + 1 .. l + k : ops[m] = u[m - l]
      <4>1. IsList(g) /\ IsList(u) /\ ops = g \o u
        BY <2>1, <2>6, <2>7
      <4>2. Joins(ops, g, u, l, k)
        BY <2>8, <3>1, <4>1, JoinedIs
      <4> QED BY <4>2 DEF Joins
    <3>3. l = 2
      BY <2>6, <3>1
    <3> QED BY <3>2, <3>3
  <2>10. 1 \in DOMAIN ops /\ 2 \in DOMAIN ops /\ ops[1] = a /\ ops[2] = f
    BY <2>6, <2>9
  <2>11. \A m \in 1 .. k : ops[2 + m] = u[m]
    <3>1. \A m \in 1 .. k : 2 + m \in 2 + 1 .. 2 + k /\ (2 + m) - 2 = m
      BY <2>9
    <3> QED BY <2>9, <3>1
  <2>12. a.op = "leaf" /\ a.body.snap = sn /\ f.op = "fold"
    <3>1. PICK type, none : type = b.type /\ none = None
      OBVIOUS
    <3>2. a = Leaf(type, sn, sn, none)
      BY <2>1, <3>1
    <3>3. a.op = "leaf" /\ a.body.snap = sn
      BY <3>2 DEF Leaf
    <3> QED BY <2>1, <3>3, Word DEF Words
  <2>13. WillStand(ops, 2 + 1, sn)'
    <3>1. WillName(ops, 2, sn)'
      BY <2>10, <2>12 DEF WillName, Leafing
    <3> QED BY <2>10, <2>12, <3>1 DEF WillStand, Folding
  <2>14. Due(p, c, ops, 1)'
    <3>1. PICK kk, bb : kk = <<b.type, sn>> /\ bb = [snap |-> sn, what |-> None]
      OBVIOUS
    <3>2. a.key = kk /\ a.body = bb
      BY <2>1, <3>1, LeafIs
    <3>3. kk[1] \in {"snapshot", "snapshot-binding"} /\ bb.snap = sn
      BY <1>3, <3>1 DEF Fitting
    <3>4. BodyOK(kk, bb)'
      BY <2>5, <3>3 DEF BodyOK, LeafTypes
    <3>5. a.op \notin Placed /\ Fitting(c, a)'
      BY <2>12, <3>2, <3>4 DEF Placed, Fitting, Leafing
    <3> QED BY <2>10, <3>5, Anywhere
  <2>15. Due(p, c, ops, 2)'
    <3>1. f.op \notin Placed /\ Fitting(c, f)'
      BY <2>12 DEF Placed, Fitting, Leafing
    <3> QED BY <2>10, <3>1, Anywhere
  <2>16. \A m \in 1 .. k : Due(p, c, ops, 2 + m)'
    <3>1. 2 \in Nat /\ 2 + k \in Nat /\ 2 + k <= 2 + k
      BY <2>9
    <3>2. PICK h, l : h = 2 /\ l = 2 + k
      OBVIOUS
    <3>3. /\ h \in Nat /\ l \in Nat /\ DOMAIN ops = 1 .. l /\ h + Len(u) <= l
          /\ (\A m \in 1 .. Len(u) : ops[h + m] = u[m]) /\ WillStand(ops, h + 1, sn)'
      BY <2>8, <2>9, <2>11, <2>13, <3>1, <3>2
    <3>4. sn \in DOMAIN snaps' /\ u = Rest(b, sn)
      BY <2>1, <2>5
    <3>5. \A m \in 1 .. Len(u) : Due(p, c, ops, h + m)'
      BY <1>3, <3>3, <3>4, RestDue
    <3> QED BY <2>8, <3>2, <3>5
  <2>17. ASSUME NEW m \in DOMAIN ops PROVE Due(p, c, ops, m)'
    <3>1. CASE m = 1
      BY <2>14, <3>1
    <3>2. CASE m = 2
      BY <2>15, <3>2
    <3>3. CASE m # 1 /\ m # 2
      <4>1. PICK j \in 1 .. k : m = 2 + j
        <5>1. m - 2 \in 1 .. k /\ m = 2 + (m - 2)
          BY <2>9, <3>3
        <5> QED BY <5>1
      <4> QED BY <2>16, <4>1
    <3> QED BY <3>1, <3>2, <3>3
  <2>18. Moves(p, ops)
    BY <2>2, ContinueMoves
  <2>19. Carried(o, ops, Len(ops)) /\ o.op # "done"
    BY <1>1, <2>1 DEF Carried, Leafing, Folding
  <2>20. \A q \in Procs : Pending(q)'
    <3>1. UNCHANGED <<receipt, registry, leaves>>
      BY <1>6 DEF record
    <3>2. \A m \in DOMAIN ops : Due(p, c, ops, m)'
      BY <2>17
    <3> QED BY <1>1, <1>2, <2>1, <2>5, <2>9, <2>18, <2>19, <3>1, <3>2, GoesDue
  <2>21. ControlKept'
    BY <1>1, <1>6, <2>1, <2>9, <2>18, <2>19, ManifestStill, GoesControlled DEF EInv
  <2> QED BY <2>5, <2>20, <2>21 DEF EInv
<1> QED BY <1>4, <1>5, <1>6 DEF Bind

LEMMA Quadruple ==
    ASSUME NEW a, NEW b, NEW c, NEW d, NEW u, u = <<a, b, c, d>>
    PROVE  IsList(u) /\ DOMAIN u = 1 .. 4 /\ Len(u) = 4 /\ u[1] = a /\ u[2] = b /\ u[3] = c /\ u[4] = d
<1>1. u \in Seq({a, b, c, d}) /\ Len(u) = 4 /\ u[1] = a /\ u[2] = b /\ u[3] = c /\ u[4] = d
  OBVIOUS
<1> QED BY <1>1, Lists

LEMMA RestoreEvident == ASSUME IInv, EInv, NEW p \in Procs, Restore(p) PROVE EInv'
<1>1. Busy(p) /\ Arg(p).op = "restore" /\ UNCHANGED <<proposal, record, snaps, receipt, registry, bounds>>
  BY Zenon DEF Restore, At, Arg
<1>2. PICK i, t, c, o : i = Arg(p).inst /\ t = receipt[i].plan /\ c = job[p].cmd /\ o = Arg(p)
  OBVIOUS
<1>3. i \in Installs /\ registry[i] # None /\ c = "rollback"
  BY <1>1, <1>2, HeadDue DEF Fitting
<1>4. lock = p
  BY <1>1, UnderLock DEF IInv, Creates
<1>5. Real(i) /\ t \in Plans /\ receipt[i].snap \in DOMAIN snaps
  <2>1. Real(i)
    BY <1>3 DEF EInv, MachineKept
  <2> QED BY <1>2, <1>3, <2>1, RealReceipt
<1>6. live' \in [Plans -> Contents]
  <2>1. live \in [Plans -> Contents]
    BY DEF EInv, MachineKept
  <2>2. live' = [live EXCEPT ![t] = IF @ = "installed" THEN "original" ELSE @]
    BY <1>2 DEF Restore
  <2> QED BY <1>5, <2>1, <2>2 DEF Contents
<1>7. PICK status \in Rolled : Continue(p, RollbackRecord(i, status))
  BY <1>2 DEF Restore, Rolled
<1>8. PICK sn, a, b, f, d, ops :
         /\ sn = receipt[i].snap /\ a = Op("load") /\ b = Leaf("rollback", i, sn, status) /\ f = Op("fold")
         /\ d = [op |-> "registry", inst |-> i, status |-> status] /\ ops = <<a, b, f, d>>
  OBVIOUS
<1>9. Continue(p, ops)
  BY <1>7, <1>8 DEF RollbackRecord
<1>10. IsList(ops) /\ DOMAIN ops = 1 .. 4 /\ Len(ops) = 4 /\ ops[1] = a /\ ops[2] = b /\ ops[3] = f /\ ops[4] = d
  BY <1>8, Quadruple
<1>11. /\ RecordKept' /\ SnapsKept' /\ MachineKept' /\ SnapshotFirst' /\ RollbackEvidence' /\ Persists
       /\ \A j \in Installs : Real(j) => Real(j)'
  <2>1. UNCHANGED <<record, snaps, receipt, registry>>
    BY <1>1
  <2> QED BY <1>6, <2>1, LiveKept
<1>12. snaps' = snaps /\ registry' = registry
  BY <1>1
<1>13. a.op = "load" /\ f.op = "fold"
  BY <1>8, Word DEF Words
<1>14. PICK k, body : k = <<"rollback", i>> /\ body = [snap |-> sn, what |-> status]
  OBVIOUS
<1>15. b.op = "leaf" /\ b.key = k /\ b.body = body /\ body.snap = sn /\ body.what = status /\ k[1] = "rollback"
  BY <1>8, <1>14 DEF Leaf
<1>16. ASSUME NEW n \in DOMAIN ops PROVE Due(p, c, ops, n)'
  <2>1. CASE n = 1 \/ n = 3
    <3>1. PICK x : x = ops[n]
      OBVIOUS
    <3>2. x.op \notin Placed /\ Fitting(c, x)'
      BY <1>10, <1>13, <2>1, <3>1 DEF Placed, Fitting, Leafing
    <3> QED BY <3>1, <3>2, Anywhere
  <2>2. CASE n = 2
    <3>1. BodyOK(k, body)'
      BY <1>5, <1>8, <1>12, <1>15 DEF BodyOK, LeafTypes
    <3>2. b.op \notin Placed /\ Fitting(c, b)'
      BY <1>15, <3>1 DEF Placed, Fitting, Leafing
    <3> QED BY <1>10, <2>2, <3>2, Anywhere
  <2>3. CASE n = 4
    <3>1. d.op = "registry" /\ d.inst = i /\ d.status = status
      BY <1>8
    <3>2. Fitting(c, d)'
      BY <1>3, <1>12, <3>1 DEF Fitting, Leafing
    <3>3. WillRecord(ops, 4, i, status)'
      <4>1. 2 \in DOMAIN ops /\ 2 < 4 /\ Leafing(ops[2])
        BY <1>10, <1>15 DEF Leafing
      <4> QED BY <1>10, <1>14, <1>15, <4>1 DEF WillRecord
    <3>4. ops[4] = d
      BY <1>10
    <3>5. InstallDue(ops, 4)' /\ ReceiptDue(ops, 4)' /\ RestoreDue(ops, 4)' /\ AttachDue(p, ops, 4)'
      BY <3>1, <3>4 DEF InstallDue, ReceiptDue, RestoreDue, AttachDue
    <3>6. RegistryDue(c, ops, 4)'
      BY <1>3, <3>1, <3>3, <3>4 DEF RegistryDue
    <3> QED BY <2>3, <3>2, <3>4, <3>5, <3>6 DEF Due
  <2> QED BY <1>10, <2>1, <2>2, <2>3
<1>17. Moves(p, ops)
  BY <1>9, ContinueMoves
<1>18. Carried(o, ops, Len(ops)) /\ o.op # "done"
  BY <1>1, <1>2 DEF Carried, Leafing, Folding
<1>19. \A q \in Procs : Pending(q)'
  <2>1. \A n \in DOMAIN ops : Due(p, c, ops, n)'
    BY <1>16
  <2> QED BY <1>1, <1>2, <1>4, <1>10, <1>11, <1>17, <1>18, <2>1, GoesDue
<1>20. ControlKept'
  BY <1>1, <1>2, <1>10, <1>17, <1>18, ManifestStill, GoesControlled DEF EInv
<1> QED BY <1>11, <1>19, <1>20 DEF EInv

-----------------------------------------------------------------------------
(* The environment. *)

LEMMA CrashEvident == ASSUME IInv, EInv, NEW p \in Procs, Crash(p) PROVE EInv'
<1>1. End(p) /\ UNCHANGED <<proposal, record, machine>> /\ calls' = calls /\ edits' = edits
      /\ faults' = faults /\ crashes' = crashes + 1
  BY DEF Crash
<1>2. faults' \in Nat /\ crashes' \in Nat
  BY <1>1 DEF EInv, ControlKept
<1> QED BY <1>1, <1>2, QuietEnd

LEMMA EditEvident == ASSUME IInv, EInv, NEW t \in Plans, NEW x \in Contents, Edit(t, x) PROVE EInv'
<1>1. /\ live' = [live EXCEPT ![t] = x] /\ edits' = edits + 1
      /\ UNCHANGED <<record, snaps, receipt, registry>>
      /\ UNCHANGED <<manifest, files, lock, job, calls, faults, crashes>>
  BY DEF Edit, proposal
<1>2. live' \in [Plans -> Contents]
  BY <1>1 DEF EInv, MachineKept
<1>3. RecordKept' /\ SnapsKept' /\ MachineKept' /\ SnapshotFirst' /\ RollbackEvidence' /\ Persists
  BY <1>1, <1>2, LiveKept
<1>4. ASSUME NEW q \in Procs PROVE Pending(q)'
  <2>1. Own(q) /\ Pending(q) /\ job'[q] = job[q] /\ lock' = lock /\ UNCHANGED <<receipt, registry, leaves>>
    BY <1>1 DEF IInv, EInv, record
  <2> QED BY <1>3, <2>1, OthersKeep DEF EInv
<1>5. ControlKept'
  BY <1>1 DEF EInv, ControlKept, Busy
<1> QED BY <1>3, <1>4, <1>5 DEF EInv

\* What an error undoes when no installation is begun.
LEMMA FaultRecord ==
    ASSUME IInv, EInv, NEW p \in Procs, Fault(p), UNCHANGED machine
    PROVE  EInv'
<1>1. /\ Busy(p) /\ Undone(p) /\ End(p) /\ files' = files /\ calls' = calls /\ edits' = edits
      /\ faults' = faults + 1 /\ crashes' = crashes
  BY DEF Fault
<1>2. PICK k : k = Arg(p).key
  OBVIOUS
<1>3. Whole' = Whole /\ (\A l \in Whole : leaves'[l] = leaves[l]) /\ DOMAIN leaves' \subseteq DOMAIN leaves
  <2>1. CASE Arg(p).op = "fill_leaf"
    <3>1. leaves' = [l \in DOMAIN leaves \ {k} |-> leaves[l]]
      BY <1>1, <1>2, <2>1 DEF Undone
    <3>2. leaves[k] = Torn
      BY <1>1, <1>2, <2>1 DEF IInv, Own, Fills, At, Arg
    <3> QED BY <3>1, <3>2 DEF Whole
  <2>2. CASE Arg(p).op # "fill_leaf"
    <3>1. leaves' = leaves
      BY <1>1, <2>2 DEF Undone
    <3> QED BY <3>1 DEF Whole
  <2> QED BY <2>1, <2>2
<1>4. Revisions' = Revisions
  BY LedgerFault
<1>5. RecordKept' /\ SnapsKept' /\ MachineKept' /\ SnapshotFirst' /\ RollbackEvidence' /\ Persists
  <2>1. \A l \in DOMAIN leaves' : l[1] \in LeafTypes
    BY <1>3 DEF EInv, RecordKept
  <2> QED BY <1>3, <1>4, <2>1, TornKept
<1>6. lock = p \/ UNCHANGED <<receipt, registry, leaves>>
  <2>1. CASE Arg(p).op = "fill_leaf"
    BY <1>1, <2>1, UnderLock DEF IInv, Creates
  <2>2. CASE Arg(p).op # "fill_leaf"
    BY <1>1, <2>2 DEF Undone, machine
  <2> QED BY <2>1, <2>2
<1>7. \A q \in Procs : Pending(q)'
  BY <1>1, <1>5, <1>6, EndDue
<1>8. ControlKept'
  <2>1. manifest' \in {"none", "torn", "whole"} /\ faults' \in Nat /\ crashes' \in Nat
    BY <1>1 DEF Undone, EInv, ControlKept
  <2> QED BY <1>1, <2>1, EndControlled DEF EInv
<1> QED BY <1>5, <1>7, <1>8 DEF EInv

\* An installation that is begun is not registered, and is put back.
LEMMA FaultInstallation ==
    ASSUME IInv, EInv, NEW p \in Procs, Fault(p),
           Arg(p).op = "receipt" \/ (Arg(p).op = "registry" /\ job[p].cmd # "rollback")
    PROVE  EInv'
<1>1. /\ Busy(p) /\ Undone(p) /\ End(p) /\ files' = files /\ calls' = calls /\ edits' = edits
      /\ faults' = faults + 1 /\ crashes' = crashes /\ snaps' = snaps /\ registry' = registry
  BY DEF Fault
<1>2. PICK o, i, c, s, t :
        /\ o = Arg(p) /\ i = o.inst /\ c = job[p].cmd /\ s = job[p].todo
        /\ t = IF o.op = "receipt" THEN o.body.plan ELSE receipt[o.inst].plan
  OBVIOUS
<1>3. /\ leaves' = leaves /\ revs' = revs /\ manifest' = manifest
      /\ receipt' = [receipt EXCEPT ![i] = None] /\ live' = [live EXCEPT ![t] = "original"]
  BY <1>1, <1>2 DEF Undone
<1>4. lock = p
  BY <1>1, UnderLock DEF IInv, Creates
<1>5. i \in Installs /\ registry[i] = None
  <2>1. s[1] = o /\ Due(p, c, s, 1) /\ Fitting(c, o)
    BY <1>1, <1>2, HeadDue
  <2>2. CASE o.op = "receipt"
    BY <1>2, <2>1, <2>2 DEF Fitting, Due, ReceiptDue
  <2>3. CASE o.op = "registry" /\ c # "rollback"
    BY <1>2, <2>1, <2>3 DEF Fitting, Due, RegistryDue
  <2> QED BY <1>2, <2>2, <2>3
<1>6. receipt \in [Installs -> {None, Begun} \cup [plan : Plans, snap : DOMAIN snaps]] /\ live \in [Plans -> Contents]
  BY DEF EInv, MachineKept
<1>7. /\ receipt'[i] = None /\ (\A j \in Installs \ {i} : receipt'[j] = receipt[j])
      /\ receipt' \in [Installs -> {None, Begun} \cup [plan : Plans, snap : DOMAIN snaps]]
  BY <1>3, <1>5, <1>6
<1>8. live' \in [Plans -> Contents]
  BY <1>3, <1>6 DEF Contents
<1>9. /\ Whole' = Whole /\ SnapshotsNamed' = SnapshotsNamed /\ Revisions' = Revisions /\ Standing' = Standing
  BY <1>3, RecordStill DEF record
<1>10. Persists
  BY <1>1, <1>3, <1>9 DEF Persists
<1>11. RecordKept' /\ SnapsKept'
  <2>1. \A k, b : BodyOK(k, b) => BodyOK(k, b)'
    BY <1>1 DEF BodyOK
  <2> QED BY <1>1, <1>3, <1>9, <2>1 DEF EInv, RecordKept, SnapsKept
<1>12. MachineKept'
  <2>1. \A j \in Installs : registry[j] # None => Real(j)'
    BY <1>5, <1>7 DEF EInv, MachineKept, Real
  <2> QED BY <1>1, <1>7, <1>8, <2>1 DEF EInv, MachineKept
<1>13. SnapshotFirst'
  <2>1. \A j \in Installs : receipt'[j] # None => receipt'[j] = receipt[j]
    BY <1>7
  <2>2. ASSUME NEW j \in Installs, receipt'[j] # None
        PROVE  /\ Revisions # <<>> /\ Last(Revisions).snap # None /\ snaps[Last(Revisions).snap].clean
               /\ receipt'[j] # Begun =>
                    /\ receipt'[j].snap = Last(Revisions).snap
                    /\ receipt'[j].plan = "auto" => snaps[Last(Revisions).snap].of["auto"] = "original"
    BY <2>1, <2>2 DEF EInv, SnapshotFirst
  <2> QED BY <1>1, <1>9, <2>2 DEF SnapshotFirst
<1>14. RollbackEvidence'
  BY <1>1, <1>3, <1>9 DEF EInv, RollbackEvidence
<1>15. \A q \in Procs : Pending(q)'
  BY <1>1, <1>4, <1>10, EndDue
<1>16. ControlKept'
  <2>1. manifest' \in {"none", "torn", "whole"} /\ faults' \in Nat /\ crashes' \in Nat
    BY <1>1, <1>3 DEF EInv, ControlKept
  <2> QED BY <1>1, <2>1, EndControlled DEF EInv
<1> QED BY <1>11, <1>12, <1>13, <1>14, <1>15, <1>16 DEF EInv

LEMMA FaultEvident == ASSUME IInv, EInv, NEW p \in Procs, Fault(p) PROVE EInv'
<1>1. CASE Arg(p).op = "receipt" \/ (Arg(p).op = "registry" /\ job[p].cmd # "rollback")
  BY <1>1, FaultInstallation
<1>2. CASE ~(Arg(p).op = "receipt" \/ (Arg(p).op = "registry" /\ job[p].cmd # "rollback"))
  BY <1>2, FaultRecord DEF Fault, Undone, machine
<1> QED BY <1>1, <1>2

-----------------------------------------------------------------------------
(* Commands begin. *)

\* A command that begins has what each of its operations needs.
LEMMA StartEvident ==
    ASSUME IInv, EInv, NEW p \in Procs, NEW c, NEW ops, Start(p, c, ops), calls' \in Nat,
           IsList(ops),
           \A n \in DOMAIN ops : ops[n].op \notin Placed /\ Fitting(c, ops[n])
    PROVE  EInv'
<1>t. PICK t : t = ops \o <<Op("done")>>
  OBVIOUS
<1>1. /\ c \in Commands /\ ~Busy(p) /\ job' = [job EXCEPT ![p] = [cmd |-> c, todo |-> t]]
      /\ UNCHANGED <<record, machine>> /\ UNCHANGED <<receipt, registry, leaves>>
      /\ UNCHANGED <<manifest, files, lock, faults, crashes, edits>>
  BY <1>t DEF Start, proposal, record, machine
<1>2. job'[p].cmd = c /\ job'[p].todo = t /\ \A q \in Procs \ {p} : job'[q] = job[q]
  <2>1. job = [q \in Procs |-> [cmd |-> job[q].cmd, todo |-> job[q].todo]]
    BY DEF IInv
  <2> QED BY <1>1, <2>1
<1>3. PICK d, f, k : d = Op("done") /\ f = <<d>> /\ k = Len(ops)
  OBVIOUS
<1>4. IsList(f) /\ Len(f) = 1 /\ f[1] = d
  BY <1>3, Tuples
<1>5. /\ IsList(t) /\ k \in Nat /\ Len(t) = k + 1 /\ DOMAIN t = 1 .. k + 1 /\ DOMAIN ops = 1 .. k
      /\ (\A n \in 1 .. k : t[n] = ops[n]) /\ t[k + 1] = d
  <2>1. PICK l : l = Len(f)
    OBVIOUS
  <2>2. IsList(f) /\ t = ops \o f
    BY <1>t, <1>3, <1>4
  <2>3. Joins(t, ops, f, k, l)
    BY <1>3, <2>1, <2>2, JoinedIs
  <2>4. l = 1
    BY <1>4, <2>1
  <2>5. /\ IsList(t) /\ k \in Nat /\ Len(t) = k + 1 /\ DOMAIN t = 1 .. k + 1
        /\ (\A n \in 1 .. k : t[n] = ops[n]) /\ \A n \in k + 1 .. k + 1 : t[n] = f[n - k]
    BY <2>3, <2>4 DEF Joins
  <2>6. k + 1 \in k + 1 .. k + 1 /\ (k + 1) - k = 1
    BY <2>5
  <2>7. DOMAIN ops = 1 .. k
    BY <1>3, Lists DEF IsList
  <2> QED BY <1>4, <2>5, <2>6, <2>7
<1>6. d.op = "done"
  BY <1>3, Word DEF Words
<1>7. ASSUME NEW n \in DOMAIN t PROVE Due(p, c, t, n)'
  <2>1. PICK o : o = t[n]
    OBVIOUS
  <2>2. CASE n = k + 1
    <3>1. o.op \notin Placed /\ Fitting(c, o)'
      BY <1>5, <1>6, <2>1, <2>2 DEF Placed, Fitting, Leafing
    <3> QED BY <2>1, <3>1, Anywhere
  <2>3. CASE n # k + 1
    <3>1. n \in DOMAIN ops /\ o = ops[n]
      BY <1>5, <2>1, <2>3
    <3>2. o.op \notin Placed /\ Fitting(c, o)
      BY <3>1
    <3>3. Fitting(c, o)'
      BY <1>1, <3>2, Unchanged, FittingKept
    <3> QED BY <2>1, <3>2, <3>3, Anywhere
  <2> QED BY <2>2, <2>3
<1>8. Pending(p)'
  BY <1>2, <1>7 DEF Pending
<1>9. ASSUME NEW q \in Procs \ {p} PROVE Pending(q)'
  <2>1. Own(q) /\ Pending(q) /\ job'[q] = job[q] /\ lock' = lock
    BY <1>1, <1>2 DEF IInv, EInv
  <2> QED BY <1>1, <2>1, Unchanged, OthersKeep DEF EInv
<1>10. ControlKept'
  <2>1. t # <<>> /\ t[Len(t)].op = "done"
    BY <1>5, <1>6, Nothing
  <2>2. \A q \in Procs \ {p} : Busy(q)' <=> Busy(q)
    BY <1>2 DEF Busy
  <2>3. ASSUME NEW q \in Procs, Busy(q)'
        PROVE  job'[q].cmd \in Commands /\ job'[q].todo[Len(job'[q].todo)].op = "done"
    BY <1>1, <1>2, <2>1, <2>2, <2>3 DEF EInv, ControlKept
  <2>4. lock' # None => Busy(lock)'
    <3>1. PICK h : h = lock
      OBVIOUS
    <3>2. h # None => h \in Procs \ {p} /\ Busy(h)
      BY <1>1, <3>1 DEF EInv, ControlKept
    <3>3. h # None => job'[h].todo # <<>>
      BY <2>2, <3>2 DEF Busy
    <3> QED BY <1>1, <3>1, <3>3 DEF Busy
  <2> QED BY <1>1, <2>3, <2>4 DEF EInv, ControlKept
<1> QED BY <1>1, <1>8, <1>9, <1>10, Unchanged DEF EInv

LEMMA PairStart ==
    ASSUME IInv, EInv, NEW p \in Procs, NEW c, NEW o, o.op \notin Placed, Fitting(c, o),
           Call(p, c, <<Op("lock"), o>>)
    PROVE  EInv'
<1>1. PICK a, ops : a = Op("lock") /\ ops = <<a, o>>
  OBVIOUS
<1>2. IsList(ops) /\ DOMAIN ops = 1 .. 2 /\ ops[1] = a /\ ops[2] = o
  BY <1>1, Tuples
<1>3. a.op \notin Placed /\ Fitting(c, a)
  BY <1>1, Word DEF Words
<1>4. \A n \in DOMAIN ops : ops[n].op \notin Placed /\ Fitting(c, ops[n])
  BY <1>2, <1>3
<1>5. Start(p, c, ops) /\ calls' \in Nat
  BY <1>1 DEF Call, EInv, ControlKept
<1> QED BY <1>2, <1>4, <1>5, StartEvident

LEMMA CallEvident ==
    ASSUME IInv, EInv, NEW p \in Procs, NEW i \in Installs, ApplyCampaign(p, i) \/ Rollback(p, i)
    PROVE  EInv'
<1>1. CASE ApplyCampaign(p, i)
  <2>1. PICK o, c : o = [op |-> "bind", type |-> "snapshot", inst |-> i] /\ c = "apply"
    OBVIOUS
  <2>2. o.op \notin Placed /\ Fitting(c, o)
    BY <2>1 DEF Placed, Fitting, Leafing
  <2>3. Call(p, c, <<Op("lock"), o>>)
    BY <1>1, <2>1 DEF ApplyCampaign
  <2> QED BY <2>2, <2>3, PairStart
<1>2. CASE Rollback(p, i)
  <2>1. PICK o, c : o = [op |-> "committed", inst |-> i] /\ c = "rollback"
    OBVIOUS
  <2>2. o.op \notin Placed /\ Fitting(c, o)
    BY <2>1 DEF Placed, Fitting, Leafing
  <2>3. Call(p, c, <<Op("lock"), o>>)
    BY <1>2, <2>1 DEF Rollback
  <2> QED BY <2>2, <2>3, PairStart
<1> QED BY <1>1, <1>2

LEMMA DispatchEvident ==
    ASSUME IInv, EInv, NEW p \in Procs, NEW w \in Orders, NEW a \in Attempts, Dispatch(p, w, a)
    PROVE  EInv'
<1>1. PICK o, c : o = [op |-> "find", order |-> w, attempt |-> a] /\ c = "dispatch"
  OBVIOUS
<1>2. o.op \notin Placed /\ Fitting(c, o)
  BY <1>1 DEF Placed, Fitting, Leafing
<1>3. Call(p, c, <<Op("lock"), o>>)
  BY <1>1 DEF Dispatch
<1> QED BY <1>2, <1>3, PairStart

LEMMA DispatchApplyEvident ==
    ASSUME IInv, EInv, NEW p \in Procs, NEW i \in Installs, NEW r \in DOMAIN leaves, NEW ack \in BOOLEAN,
           DispatchApply(p, i, r, ack)
    PROVE  EInv'
<1>1. PICK o, c : o = [op |-> "reviewed", result |-> r, inst |-> i, ack |-> ack] /\ c = "dispatch_apply"
  OBVIOUS
<1>2. o.op \notin Placed /\ Fitting(c, o)
  BY <1>1 DEF Placed, Fitting, Leafing
<1>3. Call(p, c, <<Op("lock"), o>>)
  BY <1>1 DEF DispatchApply
<1> QED BY <1>2, <1>3, PairStart

\* list_campaign_status.
LEMMA StatusEvident == ASSUME IInv, EInv, NEW p \in Procs, Status(p) PROVE EInv'
<1>1. PICK a, b, d, e, ops, c :
        /\ a = Op("lock") /\ b = Op("attach") /\ d = Op("rebuild") /\ e = Op("fold")
        /\ ops = <<a, b, d, e>> /\ c = "status"
  OBVIOUS
<1>2. IsList(ops) /\ DOMAIN ops = 1 .. 4 /\ ops[1] = a /\ ops[2] = b /\ ops[3] = d /\ ops[4] = e
  BY <1>1, Quadruple
<1>3. \A x \in {a, b, d, e} : x.op \notin Placed /\ Fitting(c, x)
  BY <1>1, Word DEF Words
<1>4. \A n \in 1 .. 4 : n \in {1, 2, 3, 4}
  OBVIOUS
<1>5. \A n \in DOMAIN ops : ops[n].op \notin Placed /\ Fitting(c, ops[n])
  BY <1>2, <1>3, <1>4
<1>6. Start(p, c, ops) /\ calls' \in Nat
  BY <1>1 DEF Status, Call, EInv, ControlKept
<1> QED BY <1>2, <1>5, <1>6, StartEvident

LEMMA ProposeEvident == ASSUME IInv, EInv, NEW p \in Procs, Propose(p) PROVE EInv'
<1>1. PICK a, b, d, e, f, g, h, i, j, ops, c :
        /\ a = Op("manifest") /\ b = Op("index") /\ d = Op("lock") /\ e = Op("load")
        /\ f = [op |-> "file", name |-> "plans"] /\ g = [op |-> "orders", left |-> Orders]
        /\ h = Leaf("plan", "plan", None, None) /\ i = [op |-> "file", name |-> "bundle"] /\ j = Op("fold")
        /\ ops = <<a, b, d, e, f, g, h, i, j>> /\ c = "propose"
  OBVIOUS
<1>2. IsList(ops) /\ DOMAIN ops = 1 .. 9 /\ \A n \in 1 .. 9 : ops[n] \in {a, b, d, e, f, g, h, i, j}
  <2>1. ops \in Seq({a, b, d, e, f, g, h, i, j}) /\ Len(ops) = 9
    BY <1>1
  <2>2. PICK S : S = {a, b, d, e, f, g, h, i, j}
    OBVIOUS
  <2>3. ops \in Seq(S)
    BY <2>1, <2>2
  <2>4. IsList(ops) /\ DOMAIN ops = 1 .. 9
    BY <2>1, <2>3, Lists
  <2>5. \A n \in DOMAIN ops : ops[n] \in S
    BY <2>3
  <2> QED BY <2>2, <2>4, <2>5
<1>3. \A x \in {a, b, d, e, j} : x.op \notin Placed /\ Fitting(c, x)
  BY <1>1, Word DEF Words
<1>4. \A x \in {f, g, i} : x.op \notin Placed /\ Fitting(c, x)
  BY <1>1 DEF Placed, Fitting, Leafing
<1>5. h.op \notin Placed /\ Fitting(c, h)
  <2>1. PICK type, id, none : type = "plan" /\ id = "plan" /\ none = None
    OBVIOUS
  <2>2. /\ h = Leaf(type, id, none, none) /\ type \in LeafTypes /\ type # "work-order-result" /\ type # "rollback"
        /\ none \in {None} \cup DOMAIN snaps
    BY <1>1, <2>1 DEF LeafTypes
  <2> QED BY <2>2, LeafGood
<1>6. \A n \in DOMAIN ops : ops[n].op \notin Placed /\ Fitting(c, ops[n])
  BY <1>2, <1>3, <1>4, <1>5
<1>7. Start(p, c, ops) /\ calls' \in Nat
  BY <1>1 DEF Propose, EInv, ControlKept
<1> QED BY <1>2, <1>6, <1>7, StartEvident

-----------------------------------------------------------------------------
(* The evidence comes first. *)

LEMMA EvidentStart == Init => EInv
<1> SUFFICES ASSUME Init PROVE EInv
  OBVIOUS
<1>1. DOMAIN leaves = {} /\ snaps = <<>> /\ revs = <<>> /\ DOMAIN snaps = {}
  BY Nothing DEF Init
<1>2. Whole = {} /\ Revisions = <<>> /\ DOMAIN Revisions = {}
  BY <1>1, Nothing DEF Whole, Revisions
<1>3. RecordKept /\ SnapsKept
  BY <1>1, <1>2, Nothing DEF RecordKept, SnapsKept
<1>4. (\A i \in Installs : receipt[i] = None /\ registry[i] = None) /\ live \in [Plans -> Contents]
  BY DEF Init, Contents
<1>5. MachineKept
  BY <1>4 DEF Init, MachineKept
<1>6. \A p \in Procs : ~Busy(p) /\ job[p].todo = <<>>
  BY DEF Init, Idle, Busy
<1>7. ControlKept
  BY <1>6 DEF Init, ControlKept
<1>8. SnapshotFirst /\ RollbackEvidence
  BY <1>4, CampaignAssumption DEF SnapshotFirst, RollbackEvidence
<1>9. \A p \in Procs : Pending(p)
  BY <1>6, Nothing DEF Pending
<1> QED BY <1>3, <1>5, <1>7, <1>8, <1>9 DEF EInv

LEMMA EvidentStill == ASSUME IInv, EInv, UNCHANGED vars PROVE EInv'
<1>1. UNCHANGED <<record, machine>> /\ UNCHANGED <<receipt, registry, leaves>>
      /\ UNCHANGED <<manifest, files, lock, job, calls, faults, crashes, edits>>
  BY DEF vars, record, machine, proposal, bounds
<1>2. ASSUME NEW q \in Procs PROVE Pending(q)'
  <2>1. Own(q) /\ Pending(q) /\ job'[q] = job[q] /\ lock' = lock
    BY <1>1 DEF IInv, EInv
  <2> QED BY <1>1, <2>1, Unchanged, OthersKeep DEF EInv
<1>3. ControlKept'
  BY <1>1 DEF EInv, ControlKept, Busy
<1> QED BY <1>1, <1>2, <1>3, Unchanged DEF EInv

LEMMA EvidentStep == IInv /\ EInv /\ [Next]_vars => EInv'
<1> SUFFICES ASSUME IInv, EInv, [Next]_vars PROVE EInv'
  OBVIOUS
<1>1. ASSUME NEW p \in Procs, Step(p) PROVE EInv'
  BY <1>1, LockEvident, ProposalEvident, RegisterLeafEvident, FillLeafEvident, FoldEvident, FillRevisionEvident,
     FirstEvident, InstallEvident, WriteReceiptEvident, UpdateRegistryEvident, FindResultEvident, BindEvident,
     CoveredEvident, RunEvident, ReviewedEvident, WriteOrdersEvident, AttachEvident, AttachNextEvident,
     CommittedEvident, RestoreEvident DEF Step
<1>2. ASSUME NEW p \in Procs, Propose(p) \/ Status(p) \/ Fault(p) \/ Crash(p) PROVE EInv'
  BY <1>2, ProposeEvident, StatusEvident, FaultEvident, CrashEvident
<1> QED BY <1>1, <1>2, EvidentStill, EditEvident, CallEvident, DispatchEvident, DispatchApplyEvident DEF Next

\* What a command has left never asks for more than the operations before it put
\* on record, in every state of every campaign (apply_campaign, dispatch_work_order,
\* apply_dispatched_plan, list_campaign_status, rollback_receipt).
THEOREM Evidence == Spec => [](IInv /\ EInv)
<1>1. Init => IInv /\ EInv
  BY Beginning, EvidentStart
<1>2. IInv /\ EInv /\ [Next]_vars => (IInv /\ EInv)'
  BY Stays, EvidentStep
<1> QED BY <1>1, <1>2, PTL DEF Spec

\* The index names a clean snapshot before anything is installed, and a rollback
\* is on record before the registry says so, through every death and error
\* (_bind_snapshot, _rollback_loaded_receipt).
THEOREM EvidenceKept == Spec => []EvidenceFirst
<1>1. EInv => EvidenceFirst
  BY DEF EInv, EvidenceFirst
<1> QED BY <1>1, Evidence, PTL

\* A revision that is whole is in the index.
LEMMA RevisionOf ==
    ASSUME IInv, NEW n \in DOMAIN revs, revs[n] # Torn
    PROVE  n \in DOMAIN Revisions /\ Revisions[n] = revs[n]
<1>1. IsList(revs)
  BY DEF IInv, OneWriter
<1>2. CASE revs # <<>> /\ Index = Torn
  <2>1. PICK l, r : l = Len(revs) /\ r = SubSeq(revs, 1, Len(revs) - 1)
    OBVIOUS
  <2>2. /\ l \in Nat \ {0} /\ DOMAIN revs = 1 .. l /\ DOMAIN r = 1 .. l - 1
        /\ \A m \in 1 .. l - 1 : r[m] = revs[m]
    BY <1>1, <1>2, <2>1, Shortened
  <2>3. n # l
    BY <1>2, <2>1 DEF Index
  <2>4. n \in 1 .. l - 1
    BY <2>2, <2>3
  <2> QED BY <1>2, <2>1, <2>2, <2>4 DEF Revisions
<1>3. CASE ~(revs # <<>> /\ Index = Torn)
  BY <1>3 DEF Revisions
<1> QED BY <1>2, <1>3

\* Every part of the campaign's state is what its readers expect it to be, the
\* snapshots and artifacts it refers to included (campaigns.py).
THEOREM CampaignTypes == Spec => []TypeOK
<1>1. ASSUME IInv, EInv PROVE TypeOK
  <2>1. DOMAIN snaps = 1 .. Len(snaps)
    BY <1>1, SnapsCount DEF EInv
  <2>2. \A k \in Whole : leaves[k].snap \in {None} \cup 1 .. Len(snaps)
    BY <1>1, <2>1 DEF EInv, RecordKept, BodyOK
  <2>3. ASSUME NEW n \in DOMAIN revs, revs[n] # Torn
        PROVE  revs[n].snap \in {None} \cup 1 .. Len(snaps) /\ revs[n].refs \subseteq DOMAIN leaves
    <3>1. revs[n].refs \subseteq Whole /\ revs[n].snap \in {None} \cup SnapshotsNamed
      BY <1>1, <2>3, RevisionOf DEF EInv, RecordKept
    <3> QED BY <2>2, <3>1 DEF SnapshotsNamed, Whole
  <2>4. \A i \in Installs : receipt[i] \in {None, Begun} \/ receipt[i] \in [plan : Plans, snap : 1 .. Len(snaps)]
    BY <1>1, <2>1 DEF EInv, MachineKept
  <2>5. /\ \A k \in DOMAIN leaves : k[1] \in LeafTypes
        /\ \A s \in DOMAIN snaps : snaps[s].of \in [Plans -> Contents]
        /\ registry \in [Installs -> {None, "active", "rolled_back", "drifted"}]
        /\ live \in [Plans -> Contents]
    BY <1>1 DEF EInv, RecordKept, SnapsKept, MachineKept
  <2> QED BY <1>1, <2>2, <2>3, <2>4, <2>5 DEF EInv, ControlKept, TypeOK
<1> QED BY <1>1, Evidence, PTL

LEMMA NeverAgain == IInv /\ EInv => RollbackOnce
<1> SUFFICES ASSUME IInv, EInv, NEW p \in Procs, At(p, "restore")
             PROVE  <<"rollback", Arg(p).inst>> \notin DOMAIN leaves
  BY DEF RollbackOnce
<1>1. Busy(p) /\ Arg(p).op = "restore"
  BY DEF At, Arg
<1> QED BY <1>1, HeadDue DEF Due, RestoreDue

\* No command restores the target of an installation whose rollback is on record
\* (_committed_campaign_rollback).
THEOREM RollbackKept == Spec => []RollbackOnce
BY NeverAgain, Evidence, PTL

-----------------------------------------------------------------------------
(* The third invariant: what is done once. *)

\* What is left of a status, and what it has already put on record.
Attached(i) == <<"receipt", i>> \in Whole
AllBut(p, left) == lock = p /\ \A i \in Installs : Real(i) => Attached(i) \/ i \in left
Outlined(s) ==
    /\ Len(s) \in 1 .. 5 /\ s[Len(s)].op = "done"
    /\ Len(s) >= 2 => Folding(s[Len(s) - 1])
    /\ Len(s) >= 3 => s[Len(s) - 2].op \in {"rebuild", "fill_revision"}
    /\ Len(s) >= 4 => s[Len(s) - 3].op \in {"attach", "receipts"}
    /\ Len(s) = 5 => IF s[2].op = "attach" THEN s[1].op = "lock" ELSE Leafing(s[1])
Told(p, s) ==
    /\ s[1].op = "receipts" => AllBut(p, s[1].left)
    /\ Leafing(s[1]) => \E i \in Installs : s[1].key = <<"receipt", i>> /\ AllBut(p, s[2].left \cup {i})
    /\ Len(s) <= 3 => AllBut(p, {})
    /\ Len(s) = 1 => Readable /\ Index.refs = Whole
Reported(p) == Doing(p, "status") => Outlined(job[p].todo) /\ Told(p, job[p].todo)

\* An attempt is made once, and not after its result is on record.
Resulting(o) == Leafing(o) /\ o.key[1] = "work-order-result"
Attempting(o) == o.op = "run" \/ (o.op = "bind" /\ o.type = "snapshot-binding") \/ Resulting(o)
Trying(o) == o.op = "find" \/ Attempting(o)
AttemptOf(o) == IF Resulting(o) THEN <<o.body.what[1], o.body.what[2]>> ELSE <<o.order, o.attempt>>
Tried(p, s, n) ==
    /\ Trying(s[n]) => \A m \in DOMAIN s : m < n => ~Trying(s[m])
    /\ Attempting(s[n]) => lock = p /\ ~Recorded(AttemptOf(s[n])[1], AttemptOf(s[n])[2])
Attempted(p) == \A n \in DOMAIN job[p].todo : Tried(p, job[p].todo, n)

\* While nothing fails there is one snapshot, and what binds the campaign to it is
\* in the index or on its way there.
Binds(o) == Leafing(o) /\ o.key[1] \in {"snapshot", "snapshot-binding"}
Reaching(p) ==
    /\ Binds(Arg(p)) /\ Arg(p).body.snap = 1 /\ Readable
    /\ Arg(p).op = "leaf" => Arg(p).key \notin DOMAIN leaves
    /\ 2 \in DOMAIN job[p].todo /\ job[p].todo[2].op = "fold"
Naming(p) == Arg(p).op = "fold" /\ Readable /\ 1 \in SnapshotsNamed
Writing(p) == Arg(p).op = "fill_revision" /\ 1 \in SnapshotsNamed
OnItsWay(p) == lock = p /\ Busy(p) /\ (Reaching(p) \/ Naming(p) \/ Writing(p))
Underway == Len(snaps) = 1 => Standing = 1 \/ \E p \in Procs : OnItsWay(p)

\* A file that is begun is being filled, and a binding names a snapshot there is.
TornHeld == \A k \in DOMAIN leaves \ Whole : \E p \in Procs : At(p, "fill_leaf") /\ Arg(p).key = k
Bindings(s) == \A n \in DOMAIN s : Binds(s[n]) => s[n].key[2] \in DOMAIN snaps
LeavesBound == \A k \in DOMAIN leaves : k[1] \in {"snapshot", "snapshot-binding"} => k[2] \in DOMAIN snaps
Spared ==
    /\ Len(snaps) <= 1 /\ Underway /\ TornHeld /\ LeavesBound
    /\ \A p \in Procs : Bindings(job[p].todo)

-----------------------------------------------------------------------------
(* How a command goes on. *)

\* A command goes on with its list, ends, or takes the lock.
LEMMA Course ==
    ASSUME NEW p \in Procs, Step(p)
    PROVE  /\ Busy(p)
           /\ \/ End(p)
              \/ \E ops : Continue(p, ops)
              \/ /\ Arg(p).op = "lock" /\ lock = None /\ lock' = p
                 /\ job' = [job EXCEPT ![p].todo = Tail(@)]
                 /\ UNCHANGED <<proposal, record, machine, bounds>>
<1>1. CASE Lock(p) \/ Done(p)
  BY <1>1 DEF Lock, Done, Free, Refuse, At, Arg
<1>2. CASE RegisterLeaf(p) \/ FillLeaf(p)
  BY <1>2 DEF RegisterLeaf, FillLeaf, Refuse, At
<1>3. CASE Fold(p) \/ FillRevision(p) \/ Load(p) \/ Rebuild(p) \/ FirstRevision(p)
  BY <1>3 DEF Fold, FillRevision, Load, Rebuild, FirstRevision, NewRevision, Refuse, At
<1>4. CASE Manifest(p) \/ FillManifest(p) \/ ReadFirst(p) \/ File(p)
  BY <1>4 DEF Manifest, FillManifest, ReadFirst, File, Refuse, At
<1>5. CASE Install(p) \/ WriteReceipt(p) \/ UpdateRegistry(p)
  BY <1>5 DEF Install, WriteReceipt, UpdateRegistry, Refuse, At
<1>6. CASE FindResult(p) \/ Bind(p) \/ Covered(p) \/ Run(p) \/ Reviewed(p)
  BY <1>6 DEF FindResult, Bind, Covered, Run, Reviewed, Refuse, At
<1>7. CASE WriteOrders(p) \/ Attach(p) \/ AttachNext(p) \/ Committed(p) \/ Restore(p)
  BY <1>7 DEF WriteOrders, Attach, AttachNext, Committed, Restore, Refuse, At
<1> QED BY <1>1, <1>2, <1>3, <1>4, <1>5, <1>6, <1>7 DEF Step

\* What others leave to a command: its list, and the record while it has the lock.
Left(q) ==
    /\ job'[q] = job[q] /\ (lock' = q <=> lock = q)
    /\ lock = q => leaves' = leaves /\ receipt' = receipt /\ (Readable => revs' = revs)

LEMMA StepApart ==
    ASSUME IInv, NEW p \in Procs, Step(p), NEW q \in Procs \ {p}
    PROVE  job'[q] = job[q] /\ (lock' = q <=> lock = q)
<1>1. None # q /\ None # p
  BY CampaignAssumption
<1>2. CASE End(p)
  BY <1>1, <1>2, EndGoes
<1>3. ASSUME NEW ops, Continue(p, ops) PROVE job'[q] = job[q] /\ lock' = lock
  BY <1>3, Goes
<1>4. CASE lock = None /\ lock' = p /\ job' = [job EXCEPT ![p].todo = Tail(@)]
  BY <1>1, <1>4 DEF IInv
<1> QED BY <1>2, <1>3, <1>4, Course

LEMMA StepAside ==
    ASSUME IInv, NEW p \in Procs, Step(p), lock # p
    PROVE  leaves' = leaves /\ receipt' = receipt /\ (Readable => revs' = revs)
<1>1. Busy(p) /\ Arg(p).op \in Creates \cup {"fill_revision", "lock"}
  BY Course, UnderLock DEF IInv
<1>2. CASE Lock(p)
  BY <1>2 DEF Lock, Refuse, record, machine
<1>3. CASE Manifest(p) \/ FillManifest(p)
  BY <1>3 DEF Manifest, FillManifest, record, machine
<1>4. CASE ReadFirst(p)
  BY <1>4 DEF ReadFirst, Refuse, record, machine
<1>5. CASE FirstRevision(p)
  BY <1>5 DEF FirstRevision, NewRevision, Readable, Refuse, record, machine
<1>6. CASE FillRevision(p)
  <2>1. At(p, "fill_revision") /\ leaves' = leaves /\ UNCHANGED machine
    BY <1>6 DEF FillRevision
  <2>2. ~Readable
    BY <2>1 DEF IInv, Own, Fills, Readable
  <2> QED BY <2>1, <2>2 DEF machine
<1>7. CASE ~(Lock(p) \/ Manifest(p) \/ FillManifest(p) \/ ReadFirst(p) \/ FirstRevision(p) \/ FillRevision(p))
  BY <1>1, <1>7, Zenon DEF Step, Creates, At, Arg, Done, RegisterLeaf, FillLeaf, Fold, Load, File, Install, WriteReceipt,
     UpdateRegistry, FindResult, Bind, Covered, Run, Reviewed, WriteOrders, Attach, AttachNext, Rebuild, Committed, Restore
<1> QED BY <1>2, <1>3, <1>4, <1>5, <1>6, <1>7

LEMMA Aside ==
    ASSUME IInv, NEW p \in Procs, Step(p), NEW q \in Procs \ {p}
    PROVE  Left(q)
BY StepApart, StepAside DEF Left

LEMMA AsideStart ==
    ASSUME IInv, NEW p \in Procs, NEW c, NEW ops, Start(p, c, ops), NEW q \in Procs \ {p}
    PROVE  Left(q)
<1>1. UNCHANGED <<record, machine, lock>> /\ job'[q] = job[q]
  BY DEF Start, IInv
<1> QED BY <1>1 DEF Left, record, machine

LEMMA AsideFailed ==
    ASSUME IInv, NEW p \in Procs, Fault(p) \/ Crash(p), NEW q \in Procs \ {p}
    PROVE  Left(q)
<1>1. Busy(p) /\ End(p)
  BY DEF Fault, Crash
<1>2. job'[q] = job[q] /\ (lock' = q <=> lock = q)
  BY <1>1, EndGoes, CampaignAssumption
<1>3. CASE Crash(p)
  BY <1>2, <1>3 DEF Left, Crash, record, machine
<1>4. CASE Fault(p) /\ lock = q
  <2>1. Arg(p).op \in Creates \cup {"fill_revision", "lock"}
    BY <1>1, <1>4, UnderLock DEF IInv
  <2>2. leaves' = leaves /\ receipt' = receipt
    BY <1>4, <2>1 DEF Fault, Undone, Creates
  <2>3. CASE Arg(p).op = "fill_revision"
    <3>1. ~Readable
      BY <1>1, <2>3 DEF IInv, Own, Fills, Readable, At, Arg
    <3> QED BY <1>2, <2>2, <3>1 DEF Left
  <2>4. CASE Arg(p).op # "fill_revision"
    BY <1>2, <1>4, <2>2, <2>4 DEF Left, Fault, Undone
  <2> QED BY <2>3, <2>4
<1> QED BY <1>2, <1>3, <1>4 DEF Left

-----------------------------------------------------------------------------
(* What a status has put on record. *)

LEMMA Going ==
    ASSUME IInv, NEW p \in Procs, Busy(p), NEW ops, IsList(ops), Moves(p, ops)
    PROVE  \E s, t, l, k : /\ s = job[p].todo /\ t = job'[p].todo /\ l \in Nat \ {0} /\ k \in Nat
                           /\ Splices(s, ops, t, l, k) /\ s[1] = Arg(p) /\ l = Len(s)
<1>1. PICK s, t : s = job[p].todo /\ t = job'[p].todo
  OBVIOUS
<1>2. IsList(s) /\ s # <<>> /\ t = ops \o Tail(s)
  BY <1>1 DEF IInv, Own, Listed, Busy, Moves
<1>3. PICK l \in Nat \ {0}, k \in Nat : Splices(s, ops, t, l, k)
  BY <1>2, Spliced
<1>4. s[1] = Arg(p) /\ l = Len(s)
  BY <1>1, <1>3 DEF Splices, Arg
<1> QED BY <1>1, <1>3, <1>4

LEMMA Shorter ==
    ASSUME NEW s, NEW ops, NEW t, NEW l \in Nat \ {0, 1}, NEW k, k = 0, Splices(s, ops, t, l, k), Outlined(s)
    PROVE  Outlined(t) /\ Len(t) = l - 1 /\ \A n \in 1 .. l - 1 : t[n] = s[n + 1]
<1>1. Len(s) = l /\ Len(t) = l - 1 /\ DOMAIN t = 1 .. l - 1 /\ \A n \in 2 .. l : t[n - 1] = s[n]
  BY DEF Splices
<1>2. ASSUME NEW n \in 1 .. l - 1 PROVE t[n] = s[n + 1]
  <2>1. n + 1 \in 2 .. l /\ (n + 1) - 1 = n
    OBVIOUS
  <2> QED BY <1>1, <2>1
<1>3. l \in 2 .. 5 /\ s[l].op = "done" /\ Folding(s[l - 1]) /\ (l >= 3 => s[l - 2].op \in {"rebuild", "fill_revision"})
      /\ (l >= 4 => s[l - 3].op \in {"attach", "receipts"})
  BY <1>1 DEF Outlined
<1>4. t[l - 1].op = "done"
  BY <1>2, <1>3
<1>5. l - 1 >= 2 => Folding(t[l - 2])
  <2>1. l - 1 >= 2 => t[l - 2] = s[l - 1]
    BY <1>2, <1>3
  <2> QED BY <1>3, <2>1
<1>6. l - 1 >= 3 => t[l - 3].op \in {"rebuild", "fill_revision"}
  <2>1. l - 1 >= 3 => t[l - 3] = s[l - 2]
    BY <1>2, <1>3
  <2> QED BY <1>3, <2>1
<1>7. l - 1 >= 4 => t[l - 4].op \in {"attach", "receipts"}
  <2>1. l - 1 >= 4 => t[l - 4] = s[l - 3]
    BY <1>2, <1>3
  <2> QED BY <1>3, <2>1
<1>8. Outlined(t)
  <2>1. PICK m : m = l - 1
    OBVIOUS
  <2>2. Len(t) = m /\ m \in 1 .. 4 /\ t[m].op = "done" /\ (m >= 2 => Folding(t[m - 1]))
        /\ (m >= 3 => t[m - 2].op \in {"rebuild", "fill_revision"}) /\ (m >= 4 => t[m - 3].op \in {"attach", "receipts"})
    BY <1>1, <1>3, <1>4, <1>5, <1>6, <1>7, <2>1
  <2> QED BY <2>2 DEF Outlined
<1> QED BY <1>1, <1>2, <1>8

LEMMA Exchanged ==
    ASSUME NEW s, NEW ops, NEW t, NEW l \in Nat \ {0, 1}, NEW k, k = 1, Splices(s, ops, t, l, k), Outlined(s),
           l = 5 => Leafing(ops[1]) /\ Leafing(s[1]),
           l = 4 => ops[1].op \in {"attach", "receipts"},
           l = 3 => ops[1].op \in {"rebuild", "fill_revision"},
           l = 2 => Folding(ops[1])
    PROVE  Outlined(t) /\ Len(t) = l /\ t[1] = ops[1] /\ \A n \in 2 .. l : t[n] = s[n]
<1>1. Len(s) = l /\ Len(t) = l /\ t[1] = ops[1] /\ \A n \in 2 .. l : t[n + 1 - 1] = s[n]
  BY DEF Splices
<1>2. ASSUME NEW n \in 2 .. l PROVE t[n] = s[n]
  <2>1. n + 1 - 1 = n
    OBVIOUS
  <2> QED BY <1>1, <2>1
<1>3. l \in {2, 3, 4, 5} /\ s[l].op = "done" /\ Folding(s[l - 1]) /\ (l >= 3 => s[l - 2].op \in {"rebuild", "fill_revision"})
      /\ (l >= 4 => s[l - 3].op \in {"attach", "receipts"})
      /\ (l = 5 => IF s[2].op = "attach" THEN s[1].op = "lock" ELSE Leafing(s[1]))
  BY <1>1 DEF Outlined
<1>4. CASE l = 2
  BY <1>1, <1>2, <1>3, <1>4 DEF Outlined
<1>5. CASE l = 3
  BY <1>1, <1>2, <1>3, <1>5 DEF Outlined
<1>6. CASE l = 4
  BY <1>1, <1>2, <1>3, <1>6 DEF Outlined
<1>7. CASE l = 5
  BY <1>1, <1>2, <1>3, <1>7 DEF Outlined, Leafing
<1> QED BY <1>1, <1>2, <1>3, <1>4, <1>5, <1>6, <1>7

LEMMA Longer ==
    ASSUME NEW s, NEW ops, NEW t, NEW l, l = 4, NEW k, k = 2, Splices(s, ops, t, l, k), Outlined(s),
           Leafing(ops[1]), ops[2].op = "receipts"
    PROVE  Outlined(t) /\ Len(t) = 5 /\ t[1] = ops[1] /\ t[2] = ops[2]
<1>1. Len(s) = 4 /\ Len(t) = 5 /\ t[1] = ops[1] /\ t[2] = ops[2] /\ \A n \in 2 .. 4 : t[n + 2 - 1] = s[n]
  BY DEF Splices
<1>2. t[3] = s[2] /\ t[4] = s[3] /\ t[5] = s[4]
  <2>1. 2 + 2 - 1 = 3 /\ 3 + 2 - 1 = 4 /\ 4 + 2 - 1 = 5 /\ 2 \in 2 .. 4 /\ 3 \in 2 .. 4 /\ 4 \in 2 .. 4
    OBVIOUS
  <2> QED BY <1>1, <2>1
<1>3. s[4].op = "done" /\ Folding(s[3]) /\ s[2].op \in {"rebuild", "fill_revision"}
  BY <1>1 DEF Outlined
<1> QED BY <1>1, <1>2, <1>3 DEF Outlined

\* A receipt that is attached stays so.
LEMMA ButKept ==
    ASSUME NEW p, NEW left, AllBut(p, left), NEW rest, lock' = p, \A i \in Installs : Real(i)' => Real(i),
           Whole \subseteq Whole', \A i \in left : <<"receipt", i>> \in Whole' \/ i \in rest
    PROVE  AllBut(p, rest)'
BY DEF AllBut, Attached

LEMMA ReportedAside ==
    ASSUME IInv, NEW q \in Procs, Reported(q), Left(q)
    PROVE  Reported(q)'
<1> SUFFICES ASSUME Doing(q, "status")' PROVE Outlined(job'[q].todo) /\ Told(q, job[q].todo)'
  BY DEF Reported
<1>1. PICK s : s = job[q].todo
  OBVIOUS
<1>2. job'[q] = job[q] /\ Outlined(s) /\ Told(q, s)
  BY <1>1 DEF Left, Reported, Doing, Busy
<1>3. ASSUME NEW left, AllBut(q, left) PROVE AllBut(q, left)' /\ lock = q
  <2>1. lock = q /\ lock' = q /\ leaves' = leaves /\ receipt' = receipt
    BY <1>3 DEF AllBut, Left
  <2>2. Whole' = Whole /\ \A i \in Installs : Real(i)' => Real(i)
    BY <2>1 DEF Whole, Real
  <2> QED BY <1>3, <2>1, <2>2, ButKept
<1>4. s[1].op = "receipts" => AllBut(q, s[1].left)'
  BY <1>2, <1>3 DEF Told
<1>5. Leafing(s[1]) => \E i \in Installs : s[1].key = <<"receipt", i>> /\ AllBut(q, s[2].left \cup {i})'
  BY <1>2, <1>3 DEF Told
<1>6. Len(s) <= 3 => AllBut(q, {})' /\ lock = q
  BY <1>2, <1>3 DEF Told
<1>7. Len(s) = 1 => (Readable /\ Index.refs = Whole)'
  <2>1. Len(s) = 1 => lock = q /\ Readable /\ Index.refs = Whole
    BY <1>2, <1>6 DEF Told
  <2>2. Len(s) = 1 => revs' = revs /\ leaves' = leaves
    BY <2>1 DEF Left
  <2> QED BY <2>1, <2>2 DEF Readable, Index, Whole
<1>8. Told(q, s)'
  BY <1>4, <1>5, <1>6, <1>7 DEF Told
<1> QED BY <1>1, <1>2, <1>8

\* The place of an operation in a status tells what it is.
LEMMA StageOf ==
    ASSUME NEW s, Outlined(s), NEW l, l = Len(s)
    PROVE  /\ l \in 1 .. 5
           /\ s[1].op = "lock" => l = 5 /\ s[2].op = "attach"
           /\ s[1].op \in {"attach", "receipts"} => l = 4
           /\ s[1].op \in {"leaf", "fill_leaf"} => l = 5 /\ s[2].op = "receipts"
           /\ s[1].op = "rebuild" => l = 3
           /\ s[1].op = "fold" => l = 2
           /\ s[1].op = "fill_revision" => l \in {2, 3}
           /\ s[1].op = "done" => l = 1
           /\ s[1].op \in {"lock", "attach", "receipts", "leaf", "fill_leaf", "rebuild", "fold", "fill_revision", "done"}
<1>1. l \in {1, 2, 3, 4, 5} /\ s[l].op = "done" /\ (l >= 2 => Folding(s[l - 1])) /\ (l >= 3 => s[l - 2].op \in {"rebuild", "fill_revision"})
      /\ (l >= 4 => s[l - 3].op \in {"attach", "receipts"})
      /\ (l = 5 => IF s[2].op = "attach" THEN s[1].op = "lock" ELSE Leafing(s[1]))
  BY DEF Outlined
<1>2. CASE l = 1
  BY <1>1, <1>2
<1>3. CASE l = 2
  BY <1>1, <1>3 DEF Folding
<1>4. CASE l = 3
  BY <1>1, <1>4 DEF Folding
<1>5. CASE l = 4
  BY <1>1, <1>5
<1>6. CASE l = 5
  BY <1>1, <1>6 DEF Leafing
<1> QED BY <1>1, <1>2, <1>3, <1>4, <1>5, <1>6

LEMMA ReportEnds == ASSUME IInv, NEW p \in Procs, End(p) PROVE Reported(p)'
BY EndGoes DEF Reported, Doing, Busy

\* A status goes on when what it leaves is outlined and told.
LEMMA ReportGoes ==
    ASSUME NEW p \in Procs, NEW t, t = job'[p].todo, Outlined(t), Told(p, t)'
    PROVE  Reported(p)'
BY DEF Reported

LEMMA ReportIs ==
    ASSUME IInv, NEW p \in Procs, Doing(p, "status"), Reported(p), NEW ops, IsList(ops), Continue(p, ops)
    PROVE  \E s, t, l, k : /\ s = job[p].todo /\ t = job'[p].todo /\ l \in Nat \ {0} /\ k \in Nat
                           /\ Splices(s, ops, t, l, k) /\ s[1] = Arg(p) /\ l = Len(s) /\ k = Len(ops)
                           /\ Outlined(s) /\ Told(p, s) /\ lock' = lock
<1>1. Busy(p) /\ Moves(p, ops) /\ lock' = lock
  BY ContinueMoves, Goes DEF Doing
<1>2. PICK s, t, l, k : /\ s = job[p].todo /\ t = job'[p].todo /\ l \in Nat \ {0} /\ k \in Nat
                        /\ Splices(s, ops, t, l, k) /\ s[1] = Arg(p) /\ l = Len(s)
  BY <1>1, Going
<1>3. k = Len(ops) /\ Outlined(s) /\ Told(p, s)
  BY <1>2 DEF Reported, Splices
<1> QED BY <1>1, <1>2, <1>3

LEMMA ReportLock == ASSUME IInv, NEW p \in Procs, Doing(p, "status"), Reported(p), Lock(p) PROVE Reported(p)'
<1>1. Busy(p) /\ Arg(p).op = "lock"
  BY DEF Lock, At, Arg
<1>2. CASE End(p)
  BY <1>2, ReportEnds
<1>3. CASE job' = [job EXCEPT ![p].todo = Tail(@)] /\ lock' = p
  <2>1. PICK s, t, ops : s = job[p].todo /\ t = Tail(s) /\ ops = <<>>
    OBVIOUS
  <2>2. IsList(s) /\ s # <<>> /\ Outlined(s) /\ Told(p, s)
    BY <1>1, <2>1 DEF IInv, Own, Listed, Busy, Reported
  <2>3. IsList(ops) /\ Len(ops) = 0 /\ t = ops \o Tail(s)
    BY <1>1, <2>1, Nothing, DropNothing DEF IInv, Own
  <2>4. PICK l \in Nat \ {0}, k \in Nat : Splices(s, ops, t, l, k)
    BY <2>2, <2>3, Spliced
  <2>5. l = Len(s) /\ k = 0 /\ s[1].op = "lock"
    BY <1>1, <2>1, <2>3, <2>4 DEF Splices, Arg
  <2>6. l = 5 /\ s[2].op = "attach"
    BY <2>2, <2>5, StageOf
  <2>7. Outlined(t) /\ Len(t) = 4 /\ t[1] = s[2]
    <3>1. l \in Nat \ {0, 1} /\ l - 1 = 4 /\ 1 \in 1 .. l - 1 /\ 1 + 1 = 2 /\ k = 0
      BY <2>5, <2>6
    <3>2. Outlined(t) /\ Len(t) = l - 1 /\ \A n \in 1 .. l - 1 : t[n] = s[n + 1]
      BY <2>2, <2>4, <3>1, Shorter
    <3> QED BY <3>1, <3>2
  <2>8. Told(p, t)'
    BY <2>6, <2>7 DEF Told, Leafing
  <2>9. job'[p].todo = t
    BY <1>3, <2>1 DEF IInv
  <2> QED BY <2>7, <2>8, <2>9, ReportGoes
<1> QED BY <1>2, <1>3 DEF Lock, Refuse

LEMMA ReportAttach == ASSUME IInv, NEW p \in Procs, Doing(p, "status"), Reported(p), Attach(p) PROVE Reported(p)'
<1>1. Busy(p) /\ Arg(p).op = "attach" /\ UNCHANGED <<record, machine>>
  BY DEF Attach, At, Arg
<1>2. lock = p
  BY <1>1, UnderLock DEF IInv, Creates
<1>3. PICK o, ops : o = [op |-> "receipts", left |-> {i \in Installs : receipt[i] \notin {None, Begun}}] /\ ops = <<o>>
  OBVIOUS
<1>4. Continue(p, ops) /\ IsList(ops) /\ Len(ops) = 1 /\ ops[1] = o
  BY <1>3, Tuples DEF Attach
<1>5. PICK s, t, l, k : /\ s = job[p].todo /\ t = job'[p].todo /\ l \in Nat \ {0} /\ k \in Nat
                        /\ Splices(s, ops, t, l, k) /\ s[1] = Arg(p) /\ l = Len(s) /\ k = Len(ops)
                        /\ Outlined(s) /\ Told(p, s) /\ lock' = lock
  BY <1>4, ReportIs
<1>6. l = 4
  BY <1>1, <1>5, StageOf
<1>7. Outlined(t) /\ Len(t) = 4 /\ t[1] = o
  <2>1. l \in Nat \ {0, 1} /\ k = 1 /\ ops[1].op \in {"attach", "receipts"} /\ l # 5 /\ l # 3 /\ l # 2
    BY <1>3, <1>4, <1>5, <1>6
  <2>2. Splices(s, ops, t, l, k) /\ Outlined(s)
    BY <1>5
  <2>3. Outlined(t) /\ Len(t) = l /\ t[1] = ops[1]
    BY <2>1, <2>2, Exchanged
  <2> QED BY <1>4, <1>6, <2>3
<1>8. AllBut(p, o.left)'
  BY <1>1, <1>2, <1>3, <1>5 DEF AllBut, Real, machine
<1>9. Told(p, t)'
  BY <1>3, <1>7, <1>8 DEF Told, Leafing
<1> QED BY <1>5, <1>7, <1>9, ReportGoes

LEMMA ReportNext == ASSUME IInv, EInv, NEW p \in Procs, Doing(p, "status"), Reported(p), AttachNext(p) PROVE Reported(p)'
<1>1. Busy(p) /\ Arg(p).op = "receipts" /\ UNCHANGED <<record, machine>>
  BY DEF AttachNext, At, Arg
<1>2. PICK left : left = Arg(p).left
  OBVIOUS
<1>3. left \subseteq Installs
  BY <1>1, <1>2, HeadDue DEF Due, AttachDue
<1>4. Whole' = Whole /\ \A i \in Installs : Real(i)' => Real(i)
  BY <1>1, RecordStill DEF Real, machine
<1>5. CASE left = {} /\ Continue(p, <<>>)
  <2>1. PICK ops : ops = <<>>
    OBVIOUS
  <2>2. Continue(p, ops) /\ IsList(ops) /\ Len(ops) = 0
    BY <1>5, <2>1, Nothing
  <2>3. PICK s, t, l, k : /\ s = job[p].todo /\ t = job'[p].todo /\ l \in Nat \ {0} /\ k \in Nat
                          /\ Splices(s, ops, t, l, k) /\ s[1] = Arg(p) /\ l = Len(s) /\ k = Len(ops)
                          /\ Outlined(s) /\ Told(p, s) /\ lock' = lock
    BY <2>2, ReportIs
  <2>4. l = 4
    BY <1>1, <2>3, StageOf
  <2>5. Outlined(t) /\ Len(t) = 3
    <3>1. l \in Nat \ {0, 1} /\ k = 0 /\ l - 1 = 3
      BY <2>2, <2>3, <2>4
    <3>2. Splices(s, ops, t, l, k) /\ Outlined(s)
      BY <2>3
    <3>3. Outlined(t) /\ Len(t) = l - 1
      BY <3>1, <3>2, Shorter
    <3> QED BY <3>1, <3>3
  <2>6. AllBut(p, left) /\ lock = p
    BY <1>1, <1>2, <2>3 DEF Told, AllBut
  <2>7. AllBut(p, {})'
    BY <1>4, <1>5, <2>3, <2>6, ButKept
  <2>8. t[1].op \in {"rebuild", "fill_revision"}
    <3>1. 3 - 2 = 1
      OBVIOUS
    <3> QED BY <2>5, <3>1 DEF Outlined
  <2>9. Told(p, t)'
    BY <2>5, <2>7, <2>8 DEF Told, Leafing
  <2> QED BY <2>3, <2>5, <2>9, ReportGoes
<1>6. ASSUME NEW i \in left,
             Continue(p, <<Leaf("receipt", i, receipt[i].snap, "system-apply"),
                           [op |-> "receipts", left |-> left \ {i}]>>)
      PROVE  Reported(p)'
  <2>1. PICK type, key, a, b, ops :
           /\ type = "receipt" /\ key = <<type, i>> /\ a = Leaf(type, i, receipt[i].snap, "system-apply")
           /\ b = [op |-> "receipts", left |-> left \ {i}] /\ ops = <<a, b>>
    OBVIOUS
  <2>2. Continue(p, ops) /\ IsList(ops) /\ Len(ops) = 2 /\ ops[1] = a /\ ops[2] = b
    BY <1>6, <2>1, Tuples
  <2>3. a.op = "leaf" /\ a.key = key /\ b.op = "receipts" /\ b.left = left \ {i}
    BY <2>1 DEF Leaf
  <2>4. PICK s, t, l, k : /\ s = job[p].todo /\ t = job'[p].todo /\ l \in Nat \ {0} /\ k \in Nat
                          /\ Splices(s, ops, t, l, k) /\ s[1] = Arg(p) /\ l = Len(s) /\ k = Len(ops)
                          /\ Outlined(s) /\ Told(p, s) /\ lock' = lock
    BY <2>2, ReportIs
  <2>5. l = 4 /\ k = 2
    BY <1>1, <2>2, <2>4, StageOf
  <2>6. Outlined(t) /\ Len(t) = 5 /\ t[1] = a /\ t[2] = b
    BY <2>2, <2>3, <2>4, <2>5, Longer DEF Leafing
  <2>7. AllBut(p, left) /\ lock' = p
    BY <1>1, <1>2, <2>4 DEF Told, AllBut
  <2>8. AllBut(p, b.left \cup {i})'
    <3>1. PICK rest : rest = b.left \cup {i}
      OBVIOUS
    <3>2. \A j \in left : j \in rest
      BY <2>3, <3>1
    <3>3. AllBut(p, rest)'
      BY <1>4, <2>7, <3>2, ButKept
    <3> QED BY <3>1, <3>3
  <2>9. Told(p, t)'
    <3>1. t[1].key = <<"receipt", i>> /\ i \in Installs /\ t[1].op # "receipts"
      BY <1>3, <2>1, <2>3, <2>6
    <3>2. AllBut(p, t[2].left \cup {i})'
      <4>1. PICK rest, more : rest = b.left \cup {i} /\ more = t[2].left \cup {i}
        OBVIOUS
      <4>2. rest = more
        BY <2>6, <4>1
      <4> QED BY <2>8, <4>1, <4>2
    <3>3. Len(t) # 1 /\ ~(Len(t) <= 3)
      BY <2>6
    <3> QED BY <3>1, <3>2, <3>3 DEF Told
  <2> QED BY <2>4, <2>6, <2>9, ReportGoes
<1> QED BY <1>2, <1>5, <1>6 DEF AttachNext

LEMMA ReportDrops ==
    ASSUME IInv, NEW p \in Procs, Doing(p, "status"), Reported(p), Continue(p, <<>>), Arg(p).op # "done"
    PROVE  \E s, t, l : /\ s = job[p].todo /\ t = job'[p].todo /\ l \in 2 .. 5 /\ l = Len(s) /\ s[1] = Arg(p)
                        /\ Outlined(s) /\ Told(p, s) /\ Outlined(t) /\ Len(t) = l - 1 /\ t[1] = s[2] /\ lock' = lock
<1>1. PICK ops : ops = <<>>
  OBVIOUS
<1>2. Continue(p, ops) /\ IsList(ops) /\ Len(ops) = 0
  BY <1>1, Nothing
<1>3. PICK s, t, l, k : /\ s = job[p].todo /\ t = job'[p].todo /\ l \in Nat \ {0} /\ k \in Nat
                        /\ Splices(s, ops, t, l, k) /\ s[1] = Arg(p) /\ l = Len(s) /\ k = Len(ops)
                        /\ Outlined(s) /\ Told(p, s) /\ lock' = lock
  BY <1>2, ReportIs
<1>4. l \in 2 .. 5
  <2>1. l \in 1 .. 5 /\ (l = 1 => s[1].op = "done")
    BY <1>3 DEF Outlined
  <2> QED BY <1>3, <2>1
<1>5. l \in Nat \ {0, 1} /\ k = 0 /\ 1 \in 1 .. l - 1 /\ 1 + 1 = 2
  <2>1. k = 0
    BY <1>2, <1>3
  <2> QED BY <1>4, <2>1
<1>6. Splices(s, ops, t, l, k) /\ Outlined(s)
  BY <1>3
<1>7. Outlined(t) /\ Len(t) = l - 1 /\ \A n \in 1 .. l - 1 : t[n] = s[n + 1]
  BY <1>5, <1>6, Shorter
<1>8. t[1] = s[2]
  BY <1>5, <1>7
<1> QED BY <1>3, <1>4, <1>7, <1>8

LEMMA ReportLeaf ==
    ASSUME IInv, NEW p \in Procs, Doing(p, "status"), Reported(p), RegisterLeaf(p) \/ FillLeaf(p)
    PROVE  Reported(p)'
<1>1. Busy(p) /\ Arg(p).op \in {"leaf", "fill_leaf"} /\ (receipt' = receipt \/ End(p))
  BY DEF RegisterLeaf, FillLeaf, Refuse, At, Arg, machine
<1>2. PICK o, key, b : o = Arg(p) /\ key = o.key /\ b = o.body
  OBVIOUS
<1>3. CASE End(p)
  BY <1>3, ReportEnds
<1>4. CASE Continue(p, <<>>) /\ key \in Whole' /\ Whole \subseteq Whole' /\ receipt' = receipt
  <2>1. Arg(p).op \in {"leaf", "fill_leaf"}
    BY DEF RegisterLeaf, FillLeaf, At, Arg
  <2>2. PICK s, t, l : /\ s = job[p].todo /\ t = job'[p].todo /\ l \in 2 .. 5 /\ l = Len(s) /\ s[1] = o
                       /\ Outlined(s) /\ Told(p, s) /\ Outlined(t) /\ Len(t) = l - 1 /\ t[1] = s[2] /\ lock' = lock
    BY <1>2, <1>4, <2>1, ReportDrops
  <2>3. l = 5 /\ s[2].op = "receipts" /\ Leafing(s[1])
    BY <1>2, <2>1, <2>2, StageOf DEF Leafing
  <2>4. PICK i \in Installs : key = <<"receipt", i>> /\ AllBut(p, s[2].left \cup {i})
    BY <1>2, <2>2, <2>3 DEF Told
  <2>5. PICK left, rest : rest = s[2].left /\ left = rest \cup {i}
    OBVIOUS
  <2>6. AllBut(p, rest)'
    <3>1. \A j \in left : <<"receipt", j>> \in Whole' \/ j \in rest
      BY <1>4, <2>4, <2>5
    <3>2. AllBut(p, left) /\ lock' = p /\ \A j \in Installs : Real(j)' => Real(j)
      BY <1>4, <2>2, <2>4, <2>5 DEF AllBut, Real
    <3> QED BY <1>4, <3>1, <3>2, ButKept
  <2>7. Told(p, t)'
    BY <2>2, <2>3, <2>5, <2>6 DEF Told, Leafing
  <2> QED BY <2>2, <2>7, ReportGoes
<1>5. ASSUME NEW f, f.op = "fill_leaf", f.key = key, Continue(p, <<f>>), Whole' = Whole, receipt' = receipt,
             o.op = "leaf"
      PROVE  Reported(p)'
  <2>1. PICK ops : ops = <<f>>
    OBVIOUS
  <2>2. Continue(p, ops) /\ IsList(ops) /\ Len(ops) = 1 /\ ops[1] = f
    BY <1>5, <2>1, Tuples
  <2>3. PICK s, t, l, k : /\ s = job[p].todo /\ t = job'[p].todo /\ l \in Nat \ {0} /\ k \in Nat
                          /\ Splices(s, ops, t, l, k) /\ s[1] = Arg(p) /\ l = Len(s) /\ k = Len(ops)
                          /\ Outlined(s) /\ Told(p, s) /\ lock' = lock
    BY <2>2, ReportIs
  <2>4. l = 5 /\ s[2].op = "receipts" /\ Leafing(s[1]) /\ s[1].key = key
    BY <1>2, <1>5, <2>3, StageOf DEF Leafing
  <2>5. Outlined(t) /\ Len(t) = 5 /\ t[1] = f /\ t[2] = s[2]
    <3>1. l \in Nat \ {0, 1} /\ k = 1 /\ l # 4 /\ l # 3 /\ l # 2 /\ Leafing(ops[1]) /\ Leafing(s[1]) /\ 2 \in 2 .. l
      BY <1>5, <2>2, <2>3, <2>4 DEF Leafing
    <3>2. Splices(s, ops, t, l, k) /\ Outlined(s)
      BY <2>3
    <3>3. Outlined(t) /\ Len(t) = l /\ t[1] = ops[1] /\ \A n \in 2 .. l : t[n] = s[n]
      BY <3>1, <3>2, Exchanged
    <3> QED BY <2>2, <2>4, <3>1, <3>3
  <2>6. PICK i \in Installs : key = <<"receipt", i>> /\ AllBut(p, s[2].left \cup {i})
    BY <2>3, <2>4 DEF Told
  <2>7. PICK left : left = s[2].left \cup {i}
    OBVIOUS
  <2>8. AllBut(p, left)'
    <3>1. AllBut(p, left) /\ lock' = p /\ \A j \in Installs : Real(j)' => Real(j)
      BY <1>5, <2>3, <2>6, <2>7 DEF AllBut, Real
    <3> QED BY <1>5, <3>1, ButKept
  <2>9. Told(p, t)'
    <3>1. t[1].key = <<"receipt", i>> /\ AllBut(p, t[2].left \cup {i})' /\ t[1].op # "receipts" /\ ~(Len(t) <= 3) /\ Len(t) # 1
      <4>1. PICK more : more = t[2].left \cup {i}
        OBVIOUS
      <4>2. more = left
        BY <2>5, <2>7, <4>1
      <4> QED BY <1>5, <2>5, <2>6, <2>8, <4>1, <4>2
    <3> QED BY <3>1 DEF Told
  <2> QED BY <2>3, <2>5, <2>9, ReportGoes
<1>6. CASE RegisterLeaf(p)
  <2>1. PICK f : f = [op |-> "fill_leaf", key |-> key, body |-> b]
    OBVIOUS
  <2>2. Busy(p) /\ o.op = "leaf"
    BY <1>2, <1>6 DEF RegisterLeaf, At, Arg
  <2>3. \/ Refuse(p)
        \/ /\ key \notin DOMAIN leaves /\ leaves' = With(leaves, key, Torn) /\ Continue(p, <<f>>) /\ UNCHANGED machine
        \/ /\ key \in DOMAIN leaves /\ leaves[key] = b /\ Continue(p, <<>>) /\ UNCHANGED <<record, machine>>
    BY <1>2, <1>6, <2>1 DEF RegisterLeaf
  <2>4. CASE /\ key \notin DOMAIN leaves /\ leaves' = With(leaves, key, Torn) /\ Continue(p, <<f>>) /\ UNCHANGED machine
    <3>1. Whole' = Whole
      BY <2>4 DEF Whole, With
    <3> QED BY <1>5, <2>1, <2>2, <2>4, <3>1 DEF machine
  <2>5. CASE key \in DOMAIN leaves /\ leaves[key] = b /\ Continue(p, <<>>) /\ UNCHANGED <<record, machine>>
    <3>1. b # Torn
      BY <1>2, <2>2 DEF IInv, Own, Listed
    <3>2. key \in Whole /\ Whole' = Whole
      BY <2>5, <3>1 DEF Whole, record
    <3> QED BY <1>4, <2>5, <3>2 DEF machine
  <2> QED BY <1>3, <2>3, <2>4, <2>5 DEF Refuse
<1>7. CASE FillLeaf(p)
  <2>1. leaves' = [leaves EXCEPT ![key] = b] /\ UNCHANGED machine /\ Continue(p, <<>>)
    BY <1>2, <1>7 DEF FillLeaf
  <2>2. key \in DOMAIN leaves /\ leaves[key] = Torn /\ b # Torn
    <3>1. At(p, "fill_leaf") /\ Busy(p) /\ Arg(p).op = "fill_leaf"
      BY <1>7 DEF FillLeaf, At, Arg
    <3> QED BY <1>2, <3>1 DEF IInv, Own, Fills, Listed
  <2>3. key \in Whole' /\ Whole \subseteq Whole'
    BY <2>1, <2>2 DEF Whole
  <2> QED BY <1>4, <2>1, <2>3 DEF machine
<1> QED BY <1>6, <1>7

LEMMA ReportRevision ==
    ASSUME IInv, NEW p \in Procs, Doing(p, "status"), Reported(p), Arg(p).op \in {"fold", "rebuild"},
           NEW index, NewRevision(p, index)
    PROVE  Reported(p)'
<1>1. PICK f, ops : f = [op |-> "fill_revision", index |-> index] /\ ops = <<f>>
  OBVIOUS
<1>2. Continue(p, ops) /\ IsList(ops) /\ Len(ops) = 1 /\ ops[1] = f /\ leaves' = leaves /\ UNCHANGED machine
  BY <1>1, Tuples DEF NewRevision
<1>3. PICK s, t, l, k : /\ s = job[p].todo /\ t = job'[p].todo /\ l \in Nat \ {0} /\ k \in Nat
                        /\ Splices(s, ops, t, l, k) /\ s[1] = Arg(p) /\ l = Len(s) /\ k = Len(ops)
                        /\ Outlined(s) /\ Told(p, s) /\ lock' = lock
  BY <1>2, ReportIs
<1>4. l \in {2, 3}
  BY <1>3, StageOf
<1>5. Outlined(t) /\ Len(t) = l /\ t[1] = f
  <2>1. k = 1 /\ ops[1].op \in {"rebuild", "fill_revision"} /\ Folding(ops[1])
    BY <1>1, <1>2, <1>3 DEF Folding
  <2>2. l \in Nat \ {0, 1} /\ l # 4 /\ l # 5
    BY <1>4
  <2>3. Splices(s, ops, t, l, k) /\ Outlined(s)
    BY <1>3
  <2>4. Outlined(t) /\ Len(t) = l /\ t[1] = ops[1]
    BY <2>1, <2>2, <2>3, Exchanged
  <2> QED BY <1>2, <2>4
<1>6. AllBut(p, {}) /\ lock' = p
  <2>1. Len(s) <= 3
    <3>1. l <= 3
      BY <1>4
    <3>2. Len(s) = l
      BY <1>3
    <3> QED BY <3>1, <3>2
  <2>2. AllBut(p, {})
    BY <1>3, <2>1 DEF Told
  <2> QED BY <1>3, <2>2 DEF AllBut
<1>7. AllBut(p, {})'
  <2>1. Whole' = Whole /\ \A i \in Installs : Real(i)' => Real(i)
    BY <1>2 DEF Whole, Real, machine
  <2> QED BY <1>6, <2>1, ButKept
<1>8. Told(p, t)'
  <2>1. Len(t) # 1 /\ t[1].op = "fill_revision"
    BY <1>1, <1>4, <1>5
  <2> QED BY <1>7, <2>1 DEF Told, Leafing
<1> QED BY <1>3, <1>5, <1>8, ReportGoes

\* A status that passes on from its index, which is then what it says.
LEMMA ReportPassed ==
    ASSUME IInv, NEW p \in Procs, Doing(p, "status"), Reported(p), Continue(p, <<>>), UNCHANGED <<leaves, machine>>,
           Arg(p).op \in {"rebuild", "fold", "fill_revision"},
           Arg(p).op # "rebuild" => (Readable /\ Index.refs = Whole)'
    PROVE  Reported(p)'
<1>1. PICK s, t, l : /\ s = job[p].todo /\ t = job'[p].todo /\ l \in 2 .. 5 /\ l = Len(s) /\ s[1] = Arg(p)
                     /\ Outlined(s) /\ Told(p, s) /\ Outlined(t) /\ Len(t) = l - 1 /\ t[1] = s[2] /\ lock' = lock
  BY ReportDrops
<1>2. l \in {2, 3} /\ (l = 2 => Arg(p).op # "rebuild")
  <2>1. /\ s[1].op = "rebuild" => l = 3
        /\ s[1].op = "fold" => l = 2
        /\ s[1].op = "fill_revision" => l \in {2, 3}
    BY <1>1, StageOf
  <2>2. s[1].op = Arg(p).op
    BY <1>1
  <2> QED BY <2>1, <2>2
<1>3. AllBut(p, {}) /\ lock' = p
  <2>1. Len(s) <= 3
    <3>1. l <= 3
      BY <1>2
    <3>2. Len(s) = l
      BY <1>1
    <3> QED BY <3>1, <3>2
  <2>2. AllBut(p, {})
    BY <1>1, <2>1 DEF Told
  <2> QED BY <1>1, <2>2 DEF AllBut
<1>4. AllBut(p, {})'
  <2>1. Whole' = Whole /\ \A i \in Installs : Real(i)' => Real(i)
    BY DEF Whole, Real, machine
  <2> QED BY <1>3, <2>1, ButKept
<1>5. t[1].op \notin {"receipts", "leaf", "fill_leaf"}
  <2>1. PICK m : m = Len(t)
    OBVIOUS
  <2>2. m \in {1, 2}
    BY <1>1, <1>2, <2>1
  <2>3. t[m].op = "done" /\ (m >= 2 => Folding(t[m - 1]))
    BY <1>1, <2>1 DEF Outlined
  <2>4. m = 2 => m - 1 = 1 /\ m >= 2
    OBVIOUS
  <2> QED BY <2>2, <2>3, <2>4 DEF Folding
<1>6. Len(t) = 1 => (Readable /\ Index.refs = Whole)'
  <2>1. Len(t) = 1 => l = 2
    <3>1. Len(t) = l - 1
      BY <1>1
    <3>2. PICK m : m = Len(t)
      OBVIOUS
    <3>3. m = l - 1
      BY <3>1, <3>2
    <3>4. l = 3 => m = 2
      BY <3>3
    <3>5. m = 1 => l = 2
      BY <1>2, <3>4
    <3> QED BY <3>2, <3>5
  <2> QED BY <1>2, <2>1
<1>7. Told(p, t)'
  BY <1>4, <1>5, <1>6 DEF Told, Leafing
<1> QED BY <1>1, <1>7, ReportGoes

LEMMA ReportFold == ASSUME IInv, NEW p \in Procs, Doing(p, "status"), Reported(p), Fold(p) PROVE Reported(p)'
<1>1. Arg(p).op = "fold"
  BY DEF Fold, At, Arg
<1>2. CASE Refuse(p)
  BY <1>2, ReportEnds DEF Refuse
<1>3. CASE NewRevision(p, Folded)
  BY <1>1, <1>3, ReportRevision
<1>4. CASE /\ Readable /\ Foldable /\ Index = Folded /\ Continue(p, <<>>)
           /\ UNCHANGED <<proposal, record, machine, bounds>>
  <2>1. Index.refs = Whole
    BY <1>4, FoldedSnap
  <2>2. (Readable /\ Index.refs = Whole)'
    BY <1>4, <2>1 DEF record, Readable, Index, Whole
  <2>3. UNCHANGED <<leaves, machine>>
    BY <1>4 DEF record
  <2> QED BY <1>1, <1>4, <2>2, <2>3, ReportPassed
<1> QED BY <1>2, <1>3, <1>4 DEF Fold

LEMMA ReportRebuild == ASSUME IInv, NEW p \in Procs, Doing(p, "status"), Reported(p), Rebuild(p) PROVE Reported(p)'
<1>1. Arg(p).op = "rebuild"
  BY DEF Rebuild, At, Arg
<1>2. CASE Refuse(p)
  BY <1>2, ReportEnds DEF Refuse
<1>3. CASE NewRevision(p, Folded)
  BY <1>1, <1>3, ReportRevision
<1>4. CASE Continue(p, <<>>) /\ UNCHANGED <<proposal, record, machine, bounds>>
  <2>1. UNCHANGED <<leaves, machine>>
    BY <1>4 DEF record
  <2> QED BY <1>1, <1>4, <2>1, ReportPassed
<1> QED BY <1>2, <1>3, <1>4 DEF Rebuild

\* A revision that is filled says what is on record, and stays the last.
LEMMA Revised ==
    ASSUME IInv, NEW p \in Procs, FillRevision(p)
    PROVE  /\ Foldable /\ (Readable /\ Index = Folded)' /\ (Index.refs = Whole)'
           /\ Folded' = Folded /\ leaves' = leaves
<1>1. revs # <<>> /\ Foldable /\ Arg(p).index = Folded /\ IsList(revs)
  <2>1. At(p, "fill_revision")
    BY DEF FillRevision
  <2> QED BY <2>1 DEF IInv, Own, Fills, OneWriter
<1>2. PICK n, f : n = Len(revs) /\ f = Folded
  OBVIOUS
<1>3. leaves' = leaves /\ revs' = [revs EXCEPT ![n] = f]
  BY <1>1, <1>2 DEF FillRevision
<1>4. n \in Nat \ {0} /\ revs' = Append(SubSeq(revs, 1, n - 1), f) /\ IsList(SubSeq(revs, 1, n - 1))
      /\ Len(SubSeq(revs, 1, n - 1)) = n - 1
  BY <1>1, <1>2, <1>3, Shortened
<1>5. PICK r : r = SubSeq(revs, 1, n - 1)
  OBVIOUS
<1>6. IsList(r) /\ Len(r) = n - 1 /\ revs' = Append(r, f)
  BY <1>4, <1>5
<1>7. Append(r, f) # <<>> /\ Len(Append(r, f)) = Len(r) + 1 /\ Append(r, f)[Len(r) + 1] = f
  BY <1>6, Appended
<1>8. revs' # <<>> /\ revs'[Len(revs')] = f
  BY <1>6, <1>7
<1>9. f # Torn
  <2>1. "snap" \in DOMAIN Folded /\ "snap" \notin DOMAIN Torn
    BY DEF Folded, Torn
  <2> QED BY <1>2, <2>1
<1>10. Folded' = Folded /\ Whole' = Whole
  BY <1>3 DEF Folded, SnapshotsNamed, Whole
<1>11. (Readable /\ Index = Folded)'
  BY <1>2, <1>8, <1>9, <1>10 DEF Readable, Index
<1>12. Folded.refs = Whole
  BY <1>1, FoldedSnap
<1> QED BY <1>1, <1>3, <1>10, <1>11, <1>12

LEMMA ReportFilled == ASSUME IInv, NEW p \in Procs, Doing(p, "status"), Reported(p), FillRevision(p) PROVE Reported(p)'
<1>1. Arg(p).op = "fill_revision" /\ Continue(p, <<>>) /\ UNCHANGED <<leaves, machine>>
  BY DEF FillRevision, At, Arg
<1>2. (Readable /\ Index.refs = Whole)'
  BY Revised
<1> QED BY <1>1, <1>2, ReportPassed

LEMMA ReportStep == ASSUME IInv, EInv, NEW p \in Procs, Reported(p), Step(p) PROVE Reported(p)'
<1>1. CASE Doing(p, "status")
  <2>1. PICK s : s = job[p].todo
    OBVIOUS
  <2>2. Outlined(s) /\ IsList(s) /\ s # <<>>
    BY <1>1, <2>1 DEF Reported, IInv, Own, Listed, Doing, Busy
  <2>3. Arg(p).op = s[1].op
    BY <2>1, <2>2, TailOf DEF Arg
  <2>4. Arg(p).op \in {"lock", "attach", "receipts", "leaf", "fill_leaf", "rebuild", "fold", "fill_revision", "done"}
    BY <2>2, <2>3, StageOf
  <2>5. \/ Lock(p) \/ Done(p) \/ RegisterLeaf(p) \/ FillLeaf(p) \/ Fold(p) \/ FillRevision(p)
        \/ Attach(p) \/ AttachNext(p) \/ Rebuild(p)
    BY <2>4, Zenon DEF Step, At, Arg, Load, Manifest, FillManifest, ReadFirst, FirstRevision, File, Install, WriteReceipt,
       UpdateRegistry, FindResult, Bind, Covered, Run, Reviewed, WriteOrders, Committed, Restore
  <2>6. CASE Done(p)
    BY <2>6, ReportEnds DEF Done
  <2> QED BY <1>1, <2>5, <2>6, ReportLock, ReportLeaf, ReportFold, ReportFilled, ReportAttach, ReportNext, ReportRebuild
<1>2. CASE ~Doing(p, "status")
  <2>1. Busy(p) /\ (End(p) \/ (\E ops : Continue(p, ops)) \/ job' = [job EXCEPT ![p].todo = Tail(@)])
    BY Course
  <2>2. CASE End(p)
    BY <2>2, ReportEnds
  <2>3. ASSUME NEW ops, Continue(p, ops) PROVE job'[p].cmd = job[p].cmd
    BY <2>3, Goes
  <2>4. CASE job' = [job EXCEPT ![p].todo = Tail(@)]
    <3>1. job'[p].cmd = job[p].cmd
      BY <2>4 DEF IInv
    <3> QED BY <1>2, <2>1, <3>1 DEF Reported, Doing
  <2> QED BY <1>2, <2>1, <2>2, <2>3, <2>4 DEF Reported, Doing
<1> QED BY <1>1, <1>2

LEMMA ReportOther ==
    ASSUME IInv, NEW p \in Procs, NEW c, c # "status", NEW ops, Start(p, c, ops)
    PROVE  Reported(p)'
<1>1. job'[p].cmd = c
  BY DEF Start, IInv
<1> QED BY <1>1 DEF Reported, Doing

LEMMA ReportStart == ASSUME IInv, NEW p \in Procs, Status(p) PROVE Reported(p)'
<1>1. PICK a, b, d, e, f, t :
        /\ a = Op("lock") /\ b = Op("attach") /\ d = Op("rebuild") /\ e = Op("fold") /\ f = Op("done")
        /\ t = <<a, b, d, e, f>>
  OBVIOUS
<1>2. job' = [job EXCEPT ![p] = [cmd |-> "status", todo |-> t]]
  <2>1. <<a, b, d, e>> \o <<f>> = t
    BY <1>1, FourMore
  <2> QED BY <1>1, <2>1 DEF Status, Call, Start
<1>3. job'[p].todo = t
  BY <1>2 DEF IInv
<1>4. Len(t) = 5 /\ t[1] = a /\ t[2] = b /\ t[3] = d /\ t[4] = e /\ t[5] = f
  BY <1>1
<1>5. a.op = "lock" /\ b.op = "attach" /\ d.op = "rebuild" /\ e.op = "fold" /\ f.op = "done"
  BY <1>1, Word DEF Words
<1>6. Outlined(t)
  BY <1>4, <1>5 DEF Outlined, Folding
<1>7. Told(p, t)'
  BY <1>4, <1>5 DEF Told, Leafing
<1> QED BY <1>3, <1>6, <1>7, ReportGoes

\* A process begins a command, or goes on with it.
Begin(p) ==
    \/ Propose(p) \/ Status(p)
    \/ \E i \in Installs : ApplyCampaign(p, i) \/ Rollback(p, i)
    \/ \E o \in Orders, a \in Attempts : Dispatch(p, o, a)
    \/ \E i \in Installs, r \in DOMAIN leaves, ack \in BOOLEAN : DispatchApply(p, i, r, ack)
Moved(p) == Begin(p) \/ Step(p) \/ Fault(p) \/ Crash(p)

LEMMA NextMoves ==
    ASSUME Next
    PROVE  (\E p \in Procs : Moved(p)) \/ (\E t \in Plans, c \in Contents : Edit(t, c))
BY DEF Next, Begin, Moved

LEMMA BeginStarts ==
    ASSUME NEW p \in Procs, Begin(p)
    PROVE  \E c, ops : Start(p, c, ops) /\ (c # "status" \/ Status(p))
<1>1. CASE Status(p)
  BY <1>1 DEF Status, Call
<1>2. CASE Propose(p)
  BY <1>2 DEF Propose
<1>3. ASSUME NEW i \in Installs, ApplyCampaign(p, i) \/ Rollback(p, i)
      PROVE  \E c, ops : Start(p, c, ops) /\ c # "status"
  BY <1>3 DEF ApplyCampaign, Rollback, Call
<1>4. ASSUME NEW o \in Orders, NEW a \in Attempts, Dispatch(p, o, a)
      PROVE  \E c, ops : Start(p, c, ops) /\ c # "status"
  BY <1>4 DEF Dispatch, Call
<1>5. ASSUME NEW i \in Installs, NEW r \in DOMAIN leaves, NEW ack \in BOOLEAN, DispatchApply(p, i, r, ack)
      PROVE  \E c, ops : Start(p, c, ops) /\ c # "status"
  BY <1>5 DEF DispatchApply, Call
<1> QED BY <1>1, <1>2, <1>3, <1>4, <1>5 DEF Begin

LEMMA MovedAside ==
    ASSUME IInv, NEW p \in Procs, Moved(p), NEW q \in Procs \ {p}
    PROVE  Left(q)
<1>1. CASE Begin(p)
  BY <1>1, BeginStarts, AsideStart
<1> QED BY <1>1, Aside, AsideFailed DEF Moved

LEMMA NobodyMoves ==
    ASSUME UNCHANGED <<leaves, revs, receipt, lock, job>>, NEW q
    PROVE  Left(q)
BY DEF Left

LEMMA ReportMoves == ASSUME IInv, EInv, NEW p \in Procs, Reported(p), Moved(p) PROVE Reported(p)'
<1>1. CASE Begin(p)
  <2>1. PICK c, ops : Start(p, c, ops) /\ (c # "status" \/ Status(p))
    BY <1>1, BeginStarts
  <2> QED BY <2>1, ReportOther, ReportStart
<1>2. CASE Fault(p) \/ Crash(p)
  BY <1>2, ReportEnds DEF Fault, Crash
<1> QED BY <1>1, <1>2, ReportStep DEF Moved

LEMMA ReportsStep == IInv /\ EInv /\ (\A q \in Procs : Reported(q)) /\ [Next]_vars => \A q \in Procs : Reported(q)'
<1> SUFFICES ASSUME IInv, EInv, \A q \in Procs : Reported(q), [Next]_vars, NEW q \in Procs PROVE Reported(q)'
  OBVIOUS
<1>1. ASSUME NEW p \in Procs, Moved(p) PROVE Reported(q)'
  BY <1>1, ReportMoves, MovedAside, ReportedAside
<1>2. ASSUME NEW t \in Plans, NEW c \in Contents, Edit(t, c) PROVE Reported(q)'
  <2>1. UNCHANGED <<leaves, revs, receipt, lock, job>>
    BY <1>2 DEF Edit, record
  <2> QED BY <2>1, NobodyMoves, ReportedAside
<1>3. CASE UNCHANGED vars
  <2>1. UNCHANGED <<leaves, revs, receipt, lock, job>>
    BY <1>3 DEF vars, record, machine
  <2> QED BY <2>1, NobodyMoves, ReportedAside
<1> QED BY <1>1, <1>2, <1>3, NextMoves

LEMMA ReportTrue ==
    ASSUME IInv, \A q \in Procs : Reported(q)
    PROVE  StatusTruth
<1> SUFFICES ASSUME NEW p \in Procs, At(p, "done"), Doing(p, "status")
             PROVE  /\ Readable /\ Index.refs = Whole
                    /\ \A i \in Installs : receipt[i] \notin {None, Begun} => <<"receipt", i>> \in Whole
  BY DEF StatusTruth
<1>1. PICK s, l : s = job[p].todo /\ l = Len(s)
  OBVIOUS
<1>2. Outlined(s) /\ Told(p, s) /\ s[1].op = "done"
  <2>1. IsList(s) /\ s # <<>>
    BY <1>1 DEF IInv, Own, Listed, Doing, Busy
  <2> QED BY <1>1, <2>1, TailOf DEF Reported, At
<1>3. Len(s) = 1
  BY <1>1, <1>2, StageOf
<1>4. Len(s) <= 3
  BY <1>3
<1> QED BY <1>2, <1>3, <1>4 DEF Told, AllBut, Real, Attached

\* A status that reports no error has attached every receipt of the campaign and
\* folded every artifact into the index, whatever happened before it and whoever
\* else is at work (list_campaign_status, _attach_orphan_receipts).
THEOREM StatusKept == Spec => []StatusTruth
<1>1. Init => \A q \in Procs : Reported(q)
  BY DEF Init, Idle, Reported, Doing, Busy
<1>2. Spec => []\A q \in Procs : Reported(q)
  <2>1. IInv /\ EInv /\ (\A q \in Procs : Reported(q)) /\ [Next]_vars => (\A q \in Procs : Reported(q))'
    BY ReportsStep
  <2> QED BY <1>1, <2>1, Evidence, PTL DEF Spec
<1> QED BY <1>2, Evidence, ReportTrue, PTL

-----------------------------------------------------------------------------
(* What a step adds to what a command has left. *)

\* It attempts no work order and binds the campaign to no snapshot.
Tame(o) == ~Trying(o) /\ ~Binds(o)
Calm(p) == \E ops : Continue(p, ops) /\ IsList(ops) /\ \A n \in DOMAIN ops : Tame(ops[n])
Trials == {"find", "bind", "run", "leaf", "fill_leaf"}

LEMMA TameOp == ASSUME NEW o, o.op \notin Trials PROVE Tame(o)
BY DEF Tame, Trials, Trying, Attempting, Resulting, Binds, Leafing

LEMMA TameLeaf ==
    ASSUME NEW type, NEW id, NEW sn, NEW what, type \notin {"work-order-result", "snapshot", "snapshot-binding"}
    PROVE  Tame(Leaf(type, id, sn, what))
<1>1. PICK a : a = Leaf(type, id, sn, what)
  OBVIOUS
<1>2. a.op = "leaf" /\ a.key[1] = type
  BY <1>1 DEF Leaf
<1>3. Tame(a)
  BY <1>2 DEF Tame, Trying, Attempting, Resulting, Binds, Leafing
<1> QED BY <1>1, <1>3

LEMMA CalmNone == ASSUME NEW p, Continue(p, <<>>) PROVE Calm(p)
BY Nothing DEF Calm

LEMMA CalmOne == ASSUME NEW p, NEW o, Tame(o), Continue(p, <<o>>) PROVE Calm(p)
<1>1. PICK ops : ops = <<o>>
  OBVIOUS
<1>2. IsList(ops) /\ DOMAIN ops = 1 .. 1 /\ ops[1] = o
  BY <1>1, Tuples
<1>3. \A n \in DOMAIN ops : Tame(ops[n])
  BY <1>2
<1> QED BY <1>1, <1>2, <1>3 DEF Calm

LEMMA CalmRevision ==
    ASSUME NEW p, Fold(p) \/ FillRevision(p) \/ Load(p) \/ Rebuild(p) \/ FirstRevision(p) \/ ReadFirst(p)
    PROVE  (End(p) \/ Calm(p)) /\ UNCHANGED <<leaves, snaps>>
<1>1. ASSUME NEW index, NewRevision(p, index) PROVE Calm(p) /\ UNCHANGED <<leaves, snaps>>
  <2>1. PICK o : o = [op |-> "fill_revision", index |-> index]
    OBVIOUS
  <2>2. Tame(o)
    BY <2>1, TameOp DEF Trials
  <2>3. Continue(p, <<o>>) /\ UNCHANGED <<leaves, snaps>>
    BY <1>1, <2>1 DEF NewRevision, machine
  <2> QED BY <2>2, <2>3, CalmOne
<1>2. CASE Fold(p)
  BY <1>1, <1>2, CalmNone DEF Fold, Refuse, record, machine
<1>3. CASE Rebuild(p)
  BY <1>1, <1>3, CalmNone DEF Rebuild, Refuse, record, machine
<1>4. CASE FirstRevision(p)
  BY <1>1, <1>4, CalmNone DEF FirstRevision, Refuse, record, machine
<1>5. CASE FillRevision(p) \/ Load(p)
  BY <1>5, CalmNone DEF FillRevision, Load, Refuse, record, machine
<1>6. CASE ReadFirst(p)
  <2>1. PICK o : o = Op("first")
    OBVIOUS
  <2>2. Tame(o)
    BY <2>1, Word, TameOp DEF Words, Trials
  <2> QED BY <1>6, <2>1, <2>2, CalmOne, CalmNone DEF ReadFirst, Refuse, record, machine
<1> QED BY <1>2, <1>3, <1>4, <1>5, <1>6

LEMMA CalmFile ==
    ASSUME NEW p, \/ Manifest(p) \/ FillManifest(p) \/ File(p) \/ Install(p) \/ WriteReceipt(p)
                  \/ UpdateRegistry(p) \/ Covered(p) \/ Attach(p)
    PROVE  (End(p) \/ Calm(p)) /\ UNCHANGED <<leaves, snaps>>
<1>1. CASE Manifest(p)
  <2>1. PICK o : o = Op("fill_manifest")
    OBVIOUS
  <2>2. Tame(o)
    BY <2>1, Word, TameOp DEF Words, Trials
  <2> QED BY <1>1, <2>1, <2>2, CalmOne DEF Manifest, record, machine
<1>2. CASE FillManifest(p) \/ File(p)
  BY <1>2, CalmNone DEF FillManifest, File, record, machine
<1>3. CASE Install(p) \/ WriteReceipt(p) \/ UpdateRegistry(p) \/ Covered(p)
  BY <1>3, CalmNone DEF Install, WriteReceipt, UpdateRegistry, Covered, Refuse, record, machine
<1>4. CASE Attach(p)
  <2>1. PICK o : o = [op |-> "receipts", left |-> {i \in Installs : receipt[i] \notin {None, Begun}}]
    OBVIOUS
  <2>2. Tame(o)
    BY <2>1, TameOp DEF Trials
  <2> QED BY <1>4, <2>1, <2>2, CalmOne DEF Attach, record, machine
<1> QED BY <1>1, <1>2, <1>3, <1>4

LEMMA CalmNext ==
    ASSUME NEW p, WriteOrders(p) \/ AttachNext(p)
    PROVE  Calm(p) /\ UNCHANGED <<leaves, snaps>>
<1>1. UNCHANGED <<leaves, snaps>>
  BY DEF WriteOrders, AttachNext, record, machine
<1>2. CASE Continue(p, <<>>)
  BY <1>1, <1>2, CalmNone
<1>3. ASSUME NEW o, WriteOrders(p),
             Continue(p, <<[op |-> "file", name |-> o], Leaf("work-order", o, None, None),
                           [op |-> "orders", left |-> Arg(p).left \ {o}]>>)
      PROVE  Calm(p)
  <2>1. PICK a, b, c, type, none, ops :
          /\ a = [op |-> "file", name |-> o] /\ type = "work-order" /\ none = None
          /\ b = Leaf(type, o, none, none) /\ c = [op |-> "orders", left |-> Arg(p).left \ {o}] /\ ops = <<a, b, c>>
    OBVIOUS
  <2>2. Tame(a) /\ Tame(c)
    BY <2>1, TameOp DEF Trials
  <2>3. Tame(b)
    BY <2>1, TameLeaf
  <2>4. IsList(ops) /\ DOMAIN ops = 1 .. 3 /\ ops[1] = a /\ ops[2] = b /\ ops[3] = c
    BY <2>1, Tuples
  <2>5. \A n \in DOMAIN ops : Tame(ops[n])
    BY <2>2, <2>3, <2>4
  <2> QED BY <1>3, <2>1, <2>4, <2>5 DEF Calm
<1>4. ASSUME NEW i, AttachNext(p),
             Continue(p, <<Leaf("receipt", i, receipt[i].snap, "system-apply"),
                           [op |-> "receipts", left |-> Arg(p).left \ {i}]>>)
      PROVE  Calm(p)
  <2>1. PICK a, b, type, sn, by, ops :
          /\ type = "receipt" /\ sn = receipt[i].snap /\ by = "system-apply"
          /\ a = Leaf(type, i, sn, by) /\ b = [op |-> "receipts", left |-> Arg(p).left \ {i}] /\ ops = <<a, b>>
    OBVIOUS
  <2>2. Tame(b)
    BY <2>1, TameOp DEF Trials
  <2>3. Tame(a)
    BY <2>1, TameLeaf
  <2>4. IsList(ops) /\ DOMAIN ops = 1 .. 2 /\ ops[1] = a /\ ops[2] = b
    BY <2>1, Tuples
  <2>5. \A n \in DOMAIN ops : Tame(ops[n])
    BY <2>2, <2>3, <2>4
  <2> QED BY <1>4, <2>1, <2>4, <2>5 DEF Calm
<1> QED BY <1>1, <1>2, <1>3, <1>4 DEF WriteOrders, AttachNext

LEMMA InstallationTame ==
    ASSUME NEW i, NEW t, NEW sn, NEW by, NEW ack, NEW u, u = Installation(i, t, sn, by, ack)
    PROVE  IsList(u) /\ \A n \in DOMAIN u : Tame(u[n])
<1>1. PICK type : type = "receipt"
  OBVIOUS
<1>2. /\ IsList(u) /\ DOMAIN u = 1 .. 5 /\ u[1].op = "install" /\ u[2].op = "receipt" /\ u[3].op = "registry"
      /\ u[4] = Leaf(type, i, sn, by) /\ u[5] = Op("fold")
  <2>1. /\ IsList(u) /\ DOMAIN u = 1 .. 5
        /\ u[1] = [op |-> "install", inst |-> i, plan |-> t, ack |-> ack]
        /\ u[2] = [op |-> "receipt", inst |-> i, body |-> [plan |-> t, snap |-> sn]]
        /\ u[3] = [op |-> "registry", inst |-> i, status |-> "active"]
        /\ u[4] = Leaf("receipt", i, sn, by) /\ u[5] = Op("fold")
    BY InstallationIs
  <2> QED BY <1>1, <2>1
<1>3. Tame(u[4])
  BY <1>1, <1>2, TameLeaf
<1>4. u[5].op = "fold"
  BY <1>2, Word DEF Words
<1>5. \A n \in 1 .. 5 : n \in {1, 2, 3, 4, 5}
  OBVIOUS
<1>6. Tame(u[1]) /\ Tame(u[2]) /\ Tame(u[3]) /\ Tame(u[5])
  BY <1>2, <1>4, TameOp DEF Trials
<1> QED BY <1>2, <1>3, <1>5, <1>6

LEMMA CalmRollback ==
    ASSUME NEW p, Committed(p) \/ Restore(p) \/ Reviewed(p)
    PROVE  (End(p) \/ Calm(p)) /\ UNCHANGED <<leaves, snaps>>
<1>1. CASE Committed(p)
  <2>1. PICK i, k, a, b : /\ i = Arg(p).inst /\ k = <<"rollback", i>>
                          /\ a = [op |-> "registry", inst |-> i, status |-> leaves[k].what]
                          /\ b = [op |-> "restore", inst |-> i]
    OBVIOUS
  <2>2. Tame(a) /\ Tame(b)
    BY <2>1, TameOp DEF Trials
  <2>3. UNCHANGED <<leaves, snaps>> /\ (End(p) \/ Continue(p, <<a>>) \/ Continue(p, <<>>) \/ Continue(p, <<b>>))
    BY <1>1, <2>1 DEF Committed, Refuse, record, machine
  <2> QED BY <2>2, <2>3, CalmOne, CalmNone
<1>2. CASE Restore(p)
  <2>1. PICK i, status, type, sn, a, b, c, d, u :
          /\ i = Arg(p).inst /\ status = IF live[receipt[i].plan] = "other" THEN "drifted" ELSE "rolled_back"
          /\ type = "rollback" /\ sn = receipt[i].snap
          /\ a = Op("load") /\ b = Leaf(type, i, sn, status) /\ c = Op("fold")
          /\ d = [op |-> "registry", inst |-> i, status |-> status] /\ u = <<a, b, c, d>>
    OBVIOUS
  <2>2. Continue(p, u) /\ UNCHANGED <<leaves, snaps>>
    BY <1>2, <2>1 DEF Restore, RollbackRecord, record
  <2>3. IsList(u) /\ DOMAIN u = 1 .. 4 /\ u[1] = a /\ u[2] = b /\ u[3] = c /\ u[4] = d
    BY <2>1, Quadruple
  <2>4. Tame(a) /\ Tame(c)
    BY <2>1, Word, TameOp DEF Words, Trials
  <2>5. Tame(b)
    BY <2>1, TameLeaf
  <2>6. Tame(d)
    BY <2>1, TameOp DEF Trials
  <2>7. \A n \in DOMAIN u : Tame(u[n])
    BY <2>3, <2>4, <2>5, <2>6
  <2> QED BY <2>2, <2>3, <2>7 DEF Calm
<1>3. CASE Reviewed(p)
  <2>1. PICK i, o, sn, ack, u :
          /\ i = Arg(p).inst /\ o = leaves[Arg(p).result].what[1] /\ sn = leaves[Arg(p).result].snap
          /\ ack = Arg(p).ack /\ u = Installation(i, o, sn, o, ack)
    OBVIOUS
  <2>2. IsList(u) /\ \A n \in DOMAIN u : Tame(u[n])
    BY <2>1, InstallationTame
  <2>3. UNCHANGED <<leaves, snaps>> /\ (End(p) \/ Continue(p, u))
    BY <1>3, <2>1 DEF Reviewed, Refuse, record, machine
  <2> QED BY <2>2, <2>3 DEF Calm
<1> QED BY <1>1, <1>2, <1>3

\* Only these add more.
Ventures(p) == RegisterLeaf(p) \/ FillLeaf(p) \/ FindResult(p) \/ Bind(p) \/ Run(p)

LEMMA Calmly ==
    ASSUME NEW p, Step(p), ~Ventures(p)
    PROVE  /\ End(p) \/ Calm(p) \/ (Arg(p).op = "lock" /\ lock = None /\ lock' = p /\ job' = [job EXCEPT ![p].todo = Tail(@)])
           /\ UNCHANGED <<leaves, snaps>>
<1>1. CASE Lock(p) \/ Done(p)
  BY <1>1 DEF Lock, Done, Free, Refuse, At, Arg, record, machine
<1> QED BY <1>1, CalmRevision, CalmFile, CalmNext, CalmRollback DEF Step, Ventures

-----------------------------------------------------------------------------
(* An attempt is made once. *)

\* No artifact is whole that was not.
Older == \A k \in Whole' : k \in Whole /\ leaves'[k] = leaves[k]

LEMMA RecordedOlder == ASSUME Older, NEW o, NEW a, Recorded(o, a)' PROVE Recorded(o, a)
BY DEF Older, Recorded

LEMMA OnceOlder == ASSUME Older, AttemptOnce PROVE AttemptOnce'
BY DEF Older, AttemptOnce

LEMMA AttemptGoes ==
    ASSUME IInv, NEW p \in Procs, Busy(p), Attempted(p), NEW ops, IsList(ops), Moves(p, ops),
           Trying(Arg(p)) \/ \A x, a : Recorded(x, a)' => Recorded(x, a),
           \A n \in DOMAIN ops : Trying(ops[n]) => Trying(Arg(p)) /\ \A m \in DOMAIN ops : m < n => ~Trying(ops[m]),
           \A n \in DOMAIN ops : Attempting(ops[n]) =>
               lock' = p /\ ~Recorded(AttemptOf(ops[n])[1], AttemptOf(ops[n])[2])'
    PROVE  Attempted(p)'
<1>1. PICK s, t, l, k : /\ s = job[p].todo /\ t = job'[p].todo /\ l \in Nat \ {0} /\ k \in Nat
                        /\ Splices(s, ops, t, l, k) /\ s[1] = Arg(p)
  BY Going
<1>2. \A n \in DOMAIN s : Tried(p, s, n)
  BY <1>1 DEF Attempted
<1>3. /\ DOMAIN s = 1 .. l /\ DOMAIN ops = 1 .. k /\ DOMAIN t = 1 .. k + l - 1
      /\ \A n \in 1 .. k : t[n] = ops[n]
      /\ \A n \in 2 .. l : t[n + k - 1] = s[n]
  BY <1>1 DEF Splices
<1>4. ASSUME NEW n \in DOMAIN t PROVE Tried(p, t, n)'
  <2>1. CASE n <= k
    <3>1. n \in 1 .. k /\ n \in DOMAIN ops /\ t[n] = ops[n] /\ \A m \in DOMAIN t : m < n => m \in DOMAIN ops /\ t[m] = ops[m]
      BY <1>1, <1>3, <2>1
    <3>2. Trying(t[n]) => \A m \in DOMAIN t : m < n => ~Trying(t[m])
      BY <3>1
    <3>3. Attempting(t[n]) => lock' = p /\ ~Recorded(AttemptOf(t[n])[1], AttemptOf(t[n])[2])'
      BY <3>1
    <3> QED BY <3>2, <3>3 DEF Tried
  <2>2. CASE ~(n <= k)
    <3>1. PICK j : j = n + 1 - k
      OBVIOUS
    <3>2. j \in 2 .. l /\ n = j + k - 1 /\ j \in DOMAIN s /\ 1 \in DOMAIN s /\ 1 < j
      BY <1>1, <1>3, <2>2, <3>1
    <3>3. t[n] = s[j] /\ Tried(p, s, j)
      BY <1>2, <1>3, <3>2
    <3>4. Trying(t[n]) => ~Trying(Arg(p))
      BY <1>1, <3>2, <3>3 DEF Tried
    <3>5. ASSUME Trying(t[n]), NEW m \in DOMAIN t, m < n PROVE ~Trying(t[m])
      <4>1. CASE m <= k
        <5>1. m \in DOMAIN ops /\ t[m] = ops[m]
          BY <1>1, <1>3, <4>1
        <5> QED BY <3>4, <3>5, <5>1
      <4>2. CASE ~(m <= k)
        <5>1. PICK i : i = m + 1 - k
          OBVIOUS
        <5>2. i \in 2 .. l /\ m = i + k - 1 /\ i < j /\ i \in DOMAIN s
          <6>1. m \in 1 .. k + l - 1 /\ n \in 1 .. k + l - 1 /\ k \in Nat /\ l \in Nat \ {0}
            BY <1>1, <1>3
          <6>2. i \in 2 .. l /\ m = i + k - 1 /\ i < j
            BY <3>1, <3>5, <4>2, <5>1, <6>1
          <6> QED BY <1>3, <6>1, <6>2
        <5>3. t[m] = s[i]
          BY <1>3, <5>2
        <5> QED BY <3>3, <3>5, <5>2, <5>3 DEF Tried
      <4> QED BY <4>1, <4>2
    <3>6. Attempting(t[n]) => Trying(t[n])
      BY DEF Trying
    <3>7. Attempting(t[n]) => lock' = p /\ ~Recorded(AttemptOf(t[n])[1], AttemptOf(t[n])[2])'
      <4> SUFFICES ASSUME Attempting(t[n]) PROVE lock' = p /\ ~Recorded(AttemptOf(t[n])[1], AttemptOf(t[n])[2])'
        OBVIOUS
      <4>1. PICK x, a : x = AttemptOf(t[n])[1] /\ a = AttemptOf(t[n])[2]
        OBVIOUS
      <4>2. lock = p /\ ~Recorded(x, a)
        BY <3>3, <4>1 DEF Tried
      <4>3. ~Recorded(x, a)'
        BY <3>4, <3>6, <4>2
      <4>4. lock' = p
        BY <4>2, CampaignAssumption DEF Moves
      <4> QED BY <4>1, <4>3, <4>4
    <3> QED BY <3>5, <3>7 DEF Tried
  <2> QED BY <2>1, <2>2
<1> QED BY <1>1, <1>4 DEF Attempted

LEMMA AttemptEnds == ASSUME IInv, NEW p \in Procs, End(p) PROVE Attempted(p)'
<1>1. job'[p].todo = <<>>
  BY EndGoes
<1> QED BY <1>1, Nothing DEF Attempted

LEMMA AttemptAside == ASSUME NEW q \in Procs, Attempted(q), Left(q) PROVE Attempted(q)'
<1>1. PICK s : s = job[q].todo
  OBVIOUS
<1>2. job'[q].todo = s /\ \A n \in DOMAIN s : Tried(q, s, n)
  BY <1>1 DEF Left, Attempted
<1>3. ASSUME NEW n \in DOMAIN s PROVE Tried(q, s, n)'
  <2>1. PICK x, a : x = AttemptOf(s[n])[1] /\ a = AttemptOf(s[n])[2]
    OBVIOUS
  <2>2. Attempting(s[n]) => lock' = q /\ ~Recorded(x, a)'
    BY <1>2, <2>1 DEF Tried, Left, Recorded, Whole
  <2>3. Trying(s[n]) => \A m \in DOMAIN s : m < n => ~Trying(s[m])
    BY <1>2 DEF Tried
  <2> QED BY <2>1, <2>2, <2>3 DEF Tried
<1> QED BY <1>2, <1>3 DEF Attempted

\* A step that passes on, or adds what attempts nothing.
LEMMA AttemptCalm ==
    ASSUME IInv, NEW p \in Procs, Busy(p), Attempted(p), leaves' = leaves,
           NEW ops, IsList(ops), Moves(p, ops), \A n \in DOMAIN ops : Tame(ops[n])
    PROVE  Attempted(p)'
<1>1. \A x, a : Recorded(x, a)' => Recorded(x, a)
  BY DEF Recorded, Whole
<1>2. \A n \in DOMAIN ops : ~Trying(ops[n]) /\ ~Attempting(ops[n])
  BY DEF Tame, Trying
<1> QED BY <1>1, <1>2, AttemptGoes

LEMMA LockMoves ==
    ASSUME IInv, NEW p \in Procs, Busy(p), lock = None /\ lock' = p, job' = [job EXCEPT ![p].todo = Tail(@)]
    PROVE  Moves(p, <<>>)
<1>1. PICK t : t = Tail(job[p].todo)
  OBVIOUS
<1>2. job'[p] = [job[p] EXCEPT !.todo = t] /\ \A q \in Procs \ {p} : job'[q] = job[q]
  BY <1>1 DEF IInv
<1>3. job[p] = [cmd |-> job[p].cmd, todo |-> job[p].todo]
  BY DEF IInv
<1>4. job'[p].todo = t /\ job'[p].cmd = job[p].cmd
  BY <1>2, <1>3
<1>5. <<>> \o t = t
  BY <1>1, DropNothing DEF IInv, Own
<1> QED BY <1>1, <1>2, <1>4, <1>5 DEF Moves

LEMMA AttemptQuiet ==
    ASSUME IInv, NEW p \in Procs, Attempted(p), Step(p), ~Ventures(p)
    PROVE  Attempted(p)'
<1>1. Busy(p)
  BY Course
<1>2. CASE End(p)
  BY <1>2, AttemptEnds
<1>3. CASE Calm(p)
  <2>1. PICK ops : Continue(p, ops) /\ IsList(ops) /\ \A n \in DOMAIN ops : Tame(ops[n])
    BY <1>3 DEF Calm
  <2>2. Moves(p, ops) /\ leaves' = leaves
    BY <2>1, ContinueMoves, Calmly
  <2> QED BY <1>1, <2>1, <2>2, AttemptCalm
<1>4. CASE lock = None /\ lock' = p /\ job' = [job EXCEPT ![p].todo = Tail(@)]
  <2>1. PICK ops : ops = <<>>
    OBVIOUS
  <2>2. Moves(p, ops) /\ leaves' = leaves /\ IsList(ops) /\ \A n \in DOMAIN ops : Tame(ops[n])
    BY <1>1, <1>4, <2>1, LockMoves, Calmly, Nothing
  <2> QED BY <1>1, <2>2, AttemptCalm
<1> QED BY <1>2, <1>3, <1>4, Calmly

\* What is next, of an attempt, finds it not recorded.
LEMMA HeadTried ==
    ASSUME IInv, NEW p \in Procs, Busy(p), Attempted(p), Attempting(Arg(p)), NEW x, NEW a, <<x, a>> = AttemptOf(Arg(p))
    PROVE  lock = p /\ ~Recorded(x, a)
<1>1. PICK o : o = Arg(p)
  OBVIOUS
<1>2. o = job[p].todo[1] /\ 1 \in DOMAIN job[p].todo
  BY <1>1, FirstOp DEF IInv, Own, Listed
<1>3. Tried(p, job[p].todo, 1)
  BY <1>2 DEF Attempted
<1>4. Attempting(o) /\ AttemptOf(o)[1] = x /\ AttemptOf(o)[2] = a
  BY <1>1
<1> QED BY <1>2, <1>3, <1>4 DEF Tried

\* Only the h-th of a list is a trial, of the attempt that b is.
OneTrial(s, h, b) ==
    \A n \in DOMAIN s : Trying(s[n]) => n = h /\ Attempting(b) /\ AttemptOf(s[n]) = AttemptOf(b)

\* A trial that goes on with one trial, of the same attempt.
LEMMA AttemptSame ==
    ASSUME IInv, NEW p \in Procs, Busy(p), Attempted(p), Older, NEW ops, IsList(ops), Moves(p, ops), NEW h, OneTrial(ops, h, Arg(p))
    PROVE  Attempted(p)'
<1>1. \A x, a : Recorded(x, a)' => Recorded(x, a)
  BY RecordedOlder
<1>2. DOMAIN ops = 1 .. Len(ops)
  BY Lists DEF IsList
<1>3. \A n \in DOMAIN ops : Trying(ops[n]) => Trying(Arg(p)) /\ \A m \in DOMAIN ops : m < n => ~Trying(ops[m])
  <2>1. \A n \in DOMAIN ops : Trying(ops[n]) => n = h /\ Trying(Arg(p))
    BY DEF OneTrial, Trying
  <2> QED BY <1>2, <2>1
<1>4. ASSUME NEW n \in DOMAIN ops, Attempting(ops[n])
      PROVE  lock' = p /\ ~Recorded(AttemptOf(ops[n])[1], AttemptOf(ops[n])[2])'
  <2>1. Attempting(Arg(p)) /\ AttemptOf(ops[n]) = AttemptOf(Arg(p))
    BY <1>4 DEF OneTrial, Trying
  <2>2. PICK x, a : <<x, a>> = AttemptOf(Arg(p))
    BY DEF AttemptOf
  <2>3. lock = p /\ ~Recorded(x, a)
    BY <2>1, <2>2, HeadTried
  <2>4. lock' = p
    BY <2>3, CampaignAssumption DEF Moves
  <2>5. AttemptOf(ops[n])[1] = x /\ AttemptOf(ops[n])[2] = a
    BY <2>1, <2>2
  <2> QED BY <1>1, <2>3, <2>4, <2>5
<1> QED BY <1>1, <1>3, <1>4, AttemptGoes

\* A leaf that is registered, and one that is filled.
Registers(p) ==
    /\ Arg(p).key \notin DOMAIN leaves /\ leaves' = With(leaves, Arg(p).key, Torn)
    /\ Continue(p, <<[op |-> "fill_leaf", key |-> Arg(p).key, body |-> Arg(p).body]>>)
    /\ manifest = "whole" /\ UNCHANGED <<proposal, revs, machine, bounds>>

LEMMA Registering ==
    ASSUME NEW p, RegisterLeaf(p)
    PROVE  /\ Busy(p) /\ Arg(p).op = "leaf"
           /\ \/ Refuse(p) /\ (manifest # "whole" \/ Arg(p).key \in DOMAIN leaves)
              \/ Continue(p, <<>>) /\ UNCHANGED <<proposal, record, machine, bounds>>
                 /\ Arg(p).key \in DOMAIN leaves /\ leaves[Arg(p).key] = Arg(p).body
              \/ Registers(p)
BY DEF RegisterLeaf, Registers, At, Arg

LEMMA RegisteredLeaf ==
    ASSUME NEW p, Registers(p)
    PROVE  /\ Whole' = Whole /\ DOMAIN leaves' = DOMAIN leaves \cup {Arg(p).key} /\ leaves'[Arg(p).key] = Torn
           /\ \A k \in DOMAIN leaves : leaves'[k] = leaves[k]
<1>1. PICK k : k = Arg(p).key
  OBVIOUS
<1>2. k \notin DOMAIN leaves /\ leaves' = With(leaves, k, Torn)
  BY <1>1 DEF Registers
<1>3. DOMAIN leaves' = DOMAIN leaves \cup {k} /\ leaves'[k] = Torn /\ \A j \in DOMAIN leaves : leaves'[j] = leaves[j]
  BY <1>2 DEF With
<1>4. Whole' = Whole
  BY <1>2, <1>3 DEF Whole
<1> QED BY <1>1, <1>3, <1>4

LEMMA FilledLeaf ==
    ASSUME IInv, NEW p \in Procs, FillLeaf(p)
    PROVE  \E k, b : /\ k = Arg(p).key /\ b = Arg(p).body /\ k \notin Whole /\ Whole' = Whole \cup {k} /\ leaves'[k] = b
                     /\ (\A j \in Whole : leaves'[j] = leaves[j]) /\ DOMAIN leaves' = DOMAIN leaves
                     /\ lock = p /\ Busy(p) /\ Arg(p).op = "fill_leaf" /\ Continue(p, <<>>)
                     /\ UNCHANGED <<proposal, revs, machine, bounds>>
<1>1. Busy(p) /\ Arg(p).op = "fill_leaf" /\ Continue(p, <<>>) /\ UNCHANGED <<proposal, revs, machine, bounds>>
  BY DEF FillLeaf, At, Arg
<1>2. lock = p
  BY <1>1, UnderLock DEF IInv, Creates
<1>3. PICK k, b : k = Arg(p).key /\ b = Arg(p).body
  OBVIOUS
<1>4. k \in DOMAIN leaves /\ leaves[k] = Torn /\ b # Torn
  BY <1>1, <1>3 DEF IInv, Own, Fills, Listed, At, Arg
<1>5. leaves' = [leaves EXCEPT ![k] = b]
  BY <1>3 DEF FillLeaf
<1>6. /\ k \notin Whole /\ Whole' = Whole \cup {k} /\ leaves'[k] = b /\ (\A j \in Whole : leaves'[j] = leaves[j])
      /\ DOMAIN leaves' = DOMAIN leaves
  BY <1>4, <1>5 DEF Whole
<1> QED BY <1>1, <1>2, <1>3, <1>6

LEMMA AttemptPasses ==
    ASSUME IInv, NEW p \in Procs, Busy(p), Attempted(p), Continue(p, <<>>),
           Trying(Arg(p)) \/ \A x, a : Recorded(x, a)' => Recorded(x, a)
    PROVE  Attempted(p)'
<1>1. PICK ops : ops = <<>>
  OBVIOUS
<1>2. Moves(p, ops) /\ IsList(ops) /\ DOMAIN ops = {}
  BY <1>1, ContinueMoves, Nothing
<1> QED BY <1>2, AttemptGoes

LEMMA AttemptRegister == ASSUME IInv, NEW p \in Procs, Attempted(p), RegisterLeaf(p) PROVE Attempted(p)' /\ Older
<1>1. Busy(p) /\ Arg(p).op = "leaf"
  BY Registering
<1>2. CASE Refuse(p)
  <2>1. End(p) /\ leaves' = leaves
    BY <1>2 DEF Refuse, record
  <2> QED BY <2>1, AttemptEnds DEF Older, Whole
<1>3. CASE Continue(p, <<>>) /\ UNCHANGED <<proposal, record, machine, bounds>>
  <2>1. Older
    BY <1>3 DEF record, Older, Whole
  <2>2. \A x, a : Recorded(x, a)' => Recorded(x, a)
    BY <2>1, RecordedOlder
  <2> QED BY <1>1, <1>3, <2>1, <2>2, AttemptPasses
<1>4. CASE Registers(p)
  <2>1. Older
    BY <1>4, RegisteredLeaf DEF Older, Whole
  <2>2. PICK o, ops : o = [op |-> "fill_leaf", key |-> Arg(p).key, body |-> Arg(p).body] /\ ops = <<o>>
    OBVIOUS
  <2>3. IsList(ops) /\ DOMAIN ops = 1 .. 1 /\ ops[1] = o /\ Moves(p, ops)
    BY <1>4, <2>2, Tuples, ContinueMoves DEF Registers
  <2>4. o.op = "fill_leaf" /\ o.key = Arg(p).key /\ o.body = Arg(p).body
    BY <2>2
  <2>5. Trying(o) => Resulting(o) /\ Resulting(Arg(p))
    BY <1>1, <2>4 DEF Trying, Attempting, Resulting, Leafing
  <2>6. Trying(o) => Attempting(Arg(p)) /\ AttemptOf(o) = AttemptOf(Arg(p))
    BY <2>4, <2>5 DEF Attempting, AttemptOf
  <2>7. \A n \in DOMAIN ops : n = 1 /\ ops[n] = o
    BY <2>3
  <2>8. OneTrial(ops, 1, Arg(p))
    BY <2>6, <2>7 DEF OneTrial
  <2> QED BY <1>1, <2>1, <2>3, <2>8, AttemptSame
<1> QED BY <1>2, <1>3, <1>4, Registering

LEMMA AttemptFill == ASSUME IInv, NEW p \in Procs, Attempted(p), AttemptOnce, FillLeaf(p) PROVE Attempted(p)' /\ AttemptOnce'
<1>1. PICK k, b : /\ k = Arg(p).key /\ b = Arg(p).body /\ k \notin Whole /\ Whole' = Whole \cup {k} /\ leaves'[k] = b
                  /\ (\A j \in Whole : leaves'[j] = leaves[j])
                  /\ Busy(p) /\ Arg(p).op = "fill_leaf" /\ Continue(p, <<>>)
  BY FilledLeaf
<1>2. Attempted(p)'
  <2>1. CASE k[1] = "work-order-result"
    <3>1. Trying(Arg(p))
      BY <1>1, <2>1 DEF Trying, Attempting, Resulting, Leafing
    <3> QED BY <1>1, <3>1, AttemptPasses
  <2>2. CASE k[1] # "work-order-result"
    <3>1. \A x, a : Recorded(x, a)' => Recorded(x, a)
      BY <1>1, <2>2 DEF Recorded
    <3> QED BY <1>1, <3>1, AttemptPasses
  <2> QED BY <2>1, <2>2
<1>3. AttemptOnce'
  <2>1. PICK x, a : x = b.what[1] /\ a = b.what[2]
    OBVIOUS
  <2>2. k[1] = "work-order-result" => ~Recorded(x, a)
    <3>1. k[1] = "work-order-result" => Resulting(Arg(p))
      BY <1>1 DEF Resulting, Leafing
    <3>2. Resulting(Arg(p)) => Attempting(Arg(p)) /\ <<x, a>> = AttemptOf(Arg(p))
      BY <1>1, <2>1 DEF Attempting, AttemptOf
    <3> QED BY <1>1, <3>1, <3>2, HeadTried
  <2>3. ASSUME NEW i \in Whole', NEW j \in Whole', i[1] = "work-order-result", j[1] = "work-order-result",
               <<leaves'[i].what[1], leaves'[i].what[2]>> = <<leaves'[j].what[1], leaves'[j].what[2]>>
        PROVE  i = j
    <3>1. CASE i \in Whole /\ j \in Whole
      BY <1>1, <2>3, <3>1 DEF AttemptOnce
    <3>2. CASE i \in Whole /\ j = k
      BY <1>1, <2>1, <2>2, <2>3, <3>2 DEF Recorded
    <3>3. CASE i = k /\ j \in Whole
      BY <1>1, <2>1, <2>2, <2>3, <3>3 DEF Recorded
    <3> QED BY <1>1, <2>3, <3>1, <3>2, <3>3
  <2> QED BY <2>3 DEF AttemptOnce
<1> QED BY <1>2, <1>3

LEMMA AttemptFind == ASSUME IInv, NEW p \in Procs, Attempted(p), FindResult(p) PROVE Attempted(p)' /\ leaves' = leaves
<1>1. Busy(p) /\ Arg(p).op = "find" /\ leaves' = leaves
  BY DEF FindResult, At, Arg, Refuse, record
<1>2. Older /\ \A x, a : Recorded(x, a)' => Recorded(x, a)
  BY <1>1, RecordedOlder DEF Older, Whole
<1>3. lock = p
  BY <1>1, UnderLock DEF IInv, Creates
<1>4. CASE End(p)
  BY <1>1, <1>4, AttemptEnds
<1>5. CASE Continue(p, <<>>)
  BY <1>1, <1>2, <1>5, AttemptPasses
<1>6. CASE /\ ~Recorded(Arg(p).order, Arg(p).attempt)
           /\ Continue(p, <<[op |-> "bind", type |-> "snapshot-binding", order |-> Arg(p).order, attempt |-> Arg(p).attempt]>>)
  <2>1. PICK x, a, o, ops : /\ x = Arg(p).order /\ a = Arg(p).attempt /\ ops = <<o>>
                            /\ o = [op |-> "bind", type |-> "snapshot-binding", order |-> x, attempt |-> a]
    OBVIOUS
  <2>2. IsList(ops) /\ DOMAIN ops = 1 .. 1 /\ ops[1] = o
    BY <2>1, Tuples
  <2>3. Moves(p, ops) /\ lock' = p
    BY <1>3, <1>6, <2>1, ContinueMoves, Goes
  <2>4. AttemptOf(o)[1] = x /\ AttemptOf(o)[2] = a
    BY <2>1 DEF AttemptOf, Resulting, Leafing
  <2>5. ~Recorded(x, a)'
    BY <1>2, <1>6, <2>1
  <2>6. Trying(Arg(p))
    BY <1>1 DEF Trying
  <2>7. \A n \in DOMAIN ops : n = 1 /\ ops[n] = o
    BY <2>2
  <2>8. \A n \in DOMAIN ops : Trying(ops[n]) => Trying(Arg(p)) /\ \A m \in DOMAIN ops : m < n => ~Trying(ops[m])
    BY <2>6, <2>7
  <2>9. \A n \in DOMAIN ops : Attempting(ops[n]) => lock' = p /\ ~Recorded(AttemptOf(ops[n])[1], AttemptOf(ops[n])[2])'
    BY <2>3, <2>4, <2>5, <2>7
  <2> QED BY <1>1, <2>2, <2>3, <2>6, <2>8, <2>9, AttemptGoes
<1> QED BY <1>1, <1>4, <1>5, <1>6 DEF FindResult, Refuse

LEMMA AttemptRun == ASSUME IInv, NEW p \in Procs, Attempted(p), Run(p) PROVE Attempted(p)' /\ leaves' = leaves
<1>1. Busy(p) /\ Arg(p).op = "run" /\ leaves' = leaves
  BY DEF Run, At, Arg, Refuse, record
<1>2. Older
  BY <1>1 DEF Older, Whole
<1>3. CASE End(p)
  BY <1>1, <1>3, AttemptEnds
<1>4. ASSUME NEW m, NEW status,
             Continue(p, <<Leaf("work-order-result", m, Arg(p).snap, <<Arg(p).order, Arg(p).attempt, status>>),
                           Op("fold")>>)
      PROVE  Attempted(p)'
  <2>1. PICK what, a, b, ops :
             /\ what = <<Arg(p).order, Arg(p).attempt, status>>
             /\ a = Leaf("work-order-result", m, Arg(p).snap, what) /\ b = Op("fold") /\ ops = <<a, b>>
    OBVIOUS
  <2>2. IsList(ops) /\ DOMAIN ops = 1 .. 2 /\ ops[1] = a /\ ops[2] = b /\ Moves(p, ops)
    BY <1>4, <2>1, Tuples, ContinueMoves
  <2>3. Tame(b)
    BY <2>1, Word, TameOp DEF Words, Trials
  <2>4. a.op = "leaf" /\ a.key[1] = "work-order-result" /\ a.body.what = what
    BY <2>1 DEF Leaf
  <2>5. AttemptOf(a) = <<Arg(p).order, Arg(p).attempt>>
    BY <2>1, <2>4 DEF AttemptOf, Resulting, Leafing
  <2>6. Attempting(Arg(p)) /\ AttemptOf(Arg(p)) = <<Arg(p).order, Arg(p).attempt>>
    BY <1>1 DEF Attempting, AttemptOf, Resulting, Leafing
  <2>7. \A n \in DOMAIN ops : (n = 1 /\ ops[n] = a) \/ ops[n] = b
    BY <2>2
  <2>8. OneTrial(ops, 1, Arg(p))
    BY <2>3, <2>5, <2>6, <2>7 DEF OneTrial, Tame
  <2> QED BY <1>1, <1>2, <2>2, <2>8, AttemptSame
<1> QED BY <1>1, <1>3, <1>4 DEF Run, Refuse

\* What follows a binding.
LEMMA RestTries ==
    ASSUME NEW b, b.op = "bind", b.type \in {"snapshot", "snapshot-binding"}, NEW sn, NEW u, u = Rest(b, sn)
    PROVE  /\ IsList(u)
           /\ OneTrial(u, 1, b) /\ \A n \in DOMAIN u : ~Binds(u[n])
<1>1. CASE b.type = "snapshot"
  <2>1. PICK i, by, ack : ApplyList(u, i, sn, by, ack)
    BY <1>1, RestIs
  <2>2. PICK type : type = "receipt"
    OBVIOUS
  <2>3. /\ IsList(u) /\ DOMAIN u = 1 .. 6 /\ u[1].op = "covered" /\ u[2].op = "install" /\ u[3].op = "receipt"
        /\ u[4].op = "registry" /\ u[5] = Leaf(type, i, sn, by) /\ u[6] = Op("fold")
    BY <2>1, <2>2 DEF ApplyList
  <2>4. Tame(u[5])
    BY <2>2, <2>3, TameLeaf
  <2>5. u[6].op = "fold"
    BY <2>3, Word DEF Words
  <2>6. Tame(u[1]) /\ Tame(u[2]) /\ Tame(u[3]) /\ Tame(u[4]) /\ Tame(u[6])
    BY <2>3, <2>5, TameOp DEF Trials
  <2>7. \A n \in 1 .. 6 : n \in {1, 2, 3, 4, 5, 6}
    OBVIOUS
  <2>8. \A n \in DOMAIN u : Tame(u[n])
    BY <2>3, <2>4, <2>6, <2>7
  <2> QED BY <2>3, <2>8 DEF Tame, OneTrial
<1>2. CASE b.type = "snapshot-binding"
  <2>1. PICK o : o = [op |-> "run", order |-> b.order, attempt |-> b.attempt, snap |-> sn]
    OBVIOUS
  <2>2. u = <<o>>
    BY <1>2, <2>1 DEF Rest
  <2>3. IsList(u) /\ DOMAIN u = 1 .. 1 /\ u[1] = o
    BY <2>2, Tuples
  <2>4. o.op = "run" /\ AttemptOf(o) = <<b.order, b.attempt>> /\ ~Binds(o)
    BY <2>1 DEF AttemptOf, Resulting, Leafing, Binds
  <2>5. Attempting(b) /\ AttemptOf(b) = <<b.order, b.attempt>>
    BY <1>2 DEF Attempting, AttemptOf, Resulting, Leafing
  <2>6. \A n \in DOMAIN u : n = 1 /\ u[n] = o
    BY <2>3
  <2> QED BY <2>3, <2>4, <2>5, <2>6 DEF OneTrial
<1> QED BY <1>1, <1>2

LEMMA BindingTries ==
    ASSUME NEW b, b.op = "bind", b.type \in {"snapshot", "snapshot-binding"}, NEW sn,
           NEW w, w = Binding(b.type, sn) \o Rest(b, sn)
    PROVE  /\ IsList(w) /\ 1 \in DOMAIN w /\ 2 \in DOMAIN w
           /\ w[1] = Leaf(b.type, sn, sn, None) /\ w[2].op = "fold"
           /\ OneTrial(w, 3, b) /\ \A n \in DOMAIN w : Binds(w[n]) => n = 1
<1>1. PICK type, none, a, f, g, u : /\ type = b.type /\ none = None /\ a = Leaf(type, sn, sn, none) /\ f = Op("fold")
                                    /\ g = <<a, f>> /\ u = Rest(b, sn)
  OBVIOUS
<1>2. w = g \o u
  BY <1>1 DEF Binding
<1>3. IsList(g) /\ DOMAIN g = 1 .. 2 /\ Len(g) = 2 /\ g[1] = a /\ g[2] = f
  BY <1>1, Tuples
<1>4. IsList(u) /\ OneTrial(u, 1, b) /\ \A n \in DOMAIN u : ~Binds(u[n])
  BY <1>1, RestTries
<1>5. PICK m, l : m = Len(g) /\ l = Len(u)
  OBVIOUS
<1>6. Joins(w, g, u, m, l) /\ DOMAIN u = 1 .. l
  BY <1>2, <1>3, <1>4, <1>5, JoinedIs, Lists DEF IsList
<1>7. /\ m = 2 /\ l \in Nat /\ IsList(w) /\ DOMAIN w = 1 .. 2 + l /\ w[1] = a /\ w[2] = f
      /\ \A n \in 3 .. 2 + l : w[n] = u[n - 2]
  <2>1. m = 2
    BY <1>3, <1>5
  <2>2. /\ IsList(w) /\ l \in Nat /\ DOMAIN w = 1 .. m + l /\ (\A n \in 1 .. m : w[n] = g[n])
        /\ \A n \in m + 1 .. m + l : w[n] = u[n - m]
    BY <1>6 DEF Joins
  <2> QED BY <1>3, <2>1, <2>2
<1>8. Tame(f) /\ f.op = "fold"
  BY <1>1, Word, TameOp DEF Words, Trials
<1>9. ~Trying(a)
  <2>1. a.op = "leaf" /\ a.key[1] = type
    BY <1>1 DEF Leaf
  <2> QED BY <1>1, <2>1 DEF Trying, Attempting, Resulting, Leafing
<1>10. ASSUME NEW n \in DOMAIN w
       PROVE  /\ Binds(w[n]) => n = 1
              /\ Trying(w[n]) => n = 3 /\ Attempting(b) /\ AttemptOf(w[n]) = AttemptOf(b)
  <2>1. CASE n = 1
    BY <1>7, <1>9, <2>1
  <2>2. CASE n = 2
    BY <1>7, <1>8, <2>2 DEF Tame
  <2>3. CASE n \notin {1, 2}
    <3>1. n \in 3 .. 2 + l /\ n - 2 \in 1 .. l /\ (n - 2 = 1 => n = 3)
      BY <1>7, <2>3
    <3>2. PICK j : j = n - 2
      OBVIOUS
    <3>3. w[n] = u[j] /\ j \in DOMAIN u /\ (j = 1 => n = 3)
      BY <1>6, <1>7, <3>1, <3>2
    <3> QED BY <1>4, <3>3 DEF OneTrial
  <2> QED BY <2>1, <2>2, <2>3
<1>11. OneTrial(w, 3, b)
  BY <1>10 DEF OneTrial
<1> QED BY <1>1, <1>7, <1>8, <1>10, <1>11

\* A binding that finds the campaign bound, or takes a snapshot.
TakesSnapshot(p) ==
    /\ Readable /\ Index.snap = None
    /\ snaps' = Append(snaps, [of |-> live, clean |-> \A i \in Installs : receipt[i] = None])
    /\ Continue(p, Binding(Arg(p).type, Len(snaps) + 1) \o Rest(Arg(p), Len(snaps) + 1))
    /\ UNCHANGED <<proposal, record, receipt, registry, live, bounds>>

LEMMA Binder ==
    ASSUME IInv, EInv, NEW p \in Procs, Bind(p)
    PROVE  /\ Busy(p) /\ Arg(p).op = "bind" /\ Arg(p).type \in {"snapshot", "snapshot-binding"} /\ lock = p
           /\ leaves' = leaves /\ revs' = revs
           /\ \/ End(p) /\ snaps' = snaps
              \/ Continue(p, Rest(Arg(p), Index.snap)) /\ snaps' = snaps
              \/ TakesSnapshot(p)
<1>1. Busy(p) /\ Arg(p).op = "bind"
  BY DEF Bind, At, Arg
<1>2. Arg(p).type \in {"snapshot", "snapshot-binding"}
  BY <1>1, HeadDue DEF Fitting
<1>3. lock = p
  BY <1>1, UnderLock DEF IInv, Creates
<1> QED BY <1>1, <1>2, <1>3 DEF Bind, Refuse, TakesSnapshot, record, machine

LEMMA AttemptBind == ASSUME IInv, EInv, NEW p \in Procs, Attempted(p), Bind(p) PROVE Attempted(p)' /\ leaves' = leaves
<1>1. /\ Busy(p) /\ Arg(p).op = "bind" /\ Arg(p).type \in {"snapshot", "snapshot-binding"} /\ leaves' = leaves
      /\ End(p) \/ Continue(p, Rest(Arg(p), Index.snap)) \/ TakesSnapshot(p)
  BY Binder
<1>2. Older
  BY <1>1 DEF Older, Whole
<1>3. CASE End(p)
  BY <1>1, <1>3, AttemptEnds
<1>4. CASE Continue(p, Rest(Arg(p), Index.snap))
  <2>1. PICK b, sn, u : b = Arg(p) /\ sn = Index.snap /\ u = Rest(b, sn)
    OBVIOUS
  <2>2. IsList(u) /\ OneTrial(u, 1, b)
    BY <1>1, <2>1, RestTries
  <2>3. Moves(p, u)
    BY <1>4, <2>1, ContinueMoves
  <2> QED BY <1>1, <1>2, <2>1, <2>2, <2>3, AttemptSame
<1>5. CASE TakesSnapshot(p)
  <2>1. PICK b, sn, w : b = Arg(p) /\ sn = Len(snaps) + 1 /\ w = Binding(b.type, sn) \o Rest(b, sn)
    OBVIOUS
  <2>2. IsList(w) /\ OneTrial(w, 3, b)
    <3>1. b.op = "bind" /\ b.type \in {"snapshot", "snapshot-binding"} /\ w = Binding(b.type, sn) \o Rest(b, sn)
      BY <1>1, <2>1
    <3> QED BY <3>1, BindingTries
  <2>3. Moves(p, w)
    BY <1>5, <2>1, ContinueMoves DEF TakesSnapshot
  <2>4. Busy(p) /\ IsList(w) /\ OneTrial(w, 3, Arg(p))
    BY <1>1, <2>1, <2>2
  <2> QED BY <1>1, <1>2, <2>3, <2>4, AttemptSame
<1> QED BY <1>1, <1>3, <1>4, <1>5

\* The list of a command that begins has at most one trial, and no attempt.
MildList(s) ==
    IsList(s) /\ \A n \in DOMAIN s : ~Attempting(s[n]) /\ ~Binds(s[n]) /\ (Trying(s[n]) => n = 2)

LEMMA MildStart ==
    ASSUME IInv, NEW p \in Procs, NEW c, NEW ops, MildList(ops), Start(p, c, ops)
    PROVE  MildList(job'[p].todo) /\ leaves' = leaves
<1>1. PICK j, d, t : j = Op("done") /\ d = <<j>> /\ t = ops \o d
  OBVIOUS
<1>2. IsList(d) /\ Len(d) = 1 /\ d[1] = j /\ Tame(j)
  BY <1>1, Tuples, Word, TameOp DEF Words, Trials
<1>3. PICK m, l : m = Len(ops) /\ l = Len(d)
  OBVIOUS
<1>4. Joins(t, ops, d, m, l) /\ DOMAIN ops = 1 .. m
  BY <1>1, <1>2, <1>3, JoinedIs, Lists DEF IsList, MildList
<1>5. /\ m \in Nat /\ DOMAIN t = 1 .. m + 1 /\ (\A n \in 1 .. m : t[n] = ops[n]) /\ t[m + 1] = j /\ IsList(t)
  <2>1. l = 1
    BY <1>2, <1>3
  <2>2. /\ m \in Nat /\ l \in Nat /\ DOMAIN t = 1 .. m + l /\ (\A n \in 1 .. m : t[n] = ops[n])
        /\ \A n \in m + 1 .. m + l : t[n] = d[n - m]
    BY <1>4 DEF Joins
  <2>3. m + 1 \in m + 1 .. m + l /\ (m + 1) - m = 1 /\ IsList(t)
    BY <1>4, <2>1, <2>2 DEF Joins
  <2> QED BY <1>2, <2>1, <2>2, <2>3
<1>6. ASSUME NEW n \in DOMAIN t PROVE ~Attempting(t[n]) /\ ~Binds(t[n]) /\ (Trying(t[n]) => n = 2)
  <2>1. (n \in 1 .. m /\ n \in DOMAIN ops /\ t[n] = ops[n]) \/ t[n] = j
    BY <1>4, <1>5
  <2> QED BY <1>2, <2>1 DEF Tame, Trying, MildList
<1>7. job'[p].todo = t /\ leaves' = leaves
  <2>1. job' = [job EXCEPT ![p] = [cmd |-> c, todo |-> t]] /\ leaves' = leaves
    BY <1>1 DEF Start, record
  <2> QED BY <2>1 DEF IInv
<1> QED BY <1>5, <1>6, <1>7 DEF MildList

LEMMA MildPair ==
    ASSUME NEW o, ~Attempting(o), ~Binds(o), NEW s, s = <<Op("lock"), o>>
    PROVE  MildList(s)
<1>1. PICK a : a = Op("lock")
  OBVIOUS
<1>2. IsList(s) /\ DOMAIN s = 1 .. 2 /\ s[1] = a /\ s[2] = o
  BY <1>1, Tuples
<1>3. Tame(a)
  BY <1>1, Word, TameOp DEF Words, Trials
<1>4. \A n \in DOMAIN s : (n = 1 /\ s[n] = a) \/ (n = 2 /\ s[n] = o)
  BY <1>2
<1> QED BY <1>2, <1>3, <1>4 DEF MildList, Tame, Trying

LEMMA MildAll == ASSUME NEW s, IsList(s), \A n \in DOMAIN s : Tame(s[n]) PROVE MildList(s)
BY DEF MildList, Tame, Trying

LEMMA MildProposal ==
    ASSUME NEW p, Propose(p)
    PROVE  \E c, ops : Start(p, c, ops) /\ MildList(ops)
<1>1. PICK a, b, d, e, f, g, h, i, j, ops, c :
        /\ a = Op("manifest") /\ b = Op("index") /\ d = Op("lock") /\ e = Op("load")
        /\ f = [op |-> "file", name |-> "plans"] /\ g = [op |-> "orders", left |-> Orders]
        /\ h = Leaf("plan", "plan", None, None) /\ i = [op |-> "file", name |-> "bundle"] /\ j = Op("fold")
        /\ ops = <<a, b, d, e, f, g, h, i, j>> /\ c = "propose"
  OBVIOUS
<1>2. PICK S : S = {a, b, d, e, f, g, h, i, j}
  OBVIOUS
<1>3. ops \in Seq(S)
  BY <1>1, <1>2
<1>4. IsList(ops) /\ \A n \in DOMAIN ops : ops[n] \in S
  BY <1>3, Lists
<1>5. \A x \in {a, b, d, e, j} : Tame(x)
  BY <1>1, Word, TameOp DEF Words, Trials
<1>6. Tame(f) /\ Tame(g) /\ Tame(i)
  BY <1>1, TameOp DEF Trials
<1>7. Tame(h)
  <2>1. PICK type, id, none : type = "plan" /\ id = "plan" /\ none = None
    OBVIOUS
  <2>2. h = Leaf(type, id, none, none) /\ type \notin {"work-order-result", "snapshot", "snapshot-binding"}
    BY <1>1, <2>1
  <2> QED BY <2>2, TameLeaf
<1>8. \A n \in DOMAIN ops : Tame(ops[n])
  BY <1>2, <1>4, <1>5, <1>6, <1>7
<1>9. Start(p, c, ops)
  BY <1>1 DEF Propose
<1> QED BY <1>4, <1>8, <1>9, MildAll

LEMMA BeginsMild == ASSUME NEW p \in Procs, Begin(p) PROVE \E c, ops : Start(p, c, ops) /\ MildList(ops)
<1>1. ASSUME NEW c, NEW o, Call(p, c, <<Op("lock"), o>>), ~Attempting(o), ~Binds(o)
      PROVE  \E d, ops : Start(p, d, ops) /\ MildList(ops)
  <2>1. PICK ops : ops = <<Op("lock"), o>>
    OBVIOUS
  <2>2. MildList(ops) /\ Start(p, c, ops)
    BY <1>1, <2>1, MildPair DEF Call
  <2> QED BY <2>2
<1>2. CASE Status(p)
  <2>1. PICK a, b, d, e, ops : /\ a = Op("lock") /\ b = Op("attach") /\ d = Op("rebuild") /\ e = Op("fold")
                               /\ ops = <<a, b, d, e>>
    OBVIOUS
  <2>2. IsList(ops) /\ DOMAIN ops = 1 .. 4 /\ ops[1] = a /\ ops[2] = b /\ ops[3] = d /\ ops[4] = e
    BY <2>1, Quadruple
  <2>3. Tame(a) /\ Tame(b) /\ Tame(d) /\ Tame(e)
    BY <2>1, Word, TameOp DEF Words, Trials
  <2>4. \A n \in DOMAIN ops : Tame(ops[n])
    BY <2>2, <2>3
  <2>5. Start(p, "status", ops)
    BY <1>2, <2>1 DEF Status, Call
  <2> QED BY <2>2, <2>4, <2>5, MildAll
<1>3. CASE Propose(p)
  BY <1>3, MildProposal
<1>4. ASSUME NEW i \in Installs, ApplyCampaign(p, i) PROVE \E c, ops : Start(p, c, ops) /\ MildList(ops)
  <2>1. PICK o : o = [op |-> "bind", type |-> "snapshot", inst |-> i]
    OBVIOUS
  <2>2. ~Attempting(o) /\ ~Binds(o)
    BY <2>1 DEF Attempting, Resulting, Binds, Leafing
  <2> QED BY <1>1, <1>4, <2>1, <2>2 DEF ApplyCampaign
<1>5. ASSUME NEW i \in Installs, Rollback(p, i) PROVE \E c, ops : Start(p, c, ops) /\ MildList(ops)
  <2>1. PICK o : o = [op |-> "committed", inst |-> i]
    OBVIOUS
  <2>2. ~Attempting(o) /\ ~Binds(o)
    BY <2>1 DEF Attempting, Resulting, Binds, Leafing
  <2> QED BY <1>1, <1>5, <2>1, <2>2 DEF Rollback
<1>6. ASSUME NEW x \in Orders, NEW a \in Attempts, Dispatch(p, x, a)
      PROVE  \E c, ops : Start(p, c, ops) /\ MildList(ops)
  <2>1. PICK o : o = [op |-> "find", order |-> x, attempt |-> a]
    OBVIOUS
  <2>2. ~Attempting(o) /\ ~Binds(o)
    BY <2>1 DEF Attempting, Resulting, Binds, Leafing
  <2> QED BY <1>1, <1>6, <2>1, <2>2 DEF Dispatch
<1>7. ASSUME NEW i \in Installs, NEW r \in DOMAIN leaves, NEW ack \in BOOLEAN, DispatchApply(p, i, r, ack)
      PROVE  \E c, ops : Start(p, c, ops) /\ MildList(ops)
  <2>1. PICK o : o = [op |-> "reviewed", result |-> r, inst |-> i, ack |-> ack]
    OBVIOUS
  <2>2. ~Attempting(o) /\ ~Binds(o)
    BY <2>1 DEF Attempting, Resulting, Binds, Leafing
  <2> QED BY <1>1, <1>7, <2>1, <2>2 DEF DispatchApply
<1> QED BY <1>2, <1>3, <1>4, <1>5, <1>6, <1>7 DEF Begin

LEMMA AttemptBegins == ASSUME IInv, NEW p \in Procs, Begin(p) PROVE Attempted(p)' /\ leaves' = leaves
<1>1. PICK c, ops : Start(p, c, ops) /\ MildList(ops)
  BY BeginsMild
<1>2. PICK t : t = job'[p].todo
  OBVIOUS
<1>3. MildList(t) /\ leaves' = leaves
  BY <1>1, <1>2, MildStart
<1>4. DOMAIN t = 1 .. Len(t)
  BY <1>3, Lists DEF MildList, IsList
<1>5. ASSUME NEW n \in DOMAIN t PROVE Tried(p, t, n)'
  <2>1. \A m \in DOMAIN t : ~Attempting(t[m]) /\ (Trying(t[m]) => m = 2)
    BY <1>3 DEF MildList
  <2> QED BY <1>4, <2>1 DEF Tried
<1> QED BY <1>2, <1>3, <1>5 DEF Attempted

LEMMA AttemptMoves ==
    ASSUME IInv, EInv, NEW p \in Procs, Attempted(p), AttemptOnce, Moved(p)
    PROVE  Attempted(p)' /\ AttemptOnce'
<1>1. CASE Begin(p)
  <2>1. Older
    BY <1>1, AttemptBegins DEF Older, Whole
  <2> QED BY <1>1, <2>1, AttemptBegins, OnceOlder
<1>2. CASE Fault(p) \/ Crash(p)
  <2>1. Older
    <3>1. CASE Crash(p)
      BY <1>2, <3>1 DEF Crash, record, Older, Whole
    <3>2. CASE Fault(p)
      <4>1. CASE Arg(p).op = "fill_leaf"
        BY <3>2, <4>1 DEF Fault, Undone, Older, Whole
      <4>2. CASE Arg(p).op # "fill_leaf"
        BY <3>2, <4>2 DEF Fault, Undone, Older, Whole
      <4> QED BY <4>1, <4>2
    <3> QED BY <1>2, <3>1, <3>2
  <2> QED BY <1>2, <2>1, AttemptEnds, OnceOlder DEF Fault, Crash
<1>3. CASE Step(p) /\ ~Ventures(p)
  <2>1. Older
    BY <1>3, Calmly DEF Older, Whole
  <2> QED BY <1>3, <2>1, AttemptQuiet, OnceOlder
<1>4. CASE FillLeaf(p)
  BY <1>4, AttemptFill
<1>5. CASE RegisterLeaf(p)
  BY <1>5, AttemptRegister, OnceOlder
<1>6. CASE FindResult(p) \/ Bind(p) \/ Run(p)
  <2>1. Attempted(p)' /\ leaves' = leaves
    BY <1>6, AttemptFind, AttemptBind, AttemptRun
  <2>2. Older
    BY <2>1 DEF Older, Whole
  <2> QED BY <2>1, <2>2, OnceOlder
<1> QED BY <1>1, <1>2, <1>3, <1>4, <1>5, <1>6 DEF Moved, Ventures

LEMMA AttemptsStep ==
    IInv /\ EInv /\ (\A q \in Procs : Attempted(q)) /\ AttemptOnce /\ [Next]_vars
        => (\A q \in Procs : Attempted(q)') /\ AttemptOnce'
<1> SUFFICES ASSUME IInv, EInv, \A q \in Procs : Attempted(q), AttemptOnce, [Next]_vars
             PROVE  (\A q \in Procs : Attempted(q)') /\ AttemptOnce'
  OBVIOUS
<1>1. ASSUME NEW p \in Procs, Moved(p) PROVE (\A q \in Procs : Attempted(q)') /\ AttemptOnce'
  BY <1>1, AttemptMoves, MovedAside, AttemptAside
<1>2. ASSUME UNCHANGED <<leaves, revs, receipt, lock, job>> PROVE (\A q \in Procs : Attempted(q)') /\ AttemptOnce'
  <2>1. \A q \in Procs : Attempted(q)'
    BY <1>2, NobodyMoves, AttemptAside
  <2>2. Older
    BY <1>2 DEF Older, Whole
  <2> QED BY <2>1, <2>2, OnceOlder
<1>3. ASSUME NEW t \in Plans, NEW c \in Contents, Edit(t, c) PROVE UNCHANGED <<leaves, revs, receipt, lock, job>>
  BY <1>3 DEF Edit, record
<1>4. CASE UNCHANGED vars
  <2>1. UNCHANGED <<leaves, revs, receipt, lock, job>>
    BY <1>4 DEF vars, record, machine
  <2> QED BY <2>1, <1>2
<1> QED BY <1>1, <1>2, <1>3, <1>4, NextMoves

\* The attempts under way are not on record, and those on record were made once.
LEMMA AttemptsMade == Spec => []((\A q \in Procs : Attempted(q)) /\ AttemptOnce)
<1>1. Init => (\A q \in Procs : Attempted(q)) /\ AttemptOnce
  <2> SUFFICES ASSUME Init PROVE (\A q \in Procs : Attempted(q)) /\ AttemptOnce
    OBVIOUS
  <2>1. \A q \in Procs : job[q].todo = <<>>
    BY DEF Init, Idle
  <2>2. Whole = {}
    BY DEF Init, Whole
  <2> QED BY <2>1, <2>2, Nothing DEF Attempted, AttemptOnce
<1>2. IInv /\ EInv /\ (\A q \in Procs : Attempted(q)) /\ AttemptOnce /\ [Next]_vars
      => ((\A q \in Procs : Attempted(q)) /\ AttemptOnce)'
  BY AttemptsStep
<1> QED BY <1>1, <1>2, Evidence, PTL DEF Spec

-----------------------------------------------------------------------------
(* One snapshot, while nothing fails. *)

LEMMA ListNext ==
    ASSUME IInv', NEW p \in Procs, NEW t, t = job'[p].todo, 1 \in DOMAIN t
    PROVE  Busy(p)' /\ Arg(p)' = t[1]
<1>1. IsList(t)
  BY DEF IInv, Own, Listed
<1>2. t # <<>>
  BY Nothing
<1>3. Head(t) = t[1]
  BY <1>1, <1>2, TailOf
<1> QED BY <1>2, <1>3 DEF Busy, Arg

LEMMA NextPasses ==
    ASSUME IInv, IInv', NEW p \in Procs, Busy(p), Continue(p, <<>>), 2 \in DOMAIN job[p].todo
    PROVE  Busy(p)' /\ Arg(p)' = job[p].todo[2]
<1>1. PICK ops : ops = <<>>
  OBVIOUS
<1>2. Moves(p, ops) /\ IsList(ops) /\ Len(ops) = 0
  BY <1>1, ContinueMoves, Nothing
<1>3. PICK s, t, l, k : /\ s = job[p].todo /\ t = job'[p].todo /\ l \in Nat \ {0} /\ k \in Nat
                        /\ Splices(s, ops, t, l, k) /\ s[1] = Arg(p) /\ l = Len(s)
  BY <1>2, Going
<1>4. k = 0 /\ DOMAIN t = 1 .. k + l - 1 /\ DOMAIN s = 1 .. l /\ \A n \in 2 .. l : t[n + k - 1] = s[n]
  BY <1>2, <1>3 DEF Splices
<1>5. 2 \in 2 .. l /\ 2 + 0 - 1 = 1 /\ 1 \in DOMAIN t
  BY <1>3, <1>4
<1>6. t[1] = s[2]
  BY <1>4, <1>5
<1> QED BY <1>3, <1>5, <1>6, ListNext

LEMMA NextOne ==
    ASSUME IInv, IInv', NEW p \in Procs, Busy(p), NEW o, Continue(p, <<o>>)
    PROVE  /\ Busy(p)' /\ Arg(p)' = o
           /\ 2 \in DOMAIN job[p].todo => 2 \in DOMAIN job'[p].todo /\ job'[p].todo[2] = job[p].todo[2]
<1>1. PICK ops : ops = <<o>>
  OBVIOUS
<1>2. Moves(p, ops) /\ IsList(ops) /\ Len(ops) = 1 /\ ops[1] = o
  BY <1>1, ContinueMoves, Tuples
<1>3. PICK s, t, l, k : /\ s = job[p].todo /\ t = job'[p].todo /\ l \in Nat \ {0} /\ k \in Nat
                        /\ Splices(s, ops, t, l, k) /\ s[1] = Arg(p) /\ l = Len(s)
  BY <1>2, Going
<1>4. k = 1 /\ DOMAIN t = 1 .. k + l - 1 /\ DOMAIN s = 1 .. l /\ (\A n \in 1 .. k : t[n] = ops[n])
      /\ \A n \in 2 .. l : t[n + k - 1] = s[n]
  BY <1>2, <1>3 DEF Splices
<1>5. 1 \in DOMAIN t /\ t[1] = o
  BY <1>2, <1>3, <1>4
<1>6. 2 \in DOMAIN s => 2 \in DOMAIN t /\ t[2] = s[2]
  <2>1. 2 \in DOMAIN s => 2 \in 2 .. l /\ 2 \in DOMAIN t /\ 2 + 1 - 1 = 2
    BY <1>3, <1>4
  <2> QED BY <1>4, <2>1
<1> QED BY <1>3, <1>5, <1>6, ListNext

LEMMA NextMany ==
    ASSUME IInv, IInv', NEW p \in Procs, Busy(p), NEW ops, IsList(ops), Continue(p, ops), 1 \in DOMAIN ops, 2 \in DOMAIN ops
    PROVE  Busy(p)' /\ Arg(p)' = ops[1] /\ 2 \in DOMAIN job'[p].todo /\ job'[p].todo[2] = ops[2]
<1>1. Moves(p, ops)
  BY ContinueMoves
<1>2. PICK s, t, l, k : /\ s = job[p].todo /\ t = job'[p].todo /\ l \in Nat \ {0} /\ k \in Nat
                        /\ Splices(s, ops, t, l, k) /\ s[1] = Arg(p) /\ l = Len(s)
  BY <1>1, Going
<1>3. DOMAIN ops = 1 .. k /\ DOMAIN t = 1 .. k + l - 1 /\ \A n \in 1 .. k : t[n] = ops[n]
  BY <1>2 DEF Splices
<1>4. 1 \in DOMAIN t /\ 2 \in DOMAIN t /\ t[1] = ops[1] /\ t[2] = ops[2]
  BY <1>2, <1>3
<1> QED BY <1>2, <1>4, ListNext

LEMMA BindingsGo ==
    ASSUME IInv, NEW p \in Procs, Busy(p), Bindings(job[p].todo), NEW ops, IsList(ops), Moves(p, ops),
           DOMAIN snaps \subseteq DOMAIN snaps', \A n \in DOMAIN ops : Binds(ops[n]) => ops[n].key[2] \in DOMAIN snaps'
    PROVE  Bindings(job[p].todo)'
<1>1. PICK s, t, l, k : /\ s = job[p].todo /\ t = job'[p].todo /\ l \in Nat \ {0} /\ k \in Nat
                        /\ Splices(s, ops, t, l, k) /\ s[1] = Arg(p) /\ l = Len(s)
  BY Going
<1>2. /\ DOMAIN s = 1 .. l /\ DOMAIN ops = 1 .. k /\ DOMAIN t = 1 .. k + l - 1
      /\ \A n \in 1 .. k : t[n] = ops[n]
      /\ \A n \in 2 .. l : t[n + k - 1] = s[n]
  BY <1>1 DEF Splices
<1>3. ASSUME NEW n \in DOMAIN t, Binds(t[n]) PROVE t[n].key[2] \in DOMAIN snaps'
  <2>1. CASE n <= k
    <3>1. n \in DOMAIN ops /\ t[n] = ops[n]
      BY <1>1, <1>2, <2>1
    <3> QED BY <1>3, <3>1
  <2>2. CASE ~(n <= k)
    <3>1. PICK j : j = n + 1 - k
      OBVIOUS
    <3>2. n \in 1 .. k + l - 1 /\ k \in Nat /\ l \in Nat \ {0}
      BY <1>1, <1>2
    <3>3. j \in 2 .. l /\ n = j + k - 1
      BY <2>2, <3>1, <3>2
    <3>4. j \in DOMAIN s /\ t[n] = s[j]
      BY <1>2, <3>2, <3>3
    <3> QED BY <1>1, <1>3, <3>4 DEF Bindings
  <2> QED BY <2>1, <2>2
<1> QED BY <1>1, <1>3 DEF Bindings

LEMMA BindingsEnd == ASSUME IInv, NEW p \in Procs, End(p) PROVE Bindings(job[p].todo)'
<1>1. job'[p].todo = <<>>
  BY EndGoes
<1> QED BY <1>1, Nothing DEF Bindings

LEMMA BindingsAside ==
    ASSUME NEW q, job'[q] = job[q], DOMAIN snaps \subseteq DOMAIN snaps', Bindings(job[q].todo)
    PROVE  Bindings(job[q].todo)'
BY DEF Bindings

LEMMA WayAside == ASSUME NEW q, OnItsWay(q), Left(q) PROVE OnItsWay(q)'
<1>1. lock = q /\ lock' = q /\ job'[q] = job[q] /\ leaves' = leaves /\ (Readable => revs' = revs)
  BY DEF OnItsWay, Left
<1>2. Whole' = Whole /\ SnapshotsNamed' = SnapshotsNamed /\ (Readable => Readable')
  BY <1>1 DEF Whole, SnapshotsNamed, Readable, Index
<1>3. Busy(q)' /\ Arg(q)' = Arg(q)
  BY <1>1 DEF OnItsWay, Busy, Arg
<1> QED BY <1>1, <1>2, <1>3 DEF OnItsWay, Reaching, Naming, Writing

LEMMA OnlyOne == ASSUME EInv, Len(snaps) <= 1 PROVE SnapshotsNamed \subseteq {1}
<1>1. DOMAIN snaps = 1 .. Len(snaps) /\ Len(snaps) \in Nat
  BY SnapsCount DEF EInv
<1>2. DOMAIN snaps \subseteq {1}
  BY <1>1
<1>3. SnapshotsNamed \subseteq DOMAIN snaps
  BY DEF EInv, RecordKept, BodyOK, SnapshotsNamed
<1> QED BY <1>2, <1>3

LEMMA FoldStands == ASSUME IInv, EInv, NEW p \in Procs, FillRevision(p), 1 \in SnapshotsNamed PROVE Standing' = 1
<1>1. Foldable /\ (Readable /\ Index = Folded)' /\ Folded' = Folded
  BY Revised
<1>2. Folded.snap = 1
  BY <1>1, FoldedSnap
<1>3. Revisions' = revs' /\ revs' # <<>>
  BY <1>1 DEF Readable, Revisions, Index
<1>4. Standing' = Index'.snap
  BY <1>3 DEF Standing, Last, Index
<1> QED BY <1>1, <1>2, <1>4

LEMMA StandingNamed == ASSUME IInv, EInv, Standing = 1 PROVE 1 \in SnapshotsNamed
<1>1. 1 # None
  BY CampaignAssumption
<1>2. Revisions # <<>> /\ Last(Revisions).snap = 1
  BY <1>1 DEF Standing
<1>3. IsList(Revisions)
  <2>1. IsList(revs)
    BY DEF IInv, OneWriter
  <2> QED BY <2>1, Shortened DEF Revisions
<1>4. Len(Revisions) \in DOMAIN Revisions
  BY <1>2, <1>3, TailOf
<1> QED BY <1>1, <1>2, <1>4 DEF EInv, RecordKept, Last

LEMMA StandingStays == ASSUME IInv, EInv, NEW p \in Procs, Begin(p) \/ Step(p), Standing = 1 PROVE Standing' = 1
<1>1. CASE FillRevision(p)
  BY <1>1, StandingNamed, FoldStands
<1>2. CASE Begin(p)
  <2>1. UNCHANGED record
    BY <1>2, BeginStarts DEF Start
  <2> QED BY <2>1, RecordStill
<1>3. CASE FillLeaf(p)
  <2>1. Revisions' = Revisions
    BY <1>3, SameRevisions DEF FillLeaf
  <2> QED BY <2>1 DEF Standing
<1>4. CASE Step(p) /\ ~FillRevision(p) /\ ~FillLeaf(p)
  <2>1. Revisions' = Revisions
    BY <1>4, LedgerApart
  <2> QED BY <2>1 DEF Standing
<1> QED BY <1>1, <1>2, <1>3, <1>4

LEMMA TornOwner ==
    ASSUME IInv, EInv, TornHeld, NEW p \in Procs, lock = p, Busy(p), Arg(p).op # "fill_leaf"
    PROVE  Whole = DOMAIN leaves
<1>1. ASSUME NEW k \in DOMAIN leaves \ Whole PROVE FALSE
  <2>1. PICK q \in Procs : At(q, "fill_leaf")
    BY <1>1 DEF TornHeld
  <2>2. Busy(q) /\ Arg(q).op = "fill_leaf"
    BY <2>1 DEF At, Arg
  <2>3. lock = q
    BY <2>2, UnderLock DEF IInv, Creates
  <2> QED BY <2>2, <2>3
<1> QED BY <1>1 DEF Whole

\* What is torn stays with who fills it.
LEMMA TornMoves ==
    ASSUME IInv, IInv', NEW p \in Procs, Begin(p) \/ Step(p), TornHeld
    PROVE  TornHeld'
<1>1. ASSUME NEW k \in DOMAIN leaves, k \notin Whole, ~FillLeaf(p) PROVE \E q \in Procs : At(q, "fill_leaf")' /\ Arg(q)'.key = k
  <2>1. PICK q \in Procs : At(q, "fill_leaf") /\ Arg(q).key = k
    BY <1>1 DEF TornHeld
  <2>2. q # p
    <3>1. Busy(q) /\ Arg(q).op = "fill_leaf"
      BY <2>1 DEF At, Arg
    <3>2. ASSUME Begin(p) PROVE ~Busy(p)
      BY <3>2, BeginStarts DEF Start
    <3>3. ASSUME Step(p), Arg(p).op = "fill_leaf" PROVE FALSE
      BY <1>1, <3>3, Zenon DEF Step, At, Arg, Lock, Done, RegisterLeaf, Fold, FillRevision, Load, Manifest, FillManifest, ReadFirst,
         FirstRevision, File, Install, WriteReceipt, UpdateRegistry, FindResult, Bind, Covered, Run, Reviewed, WriteOrders,
         Attach, AttachNext, Rebuild, Committed, Restore
    <3> QED BY <3>1, <3>2, <3>3
  <2>3. job'[q] = job[q]
    BY <2>2, MovedAside DEF Moved, Left
  <2> QED BY <2>1, <2>3 DEF At, Arg, Busy
<1>2. CASE FillLeaf(p)
  <2>1. PICK k : k = Arg(p).key /\ Whole' = Whole \cup {k} /\ DOMAIN leaves' = DOMAIN leaves /\ lock = p
    BY <1>2, FilledLeaf
  <2>2. ASSUME NEW j \in DOMAIN leaves', j \notin Whole' PROVE FALSE
    <3>1. PICK q \in Procs : At(q, "fill_leaf") /\ Arg(q).key = j
      BY <2>1, <2>2 DEF TornHeld
    <3>2. Busy(q) /\ Arg(q).op = "fill_leaf"
      BY <3>1 DEF At, Arg
    <3>3. lock = q
      BY <3>2, UnderLock DEF IInv, Creates
    <3> QED BY <2>1, <2>2, <3>1, <3>3
  <2> QED BY <2>2 DEF TornHeld
<1>3. CASE ~FillLeaf(p) /\ leaves' = leaves
  <2>1. Whole' = Whole /\ DOMAIN leaves' = DOMAIN leaves
    BY <1>3 DEF Whole
  <2> QED BY <1>1, <1>3, <2>1 DEF TornHeld
<1>4. CASE ~FillLeaf(p) /\ RegisterLeaf(p) /\ Registers(p)
  <2>1. PICK k, o : k = Arg(p).key /\ o = [op |-> "fill_leaf", key |-> k, body |-> Arg(p).body]
    OBVIOUS
  <2>2. Busy(p) /\ Continue(p, <<o>>) /\ Whole' = Whole /\ DOMAIN leaves' = DOMAIN leaves \cup {k}
    BY <1>4, <2>1, Registering, RegisteredLeaf DEF Registers
  <2>3. Busy(p)' /\ Arg(p)' = o
    BY <2>2, NextOne
  <2>4. At(p, "fill_leaf")' /\ Arg(p)'.key = k
    BY <2>1, <2>3 DEF At, Arg
  <2>5. \A j \in DOMAIN leaves' : j \in DOMAIN leaves \/ j = k
    BY <2>2
  <2> QED BY <1>1, <1>4, <2>2, <2>4, <2>5 DEF TornHeld
<1>5. leaves' = leaves \/ FillLeaf(p) \/ (RegisterLeaf(p) /\ Registers(p))
  <2>1. CASE Begin(p)
    BY <2>1, AttemptBegins
  <2>2. CASE RegisterLeaf(p)
    BY <2>2, Registering DEF Refuse, record
  <2>3. CASE FindResult(p) \/ Bind(p) \/ Run(p)
    BY <2>3 DEF FindResult, Bind, Run, Refuse, record
  <2> QED BY <2>1, <2>2, <2>3, Calmly DEF Ventures
<1> QED BY <1>2, <1>3, <1>4, <1>5

\* Who is on the way to the index goes on, or arrives.
LEMMA WayRegister ==
    ASSUME IInv, IInv', NEW p \in Procs, lock = p, Reaching(p), RegisterLeaf(p)
    PROVE  OnItsWay(p)'
<1>1. Busy(p) /\ Arg(p).op = "leaf" /\ Arg(p).key \notin DOMAIN leaves /\ manifest = "whole"
  BY Registering DEF Reaching, Readable, IInv, Unmade
<1>2. Registers(p)
  <2>1. Refuse(p) => FALSE
    BY <1>1, Registering DEF RegisterLeaf, Refuse, record, Registers, With
  <2> QED BY <1>1, <2>1, Registering
<1>3. PICK o : o = [op |-> "fill_leaf", key |-> Arg(p).key, body |-> Arg(p).body]
  OBVIOUS
<1>4. Continue(p, <<o>>) /\ revs' = revs /\ lock' = p
  BY <1>2, <1>3 DEF Registers, Continue
<1>5. Busy(p)' /\ Arg(p)' = o /\ 2 \in DOMAIN job'[p].todo /\ job'[p].todo[2] = job[p].todo[2]
  <2>1. 2 \in DOMAIN job[p].todo
    BY DEF Reaching
  <2> QED BY <1>1, <1>4, <2>1, NextOne
<1>6. o.op = "fill_leaf" /\ Binds(o) /\ o.body.snap = 1
  BY <1>3 DEF Reaching, Binds, Leafing
<1>7. Readable'
  BY <1>4 DEF Readable, Index, Reaching
<1>8. Reaching(p)'
  BY <1>5, <1>6, <1>7 DEF Reaching
<1> QED BY <1>4, <1>5, <1>8 DEF OnItsWay

LEMMA WayFill ==
    ASSUME IInv, IInv', NEW p \in Procs, lock = p, Reaching(p), FillLeaf(p)
    PROVE  OnItsWay(p)'
<1>1. PICK k, b : /\ k = Arg(p).key /\ b = Arg(p).body /\ k \notin Whole /\ Whole' = Whole \cup {k} /\ leaves'[k] = b
                  /\ Busy(p) /\ Continue(p, <<>>) /\ UNCHANGED <<proposal, revs, machine, bounds>>
  BY FilledLeaf
<1>2. Busy(p)' /\ Arg(p)' = job[p].todo[2] /\ job[p].todo[2].op = "fold"
  <2>1. 2 \in DOMAIN job[p].todo /\ job[p].todo[2].op = "fold"
    BY DEF Reaching
  <2> QED BY <1>1, <2>1, NextPasses
<1>3. 1 \in SnapshotsNamed'
  <2>1. b.snap = 1 /\ 1 # None
    BY <1>1, CampaignAssumption DEF Reaching
  <2> QED BY <1>1, <2>1 DEF SnapshotsNamed
<1>4. Readable'
  BY <1>1 DEF Readable, Index, Reaching
<1>5. lock' = p
  BY <1>1 DEF Continue
<1> QED BY <1>2, <1>3, <1>4, <1>5 DEF OnItsWay, Naming

LEMMA WayFold ==
    ASSUME IInv, EInv, IInv', NEW p \in Procs, lock = p, Busy(p), TornHeld, Len(snaps) <= 1, Naming(p), Fold(p)
    PROVE  OnItsWay(p)' \/ Standing' = 1
<1>1. Foldable
  <2>1. Whole = DOMAIN leaves
    BY TornOwner DEF Naming
  <2> QED BY <2>1, OnlyOne DEF Foldable
<1>2. Readable /\ 1 \in SnapshotsNamed /\ Folded.snap = 1
  BY <1>1, FoldedSnap DEF Naming
<1>3. CASE Index = Folded /\ UNCHANGED record
  <2>1. Standing = 1
    BY <1>2, <1>3, IndexStands
  <2> QED BY <1>3, <2>1, RecordStill
<1>4. CASE NewRevision(p, Folded)
  <2>1. PICK o : o = [op |-> "fill_revision", index |-> Folded]
    OBVIOUS
  <2>2. Continue(p, <<o>>) /\ leaves' = leaves /\ lock' = p
    BY <1>4, <2>1 DEF NewRevision, Continue
  <2>3. Busy(p)' /\ Arg(p)' = o /\ o.op = "fill_revision"
    BY <2>1, <2>2, NextOne
  <2>4. 1 \in SnapshotsNamed'
    BY <1>2, <2>2 DEF SnapshotsNamed, Whole
  <2> QED BY <2>2, <2>3, <2>4 DEF OnItsWay, Writing
<1> QED BY <1>1, <1>2, <1>3, <1>4 DEF Fold

LEMMA WayMoves ==
    ASSUME IInv, EInv, IInv', NEW p \in Procs, TornHeld, Len(snaps) <= 1, OnItsWay(p), Step(p)
    PROVE  OnItsWay(p)' \/ Standing' = 1
<1>1. lock = p /\ Busy(p)
  BY DEF OnItsWay
<1>2. CASE Reaching(p)
  <2>1. Arg(p).op \in {"leaf", "fill_leaf"}
    BY <1>2 DEF Reaching, Binds, Leafing
  <2>2. RegisterLeaf(p) \/ FillLeaf(p)
    BY <2>1, Zenon DEF Step, At, Arg, Lock, Done, Fold, FillRevision, Load, Manifest, FillManifest, ReadFirst,
       FirstRevision, File, Install, WriteReceipt, UpdateRegistry, FindResult, Bind, Covered, Run, Reviewed, WriteOrders,
       Attach, AttachNext, Rebuild, Committed, Restore
  <2> QED BY <1>1, <1>2, <2>2, WayRegister, WayFill
<1>3. CASE Naming(p) \/ Writing(p)
  <2>1. Naming(p) => Arg(p).op = "fold"
    BY DEF Naming
  <2>2. Writing(p) => Arg(p).op = "fill_revision" /\ 1 \in SnapshotsNamed
    BY DEF Writing
  <2>3. (Arg(p).op = "fold" /\ Fold(p)) \/ (Arg(p).op = "fill_revision" /\ FillRevision(p))
    BY <1>3, <2>1, <2>2, Zenon DEF Step, At, Arg, Lock, Done, RegisterLeaf, FillLeaf, Load, Manifest, FillManifest, ReadFirst,
       FirstRevision, File, Install, WriteReceipt, UpdateRegistry, FindResult, Bind, Covered, Run, Reviewed, WriteOrders,
       Attach, AttachNext, Rebuild, Committed, Restore, Fold, FillRevision
  <2>4. CASE Arg(p).op = "fold" /\ Fold(p)
    BY <1>1, <1>3, <2>2, <2>4, WayFold
  <2>5. CASE Arg(p).op = "fill_revision" /\ FillRevision(p)
    BY <1>3, <2>1, <2>2, <2>5, FoldStands
  <2> QED BY <2>3, <2>4, <2>5
<1> QED BY <1>2, <1>3 DEF OnItsWay

LEMMA UnderwayMoves ==
    ASSUME IInv, EInv, IInv', NEW p \in Procs, Begin(p) \/ Step(p), Spared, Len(snaps') = Len(snaps)
    PROVE  Underway'
<1> SUFFICES ASSUME Len(snaps') = 1 PROVE Standing' = 1 \/ \E q \in Procs : OnItsWay(q)'
  BY DEF Underway
<1>1. Len(snaps) <= 1 /\ TornHeld /\ Moved(p)
  BY DEF Spared, Moved
<1>2. CASE Standing = 1
  BY <1>2, StandingStays
<1>3. ASSUME NEW q \in Procs, OnItsWay(q) PROVE OnItsWay(q)' \/ Standing' = 1
  <2>1. CASE q # p
    BY <1>1, <1>3, <2>1, MovedAside, WayAside
  <2>2. CASE q = p
    <3>1. ~Begin(p)
      BY <1>3, <2>2, BeginStarts DEF OnItsWay, Start
    <3> QED BY <1>1, <1>3, <2>2, <3>1, WayMoves
  <2> QED BY <2>1, <2>2
<1> QED BY <1>2, <1>3 DEF Spared, Underway

\* A step that takes no snapshot and registers nothing.
LEMMA SparedPlain ==
    ASSUME IInv, EInv, IInv', NEW p \in Procs, Begin(p) \/ Step(p), Spared, snaps' = snaps,
           \A k \in DOMAIN leaves' : k \in DOMAIN leaves \/ (Binds(Arg(p)) /\ k = Arg(p).key) \/ k[1] \notin {"snapshot", "snapshot-binding"},
           Busy(p), Bindings(job[p].todo)'
    PROVE  Spared'
<1>1. Len(snaps)' <= 1 /\ DOMAIN snaps' = DOMAIN snaps
  BY DEF Spared
<1>2. Underway' /\ TornHeld'
  BY UnderwayMoves, TornMoves DEF Spared
<1>3. Binds(Arg(p)) => Arg(p).key[2] \in DOMAIN snaps
  <2>1. Arg(p) = job[p].todo[1] /\ 1 \in DOMAIN job[p].todo
    BY FirstOp DEF IInv, Own, Listed
  <2> QED BY <2>1 DEF Spared, Bindings
<1>4. LeavesBound'
  BY <1>1, <1>3 DEF Spared, LeavesBound
<1>5. ASSUME NEW q \in Procs PROVE Bindings(job[q].todo)'
  <2>1. CASE q = p
    BY <2>1
  <2>2. CASE q # p
    <3>1. job'[q] = job[q]
      BY <2>2, MovedAside DEF Moved, Left
    <3> QED BY <1>1, <3>1, BindingsAside DEF Spared
  <2> QED BY <2>1, <2>2
<1> QED BY <1>1, <1>2, <1>4, <1>5 DEF Spared

LEMMA SparedGoes ==
    ASSUME IInv, EInv, IInv', NEW p \in Procs, Step(p), Spared, snaps' = snaps, DOMAIN leaves' = DOMAIN leaves, Busy(p),
           NEW ops, IsList(ops), Moves(p, ops), \A n \in DOMAIN ops : ~Binds(ops[n])
    PROVE  Spared'
<1>1. Bindings(job[p].todo)'
  BY BindingsGo DEF Spared
<1> QED BY <1>1, SparedPlain

LEMMA SparedEnds ==
    ASSUME IInv, EInv, IInv', NEW p \in Procs, Step(p), Spared, snaps' = snaps, leaves' = leaves, Busy(p), End(p)
    PROVE  Spared'
BY BindingsEnd, SparedPlain

LEMMA SparedQuiet == ASSUME IInv, EInv, IInv', NEW p \in Procs, Spared, Step(p), ~Ventures(p) PROVE Spared'
<1>1. Busy(p) /\ leaves' = leaves /\ snaps' = snaps
  BY Course, Calmly
<1>2. CASE End(p)
  BY <1>1, <1>2, SparedEnds
<1>3. CASE Calm(p)
  <2>1. PICK ops : Continue(p, ops) /\ IsList(ops) /\ \A n \in DOMAIN ops : Tame(ops[n])
    BY <1>3 DEF Calm
  <2>2. Moves(p, ops) /\ \A n \in DOMAIN ops : ~Binds(ops[n])
    BY <2>1, ContinueMoves DEF Tame
  <2> QED BY <1>1, <2>1, <2>2, SparedGoes
<1>4. CASE lock = None /\ lock' = p /\ job' = [job EXCEPT ![p].todo = Tail(@)]
  <2>1. PICK ops : ops = <<>>
    OBVIOUS
  <2>2. Moves(p, ops) /\ IsList(ops) /\ \A n \in DOMAIN ops : ~Binds(ops[n])
    BY <1>1, <1>4, <2>1, LockMoves, Nothing
  <2> QED BY <1>1, <2>2, SparedGoes
<1> QED BY <1>2, <1>3, <1>4, Calmly

LEMMA SparedPasses ==
    ASSUME IInv, EInv, IInv', NEW p \in Procs, Spared, Step(p), Busy(p), Continue(p, <<>>),
           snaps' = snaps, DOMAIN leaves' = DOMAIN leaves
    PROVE  Spared'
<1>1. PICK ops : ops = <<>>
  OBVIOUS
<1>2. Moves(p, ops) /\ IsList(ops) /\ \A n \in DOMAIN ops : ~Binds(ops[n])
  BY <1>1, ContinueMoves, Nothing
<1> QED BY <1>2, SparedGoes

LEMMA SparedRegister == ASSUME IInv, EInv, IInv', NEW p \in Procs, Spared, RegisterLeaf(p) PROVE Spared'
<1>1. Busy(p) /\ Arg(p).op = "leaf" /\ Step(p)
  BY Registering DEF Step
<1>2. CASE Refuse(p)
  BY <1>1, <1>2, SparedEnds DEF Refuse, record, machine
<1>3. CASE Continue(p, <<>>) /\ UNCHANGED <<proposal, record, machine, bounds>>
  BY <1>1, <1>3, SparedPasses DEF record, machine
<1>4. CASE Registers(p)
  <2>1. PICK o, ops : o = [op |-> "fill_leaf", key |-> Arg(p).key, body |-> Arg(p).body] /\ ops = <<o>>
    OBVIOUS
  <2>2. IsList(ops) /\ DOMAIN ops = 1 .. 1 /\ ops[1] = o /\ Moves(p, ops) /\ snaps' = snaps
    BY <1>4, <2>1, Tuples, ContinueMoves DEF Registers, machine
  <2>3. Binds(o) => Binds(Arg(p)) /\ o.key = Arg(p).key
    BY <1>1, <2>1 DEF Binds, Leafing
  <2>4. Binds(Arg(p)) => Arg(p).key[2] \in DOMAIN snaps
    <3>1. Arg(p) = job[p].todo[1] /\ 1 \in DOMAIN job[p].todo
      BY <1>1, FirstOp DEF IInv, Own, Listed
    <3> QED BY <3>1 DEF Spared, Bindings
  <2>5. \A n \in DOMAIN ops : ops[n] = o
    BY <2>2
  <2>6. \A n \in DOMAIN ops : Binds(ops[n]) => ops[n].key[2] \in DOMAIN snaps'
    BY <2>2, <2>3, <2>4, <2>5
  <2>7. Bindings(job[p].todo)'
    BY <1>1, <2>2, <2>6, BindingsGo DEF Spared
  <2>8. \A k \in DOMAIN leaves' : k \in DOMAIN leaves \/ k = Arg(p).key
    BY <1>4, RegisteredLeaf
  <2>9. Arg(p).key[1] \in {"snapshot", "snapshot-binding"} => Binds(Arg(p))
    BY <1>1 DEF Binds, Leafing
  <2> QED BY <1>1, <2>2, <2>7, <2>8, <2>9, SparedPlain
<1> QED BY <1>2, <1>3, <1>4, Registering

LEMMA SparedFind == ASSUME IInv, EInv, IInv', NEW p \in Procs, Spared, FindResult(p) \/ Run(p) PROVE Spared'
<1>1. Busy(p) /\ leaves' = leaves /\ snaps' = snaps /\ Step(p)
  BY DEF FindResult, Run, At, Arg, Refuse, record, machine, Step
<1>2. CASE End(p)
  BY <1>1, <1>2, SparedEnds
<1>3. CASE Continue(p, <<>>)
  BY <1>1, <1>3, SparedPasses
<1>4. ASSUME NEW x, NEW a, Continue(p, <<[op |-> "bind", type |-> "snapshot-binding", order |-> x, attempt |-> a]>>)
      PROVE  Spared'
  <2>1. PICK o, ops : o = [op |-> "bind", type |-> "snapshot-binding", order |-> x, attempt |-> a] /\ ops = <<o>>
    OBVIOUS
  <2>2. IsList(ops) /\ DOMAIN ops = 1 .. 1 /\ ops[1] = o /\ Moves(p, ops)
    BY <1>4, <2>1, Tuples, ContinueMoves
  <2>3. ~Binds(o)
    BY <2>1 DEF Binds, Leafing
  <2>4. \A n \in DOMAIN ops : ~Binds(ops[n])
    BY <2>2, <2>3
  <2> QED BY <1>1, <2>2, <2>4, SparedGoes
<1>5. ASSUME NEW m, NEW what, Continue(p, <<Leaf("work-order-result", m, Arg(p).snap, what), Op("fold")>>)
      PROVE  Spared'
  <2>1. PICK a, b, ops : a = Leaf("work-order-result", m, Arg(p).snap, what) /\ b = Op("fold") /\ ops = <<a, b>>
    OBVIOUS
  <2>2. IsList(ops) /\ DOMAIN ops = 1 .. 2 /\ ops[1] = a /\ ops[2] = b /\ Moves(p, ops)
    BY <1>5, <2>1, Tuples, ContinueMoves
  <2>3. Tame(b)
    BY <2>1, Word, TameOp DEF Words, Trials
  <2>4. a.key[1] = "work-order-result"
    BY <2>1 DEF Leaf
  <2>5. ~Binds(a)
    BY <2>4 DEF Binds
  <2>6. \A n \in DOMAIN ops : ~Binds(ops[n])
    BY <2>2, <2>3, <2>5 DEF Tame
  <2> QED BY <1>1, <2>2, <2>6, SparedGoes
<1>6. CASE FindResult(p)
  BY <1>2, <1>3, <1>4, <1>6 DEF FindResult, Refuse
<1>7. CASE Run(p)
  BY <1>2, <1>5, <1>7 DEF Run, Refuse
<1> QED BY <1>6, <1>7

LEMMA SparedFill == ASSUME IInv, EInv, IInv', NEW p \in Procs, Spared, FillLeaf(p) PROVE Spared'
<1>1. Busy(p) /\ Continue(p, <<>>) /\ DOMAIN leaves' = DOMAIN leaves /\ snaps' = snaps /\ Step(p)
  BY FilledLeaf DEF machine, Step
<1> QED BY <1>1, SparedPasses

\* The campaign is bound once: what takes a snapshot finds that there is none.
LEMMA FirstTaken ==
    ASSUME IInv, EInv, NEW p \in Procs, Spared, Bind(p), TakesSnapshot(p)
    PROVE  Len(snaps) = 0 /\ DOMAIN snaps = {}
<1>1. DOMAIN snaps = 1 .. Len(snaps) /\ Len(snaps) \in Nat
  BY SnapsCount DEF EInv
<1>2. lock = p /\ Arg(p).op = "bind"
  BY Binder
<1>3. Len(snaps) # 1
  <2> SUFFICES ASSUME Len(snaps) = 1 PROVE FALSE
    OBVIOUS
  <2>1. Standing # 1
    BY IndexStands, CampaignAssumption DEF TakesSnapshot
  <2>2. PICK q \in Procs : OnItsWay(q)
    BY <2>1 DEF Spared, Underway
  <2>3. q = p
    BY <1>2, <2>2 DEF OnItsWay
  <2>4. Arg(p).op \in {"leaf", "fill_leaf", "fold", "fill_revision"}
    BY <2>2, <2>3 DEF OnItsWay, Reaching, Naming, Writing, Binds, Leafing
  <2> QED BY <1>2, <2>4
<1>4. Len(snaps) = 0
  BY <1>1, <1>3 DEF Spared
<1> QED BY <1>1, <1>4

LEMMA BindingWay ==
    ASSUME IInv, IInv', NEW p \in Procs, Busy(p), lock = p, Readable, UNCHANGED <<leaves, revs>>,
           NEW type \in {"snapshot", "snapshot-binding"}, <<type, 1>> \notin DOMAIN leaves,
           NEW w, IsList(w), 1 \in DOMAIN w, 2 \in DOMAIN w, w[1] = Leaf(type, 1, 1, None), w[2].op = "fold",
           Continue(p, w)
    PROVE  OnItsWay(p)'
<1>1. Busy(p)' /\ Arg(p)' = w[1] /\ 2 \in DOMAIN job'[p].todo /\ job'[p].todo[2] = w[2]
  BY NextMany
<1>2. PICK o : o = w[1]
  OBVIOUS
<1>3. o.op = "leaf" /\ o.key = <<type, 1>> /\ o.body.snap = 1 /\ o.key[1] = type
  BY <1>2 DEF Leaf
<1>4. Binds(o) /\ o.key \notin DOMAIN leaves'
  BY <1>3 DEF Binds, Leafing
<1>5. Readable' /\ lock' = p
  BY DEF Readable, Index, Continue
<1>6. Reaching(p)'
  BY <1>1, <1>2, <1>3, <1>4, <1>5 DEF Reaching
<1> QED BY <1>1, <1>5, <1>6 DEF OnItsWay

LEMMA SparedTakes == ASSUME IInv, EInv, IInv', NEW p \in Procs, Spared, Bind(p), TakesSnapshot(p) PROVE Spared'
<1>1. /\ Busy(p) /\ Arg(p).op = "bind" /\ Arg(p).type \in {"snapshot", "snapshot-binding"} /\ lock = p
      /\ leaves' = leaves /\ revs' = revs /\ Step(p)
  BY Binder DEF Step
<1>2. Len(snaps) = 0 /\ DOMAIN snaps = {} /\ IsList(snaps)
  BY FirstTaken DEF EInv, SnapsKept
<1>3. PICK x : snaps' = Append(snaps, x)
  BY DEF TakesSnapshot
<1>4. Len(snaps') = 1 /\ DOMAIN snaps' = {1}
  <2>1. Len(snaps') = Len(snaps) + 1 /\ DOMAIN snaps' = 1 .. Len(snaps) + 1
    BY <1>2, <1>3, Appended
  <2> QED BY <1>2, <2>1
<1>5. PICK b, type, w, sn : b = Arg(p) /\ type = b.type /\ sn = 1 /\ w = Binding(type, sn) \o Rest(b, sn)
  OBVIOUS
<1>6. Continue(p, w) /\ Readable
  <2>1. Len(snaps) + 1 = sn
    BY <1>2, <1>5
  <2> QED BY <1>5, <2>1 DEF TakesSnapshot
<1>7. /\ IsList(w) /\ 1 \in DOMAIN w /\ 2 \in DOMAIN w /\ w[1] = Leaf(type, 1, 1, None) /\ w[2].op = "fold"
      /\ \A n \in DOMAIN w : Binds(w[n]) => n = 1
  <2>1. b.op = "bind" /\ b.type \in {"snapshot", "snapshot-binding"} /\ w = Binding(b.type, sn) \o Rest(b, sn)
    BY <1>1, <1>5
  <2>2. /\ IsList(w) /\ 1 \in DOMAIN w /\ 2 \in DOMAIN w /\ w[1] = Leaf(b.type, sn, sn, None) /\ w[2].op = "fold"
        /\ \A n \in DOMAIN w : Binds(w[n]) => n = 1
    BY <2>1, BindingTries
  <2> QED BY <1>5, <2>2
<1>8. \A k \in DOMAIN leaves : k[1] \notin {"snapshot", "snapshot-binding"}
  BY <1>2 DEF Spared, LeavesBound
<1>9. <<type, 1>> \notin DOMAIN leaves /\ type \in {"snapshot", "snapshot-binding"}
  <2>1. <<type, 1>>[1] = type
    OBVIOUS
  <2> QED BY <1>1, <1>5, <1>8, <2>1
<1>10. OnItsWay(p)'
  BY <1>1, <1>6, <1>7, <1>9, BindingWay
<1>11. Underway'
  BY <1>10 DEF Underway
<1>12. TornHeld'
  BY <1>1, TornMoves DEF Spared
<1>13. LeavesBound'
  BY <1>1, <1>8 DEF LeavesBound
<1>14. Bindings(job[p].todo)'
  <2>1. \A n \in DOMAIN w : Binds(w[n]) => w[n].key[2] \in DOMAIN snaps'
    <3>1. PICK o : o = w[1]
      OBVIOUS
    <3>2. o.key[2] = 1
      BY <1>7, <3>1 DEF Leaf
    <3> QED BY <1>4, <1>7, <3>1, <3>2
  <2>2. Moves(p, w) /\ DOMAIN snaps \subseteq DOMAIN snaps'
    BY <1>2, <1>6, ContinueMoves
  <2> QED BY <1>1, <1>7, <2>1, <2>2, BindingsGo DEF Spared
<1>15. ASSUME NEW q \in Procs \ {p} PROVE Bindings(job[q].todo)'
  <2>1. job'[q] = job[q]
    BY <1>1, MovedAside DEF Moved, Left
  <2> QED BY <1>2, <2>1, BindingsAside DEF Spared
<1> QED BY <1>4, <1>11, <1>12, <1>13, <1>14, <1>15 DEF Spared

LEMMA SparedBind == ASSUME IInv, EInv, IInv', NEW p \in Procs, Spared, Bind(p) PROVE Spared'
<1>1. /\ Busy(p) /\ Arg(p).op = "bind" /\ Arg(p).type \in {"snapshot", "snapshot-binding"}
      /\ leaves' = leaves /\ Step(p)
      /\ \/ End(p) /\ snaps' = snaps
         \/ Continue(p, Rest(Arg(p), Index.snap)) /\ snaps' = snaps
         \/ TakesSnapshot(p)
  BY Binder DEF Step
<1>2. CASE End(p) /\ snaps' = snaps
  BY <1>1, <1>2, SparedEnds
<1>3. CASE Continue(p, Rest(Arg(p), Index.snap)) /\ snaps' = snaps
  <2>1. PICK b, sn, u : b = Arg(p) /\ sn = Index.snap /\ u = Rest(b, sn)
    OBVIOUS
  <2>2. IsList(u) /\ \A n \in DOMAIN u : ~Binds(u[n])
    BY <1>1, <2>1, RestTries
  <2>3. Moves(p, u)
    BY <1>3, <2>1, ContinueMoves
  <2> QED BY <1>1, <1>3, <2>2, <2>3, SparedGoes
<1> QED BY <1>1, <1>2, <1>3, SparedTakes

LEMMA SparedBegins == ASSUME IInv, EInv, IInv', NEW p \in Procs, Spared, Begin(p) PROVE Spared'
<1>1. PICK c, ops : Start(p, c, ops) /\ MildList(ops)
  BY BeginsMild
<1>2. leaves' = leaves /\ snaps' = snaps
  BY <1>1 DEF Start, record, machine
<1>3. Underway' /\ TornHeld'
  BY <1>2, UnderwayMoves, TornMoves DEF Spared
<1>4. LeavesBound' /\ Len(snaps)' <= 1
  BY <1>2 DEF Spared, LeavesBound
<1>5. ASSUME NEW q \in Procs PROVE Bindings(job[q].todo)'
  <2>1. CASE q = p
    <3>1. MildList(job'[p].todo)
      BY <1>1, MildStart
    <3> QED BY <2>1, <3>1 DEF MildList, Bindings
  <2>2. CASE q # p
    <3>1. job'[q] = job[q]
      BY <2>2, MovedAside DEF Moved, Left
    <3> QED BY <1>2, <3>1, BindingsAside DEF Spared
  <2> QED BY <2>1, <2>2
<1> QED BY <1>3, <1>4, <1>5 DEF Spared

LEMMA SparedStands ==
    ASSUME Spared, UNCHANGED <<leaves, revs, snaps, lock, job>>
    PROVE  Spared'
<1>1. Whole' = Whole /\ SnapshotsNamed' = SnapshotsNamed /\ Revisions' = Revisions
  BY DEF Whole, SnapshotsNamed, Revisions, Index
<1>2. Standing' = Standing
  BY <1>1 DEF Standing
<1>3. \A q : OnItsWay(q) => OnItsWay(q)'
  BY <1>1 DEF OnItsWay, Reaching, Naming, Writing, Busy, Arg, Readable, Index
<1>4. Underway'
  BY <1>2, <1>3 DEF Spared, Underway
<1>5. TornHeld' /\ LeavesBound'
  BY <1>1 DEF Spared, TornHeld, LeavesBound, At, Arg, Busy
<1> QED BY <1>4, <1>5 DEF Spared, Bindings

LEMMA Bounded ==
    ASSUME NEW p \in Procs, Begin(p) \/ Step(p)
    PROVE  UNCHANGED <<faults, crashes>>
<1>1. CASE Begin(p)
  BY <1>1, BeginStarts DEF Start
<1>2. CASE Lock(p) \/ Done(p) \/ RegisterLeaf(p) \/ FillLeaf(p) \/ Fold(p) \/ FillRevision(p) \/ Load(p)
  BY <1>2 DEF Lock, Done, RegisterLeaf, FillLeaf, Fold, FillRevision, Load, Refuse, NewRevision, bounds
<1>3. CASE Manifest(p) \/ FillManifest(p) \/ ReadFirst(p) \/ FirstRevision(p) \/ File(p)
  BY <1>3 DEF Manifest, FillManifest, ReadFirst, FirstRevision, File, Refuse, NewRevision, bounds
<1>4. CASE Install(p) \/ WriteReceipt(p) \/ UpdateRegistry(p) \/ FindResult(p) \/ Bind(p) \/ Covered(p) \/ Run(p)
  BY <1>4 DEF Install, WriteReceipt, UpdateRegistry, FindResult, Bind, Covered, Run, Refuse, bounds
<1>5. CASE Reviewed(p) \/ WriteOrders(p) \/ Attach(p) \/ AttachNext(p) \/ Rebuild(p) \/ Committed(p) \/ Restore(p)
  BY <1>5 DEF Reviewed, WriteOrders, Attach, AttachNext, Rebuild, Committed, Restore, Refuse, NewRevision, bounds
<1> QED BY <1>1, <1>2, <1>3, <1>4, <1>5 DEF Step

\* Nothing has failed yet.
Unfailed == faults = 0 /\ crashes = 0

LEMMA SparedMoves ==
    ASSUME IInv, EInv, IInv', Unfailed => Spared, NEW p \in Procs, Moved(p), Unfailed'
    PROVE  Spared'
<1>1. faults \in Nat /\ crashes \in Nat
  BY DEF EInv, ControlKept
<1>2. Begin(p) \/ Step(p)
  <2>1. ~Fault(p) /\ ~Crash(p)
    BY <1>1 DEF Fault, Crash, Unfailed
  <2> QED BY <2>1 DEF Moved
<1>3. Spared
  BY <1>2, Bounded DEF Unfailed
<1>4. CASE Begin(p)
  BY <1>3, <1>4, SparedBegins
<1>5. CASE Step(p)
  BY <1>3, <1>5, SparedQuiet, SparedRegister, SparedFill, SparedFind, SparedBind DEF Ventures
<1> QED BY <1>2, <1>4, <1>5

LEMMA SparedStep ==
    IInv /\ EInv /\ IInv' /\ (Unfailed => Spared) /\ [Next]_vars => (Unfailed' => Spared')
<1> SUFFICES ASSUME IInv, EInv, IInv', Unfailed => Spared, [Next]_vars, Unfailed'
             PROVE  Spared'
  OBVIOUS
<1>1. ASSUME NEW t \in Plans, NEW c \in Contents, Edit(t, c) PROVE Spared'
  <2>1. Unfailed /\ UNCHANGED <<leaves, revs, snaps, lock, job>>
    BY <1>1 DEF Edit, record, Unfailed
  <2> QED BY <2>1, SparedStands
<1>2. CASE UNCHANGED vars
  <2>1. Unfailed /\ UNCHANGED <<leaves, revs, snaps, lock, job>>
    BY <1>2 DEF vars, record, machine, bounds, Unfailed
  <2> QED BY <2>1, SparedStands
<1> QED BY <1>1, <1>2, SparedMoves, NextMoves

LEMMA AloneNamed ==
    ASSUME IInv, EInv, Spared
    PROVE  Cardinality(SnapshotsNamed) <= 1
<1>1. SnapshotsNamed \subseteq {1}
  BY OnlyOne DEF Spared
<1>2. CASE SnapshotsNamed = {}
  BY <1>2, FS_EmptySet
<1>3. CASE SnapshotsNamed # {}
  <2>1. SnapshotsNamed = {1}
    BY <1>1, <1>3
  <2> QED BY <2>1, FS_Singleton
<1> QED BY <1>2, <1>3

\* An attempt has one result and a rollback is made once, in every state; and
\* applies and dispatches that race bind the campaign to one snapshot as long as
\* no command has failed (_existing_result, _committed_campaign_rollback,
\* _bind_snapshot under CampaignLock).
THEOREM DoneKept == Spec => []DoneOnce
<1>1. Init => (Unfailed => Spared)
  <2> SUFFICES ASSUME Init PROVE Spared
    OBVIOUS
  <2>1. \A q \in Procs : job[q].todo = <<>>
    BY DEF Init, Idle
  <2>2. Len(snaps) = 0 /\ DOMAIN leaves = {}
    BY DEF Init
  <2>3. Underway /\ TornHeld /\ LeavesBound
    BY <2>2 DEF Underway, TornHeld, LeavesBound
  <2> QED BY <2>1, <2>2, <2>3, Nothing DEF Spared, Bindings
<1>2. IInv /\ EInv /\ IInv' /\ (Unfailed => Spared) /\ [Next]_vars => (Unfailed => Spared)'
  BY SparedStep
<1>3. IInv /\ EInv /\ (Unfailed => Spared) => OneSnapshot
  BY AloneNamed DEF OneSnapshot, Unfailed
<1>4. TypeOK /\ OneSnapshot /\ AttemptOnce /\ RollbackOnce => DoneOnce
  BY DEF DoneOnce
<1>5. Spec => [](IInv /\ EInv /\ (Unfailed => Spared))
  BY <1>1, <1>2, Evidence, PTL DEF Spec
<1> QED BY <1>3, <1>4, <1>5, CampaignTypes, AttemptsMade, RollbackKept, PTL
=============================================================================

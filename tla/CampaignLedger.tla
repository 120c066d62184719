--------------------------- MODULE CampaignLedger ---------------------------
(***************************************************************************)
(* What the record of a campaign promises (campaigns.py): artifacts are    *)
(* only ever added, each once and for good, and the index is at every      *)
(* revision exactly what the artifacts said when it was written.           *)
(***************************************************************************)
EXTENDS Sequences

CONSTANT None

VARIABLES
    artifacts,   \* the set of <<identity, body>> on record
    revisions    \* what the index said: the snapshot and the identities, in order

Identities == {a[1] : a \in artifacts}
SnapshotsOf(as) == {a[2].snap : a \in as} \ {None}

LedgerInit == artifacts = {} /\ revisions = <<>>

\* An artifact with a new identity.
Record ==
    /\ revisions' = revisions
    /\ \E a \in artifacts' \ artifacts :
          /\ artifacts' = artifacts \cup {a}
          /\ a[1] \notin Identities

\* The index catches up; it never speaks of two snapshots.
Fold ==
    /\ artifacts' = artifacts
    /\ \A s, t \in SnapshotsOf(artifacts) : s = t
    /\ revisions' = Append(revisions,
          [snap |-> IF SnapshotsOf(artifacts) = {} THEN None
                    ELSE CHOOSE s \in SnapshotsOf(artifacts) : TRUE,
           refs |-> Identities])

LedgerSpec == LedgerInit /\ [][Record \/ Fold]_<<artifacts, revisions>>
=============================================================================

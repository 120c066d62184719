----------------------------- MODULE AuditInputs -----------------------------
(***************************************************************************)
(* The system audit and the state it is an audit of: the guidance baseline *)
(* and the model registry.  `apu system audit` reconciles the registry     *)
(* with the local configuration, stamps the current baseline, then takes   *)
(* its detector settings from the baseline that is current by then, while  *)
(* other commands refresh and adopt.                                       *)
(* `apu system propose` verifies what an audit claims before it uses it.   *)
(***************************************************************************)
EXTENDS Guidance, ModelRegistry

CONSTANTS MaxMoves     \* changes of the local configuration, at most

ASSUME MaxMovesOK == MaxMoves \in Nat

VARIABLES audits, moves
vars == <<jobVars, guidanceVars, registryVars, audits, moves>>

OnGuidance(p) == job[p].cmd \in {"refresh", "adopt"}

Init ==
    /\ JobsInit
    /\ GuidanceInit
    /\ RegistryInit
    /\ audits = {}
    /\ moves = 0

----------------------------------------------------------------------------
\* Observation, load, reconciliation; a registry that would not validate
\* ends the command, whatever else it would have found.
BeginAudit(p) ==
    LET registry == Reconciled(Loaded, Observed)
    IN
    /\ Valid(registry)
    /\ Begin(p, [cmd |-> "audit", pc |-> "stamp", registry |-> registry])
    /\ UNCHANGED <<guidanceVars, registryVars, audits, moves>>

\* Whoever reads the current baseline reads its immutable artifact as well.
CurrentReadable == current = None \/ Immutable(current)

StampAudit(p) ==
    /\ At(p, "audit", "stamp")
    /\ Goto(p, IF CurrentReadable
               THEN [cmd |-> "audit", pc |-> "policy", registry |-> job[p].registry,
                     baseline |-> current, stamp |-> StampStatus]
               ELSE Idle)
    /\ UNCHANGED <<guidanceVars, registryVars, audits, moves>>

\* load_guidance_detector_policy reads current.json again.
FinishAudit(p) ==
    /\ At(p, "audit", "policy")
    /\ audits' = IF CurrentReadable
                 THEN audits \cup
                         {[registry |-> job[p].registry, baseline |-> job[p].baseline,
                           stamp |-> job[p].stamp, used |-> current]}
                 ELSE audits
    /\ Goto(p, Idle)
    /\ UNCHANGED <<guidanceVars, registryVars, moves>>

Move(rt, c) ==
    /\ moves < MaxMoves
    /\ \A p \in Procs : ~OnGuidance(p)
    /\ moves' = moves + 1
    /\ Reconfigure(rt, c)
    /\ UNCHANGED <<guidanceVars, audits>>

\* Commands on guidance and commands on models share no state: a run in
\* which two of them overlap differs from one in which they follow each other
\* in the order of independent steps alone, and only the latter are taken.
\* The same holds of a change of the configuration during a guidance command.
Next ==
    \/ \E p \in Procs :
          \/ /\ job[p] = Idle => \A q \in Procs : ~RefreshingModels(q)
             /\ GuidanceStep(p)
             /\ UNCHANGED <<registryVars, audits, moves>>
          \/ /\ job[p] = Idle => \A q \in Procs : ~OnGuidance(q)
             /\ RegistryStep(p)
             /\ UNCHANGED <<guidanceVars, audits, moves>>
          \/ BeginAudit(p) \/ StampAudit(p) \/ FinishAudit(p)
          \/ GuidanceDies(p) /\ UNCHANGED <<registryVars, audits, moves>>
    \/ \E rt \in Runtimes : \E c \in Configs[rt] : Move(rt, c)

Spec == Init /\ [][Next]_vars

----------------------------------------------------------------------------
(* verify_evaluation_context                                                *)

BaselineVerified(a) == a.baseline # None => Immutable(a.baseline)

\* The artifact of the audit is reconciled once more with what is configured.
ConfigurationVerified(a) ==
    LET now == Reconciled(a.registry, Observed)
    IN Valid(now) /\ \A rt \in Runtimes : a.registry.models[rt].obs = now.models[rt].obs

----------------------------------------------------------------------------
\* Types, and an audit is stamped unconfigured just when it claims no baseline.
TypeOK ==
    /\ GuidanceTypeOK /\ RegistryTypeOK
    /\ calls \in 0..MaxCalls /\ stops \in 0..MaxStops /\ moves \in 0..MaxMoves
    /\ \A p \in Procs : job[p].cmd \in {None, "refresh", "adopt", "models", "audit"}
    /\ \A a \in audits :
          /\ a.registry \in Registry
          /\ {a.baseline, a.used} \subseteq Baseline \cup {None}
          /\ a.stamp = "unconfigured" <=> a.baseline = None

\* The baseline an audit claims can be verified for as long as the state
\* lives, whatever is fetched, adopted again, cut short or withdrawn after it,
\* unless it had become current before it was safely on disk.
ProvenanceStands == \A a \in audits : BaselineVerified(a) \/ a.baseline \in trusted

\* Neither the saved registry nor any audit carries a resolution across a
\* change of provider or selector, and what an audit calls current is what
\* the registry's own last refresh resolved.
NeverCarried == Bound(Loaded) /\ \A a \in audits : Bound(a.registry)

\* An audit of the configuration that is still in place can be proposed:
\* verify_evaluation_context refuses one only for a configuration that
\* changed after it ("rerun `apu system audit`").
AuditProposable ==
    \A a \in audits :
        (\A rt \in Runtimes : a.registry.models[rt].obs = Observed[rt]) =>
            ConfigurationVerified(a)

\* What orders, baselines and audits refer to is on file and is what they say,
\* but for what was taken from a file that its writer could still take away.
EvidenceStands == TypeOK /\ CitedIntact /\ CurrentImmutable /\ ProvenanceStands

\* What the registry says of a model was resolved for the provider and the
\* selector it is said of, and is the last of its kind.
ModelsTrue == NeverCarried /\ KnownTruth
=============================================================================

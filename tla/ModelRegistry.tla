---------------------------- MODULE ModelRegistry ----------------------------
(***************************************************************************)
(* The model registry: which published model each agent runtime stands     *)
(* for.  A runtime's local configuration gives a provider, a selector (its *)
(* raw alias) and a version.  `apu refresh models` asks the provider's     *)
(* listing and saves an entry for every runtime; when a listing fails, the *)
(* entry keeps the resolution of the entry before it where that matches,   *)
(* and the last known one in any case.  An audit reconciles the registry   *)
(* with what is configured now and saves nothing but its own artifact.     *)
(*                                                                         *)
(* A canonical identity is <<provider, runtime, model>>; a generation is a *)
(* hash of identities and is modelled by them.  The registry and its       *)
(* artifacts, named by their hash, are written atomically.                 *)
(***************************************************************************)
EXTENDS Jobs

CONSTANTS Runtimes,
          Configs,    \* of each runtime: what it may be configured as
          Configured, \* of each runtime: its first configuration
          Listed,     \* providers with an authoritative listing
          Listings,   \* what a listing may say: its model ids, and aliases of some
          Default     \* the selector <provider-default>

ASSUME ConfiguredOK ==
    DOMAIN Configured = Runtimes /\ \A rt \in Runtimes : Configured[rt] \in Configs[rt]

VARIABLES
    local,      \* of each runtime: its configuration
    pointer,    \* the saved registry, or None
    resolved,   \* history: of each runtime the last resolution saved, or None
    complete,   \* history: the identities of the last registry that had them all
    raced       \* history: two refreshes have run at once

registryVars == <<local, pointer, resolved, complete, raced>>

Setups == UNION {Configs[rt] : rt \in Runtimes}
Models == UNION {l.ids \cup {l.aliases[a] : a \in DOMAIN l.aliases} : l \in Listings}

Observation == [provider : {c.provider : c \in Setups}, version : {c.version : c \in Setups},
                alias : {c.model : c \in Setups} \cup {Default}]
Resolution == [provider : {c.provider : c \in Setups}, model : Models, at : 1..MaxCalls,
               alias : {c.model : c \in Setups} \cup {Default}]
Entry == [obs : Observation, resolution : Resolution \cup {None}, known : Resolution \cup {None},
          status : {"current", "stale", "unverified"}]
Registry == [models : [Runtimes -> Entry] \cup {None}, changed : BOOLEAN,
             known : SUBSET ({c.provider : c \in Setups} \X Runtimes \X Models),
             previous : SUBSET ({c.provider : c \in Setups} \X Runtimes \X Models),
             attempted : 1..MaxCalls \cup {None}, succeeded : 1..MaxCalls \cup {None},
             status : {"current", "degraded", "unverified"}]

ASSUME NoneIsNoEntry == None \notin Entry /\ None \notin [Runtimes -> Entry]
ASSUME NoneIsNoRegistry == None \notin Registry

IdentityOf(rt, r) == <<r.provider, rt, r.model>>

EmptyRegistry ==
    [models |-> None, known |-> {}, previous |-> {}, changed |-> FALSE,
     attempted |-> None, succeeded |-> None, status |-> "unverified"]

\* observe_local_models: without a configured model the selector is the
\* default of the provider.
Observed ==
    [rt \in Runtimes |->
        [provider |-> local[rt].provider, version |-> local[rt].version,
         alias |-> IF local[rt].model = None THEN Default ELSE local[rt].model]]

\* load_model_registry
Loaded == IF pointer = None THEN EmptyRegistry ELSE pointer
EntryOf(registry, rt) == IF registry.models = None THEN None ELSE registry.models[rt]

RegistryInit ==
    /\ local = Configured
    /\ pointer = None
    /\ resolved = [rt \in Runtimes |-> None]
    /\ complete = {}
    /\ raced = FALSE

----------------------------------------------------------------------------
(* Entries                                                                  *)

\* Only the provider of the observation before is compared: the last known
\* resolution may be older than it, and of another provider.
MatchingPrevious(previous, obs) ==
    IF previous = None \/ previous.obs.provider # obs.provider THEN None
    ELSE LET fits(r) == r # None /\ r.alias = obs.alias
         IN CASE fits(previous.resolution) -> previous.resolution
              [] ~fits(previous.resolution) /\ fits(previous.known) -> previous.known
              [] OTHER -> None

LastKnownNow(previous) ==     \* mutant: only what the entry before resolved
    IF previous = None THEN None ELSE previous.resolution

LastKnown(previous) == IF previous = None THEN None ELSE previous.known

DegradedEntry(obs, previous) ==
    LET r == MatchingPrevious(previous, obs)
    IN [obs |-> obs, resolution |-> r, known |-> LastKnown(previous),
        status |-> IF r = None THEN "unverified" ELSE "stale"]

CurrentEntry(obs, r) ==
    [obs |-> obs, resolution |-> r, known |-> r, status |-> "current"]

\* An alias first, else the selector itself; never outside the ids listed.
Resolved(listing, alias) ==
    LET model == IF alias \in DOMAIN listing.aliases THEN listing.aliases[alias]
                 ELSE IF alias \in listing.ids THEN alias ELSE None
    IN IF listing.ids # {} /\ model \notin listing.ids THEN None ELSE model

\* The entry of a runtime; a failed fetch is the listing None.
RefreshedEntry(obs, previous, listing, at) ==
    IF obs.provider \notin Listed \/ listing = None THEN DegradedEntry(obs, previous)
    ELSE IF Resolved(listing, obs.alias) = None THEN DegradedEntry(obs, previous)
    ELSE CurrentEntry(obs, [provider |-> obs.provider, alias |-> obs.alias,
                            model |-> Resolved(listing, obs.alias), at |-> at])

----------------------------------------------------------------------------
(* Registries                                                               *)

Identities(models) ==
    {IdentityOf(rt, models[rt].resolution) :
        rt \in {x \in Runtimes : models[x].resolution # None}}

\* The identities of a registry whose every runtime is resolved: its
\* generation is their hash, and null otherwise.
Generation(models) ==
    IF \A rt \in Runtimes : models[rt].resolution # None THEN Identities(models) ELSE {}

StatusOf(models) ==
    CASE \A rt \in Runtimes : models[rt].status = "current" -> "current"
      [] (\E rt \in Runtimes : models[rt].status # "current")
         /\ Identities(models) # {} -> "degraded"
      [] OTHER -> "unverified"

Summary(prior, models, attempted, succeeded) ==
    LET generation == Generation(models)
    IN [models |-> models,
        known |-> IF generation # {} THEN generation ELSE prior.known,
        previous |-> prior.known,
        changed |-> prior.known # {} /\ generation # {} /\ generation # prior.known,
        attempted |-> attempted,
        succeeded |-> succeeded,
        status |-> StatusOf(models)]

\* What _validate_registry refuses of the registries built here: an entry
\* whose resolution is not of its observation's provider and selector, and a
\* current one that is not the last known.
ValidEntry(e) ==
    e.resolution # None =>
        /\ e.resolution.provider = e.obs.provider
        /\ e.resolution.alias = e.obs.alias
        /\ e.status = "current" => e.resolution = e.known

Valid(registry) ==
    registry.models = None \/ \A rt \in Runtimes : ValidEntry(registry.models[rt])

LocalObservationMatches(previous, obs) == previous # None /\ previous.obs = obs

\* An entry whose observation is still the one on record stays; another is
\* degraded, and without any resolution when the configuration moved.
ReconciledEntry(previous, obs) ==
    LET same == LocalObservationMatches(previous, obs)
        kept == IF same THEN MatchingPrevious(previous, obs) ELSE None
    IN IF kept # None /\ previous.resolution = kept THEN previous
       ELSE IF same THEN DegradedEntry(obs, previous)
       ELSE [DegradedEntry(obs, previous) EXCEPT !.resolution = None, !.status = "unverified"]

\* reconcile_model_registry_observations, before it validates its result
Reconciled(prior, observations) ==
    LET models == [rt \in Runtimes |-> ReconciledEntry(EntryOf(prior, rt), observations[rt])]
    IN IF models = prior.models THEN prior
       ELSE Summary(prior, models, prior.attempted, prior.succeeded)

----------------------------------------------------------------------------
(* apu refresh models                                                       *)

RefreshingModels(p) == job[p].cmd = "models"

\* observe_local_models, then load_model_registry
BeginModels(p) ==
    /\ Begin(p, [cmd |-> "models", pc |-> "fetch", at |-> calls + 1,
                 obs |-> Observed, prior |-> Loaded])
    /\ raced' = (raced \/ \E q \in Procs : RefreshingModels(q))
    /\ UNCHANGED <<local, pointer, resolved, complete>>

\* One fetch for a provider, whichever runtimes share it.
RefreshModels(p) ==
    \E listing \in [Listed -> Listings \cup {None}] :
        LET j == job[p]
            models == [rt \in Runtimes |->
                          RefreshedEntry(j.obs[rt], EntryOf(j.prior, rt),
                                         IF j.obs[rt].provider \in Listed
                                         THEN listing[j.obs[rt].provider] ELSE None, j.at)]
            registry == Summary(j.prior, models, j.at,
                                IF StatusOf(models) = "current" THEN j.at
                                ELSE j.prior.succeeded)
        IN
        /\ At(p, "models", "fetch")
        /\ Goto(p, Idle)
        /\ IF Valid(registry)
           THEN /\ pointer' = registry
                /\ resolved' = [rt \in Runtimes |->
                                   IF models[rt].status = "current"
                                   THEN models[rt].resolution ELSE resolved[rt]]
                /\ complete' = IF Generation(models) # {} THEN Generation(models) ELSE complete
           ELSE UNCHANGED <<pointer, resolved, complete>>
        /\ UNCHANGED <<local, raced>>

\* Outside APU: the user edits the settings or installs another version.
Reconfigure(rt, c) ==
    /\ c # local[rt]
    /\ local' = [local EXCEPT ![rt] = c]
    /\ UNCHANGED <<jobVars, pointer, resolved, complete, raced>>

RegistryStep(p) == BeginModels(p) \/ RefreshModels(p)

----------------------------------------------------------------------------
(* Properties                                                               *)

\* Every entry and registry has the fields and the statuses its validator
\* accepts (_validate_registry).
RegistryTypeOK ==
    /\ \A rt \in Runtimes : local[rt] \in Configs[rt]
    /\ pointer \in Registry \cup {None}
    /\ resolved \in [Runtimes -> Resolution \cup {None}]
    /\ raced \in BOOLEAN

\* No registry carries a resolution across a change of provider or selector
\* (refresh_model_registry's docstring), and what it calls current was
\* resolved by its own last refresh.
Bound(registry) ==
    registry.models # None => \A rt \in Runtimes :
        LET e == registry.models[rt]
        IN e.resolution # None =>
              /\ e.resolution.provider = e.obs.provider
              /\ e.resolution.alias = e.obs.alias
              /\ e.status = "current" => e.resolution.at = registry.attempted

\* The last known resolution of a runtime is the one last saved, through
\* failures and changes of the configuration; the generation that the next
\* complete refresh is compared with is that of the last complete one.
KnownTruth ==
    ~raced /\ pointer # None =>
        /\ \A rt \in Runtimes : pointer.models[rt].known = resolved[rt]
        /\ pointer.known = complete
=============================================================================

--------------------------- MODULE RestoreJournal ---------------------------
(***************************************************************************)
(* Journaled restore of exact filesystem targets: restore_items and        *)
(* resume_restore of src/src/apu/restore_journal.py.                       *)
(*                                                                         *)
(* One journal with N items is followed through its first run, any number  *)
(* of resumes and unwinds, operating-system errors at every fallible call, *)
(* process death between any two calls, and edits of the targets made by   *)
(* somebody else while no restore is running.                              *)
(*                                                                         *)
(* An object (file, tree or link) is abstracted to its description, the    *)
(* (type, sha256, mode) triple that every comparison in the code uses.     *)
(* Renames are atomic; a copy, and the removal of a tree, is not: half way *)
(* through, the path holds Torn, which matches neither description.        *)
(***************************************************************************)
EXTENDS Naturals

CONSTANTS
    N,           \* items of the journal, in journal order 1..N
    Contents,    \* descriptions of objects that exist and are whole
    Absent,      \* the description of a path with nothing at it
    Torn,        \* the description of a half-made or half-removed object
    Trees,       \* the contents that are directories, removed bit by bit
    Forced,      \* the items named by force_paths
    MaxFaults,   \* bound: operating-system errors
    MaxCrashes,  \* bound: process deaths
    MaxEdits,    \* bound: edits by others
    MaxMishaps   \* bound: all of these together

ASSUME NAssumption == N \in Nat \ {0}

ASSUME ObjectAssumption ==
    /\ Absent \notin Contents
    /\ Torn \notin Contents
    /\ Absent # Torn
    /\ Trees \subseteq Contents

ASSUME BoundAssumption ==
    MaxFaults \in Nat /\ MaxCrashes \in Nat /\ MaxEdits \in Nat /\ MaxMishaps \in Nat

Items == 1..N
Whole == Contents \cup {Absent}
Objects == Whole \cup {Torn}

VARIABLES
    target, prepared, displaced, incoming,  \* the four live paths of an item
    original, desired,      \* the two descriptions the journal holds
    expected,               \* what the caller saw at each target
    origArt, desArt,        \* private copies under originals/ and desired/
    diskStatus, diskState,  \* journal.json; "none" when there is no such file
    memState,               \* item["state"] of the journal in memory
    pc, cur, mode,          \* the running call, its item and its direction
    reverseFailed,          \* reverse_failed of restore_items
    clean,                  \* history: no error met since the run began
    edited,                 \* history: items others touched since the capture
    faults, crashes, edits  \* counters for the bounds

live == <<target, prepared, displaced, incoming>>
fixed == <<original, desired, expected, origArt, desArt>>
disk == <<diskStatus, diskState>>
outside == <<edited, crashes, edits>>
vars == <<live, fixed, disk, memState, pc, cur, mode, reverseFailed, clean,
          faults, outside>>

States == {"original", "desired", "transitional", "unknown"}
Statuses == {"none", "prepared", "unwinding", "needs_recovery", "rolled_back",
             "resuming", "resuming_unwind", "completed", "unwound"}
Terminal == {"rolled_back", "completed", "unwound"}
Modes == {"restore", "reverse", "complete", "unwind"}
PCs == {"idle", "capture", "stage", "verify",
        "apply", "displace", "displaced", "place", "placed",
        "r_check", "r_displace", "r_displaced", "r_place", "r_copying",
        "r_incoming", "r_clear_prepared", "r_clear_incoming", "r_verify", "c_check", "ensure", "ensure_copying",
        "failed", "reverse_failed", "reversed", "cleanup", "removing",
        "finish", "interrupted"}

TypeOK ==
    /\ target \in [Items -> Objects]
    /\ prepared \in [Items -> Objects]
    /\ displaced \in [Items -> Objects]
    /\ incoming \in [Items -> Objects]
    /\ original \in [Items -> Objects]
    /\ desired \in [Items -> Whole]
    /\ expected \in [Items -> Whole]
    /\ origArt \in [Items -> Objects]
    /\ desArt \in [Items -> Whole]
    /\ diskStatus \in Statuses
    /\ diskState \in [Items -> States]
    /\ memState \in [Items -> States]
    /\ pc \in PCs
    /\ cur \in Items
    /\ mode \in Modes
    /\ reverseFailed \in BOOLEAN
    /\ clean \in BOOLEAN
    /\ edited \subseteq Items
    /\ faults \in Nat
    /\ crashes \in Nat
    /\ edits \in Nat

Nothing == [i \in Items |-> Absent]
AllOriginal == [i \in Items |-> "original"]

Init ==
    /\ target \in [Items -> Whole]
    /\ desired \in [Items -> Whole]
    /\ expected = target
    /\ original = target
    /\ prepared = Nothing /\ displaced = Nothing /\ incoming = Nothing
    /\ origArt = Nothing /\ desArt = Nothing
    /\ diskStatus = "none" /\ diskState = AllOriginal /\ memState = AllOriginal
    /\ pc = "idle" /\ cur = 1 /\ mode = "restore"
    /\ reverseFailed = FALSE /\ clean = TRUE
    /\ edited = {} /\ faults = 0 /\ crashes = 0 /\ edits = 0

-----------------------------------------------------------------------------
\* _classify_target: where the item stands, seen from the filesystem alone
\* (the recorded state only breaks the tie of equal descriptions).
Classify(i, recorded) ==
    LET isOriginal == target[i] = original[i]
        isDesired == target[i] = desired[i]
    IN  IF isOriginal /\ isDesired
        THEN IF recorded = "desired" THEN "desired" ELSE "original"
        ELSE IF isOriginal THEN "original"
        ELSE IF isDesired THEN "desired"
        ELSE IF target[i] = Absent
                /\ (displaced[i] = original[i] \/ prepared[i] = desired[i])
        THEN "transitional"
        ELSE "unknown"

\* _record_observed and _record_observed_states.
Observe(s, i) == [s EXCEPT ![i] = Classify(i, s[i])]
ObserveAll(s) == [i \in Items |-> Classify(i, s[i])]

\* journal["status"] while a run goes in the given direction.
StatusOf(m) == CASE m = "restore" -> "prepared"
                 [] m = "reverse" -> "unwinding"
                 [] m = "complete" -> "resuming"
                 [] m = "unwind" -> "resuming_unwind"

\* Where an exception raised by the running call is handled.
OnError == CASE mode = "restore" -> "failed"
             [] mode = "reverse" -> "reverse_failed"
             [] mode \in {"complete", "unwind"} -> "interrupted"

\* The code raises on what it sees.
Raise ==
    /\ pc' = OnError
    /\ UNCHANGED <<live, fixed, disk, memState, cur, mode, reverseFailed,
                   clean, faults, outside>>

\* The operating system fails a call: nothing has changed but the control.
Fault(handler) ==
    /\ faults < MaxFaults /\ faults + crashes + edits < MaxMishaps
    /\ faults' = faults + 1
    /\ clean' = FALSE
    /\ pc' = handler

\* write_json_atomic replaces journal.json whole or leaves it alone.
Persist(status, s, next, nextCur, handler) ==
    /\ memState' = s
    /\ \/ /\ diskStatus' = status
          /\ diskState' = s
          /\ pc' = next
          /\ cur' = nextCur
          /\ UNCHANGED <<clean, faults>>
       \/ Fault(handler) /\ UNCHANGED <<disk, cur>>
    /\ UNCHANGED <<live, fixed, outside>>

Save(s, next, nextCur) ==
    /\ Persist(StatusOf(mode), s, next, nextCur, OnError)
    /\ UNCHANGED <<mode, reverseFailed>>

\* A call that moves or copies objects: effect is its effect on live.
FileStep(effect, next) ==
    /\ \/ effect /\ pc' = next /\ UNCHANGED <<clean, faults>>
       \/ Fault(OnError) /\ UNCHANGED live
    /\ UNCHANGED <<fixed, disk, memState, cur, mode, reverseFailed, outside>>

\* _remove_object: unlink is atomic, rmtree is not.
Leftover(object) == IF object \in Trees THEN Torn ELSE Absent
AfterRemove(object, goOn, done) == IF object \in Trees THEN goOn ELSE done

-----------------------------------------------------------------------------
\* restore_items up to the first durable journal.

\* (mutant) takes whatever is there for the original
BeginUnchecked ==
    /\ pc = "idle" /\ diskStatus = "none"
    /\ original' = target
    /\ prepared' = Nothing /\ displaced' = Nothing /\ incoming' = Nothing
    /\ origArt' = Nothing /\ desArt' = Nothing
    /\ memState' = AllOriginal
    /\ pc' = "capture" /\ cur' = 1 /\ mode' = "restore"
    /\ reverseFailed' = FALSE /\ clean' = TRUE /\ edited' = {}
    /\ UNCHANGED <<target, desired, expected, disk, faults, crashes, edits>>

\* _preflight: every target not forced still is what the caller saw.  A fresh
\* journal id names fresh side paths.
Begin ==
    /\ pc = "idle" /\ diskStatus = "none"
    /\ \A i \in Items \ Forced : target[i] = expected[i]
    /\ original' = target
    /\ prepared' = Nothing /\ displaced' = Nothing /\ incoming' = Nothing
    /\ origArt' = Nothing /\ desArt' = Nothing
    /\ memState' = AllOriginal
    /\ pc' = "capture" /\ cur' = 1 /\ mode' = "restore"
    /\ reverseFailed' = FALSE /\ clean' = TRUE /\ edited' = {}
    /\ UNCHANGED <<target, desired, expected, disk, faults, crashes, edits>>

\* The except branch of lines 156-158 removes the transaction directory.
Abort ==
    /\ pc' = "idle"
    /\ origArt' = Nothing /\ desArt' = Nothing
    /\ UNCHANGED <<target, displaced, incoming, original, desired, expected,
                   disk, memState, cur, mode, reverseFailed, outside>>

\* (mutant) the private copies of the last item are not made.
CaptureArtifactsShort ==
    /\ pc = "capture"
    /\ origArt' = [origArt EXCEPT ![cur] = original[cur]]
    /\ desArt' = [desArt EXCEPT ![cur] = desired[cur]]
    /\ IF cur + 1 < N THEN pc' = "capture" /\ cur' = cur + 1
                      ELSE pc' = "stage" /\ cur' = 1
    /\ UNCHANGED <<live, original, desired, expected, disk, memState, mode,
                   reverseFailed, clean, faults, outside>>

\* _capture_artifacts, one item: a copy that is not what preflight saw is
\* refused; an absent original has no copy to compare.
CaptureArtifacts ==
    /\ pc = "capture"
    /\ \/ /\ original[cur] \in {Absent, target[cur]}
          /\ origArt' = [origArt EXCEPT ![cur] = original[cur]]
          /\ desArt' = [desArt EXCEPT ![cur] = desired[cur]]
          /\ IF cur < N THEN pc' = "capture" /\ cur' = cur + 1
                        ELSE pc' = "stage" /\ cur' = 1
          /\ UNCHANGED <<live, original, desired, expected, disk, memState,
                         mode, reverseFailed, clean, faults, outside>>
       \/ /\ original[cur] \notin {Absent, target[cur]}
          /\ Abort /\ UNCHANGED <<prepared, clean, faults>>
       \/ Fault("idle") /\ Abort /\ UNCHANGED prepared

\* _stage_desired_objects, one item; on an error the staged ones are removed.
StageDesired ==
    /\ pc = "stage"
    /\ \/ /\ prepared' = [prepared EXCEPT ![cur] = desArt[cur]]
          /\ IF cur < N THEN pc' = "stage" /\ cur' = cur + 1
                        ELSE pc' = "verify" /\ cur' = 1
          /\ UNCHANGED <<target, displaced, incoming, fixed, disk, memState,
                         mode, reverseFailed, clean, faults, outside>>
       \/ /\ Fault("idle") /\ Abort
          /\ prepared' \in {Nothing, [Nothing EXCEPT ![cur] = Torn]}

\* _verify_all_originals, then the first write of journal.json, which is
\* outside the try: an error there leaves everything staged behind.
VerifyOriginals ==
    /\ pc = "verify"
    /\ IF \A i \in Items : target[i] = original[i]
       THEN \/ /\ Persist("prepared", AllOriginal, "apply", 1, "idle")
               /\ UNCHANGED <<mode, reverseFailed>>
            \/ Fault("idle") /\ Abort /\ UNCHANGED prepared
       ELSE Abort /\ UNCHANGED <<prepared, clean, faults>>

Capturing == {"capture", "stage", "verify"}

-----------------------------------------------------------------------------
\* _apply_one: two renames, each recorded.

AfterApply == IF cur = N THEN "cleanup"
              ELSE IF mode = "restore" THEN "apply" ELSE "c_check"
AfterApplyItem == IF cur = N THEN 1 ELSE cur + 1

ApplyVerify ==
    /\ pc = "apply"
    /\ IF target[cur] = original[cur] /\ displaced[cur] = Absent
       THEN Save(memState, "displace", cur)
       ELSE Raise

\* os.replace(target, displaced), skipped for an absent original.
Displace ==
    /\ pc = "displace"
    /\ FileStep(/\ target' = [target EXCEPT ![cur] = Absent]
                /\ displaced' = [displaced EXCEPT ![cur] = target[cur]]
                /\ UNCHANGED <<prepared, incoming>>,
                "displaced")

RecordDisplaced ==
    /\ pc = "displaced"
    /\ Save(Observe(memState, cur), "place", cur)

\* os.replace(prepared, target), skipped for an absent desired object.
Place ==
    /\ pc = "place"
    /\ IF desired[cur] # Absent /\ prepared[cur] = Absent
       THEN Raise
       ELSE FileStep(IF desired[cur] = Absent THEN UNCHANGED live
                     ELSE /\ target' = [target EXCEPT ![cur] = prepared[cur]]
                          /\ prepared' = [prepared EXCEPT ![cur] = Absent]
                          /\ UNCHANGED <<displaced, incoming>>,
                     "placed")

RecordPlaced ==
    /\ pc = "placed"
    /\ IF target[cur] = desired[cur]
       THEN Save([memState EXCEPT ![cur] = "desired"], AfterApply, AfterApplyItem)
       ELSE Raise

-----------------------------------------------------------------------------
\* _restore_original: shared by the automatic reversal (mode "reverse"),
\* --unwind ("unwind"), and the resume of an item in transition ("complete").

\* (mutant) the reversal leaves the first item as it is
AfterUnwindShort == CASE mode = "complete" -> "ensure"
                      [] mode = "reverse" -> IF cur <= 2 THEN "reversed" ELSE "r_check"
                      [] mode = "unwind" -> IF cur = 1 THEN "cleanup" ELSE "r_check"
                      [] mode = "restore" -> "idle"

AfterUnwind == CASE mode = "complete" -> "ensure"
                 [] mode = "reverse" -> IF cur = 1 THEN "reversed" ELSE "r_check"
                 [] mode = "unwind" -> IF cur = 1 THEN "cleanup" ELSE "r_check"
                 [] mode = "restore" -> "idle"
\* (mutants) below the first item; the same item again
AfterUnwindItemBelow == IF mode = "complete" THEN cur ELSE cur - 1
AfterUnwindItemSame == cur

AfterUnwindItem == IF mode = "complete" \/ cur = 1 THEN cur ELSE cur - 1

UnwindCheck ==
    /\ pc = "r_check"
    /\ \/ /\ Classify(cur, memState[cur]) = "original"
          /\ Save([memState EXCEPT ![cur] = "original"], AfterUnwind, AfterUnwindItem)
       \/ /\ Classify(cur, memState[cur]) \in {"desired", "transitional"}
          /\ Save(memState, "r_displace", cur)
       \/ Classify(cur, memState[cur]) = "unknown" /\ Raise

\* (mutant) deletes the desired object instead of renaming it
UnwindDisplaceByDelete ==
    /\ pc = "r_displace"
    /\ IF target[cur] \in {Absent, desired[cur]}
       THEN FileStep(/\ target' = [target EXCEPT ![cur] = Absent]
                     /\ UNCHANGED <<prepared, displaced, incoming>>,
                     "r_displaced")
       ELSE Raise

\* Moves the desired object back beside the target; an old staged copy in the
\* way is removed first when it is what it should be.
UnwindDisplace ==
    /\ pc = "r_displace"
    /\ IF target[cur] = Absent
       THEN FileStep(UNCHANGED live, "r_displaced")
       ELSE IF target[cur] # desired[cur] \/ prepared[cur] \notin {Absent, desired[cur]}
       THEN Raise
       ELSE IF prepared[cur] = desired[cur]
       THEN FileStep(/\ prepared' = [prepared EXCEPT ![cur] = Leftover(desired[cur])]
                     /\ UNCHANGED <<target, displaced, incoming>>,
                     AfterRemove(desired[cur], "r_clear_prepared", "r_displace"))
       ELSE FileStep(/\ target' = [target EXCEPT ![cur] = Absent]
                     /\ prepared' = [prepared EXCEPT ![cur] = target[cur]]
                     /\ UNCHANGED <<displaced, incoming>>,
                     "r_displaced")

UnwindClearPrepared ==
    /\ pc = "r_clear_prepared"
    /\ FileStep(/\ prepared' = [prepared EXCEPT ![cur] = Absent]
                /\ UNCHANGED <<target, displaced, incoming>>,
                "r_displace")

UnwindRecord ==
    /\ pc = "r_displaced"
    /\ Save(Observe(memState, cur), "r_place", cur)

\* Brings the original back: by rename when it is still beside the target, from
\* the private copy when it is gone.
UnwindPlace ==
    /\ pc = "r_place"
    /\ IF original[cur] = Absent
       THEN FileStep(UNCHANGED live, "r_verify")
       ELSE IF displaced[cur] = original[cur]
       THEN FileStep(/\ target' = [target EXCEPT ![cur] = displaced[cur]]
                     /\ displaced' = [displaced EXCEPT ![cur] = Absent]
                     /\ UNCHANGED <<prepared, incoming>>,
                     "r_verify")
       ELSE IF displaced[cur] # Absent \/ incoming[cur] \notin {Absent, original[cur]}
       THEN Raise
       ELSE IF incoming[cur] = original[cur]
       THEN FileStep(/\ incoming' = [incoming EXCEPT ![cur] = Leftover(original[cur])]
                     /\ UNCHANGED <<target, prepared, displaced>>,
                     AfterRemove(original[cur], "r_clear_incoming", "r_place"))
       ELSE FileStep(/\ incoming' = [incoming EXCEPT ![cur] = Torn]
                     /\ UNCHANGED <<target, prepared, displaced>>,
                     "r_copying")

UnwindClearIncoming ==
    /\ pc = "r_clear_incoming"
    /\ FileStep(/\ incoming' = [incoming EXCEPT ![cur] = Absent]
                /\ UNCHANGED <<target, prepared, displaced>>,
                "r_place")

\* The copy under way is Torn until it is complete.
UnwindCopy ==
    /\ pc = "r_copying"
    /\ FileStep(/\ incoming' = [incoming EXCEPT ![cur] = origArt[cur]]
                /\ UNCHANGED <<target, prepared, displaced>>,
                "r_incoming")

UnwindPlaceCopy ==
    /\ pc = "r_incoming"
    /\ IF incoming[cur] = original[cur]
       THEN FileStep(/\ target' = [target EXCEPT ![cur] = incoming[cur]]
                     /\ incoming' = [incoming EXCEPT ![cur] = Absent]
                     /\ UNCHANGED <<prepared, displaced>>,
                     "r_verify")
       ELSE Raise

UnwindVerify ==
    /\ pc = "r_verify"
    /\ IF target[cur] = original[cur]
       THEN Save([memState EXCEPT ![cur] = "original"], AfterUnwind, AfterUnwindItem)
       ELSE Raise

-----------------------------------------------------------------------------
\* resume_restore.

Resume(unwind) ==
    /\ pc = "idle" /\ diskStatus # "none"
    /\ mode' = IF unwind THEN "unwind" ELSE "complete"
    /\ memState' = ObserveAll(diskState)
    /\ reverseFailed' = FALSE
    /\ \/ /\ diskStatus' = StatusOf(mode')
          /\ diskState' = memState'
          /\ pc' = IF unwind THEN "r_check" ELSE "c_check"
          /\ cur' = IF unwind THEN N ELSE 1
          /\ clean' = TRUE
          /\ UNCHANGED faults
       \/ Fault("idle") /\ UNCHANGED <<disk, cur>>
    /\ UNCHANGED <<live, fixed, outside>>

\* _complete_one.
CompleteCheck ==
    /\ pc = "c_check"
    /\ \/ /\ Classify(cur, memState[cur]) = "desired"
          /\ Save([memState EXCEPT ![cur] = "desired"], AfterApply, AfterApplyItem)
       \/ /\ Classify(cur, memState[cur]) \in {"original", "transitional"}
          /\ pc' = IF Classify(cur, memState[cur]) = "original" THEN "ensure" ELSE "r_check"
          /\ UNCHANGED <<live, fixed, disk, memState, cur, mode, reverseFailed,
                         clean, faults, outside>>
       \/ Classify(cur, memState[cur]) = "unknown" /\ Raise

\* (mutant) the staged object is never made again
EnsurePreparedNever == pc = "ensure" /\ FileStep(UNCHANGED live, "apply")

\* _ensure_desired_prepared.
EnsurePrepared ==
    /\ pc = "ensure"
    /\ IF prepared[cur] = desired[cur] \/ desired[cur] = Absent
       THEN FileStep(UNCHANGED live, "apply")
       ELSE IF prepared[cur] # Absent
       THEN Raise
       ELSE FileStep(/\ prepared' = [prepared EXCEPT ![cur] = Torn]
                     /\ UNCHANGED <<target, displaced, incoming>>,
                     "ensure_copying")

EnsureCopy ==
    /\ pc = "ensure_copying"
    /\ FileStep(/\ prepared' = [prepared EXCEPT ![cur] = desArt[cur]]
                /\ UNCHANGED <<target, displaced, incoming>>,
                "ensure")

-----------------------------------------------------------------------------
\* How a run ends.

\* Lines 169-174: the first failed swap turns the run round.
BeginReverse ==
    /\ pc = "failed"
    /\ Persist("unwinding", ObserveAll(memState), "r_check", cur, "idle")
    /\ mode' = "reverse"
    /\ UNCHANGED reverseFailed

\* Lines 187-190: a reversal that fails is noted and the next one tried.
ReverseFailed ==
    /\ pc = "reverse_failed"
    /\ reverseFailed' = TRUE
    /\ Persist("unwinding", ObserveAll(memState),
               AfterUnwind, AfterUnwindItem, "idle")
    /\ UNCHANGED mode

\* Lines 191-193.
EndReverse ==
    /\ pc = "reversed"
    /\ Persist(IF reverseFailed THEN "needs_recovery" ELSE "rolled_back",
               ObserveAll(memState), "idle", cur, "idle")
    /\ UNCHANGED <<mode, reverseFailed>>

\* _cleanup_side_paths, one path at a time in the order of the code.  What it
\* refuses is a RestoreError: restore_items handles only OSError there, so its
\* own run ends without another journal write.
Refuse ==
    /\ pc' = IF mode = "restore" THEN "idle" ELSE "interrupted"
    /\ UNCHANGED <<live, fixed, disk, memState, cur, mode, reverseFailed,
                   clean, faults, outside>>

CleanStep(effect, next) ==
    /\ \/ effect /\ pc' = next /\ UNCHANGED <<clean, faults>>
       \/ Fault("interrupted") /\ UNCHANGED live
    /\ UNCHANGED <<fixed, disk, memState, cur, mode, reverseFailed, outside>>

Cleanup ==
    /\ pc = "cleanup"
    /\ IF prepared[cur] # Absent
       THEN IF prepared[cur] # desired[cur] THEN Refuse
            ELSE CleanStep(/\ prepared' = [prepared EXCEPT ![cur] = Leftover(desired[cur])]
                           /\ UNCHANGED <<target, displaced, incoming>>,
                           AfterRemove(desired[cur], "removing", "cleanup"))
       ELSE IF displaced[cur] # Absent
       THEN IF displaced[cur] # original[cur] THEN Refuse
            ELSE CleanStep(/\ displaced' = [displaced EXCEPT ![cur] = Leftover(original[cur])]
                           /\ UNCHANGED <<target, prepared, incoming>>,
                           AfterRemove(original[cur], "removing", "cleanup"))
       ELSE IF incoming[cur] # Absent
       THEN IF incoming[cur] # original[cur] THEN Refuse
            ELSE CleanStep(/\ incoming' = [incoming EXCEPT ![cur] = Leftover(original[cur])]
                           /\ UNCHANGED <<target, prepared, displaced>>,
                           AfterRemove(original[cur], "removing", "cleanup"))
       ELSE /\ IF cur < N THEN pc' = "cleanup" /\ cur' = cur + 1
                          ELSE pc' = "finish" /\ cur' = cur
            /\ UNCHANGED <<live, fixed, disk, memState, mode, reverseFailed,
                           clean, faults, outside>>

\* The rest of the removal: what is left of the one path half removed.
Removing ==
    /\ pc = "removing"
    /\ CleanStep(IF prepared[cur] = Torn
                 THEN /\ prepared' = [prepared EXCEPT ![cur] = Absent]
                      /\ UNCHANGED <<target, displaced, incoming>>
                 ELSE IF displaced[cur] = Torn
                 THEN /\ displaced' = [displaced EXCEPT ![cur] = Absent]
                      /\ UNCHANGED <<target, prepared, incoming>>
                 ELSE /\ incoming' = [incoming EXCEPT ![cur] = Absent]
                      /\ UNCHANGED <<target, prepared, displaced>>,
                 "cleanup")

Finish ==
    /\ pc = "finish"
    /\ Persist(IF mode = "unwind" THEN "unwound" ELSE "completed",
               ObserveAll(memState), "idle", cur, "idle")
    /\ UNCHANGED <<mode, reverseFailed>>

\* Lines 206-208 and 250-252.
Interrupted ==
    /\ pc = "interrupted"
    /\ Persist("needs_recovery", ObserveAll(memState), "idle", cur, "idle")
    /\ UNCHANGED <<mode, reverseFailed>>

-----------------------------------------------------------------------------
\* The environment.

\* The process dies between two calls.
Crash ==
    /\ pc # "idle"
    /\ crashes < MaxCrashes /\ faults + crashes + edits < MaxMishaps
    /\ crashes' = crashes + 1
    /\ pc' = "idle"
    /\ memState' = AllOriginal
    /\ UNCHANGED <<live, fixed, disk, cur, mode, reverseFailed, clean, faults,
                   edited, edits>>

\* Somebody else replaces, creates or deletes a target.  README.md:260
\* asks that other writers are idle while a restore runs; the code still looks
\* again at every target until the journal is durable, so the model lets the
\* others write until then.
Edit(i) ==
    /\ pc \in {"idle"} \cup Capturing
    /\ edits < MaxEdits /\ faults + crashes + edits < MaxMishaps
    /\ edits' = edits + 1
    /\ edited' = edited \cup {i}
    /\ \E object \in Whole \ {target[i]} : target' = [target EXCEPT ![i] = object]
    /\ UNCHANGED <<prepared, displaced, incoming, fixed, disk, memState, pc, cur,
                   mode, reverseFailed, clean, faults, crashes>>

Apply == ApplyVerify \/ Displace \/ RecordDisplaced \/ Place \/ RecordPlaced
Unwind == UnwindCheck \/ UnwindDisplace \/ UnwindClearPrepared
          \/ UnwindClearIncoming \/ UnwindRecord \/ UnwindPlace
          \/ UnwindCopy \/ UnwindPlaceCopy \/ UnwindVerify
Complete == CompleteCheck \/ EnsurePrepared \/ EnsureCopy
Ending == BeginReverse \/ ReverseFailed \/ EndReverse \/ Cleanup \/ Removing
          \/ Finish \/ Interrupted
Capture == CaptureArtifacts \/ StageDesired \/ VerifyOriginals

\* One step of the call that runs.
Step == Capture \/ Apply \/ Unwind \/ Complete \/ Ending

Next ==
    \/ Begin
    \/ \E unwind \in BOOLEAN : Resume(unwind)
    \/ Step
    \/ Crash
    \/ \E i \in Items : Edit(i)

Spec == Init /\ [][Next]_vars

\* The call is straight-line code: once started it keeps going.
FairSpec == Spec /\ WF_vars(Step)

-----------------------------------------------------------------------------
\* What the restore promises.

\* A crash or an error at any call leaves every item that nobody else touched
\* in a state _classify_target recognises, so that a resume or an unwind has
\* somewhere to start from: never "unknown".
Recoverable ==
    diskStatus # "none" =>
        \A i \in Items \ edited : Classify(i, diskState[i]) # "unknown"

\* The status written last tells the truth: a journal becomes completed,
\* unwound or rolled_back only in a state where every target holds what that
\* word says, and nothing is left beside the targets when it was cleaned up.
SideFree == \A i \in Items : <<prepared[i], displaced[i], incoming[i]>>
                                 = <<Absent, Absent, Absent>>
TruthfulStatus ==
    [][ diskStatus' # diskStatus =>
          /\ diskStatus' = "completed" => target = desired /\ SideFree
          /\ diskStatus' = "unwound" => target = original /\ SideFree
          /\ diskStatus' = "rolled_back" => target = original ]_vars

\* What a restore, a resume or an unwind takes away from a target is an object
\* the caller saw there (or forced), or one APU put there itself: neither an
\* edit between the caller's look and the capture nor one between an
\* interruption and its recovery is ever overwritten.
Seen(i) == IF i \in Forced THEN original[i] ELSE expected[i]
OnlySeenReplaced ==
    [][ \A i \in Items :
          edits' = edits /\ target'[i] # target[i]
          => target[i] \in {Seen(i), desired[i], Absent} ]_vars

\* Before the first target moves, the journal is durable and both objects of
\* every item have a private copy ("the pre-restore bytes of every target are
\* journaled before any swap begins", roadmap.md:308).
JournaledBeforeSwap ==
    [][ edits' = edits /\ target' # target =>
          diskStatus # "none" /\ origArt = original /\ desArt = desired ]_vars

\* A resume that meets no error, on items nobody touched, ends its journal --
\* unless a side path was left half made or half removed, or the two
\* descriptions of an item are equal and its original is still displaced.
HalfDone(i) == Torn \in {prepared[i], displaced[i], incoming[i]}
Ambiguous(i) == original[i] = desired[i] /\ displaced[i] # Absent
CleanResumeEnds ==
    pc = "interrupted" /\ clean /\ edited = {} =>
        \E i \in Items : HalfDone(i) \/ Ambiguous(i)

\* Every run comes to its end.
EveryRunEnds == (pc # "idle") ~> (pc = "idle")

=============================================================================

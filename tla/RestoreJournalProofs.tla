------------------------ MODULE RestoreJournalProofs ------------------------
(***************************************************************************)
(* What RestoreJournal promises, proved for every number of items, every   *)
(* set of contents and every bound on errors, deaths and edits.            *)
(*                                                                         *)
(* Recoverable alone is not inductive: whether a target that is away can   *)
(* be found again depends on where the running call stands, on what the    *)
(* side paths may hold, and on the private copies.  IInv says all of that. *)
(***************************************************************************)
EXTENDS RestoreJournal, TLAPS

Swapping == {"displace", "displaced", "place"}
Applying == Swapping \cup {"apply", "placed"}
Unwinding == {"r_check", "r_displace", "r_displaced", "r_place", "r_copying",
              "r_incoming", "r_clear_prepared", "r_clear_incoming", "r_verify"}
Away == {"r_displaced", "r_place", "r_copying", "r_incoming", "r_clear_incoming"}
Completing == {"c_check", "ensure", "ensure_copying"}
Closing == {"cleanup", "removing", "finish"}

\* Which phases each direction goes through, and when the journal is durable.
PhaseInv ==
    /\ pc \in Capturing => diskStatus = "none" /\ mode = "restore"
    /\ pc \notin Capturing \cup {"idle"} => diskStatus # "none"
    /\ pc \in Applying => mode \in {"restore", "complete"}
    /\ pc \in Completing => mode = "complete"
    /\ pc \in Unwinding => mode # "restore"
    /\ pc \in Closing => mode # "reverse"
    /\ pc = "failed" => mode = "restore"
    /\ pc \in {"reverse_failed", "reversed"} => mode = "reverse"

\* The private copies are complete once the capture is.
CopyInv ==
    /\ diskStatus # "none" \/ pc \in {"stage", "verify"} =>
           \A j \in Items : origArt[j] = original[j] /\ desArt[j] = desired[j]
    /\ pc = "capture" =>
           \A j \in Items : j < cur => origArt[j] = original[j] /\ desArt[j] = desired[j]
    /\ pc = "stage" => \A j \in Items : j < cur => prepared[j] = desired[j]
    /\ pc = "verify" => \A j \in Items : prepared[j] = desired[j]
    /\ pc \in Capturing => displaced = Nothing /\ incoming = Nothing

\* The original of an item not forced is what the caller saw.
SeenInv ==
    pc \in Capturing \/ diskStatus # "none" =>
        \A i \in Items : original[i] = Seen(i)

\* A side path holds the object it is named for, a part of it, or nothing.
SideInv ==
    diskStatus # "none" =>
        \A i \in Items : /\ prepared[i] \in {Absent, Torn, desired[i]}
                         /\ displaced[i] \in {Absent, Torn, original[i]}
                         /\ incoming[i] \in {Absent, Torn, original[i]}

\* An item nobody else touched is at one of its two ends, or away with one of
\* its two objects beside it.
Known(i) ==
    \/ target[i] = original[i]
    \/ target[i] = desired[i]
    \/ target[i] = Absent /\ (displaced[i] = original[i] \/ prepared[i] = desired[i])
KnownInv == diskStatus # "none" => \A i \in Items \ edited : Known(i)

\* The item being moved.
SwapInv ==
    /\ pc = "displace" => target[cur] = original[cur]
    /\ pc \in {"displaced", "place"} \cup Away => target[cur] = Absent
    /\ pc \in Swapping \cup {"apply"} => desired[cur] \in {Absent, prepared[cur]}
    /\ pc = "r_clear_prepared" => target[cur] = desired[cur]

\* The items already done, and those not begun.
ProgressInv ==
    /\ mode \in {"restore", "complete"} /\ pc \in Applying \cup Completing \cup Unwinding =>
           \A j \in Items : j < cur => target[j] = desired[j]
    /\ mode = "restore" /\ pc \in Applying =>
           \A j \in Items : j > cur => prepared[j] = desired[j] /\ target[j] = original[j]
    /\ pc = "failed" => \A j \in Items : j > cur => target[j] = original[j]
    /\ mode = "unwind" /\ pc \in Unwinding =>
           \A j \in Items : j > cur => target[j] = original[j]
    /\ mode = "reverse" /\ pc \in Unwinding /\ ~reverseFailed =>
           \A j \in Items : j > cur => target[j] = original[j]
    /\ pc = "reversed" /\ ~reverseFailed => \A j \in Items : target[j] = original[j]
    /\ mode # "unwind" /\ pc \in Closing => \A j \in Items : target[j] = desired[j]
    /\ mode = "unwind" /\ pc \in Closing => \A j \in Items : target[j] = original[j]

\* The side paths already cleaned.
Free(i) == prepared[i] = Absent /\ displaced[i] = Absent /\ incoming[i] = Absent
CleanInv ==
    /\ pc \in {"cleanup", "removing"} => \A j \in Items : j < cur => Free(j)
    /\ pc = "finish" => \A j \in Items : Free(j)

IInv == /\ TypeOK /\ PhaseInv /\ CopyInv /\ SeenInv /\ SideInv
        /\ KnownInv /\ SwapInv /\ ProgressInv /\ CleanInv

-----------------------------------------------------------------------------
(* The operators the steps are made of. *)

\* _classify_target against the three places an item can be.
LEMMA ClassifyMeans ==
    ASSUME NEW i \in Items, NEW recorded
    PROVE  /\ Classify(i, recorded) = "unknown" <=> ~Known(i)
           /\ Classify(i, recorded) = "original" => target[i] = original[i]
           /\ Classify(i, recorded) = "desired" => target[i] = desired[i]
           /\ Classify(i, recorded) = "transitional" => target[i] = Absent
  BY DEF Classify, Known

LEMMA ItemOrder ==
    ASSUME cur \in Items
    PROVE  /\ Items \subseteq Nat /\ N \in Items /\ 1 \in Items
           /\ \A j \in Items : j >= 1 /\ j <= N
           /\ cur < N => cur + 1 \in Items
  BY NAssumption DEF Items

LEMMA StatusNotNone == \A m \in Modes : StatusOf(m) # "none"
  BY DEF StatusOf, Modes

LEMMA ObjectTypes ==
    Absent \in Objects /\ Torn \in Objects /\ Absent \in Whole /\ Whole \subseteq Objects
  BY DEF Objects, Whole

LEMMA LeftoverTypes ==
    ASSUME NEW object
    PROVE  /\ Leftover(object) \in Objects
           /\ \A goOn, done : AfterRemove(object, goOn, done) \in {goOn, done}
  BY DEF Leftover, AfterRemove, Objects, Whole

-----------------------------------------------------------------------------
(* Type correctness, in four parts. *)

LiveTypes ==
    /\ target \in [Items -> Objects]
    /\ prepared \in [Items -> Objects]
    /\ displaced \in [Items -> Objects]
    /\ incoming \in [Items -> Objects]
ControlTypes == pc \in PCs /\ cur \in Items /\ mode \in Modes /\ faults \in Nat
JournalTypes ==
    /\ original \in [Items -> Objects]
    /\ desired \in [Items -> Whole]
    /\ expected \in [Items -> Whole]
    /\ origArt \in [Items -> Objects]
    /\ desArt \in [Items -> Whole]
    /\ diskStatus \in Statuses
    /\ diskState \in [Items -> States]
    /\ memState \in [Items -> States]
    /\ edited \subseteq Items
    /\ crashes \in Nat
    /\ edits \in Nat
FlagTypes == clean \in BOOLEAN /\ reverseFailed \in BOOLEAN

LEMMA TypeParts == TypeOK <=> LiveTypes /\ ControlTypes /\ JournalTypes /\ FlagTypes
  BY Zenon DEF TypeOK, LiveTypes, ControlTypes, JournalTypes, FlagTypes

\* Where the code goes next, and what it writes, is of the right type.
LEMMA NextControl ==
    ASSUME ControlTypes
    PROVE  /\ OnError \in PCs /\ StatusOf(mode) \in Statuses
           /\ AfterApply \in PCs /\ AfterApplyItem \in Items
           /\ AfterUnwind \in PCs /\ AfterUnwindItem \in Items
<1>1. OnError \in PCs /\ StatusOf(mode) \in Statuses
  BY DEF ControlTypes, OnError, StatusOf, Modes, Statuses, PCs
<1>2. AfterApply \in PCs /\ AfterUnwind \in PCs
  BY DEF ControlTypes, AfterApply, AfterUnwind, Modes, PCs
<1>3. AfterApplyItem \in Items /\ AfterUnwindItem \in Items
  BY NAssumption DEF ControlTypes, AfterApplyItem, AfterUnwindItem, Items
<1> QED BY <1>1, <1>2, <1>3

LEMMA ObserveTypes ==
    /\ \A i \in Items, r \in States : Classify(i, r) \in States
    /\ \A s \in [Items -> States] : ObserveAll(s) \in [Items -> States]
    /\ \A s \in [Items -> States], i \in Items : Observe(s, i) \in [Items -> States]
<1>1. \A i \in Items, r \in States : Classify(i, r) \in States
  BY DEF Classify, States
<1> QED BY <1>1 DEF ObserveAll, Observe

LEMMA FlagStep == ASSUME FlagTypes, [Next]_vars PROVE FlagTypes'
<1>1. ASSUME Begin PROVE FlagTypes'
  <2>1. clean' \in {clean, TRUE, FALSE} /\ reverseFailed' \in {reverseFailed, TRUE, FALSE}
    BY <1>1, Zenon DEF Begin
  <2> QED BY <2>1, Zenon DEF FlagTypes
<1>2. ASSUME CaptureArtifacts PROVE FlagTypes'
  <2>1. clean' \in {clean, TRUE, FALSE} /\ reverseFailed' \in {reverseFailed, TRUE, FALSE}
    BY <1>2, Zenon DEF CaptureArtifacts, Abort, Fault
  <2> QED BY <2>1, Zenon DEF FlagTypes
<1>3. ASSUME StageDesired PROVE FlagTypes'
  <2>1. clean' \in {clean, TRUE, FALSE} /\ reverseFailed' \in {reverseFailed, TRUE, FALSE}
    BY <1>3, Zenon DEF StageDesired, Fault, Abort
  <2> QED BY <2>1, Zenon DEF FlagTypes
<1>4. ASSUME VerifyOriginals PROVE FlagTypes'
  <2>1. clean' \in {clean, TRUE, FALSE} /\ reverseFailed' \in {reverseFailed, TRUE, FALSE}
    BY <1>4, Zenon DEF VerifyOriginals, Persist, Fault, Abort
  <2> QED BY <2>1, Zenon DEF FlagTypes
<1>5. ASSUME ApplyVerify PROVE FlagTypes'
  <2>1. clean' \in {clean, TRUE, FALSE} /\ reverseFailed' \in {reverseFailed, TRUE, FALSE}
    BY <1>5, Zenon DEF ApplyVerify, Save, Raise, Persist, Fault
  <2> QED BY <2>1, Zenon DEF FlagTypes
<1>6. ASSUME Displace PROVE FlagTypes'
  <2>1. clean' \in {clean, TRUE, FALSE} /\ reverseFailed' \in {reverseFailed, TRUE, FALSE}
    BY <1>6, Zenon DEF Displace, FileStep, Fault
  <2> QED BY <2>1, Zenon DEF FlagTypes
<1>7. ASSUME RecordDisplaced PROVE FlagTypes'
  <2>1. clean' \in {clean, TRUE, FALSE} /\ reverseFailed' \in {reverseFailed, TRUE, FALSE}
    BY <1>7, Zenon DEF RecordDisplaced, Save, Persist, Fault
  <2> QED BY <2>1, Zenon DEF FlagTypes
<1>8. ASSUME Place PROVE FlagTypes'
  <2>1. clean' \in {clean, TRUE, FALSE} /\ reverseFailed' \in {reverseFailed, TRUE, FALSE}
    BY <1>8, Zenon DEF Place, Raise, FileStep, Fault
  <2> QED BY <2>1, Zenon DEF FlagTypes
<1>9. ASSUME RecordPlaced PROVE FlagTypes'
  <2>1. clean' \in {clean, TRUE, FALSE} /\ reverseFailed' \in {reverseFailed, TRUE, FALSE}
    BY <1>9, Zenon DEF RecordPlaced, Save, Raise, Persist, Fault
  <2> QED BY <2>1, Zenon DEF FlagTypes
<1>10. ASSUME UnwindCheck PROVE FlagTypes'
  <2>1. clean' \in {clean, TRUE, FALSE} /\ reverseFailed' \in {reverseFailed, TRUE, FALSE}
    BY <1>10, Zenon DEF UnwindCheck, Save, Raise, Persist, Fault
  <2> QED BY <2>1, Zenon DEF FlagTypes
<1>11. ASSUME UnwindDisplace PROVE FlagTypes'
  <2>1. clean' \in {clean, TRUE, FALSE} /\ reverseFailed' \in {reverseFailed, TRUE, FALSE}
    BY <1>11, Zenon DEF UnwindDisplace, FileStep, Raise, Fault
  <2> QED BY <2>1, Zenon DEF FlagTypes
<1>12. ASSUME UnwindClearPrepared PROVE FlagTypes'
  <2>1. clean' \in {clean, TRUE, FALSE} /\ reverseFailed' \in {reverseFailed, TRUE, FALSE}
    BY <1>12, Zenon DEF UnwindClearPrepared, FileStep, Fault
  <2> QED BY <2>1, Zenon DEF FlagTypes
<1>13. ASSUME UnwindRecord PROVE FlagTypes'
  <2>1. clean' \in {clean, TRUE, FALSE} /\ reverseFailed' \in {reverseFailed, TRUE, FALSE}
    BY <1>13, Zenon DEF UnwindRecord, Save, Persist, Fault
  <2> QED BY <2>1, Zenon DEF FlagTypes
<1>14. ASSUME UnwindPlace PROVE FlagTypes'
  <2>1. clean' \in {clean, TRUE, FALSE} /\ reverseFailed' \in {reverseFailed, TRUE, FALSE}
    BY <1>14, Zenon DEF UnwindPlace, FileStep, Raise, Fault
  <2> QED BY <2>1, Zenon DEF FlagTypes
<1>15. ASSUME UnwindClearIncoming PROVE FlagTypes'
  <2>1. clean' \in {clean, TRUE, FALSE} /\ reverseFailed' \in {reverseFailed, TRUE, FALSE}
    BY <1>15, Zenon DEF UnwindClearIncoming, FileStep, Fault
  <2> QED BY <2>1, Zenon DEF FlagTypes
<1>16. ASSUME UnwindCopy PROVE FlagTypes'
  <2>1. clean' \in {clean, TRUE, FALSE} /\ reverseFailed' \in {reverseFailed, TRUE, FALSE}
    BY <1>16, Zenon DEF UnwindCopy, FileStep, Fault
  <2> QED BY <2>1, Zenon DEF FlagTypes
<1>17. ASSUME UnwindPlaceCopy PROVE FlagTypes'
  <2>1. clean' \in {clean, TRUE, FALSE} /\ reverseFailed' \in {reverseFailed, TRUE, FALSE}
    BY <1>17, Zenon DEF UnwindPlaceCopy, FileStep, Raise, Fault
  <2> QED BY <2>1, Zenon DEF FlagTypes
<1>18. ASSUME UnwindVerify PROVE FlagTypes'
  <2>1. clean' \in {clean, TRUE, FALSE} /\ reverseFailed' \in {reverseFailed, TRUE, FALSE}
    BY <1>18, Zenon DEF UnwindVerify, Save, Raise, Persist, Fault
  <2> QED BY <2>1, Zenon DEF FlagTypes
<1>19. ASSUME CompleteCheck PROVE FlagTypes'
  <2>1. clean' \in {clean, TRUE, FALSE} /\ reverseFailed' \in {reverseFailed, TRUE, FALSE}
    BY <1>19, Zenon DEF CompleteCheck, Save, Raise, Persist, Fault
  <2> QED BY <2>1, Zenon DEF FlagTypes
<1>20. ASSUME EnsurePrepared PROVE FlagTypes'
  <2>1. clean' \in {clean, TRUE, FALSE} /\ reverseFailed' \in {reverseFailed, TRUE, FALSE}
    BY <1>20, Zenon DEF EnsurePrepared, FileStep, Raise, Fault
  <2> QED BY <2>1, Zenon DEF FlagTypes
<1>21. ASSUME EnsureCopy PROVE FlagTypes'
  <2>1. clean' \in {clean, TRUE, FALSE} /\ reverseFailed' \in {reverseFailed, TRUE, FALSE}
    BY <1>21, Zenon DEF EnsureCopy, FileStep, Fault
  <2> QED BY <2>1, Zenon DEF FlagTypes
<1>22. ASSUME BeginReverse PROVE FlagTypes'
  <2>1. clean' \in {clean, TRUE, FALSE} /\ reverseFailed' \in {reverseFailed, TRUE, FALSE}
    BY <1>22, Zenon DEF BeginReverse, Persist, Fault
  <2> QED BY <2>1, Zenon DEF FlagTypes
<1>23. ASSUME ReverseFailed PROVE FlagTypes'
  <2>1. clean' \in {clean, TRUE, FALSE} /\ reverseFailed' \in {reverseFailed, TRUE, FALSE}
    BY <1>23, Zenon DEF ReverseFailed, Persist, Fault
  <2> QED BY <2>1, Zenon DEF FlagTypes
<1>24. ASSUME EndReverse PROVE FlagTypes'
  <2>1. clean' \in {clean, TRUE, FALSE} /\ reverseFailed' \in {reverseFailed, TRUE, FALSE}
    BY <1>24, Zenon DEF EndReverse, Persist, Fault
  <2> QED BY <2>1, Zenon DEF FlagTypes
<1>25. ASSUME Cleanup PROVE FlagTypes'
  <2>1. clean' \in {clean, TRUE, FALSE} /\ reverseFailed' \in {reverseFailed, TRUE, FALSE}
    BY <1>25, Zenon DEF Cleanup, Refuse, CleanStep, Fault
  <2> QED BY <2>1, Zenon DEF FlagTypes
<1>26. ASSUME Removing PROVE FlagTypes'
  <2>1. clean' \in {clean, TRUE, FALSE} /\ reverseFailed' \in {reverseFailed, TRUE, FALSE}
    BY <1>26, Zenon DEF Removing, CleanStep, Fault
  <2> QED BY <2>1, Zenon DEF FlagTypes
<1>27. ASSUME Finish PROVE FlagTypes'
  <2>1. clean' \in {clean, TRUE, FALSE} /\ reverseFailed' \in {reverseFailed, TRUE, FALSE}
    BY <1>27, Zenon DEF Finish, Persist, Fault
  <2> QED BY <2>1, Zenon DEF FlagTypes
<1>28. ASSUME Interrupted PROVE FlagTypes'
  <2>1. clean' \in {clean, TRUE, FALSE} /\ reverseFailed' \in {reverseFailed, TRUE, FALSE}
    BY <1>28, Zenon DEF Interrupted, Persist, Fault
  <2> QED BY <2>1, Zenon DEF FlagTypes
<1>29. ASSUME Crash PROVE FlagTypes'
  <2>1. clean' \in {clean, TRUE, FALSE} /\ reverseFailed' \in {reverseFailed, TRUE, FALSE}
    BY <1>29, Zenon DEF Crash
  <2> QED BY <2>1, Zenon DEF FlagTypes
<1>30. ASSUME NEW unwind \in BOOLEAN, Resume(unwind) PROVE FlagTypes'
  <2>1. clean' \in {clean, TRUE, FALSE} /\ reverseFailed' \in {reverseFailed, TRUE, FALSE}
    BY <1>30, Zenon DEF Resume, Fault
  <2> QED BY <2>1, Zenon DEF FlagTypes
<1>31. ASSUME NEW i \in Items, Edit(i) PROVE FlagTypes'
  <2>1. clean' \in {clean, TRUE, FALSE} /\ reverseFailed' \in {reverseFailed, TRUE, FALSE}
    BY <1>31, Zenon DEF Edit, Capturing
  <2> QED BY <2>1, Zenon DEF FlagTypes
<1>32. ASSUME UNCHANGED vars PROVE FlagTypes'
  <2>1. clean' \in {clean, TRUE, FALSE} /\ reverseFailed' \in {reverseFailed, TRUE, FALSE}
    BY <1>32, Zenon DEF vars
  <2> QED BY <2>1, Zenon DEF FlagTypes
<1> QED BY <1>1, <1>2, <1>3, <1>4, <1>5, <1>6, <1>7, <1>8, <1>9, <1>10, <1>11, <1>12, <1>13,
     <1>14, <1>15, <1>16, <1>17, <1>18, <1>19, <1>20, <1>21, <1>22, <1>23, <1>24, <1>25,
     <1>26, <1>27, <1>28, <1>29, <1>30, <1>31, <1>32 DEF Next, Step, Capture, Apply,
     Unwind, Complete, Ending

DataTypes == LiveTypes /\ ControlTypes /\ JournalTypes

LEMMA DataStep == ASSUME DataTypes, [Next]_vars PROVE DataTypes'
<1> USE DEF DataTypes
<1>1. ASSUME Begin PROVE DataTypes'
  <2>1. LiveTypes'
    BY <1>1, ObjectTypes DEF Begin, Nothing, LiveTypes, ControlTypes, JournalTypes
  <2>2. ControlTypes'
    BY <1>1, ItemOrder DEF Begin, ControlTypes, PCs, Modes
  <2>3. JournalTypes'
    BY <1>1, ObjectTypes DEF Begin, Nothing, AllOriginal, disk, LiveTypes, ControlTypes,
       JournalTypes, Statuses, States
  <2> QED BY <2>1, <2>2, <2>3
<1>2. ASSUME CaptureArtifacts PROVE DataTypes'
  <2>1. LiveTypes'
    BY <1>2 DEF CaptureArtifacts, Abort, Fault, Nothing, live, LiveTypes, ControlTypes,
       JournalTypes
  <2>2. ControlTypes'
    BY <1>2, ItemOrder DEF CaptureArtifacts, Abort, Fault, ControlTypes, PCs, Modes
  <2>3. JournalTypes'
    BY <1>2, ObjectTypes DEF CaptureArtifacts, Abort, Fault, Nothing, live, disk,
       outside, LiveTypes, ControlTypes, JournalTypes, Statuses, States
  <2> QED BY <2>1, <2>2, <2>3
<1>3. ASSUME StageDesired PROVE DataTypes'
  <2>1. LiveTypes'
    BY <1>3, ObjectTypes DEF StageDesired, Fault, Abort, Nothing, fixed, LiveTypes,
       ControlTypes, JournalTypes
  <2>2. ControlTypes'
    BY <1>3, ItemOrder DEF StageDesired, Fault, Abort, ControlTypes, PCs, Modes
  <2>3. JournalTypes'
    BY <1>3, ObjectTypes DEF StageDesired, Fault, Abort, Nothing, fixed, disk, outside,
       LiveTypes, ControlTypes, JournalTypes, Statuses, States
  <2> QED BY <2>1, <2>2, <2>3
<1>4. ASSUME VerifyOriginals PROVE DataTypes'
  <2>1. LiveTypes'
    BY <1>4 DEF VerifyOriginals, Persist, Fault, Abort, Nothing, live, fixed, LiveTypes,
       ControlTypes, JournalTypes
  <2>2. ControlTypes'
    BY <1>4, ItemOrder DEF VerifyOriginals, Persist, Fault, Abort, ControlTypes, PCs,
       Modes
  <2>3. JournalTypes'
    BY <1>4, ObjectTypes DEF VerifyOriginals, Persist, Fault, Abort, Nothing,
       AllOriginal, live, fixed, disk, outside, LiveTypes, ControlTypes, JournalTypes,
       Statuses, States
  <2> QED BY <2>1, <2>2, <2>3
<1>5. ASSUME ApplyVerify PROVE DataTypes'
  <2>1. LiveTypes'
    BY <1>5 DEF ApplyVerify, Save, Raise, Persist, Fault, live, fixed, LiveTypes,
       ControlTypes, JournalTypes
  <2>2. ControlTypes'
    BY <1>5, ItemOrder, NextControl DEF ApplyVerify, Save, Raise, Persist, Fault,
       ControlTypes, PCs, Modes
  <2>3. JournalTypes'
    BY <1>5, ObjectTypes, NextControl DEF ApplyVerify, Save, Raise, Persist, Fault,
       live, fixed, disk, outside, LiveTypes, ControlTypes, JournalTypes, Statuses,
       States
  <2> QED BY <2>1, <2>2, <2>3
<1>6. ASSUME Displace PROVE DataTypes'
  <2>1. LiveTypes'
    BY <1>6, ObjectTypes DEF Displace, FileStep, Fault, live, fixed, LiveTypes,
       ControlTypes, JournalTypes
  <2>2. ControlTypes'
    BY <1>6, ItemOrder, NextControl DEF Displace, FileStep, Fault, ControlTypes, PCs,
       Modes
  <2>3. JournalTypes'
    BY <1>6, ObjectTypes, NextControl DEF Displace, FileStep, Fault, live, fixed, disk,
       outside, LiveTypes, ControlTypes, JournalTypes, Statuses, States
  <2> QED BY <2>1, <2>2, <2>3
<1>7. ASSUME RecordDisplaced PROVE DataTypes'
  <2>1. LiveTypes'
    BY <1>7 DEF RecordDisplaced, Save, Persist, Fault, live, fixed, LiveTypes,
       ControlTypes, JournalTypes
  <2>2. ControlTypes'
    BY <1>7, ItemOrder, NextControl DEF RecordDisplaced, Save, Persist, Fault,
       ControlTypes, PCs, Modes
  <2>3. JournalTypes'
    BY <1>7, ObjectTypes, NextControl, ObserveTypes DEF RecordDisplaced, Save, Persist,
       Fault, live, fixed, disk, outside, LiveTypes, ControlTypes, JournalTypes,
       Statuses, States
  <2> QED BY <2>1, <2>2, <2>3
<1>8. ASSUME Place PROVE DataTypes'
  <2>1. LiveTypes'
    BY <1>8, ObjectTypes DEF Place, Raise, FileStep, Fault, live, fixed, LiveTypes,
       ControlTypes, JournalTypes
  <2>2. ControlTypes'
    BY <1>8, ItemOrder, NextControl DEF Place, Raise, FileStep, Fault, ControlTypes,
       PCs, Modes
  <2>3. JournalTypes'
    BY <1>8, ObjectTypes, NextControl DEF Place, Raise, FileStep, Fault, live, fixed,
       disk, outside, LiveTypes, ControlTypes, JournalTypes, Statuses, States
  <2> QED BY <2>1, <2>2, <2>3
<1>9. ASSUME RecordPlaced PROVE DataTypes'
  <2>1. LiveTypes'
    BY <1>9 DEF RecordPlaced, Save, Raise, Persist, Fault, live, fixed, LiveTypes,
       ControlTypes, JournalTypes
  <2>2. ControlTypes'
    BY <1>9, ItemOrder, NextControl DEF RecordPlaced, Save, Raise, Persist, Fault,
       ControlTypes, PCs, Modes
  <2>3. JournalTypes'
    BY <1>9, ObjectTypes, NextControl DEF RecordPlaced, Save, Raise, Persist, Fault,
       live, fixed, disk, outside, LiveTypes, ControlTypes, JournalTypes, Statuses,
       States
  <2> QED BY <2>1, <2>2, <2>3
<1>10. ASSUME UnwindCheck PROVE DataTypes'
  <2>1. LiveTypes'
    BY <1>10 DEF UnwindCheck, Save, Raise, Persist, Fault, live, fixed, LiveTypes,
       ControlTypes, JournalTypes
  <2>2. ControlTypes'
    BY <1>10, ItemOrder, NextControl DEF UnwindCheck, Save, Raise, Persist, Fault,
       ControlTypes, PCs, Modes
  <2>3. JournalTypes'
    BY <1>10, ObjectTypes, NextControl DEF UnwindCheck, Save, Raise, Persist, Fault,
       live, fixed, disk, outside, LiveTypes, ControlTypes, JournalTypes, Statuses,
       States
  <2> QED BY <2>1, <2>2, <2>3
<1>11. ASSUME UnwindDisplace PROVE DataTypes'
  <2>1. LiveTypes'
    BY <1>11, ObjectTypes, LeftoverTypes DEF UnwindDisplace, FileStep, Raise, Fault,
       live, fixed, LiveTypes, ControlTypes, JournalTypes
  <2>2. ControlTypes'
    BY <1>11, ItemOrder, NextControl DEF UnwindDisplace, FileStep, Raise, Fault,
       AfterRemove, ControlTypes, PCs, Modes
  <2>3. JournalTypes'
    BY <1>11, ObjectTypes, NextControl DEF UnwindDisplace, FileStep, Raise, Fault, live,
       fixed, disk, outside, LiveTypes, ControlTypes, JournalTypes, Statuses, States
  <2> QED BY <2>1, <2>2, <2>3
<1>12. ASSUME UnwindClearPrepared PROVE DataTypes'
  <2>1. LiveTypes'
    BY <1>12, ObjectTypes DEF UnwindClearPrepared, FileStep, Fault, live, fixed,
       LiveTypes, ControlTypes, JournalTypes
  <2>2. ControlTypes'
    BY <1>12, ItemOrder, NextControl DEF UnwindClearPrepared, FileStep, Fault,
       ControlTypes, PCs, Modes
  <2>3. JournalTypes'
    BY <1>12, ObjectTypes, NextControl DEF UnwindClearPrepared, FileStep, Fault, live,
       fixed, disk, outside, LiveTypes, ControlTypes, JournalTypes, Statuses, States
  <2> QED BY <2>1, <2>2, <2>3
<1>13. ASSUME UnwindRecord PROVE DataTypes'
  <2>1. LiveTypes'
    BY <1>13 DEF UnwindRecord, Save, Persist, Fault, live, fixed, LiveTypes,
       ControlTypes, JournalTypes
  <2>2. ControlTypes'
    BY <1>13, ItemOrder, NextControl DEF UnwindRecord, Save, Persist, Fault,
       ControlTypes, PCs, Modes
  <2>3. JournalTypes'
    BY <1>13, ObjectTypes, NextControl, ObserveTypes DEF UnwindRecord, Save, Persist,
       Fault, live, fixed, disk, outside, LiveTypes, ControlTypes, JournalTypes,
       Statuses, States
  <2> QED BY <2>1, <2>2, <2>3
<1>14. ASSUME UnwindPlace PROVE DataTypes'
  <2>1. LiveTypes'
    BY <1>14, ObjectTypes, LeftoverTypes DEF UnwindPlace, FileStep, Raise, Fault, live,
       fixed, LiveTypes, ControlTypes, JournalTypes
  <2>2. ControlTypes'
    BY <1>14, ItemOrder, NextControl DEF UnwindPlace, FileStep, Raise, Fault,
       AfterRemove, ControlTypes, PCs, Modes
  <2>3. JournalTypes'
    BY <1>14, ObjectTypes, NextControl DEF UnwindPlace, FileStep, Raise, Fault, live,
       fixed, disk, outside, LiveTypes, ControlTypes, JournalTypes, Statuses, States
  <2> QED BY <2>1, <2>2, <2>3
<1>15. ASSUME UnwindClearIncoming PROVE DataTypes'
  <2>1. LiveTypes'
    BY <1>15, ObjectTypes DEF UnwindClearIncoming, FileStep, Fault, live, fixed,
       LiveTypes, ControlTypes, JournalTypes
  <2>2. ControlTypes'
    BY <1>15, ItemOrder, NextControl DEF UnwindClearIncoming, FileStep, Fault,
       ControlTypes, PCs, Modes
  <2>3. JournalTypes'
    BY <1>15, ObjectTypes, NextControl DEF UnwindClearIncoming, FileStep, Fault, live,
       fixed, disk, outside, LiveTypes, ControlTypes, JournalTypes, Statuses, States
  <2> QED BY <2>1, <2>2, <2>3
<1>16. ASSUME UnwindCopy PROVE DataTypes'
  <2>1. LiveTypes'
    BY <1>16, ObjectTypes DEF UnwindCopy, FileStep, Fault, live, fixed, LiveTypes,
       ControlTypes, JournalTypes
  <2>2. ControlTypes'
    BY <1>16, ItemOrder, NextControl DEF UnwindCopy, FileStep, Fault, ControlTypes, PCs,
       Modes
  <2>3. JournalTypes'
    BY <1>16, ObjectTypes, NextControl DEF UnwindCopy, FileStep, Fault, live, fixed,
       disk, outside, LiveTypes, ControlTypes, JournalTypes, Statuses, States
  <2> QED BY <2>1, <2>2, <2>3
<1>17. ASSUME UnwindPlaceCopy PROVE DataTypes'
  <2>1. LiveTypes'
    BY <1>17, ObjectTypes DEF UnwindPlaceCopy, FileStep, Raise, Fault, live, fixed,
       LiveTypes, ControlTypes, JournalTypes
  <2>2. ControlTypes'
    BY <1>17, ItemOrder, NextControl DEF UnwindPlaceCopy, FileStep, Raise, Fault,
       ControlTypes, PCs, Modes
  <2>3. JournalTypes'
    BY <1>17, ObjectTypes, NextControl DEF UnwindPlaceCopy, FileStep, Raise, Fault,
       live, fixed, disk, outside, LiveTypes, ControlTypes, JournalTypes, Statuses,
       States
  <2> QED BY <2>1, <2>2, <2>3
<1>18. ASSUME UnwindVerify PROVE DataTypes'
  <2>1. LiveTypes'
    BY <1>18 DEF UnwindVerify, Save, Raise, Persist, Fault, live, fixed, LiveTypes,
       ControlTypes, JournalTypes
  <2>2. ControlTypes'
    BY <1>18, ItemOrder, NextControl DEF UnwindVerify, Save, Raise, Persist, Fault,
       ControlTypes, PCs, Modes
  <2>3. JournalTypes'
    BY <1>18, ObjectTypes, NextControl DEF UnwindVerify, Save, Raise, Persist, Fault,
       live, fixed, disk, outside, LiveTypes, ControlTypes, JournalTypes, Statuses,
       States
  <2> QED BY <2>1, <2>2, <2>3
<1>19. ASSUME CompleteCheck PROVE DataTypes'
  <2>1. LiveTypes'
    BY <1>19 DEF CompleteCheck, Save, Raise, Persist, Fault, live, fixed, LiveTypes,
       ControlTypes, JournalTypes
  <2>2. ControlTypes'
    BY <1>19, ItemOrder, NextControl DEF CompleteCheck, Save, Raise, Persist, Fault,
       ControlTypes, PCs, Modes
  <2>3. JournalTypes'
    BY <1>19, ObjectTypes, NextControl DEF CompleteCheck, Save, Raise, Persist, Fault,
       live, fixed, disk, outside, LiveTypes, ControlTypes, JournalTypes, Statuses,
       States
  <2> QED BY <2>1, <2>2, <2>3
<1>20. ASSUME EnsurePrepared PROVE DataTypes'
  <2>1. LiveTypes'
    BY <1>20, ObjectTypes DEF EnsurePrepared, FileStep, Raise, Fault, live, fixed,
       LiveTypes, ControlTypes, JournalTypes
  <2>2. ControlTypes'
    BY <1>20, ItemOrder, NextControl DEF EnsurePrepared, FileStep, Raise, Fault,
       ControlTypes, PCs, Modes
  <2>3. JournalTypes'
    BY <1>20, ObjectTypes, NextControl DEF EnsurePrepared, FileStep, Raise, Fault, live,
       fixed, disk, outside, LiveTypes, ControlTypes, JournalTypes, Statuses, States
  <2> QED BY <2>1, <2>2, <2>3
<1>21. ASSUME EnsureCopy PROVE DataTypes'
  <2>1. LiveTypes'
    BY <1>21, ObjectTypes DEF EnsureCopy, FileStep, Fault, live, fixed, LiveTypes,
       ControlTypes, JournalTypes
  <2>2. ControlTypes'
    BY <1>21, ItemOrder, NextControl DEF EnsureCopy, FileStep, Fault, ControlTypes, PCs,
       Modes
  <2>3. JournalTypes'
    BY <1>21, ObjectTypes, NextControl DEF EnsureCopy, FileStep, Fault, live, fixed,
       disk, outside, LiveTypes, ControlTypes, JournalTypes, Statuses, States
  <2> QED BY <2>1, <2>2, <2>3
<1>22. ASSUME BeginReverse PROVE DataTypes'
  <2>1. LiveTypes'
    BY <1>22 DEF BeginReverse, Persist, Fault, live, fixed, LiveTypes, ControlTypes,
       JournalTypes
  <2>2. ControlTypes'
    BY <1>22, ItemOrder DEF BeginReverse, Persist, Fault, ControlTypes, PCs, Modes
  <2>3. JournalTypes'
    BY <1>22, ObjectTypes, ObserveTypes DEF BeginReverse, Persist, Fault, live, fixed,
       disk, outside, LiveTypes, ControlTypes, JournalTypes, Statuses, States
  <2> QED BY <2>1, <2>2, <2>3
<1>23. ASSUME ReverseFailed PROVE DataTypes'
  <2>1. LiveTypes'
    BY <1>23 DEF ReverseFailed, Persist, Fault, live, fixed, LiveTypes, ControlTypes,
       JournalTypes
  <2>2. ControlTypes'
    BY <1>23, ItemOrder, NextControl DEF ReverseFailed, Persist, Fault, ControlTypes,
       PCs, Modes
  <2>3. JournalTypes'
    BY <1>23, ObjectTypes, NextControl, ObserveTypes DEF ReverseFailed, Persist, Fault,
       live, fixed, disk, outside, LiveTypes, ControlTypes, JournalTypes, Statuses,
       States
  <2> QED BY <2>1, <2>2, <2>3
<1>24. ASSUME EndReverse PROVE DataTypes'
  <2>1. LiveTypes'
    BY <1>24 DEF EndReverse, Persist, Fault, live, fixed, LiveTypes, ControlTypes,
       JournalTypes
  <2>2. ControlTypes'
    BY <1>24, ItemOrder DEF EndReverse, Persist, Fault, ControlTypes, PCs, Modes
  <2>3. JournalTypes'
    BY <1>24, ObjectTypes, ObserveTypes DEF EndReverse, Persist, Fault, live, fixed,
       disk, outside, LiveTypes, ControlTypes, JournalTypes, Statuses, States
  <2> QED BY <2>1, <2>2, <2>3
<1>25. ASSUME Cleanup PROVE DataTypes'
  <2>1. LiveTypes'
    BY <1>25, ObjectTypes, LeftoverTypes DEF Cleanup, Refuse, CleanStep, Fault, live,
       fixed, LiveTypes, ControlTypes, JournalTypes
  <2>2. ControlTypes'
    BY <1>25, ItemOrder DEF Cleanup, Refuse, CleanStep, Fault, AfterRemove,
       ControlTypes, PCs, Modes
  <2>3. JournalTypes'
    BY <1>25, ObjectTypes DEF Cleanup, Refuse, CleanStep, Fault, live, fixed, disk,
       outside, LiveTypes, ControlTypes, JournalTypes, Statuses, States
  <2> QED BY <2>1, <2>2, <2>3
<1>26. ASSUME Removing PROVE DataTypes'
  <2>1. LiveTypes'
    BY <1>26, ObjectTypes DEF Removing, CleanStep, Fault, live, fixed, LiveTypes,
       ControlTypes, JournalTypes
  <2>2. ControlTypes'
    BY <1>26, ItemOrder DEF Removing, CleanStep, Fault, ControlTypes, PCs, Modes
  <2>3. JournalTypes'
    BY <1>26, ObjectTypes DEF Removing, CleanStep, Fault, live, fixed, disk, outside,
       LiveTypes, ControlTypes, JournalTypes, Statuses, States
  <2> QED BY <2>1, <2>2, <2>3
<1>27. ASSUME Finish PROVE DataTypes'
  <2>1. LiveTypes'
    BY <1>27 DEF Finish, Persist, Fault, live, fixed, LiveTypes, ControlTypes,
       JournalTypes
  <2>2. ControlTypes'
    BY <1>27, ItemOrder DEF Finish, Persist, Fault, ControlTypes, PCs, Modes
  <2>3. JournalTypes'
    BY <1>27, ObjectTypes, ObserveTypes DEF Finish, Persist, Fault, live, fixed, disk,
       outside, LiveTypes, ControlTypes, JournalTypes, Statuses, States
  <2> QED BY <2>1, <2>2, <2>3
<1>28. ASSUME Interrupted PROVE DataTypes'
  <2>1. LiveTypes'
    BY <1>28 DEF Interrupted, Persist, Fault, live, fixed, LiveTypes, ControlTypes,
       JournalTypes
  <2>2. ControlTypes'
    BY <1>28, ItemOrder DEF Interrupted, Persist, Fault, ControlTypes, PCs, Modes
  <2>3. JournalTypes'
    BY <1>28, ObjectTypes, ObserveTypes DEF Interrupted, Persist, Fault, live, fixed,
       disk, outside, LiveTypes, ControlTypes, JournalTypes, Statuses, States
  <2> QED BY <2>1, <2>2, <2>3
<1>29. ASSUME Crash PROVE DataTypes'
  <2>1. LiveTypes'
    BY <1>29 DEF Crash, live, fixed, LiveTypes, ControlTypes, JournalTypes
  <2>2. ControlTypes'
    BY <1>29, ItemOrder DEF Crash, ControlTypes, PCs, Modes
  <2>3. JournalTypes'
    BY <1>29, ObjectTypes DEF Crash, AllOriginal, live, fixed, disk, LiveTypes,
       ControlTypes, JournalTypes, Statuses, States
  <2> QED BY <2>1, <2>2, <2>3
<1>30. ASSUME NEW unwind \in BOOLEAN, Resume(unwind) PROVE DataTypes'
  <2>1. LiveTypes'
    BY <1>30 DEF Resume, Fault, live, fixed, LiveTypes, ControlTypes, JournalTypes
  <2>2. ControlTypes'
    BY <1>30, ItemOrder, NextControl DEF Resume, Fault, ControlTypes, PCs, Modes,
       StatusOf
  <2>3. JournalTypes'
    BY <1>30, ObjectTypes, NextControl, ObserveTypes DEF Resume, Fault, live, fixed,
       disk, outside, LiveTypes, ControlTypes, JournalTypes, Statuses, States, StatusOf,
       Modes
  <2> QED BY <2>1, <2>2, <2>3
<1>31. ASSUME NEW i \in Items, Edit(i) PROVE DataTypes'
  <2>1. LiveTypes'
    BY <1>31, ObjectTypes DEF Edit, Capturing, fixed, LiveTypes, ControlTypes,
       JournalTypes
  <2>2. ControlTypes'
    BY <1>31, ItemOrder DEF Edit, Capturing, ControlTypes, PCs, Modes
  <2>3. JournalTypes'
    BY <1>31, ObjectTypes DEF Edit, Capturing, fixed, disk, LiveTypes, ControlTypes,
       JournalTypes, Statuses, States
  <2> QED BY <2>1, <2>2, <2>3
<1>32. ASSUME UNCHANGED vars PROVE DataTypes'
  <2>1. LiveTypes'
    BY <1>32 DEF vars, live, fixed, LiveTypes, ControlTypes, JournalTypes
  <2>2. ControlTypes'
    BY <1>32, ItemOrder DEF vars, ControlTypes, PCs, Modes
  <2>3. JournalTypes'
    BY <1>32, ObjectTypes DEF vars, live, fixed, disk, outside, LiveTypes, ControlTypes,
       JournalTypes, Statuses, States
  <2> QED BY <2>1, <2>2, <2>3
<1> QED BY <1>1, <1>2, <1>3, <1>4, <1>5, <1>6, <1>7, <1>8, <1>9, <1>10, <1>11, <1>12, <1>13,
     <1>14, <1>15, <1>16, <1>17, <1>18, <1>19, <1>20, <1>21, <1>22, <1>23, <1>24, <1>25,
     <1>26, <1>27, <1>28, <1>29, <1>30, <1>31, <1>32 DEF Next, Step, Capture, Apply,
     Unwind, Complete, Ending

LEMMA TypeStep == ASSUME TypeOK, [Next]_vars PROVE TypeOK'
<1>1. DataTypes /\ FlagTypes
  BY TypeParts, Zenon DEF DataTypes
<1>2. DataTypes' /\ FlagTypes'
  BY <1>1, DataStep, FlagStep
<1>3. TypeOK' <=> LiveTypes' /\ ControlTypes' /\ JournalTypes' /\ FlagTypes'
  BY Zenon DEF TypeOK, LiveTypes, ControlTypes, JournalTypes, FlagTypes
<1> QED BY <1>2, <1>3, Zenon DEF DataTypes

-----------------------------------------------------------------------------
(* The inductive invariant. *)

LEMMA InvInit == Init => IInv
<1> SUFFICES ASSUME Init PROVE IInv
  OBVIOUS
<1>1. TypeOK
  <2>1. LiveTypes /\ JournalTypes
    BY ObjectTypes DEF Init, LiveTypes, JournalTypes, Nothing, AllOriginal, Statuses, States
  <2>2. ControlTypes
    BY NAssumption DEF Init, ControlTypes, PCs, Modes, Items
  <2>3. FlagTypes
    BY Zenon DEF Init, FlagTypes
  <2> QED BY <2>1, <2>2, <2>3, TypeParts, Zenon
<1>2. PhaseInv /\ CopyInv /\ SeenInv /\ SideInv /\ KnownInv
  BY DEF Init, PhaseInv, CopyInv, SeenInv, SideInv, KnownInv, Capturing,
         Swapping, Applying, Unwinding, Completing, Closing
<1>3. SwapInv /\ ProgressInv /\ CleanInv
  BY DEF Init, SwapInv, ProgressInv, CleanInv, Swapping, Applying, Unwinding,
         Away, Completing, Closing
<1> QED BY <1>1, <1>2, <1>3 DEF IInv

\* Each step of each run keeps it.  A step changes the paths of one item only,
\* so all other items keep what the invariant says of them.
LEMMA InvStep == ASSUME IInv, [Next]_vars PROVE IInv'
<1>0. TypeOK'
  BY TypeStep DEF IInv
<1> USE ItemOrder, ObjectAssumption
        DEF IInv, TypeOK, PhaseInv, CopyInv, SeenInv, SideInv, KnownInv, SwapInv,
            ProgressInv, CleanInv, Known, Free, Seen, Capturing, Swapping, Applying,
            Unwinding, Away, Completing, Closing, Modes, Whole
<1>1. ASSUME Begin
      PROVE (PhaseInv /\ CopyInv /\ SeenInv /\ SideInv /\ KnownInv /\ SwapInv
             /\ ProgressInv /\ CleanInv)'
  BY <1>1 DEF Begin, Nothing, disk
<1>2. ASSUME CaptureArtifacts
      PROVE (PhaseInv /\ CopyInv /\ SeenInv /\ SideInv /\ KnownInv /\ SwapInv
             /\ ProgressInv /\ CleanInv)'
  BY <1>2 DEF CaptureArtifacts, Abort, Fault, Nothing, live, disk, outside
<1>3. ASSUME StageDesired
      PROVE (PhaseInv /\ CopyInv /\ SeenInv /\ SideInv /\ KnownInv /\ SwapInv
             /\ ProgressInv /\ CleanInv)'
  BY <1>3 DEF StageDesired, Fault, Abort, Nothing, fixed, disk, outside
<1>4. ASSUME VerifyOriginals
      PROVE (PhaseInv /\ CopyInv /\ SeenInv /\ SideInv /\ KnownInv /\ SwapInv
             /\ ProgressInv /\ CleanInv)'
  BY <1>4 DEF VerifyOriginals, Persist, Fault, Abort, Nothing, live, fixed, disk,
     outside
<1>5. ASSUME ApplyVerify
      PROVE (PhaseInv /\ CopyInv /\ SeenInv /\ SideInv /\ KnownInv /\ SwapInv
             /\ ProgressInv /\ CleanInv)'
  BY <1>5, StatusNotNone DEF ApplyVerify, Save, Raise, Persist, OnError, Fault, live,
     fixed, disk, outside
<1>6. ASSUME Displace
      PROVE (PhaseInv /\ CopyInv /\ SeenInv /\ SideInv /\ KnownInv /\ SwapInv
             /\ ProgressInv /\ CleanInv)'
  BY <1>6 DEF Displace, FileStep, Fault, OnError, live, fixed, disk, outside
<1>7. ASSUME RecordDisplaced
      PROVE (PhaseInv /\ CopyInv /\ SeenInv /\ SideInv /\ KnownInv /\ SwapInv
             /\ ProgressInv /\ CleanInv)'
  BY <1>7, StatusNotNone DEF RecordDisplaced, Save, Persist, OnError, Fault, live,
     fixed, disk, outside
<1>8. ASSUME Place
      PROVE (PhaseInv /\ CopyInv /\ SeenInv /\ SideInv /\ KnownInv /\ SwapInv
             /\ ProgressInv /\ CleanInv)'
  BY <1>8 DEF Place, Raise, FileStep, OnError, Fault, live, fixed, disk, outside
<1>9. ASSUME RecordPlaced
      PROVE (PhaseInv /\ CopyInv /\ SeenInv /\ SideInv /\ KnownInv /\ SwapInv
             /\ ProgressInv /\ CleanInv)'
  BY <1>9, StatusNotNone DEF RecordPlaced, Save, AfterApply, AfterApplyItem, Raise,
     Persist, OnError, Fault, live, fixed, disk, outside
<1>10. ASSUME UnwindCheck
      PROVE (PhaseInv /\ CopyInv /\ SeenInv /\ SideInv /\ KnownInv /\ SwapInv
             /\ ProgressInv /\ CleanInv)'
  BY <1>10, ClassifyMeans, StatusNotNone DEF UnwindCheck, Save, AfterUnwind,
     AfterUnwindItem, Raise, Persist, OnError, Fault, live, fixed, disk, outside
<1>11. ASSUME UnwindDisplace
      PROVE (PhaseInv /\ CopyInv /\ SeenInv /\ SideInv /\ KnownInv /\ SwapInv
             /\ ProgressInv /\ CleanInv)'
  BY <1>11 DEF UnwindDisplace, FileStep, Raise, Leftover, AfterRemove, Fault, OnError,
     live, fixed, disk, outside
<1>12. ASSUME UnwindClearPrepared
      PROVE (PhaseInv /\ CopyInv /\ SeenInv /\ SideInv /\ KnownInv /\ SwapInv
             /\ ProgressInv /\ CleanInv)'
  BY <1>12 DEF UnwindClearPrepared, FileStep, Fault, OnError, live, fixed, disk, outside
<1>13. ASSUME UnwindRecord
      PROVE (PhaseInv /\ CopyInv /\ SeenInv /\ SideInv /\ KnownInv /\ SwapInv
             /\ ProgressInv /\ CleanInv)'
  BY <1>13, StatusNotNone DEF UnwindRecord, Save, Persist, OnError, Fault, live, fixed,
     disk, outside
<1>14. ASSUME UnwindPlace
      PROVE (PhaseInv /\ CopyInv /\ SeenInv /\ SideInv /\ KnownInv /\ SwapInv
             /\ ProgressInv /\ CleanInv)'
  BY <1>14 DEF UnwindPlace, FileStep, Raise, Leftover, AfterRemove, Fault, OnError,
     live, fixed, disk, outside
<1>15. ASSUME UnwindClearIncoming
      PROVE (PhaseInv /\ CopyInv /\ SeenInv /\ SideInv /\ KnownInv /\ SwapInv
             /\ ProgressInv /\ CleanInv)'
  BY <1>15 DEF UnwindClearIncoming, FileStep, Fault, OnError, live, fixed, disk, outside
<1>16. ASSUME UnwindCopy
      PROVE (PhaseInv /\ CopyInv /\ SeenInv /\ SideInv /\ KnownInv /\ SwapInv
             /\ ProgressInv /\ CleanInv)'
  BY <1>16 DEF UnwindCopy, FileStep, Fault, OnError, live, fixed, disk, outside
<1>17. ASSUME UnwindPlaceCopy
      PROVE (PhaseInv /\ CopyInv /\ SeenInv /\ SideInv /\ KnownInv /\ SwapInv
             /\ ProgressInv /\ CleanInv)'
  BY <1>17 DEF UnwindPlaceCopy, FileStep, Raise, Fault, OnError, live, fixed, disk,
     outside
<1>18. ASSUME UnwindVerify
      PROVE (PhaseInv /\ CopyInv /\ SeenInv /\ SideInv /\ KnownInv /\ SwapInv
             /\ ProgressInv /\ CleanInv)'
  BY <1>18, StatusNotNone DEF UnwindVerify, Save, AfterUnwind, AfterUnwindItem, Raise,
     Persist, OnError, Fault, live, fixed, disk, outside
<1>19. ASSUME CompleteCheck
      PROVE (PhaseInv /\ CopyInv /\ SeenInv /\ SideInv /\ KnownInv /\ SwapInv
             /\ ProgressInv /\ CleanInv)'
  BY <1>19, ClassifyMeans, StatusNotNone DEF CompleteCheck, Save, AfterApply,
     AfterApplyItem, Raise, Persist, OnError, Fault, live, fixed, disk, outside
<1>20. ASSUME EnsurePrepared
      PROVE (PhaseInv /\ CopyInv /\ SeenInv /\ SideInv /\ KnownInv /\ SwapInv
             /\ ProgressInv /\ CleanInv)'
  BY <1>20 DEF EnsurePrepared, FileStep, Raise, Fault, OnError, live, fixed, disk,
     outside
<1>21. ASSUME EnsureCopy
      PROVE (PhaseInv /\ CopyInv /\ SeenInv /\ SideInv /\ KnownInv /\ SwapInv
             /\ ProgressInv /\ CleanInv)'
  BY <1>21 DEF EnsureCopy, FileStep, Fault, OnError, live, fixed, disk, outside
<1>22. ASSUME BeginReverse
      PROVE (PhaseInv /\ CopyInv /\ SeenInv /\ SideInv /\ KnownInv /\ SwapInv
             /\ ProgressInv /\ CleanInv)'
  BY <1>22 DEF BeginReverse, Persist, Fault, live, fixed, disk, outside
<1>23. ASSUME ReverseFailed
      PROVE (PhaseInv /\ CopyInv /\ SeenInv /\ SideInv /\ KnownInv /\ SwapInv
             /\ ProgressInv /\ CleanInv)'
  BY <1>23 DEF ReverseFailed, Persist, AfterUnwind, AfterUnwindItem, Fault, live, fixed,
     disk, outside
<1>24. ASSUME EndReverse
      PROVE (PhaseInv /\ CopyInv /\ SeenInv /\ SideInv /\ KnownInv /\ SwapInv
             /\ ProgressInv /\ CleanInv)'
  BY <1>24 DEF EndReverse, Persist, Fault, live, fixed, disk, outside
<1>25. ASSUME Cleanup
      PROVE (PhaseInv /\ CopyInv /\ SeenInv /\ SideInv /\ KnownInv /\ SwapInv
             /\ ProgressInv /\ CleanInv)'
  BY <1>25 DEF Cleanup, Refuse, CleanStep, Leftover, AfterRemove, Fault, live, fixed,
     disk, outside
<1>26. ASSUME Removing
      PROVE (PhaseInv /\ CopyInv /\ SeenInv /\ SideInv /\ KnownInv /\ SwapInv
             /\ ProgressInv /\ CleanInv)'
  BY <1>26 DEF Removing, CleanStep, Fault, live, fixed, disk, outside
<1>27. ASSUME Finish
      PROVE (PhaseInv /\ CopyInv /\ SeenInv /\ SideInv /\ KnownInv /\ SwapInv
             /\ ProgressInv /\ CleanInv)'
  BY <1>27 DEF Finish, Persist, Fault, live, fixed, disk, outside
<1>28. ASSUME Interrupted
      PROVE (PhaseInv /\ CopyInv /\ SeenInv /\ SideInv /\ KnownInv /\ SwapInv
             /\ ProgressInv /\ CleanInv)'
  BY <1>28 DEF Interrupted, Persist, Fault, live, fixed, disk, outside
<1>29. ASSUME Crash
      PROVE (PhaseInv /\ CopyInv /\ SeenInv /\ SideInv /\ KnownInv /\ SwapInv
             /\ ProgressInv /\ CleanInv)'
  BY <1>29 DEF Crash, live, fixed, disk
<1>30. ASSUME NEW unwind \in BOOLEAN, Resume(unwind)
      PROVE (PhaseInv /\ CopyInv /\ SeenInv /\ SideInv /\ KnownInv /\ SwapInv
             /\ ProgressInv /\ CleanInv)'
  BY <1>30, StatusNotNone DEF Resume, Fault, live, fixed, disk, outside
<1>31. ASSUME NEW i \in Items, Edit(i)
      PROVE (PhaseInv /\ CopyInv /\ SeenInv /\ SideInv /\ KnownInv /\ SwapInv
             /\ ProgressInv /\ CleanInv)'
  BY <1>31 DEF Edit, fixed, disk
<1>32. ASSUME UNCHANGED vars
      PROVE (PhaseInv /\ CopyInv /\ SeenInv /\ SideInv /\ KnownInv /\ SwapInv
             /\ ProgressInv /\ CleanInv)'
  BY <1>32 DEF vars, live, fixed, disk, outside
<1> QED BY <1>0, <1>1, <1>2, <1>3, <1>4, <1>5, <1>6, <1>7, <1>8, <1>9, <1>10, <1>11, <1>12, <1>13,
     <1>14, <1>15, <1>16, <1>17, <1>18, <1>19, <1>20, <1>21, <1>22, <1>23, <1>24, <1>25,
     <1>26, <1>27, <1>28, <1>29, <1>30, <1>31, <1>32 DEF Next, Step, Capture, Apply,
     Unwind, Complete, Ending

THEOREM Invariance == Spec => []IInv
<1>1. Init => IInv
  BY InvInit
<1>2. IInv /\ [Next]_vars => IInv'
  BY InvStep
<1> QED BY <1>1, <1>2, PTL DEF Spec

\* The variables hold what their names say.
THEOREM TypeCorrect == Spec => []TypeOK
<1>1. IInv => TypeOK
  BY DEF IInv
<1> QED BY <1>1, Invariance, PTL

\* Whatever dies or fails, an item nobody else touched is one that
\* _classify_target recognises (restore_journal.py:674).
THEOREM AlwaysRecoverable == Spec => []Recoverable
<1>1. IInv => Recoverable
  BY ClassifyMeans DEF IInv, KnownInv, Recoverable
<1> QED BY <1>1, Invariance, PTL

-----------------------------------------------------------------------------
(* What a step may do, given the invariant. *)

LEMMA SameObjects ==
    ASSUME NEW f \in [Items -> Objects], NEW g \in [Items -> Objects],
           \A i \in Items : f[i] = g[i]
    PROVE  f = g
  OBVIOUS

\* A run under way writes only words that claim nothing.
Modest == Statuses \ Terminal
LEMMA ModestStatus == \A m \in Modes : StatusOf(m) \in Modest
  BY DEF StatusOf, Modes, Modest, Statuses, Terminal

\* Only the last write of a run claims an end.
LEMMA OnlyEndsClaim ==
    ASSUME IInv, [Next]_vars, ~EndReverse, ~Finish
    PROVE  diskStatus' = diskStatus \/ diskStatus' \in Modest
<1> USE ModestStatus DEF IInv, TypeOK
<1>1. CASE Capture
  BY <1>1 DEF Capture, CaptureArtifacts, StageDesired, VerifyOriginals, Persist,
              Fault, Abort, disk, Modest, Statuses, Terminal
<1>2. CASE Apply
  BY <1>2 DEF Apply, ApplyVerify, Displace, RecordDisplaced, Place, RecordPlaced,
              Save, Persist, FileStep, Fault, Raise, disk
<1>3. CASE Unwind
  BY <1>3 DEF Unwind, UnwindCheck, UnwindDisplace, UnwindClearPrepared,
              UnwindClearIncoming, UnwindRecord, UnwindPlace, UnwindCopy,
              UnwindPlaceCopy, UnwindVerify, Save, Persist, FileStep, Fault, Raise, disk
<1>4. CASE Complete
  BY <1>4 DEF Complete, CompleteCheck, EnsurePrepared, EnsureCopy, Save, Persist,
              FileStep, Fault, Raise, disk
<1>5. CASE Ending
  BY <1>5 DEF Ending, BeginReverse, ReverseFailed, Cleanup, Removing, Interrupted,
              Persist, CleanStep, Refuse, Fault, disk, Modest, Statuses, Terminal
<1>6. CASE Begin \/ Crash \/ (\E i \in Items : Edit(i)) \/ UNCHANGED vars
  BY <1>6 DEF Begin, Crash, Edit, vars, disk
<1>7. ASSUME NEW unwind \in BOOLEAN, Resume(unwind)
      PROVE  diskStatus' = diskStatus \/ diskStatus' \in Modest
  BY <1>7 DEF Resume, Fault, disk, StatusOf, Modest, Statuses, Terminal
<1> QED BY <1>1, <1>2, <1>3, <1>4, <1>5, <1>6, <1>7 DEF Next, Step, Ending

LEMMA TruthStep ==
    ASSUME IInv, [Next]_vars, diskStatus' # diskStatus
    PROVE  /\ diskStatus' = "completed" => target = desired /\ SideFree
           /\ diskStatus' = "unwound" => target = original /\ SideFree
           /\ diskStatus' = "rolled_back" => target = original
<1>1. CASE EndReverse
  <2>1. diskStatus' \in {"needs_recovery", "rolled_back"}
    BY <1>1 DEF EndReverse, Persist, Fault, disk
  <2>2. ASSUME diskStatus' = "rolled_back" PROVE target = original
    <3>1. ~reverseFailed
      BY <1>1, <2>2 DEF EndReverse, Persist, Fault, disk
    <3>2. \A i \in Items : target[i] = original[i]
      BY <1>1, <3>1 DEF EndReverse, IInv, ProgressInv
    <3> QED BY <3>2, SameObjects DEF IInv, TypeOK
  <2> QED BY <2>1, <2>2
<1>2. CASE Finish
  <2>1. diskStatus' = IF mode = "unwind" THEN "unwound" ELSE "completed"
    BY <1>2 DEF Finish, Persist, Fault, disk
  <2>2. SideFree
    BY <1>2 DEF Finish, IInv, CleanInv, Free, SideFree
  <2>3. mode # "unwind" => \A i \in Items : target[i] = desired[i]
    BY <1>2 DEF Finish, IInv, ProgressInv, Closing
  <2>4. mode = "unwind" => \A i \in Items : target[i] = original[i]
    BY <1>2 DEF Finish, IInv, ProgressInv, Closing
  <2>5. target \in [Items -> Objects] /\ original \in [Items -> Objects]
        /\ desired \in [Items -> Objects]
    BY ObjectTypes DEF IInv, TypeOK
  <2>6. (mode # "unwind" => target = desired) /\ (mode = "unwind" => target = original)
    BY <2>3, <2>4, <2>5, SameObjects
  <2> QED BY <2>1, <2>2, <2>6
<1>3. CASE ~EndReverse /\ ~Finish
  BY <1>3, OnlyEndsClaim DEF Modest, Terminal
<1> QED BY <1>1, <1>2, <1>3

\* completed, unwound and rolled_back are never written falsely
\* (restore_journal.py:191-193, 212-214, 255-258).
THEOREM StatusTruth == Spec => TruthfulStatus
<1>1. IInv /\ [Next]_vars =>
        [ diskStatus' # diskStatus =>
          /\ diskStatus' = "completed" => target = desired /\ SideFree
          /\ diskStatus' = "unwound" => target = original /\ SideFree
          /\ diskStatus' = "rolled_back" => target = original ]_vars
  BY TruthStep
<1> QED BY <1>1, Invariance, PTL DEF Spec, TruthfulStatus

\* A step of the code moves the target of the current item only, once the
\* journal is durable, and away from one of the two ends or from nothing.
LEMMA SwapStep ==
    ASSUME IInv, [Next]_vars, edits' = edits
    PROVE  \/ target' = target
           \/ /\ diskStatus # "none"
              /\ \A i \in Items : target'[i] # target[i] =>
                     target[i] \in {original[i], desired[i], Absent}
<1> USE DEF IInv, TypeOK, PhaseInv, SwapInv, Capturing, Away
<1>1. CASE Capture
  BY <1>1 DEF Capture, CaptureArtifacts, StageDesired, VerifyOriginals, Persist,
              Fault, Abort, live
<1>2. CASE Apply
  <2>1. CASE Displace \/ Place
    BY <2>1 DEF Displace, Place, FileStep, Fault, Raise, live
  <2>2. CASE ApplyVerify \/ RecordDisplaced \/ RecordPlaced
    BY <2>2 DEF ApplyVerify, RecordDisplaced, RecordPlaced, Save, Persist, Fault,
                Raise, live
  <2> QED BY <1>2, <2>1, <2>2 DEF Apply
<1>3. CASE Unwind
  <2>1. CASE UnwindDisplace
    BY <2>1 DEF UnwindDisplace, FileStep, Fault, Raise, live
  <2>2. CASE UnwindPlace \/ UnwindPlaceCopy
    BY <2>2 DEF UnwindPlace, UnwindPlaceCopy, FileStep, Fault, Raise, live
  <2>3. CASE UnwindCheck \/ UnwindRecord \/ UnwindVerify
    BY <2>3 DEF UnwindCheck, UnwindRecord, UnwindVerify, Save, Persist, Fault, Raise, live
  <2>4. CASE UnwindClearPrepared \/ UnwindClearIncoming \/ UnwindCopy
    BY <2>4 DEF UnwindClearPrepared, UnwindClearIncoming, UnwindCopy, FileStep,
                Fault, live
  <2> QED BY <1>3, <2>1, <2>2, <2>3, <2>4 DEF Unwind
<1>4. CASE Complete
  BY <1>4 DEF Complete, CompleteCheck, EnsurePrepared, EnsureCopy, Save, Persist,
              FileStep, Fault, Raise, live
<1>5. CASE Ending
  BY <1>5 DEF Ending, BeginReverse, ReverseFailed, EndReverse, Cleanup, Removing,
              Finish, Interrupted, Persist, CleanStep, Refuse, Fault, live
<1>6. CASE Begin \/ Crash \/ UNCHANGED vars
  BY <1>6 DEF Begin, Crash, vars, live
<1>7. CASE \E i \in Items : Edit(i)
  BY <1>7 DEF Edit
<1>8. CASE \E unwind \in BOOLEAN : Resume(unwind)
  BY <1>8 DEF Resume, live
<1> QED BY <1>1, <1>2, <1>3, <1>4, <1>5, <1>6, <1>7, <1>8 DEF Next, Step

\* No edit made between the caller's look and the capture, nor one made while
\* a journal waits for its recovery, is overwritten (restore_journal.py:375,
\* 522, 598).
THEOREM EditsSurvive == Spec => OnlySeenReplaced
<1>1. ASSUME IInv, [Next]_vars, NEW i \in Items, edits' = edits, target'[i] # target[i]
      PROVE  target[i] \in {Seen(i), desired[i], Absent}
  <2>1. diskStatus # "none" /\ target[i] \in {original[i], desired[i], Absent}
    BY <1>1, SwapStep
  <2> QED BY <1>1, <2>1 DEF IInv, SeenInv
<1>2. IInv /\ [Next]_vars =>
        [ \A i \in Items : edits' = edits /\ target'[i] # target[i]
              => target[i] \in {Seen(i), desired[i], Absent} ]_vars
  BY <1>1
<1> QED BY <1>2, Invariance, PTL DEF Spec, OnlySeenReplaced

\* No target moves before the journal and every private copy are durable
\* (restore_journal.py:152-161).
THEOREM JournalFirst == Spec => JournaledBeforeSwap
<1>1. ASSUME IInv, [Next]_vars, edits' = edits, target' # target
      PROVE  diskStatus # "none" /\ origArt = original /\ desArt = desired
  <2>1. diskStatus # "none"
    BY <1>1, SwapStep
  <2>2. \A i \in Items : origArt[i] = original[i] /\ desArt[i] = desired[i]
    BY <1>1, <2>1 DEF IInv, CopyInv
  <2>3. /\ origArt \in [Items -> Objects] /\ original \in [Items -> Objects]
        /\ desArt \in [Items -> Objects] /\ desired \in [Items -> Objects]
    BY <1>1, ObjectTypes DEF IInv, TypeOK
  <2> QED BY <2>1, <2>2, <2>3, SameObjects
<1>2. IInv /\ [Next]_vars =>
        [ edits' = edits /\ target' # target =>
          diskStatus # "none" /\ origArt = original /\ desArt = desired ]_vars
  BY <1>1
<1> QED BY <1>2, Invariance, PTL DEF Spec, JournaledBeforeSwap

-----------------------------------------------------------------------------
(* The second invariant: what a resume that raises has met. *)

\* The original is at the target or displaced, never both, unless the two
\* descriptions are equal.
OneOriginal ==
    diskStatus # "none" =>
        \A i \in Items \ edited :
            target[i] = original[i] /\ original[i] # desired[i] =>
                displaced[i] \in {Absent, Torn}

\* What a line that would raise finds at its item.
StandInv ==
    /\ pc = "placed" => target[cur] = desired[cur]
    /\ pc = "r_displace" => target[cur] \in {Absent, desired[cur]}
    /\ pc \in {"r_clear_incoming", "r_copying", "r_incoming"} => displaced[cur] = Absent
    /\ pc = "r_incoming" => incoming[cur] = original[cur]
    /\ pc = "r_verify" => target[cur] = original[cur]
    /\ mode = "complete" /\ pc \in {"ensure", "ensure_copying", "apply"} =>
           target[cur] = original[cur]

EndInv == OneOriginal /\ StandInv /\ CleanResumeEnds

LEMMA EndInit == Init => EndInv
  BY DEF Init, EndInv, OneOriginal, StandInv, CleanResumeEnds

\* An original is displaced only when it leaves the target, and comes back only
\* when it is displaced no more.
LEMMA OneOriginalStep ==
    ASSUME IInv, OneOriginal, StandInv, [Next]_vars
    PROVE  OneOriginal'
<1> USE ItemOrder, ObjectAssumption
        DEF IInv, TypeOK, PhaseInv, SideInv, SwapInv, ProgressInv,
            Capturing, Swapping, Applying, Unwinding, Away, Completing, Closing,
            Modes, Whole, OneOriginal
<1>1. ASSUME Begin PROVE OneOriginal'
  BY <1>1 DEF Begin, Nothing, disk
<1>2. ASSUME CaptureArtifacts PROVE OneOriginal'
  BY <1>2 DEF CaptureArtifacts, Abort, Fault, Nothing, live, disk, outside
<1>3. ASSUME StageDesired PROVE OneOriginal'
  BY <1>3 DEF StageDesired, Fault, Abort, Nothing, fixed, disk, outside
<1>4. ASSUME VerifyOriginals PROVE OneOriginal'
  BY <1>4 DEF VerifyOriginals, Persist, Fault, Abort, Nothing, live, fixed, disk,
     outside, CopyInv
<1>5. ASSUME ApplyVerify PROVE OneOriginal'
  BY <1>5, StatusNotNone DEF ApplyVerify, Save, Raise, Persist, OnError, Fault, live,
     fixed, disk, outside
<1>6. ASSUME Displace PROVE OneOriginal'
  BY <1>6 DEF Displace, FileStep, Fault, OnError, live, fixed, disk, outside
<1>7. ASSUME RecordDisplaced PROVE OneOriginal'
  BY <1>7, StatusNotNone DEF RecordDisplaced, Save, Persist, OnError, Fault, live,
     fixed, disk, outside
<1>8. ASSUME Place PROVE OneOriginal'
  BY <1>8 DEF Place, Raise, FileStep, OnError, Fault, live, fixed, disk, outside
<1>9. ASSUME RecordPlaced PROVE OneOriginal'
  BY <1>9, StatusNotNone DEF RecordPlaced, Save, AfterApply, AfterApplyItem, Raise,
     Persist, OnError, Fault, live, fixed, disk, outside
<1>10. ASSUME UnwindCheck PROVE OneOriginal'
  BY <1>10, ClassifyMeans, StatusNotNone DEF UnwindCheck, Save, AfterUnwind,
     AfterUnwindItem, Raise, Persist, OnError, Fault, live, fixed, disk, outside
<1>11. ASSUME UnwindDisplace PROVE OneOriginal'
  BY <1>11 DEF UnwindDisplace, FileStep, Raise, Leftover, AfterRemove, Fault, OnError,
     live, fixed, disk, outside
<1>12. ASSUME UnwindClearPrepared PROVE OneOriginal'
  BY <1>12 DEF UnwindClearPrepared, FileStep, Fault, OnError, live, fixed, disk,
     outside
<1>13. ASSUME UnwindRecord PROVE OneOriginal'
  BY <1>13, StatusNotNone DEF UnwindRecord, Save, Persist, OnError, Fault, live,
     fixed, disk, outside
<1>14. ASSUME UnwindPlace PROVE OneOriginal'
  BY <1>14 DEF UnwindPlace, FileStep, Raise, Leftover, AfterRemove, Fault, OnError,
     live, fixed, disk, outside
<1>15. ASSUME UnwindClearIncoming PROVE OneOriginal'
  BY <1>15 DEF UnwindClearIncoming, FileStep, Fault, OnError, live, fixed, disk,
     outside
<1>16. ASSUME UnwindCopy PROVE OneOriginal'
  BY <1>16 DEF UnwindCopy, FileStep, Fault, OnError, live, fixed, disk, outside
<1>17. ASSUME UnwindPlaceCopy PROVE OneOriginal'
  BY <1>17 DEF UnwindPlaceCopy, FileStep, Raise, Fault, OnError, live, fixed, disk,
     outside, StandInv
<1>18. ASSUME UnwindVerify PROVE OneOriginal'
  BY <1>18, StatusNotNone DEF UnwindVerify, Save, AfterUnwind, AfterUnwindItem, Raise,
     Persist, OnError, Fault, live, fixed, disk, outside
<1>19. ASSUME CompleteCheck PROVE OneOriginal'
  BY <1>19, ClassifyMeans, StatusNotNone DEF CompleteCheck, Save, AfterApply,
     AfterApplyItem, Raise, Persist, OnError, Fault, live, fixed, disk, outside
<1>20. ASSUME EnsurePrepared PROVE OneOriginal'
  BY <1>20 DEF EnsurePrepared, FileStep, Raise, Fault, OnError, live, fixed, disk,
     outside
<1>21. ASSUME EnsureCopy PROVE OneOriginal'
  BY <1>21 DEF EnsureCopy, FileStep, Fault, OnError, live, fixed, disk, outside
<1>22. ASSUME BeginReverse PROVE OneOriginal'
  BY <1>22 DEF BeginReverse, Persist, Fault, live, fixed, disk, outside
<1>23. ASSUME ReverseFailed PROVE OneOriginal'
  BY <1>23 DEF ReverseFailed, Persist, AfterUnwind, AfterUnwindItem, Fault, live,
     fixed, disk, outside
<1>24. ASSUME EndReverse PROVE OneOriginal'
  BY <1>24 DEF EndReverse, Persist, Fault, live, fixed, disk, outside
<1>25. ASSUME Cleanup PROVE OneOriginal'
  BY <1>25 DEF Cleanup, Refuse, CleanStep, Leftover, AfterRemove, Fault, live, fixed,
     disk, outside
<1>26. ASSUME Removing PROVE OneOriginal'
  BY <1>26 DEF Removing, CleanStep, Fault, live, fixed, disk, outside
<1>27. ASSUME Finish PROVE OneOriginal'
  BY <1>27 DEF Finish, Persist, Fault, live, fixed, disk, outside
<1>28. ASSUME Interrupted PROVE OneOriginal'
  BY <1>28 DEF Interrupted, Persist, Fault, live, fixed, disk, outside
<1>29. ASSUME Crash PROVE OneOriginal'
  BY <1>29 DEF Crash, live, fixed, disk
<1>30. ASSUME NEW unwind \in BOOLEAN, Resume(unwind) PROVE OneOriginal'
  BY <1>30, StatusNotNone DEF Resume, Fault, live, fixed, disk, outside
<1>31. ASSUME NEW i \in Items, Edit(i) PROVE OneOriginal'
  BY <1>31 DEF Edit, fixed, disk
<1>32. ASSUME UNCHANGED vars PROVE OneOriginal'
  BY <1>32 DEF vars, live, fixed, disk, outside
<1> QED BY <1>1, <1>2, <1>3, <1>4, <1>5, <1>6, <1>7, <1>8, <1>9, <1>10, <1>11, <1>12,
   <1>13, <1>14, <1>15, <1>16, <1>17, <1>18, <1>19, <1>20, <1>21, <1>22, <1>23, <1>24,
   <1>25, <1>26, <1>27, <1>28, <1>29, <1>30, <1>31, <1>32 DEF Next, Step, Capture,
   Apply, Unwind, Complete, Ending

\* What the step before left is what the line that might raise finds.
LEMMA StandStep ==
    ASSUME IInv, StandInv, [Next]_vars
    PROVE  StandInv'
<1> USE ItemOrder, ObjectAssumption
        DEF IInv, TypeOK, PhaseInv, CopyInv, SideInv, SwapInv, ProgressInv,
            Capturing, Swapping, Applying, Unwinding, Away, Completing, Closing,
            Modes, Whole, StandInv
<1>1. ASSUME Begin PROVE StandInv'
  BY <1>1 DEF Begin, Nothing, disk
<1>2. ASSUME CaptureArtifacts PROVE StandInv'
  BY <1>2 DEF CaptureArtifacts, Abort, Fault, Nothing, live, disk, outside
<1>3. ASSUME StageDesired PROVE StandInv'
  BY <1>3 DEF StageDesired, Fault, Abort, Nothing, fixed, disk, outside
<1>4. ASSUME VerifyOriginals PROVE StandInv'
  BY <1>4 DEF VerifyOriginals, Persist, Fault, Abort, Nothing, live, fixed, disk,
     outside
<1>5. ASSUME ApplyVerify PROVE StandInv'
  BY <1>5, StatusNotNone DEF ApplyVerify, Save, Raise, Persist, OnError, Fault, live,
     fixed, disk, outside
<1>6. ASSUME Displace PROVE StandInv'
  BY <1>6 DEF Displace, FileStep, Fault, OnError, live, fixed, disk, outside
<1>7. ASSUME RecordDisplaced PROVE StandInv'
  BY <1>7, StatusNotNone DEF RecordDisplaced, Save, Persist, OnError, Fault, live,
     fixed, disk, outside
<1>8. ASSUME Place PROVE StandInv'
  BY <1>8 DEF Place, Raise, FileStep, OnError, Fault, live, fixed, disk, outside
<1>9. ASSUME RecordPlaced PROVE StandInv'
  BY <1>9, StatusNotNone DEF RecordPlaced, Save, AfterApply, AfterApplyItem, Raise,
     Persist, OnError, Fault, live, fixed, disk, outside
<1>10. ASSUME UnwindCheck PROVE StandInv'
  BY <1>10, ClassifyMeans, StatusNotNone DEF UnwindCheck, Save, AfterUnwind,
     AfterUnwindItem, Raise, Persist, OnError, Fault, live, fixed, disk, outside
<1>11. ASSUME UnwindDisplace PROVE StandInv'
  BY <1>11 DEF UnwindDisplace, FileStep, Raise, Leftover, AfterRemove, Fault, OnError,
     live, fixed, disk, outside
<1>12. ASSUME UnwindClearPrepared PROVE StandInv'
  BY <1>12 DEF UnwindClearPrepared, FileStep, Fault, OnError, live, fixed, disk,
     outside
<1>13. ASSUME UnwindRecord PROVE StandInv'
  BY <1>13, StatusNotNone DEF UnwindRecord, Save, Persist, OnError, Fault, live,
     fixed, disk, outside
<1>14. ASSUME UnwindPlace PROVE StandInv'
  BY <1>14 DEF UnwindPlace, FileStep, Raise, Leftover, AfterRemove, Fault, OnError,
     live, fixed, disk, outside
<1>15. ASSUME UnwindClearIncoming PROVE StandInv'
  BY <1>15 DEF UnwindClearIncoming, FileStep, Fault, OnError, live, fixed, disk,
     outside
<1>16. ASSUME UnwindCopy PROVE StandInv'
  BY <1>16 DEF UnwindCopy, FileStep, Fault, OnError, live, fixed, disk, outside
<1>17. ASSUME UnwindPlaceCopy PROVE StandInv'
  BY <1>17 DEF UnwindPlaceCopy, FileStep, Raise, Fault, OnError, live, fixed, disk,
     outside
<1>18. ASSUME UnwindVerify PROVE StandInv'
  BY <1>18, StatusNotNone DEF UnwindVerify, Save, AfterUnwind, AfterUnwindItem, Raise,
     Persist, OnError, Fault, live, fixed, disk, outside
<1>19. ASSUME CompleteCheck PROVE StandInv'
  BY <1>19, ClassifyMeans, StatusNotNone DEF CompleteCheck, Save, AfterApply,
     AfterApplyItem, Raise, Persist, OnError, Fault, live, fixed, disk, outside
<1>20. ASSUME EnsurePrepared PROVE StandInv'
  BY <1>20 DEF EnsurePrepared, FileStep, Raise, Fault, OnError, live, fixed, disk,
     outside
<1>21. ASSUME EnsureCopy PROVE StandInv'
  BY <1>21 DEF EnsureCopy, FileStep, Fault, OnError, live, fixed, disk, outside
<1>22. ASSUME BeginReverse PROVE StandInv'
  BY <1>22 DEF BeginReverse, Persist, Fault, live, fixed, disk, outside
<1>23. ASSUME ReverseFailed PROVE StandInv'
  BY <1>23 DEF ReverseFailed, Persist, AfterUnwind, AfterUnwindItem, Fault, live,
     fixed, disk, outside
<1>24. ASSUME EndReverse PROVE StandInv'
  BY <1>24 DEF EndReverse, Persist, Fault, live, fixed, disk, outside
<1>25. ASSUME Cleanup PROVE StandInv'
  BY <1>25 DEF Cleanup, Refuse, CleanStep, Leftover, AfterRemove, Fault, live, fixed,
     disk, outside
<1>26. ASSUME Removing PROVE StandInv'
  BY <1>26 DEF Removing, CleanStep, Fault, live, fixed, disk, outside
<1>27. ASSUME Finish PROVE StandInv'
  BY <1>27 DEF Finish, Persist, Fault, live, fixed, disk, outside
<1>28. ASSUME Interrupted PROVE StandInv'
  BY <1>28 DEF Interrupted, Persist, Fault, live, fixed, disk, outside
<1>29. ASSUME Crash PROVE StandInv'
  BY <1>29 DEF Crash, live, fixed, disk
<1>30. ASSUME NEW unwind \in BOOLEAN, Resume(unwind) PROVE StandInv'
  BY <1>30, StatusNotNone DEF Resume, Fault, live, fixed, disk, outside
<1>31. ASSUME NEW i \in Items, Edit(i) PROVE StandInv'
  BY <1>31 DEF Edit, fixed, disk
<1>32. ASSUME UNCHANGED vars PROVE StandInv'
  BY <1>32 DEF vars, live, fixed, disk, outside
<1> QED BY <1>1, <1>2, <1>3, <1>4, <1>5, <1>6, <1>7, <1>8, <1>9, <1>10, <1>11, <1>12,
   <1>13, <1>14, <1>15, <1>16, <1>17, <1>18, <1>19, <1>20, <1>21, <1>22, <1>23, <1>24,
   <1>25, <1>26, <1>27, <1>28, <1>29, <1>30, <1>31, <1>32 DEF Next, Step, Capture,
   Apply, Unwind, Complete, Ending

\* A raise of a resume met a torn side path or an ambiguous item; nothing moves
\* between the raise and the last write.
LEMMA CleanEndStep ==
    ASSUME IInv, EndInv, [Next]_vars
    PROVE  CleanResumeEnds'
<1> USE ItemOrder, ObjectAssumption
        DEF IInv, TypeOK, PhaseInv, CopyInv, SideInv, KnownInv, SwapInv, Capturing,
            Swapping, Applying, Unwinding, Away, Completing, Closing, Modes, Whole,
            OneOriginal, StandInv, CleanResumeEnds, HalfDone, Ambiguous
<1>1. ASSUME Begin PROVE CleanResumeEnds'
  BY <1>1 DEF Begin, Nothing, disk, EndInv
<1>2. ASSUME CaptureArtifacts PROVE CleanResumeEnds'
  BY <1>2 DEF CaptureArtifacts, Abort, Fault, Nothing, live, disk, outside, EndInv
<1>3. ASSUME StageDesired PROVE CleanResumeEnds'
  BY <1>3 DEF StageDesired, Fault, Abort, Nothing, fixed, disk, outside, EndInv
<1>4. ASSUME VerifyOriginals PROVE CleanResumeEnds'
  BY <1>4 DEF VerifyOriginals, Persist, Fault, Abort, Nothing, live, fixed, disk,
     outside, EndInv
<1>5. ASSUME ApplyVerify PROVE CleanResumeEnds'
  BY <1>5, StatusNotNone DEF ApplyVerify, Save, Raise, Persist, OnError, Fault, live,
     fixed, disk, outside, EndInv
<1>6. ASSUME Displace PROVE CleanResumeEnds'
  BY <1>6 DEF Displace, FileStep, Fault, OnError, live, fixed, disk, outside, EndInv
<1>7. ASSUME RecordDisplaced PROVE CleanResumeEnds'
  BY <1>7, StatusNotNone DEF RecordDisplaced, Save, Persist, OnError, Fault, live,
     fixed, disk, outside, EndInv
<1>8. ASSUME Place PROVE CleanResumeEnds'
  BY <1>8 DEF Place, Raise, FileStep, OnError, Fault, live, fixed, disk, outside,
     EndInv
<1>9. ASSUME RecordPlaced PROVE CleanResumeEnds'
  BY <1>9, StatusNotNone DEF RecordPlaced, Save, AfterApply, AfterApplyItem, Raise,
     Persist, OnError, Fault, live, fixed, disk, outside, EndInv
<1>10. ASSUME UnwindCheck PROVE CleanResumeEnds'
  BY <1>10, ClassifyMeans, StatusNotNone DEF UnwindCheck, Save, AfterUnwind,
     AfterUnwindItem, Raise, Persist, OnError, Fault, live, fixed, disk, outside,
     EndInv
<1>11. ASSUME UnwindDisplace PROVE CleanResumeEnds'
  BY <1>11 DEF UnwindDisplace, FileStep, Raise, Leftover, AfterRemove, Fault, OnError,
     live, fixed, disk, outside, EndInv
<1>12. ASSUME UnwindClearPrepared PROVE CleanResumeEnds'
  BY <1>12 DEF UnwindClearPrepared, FileStep, Fault, OnError, live, fixed, disk,
     outside, EndInv
<1>13. ASSUME UnwindRecord PROVE CleanResumeEnds'
  BY <1>13, StatusNotNone DEF UnwindRecord, Save, Persist, OnError, Fault, live,
     fixed, disk, outside, EndInv
<1>14. ASSUME UnwindPlace PROVE CleanResumeEnds'
  BY <1>14 DEF UnwindPlace, FileStep, Raise, Leftover, AfterRemove, Fault, OnError,
     live, fixed, disk, outside, EndInv
<1>15. ASSUME UnwindClearIncoming PROVE CleanResumeEnds'
  BY <1>15 DEF UnwindClearIncoming, FileStep, Fault, OnError, live, fixed, disk,
     outside, EndInv
<1>16. ASSUME UnwindCopy PROVE CleanResumeEnds'
  BY <1>16 DEF UnwindCopy, FileStep, Fault, OnError, live, fixed, disk, outside,
     EndInv
<1>17. ASSUME UnwindPlaceCopy PROVE CleanResumeEnds'
  BY <1>17 DEF UnwindPlaceCopy, FileStep, Raise, Fault, OnError, live, fixed, disk,
     outside, EndInv
<1>18. ASSUME UnwindVerify PROVE CleanResumeEnds'
  BY <1>18, StatusNotNone DEF UnwindVerify, Save, AfterUnwind, AfterUnwindItem, Raise,
     Persist, OnError, Fault, live, fixed, disk, outside, EndInv
<1>19. ASSUME CompleteCheck PROVE CleanResumeEnds'
  BY <1>19, ClassifyMeans, StatusNotNone DEF CompleteCheck, Save, AfterApply,
     AfterApplyItem, Raise, Persist, OnError, Fault, live, fixed, disk, outside,
     EndInv
<1>20. ASSUME EnsurePrepared PROVE CleanResumeEnds'
  BY <1>20 DEF EnsurePrepared, FileStep, Raise, Fault, OnError, live, fixed, disk,
     outside, EndInv
<1>21. ASSUME EnsureCopy PROVE CleanResumeEnds'
  BY <1>21 DEF EnsureCopy, FileStep, Fault, OnError, live, fixed, disk, outside,
     EndInv
<1>22. ASSUME BeginReverse PROVE CleanResumeEnds'
  BY <1>22 DEF BeginReverse, Persist, Fault, live, fixed, disk, outside, EndInv
<1>23. ASSUME ReverseFailed PROVE CleanResumeEnds'
  BY <1>23 DEF ReverseFailed, Persist, AfterUnwind, AfterUnwindItem, Fault, live,
     fixed, disk, outside, EndInv
<1>24. ASSUME EndReverse PROVE CleanResumeEnds'
  BY <1>24 DEF EndReverse, Persist, Fault, live, fixed, disk, outside, EndInv
<1>25. ASSUME Cleanup PROVE CleanResumeEnds'
  BY <1>25 DEF Cleanup, Refuse, CleanStep, Leftover, AfterRemove, Fault, live, fixed,
     disk, outside, EndInv
<1>26. ASSUME Removing PROVE CleanResumeEnds'
  BY <1>26 DEF Removing, CleanStep, Fault, live, fixed, disk, outside, EndInv
<1>27. ASSUME Finish PROVE CleanResumeEnds'
  BY <1>27 DEF Finish, Persist, Fault, live, fixed, disk, outside, EndInv
<1>28. ASSUME Interrupted PROVE CleanResumeEnds'
  BY <1>28 DEF Interrupted, Persist, Fault, live, fixed, disk, outside, EndInv
<1>29. ASSUME Crash PROVE CleanResumeEnds'
  BY <1>29 DEF Crash, live, fixed, disk, EndInv
<1>30. ASSUME NEW unwind \in BOOLEAN, Resume(unwind) PROVE CleanResumeEnds'
  BY <1>30, StatusNotNone DEF Resume, Fault, live, fixed, disk, outside, EndInv
<1>31. ASSUME NEW i \in Items, Edit(i) PROVE CleanResumeEnds'
  BY <1>31 DEF Edit, fixed, disk, EndInv
<1>32. ASSUME UNCHANGED vars PROVE CleanResumeEnds'
  BY <1>32 DEF vars, live, fixed, disk, outside, EndInv
<1> QED BY <1>1, <1>2, <1>3, <1>4, <1>5, <1>6, <1>7, <1>8, <1>9, <1>10, <1>11, <1>12,
   <1>13, <1>14, <1>15, <1>16, <1>17, <1>18, <1>19, <1>20, <1>21, <1>22, <1>23, <1>24,
   <1>25, <1>26, <1>27, <1>28, <1>29, <1>30, <1>31, <1>32 DEF Next, Step, Capture,
   Apply, Unwind, Complete, Ending

\* A resume or an unwind that meets no error, on items nobody touched, stops
\* short of its end only before a side path left torn, or an item whose two
\* descriptions are equal and whose original is displaced
\* (restore_journal.py:235-252).
THEOREM ResumeEnds == Spec => []CleanResumeEnds
<1>1. Init => EndInv
  BY EndInit
<1>2. IInv /\ EndInv /\ [Next]_vars => EndInv'
  BY OneOriginalStep, StandStep, CleanEndStep DEF EndInv
<1>3. EndInv => CleanResumeEnds
  BY DEF EndInv
<1> QED BY <1>1, <1>2, <1>3, Invariance, PTL DEF Spec

=============================================================================

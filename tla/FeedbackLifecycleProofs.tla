---------------------- MODULE FeedbackLifecycleProofs ----------------------
(***************************************************************************)
(* Theorems about FeedbackLifecycle, for any number of items, causes of    *)
(* failure, contract versions and cut-off runs.                            *)
(***************************************************************************)
EXTENDS FeedbackLifecycle, FiniteSetTheorems, TLAPS

InHand   == {"drop", "status", "record", "mark"}
Selected == {"attempt", "status", "record", "mark"}

\* An item is in hand exactly between the two statements about it, and rows
\* are selected only while they are attempted.
PlaceInv ==
    /\ IF place \in InHand THEN cur \in Items ELSE cur = NoItem
    /\ todo # {} => place \in Selected
    /\ cur \notin todo

\* No failure was recorded under a contract that is not deployed yet, and an
\* item has finitely many.
FailureInv ==
    /\ \A f \in failures : f[2] <= prompt
    /\ \A i \in Items : IsFiniteSet(Causes(i)) /\ Cardinality(Causes(i)) <= 2

\* The rows that may still be attempted.
Due(i) ==
    /\ analysis[i] = "none" /\ ~duplicate[i]
    /\ Cardinality(Causes(i)) <= 1 /\ Malformed \notin Causes(i)

DueInv ==
    /\ \A i \in todo : Due(i)
    /\ place \in {"status", "record"} => Cardinality(Causes(cur)) <= 1

\* The first of two statements has been made, the second is due.
HalfInv ==
    /\ place = "drop" => status[cur] = "pending"
    /\ place = "status" => analysis[cur] # "none"
    /\ aborts = 0 /\ place \in {"record", "mark"} => analysis[cur] = "none"

EarnedInv ==
    place \in Selected \cup {"exhaust"} =>
        \A i \in Items : status[i] = "skipped" =>
            duplicate[i] \/ analysis[i] # "none" \/ Causes(i) # {}

\* While no run was cut off, only the row in hand may be half written.
WholeInv ==
    aborts = 0 => \A i \in Items :
        /\ analysis[i] # "none" /\ ~duplicate[i] =>
              status[i] \in Settled \/ (place \in {"drop", "status"} /\ cur = i)
        /\ owned[i] => analysis[i] # "unowned" \/ (place = "drop" /\ cur = i)

IndInv ==
    /\ TypeOK /\ PlaceInv /\ FailureInv /\ DueInv /\ HalfInv
    /\ CompletedIsAnalysed /\ EarnedInv /\ WholeInv

-----------------------------------------------------------------------------

\* Under one contract the causes of an item depend on the failure rows alone.
LEMMA CausesSame ==
    ASSUME failures' = failures, prompt' = prompt
    PROVE  \A i \in Items : Causes(i)' = Causes(i)
    BY DEF Causes

\* What the queries do not exclude is due.
LEMMA SelectedAreDue ==
    ASSUME FailureInv, NEW i \in Items, Open(i), ~Exhausted(i)
    PROVE  Due(i)
<1>1. ~Hopeless(i)
    BY DEF Open, Exhausted
<1>2. Cardinality(Causes(i)) \in Nat
    BY FS_CardinalityType DEF FailureInv
<1> QED
    BY <1>1, <1>2 DEF Open, Hopeless, Due

\* An exhausted row has failed under the deployed contract.
LEMMA HopelessFailed ==
    ASSUME NEW i \in Items, Hopeless(i)
    PROVE  Causes(i) # {}
    BY FS_EmptySet DEF Hopeless

LEMMA OneMore ==
    ASSUME NEW S, NEW c, IsFiniteSet(S), Cardinality(S) <= 1
    PROVE  IsFiniteSet(S \cup {c}) /\ Cardinality(S \cup {c}) <= 2
<1>1. Cardinality(S) \in Nat
    BY FS_CardinalityType
<1>2. IsFiniteSet(S \cup {c})
    BY FS_AddElement
<1>3. Cardinality(S \cup {c}) = IF c \in S THEN Cardinality(S) ELSE Cardinality(S) + 1
    BY FS_AddElement
<1> QED
    BY <1>1, <1>2, <1>3

LEMMA InitInv == Init => IndInv
<1> SUFFICES ASSUME Init PROVE IndInv
    OBVIOUS
<1>1. PICK done \in SUBSET Replays :
         /\ status = [i \in Items |-> IF i \in done THEN "completed"
                                      ELSE IF i \in Replays THEN "pending" ELSE "absent"]
         /\ analysis = [i \in Items |-> IF i \in done THEN "unowned" ELSE "none"]
    BY DEF Init
<1>2. TypeOK
    BY <1>1, LimitsAssumption DEF Init, TypeOK, Statuses, Settled, Places
<1>3. PlaceInv
    BY NoItemAssumption DEF Init, PlaceInv, InHand
<1>4. FailureInv
  <2>1. \A i \in Items : Causes(i) = {}
    BY DEF Init, Causes
  <2> QED
    BY <2>1, FS_EmptySet DEF Init, FailureInv
<1>5. DueInv /\ HalfInv /\ EarnedInv
    BY DEF Init, DueInv, HalfInv, EarnedInv, Selected
<1>6. CompletedIsAnalysed
    BY <1>1 DEF CompletedIsAnalysed, Settled
<1>7. WholeInv
    BY <1>1 DEF Init, WholeInv, Settled
<1> QED
    BY <1>2, <1>3, <1>4, <1>5, <1>6, <1>7 DEF IndInv

\* Every step but a failure record and a deployment leaves the causes alone.
LEMMA FailuresKept ==
    ASSUME FailureInv, failures' = failures, prompt' = prompt
    PROVE  FailureInv'
    BY CausesSame DEF FailureInv

LEMMA TypeStep == TypeOK /\ PlaceInv /\ [Next]_vars => TypeOK'
<1> USE ItemsAssumption, NoItemAssumption, CodesAssumption, LimitsAssumption
    DEF TypeOK, PlaceInv, InHand, Places, Statuses, Settled, table
<1> SUFFICES ASSUME TypeOK, PlaceInv, [Next]_vars PROVE TypeOK'
    OBVIOUS
<1>1. CASE Begin \/ Select \/ Finish \/ Abort \/ SetStatusRaises
    BY <1>1 DEF Begin, Select, Finish, Abort, SetStatusRaises
<1>2. ASSUME NEW i \in Items, Insert(i) \/ Quarantine(i) \/ Claim(i) PROVE TypeOK'
    BY <1>2 DEF Insert, Quarantine, Claim, ClaimStatus
<1>3. CASE DropAnalysis
    BY <1>3 DEF DropAnalysis
<1>4. CASE Sweep
    BY <1>4 DEF Sweep
<1>5. CASE Requeue
    BY <1>5 DEF Requeue
<1>6. ASSUME NEW i \in Items, Succeed(i) \/ Fail(i) PROVE TypeOK'
    BY <1>6 DEF Succeed, Fail, Attempt
<1>7. CASE SetStatus \/ MarkFailed
    BY <1>7 DEF SetStatus, MarkFailed, Outcomes
<1>8. CASE Record
    BY <1>8 DEF Record
<1>9. CASE Deploy
    BY <1>9 DEF Deploy
<1>10. CASE UNCHANGED vars
    BY <1>10 DEF vars
<1> QED
    BY <1>1, <1>2, <1>3, <1>4, <1>5, <1>6, <1>7, <1>8, <1>9, <1>10 DEF Next, RunStep

LEMMA StepInv == IndInv /\ [Next]_vars => IndInv'
<1> USE ItemsAssumption, NoItemAssumption, CodesAssumption, LimitsAssumption, CausesSame
    DEF PlaceInv, InHand, Selected, DueInv, Due, HalfInv, CompletedIsAnalysed, EarnedInv,
        WholeInv, Settled, table
<1> SUFFICES ASSUME IndInv, [Next]_vars PROVE IndInv'
    OBVIOUS
<1> TypeOK /\ PlaceInv /\ FailureInv /\ DueInv /\ HalfInv /\ CompletedIsAnalysed
       /\ EarnedInv /\ WholeInv
    BY DEF IndInv
<1> TypeOK'
    BY TypeStep
<1> SUFFICES FailureInv' /\ PlaceInv' /\ DueInv' /\ HalfInv' /\ CompletedIsAnalysed'
                /\ EarnedInv' /\ WholeInv'
    BY DEF IndInv
<1> DEFINE Rest == PlaceInv /\ DueInv /\ HalfInv /\ CompletedIsAnalysed /\ EarnedInv
                      /\ WholeInv
<1>1. CASE Begin
  <2>1. FailureInv'
    BY <1>1, FailuresKept DEF Begin
  <2>2. Rest'
    BY <1>1 DEF Begin, TypeOK
  <2> QED
    BY <2>1, <2>2
<1>2. ASSUME NEW i \in Items, Insert(i) PROVE FailureInv' /\ Rest'
  <2>1. FailureInv'
    BY <1>2, FailuresKept DEF Insert
  <2>2. Rest'
    BY <1>2 DEF Insert, TypeOK, Stored
  <2> QED
    BY <2>1, <2>2
<1>3. ASSUME NEW i \in Items, Claim(i) PROVE FailureInv' /\ Rest'
  <2>1. FailureInv'
    BY <1>3, FailuresKept DEF Claim
  <2>2. Rest'
    BY <1>3 DEF Claim, ClaimStatus, TypeOK
  <2> QED
    BY <2>1, <2>2
<1>4. CASE DropAnalysis
  <2>1. FailureInv'
    BY <1>4, FailuresKept DEF DropAnalysis
  <2>2. Rest'
    BY <1>4 DEF DropAnalysis, TypeOK
  <2> QED
    BY <2>1, <2>2
<1>5. CASE Sweep
  <2>1. FailureInv'
    BY <1>5, FailuresKept DEF Sweep
  <2>2. Rest'
    BY <1>5 DEF Sweep, TypeOK
  <2> QED
    BY <2>1, <2>2
<1>6. CASE Requeue
  <2>1. FailureInv'
    BY <1>6, FailuresKept DEF Requeue
  <2>2. Rest'
    BY <1>6 DEF Requeue, Fresh, TypeOK
  <2> QED
    BY <2>1, <2>2
<1>7. ASSUME NEW i \in Items, Quarantine(i) PROVE FailureInv' /\ Rest'
  <2>1. FailureInv'
    BY <1>7, FailuresKept DEF Quarantine
  <2>2. Causes(i) # {} /\ analysis[i] = "none"
    BY <1>7, HopelessFailed DEF Quarantine, Exhausted
  <2>3. Rest'
    BY <1>7, <2>2 DEF Quarantine, TypeOK
  <2> QED
    BY <2>1, <2>3
<1>8. CASE Select
  <2>1. FailureInv'
    BY <1>8, FailuresKept DEF Select
  <2>2. \A i \in todo' : Due(i)
    BY <1>8, SelectedAreDue DEF Select
  <2>3. Rest'
    BY <1>8, <2>2 DEF Select, TypeOK
  <2> QED
    BY <2>1, <2>3
<1>9. ASSUME NEW i \in Items, Succeed(i) PROVE FailureInv' /\ Rest'
  <2>1. FailureInv'
    BY <1>9, FailuresKept DEF Succeed
  <2>2. Rest'
    BY <1>9 DEF Succeed, Attempt, TypeOK
  <2> QED
    BY <2>1, <2>2
<1>10. CASE SetStatus
  <2>1. FailureInv'
    BY <1>10, FailuresKept DEF SetStatus
  <2>2. Rest'
    BY <1>10 DEF SetStatus, Outcomes, TypeOK
  <2> QED
    BY <2>1, <2>2
<1>11. CASE SetStatusRaises
  <2>1. FailureInv'
    BY <1>11, FailuresKept DEF SetStatusRaises
  <2>2. aborts' # 0
    BY <1>11 DEF SetStatusRaises, TypeOK
  <2>3. Rest'
    BY <1>11, <2>2 DEF SetStatusRaises, TypeOK
  <2> QED
    BY <2>1, <2>3
<1>12. ASSUME NEW i \in Items, Fail(i) PROVE FailureInv' /\ Rest'
  <2>1. FailureInv'
    BY <1>12, FailuresKept DEF Fail
  <2>2. Rest'
    BY <1>12 DEF Fail, Attempt, TypeOK
  <2> QED
    BY <2>1, <2>2
<1>13. CASE Record
  <2>1. PICK c \in Codes : failures' = failures \cup {<<cur, prompt, c>>}
    BY <1>13 DEF Record
  <2>2. cur \in Items /\ prompt' = prompt /\ cur' = cur /\ todo' = todo
    BY <1>13 DEF Record
  <2>3. Causes(cur)' = Causes(cur) \cup {c}
    BY <2>1, <2>2 DEF Causes
  <2>4. \A i \in Items \ {cur} : Causes(i)' = Causes(i)
    BY <2>1, <2>2 DEF Causes
  <2>5. IsFiniteSet(Causes(cur)) /\ Cardinality(Causes(cur)) <= 1
    BY <1>13, <2>2 DEF Record, FailureInv
  <2>6. IsFiniteSet(Causes(cur)') /\ Cardinality(Causes(cur)') <= 2
    <3>1. IsFiniteSet(Causes(cur) \cup {c}) /\ Cardinality(Causes(cur) \cup {c}) <= 2
      BY <2>5, OneMore
    <3> QED
      BY <2>3, <3>1
  <2>7. FailureInv'
    <3>1. \A f \in failures' : f[2] <= prompt'
      BY <2>1, <2>2 DEF FailureInv, TypeOK
    <3>2. \A i \in Items : IsFiniteSet(Causes(i)') /\ Cardinality(Causes(i)') <= 2
      BY <2>2, <2>4, <2>6 DEF FailureInv
    <3> QED
      BY <3>1, <3>2 DEF FailureInv
  <2>8. Rest'
    BY <1>13, <2>2, <2>3, <2>4 DEF Record, TypeOK
  <2> QED
    BY <2>7, <2>8
<1>14. CASE MarkFailed
  <2>1. FailureInv'
    BY <1>14, FailuresKept DEF MarkFailed
  <2>2. Rest'
    BY <1>14 DEF MarkFailed, TypeOK
  <2> QED
    BY <2>1, <2>2
<1>15. CASE Finish
  <2>1. FailureInv'
    BY <1>15, FailuresKept DEF Finish
  <2>2. Rest'
    BY <1>15 DEF Finish, TypeOK
  <2> QED
    BY <2>1, <2>2
<1>16. CASE Abort
  <2>1. FailureInv'
    BY <1>16, FailuresKept DEF Abort
  <2>2. aborts' # 0
    BY <1>16 DEF Abort, TypeOK
  <2>3. Rest'
    BY <1>16, <2>2 DEF Abort, TypeOK
  <2> QED
    BY <2>1, <2>3
<1>17. CASE Deploy
  <2>1. \A i \in Items : Causes(i)' = {}
    BY <1>17 DEF Deploy, Causes, FailureInv, TypeOK
  <2>2. FailureInv'
    <3>1. \A f \in failures' : f[2] <= prompt'
      BY <1>17 DEF Deploy, FailureInv, TypeOK
    <3>2. \A i \in Items : IsFiniteSet(Causes(i)') /\ Cardinality(Causes(i)') <= 2
      BY <2>1, FS_EmptySet
    <3> QED
      BY <3>1, <3>2 DEF FailureInv
  <2>3. Rest'
    BY <1>17 DEF Deploy, TypeOK
  <2> QED
    BY <2>2, <2>3
<1>18. CASE UNCHANGED vars
  <2>1. FailureInv'
    BY <1>18, FailuresKept DEF vars
  <2>2. Rest'
    BY <1>18 DEF vars, TypeOK
  <2> QED
    BY <2>1, <2>2
<1> QED
    BY <1>1, <1>2, <1>3, <1>4, <1>5, <1>6, <1>7, <1>8, <1>9, <1>10, <1>11, <1>12, <1>13,
       <1>14, <1>15, <1>16, <1>17, <1>18
    DEF Next, RunStep

\* Statuses, analyses, skips, causes and owners of the items agree, wherever
\* runs of _classify_pending are cut off.
THEOREM RowsAlwaysAgree == Spec => []RowsAgree
<1>1. IndInv => RowsAgree
  <2>1. IndInv => SkippedIsEarned
    BY DEF IndInv, EarnedInv, SkippedIsEarned, Selected
  <2>2. IndInv => AtMostTwoCauses
    BY DEF IndInv, FailureInv, AtMostTwoCauses
  <2>3. IndInv => AnalysedIsCompleted /\ AnalysesKnowTheOwner
    BY DEF IndInv, WholeInv, AnalysedIsCompleted, AnalysesKnowTheOwner
  <2> QED
    BY <2>1, <2>2, <2>3 DEF IndInv, RowsAgree
<1> QED
    BY <1>1, InitInv, StepInv, PTL DEF Spec

\* _classify_pending asks the provider about rows only that are no duplicates
\* and had no malformed answer under the deployed contract.
THEOREM AttemptsAreAlwaysDue == Spec => AttemptsAreDue
<1>1. IndInv /\ [Next]_vars => [\A i \in Items :
          place = "attempt" /\ cur' = i /\ prompt' = prompt
             => ~duplicate[i] /\ Malformed \notin Causes(i)]_vars
  <2> SUFFICES ASSUME IndInv, Next, NEW i \in Items, place = "attempt", cur' = i
               PROVE  ~duplicate[i] /\ Malformed \notin Causes(i)
      BY DEF vars
  <2>1. cur = NoItem /\ \A j \in todo : Due(j)
    BY DEF IndInv, PlaceInv, InHand, DueInv
  <2>2. cur' # cur
    BY <2>1, NoItemAssumption
  <2>3. i \in todo
    BY <2>1, <2>2, NoItemAssumption
    DEF Next, RunStep, Begin, DropAnalysis, Sweep, Requeue, Select, SetStatus, Record,
        MarkFailed, Finish, Claim, Quarantine, Succeed, Fail, Attempt, SetStatusRaises,
        Abort, Deploy, Insert
  <2> QED
    BY <2>1, <2>3 DEF Due
<1> QED
    BY <1>1, InitInv, StepInv, PTL DEF Spec, AttemptsAreDue
=============================================================================

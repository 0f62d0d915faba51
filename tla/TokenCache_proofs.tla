------------------------- MODULE TokenCache_proofs --------------------------
(***************************************************************************)
(* For any calls, and unless a time to live comes out as exactly 0: while  *)
(* calls do not overlap the cache is fresh between them, every call works  *)
(* with the current row and only old tokens are refused for their version; *)
(* and however they overlap, a sign-in fails only in a race.               *)
(*                                                                         *)
(* While an update is under way the cache is stale; the invariant says who *)
(* is about to replace the entry and with which version.                   *)
(***************************************************************************)
EXTENDS TokenCache, TLAPS

Busy(c) == pc[c] \notin Ended \cup {"idle"}

OneAtATime == \A c, d \in Calls : Busy(c) /\ Busy(d) => c = d

(* Only an update that is not over leaves an old version in the cache.     *)
StaleOnlyInUpdate == (\A c \in Updates : ~ Busy(c)) => Fresh

(* What was read is still what the database has.                           *)
ReadIsCurrent ==
    \A c \in Calls : pc[c] \in {"found", "read", "timed", "deleted"} => saw[c] = version

PlaceByKind ==
    /\ \A c \in Verifies : pc[c] \in {"idle", "missed", "found", "accepted", "mismatch", "failed"}
    /\ \A c \in Updates : pc[c] \in {"idle", "written", "read", "timed", "failed", "done"}
    /\ \A c \in Refreshes : pc[c] \in {"idle", "found", "deleted", "done"}
    /\ \A c \in SignIns : pc[c] \in {"idle", "unknown", "known", "found", "deleted", "done", "failed"}

(* Who finds no row and is not alone in it races another sign-in.          *)
UnknownOrMade ==
    \A c \in SignIns : pc[c] = "unknown" =>
        version = 0 \/ (~ alone /\ \E d \in SignIns \ {c} : pc[d] # "idle")

(* Before the row is made there is nothing to cache and nobody has a token. *)
NoRowYet == version = 0 => cache = None /\ issued = {} /\ \A c \in Calls : pc[c] \in {"idle", "unknown"}

(* What holds as long as calls do not overlap.                             *)
Serial == kept = FALSE /\ OneAtATime /\ StaleOnlyInUpdate /\ ReadIsCurrent

IInv == TypeOK /\ PlaceByKind /\ NoRowYet /\ UnknownOrMade /\ (alone => Serial)

LEMMA InitInv == Init => IInv
<1> SUFFICES ASSUME Init PROVE IInv
    OBVIOUS
<1> USE CallsAssumption, ConstantsAssumption DEF Init
<1>1. kept \in BOOLEAN /\ kept = FALSE /\ alone \in BOOLEAN
    BY Zenon
<1>2. /\ version \in Nat /\ issued \subseteq Nat /\ cache \in Nat \cup {None}
      /\ saw \in [Calls -> Nat] /\ tok \in [Calls -> Nat]
    OBVIOUS
<1>3. \A c \in Calls : pc[c] = "idle"
    OBVIOUS
<1>4. TypeOK
    BY <1>1, <1>2, <1>3 DEF TypeOK
<1>5. PlaceByKind /\ UnknownOrMade
    BY <1>3 DEF PlaceByKind, UnknownOrMade, Calls, Logins
<1>6. NoRowYet
    BY <1>3 DEF NoRowYet
<1>7. Serial
    <2>1. OneAtATime /\ ReadIsCurrent
        BY <1>3 DEF OneAtATime, ReadIsCurrent, Busy
    <2>2. StaleOnlyInUpdate
        BY DEF StaleOnlyInUpdate, Fresh
    <2>3. QED
        BY <1>1, <2>1, <2>2 DEF Serial
<1>8. QED
    BY <1>4, <1>5, <1>6, <1>7 DEF IInv

(* Types, and where a call of each kind can be, hold however calls overlap. *)
LEMMA StepType == TypeOK /\ PlaceByKind /\ [Next]_vars => TypeOK' /\ PlaceByKind'
<1> SUFFICES ASSUME TypeOK, PlaceByKind, [Next]_vars PROVE TypeOK' /\ PlaceByKind'
    OBVIOUS
<1> USE CallsAssumption, ConstantsAssumption DEF TypeOK, PlaceByKind, Ended, Calls, Logins, Goto, Find
<1>1. alone' \in BOOLEAN
    <2>1. alone \in BOOLEAN
        BY DEF TypeOK
    <2>2. (alone /\ Quiet) \in BOOLEAN
        BY <2>1, Zenon
    <2>3. alone' = alone \/ alone' = (alone /\ Quiet)
        BY DEF Next, vars
    <2>4. QED
        BY <2>1, <2>2, <2>3, Zenon
<1>2. kept' \in BOOLEAN
    <2>1. kept' = kept \/ kept' = FALSE \/ kept' \in {FALSE, EndsExactly}
        BY DEF Next, vars, Arrive, Continue, Lapse, VerifyHit, VerifyMiss, VerifyFind, VerifyFill,
               VerifyTooLate, UpdateRow, UpdateRead, UpdateTtl, UpdateSet, SignInFind,
               SignInInsert, RefreshFind, LoginFind, LoginDelete, LoginIssue, SetCache
    <2>2. QED
        BY <2>1
<1> USE <1>1, <1>2
<1>3. CASE UNCHANGED vars
    BY <1>3 DEF vars
<1>4. CASE Lapse
    BY <1>4 DEF Lapse
<1>5. ASSUME NEW c \in Calls, Arrive(c) PROVE TypeOK' /\ PlaceByKind'
    <2>1. CASE VerifyHit(c)
        BY <2>1 DEF VerifyHit
    <2>2. CASE VerifyMiss(c)
        BY <2>2 DEF VerifyMiss
    <2>3. CASE UpdateRow(c)
        BY <2>3 DEF UpdateRow
    <2>4. CASE SignInFind(c)
        BY <2>4 DEF SignInFind
    <2>5. CASE RefreshFind(c)
        BY <2>5 DEF RefreshFind
    <2>6. QED
        BY <1>5, <2>1, <2>2, <2>3, <2>4, <2>5 DEF Arrive
<1>6. ASSUME NEW c \in Calls, Continue(c) PROVE TypeOK' /\ PlaceByKind'
    <2>1. CASE VerifyFind(c)
        BY <2>1 DEF VerifyFind
    <2>2. CASE VerifyTooLate(c)
        BY <2>2 DEF VerifyTooLate
    <2>3. CASE UpdateRead(c)
        BY <2>3 DEF UpdateRead
    <2>4. CASE UpdateTtl(c)
        BY <2>4 DEF UpdateTtl
    <2>5. CASE VerifyFill(c)
        BY <2>5 DEF VerifyFill, SetCache
    <2>6. CASE UpdateSet(c)
        BY <2>6 DEF UpdateSet, SetCache
    <2>7. CASE SignInInsert(c)
        BY <2>7 DEF SignInInsert
    <2>8. CASE LoginFind(c)
        BY <2>8 DEF LoginFind
    <2>9. CASE LoginDelete(c)
        BY <2>9 DEF LoginDelete
    <2>10. CASE LoginIssue(c)
        <3>1. issued' \subseteq Nat
            <4>1. saw[c] \in Nat /\ issued' = issued \cup {saw[c]}
                BY <2>10 DEF LoginIssue
            <4>2. QED
                BY <4>1
        <3>2. QED
            BY <2>10, <3>1 DEF LoginIssue
    <2>11. QED
        BY <1>6, <2>1, <2>2, <2>3, <2>4, <2>5, <2>6, <2>7, <2>8, <2>9, <2>10 DEF Continue
<1>7. QED
    BY <1>3, <1>4, <1>5, <1>6 DEF Next

(* A row is made by the first INSERT only, and who meets one there raced.  *)
LEMMA StepRace ==
    ASSUME TypeOK, PlaceByKind, NoRowYet, UnknownOrMade, alone => OneAtATime, [Next]_vars
    PROVE NoRowYet' /\ UnknownOrMade'
<1> USE CallsAssumption, ConstantsAssumption
    DEF TypeOK, PlaceByKind, NoRowYet, UnknownOrMade, Calls, Logins, Goto, Find
<1>1. CASE UNCHANGED vars
    BY <1>1 DEF vars
<1>2. CASE Lapse /\ UNCHANGED alone
    BY <1>2 DEF Lapse
<1>3. ASSUME NEW c \in Calls, Arrive(c), alone' = (alone /\ Quiet) PROVE NoRowYet' /\ UnknownOrMade'
    <2>0. ~ alone => ~ alone'
        BY <1>3, Zenon
    <2>1. CASE VerifyHit(c)
        BY <2>0, <2>1 DEF VerifyHit
    <2>2. CASE VerifyMiss(c)
        BY <2>0, <2>2 DEF VerifyMiss
    <2>3. CASE UpdateRow(c)
        <3>1. version # 0 /\ version' # 0
            <4>1. version \in Nat /\ version' = version + 1
                BY <2>3 DEF UpdateRow
            <4>2. issued # {}
                BY <2>3 DEF UpdateRow
            <4>3. QED
                BY ONLY <4>1, <4>2, NoRowYet DEF NoRowYet
        <3>2. \A d \in SignIns : pc[d] # "idle" => pc'[d] # "idle"
            BY <2>3 DEF UpdateRow
        <3>3. \A d \in SignIns : pc'[d] = "unknown" => pc[d] = "unknown"
            BY <2>3 DEF UpdateRow
        <3>4. QED
            BY <2>0, <3>1, <3>2, <3>3
    <2>4. CASE SignInFind(c)
        BY <2>0, <2>4 DEF SignInFind
    <2>5. CASE RefreshFind(c)
        BY <2>0, <2>5 DEF RefreshFind
    <2>6. QED
        BY <1>3, <2>1, <2>2, <2>3, <2>4, <2>5 DEF Arrive
<1>4. ASSUME NEW c \in Calls, Continue(c), UNCHANGED alone
      PROVE NoRowYet' /\ UnknownOrMade'
    <2>1. CASE VerifyFind(c)
        BY <1>4, <2>1 DEF VerifyFind
    <2>2. CASE VerifyTooLate(c)
        BY <1>4, <2>2 DEF VerifyTooLate
    <2>3. CASE UpdateRead(c)
        BY <1>4, <2>3 DEF UpdateRead
    <2>4. CASE UpdateTtl(c)
        BY <1>4, <2>4 DEF UpdateTtl
    <2>5. CASE VerifyFill(c)
        BY <1>4, <2>5 DEF VerifyFill
    <2>6. CASE UpdateSet(c)
        BY <1>4, <2>6 DEF UpdateSet
    <2>7. CASE SignInInsert(c)
        BY <1>4, <2>7 DEF SignInInsert, OneAtATime, Busy, Ended
    <2>8. CASE LoginFind(c)
        BY <1>4, <2>8 DEF LoginFind
    <2>9. CASE LoginDelete(c)
        BY <1>4, <2>9 DEF LoginDelete
    <2>10. CASE LoginIssue(c)
        BY <1>4, <2>10 DEF LoginIssue
    <2>11. QED
        BY <1>4, <2>1, <2>2, <2>3, <2>4, <2>5, <2>6, <2>7, <2>8, <2>9, <2>10 DEF Continue
<1>5. QED
    BY <1>1, <1>2, <1>3, <1>4 DEF Next

(* Without overlap nobody acts on what another call has made stale.        *)
LEMMA StepSerial ==
    ASSUME EndsExactly = FALSE, TypeOK, PlaceByKind, NoRowYet, Serial, alone, [Next]_vars, alone'
    PROVE Serial'
<1> USE CallsAssumption, ConstantsAssumption, EndsExactly = FALSE
    DEF TypeOK, PlaceByKind, Serial, OneAtATime, StaleOnlyInUpdate, ReadIsCurrent,
        Busy, Fresh, Ended, Calls, Logins, Goto, Find
<1>1. CASE UNCHANGED vars
    BY <1>1 DEF vars
<1>2. CASE Lapse
    BY <1>2 DEF Lapse
<1>3. ASSUME NEW c \in Calls, Arrive(c), Quiet PROVE Serial'
    <2>1. CASE VerifyHit(c)
        BY <1>3, <2>1 DEF VerifyHit, Quiet
    <2>2. CASE VerifyMiss(c)
        BY <1>3, <2>2 DEF VerifyMiss, Quiet
    <2>3. CASE UpdateRow(c)
        BY <1>3, <2>3 DEF UpdateRow, Quiet
    <2>4. CASE SignInFind(c)
        BY <1>3, <2>4 DEF SignInFind, Quiet
    <2>5. CASE RefreshFind(c)
        BY <1>3, <2>5 DEF RefreshFind, Quiet
    <2>6. QED
        BY <1>3, <2>1, <2>2, <2>3, <2>4, <2>5 DEF Arrive
<1>4. ASSUME NEW c \in Calls, Continue(c) PROVE Serial'
    <2>1. CASE VerifyFind(c)
        BY <2>1 DEF VerifyFind
    <2>2. CASE VerifyTooLate(c)
        BY <2>2 DEF VerifyTooLate
    <2>3. CASE UpdateRead(c)
        BY <2>3 DEF UpdateRead
    <2>4. CASE UpdateTtl(c)
        BY <2>4 DEF UpdateTtl
    <2>5. CASE VerifyFill(c)
        <3>1. kept' = FALSE
            BY <2>5, Zenon DEF VerifyFill, SetCache
        <3>2. QED
            BY <2>5, <3>1 DEF VerifyFill, SetCache
    <2>6. CASE UpdateSet(c)
        <3>1. kept' = FALSE
            BY <2>6, Zenon DEF UpdateSet, SetCache
        <3>2. QED
            BY <2>6, <3>1 DEF UpdateSet, SetCache
    <2>7. CASE SignInInsert(c)
        BY <2>7 DEF SignInInsert, NoRowYet
    <2>8. CASE LoginFind(c)
        BY <2>8 DEF LoginFind
    <2>9. CASE LoginDelete(c)
        BY <2>9 DEF LoginDelete
    <2>10. CASE LoginIssue(c)
        BY <2>10 DEF LoginIssue
    <2>11. QED
        BY <1>4, <2>1, <2>2, <2>3, <2>4, <2>5, <2>6, <2>7, <2>8, <2>9, <2>10 DEF Continue
<1>5. alone' = (alone /\ Quiet) => Quiet
    BY Zenon
<1>6. QED
    BY <1>1, <1>2, <1>3, <1>4, <1>5 DEF Next

LEMMA StepInv == ASSUME EndsExactly = FALSE PROVE IInv /\ [Next]_vars => IInv'
<1> SUFFICES ASSUME IInv, [Next]_vars PROVE IInv'
    OBVIOUS
<1>1. TypeOK' /\ PlaceByKind'
    BY StepType DEF IInv
<1>2. NoRowYet' /\ UnknownOrMade'
    BY StepRace DEF IInv, Serial
<1>3. alone' => alone
    <2>1. alone' = alone \/ alone' = (alone /\ Quiet)
        BY DEF Next, vars
    <2>2. QED
        BY <2>1, Zenon
<1>4. alone' => Serial'
    BY <1>3, StepSerial DEF IInv
<1>5. QED
    BY <1>1, <1>2, <1>4 DEF IInv

LEMMA Invariance == ASSUME EndsExactly = FALSE PROVE Spec => []IInv
BY InitInv, StepInv, PTL DEF Spec

-----------------------------------------------------------------------------
(* A call gets to another place only by a step of its own.                 *)
LEMMA OwnStep ==
    ASSUME TypeOK, NEW c \in Calls, [Next]_vars, pc'[c] # pc[c]
    PROVE \/ Arrive(c) /\ alone' = (alone /\ Quiet)
          \/ Continue(c) /\ UNCHANGED alone
<1> USE DEF TypeOK, Goto
<1>1. CASE UNCHANGED vars
    BY <1>1 DEF vars
<1>2. CASE Lapse /\ UNCHANGED alone
    BY <1>2 DEF Lapse
<1>3. ASSUME NEW d \in Calls, Arrive(d), alone' = (alone /\ Quiet) PROVE c = d
    BY <1>3 DEF Arrive, VerifyHit, VerifyMiss, UpdateRow, SignInFind, RefreshFind
<1>4. ASSUME NEW d \in Calls, Continue(d), UNCHANGED alone PROVE c = d
    BY <1>4 DEF Continue, VerifyFind, VerifyFill, VerifyTooLate, UpdateRead, UpdateTtl, UpdateSet,
        SignInInsert, LoginFind, LoginDelete, LoginIssue
<1>5. QED
    BY <1>1, <1>2, <1>3, <1>4, Zenon DEF Next

(* Between calls that do not overlap nothing old is cached. *)
LEMMA FreshAlone == ASSUME IInv, alone, Quiet PROVE Fresh
BY Zenon DEF IInv, Serial, StaleOnlyInUpdate, Quiet, Busy, Calls

(* While calls do not overlap, once they are over the cache has no copy of *)
(* an older row: updateUserInfo replaces it and no fill undoes that.       *)
THEOREM FreshBetweenCalls == ASSUME EndsExactly = FALSE PROVE Spec => []CacheFresh
<1>1. IInv => CacheFresh
    BY FreshAlone, Zenon DEF CacheFresh
<1>2. QED
    BY <1>1, Invariance, PTL

(* Without overlap a token that verifyToken refuses for its version was    *)
(* issued before the last update of the user.                              *)
THEOREM OnlyOldTokensRefused == ASSUME EndsExactly = FALSE PROVE Spec => RefusedOnlyWhenOld
<1> DEFINE A == \A c \in Verifies :
                    alone' /\ pc'[c] = "mismatch" /\ pc[c] # "mismatch" => tok'[c] # version
<1>1. ASSUME IInv, [Next]_vars PROVE [A]_vars
    <2> SUFFICES ASSUME NEW c \in Verifies, alone', pc'[c] = "mismatch", pc[c] # "mismatch"
                 PROVE tok'[c] # version
        OBVIOUS
    <2>1. TypeOK /\ c \in Calls
        BY <1>1 DEF IInv, Calls
    <2>2. Arrive(c) /\ alone /\ Quiet
        <3>1. ~ Continue(c)
            BY <2>1, CallsAssumption DEF TypeOK, Calls, Logins, Goto, Continue, VerifyFind, VerifyFill,
                VerifyTooLate, UpdateRead, UpdateTtl, UpdateSet, SignInInsert, LoginFind,
                LoginDelete, LoginIssue
        <3>2. QED
            BY <1>1, <2>1, <3>1, OwnStep, Zenon
    <2>3. VerifyHit(c)
        BY <2>1, <2>2, CallsAssumption
            DEF TypeOK, Calls, Logins, Goto, Arrive, VerifyHit, VerifyMiss, UpdateRow, SignInFind, RefreshFind
    <2>4. cache = version
        BY <1>1, <2>2, <2>3, FreshAlone DEF VerifyHit, Fresh
    <2>5. QED
        BY <2>1, <2>3, <2>4 DEF VerifyHit, TypeOK, Goto
<1>2. QED
    BY <1>1, Invariance, PTL DEF Spec, RefusedOnlyWhenOld

(* Without overlap whatever succeeds, a verification, an update or a       *)
(* login, has worked with the row as it is when it ends.                   *)
THEOREM CurrentRowUsed == ASSUME EndsExactly = FALSE PROVE Spec => WorksWithCurrentRow
<1> DEFINE A == \A c \in Calls :
                    alone' /\ pc'[c] \in {"accepted", "done"} /\ pc[c] # pc'[c] => saw'[c] = version'
<1>1. ASSUME IInv, [Next]_vars PROVE [A]_vars
    <2> SUFFICES ASSUME NEW c \in Calls, alone', pc'[c] \in {"accepted", "done"}, pc[c] # pc'[c]
                 PROVE saw'[c] = version'
        OBVIOUS
    <2>1. TypeOK
        BY <1>1 DEF IInv
    <2>2. CASE Arrive(c) /\ alone' = (alone /\ Quiet)
        <3>1. VerifyHit(c)
            BY <2>1, <2>2 DEF TypeOK, Goto, Arrive, VerifyHit, VerifyMiss, UpdateRow, SignInFind, RefreshFind
        <3>2. alone /\ Quiet
            BY <2>2, Zenon
        <3>3. cache = version
            BY <1>1, <3>1, <3>2, FreshAlone DEF VerifyHit, Fresh
        <3>4. QED
            BY <2>1, <3>1, <3>3 DEF VerifyHit, TypeOK
    <2>3. CASE Continue(c) /\ UNCHANGED alone
        <3>1. ReadIsCurrent
            BY <1>1, <2>3, Zenon DEF IInv, Serial
        <3>2. pc[c] \in {"found", "timed", "deleted"} /\ UNCHANGED <<saw, version>>
            BY <2>1, <2>3 DEF TypeOK, Goto, Continue, VerifyFind, VerifyFill, VerifyTooLate, UpdateRead,
                UpdateTtl, UpdateSet, SignInInsert, LoginFind, LoginDelete, LoginIssue
        <3>3. QED
            BY <3>1, <3>2 DEF ReadIsCurrent
    <2>4. QED
        BY <1>1, <2>1, <2>2, <2>3, OwnStep
<1>2. QED
    BY <1>1, Invariance, PTL DEF Spec, WorksWithCurrentRow

(* A sign-in fails only when another one of the same customer made the row *)
(* between its find and its INSERT.                                        *)
THEOREM SignInsRace == ASSUME EndsExactly = FALSE PROVE Spec => SignInFailsOnlyInRace
<1> DEFINE A == \A c \in SignIns : pc'[c] = "failed" /\ pc[c] # "failed" =>
                    ~ alone' /\ \E d \in SignIns \ {c} : pc[d] # "idle"
<1>1. ASSUME IInv, [Next]_vars PROVE [A]_vars
    <2> SUFFICES ASSUME NEW c \in SignIns, pc'[c] = "failed", pc[c] # "failed"
                 PROVE ~ alone' /\ \E d \in SignIns \ {c} : pc[d] # "idle"
        OBVIOUS
    <2>1. TypeOK /\ c \in Calls
        BY <1>1 DEF IInv, Calls, Logins
    <2>2. SignInInsert(c) /\ UNCHANGED alone
        <3>1. ~ Arrive(c)
            BY <2>1, CallsAssumption DEF TypeOK, Calls, Logins, Goto, Arrive, VerifyHit, VerifyMiss, UpdateRow,
                SignInFind, RefreshFind
        <3>2. Continue(c) /\ UNCHANGED alone
            BY <1>1, <2>1, <3>1, OwnStep, Zenon
        <3>3. QED
            BY <2>1, <3>2, CallsAssumption DEF TypeOK, Calls, Logins, Goto, Continue, VerifyFind, VerifyFill,
                VerifyTooLate, UpdateRead, UpdateTtl, UpdateSet, LoginFind, LoginDelete, LoginIssue
    <2>3. pc[c] = "unknown" /\ version # 0
        BY <2>1, <2>2 DEF SignInInsert, TypeOK, Goto
    <2>4. QED
        BY <1>1, <2>2, <2>3, Zenon DEF IInv, UnknownOrMade
<1>2. QED
    BY <1>1, Invariance, PTL DEF Spec, SignInFailsOnlyInRace
=============================================================================

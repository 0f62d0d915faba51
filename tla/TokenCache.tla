----------------------------- MODULE TokenCache -----------------------------
(***************************************************************************)
(* One user in the user service (UserService of apps/user): the row that   *)
(* the first sign-in makes, its version, the copy of the row that Redis    *)
(* keeps under user:payload:<id>, and the calls that sign in, verify an    *)
(* access token, update the row and renew tokens.  Users share neither     *)
(* rows nor keys, so one user stands for all.                              *)
(*                                                                         *)
(* Every await is a point where other calls run.  Of a row and of a token  *)
(* only the version matters.  Tokens are named by their version; how long  *)
(* one still lives is left open at every verification.                     *)
(*                                                                         *)
(* Left out: tokens that are forged or expired, which touch nothing, and   *)
(* the errors for a user without a row, since nothing deletes a row and    *)
(* the id in a token or of a session is that of a row.                     *)
(***************************************************************************)
EXTENDS Integers

CONSTANTS
    Verifies, Updates,  \* verifyToken and updateUserInfo calls
    Refreshes,      \* refreshToken calls behind the guard of the gateway
    SignIns,        \* Google's callbacks for this user
    EndsExactly,    \* whether a time to live may come out as exactly 0
    None            \* no entry in the cache

Logins == Refreshes \cup SignIns
Calls == Verifies \cup Updates \cup Logins

ASSUME CallsAssumption ==
    /\ Verifies \cap Updates = {} /\ Verifies \cap Logins = {} /\ Updates \cap Logins = {}
    /\ Refreshes \cap SignIns = {}

ASSUME ConstantsAssumption == EndsExactly \in BOOLEAN /\ None \notin Nat

VARIABLES
    version,    \* version of the user's row, counted up by every UPDATE, 0 without one
    issued,     \* the versions of the access tokens that were issued
    cache,      \* version of the cached row, None without an entry
    kept,       \* whether the entry has no time to live
    saw,        \* the version of the row a call works with
    tok,        \* the token a call verifies
    pc,         \* where each call is, or how it ended
    alone       \* history: no call has begun while another was under way

vars == <<version, issued, cache, kept, saw, tok, pc, alone>>

Ended == {"accepted", "mismatch", "failed", "done"}

TypeOK ==
    /\ version \in Nat /\ issued \subseteq Nat
    /\ cache \in Nat \cup {None} /\ kept \in BOOLEAN
    /\ saw \in [Calls -> Nat] /\ tok \in [Calls -> Nat]
    /\ pc \in [Calls -> Ended \cup {"idle", "missed", "found", "written", "read", "timed", "deleted",
                              "unknown", "known"}]
    /\ alone \in BOOLEAN

(* A user who never signed in has neither row nor tokens.                  *)
Init ==
    /\ version \in {0, 1} /\ issued = {version} \ {0}
    /\ cache = None /\ kept = FALSE
    /\ saw = [c \in Calls |-> 0] /\ tok = [c \in Calls |-> 0]
    /\ pc = [c \in Calls |-> "idle"]
    /\ alone = TRUE

-----------------------------------------------------------------------------
Goto(c, l) == pc' = [pc EXCEPT ![c] = l]

(* The user's row as the database has it now.                              *)
Find(c) == saw' = [saw EXCEPT ![c] = version]

(* RedisService.set: a time to live of 0 is taken for none at all.         *)
SetCache(v) == cache' = v /\ kept' \in {FALSE, EndsExactly}

(* A hit decides by the version, and answers with the cached user.         *)
VerifyHit(c) ==
    /\ c \in Verifies /\ pc[c] = "idle" /\ cache # None
    /\ \E v \in issued :
          /\ tok' = [tok EXCEPT ![c] = v]
          /\ Goto(c, IF cache = v THEN "accepted" ELSE "mismatch")
    /\ saw' = [saw EXCEPT ![c] = cache]
    /\ UNCHANGED <<version, issued, cache, kept>>

VerifyMiss(c) ==
    /\ c \in Verifies /\ pc[c] = "idle" /\ cache = None
    /\ \E v \in issued : tok' = [tok EXCEPT ![c] = v]
    /\ Goto(c, "missed")
    /\ UNCHANGED <<version, issued, cache, kept, saw>>

VerifyFind(c) ==
    /\ c \in Verifies /\ pc[c] = "missed"
    /\ Find(c)
    /\ Goto(c, "found")
    /\ UNCHANGED <<version, issued, cache, kept, tok>>

(* Mutant of VerifyFill: the entry is set without its time to live.        *)
FillForever(c) ==
    /\ c \in Verifies /\ pc[c] = "found"
    /\ cache' = saw[c] /\ kept' = TRUE
    /\ Goto(c, "accepted")
    /\ UNCHANGED <<version, issued, saw, tok>>

(* Mutant of VerifyFill: the payload of the token is cached, not the row.  *)
FillPayload(c) ==
    /\ c \in Verifies /\ pc[c] = "found"
    /\ SetCache(tok[c])
    /\ Goto(c, "accepted")
    /\ UNCHANGED <<version, issued, saw, tok>>

(* The row is cached until five minutes before the token ends, and the     *)
(* token accepted, whatever its version.                                   *)
VerifyFill(c) ==
    /\ c \in Verifies /\ pc[c] = "found"
    /\ SetCache(saw[c])
    /\ Goto(c, "accepted")
    /\ UNCHANGED <<version, issued, saw, tok>>

(* In the token's last five minutes Redis refuses the negative time to     *)
(* live, and the catch block refuses the token.                            *)
VerifyTooLate(c) ==
    /\ c \in Verifies /\ pc[c] = "found"
    /\ Goto(c, "failed")
    /\ UNCHANGED <<version, issued, cache, kept, saw, tok>>

-----------------------------------------------------------------------------
(* The gateway lets a user with an access token update the own row.        *)
UpdateRow(c) ==
    /\ c \in Updates /\ pc[c] = "idle" /\ issued # {}
    /\ version' = version + 1
    /\ Goto(c, "written")
    /\ UNCHANGED <<issued, cache, kept, saw, tok>>

UpdateRead(c) ==
    /\ c \in Updates /\ pc[c] = "written"
    /\ Find(c)
    /\ Goto(c, "read")
    /\ UNCHANGED <<version, issued, cache, kept, tok>>

(* TTL answers -2 without an entry and -1 when it has no end.  Redis then  *)
(* refuses the SET and the caller gets an error; the row stays updated.    *)
UpdateTtl(c) ==
    /\ c \in Updates /\ pc[c] = "read"
    /\ Goto(c, IF cache = None \/ kept THEN "failed" ELSE "timed")
    /\ UNCHANGED <<version, issued, cache, kept, saw, tok>>

(* Mutant of UpdateSet: the cached copy is not replaced.                   *)
UpdateLeaves(c) ==
    /\ c \in Updates /\ pc[c] = "timed"
    /\ Goto(c, "done")
    /\ UNCHANGED <<version, issued, cache, kept, saw, tok>>

UpdateSet(c) ==
    /\ c \in Updates /\ pc[c] = "timed"
    /\ SetCache(saw[c])
    /\ Goto(c, "done")
    /\ UNCHANGED <<version, issued, saw, tok>>

-----------------------------------------------------------------------------
(* Mutant of SignInFind: the provider is compared with another spelling.   *)
SignInFindNobody(c) ==
    /\ c \in SignIns /\ pc[c] = "idle"
    /\ Goto(c, "unknown")
    /\ UNCHANGED <<version, issued, cache, kept, saw, tok>>

(* findOrCreateUserByGoogle, in the strategy's validate.                   *)
SignInFind(c) ==
    /\ c \in SignIns /\ pc[c] = "idle"
    /\ Goto(c, IF version = 0 THEN "unknown" ELSE "known")
    /\ UNCHANGED <<version, issued, cache, kept, saw, tok>>

(* The providerId is unique: the second of two INSERTs fails, and its      *)
(* sign-in with it.                                                        *)
SignInInsert(c) ==
    /\ c \in SignIns /\ pc[c] = "unknown"
    /\ IF version = 0
       THEN version' = 1 /\ Goto(c, "known")
       ELSE UNCHANGED version /\ Goto(c, "failed")
    /\ UNCHANGED <<issued, cache, kept, saw, tok>>

(* A refresh token passes by its signature alone, whatever its version.    *)
RefreshFind(c) ==
    /\ c \in Refreshes /\ pc[c] = "idle" /\ issued # {}
    /\ Find(c)
    /\ Goto(c, "found")
    /\ UNCHANGED <<version, issued, cache, kept, tok>>

(* issueTokenByUserId finds the row once more, by its id.                  *)
LoginFind(c) ==
    /\ c \in SignIns /\ pc[c] = "known"
    /\ Find(c)
    /\ Goto(c, "found")
    /\ UNCHANGED <<version, issued, cache, kept, tok>>

LoginDelete(c) ==
    /\ c \in Logins /\ pc[c] = "found"
    /\ cache' = None /\ kept' = FALSE
    /\ Goto(c, "deleted")
    /\ UNCHANGED <<version, issued, saw, tok>>

LoginIssue(c) ==
    /\ c \in Logins /\ pc[c] = "deleted"
    /\ issued' = issued \cup {saw[c]}
    /\ Goto(c, "done")
    /\ UNCHANGED <<version, cache, kept, saw, tok>>

-----------------------------------------------------------------------------
(* The time to live of the entry is over.                                  *)
Lapse ==
    /\ cache # None /\ ~ kept
    /\ cache' = None
    /\ UNCHANGED <<version, issued, kept, saw, tok, pc>>

Arrive(c) == VerifyHit(c) \/ VerifyMiss(c) \/ UpdateRow(c) \/ SignInFind(c) \/ RefreshFind(c)

Continue(c) ==
    \/ VerifyFind(c) \/ VerifyFill(c) \/ VerifyTooLate(c)
    \/ UpdateRead(c) \/ UpdateTtl(c) \/ UpdateSet(c)
    \/ SignInInsert(c) \/ LoginFind(c) \/ LoginDelete(c) \/ LoginIssue(c)

Quiet == \A c \in Calls : pc[c] \in Ended \cup {"idle"}

(* A client that waits for every answer before its next call keeps alone.  *)
Next ==
    \/ Lapse /\ UNCHANGED alone
    \/ \E c \in Calls : Arrive(c) /\ alone' = (alone /\ Quiet)
    \/ \E c \in Calls : Continue(c) /\ UNCHANGED alone

Spec == Init /\ [][Next]_vars

(* Continuations run, and Redis drops an entry whose time is over.         *)
FairSpec ==
    /\ Spec
    /\ WF_vars(Lapse /\ UNCHANGED alone)
    /\ \A c \in Calls : WF_vars(Continue(c) /\ UNCHANGED alone)

-----------------------------------------------------------------------------
Fresh == cache \in {None, version}

(* Between calls that do not overlap the cache has no copy of an older     *)
(* row: an update replaces it and no fill undoes that (226-238).           *)
CacheFresh == alone /\ Quiet => Fresh

(* A call that succeeds works with the row as it is: the gateway acts for  *)
(* the user as last updated, an update answers with what it wrote, and a   *)
(* login issues tokens that carry the current version - as long as calls   *)
(* do not overlap, whatever fails and lapses in between.                   *)
WorksWithCurrentRow ==
    [][\A c \in Calls :
          alone' /\ pc'[c] \in {"accepted", "done"} /\ pc[c] # pc'[c] => saw'[c] = version']_vars

(* Then too, a token is refused for its version only when the user's row   *)
(* has changed since the token was issued (168-171).                       *)
RefusedOnlyWhenOld ==
    [][\A c \in Verifies :
          alone' /\ pc'[c] = "mismatch" /\ pc[c] # "mismatch" => tok'[c] # version]_vars

(* A customer is turned away at the sign-in only when another sign-in of   *)
(* the same customer made the row between its find and its INSERT (37-49). *)
SignInFailsOnlyInRace ==
    [][\A c \in SignIns : pc'[c] = "failed" /\ pc[c] # "failed" =>
          ~ alone' /\ \E d \in SignIns \ {c} : pc[d] # "idle"]_vars

(* However calls overlap, a stale copy that one of them leaves in the      *)
(* cache does not stay: from some point on the cache is fresh (182-191).   *)
StaleCacheHeals == <>[]Fresh
=============================================================================

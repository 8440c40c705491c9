------------------------------ MODULE Moderation ------------------------------
(***************************************************************************)
(* apps/api/src/moderation and the moderation routes of apps/api/src/admin:*)
(* the worker judges each launch it hears of, administrators overrule it,  *)
(* and both write the token's row of moderation_status, the worker all of  *)
(* its columns and a route some of them.                                   *)
(*                                                                         *)
(* The worker's verdict depends on the message and on the scores cached    *)
(* for its image, and the launch messages of the indexer name no image, so *)
(* that a message waiting for the worker and one whose processLaunch waits *)
(* for the database are the same here.                                     *)
(***************************************************************************)
EXTENDS FiniteSets

CONSTANTS
    Listed,         \* bound: the tokens whose moderation is followed
    Impersonator    \* those whose name or ticker is on the watchlist

ASSUME ModerationAssumption == IsFiniteSet(Listed) /\ Impersonator \subseteq Listed

VARIABLES
    launches,       \* launch messages on their way to the worker
    moderation      \* moderation_status

moderationVars == <<launches, moderation>>

Visibility == {"visible", "pending_review", "hidden"}

(* The columns' defaults, and whether there is a row at all. *)
NoStatus ==
    [exists |-> FALSE, visibility |-> "visible", nsfw |-> "none", csam_flag |-> FALSE,
     impersonation_flag |-> FALSE, reviewed |-> FALSE]

ModerationInit == launches = {} /\ moderation = [t \in Listed |-> NoStatus]

(* evaluateVisibility; nsfw is the score's class by the two thresholds. *)
evaluateVisibility(s, vendorUnavailable) ==
    IF s.csam_flag THEN "hidden"
    ELSE IF vendorUnavailable THEN "pending_review"
    ELSE IF s.nsfw = "hide" THEN "hidden"
    ELSE IF s.nsfw = "review" \/ s.impersonation_flag THEN "pending_review"
    ELSE "visible"

publishLaunch(t) == launches' = launches \cup {t}

(* processLaunch: no image, so no cached score and no vendor to wait for. *)
Signals(t) ==
    [csam_flag |-> FALSE, nsfw |-> "none", impersonation_flag |-> t \in Impersonator]

Judged(t) ==
    LET s == Signals(t) IN
    [exists |-> TRUE, visibility |-> evaluateVisibility(s, FALSE), nsfw |-> s.nsfw,
     csam_flag |-> s.csam_flag, impersonation_flag |-> s.impersonation_flag,
     reviewed |-> FALSE]

processLaunch(t) ==
    /\ t \in launches
    /\ launches' = launches \ {t}
    /\ moderation' = [moderation EXCEPT ![t] = Judged(t)]

(* The worker is away, or its database write fails: nobody tries again. *)
LaunchMissed(t) ==
    /\ t \in launches
    /\ launches' = launches \ {t}
    /\ UNCHANGED moderation

(* Mutation of setImpersonation: the reviewer is not named. *)
setImpersonationUnsigned(t, flagged) ==
    /\ moderation' = [moderation EXCEPT ![t] =
                        [@ EXCEPT !.exists = TRUE, !.impersonation_flag = flagged]]
    /\ UNCHANGED launches

(* The two routes: buildModerationUpsert touches the named columns only. *)
setVisibility(t, visibility) ==
    /\ moderation' = [moderation EXCEPT ![t] =
                        [@ EXCEPT !.exists = TRUE, !.visibility = visibility,
                                  !.reviewed = TRUE]]
    /\ UNCHANGED launches

setImpersonation(t, flagged) ==
    /\ moderation' = [moderation EXCEPT ![t] =
                        [@ EXCEPT !.exists = TRUE, !.impersonation_flag = flagged,
                                  !.reviewed = TRUE]]
    /\ UNCHANGED launches
=============================================================================

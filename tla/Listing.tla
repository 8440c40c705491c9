------------------------------- MODULE Listing -------------------------------
(***************************************************************************)
(* What the site shows of a token besides its trades: the verified         *)
(* document (MetadataVerifier, in the indexer) and the listing's           *)
(* moderation (Moderation, in the API).  The TokenCreated handler feeds    *)
(* both, the first by a row of tokens and the second by a launch message;  *)
(* administrators reach both, the first by a control message.              *)
(***************************************************************************)
EXTENDS MetadataVerifier, Moderation

CONSTANTS
    MaxFaults,      \* bound: failed writes, lost messages, restarts, reorganisations
    MaxOrders,      \* bound: administrators' orders
    MaxSpent        \* bound: those and the changes of the storage together

ASSUME ListingAssumption ==
    Listed \subseteq Token /\ MaxFaults \in Nat /\ MaxOrders \in Nat
    /\ MaxSpent \in Nat

VARIABLES
    created,        \* tokens 1 .. created have a row in tokens
    faults, orders  \* so far

siteVars == <<created, faults, orders>>
vars == <<verifierVars, moderationVars, siteVars>>

Init ==
    /\ VerifierInit /\ ModerationInit
    /\ created = 0 /\ faults = 0 /\ orders = 0

Tokens == 1 .. created

-----------------------------------------------------------------------------
TokenCreated ==
    /\ created < N
    /\ created' = created + 1
    /\ IF created + 1 \in Listed THEN publishLaunch(created + 1) ELSE UNCHANGED launches
    /\ UNCHANGED <<verifierVars, moderation, faults, orders>>

Spare == changes + faults + orders < MaxSpent

Fault == faults < MaxFaults /\ Spare /\ faults' = faults + 1 /\ UNCHANGED <<created, orders>>

Order == orders < MaxOrders /\ Spare /\ orders' = orders + 1 /\ UNCHANGED <<created, faults>>

(* Ponder takes back the last token's row; the rows of the verifier and of *)
(* the moderation are not its own and stay.  The address will be that of   *)
(* the same launch again, or of another: it comes from a plain CREATE.     *)
Reorganised ==
    /\ created > 0 /\ faults < MaxFaults /\ Spare
    /\ created' = created - 1 /\ faults' = faults + 1
    /\ \/ UNCHANGED verifierVars
       \/ \E content \in Uploaded : Relaunched(created, content)
    /\ UNCHANGED <<moderationVars, orders>>

Begins == \E p \in Pass : PassBegins(p, Tokens) /\ UNCHANGED <<moderationVars, siteVars>>

Verifies(p) ==
    /\ Fetched(p) \/ Written(p)
    /\ UNCHANGED <<moderationVars, siteVars>>

Requeues == \E t \in Token : requeue(t) /\ UNCHANGED <<moderationVars, siteVars>>

TimePasses(t) == Ages(t) /\ UNCHANGED <<moderationVars, siteVars>>

StorageChanges ==
    /\ Spare
    /\ \E t \in Token, content \in {"missing", "committed", "other", "junk"} :
          Replaced(t, content)
    /\ UNCHANGED <<moderationVars, siteVars>>

VerifierFaults ==
    /\ (\E p \in Pass : WriteFails(p)) \/ VerifierRestarts
    /\ Fault /\ UNCHANGED moderationVars

Judges == \E t \in Listed : processLaunch(t) /\ UNCHANGED <<verifierVars, siteVars>>

WorkerFaults == \E t \in Listed : LaunchMissed(t) /\ Fault /\ UNCHANGED verifierVars

AdminVerdict ==
    /\ \E t \in Listed \cap Tokens :
          \/ \E v \in {"visible", "hidden"} : setVisibility(t, v)
          \/ \E flagged \in BOOLEAN : setImpersonation(t, flagged)
    /\ Order /\ UNCHANGED verifierVars

AdminReverify ==
    /\ \E t \in Tokens : RequestReverify(t)
    /\ Order /\ UNCHANGED moderationVars

Next ==
    \/ TokenCreated \/ Reorganised \/ StorageChanges
    \/ Begins
    \/ \E p \in Pass : Verifies(p)
    \/ \E t \in Token : TimePasses(t)
    \/ Requeues \/ VerifierFaults
    \/ Judges \/ WorkerFaults \/ AdminVerdict \/ AdminReverify

(* The timer fires, an awaited call ends, and time passes. *)
Fairness ==
    /\ WF_vars(Begins)
    /\ \A p \in Pass : WF_vars(Verifies(p))
    /\ \A t \in Token : WF_vars(TimePasses(t))

Spec == Init /\ [][Next]_vars /\ Fairness

-----------------------------------------------------------------------------
Document == {"committed", "other"}

TypeOK ==
    /\ object \in [Token -> Document \cup {"missing", "junk"}] /\ changes \in 0 .. MaxChanges
    /\ row \in [Token -> [status  : {"null", "unfetched", "match", "mismatch"},
                          current : BOOLEAN,
                          age     : {"fresh", "resting", "due"},
                          display : Document \cup {"none"}]]
    /\ \A t \in Token : row[t].status = "null" => row[t] = NoRow
    /\ \A p \in Pass :
          /\ pass[p].todo \in Seq(Token) /\ Len(pass[p].todo) <= LIMIT
          /\ IsInjective(pass[p].todo) /\ pass[p].stale \subseteq Token
          /\ pass[p].got \in Document \cup {"missing", "junk", Pending}
    /\ reverify \subseteq Token /\ launches \subseteq Listed
    /\ moderation \in [Listed -> [exists : BOOLEAN, visibility : Visibility,
                                 nsfw : {"none", "low", "review", "hide"},
                                 csam_flag : BOOLEAN, impersonation_flag : BOOLEAN,
                                 reviewed : BOOLEAN]]
    /\ \A t \in Listed : moderation[t].exists \/ moderation[t] = NoStatus
    /\ created \in 0 .. N /\ faults \in 0 .. MaxFaults /\ orders \in 0 .. MaxOrders

(* writeVerification: through failed fetches, broken documents, orders to  *)
(* verify again, passes that overlap and restarts, a token that once had   *)
(* fields to show keeps some.                                              *)
DisplayNeverLost ==
    [][\A t \in Token : row[t].display # "none" => row'[t].display # "none"]_vars

(* Verdict and fields are kept by two rules, the fields outliving the      *)
(* attempt they come from (metadataStore.ts 66-110).  If the committed     *)
(* document yields fields, a match of the hash now on chain stands over    *)
(* these and no others.  If it yields none, being outside the schema, it   *)
(* matches all the same, by its hash (metadata.ts 178-199), and an earlier *)
(* document's fields stay under the badge; so does, until the next         *)
(* attempt, the match of another launch that had the address.              *)
MatchShowsItsFields ==
    \A t \in Token : row[t].status = "match" /\ row[t].current
        => extractDisplayFields(t, "committed") \in {"none", row[t].display}

(* reverifyDelayMs: a verdict is never final.  Once the storage serves the *)
(* committed document for good, the row says so for good, of the hash now  *)
(* on chain, whatever was fetched before, is still in flight, was ordered, *)
(* or was launched at the address before.                                  *)
VerdictSettles ==
    \A t \in Token :
        <>[](t <= created /\ object[t] = "committed")
            => <>[](row[t].status = "match" /\ row[t].current)

(* The worker writes verdict and flags, a route one of them: unless an     *)
(* administrator is named, a token's visibility is what its flags demand.  *)
UnreviewedFollowsFlags ==
    \A t \in Listed :
        ~moderation[t].reviewed =>
            moderation[t].visibility = evaluateVisibility(moderation[t], FALSE)

(* requeue: "Make the row immediately due", and the poller picks it up:    *)
(* while an unfetched row is due, a pass finds something to do.            *)
DueRowsAreFound ==
    (\E t \in Tokens : row[t].status = "unfetched" /\ isDue(t)) => selectDue(Tokens) # <<>>
=============================================================================

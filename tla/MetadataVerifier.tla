-------------------------- MODULE MetadataVerifier --------------------------
(***************************************************************************)
(* apps/indexer/src/metadata.ts and metadataStore.ts: the job that fetches *)
(* the document behind each token's metadataUri, compares its hash with    *)
(* the one committed on chain, and keeps the verdict and the fields shown  *)
(* for the token.  A pass is started by a timer that does not wait for the *)
(* last pass, works through the rows it has read at its start, and awaits  *)
(* a fetch and a write for each.                                           *)
(*                                                                         *)
(* Tokens are numbered in the order of their blocks, the order of the      *)
(* query.  Time is the age of a row's last attempt: "fresh" is under the   *)
(* minute of the query's coarse filter, "due" is past reverifyDelayMs,     *)
(* which is at least five minutes for a row that has been tried once.      *)
(*                                                                         *)
(* A token is an address.  After a reorganisation another launch can have  *)
(* it, with a hash and a document of its own, while the row, keyed by the  *)
(* address, stays: documents are named by what they are to the launch that *)
(* has the address, and a row is current if its onchain_hash is that of    *)
(* this launch.                                                            *)
(***************************************************************************)
EXTENDS Integers, Sequences, FiniteSets, Functions

CONSTANTS
    N,              \* tokens 1 .. N can be launched
    Canonical,      \* those whose committed document has the shared schema
    LIMIT,          \* rows a pass takes (runVerifierPass)
    Uploaded,       \* bound: what the storage serves of a token at first
    Pass,           \* bound: passes that run at the same time
    MaxChanges      \* bound: changes of what the storage serves

Token == 1 .. N

ASSUME VerifierAssumption ==
    /\ N \in Nat \ {0} /\ LIMIT \in Nat \ {0} /\ Canonical \subseteq Token
    /\ Uploaded \subseteq {"missing", "committed", "other", "junk"}
    /\ MaxChanges \in Nat /\ IsFiniteSet(Pass)

VARIABLES
    object,         \* what a fetch of the token's document gets
    changes,        \* changes of it so far
    row,            \* metadata_verifications; status "null" where there is none
    pass,           \* rows a pass has still to do, those of them it read before
                    \* another launch took the address, and what it has fetched
    reverify        \* control:reverify messages on their way

verifierVars == <<object, changes, row, pass, reverify>>

NoRow == [status |-> "null", current |-> FALSE, age |-> "due", display |-> "none"]
Pending == "pending"
Done == [todo |-> <<>>, stale |-> {}, got |-> Pending]

VerifierInit ==
    /\ object \in [Token -> Uploaded]
    /\ changes = 0
    /\ row = [t \in Token |-> NoRow]
    /\ pass = [p \in Pass |-> Done]
    /\ reverify = {}

-----------------------------------------------------------------------------
(* Outside the program: the document is put, replaced, broken or lost.     *)
(* "other" is a document of the schema that was not committed, "junk" is   *)
(* not JSON.                                                               *)
Replaced(t, content) ==
    /\ changes < MaxChanges /\ content # object[t]
    /\ object' = [object EXCEPT ![t] = content]
    /\ changes' = changes + 1
    /\ UNCHANGED <<row, pass, reverify>>

(* Fields of a document, to the launch that has the address. *)
Shown(display, current) == IF display = "committed" /\ ~current THEN "other" ELSE display

Outdated(old) ==
    [status  |-> old.status, current |-> FALSE, age |-> old.age,
     display |-> Shown(old.display, FALSE)]

(* Another launch takes the address: its uri serves a document of its own, *)
(* and what was committed before is some other document now.               *)
Relaunched(t, content) ==
    /\ object' = [object EXCEPT ![t] = content]
    /\ row' = [row EXCEPT ![t] = Outdated(@)]
    /\ pass' = [p \in Pass |-> [pass[p] EXCEPT !.stale = @ \cup ({t} \cap Range(pass[p].todo))]]
    /\ UNCHANGED <<changes, reverify>>

(* Time passes for a row. *)
Ages(t) ==
    /\ row[t].status # "null" /\ row[t].age # "due"
    /\ row' = [row EXCEPT ![t].age = IF @ = "fresh" THEN "resting" ELSE "due"]
    /\ UNCHANGED <<object, changes, pass, reverify>>

-----------------------------------------------------------------------------
(* selectDue: the coarse filter and the window of the query, then the      *)
(* exact schedule, then the limit.                                         *)
(* Mutation: only a failed fetch is tried again. *)
isDueUntilSettled(t) ==
    row[t].status = "null" \/ (row[t].age = "due" /\ row[t].status = "unfetched")

isDue(t) == row[t].status = "null" \/ row[t].age = "due"

Candidates(tokens) == {t \in tokens : row[t].status = "null" \/ row[t].age # "fresh"}

Before(t, u) ==
    LET seeded(x) == IF row[x].status = "null" THEN 0 ELSE 1
    IN  seeded(t) < seeded(u) \/ (seeded(t) = seeded(u) /\ t < u)

(* The place of t among the rows of S, from 0; LIMIT; and ORDER BY. *)
Rank(t, S) == Cardinality({u \in S : Before(u, t)})

FirstOf(n, S) == {t \in S : Rank(t, S) < n}

InOrder(S) == [i \in 1 .. Cardinality(S) |-> CHOOSE t \in S : Rank(t, S) = i - 1]

selectDue(tokens) ==
    LET window == FirstOf(4 * LIMIT, Candidates(tokens))
    IN  InOrder(FirstOf(LIMIT, {t \in window : isDue(t)}))

(* runVerifierPass begins; one that finds nothing due ends at once. *)
PassBegins(p, tokens) ==
    /\ pass[p] = Done /\ selectDue(tokens) # <<>>
    /\ pass' = [pass EXCEPT ![p].todo = selectDue(tokens)]
    /\ UNCHANGED <<object, changes, row, reverify>>

(* What a fetch for t gets: due.metadataUri was read with the row, and an  *)
(* earlier launch's may serve anything.                                    *)
Served(p, t) ==
    IF t \in pass[p].stale THEN {"missing", "committed", "other", "junk"} ELSE {object[t]}

(* verifyOne: the fetch is answered. *)
Fetched(p) ==
    /\ pass[p].todo # <<>> /\ pass[p].got = Pending
    /\ \E content \in Served(p, Head(pass[p].todo)) : pass' = [pass EXCEPT ![p].got = content]
    /\ UNCHANGED <<object, changes, row, reverify>>

extractDisplayFields(t, content) ==
    IF content = "other" \/ (content = "committed" /\ t \in Canonical) THEN content ELSE "none"

(* Mutation: a failed fetch leaves no status. *)
decideOrNull(t, content) ==
    [status  |-> IF content = "missing" THEN "null"
                 ELSE IF content = "committed" THEN "match" ELSE "mismatch",
     display |-> extractDisplayFields(t, content)]

decideVerification(t, content) ==
    [status  |-> IF content = "missing" THEN "unfetched"
                 ELSE IF content = "committed" THEN "match" ELSE "mismatch",
     display |-> extractDisplayFields(t, content)]

(* Mutations of Verified: fields follow the attempt; fields never change.    *)
VerifiedOverwrites(old, outcome, current) ==
    [status |-> outcome.status, current |-> current, age |-> "fresh",
     display |-> Shown(outcome.display, current)]

VerifiedKeepsFirst(old, outcome, current) ==
    [status  |-> outcome.status, current |-> current, age |-> "fresh",
     display |-> IF old.display # "none" THEN old.display
                 ELSE Shown(outcome.display, current)]

(* writeVerification keeps the last display fields if there are no new,    *)
(* and writes the hash that was read with the row.                         *)
Verified(old, outcome, current) ==
    [status  |-> outcome.status, current |-> current, age |-> "fresh",
     display |-> IF outcome.display # "none" THEN Shown(outcome.display, current)
                 ELSE old.display]

NextRow(p) ==
    [pass EXCEPT ![p] = [todo |-> Tail(@.todo), stale |-> @.stale \ {Head(@.todo)},
                         got |-> Pending]]

Written(p) ==
    /\ pass[p].got # Pending
    /\ LET t == Head(pass[p].todo) IN
       row' = [row EXCEPT ![t] = Verified(@, decideVerification(t, pass[p].got),
                                          t \notin pass[p].stale)]
    /\ pass' = NextRow(p)
    /\ UNCHANGED <<object, changes, reverify>>

(* The write fails: the error is logged and the pass goes on. *)
WriteFails(p) ==
    /\ pass[p].got # Pending
    /\ pass' = NextRow(p)
    /\ UNCHANGED <<object, changes, row, reverify>>

-----------------------------------------------------------------------------
(* POST /v1/admin/metadata/:token/reverify only publishes. *)
RequestReverify(t) ==
    /\ reverify' = reverify \cup {t}
    /\ UNCHANGED <<object, changes, row, pass>>

(* subscribeReverify: the row is made due; there is none to make before    *)
(* the first attempt.                                                      *)
requeue(t) ==
    /\ t \in reverify
    /\ reverify' = reverify \ {t}
    /\ row' = [row EXCEPT ![t] = IF @.status = "null" THEN @
                                 ELSE [@ EXCEPT !.status = "unfetched", !.age = "due"]]
    /\ UNCHANGED <<object, changes, pass>>

(* The process ends: passes and undelivered messages are gone, rows stay. *)
VerifierRestarts ==
    /\ pass' = [p \in Pass |-> Done]
    /\ reverify' = {}
    /\ UNCHANGED <<object, changes, row>>
=============================================================================

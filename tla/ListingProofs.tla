---------------------------- MODULE ListingProofs ----------------------------
(***************************************************************************)
(* What holds of the verifier's rows and passes and of the moderation's    *)
(* rows, for any tokens, any number of overlapping passes, any limit of a  *)
(* pass and any faults, orders and changes of the storage.                 *)
(***************************************************************************)
EXTENDS Listing, FiniteSetTheorems, TLAPS

Row ==
    [status  : {"null", "unfetched", "match", "mismatch"},
     current : BOOLEAN,
     age     : {"fresh", "resting", "due"},
     display : Document \cup {"none"}]

Status ==
    [exists : BOOLEAN, visibility : Visibility, nsfw : {"none", "low", "review", "hide"},
     csam_flag : BOOLEAN, impersonation_flag : BOOLEAN, reviewed : BOOLEAN]

-----------------------------------------------------------------------------
(* The four ways in which a row of metadata_verifications changes.         *)
Aged(t) == row' = [row EXCEPT ![t].age = IF @ = "fresh" THEN "resting" ELSE "due"]

Attempted(t, content, current) ==
    row' = [row EXCEPT ![t] = Verified(@, decideVerification(t, content), current)]

Requeued(t) ==
    row' = [row EXCEPT ![t] = IF @.status = "null" THEN @
                              ELSE [@ EXCEPT !.status = "unfetched", !.age = "due"]]

LosesLaunch(t) == row' = [row EXCEPT ![t] = Outdated(@)]

RowMoves ==
    \/ row' = row
    \/ \E t \in Token : Aged(t) \/ Requeued(t)
    \/ \E t : LosesLaunch(t)
    \/ \E t, content : \E current \in BOOLEAN : Attempted(t, content, current)

(* The three ways in which a row of moderation_status does. *)
StatusMoves ==
    \/ moderation' = moderation
    \/ \E t \in Listed : moderation' = [moderation EXCEPT ![t] = Judged(t)]
    \/ \E t \in Listed, v \in Visibility :
          moderation' = [moderation EXCEPT ![t] =
                            [@ EXCEPT !.exists = TRUE, !.visibility = v, !.reviewed = TRUE]]
    \/ \E t \in Listed, flagged \in BOOLEAN :
          moderation' = [moderation EXCEPT ![t] =
                            [@ EXCEPT !.exists = TRUE, !.impersonation_flag = flagged,
                                      !.reviewed = TRUE]]

LEMMA RowMovesOnly == [Next]_vars => RowMoves
  <1> SUFFICES ASSUME [Next]_vars PROVE RowMoves
    OBVIOUS
  <1>1. CASE \E p \in Pass : Verifies(p)
    <2>1. PICK p \in Pass : Verifies(p)
      BY <1>1
    <2>2. CASE Fetched(p)
      BY <2>2 DEF Fetched, RowMoves
    <2>3. CASE Written(p)
      <3> DEFINE t == Head(pass[p].todo)
                 current == t \notin pass[p].stale
      <3>1. Attempted(t, pass[p].got, current) /\ current \in BOOLEAN
        BY <2>3 DEF Written, Attempted
      <3> QED BY <3>1 DEF RowMoves
    <2>. QED  BY <2>1, <2>2, <2>3 DEF Verifies
  <1>2. CASE \E t \in Token : TimePasses(t)
    BY <1>2 DEF TimePasses, Ages, Aged, RowMoves
  <1>3. CASE Requeues
    BY <1>3 DEF Requeues, requeue, Requeued, RowMoves
  <1>4. CASE TokenCreated \/ StorageChanges \/ Begins
    BY <1>4 DEF TokenCreated, StorageChanges, Begins, Replaced, PassBegins, verifierVars, RowMoves
  <1>7. CASE Reorganised
    BY <1>7 DEF Reorganised, Relaunched, verifierVars, RowMoves, LosesLaunch
  <1>5. CASE VerifierFaults \/ Judges \/ WorkerFaults \/ AdminVerdict \/ AdminReverify
    BY <1>5 DEF VerifierFaults, WriteFails, VerifierRestarts, Judges, WorkerFaults, AdminVerdict,
                AdminReverify, RequestReverify, verifierVars, RowMoves
  <1>6. CASE UNCHANGED vars
    BY <1>6 DEF vars, verifierVars, RowMoves
  <1>. QED  BY <1>1, <1>2, <1>3, <1>4, <1>5, <1>6, <1>7 DEF Next

LEMMA StatusMovesOnly == [Next]_vars => StatusMoves
  <1> SUFFICES ASSUME [Next]_vars PROVE StatusMoves
    OBVIOUS
  <1>1. CASE Judges
    BY <1>1 DEF Judges, processLaunch, StatusMoves
  <1>2. CASE AdminVerdict
    <2>1. PICK t \in Listed \cap Tokens :
             \/ \E v \in {"visible", "hidden"} : setVisibility(t, v)
             \/ \E flagged \in BOOLEAN : setImpersonation(t, flagged)
      BY <1>2 DEF AdminVerdict
    <2>2. CASE \E v \in {"visible", "hidden"} : setVisibility(t, v)
      BY <2>2 DEF setVisibility, StatusMoves, Visibility
    <2>3. CASE \E flagged \in BOOLEAN : setImpersonation(t, flagged)
      BY <2>3 DEF setImpersonation, StatusMoves
    <2>. QED  BY <2>1, <2>2, <2>3
  <1>3. CASE TokenCreated \/ Reorganised \/ StorageChanges \/ Begins \/ Requeues
    BY <1>3 DEF TokenCreated, Reorganised, StorageChanges, Begins, Requeues,
                moderationVars, StatusMoves
  <1>4. CASE (\E p \in Pass : Verifies(p)) \/ (\E t \in Token : TimePasses(t))
    BY <1>4 DEF Verifies, TimePasses, moderationVars, StatusMoves
  <1>5. CASE VerifierFaults \/ WorkerFaults \/ AdminReverify
    BY <1>5 DEF VerifierFaults, WorkerFaults, LaunchMissed, AdminReverify, moderationVars,
                StatusMoves
  <1>6. CASE UNCHANGED vars
    BY <1>6 DEF vars, moderationVars, StatusMoves
  <1>. QED  BY <1>1, <1>2, <1>3, <1>4, <1>5, <1>6 DEF Next

-----------------------------------------------------------------------------
(* The verifier *)

RowInv == row \in [Token -> Row] /\ MatchShowsItsFields

LEMMA OutcomeShowsItsFields ==
    ASSUME NEW t \in Token, NEW content, NEW current \in BOOLEAN, NEW old \in Row
    PROVE  LET new == Verified(old, decideVerification(t, content), current)
           IN /\ new \in Row
              /\ old.display # "none" => new.display # "none"
              /\ new.status = "match" /\ new.current
                    => extractDisplayFields(t, "committed") \in {"none", new.display}
  BY DEF Verified, Shown, decideVerification, extractDisplayFields, Row, Document

LEMMA RowInvKept == RowInv /\ RowMoves => RowInv'
  <1> SUFFICES ASSUME RowInv, RowMoves PROVE RowInv'
    OBVIOUS
  <1> USE VerifierAssumption
  <1>1. CASE row' = row
    BY <1>1 DEF RowInv, MatchShowsItsFields
  <1>2. CASE \E t \in Token : Aged(t) \/ Requeued(t)
    <2>1. PICK t \in Token : Aged(t) \/ Requeued(t)
      BY <1>2
    <2>2. CASE Aged(t)
      BY <2>2 DEF Aged, RowInv, Row, MatchShowsItsFields
    <2>3. CASE Requeued(t)
      <3> DEFINE new == IF row[t].status = "null" THEN row[t]
                        ELSE [row[t] EXCEPT !.status = "unfetched", !.age = "due"]
      <3>1. new \in Row /\ (new = row[t] \/ new.status # "match")
        BY DEF RowInv, Row
      <3>2. row' = [row EXCEPT ![t] = new]
        BY <2>3 DEF Requeued
      <3> HIDE DEF new
      <3> QED BY <3>1, <3>2 DEF RowInv, MatchShowsItsFields
    <2>. QED  BY <2>1, <2>2, <2>3
  <1>4. CASE \E t : LosesLaunch(t)
    <2>1. PICK t : LosesLaunch(t)
      BY <1>4
    <2>2. CASE t \in Token
      <3> DEFINE new == Outdated(row[t])
      <3>1. new \in Row /\ ~new.current
        BY <2>2 DEF RowInv, Row, Document, Shown, Outdated
      <3>2. row' = [row EXCEPT ![t] = new]
        BY <2>1 DEF LosesLaunch
      <3> HIDE DEF new
      <3> QED BY <3>1, <3>2 DEF RowInv, MatchShowsItsFields
    <2>3. CASE t \notin Token
      BY <2>1, <2>3 DEF LosesLaunch, RowInv, MatchShowsItsFields
    <2>. QED  BY <2>2, <2>3
  <1>3. CASE \E t, content : \E current \in BOOLEAN : Attempted(t, content, current)
    <2>1. PICK t, content : \E current \in BOOLEAN : Attempted(t, content, current)
      BY <1>3
    <2>4. PICK current \in BOOLEAN : Attempted(t, content, current)
      BY <2>1
    <2>2. CASE t \in Token
      BY <2>2, <2>4, OutcomeShowsItsFields DEF Attempted, RowInv, MatchShowsItsFields
    <2>3. CASE t \notin Token
      BY <2>3, <2>4 DEF Attempted, RowInv, MatchShowsItsFields
    <2>. QED  BY <2>2, <2>3
  <1>. QED  BY <1>1, <1>2, <1>3, <1>4 DEF RowMoves

LEMMA RowInvariant == Spec => []RowInv
  <1>1. Init => RowInv
    BY VerifierAssumption DEF Init, VerifierInit, NoRow, RowInv, Row, MatchShowsItsFields
  <1>2. RowInv /\ [Next]_vars => RowInv'
    BY RowMovesOnly, RowInvKept
  <1>. QED  BY <1>1, <1>2, PTL DEF Spec

(* If the committed document yields fields, a match of the hash now on     *)
(* chain is a badge over them, however passes overlap, whatever was        *)
(* fetched before and whichever launch had the address (writeVerification  *)
(* keeps the fields of earlier attempts, the verdict not).  Of a document  *)
(* outside the schema it says nothing: that matches by its hash, and an    *)
(* earlier document's fields stay under the badge.                         *)
THEOREM MatchesShowTheirFields == Spec => []MatchShowsItsFields
  BY RowInvariant, PTL DEF RowInv

(* writeVerification: fields once extracted are never nulled.              *)
THEOREM DisplayKept == Spec => DisplayNeverLost
  <1>1. RowInv /\ [Next]_vars
          => [\A t \in Token : row[t].display # "none" => row'[t].display # "none"]_vars
    <2> SUFFICES ASSUME RowInv, RowMoves, NEW u \in Token, row[u].display # "none"
                 PROVE  row'[u].display # "none"
      BY RowMovesOnly
    <2>1. CASE row' = row
      BY <2>1
    <2>2. CASE \E t \in Token : Aged(t) \/ Requeued(t)
      <3>1. PICK t \in Token : Aged(t) \/ Requeued(t)
        BY <2>2
      <3>2. row \in [Token -> Row]
        BY DEF RowInv
      <3>3. CASE Aged(t)
        BY <3>2, <3>3 DEF Aged, Row
      <3>4. CASE Requeued(t)
        BY <3>2, <3>4 DEF Requeued, Row
      <3>. QED  BY <3>1, <3>3, <3>4
    <2>4. CASE \E t : LosesLaunch(t)
      <3>1. PICK t : LosesLaunch(t)
        BY <2>4
      <3>2. row \in [Token -> Row]
        BY DEF RowInv
      <3> QED BY <3>1, <3>2 DEF LosesLaunch, Outdated, Row, Shown
    <2>3. CASE \E t, content : \E current \in BOOLEAN : Attempted(t, content, current)
      <3>4. PICK t, content : \E current \in BOOLEAN : Attempted(t, content, current)
        BY <2>3
      <3>1. PICK current \in BOOLEAN : Attempted(t, content, current)
        BY <3>4
      <3>2. CASE t = u
        BY <3>1, <3>2, OutcomeShowsItsFields DEF Attempted, RowInv
      <3>3. CASE t # u
        BY <3>1, <3>3 DEF Attempted, RowInv
      <3>. QED  BY <3>2, <3>3
    <2>. QED  BY <2>1, <2>2, <2>3, <2>4 DEF RowMoves
  <1>. QED  BY <1>1, RowInvariant, PTL DEF Spec, DisplayNeverLost

-----------------------------------------------------------------------------
(* The moderation *)

StatusInv == moderation \in [Listed -> Status] /\ UnreviewedFollowsFlags

LEMMA StatusInvKept == StatusInv /\ StatusMoves => StatusInv'
  <1> SUFFICES ASSUME StatusInv, StatusMoves PROVE StatusInv'
    OBVIOUS
  <1>1. CASE moderation' = moderation
    BY <1>1 DEF StatusInv, UnreviewedFollowsFlags
  <1>2. CASE \E t \in Listed : moderation' = [moderation EXCEPT ![t] = Judged(t)]
    <2>1. \A t : /\ Judged(t) \in Status
                 /\ Judged(t).visibility = evaluateVisibility(Judged(t), FALSE)
      BY DEF Judged, Signals, evaluateVisibility, Status, Visibility
    <2>. QED  BY <1>2, <2>1 DEF StatusInv, UnreviewedFollowsFlags
  <1>3. CASE \E t \in Listed, v \in Visibility :
                moderation' = [moderation EXCEPT ![t] =
                            [@ EXCEPT !.exists = TRUE, !.visibility = v, !.reviewed = TRUE]]
    BY <1>3 DEF StatusInv, Status, UnreviewedFollowsFlags
  <1>4. CASE \E t \in Listed, flagged \in BOOLEAN :
                moderation' = [moderation EXCEPT ![t] =
                            [@ EXCEPT !.exists = TRUE, !.impersonation_flag = flagged,
                                      !.reviewed = TRUE]]
    BY <1>4 DEF StatusInv, Status, UnreviewedFollowsFlags
  <1>. QED  BY <1>1, <1>2, <1>3, <1>4 DEF StatusMoves

(* Unless an administrator is named, a token's visibility is what its      *)
(* flags demand, in whatever order the worker and the routes write.        *)
THEOREM UnreviewedFollow == Spec => []UnreviewedFollowsFlags
  <1>1. Init => StatusInv
    BY DEF Init, ModerationInit, NoStatus, StatusInv, Status, Visibility, UnreviewedFollowsFlags,
           evaluateVisibility
  <1>2. StatusInv /\ [Next]_vars => StatusInv'
    BY StatusMovesOnly, StatusInvKept
  <1>3. StatusInv => UnreviewedFollowsFlags
    BY DEF StatusInv
  <1>. QED  BY <1>1, <1>2, <1>3, PTL DEF Spec

-----------------------------------------------------------------------------
(* The query's order: every set of tokens can be listed in it, and a limit *)
(* of n leaves at most n of them.                                          *)

LEMMA BeforeIsAnOrder ==
    ASSUME NEW t \in Token, NEW u \in Token
    PROVE  /\ ~Before(t, t)
           /\ t # u => Before(t, u) \/ Before(u, t)
           /\ Before(t, u) => ~Before(u, t)
           /\ \A x \in Token : Before(x, t) /\ Before(t, u) => Before(x, u)
  BY VerifierAssumption DEF Before, Token

LEMMA TokensAreFinite == \A S \in SUBSET Token : IsFiniteSet(S) /\ Cardinality(S) \in Nat
  <1> SUFFICES ASSUME NEW S \in SUBSET Token PROVE IsFiniteSet(S) /\ Cardinality(S) \in Nat
    OBVIOUS
  <1>1. IsFiniteSet(Token)
    BY FS_Interval, VerifierAssumption DEF Token
  <1>2. IsFiniteSet(S)
    BY <1>1, FS_Subset
  <1> QED BY <1>2, FS_CardinalityType

LEMMA RankBounds ==
    ASSUME NEW S \in SUBSET Token, NEW t \in S
    PROVE  Rank(t, S) \in 0 .. Cardinality(S) - 1
  <1> DEFINE R == {u \in S : Before(u, t)}
  <1>1. IsFiniteSet(S) /\ Cardinality(S) \in Nat
    BY TokensAreFinite
  <1>2. IsFiniteSet(S \ {t}) /\ Cardinality(S \ {t}) = Cardinality(S) - 1
    BY <1>1, FS_RemoveElement
  <1>3. R \in SUBSET (S \ {t}) /\ R \in SUBSET Token
    BY BeforeIsAnOrder
  <1> HIDE DEF R
  <1>4. Cardinality(R) <= Cardinality(S \ {t})
    BY <1>2, <1>3, FS_Subset
  <1>5. Cardinality(R) \in Nat
    BY <1>3, TokensAreFinite
  <1> QED BY <1>1, <1>2, <1>4, <1>5 DEF Rank, R

LEMMA EarlierRanksLower ==
    ASSUME NEW S \in SUBSET Token, NEW t \in S, NEW u \in S, Before(t, u)
    PROVE  Rank(t, S) < Rank(u, S)
  <1> DEFINE R == {x \in S : Before(x, t)}
             Q == {x \in S : Before(x, u)}
  <1>1. R \in SUBSET Token /\ Q \in SUBSET Token
    OBVIOUS
  <1>2. R \in SUBSET (Q \ {t}) /\ t \in Q
    BY BeforeIsAnOrder
  <1> HIDE DEF R, Q
  <1>3. IsFiniteSet(Q) /\ Cardinality(Q) \in Nat /\ Cardinality(R) \in Nat
    BY <1>1, TokensAreFinite
  <1>4. IsFiniteSet(Q \ {t}) /\ Cardinality(Q \ {t}) = Cardinality(Q) - 1
    BY <1>2, <1>3, FS_RemoveElement
  <1>5. Cardinality(R) <= Cardinality(Q \ {t})
    BY <1>2, <1>4, FS_Subset
  <1>6. Cardinality(R) < Cardinality(Q)
    BY <1>3, <1>4, <1>5
  <1> QED BY <1>6 DEF Rank, R, Q

LEMMA RanksDiffer ==
    ASSUME NEW S \in SUBSET Token, NEW t \in S, NEW u \in S, Rank(t, S) = Rank(u, S)
    PROVE  t = u
  <1> SUFFICES ASSUME t # u PROVE FALSE
    OBVIOUS
  <1>1. Rank(t, S) \in Int /\ Rank(u, S) \in Int
    BY RankBounds
  <1>2. Before(t, u) \/ Before(u, t)
    BY BeforeIsAnOrder
  <1>3. Rank(t, S) < Rank(u, S) \/ Rank(u, S) < Rank(t, S)
    BY <1>2, EarlierRanksLower
  <1> QED BY <1>1, <1>3

(* Every place of the order is taken. *)
LEMMA RanksAreTaken ==
    ASSUME NEW S \in SUBSET Token, NEW i \in 0 .. Cardinality(S) - 1
    PROVE  \E t \in S : Rank(t, S) = i
  <1> DEFINE n == Cardinality(S)
             f == [t \in S |-> Rank(t, S)]
             T == 0 .. n - 1
  <1>1. IsFiniteSet(S) /\ n \in Nat
    BY TokensAreFinite
  <1>2. IsFiniteSet(T) /\ Cardinality(T) = n
    BY <1>1, FS_Interval
  <1>3. f \in Injection(S, T)
    <2>1. f \in [S -> T]
      BY RankBounds
    <2>2. \A t, u \in S : f[t] = f[u] => t = u
      BY RanksDiffer
    <2> QED BY <2>1, <2>2 DEF Injection, IsInjective
  <1> HIDE DEF f, T
  <1>4. f \in Surjection(S, T)
    BY <1>2, <1>3, FS_Injection DEF n
  <1>5. \E t \in S : f[t] = i
    BY <1>4 DEF Surjection, T
  <1> QED BY <1>5 DEF f

LEMMA OrderedOnce ==
    ASSUME NEW S \in SUBSET Token
    PROVE  /\ InOrder(S) \in Seq(Token) /\ Len(InOrder(S)) = Cardinality(S)
           /\ IsInjective(InOrder(S))
  <1> DEFINE n == Cardinality(S)
             q == [i \in 1 .. n |-> CHOOSE t \in S : Rank(t, S) = i - 1]
  <1>1. n \in Nat
    BY TokensAreFinite
  <1>2. ASSUME NEW i \in 1 .. n PROVE q[i] \in S /\ Rank(q[i], S) = i - 1
    <2>1. \E t \in S : Rank(t, S) = i - 1
      <3>1. i - 1 \in 0 .. n - 1
        BY <1>1
      <3> QED BY <3>1, RanksAreTaken
    <2>2. q[i] = CHOOSE t \in S : Rank(t, S) = i - 1
      OBVIOUS
    <2> HIDE DEF q
    <2> QED BY <2>1, <2>2
  <1>3. InOrder(S) = q /\ q = [i \in 1 .. n |-> q[i]] /\ DOMAIN q = 1 .. n
    BY DEF InOrder
  <1> HIDE DEF q, n
  <1>4. q \in Seq(Token) /\ Len(q) = n
    <2>1. q \in [1 .. n -> Token]
      BY <1>2, <1>3
    <2> QED BY <1>1, <2>1
  <1>5. IsInjective(q)
    <2> SUFFICES ASSUME NEW i \in 1 .. n, NEW j \in 1 .. n, q[i] = q[j] PROVE i = j
      BY <1>3 DEF IsInjective
    <2>1. i - 1 = j - 1
      BY <1>2
    <2> QED BY <1>1, <2>1
  <1> QED BY <1>3, <1>4, <1>5 DEF n

LEMMA LimitHolds ==
    ASSUME NEW S \in SUBSET Token, NEW n \in Nat
    PROVE  FirstOf(n, S) \in SUBSET S /\ Cardinality(FirstOf(n, S)) <= n
  <1> DEFINE F == FirstOf(n, S)
             T == 0 .. n - 1
             f == [t \in F |-> Rank(t, S)]
  <1>1. F \in SUBSET S /\ \A t \in F : Rank(t, S) < n
    BY DEF FirstOf
  <1> HIDE DEF F
  <1>2. IsFiniteSet(T) /\ Cardinality(T) = n
    BY FS_Interval
  <1>3. f \in Injection(F, T)
    <2>1. \A t \in F : Rank(t, S) \in T
      BY <1>1, RankBounds
    <2>2. \A t, u \in F : Rank(t, S) = Rank(u, S) => t = u
      BY <1>1, RanksDiffer
    <2>3. f \in [F -> T] /\ \A t, u \in F : f[t] = f[u] => t = u
      BY <2>1, <2>2
    <2> QED BY <2>3 DEF Injection, IsInjective
  <1> HIDE DEF f, T
  <1>4. Cardinality(F) <= Cardinality(T)
    BY <1>2, <1>3, FS_Injection
  <1> QED BY <1>1, <1>2, <1>4 DEF F

(* selectDue names no token twice, and no more than its limit. *)
LEMMA DueRows ==
    ASSUME NEW tokens \in SUBSET Token
    PROVE  /\ selectDue(tokens) \in Seq(Token) /\ Len(selectDue(tokens)) <= LIMIT
           /\ IsInjective(selectDue(tokens))
  <1> DEFINE window == FirstOf(4 * LIMIT, Candidates(tokens))
             due == {t \in window : isDue(t)}
             picked == FirstOf(LIMIT, due)
  <1>1. selectDue(tokens) = InOrder(picked)
    BY DEF selectDue
  <1>2. Candidates(tokens) \in SUBSET Token
    BY DEF Candidates
  <1>3. due \in SUBSET Token
    BY <1>2, VerifierAssumption, LimitHolds
  <1> HIDE DEF due
  <1>4. picked \in SUBSET Token /\ Cardinality(picked) <= LIMIT
    BY <1>3, VerifierAssumption, LimitHolds
  <1> HIDE DEF picked
  <1> QED BY <1>1, <1>4, OrderedOnce

-----------------------------------------------------------------------------
(* Types *)

Content == Document \cup {"missing", "junk"}

(* What a pass still has to do; it has fetched only what it works on. *)
Passes == [todo : Seq(Token), stale : SUBSET Token, got : Content \cup {Pending}]

Work(w) ==
    /\ w.todo \in Seq(Token) /\ Len(w.todo) <= LIMIT /\ IsInjective(w.todo)
    /\ w.got # Pending => w.todo # <<>>

PassInv ==
    /\ pass \in [Pass -> Passes]
    /\ \A p \in Pass : Work(pass[p])

LEMMA EmptyWork == Work(Done) /\ Done \in Passes
  <1>1. <<>> \in Seq(Token) /\ Len(<<>>) <= LIMIT /\ IsInjective(<<>>)
    BY VerifierAssumption DEF IsInjective
  <1> QED BY <1>1 DEF Work, Done, Passes

LEMMA TailWork ==
    ASSUME NEW q \in Seq(Token), q # <<>>, Len(q) <= LIMIT, IsInjective(q)
    PROVE  Tail(q) \in Seq(Token) /\ Len(Tail(q)) <= LIMIT /\ IsInjective(Tail(q))
  <1> DEFINE r == Tail(q)
  <1>1. /\ r \in Seq(Token) /\ Len(r) = Len(q) - 1 /\ Len(q) \in Nat
        /\ DOMAIN r = 1 .. Len(r) /\ DOMAIN q = 1 .. Len(q)
        /\ \A i \in 1 .. Len(r) : r[i] = q[i + 1] /\ i + 1 \in 1 .. Len(q)
    OBVIOUS
  <1> HIDE DEF r
  <1>2. IsInjective(r)
    <2> SUFFICES ASSUME NEW i \in 1 .. Len(r), NEW j \in 1 .. Len(r), r[i] = r[j] PROVE i = j
      BY <1>1 DEF IsInjective
    <2>1. q[i + 1] = q[j + 1] /\ i + 1 \in DOMAIN q /\ j + 1 \in DOMAIN q
      BY <1>1
    <2>2. i + 1 = j + 1
      BY <2>1 DEF IsInjective
    <2> QED BY <2>2
  <1> QED BY <1>1, <1>2, VerifierAssumption DEF r

(* One pass becomes w. *)
LEMMA PassChanges ==
    ASSUME PassInv, NEW p \in Pass, NEW w \in Passes, Work(w),
           pass' = [pass EXCEPT ![p] = w]
    PROVE  PassInv'
  BY DEF PassInv, Work

ObjectInv == object \in [Token -> Content] /\ changes \in 0 .. MaxChanges

NullInv == \A t \in Token : row[t].status = "null" => row[t] = NoRow

BoundsInv ==
    /\ reverify \subseteq Token /\ launches \subseteq Listed
    /\ created \in 0 .. N /\ faults \in 0 .. MaxFaults /\ orders \in 0 .. MaxOrders

StatusKept == \A t \in Listed : moderation[t].exists \/ moderation[t] = NoStatus

ListingInv == RowInv /\ NullInv /\ PassInv /\ ObjectInv /\ BoundsInv /\ StatusInv /\ StatusKept

LEMMA ListingInit == Init => ListingInv
  <1> SUFFICES ASSUME Init PROVE ListingInv
    OBVIOUS
  <1>1. RowInv /\ NullInv
    <2>1. row = [t \in Token |-> NoRow] /\ Canonical \subseteq Token /\ NoRow \in Row
      BY VerifierAssumption DEF Init, VerifierInit, NoRow, Row
    <2> QED BY <2>1 DEF NoRow, RowInv, NullInv, MatchShowsItsFields
  <1>2. PassInv
    BY EmptyWork DEF Init, VerifierInit, PassInv
  <1>3. ObjectInv
    <2>1. /\ object \in [Token -> Uploaded] /\ changes = 0
          /\ Uploaded \subseteq Content /\ MaxChanges \in Nat
      BY VerifierAssumption DEF Init, VerifierInit, Content, Document
    <2> QED BY <2>1 DEF ObjectInv
  <1>4. BoundsInv
    BY VerifierAssumption, ListingAssumption DEF Init, VerifierInit, ModerationInit, BoundsInv
  <1>5. StatusInv /\ StatusKept
    BY DEF Init, ModerationInit, NoStatus, StatusInv, StatusKept, Status, Visibility,
           UnreviewedFollowsFlags, evaluateVisibility
  <1> QED BY <1>1, <1>2, <1>3, <1>4, <1>5 DEF ListingInv

LEMMA NullKept ==
    ASSUME RowInv, NullInv, BoundsInv, [Next]_vars
    PROVE  NullInv'
  <1> DEFINE Goal == NullInv'
  <1>1. row \in [Token -> Row]
    BY DEF RowInv
  <1>2. ASSUME NEW t \in Token, Ages(t) PROVE Goal
    BY <1>1, <1>2 DEF Ages, NullInv, Row
  <1>3. ASSUME NEW t \in Token, requeue(t) PROVE Goal
    BY <1>1, <1>3 DEF requeue, NullInv, Row, NoRow
  <1>8. ASSUME NEW t \in Token, LosesLaunch(t) PROVE Goal
    <2> DEFINE new == Outdated(row[t])
    <2>1. new.status = row[t].status
      BY DEF Outdated
    <2>2. ASSUME row[t] = NoRow PROVE new = NoRow
      <3>1. /\ row[t].status = "null" /\ row[t].age = "due"
            /\ Shown(row[t].display, FALSE) = "none"
        BY <2>2 DEF NoRow, Shown
      <3> QED BY <3>1 DEF Outdated, NoRow
    <2>3. row' = [row EXCEPT ![t] = new]
      BY <1>8 DEF LosesLaunch
    <2> HIDE DEF new
    <2> QED BY <1>1, <2>1, <2>2, <2>3 DEF NullInv
  <1>4. ASSUME NEW t, NEW content, NEW current \in BOOLEAN, Attempted(t, content, current)
        PROVE  Goal
    <2> DEFINE new == Verified(row[t], decideVerification(t, content), current)
    <2>1. new.status # "null"
      BY DEF Verified, decideVerification
    <2>2. \A u \in Token : row'[u] = IF u = t THEN new ELSE row[u]
      BY <1>1, <1>4 DEF Attempted
    <2> QED BY <2>1, <2>2 DEF NullInv
  <1>5. ASSUME row' = row PROVE Goal
    BY <1>5 DEF NullInv
  <1>6. \/ row' = row
        \/ \E t \in Token : Ages(t) \/ requeue(t) \/ LosesLaunch(t)
        \/ \E t, content : \E current \in BOOLEAN : Attempted(t, content, current)
    <2>1. CASE \E p \in Pass : Verifies(p)
      <3>1. PICK p \in Pass : Fetched(p) \/ Written(p)
        BY <2>1 DEF Verifies
      <3>2. CASE Fetched(p)
        BY <3>2 DEF Fetched
      <3>3. CASE Written(p)
        <4> DEFINE t == Head(pass[p].todo)
                   current == t \notin pass[p].stale
        <4>1. Attempted(t, pass[p].got, current) /\ current \in BOOLEAN
          BY <3>3 DEF Written, Attempted
        <4> QED BY <4>1
      <3> QED BY <3>1, <3>2, <3>3
    <2>5. CASE Reorganised
      <3>1. row' = row \/ (created \in Token /\ LosesLaunch(created))
        BY <2>5, VerifierAssumption
           DEF Reorganised, Relaunched, verifierVars, LosesLaunch, Token, BoundsInv
      <3> QED BY <3>1
    <2>2. CASE \/ TokenCreated \/ StorageChanges \/ Begins
               \/ (\E t \in Token : TimePasses(t)) \/ Requeues
      BY <2>2 DEF TokenCreated, StorageChanges, Begins, Replaced, PassBegins,
                  TimePasses, Requeues, verifierVars
    <2>3. CASE VerifierFaults \/ Judges \/ WorkerFaults \/ AdminVerdict \/ AdminReverify
      BY <2>3 DEF VerifierFaults, WriteFails, VerifierRestarts, Judges, WorkerFaults,
                  AdminVerdict, AdminReverify, RequestReverify, verifierVars
    <2>4. CASE UNCHANGED vars
      BY <2>4 DEF vars, verifierVars
    <2> QED BY <2>1, <2>2, <2>3, <2>4, <2>5 DEF Next
  <1> HIDE DEF Goal
  <1>7. Goal
    BY <1>2, <1>3, <1>4, <1>5, <1>6, <1>8
  <1> QED BY <1>7 DEF Goal

(* The passes: begun by selectDue, then one fetch and one write a token. *)
LEMMA PassKept ==
    ASSUME PassInv, ObjectInv, BoundsInv, [Next]_vars
    PROVE  PassInv'
  <1> DEFINE Goal == PassInv'
  <1>1. ASSUME NEW p \in Pass, PassBegins(p, Tokens) PROVE Goal
    <2> DEFINE q == selectDue(Tokens)
               w == [todo |-> q, stale |-> {}, got |-> Pending]
    <2>1. Tokens \in SUBSET Token
      BY VerifierAssumption DEF Tokens, Token, BoundsInv
    <2>2. q \in Seq(Token) /\ Len(q) <= LIMIT /\ IsInjective(q)
      BY <2>1, DueRows
    <2>3. pass[p] = Done /\ pass' = [pass EXCEPT ![p].todo = q]
      BY <1>1 DEF PassBegins
    <2> HIDE DEF q
    <2>4. pass' = [pass EXCEPT ![p] = w]
      <3>1. [Done EXCEPT !.todo = q] = w
        BY DEF Done
      <3> QED BY <2>3, <3>1
    <2>5. w \in Passes /\ Work(w)
      BY <2>2 DEF Work, Passes
    <2> HIDE DEF w
    <2> QED BY <2>4, <2>5, PassChanges
  <1>2. ASSUME NEW p \in Pass, Fetched(p) PROVE Goal
    <2>1. pass[p] \in Passes /\ Work(pass[p])
      BY DEF PassInv
    <2>2. Head(pass[p].todo) \in Token /\ pass[p].todo # <<>>
      BY <1>2, <2>1 DEF Fetched, Passes
    <2>3. PICK c \in Served(p, Head(pass[p].todo)) : pass' = [pass EXCEPT ![p].got = c]
      BY <1>2 DEF Fetched
    <2>4. c \in Content
      BY <2>2, <2>3 DEF Served, ObjectInv, Content, Document
    <2> DEFINE w == [pass[p] EXCEPT !.got = c]
    <2>5. w \in Passes /\ Work(w)
      BY <2>1, <2>2, <2>4 DEF Work, Passes
    <2>6. pass' = [pass EXCEPT ![p] = w]
      BY <2>3
    <2> HIDE DEF w
    <2> QED BY <2>5, <2>6, PassChanges
  <1>3. ASSUME NEW p \in Pass, Written(p) \/ WriteFails(p) PROVE Goal
    <2> DEFINE w == [todo |-> Tail(pass[p].todo),
                     stale |-> pass[p].stale \ {Head(pass[p].todo)}, got |-> Pending]
    <2>1. pass[p] \in Passes /\ Work(pass[p])
      BY DEF PassInv
    <2>2. pass[p].got # Pending /\ pass' = [pass EXCEPT ![p] = w]
      BY <1>3 DEF Written, WriteFails, NextRow
    <2>3. w \in Passes /\ Work(w)
      BY <2>1, <2>2, TailWork DEF Work, Passes
    <2> HIDE DEF w
    <2> QED BY <2>2, <2>3, PassChanges
  <1>8. ASSUME NEW t \in Token, NEW content, Relaunched(t, content) PROVE Goal
    <2> DEFINE Stale(p) == pass[p].stale \cup ({t} \cap Range(pass[p].todo))
    <2>1. pass' = [p \in Pass |-> [pass[p] EXCEPT !.stale = Stale(p)]]
      BY <1>8 DEF Relaunched
    <2>2. ASSUME NEW p \in Pass
          PROVE  [pass[p] EXCEPT !.stale = Stale(p)] \in Passes
                 /\ Work([pass[p] EXCEPT !.stale = Stale(p)])
      <3>1. pass[p] \in Passes /\ Work(pass[p])
        BY DEF PassInv
      <3>2. Stale(p) \in SUBSET Token
        BY <3>1 DEF Passes
      <3> HIDE DEF Stale
      <3> QED BY <3>1, <3>2 DEF Passes, Work
    <2> HIDE DEF Stale
    <2> QED BY <2>1, <2>2 DEF PassInv
  <1>4. ASSUME VerifierRestarts PROVE Goal
    BY <1>4, EmptyWork DEF VerifierRestarts, PassInv
  <1>5. ASSUME pass' = pass PROVE Goal
    BY <1>5 DEF PassInv
  <1>6. \/ pass' = pass \/ VerifierRestarts
        \/ \E t \in Token, content \in Uploaded : Relaunched(t, content)
        \/ \E p \in Pass : PassBegins(p, Tokens) \/ Fetched(p) \/ Written(p) \/ WriteFails(p)
    <2>1. CASE (\E p \in Pass : Verifies(p)) \/ Begins \/ VerifierFaults
      BY <2>1 DEF Verifies, Begins, VerifierFaults
    <2>2. CASE \/ TokenCreated \/ StorageChanges
               \/ (\E t \in Token : TimePasses(t)) \/ Requeues
      BY <2>2 DEF TokenCreated, StorageChanges, Replaced, TimePasses, Ages, Requeues, requeue,
                  verifierVars
    <2>5. CASE Reorganised
      <3>1. created \in Token
        BY <2>5, VerifierAssumption DEF Reorganised, Token, BoundsInv
      <3> QED BY <2>5, <3>1 DEF Reorganised, verifierVars
    <2>3. CASE Judges \/ WorkerFaults \/ AdminVerdict \/ AdminReverify
      BY <2>3 DEF Judges, WorkerFaults, AdminVerdict, AdminReverify, RequestReverify,
                  verifierVars
    <2>4. CASE UNCHANGED vars
      BY <2>4 DEF vars, verifierVars
    <2> QED BY <2>1, <2>2, <2>3, <2>4, <2>5 DEF Next
  <1> HIDE DEF Goal
  <1>7. Goal
    BY <1>1, <1>2, <1>3, <1>4, <1>5, <1>6, <1>8
  <1> QED BY <1>7 DEF Goal

LEMMA ObjectKept ==
    ASSUME ObjectInv, [Next]_vars
    PROVE  ObjectInv'
  <1>1. CASE UNCHANGED <<object, changes>>
    BY <1>1 DEF ObjectInv
  <1>2. CASE StorageChanges
    <2>1. PICK t \in Token, content \in Content :
             /\ changes < MaxChanges
             /\ object' = [object EXCEPT ![t] = content] /\ changes' = changes + 1
      BY <1>2 DEF StorageChanges, Replaced, Content, Document
    <2> QED BY <2>1, VerifierAssumption DEF ObjectInv
  <1>4. CASE \E t : \E content \in Uploaded : Relaunched(t, content)
    <2>1. Uploaded \subseteq Content
      BY VerifierAssumption DEF Content, Document
    <2> QED BY <1>4, <2>1 DEF Relaunched, ObjectInv
  <1>3. \/ UNCHANGED <<object, changes>> \/ StorageChanges
        \/ \E t : \E content \in Uploaded : Relaunched(t, content)
    <2>4. CASE Reorganised
      BY <2>4 DEF Reorganised, verifierVars
    <2>1. CASE \/ TokenCreated \/ Begins \/ (\E p \in Pass : Verifies(p))
               \/ (\E t \in Token : TimePasses(t)) \/ Requeues
      BY <2>1 DEF TokenCreated, Begins, PassBegins, Verifies, Fetched, Written, TimePasses, Ages, Requeues, requeue, verifierVars
    <2>2. CASE VerifierFaults \/ Judges \/ WorkerFaults \/ AdminVerdict \/ AdminReverify
      BY <2>2 DEF VerifierFaults, WriteFails, VerifierRestarts, Judges, WorkerFaults,
                  AdminVerdict, AdminReverify, RequestReverify, verifierVars
    <2>3. CASE UNCHANGED vars
      BY <2>3 DEF vars, verifierVars
    <2> QED BY <2>1, <2>2, <2>3, <2>4 DEF Next
  <1> QED BY <1>1, <1>2, <1>3, <1>4

LEMMA BoundsKept ==
    ASSUME BoundsInv, [Next]_vars
    PROVE  BoundsInv'
  <1> USE VerifierAssumption, ListingAssumption
  <1>1. CASE TokenCreated
    <2>1. /\ created' = created + 1 /\ created < N /\ UNCHANGED <<reverify, faults, orders>>
          /\ launches' = launches \/ (created + 1 \in Listed /\ launches' = launches \cup {created + 1})
      BY <1>1 DEF TokenCreated, publishLaunch, verifierVars
    <2> QED BY <2>1 DEF BoundsInv
  <1>2. CASE Reorganised
    BY <1>2 DEF Reorganised, Relaunched, BoundsInv, verifierVars, moderationVars
  <1>3. CASE StorageChanges \/ Begins \/ (\E t \in Token : TimePasses(t)) \/ (\E p \in Pass : Verifies(p))
    <2>1. UNCHANGED <<reverify, launches, created, faults, orders>>
      BY <1>3 DEF StorageChanges, Replaced, Begins, PassBegins, TimePasses, Ages, Verifies, Fetched,
                  Written, moderationVars, siteVars
    <2> QED BY <2>1 DEF BoundsInv
  <1>4. CASE Requeues \/ Judges
    <2>1. /\ reverify' \subseteq reverify /\ launches' \subseteq launches
          /\ UNCHANGED <<created, faults, orders>>
      BY <1>4 DEF Requeues, requeue, Judges, processLaunch, verifierVars, moderationVars, siteVars
    <2> QED BY <2>1 DEF BoundsInv
  <1>5. CASE VerifierFaults \/ WorkerFaults
    <2>1. /\ faults < MaxFaults /\ faults' = faults + 1 /\ UNCHANGED <<created, orders>>
          /\ reverify' \subseteq reverify /\ launches' \subseteq launches
      BY <1>5 DEF VerifierFaults, WriteFails, VerifierRestarts, WorkerFaults, LaunchMissed, Fault,
                  verifierVars, moderationVars
    <2> QED BY <2>1 DEF BoundsInv
  <1>6. CASE AdminVerdict
    <2>1. /\ orders < MaxOrders /\ orders' = orders + 1 /\ UNCHANGED <<created, faults>>
          /\ UNCHANGED <<reverify, launches>>
      BY <1>6 DEF AdminVerdict, setVisibility, setImpersonation, Order, verifierVars
    <2> QED BY <2>1 DEF BoundsInv
  <1>7. CASE AdminReverify
    <2>1. PICK t \in Tokens : reverify' = reverify \cup {t}
      BY <1>7 DEF AdminReverify, RequestReverify
    <2>2. /\ orders < MaxOrders /\ orders' = orders + 1 /\ UNCHANGED <<created, faults, launches>>
      BY <1>7 DEF AdminReverify, Order, moderationVars
    <2> QED BY <2>1, <2>2 DEF BoundsInv, Tokens, Token
  <1>8. CASE UNCHANGED vars
    BY <1>8 DEF vars, verifierVars, moderationVars, siteVars, BoundsInv
  <1> QED BY <1>1, <1>2, <1>3, <1>4, <1>5, <1>6, <1>7, <1>8 DEF Next

LEMMA StatusKeptKept ==
    ASSUME StatusInv, StatusKept, StatusMoves
    PROVE  StatusKept'
  <1>1. moderation \in [Listed -> Status]
    BY DEF StatusInv
  <1>2. CASE moderation' = moderation
    BY <1>2 DEF StatusKept
  <1>3. CASE \E t \in Listed : moderation' = [moderation EXCEPT ![t] = Judged(t)]
    BY <1>1, <1>3 DEF StatusKept, Judged
  <1>4. CASE \E t \in Listed, v \in Visibility :
                moderation' = [moderation EXCEPT ![t] =
                            [@ EXCEPT !.exists = TRUE, !.visibility = v, !.reviewed = TRUE]]
    BY <1>1, <1>4 DEF StatusKept, Status
  <1>5. CASE \E t \in Listed, flagged \in BOOLEAN :
                moderation' = [moderation EXCEPT ![t] =
                            [@ EXCEPT !.exists = TRUE, !.impersonation_flag = flagged,
                                      !.reviewed = TRUE]]
    BY <1>1, <1>5 DEF StatusKept, Status
  <1> QED BY <1>2, <1>3, <1>4, <1>5 DEF StatusMoves

(* Rows, passes and flags hold what the code could hold; a pass, however   *)
(* many overlap, works on no token twice and on no more than its limit     *)
(* (runVerifierPass, selectDue), and a row without a verdict is untouched. *)
THEOREM ListingTypes == Spec => []TypeOK
  <1>1. ListingInv /\ [Next]_vars => ListingInv'
    <2> SUFFICES ASSUME ListingInv, [Next]_vars PROVE ListingInv'
      OBVIOUS
    <2>1. RowInv' /\ NullInv'
      BY RowMovesOnly, RowInvKept, NullKept DEF ListingInv
    <2>2. PassInv' /\ ObjectInv' /\ BoundsInv'
      BY PassKept, ObjectKept, BoundsKept DEF ListingInv
    <2>3. StatusInv' /\ StatusKept'
      BY StatusMovesOnly, StatusInvKept, StatusKeptKept DEF ListingInv
    <2> QED BY <2>1, <2>2, <2>3 DEF ListingInv
  <1>2. ListingInv => TypeOK
    BY DEF ListingInv, RowInv, NullInv, PassInv, Work, ObjectInv, BoundsInv, StatusInv, StatusKept,
           TypeOK, Row, Status, Content, Passes
  <1> QED BY <1>1, <1>2, ListingInit, PTL DEF Spec
=============================================================================

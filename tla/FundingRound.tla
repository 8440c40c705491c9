---------------------------- MODULE FundingRound ----------------------------
(***************************************************************************)
(* What the launchpad promises for every launch: a round that opens once,  *)
(* takes and returns contributions while it is open, locks when - and only *)
(* when - exactly Goal is raised, and is then closed once, giving up all   *)
(* it raised.  Nothing else ever moves the raised amount.                  *)
(***************************************************************************)
EXTENDS Integers

CONSTANTS Round, Goal

VARIABLES state, raised

TypeOK ==
    /\ state \in [Round -> {"unopened", "open", "locked", "closed"}]
    /\ raised \in [Round -> 0 .. Goal]

Init ==
    /\ state = [r \in Round |-> "unopened"]
    /\ raised = [r \in Round |-> 0]

RaiseTo(r, amount) ==
    /\ raised' = [raised EXCEPT ![r] = amount]
    /\ state' = [state EXCEPT ![r] = IF amount = Goal THEN "locked" ELSE "open"]

Open(r) ==
    /\ state[r] = "unopened"
    /\ \E amount \in 0 .. Goal : RaiseTo(r, amount)

Contribute(r) ==
    /\ state[r] = "open"
    /\ \E amount \in raised[r] + 1 .. Goal : RaiseTo(r, amount)

Withdraw(r) ==
    /\ state[r] = "open"
    /\ \E amount \in 0 .. raised[r] - 1 : RaiseTo(r, amount)

Close(r) ==
    /\ state[r] = "locked"
    /\ state' = [state EXCEPT ![r] = "closed"]
    /\ raised' = [raised EXCEPT ![r] = 0]

Next == \E r \in Round : Open(r) \/ Contribute(r) \/ Withdraw(r) \/ Close(r)

Spec == Init /\ [][Next]_<<state, raised>>

=============================================================================

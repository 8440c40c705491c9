-------------------------- MODULE GraduationKeeper --------------------------
(***************************************************************************)
(* apps/keeper/src/keeper.ts: the bot that calls graduate() on full curves *)
(* and collects the caller reward.  An attempt on a curve is a sequence of *)
(* awaited calls; between any two of them other attempts, the chain, the   *)
(* indexer and other graduators take steps.                                *)
(*                                                                         *)
(* The RPC endpoint is outside the program: a call through it may fail, be *)
(* answered by a node behind the head, or time out although it had its     *)
(* effect, at most MaxRpcFaults times in all.  The pool's price leaves the *)
(* tolerance of migrate, which makes graduate() revert, at most MaxBricks  *)
(* times.  Which of the two errors classifyError reports changes the log   *)
(* line only, so the two kinds of failure are one here.                    *)
(***************************************************************************)
EXTENDS Integers, Sequences, FiniteSets

CONSTANTS
    Curve,
    maxAttempts,                        \* KeeperTuning.maxAttempts
    MaxRpcFaults, MaxBricks, MaxCrashes \* bounds on the environment

ASSUME KeeperAssumption ==
    /\ maxAttempts \in Nat \ {0}
    /\ MaxRpcFaults \in Nat /\ MaxBricks \in Nat /\ MaxCrashes \in Nat

VARIABLES
    phase,          \* BondingCurve.phase
    priceOff,       \* the pool cannot be brought back to the target: migrate reverts
    txs,            \* per curve, the state of each graduate() transaction sent
    hint,           \* the indexer's tables list the curve as ready
    triggered,      \* curves a log or a sweep row brought up, not yet attempted
    run,            \* per curve, where its attempt is; "idle" when not in inFlight
    cooling,        \* cooldownUntil lies ahead
    result,         \* AttemptResult.status of the last attempt that ended
    faults, bricks, crashes   \* what is left of the bounds

chainVars == <<phase, priceOff, txs>>
boundVars == <<faults, bricks, crashes>>
vars == <<chainVars, hint, triggered, run, cooling, result, boundVars>>

Idle == [at |-> "idle", attempt |-> 0]

Step == {"precheck", "estimate", "send", "receipt", "classify", "backoff"}

Status == {"none", "graduated", "already_graduated", "not_ready",
           "phase_unavailable", "failed_persistent"}

TypeOK ==
    /\ phase \in [Curve -> {"trading", "ready", "graduated"}]
    /\ priceOff \in [Curve -> BOOLEAN] /\ hint \in [Curve -> BOOLEAN]
    /\ cooling \in [Curve -> BOOLEAN]
    /\ txs \in [Curve -> Seq({"pending", "success", "reverted"})]
    /\ triggered \subseteq Curve
    /\ run \in [Curve -> {Idle} \cup [at : Step, attempt : 1 .. maxAttempts]]
    /\ result \in [Curve -> Status]
    /\ faults \in 0 .. MaxRpcFaults /\ bricks \in 0 .. MaxBricks /\ crashes \in 0 .. MaxCrashes

Init ==
    /\ phase = [c \in Curve |-> "trading"]
    /\ priceOff = [c \in Curve |-> FALSE]
    /\ txs = [c \in Curve |-> << >>]
    /\ hint = [c \in Curve |-> FALSE]
    /\ triggered = {}
    /\ run = [c \in Curve |-> Idle]
    /\ cooling = [c \in Curve |-> FALSE]
    /\ result = [c \in Curve |-> "none"]
    /\ faults = MaxRpcFaults /\ bricks = MaxBricks /\ crashes = MaxCrashes

-----------------------------------------------------------------------------
(* The chain, the pool and the indexer *)

Graduatable(c) == phase[c] = "ready" /\ ~priceOff[c]

Fills(c) ==
    /\ phase[c] = "trading"
    /\ phase' = [phase EXCEPT ![c] = "ready"]
    /\ UNCHANGED <<priceOff, txs, hint, triggered, run, cooling, result, boundVars>>

(* graduate() is permissionless. *)
GraduatedByOthers(c) ==
    /\ Graduatable(c)
    /\ phase' = [phase EXCEPT ![c] = "graduated"]
    /\ UNCHANGED <<priceOff, txs, hint, triggered, run, cooling, result, boundVars>>

PriceMoves(c) ==
    /\ bricks > 0 /\ ~priceOff[c]
    /\ bricks' = bricks - 1
    /\ priceOff' = [priceOff EXCEPT ![c] = TRUE]
    /\ UNCHANGED <<phase, txs, hint, triggered, run, cooling, result, faults, crashes>>

PriceCorrected(c) ==
    /\ priceOff[c]
    /\ priceOff' = [priceOff EXCEPT ![c] = FALSE]
    /\ UNCHANGED <<phase, txs, hint, triggered, run, cooling, result, boundVars>>

(* The keeper's transactions are executed in nonce order. *)
Mine(c) ==
    \E i \in DOMAIN txs[c] :
        /\ txs[c][i] = "pending"
        /\ \A j \in 1 .. i - 1 : txs[c][j] # "pending"
        /\ IF Graduatable(c)
           THEN /\ phase' = [phase EXCEPT ![c] = "graduated"]
                /\ txs' = [txs EXCEPT ![c][i] = "success"]
           ELSE /\ txs' = [txs EXCEPT ![c][i] = "reverted"]
                /\ UNCHANGED phase
        /\ UNCHANGED <<priceOff, hint, triggered, run, cooling, result, boundVars>>

IndexerCatchesUp(c) ==
    /\ hint' = [hint EXCEPT ![c] = phase[c] = "ready"]
    /\ UNCHANGED <<chainVars, triggered, run, cooling, result, boundVars>>

-----------------------------------------------------------------------------
(* What starts an attempt *)

(* onReady: the log of a curve that became ready, delivered late, twice or *)
(* never.                                                                  *)
LogDelivered(c) ==
    /\ phase[c] # "trading"
    /\ triggered' = triggered \cup {c}
    /\ UNCHANGED <<chainVars, hint, run, cooling, result, boundVars>>

(* sweep: the rows are read once and attempted one after the other; the    *)
(* timer starts the next sweep whether or not this one has ended.          *)
Sweep ==
    /\ triggered' = triggered \cup {c \in Curve : hint[c]}
    /\ UNCHANGED <<chainVars, hint, run, cooling, result, boundVars>>

Skip(c) ==
    /\ c \in triggered
    /\ run[c] # Idle \/ cooling[c]
    /\ triggered' = triggered \ {c}
    /\ UNCHANGED <<chainVars, hint, run, cooling, result, boundVars>>

(* Mutation: the gate looks at inFlight only. *)
BeginIgnoringCooldown(c) ==
    /\ c \in triggered
    /\ run[c] = Idle
    /\ triggered' = triggered \ {c}
    /\ run' = [run EXCEPT ![c] = [at |-> "precheck", attempt |-> 1]]
    /\ UNCHANGED <<chainVars, hint, cooling, result, boundVars>>

Begin(c) ==
    /\ c \in triggered
    /\ run[c] = Idle /\ ~cooling[c]
    /\ triggered' = triggered \ {c}
    /\ run' = [run EXCEPT ![c] = [at |-> "precheck", attempt |-> 1]]
    /\ UNCHANGED <<chainVars, hint, cooling, result, boundVars>>

(* Mutation: a curve that failed once is skipped for good. *)
CooldownNeverEnds(c) == FALSE

CooldownEnds(c) ==
    /\ cooling[c]
    /\ cooling' = [cooling EXCEPT ![c] = FALSE]
    /\ UNCHANGED <<chainVars, hint, triggered, run, result, boundVars>>

-----------------------------------------------------------------------------
(* One attempt.  Every step is one awaited call and the code up to the     *)
(* next one.                                                               *)

At(c, step) == run[c].at = step

Goto(c, step) == run' = [run EXCEPT ![c].at = step] /\ UNCHANGED <<cooling, result>>

Finish(c, status) ==
    /\ run' = [run EXCEPT ![c] = Idle]
    /\ result' = [result EXCEPT ![c] = status]
    /\ UNCHANGED cooling

RpcFault == faults > 0 /\ faults' = faults - 1

(* readPhase: the phase, an earlier one from a node behind, or "unknown".  *)
ReadPhase(c, p) ==
    \/ p = phase[c] /\ UNCHANGED faults
    \/ RpcFault /\ p = "unknown"
    \/ RpcFault /\ p = "trading" /\ phase[c] # "trading"
    \/ RpcFault /\ p = "ready" /\ phase[c] = "graduated"

(* Mutation: one try too many. *)
RetryOnceMore(c) ==
    IF run[c].attempt <= maxAttempts
    THEN Goto(c, "backoff")
    ELSE /\ run' = [run EXCEPT ![c] = Idle]
         /\ cooling' = [cooling EXCEPT ![c] = TRUE]
         /\ result' = [result EXCEPT ![c] = "failed_persistent"]

(* A failed try: sleep and go on, or give up with the loud alert and cool  *)
(* down.                                                                   *)
Retry(c) ==
    IF run[c].attempt < maxAttempts
    THEN Goto(c, "backoff")
    ELSE /\ run' = [run EXCEPT ![c] = Idle]
         /\ cooling' = [cooling EXCEPT ![c] = TRUE]
         /\ result' = [result EXCEPT ![c] = "failed_persistent"]

Precheck(c) ==
    /\ At(c, "precheck")
    /\ \E p \in {"trading", "ready", "graduated", "unknown"} :
          /\ ReadPhase(c, p)
          /\ CASE p = "graduated" -> Finish(c, "already_graduated")
               [] p = "trading"   -> Finish(c, "not_ready")
               [] p = "unknown"   -> Finish(c, "phase_unavailable")
               [] p = "ready"     -> Goto(c, "estimate")
    /\ UNCHANGED <<chainVars, hint, triggered, bricks, crashes>>

Estimate(c) ==
    /\ At(c, "estimate")
    /\ \/ Graduatable(c) /\ Goto(c, "send") /\ UNCHANGED faults
       \/ ~Graduatable(c) /\ Goto(c, "classify") /\ UNCHANGED faults
       \/ RpcFault /\ (Goto(c, "send") \/ Goto(c, "classify"))
    /\ UNCHANGED <<chainVars, hint, triggered, bricks, crashes>>

(* sendGraduate may throw after the transaction reached the network. *)
Send(c) ==
    /\ At(c, "send")
    /\ \/ /\ txs' = [txs EXCEPT ![c] = Append(@, "pending")]
          /\ Goto(c, "receipt") /\ UNCHANGED faults
       \/ /\ RpcFault /\ Goto(c, "classify")
          /\ txs' = txs \/ txs' = [txs EXCEPT ![c] = Append(@, "pending")]
    /\ UNCHANGED <<phase, priceOff, hint, triggered, bricks, crashes>>

(* Mutation: no receipt is taken for a success. *)
ReceiptAssumed(c) ==
    /\ At(c, "receipt")
    /\ \/ txs[c][Len(txs[c])] = "success" /\ Finish(c, "graduated") /\ UNCHANGED faults
       \/ txs[c][Len(txs[c])] = "reverted" /\ Goto(c, "classify") /\ UNCHANGED faults
       \/ RpcFault /\ Finish(c, "graduated")
    /\ UNCHANGED <<chainVars, hint, triggered, bricks, crashes>>

(* waitForReceipt of the transaction this try sent, which is the last one. *)
(* When it throws, the next try starts without a look at the phase.        *)
Receipt(c) ==
    /\ At(c, "receipt")
    /\ \/ txs[c][Len(txs[c])] = "success" /\ Finish(c, "graduated") /\ UNCHANGED faults
       \/ txs[c][Len(txs[c])] = "reverted" /\ Goto(c, "classify") /\ UNCHANGED faults
       \/ RpcFault /\ Retry(c)
    /\ UNCHANGED <<chainVars, hint, triggered, bricks, crashes>>

(* After any other failure the phase decides. *)
Classify(c) ==
    /\ At(c, "classify")
    /\ \E p \in {"trading", "ready", "graduated", "unknown"} :
          /\ ReadPhase(c, p)
          /\ CASE p = "graduated" -> Finish(c, "already_graduated")
               [] p = "trading"   -> Finish(c, "not_ready")
               [] OTHER           -> Retry(c)
    /\ UNCHANGED <<chainVars, hint, triggered, bricks, crashes>>

Wake(c) ==
    /\ At(c, "backoff")
    /\ run' = [run EXCEPT ![c] = [at |-> "estimate", attempt |-> @.attempt + 1]]
    /\ UNCHANGED <<chainVars, hint, triggered, cooling, result, boundVars>>

(* The process dies and is started again: everything it kept is lost, what *)
(* it sent is not.                                                         *)
Crash ==
    /\ crashes > 0
    /\ crashes' = crashes - 1
    /\ triggered' = {}
    /\ run' = [c \in Curve |-> Idle]
    /\ cooling' = [c \in Curve |-> FALSE]
    /\ result' = [c \in Curve |-> "none"]
    /\ UNCHANGED <<chainVars, hint, faults, bricks>>

Attempt(c) ==
    Precheck(c) \/ Estimate(c) \/ Send(c) \/ Receipt(c) \/ Classify(c) \/ Wake(c)

Environment(c) ==
    \/ Fills(c) \/ GraduatedByOthers(c) \/ PriceMoves(c) \/ PriceCorrected(c)
    \/ Mine(c) \/ IndexerCatchesUp(c) \/ LogDelivered(c)

Next ==
    \/ \E c \in Curve : Environment(c)
    \/ Sweep
    \/ \E c \in Curve : Skip(c) \/ Begin(c) \/ CooldownEnds(c)
    \/ \E c \in Curve : Attempt(c)
    \/ Crash

(* Timers fire, awaited calls end (waitForTransactionReceipt has a         *)
(* timeout), sent transactions are executed and the indexer follows the    *)
(* chain.  Nothing is assumed of logs, other graduators or the price.      *)
Fairness ==
    /\ WF_vars(Sweep)
    /\ \A c \in Curve :
          /\ WF_vars(IndexerCatchesUp(c)) /\ WF_vars(Mine(c))
          /\ WF_vars(Begin(c)) /\ WF_vars(CooldownEnds(c)) /\ WF_vars(Attempt(c))

Spec == Init /\ [][Next]_vars /\ Fairness

-----------------------------------------------------------------------------
(* Properties *)

(* An attempt reports success only when the curve really is graduated, by  *)
(* whomever, through every late receipt, stale read and restart.           *)
ResultTruthful ==
    \A c \in Curve :
        result[c] \in {"graduated", "already_graduated"} => phase[c] = "graduated"

(* keeper.ts 14-18: after a persistent failure nothing is sent for the     *)
(* curve until the cooldown has passed, however many logs and overlapping  *)
(* sweeps bring it up.                                                     *)
QuietWhileCooling ==
    [][\A c \in Curve : Len(txs'[c]) > Len(txs[c]) => ~cooling[c]]_vars

(* A full curve is graduated, with every log lost, provided its pool's     *)
(* price is eventually left in tolerance: sweeps and cooldowns that end    *)
(* make up for lost logs, dead processes and failed calls.                 *)
KeeperGraduates ==
    \A c \in Curve :
        <>[]~priceOff[c] => (phase[c] = "ready" ~> phase[c] = "graduated")

=============================================================================

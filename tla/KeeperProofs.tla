---------------------------- MODULE KeeperProofs ----------------------------
(***************************************************************************)
(* GraduationKeeper for any set of curves, any number of tries and any     *)
(* number of faults: what an attempt reports is true, and a curve that     *)
(* cools down is left alone.                                               *)
(***************************************************************************)
EXTENDS GraduationKeeper, TLAPS

(* Retry looked before it slept: a sleeping attempt has a try left. *)
RunState ==
    {Idle} \cup {r \in [at : Step, attempt : 1 .. maxAttempts] :
                    r.at = "backoff" => r.attempt < maxAttempts}

(* An attempt waiting for a receipt has sent a transaction. *)
WaitsForOwn(c) == At(c, "receipt") => txs[c] # << >>

(* A graduate() that succeeded leaves the curve graduated for good. *)
SuccessIsFinal(c) ==
    \A i \in DOMAIN txs[c] : txs[c][i] = "success" => phase[c] = "graduated"

TruthOf(c) ==
    result[c] \in {"graduated", "already_graduated"} => phase[c] = "graduated"

KeeperInv ==
    /\ TypeOK
    /\ run \in [Curve -> RunState]
    /\ \A c \in Curve : WaitsForOwn(c) /\ SuccessIsFinal(c) /\ TruthOf(c)
    /\ \A c \in Curve : cooling[c] => run[c] = Idle

LEMMA KeeperInit == Init => KeeperInv
  <1> SUFFICES ASSUME Init PROVE KeeperInv
    OBVIOUS
  <1>1. TypeOK
    BY KeeperAssumption DEF Init, TypeOK, Status, Idle
  <1>2. \A c \in Curve : WaitsForOwn(c) /\ SuccessIsFinal(c) /\ TruthOf(c)
    BY DEF Init, WaitsForOwn, SuccessIsFinal, TruthOf, At, Idle
  <1> QED BY <1>1, <1>2 DEF Init, KeeperInv, RunState

-----------------------------------------------------------------------------
(* What the two ways an awaited call can end do to the attempt. *)

LEMMA GotoTyped ==
    ASSUME KeeperInv, NEW c \in Curve, NEW step \in Step \ {"backoff"},
           run[c] # Idle, Goto(c, step)
    PROVE  /\ run' \in [Curve -> RunState]
           /\ \A d \in Curve : d # c => run'[d] = run[d]
           /\ run'[c].at = step
           /\ \A d \in Curve : cooling[d] => run'[d] = Idle
           /\ UNCHANGED <<cooling, result>>
  <1>1. run[c] \in [at : Step, attempt : 1 .. maxAttempts]
    BY DEF KeeperInv, TypeOK
  <1>2. run' = [run EXCEPT ![c].at = step] /\ UNCHANGED <<cooling, result>>
    BY DEF Goto
  <1>3. [run[c] EXCEPT !.at = step] \in RunState
    BY <1>1 DEF RunState
  <1>4. run' \in [Curve -> RunState]
    BY <1>2, <1>3 DEF KeeperInv
  <1>5. run'[c].at = step
    BY <1>1, <1>2 DEF KeeperInv, TypeOK
  <1>6. \A d \in Curve : d # c => run'[d] = run[d]
    BY <1>2 DEF KeeperInv
  <1>7. \A d \in Curve : cooling[d] => run'[d] = Idle
    BY <1>6 DEF KeeperInv
  <1> QED BY <1>2, <1>4, <1>5, <1>6, <1>7

LEMMA FinishTyped ==
    ASSUME KeeperInv, NEW c \in Curve, NEW status \in Status, Finish(c, status)
    PROVE  /\ run' \in [Curve -> RunState]
           /\ \A d \in Curve : d # c => run'[d] = run[d]
           /\ run'[c] = Idle
           /\ result' \in [Curve -> Status]
           /\ result'[c] = status
           /\ \A d \in Curve : d # c => result'[d] = result[d]
           /\ UNCHANGED cooling
  BY DEF KeeperInv, TypeOK, Finish, RunState

LEMMA RetryTyped ==
    ASSUME KeeperInv, NEW c \in Curve, run[c] # Idle, Retry(c)
    PROVE  /\ run' \in [Curve -> RunState]
           /\ \A d \in Curve : d # c => run'[d] = run[d]
           /\ run'[c] = Idle \/ run'[c].at = "backoff"
           /\ cooling' \in [Curve -> BOOLEAN]
           /\ \A d \in Curve : cooling'[d] => run'[d] = Idle
           /\ result' \in [Curve -> Status]
           /\ result'[c] \in {result[c], "failed_persistent"}
           /\ \A d \in Curve : d # c => result'[d] = result[d]
  <1>1. CASE run[c].attempt < maxAttempts
    <2>1. run[c] \in [at : Step, attempt : 1 .. maxAttempts]
      BY DEF KeeperInv, TypeOK
    <2>2. run' = [run EXCEPT ![c].at = "backoff"] /\ UNCHANGED <<cooling, result>>
      BY <1>1 DEF Retry, Goto
    <2>3. [run[c] EXCEPT !.at = "backoff"] \in RunState
      BY <1>1, <2>1 DEF RunState, Step
    <2>4. run' \in [Curve -> RunState] /\ \A d \in Curve : d # c => run'[d] = run[d]
      BY <2>2, <2>3 DEF KeeperInv
    <2>5. run'[c].at = "backoff"
      BY <2>1, <2>2 DEF KeeperInv, TypeOK
    <2>6. \A d \in Curve : cooling'[d] => run'[d] = Idle
      BY <2>2, <2>4 DEF KeeperInv
    <2> QED BY <2>2, <2>4, <2>5, <2>6 DEF KeeperInv, TypeOK
  <1>2. CASE ~(run[c].attempt < maxAttempts)
    BY <1>2 DEF Retry, KeeperInv, TypeOK, Status, RunState
  <1> QED BY <1>1, <1>2

LEMMA FaultTyped ==
    ASSUME TypeOK, RpcFault
    PROVE  faults' \in 0 .. MaxRpcFaults
  BY KeeperAssumption DEF TypeOK, RpcFault

(* A step of an attempt that leaves the chain alone keeps the invariant if *)
(* it keeps the attempt typed and what it reports true.                    *)
LEMMA AttemptStep ==
    ASSUME KeeperInv, NEW c \in Curve,
           UNCHANGED <<chainVars, hint, triggered, bricks, crashes>>,
           faults' \in 0 .. MaxRpcFaults,
           run' \in [Curve -> RunState],
           \A d \in Curve : d # c => run'[d] = run[d] /\ result'[d] = result[d],
           run'[c].at # "receipt",
           cooling' \in [Curve -> BOOLEAN],
           \A d \in Curve : cooling'[d] => run'[d] = Idle,
           result' \in [Curve -> Status],
           result'[c] \in {"graduated", "already_graduated"} => phase[c] = "graduated"
    PROVE  KeeperInv'
  <1>1. TypeOK'
    BY DEF KeeperInv, TypeOK, chainVars, RunState
  <1>2. ASSUME NEW d \in Curve PROVE (WaitsForOwn(d) /\ SuccessIsFinal(d) /\ TruthOf(d))'
    BY DEF KeeperInv, WaitsForOwn, SuccessIsFinal, TruthOf, At, chainVars
  <1> QED BY <1>1, <1>2 DEF KeeperInv

LEMMA PrecheckInv ==
    ASSUME KeeperInv, NEW c \in Curve, Precheck(c) \/ Classify(c)
    PROVE  KeeperInv'
  <1>0. run[c] # Idle /\ TypeOK /\ UNCHANGED <<chainVars, hint, triggered, bricks, crashes>>
    BY DEF KeeperInv, Precheck, Classify, At, Idle
  <1>1. PICK p \in {"trading", "ready", "graduated", "unknown"} :
          /\ ReadPhase(c, p)
          /\ \/ p = "graduated" /\ Finish(c, "already_graduated")
             \/ p = "trading" /\ Finish(c, "not_ready")
             \/ p = "unknown" /\ Finish(c, "phase_unavailable")
             \/ p = "ready" /\ Goto(c, "estimate")
             \/ Retry(c)
    BY DEF Precheck, Classify
  <1>2. faults' \in 0 .. MaxRpcFaults
    BY <1>0, <1>1, FaultTyped DEF ReadPhase, TypeOK
  <1>3. p = "graduated" => phase[c] = "graduated"
    BY <1>1 DEF ReadPhase
  <1>4. CASE \E status \in {"already_graduated", "not_ready", "phase_unavailable"} :
               Finish(c, status) /\ (status = "already_graduated" => p = "graduated")
    <2>1. PICK status \in {"already_graduated", "not_ready", "phase_unavailable"} :
             Finish(c, status) /\ (status = "already_graduated" => p = "graduated")
      BY <1>4
    <2>2. status \in Status
      BY DEF Status
    <2>3. cooling' \in [Curve -> BOOLEAN] /\ \A d \in Curve : cooling'[d] => run'[d] = Idle
      BY <1>0, <2>1, <2>2, FinishTyped DEF KeeperInv, TypeOK
    <2>4. run'[c].at # "receipt"
      BY <2>1, <2>2, FinishTyped DEF Idle
    <2>5. result'[c] \in {"graduated", "already_graduated"} => phase[c] = "graduated"
      BY <1>3, <2>1, <2>2, FinishTyped
    <2> QED BY <1>0, <1>2, <2>1, <2>2, <2>3, <2>4, <2>5, FinishTyped, AttemptStep
  <1>5. CASE Goto(c, "estimate")
    <2>1. "estimate" \in Step \ {"backoff"}
      BY DEF Step
    <2>2. cooling' \in [Curve -> BOOLEAN] /\ result' \in [Curve -> Status]
          /\ (result'[c] \in {"graduated", "already_graduated"} => phase[c] = "graduated")
      BY <1>0, <1>5, <2>1, GotoTyped DEF KeeperInv, TypeOK, TruthOf
    <2> QED BY <1>0, <1>2, <1>5, <2>1, <2>2, GotoTyped, AttemptStep
  <1>6. CASE Retry(c)
    <2>1. run'[c].at # "receipt"
      BY <1>0, <1>6, RetryTyped DEF Idle
    <2>2. result'[c] \in {"graduated", "already_graduated"} => phase[c] = "graduated"
      BY <1>0, <1>6, RetryTyped DEF KeeperInv, TruthOf
    <2> QED BY <1>0, <1>2, <1>6, <2>1, <2>2, RetryTyped, AttemptStep
  <1> QED BY <1>1, <1>4, <1>5, <1>6

LEMMA EstimateInv ==
    ASSUME KeeperInv, NEW c \in Curve, Estimate(c)
    PROVE  KeeperInv'
  <1>0. run[c] # Idle /\ TypeOK /\ UNCHANGED <<chainVars, hint, triggered, bricks, crashes>>
    BY DEF KeeperInv, Estimate, At, Idle
  <1>1. PICK step \in {"send", "classify"} : Goto(c, step)
    BY DEF Estimate
  <1>2. faults' \in 0 .. MaxRpcFaults
    BY <1>0, FaultTyped DEF Estimate, TypeOK
  <1>3. step \in Step \ {"backoff"}
    BY DEF Step
  <1>4. cooling' \in [Curve -> BOOLEAN] /\ result' \in [Curve -> Status]
        /\ (result'[c] \in {"graduated", "already_graduated"} => phase[c] = "graduated")
    BY <1>0, <1>1, <1>3, GotoTyped DEF KeeperInv, TypeOK, TruthOf
  <1> QED BY <1>0, <1>1, <1>2, <1>3, <1>4, GotoTyped, AttemptStep

(* A transaction sent is pending: it has not succeeded. *)
LEMMA AppendPending ==
    ASSUME TypeOK, NEW c \in Curve,
           txs' = [txs EXCEPT ![c] = Append(@, "pending")]
    PROVE  /\ txs' \in [Curve -> Seq({"pending", "success", "reverted"})]
           /\ txs'[c] # << >>
           /\ \A d \in Curve : d # c => txs'[d] = txs[d]
           /\ \A i \in DOMAIN txs'[c] : txs'[c][i] = "success" =>
                  i \in DOMAIN txs[c] /\ txs[c][i] = "success"
           /\ Len(txs'[c]) > Len(txs[c])
  <1>1. txs[c] \in Seq({"pending", "success", "reverted"})
    BY DEF TypeOK
  <1>2. txs'[c] = Append(txs[c], "pending")
    BY DEF TypeOK
  <1>3. /\ txs'[c] \in Seq({"pending", "success", "reverted"})
        /\ txs'[c] # << >> /\ Len(txs'[c]) = Len(txs[c]) + 1
    BY <1>1, <1>2
  <1>4. \A i \in DOMAIN txs'[c] : txs'[c][i] = "success" =>
            i \in DOMAIN txs[c] /\ txs[c][i] = "success"
    BY <1>1, <1>2
  <1>5. Len(txs[c]) \in Nat
    BY <1>1
  <1> QED BY <1>3, <1>4, <1>5 DEF TypeOK

LEMMA SendInv ==
    ASSUME KeeperInv, NEW c \in Curve, Send(c)
    PROVE  KeeperInv'
  <1>0. /\ run[c] # Idle /\ TypeOK
        /\ UNCHANGED <<phase, priceOff, hint, triggered, bricks, crashes>>
    BY DEF KeeperInv, Send, At, Idle
  <1>1. faults' \in 0 .. MaxRpcFaults
    BY <1>0, FaultTyped DEF Send, TypeOK
  <1>2. PICK step \in {"receipt", "classify"} :
           /\ Goto(c, step)
           /\ \/ txs' = [txs EXCEPT ![c] = Append(@, "pending")]
              \/ step = "classify" /\ txs' = txs
    BY DEF Send
  <1>3. step \in Step \ {"backoff"}
    BY DEF Step
  <1>4. /\ run' \in [Curve -> RunState]
        /\ \A d \in Curve : d # c => run'[d] = run[d]
        /\ run'[c].at = step
        /\ \A d \in Curve : cooling[d] => run'[d] = Idle
        /\ UNCHANGED <<cooling, result>>
    BY <1>0, <1>2, <1>3, GotoTyped
  <1>5. /\ txs' \in [Curve -> Seq({"pending", "success", "reverted"})]
        /\ step = "receipt" => txs'[c] # << >>
        /\ \A d \in Curve : d # c => txs'[d] = txs[d]
        /\ \A i \in DOMAIN txs'[c] : txs'[c][i] = "success" =>
               i \in DOMAIN txs[c] /\ txs[c][i] = "success"
    <2>1. CASE txs' = txs /\ step = "classify"
      BY <1>0, <2>1 DEF TypeOK
    <2>2. CASE txs' = [txs EXCEPT ![c] = Append(@, "pending")]
      BY <1>0, <2>2, AppendPending
    <2> QED BY <1>2, <2>1, <2>2
  <1>6. TypeOK'
    BY <1>0, <1>1, <1>4, <1>5 DEF TypeOK, RunState
  <1>7. ASSUME NEW d \in Curve PROVE (WaitsForOwn(d) /\ SuccessIsFinal(d) /\ TruthOf(d))'
    <2>1. WaitsForOwn(d)'
      BY <1>4, <1>5 DEF KeeperInv, WaitsForOwn, At
    <2>2. SuccessIsFinal(d)'
      BY <1>0, <1>5 DEF KeeperInv, SuccessIsFinal
    <2>3. TruthOf(d)'
      BY <1>0, <1>4 DEF KeeperInv, TruthOf
    <2> QED BY <2>1, <2>2, <2>3
  <1> QED BY <1>4, <1>6, <1>7 DEF KeeperInv

LEMMA ReceiptInv ==
    ASSUME KeeperInv, NEW c \in Curve, Receipt(c)
    PROVE  KeeperInv'
  <1>0. run[c] # Idle /\ TypeOK /\ UNCHANGED <<chainVars, hint, triggered, bricks, crashes>>
    BY DEF KeeperInv, Receipt, At, Idle
  <1>1. faults' \in 0 .. MaxRpcFaults
    BY <1>0, FaultTyped DEF Receipt, TypeOK
  <1>2. CASE txs[c][Len(txs[c])] = "success" /\ Finish(c, "graduated")
    <2>1. Len(txs[c]) \in DOMAIN txs[c]
      <3>1. txs[c] # << >> /\ txs[c] \in Seq({"pending", "success", "reverted"})
        BY DEF KeeperInv, TypeOK, WaitsForOwn, Receipt
      <3> QED BY <3>1
    <2>2. phase[c] = "graduated"
      BY <1>2, <2>1 DEF KeeperInv, SuccessIsFinal
    <2>3. "graduated" \in Status
      BY DEF Status
    <2>4. cooling' \in [Curve -> BOOLEAN] /\ \A d \in Curve : cooling'[d] => run'[d] = Idle
      BY <1>0, <1>2, <2>3, FinishTyped DEF KeeperInv, TypeOK
    <2>5. run'[c].at # "receipt"
      BY <1>2, <2>3, FinishTyped DEF Idle
    <2> QED BY <1>0, <1>1, <1>2, <2>2, <2>3, <2>4, <2>5, FinishTyped, AttemptStep
  <1>3. CASE Goto(c, "classify")
    <2>1. "classify" \in Step \ {"backoff"}
      BY DEF Step
    <2>2. cooling' \in [Curve -> BOOLEAN] /\ result' \in [Curve -> Status]
          /\ (result'[c] \in {"graduated", "already_graduated"} => phase[c] = "graduated")
      BY <1>0, <1>3, <2>1, GotoTyped DEF KeeperInv, TypeOK, TruthOf
    <2> QED BY <1>0, <1>1, <1>3, <2>1, <2>2, GotoTyped, AttemptStep
  <1>4. CASE Retry(c)
    <2>1. run'[c].at # "receipt"
      BY <1>0, <1>4, RetryTyped DEF Idle
    <2>2. result'[c] \in {"graduated", "already_graduated"} => phase[c] = "graduated"
      BY <1>0, <1>4, RetryTyped DEF KeeperInv, TruthOf
    <2> QED BY <1>0, <1>1, <1>4, <2>1, <2>2, RetryTyped, AttemptStep
  <1> QED BY <1>2, <1>3, <1>4 DEF Receipt


LEMMA WakeInv ==
    ASSUME KeeperInv, NEW c \in Curve, Wake(c)
    PROVE  KeeperInv'
  <1>0. /\ TypeOK /\ run \in [Curve -> RunState] /\ run[c].at = "backoff" /\ run[c] # Idle
        /\ UNCHANGED <<chainVars, hint, triggered, cooling, result, boundVars>>
    BY DEF KeeperInv, Wake, At, Idle
  <1>1. run[c] \in [at : Step, attempt : 1 .. maxAttempts] /\ run[c].attempt < maxAttempts
    BY <1>0 DEF RunState
  <1>2. run' = [run EXCEPT ![c] = [at |-> "estimate", attempt |-> run[c].attempt + 1]]
    BY DEF Wake
  <1>3. [at |-> "estimate", attempt |-> run[c].attempt + 1] \in RunState
    <2>1. run[c].attempt + 1 \in 1 .. maxAttempts
      BY <1>1, KeeperAssumption
    <2> QED BY <2>1 DEF RunState, Step
  <1>4. /\ run' \in [Curve -> RunState] /\ run'[c].at # "receipt"
        /\ \A d \in Curve : d # c => run'[d] = run[d]
    BY <1>0, <1>2, <1>3
  <1>5. \A d \in Curve : cooling'[d] => run'[d] = Idle
    BY <1>0, <1>4 DEF KeeperInv
  <1>6. /\ faults' \in 0 .. MaxRpcFaults /\ bricks' = bricks /\ crashes' = crashes
        /\ cooling' \in [Curve -> BOOLEAN] /\ result' \in [Curve -> Status]
        /\ result' = result
        /\ (result'[c] \in {"graduated", "already_graduated"} => phase[c] = "graduated")
    BY <1>0 DEF KeeperInv, TypeOK, TruthOf, boundVars
  <1> QED BY <1>0, <1>4, <1>5, <1>6, AttemptStep

LEMMA BeginInv ==
    ASSUME KeeperInv, NEW c \in Curve, Begin(c)
    PROVE  KeeperInv'
  <1>0. /\ TypeOK /\ run \in [Curve -> RunState] /\ ~cooling[c]
        /\ UNCHANGED <<chainVars, hint, cooling, result, boundVars>>
    BY DEF KeeperInv, Begin
  <1>1. [at |-> "precheck", attempt |-> 1] \in RunState
    BY KeeperAssumption DEF RunState, Step
  <1>2. /\ run' \in [Curve -> RunState] /\ run'[c].at # "receipt"
        /\ \A d \in Curve : d # c => run'[d] = run[d]
    BY <1>0, <1>1 DEF Begin
  <1>3. triggered' \subseteq Curve
    BY <1>0 DEF Begin, TypeOK
  <1>4. TypeOK'
    BY <1>0, <1>2, <1>3 DEF TypeOK, RunState, chainVars, boundVars
  <1>5. \A d \in Curve : cooling'[d] => run'[d] = Idle
    BY <1>0, <1>2 DEF KeeperInv
  <1>6. ASSUME NEW d \in Curve PROVE (WaitsForOwn(d) /\ SuccessIsFinal(d) /\ TruthOf(d))'
    BY <1>0, <1>2 DEF KeeperInv, WaitsForOwn, SuccessIsFinal, TruthOf, At, chainVars
  <1> QED BY <1>2, <1>4, <1>5, <1>6 DEF KeeperInv

(* What brings a curve up, lets it wait or forgets it. *)
LEMMA GateInv ==
    ASSUME KeeperInv,
           \/ Sweep
           \/ \E c \in Curve : LogDelivered(c) \/ Skip(c) \/ CooldownEnds(c)
    PROVE  KeeperInv'
  <1>1. /\ UNCHANGED <<chainVars, hint, run, result, boundVars>>
        /\ triggered' \subseteq Curve
        /\ cooling' \in [Curve -> BOOLEAN]
        /\ \A c \in Curve : cooling'[c] => cooling[c]
    BY DEF KeeperInv, TypeOK, Sweep, LogDelivered, Skip, CooldownEnds, chainVars, boundVars
  <1>2. TypeOK'
    BY <1>1 DEF KeeperInv, TypeOK, chainVars, boundVars
  <1>3. ASSUME NEW d \in Curve PROVE (WaitsForOwn(d) /\ SuccessIsFinal(d) /\ TruthOf(d))'
    BY <1>1 DEF KeeperInv, WaitsForOwn, SuccessIsFinal, TruthOf, At, chainVars
  <1> QED BY <1>1, <1>2, <1>3 DEF KeeperInv

LEMMA CrashInv ==
    ASSUME KeeperInv, Crash
    PROVE  KeeperInv'
  <1>1. TypeOK'
    BY KeeperAssumption DEF KeeperInv, TypeOK, Crash, chainVars, Status
  <1>2. ASSUME NEW d \in Curve PROVE (WaitsForOwn(d) /\ SuccessIsFinal(d) /\ TruthOf(d))'
    BY DEF KeeperInv, Crash, WaitsForOwn, SuccessIsFinal, TruthOf, At, chainVars, Idle
  <1>3. run' \in [Curve -> RunState] /\ \A c \in Curve : cooling'[c] => run'[c] = Idle
    BY DEF Crash, RunState
  <1> QED BY <1>1, <1>2, <1>3 DEF KeeperInv

-----------------------------------------------------------------------------
(* The chain: a curve that is graduated stays so. *)

LEMMA ChainStep ==
    ASSUME KeeperInv,
           UNCHANGED <<txs, triggered, run, cooling, result, faults, crashes>>,
           phase' \in [Curve -> {"trading", "ready", "graduated"}],
           priceOff' \in [Curve -> BOOLEAN], hint' \in [Curve -> BOOLEAN],
           bricks' \in 0 .. MaxBricks,
           \A c \in Curve : phase[c] = "graduated" => phase'[c] = "graduated"
    PROVE  KeeperInv'
  <1>1. TypeOK'
    BY DEF KeeperInv, TypeOK
  <1>2. ASSUME NEW d \in Curve PROVE (WaitsForOwn(d) /\ SuccessIsFinal(d) /\ TruthOf(d))'
    BY DEF KeeperInv, WaitsForOwn, SuccessIsFinal, TruthOf, At
  <1> QED BY <1>1, <1>2 DEF KeeperInv

LEMMA MineInv ==
    ASSUME KeeperInv, NEW c \in Curve, Mine(c)
    PROVE  KeeperInv'
  <1>0. TypeOK /\ UNCHANGED <<priceOff, hint, triggered, run, cooling, result, boundVars>>
    BY DEF KeeperInv, Mine
  <1>1. PICK i \in DOMAIN txs[c] :
           \/ /\ phase' = [phase EXCEPT ![c] = "graduated"]
              /\ txs' = [txs EXCEPT ![c][i] = "success"]
           \/ /\ txs' = [txs EXCEPT ![c][i] = "reverted"]
              /\ UNCHANGED phase
    BY DEF Mine
  <1>2. PICK outcome \in {"success", "reverted"} :
           /\ txs' = [txs EXCEPT ![c] = [txs[c] EXCEPT ![i] = outcome]]
           /\ outcome = "success" => phase' = [phase EXCEPT ![c] = "graduated"]
           /\ outcome = "reverted" => phase' = phase
    BY <1>1
  <1>3. txs[c] \in Seq({"pending", "success", "reverted"})
    BY <1>0 DEF TypeOK
  <1>4. /\ [txs[c] EXCEPT ![i] = outcome] \in Seq({"pending", "success", "reverted"})
        /\ [txs[c] EXCEPT ![i] = outcome] # << >>
    BY <1>3
  <1>5. /\ phase' \in [Curve -> {"trading", "ready", "graduated"}]
        /\ \A d \in Curve : phase[d] = "graduated" => phase'[d] = "graduated"
    BY <1>0, <1>2 DEF TypeOK
  <1>6. /\ txs' \in [Curve -> Seq({"pending", "success", "reverted"})]
        /\ \A d \in Curve : txs[d] # << >> => txs'[d] # << >>
    BY <1>0, <1>2, <1>4 DEF TypeOK
  <1>7. ASSUME NEW d \in Curve PROVE SuccessIsFinal(d)'
    <2>1. CASE d # c
      BY <1>0, <1>2, <1>5, <2>1 DEF KeeperInv, SuccessIsFinal, TypeOK
    <2>2. CASE d = c
      <3>1. txs'[c] = [txs[c] EXCEPT ![i] = outcome]
        BY <1>0, <1>2 DEF TypeOK
      <3>2. \A j \in DOMAIN txs'[c] : txs'[c][j] = "success" =>
               (j \in DOMAIN txs[c] /\ txs[c][j] = "success") \/ outcome = "success"
        BY <3>1
      <3>3. outcome = "success" => phase'[c] = "graduated"
        BY <1>0, <1>2 DEF TypeOK
      <3> QED BY <1>5, <2>2, <3>2, <3>3 DEF KeeperInv, SuccessIsFinal
    <2> QED BY <2>1, <2>2
  <1>8. TypeOK'
    BY <1>0, <1>5, <1>6 DEF TypeOK, boundVars
  <1>9. ASSUME NEW d \in Curve PROVE (WaitsForOwn(d) /\ TruthOf(d))'
    BY <1>0, <1>5, <1>6 DEF KeeperInv, WaitsForOwn, TruthOf, At
  <1> QED BY <1>0, <1>7, <1>8, <1>9 DEF KeeperInv

LEMMA EnvironmentInv ==
    ASSUME KeeperInv, NEW c \in Curve, Environment(c)
    PROVE  KeeperInv'
  <1>1. CASE Fills(c)
    BY <1>1, ChainStep DEF KeeperInv, TypeOK, Fills, boundVars
  <1>2. CASE GraduatedByOthers(c)
    BY <1>2, ChainStep DEF KeeperInv, TypeOK, GraduatedByOthers, boundVars
  <1>3. CASE PriceMoves(c)
    <2>1. bricks' \in 0 .. MaxBricks
      BY <1>3, KeeperAssumption DEF KeeperInv, TypeOK, PriceMoves
    <2> QED BY <1>3, <2>1, ChainStep DEF KeeperInv, TypeOK, PriceMoves
  <1>4. CASE PriceCorrected(c)
    BY <1>4, ChainStep DEF KeeperInv, TypeOK, PriceCorrected, boundVars
  <1>5. CASE Mine(c)
    BY <1>5, MineInv
  <1>6. CASE IndexerCatchesUp(c)
    BY <1>6, ChainStep DEF KeeperInv, TypeOK, IndexerCatchesUp, chainVars, boundVars
  <1>7. CASE LogDelivered(c)
    BY <1>7, GateInv
  <1> QED BY <1>1, <1>2, <1>3, <1>4, <1>5, <1>6, <1>7 DEF Environment

LEMMA KeeperStep == KeeperInv /\ [Next]_vars => KeeperInv'
  <1> SUFFICES ASSUME KeeperInv, [Next]_vars PROVE KeeperInv'
    OBVIOUS
  <1>1. ASSUME NEW c \in Curve, Environment(c) PROVE KeeperInv'
    BY <1>1, EnvironmentInv
  <1>2. ASSUME NEW c \in Curve, Attempt(c) PROVE KeeperInv'
    BY <1>2, PrecheckInv, EstimateInv, SendInv, ReceiptInv, WakeInv DEF Attempt
  <1>3. ASSUME NEW c \in Curve, Begin(c) PROVE KeeperInv'
    BY <1>3, BeginInv
  <1>4. ASSUME NEW c \in Curve, Skip(c) \/ CooldownEnds(c) PROVE KeeperInv'
    BY <1>4, GateInv
  <1>5. CASE Sweep
    BY <1>5, GateInv
  <1>6. CASE Crash
    BY <1>6, CrashInv
  <1>7. CASE UNCHANGED vars
    BY <1>7 DEF KeeperInv, TypeOK, WaitsForOwn, SuccessIsFinal, TruthOf, At,
                vars, chainVars, boundVars
  <1> QED BY <1>1, <1>2, <1>3, <1>4, <1>5, <1>6, <1>7 DEF Next

(* Every curve's attempt is where its transactions and the chain say it is. *)
THEOREM KeeperInvariant == Spec => []KeeperInv
  BY KeeperInit, KeeperStep, PTL DEF Spec

(* The types, in particular that no attempt is tried more than maxAttempts *)
(* times (keeper.ts 164-201).                                              *)
THEOREM KeeperTypeCorrect == Spec => []TypeOK
  <1>1. KeeperInv => TypeOK
    BY DEF KeeperInv
  <1> QED BY <1>1, KeeperInvariant, PTL

(* processCurve's answer "graduated" or "already_graduated" is never wrong, *)
(* for any number of curves, tries, faults and restarts.                    *)
THEOREM ResultsAreTrue == Spec => []ResultTruthful
  <1>1. KeeperInv => ResultTruthful
    BY DEF KeeperInv, TruthOf, ResultTruthful
  <1> QED BY <1>1, KeeperInvariant, PTL

(* Nothing is sent for a curve that cools down (keeper.ts 126-146). *)
THEOREM CoolingIsQuiet == Spec => QuietWhileCooling
  <1>1. ASSUME KeeperInv, [Next]_vars, NEW c \in Curve, Len(txs'[c]) > Len(txs[c])
        PROVE  ~cooling[c]
    <2>0. Len(txs[c]) \in Nat
      BY <1>1 DEF KeeperInv, TypeOK
    <2>1. CASE \E d \in Curve : Send(d)
      <3>1. PICK d \in Curve : Send(d)
        BY <2>1
      <3>2. d = c
        BY <1>1, <2>0, <3>1 DEF Send, KeeperInv, TypeOK
      <3> QED BY <1>1, <3>1, <3>2 DEF Send, At, KeeperInv, Idle
    <2>2. CASE \E d \in Curve : Mine(d)
      <3>1. PICK d \in Curve : Mine(d)
        BY <2>2
      <3>2. PICK i \in DOMAIN txs[d], outcome \in {"success", "reverted"} :
               txs' = [txs EXCEPT ![d] = [txs[d] EXCEPT ![i] = outcome]]
        BY <3>1 DEF Mine
      <3>3. txs[d] \in Seq({"pending", "success", "reverted"})
        BY <1>1 DEF KeeperInv, TypeOK
      <3>4. Len([txs[d] EXCEPT ![i] = outcome]) = Len(txs[d])
        BY <3>2, <3>3
      <3>5. Len(txs'[c]) = Len(txs[c])
        BY <1>1, <3>2, <3>4 DEF KeeperInv, TypeOK
      <3> QED BY <1>1, <2>0, <3>5
    <2>3. CASE txs' = txs
      BY <1>1, <2>0, <2>3
    <2>4. \/ \E d \in Curve : Send(d) \/ Mine(d)
          \/ txs' = txs
      BY <1>1 DEF Next, vars, Environment, Attempt, chainVars, Fills, GraduatedByOthers,
                  PriceMoves, PriceCorrected, IndexerCatchesUp, LogDelivered, Sweep, Skip,
                  Begin, CooldownEnds, Crash, Precheck, Estimate, Receipt, Classify, Wake
    <2> QED BY <2>1, <2>2, <2>3, <2>4
  <1>2. KeeperInv /\ [Next]_vars
          => [\A c \in Curve : Len(txs'[c]) > Len(txs[c]) => ~cooling[c]]_vars
    BY <1>1
  <1> QED BY <1>2, KeeperInvariant, PTL DEF Spec, QuietWhileCooling
=============================================================================

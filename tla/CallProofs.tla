------------------------------- MODULE CallProofs -------------------------------
(***************************************************************************)
(* Proofs about what the delivery of one job calls: its lease and budget,  *)
(* the AI gateway and the wallet, the transcription of a voice message,    *)
(* the memory of the contact, and the policies, for any number of workers, *)
(* editors and calls, and any values of the bounds.                        *)
(***************************************************************************)
EXTENDS MCToolExecutions, ToolExecutionsProofs, FiniteSetTheorems, SequenceTheorems, TLAPS

-----------------------------------------------------------------------------
(* The lease and the budget: a budget that outlasts the lease never gives up *)
(* a job after one crash.                                                    *)

\* How long ago the entry was first delivered, at least.
Elapsed == (delivery - 1) * IdleTicks + idle

\* Until the run is done or claimed a second time, the deliveries fit into
\* the first worker's time and the part of its lease that has passed.
FirstClaim ==
    /\ holder = "working" /\ ~crashed => Elapsed <= worked
    /\ holder = "none" /\ lease > 0 => Elapsed <= MaxWork + (LeaseTicks - lease)
    /\ delivery < MaxAttempts

BudgetInv ==
    /\ BudgetTypeOK
    /\ entry # "dead" => delivery <= MaxAttempts
    /\ holder = "finishing" => run = "succeeded"
    /\ holder = "working" => run = "pending" /\ lease > 0
    /\ run = "pending" /\ holder = "none" => crashed
    /\ run = "pending" /\ (holder = "none" \/ ~crashed) => entry = "pending" /\ FirstClaim

\* A delivery that comes after IdleTicks ends one more interval.
LEMMA OneMore == \A a, i \in Nat : a \in Nat \ {0} => (a - 1) * i + i = a * i
  OBVIOUS

\* A budget that outlasts a lease allows more than one delivery.
LEMMA TwoAttempts == BudgetOutlastsLease => MaxAttempts > 1
  <1>1 (1 - 1) * IdleTicks = 0
    BY ClockAssumption
  <1>2 MaxAttempts = 1 => ~BudgetOutlastsLease
    BY <1>1, ClockAssumption DEF BudgetOutlastsLease
  <1> QED
    BY <1>2, ClockAssumption

\* While the first claim stands, a reclaim is not the last permitted one.
LEMMA NotTheLast ==
    ASSUME BudgetOutlastsLease, BudgetInv, Reclaim, run = "pending", holder = "none" \/ ~crashed,
           lease > 0
    PROVE  delivery + 1 < MaxAttempts
  <1> USE ClockAssumption DEF BudgetInv, BudgetTypeOK
  <1>1 Elapsed = delivery * IdleTicks
    BY OneMore DEF Reclaim, IdleLongEnough, Exhausted, Elapsed
  <1>2 Elapsed < MaxWork + LeaseTicks
    BY DEF FirstClaim, Elapsed
  <1>3 delivery < MaxAttempts
    BY DEF FirstClaim
  <1>4 ASSUME delivery + 1 = MaxAttempts PROVE FALSE
    BY <1>1, <1>2, <1>4 DEF BudgetOutlastsLease
  <1> QED
    BY <1>3, <1>4

\* The inductive step; a dead-lettering Reclaim finds no run waiting.
LEMMA BudgetStep == BudgetOutlastsLease /\ BudgetInv /\ [BudgetNext]_budgetVars => BudgetInv'
  <1> SUFFICES ASSUME BudgetOutlastsLease, BudgetInv, [BudgetNext]_budgetVars PROVE BudgetInv'
    OBVIOUS
  <1> USE ClockAssumption DEF BudgetInv, BudgetTypeOK
  <1>1 CASE UNCHANGED budgetVars
    BY <1>1 DEF budgetVars, FirstClaim, Elapsed
  <1>2 CASE Tick
    BY <1>2 DEF Tick, FirstClaim, Elapsed
  <1>3 CASE RenewRunLease
    BY <1>3 DEF RenewRunLease, FirstClaim, Elapsed
  <1>4 CASE CompleteRun
    BY <1>4 DEF CompleteRun, FirstClaim, Elapsed
  <1>5 CASE Acknowledge
    BY <1>5 DEF Acknowledge, FirstClaim, Elapsed
  <1>6 CASE Crash
    BY <1>6 DEF Crash, FirstClaim, Elapsed
  <1>7 CASE Reclaim
    <2>1 ASSUME run = "pending", holder = "none" \/ ~crashed
         PROVE  entry' = "pending" /\ delivery + 1 <= MaxAttempts
      BY <1>7, <2>1, NotTheLast DEF Reclaim, IdleLongEnough, Exhausted, FirstClaim
    <2>2 Elapsed = delivery * IdleTicks
      BY <1>7, OneMore DEF Reclaim, IdleLongEnough, Exhausted, Elapsed
    <2>3 Elapsed' = delivery * IdleTicks
      BY <1>7 DEF Reclaim, IdleLongEnough, Exhausted, Elapsed
    <2>4 BudgetTypeOK'
      BY <1>7 DEF Reclaim, IdleLongEnough, Exhausted
    <2>5 (run' = "pending" /\ (holder' = "none" \/ ~crashed')) => entry' = "pending" /\ FirstClaim'
      <3>1 CASE lease > 0
        BY <1>7, <2>1, <2>2, <2>3, <3>1, NotTheLast DEF Reclaim, IdleLongEnough, Exhausted, FirstClaim
      <3>2 CASE lease = 0
        BY <1>7, <2>1, <3>2 DEF Reclaim, IdleLongEnough, Exhausted, FirstClaim
      <3> QED
        BY <3>1, <3>2
    <2> QED
      BY <1>7, <2>1, <2>4, <2>5 DEF Reclaim, IdleLongEnough, Exhausted
  <1> QED
    BY <1>1, <1>2, <1>3, <1>4, <1>5, <1>6, <1>7 DEF BudgetNext

\* With a budget that outlasts the lease, a job whose worker crashed once is
\* claimed again and never dead-lettered while its run waits.
THEOREM SufficientBudget ==
    BudgetOutlastsLease => (BudgetSpec => []ExpiredLeaseIsReclaimed)
  <1> SUFFICES ASSUME BudgetOutlastsLease PROVE BudgetSpec => []ExpiredLeaseIsReclaimed
    OBVIOUS
  <1>1 BudgetInit => BudgetInv
    <2> SUFFICES ASSUME BudgetInit PROVE BudgetInv
      OBVIOUS
    <2>1 (1 - 1) * IdleTicks + 0 = 0
      BY ClockAssumption
    <2>2 Elapsed = 0
      BY <2>1 DEF BudgetInit, Elapsed
    <2> QED
      <3>1 MaxAttempts > 1
        BY TwoAttempts
      <3>b crashed \in BOOLEAN
        BY DEF BudgetInit
      <3>2 BudgetTypeOK
        BY <3>b, ClockAssumption DEF BudgetInit, BudgetTypeOK
      <3>3 FirstClaim
        BY <2>2, <3>1 DEF BudgetInit, FirstClaim
      <3> QED
        BY <3>1, <3>2, <3>3, ClockAssumption DEF BudgetInit, BudgetInv
  <1>2 BudgetInv /\ [BudgetNext]_budgetVars => BudgetInv'
    BY BudgetStep
  <1>3 BudgetInv => ExpiredLeaseIsReclaimed
    BY DEF BudgetInv, BudgetTypeOK, ExpiredLeaseIsReclaimed
  <1> QED
    BY <1>1, <1>2, <1>3, PTL DEF BudgetSpec

-----------------------------------------------------------------------------
(* The gateway and the wallet: the inductive invariant.                      *)

Trace == [call : GwCallers \X Nat, at : Nat \X Nat, model : Models, scope : Scopes,
          ok : BOOLEAN]
LedgerRow == [kind : {"credit", "ai_debit"}, amount : Nat, after : Int,
              of : Trace \cup {Nil}, unchecked : BOOLEAN]
Conf == [scope : Scopes, attempts : 1..3, routes : Seq(Models)]

\* The columns of every row, and what a call keeps of its profile.
GatewayRowsTyped ==
    /\ ledger \in Seq(LedgerRow)
    /\ traces \subseteq Trace
    /\ gwConf \in [GwCallers -> Conf]
    /\ gwAt \in [GwCallers -> Nat \X Nat]
    /\ \A i \in 1..Len(ledger) : ledger[i].kind = "ai_debit" => ledger[i].of \in Trace

\* A call is at a route of its profile; a profile that was saved stays, and a
\* platform profile calls only what has a price.
CallsFit ==
    \A c \in GwCallers :
        /\ gwPc[c] = "routes" => profiles[gwConf[c].scope] # Nil
        /\ gwPc[c] \in {"invoke", "record"} =>
              /\ gwConf[c].scope = "platform" => price[ModelOf(c)] # Nil
              /\ ~gwFree[c] => balance # Nil

\* The balance is what the rows say, from nothing.
LedgerStarts == balance # Nil /\ ledger = <<>> => balance = 0

\* A call that is debited is over.
DebitsAreOver ==
    \A i \in 1..Len(ledger) : ledger[i].kind = "ai_debit" =>
        LET d == ledger[i].of.call[1] IN
        /\ d \in GwCallers
        /\ ledger[i].of.call[2] <= gwCalls[d]
        /\ gwPc[d] # "idle" => ledger[i].of.call[2] < gwCalls[d]

\* The callers that were let through by the balance.
Checked == {c \in GwCallers : gwPc[c] \in {"invoke", "record"} /\ ~gwFree[c]}
UncheckedIn(lg) == {i \in 1..Len(lg) : lg[i].kind = "ai_debit" /\ lg[i].unchecked}
Room == Cardinality(GwCallers) - Cardinality(Checked) + Cardinality(UncheckedIn(ledger))

\* Each of them may still take one charge.
BalanceCovers == balance # Nil => balance + MaxPrice * Room >= 0

GatewayInv ==
    /\ GatewayTypeOK
    /\ GatewayRowsTyped
    /\ CallsFit
    /\ LedgerStarts
    /\ LedgerAddsUp
    /\ DebitsAreOver
    /\ DebitedOnce
    /\ PlatformUseIsDebited
    /\ BalanceCovers

\* What one more row does to a ledger.
LEMMA OneMoreRow ==
    ASSUME NEW S, NEW lg \in Seq(S), NEW r \in S
    PROVE  /\ Append(lg, r) \in Seq(S)
           /\ Len(lg) \in Nat
           /\ Len(Append(lg, r)) = Len(lg) + 1
           /\ \A i \in 1..Len(lg) : Append(lg, r)[i] = lg[i]
           /\ Append(lg, r)[Len(lg) + 1] = r
  BY LenProperties

\* The highest price.
LEMMA HighestPrice == MaxPrice \in Nat /\ \A q \in Prices : q \in Nat /\ q <= MaxPrice
  BY GatewayAssumption DEF MaxPrice

\* The attempt a call is at has a model.
LEMMA RouteHasModel ==
    ASSUME GatewayTypeOK, GatewayRowsTyped, NEW c \in GwCallers,
           gwPc[c] \in {"route", "invoke", "record"}
    PROVE  /\ gwConf[c] \in Conf /\ gwAt[c][1] \in 1..Len(gwConf[c].routes)
           /\ gwAt[c][2] \in 1..gwConf[c].attempts
           /\ ModelOf(c) \in Models
  <1>1 gwConf[c] \in Conf
    BY DEF GatewayRowsTyped
  <1>2 gwAt[c] \in (1..Len(gwConf[c].routes)) \X (1..gwConf[c].attempts)
    BY DEF GatewayTypeOK
  <1>3 gwConf[c].routes \in Seq(Models)
    BY <1>1 DEF Conf
  <1>4 ModelOf(c) \in Models
    BY <1>2, <1>3, ElementOfSeq DEF ModelOf
  <1> QED
    BY <1>1, <1>2, <1>4

\* So has its trace the columns of a trace.
LEMMA TraceIsTyped ==
    ASSUME GatewayTypeOK, GatewayRowsTyped, NEW c \in GwCallers, NEW ok \in BOOLEAN,
           gwPc[c] \in {"route", "invoke", "record"}
    PROVE  /\ TraceOf(c, ok) \in Trace
           /\ TraceOf(c, ok).ok = ok /\ TraceOf(c, ok).call = <<c, gwCalls[c]>>
           /\ TraceOf(c, ok).scope = gwConf[c].scope
  <1>1 gwCalls[c] \in Nat /\ gwAt[c] \in Nat \X Nat /\ gwConf[c].scope \in Scopes
    BY GatewayAssumption DEF GatewayTypeOK, GatewayRowsTyped, Conf
  <1> QED
    BY <1>1, RouteHasModel DEF TraceOf, Trace

\* What a step of a call does to the call, and that it leaves the others alone.
CallVarsTyped ==
    /\ gwPc \in [GwCallers -> GwPcs]
    /\ gwCalls \in [GwCallers -> 0..MaxGwCalls]
    /\ gwFree \in [GwCallers -> BOOLEAN]
    /\ gwConf \in [GwCallers -> Conf]
    /\ gwAt \in [GwCallers -> Nat \X Nat]
CallInRange(c) ==
    gwPc[c] \in {"route", "invoke", "record"} =>
        gwAt[c] \in (1..Len(gwConf[c].routes)) \X (1..gwConf[c].attempts)
OthersStay(c) ==
    \A d \in GwCallers \ {c} :
        /\ gwPc'[d] = gwPc[d] /\ gwCalls'[d] = gwCalls[d] /\ gwFree'[d] = gwFree[d]
        /\ gwConf'[d] = gwConf[d] /\ gwAt'[d] = gwAt[d]

\* An idle call.
LEMMA IdleCall == NoConf \in Conf /\ <<1, 1>> \in Nat \X Nat
  BY EmptySeq DEF NoConf, Conf, Scopes

\* The end of a call.
LEMMA FinishedCall ==
    ASSUME CallVarsTyped, NEW c \in GwCallers, Finish(c), UNCHANGED gwCalls
    PROVE  /\ CallVarsTyped' /\ OthersStay(c)
           /\ gwPc'[c] = "idle"
  <1>1 /\ gwPc' = [gwPc EXCEPT ![c] = "idle"]
       /\ gwFree' = [gwFree EXCEPT ![c] = FALSE]
    BY DEF Finish
  <1>2 PICK n \in Conf : gwConf' = [gwConf EXCEPT ![c] = n]
    BY IdleCall DEF Finish
  <1>3 PICK a \in Nat \X Nat : gwAt' = [gwAt EXCEPT ![c] = a]
    BY IdleCall DEF Finish
  <1> HIDE DEF Finish
  <1> QED
    BY <1>1, <1>2, <1>3 DEF CallVarsTyped, OthersStay, GwPcs

\* The next route, if there is one.
LEMMA RouteIsLeft ==
    ASSUME GatewayTypeOK, GatewayRowsTyped, CallVarsTyped, NEW c \in GwCallers,
           gwPc[c] \in {"route", "invoke"}, NextRoute(c), UNCHANGED gwCalls
    PROVE  /\ CallVarsTyped' /\ OthersStay(c) /\ CallInRange(c)'
           /\ gwPc'[c] \in {"idle", "route"}
  <1>1 CASE Finish(c)
    BY <1>1, FinishedCall DEF CallInRange
  <1>2 CASE ~Finish(c)
    <2>1 gwAt[c][1] # Len(gwConf[c].routes)
      BY <1>2 DEF NextRoute
    <2>2 /\ gwAt[c][1] \in 1..Len(gwConf[c].routes) /\ gwConf[c] \in Conf
      BY RouteHasModel
    <2>3 gwConf[c].attempts \in 1..3 /\ gwConf[c].routes \in Seq(Models)
      BY <2>2 DEF Conf
    <2>4 Len(gwConf[c].routes) \in Nat
      BY <2>3, LenProperties
    <2> DEFINE a == <<gwAt[c][1] + 1, 1>>
    <2>5 a \in (1..Len(gwConf[c].routes)) \X (1..gwConf[c].attempts) /\ a \in Nat \X Nat
      BY <2>1, <2>2, <2>3, <2>4
    <2>6 /\ gwPc' = [gwPc EXCEPT ![c] = "route"]
         /\ gwAt' = [gwAt EXCEPT ![c] = a]
         /\ gwFree' = [gwFree EXCEPT ![c] = FALSE]
         /\ gwConf' = gwConf
      BY <2>1 DEF NextRoute
    <2> HIDE DEF a
    <2>7 CallVarsTyped' /\ OthersStay(c) /\ gwPc'[c] = "route"
      BY <2>5, <2>6 DEF CallVarsTyped, OthersStay, GwPcs
    <2>8 gwAt'[c] = a /\ gwConf'[c] = gwConf[c]
      BY <2>6 DEF CallVarsTyped
    <2> QED
      BY <2>5, <2>7, <2>8 DEF CallInRange
  <1> QED
    BY <1>1, <1>2


\* A step of a call that debits nothing: it may leave a failed trace, and comes
\* to the provider only from where ensure_can_execute was passed.
Quiet(c) ==
    /\ UNCHANGED <<gwOwnerVars, balance, ledger>>
    /\ traces' = traces \/ \E t \in Trace : ~t.ok /\ traces' = traces \cup {t}
    /\ CallVarsTyped' /\ OthersStay(c) /\ CallInRange(c)'
    /\ \/ gwPc[c] # "idle" /\ gwCalls'[c] = gwCalls[c]
       \/ gwPc[c] = "idle" /\ gwCalls'[c] = gwCalls[c] + 1
    /\ gwPc'[c] = "routes" => profiles[gwConf'[c].scope] # Nil
    /\ gwPc'[c] \in {"invoke", "record"} =>
          /\ gwConf'[c] = gwConf[c] /\ gwAt'[c] = gwAt[c]
          /\ \/ gwPc[c] = "invoke" /\ gwFree'[c] = gwFree[c]
             \/ gwPc[c] = "route" /\ CanExecute(c) /\ gwFree'[c] = (price[ModelOf(c)] = Nil)

\* The invariant gives the columns of what the calls keep.
LEMMA CallsTyped == GatewayTypeOK /\ GatewayRowsTyped => CallVarsTyped
  BY DEF GatewayTypeOK, GatewayRowsTyped, CallVarsTyped

\* A failed attempt goes on to the next one, to the next route, or ends.
LEMMA FailedAttempt ==
    ASSUME GatewayTypeOK, GatewayRowsTyped, NEW c \in GwCallers, NEW retryable \in BOOLEAN,
           AttemptFails(c, retryable)
    PROVE  Quiet(c)
  <1>1 CallVarsTyped /\ gwPc[c] = "invoke" /\ UNCHANGED <<gwOwnerVars, balance, ledger, gwCalls>>
    BY CallsTyped DEF AttemptFails
  <1>2 TraceOf(c, FALSE) \in Trace /\ TraceOf(c, FALSE).ok = FALSE
    BY <1>1, TraceIsTyped
  <1>3 \E t \in Trace : ~t.ok /\ traces' = traces \cup {t}
    BY <1>2 DEF AttemptFails
  <1>4 CASE NextRoute(c)
    <2>1 CallVarsTyped' /\ OthersStay(c) /\ CallInRange(c)' /\ gwPc'[c] \in {"idle", "route"}
      BY <1>1, <1>4, RouteIsLeft
    <2> QED
      BY <1>1, <1>3, <2>1 DEF Quiet
  <1>5 CASE ~NextRoute(c)
    <2>1 /\ gwAt[c][2] < gwConf[c].attempts
         /\ gwPc' = [gwPc EXCEPT ![c] = "route"]
         /\ gwAt' = [gwAt EXCEPT ![c] = <<@[1], @[2] + 1>>]
         /\ gwFree' = [gwFree EXCEPT ![c] = FALSE]
         /\ gwConf' = gwConf
      BY <1>5 DEF AttemptFails
    <2>2 /\ gwConf[c] \in Conf /\ gwAt[c][1] \in 1..Len(gwConf[c].routes)
         /\ gwAt[c][2] \in 1..gwConf[c].attempts
      BY <1>1, RouteHasModel
    <2>3 gwConf[c].attempts \in 1..3 /\ gwConf[c].routes \in Seq(Models)
      BY <2>2 DEF Conf
    <2>4 Len(gwConf[c].routes) \in Nat
      BY <2>3, LenProperties
    <2> DEFINE a == <<gwAt[c][1], gwAt[c][2] + 1>>
    <2>5 a \in (1..Len(gwConf[c].routes)) \X (1..gwConf[c].attempts) /\ a \in Nat \X Nat
      BY <2>1, <2>2, <2>3, <2>4
    <2>6 gwAt' = [gwAt EXCEPT ![c] = a]
      BY <2>1
    <2> HIDE DEF a
    <2>7 CallVarsTyped' /\ OthersStay(c) /\ gwPc'[c] = "route"
      BY <1>1, <2>1, <2>5, <2>6 DEF CallVarsTyped, OthersStay, GwPcs
    <2>8 gwAt'[c] = a /\ gwConf'[c] = gwConf[c]
      BY <1>1, <2>1, <2>6 DEF CallVarsTyped
    <2>9 CallInRange(c)'
      BY <2>5, <2>8 DEF CallInRange
    <2> QED
      BY <1>1, <1>3, <2>7, <2>9 DEF Quiet
  <1> QED
    BY <1>4, <1>5

\* All steps of a call but the recording of a succeeded trace are quiet.
LEMMA QuietSteps ==
    ASSUME GatewayTypeOK, GatewayRowsTyped, CallsFit, NEW c \in GwCallers, CallStep(c),
           ~RecordTrace(c)
    PROVE  Quiet(c)
  <1>1 CallVarsTyped
    BY CallsTyped
  <1>2 CASE ReadProfileRow(c)
    <2> DEFINE scope == IF profiles["platform"] # Nil THEN "platform" ELSE "tenant"
               n == [scope |-> scope, attempts |-> profiles[scope].attempts, routes |-> <<>>]
    <2>1 /\ gwPc[c] = "idle" /\ gwCalls[c] < MaxGwCalls
         /\ gwCalls' = [gwCalls EXCEPT ![c] = @ + 1]
         /\ UNCHANGED <<gwOwnerVars, balance, ledger, traces, gwAt, gwFree>>
      BY <1>2 DEF ReadProfileRow
    <2>2 gwCalls' \in [GwCallers -> 0..MaxGwCalls] /\ gwCalls'[c] = gwCalls[c] + 1
         /\ \A d \in GwCallers \ {c} : gwCalls'[d] = gwCalls[d]
      BY <1>1, <2>1, GatewayAssumption DEF CallVarsTyped
    <2>3 CASE profiles[scope] = Nil
      <3>1 UNCHANGED <<gwPc, gwConf>>
        BY <1>2, <2>3 DEF ReadProfileRow
      <3> QED
        BY <1>1, <2>1, <2>2, <3>1 DEF Quiet, CallVarsTyped, OthersStay, CallInRange
    <2>4 CASE profiles[scope] # Nil
      <3>1 gwPc' = [gwPc EXCEPT ![c] = "routes"] /\ gwConf' = [gwConf EXCEPT ![c] = n]
        BY <1>2, <2>4 DEF ReadProfileRow
      <3>2 scope \in Scopes /\ profiles[scope] \in Profiles
        BY <2>4 DEF GatewayTypeOK, Scopes
      <3>3 n \in Conf
        <4>1 profiles[scope].attempts \in 1..3
          BY <3>2, GatewayAssumption
        <4>2 <<>> \in Seq(Models)
          BY EmptySeq
        <4> QED
          BY <3>2, <4>1, <4>2 DEF Conf
      <3>4 n.scope = scope
        OBVIOUS
      <3> HIDE DEF n, scope
      <3>5 CallVarsTyped' /\ OthersStay(c) /\ gwPc'[c] = "routes" /\ gwConf'[c] = n
        BY <1>1, <2>1, <2>2, <3>1, <3>3 DEF CallVarsTyped, OthersStay, GwPcs
      <3> QED
        BY <2>1, <2>2, <2>4, <3>4, <3>5 DEF Quiet, CallInRange
    <2> QED
      BY <2>3, <2>4
  <1>3 CASE ReadRoutes(c)
    <2> DEFINE r == profiles[gwConf[c].scope].routes
               n == [gwConf[c] EXCEPT !.routes = r]
    <2>1 /\ gwPc[c] = "routes" /\ gwPc' = [gwPc EXCEPT ![c] = "route"]
         /\ gwConf' = [gwConf EXCEPT ![c] = n]
         /\ gwAt' = [gwAt EXCEPT ![c] = <<1, 1>>]
         /\ UNCHANGED <<gwOwnerVars, balance, ledger, traces, gwCalls, gwFree>>
      BY <1>3 DEF ReadRoutes
    <2>2 gwConf[c] \in Conf
      BY <1>1 DEF CallVarsTyped
    <2>3 gwConf[c].scope \in Scopes
      BY <2>2 DEF Conf
    <2>4 profiles[gwConf[c].scope] \in Profiles
      BY <2>1, <2>3 DEF CallsFit, GatewayTypeOK
    <2>5 r \in Seq(Models) \ {<<>>}
      BY <2>4, GatewayAssumption
    <2>6 Len(r) \in Nat /\ Len(r) # 0
      BY <2>5, LenProperties, EmptySeq
    <2> HIDE DEF r
    <2>7 n \in Conf /\ n.routes = r /\ n.attempts \in 1..3
      BY <2>2, <2>5 DEF Conf
    <2>8 <<1, 1>> \in (1..Len(n.routes)) \X (1..n.attempts) /\ <<1, 1>> \in Nat \X Nat
      BY <2>6, <2>7
    <2> HIDE DEF n
    <2>9 CallVarsTyped' /\ OthersStay(c)
      BY <1>1, <2>1, <2>7, <2>8 DEF CallVarsTyped, OthersStay, GwPcs
    <2>10 gwPc'[c] = "route" /\ gwConf'[c] = n /\ gwAt'[c] = <<1, 1>> /\ gwCalls'[c] = gwCalls[c]
      BY <1>1, <2>1, <2>7 DEF CallVarsTyped
    <2>11 CallInRange(c)'
      BY <2>8, <2>10 DEF CallInRange
    <2> QED
      BY <2>1, <2>9, <2>10, <2>11 DEF Quiet
  <1>4 CASE SkipRoute(c)
    <2>1 gwPc[c] = "route" /\ UNCHANGED <<gwOwnerVars, balance, ledger, gwCalls>> /\ NextRoute(c)
      BY <1>4 DEF SkipRoute
    <2>2 TraceOf(c, FALSE) \in Trace /\ TraceOf(c, FALSE).ok = FALSE
      BY <2>1, TraceIsTyped
    <2>3 \E t \in Trace : ~t.ok /\ traces' = traces \cup {t}
      BY <1>4, <2>2 DEF SkipRoute
    <2>4 CallVarsTyped' /\ OthersStay(c) /\ CallInRange(c)' /\ gwPc'[c] \in {"idle", "route"}
      BY <1>1, <2>1, RouteIsLeft
    <2> QED
      BY <2>1, <2>3, <2>4 DEF Quiet
  <1>5 CASE EnsureCanExecute(c)
    <2>1 /\ gwPc[c] = "route" /\ CanExecute(c)
         /\ gwPc' = [gwPc EXCEPT ![c] = "invoke"]
         /\ gwFree' = [gwFree EXCEPT ![c] = price[ModelOf(c)] = Nil]
         /\ UNCHANGED <<gwOwnerVars, balance, ledger, traces, gwCalls, gwConf, gwAt>>
      BY <1>5 DEF EnsureCanExecute
    <2> DEFINE f == price[ModelOf(c)] = Nil
    <2>2 f \in BOOLEAN /\ gwFree' = [gwFree EXCEPT ![c] = f]
      BY <2>1
    <2>3 gwFree'[c] = f /\ gwFree' \in [GwCallers -> BOOLEAN]
         /\ \A d \in GwCallers \ {c} : gwFree'[d] = gwFree[d]
      <3> HIDE DEF f
      <3> QED
        BY <1>1, <2>2 DEF CallVarsTyped
    <2>4 gwPc'[c] = "invoke" /\ gwPc' \in [GwCallers -> GwPcs]
         /\ \A d \in GwCallers \ {c} : gwPc'[d] = gwPc[d]
      BY <1>1, <2>1 DEF CallVarsTyped, GwPcs
    <2>5 CallInRange(c)'
      BY <2>1 DEF CallInRange, GatewayTypeOK
    <2>6 CallVarsTyped'
      BY <1>1, <2>1, <2>3, <2>4 DEF CallVarsTyped
    <2>7 OthersStay(c)
      BY <2>1, <2>3, <2>4 DEF OthersStay
    <2> HIDE DEF CanExecute
    <2> QED
      BY <2>1, <2>3, <2>4, <2>5, <2>6, <2>7 DEF Quiet
  <1>6 CASE RefuseCall(c)
    <2>1 gwPc[c] = "route" /\ UNCHANGED <<gwOwnerVars, balance, ledger, gwCalls>> /\ Finish(c)
      BY <1>6 DEF RefuseCall
    <2>2 TraceOf(c, FALSE) \in Trace /\ TraceOf(c, FALSE).ok = FALSE
      BY <2>1, TraceIsTyped
    <2>3 \E t \in Trace : ~t.ok /\ traces' = traces \cup {t}
      BY <1>6, <2>2 DEF RefuseCall
    <2>4 CallVarsTyped' /\ OthersStay(c) /\ gwPc'[c] = "idle"
      BY <1>1, <2>1, FinishedCall
    <2> QED
      BY <2>1, <2>3, <2>4 DEF Quiet, CallInRange
  <1>7 CASE ProviderAnswers(c)
    BY <1>1, <1>7 DEF ProviderAnswers, Quiet, CallVarsTyped, OthersStay, CallInRange, GwPcs, GatewayTypeOK
  <1>8 CASE \E r \in BOOLEAN : AttemptFails(c, r)
    BY <1>8, FailedAttempt
  <1>9 CASE CallIsLost(c)
    <2>1 /\ gwPc[c] \in {"invoke", "record"} /\ Finish(c)
         /\ UNCHANGED <<gwOwnerVars, balance, ledger, traces, gwCalls>>
      BY <1>9 DEF CallIsLost
    <2>2 CallVarsTyped' /\ OthersStay(c) /\ gwPc'[c] = "idle"
      BY <1>1, <2>1, FinishedCall
    <2> QED
      BY <2>1, <2>2 DEF Quiet, CallInRange
  <1> QED
    BY <1>2, <1>3, <1>4, <1>5, <1>6, <1>7, <1>8, <1>9
       DEF CallStep, ProviderTimesOut, AnswerIsUnusable, NotConfigured, ProviderRefuses

\* The fields of the invariant that a quiet step leaves in place.
LEMMA QuietKeeps ==
    ASSUME GatewayInv, NEW c \in GwCallers, Quiet(c)
    PROVE  /\ GatewayTypeOK' /\ GatewayRowsTyped' /\ CallsFit' /\ LedgerStarts'
           /\ LedgerAddsUp' /\ DebitsAreOver' /\ DebitedOnce' /\ PlatformUseIsDebited'
  <1>1 /\ UNCHANGED <<profiles, price, edits, balance, ledger>>
       /\ CallVarsTyped' /\ OthersStay(c) /\ CallInRange(c)'
       /\ traces' = traces \/ \E t \in Trace : ~t.ok /\ traces' = traces \cup {t}
    BY DEF Quiet, gwOwnerVars
  <1>2 GatewayTypeOK'
    <2>1 ASSUME NEW d \in GwCallers, gwPc'[d] \in {"route", "invoke", "record"}
         PROVE  gwAt'[d] \in (1..Len(gwConf'[d].routes)) \X (1..gwConf'[d].attempts)
      <3>1 CASE d = c
        BY <1>1, <2>1, <3>1 DEF CallInRange
      <3>2 CASE d # c
        BY <1>1, <2>1, <3>2 DEF OthersStay, GatewayInv, GatewayTypeOK
      <3> QED
        BY <3>1, <3>2
    <2> QED
      BY <1>1, <2>1 DEF GatewayInv, GatewayTypeOK, CallVarsTyped
  <1>3 GatewayRowsTyped'
    BY <1>1 DEF GatewayInv, GatewayRowsTyped, CallVarsTyped
  <1>4 CallsFit'
    <2> SUFFICES ASSUME NEW d \in GwCallers
                 PROVE  /\ gwPc'[d] = "routes" => profiles'[gwConf'[d].scope] # Nil
                        /\ gwPc'[d] \in {"invoke", "record"} =>
                              /\ gwConf'[d].scope = "platform" => price'[ModelOf(d)'] # Nil
                              /\ ~gwFree'[d] => balance' # Nil
      BY DEF CallsFit
    <2>1 CASE d # c
      BY <1>1, <2>1 DEF OthersStay, GatewayInv, CallsFit, ModelOf
    <2>2 CASE d = c
      <3>1 gwPc'[c] = "routes" => profiles'[gwConf'[c].scope] # Nil
        BY <1>1 DEF Quiet
      <3>2 ASSUME gwPc'[c] \in {"invoke", "record"}
           PROVE  /\ gwConf'[c].scope = "platform" => price'[ModelOf(c)'] # Nil
                  /\ ~gwFree'[c] => balance' # Nil
        <4>1 gwConf'[c] = gwConf[c] /\ gwAt'[c] = gwAt[c]
          BY <3>2 DEF Quiet
        <4>2 ModelOf(c)' = ModelOf(c)
          BY <4>1 DEF ModelOf
        <4>3 CASE gwPc[c] = "invoke" /\ gwFree'[c] = gwFree[c]
          BY <1>1, <4>1, <4>2, <4>3 DEF GatewayInv, CallsFit
        <4>4 CASE gwPc[c] = "route" /\ CanExecute(c) /\ gwFree'[c] = (price[ModelOf(c)] = Nil)
          <5>1 gwFree'[c] <=> price[ModelOf(c)] = Nil
            BY <1>1, <4>4 DEF CallVarsTyped
          <5>2 price[ModelOf(c)] # Nil => balance # Nil
            BY <4>4 DEF CanExecute, Payable
          <5>3 gwConf[c].scope = "platform" => price[ModelOf(c)] # Nil
            BY <4>4 DEF CanExecute
          <5> QED
            BY <1>1, <4>1, <4>2, <5>1, <5>2, <5>3
        <4> QED
          BY <3>2, <4>3, <4>4 DEF Quiet
      <3> QED
        BY <2>2, <3>1, <3>2
    <2> QED
      BY <2>1, <2>2
  <1>5 LedgerStarts' /\ LedgerAddsUp'
    BY <1>1 DEF GatewayInv, LedgerStarts, LedgerAddsUp, Before
  <1>6 DebitsAreOver'
    <2> SUFFICES ASSUME NEW i \in 1..Len(ledger), ledger[i].kind = "ai_debit"
                 PROVE  /\ ledger[i].of.call[1] \in GwCallers
                        /\ ledger[i].of.call[2] <= gwCalls'[ledger[i].of.call[1]]
                        /\ gwPc'[ledger[i].of.call[1]] # "idle" =>
                              ledger[i].of.call[2] < gwCalls'[ledger[i].of.call[1]]
      BY <1>1 DEF DebitsAreOver
    <2> DEFINE d == ledger[i].of.call[1]
               k == ledger[i].of.call[2]
    <2>1 d \in GwCallers /\ k <= gwCalls[d] /\ (gwPc[d] # "idle" => k < gwCalls[d])
      BY DEF GatewayInv, DebitsAreOver
    <2>3 ledger[i].of \in Trace
      BY DEF GatewayInv, GatewayRowsTyped
    <2>4 k \in Nat
      BY <2>3 DEF Trace
    <2>5 gwCalls[d] \in Nat
      BY <2>1, GatewayAssumption DEF GatewayInv, GatewayTypeOK
    <2> HIDE DEF d, k
    <2>6 k <= gwCalls'[d] /\ (gwPc'[d] # "idle" => k < gwCalls'[d])
      <3>1 CASE d # c
        BY <1>1, <2>1, <3>1 DEF OthersStay
      <3>2 CASE d = c
        BY <2>1, <2>4, <2>5, <3>2 DEF Quiet
      <3> QED
        BY <3>1, <3>2
    <2> QED
      BY <2>1, <2>6 DEF d, k
  <1>7 DebitedOnce'
    BY <1>1 DEF GatewayInv, DebitedOnce, Debits
  <1>8 PlatformUseIsDebited'
    BY <1>1 DEF GatewayInv, PlatformUseIsDebited, Debits
  <1> QED
    BY <1>2, <1>3, <1>4, <1>5, <1>6, <1>7, <1>8

\* How many callers are let through, and how many debits were not.
LEMMA RoomIsNat ==
    ASSUME NEW n \in Nat
    PROVE  /\ \A ck \in SUBSET GwCallers :
                 /\ IsFiniteSet(ck) /\ Cardinality(ck) \in Nat
                 /\ Cardinality(ck) <= Cardinality(GwCallers)
           /\ Cardinality(GwCallers) \in Nat
           /\ \A u \in SUBSET (1..n) : IsFiniteSet(u) /\ Cardinality(u) \in Nat
  <1>1 IsFiniteSet(GwCallers)
    BY GatewayAssumption
  <1>2 \A ck \in SUBSET GwCallers :
           /\ IsFiniteSet(ck) /\ Cardinality(ck) \in Nat
           /\ Cardinality(ck) <= Cardinality(GwCallers)
    BY <1>1, FS_Subset, FS_CardinalityType
  <1>3 IsFiniteSet(1..n)
    BY FS_Interval
  <1> QED
    BY <1>1, <1>2, <1>3, FS_Subset, FS_CardinalityType

\* The overdraft bound is kept by whoever leaves as much room, and by a debit
\* that makes room for one more charge.
LEMMA OneCharge == \A p, r \in Nat : p * (r + 1) = p * r + p
  BY Z3
LEMMA NoCharge == \A p, r \in Nat : p * r >= 0 /\ p * r \in Int
  BY Z3
LEMMA MoreRoom ==
    ASSUME NEW p \in Nat, NEW r \in Nat, NEW s \in Nat, r <= s PROVE p * r <= p * s
  <1>1 PICK k \in Nat : s = r + k
    <2>1 s - r \in Nat /\ s = r + (s - r)
      OBVIOUS
    <2> QED
      BY <2>1
  <1>2 p * (r + k) = p * r + p * k /\ p * k >= 0 /\ p * r \in Nat /\ p * k \in Nat
    BY Z3
  <1> QED
    BY <1>1, <1>2

\* A quiet step lets at most the caller in whose call the balance covers, and
\* leaves the others and the debits alone.
LEMMA QuietCovers ==
    ASSUME GatewayInv, NEW c \in GwCallers, Quiet(c)
    PROVE  BalanceCovers'
  <1>1 /\ balance' = balance /\ ledger' = ledger /\ OthersStay(c)
       /\ gwFree \in [GwCallers -> BOOLEAN] /\ CallVarsTyped'
    BY DEF Quiet, GatewayInv, GatewayTypeOK
  <1> SUFFICES ASSUME balance # Nil PROVE balance + MaxPrice * Room' >= 0
    BY <1>1 DEF BalanceCovers
  <1>2 balance \in Int /\ Len(ledger) \in Nat /\ MaxPrice \in Nat
    BY HighestPrice, LenProperties DEF GatewayInv, GatewayTypeOK, GatewayRowsTyped
  <1> DEFINE n  == Cardinality(GwCallers)
             k  == Cardinality(Checked)
             k2 == Cardinality(Checked')
             u  == Cardinality(UncheckedIn(ledger))
  <1>3 /\ n \in Nat /\ k \in Nat /\ k2 \in Nat /\ u \in Nat /\ k <= n /\ k2 <= n
       /\ IsFiniteSet(Checked)
    <2>1 Checked \in SUBSET GwCallers /\ Checked' \in SUBSET GwCallers
      BY DEF Checked
    <2>2 UncheckedIn(ledger) \in SUBSET (1..Len(ledger))
      BY DEF UncheckedIn
    <2> QED
      BY <1>2, <2>1, <2>2, RoomIsNat
  <1>4 Room = n - k + u /\ Room' = n - k2 + u
    BY <1>1 DEF Room
  <1>5 Room \in Nat /\ Room' \in Nat
    BY <1>3, <1>4
  <1>6 balance + MaxPrice * Room >= 0
    BY DEF GatewayInv, BalanceCovers
  <1>7 CASE Checked' \subseteq Checked
    <2>1 k2 <= k
      BY <1>3, <1>7, FS_Subset
    <2>2 Room <= Room'
      BY <1>3, <1>4, <2>1
    <2>3 MaxPrice * Room <= MaxPrice * Room'
      BY <1>2, <1>5, <2>2, MoreRoom
    <2>4 MaxPrice * Room \in Int /\ MaxPrice * Room' \in Int
      BY <1>2, <1>5
    <2> HIDE DEF Room
    <2> QED
      BY <1>2, <1>6, <2>3, <2>4
  <1>8 CASE ~(Checked' \subseteq Checked)
    <2>1 c \in Checked' /\ c \notin Checked
      BY <1>1, <1>8 DEF Checked, OthersStay
    <2>2 gwPc'[c] \in {"invoke", "record"} /\ ~gwFree'[c] /\ ~(gwPc[c] = "invoke" /\ ~gwFree[c])
      BY <2>1 DEF Checked
    <2>3 gwPc[c] = "route" /\ CanExecute(c) /\ price[ModelOf(c)] # Nil
      BY <2>2 DEF Quiet
    <2>4 balance > 0
      BY <2>3 DEF CanExecute, Payable
    <2> HIDE DEF Room
    <2>5 MaxPrice * Room' >= 0 /\ MaxPrice * Room' \in Int
      BY <1>2, <1>5, NoCharge
    <2> QED
      BY <1>2, <2>4, <2>5
  <1> QED
    BY <1>7, <1>8

\* A row appended to the ledger continues the one before it.
LEMMA RowIsAppended ==
    ASSUME GatewayInv, NEW r \in LedgerRow, balance' = r.after, balance' \in Int,
           ledger' = Append(ledger, r),
           LET b == IF balance = Nil THEN 0 ELSE balance
           IN  r.after = IF r.kind = "credit" THEN b + r.amount ELSE b - r.amount
    PROVE  LedgerAddsUp' /\ LedgerStarts'
  <1>1 /\ Len(ledger) \in Nat /\ Len(ledger') = Len(ledger) + 1
       /\ \A i \in 1..Len(ledger) : ledger'[i] = ledger[i]
       /\ ledger'[Len(ledger) + 1] = r
    BY OneMoreRow DEF GatewayInv, GatewayRowsTyped
  <1>2 balance' # Nil
    BY GatewayAssumption
  <1> DEFINE b == IF balance = Nil THEN 0 ELSE balance
             n == Len(ledger)
  <1>3 ledger' # <<>>
    <2>1 Len(<<>>) = 0
      BY EmptySeq
    <2> QED
      BY <1>1, <2>1
  <1>4 b = IF n + 1 = 1 THEN 0 ELSE ledger[n].after
    <2>1 CASE n = 0
      <3>1 ledger = <<>>
        BY <2>1, EmptySeq DEF GatewayInv, GatewayRowsTyped
      <3> QED
        BY <2>1, <3>1 DEF GatewayInv, LedgerStarts
    <2>2 CASE n # 0
      <3>1 ledger # <<>>
        BY <2>2, EmptySeq
      <3> QED
        BY <1>1, <2>2, <3>1 DEF GatewayInv, LedgerAddsUp
    <2> QED
      BY <2>1, <2>2
  <1> DEFINE Left(i) == IF i = 1 THEN 0 ELSE ledger'[i - 1].after
  <1>5 Left(n + 1) = b
    <2>1 CASE n = 0
      BY <1>4, <2>1
    <2>2 CASE n # 0
      <3>1 n \in 1..Len(ledger) /\ (n + 1) - 1 = n /\ n + 1 # 1
        BY <1>1, <2>2
      <3>2 ledger'[n] = ledger[n]
        BY <1>1, <3>1
      <3>3 Left(n + 1) = ledger[n].after
        BY <3>1, <3>2
      <3> HIDE DEF b, Left
      <3> QED
        BY <1>4, <3>1, <3>3
    <2> QED
      BY <2>1, <2>2
  <1>6 ASSUME NEW i \in 1..n
       PROVE  /\ ledger'[i] = ledger[i]
              /\ Left(i) = Before(i)
    <2>1 i = 1 \/ i - 1 \in 1..n
      BY <1>1
    <2> QED
      BY <1>1, <2>1 DEF Before
  <1>7 ASSUME NEW i \in 1..(n + 1)
       PROVE  ledger'[i].after = IF ledger'[i].kind = "credit"
                                 THEN Left(i) + ledger'[i].amount
                                 ELSE Left(i) - ledger'[i].amount
    <2>1 CASE i \in 1..n
      <3>1 ledger[i].after = IF ledger[i].kind = "credit" THEN Before(i) + ledger[i].amount
                                                          ELSE Before(i) - ledger[i].amount
        BY <2>1 DEF GatewayInv, LedgerAddsUp
      <3>2 ledger'[i] = ledger[i] /\ Left(i) = Before(i)
        BY <1>6, <2>1
      <3> HIDE DEF Left
      <3> QED
        BY <3>1, <3>2
    <2>2 CASE i = n + 1
      <3>1 Left(i) = b /\ ledger'[i] = r
        BY <1>1, <1>5, <2>2
      <3> HIDE DEF Left
      <3> QED
        BY <3>1
    <2> QED
      BY <1>1, <2>1, <2>2
  <1> QED
    BY <1>1, <1>2, <1>3, <1>7 DEF LedgerAddsUp, LedgerStarts, Before

\* What the owner changes: a profile or a price to another one, a wallet to an
\* empty one, or the ledger by a credit.
OwnerChanges ==
    /\ UNCHANGED <<traces, gwPc, gwCalls, gwConf, gwAt, gwFree>> /\ edits' \in 0..MaxEdits
    /\ profiles' \in [Scopes -> Profiles \cup {Nil}]
    /\ \A s \in Scopes : profiles[s] # Nil => profiles'[s] # Nil
    /\ price' \in [Models -> Prices \cup {Nil}]
    /\ \A m \in Models : price[m] # Nil => price'[m] # Nil
    /\ \/ UNCHANGED <<balance, ledger>>
       \/ balance = Nil /\ balance' = 0 /\ ledger' = ledger
       \/ \E a \in Credits :
             /\ balance' = (IF balance = Nil THEN 0 ELSE balance) + a
             /\ ledger' = Append(ledger, [kind |-> "credit", amount |-> a, after |-> balance',
                                         of |-> Nil, unchecked |-> FALSE])

LEMMA OwnerSteps == ASSUME GatewayTypeOK, OwnerStep PROVE OwnerChanges
  <1>1 Edit => edits' \in 0..MaxEdits
    BY GatewayAssumption DEF Edit, GatewayTypeOK
  <1>2 ASSUME NEW s \in Scopes, NEW p \in Profiles, PutTaskProfile(s, p) PROVE OwnerChanges
    BY <1>1, <1>2, GatewayAssumption DEF PutTaskProfile, gwCallVars, GatewayTypeOK, OwnerChanges
  <1>3 ASSUME NEW m \in Models, NEW p \in Prices, PutModelPricing(m, p) PROVE OwnerChanges
    <2>1 p # Nil
      BY GatewayAssumption
    <2> QED
      BY <1>1, <1>3, <2>1 DEF PutModelPricing, gwCallVars, GatewayTypeOK, OwnerChanges
  <1>4 CASE GetBusinessWallet
    BY <1>1, <1>4 DEF GetBusinessWallet, gwCallVars, GatewayTypeOK, OwnerChanges
  <1>5 ASSUME NEW a \in Credits, CreditBusinessWallet(a) PROVE OwnerChanges
    <2>1 /\ balance' = (IF balance = Nil THEN 0 ELSE balance) + a
         /\ ledger' = Append(ledger, [kind |-> "credit", amount |-> a, after |-> balance',
                                     of |-> Nil, unchecked |-> FALSE])
      BY <1>5 DEF CreditBusinessWallet
    <2> QED
      BY <1>1, <1>5, <2>1 DEF CreditBusinessWallet, gwCallVars, GatewayTypeOK, OwnerChanges
  <1> QED
    BY <1>2, <1>3, <1>4, <1>5 DEF OwnerStep

\* So does a credit, which adds nothing to what is owed.
LEMMA OwnerKeeps ==
    ASSUME GatewayInv, OwnerStep
    PROVE  GatewayInv'
  <1>1 /\ UNCHANGED <<traces, gwPc, gwCalls, gwConf, gwAt, gwFree>> /\ edits' \in 0..MaxEdits
       /\ GatewayTypeOK /\ GatewayRowsTyped /\ CallsFit /\ OwnerChanges
    BY OwnerSteps DEF GatewayInv, OwnerChanges
  <1>2 GatewayTypeOK /\ GatewayRowsTyped /\ CallsFit
    BY DEF GatewayInv
  <1>3 /\ profiles' \in [Scopes -> Profiles \cup {Nil}]
       /\ \A s \in Scopes : profiles[s] # Nil => profiles'[s] # Nil
    BY <1>1 DEF OwnerChanges
  <1>4 /\ price' \in [Models -> Prices \cup {Nil}]
       /\ \A m \in Models : price[m] # Nil => price'[m] # Nil
    BY <1>1 DEF OwnerChanges
  <1>5 \/ UNCHANGED <<balance, ledger>>
       \/ balance = Nil /\ balance' = 0 /\ ledger' = ledger
       \/ \E a \in Credits :
             /\ balance' = (IF balance = Nil THEN 0 ELSE balance) + a
             /\ ledger' = Append(ledger, [kind |-> "credit", amount |-> a, after |-> balance',
                                         of |-> Nil, unchecked |-> FALSE])
    BY <1>1 DEF OwnerChanges
  <1>6 ASSUME balance # Nil => balance' # Nil PROVE CallsFit'
    <2> SUFFICES ASSUME NEW d \in GwCallers
                 PROVE  /\ gwPc[d] = "routes" => profiles'[gwConf[d].scope] # Nil
                        /\ gwPc[d] \in {"invoke", "record"} =>
                              /\ gwConf[d].scope = "platform" => price'[ModelOf(d)] # Nil
                              /\ ~gwFree[d] => balance' # Nil
      BY <1>1 DEF CallsFit, ModelOf
    <2>1 gwConf[d] \in Conf
      BY <1>2 DEF GatewayRowsTyped
    <2>2 gwConf[d].scope \in Scopes
      BY <2>1 DEF Conf
    <2>3 gwPc[d] \in {"invoke", "record"} => ModelOf(d) \in Models
      BY <1>2, RouteHasModel
    <2> QED
      BY <1>2, <1>3, <1>4, <1>6, <2>2, <2>3 DEF CallsFit
  <1>7 Checked' = Checked
    BY <1>1 DEF Checked
  <1>8 /\ Room \in Nat /\ MaxPrice \in Nat /\ MaxPrice * Room >= 0 /\ MaxPrice * Room \in Int
       /\ balance # Nil => balance \in Int /\ balance + MaxPrice * Room >= 0
    <2>1 Len(ledger) \in Nat
      BY <1>2, LenProperties DEF GatewayRowsTyped
    <2>2 Checked \in SUBSET GwCallers /\ UncheckedIn(ledger) \in SUBSET (1..Len(ledger))
      BY DEF Checked, UncheckedIn
    <2>3 Room \in Nat
      <3>1 /\ Cardinality(Checked) \in Nat /\ Cardinality(UncheckedIn(ledger)) \in Nat
           /\ Cardinality(Checked) <= Cardinality(GwCallers) /\ Cardinality(GwCallers) \in Nat
        BY <2>1, <2>2, RoomIsNat
      <3> QED
        BY <3>1 DEF Room
    <2>4 MaxPrice \in Nat
      BY HighestPrice
    <2> HIDE DEF Room
    <2>5 MaxPrice * Room >= 0 /\ MaxPrice * Room \in Int
      BY <2>3, <2>4, NoCharge
    <2> QED
      BY <2>3, <2>4, <2>5 DEF GatewayInv, BalanceCovers, GatewayTypeOK
  <1>9 CASE UNCHANGED <<balance, ledger>> \/ (balance = Nil /\ balance' = 0 /\ ledger' = ledger)
    <2>1 ledger' = ledger /\ balance' \in Int \cup {Nil} /\ (balance # Nil => balance' = balance)
      BY <1>2, <1>9 DEF GatewayTypeOK
    <2>2 GatewayTypeOK' /\ GatewayRowsTyped' /\ CallsFit'
      BY <1>1, <1>2, <1>3, <1>4, <1>6, <1>9, <2>1 DEF GatewayTypeOK, GatewayRowsTyped
    <2>3 LedgerStarts' /\ LedgerAddsUp'
      <3>1 balance = Nil => ledger = <<>>
        BY DEF GatewayInv, LedgerAddsUp
      <3>2 Len(<<>>) = 0
        BY EmptySeq
      <3> QED
        BY <1>9, <2>1, <3>1, <3>2, GatewayAssumption DEF GatewayInv, LedgerStarts, LedgerAddsUp, Before
    <2>4 DebitsAreOver' /\ DebitedOnce' /\ PlatformUseIsDebited'
      BY <1>1, <2>1 DEF GatewayInv, DebitsAreOver, DebitedOnce, PlatformUseIsDebited, Debits
    <2>5 Room' = Room
      BY <1>7, <2>1 DEF Room
    <2>6 BalanceCovers'
      <3> HIDE DEF Room
      <3> QED
        BY <1>8, <1>9, <2>5 DEF BalanceCovers
    <2> QED
      BY <2>2, <2>3, <2>4, <2>6 DEF GatewayInv
  <1>10 ASSUME NEW a \in Credits,
               balance' = (IF balance = Nil THEN 0 ELSE balance) + a,
               ledger' = Append(ledger, [kind |-> "credit", amount |-> a, after |-> balance',
                                         of |-> Nil, unchecked |-> FALSE])
        PROVE  GatewayInv'
    <2> DEFINE r == [kind |-> "credit", amount |-> a, after |-> balance',
                     of |-> Nil, unchecked |-> FALSE]
    <2>1 a \in Nat /\ balance' \in Int /\ balance' # Nil
      BY <1>2, <1>10, GatewayAssumption DEF GatewayTypeOK
    <2>2 r \in LedgerRow /\ r.kind = "credit" /\ r.amount = a /\ r.after = balance'
      BY <2>1 DEF LedgerRow
    <2>3 ledger' = Append(ledger, r)
      BY <1>10
    <2> HIDE DEF r
    <2>4 LedgerAddsUp' /\ LedgerStarts'
      BY <1>10, <2>1, <2>2, <2>3, RowIsAppended
    <2>5 /\ ledger' \in Seq(LedgerRow)
         /\ Len(ledger) \in Nat /\ Len(ledger') = Len(ledger) + 1
         /\ \A i \in 1..Len(ledger) : ledger'[i] = ledger[i]
         /\ ledger'[Len(ledger) + 1] = r
      BY <1>2, <2>2, <2>3, OneMoreRow DEF GatewayRowsTyped
    <2>6 \A i \in 1..Len(ledger') : ledger'[i].kind = "ai_debit" =>
             i \in 1..Len(ledger) /\ ledger'[i] = ledger[i]
      BY <2>2, <2>5
    <2>7 GatewayTypeOK'
      <3>1 \A i \in 1..Len(ledger') : ledger'[i] \in LedgerRow
        BY <2>5, ElementOfSeq
      <3>2 \A i \in 1..Len(ledger') : ledger'[i].amount \in Nat /\ ledger'[i].after \in Int
        BY <3>1 DEF LedgerRow
      <3> QED
        BY <1>1, <1>2, <1>3, <1>4, <2>1, <3>2 DEF GatewayTypeOK
    <2>8 GatewayRowsTyped' /\ CallsFit'
      BY <1>1, <1>2, <1>6, <2>1, <2>5, <2>6 DEF GatewayRowsTyped
    <2>9 DebitsAreOver'
      BY <1>1, <2>5, <2>6 DEF GatewayInv, DebitsAreOver
    <2>10 Debits' = Debits /\ \A i \in Debits : ledger'[i] = ledger[i]
      BY <2>5, <2>6 DEF Debits
    <2>11 DebitedOnce' /\ PlatformUseIsDebited'
      BY <1>1, <2>10 DEF GatewayInv, DebitedOnce, PlatformUseIsDebited
    <2>12 UncheckedIn(ledger') = UncheckedIn(ledger)
      BY <2>5, <2>6 DEF UncheckedIn
    <2>13 Room' = Room
      BY <1>7, <2>12 DEF Room
    <2>14 BalanceCovers'
      <3> HIDE DEF Room
      <3> QED
        BY <1>8, <1>10, <2>1, <2>13 DEF BalanceCovers
    <2> QED
      BY <2>4, <2>7, <2>8, <2>9, <2>11, <2>14 DEF GatewayInv
  <1> QED
    BY <1>5, <1>9, <1>10

\* The recording of a succeeded attempt: its debit is the first of its call,
\* and leaves room for one charge less.
LEMMA RecordKeeps ==
    ASSUME GatewayInv, NEW c \in GwCallers, RecordTrace(c)
    PROVE  GatewayInv'
  <1>1 /\ gwPc[c] = "record" /\ Finish(c) /\ UNCHANGED <<profiles, price, edits, gwCalls>>
    BY DEF RecordTrace, gwOwnerVars
  <1>2 GatewayTypeOK /\ GatewayRowsTyped /\ CallsFit /\ CallVarsTyped
    BY CallsTyped DEF GatewayInv
  <1>3 CallVarsTyped' /\ OthersStay(c) /\ gwPc'[c] = "idle"
    BY <1>1, <1>2, FinishedCall
  <1> DEFINE t == TraceOf(c, TRUE)
             p == price[ModelOf(c)]
  <1>4 t \in Trace /\ t.ok /\ t.call = <<c, gwCalls[c]>> /\ t.scope = gwConf[c].scope
    BY <1>1, <1>2, TraceIsTyped
  <1>5 p \in Prices \cup {Nil} /\ (gwConf[c].scope = "platform" => p # Nil)
       /\ (~gwFree[c] => balance # Nil)
    BY <1>1, <1>2, RouteHasModel DEF GatewayTypeOK, CallsFit
  <1>6 CallsFit' \/ balance' # balance
    BY <1>1, <1>2, <1>3 DEF CallsFit, OthersStay, ModelOf
  <1>7 \A d \in GwCallers : gwPc'[d] \in {"route", "invoke", "record"} =>
           gwAt'[d] \in (1..Len(gwConf'[d].routes)) \X (1..gwConf'[d].attempts)
    BY <1>2, <1>3 DEF OthersStay, GatewayTypeOK
  <1>8 Checked' = IF gwFree[c] THEN Checked ELSE Checked \ {c}
    BY <1>1, <1>3 DEF Checked, OthersStay
  <1>9 /\ Checked \in SUBSET GwCallers /\ Len(ledger) \in Nat
       /\ UncheckedIn(ledger) \in SUBSET (1..Len(ledger)) /\ MaxPrice \in Nat
    BY <1>2, LenProperties, HighestPrice DEF GatewayRowsTyped, Checked, UncheckedIn
  <1>10 /\ Cardinality(GwCallers) \in Nat /\ Cardinality(UncheckedIn(ledger)) \in Nat
        /\ Cardinality(Checked) \in Nat /\ Cardinality(Checked) <= Cardinality(GwCallers)
        /\ IsFiniteSet(Checked) /\ IsFiniteSet(UncheckedIn(ledger))
    BY <1>9, RoomIsNat
  <1>11 Cardinality(Checked') = Cardinality(Checked) - (IF gwFree[c] THEN 0 ELSE 1)
    <2>1 CASE gwFree[c]
      BY <1>8, <1>10, <2>1
    <2>2 CASE ~gwFree[c]
      <3>1 c \in Checked
        BY <1>1, <2>2 DEF Checked
      <3>2 Cardinality(Checked \ {c}) = Cardinality(Checked) - 1
        BY <1>10, <3>1, FS_RemoveElement
      <3> QED
        BY <1>8, <2>2, <3>2
    <2> QED
      BY <2>1, <2>2
  <1>12 Room \in Nat /\ (balance # Nil => balance \in Int /\ balance + MaxPrice * Room >= 0)
    BY <1>2, <1>10 DEF Room, GatewayInv, BalanceCovers, GatewayTypeOK
  <1>13 CASE UNCHANGED <<balance, ledger>>
    <2>1 GatewayTypeOK' /\ GatewayRowsTyped' /\ CallsFit'
      <3>1 \/ traces' = traces \/ traces' = traces \cup {t}
        BY DEF RecordTrace
      <3>2 traces' \subseteq Trace
        BY <1>2, <1>4, <3>1 DEF GatewayRowsTyped
      <3> QED
        BY <1>1, <1>2, <1>3, <1>6, <1>7, <1>13, <3>2 DEF GatewayTypeOK, GatewayRowsTyped, CallVarsTyped
    <2>2 LedgerStarts' /\ LedgerAddsUp'
      BY <1>13 DEF GatewayInv, LedgerStarts, LedgerAddsUp, Before
    <2>3 DebitsAreOver'
      BY <1>1, <1>3, <1>13 DEF GatewayInv, DebitsAreOver, OthersStay
    <2>4 \/ traces' = traces
         \/ p = Nil /\ traces' = traces \cup {t}
         \/ p # Nil /\ balance' = balance - p /\ ledger' = Append(ledger, [kind |-> "ai_debit", amount |-> p,
                       after |-> balance - p, of |-> t, unchecked |-> gwFree[c]])
      BY DEF RecordTrace, Debit
    <2>5 Len(ledger') = Len(ledger)
      BY <1>13
    <2>6 traces' = traces \/ (p = Nil /\ traces' = traces \cup {t})
      <3>1 ASSUME p # Nil, balance # Nil,
                  ledger' = Append(ledger, [kind |-> "ai_debit", amount |-> p, after |-> balance - p,
                                            of |-> t, unchecked |-> gwFree[c]])
           PROVE  FALSE
        <4> DEFINE r == [kind |-> "ai_debit", amount |-> p, after |-> balance - p,
                         of |-> t, unchecked |-> gwFree[c]]
        <4>1 p \in Nat /\ gwFree[c] \in BOOLEAN /\ balance \in Int
          BY <1>2, <1>5, <3>1, HighestPrice DEF GatewayTypeOK
        <4> HIDE DEF t, p
        <4>2 r \in LedgerRow
          BY <1>4, <4>1 DEF LedgerRow
        <4>3 ledger' = Append(ledger, r)
          BY <3>1
        <4> HIDE DEF r
        <4>4 Len(ledger') = Len(ledger) + 1
          BY <1>2, <4>2, <4>3, OneMoreRow DEF GatewayRowsTyped
        <4> QED
          BY <1>9, <2>5, <4>4
      <3> QED
        BY <3>1 DEF RecordTrace, Debit
    <2>7 DebitedOnce' /\ PlatformUseIsDebited'
      <3>1 Debits' = Debits /\ ledger' = ledger /\ traces \subseteq traces'
        BY <1>13, <2>6 DEF Debits
      <3>2 \A s \in traces' : s.scope = "platform" => s \in traces
        BY <1>4, <1>5, <2>6
      <3> QED
        BY <3>1, <3>2 DEF GatewayInv, DebitedOnce, PlatformUseIsDebited
    <2>8 BalanceCovers'
      <3>1 Room' = Room + (IF gwFree[c] THEN 0 ELSE 1)
        BY <1>10, <1>11, <1>13 DEF Room
      <3> HIDE DEF Room
      <3>2 Room' \in Nat /\ Room <= Room'
        BY <1>12, <3>1
      <3>3 MaxPrice * Room <= MaxPrice * Room'
        BY <1>9, <1>12, <3>2, MoreRoom
      <3>4 MaxPrice * Room \in Int /\ MaxPrice * Room' \in Int
        BY <1>9, <1>12, <3>2
      <3> QED
        BY <1>12, <1>13, <3>3, <3>4 DEF BalanceCovers
    <2> QED
      BY <2>1, <2>2, <2>3, <2>7, <2>8 DEF GatewayInv
  <1>14 CASE p # Nil /\ balance # Nil /\ traces' = traces \cup {t} /\ Debit(c)
    <2> DEFINE r == [kind |-> "ai_debit", amount |-> p, after |-> balance - p,
                     of |-> t, unchecked |-> gwFree[c]]
               n == Len(ledger)
    <2>1 p \in Nat /\ p <= MaxPrice /\ gwFree[c] \in BOOLEAN /\ balance \in Int
      BY <1>2, <1>5, <1>14, HighestPrice DEF GatewayTypeOK
    <2> HIDE DEF t, p
    <2>2 /\ r \in LedgerRow /\ r.kind = "ai_debit" /\ r.amount = p /\ r.after = balance - p
         /\ r.of = t /\ r.unchecked = gwFree[c]
      BY <1>4, <2>1 DEF LedgerRow
    <2>3 ledger' = Append(ledger, r) /\ balance' = balance - p
      BY <1>14 DEF Debit, t, p
    <2> HIDE DEF r
    <2>4 balance' \in Int /\ balance' # Nil
      BY <2>1, <2>3, GatewayAssumption
    <2>5 LedgerAddsUp' /\ LedgerStarts'
      BY <1>14, <2>1, <2>2, <2>3, <2>4, RowIsAppended
    <2>6 /\ ledger' \in Seq(LedgerRow)
         /\ Len(ledger') = n + 1 /\ n \in Nat
         /\ \A i \in 1..n : ledger'[i] = ledger[i]
         /\ ledger'[n + 1] = r
      BY <1>2, <2>2, <2>3, OneMoreRow DEF GatewayRowsTyped
    <2> HIDE DEF n
    <2>7 1..Len(ledger') = (1..n) \cup {n + 1} /\ n + 1 \notin 1..n
      BY <2>6
    <2>8 GatewayTypeOK'
      <3>1 \A i \in 1..Len(ledger') : ledger'[i] \in LedgerRow
        BY <2>6, ElementOfSeq
      <3>2 \A i \in 1..Len(ledger') : ledger'[i].amount \in Nat /\ ledger'[i].after \in Int
        BY <3>1 DEF LedgerRow
      <3> QED
        BY <1>1, <1>2, <1>3, <1>7, <2>4, <3>2 DEF GatewayTypeOK, CallVarsTyped
    <2>9 GatewayRowsTyped'
      <3>2 \A i \in 1..Len(ledger') : ledger'[i].kind = "ai_debit" => ledger'[i].of \in Trace
        BY <1>2, <1>4, <2>2, <2>6, <2>7 DEF GatewayRowsTyped, n
      <3>3 traces' \subseteq Trace
        BY <1>2, <1>4, <1>14 DEF GatewayRowsTyped
      <3> QED
        BY <1>3, <2>6, <3>2, <3>3 DEF GatewayRowsTyped, CallVarsTyped
    <2>10 CallsFit'
      BY <1>1, <1>2, <1>3, <2>4 DEF CallsFit, OthersStay, ModelOf
    <2>11 \A i \in 1..n : ledger[i].kind = "ai_debit" => ledger[i].of.call # t.call
      <3> SUFFICES ASSUME NEW i \in 1..n, ledger[i].kind = "ai_debit", ledger[i].of.call = t.call
                   PROVE  FALSE
        OBVIOUS
      <3>1 ledger[i].of.call[1] = c /\ ledger[i].of.call[2] = gwCalls[c]
        BY <1>4
      <3>2 ledger[i].of.call[2] < gwCalls[c]
        BY <1>1, <3>1 DEF GatewayInv, DebitsAreOver, n
      <3>3 gwCalls[c] \in Nat
        BY <1>2, GatewayAssumption DEF GatewayTypeOK
      <3> QED
        BY <3>1, <3>2, <3>3
    <2>12 DebitsAreOver'
      <3> SUFFICES ASSUME NEW i \in 1..Len(ledger'), ledger'[i].kind = "ai_debit"
                   PROVE  /\ ledger'[i].of.call[1] \in GwCallers
                          /\ ledger'[i].of.call[2] <= gwCalls'[ledger'[i].of.call[1]]
                          /\ gwPc'[ledger'[i].of.call[1]] # "idle" =>
                                ledger'[i].of.call[2] < gwCalls'[ledger'[i].of.call[1]]
        BY DEF DebitsAreOver
      <3>1 CASE i = n + 1
        <4>1 ledger'[i].of.call[1] = c /\ ledger'[i].of.call[2] = gwCalls[c]
          BY <1>4, <2>2, <2>6, <3>1
        <4>2 gwCalls'[c] = gwCalls[c] /\ gwCalls[c] \in Nat
          BY <1>1, <1>2, GatewayAssumption DEF GatewayTypeOK
        <4> QED
          BY <1>3, <4>1, <4>2
      <3>2 CASE i \in 1..n
        <4>1 ledger'[i] = ledger[i]
          BY <2>6, <3>2
        <4>2 /\ ledger[i].of.call[1] \in GwCallers
             /\ ledger[i].of.call[2] <= gwCalls[ledger[i].of.call[1]]
             /\ gwPc[ledger[i].of.call[1]] # "idle" =>
                   ledger[i].of.call[2] < gwCalls[ledger[i].of.call[1]]
          BY <3>2, <4>1 DEF GatewayInv, DebitsAreOver, n
        <4> QED
          BY <1>1, <1>3, <4>1, <4>2 DEF OthersStay
      <3> QED
        BY <2>7, <3>1, <3>2
    <2>13 Debits' = Debits \cup {n + 1} /\ Debits \subseteq 1..n
      BY <2>2, <2>6, <2>7 DEF Debits, n
    <2>14 DebitedOnce'
      <3>1 \A i \in Debits' : ledger'[i].of.ok /\ ledger'[i].of \in traces'
        BY <1>4, <1>14, <2>2, <2>6, <2>13 DEF GatewayInv, DebitedOnce
      <3>2 ASSUME NEW i \in Debits, NEW j \in Debits, ledger'[i].of.call = ledger'[j].of.call
           PROVE  i = j
        BY <2>6, <2>13, <3>2 DEF GatewayInv, DebitedOnce
      <3>3 \A i \in Debits : ledger'[i].of.call # t.call /\ ledger'[n + 1].of = t
        BY <2>2, <2>6, <2>11, <2>13 DEF Debits
      <3> QED
        BY <2>13, <3>1, <3>2, <3>3 DEF DebitedOnce
    <2>15 PlatformUseIsDebited'
      <3> SUFFICES ASSUME NEW s \in traces', s.ok, s.scope = "platform"
                   PROVE  \E i \in Debits' : ledger'[i].of = s
        BY DEF PlatformUseIsDebited
      <3>1 CASE s = t
        BY <2>2, <2>6, <2>13, <3>1
      <3>2 CASE s \in traces
        <4>1 PICK i \in Debits : ledger[i].of = s
          BY <3>2 DEF GatewayInv, PlatformUseIsDebited
        <4> QED
          BY <2>6, <2>13, <4>1
      <3> QED
        BY <1>14, <3>1, <3>2
    <2>16 BalanceCovers'
      <3>1 UncheckedIn(ledger)' = IF gwFree[c] THEN UncheckedIn(ledger) \cup {n + 1}
                                                ELSE UncheckedIn(ledger)
        BY <2>2, <2>6, <2>7 DEF UncheckedIn, n
      <3>2 n + 1 \notin UncheckedIn(ledger)
        BY <1>9, <2>7 DEF n
      <3>3 Cardinality(UncheckedIn(ledger)') =
             Cardinality(UncheckedIn(ledger)) + (IF gwFree[c] THEN 1 ELSE 0)
        <4>1 Cardinality(UncheckedIn(ledger) \cup {n + 1}) = Cardinality(UncheckedIn(ledger)) + 1
          <5> DEFINE u == UncheckedIn(ledger)
          <5>1 IsFiniteSet(u) /\ n + 1 \notin u
            BY <1>10, <3>2
          <5> HIDE DEF u
          <5>2 Cardinality(u \cup {n + 1}) = Cardinality(u) + 1
            BY <5>1, FS_AddElement
          <5> QED
            BY <5>2 DEF u
        <4>2 Cardinality(UncheckedIn(ledger)) + 0 = Cardinality(UncheckedIn(ledger))
          BY <1>10
        <4> QED
          BY <3>1, <4>1, <4>2
      <3>4 Room' = Room + 1
        <4>1 Room' = Cardinality(GwCallers) - Cardinality(Checked') + Cardinality(UncheckedIn(ledger)')
          BY DEF Room
        <4>2 Room = Cardinality(GwCallers) - Cardinality(Checked) + Cardinality(UncheckedIn(ledger))
          BY DEF Room
        <4> QED
          BY <1>10, <1>11, <3>3, <4>1, <4>2
      <3> HIDE DEF Room
      <3>5 MaxPrice * (Room + 1) = MaxPrice * Room + MaxPrice /\ MaxPrice * Room \in Int
        BY <1>9, <1>12, OneCharge, NoCharge
      <3> QED
        BY <1>9, <1>12, <1>14, <2>1, <2>3, <3>4, <3>5 DEF BalanceCovers
    <2> QED
      BY <2>5, <2>8, <2>9, <2>10, <2>12, <2>14, <2>15, <2>16 DEF GatewayInv
  <1> QED
    BY <1>13, <1>14 DEF RecordTrace

\* The wallet starts empty, and every step keeps the invariant.
LEMMA GatewayStart == GatewayInit => GatewayInv
  <1> SUFFICES ASSUME GatewayInit PROVE GatewayInv
    OBVIOUS
  <1> USE DEF GatewayInit
  <1>1 NoConf \in Conf /\ <<1, 1>> \in Nat \X Nat
    BY IdleCall
  <1>2 Len(ledger) = 0 /\ ledger \in Seq(LedgerRow)
    BY EmptySeq
  <1>3 1..Len(ledger) = {}
    BY <1>2
  <1>4 GatewayTypeOK
    BY <1>3, GatewayAssumption DEF GatewayTypeOK, GwPcs
  <1>5 GatewayRowsTyped
    <2> HIDE DEF NoConf
    <2> QED
      BY <1>1, <1>2, <1>3 DEF GatewayRowsTyped
  <1>6 CallsFit /\ LedgerStarts /\ BalanceCovers /\ PlatformUseIsDebited
    BY DEF CallsFit, LedgerStarts, BalanceCovers, PlatformUseIsDebited
  <1>7 LedgerAddsUp /\ DebitsAreOver /\ DebitedOnce
    BY <1>3 DEF LedgerAddsUp, DebitsAreOver, DebitedOnce, Debits
  <1> QED
    BY <1>4, <1>5, <1>6, <1>7 DEF GatewayInv

LEMMA GatewayStep == GatewayInv /\ GatewayNext => GatewayInv'
  <1> SUFFICES ASSUME GatewayInv, GatewayNext PROVE GatewayInv'
    OBVIOUS
  <1>1 CASE OwnerStep
    BY <1>1, OwnerKeeps
  <1>2 ASSUME NEW c \in GwCallers, CallStep(c) PROVE GatewayInv'
    <2>1 CASE RecordTrace(c)
      BY <2>1, RecordKeeps
    <2>2 CASE ~RecordTrace(c)
      <3>1 Quiet(c)
        BY <1>2, <2>2, QuietSteps DEF GatewayInv
      <3> QED
        BY <3>1, QuietKeeps, QuietCovers DEF GatewayInv
    <2> QED
      BY <2>1, <2>2
  <1> QED
    BY <1>1, <1>2 DEF GatewayNext

LEMMA GatewayStutter == GatewayInv /\ UNCHANGED gatewayVars => GatewayInv'
  <1> SUFFICES ASSUME GatewayInv, UNCHANGED gatewayVars PROVE GatewayInv'
    OBVIOUS
  <1>1 UNCHANGED <<profiles, price, balance, ledger, traces, gwPc, gwCalls, gwConf, gwAt, gwFree, edits>>
    BY DEF gatewayVars, gwOwnerVars, gwCallVars
  <1>2 GatewayTypeOK' /\ GatewayRowsTyped' /\ CallsFit' /\ LedgerStarts'
    BY <1>1 DEF GatewayInv, GatewayTypeOK, GatewayRowsTyped, CallsFit, LedgerStarts, ModelOf
  <1>3 LedgerAddsUp' /\ DebitsAreOver' /\ DebitedOnce' /\ PlatformUseIsDebited'
    BY <1>1 DEF GatewayInv, LedgerAddsUp, Before, DebitsAreOver, DebitedOnce, PlatformUseIsDebited, Debits
  <1>4 BalanceCovers'
    <2>1 Room' = Room
      BY <1>1 DEF Room, Checked, UncheckedIn
    <2> HIDE DEF Room
    <2> QED
      BY <1>1, <2>1 DEF GatewayInv, BalanceCovers
  <1> QED
    BY <1>2, <1>3, <1>4 DEF GatewayInv

\* What the calls and the unchecked debits cover bounds the overdraft.
LEMMA WalletFollows == GatewayInv => WalletIsSound
  <1> SUFFICES ASSUME GatewayInv PROVE WalletIsSound
    OBVIOUS
  <1>1 ASSUME balance # Nil
       PROVE  balance >= - MaxPrice * (Cardinality(GwCallers)
                  + Cardinality({i \in Debits : ledger[i].unchecked}))
    <2>1 UncheckedIn(ledger) = {i \in Debits : ledger[i].unchecked}
      BY DEF UncheckedIn, Debits
    <2>2 Len(ledger) \in Nat /\ MaxPrice \in Nat /\ balance \in Int
      BY <1>1, LenProperties, HighestPrice DEF GatewayInv, GatewayRowsTyped, GatewayTypeOK
    <2>3 Checked \in SUBSET GwCallers /\ UncheckedIn(ledger) \in SUBSET (1..Len(ledger))
      BY DEF Checked, UncheckedIn
    <2>4 /\ Cardinality(Checked) \in Nat /\ Cardinality(UncheckedIn(ledger)) \in Nat
         /\ Cardinality(Checked) <= Cardinality(GwCallers) /\ Cardinality(GwCallers) \in Nat
      BY <2>2, <2>3, RoomIsNat
    <2> DEFINE all == Cardinality(GwCallers) + Cardinality(UncheckedIn(ledger))
    <2>5 Room \in Nat /\ all \in Nat /\ Room <= all
      BY <2>4 DEF Room
    <2>6 balance + MaxPrice * Room >= 0
      BY <1>1 DEF GatewayInv, BalanceCovers
    <2> HIDE DEF Room, all
    <2>7 MaxPrice * Room <= MaxPrice * all
      BY <2>2, <2>5, MoreRoom
    <2>8 MaxPrice * Room \in Int /\ MaxPrice * all \in Int
      BY <2>2, <2>5
    <2>9 balance >= - (MaxPrice * all)
      BY <2>2, <2>6, <2>7, <2>8
    <2> QED
      BY <2>1, <2>9 DEF all
  <1> QED
    BY <1>1 DEF GatewayInv, WalletIsSound, OverdraftIsBounded

-----------------------------------------------------------------------------
(* The transcription of a voice message.                                     *)

\* A worker that is about to write has a transcript, and nobody was given a
\* text before there was one.
WrittenOnce ==
    /\ \A w \in VoiceWorkers : vpc[w] = "persist" => vresult[w] # Untold
    /\ voiceText = Untold => \A w \in VoiceWorkers : seen[w] = Untold

VoiceInv == VoiceTypeOK /\ WrittenOnce /\ VoiceIsTranscribedOnce

LEMMA VoiceStart == VoiceInit => VoiceInv
  <1> SUFFICES ASSUME VoiceInit PROVE VoiceInv
    OBVIOUS
  <1>1 VoiceTypeOK
    <2>1 /\ processed \in BOOLEAN /\ hasPath \in BOOLEAN /\ noted \in BOOLEAN
         /\ vmeta \in [VoiceWorkers -> BOOLEAN]
      BY DEF VoiceInit
    <2>2 /\ vpc \in [VoiceWorkers -> VoicePcs]
         /\ vresult \in [VoiceWorkers -> Transcripts \cup {Untold}]
         /\ seen \in [VoiceWorkers -> Transcripts \cup {Untold}]
      BY DEF VoiceInit, VoicePcs
    <2> QED
      BY <2>1, <2>2, VoiceAssumption DEF VoiceInit, VoiceTypeOK
  <1>2 WrittenOnce /\ VoiceIsTranscribedOnce
    BY DEF VoiceInit, WrittenOnce, VoiceIsTranscribedOnce, OneTranscript,
       AnswersFollowTranscript, UploadsAreReleased
  <1> QED
    BY <1>1, <1>2 DEF VoiceInv

\* The transcript is only written where there is none, and an answer only
\* follows one; a step of one worker leaves the others where they are.
LEMMA VoiceMoves ==
    ASSUME VoiceInv, NEW w \in VoiceWorkers, VoiceStep(w)
    PROVE  VoiceInv'
  <1> USE VoiceAssumption DEF VoiceInv, VoiceTypeOK, VoicePcs, WrittenOnce, VoiceIsTranscribedOnce,
        OneTranscript, AnswersFollowTranscript, UploadsAreReleased, VGoto, VFault, voiceRows
  <1>1 CASE TakeVoiceJob(w)
    BY <1>1 DEF TakeVoiceJob
  <1>2 CASE ResolveMedia(w)
    BY <1>2 DEF ResolveMedia
  <1>3 CASE CommitMedia(w)
    BY <1>3 DEF CommitMedia
  <1>4 CASE LookUpVoice(w)
    BY <1>4 DEF LookUpVoice
  <1>5 CASE DownloadVoice(w)
    BY <1>5 DEF DownloadVoice
  <1>6 CASE UploadAudio(w)
    BY <1>6 DEF UploadAudio
  <1>7 CASE TranscribeAudio(w)
    BY <1>7 DEF TranscribeAudio
  <1>8 CASE DeleteFile(w)
    BY <1>8 DEF DeleteFile
  <1>9 CASE PersistTranscript(w)
    BY <1>9 DEF PersistTranscript
  <1>10 ASSUME NEW r \in BOOLEAN, VoiceFails(w, r) PROVE VoiceInv'
    BY <1>10 DEF VoiceFails
  <1>11 CASE AnswerVoice(w)
    BY <1>11 DEF AnswerVoice
  <1>12 CASE VoiceCrash(w)
    BY <1>12 DEF VoiceCrash
  <1> QED
    BY <1>1, <1>2, <1>3, <1>4, <1>5, <1>6, <1>7, <1>8, <1>9, <1>10, <1>11, <1>12 DEF VoiceStep

LEMMA VoiceStutter == VoiceInv /\ UNCHANGED voiceVars => VoiceInv'
  BY DEF voiceVars, voiceRows, voiceLocals, VoiceInv, VoiceTypeOK, WrittenOnce,
     VoiceIsTranscribedOnce, OneTranscript, AnswersFollowTranscript, UploadsAreReleased

-----------------------------------------------------------------------------
(* The memory of the contact.                                                *)

\* What holds of a row: a human item is an operator's, a verified value is the one
\* the operator stood for, and a fact was called one by who gave it, unless some
\* writer passed over a change of the row.
RowIsRespected(r) ==
    /\ r.manual => r.by = "operator"
    /\ r.verified => r.value = r.marked \/ r.passed
    /\ r.kind = "fact" => r.given = "fact" \/ r.value = r.marked \/ r.passed

RowsInv ==
    /\ rows \in Seq(Row) /\ Len(rows) <= MaxRows
    /\ \A i \in 1..Len(rows) : RowIsRespected(rows[i])
    /\ \A i, j \in Live : i = j

\* The columns an extraction keeps, and what it has when it commits.
ExtractionsTyped ==
    /\ markers \subseteq Sources
    /\ applied \in [Sources -> Nat]
    /\ xpc \in [Extractors -> {"idle", "generate", "load", "commit"}]
    /\ xmsg \in [Extractors -> Sources \cup {CHOOSE m \in Sources : TRUE}]
    /\ xitem \in [Extractors -> Candidates \cup {AnItem}]
    /\ xrow \in [Extractors -> Nat \cup {NoRow}]
    /\ xload \in [Extractors -> Row \cup {ARow}]
    /\ runs \in 0..MaxRuns

ExtractionFits(e) ==
    /\ xpc[e] # "idle" => xmsg[e] \in Sources
    /\ xpc[e] \in {"load", "commit"} => xitem[e] \in Candidates
    /\ xpc[e] = "commit" /\ xrow[e] # NoRow =>
          /\ xrow[e] \in 1..Len(rows) /\ xload[e] \in Row
          /\ rows[xrow[e]].manual = xload[e].manual

\* The same of the requests, which find their row whatever became of it.
RequestsTyped ==
    /\ opc \in [Operators -> {"idle", "patch", "delete"}]
    /\ orow \in [Operators -> Nat \cup {NoRow}]
    /\ oload \in [Operators -> Row \cup {ARow}]
    /\ opatch \in [Operators -> Patches]
    /\ operations \in 0..MaxOperations

RequestFits(o) ==
    opc[o] # "idle" => orow[o] \in 1..Len(rows) /\ oload[o] \in Row

MemoryInv ==
    /\ RowsInv
    /\ ExtractionsTyped
    /\ \A e \in Extractors : ExtractionFits(e)
    /\ RequestsTyped
    /\ \A o \in Operators : RequestFits(o)
    /\ AppliedOnce

\* The active row is a live one.
LEMMA ActiveIsLive ==
    /\ ActiveRow = NoRow => Live = {}
    /\ ActiveRow # NoRow => ActiveRow \in Live
  <1>1 \A i \in Live : i # NoRow
    BY MemoryAssumption, LenProperties DEF Live
  <1> QED
    BY <1>1 DEF ActiveRow

\* Rows are appended live when no row is, and keep their origin and deletion.
LEMMA RowsMove ==
    ASSUME RowsInv,
           \/ rows' = rows
           \/ /\ Live = {} /\ Len(rows) < MaxRows
              /\ \E r \in Row : RowIsRespected(r) /\ rows' = Append(rows, r)
           \/ \E k \in 1..Len(rows), r \in Row :
                 /\ RowIsRespected(r) /\ rows' = [rows EXCEPT ![k] = r]
                 /\ r.manual = rows[k].manual
                 /\ rows[k].deleted => r.deleted
    PROVE  /\ RowsInv'
           /\ Len(rows) \in Nat /\ Len(rows') \in Nat /\ Len(rows) <= Len(rows')
           /\ \A i \in 1..Len(rows) : i \in 1..Len(rows') /\ rows'[i].manual = rows[i].manual
  <1>1 rows \in Seq(Row) /\ Len(rows) \in Nat
    BY LenProperties DEF RowsInv
  <1>2 CASE rows' = rows
    BY <1>1, <1>2 DEF RowsInv, Live
  <1>3 ASSUME NEW r \in Row, RowIsRespected(r), rows' = Append(rows, r),
              Live = {}, Len(rows) < MaxRows
       PROVE  /\ RowsInv' /\ Len(rows') \in Nat /\ Len(rows) <= Len(rows')
              /\ \A i \in 1..Len(rows) : i \in 1..Len(rows') /\ rows'[i].manual = rows[i].manual
    <2> DEFINE n == Len(rows)
    <2>1 /\ rows' \in Seq(Row) /\ Len(rows') = n + 1
         /\ \A i \in 1..n : rows'[i] = rows[i]
         /\ rows'[n + 1] = r
      BY <1>1, <1>3, OneMoreRow
    <2> HIDE DEF n, RowIsRespected
    <2>2 n \in Nat /\ n < MaxRows /\ MaxRows \in Nat
      BY <1>1, <1>3, MemoryAssumption DEF n
    <2>3 1..Len(rows') = (1..n) \cup {n + 1}
      BY <2>1, <2>2
    <2>4 \A i \in 1..Len(rows') : RowIsRespected(rows'[i])
      BY <1>3, <2>1, <2>3 DEF RowsInv, n
    <2>5 Live' \subseteq {n + 1}
      BY <1>3, <2>1, <2>3 DEF Live, n
    <2>6 Len(rows') <= MaxRows
      BY <2>1, <2>2, MemoryAssumption
    <2>7 RowsInv'
      BY <2>1, <2>4, <2>5, <2>6 DEF RowsInv
    <2> QED
      BY <2>1, <2>2, <2>3, <2>7 DEF n
  <1>4 ASSUME NEW k \in 1..Len(rows), NEW r \in Row, RowIsRespected(r),
              rows' = [rows EXCEPT ![k] = r], r.manual = rows[k].manual,
              rows[k].deleted => r.deleted
       PROVE  /\ RowsInv' /\ Len(rows') = Len(rows)
              /\ \A i \in 1..Len(rows) : rows'[i].manual = rows[i].manual
    <2>1 /\ rows' \in Seq(Row) /\ Len(rows') = Len(rows)
         /\ \A i \in 1..Len(rows) : rows'[i] = IF i = k THEN r ELSE rows[i]
      BY <1>1, <1>4, ExceptSeq
    <2> HIDE DEF RowIsRespected
    <2>2 \A i \in 1..Len(rows') : RowIsRespected(rows'[i])
      BY <1>4, <2>1 DEF RowsInv
    <2>3 Live' \subseteq Live
      BY <1>4, <2>1 DEF Live
    <2>4 RowsInv'
      BY <2>1, <2>2, <2>3 DEF RowsInv
    <2> QED
      BY <1>4, <2>1, <2>4
  <1> QED
    BY <1>1, <1>2, <1>3, <1>4

\* A step of one extraction, seen from the others.
OthersExtract(e) ==
    \A d \in Extractors \ {e} :
        /\ xpc'[d] = xpc[d] /\ xmsg'[d] = xmsg[d] /\ xitem'[d] = xitem[d]
        /\ xrow'[d] = xrow[d] /\ xload'[d] = xload[d]

\* They keep what they have loaded, while rows keep their origin.
LEMMA OthersFit ==
    ASSUME \A d \in Extractors : ExtractionFits(d), NEW e \in Extractors, OthersExtract(e),
           ExtractionFits(e)',
           \A i \in 1..Len(rows) : i \in 1..Len(rows') /\ rows'[i].manual = rows[i].manual
    PROVE  \A d \in Extractors : ExtractionFits(d)'
  <1> SUFFICES ASSUME NEW d \in Extractors, d # e PROVE ExtractionFits(d)'
    OBVIOUS
  <1> QED
    BY DEF OthersExtract, ExtractionFits

\* An extraction that ends keeps nothing.
LEMMA LeftExtraction ==
    ASSUME ExtractionsTyped, NEW e \in Extractors, LeaveExtraction(e), UNCHANGED runs,
           markers' \subseteq Sources, applied' \in [Sources -> Nat]
    PROVE  ExtractionsTyped' /\ OthersExtract(e) /\ ExtractionFits(e)'
  <1> DEFINE m == CHOOSE m \in Sources : TRUE
  <1>1 /\ xpc' = [xpc EXCEPT ![e] = "idle"]
       /\ xmsg' = [xmsg EXCEPT ![e] = m]
       /\ xitem' = [xitem EXCEPT ![e] = AnItem]
       /\ xrow' = [xrow EXCEPT ![e] = NoRow]
       /\ xload' = [xload EXCEPT ![e] = ARow]
    BY DEF LeaveExtraction
  <1>2 xmsg \in [Extractors -> Sources \cup {m}]
    BY DEF ExtractionsTyped
  <1> HIDE DEF m
  <1>3 xmsg' \in [Extractors -> Sources \cup {m}] /\ xpc'[e] = "idle" /\ OthersExtract(e)
    BY <1>1, <1>2 DEF ExtractionsTyped, OthersExtract
  <1>4 ExtractionsTyped'
    BY <1>1, <1>3 DEF ExtractionsTyped, m
  <1> QED
    BY <1>3, <1>4 DEF ExtractionFits

\* A column that is left out keeps its value; one that had not changed since it
\* was loaded has the new one either way.
LEMMA ColumnIsWritten ==
    ASSUME NEW column, NEW loaded, NEW new
    PROVE  /\ UpdatedColumn(column, loaded, new) \in {column, new}
           /\ column = loaded => UpdatedColumn(column, loaded, new) = new
  BY DEF UpdatedColumn

\* The row an extraction inserts or updates is one the operators can live with.
LEMMA InsertedIsRespected ==
    ASSUME ExtractionsTyped, NEW e \in Extractors, ExtractionFits(e), xpc[e] = "commit"
    PROVE  InsertedRow(e) \in Row /\ RowIsRespected(InsertedRow(e))
  <1>1 xitem[e].value \in Values /\ xitem[e].kind \in Kinds /\ xitem[e].sure \in BOOLEAN
    BY DEF ExtractionFits, Candidates
  <1>2 xmsg[e] \in Nat
    BY MemoryAssumption DEF ExtractionFits
  <1> QED
    BY <1>1, <1>2 DEF InsertedRow, ARow, Row, Kinds, RowIsRespected

LEMMA UpdatedIsRespected ==
    ASSUME ExtractionsTyped, NEW e \in Extractors, ExtractionFits(e), xpc[e] = "commit",
           xrow[e] # NoRow, ~Skips(e), NEW row \in Row, RowIsRespected(row),
           row.manual = xload[e].manual
    PROVE  /\ UpdatedRow(e, row) \in Row /\ RowIsRespected(UpdatedRow(e, row))
           /\ UpdatedRow(e, row).manual = row.manual /\ UpdatedRow(e, row).deleted = row.deleted
  <1> DEFINE load == xload[e]
             item == xitem[e]
             v == UpdatedColumn(row.value, load.value, item.value)
             k == UpdatedColumn(row.kind, load.kind, item.kind)
             s == UpdatedColumn(row.sure, load.sure, item.sure)
             f == row.verified /\ ~(load.verified /\ ~Preserves(e))
             g == IF v = item.value THEN item.kind ELSE row.given
             p == row.passed \/ Overtaken(row, load)
             u == UpdatedRow(e, row)
  <1>1 item.value \in Values /\ item.kind \in Kinds /\ item.sure \in BOOLEAN
    BY DEF ExtractionFits, Candidates
  <1>2 xmsg[e] \in Nat /\ ~row.manual
    BY MemoryAssumption DEF ExtractionFits, Skips
  <1>3 v \in Values /\ k \in Kinds /\ s \in BOOLEAN /\ g \in Kinds
    <2>1 row.value \in Values /\ row.kind \in Kinds /\ row.sure \in BOOLEAN /\ row.given \in Kinds
      BY DEF Row
    <2>2 v \in {row.value, item.value} /\ k \in {row.kind, item.kind} /\ s \in {row.sure, item.sure}
      BY ColumnIsWritten
    <2> QED
      BY <1>1, <2>1, <2>2
  <1>4 f \in BOOLEAN /\ p \in BOOLEAN /\ "customer" \in {"operator", "customer"}
    BY DEF Row, Overtaken
  <1>5 u = [row EXCEPT !.value = v, !.kind = k, !.sure = s, !.observed = xmsg[e],
                       !.verified = f, !.by = "customer", !.given = g, !.passed = p]
    BY DEF UpdatedRow
  <1>6 ~Overtaken(row, load) =>
          /\ v = item.value /\ k = item.kind /\ g = item.kind
          /\ f => row.verified /\ v = row.value
    <2>1 SUFFICES ASSUME row.value = load.value, row.kind = load.kind, row.verified = load.verified
                  PROVE  /\ v = item.value /\ k = item.kind /\ g = item.kind
                         /\ f => row.verified /\ v = row.value
      BY DEF Overtaken
    <2>2 v = item.value /\ k = item.kind
      BY <2>1, ColumnIsWritten
    <2>3 f => row.verified /\ item.value = row.value
      BY <2>1 DEF Preserves
    <2> QED
      BY <2>2, <2>3
  <1>7 Overtaken(row, load) => p
    OBVIOUS
  <1>8 ~Overtaken(row, load) => p = row.passed
    BY <1>4 DEF Row
  <1> HIDE DEF v, k, s, f, g, p, u
  <1>9 /\ row.manual \in BOOLEAN /\ row.marked \in Values \cup {NoRow} /\ row.deleted \in BOOLEAN
       /\ u = [value |-> v, kind |-> k, sure |-> s, manual |-> row.manual, observed |-> xmsg[e],
               verified |-> f, deleted |-> row.deleted, by |-> "customer", given |-> g,
               marked |-> row.marked, passed |-> p]
    BY <1>5 DEF Row
  <1>10 u \in Row
    BY <1>2, <1>3, <1>4, <1>9 DEF Row
  <1>11 f => v = row.marked \/ p
    BY <1>6, <1>7, <1>8 DEF RowIsRespected
  <1>12 k = "fact" => g = "fact" \/ v = row.marked \/ p
    BY <1>6, <1>7
  <1>13 RowIsRespected(u)
    BY <1>2, <1>9, <1>11, <1>12 DEF RowIsRespected
  <1> QED
    BY <1>9, <1>10, <1>13 DEF u

\* The steps of an extraction.
LEMMA ExtractionKeeps ==
    ASSUME MemoryInv, NEW e \in Extractors, ExtractionStep(e)
    PROVE  MemoryInv'
  <1>1 /\ RowsInv /\ ExtractionsTyped /\ AppliedOnce /\ ExtractionFits(e)
       /\ \A d \in Extractors : ExtractionFits(d)
    BY DEF MemoryInv
  <1>0 ASSUME \A i \in 1..Len(rows) : i \in 1..Len(rows')
       PROVE  RequestsTyped' /\ \A o \in Operators : RequestFits(o)'
    <2>1 UNCHANGED <<requestVars, operations>>
      BY DEF ExtractionStep, StartExtraction, GenerateCandidate, LoadRow, CommitExtraction,
             ExtractionFails
    <2> QED
      BY <1>0, <2>1 DEF MemoryInv, RequestsTyped, RequestFits, requestVars
  <1>2 rows \in Seq(Row) /\ Len(rows) \in Nat
    BY <1>1, LenProperties DEF RowsInv
  <1>3 rows' = rows => RowsInv' /\ \A i \in 1..Len(rows) : i \in 1..Len(rows') /\ rows'[i].manual = rows[i].manual
    BY <1>1 DEF RowsInv, Live
  <1>4 UNCHANGED <<applied, markers>> => AppliedOnce'
    BY <1>1 DEF AppliedOnce
  <1>5 ASSUME rows' = rows, UNCHANGED <<applied, markers>>,
              ExtractionsTyped', OthersExtract(e), ExtractionFits(e)'
       PROVE  MemoryInv'
    BY <1>0, <1>1, <1>3, <1>4, <1>5, OthersFit DEF MemoryInv
  <1>6 ASSUME NEW m \in Sources, StartExtraction(e, m) PROVE MemoryInv'
    <2>1 /\ runs < MaxRuns /\ runs' = runs + 1
         /\ xpc' = [xpc EXCEPT ![e] = "generate"]
         /\ xmsg' = [xmsg EXCEPT ![e] = m]
         /\ UNCHANGED <<rows, markers, applied, xitem, xrow, xload>>
      BY <1>6 DEF StartExtraction
    <2>2 ExtractionsTyped'
      BY <1>1, <2>1, MemoryAssumption DEF ExtractionsTyped
    <2>3 OthersExtract(e) /\ ExtractionFits(e)'
      BY <1>1, <2>1 DEF ExtractionsTyped, OthersExtract, ExtractionFits
    <2> QED
      BY <1>5, <2>1, <2>2, <2>3
  <1>7 ASSUME NEW c \in Candidates, GenerateCandidate(e, c) PROVE MemoryInv'
    <2>1 /\ xpc[e] = "generate" /\ xpc' = [xpc EXCEPT ![e] = "load"]
         /\ xitem' = [xitem EXCEPT ![e] = c]
         /\ UNCHANGED <<rows, markers, applied, xmsg, xrow, xload, runs>>
      BY <1>7 DEF GenerateCandidate
    <2> HIDE DEF Candidates, AnItem
    <2>2 ExtractionsTyped'
      BY <1>1, <2>1 DEF ExtractionsTyped
    <2>3 OthersExtract(e) /\ ExtractionFits(e)'
      BY <1>1, <2>1 DEF ExtractionsTyped, OthersExtract, ExtractionFits
    <2> QED
      BY <1>5, <2>1, <2>2, <2>3
  <1>8 CASE LeaveExtraction(e) /\ UNCHANGED <<rows, markers, applied, runs>>
    <2>1 markers' \subseteq Sources /\ applied' \in [Sources -> Nat]
      BY <1>1, <1>8 DEF ExtractionsTyped
    <2> QED
      BY <1>1, <1>5, <1>8, <2>1, LeftExtraction
  <1>9 CASE LoadRow(e)
    <2>1 CASE xmsg[e] \in markers
      BY <1>8, <1>9, <2>1 DEF LoadRow
    <2>2 CASE xmsg[e] \notin markers
      <3> DEFINE l == IF ActiveRow = NoRow THEN ARow ELSE rows[ActiveRow]
      <3>1 /\ xpc[e] = "load" /\ xpc' = [xpc EXCEPT ![e] = "commit"]
           /\ xrow' = [xrow EXCEPT ![e] = ActiveRow]
           /\ xload' = [xload EXCEPT ![e] = l]
           /\ UNCHANGED <<rows, markers, applied, xmsg, xitem, runs>>
        BY <1>9, <2>2 DEF LoadRow
      <3>2 ActiveRow # NoRow => ActiveRow \in 1..Len(rows)
        BY ActiveIsLive DEF Live
      <3>3 ActiveRow # NoRow => l = rows[ActiveRow] /\ rows[ActiveRow] \in Row
        BY <1>2, <3>2, ElementOfSeq
      <3>4 ActiveRow \in Nat \cup {NoRow} /\ l \in Row \cup {ARow}
        BY <1>2, <3>2, <3>3
      <3> HIDE DEF l, ActiveRow, Row, ARow
      <3>5 ExtractionsTyped'
        BY <1>1, <3>1, <3>4 DEF ExtractionsTyped
      <3>6 OthersExtract(e) /\ xrow'[e] = ActiveRow /\ xload'[e] = l
        BY <1>1, <3>1 DEF ExtractionsTyped, OthersExtract
      <3>7 ExtractionFits(e)'
        BY <1>1, <3>1, <3>2, <3>3, <3>6 DEF ExtractionFits
      <3> QED
        BY <1>5, <3>1, <3>5, <3>6, <3>7
    <2> QED
      BY <2>1, <2>2
  <1>10 CASE CommitExtraction(e)
    <2>1 /\ xpc[e] = "commit" /\ LeaveExtraction(e) /\ UNCHANGED runs
         /\ xrow[e] = NoRow => Len(rows) < MaxRows
      BY <1>10 DEF CommitExtraction
    <2>2 CASE Conflicts(e)
      BY <1>8, <1>10, <2>2 DEF CommitExtraction
    <2>3 CASE ~Conflicts(e)
      <3>1 /\ xmsg[e] \in Sources \ markers /\ (xrow[e] = NoRow => ActiveRow = NoRow)
           /\ markers' = markers \cup {xmsg[e]}
           /\ applied' = [applied EXCEPT ![xmsg[e]] = @ + 1]
        BY <1>1, <1>10, <2>1, <2>3 DEF CommitExtraction, Conflicts, ExtractionFits
      <3>2 markers' \subseteq Sources /\ applied' \in [Sources -> Nat] /\ AppliedOnce'
        BY <1>1, <3>1 DEF ExtractionsTyped, AppliedOnce
      <3>3 ExtractionsTyped' /\ OthersExtract(e) /\ ExtractionFits(e)'
        BY <1>1, <2>1, <3>2, LeftExtraction
      <3>4 \/ rows' = rows
           \/ /\ Live = {} /\ Len(rows) < MaxRows
              /\ \E r \in Row : RowIsRespected(r) /\ rows' = Append(rows, r)
           \/ \E k \in 1..Len(rows), r \in Row :
                 /\ RowIsRespected(r) /\ rows' = [rows EXCEPT ![k] = r]
                 /\ r.manual = rows[k].manual
                 /\ rows[k].deleted => r.deleted
        <4>1 CASE Skips(e)
          BY <1>10, <2>3, <4>1 DEF CommitExtraction
        <4>2 CASE ~Skips(e) /\ xrow[e] = NoRow
          <5>1 rows' = Append(rows, InsertedRow(e)) /\ Len(rows) < MaxRows
            BY <1>10, <2>1, <2>3, <4>2 DEF CommitExtraction
          <5>2 Live = {}
            BY <3>1, <4>2, ActiveIsLive
          <5> QED
            BY <1>1, <2>1, <5>1, <5>2, InsertedIsRespected
        <4>3 CASE ~Skips(e) /\ xrow[e] # NoRow
          <5>1 rows' = [rows EXCEPT ![xrow[e]] = UpdatedRow(e, rows[xrow[e]])]
            BY <1>10, <2>3, <4>3 DEF CommitExtraction
          <5>2 xrow[e] \in 1..Len(rows) /\ rows[xrow[e]].manual = xload[e].manual
            BY <1>1, <2>1, <4>3 DEF ExtractionFits
          <5>3 rows[xrow[e]] \in Row /\ RowIsRespected(rows[xrow[e]])
            BY <1>1, <1>2, <5>2, ElementOfSeq DEF RowsInv
          <5> DEFINE u == UpdatedRow(e, rows[xrow[e]])
          <5>4 /\ u \in Row /\ RowIsRespected(u)
               /\ u.manual = rows[xrow[e]].manual /\ u.deleted = rows[xrow[e]].deleted
            BY <1>1, <2>1, <4>3, <5>2, <5>3, UpdatedIsRespected
          <5> HIDE DEF u, RowIsRespected, Row
          <5> QED
            BY <5>1, <5>2, <5>4 DEF u
        <4> QED
          BY <4>1, <4>2, <4>3
      <3>5 RowsInv' /\ \A i \in 1..Len(rows) : i \in 1..Len(rows') /\ rows'[i].manual = rows[i].manual
        BY <1>1, <3>4, RowsMove
      <3> QED
        BY <1>0, <1>1, <3>2, <3>3, <3>5, OthersFit DEF MemoryInv
    <2> QED
      BY <2>2, <2>3
  <1>11 CASE ExtractionFails(e)
    BY <1>8, <1>11 DEF ExtractionFails
  <1> QED
    BY <1>6, <1>7, <1>9, <1>10, <1>11 DEF ExtractionStep

\* A row that an operator's PATCH leaves is one to live with.
LEMMA PatchedIsRespected ==
    ASSUME NEW o \in Operators, opatch[o] \in Patches, oload[o] \in Row,
           NEW row \in Row, RowIsRespected(row)
    PROVE  /\ PatchedRow(o, row) \in Row /\ RowIsRespected(PatchedRow(o, row))
           /\ PatchedRow(o, row).manual = row.manual /\ PatchedRow(o, row).deleted = row.deleted
  <1> DEFINE load == oload[o]
             c == opatch[o]
             view == ValueSeen(o)
             v == UpdatedColumn(row.value, load.value, view)
             k == IF c.kind = Omitted THEN row.kind ELSE UpdatedColumn(row.kind, load.kind, c.kind)
             s == IF c.sure = Omitted THEN row.sure ELSE UpdatedColumn(row.sure, load.sure, c.sure)
             f == c.verified = TRUE \/ (row.verified /\ ~(c.verified = FALSE /\ load.verified))
             b == IF load.value = view THEN row.by ELSE "operator"
             g == IF c.kind = Omitted THEN row.given ELSE c.kind
             k2 == IF Stands(o) THEN view ELSE row.marked
             p == Overtaken(row, load) \/ (row.passed /\ ~Stands(o))
             u == PatchedRow(o, row)
  <1>1 view \in Values
    BY DEF ValueSeen, Patches, Row
  <1>2 v \in Values /\ k \in Kinds /\ s \in BOOLEAN /\ g \in Kinds /\ b \in {"operator", "customer"}
    <2>1 /\ row.value \in Values /\ row.kind \in Kinds /\ row.sure \in BOOLEAN
         /\ row.given \in Kinds /\ row.by \in {"operator", "customer"}
      BY DEF Row
    <2>2 c.kind \in Kinds \cup {Omitted} /\ c.sure \in BOOLEAN \cup {Omitted}
      BY DEF Patches
    <2>3 /\ v \in {row.value, view}
         /\ k = row.kind \/ (c.kind # Omitted /\ k \in {row.kind, c.kind})
         /\ s = row.sure \/ (c.sure # Omitted /\ s \in {row.sure, c.sure})
      BY ColumnIsWritten
    <2> QED
      BY <1>1, <2>1, <2>2, <2>3
  <1>4 f \in BOOLEAN /\ p \in BOOLEAN
    OBVIOUS
  <1>5 k2 \in Values \cup {NoRow}
    BY <1>1 DEF Row
  <1>6 u = [row EXCEPT !.value = v, !.kind = k, !.sure = s, !.verified = f, !.by = b,
                       !.given = g, !.marked = k2, !.passed = p]
    BY DEF PatchedRow
  <1>7 row.manual => b = "operator"
    BY DEF RowIsRespected
  <1>8 Overtaken(row, load) => p
    OBVIOUS
  <1>9 ~Overtaken(row, load) => v = view /\ (c.kind # Omitted => k = g)
    BY ColumnIsWritten DEF Overtaken
  <1>10 Stands(o) => k2 = view
    OBVIOUS
  <1>11 ~Overtaken(row, load) /\ ~Stands(o) => v = row.value /\ k2 = row.marked /\ (row.passed => p)
    BY <1>9 DEF Overtaken, Stands, ValueSeen
  <1>12 f => Stands(o) \/ row.verified
    BY DEF Stands
  <1>13 c.kind = Omitted => k = row.kind /\ g = row.given
    OBVIOUS
  <1> HIDE DEF view, v, k, s, f, b, g, k2, p, u
  <1>14 /\ row.manual \in BOOLEAN /\ row.observed \in Nat /\ row.deleted \in BOOLEAN
        /\ u = [value |-> v, kind |-> k, sure |-> s, manual |-> row.manual,
                observed |-> row.observed, verified |-> f, deleted |-> row.deleted, by |-> b,
                given |-> g, marked |-> k2, passed |-> p]
    BY <1>6 DEF Row
  <1>15 u \in Row
    BY <1>2, <1>4, <1>5, <1>14 DEF Row
  <1>16 f => v = k2 \/ p
    BY <1>8, <1>9, <1>10, <1>11, <1>12 DEF RowIsRespected
  <1>17 k = "fact" => g = "fact" \/ v = k2 \/ p
    BY <1>8, <1>9, <1>10, <1>11, <1>13 DEF RowIsRespected
  <1>18 RowIsRespected(u)
    BY <1>7, <1>14, <1>16, <1>17 DEF RowIsRespected
  <1> QED
    BY <1>14, <1>15, <1>18 DEF u

\* A step of one request, seen from the others.
OthersRequest(o) ==
    \A q \in Operators \ {o} :
        /\ opc'[q] = opc[q] /\ orow'[q] = orow[q]
        /\ oload'[q] = oload[q] /\ opatch'[q] = opatch[q]

LEMMA LeftRequest ==
    ASSUME RequestsTyped, NEW o \in Operators, LeaveRequest(o), UNCHANGED operations
    PROVE  RequestsTyped' /\ OthersRequest(o) /\ RequestFits(o)'
  <1>1 NoPatch \in Patches
    BY DEF NoPatch, Patches
  <1> HIDE DEF ARow, Row, NoPatch, Patches
  <1> QED
    BY <1>1 DEF LeaveRequest, RequestsTyped, OthersRequest, RequestFits

\* What a step of a request has to show.
LEMMA RequestKeeps ==
    ASSUME MemoryInv, UNCHANGED <<markers, applied, extractionVars>>, RequestsTyped',
           NEW o \in Operators, OthersRequest(o), RequestFits(o)', RowsInv',
           \A i \in 1..Len(rows) : i \in 1..Len(rows') /\ rows'[i].manual = rows[i].manual
    PROVE  MemoryInv'
  <1>1 \A q \in Operators : RequestFits(q)'
    BY DEF MemoryInv, RequestFits, OthersRequest
  <1>2 ExtractionsTyped' /\ AppliedOnce' /\ \A d \in Extractors : ExtractionFits(d)'
    BY DEF MemoryInv, ExtractionsTyped, AppliedOnce, ExtractionFits, extractionVars
  <1> QED
    BY <1>1, <1>2 DEF MemoryInv

\* The steps of the operators.
LEMMA OperationKeeps == ASSUME MemoryInv, OperatorStep PROVE MemoryInv'
  <1>1 /\ RowsInv /\ RequestsTyped /\ \A q \in Operators : RequestFits(q)
       /\ ExtractionsTyped /\ AppliedOnce /\ \A d \in Extractors : ExtractionFits(d)
    BY DEF MemoryInv
  <1>2 rows \in Seq(Row) /\ Len(rows) \in Nat
    BY <1>1, LenProperties DEF RowsInv
  <1>3 Operate => operations' \in 0..MaxOperations
    BY <1>1, MemoryAssumption DEF Operate, RequestsTyped
  <1>4 rows' = rows => RowsInv' /\ \A i \in 1..Len(rows) : i \in 1..Len(rows') /\ rows'[i].manual = rows[i].manual
    BY <1>1 DEF RowsInv, Live
  <1>5 ASSUME NEW c \in Candidates, CreateMemory(c) PROVE MemoryInv'
    <2> DEFINE r == [ARow EXCEPT !.value = c.value, !.kind = c.kind, !.sure = c.sure,
                         !.manual = TRUE, !.verified = TRUE, !.by = "operator",
                         !.given = c.kind, !.marked = c.value]
    <2>1 r \in Row /\ RowIsRespected(r)
      BY DEF Candidates, ARow, Row, Kinds, RowIsRespected
    <2>2 /\ ActiveRow = NoRow /\ Len(rows) < MaxRows /\ rows' = Append(rows, r) /\ Operate
         /\ UNCHANGED <<markers, applied, extractionVars, requestVars>>
      BY <1>5 DEF CreateMemory
    <2> HIDE DEF r
    <2>3 Live = {}
      BY <2>2, ActiveIsLive
    <2>4 RowsInv' /\ \A i \in 1..Len(rows) : i \in 1..Len(rows') /\ rows'[i].manual = rows[i].manual
      BY <1>1, <2>1, <2>2, <2>3, RowsMove
    <2>5 RequestsTyped' /\ \A q \in Operators : RequestFits(q)'
      BY <1>1, <1>3, <2>2, <2>4 DEF RequestsTyped, RequestFits, requestVars
    <2>6 ExtractionsTyped' /\ AppliedOnce' /\ \A d \in Extractors : ExtractionFits(d)'
      BY <1>1, <2>2, <2>4 DEF ExtractionsTyped, AppliedOnce, ExtractionFits, extractionVars
    <2> QED
      BY <2>4, <2>5, <2>6 DEF MemoryInv
  <1>6 ASSUME NEW o \in Operators, NEW request \in {"patch", "delete"}, NEW p \in Patches,
              LoadMemory(o, request, p)
       PROVE  MemoryInv'
    <2>1 /\ ActiveRow # NoRow /\ Operate
         /\ opc' = [opc EXCEPT ![o] = request]
         /\ orow' = [orow EXCEPT ![o] = ActiveRow]
         /\ oload' = [oload EXCEPT ![o] = rows[ActiveRow]]
         /\ opatch' = [opatch EXCEPT ![o] = p]
         /\ UNCHANGED <<rows, markers, applied, extractionVars>>
      BY <1>6 DEF LoadMemory
    <2>2 ActiveRow \in 1..Len(rows)
      BY <2>1, ActiveIsLive DEF Live
    <2> HIDE DEF ActiveRow, Row, ARow, Patches
    <2>3 rows[ActiveRow] \in Row /\ ActiveRow \in Nat
      BY <1>2, <2>2, ElementOfSeq
    <2>4 RequestsTyped'
      BY <1>1, <1>3, <2>1, <2>3 DEF RequestsTyped
    <2>5 OthersRequest(o) /\ RequestFits(o)'
      BY <1>1, <2>1, <2>2, <2>3 DEF RequestsTyped, OthersRequest, RequestFits
    <2> QED
      BY <1>4, <2>1, <2>4, <2>5, RequestKeeps
  <1>7 ASSUME NEW o \in Operators, LeaveRequest(o), opc[o] # "idle",
              UNCHANGED <<markers, applied, extractionVars, operations>>,
              NEW r \in Row, RowIsRespected(r), rows' = [rows EXCEPT ![orow[o]] = r],
              r.manual = rows[orow[o]].manual, rows[orow[o]].deleted => r.deleted
       PROVE  MemoryInv'
    <2>1 RequestsTyped' /\ OthersRequest(o) /\ RequestFits(o)'
      BY <1>1, <1>7, LeftRequest
    <2>2 orow[o] \in 1..Len(rows)
      BY <1>1, <1>7 DEF RequestFits
    <2>3 RowsInv' /\ \A i \in 1..Len(rows) : i \in 1..Len(rows') /\ rows'[i].manual = rows[i].manual
      BY <1>1, <1>7, <2>2, RowsMove
    <2> QED
      BY <1>7, <2>1, <2>3, RequestKeeps
  <1>8 ASSUME NEW o \in Operators, CommitPatch(o) PROVE MemoryInv'
    <2>1 /\ opc[o] = "patch" /\ LeaveRequest(o)
         /\ rows' = [rows EXCEPT ![orow[o]] = PatchedRow(o, rows[orow[o]])]
         /\ UNCHANGED <<markers, applied, extractionVars, operations>>
      BY <1>8 DEF CommitPatch
    <2>2 orow[o] \in 1..Len(rows) /\ oload[o] \in Row /\ opatch[o] \in Patches
      BY <1>1, <2>1 DEF RequestFits, RequestsTyped
    <2>3 rows[orow[o]] \in Row /\ RowIsRespected(rows[orow[o]])
      BY <1>1, <1>2, <2>2, ElementOfSeq DEF RowsInv
    <2> DEFINE u == PatchedRow(o, rows[orow[o]])
    <2>4 /\ u \in Row /\ RowIsRespected(u)
         /\ u.manual = rows[orow[o]].manual /\ u.deleted = rows[orow[o]].deleted
      BY <2>2, <2>3, PatchedIsRespected
    <2> HIDE DEF u, RowIsRespected, Row
    <2> QED
      BY <1>7, <2>1, <2>4 DEF u
  <1>9 ASSUME NEW o \in Operators, CommitDelete(o) PROVE MemoryInv'
    <2> DEFINE old == rows[orow[o]]
               u == [old EXCEPT !.deleted = TRUE]
    <2>1 /\ opc[o] = "delete" /\ LeaveRequest(o)
         /\ rows' = [rows EXCEPT ![orow[o]] = u]
         /\ UNCHANGED <<markers, applied, extractionVars, operations>>
      BY <1>9 DEF CommitDelete
    <2>2 orow[o] \in 1..Len(rows)
      BY <1>1, <2>1 DEF RequestFits
    <2>3 old \in Row /\ RowIsRespected(old)
      BY <1>1, <1>2, <2>2, ElementOfSeq DEF RowsInv
    <2> HIDE DEF old
    <2>4 u \in Row /\ RowIsRespected(u) /\ u.manual = old.manual /\ u.deleted
      BY <2>3 DEF Row, RowIsRespected
    <2> HIDE DEF u, RowIsRespected, Row
    <2> QED
      BY <1>7, <2>1, <2>4 DEF old
  <1>10 ASSUME NEW o \in Operators, RequestFails(o) PROVE MemoryInv'
    <2>1 /\ LeaveRequest(o) /\ rows' = rows
         /\ UNCHANGED <<markers, applied, extractionVars, operations>>
      BY <1>10 DEF RequestFails
    <2>2 RequestsTyped' /\ OthersRequest(o) /\ RequestFits(o)'
      BY <1>1, <2>1, LeftRequest
    <2> QED
      BY <1>4, <2>1, <2>2, RequestKeeps
  <1>11 NoPatch \in Patches /\ Payloads \subseteq Patches
    BY MemoryAssumption DEF NoPatch, Patches
  <1> HIDE DEF NoPatch, Patches
  <1> QED
    BY <1>5, <1>6, <1>8, <1>9, <1>10, <1>11 DEF OperatorStep

LEMMA MemoryStart == MemoryInit => MemoryInv
  <1> SUFFICES ASSUME MemoryInit PROVE MemoryInv
    OBVIOUS
  <1>1 rows = <<>> /\ Len(rows) = 0 /\ rows \in Seq(Row)
    BY EmptySeq DEF MemoryInit
  <1>2 RowsInv
    BY <1>1, MemoryAssumption DEF RowsInv, Live
  <1>3 ExtractionsTyped
    <2> HIDE DEF AnItem, ARow, Candidates, Row
    <2> QED
      BY MemoryAssumption DEF MemoryInit, ExtractionsTyped
  <1>4 \A e \in Extractors : ExtractionFits(e)
    BY DEF MemoryInit, ExtractionFits
  <1>5 AppliedOnce
    BY DEF MemoryInit, AppliedOnce
  <1>6 RequestsTyped
    <2>1 NoPatch \in Patches
      BY DEF NoPatch, Patches
    <2> HIDE DEF ARow, Row, NoPatch, Patches
    <2> QED
      BY <2>1, MemoryAssumption DEF MemoryInit, RequestsTyped
  <1>7 \A o \in Operators : RequestFits(o)
    BY DEF MemoryInit, RequestFits
  <1> QED
    BY <1>2, <1>3, <1>4, <1>5, <1>6, <1>7 DEF MemoryInv

LEMMA MemoryStep == MemoryInv /\ MemoryNext => MemoryInv'
  BY OperationKeeps, ExtractionKeeps DEF MemoryNext

LEMMA MemoryStutter == MemoryInv /\ UNCHANGED memoryVars => MemoryInv'
  <1> SUFFICES ASSUME MemoryInv, UNCHANGED memoryVars PROVE MemoryInv'
    OBVIOUS
  <1>1 UNCHANGED <<rows, markers, applied, xpc, xmsg, xitem, xrow, xload, runs,
                   opc, orow, oload, opatch, operations>>
    BY DEF memoryVars, extractionVars, requestVars
  <1>2 RowsInv' /\ ExtractionsTyped' /\ AppliedOnce' /\ \A e \in Extractors : ExtractionFits(e)'
    BY <1>1 DEF MemoryInv, RowsInv, Live, ExtractionsTyped, ExtractionFits, AppliedOnce
  <1>3 RequestsTyped' /\ \A o \in Operators : RequestFits(o)'
    BY <1>1 DEF MemoryInv, RequestsTyped, RequestFits
  <1> QED
    BY <1>2, <1>3 DEF MemoryInv

\* The properties of the memory follow.
LEMMA MemoryFollows == MemoryInv => MemoryTypeOK /\ MemoryRespectsOperators
  <1> SUFFICES ASSUME MemoryInv PROVE MemoryTypeOK /\ MemoryRespectsOperators
    OBVIOUS
  <1>1 Cardinality(Live) <= 1
    <2>1 CASE Live = {}
      BY <2>1, FS_EmptySet
    <2>2 CASE Live # {}
      <3>1 PICK i \in Live : TRUE
        BY <2>2
      <3>2 Live = {i}
        BY <3>1 DEF MemoryInv, RowsInv
      <3>3 Cardinality({i}) = 1
        BY FS_Singleton
      <3> QED
        BY <3>2, <3>3
    <2> QED
      BY <2>1, <2>2
  <1>2 MemoryTypeOK
    BY <1>1 DEF MemoryInv, RowsInv, ExtractionsTyped, RequestsTyped, MemoryTypeOK
  <1>3 ManualStaysHuman /\ InferencesAreApproved
    <2> SUFFICES ASSUME NEW i \in 1..Len(rows)
                 PROVE  /\ rows[i].manual => rows[i].by = "operator"
                        /\ InContext(i) /\ Inferred(i) =>
                              rows[i].value = rows[i].marked \/ rows[i].passed
      BY DEF ManualStaysHuman, InferencesAreApproved
    <2>1 RowIsRespected(rows[i])
      BY DEF MemoryInv, RowsInv
    <2> QED
      BY <2>1 DEF RowIsRespected, InContext, Inferred
  <1> QED
    BY <1>2, <1>3 DEF MemoryInv, MemoryRespectsOperators

-----------------------------------------------------------------------------
(* The policies of the business.                                             *)

\* The columns of each row, and of what an edit loaded of it.
RowsOf(r) == IF r = "tenant" THEN Tenant ELSE IF r = "legacy" THEN Legacy ELSE RuleRow

\* What an edit makes of the first row; it writes it unless it deletes it.
FirstOf(op, old) ==
    IF op.first = "legacy" THEN LegacyPut(op.enabled, op.keyword)
    ELSE IF op.first = "rule" THEN op.val
    ELSE TenantPut(old, op.enabled, op.keyword, op.val)
Writes(op, old) == FirstOf(op, old) # old /\ FirstOf(op, old) # Absent

\* What it makes of the second one, by the policies in force when it read it.
IsSecond(op, old, new) ==
    /\ op.first = "tenant" => new = LegacyPut(op.enabled, op.keyword)
    /\ op.first = "legacy" => new = TenantPut(old, op.enabled, op.keyword, op.val)
    /\ op.first = "rule" =>
          /\ new \in Tenant
          /\ old # Absent => new = [old EXCEPT !.revision = old.revision + 1]
          /\ old = Absent => new.revision = 2

\* The rows, the locks and the history have their columns.
PolicyRowsTyped ==
    /\ asking \in BOOLEAN
    /\ table \in [Rows -> Tenant \cup Legacy \cup RuleRow \cup {Absent}]
    /\ \A r \in Rows : table[r] \in RowsOf(r) \cup {Absent}
    /\ rowLock \in [Rows -> PolicyEditors \cup {Absent}]
    /\ changes \in 0..MaxChanges /\ raced \in BOOLEAN
    /\ history \subseteq Nat \X Tenant \X (RuleRow \cup {Absent})

\* What an edit has loaded; a row it has written is locked, and still there.
EditShape(s) ==
    \/ s = Idle
    \/ /\ s.pc = "first"
       /\ s.op \in Edits /\ s.old \in RowsOf(s.op.first) \cup {Absent}
    \/ /\ s.pc = "second"
       /\ s.op \in Edits /\ s.old \in RowsOf(s.op.first) \cup {Absent}
       /\ s.old2 \in RowsOf(s.op.second) \cup {Absent}
       /\ IsSecond(s.op, s.old2, s.new2)
EditFits(e) ==
    /\ EditShape(edit[e])
    /\ edit[e].pc = "second" /\ Writes(edit[e].op, edit[e].old) =>
          /\ rowLock[edit[e].op.first] = e
          /\ edit[e].old # Absent => table[edit[e].op.first] # Absent

\* Before the first conflict: the mirror and the revisions.
Coherent ==
    /\ table["tenant"] # Absent /\ table["legacy"] # Absent =>
          /\ table["tenant"].enabled = table["legacy"].enabled
          /\ table["tenant"].keyword = table["legacy"].keyword
    /\ table["tenant"] = Absent =>
          /\ table["legacy"] = Absent
          /\ \A h \in history : h[1] = 0
    /\ table["tenant"] # Absent => \A h \in history : h[1] <= table["tenant"].revision
    /\ \A h, g \in history : h[1] = g[1] => h = g

EditInv ==
    /\ PolicyRowsTyped
    /\ edit = [e \in PolicyEditors |-> edit[e]]
    /\ \A e \in PolicyEditors : EditFits(e)
    /\ ~raced => Coherent

\* What a job has decided: by a policy, allowed only after the message was,
\* and no weaker than the tool.
DecisionFits(d) ==
    /\ d \in Decisions
    /\ d.kind = "tool" /\ d.action = "allow" => ~d.asking
MessageAllowed == \E t \in acted : t.kind = "message" /\ t.action = "allow"
JobShape(s) ==
    \/ s.pc \in {"idle", "message", "ai", "agent"}
    \/ s.pc = "rule" /\ s.policy \in Tenant /\ s.asks \in BOOLEAN
    \/ s.pc \in {"trace", "act"} /\ DecisionFits(s.decision)
JobFits(w) ==
    /\ JobShape(job[w])
    /\ job[w].pc = "ai" => MessageAllowed
    /\ job[w].pc \in {"trace", "act"} /\ job[w].decision.kind = "autonomy" => MessageAllowed
    /\ job[w].pc = "act" => job[w].decision \in decided

JobInv ==
    /\ job = [w \in PolicyWorkers |-> job[w]]
    /\ jobs \in 0..MaxJobs
    /\ \A w \in PolicyWorkers : JobFits(w)
    /\ decided \subseteq Decisions
    /\ acted \subseteq decided /\ \A d \in acted : DecisionFits(d)
    /\ AIRunsWhenAllowed

PolicyInv == EditInv /\ JobInv

\* A function stays one when a value is replaced.
LEMMA Replaced ==
    ASSUME NEW S, NEW f, f = [i \in S |-> f[i]], NEW k \in S, NEW v, NEW g, g = [f EXCEPT ![k] = v]
    PROVE  /\ g = [i \in S |-> g[i]] /\ g[k] = v
           /\ \A i \in S \ {k} : g[i] = f[i]
  OBVIOUS

\* Every edit writes two rows, in one of three ways.
LEMMA EditRows ==
    ASSUME NEW op \in Edits
    PROVE  /\ op.first \in Rows /\ op.second \in Rows /\ op.first # op.second
           /\ op.enabled \in BOOLEAN /\ op.keyword \in BOOLEAN
           /\ \/ op.first = "tenant" /\ op.second = "legacy" /\ op.val \in Rules
              \/ op.first = "legacy" /\ op.second = "tenant" /\ op.val = Absent
              \/ op.first = "rule" /\ op.second = "tenant" /\ op.val \in ToolRules \cup {Absent}
  BY DEF Edits, Rows

\* The policy in force has the columns of a policy.
LEMMA EffectiveIsTyped == PolicyRowsTyped => Effective \in Tenant
  <1> SUFFICES ASSUME PolicyRowsTyped PROVE Effective \in Tenant
    OBVIOUS
  <1>1 table["tenant"] \in Tenant \cup {Absent} /\ table["legacy"] \in Legacy \cup {Absent}
    BY DEF PolicyRowsTyped, RowsOf, Rows
  <1>2 Default \in Tenant
    BY DEF Default, Tenant, DefaultRules, RulesType
  <1>3 ASSUME NEW l \in Legacy
       PROVE  [Default EXCEPT !.enabled = l.enabled, !.keyword = l.keyword] \in Tenant
    BY <1>2 DEF Legacy, Tenant
  <1> HIDE DEF Default, Tenant, Legacy
  <1> QED
    BY <1>1, <1>2, <1>3 DEF Effective

LEMMA TenantPutIsTyped ==
    ASSUME NEW old \in Tenant \cup {Absent}, NEW en \in BOOLEAN, NEW kw \in BOOLEAN,
           NEW rules \in Rules \cup {Absent}
    PROVE  /\ TenantPut(old, en, kw, rules) \in Tenant
           /\ TenantPut(old, en, kw, rules).enabled = en
           /\ TenantPut(old, en, kw, rules).keyword = kw
           /\ old # Absent => TenantPut(old, en, kw, rules).revision = old.revision + 1
           /\ old = Absent => TenantPut(old, en, kw, rules).revision = 1
  <1> DEFINE n == IF old = Absent THEN 1 ELSE old.revision + 1
             s == IF rules # Absent THEN rules
                  ELSE IF old = Absent THEN DefaultRules ELSE old.rules
  <1>1 n \in Nat /\ s \in RulesType
    <2>1 DefaultRules \in RulesType /\ Rules \subseteq RulesType
      BY PolicyAssumption DEF DefaultRules, RulesType
    <2> HIDE DEF DefaultRules, RulesType
    <2> QED
      BY <2>1 DEF Tenant
  <1>2 TenantPut(old, en, kw, rules) = [revision |-> n, enabled |-> en, keyword |-> kw, rules |-> s]
    BY DEF TenantPut
  <1>3 (old # Absent => n = old.revision + 1) /\ (old = Absent => n = 1)
    OBVIOUS
  <1> HIDE DEF n, s
  <1> QED
    BY <1>1, <1>2, <1>3 DEF Tenant

\* What the edits write has the columns of its row.
LEMMA FirstIsTyped ==
    ASSUME NEW op \in Edits, NEW old \in RowsOf(op.first) \cup {Absent}
    PROVE  /\ FirstOf(op, old) \in RowsOf(op.first) \cup {Absent}
           /\ Written(op, op.first, old) = FirstOf(op, old)
           /\ op.first # "rule" => FirstOf(op, old) \in RowsOf(op.first)
  <1>1 CASE op.first = "tenant" /\ op.val \in Rules
    BY <1>1, EditRows, TenantPutIsTyped DEF FirstOf, Written, RowsOf
  <1>2 CASE op.first = "legacy" /\ op.val = Absent
    BY <1>2, EditRows DEF FirstOf, Written, RowsOf, LegacyPut, Legacy
  <1>3 CASE op.first = "rule" /\ op.val \in ToolRules \cup {Absent}
    <2>1 ToolRules \subseteq RuleRow
      BY PolicyAssumption DEF RuleRow
    <2>2 FirstOf(op, old) = op.val /\ RowsOf(op.first) = RuleRow /\ Written(op, op.first, old) = op.val
      BY <1>3 DEF FirstOf, RowsOf, Written
    <2> QED
      BY <1>3, <2>1, <2>2
  <1> QED
    BY <1>1, <1>2, <1>3, EditRows

LEMMA SecondIsTyped ==
    ASSUME NEW op \in Edits, NEW old \in RowsOf(op.second) \cup {Absent}, NEW new,
           IsSecond(op, old, new)
    PROVE  new \in RowsOf(op.second)
  <1>1 CASE op.first = "tenant" /\ op.second = "legacy"
    BY <1>1, EditRows DEF IsSecond, RowsOf, LegacyPut, Legacy
  <1>2 CASE op.first = "legacy" /\ op.second = "tenant" /\ op.val = Absent
    BY <1>2, EditRows, TenantPutIsTyped DEF IsSecond, RowsOf
  <1>3 CASE op.first = "rule" /\ op.second = "tenant"
    BY <1>3 DEF IsSecond, RowsOf
  <1> QED
    BY <1>1, <1>2, <1>3, EditRows

LEMMA SecondIsWritten ==
    ASSUME PolicyRowsTyped, NEW op \in Edits
    PROVE  IsSecond(op, table[op.second], Written(op, op.second, table[op.second]))
  <1>1 CASE op.first = "tenant" /\ op.second = "legacy"
    BY <1>1 DEF IsSecond, Written
  <1>2 CASE op.first = "legacy" /\ op.second = "tenant"
    BY <1>2 DEF IsSecond, Written
  <1>3 CASE op.first = "rule" /\ op.second = "tenant"
    <2> DEFINE old == table["tenant"]
               new == EnsuredPut(old)
    <2>1 Written(op, op.second, old) = new
      BY <1>3 DEF Written
    <2>2 old \in Tenant \cup {Absent} /\ Effective \in Tenant
      BY EffectiveIsTyped DEF PolicyRowsTyped, RowsOf, Rows
    <2>3 CASE old # Absent
      <3>1 new = [old EXCEPT !.revision = old.revision + 1]
        BY <2>3 DEF EnsuredPut
      <3>2 new \in Tenant
        BY <2>2, <2>3, <3>1 DEF Tenant
      <3> HIDE DEF new, old
      <3> QED
        BY <1>3, <2>1, <2>3, <3>1, <3>2 DEF IsSecond, old
    <2>4 CASE old = Absent
      <3>1 new = [Effective EXCEPT !.revision = 2]
        BY <2>4 DEF EnsuredPut
      <3>2 new \in Tenant /\ new.revision = 2
        BY <2>2, <3>1 DEF Tenant
      <3> HIDE DEF new, old
      <3> QED
        BY <1>3, <2>1, <2>4, <3>2 DEF IsSecond, old
    <2> QED
      BY <2>3, <2>4
  <1> QED
    BY <1>1, <1>2, <1>3, EditRows

\* An UPDATE leaves the columns of a row, and is the new row when nothing
\* changed it meanwhile.
LEMMA MergedIsTyped ==
    ASSUME NEW r \in Rows, NEW old \in RowsOf(r) \cup {Absent}, NEW new \in RowsOf(r) \cup {Absent},
           table[r] \in RowsOf(r) \cup {Absent},
           old # Absent /\ new # Absent /\ new # old => table[r] # Absent
    PROVE  /\ Merged(r, old, new) \in RowsOf(r) \cup {Absent}
           /\ new # Absent /\ new # old => Merged(r, old, new) \in RowsOf(r)
           /\ table[r] = old => Merged(r, old, new) = new
  <1>1 CASE new = old \/ old = Absent \/ new = Absent
    BY <1>1 DEF Merged
  <1>2 CASE new # old /\ old # Absent /\ new # Absent
    <2> DEFINE t == table[r]
    <2>1 t \in RowsOf(r) /\ new \in RowsOf(r) /\ old \in RowsOf(r)
      BY <1>2
    <2>2 Merged(r, old, new) =
           IF r = "tenant" THEN [Updated(t, old, new) EXCEPT !.rules = Updated(t.rules, old.rules, new.rules)]
           ELSE Updated(t, old, new)
      BY <1>2 DEF Merged
    <2> HIDE DEF t
    <2>3 CASE r = "tenant"
      <3> DEFINE u == Updated(t, old, new)
                 s == Updated(t.rules, old.rules, new.rules)
      <3>1 t \in Tenant /\ new \in Tenant /\ old \in Tenant
        BY <2>1, <2>3 DEF RowsOf
      <3>2 t.rules \in RulesType /\ new.rules \in RulesType /\ old.rules \in RulesType
        BY <3>1 DEF Tenant
      <3>3 s \in RulesType
        <4> DEFINE t1 == t.rules n1 == new.rules o1 == old.rules
        <4> HIDE DEF t1, n1, o1
        <4>1 t1 \in RulesType /\ n1 \in RulesType /\ o1 \in RulesType
          BY <3>2 DEF t1, n1, o1
        <4>2 Updated(t1, o1, n1) \in RulesType
          BY <4>1 DEF Updated, RulesType
        <4> QED
          BY <4>2 DEF t1, n1, o1
      <3>4 u \in [revision : Nat, enabled : BOOLEAN, keyword : BOOLEAN, rules : RulesType]
        BY <3>1 DEF Updated, Tenant
      <3> HIDE DEF u, s
      <3>5 [u EXCEPT !.rules = s] \in Tenant
        BY <3>3, <3>4 DEF Tenant
      <3>6 ASSUME t = old PROVE [u EXCEPT !.rules = s] = new
        <4>1 s = new.rules
          <5>1 s = [c \in DOMAIN new.rules |-> new.rules[c]]
            BY <3>6 DEF s, Updated
          <5> QED
            BY <3>2, <5>1 DEF RulesType
        <4>2 u = new
          <5>1 u = [c \in DOMAIN new |-> new[c]]
            BY <3>6 DEF u, Updated
          <5> QED
            BY <3>1, <5>1 DEF Tenant
        <4> QED
          BY <3>1, <4>1, <4>2 DEF Tenant
      <3> QED
        BY <1>2, <2>2, <2>3, <3>5, <3>6 DEF RowsOf, t, u, s
    <2>4 CASE r = "legacy"
      <3>1 t \in Legacy /\ new \in Legacy /\ old \in Legacy
        BY <2>1, <2>4 DEF RowsOf
      <3>2 Updated(t, old, new) \in Legacy
        BY <3>1 DEF Updated, Legacy
      <3>3 t = old => Updated(t, old, new) = new
        BY <3>1 DEF Updated, Legacy
      <3> QED
        BY <1>2, <2>2, <2>4, <3>2, <3>3 DEF RowsOf, t
    <2>5 CASE r = "rule"
      <3>1 t \in RuleRow /\ new \in RuleRow /\ old \in RuleRow
        BY <2>1, <2>5 DEF RowsOf
      <3>2 Updated(t, old, new) \in RuleRow
        BY <3>1 DEF Updated, RuleRow
      <3>3 t = old => Updated(t, old, new) = new
        BY <3>1 DEF Updated, RuleRow
      <3> QED
        BY <1>2, <2>2, <2>5, <3>2, <3>3 DEF RowsOf, t
    <2> QED
      BY <2>3, <2>4, <2>5 DEF Rows
  <1> QED
    BY <1>1, <1>2

\* A step of one edit leaves the rows that the others have locked alone.
LocksKept(e) ==
    \A d \in PolicyEditors \ {e}, r \in Rows :
        rowLock[r] = d => rowLock'[r] = d /\ table'[r] = table[r]

LEMMA OneEdit ==
    ASSUME EditInv, NEW e \in PolicyEditors, NEW s, edit' = [edit EXCEPT ![e] = s],
           PolicyRowsTyped', LocksKept(e), EditFits(e)', ~raced' => Coherent'
    PROVE  EditInv'
  <1>1 /\ edit' = [i \in PolicyEditors |-> edit'[i]]
       /\ \A i \in PolicyEditors \ {e} : edit'[i] = edit[i]
    BY Replaced DEF EditInv
  <1>2 ASSUME NEW d \in PolicyEditors, d # e PROVE EditFits(d)'
    <2>1 edit'[d] = edit[d] /\ EditFits(d)
      BY <1>1, <1>2 DEF EditInv
    <2>2 EditShape(edit'[d])
      BY <2>1 DEF EditFits
    <2>3 ASSUME edit[d].pc = "second", Writes(edit[d].op, edit[d].old)
         PROVE  /\ rowLock'[edit[d].op.first] = d
                /\ edit[d].old # Absent => table'[edit[d].op.first] # Absent
      <3>1 edit[d].op \in Edits
        BY <2>1, <2>3 DEF EditFits, EditShape, Idle
      <3>2 edit[d].op.first \in Rows
        BY <3>1, EditRows
      <3>3 /\ rowLock[edit[d].op.first] = d
           /\ edit[d].old # Absent => table[edit[d].op.first] # Absent
        BY <2>1, <2>3 DEF EditFits
      <3> QED
        BY <1>2, <3>2, <3>3 DEF LocksKept
    <2> HIDE DEF EditShape, Writes
    <2> QED
      BY <2>1, <2>2, <2>3 DEF EditFits
  <1> QED
    BY <1>1, <1>2 DEF EditInv

\* An edit that ends releases its own rows, and those only.
LEMMA EndedEdit ==
    ASSUME PolicyRowsTyped, NEW e \in PolicyEditors, EndEdit(e)
    PROVE  /\ rowLock' \in [Rows -> PolicyEditors \cup {Absent}]
           /\ \A d \in PolicyEditors \ {e}, r \in Rows : rowLock[r] = d => rowLock'[r] = d
           /\ edit' = [edit EXCEPT ![e] = Idle]
  BY DEF EndEdit, PolicyRowsTyped

\* The same with all rows left alone.
LEMMA AbortedEdit ==
    ASSUME EditInv, NEW e \in PolicyEditors, EndEdit(e),
           UNCHANGED <<asking, table, changes, raced, history>>
    PROVE  EditInv'
  <1>1 PolicyRowsTyped' /\ LocksKept(e) /\ edit' = [edit EXCEPT ![e] = Idle]
    BY EndedEdit DEF EditInv, PolicyRowsTyped, LocksKept
  <1>2 edit'[e] = Idle /\ Idle.pc = "idle"
    BY <1>1 DEF EditInv, Idle
  <1>3 EditFits(e)'
    BY <1>2 DEF EditFits, EditShape
  <1>4 ~raced' => Coherent'
    BY DEF EditInv, Coherent
  <1> QED
    BY <1>1, <1>3, <1>4, OneEdit

LEMMA BegunEdit ==
    ASSUME EditInv, NEW e \in PolicyEditors, NEW op \in Edits, BeginEdit(e, op)
    PROVE  EditInv'
  <1> DEFINE s == [pc |-> "first", op |-> op, old |-> table[op.first]]
  <1>1 /\ edit' = [edit EXCEPT ![e] = s]
       /\ changes < MaxChanges /\ changes' = changes + 1
       /\ UNCHANGED <<asking, table, rowLock, raced, history>>
    BY DEF BeginEdit
  <1>2 PolicyRowsTyped' /\ LocksKept(e) /\ (~raced' => Coherent')
    BY <1>1, PolicyAssumption DEF EditInv, PolicyRowsTyped, LocksKept, Coherent
  <1>3 edit'[e] = s
    BY <1>1, Replaced DEF EditInv
  <1>4 s.pc = "first" /\ s.op = op /\ s.old \in RowsOf(op.first) \cup {Absent}
    BY EditRows DEF EditInv, PolicyRowsTyped
  <1> HIDE DEF s
  <1>5 EditFits(e)'
    BY <1>3, <1>4 DEF EditFits, EditShape
  <1> QED
    BY <1>1, <1>2, <1>5, OneEdit

LEMMA FirstWritten ==
    ASSUME EditInv, NEW e \in PolicyEditors, WriteFirst(e)
    PROVE  EditInv'
  <1> DEFINE op    == edit[e].op
             old   == edit[e].old
             new   == FirstOf(op, old)
             write == new # old /\ new # Absent
             conflict == write /\ EditConflicts(op.first, old, new)
             old2  == table[op.second]
             new2  == Written(op, op.second, old2)
             s     == [pc |-> "second", op |-> op, old |-> old, old2 |-> old2, new2 |-> new2]
  <1>1 edit[e].pc = "first" /\ EditShape(edit[e]) /\ PolicyRowsTyped
    BY DEF WriteFirst, EditInv, EditFits
  <1>2 op \in Edits /\ old \in RowsOf(op.first) \cup {Absent}
    BY <1>1 DEF EditShape, Idle
  <1>3 Written(op, op.first, old) = new
    BY <1>2, FirstIsTyped
  <1>4 /\ write => rowLock[op.first] = Absent
       /\ conflict => EndEdit(e)
       /\ ~conflict => edit' = [edit EXCEPT ![e] = s]
       /\ ~conflict => rowLock' = IF write THEN [rowLock EXCEPT ![op.first] = e] ELSE rowLock
       /\ UNCHANGED <<asking, table, changes, raced, history>>
    <2> HIDE DEF new
    <2> QED
      BY <1>3 DEF WriteFirst
  <1>5 CASE conflict
    BY <1>4, <1>5, AbortedEdit
  <1>6 CASE ~conflict
    <2>1 op.first \in Rows /\ op.second \in Rows
      BY <1>2, EditRows
    <2>2 old2 \in RowsOf(op.second) \cup {Absent} /\ IsSecond(op, old2, new2)
      BY <1>1, <1>2, <2>1, SecondIsWritten DEF PolicyRowsTyped
    <2>3 s.pc = "second" /\ s.op = op /\ s.old = old /\ s.old2 = old2 /\ s.new2 = new2
      OBVIOUS
    <2>4 write /\ old # Absent => table[op.first] # Absent
      BY <1>6 DEF EditConflicts
    <2>5 write <=> Writes(op, old)
      BY DEF Writes
    <2>6 /\ rowLock' \in [Rows -> PolicyEditors \cup {Absent}]
         /\ write => rowLock'[op.first] = e
         /\ \A d \in PolicyEditors \ {e}, r \in Rows : rowLock[r] = d => rowLock'[r] = d
      <3> HIDE DEF write, conflict, op
      <3> QED
        BY <1>1, <1>4, <1>6, <2>1, AbsentAssumption DEF PolicyRowsTyped
    <2> HIDE DEF new2, old2, write, conflict, new, s
    <2>7 edit'[e] = s /\ edit' = [edit EXCEPT ![e] = s]
      BY <1>4, <1>6, Replaced DEF EditInv
    <2> HIDE DEF op, old
    <2>8 EditShape(s)
      BY <1>2, <2>2, <2>3 DEF EditShape
    <2>9 EditFits(e)'
      BY <1>4, <2>3, <2>4, <2>5, <2>6, <2>7, <2>8 DEF EditFits
    <2>10 PolicyRowsTyped' /\ LocksKept(e) /\ (~raced' => Coherent')
      BY <1>1, <1>4, <2>6 DEF EditInv, PolicyRowsTyped, LocksKept, Coherent
    <2> QED
      BY <2>7, <2>9, <2>10, OneEdit
  <1> QED
    BY <1>5, <1>6

\* Every edit writes the tenant policy, under a new revision.
LEMMA TenantIsWritten ==
    ASSUME NEW op \in Edits
    PROVE  /\ op.first = "tenant" =>
                \A old \in Tenant \cup {Absent} :
                    /\ FirstOf(op, old) \in Tenant /\ FirstOf(op, old) # old
                    /\ FirstOf(op, old).enabled = op.enabled /\ FirstOf(op, old).keyword = op.keyword
                    /\ old # Absent => FirstOf(op, old).revision = old.revision + 1
                    /\ old = Absent => FirstOf(op, old).revision = 1
           /\ op.first # "tenant" =>
                \A old \in Tenant \cup {Absent}, new \in Tenant : IsSecond(op, old, new) =>
                    /\ new # old
                    /\ op.first = "legacy" => new.enabled = op.enabled /\ new.keyword = op.keyword
                    /\ op.first = "rule" /\ old # Absent =>
                          new.enabled = old.enabled /\ new.keyword = old.keyword
                    /\ old # Absent => new.revision = old.revision + 1
                    /\ old = Absent => new.revision \in {1, 2}
  <1>1 \A t \in Tenant : t.revision \in Nat /\ t.revision # t.revision + 1 /\ t # Absent
    BY AbsentAssumption DEF Tenant
  <1>2 ASSUME op.first = "tenant", NEW old \in Tenant \cup {Absent}
       PROVE  /\ FirstOf(op, old) \in Tenant /\ FirstOf(op, old) # old
              /\ FirstOf(op, old).enabled = op.enabled /\ FirstOf(op, old).keyword = op.keyword
              /\ old # Absent => FirstOf(op, old).revision = old.revision + 1
              /\ old = Absent => FirstOf(op, old).revision = 1
    <2> DEFINE new == TenantPut(old, op.enabled, op.keyword, op.val)
    <2>1 FirstOf(op, old) = new
      BY <1>2 DEF FirstOf
    <2>2 op.val \in Rules \cup {Absent} /\ op.enabled \in BOOLEAN /\ op.keyword \in BOOLEAN
      BY <1>2, EditRows
    <2>3 /\ new \in Tenant /\ new.enabled = op.enabled /\ new.keyword = op.keyword
         /\ old # Absent => new.revision = old.revision + 1
         /\ old = Absent => new.revision = 1
      BY <2>2, TenantPutIsTyped
    <2> HIDE DEF new
    <2>4 new # old
      BY <1>1, <2>3
    <2> QED
      BY <2>1, <2>3, <2>4
  <1>3 ASSUME op.first # "tenant", NEW old \in Tenant \cup {Absent}, NEW new \in Tenant,
              IsSecond(op, old, new)
       PROVE  /\ new # old
              /\ op.first = "legacy" => new.enabled = op.enabled /\ new.keyword = op.keyword
              /\ op.first = "rule" /\ old # Absent =>
                    new.enabled = old.enabled /\ new.keyword = old.keyword
              /\ old # Absent => new.revision = old.revision + 1
              /\ old = Absent => new.revision \in {1, 2}
    <2>1 CASE op.first = "legacy"
      <3>1 new = TenantPut(old, op.enabled, op.keyword, op.val)
        BY <1>3, <2>1 DEF IsSecond
      <3>2 op.val \in Rules \cup {Absent} /\ op.enabled \in BOOLEAN /\ op.keyword \in BOOLEAN
        BY <2>1, EditRows
      <3>3 /\ new.enabled = op.enabled /\ new.keyword = op.keyword
           /\ old # Absent => new.revision = old.revision + 1
           /\ old = Absent => new.revision = 1
        BY <3>1, <3>2, TenantPutIsTyped
      <3>4 new # old
        BY <1>1, <3>3
      <3> QED
        BY <2>1, <3>3, <3>4
    <2>2 CASE op.first = "rule"
      <3>1 /\ old # Absent => new = [old EXCEPT !.revision = old.revision + 1]
           /\ old = Absent => new.revision = 2
        BY <1>3, <2>2 DEF IsSecond
      <3>2 old # Absent => /\ new.revision = old.revision + 1
                           /\ new.enabled = old.enabled /\ new.keyword = old.keyword
        BY <3>1 DEF Tenant
      <3>3 new # old
        BY <1>1, <3>2
      <3> QED
        BY <2>2, <3>1, <3>2, <3>3
    <2> QED
      BY <1>3, <2>1, <2>2, EditRows
  <1> QED
    BY <1>2, <1>3

\* A higher revision keeps the history apart.
LEMMA NextRevision ==
    ASSUME PolicyRowsTyped, Coherent, NEW t \in Tenant, table'["tenant"] = t,
           table["tenant"] # Absent => t.revision = table["tenant"].revision + 1,
           table["tenant"] = Absent => t.revision \in {1, 2},
           history' = history \cup {<<t.revision, t, table'["rule"]>>},
           table'["legacy"] # Absent =>
               t.enabled = table'["legacy"].enabled /\ t.keyword = table'["legacy"].keyword
    PROVE  Coherent'
  <1>1 t.revision \in Nat /\ t # Absent
    BY AbsentAssumption DEF Tenant
  <1>2 \A h \in history : h[1] \in Nat
    BY DEF PolicyRowsTyped
  <1>3 \A h \in history : h[1] < t.revision
    <2> SUFFICES ASSUME NEW h \in history PROVE h[1] < t.revision
      OBVIOUS
    <2>1 CASE table["tenant"] = Absent
      BY <1>1, <2>1 DEF Coherent
    <2>2 CASE table["tenant"] # Absent
      <3>1 h[1] <= table["tenant"].revision /\ table["tenant"] \in Tenant
        BY <2>2 DEF Coherent, PolicyRowsTyped, RowsOf, Rows
      <3>2 table["tenant"].revision \in Nat
        BY <3>1 DEF Tenant
      <3> QED
        BY <1>2, <2>2, <3>1, <3>2
    <2> QED
      BY <2>1, <2>2
  <1> DEFINE n == <<t.revision, t, table'["rule"]>>
  <1>4 n[1] = t.revision /\ history' = history \cup {n}
    OBVIOUS
  <1> HIDE DEF n
  <1>5 \A h, g \in history' : h[1] = g[1] => h = g
    <2> SUFFICES ASSUME NEW h \in history', NEW g \in history', h[1] = g[1] PROVE h = g
      OBVIOUS
    <2>1 CASE h \in history /\ g \in history
      BY <2>1 DEF Coherent
    <2>2 CASE h = n \/ g = n
      BY <1>1, <1>2, <1>3, <1>4, <2>2
    <2> QED
      BY <1>4, <2>1, <2>2
  <1>6 \A h \in history' : h[1] <= t.revision
    BY <1>1, <1>2, <1>3, <1>4
  <1> QED
    BY <1>1, <1>5, <1>6 DEF Coherent

LEMMA EditCommitted ==
    ASSUME EditInv, NEW e \in PolicyEditors, CommitEdit(e)
    PROVE  EditInv'
  <1> DEFINE op    == edit[e].op
             old   == edit[e].old
             new   == FirstOf(op, old)
             old2  == edit[e].old2
             new2  == edit[e].new2
             a     == Merged(op.first, old, new)
             b     == Merged(op.second, old2, new2)
             conflict == new2 # old2 /\ EditConflicts(op.second, old2, new2)
  <1>1 edit[e].pc = "second" /\ EditFits(e) /\ EditShape(edit[e]) /\ PolicyRowsTyped
    BY DEF CommitEdit, EditInv, EditFits
  <1>2 /\ op \in Edits /\ old \in RowsOf(op.first) \cup {Absent}
       /\ old2 \in RowsOf(op.second) \cup {Absent} /\ IsSecond(op, old2, new2)
    BY <1>1 DEF EditShape, Idle
  <1>3 /\ Written(op, op.first, old) = new /\ new \in RowsOf(op.first) \cup {Absent}
       /\ op.first # "rule" => new \in RowsOf(op.first)
       /\ new2 \in RowsOf(op.second)
    BY <1>2, FirstIsTyped, SecondIsTyped
  <1>4 /\ new2 # old2 => rowLock[op.second] = Absent
       /\ new = Absent => rowLock[op.first] = Absent
       /\ conflict => UNCHANGED <<table, raced, history>>
       /\ ~conflict =>
             /\ table' = [table EXCEPT ![op.first] = a, ![op.second] = b]
             /\ raced' = (raced \/ table[op.first] # old \/ table[op.second] # old2)
             /\ history' = history \cup
                   {<<table'["tenant"].revision, table'["tenant"], table'["rule"]>>}
       /\ EndEdit(e) /\ UNCHANGED <<asking, changes>>
    <2> HIDE DEF new, a, b
    <2>1 new = Absent => rowLock[op.first] = Absent
      BY <1>3 DEF CommitEdit
    <2> QED
      BY <1>3, <2>1 DEF CommitEdit, a, b
  <1>5 CASE conflict
    BY <1>4, <1>5, AbortedEdit
  <1>6 CASE ~conflict
    <2>1 op.first \in Rows /\ op.second \in Rows /\ op.first # op.second
      BY <1>2, EditRows
    <2>2 table[op.first] \in RowsOf(op.first) \cup {Absent} /\ table[op.second] \in RowsOf(op.second) \cup {Absent}
      BY <1>1, <2>1 DEF PolicyRowsTyped
    <2>3 /\ new # old /\ new # Absent => rowLock[op.first] = e
         /\ old # Absent /\ new # Absent /\ new # old => table[op.first] # Absent
      BY <1>1 DEF EditFits, Writes
    <2>4 old2 # Absent /\ new2 # Absent /\ new2 # old2 => table[op.second] # Absent
      BY <1>6 DEF EditConflicts
    <2> HIDE DEF new, conflict
    <2>5 /\ a \in RowsOf(op.first) \cup {Absent}
         /\ new # Absent /\ new # old => a \in RowsOf(op.first)
         /\ table[op.first] = old => a = new
      BY <1>2, <1>3, <2>1, <2>2, <2>3, MergedIsTyped
    <2>6 /\ b \in RowsOf(op.second) \cup {Absent}
         /\ new2 # Absent /\ new2 # old2 => b \in RowsOf(op.second)
         /\ table[op.second] = old2 => b = new2
      BY <1>2, <1>3, <2>1, <2>2, <2>4, MergedIsTyped
    <2>7 /\ new = old => a = table[op.first]
         /\ new2 = old2 => b = table[op.second]
      BY DEF Merged
    <2> HIDE DEF a, b, op, old, old2, new2
    <2>8 /\ table' = [table EXCEPT ![op.first] = a, ![op.second] = b]
         /\ raced' = (raced \/ table[op.first] # old \/ table[op.second] # old2)
         /\ history' = history \cup
               {<<table'["tenant"].revision, table'["tenant"], table'["rule"]>>}
      BY <1>4, <1>6
    <2>9 \A r \in Rows : RowsOf(r) \subseteq Tenant \cup Legacy \cup RuleRow
      BY DEF RowsOf
    <2>10 /\ table' \in [Rows -> Tenant \cup Legacy \cup RuleRow \cup {Absent}]
          /\ table'[op.first] = a /\ table'[op.second] = b
          /\ \A r \in Rows \ {op.first, op.second} : table'[r] = table[r]
      BY <1>1, <2>1, <2>5, <2>6, <2>8, <2>9 DEF PolicyRowsTyped
    <2>11 table'["tenant"] \in Tenant
      <3>1 CASE op.first = "tenant"
        <4>1 old \in Tenant \cup {Absent}
          BY <1>2, <3>1 DEF RowsOf
        <4>2 new \in Tenant /\ new # old
          BY <1>2, <3>1, <4>1, TenantIsWritten DEF new
        <4>3 new # Absent
          BY <4>2, AbsentAssumption
        <4> QED
          BY <2>5, <2>10, <3>1, <4>2, <4>3 DEF RowsOf
      <3>2 CASE op.first # "tenant"
        <4>1 op.second = "tenant"
          BY <1>2, <3>2, EditRows
        <4>2 old2 \in Tenant \cup {Absent} /\ new2 \in Tenant
          BY <1>2, <1>3, <4>1 DEF RowsOf
        <4>3 new2 # old2 /\ new2 # Absent
          BY <1>2, <3>2, <4>2, TenantIsWritten, AbsentAssumption
        <4> QED
          BY <2>6, <2>10, <4>1, <4>3 DEF RowsOf
      <3> QED
        BY <3>1, <3>2
    <2>12 \A r \in Rows : table'[r] \in RowsOf(r) \cup {Absent}
      BY <1>1, <2>5, <2>6, <2>10 DEF PolicyRowsTyped
    <2>13 table'["tenant"].revision \in Nat /\ table'["rule"] \in RuleRow \cup {Absent}
      BY <2>11, <2>12 DEF Tenant, RowsOf, Rows
    <2>14 /\ rowLock' \in [Rows -> PolicyEditors \cup {Absent}]
          /\ \A d \in PolicyEditors \ {e}, r \in Rows : rowLock[r] = d => rowLock'[r] = d
          /\ edit' = [edit EXCEPT ![e] = Idle]
      BY <1>1, <1>4, EndedEdit
    <2>15 PolicyRowsTyped'
      <3>1 raced' \in BOOLEAN
        BY <2>8
      <3>2 <<table'["tenant"].revision, table'["tenant"], table'["rule"]>>
               \in Nat \X Tenant \X (RuleRow \cup {Absent})
        BY <2>11, <2>13
      <3>3 history' \subseteq Nat \X Tenant \X (RuleRow \cup {Absent})
        BY <1>1, <2>8, <3>2 DEF PolicyRowsTyped
      <3> QED
        BY <1>1, <1>4, <2>10, <2>12, <2>14, <3>1, <3>3 DEF PolicyRowsTyped
    <2>16 LocksKept(e)
      <3> SUFFICES ASSUME NEW d \in PolicyEditors \ {e}, NEW r \in Rows, rowLock[r] = d
                   PROVE  table'[r] = table[r]
        BY <2>14 DEF LocksKept
      <3>1 d # Absent
        BY AbsentAssumption
      <3>2 CASE r = op.first
        BY <1>4, <2>3, <2>7, <2>10, <3>1, <3>2
      <3>3 CASE r = op.second
        BY <1>4, <2>7, <2>10, <3>1, <3>3
      <3> QED
        BY <2>10, <3>2, <3>3
    <2>17 EditFits(e)'
      <3>1 edit'[e] = Idle /\ Idle.pc = "idle"
        BY <2>14, Replaced DEF EditInv, Idle
      <3> QED
        BY <3>1 DEF EditFits, EditShape
    <2>18 ~raced' => Coherent'
      <3> SUFFICES ASSUME ~raced, table[op.first] = old, table[op.second] = old2
                   PROVE  Coherent'
        BY <2>8
      <3>1 Coherent /\ a = new /\ b = new2
        BY <2>5, <2>6 DEF EditInv
      <3>2 CASE op.first = "tenant" /\ op.second = "legacy"
        <4>1 /\ new \in Tenant /\ new.enabled = op.enabled /\ new.keyword = op.keyword
             /\ old # Absent => new.revision = old.revision + 1
             /\ old = Absent => new.revision = 1
          <5>1 old \in Tenant \cup {Absent}
            BY <1>2, <3>2 DEF RowsOf
          <5> QED
            BY <1>2, <3>2, <5>1, TenantIsWritten DEF new
        <4>2 new2.enabled = op.enabled /\ new2.keyword = op.keyword
          BY <1>2, <3>2 DEF IsSecond, LegacyPut
        <4>3 table'["tenant"] = new /\ table'["legacy"] = new2 /\ table["tenant"] = old
          BY <2>10, <3>1, <3>2
        <4>4 /\ table["tenant"] # Absent => new.revision = table["tenant"].revision + 1
             /\ table["tenant"] = Absent => new.revision \in {1, 2}
          BY <4>1, <4>3
        <4>5 history' = history \cup {<<new.revision, new, table'["rule"]>>}
          BY <2>8, <4>3
        <4> HIDE DEF Coherent, PolicyRowsTyped
        <4> QED
          BY <1>1, <3>1, <4>1, <4>2, <4>3, <4>4, <4>5, NextRevision
      <3>3 CASE op.first # "tenant" /\ op.second = "tenant"
        <4>1 old2 \in Tenant \cup {Absent} /\ new2 \in Tenant
          BY <1>2, <1>3, <3>3 DEF RowsOf
        <4>2 /\ op.first = "legacy" => new2.enabled = op.enabled /\ new2.keyword = op.keyword
             /\ op.first = "rule" /\ old2 # Absent =>
                   new2.enabled = old2.enabled /\ new2.keyword = old2.keyword
             /\ old2 # Absent => new2.revision = old2.revision + 1
             /\ old2 = Absent => new2.revision \in {1, 2}
          BY <1>2, <3>3, <4>1, TenantIsWritten
        <4>3 table'["legacy"] # Absent =>
                 new2.enabled = table'["legacy"].enabled /\ new2.keyword = table'["legacy"].keyword
          <5>1 CASE op.first = "legacy"
            <6>1 new = LegacyPut(op.enabled, op.keyword)
              BY <5>1 DEF FirstOf, new
            <6> QED
              BY <2>10, <3>1, <4>2, <5>1, <6>1 DEF LegacyPut
          <5>2 CASE op.first = "rule"
            <6>1 table'["legacy"] = table["legacy"]
              BY <2>10, <3>3, <5>2 DEF Rows
            <6> QED
              BY <3>1, <3>3, <4>2, <5>2, <6>1 DEF Coherent
          <5> QED
            BY <1>2, <3>3, <5>1, <5>2, EditRows
        <4>4 table'["tenant"] = new2 /\ table["tenant"] = old2
          BY <2>10, <3>1, <3>3
        <4>5 /\ table["tenant"] # Absent => new2.revision = table["tenant"].revision + 1
             /\ table["tenant"] = Absent => new2.revision \in {1, 2}
          BY <4>2, <4>4
        <4>6 history' = history \cup {<<new2.revision, new2, table'["rule"]>>}
          BY <2>8, <4>4
        <4> HIDE DEF Coherent, PolicyRowsTyped
        <4> QED
          BY <1>1, <3>1, <4>1, <4>3, <4>4, <4>5, <4>6, NextRevision
      <3> QED
        BY <1>2, <3>2, <3>3, EditRows
    <2> QED
      BY <2>14, <2>15, <2>16, <2>17, <2>18, OneEdit
  <1> QED
    BY <1>5, <1>6

LEMMA EditStepKeeps == EditInv /\ EditStep => EditInv' /\ UNCHANGED jobVars
  <1> SUFFICES ASSUME EditInv, EditStep PROVE EditInv' /\ UNCHANGED jobVars
    OBVIOUS
  <1>1 CASE UpdateTool
    <2>1 /\ asking' = ~asking /\ changes < MaxChanges /\ changes' = changes + 1
         /\ UNCHANGED <<table, rowLock, edit, raced, history, jobVars>>
      BY <1>1 DEF UpdateTool
    <2>2 asking' \in BOOLEAN
      BY <2>1
    <2>3 PolicyRowsTyped' /\ (~raced' => Coherent')
      BY <2>1, <2>2, PolicyAssumption DEF EditInv, PolicyRowsTyped, Coherent
    <2>4 \A e \in PolicyEditors : EditFits(e)'
      BY <2>1 DEF EditInv, EditFits
    <2> QED
      BY <2>1, <2>3, <2>4 DEF EditInv
  <1>2 ASSUME NEW e \in PolicyEditors, NEW op \in Edits, BeginEdit(e, op)
       PROVE  EditInv' /\ UNCHANGED jobVars
    BY <1>2, BegunEdit DEF BeginEdit
  <1>3 ASSUME NEW e \in PolicyEditors, WriteFirst(e) PROVE EditInv' /\ UNCHANGED jobVars
    BY <1>3, FirstWritten DEF WriteFirst
  <1>4 ASSUME NEW e \in PolicyEditors, CommitEdit(e) PROVE EditInv' /\ UNCHANGED jobVars
    BY <1>4, EditCommitted DEF CommitEdit
  <1>5 ASSUME NEW e \in PolicyEditors, DeadlockAbort(e) PROVE EditInv' /\ UNCHANGED jobVars
    BY <1>5, AbortedEdit DEF DeadlockAbort
  <1> QED
    BY <1>1, <1>2, <1>3, <1>4, <1>5 DEF EditStep

\* What the evaluations decide: a tool that asks for an approval gets one.
LEMMA DecidedFits ==
    ASSUME NEW p \in Tenant
    PROVE  /\ DecisionFits(MessageDecision(p)) /\ MessageDecision(p).kind = "message"
           /\ \A b \in BOOLEAN : DecisionFits(AIDecision(p, b))
           /\ \A rule \in RuleRow \cup {Absent}, b \in BOOLEAN :
                 /\ DecisionFits(ToolDecision(p, rule, b))
                 /\ ToolDecision(p, rule, b).kind = "tool"
  <1>1 /\ p.revision \in Nat /\ p.rules.message \in {"allow", "deny", "handoff"}
    BY DEF Tenant, RulesType
  <1>2 ASSUME NEW k \in DecisionKinds, NEW a \in Actions, k # "tool"
       PROVE  DecisionFits(Decision(k, a, p)) /\ Decision(k, a, p).kind = k
    BY <1>1, <1>2 DEF DecisionFits, Decision, Decisions
  <1>3 DecisionFits(MessageDecision(p)) /\ MessageDecision(p).kind = "message"
    BY <1>1, <1>2 DEF MessageDecision, DecisionKinds, Actions
  <1>4 ASSUME NEW b \in BOOLEAN PROVE DecisionFits(AIDecision(p, b))
    <2>1 \E k \in DecisionKinds, a \in Actions : k # "tool" /\ AIDecision(p, b) = Decision(k, a, p)
      BY DEF AIDecision, DecisionKinds, Actions
    <2> QED
      BY <1>2, <2>1
  <1>5 ASSUME NEW rule \in RuleRow \cup {Absent}, NEW b \in BOOLEAN
       PROVE  /\ DecisionFits(ToolDecision(p, rule, b))
              /\ ToolDecision(p, rule, b).kind = "tool"
    <2> DEFINE ruled  == p.enabled /\ rule # Absent
               denied == ruled /\ rule.deny
               asked  == \/ b
                         \/ p.enabled /\ (p.rules.floor \/ p.rules.writes)
                         \/ ruled /\ rule.required
               a == IF denied THEN "deny" ELSE IF asked THEN "approval" ELSE "allow"
    <2>1 ToolDecision(p, rule, b) = [Decision("tool", a, p) EXCEPT !.asking = b]
      BY DEF ToolDecision
    <2>2 a \in Actions /\ (a = "allow" => ~b) /\ "tool" \in DecisionKinds
      BY DEF Actions, DecisionKinds
    <2> HIDE DEF a
    <2>3 [Decision("tool", a, p) EXCEPT !.asking = b]
           = [kind |-> "tool", action |-> a, revision |-> p.revision, asking |-> b]
      BY DEF Decision
    <2> QED
      BY <1>1, <2>1, <2>2, <2>3 DEF DecisionFits, Decisions
  <1> QED
    BY <1>3, <1>4, <1>5

\* One job moves, its new place fits, and what was decided and done stays.
LEMMA OneJob ==
    ASSUME JobInv, NEW w \in PolicyWorkers, NEW s, job' = [job EXCEPT ![w] = s],
           jobs' \in 0..MaxJobs, decided \subseteq decided', acted \subseteq acted',
           decided' \subseteq Decisions, acted' \subseteq decided',
           \A d \in acted' : DecisionFits(d),
           JobShape(s), s.pc = "ai" => MessageAllowed',
           s.pc \in {"trace", "act"} /\ s.decision.kind = "autonomy" => MessageAllowed',
           s.pc = "act" => s.decision \in decided', AIRunsWhenAllowed'
    PROVE  JobInv'
  <1>1 /\ job' = [i \in PolicyWorkers |-> job'[i]] /\ job'[w] = s
       /\ \A i \in PolicyWorkers \ {w} : job'[i] = job[i]
    BY Replaced DEF JobInv
  <1>2 MessageAllowed => MessageAllowed'
    BY DEF MessageAllowed
  <1>3 ASSUME NEW v \in PolicyWorkers PROVE JobFits(v)'
    <2>1 CASE v = w
      BY <1>1, <2>1 DEF JobFits
    <2>2 CASE v # w
      <3>1 job'[v] = job[v] /\ JobFits(v)
        BY <1>1, <2>2 DEF JobInv
      <3> HIDE DEF JobShape, MessageAllowed
      <3> QED
        BY <1>2, <3>1 DEF JobFits
    <2> QED
      BY <2>1, <2>2
  <1> QED
    BY <1>1, <1>3 DEF JobInv

LEMMA JobStepKeeps == EditInv /\ JobInv /\ JobStep => JobInv' /\ UNCHANGED editVars
  <1> SUFFICES ASSUME EditInv, JobInv, NEW w \in PolicyWorkers,
                      \/ StartJob(w) \/ EvaluateMessage(w) \/ AskForTool(w) \/ EvaluateTool(w)
                      \/ \E b \in BOOLEAN : EvaluateAI(w, b)
                      \/ TraceDecision(w) \/ Act(w) \/ LeaveJob(w)
               PROVE  JobInv' /\ UNCHANGED editVars
    BY DEF JobStep
  <1>1 Effective \in Tenant /\ asking \in BOOLEAN /\ table["rule"] \in RuleRow \cup {Absent}
    BY EffectiveIsTyped DEF EditInv, PolicyRowsTyped, RowsOf, Rows
  <1>2 /\ jobs \in 0..MaxJobs /\ decided \subseteq Decisions /\ acted \subseteq decided
       /\ \A d \in acted : DecisionFits(d)
       /\ AIRunsWhenAllowed /\ JobFits(w)
    BY DEF JobInv
  <1>3 UNCHANGED <<decided, acted>> => AIRunsWhenAllowed' /\ (MessageAllowed => MessageAllowed')
    BY <1>2 DEF AIRunsWhenAllowed, MessageAllowed
  <1>4 ASSUME NEW s, job' = [job EXCEPT ![w] = s], jobs' \in 0..MaxJobs, UNCHANGED <<decided, acted>>,
              JobShape(s), s.pc = "ai" => MessageAllowed,
              s.pc \in {"trace", "act"} /\ s.decision.kind = "autonomy" => MessageAllowed,
              s.pc # "act"
       PROVE  JobInv'
    <2> HIDE DEF JobShape, MessageAllowed, AIRunsWhenAllowed
    <2> QED
      BY <1>2, <1>3, <1>4, OneJob
  <1>5 ASSUME NEW d, DecisionFits(d), d.kind = "autonomy" => MessageAllowed,
              Decided(w, d), UNCHANGED <<jobs, decided, acted>>
       PROVE  JobInv'
    <2> DEFINE s == [pc |-> "trace", decision |-> d]
    <2>1 s.pc = "trace" /\ s.decision = d /\ job' = [job EXCEPT ![w] = s]
      BY <1>5 DEF Decided
    <2> HIDE DEF s
    <2>2 JobShape(s)
      BY <1>5, <2>1 DEF JobShape
    <2> QED
      BY <1>2, <1>4, <1>5, <2>1, <2>2
  <1>6 ASSUME NEW l, l \in {"idle", "message", "ai", "agent"}, l = "ai" => MessageAllowed,
              JobGoto(w, l), jobs' \in 0..MaxJobs, UNCHANGED <<decided, acted>>
       PROVE  JobInv'
    <2> DEFINE s == [pc |-> l]
    <2>1 s.pc = l /\ job' = [job EXCEPT ![w] = s]
      BY <1>6 DEF JobGoto
    <2> HIDE DEF s
    <2>2 JobShape(s)
      BY <1>6, <2>1 DEF JobShape
    <2> QED
      BY <1>4, <1>6, <2>1, <2>2
  <1>7 CASE StartJob(w)
    <2>1 jobs' \in 0..MaxJobs
      BY <1>2, <1>7, PolicyAssumption DEF StartJob
    <2> QED
      BY <1>6, <1>7, <2>1 DEF StartJob
  <1>8 CASE EvaluateMessage(w)
    BY <1>1, <1>5, <1>8, DecidedFits DEF EvaluateMessage
  <1>9 ASSUME NEW b \in BOOLEAN, EvaluateAI(w, b) PROVE JobInv' /\ UNCHANGED editVars
    <2>1 MessageAllowed
      BY <1>2, <1>9 DEF JobFits, EvaluateAI
    <2> QED
      BY <1>1, <1>5, <1>9, <2>1, DecidedFits DEF EvaluateAI
  <1>10 CASE AskForTool(w)
    <2> DEFINE s == [pc |-> "rule", policy |-> Effective, asks |-> asking]
    <2>1 s.pc = "rule" /\ s.policy = Effective /\ s.asks = asking /\ job' = [job EXCEPT ![w] = s]
         /\ UNCHANGED <<editVars, jobs, decided, acted>>
      BY <1>10 DEF AskForTool
    <2> HIDE DEF s
    <2>2 JobShape(s)
      BY <1>1, <2>1 DEF JobShape
    <2> QED
      BY <1>2, <1>4, <2>1, <2>2
  <1>11 CASE EvaluateTool(w)
    <2>1 job[w].policy \in Tenant /\ job[w].asks \in BOOLEAN
      BY <1>2, <1>11 DEF EvaluateTool, JobFits, JobShape
    <2> DEFINE d == ToolDecision(job[w].policy, table["rule"], job[w].asks)
    <2>2 DecisionFits(d) /\ d.kind = "tool"
      BY <1>1, <2>1, DecidedFits
    <2> HIDE DEF d
    <2> QED
      BY <1>5, <1>11, <2>2 DEF EvaluateTool, d
  <1>12 CASE TraceDecision(w)
    <2> DEFINE d == job[w].decision
               s == [pc |-> "act", decision |-> d]
    <2>1 /\ job[w].pc = "trace" /\ decided' = decided \cup {d}
         /\ job' = [job EXCEPT ![w] = s] /\ UNCHANGED <<editVars, jobs, acted>>
      BY <1>12 DEF TraceDecision
    <2>2 DecisionFits(d) /\ (d.kind = "autonomy" => MessageAllowed)
      BY <1>2, <2>1 DEF JobFits, JobShape
    <2>3 s.pc = "act" /\ s.decision = d
      OBVIOUS
    <2> HIDE DEF s, d
    <2>4 JobShape(s)
      BY <2>2, <2>3 DEF JobShape
    <2>5 AIRunsWhenAllowed' /\ (MessageAllowed => MessageAllowed') /\ decided' \subseteq Decisions
      BY <1>2, <2>1, <2>2 DEF AIRunsWhenAllowed, MessageAllowed, DecisionFits
    <2>6 JobInv'
      <3> HIDE DEF JobShape, MessageAllowed, AIRunsWhenAllowed, DecisionFits
      <3> QED
        BY <1>2, <2>1, <2>2, <2>3, <2>4, <2>5, OneJob
    <2> QED
      BY <2>1, <2>6
  <1>13 CASE Act(w)
    <2> DEFINE d == job[w].decision
               l == CASE d.kind = "message" /\ d.action = "allow" -> "ai"
                      [] d.kind = "autonomy" /\ d.action = "allow" -> "agent"
                      [] OTHER -> "idle"
               s == [pc |-> l]
    <2>1 /\ job[w].pc = "act" /\ acted' \in {acted, acted \cup {d}}
         /\ (d.kind # "tool" => acted' = acted \cup {d})
         /\ job' = [job EXCEPT ![w] = s] /\ UNCHANGED <<editVars, jobs, decided>>
      BY <1>13 DEF Act, JobGoto
    <2>2 DecisionFits(d) /\ d \in decided /\ (d.kind = "autonomy" => MessageAllowed)
      BY <1>2, <2>1 DEF JobFits, JobShape
    <2>3 /\ l \in {"ai", "agent", "idle"}
         /\ l = "ai" => d.kind = "message" /\ d.action = "allow"
      OBVIOUS
    <2>4 s.pc = l
      OBVIOUS
    <2> HIDE DEF s, l, d
    <2>5 JobShape(s)
      BY <2>3, <2>4 DEF JobShape
    <2>6 MessageAllowed => MessageAllowed'
      BY <2>1 DEF MessageAllowed
    <2>7 l = "ai" => MessageAllowed'
      BY <2>1, <2>3 DEF MessageAllowed
    <2>8 AIRunsWhenAllowed'
      <3> SUFFICES ASSUME NEW t \in acted', t.kind = "autonomy", t.action = "allow"
                   PROVE  MessageAllowed'
        BY DEF AIRunsWhenAllowed, MessageAllowed
      <3>1 t \in acted => MessageAllowed
        BY <1>2 DEF AIRunsWhenAllowed, MessageAllowed
      <3> QED
        BY <2>1, <2>2, <2>6, <3>1
    <2>9 JobInv'
      <3> HIDE DEF JobShape, MessageAllowed, AIRunsWhenAllowed, DecisionFits
      <3> QED
        BY <1>2, <2>1, <2>2, <2>3, <2>4, <2>5, <2>7, <2>8, OneJob
    <2> QED
      BY <2>1, <2>9
  <1>14 CASE LeaveJob(w)
    BY <1>2, <1>6, <1>14 DEF LeaveJob
  <1> QED
    BY <1>7, <1>8, <1>9, <1>10, <1>11, <1>12, <1>13, <1>14 DEF StartJob, EvaluateMessage, EvaluateTool, LeaveJob

LEMMA PolicyStart == PolicyInit => PolicyInv
  <1> SUFFICES ASSUME PolicyInit PROVE PolicyInv
    OBVIOUS
  <1>1 /\ asking = FALSE /\ table = [r \in Rows |-> Absent]
       /\ rowLock = [r \in Rows |-> Absent] /\ edit = [e \in PolicyEditors |-> Idle]
       /\ changes = 0 /\ raced = FALSE /\ history = {<<0, Default, Absent>>}
       /\ job = [w \in PolicyWorkers |-> Idle] /\ jobs = 0 /\ decided = {} /\ acted = {}
    BY DEF PolicyInit
  <1>2 Default \in Tenant
    BY DEF Default, DefaultRules, Tenant, RulesType
  <1>3 PolicyRowsTyped
    <2>1 \A r \in Rows : table[r] \in RowsOf(r) \cup {Absent}
      BY <1>1
    <2>2 /\ table \in [Rows -> Tenant \cup Legacy \cup RuleRow \cup {Absent}]
         /\ rowLock \in [Rows -> PolicyEditors \cup {Absent}]
      BY <1>1
    <2>3 history \subseteq Nat \X Tenant \X (RuleRow \cup {Absent})
      BY <1>1, <1>2
    <2>4 raced \in BOOLEAN /\ asking \in BOOLEAN
      BY <1>1
    <2>5 changes \in 0..MaxChanges
      BY <1>1, PolicyAssumption
    <2> QED
      BY <2>1, <2>2, <2>3, <2>4, <2>5 DEF PolicyRowsTyped
  <1>4 Coherent
    BY <1>1 DEF Coherent, Rows
  <1>5 EditInv
    BY <1>1, <1>3, <1>4 DEF EditInv, EditFits, EditShape, Idle
  <1>6 JobInv
    BY <1>1, PolicyAssumption DEF JobInv, JobFits, JobShape, AIRunsWhenAllowed, Idle
  <1> QED
    BY <1>5, <1>6 DEF PolicyInv

LEMMA EditStutter == EditInv /\ UNCHANGED editVars => EditInv'
  <1> SUFFICES ASSUME EditInv, UNCHANGED editVars PROVE EditInv'
    OBVIOUS
  <1>1 UNCHANGED <<asking, table, rowLock, edit, changes, raced, history>>
    BY DEF editVars
  <1>2 PolicyRowsTyped' /\ (~raced' => Coherent')
    BY <1>1 DEF EditInv, PolicyRowsTyped, Coherent
  <1>3 \A e \in PolicyEditors : EditFits(e)'
    BY <1>1 DEF EditInv, EditFits
  <1> QED
    BY <1>1, <1>2, <1>3 DEF EditInv

LEMMA JobStutter == JobInv /\ UNCHANGED jobVars => JobInv'
  <1> SUFFICES ASSUME JobInv, UNCHANGED jobVars PROVE JobInv'
    OBVIOUS
  <1>1 UNCHANGED <<job, jobs, decided, acted>>
    BY DEF jobVars
  <1>2 \A w \in PolicyWorkers : JobFits(w)'
    BY <1>1 DEF JobInv, JobFits, MessageAllowed
  <1> QED
    BY <1>1, <1>2 DEF JobInv, AIRunsWhenAllowed

LEMMA PolicyStep == PolicyInv /\ PolicyNext => PolicyInv'
  BY EditStepKeeps, JobStepKeeps, EditStutter, JobStutter DEF PolicyInv, PolicyNext

LEMMA PolicyStutter == PolicyInv /\ UNCHANGED policyVars => PolicyInv'
  BY EditStutter, JobStutter DEF PolicyInv, policyVars

LEMMA PolicyFollows == PolicyInv => PolicyTypeOK /\ PolicyIsEnforced
  <1> SUFFICES ASSUME PolicyInv PROVE PolicyTypeOK /\ PolicyIsEnforced
    OBVIOUS
  <1>1 /\ PolicyRowsTyped /\ (~raced => Coherent)
       /\ \A e \in PolicyEditors : EditShape(edit[e])
       /\ \A w \in PolicyWorkers : JobShape(job[w])
       /\ jobs \in 0..MaxJobs /\ decided \subseteq Decisions
       /\ acted \subseteq decided /\ \A d \in acted : DecisionFits(d)
       /\ AIRunsWhenAllowed
    BY DEF PolicyInv, EditInv, EditFits, JobInv, JobFits
  <1>2 \A e \in PolicyEditors : edit[e].pc \in {"idle", "first", "second"}
    BY <1>1 DEF EditShape, Idle
  <1>3 \A w \in PolicyWorkers :
           job[w].pc \in {"idle", "message", "ai", "agent", "tool", "rule", "trace", "act"}
    BY <1>1 DEF JobShape
  <1>4 PolicyTypeOK
    BY <1>1, <1>2, <1>3 DEF PolicyTypeOK, PolicyRowsTyped, RowsOf, Rows
  <1>5 ActedIsTraced /\ BaselineIsKept
    BY <1>1 DEF ActedIsTraced, BaselineIsKept, DecisionFits
  <1>6 ConfigurationIsCoherent
    BY <1>1 DEF ConfigurationIsCoherent, Coherent
  <1> QED
    BY <1>1, <1>4, <1>5, <1>6 DEF PolicyIsEnforced

-----------------------------------------------------------------------------
(* The clock of a job and its lease has its type.                            *)

\* A dead-lettered entry is never read again.
ClockInv == BudgetTypeOK /\ (entry # "dead" => delivery <= MaxAttempts)

LEMMA ClockStart == BudgetInit => ClockInv
  <1> SUFFICES ASSUME BudgetInit PROVE ClockInv
    OBVIOUS
  <1>1 crashed \in BOOLEAN
    BY DEF BudgetInit
  <1> QED
    BY <1>1, ClockAssumption DEF BudgetInit, ClockInv, BudgetTypeOK

LEMMA ClockStep == ClockInv /\ [BudgetNext]_budgetVars => ClockInv'
  <1> SUFFICES ASSUME ClockInv, [BudgetNext]_budgetVars PROVE ClockInv'
    OBVIOUS
  <1> USE ClockAssumption DEF ClockInv, BudgetTypeOK
  <1>1 CASE UNCHANGED budgetVars
    BY <1>1 DEF budgetVars
  <1>2 CASE Tick
    BY <1>2 DEF Tick
  <1>3 CASE RenewRunLease
    BY <1>3 DEF RenewRunLease
  <1>4 CASE CompleteRun
    BY <1>4 DEF CompleteRun
  <1>5 CASE Acknowledge
    BY <1>5 DEF Acknowledge
  <1>6 CASE Crash
    BY <1>6 DEF Crash
  <1>7 CASE Reclaim
    BY <1>7 DEF Reclaim, IdleLongEnough, Exhausted
  <1> QED
    BY <1>1, <1>2, <1>3, <1>4, <1>5, <1>6, <1>7 DEF BudgetNext

-----------------------------------------------------------------------------
(* The row locks.                                                            *)

\* A transaction holds the locks of the statements it has run, and no two
\* transactions hold locks that conflict.
Taken(p, n) == {Programs[p][i] : i \in 1..(n - 1)}
HeldAsListed ==
    \A t \in Transactions :
        held[t] = IF InTransaction(t) THEN Taken(program[t], next[t]) ELSE {}
NoConflict ==
    \A t \in Transactions : \A u \in Transactions \ {t} : \A a \in held[t], b \in held[u] :
        a[1] = b[1] => ~ModesConflict(a[2], b[2])

LocksInv ==
    /\ LocksTypeOK
    /\ program = [t \in Transactions |-> program[t]]
    /\ next = [t \in Transactions |-> next[t]]
    /\ held = [t \in Transactions |-> held[t]]
    /\ HeldAsListed
    /\ NoConflict

\* Every transaction is a finite list of statements.
LEMMA ProgramsAreFinite == \A p \in DOMAIN Programs : Len(Programs[p]) \in Nat
  <1>1 /\ Len(GuardPauses) = 3 /\ Len(GuardSends) = 4 /\ Len(PausesRun) = 3
       /\ Len(LinksHandoff) = 3 /\ Len(InsertsHandoff) = 2 /\ Len(ClaimsHandoff) = 1
       /\ Len(ResolvesHandoff) = 2 /\ Len(ResumesAgain) = 1
    BY DEF GuardPauses, GuardSends, PausesRun, LinksHandoff, InsertsHandoff, ClaimsHandoff,
       ResolvesHandoff, ResumesAgain
  <1>2 /\ Len(RepliesByHand) = 3 /\ Len(WritesMessage) = 2 /\ Len(RecordsAnswer) = 3
       /\ Len(DraftsReply) = 2 /\ Len(InsertsRun) = 1 /\ Len(UpdatesRun) = 1
       /\ Len(Extracts) = 4 /\ Len(ExtractsBack) = 4 /\ Len(EditsItem) = 1
    BY DEF RepliesByHand, WritesMessage, RecordsAnswer, DraftsReply, InsertsRun, UpdatesRun,
       Extracts, ExtractsBack, EditsItem
  <1> QED
    BY <1>1, <1>2 DEF Programs

LEMMA NoneTaken == \A p : Taken(p, 1) = {}
  BY DEF Taken

LEMMA OneMoreTaken ==
    ASSUME NEW p, NEW n \in Nat \ {0}
    PROVE  Taken(p, n + 1) = Taken(p, n) \cup {Programs[p][n]}
  <1>1 1..(n + 1 - 1) = 1..(n - 1) \cup {n}
    OBVIOUS
  <1> QED
    BY <1>1 DEF Taken

LEMMA LocksStart == LocksInit => LocksInv
  BY RowLocksAssumption
  DEF LocksInit, LocksInv, LocksTypeOK, HeldAsListed, NoConflict, InTransaction

\* A session goes on with a transaction, or is between two.
LEMMA OneSession ==
    ASSUME LocksInv, NEW t \in Transactions,
           program' = [program EXCEPT ![t] = program'[t]],
           next' = [next EXCEPT ![t] = next'[t]], held' = [held EXCEPT ![t] = held'[t]],
           begun' \in 0..MaxCommits, program'[t] \in DOMAIN Programs \cup {NoProgram},
           program'[t] # NoProgram => next'[t] \in 1..(Len(Programs[program'[t]]) + 1),
           held'[t] = IF program'[t] = NoProgram THEN {} ELSE Taken(program'[t], next'[t]),
           \A a \in held'[t] : \/ a \in held[t]
                               \/ \A u \in Transactions \ {t} : \A b \in held[u] :
                                      a[1] = b[1] => ~ModesConflict(a[2], b[2])
    PROVE  LocksInv'
  <1>1 /\ program' = [i \in Transactions |-> program'[i]]
       /\ \A i \in Transactions \ {t} : program'[i] = program[i]
    BY DEF LocksInv
  <1>2 /\ next' = [i \in Transactions |-> next'[i]]
       /\ \A i \in Transactions \ {t} : next'[i] = next[i]
    BY DEF LocksInv
  <1>3 /\ held' = [i \in Transactions |-> held'[i]]
       /\ \A i \in Transactions \ {t} : held'[i] = held[i]
    BY DEF LocksInv
  <1>4 LocksTypeOK'
    BY <1>1, <1>2 DEF LocksInv, LocksTypeOK
  <1>5 HeldAsListed'
    <2> SUFFICES ASSUME NEW v \in Transactions
                 PROVE  held'[v] = IF program'[v] # NoProgram
                                   THEN Taken(program'[v], next'[v]) ELSE {}
      BY DEF HeldAsListed, InTransaction, Taken
    <2>1 CASE v = t
      BY <1>1, <1>2, <1>3, <2>1
    <2>2 CASE v # t
      BY <1>1, <1>2, <1>3, <2>2 DEF LocksInv, HeldAsListed, InTransaction
    <2> QED
      BY <2>1, <2>2
  <1>6 NoConflict'
    <2> SUFFICES ASSUME NEW v \in Transactions, NEW u \in Transactions \ {v},
                        NEW a \in held'[v], NEW b \in held'[u], a[1] = b[1]
                 PROVE  ~ModesConflict(a[2], b[2])
      BY DEF NoConflict
    <2>1 CASE v # t /\ u # t
      BY <1>3, <2>1 DEF LocksInv, NoConflict
    <2>2 CASE v = t
      BY <1>3, <2>2 DEF LocksInv, NoConflict
    <2>3 CASE u = t
      <3>1 v # t /\ a \in held[v] /\ b \in held'[t]
        BY <1>3, <2>3
      <3>2 CASE b \in held[t]
        BY <2>3, <3>1, <3>2 DEF LocksInv, NoConflict
      <3>3 CASE b \notin held[t]
        <4>1 v \in Transactions \ {t}
          BY <3>1
        <4>2 ~ModesConflict(b[2], a[2])
          BY <3>1, <3>3, <4>1
        <4> QED
          BY <4>2 DEF ModesConflict
      <3> QED
        BY <3>2, <3>3
    <2> QED
      BY <2>1, <2>2, <2>3
  <1> QED
    BY <1>1, <1>2, <1>3, <1>4, <1>5, <1>6 DEF LocksInv

LEMMA LocksStep == LocksInv /\ LocksNext => LocksInv'
  <1> SUFFICES ASSUME LocksInv, NEW t \in Transactions,
                      \/ \E p \in DOMAIN Programs : BeginTransaction(t, p)
                      \/ LockRow(t) \/ EndTransaction(t) \/ AbortVictim(t)
               PROVE  LocksInv'
    BY DEF LocksNext
  <1>1 begun \in 0..MaxCommits /\ MaxCommits \in Nat
    BY RowLocksAssumption DEF LocksInv, LocksTypeOK
  <1>2 ASSUME NEW p \in DOMAIN Programs, BeginTransaction(t, p) PROVE LocksInv'
    <2>1 begun' \in 0..MaxCommits /\ 1 \in 1..(Len(Programs[p]) + 1)
      BY <1>1, <1>2, ProgramsAreFinite DEF BeginTransaction
    <2>2 held[t] = {} /\ held' = [held EXCEPT ![t] = held'[t]] /\ held'[t] = {}
      BY <1>2 DEF BeginTransaction, LocksInv, HeldAsListed
    <2>3 /\ program' = [program EXCEPT ![t] = program'[t]] /\ program'[t] = p
         /\ next' = [next EXCEPT ![t] = next'[t]] /\ next'[t] = 1
      BY <1>2 DEF BeginTransaction, LocksInv
    <2> QED
      BY <2>1, <2>2, <2>3, NoneTaken, OneSession
  <1>3 CASE LockRow(t)
    <2> DEFINE p == program[t]
               n == next[t]
               h == held[t] \cup {Wanted(t)}
    <2>1 p \in DOMAIN Programs /\ p # NoProgram /\ n \in 1..(Len(Programs[p]) + 1) /\ n <= Len(Programs[p])
      BY <1>3 DEF LockRow, HasStatement, InTransaction, LocksInv, LocksTypeOK
    <2>2 n + 1 \in 1..(Len(Programs[p]) + 1) /\ n \in Nat
      BY <2>1, ProgramsAreFinite
    <2>3 /\ program' = [program EXCEPT ![t] = program'[t]] /\ program'[t] = p
         /\ next' = [next EXCEPT ![t] = next'[t]] /\ next'[t] = n + 1
         /\ held' = [held EXCEPT ![t] = held'[t]] /\ held'[t] = h /\ begun' = begun
      BY <1>3 DEF LockRow, LocksInv
    <2>4 held[t] = Taken(p, n) /\ Wanted(t) = Programs[p][n]
      BY <2>1 DEF LocksInv, HeldAsListed, InTransaction, Wanted
    <2>5 h = Taken(p, n + 1)
      <3>1 n \in Nat \ {0}
        BY <2>1, ProgramsAreFinite
      <3>2 Taken(p, n + 1) = Taken(p, n) \cup {Programs[p][n]}
        BY <3>1, OneMoreTaken
      <3> QED
        BY <2>4, <3>2
    <2>6 ASSUME NEW u \in Transactions \ {t}, NEW b \in held[u], Wanted(t)[1] = b[1]
         PROVE  ~ModesConflict(Wanted(t)[2], b[2])
      BY <1>3, <2>6 DEF LockRow, WaitsFor, ModesConflict
    <2>7 \A a \in h : a \in held[t] \/ a = Wanted(t)
      OBVIOUS
    <2> HIDE DEF h, p, n
    <2>8 \A a \in h : \/ a \in held[t]
                      \/ \A u \in Transactions \ {t} : \A b \in held[u] :
                             a[1] = b[1] => ~ModesConflict(a[2], b[2])
      BY <2>6, <2>7
    <2>9 begun' \in 0..MaxCommits /\ h = IF p = NoProgram THEN {} ELSE Taken(p, n + 1)
      BY <1>1, <2>1, <2>3, <2>5
    <2> QED
      BY <2>1, <2>2, <2>3, <2>8, <2>9, OneSession
  <1>4 ASSUME LetGo(t) PROVE LocksInv'
    <2>1 /\ program' = [program EXCEPT ![t] = program'[t]] /\ program'[t] = NoProgram
         /\ next' = [next EXCEPT ![t] = next'[t]]
         /\ held' = [held EXCEPT ![t] = held'[t]] /\ held'[t] = {} /\ begun' \in 0..MaxCommits
      BY <1>1, <1>4 DEF LetGo, LocksInv
    <2> QED
      BY <2>1, OneSession
  <1> QED
    BY <1>2, <1>3, <1>4 DEF EndTransaction, AbortVictim

LEMMA LocksStutter == LocksInv /\ UNCHANGED lockVars => LocksInv'
  BY DEF LocksInv, LocksTypeOK, HeldAsListed, NoConflict, InTransaction, lockVars

-----------------------------------------------------------------------------
(* Who waits for whom: a session in a circle holds what it has locked so far *)
(* and wants one more row.                                                   *)

At(t, p, n) == HasStatement(t) /\ program[t] = p /\ next[t] = n

\* Only those hold a lock on a row and want another one.
HoldsFrom(u, lock) ==
    /\ lock[1] = "run" => At(u, "pause", 3)
    /\ lock[1] = "handoff" =>
          \/ At(u, "guard_pauses", 3) \/ At(u, "request_links", 3) \/ At(u, "resolve", 2)
          \/ At(u, "draft", 2)
    /\ lock[1] = "advisory lock" => At(u, "guard_sends", 3) \/ At(u, "guard_sends", 4)
    /\ lock[1] = "run key" =>
          At(u, "guard_sends", 4) \/ At(u, "record", 2) \/ At(u, "record", 3)
    /\ lock[1] = "human key" => At(u, "reply", 2) \/ At(u, "reply", 3)
    /\ lock[1] \in {"item 1", "item 2"} =>
          \/ At(u, "extract", 2) \/ (At(u, "extract", 3) /\ lock[1] = "item 1")
          \/ At(u, "extract", 4) \/ At(u, "extract_back", 2)
          \/ (At(u, "extract_back", 3) /\ lock[1] = "item 2") \/ At(u, "extract_back", 4)
    /\ lock[1] = "conversation" =>
          \/ /\ lock[2] = "update"
             /\ \/ At(u, "guard_pauses", 2) \/ At(u, "guard_pauses", 3)
                \/ At(u, "request_links", 2) \/ At(u, "request_links", 3)
                \/ At(u, "pause", 2) \/ At(u, "pause", 3) \/ At(u, "request_inserts", 2)
                \/ At(u, "guard_sends", 2) \/ At(u, "guard_sends", 3) \/ At(u, "guard_sends", 4)
          \/ /\ lock[2] = "key share"
             /\ \/ At(u, "reply", 3) \/ At(u, "message", 2) \/ At(u, "record", 3)
                \/ At(u, "extract", 3) \/ At(u, "extract", 4)
                \/ At(u, "extract_back", 3) \/ At(u, "extract_back", 4)
LockedRows == {"conversation", "handoff", "run", "advisory lock", "run key", "human key",
               "item 1", "item 2"}

\* The statement of a session, and the locks it has by then.
LEMMA Statements ==
    ASSUME LocksInv, NEW t \in Transactions, HasStatement(t)
    PROVE  /\ Wanted(t)[1] \in LockedRows
           /\ \A lock \in held[t] : HoldsFrom(t, lock)
  <1>1 /\ program[t] \in DOMAIN Programs
       /\ next[t] \in 1..Len(Programs[program[t]])
       /\ Wanted(t) = Programs[program[t]][next[t]]
       /\ held[t] = Taken(program[t], next[t])
    BY ProgramsAreFinite
    DEF HasStatement, InTransaction, LocksInv, LocksTypeOK, HeldAsListed, Wanted
  <1>2 SUFFICES ASSUME NEW i \in 1..next[t]
                PROVE  /\ i = next[t] => Wanted(t)[1] \in LockedRows
                       /\ i < next[t] => HoldsFrom(t, Programs[program[t]][i])
    BY <1>1, ProgramsAreFinite DEF Taken
  <1>3 CASE program[t] = "guard_pauses"
    <2>1 Programs[program[t]] = GuardPauses
      BY <1>3 DEF Programs
    <2>2 Len(GuardPauses) = 3
      BY DEF GuardPauses, ForUpdate
    <2>3 Len(Programs[program[t]]) = 3
      BY <2>1, <2>2
    <2>4 /\ GuardPauses[1][1] = "conversation" /\ GuardPauses[1][2] = "update"
         /\ GuardPauses[2][1] = "handoff" /\ GuardPauses[2][2] = "update"
         /\ GuardPauses[3][1] = "run" /\ GuardPauses[3][2] = "update"
      BY DEF GuardPauses, ForUpdate
    <2>5 /\ i = 1 \/ i = 2 \/ i = 3
         /\ i = 1 /\ i < next[t] => At(t, "guard_pauses", 2) \/ At(t, "guard_pauses", 3)
         /\ i = 2 /\ i < next[t] => At(t, "guard_pauses", 3)
         /\ i = 3 => ~(i < next[t])
      BY <1>1, <1>3, <2>3 DEF At
    <2>6 CASE i = 1
      BY <1>1, <2>1, <2>4, <2>5, <2>6 DEF HoldsFrom, LockedRows
    <2>7 CASE i = 2
      BY <1>1, <2>1, <2>4, <2>5, <2>7 DEF HoldsFrom, LockedRows
    <2>8 CASE i = 3
      BY <1>1, <2>1, <2>4, <2>5, <2>8 DEF HoldsFrom, LockedRows
    <2> QED
      BY <2>5, <2>6, <2>7, <2>8
  <1>4 CASE program[t] = "guard_sends"
    <2>1 Programs[program[t]] = GuardSends
      BY <1>4 DEF Programs
    <2>2 Len(GuardSends) = 4
      BY DEF GuardSends, ForUpdate, Updates
    <2>3 Len(Programs[program[t]]) = 4
      BY <2>1, <2>2
    <2>4 /\ GuardSends[1][1] = "conversation" /\ GuardSends[1][2] = "update"
         /\ GuardSends[2][1] = "advisory lock" /\ GuardSends[2][2] = "update"
         /\ GuardSends[3][1] = "run key" /\ GuardSends[3][2] = "update"
         /\ GuardSends[4][1] = "conversation" /\ GuardSends[4][2] = "no key update"
      BY DEF GuardSends, ForUpdate, Updates
    <2>5 /\ i = 1 \/ i = 2 \/ i = 3 \/ i = 4
         /\ i = 1 /\ i < next[t] => At(t, "guard_sends", 2) \/ At(t, "guard_sends", 3) \/ At(t, "guard_sends", 4)
         /\ i = 2 /\ i < next[t] => At(t, "guard_sends", 3) \/ At(t, "guard_sends", 4)
         /\ i = 3 /\ i < next[t] => At(t, "guard_sends", 4)
         /\ i = 4 => ~(i < next[t])
      BY <1>1, <1>4, <2>3 DEF At
    <2>6 CASE i = 1
      BY <1>1, <2>1, <2>4, <2>5, <2>6 DEF HoldsFrom, LockedRows
    <2>7 CASE i = 2
      BY <1>1, <2>1, <2>4, <2>5, <2>7 DEF HoldsFrom, LockedRows
    <2>8 CASE i = 3
      BY <1>1, <2>1, <2>4, <2>5, <2>8 DEF HoldsFrom, LockedRows
    <2>9 CASE i = 4
      BY <1>1, <2>1, <2>4, <2>5, <2>9 DEF HoldsFrom, LockedRows
    <2> QED
      BY <2>5, <2>6, <2>7, <2>8, <2>9
  <1>5 CASE program[t] = "pause"
    <2>1 Programs[program[t]] = PausesRun
      BY <1>5 DEF Programs
    <2>2 Len(PausesRun) = 3
      BY DEF PausesRun, ForUpdate
    <2>3 Len(Programs[program[t]]) = 3
      BY <2>1, <2>2
    <2>4 /\ PausesRun[1][1] = "conversation" /\ PausesRun[1][2] = "update"
         /\ PausesRun[2][1] = "run" /\ PausesRun[2][2] = "update"
         /\ PausesRun[3][1] = "handoff" /\ PausesRun[3][2] = "update"
      BY DEF PausesRun, ForUpdate
    <2>5 /\ i = 1 \/ i = 2 \/ i = 3
         /\ i = 1 /\ i < next[t] => At(t, "pause", 2) \/ At(t, "pause", 3)
         /\ i = 2 /\ i < next[t] => At(t, "pause", 3)
         /\ i = 3 => ~(i < next[t])
      BY <1>1, <1>5, <2>3 DEF At
    <2>6 CASE i = 1
      BY <1>1, <2>1, <2>4, <2>5, <2>6 DEF HoldsFrom, LockedRows
    <2>7 CASE i = 2
      BY <1>1, <2>1, <2>4, <2>5, <2>7 DEF HoldsFrom, LockedRows
    <2>8 CASE i = 3
      BY <1>1, <2>1, <2>4, <2>5, <2>8 DEF HoldsFrom, LockedRows
    <2> QED
      BY <2>5, <2>6, <2>7, <2>8
  <1>6 CASE program[t] = "request_links"
    <2>1 Programs[program[t]] = LinksHandoff
      BY <1>6 DEF Programs
    <2>2 Len(LinksHandoff) = 3
      BY DEF LinksHandoff, ForUpdate, KeyShare
    <2>3 Len(Programs[program[t]]) = 3
      BY <2>1, <2>2
    <2>4 /\ LinksHandoff[1][1] = "conversation" /\ LinksHandoff[1][2] = "update"
         /\ LinksHandoff[2][1] = "handoff" /\ LinksHandoff[2][2] = "update"
         /\ LinksHandoff[3][1] = "run" /\ LinksHandoff[3][2] = "key share"
      BY DEF LinksHandoff, ForUpdate, KeyShare
    <2>5 /\ i = 1 \/ i = 2 \/ i = 3
         /\ i = 1 /\ i < next[t] => At(t, "request_links", 2) \/ At(t, "request_links", 3)
         /\ i = 2 /\ i < next[t] => At(t, "request_links", 3)
         /\ i = 3 => ~(i < next[t])
      BY <1>1, <1>6, <2>3 DEF At
    <2>6 CASE i = 1
      BY <1>1, <2>1, <2>4, <2>5, <2>6 DEF HoldsFrom, LockedRows
    <2>7 CASE i = 2
      BY <1>1, <2>1, <2>4, <2>5, <2>7 DEF HoldsFrom, LockedRows
    <2>8 CASE i = 3
      BY <1>1, <2>1, <2>4, <2>5, <2>8 DEF HoldsFrom, LockedRows
    <2> QED
      BY <2>5, <2>6, <2>7, <2>8
  <1>7 CASE program[t] = "request_inserts"
    <2>1 Programs[program[t]] = InsertsHandoff
      BY <1>7 DEF Programs
    <2>2 Len(InsertsHandoff) = 2
      BY DEF InsertsHandoff, ForUpdate, KeyShare
    <2>3 Len(Programs[program[t]]) = 2
      BY <2>1, <2>2
    <2>4 /\ InsertsHandoff[1][1] = "conversation" /\ InsertsHandoff[1][2] = "update"
         /\ InsertsHandoff[2][1] = "run" /\ InsertsHandoff[2][2] = "key share"
      BY DEF InsertsHandoff, ForUpdate, KeyShare
    <2>5 /\ i = 1 \/ i = 2
         /\ i = 1 /\ i < next[t] => At(t, "request_inserts", 2)
         /\ i = 2 => ~(i < next[t])
      BY <1>1, <1>7, <2>3 DEF At
    <2>6 CASE i = 1
      BY <1>1, <2>1, <2>4, <2>5, <2>6 DEF HoldsFrom, LockedRows
    <2>7 CASE i = 2
      BY <1>1, <2>1, <2>4, <2>5, <2>7 DEF HoldsFrom, LockedRows
    <2> QED
      BY <2>5, <2>6, <2>7
  <1>8 CASE program[t] = "claim"
    <2>1 Programs[program[t]] = ClaimsHandoff
      BY <1>8 DEF Programs
    <2>2 Len(ClaimsHandoff) = 1
      BY DEF ClaimsHandoff, ForUpdate
    <2>3 Len(Programs[program[t]]) = 1
      BY <2>1, <2>2
    <2>4 /\ ClaimsHandoff[1][1] = "handoff" /\ ClaimsHandoff[1][2] = "update"
      BY DEF ClaimsHandoff, ForUpdate
    <2>5 /\ i = 1
         /\ i = 1 => ~(i < next[t])
      BY <1>1, <1>8, <2>3 DEF At
    <2>6 CASE i = 1
      BY <1>1, <2>1, <2>4, <2>5, <2>6 DEF HoldsFrom, LockedRows
    <2> QED
      BY <2>5, <2>6
  <1>9 CASE program[t] = "resolve"
    <2>1 Programs[program[t]] = ResolvesHandoff
      BY <1>9 DEF Programs
    <2>2 Len(ResolvesHandoff) = 2
      BY DEF ResolvesHandoff, ForUpdate
    <2>3 Len(Programs[program[t]]) = 2
      BY <2>1, <2>2
    <2>4 /\ ResolvesHandoff[1][1] = "handoff" /\ ResolvesHandoff[1][2] = "update"
         /\ ResolvesHandoff[2][1] = "run" /\ ResolvesHandoff[2][2] = "update"
      BY DEF ResolvesHandoff, ForUpdate
    <2>5 /\ i = 1 \/ i = 2
         /\ i = 1 /\ i < next[t] => At(t, "resolve", 2)
         /\ i = 2 => ~(i < next[t])
      BY <1>1, <1>9, <2>3 DEF At
    <2>6 CASE i = 1
      BY <1>1, <2>1, <2>4, <2>5, <2>6 DEF HoldsFrom, LockedRows
    <2>7 CASE i = 2
      BY <1>1, <2>1, <2>4, <2>5, <2>7 DEF HoldsFrom, LockedRows
    <2> QED
      BY <2>5, <2>6, <2>7
  <1>10 CASE program[t] = "resume"
    <2>1 Programs[program[t]] = ResumesAgain
      BY <1>10 DEF Programs
    <2>2 Len(ResumesAgain) = 1
      BY DEF ResumesAgain, ForUpdate
    <2>3 Len(Programs[program[t]]) = 1
      BY <2>1, <2>2
    <2>4 /\ ResumesAgain[1][1] = "run" /\ ResumesAgain[1][2] = "update"
      BY DEF ResumesAgain, ForUpdate
    <2>5 /\ i = 1
         /\ i = 1 => ~(i < next[t])
      BY <1>1, <1>10, <2>3 DEF At
    <2>6 CASE i = 1
      BY <1>1, <2>1, <2>4, <2>5, <2>6 DEF HoldsFrom, LockedRows
    <2> QED
      BY <2>5, <2>6
  <1>11 CASE program[t] = "reply"
    <2>1 Programs[program[t]] = RepliesByHand
      BY <1>11 DEF Programs
    <2>2 Len(RepliesByHand) = 3
      BY DEF RepliesByHand, ForUpdate, KeyShare, Updates
    <2>3 Len(Programs[program[t]]) = 3
      BY <2>1, <2>2
    <2>4 /\ RepliesByHand[1][1] = "human key" /\ RepliesByHand[1][2] = "update"
         /\ RepliesByHand[2][1] = "conversation" /\ RepliesByHand[2][2] = "key share"
         /\ RepliesByHand[3][1] = "conversation" /\ RepliesByHand[3][2] = "no key update"
      BY DEF RepliesByHand, ForUpdate, KeyShare, Updates
    <2>5 /\ i = 1 \/ i = 2 \/ i = 3
         /\ i = 1 /\ i < next[t] => At(t, "reply", 2) \/ At(t, "reply", 3)
         /\ i = 2 /\ i < next[t] => At(t, "reply", 3)
         /\ i = 3 => ~(i < next[t])
      BY <1>1, <1>11, <2>3 DEF At
    <2>6 CASE i = 1
      BY <1>1, <2>1, <2>4, <2>5, <2>6 DEF HoldsFrom, LockedRows
    <2>7 CASE i = 2
      BY <1>1, <2>1, <2>4, <2>5, <2>7 DEF HoldsFrom, LockedRows
    <2>8 CASE i = 3
      BY <1>1, <2>1, <2>4, <2>5, <2>8 DEF HoldsFrom, LockedRows
    <2> QED
      BY <2>5, <2>6, <2>7, <2>8
  <1>12 CASE program[t] = "message"
    <2>1 Programs[program[t]] = WritesMessage
      BY <1>12 DEF Programs
    <2>2 Len(WritesMessage) = 2
      BY DEF WritesMessage, KeyShare, Updates
    <2>3 Len(Programs[program[t]]) = 2
      BY <2>1, <2>2
    <2>4 /\ WritesMessage[1][1] = "conversation" /\ WritesMessage[1][2] = "key share"
         /\ WritesMessage[2][1] = "conversation" /\ WritesMessage[2][2] = "no key update"
      BY DEF WritesMessage, KeyShare, Updates
    <2>5 /\ i = 1 \/ i = 2
         /\ i = 1 /\ i < next[t] => At(t, "message", 2)
         /\ i = 2 => ~(i < next[t])
      BY <1>1, <1>12, <2>3 DEF At
    <2>6 CASE i = 1
      BY <1>1, <2>1, <2>4, <2>5, <2>6 DEF HoldsFrom, LockedRows
    <2>7 CASE i = 2
      BY <1>1, <2>1, <2>4, <2>5, <2>7 DEF HoldsFrom, LockedRows
    <2> QED
      BY <2>5, <2>6, <2>7
  <1>13 CASE program[t] = "record"
    <2>1 Programs[program[t]] = RecordsAnswer
      BY <1>13 DEF Programs
    <2>2 Len(RecordsAnswer) = 3
      BY DEF RecordsAnswer, ForUpdate, KeyShare, Updates
    <2>3 Len(Programs[program[t]]) = 3
      BY <2>1, <2>2
    <2>4 /\ RecordsAnswer[1][1] = "run key" /\ RecordsAnswer[1][2] = "update"
         /\ RecordsAnswer[2][1] = "conversation" /\ RecordsAnswer[2][2] = "key share"
         /\ RecordsAnswer[3][1] = "conversation" /\ RecordsAnswer[3][2] = "no key update"
      BY DEF RecordsAnswer, ForUpdate, KeyShare, Updates
    <2>5 /\ i = 1 \/ i = 2 \/ i = 3
         /\ i = 1 /\ i < next[t] => At(t, "record", 2) \/ At(t, "record", 3)
         /\ i = 2 /\ i < next[t] => At(t, "record", 3)
         /\ i = 3 => ~(i < next[t])
      BY <1>1, <1>13, <2>3 DEF At
    <2>6 CASE i = 1
      BY <1>1, <2>1, <2>4, <2>5, <2>6 DEF HoldsFrom, LockedRows
    <2>7 CASE i = 2
      BY <1>1, <2>1, <2>4, <2>5, <2>7 DEF HoldsFrom, LockedRows
    <2>8 CASE i = 3
      BY <1>1, <2>1, <2>4, <2>5, <2>8 DEF HoldsFrom, LockedRows
    <2> QED
      BY <2>5, <2>6, <2>7, <2>8
  <1>14 CASE program[t] = "draft"
    <2>1 Programs[program[t]] = DraftsReply
      BY <1>14 DEF Programs
    <2>2 Len(DraftsReply) = 2
      BY DEF DraftsReply, KeyShare
    <2>3 Len(Programs[program[t]]) = 2
      BY <2>1, <2>2
    <2>4 /\ DraftsReply[1][1] = "handoff" /\ DraftsReply[1][2] = "key share"
         /\ DraftsReply[2][1] = "conversation" /\ DraftsReply[2][2] = "key share"
      BY DEF DraftsReply, KeyShare
    <2>5 /\ i = 1 \/ i = 2
         /\ i = 1 /\ i < next[t] => At(t, "draft", 2)
         /\ i = 2 => ~(i < next[t])
      BY <1>1, <1>14, <2>3 DEF At
    <2>6 CASE i = 1
      BY <1>1, <2>1, <2>4, <2>5, <2>6 DEF HoldsFrom, LockedRows
    <2>7 CASE i = 2
      BY <1>1, <2>1, <2>4, <2>5, <2>7 DEF HoldsFrom, LockedRows
    <2> QED
      BY <2>5, <2>6, <2>7
  <1>15 CASE program[t] = "new_run"
    <2>1 Programs[program[t]] = InsertsRun
      BY <1>15 DEF Programs
    <2>2 Len(InsertsRun) = 1
      BY DEF InsertsRun, KeyShare
    <2>3 Len(Programs[program[t]]) = 1
      BY <2>1, <2>2
    <2>4 /\ InsertsRun[1][1] = "conversation" /\ InsertsRun[1][2] = "key share"
      BY DEF InsertsRun, KeyShare
    <2>5 /\ i = 1
         /\ i = 1 => ~(i < next[t])
      BY <1>1, <1>15, <2>3 DEF At
    <2>6 CASE i = 1
      BY <1>1, <2>1, <2>4, <2>5, <2>6 DEF HoldsFrom, LockedRows
    <2> QED
      BY <2>5, <2>6
  <1>16 CASE program[t] = "run"
    <2>1 Programs[program[t]] = UpdatesRun
      BY <1>16 DEF Programs
    <2>2 Len(UpdatesRun) = 1
      BY DEF UpdatesRun, Updates
    <2>3 Len(Programs[program[t]]) = 1
      BY <2>1, <2>2
    <2>4 /\ UpdatesRun[1][1] = "run" /\ UpdatesRun[1][2] = "no key update"
      BY DEF UpdatesRun, Updates
    <2>5 /\ i = 1
         /\ i = 1 => ~(i < next[t])
      BY <1>1, <1>16, <2>3 DEF At
    <2>6 CASE i = 1
      BY <1>1, <2>1, <2>4, <2>5, <2>6 DEF HoldsFrom, LockedRows
    <2> QED
      BY <2>5, <2>6
  <1>17 CASE program[t] = "extract"
    <2>1 Programs[program[t]] = Extracts
      BY <1>17 DEF Programs
    <2>2 Len(Extracts) = 4
      BY DEF Extracts, KeyShare, Updates
    <2>3 Len(Programs[program[t]]) = 4
      BY <2>1, <2>2
    <2>4 /\ Extracts[1][1] = "item 1" /\ Extracts[1][2] = "no key update"
         /\ Extracts[2][1] = "conversation" /\ Extracts[2][2] = "key share"
         /\ Extracts[3][1] = "item 2" /\ Extracts[3][2] = "no key update"
         /\ Extracts[4][1] = "conversation" /\ Extracts[4][2] = "key share"
      BY DEF Extracts, KeyShare, Updates
    <2>5 /\ i = 1 \/ i = 2 \/ i = 3 \/ i = 4
         /\ i = 1 /\ i < next[t] => At(t, "extract", 2) \/ At(t, "extract", 3) \/ At(t, "extract", 4)
         /\ i = 2 /\ i < next[t] => At(t, "extract", 3) \/ At(t, "extract", 4)
         /\ i = 3 /\ i < next[t] => At(t, "extract", 4)
         /\ i = 4 => ~(i < next[t])
      BY <1>1, <1>17, <2>3 DEF At
    <2>6 CASE i = 1
      BY <1>1, <2>1, <2>4, <2>5, <2>6 DEF HoldsFrom, LockedRows
    <2>7 CASE i = 2
      BY <1>1, <2>1, <2>4, <2>5, <2>7 DEF HoldsFrom, LockedRows
    <2>8 CASE i = 3
      BY <1>1, <2>1, <2>4, <2>5, <2>8 DEF HoldsFrom, LockedRows
    <2>9 CASE i = 4
      BY <1>1, <2>1, <2>4, <2>5, <2>9 DEF HoldsFrom, LockedRows
    <2> QED
      BY <2>5, <2>6, <2>7, <2>8, <2>9
  <1>18 CASE program[t] = "extract_back"
    <2>1 Programs[program[t]] = ExtractsBack
      BY <1>18 DEF Programs
    <2>2 Len(ExtractsBack) = 4
      BY DEF ExtractsBack, KeyShare, Updates
    <2>3 Len(Programs[program[t]]) = 4
      BY <2>1, <2>2
    <2>4 /\ ExtractsBack[1][1] = "item 2" /\ ExtractsBack[1][2] = "no key update"
         /\ ExtractsBack[2][1] = "conversation" /\ ExtractsBack[2][2] = "key share"
         /\ ExtractsBack[3][1] = "item 1" /\ ExtractsBack[3][2] = "no key update"
         /\ ExtractsBack[4][1] = "conversation" /\ ExtractsBack[4][2] = "key share"
      BY DEF ExtractsBack, KeyShare, Updates
    <2>5 /\ i = 1 \/ i = 2 \/ i = 3 \/ i = 4
         /\ i = 1 /\ i < next[t] => At(t, "extract_back", 2) \/ At(t, "extract_back", 3) \/ At(t, "extract_back", 4)
         /\ i = 2 /\ i < next[t] => At(t, "extract_back", 3) \/ At(t, "extract_back", 4)
         /\ i = 3 /\ i < next[t] => At(t, "extract_back", 4)
         /\ i = 4 => ~(i < next[t])
      BY <1>1, <1>18, <2>3 DEF At
    <2>6 CASE i = 1
      BY <1>1, <2>1, <2>4, <2>5, <2>6 DEF HoldsFrom, LockedRows
    <2>7 CASE i = 2
      BY <1>1, <2>1, <2>4, <2>5, <2>7 DEF HoldsFrom, LockedRows
    <2>8 CASE i = 3
      BY <1>1, <2>1, <2>4, <2>5, <2>8 DEF HoldsFrom, LockedRows
    <2>9 CASE i = 4
      BY <1>1, <2>1, <2>4, <2>5, <2>9 DEF HoldsFrom, LockedRows
    <2> QED
      BY <2>5, <2>6, <2>7, <2>8, <2>9
  <1>19 CASE program[t] = "edit_item"
    <2>1 Programs[program[t]] = EditsItem
      BY <1>19 DEF Programs
    <2>2 Len(EditsItem) = 1
      BY DEF EditsItem, Updates
    <2>3 Len(Programs[program[t]]) = 1
      BY <2>1, <2>2
    <2>4 /\ EditsItem[1][1] = "item 1" /\ EditsItem[1][2] = "no key update"
      BY DEF EditsItem, Updates
    <2>5 /\ i = 1
         /\ i = 1 => ~(i < next[t])
      BY <1>1, <1>19, <2>3 DEF At
    <2>6 CASE i = 1
      BY <1>1, <2>1, <2>4, <2>5, <2>6 DEF HoldsFrom, LockedRows
    <2> QED
      BY <2>5, <2>6
  <1> QED
    BY <1>1, <1>3, <1>4, <1>5, <1>6, <1>7, <1>8, <1>9, <1>10, <1>11, <1>12, <1>13, <1>14,
       <1>15, <1>16, <1>17, <1>18, <1>19
    DEF Programs

HasLock(t, row, mode) == \E lock \in held[t] : lock[1] = row /\ lock[2] = mode

\* The statement at a place of a transaction, and the statements before it.
LEMMA AtStatement ==
    ASSUME LocksInv, NEW t \in Transactions, NEW p, NEW n, At(t, p, n)
    PROVE  held[t] = Taken(p, n) /\ Wanted(t) = Programs[p][n]
  BY DEF At, HasStatement, InTransaction, LocksInv, HeldAsListed, Wanted

\* The locks by which a session blocks another one.
LEMMA Holders ==
    ASSUME LocksInv, NEW t \in Transactions
    PROVE  /\ (\/ At(t, "guard_pauses", 2) \/ At(t, "guard_pauses", 3)
               \/ At(t, "request_links", 2) \/ At(t, "request_links", 3)
               \/ At(t, "pause", 3) \/ At(t, "guard_sends", 3)
               \/ At(t, "guard_sends", 4)) =>
                  HasLock(t, "conversation", "update")
           /\ At(t, "pause", 3) =>
                  HasLock(t, "run", "update")
           /\ At(t, "record", 3) =>
                  HasLock(t, "conversation", "key share")
           /\ At(t, "extract", 3) =>
                  HasLock(t, "item 1", "no key update")
           /\ At(t, "extract_back", 3) =>
                  HasLock(t, "item 2", "no key update")
  <1>1 ASSUME At(t, "guard_pauses", 2) PROVE HasLock(t, "conversation", "update")
    <2>1 Programs["guard_pauses"] = GuardPauses
      BY DEF Programs
    <2>2 GuardPauses[1][1] = "conversation" /\ GuardPauses[1][2] = "update"
      BY DEF GuardPauses, ForUpdate
    <2>3 GuardPauses[1] \in held[t]
      BY <1>1, <2>1, AtStatement DEF Taken
    <2> QED
      BY <2>2, <2>3 DEF HasLock
  <1>2 ASSUME At(t, "guard_pauses", 3) PROVE HasLock(t, "conversation", "update")
    <2>1 Programs["guard_pauses"] = GuardPauses
      BY DEF Programs
    <2>2 GuardPauses[1][1] = "conversation" /\ GuardPauses[1][2] = "update"
      BY DEF GuardPauses, ForUpdate
    <2>3 GuardPauses[1] \in held[t]
      BY <1>2, <2>1, AtStatement DEF Taken
    <2> QED
      BY <2>2, <2>3 DEF HasLock
  <1>3 ASSUME At(t, "request_links", 2) PROVE HasLock(t, "conversation", "update")
    <2>1 Programs["request_links"] = LinksHandoff
      BY DEF Programs
    <2>2 LinksHandoff[1][1] = "conversation" /\ LinksHandoff[1][2] = "update"
      BY DEF LinksHandoff, ForUpdate, KeyShare
    <2>3 LinksHandoff[1] \in held[t]
      BY <1>3, <2>1, AtStatement DEF Taken
    <2> QED
      BY <2>2, <2>3 DEF HasLock
  <1>4 ASSUME At(t, "request_links", 3) PROVE HasLock(t, "conversation", "update")
    <2>1 Programs["request_links"] = LinksHandoff
      BY DEF Programs
    <2>2 LinksHandoff[1][1] = "conversation" /\ LinksHandoff[1][2] = "update"
      BY DEF LinksHandoff, ForUpdate, KeyShare
    <2>3 LinksHandoff[1] \in held[t]
      BY <1>4, <2>1, AtStatement DEF Taken
    <2> QED
      BY <2>2, <2>3 DEF HasLock
  <1>5 ASSUME At(t, "pause", 3) PROVE HasLock(t, "conversation", "update")
    <2>1 Programs["pause"] = PausesRun
      BY DEF Programs
    <2>2 PausesRun[1][1] = "conversation" /\ PausesRun[1][2] = "update"
      BY DEF PausesRun, ForUpdate
    <2>3 PausesRun[1] \in held[t]
      BY <1>5, <2>1, AtStatement DEF Taken
    <2> QED
      BY <2>2, <2>3 DEF HasLock
  <1>6 ASSUME At(t, "guard_sends", 3) PROVE HasLock(t, "conversation", "update")
    <2>1 Programs["guard_sends"] = GuardSends
      BY DEF Programs
    <2>2 GuardSends[1][1] = "conversation" /\ GuardSends[1][2] = "update"
      BY DEF GuardSends, ForUpdate, Updates
    <2>3 GuardSends[1] \in held[t]
      BY <1>6, <2>1, AtStatement DEF Taken
    <2> QED
      BY <2>2, <2>3 DEF HasLock
  <1>7 ASSUME At(t, "guard_sends", 4) PROVE HasLock(t, "conversation", "update")
    <2>1 Programs["guard_sends"] = GuardSends
      BY DEF Programs
    <2>2 GuardSends[1][1] = "conversation" /\ GuardSends[1][2] = "update"
      BY DEF GuardSends, ForUpdate, Updates
    <2>3 GuardSends[1] \in held[t]
      BY <1>7, <2>1, AtStatement DEF Taken
    <2> QED
      BY <2>2, <2>3 DEF HasLock
  <1>8 ASSUME At(t, "pause", 3) PROVE HasLock(t, "run", "update")
    <2>1 Programs["pause"] = PausesRun
      BY DEF Programs
    <2>2 PausesRun[2][1] = "run" /\ PausesRun[2][2] = "update"
      BY DEF PausesRun, ForUpdate
    <2>3 PausesRun[2] \in held[t]
      BY <1>8, <2>1, AtStatement DEF Taken
    <2> QED
      BY <2>2, <2>3 DEF HasLock
  <1>9 ASSUME At(t, "record", 3) PROVE HasLock(t, "conversation", "key share")
    <2>1 Programs["record"] = RecordsAnswer
      BY DEF Programs
    <2>2 RecordsAnswer[2][1] = "conversation" /\ RecordsAnswer[2][2] = "key share"
      BY DEF RecordsAnswer, ForUpdate, KeyShare, Updates
    <2>3 RecordsAnswer[2] \in held[t]
      BY <1>9, <2>1, AtStatement DEF Taken
    <2> QED
      BY <2>2, <2>3 DEF HasLock
  <1>10 ASSUME At(t, "extract", 3) PROVE HasLock(t, "item 1", "no key update")
    <2>1 Programs["extract"] = Extracts
      BY DEF Programs
    <2>2 Extracts[1][1] = "item 1" /\ Extracts[1][2] = "no key update"
      BY DEF Extracts, KeyShare, Updates
    <2>3 Extracts[1] \in held[t]
      BY <1>10, <2>1, AtStatement DEF Taken
    <2> QED
      BY <2>2, <2>3 DEF HasLock
  <1>11 ASSUME At(t, "extract_back", 3) PROVE HasLock(t, "item 2", "no key update")
    <2>1 Programs["extract_back"] = ExtractsBack
      BY DEF Programs
    <2>2 ExtractsBack[1][1] = "item 2" /\ ExtractsBack[1][2] = "no key update"
      BY DEF ExtractsBack, KeyShare, Updates
    <2>3 ExtractsBack[1] \in held[t]
      BY <1>11, <2>1, AtStatement DEF Taken
    <2> QED
      BY <2>2, <2>3 DEF HasLock
  <1> QED
    BY <1>1, <1>2, <1>3, <1>4, <1>5, <1>6, <1>7, <1>8, <1>9, <1>10, <1>11

\* The locks for which a session waits that blocks another one.
LEMMA Seekers ==
    ASSUME LocksInv, NEW t \in Transactions
    PROVE  /\ (\/ At(t, "guard_pauses", 3) \/ At(t, "request_links", 3)
               \/ At(t, "pause", 2) \/ At(t, "request_inserts", 2)
               \/ At(t, "resolve", 2)) =>
                  Wanted(t)[1] = "run"
           /\ (\/ At(t, "guard_pauses", 2) \/ At(t, "request_links", 2)
               \/ At(t, "pause", 3)) =>
                  Wanted(t)[1] = "handoff"
           /\ At(t, "guard_sends", 2) =>
                  Wanted(t)[1] = "advisory lock"
           /\ At(t, "guard_sends", 3) =>
                  Wanted(t)[1] = "run key"
           /\ (\/ At(t, "guard_sends", 4) \/ At(t, "reply", 2)
               \/ At(t, "reply", 3) \/ At(t, "message", 2)
               \/ At(t, "record", 2) \/ At(t, "record", 3)
               \/ At(t, "draft", 2) \/ At(t, "extract", 2)
               \/ At(t, "extract", 4) \/ At(t, "extract_back", 2)
               \/ At(t, "extract_back", 4)) =>
                  Wanted(t)[1] = "conversation" /\ Wanted(t)[2] # "update"
           /\ At(t, "extract", 3) =>
                  Wanted(t)[1] = "item 2" /\ Wanted(t)[2] = "no key update"
           /\ At(t, "extract_back", 3) =>
                  Wanted(t)[1] = "item 1" /\ Wanted(t)[2] = "no key update"
  <1>1 ASSUME At(t, "guard_pauses", 3) PROVE Wanted(t)[1] = "run"
    <2>1 Programs["guard_pauses"] = GuardPauses
      BY DEF Programs
    <2>2 GuardPauses[3][1] = "run" /\ GuardPauses[3][2] = "update"
      BY DEF GuardPauses, ForUpdate
    <2>3 Wanted(t) = Programs["guard_pauses"][3]
      BY <1>1, AtStatement
    <2>4 Wanted(t) = GuardPauses[3]
      BY <2>1, <2>3
    <2> QED
      BY <2>2, <2>4
  <1>2 ASSUME At(t, "request_links", 3) PROVE Wanted(t)[1] = "run"
    <2>1 Programs["request_links"] = LinksHandoff
      BY DEF Programs
    <2>2 LinksHandoff[3][1] = "run" /\ LinksHandoff[3][2] = "key share"
      BY DEF LinksHandoff, ForUpdate, KeyShare
    <2>3 Wanted(t) = Programs["request_links"][3]
      BY <1>2, AtStatement
    <2>4 Wanted(t) = LinksHandoff[3]
      BY <2>1, <2>3
    <2> QED
      BY <2>2, <2>4
  <1>3 ASSUME At(t, "pause", 2) PROVE Wanted(t)[1] = "run"
    <2>1 Programs["pause"] = PausesRun
      BY DEF Programs
    <2>2 PausesRun[2][1] = "run" /\ PausesRun[2][2] = "update"
      BY DEF PausesRun, ForUpdate
    <2>3 Wanted(t) = Programs["pause"][2]
      BY <1>3, AtStatement
    <2>4 Wanted(t) = PausesRun[2]
      BY <2>1, <2>3
    <2> QED
      BY <2>2, <2>4
  <1>4 ASSUME At(t, "request_inserts", 2) PROVE Wanted(t)[1] = "run"
    <2>1 Programs["request_inserts"] = InsertsHandoff
      BY DEF Programs
    <2>2 InsertsHandoff[2][1] = "run" /\ InsertsHandoff[2][2] = "key share"
      BY DEF InsertsHandoff, ForUpdate, KeyShare
    <2>3 Wanted(t) = Programs["request_inserts"][2]
      BY <1>4, AtStatement
    <2>4 Wanted(t) = InsertsHandoff[2]
      BY <2>1, <2>3
    <2> QED
      BY <2>2, <2>4
  <1>5 ASSUME At(t, "resolve", 2) PROVE Wanted(t)[1] = "run"
    <2>1 Programs["resolve"] = ResolvesHandoff
      BY DEF Programs
    <2>2 ResolvesHandoff[2][1] = "run" /\ ResolvesHandoff[2][2] = "update"
      BY DEF ResolvesHandoff, ForUpdate
    <2>3 Wanted(t) = Programs["resolve"][2]
      BY <1>5, AtStatement
    <2>4 Wanted(t) = ResolvesHandoff[2]
      BY <2>1, <2>3
    <2> QED
      BY <2>2, <2>4
  <1>6 ASSUME At(t, "guard_pauses", 2) PROVE Wanted(t)[1] = "handoff"
    <2>1 Programs["guard_pauses"] = GuardPauses
      BY DEF Programs
    <2>2 GuardPauses[2][1] = "handoff" /\ GuardPauses[2][2] = "update"
      BY DEF GuardPauses, ForUpdate
    <2>3 Wanted(t) = Programs["guard_pauses"][2]
      BY <1>6, AtStatement
    <2>4 Wanted(t) = GuardPauses[2]
      BY <2>1, <2>3
    <2> QED
      BY <2>2, <2>4
  <1>7 ASSUME At(t, "request_links", 2) PROVE Wanted(t)[1] = "handoff"
    <2>1 Programs["request_links"] = LinksHandoff
      BY DEF Programs
    <2>2 LinksHandoff[2][1] = "handoff" /\ LinksHandoff[2][2] = "update"
      BY DEF LinksHandoff, ForUpdate, KeyShare
    <2>3 Wanted(t) = Programs["request_links"][2]
      BY <1>7, AtStatement
    <2>4 Wanted(t) = LinksHandoff[2]
      BY <2>1, <2>3
    <2> QED
      BY <2>2, <2>4
  <1>8 ASSUME At(t, "pause", 3) PROVE Wanted(t)[1] = "handoff"
    <2>1 Programs["pause"] = PausesRun
      BY DEF Programs
    <2>2 PausesRun[3][1] = "handoff" /\ PausesRun[3][2] = "update"
      BY DEF PausesRun, ForUpdate
    <2>3 Wanted(t) = Programs["pause"][3]
      BY <1>8, AtStatement
    <2>4 Wanted(t) = PausesRun[3]
      BY <2>1, <2>3
    <2> QED
      BY <2>2, <2>4
  <1>9 ASSUME At(t, "guard_sends", 2) PROVE Wanted(t)[1] = "advisory lock"
    <2>1 Programs["guard_sends"] = GuardSends
      BY DEF Programs
    <2>2 GuardSends[2][1] = "advisory lock" /\ GuardSends[2][2] = "update"
      BY DEF GuardSends, ForUpdate, Updates
    <2>3 Wanted(t) = Programs["guard_sends"][2]
      BY <1>9, AtStatement
    <2>4 Wanted(t) = GuardSends[2]
      BY <2>1, <2>3
    <2> QED
      BY <2>2, <2>4
  <1>10 ASSUME At(t, "guard_sends", 3) PROVE Wanted(t)[1] = "run key"
    <2>1 Programs["guard_sends"] = GuardSends
      BY DEF Programs
    <2>2 GuardSends[3][1] = "run key" /\ GuardSends[3][2] = "update"
      BY DEF GuardSends, ForUpdate, Updates
    <2>3 Wanted(t) = Programs["guard_sends"][3]
      BY <1>10, AtStatement
    <2>4 Wanted(t) = GuardSends[3]
      BY <2>1, <2>3
    <2> QED
      BY <2>2, <2>4
  <1>11 ASSUME At(t, "guard_sends", 4) PROVE Wanted(t)[1] = "conversation" /\ Wanted(t)[2] # "update"
    <2>1 Programs["guard_sends"] = GuardSends
      BY DEF Programs
    <2>2 GuardSends[4][1] = "conversation" /\ GuardSends[4][2] = "no key update"
      BY DEF GuardSends, ForUpdate, Updates
    <2>3 Wanted(t) = Programs["guard_sends"][4]
      BY <1>11, AtStatement
    <2>4 Wanted(t) = GuardSends[4]
      BY <2>1, <2>3
    <2> QED
      BY <2>2, <2>4
  <1>12 ASSUME At(t, "reply", 2) PROVE Wanted(t)[1] = "conversation" /\ Wanted(t)[2] # "update"
    <2>1 Programs["reply"] = RepliesByHand
      BY DEF Programs
    <2>2 RepliesByHand[2][1] = "conversation" /\ RepliesByHand[2][2] = "key share"
      BY DEF RepliesByHand, ForUpdate, KeyShare, Updates
    <2>3 Wanted(t) = Programs["reply"][2]
      BY <1>12, AtStatement
    <2>4 Wanted(t) = RepliesByHand[2]
      BY <2>1, <2>3
    <2> QED
      BY <2>2, <2>4
  <1>13 ASSUME At(t, "reply", 3) PROVE Wanted(t)[1] = "conversation" /\ Wanted(t)[2] # "update"
    <2>1 Programs["reply"] = RepliesByHand
      BY DEF Programs
    <2>2 RepliesByHand[3][1] = "conversation" /\ RepliesByHand[3][2] = "no key update"
      BY DEF RepliesByHand, ForUpdate, KeyShare, Updates
    <2>3 Wanted(t) = Programs["reply"][3]
      BY <1>13, AtStatement
    <2>4 Wanted(t) = RepliesByHand[3]
      BY <2>1, <2>3
    <2> QED
      BY <2>2, <2>4
  <1>14 ASSUME At(t, "message", 2) PROVE Wanted(t)[1] = "conversation" /\ Wanted(t)[2] # "update"
    <2>1 Programs["message"] = WritesMessage
      BY DEF Programs
    <2>2 WritesMessage[2][1] = "conversation" /\ WritesMessage[2][2] = "no key update"
      BY DEF WritesMessage, KeyShare, Updates
    <2>3 Wanted(t) = Programs["message"][2]
      BY <1>14, AtStatement
    <2>4 Wanted(t) = WritesMessage[2]
      BY <2>1, <2>3
    <2> QED
      BY <2>2, <2>4
  <1>15 ASSUME At(t, "record", 2) PROVE Wanted(t)[1] = "conversation" /\ Wanted(t)[2] # "update"
    <2>1 Programs["record"] = RecordsAnswer
      BY DEF Programs
    <2>2 RecordsAnswer[2][1] = "conversation" /\ RecordsAnswer[2][2] = "key share"
      BY DEF RecordsAnswer, ForUpdate, KeyShare, Updates
    <2>3 Wanted(t) = Programs["record"][2]
      BY <1>15, AtStatement
    <2>4 Wanted(t) = RecordsAnswer[2]
      BY <2>1, <2>3
    <2> QED
      BY <2>2, <2>4
  <1>16 ASSUME At(t, "record", 3) PROVE Wanted(t)[1] = "conversation" /\ Wanted(t)[2] # "update"
    <2>1 Programs["record"] = RecordsAnswer
      BY DEF Programs
    <2>2 RecordsAnswer[3][1] = "conversation" /\ RecordsAnswer[3][2] = "no key update"
      BY DEF RecordsAnswer, ForUpdate, KeyShare, Updates
    <2>3 Wanted(t) = Programs["record"][3]
      BY <1>16, AtStatement
    <2>4 Wanted(t) = RecordsAnswer[3]
      BY <2>1, <2>3
    <2> QED
      BY <2>2, <2>4
  <1>17 ASSUME At(t, "draft", 2) PROVE Wanted(t)[1] = "conversation" /\ Wanted(t)[2] # "update"
    <2>1 Programs["draft"] = DraftsReply
      BY DEF Programs
    <2>2 DraftsReply[2][1] = "conversation" /\ DraftsReply[2][2] = "key share"
      BY DEF DraftsReply, KeyShare
    <2>3 Wanted(t) = Programs["draft"][2]
      BY <1>17, AtStatement
    <2>4 Wanted(t) = DraftsReply[2]
      BY <2>1, <2>3
    <2> QED
      BY <2>2, <2>4
  <1>18 ASSUME At(t, "extract", 2) PROVE Wanted(t)[1] = "conversation" /\ Wanted(t)[2] # "update"
    <2>1 Programs["extract"] = Extracts
      BY DEF Programs
    <2>2 Extracts[2][1] = "conversation" /\ Extracts[2][2] = "key share"
      BY DEF Extracts, KeyShare, Updates
    <2>3 Wanted(t) = Programs["extract"][2]
      BY <1>18, AtStatement
    <2>4 Wanted(t) = Extracts[2]
      BY <2>1, <2>3
    <2> QED
      BY <2>2, <2>4
  <1>19 ASSUME At(t, "extract", 4) PROVE Wanted(t)[1] = "conversation" /\ Wanted(t)[2] # "update"
    <2>1 Programs["extract"] = Extracts
      BY DEF Programs
    <2>2 Extracts[4][1] = "conversation" /\ Extracts[4][2] = "key share"
      BY DEF Extracts, KeyShare, Updates
    <2>3 Wanted(t) = Programs["extract"][4]
      BY <1>19, AtStatement
    <2>4 Wanted(t) = Extracts[4]
      BY <2>1, <2>3
    <2> QED
      BY <2>2, <2>4
  <1>20 ASSUME At(t, "extract_back", 2) PROVE Wanted(t)[1] = "conversation" /\ Wanted(t)[2] # "update"
    <2>1 Programs["extract_back"] = ExtractsBack
      BY DEF Programs
    <2>2 ExtractsBack[2][1] = "conversation" /\ ExtractsBack[2][2] = "key share"
      BY DEF ExtractsBack, KeyShare, Updates
    <2>3 Wanted(t) = Programs["extract_back"][2]
      BY <1>20, AtStatement
    <2>4 Wanted(t) = ExtractsBack[2]
      BY <2>1, <2>3
    <2> QED
      BY <2>2, <2>4
  <1>21 ASSUME At(t, "extract_back", 4) PROVE Wanted(t)[1] = "conversation" /\ Wanted(t)[2] # "update"
    <2>1 Programs["extract_back"] = ExtractsBack
      BY DEF Programs
    <2>2 ExtractsBack[4][1] = "conversation" /\ ExtractsBack[4][2] = "key share"
      BY DEF ExtractsBack, KeyShare, Updates
    <2>3 Wanted(t) = Programs["extract_back"][4]
      BY <1>21, AtStatement
    <2>4 Wanted(t) = ExtractsBack[4]
      BY <2>1, <2>3
    <2> QED
      BY <2>2, <2>4
  <1>22 ASSUME At(t, "extract", 3) PROVE Wanted(t)[1] = "item 2" /\ Wanted(t)[2] = "no key update"
    <2>1 Programs["extract"] = Extracts
      BY DEF Programs
    <2>2 Extracts[3][1] = "item 2" /\ Extracts[3][2] = "no key update"
      BY DEF Extracts, KeyShare, Updates
    <2>3 Wanted(t) = Programs["extract"][3]
      BY <1>22, AtStatement
    <2>4 Wanted(t) = Extracts[3]
      BY <2>1, <2>3
    <2> QED
      BY <2>2, <2>4
  <1>23 ASSUME At(t, "extract_back", 3) PROVE Wanted(t)[1] = "item 1" /\ Wanted(t)[2] = "no key update"
    <2>1 Programs["extract_back"] = ExtractsBack
      BY DEF Programs
    <2>2 ExtractsBack[3][1] = "item 1" /\ ExtractsBack[3][2] = "no key update"
      BY DEF ExtractsBack, KeyShare, Updates
    <2>3 Wanted(t) = Programs["extract_back"][3]
      BY <1>23, AtStatement
    <2>4 Wanted(t) = ExtractsBack[3]
      BY <2>1, <2>3
    <2> QED
      BY <2>2, <2>4
  <1> QED
    BY <1>1, <1>2, <1>3, <1>4, <1>5, <1>6, <1>7, <1>8, <1>9, <1>10, <1>11, <1>12, <1>13,
       <1>14, <1>15, <1>16, <1>17, <1>18, <1>19, <1>20, <1>21, <1>22, <1>23

\* A session of a deadlock waits for another one of it.
LEMMA Circle ==
    ASSUME LocksInv, NEW S \in SUBSET Transactions, Deadlocked(S), NEW t \in S
    PROVE  /\ t \in Transactions /\ Wanted(t)[1] \in LockedRows
           /\ \E u \in S \ {t} : \E lock \in held[u] :
                 /\ u \in Transactions /\ lock[1] = Wanted(t)[1]
                 /\ ModesConflict(lock[2], Wanted(t)[2]) /\ HoldsFrom(u, lock)
  <1>1 PICK u \in S : WaitsFor(t, u)
    BY DEF Deadlocked
  <1>2 HasStatement(u)
    BY DEF Deadlocked, WaitsFor
  <1> QED
    BY <1>1, <1>2, Statements DEF WaitsFor

\* Two sessions cannot have locks of a row that conflict.
LEMMA Apart ==
    ASSUME LocksInv, NEW t \in Transactions, NEW u \in Transactions \ {t},
           NEW row, NEW mode, HasLock(t, row, mode), NEW lock \in held[u], lock[1] = row
    PROVE  ~ModesConflict(mode, lock[2])
  BY DEF LocksInv, NoConflict, HasLock

\* A lock that a session has is what another one waits for.
LEMMA Blocks ==
    ASSUME NEW t \in Transactions, NEW u \in Transactions \ {t}, HasStatement(u),
           NEW row, NEW mode, HasLock(t, row, mode), Wanted(u)[1] = row,
           ModesConflict(mode, Wanted(u)[2])
    PROVE  WaitsFor(u, t)
  BY DEF WaitsFor, HasLock

\* Of every deadlock there are two sessions that block each other, and they run a
\* known pair.
LEMMA HasKnownPair ==
    ASSUME LocksInv, NEW S \in SUBSET Transactions, Deadlocked(S)
    PROVE  \E t, u \in S : /\ WaitsFor(t, u) /\ WaitsFor(u, t)
                           /\ {program[t], program[u]} \in KnownPairs
  <1> SUFFICES ASSUME \A t, u \in S : WaitsFor(t, u) /\ WaitsFor(u, t) =>
                          {program[t], program[u]} \notin KnownPairs
               PROVE  FALSE
    OBVIOUS
  <1> DEFINE Blocked(t, u, lock) ==
        /\ lock[1] = Wanted(t)[1] /\ ModesConflict(lock[2], Wanted(t)[2]) /\ HoldsFrom(u, lock)
  <1>0 \A t \in S : /\ t \in Transactions /\ HasStatement(t) /\ Wanted(t)[1] \in LockedRows
                    /\ \E u \in S \ {t} : \E lock \in held[u] : Blocked(t, u, lock)
    BY Circle DEF Deadlocked, WaitsFor
  <1>w \A t \in S : Wanted(t)[1] \in LockedRows
    BY <1>0
  <1>z \A t \in S : \E u \in S : \E lock \in held[u] :
          HoldsFrom(u, lock) /\ lock[1] = Wanted(t)[1]
    BY <1>0
  <1>a \A t \in S : \A u \in S \ {t} : \A lock \in held[u] :
          Blocked(t, u, lock) => WaitsFor(t, u)
    BY <1>0 DEF WaitsFor
  <1>b \A t \in S : \A u \in S \ {t} : \A row, mode :
          HasLock(t, row, mode) /\ Wanted(u)[1] = row /\ ModesConflict(mode, Wanted(u)[2])
            => WaitsFor(u, t)
    BY <1>0, Blocks
  <1>c \A t \in S : \A u \in S \ {t} : \A lock \in held[u] : \A mode :
          HasLock(t, lock[1], mode) => ~ModesConflict(mode, lock[2])
    BY <1>0, Apart
  <1>d \A t, u \in S : {program[t], program[u]} \in KnownPairs =>
                           ~(WaitsFor(t, u) /\ WaitsFor(u, t))
    OBVIOUS
  <1>e /\ {"pause", "resolve"} \in KnownPairs /\ {"guard_sends", "record"} \in KnownPairs
       /\ {"extract", "extract_back"} \in KnownPairs /\ {"extract_back", "extract"} \in KnownPairs
       /\ {"guard_pauses", "draft"} \in KnownPairs /\ {"request_links", "draft"} \in KnownPairs
       /\ {"pause", "draft"} \in KnownPairs
    BY DEF KnownPairs
  <1>f \A m : ModesConflict("update", m) /\ ModesConflict(m, "update")
    BY DEF ModesConflict
  \* Who has the conversation for an update is alone on it.
  <1>g ASSUME NEW t \in S, NEW u \in S \ {t}, HasLock(t, "conversation", "update")
       PROVE  \A mode : ~HasLock(u, "conversation", mode)
    BY <1>c, <1>f, <1>g DEF HasLock
  \* Who has the conversation and waits for a session that waits for the conversation.
  <1>h ASSUME NEW t \in S, NEW u \in S \ {t}, HasLock(t, "conversation", "update"),
              Wanted(u)[1] = "conversation", WaitsFor(t, u),
              {program[t], program[u]} \in KnownPairs
       PROVE  FALSE
    BY <1>b, <1>d, <1>f, <1>h
  <1>1 \A t \in S : ~At(t, "pause", 3)
    <2> SUFFICES ASSUME NEW t \in S, At(t, "pause", 3) PROVE FALSE
      OBVIOUS
    <2>1 /\ program[t] = "pause" /\ HasLock(t, "conversation", "update")
         /\ HasLock(t, "run", "update")
      BY <1>0, Holders, Seekers DEF At
    <2>2 Wanted(t)[1] = "handoff"
      BY <1>0, Seekers
    <2>3 PICK u \in S \ {t} : \E lock \in held[u] : Blocked(t, u, lock)
      BY <1>0
    <2>4 WaitsFor(t, u)
      BY <1>a, <2>3
    <2>5 \/ At(u, "guard_pauses", 3) \/ At(u, "request_links", 3) \/ At(u, "resolve", 2)
         \/ At(u, "draft", 2)
      BY <2>2, <2>3 DEF HoldsFrom
    <2>6 CASE At(u, "guard_pauses", 3) \/ At(u, "request_links", 3)
      BY <1>0, <1>g, <2>1, <2>6, Holders
    <2>7 CASE At(u, "resolve", 2)
      <3>1 Wanted(u)[1] = "run" /\ program[u] = "resolve"
        BY <1>0, <2>7, Holders, Seekers DEF At
      <3> QED
        BY <1>b, <1>d, <1>e, <1>f, <2>1, <2>4, <3>1
    <2>8 CASE At(u, "draft", 2)
      <3>1 Wanted(u)[1] = "conversation" /\ program[u] = "draft"
        BY <1>0, <2>8, Holders, Seekers DEF At
      <3> QED
        BY <1>e, <1>h, <2>1, <2>4, <3>1
    <2> QED
      BY <2>5, <2>6, <2>7, <2>8
  <1>2 \A t \in S : Wanted(t)[1] # "run"
    BY <1>0, <1>1 DEF HoldsFrom
  <1>3 \A t \in S : /\ ~At(t, "guard_pauses", 3) /\ ~At(t, "request_links", 3)
                    /\ ~At(t, "resolve", 2) /\ ~At(t, "pause", 2) /\ ~At(t, "request_inserts", 2)
    BY <1>2, <1>0, Seekers
  <1>4 \A t \in S : ~At(t, "guard_pauses", 2) /\ ~At(t, "request_links", 2)
    <2> SUFFICES ASSUME NEW t \in S, At(t, "guard_pauses", 2) \/ At(t, "request_links", 2)
                 PROVE  FALSE
      OBVIOUS
    <2>1 /\ program[t] \in {"guard_pauses", "request_links"}
         /\ HasLock(t, "conversation", "update")
      BY <1>0, Holders, Seekers DEF At
    <2>2 Wanted(t)[1] = "handoff"
      BY <1>0, Seekers
    <2>3 PICK u \in S \ {t} : \E lock \in held[u] : Blocked(t, u, lock)
      BY <1>0
    <2>4 WaitsFor(t, u)
      BY <1>a, <2>3
    <2>5 At(u, "draft", 2)
      BY <1>3, <2>2, <2>3 DEF HoldsFrom
    <2>6 Wanted(u)[1] = "conversation" /\ program[u] = "draft"
      BY <1>0, <2>5, Holders, Seekers DEF At
    <2> QED
      BY <1>e, <1>h, <2>1, <2>4, <2>6
  <1>5 \A t \in S : ~At(t, "guard_sends", 4)
    <2> SUFFICES ASSUME NEW t \in S, At(t, "guard_sends", 4) PROVE FALSE
      OBVIOUS
    <2>1 HasLock(t, "conversation", "update")
      BY <1>0, Holders
    <2>2 Wanted(t)[1] = "conversation"
      BY <1>0, Seekers
    <2>3 PICK u \in S \ {t} : \E lock \in held[u] : Blocked(t, u, lock)
      BY <1>0
    <2> QED
      BY <1>g, <2>1, <2>2, <2>3 DEF HasLock
  <1>6 \A t \in S : ~At(t, "guard_sends", 3)
    <2> SUFFICES ASSUME NEW t \in S, At(t, "guard_sends", 3) PROVE FALSE
      OBVIOUS
    <2>1 program[t] = "guard_sends" /\ HasLock(t, "conversation", "update")
      BY <1>0, Holders, Seekers DEF At
    <2>a Wanted(t)[1] = "run key"
      BY <1>0, Seekers
    <2>2 PICK u \in S \ {t} : \E lock \in held[u] : Blocked(t, u, lock)
      BY <1>0
    <2>3 WaitsFor(t, u)
      BY <1>a, <2>2
    <2>4 At(u, "record", 2) \/ At(u, "record", 3)
      BY <1>5, <2>2, <2>a DEF HoldsFrom
    <2>5 CASE At(u, "record", 2)
      <3>1 Wanted(u)[1] = "conversation" /\ program[u] = "record"
        BY <1>0, <2>5, Holders, Seekers DEF At
      <3> QED
        BY <1>e, <1>h, <2>1, <2>3, <3>1
    <2>6 CASE At(u, "record", 3)
      BY <1>0, <1>g, <2>1, <2>6, Holders
    <2> QED
      BY <2>4, <2>5, <2>6
  <1>7 \A t \in S : Wanted(t)[1] # "advisory lock" /\ ~At(t, "guard_sends", 2)
    <2>1 \A t \in S : Wanted(t)[1] # "advisory lock"
      BY <1>0, <1>5, <1>6 DEF HoldsFrom
    <2> QED
      BY <1>0, <2>1, Seekers
  \* Nobody who has the conversation for an update waits for a session of S.
  <1>8 \A u \in S : \A lock \in held[u] :
          HoldsFrom(u, lock) /\ lock[1] = "conversation" => lock[2] = "key share"
    BY <1>1, <1>3, <1>4, <1>5, <1>6, <1>7 DEF HoldsFrom
  <1>9 \A t \in S : ~(Wanted(t)[1] = "conversation" /\ Wanted(t)[2] # "update")
    BY <1>0, <1>8 DEF ModesConflict
  <1>10 \A t \in S :
           /\ ~At(t, "reply", 2) /\ ~At(t, "reply", 3) /\ ~At(t, "message", 2)
           /\ ~At(t, "record", 2) /\ ~At(t, "record", 3) /\ ~At(t, "draft", 2)
           /\ ~At(t, "extract", 2) /\ ~At(t, "extract", 4)
           /\ ~At(t, "extract_back", 2) /\ ~At(t, "extract_back", 4)
    BY <1>9, <1>0, Seekers
  <1>11 ASSUME NEW t \in S, NEW u \in S, At(t, "extract", 3), At(u, "extract_back", 3)
        PROVE  FALSE
    <2>1 /\ program[t] = "extract" /\ program[u] = "extract_back"
         /\ HasLock(t, "item 1", "no key update") /\ HasLock(u, "item 2", "no key update")
         /\ Wanted(t)[1] = "item 2" /\ Wanted(t)[2] = "no key update"
         /\ Wanted(u)[1] = "item 1" /\ Wanted(u)[2] = "no key update"
      BY <1>0, <1>11, Holders, Seekers DEF At
    <2>2 t # u /\ ModesConflict("no key update", "no key update")
      BY <2>1 DEF ModesConflict
    <2>3 WaitsFor(t, u) /\ WaitsFor(u, t)
      BY <1>b, <2>1, <2>2
    <2> QED
      BY <1>d, <1>e, <2>1, <2>3
  <1>12 \A t \in S : ~At(t, "extract", 3)
    <2> SUFFICES ASSUME NEW t \in S, At(t, "extract", 3) PROVE FALSE
      OBVIOUS
    <2>1 Wanted(t)[1] = "item 2"
      BY <1>0, Seekers
    <2>2 PICK u \in S \ {t} : \E lock \in held[u] : Blocked(t, u, lock)
      BY <1>0
    <2>3 At(u, "extract_back", 3)
      BY <1>10, <2>1, <2>2 DEF HoldsFrom
    <2> QED
      BY <1>11, <2>3
  <1>13 \A t \in S : Wanted(t)[1] \notin {"item 1", "item 2"}
    <2>1 \A t \in S : Wanted(t)[1] # "item 1"
      <3> SUFFICES ASSUME NEW t \in S, Wanted(t)[1] = "item 1" PROVE FALSE
        OBVIOUS
      <3>1 PICK u \in S : \E lock \in held[u] : HoldsFrom(u, lock) /\ lock[1] = "item 1"
        BY <1>z
      <3> QED
        BY <3>1, <1>10, <1>12 DEF HoldsFrom
    <2>2 \A t \in S : ~At(t, "extract_back", 3)
      BY <1>0, <2>1, Seekers
    <2>3 \A t \in S : Wanted(t)[1] # "item 2"
      <3> SUFFICES ASSUME NEW t \in S, Wanted(t)[1] = "item 2" PROVE FALSE
        OBVIOUS
      <3>1 PICK u \in S : \E lock \in held[u] : HoldsFrom(u, lock) /\ lock[1] = "item 2"
        BY <1>z
      <3> QED
        BY <3>1, <1>10, <1>12, <2>2 DEF HoldsFrom
    <2> QED
      BY <2>1, <2>3
  <1>14 \A t \in S : ~At(t, "extract_back", 3)
    BY <1>0, <1>13, Seekers
  <1>15 \A t \in S : Wanted(t)[1] # "conversation"
    <2> SUFFICES ASSUME NEW t \in S, Wanted(t)[1] = "conversation" PROVE FALSE
      OBVIOUS
    <2>1 PICK u \in S : \E lock \in held[u] : HoldsFrom(u, lock) /\ lock[1] = "conversation"
      BY <1>z
    <2>2 \E lock \in held[u] :
            HoldsFrom(u, lock) /\ lock[1] = "conversation" /\ lock[2] = "key share"
      BY <1>8, <2>1
    <2> QED
      BY <2>2, <1>10, <1>12, <1>14 DEF HoldsFrom
  <1>16 \A t \in S : Wanted(t)[1] \notin {"handoff", "run key", "human key"}
    <2>1 \A t \in S : Wanted(t)[1] # "handoff"
      <3> SUFFICES ASSUME NEW t \in S, Wanted(t)[1] = "handoff" PROVE FALSE
        OBVIOUS
      <3>1 PICK u \in S : \E lock \in held[u] : HoldsFrom(u, lock) /\ lock[1] = "handoff"
        BY <1>z
      <3> QED
        BY <3>1, <1>1, <1>3, <1>10 DEF HoldsFrom
    <2>2 \A t \in S : Wanted(t)[1] # "run key"
      <3> SUFFICES ASSUME NEW t \in S, Wanted(t)[1] = "run key" PROVE FALSE
        OBVIOUS
      <3>1 PICK u \in S : \E lock \in held[u] : HoldsFrom(u, lock) /\ lock[1] = "run key"
        BY <1>z
      <3> QED
        BY <3>1, <1>5, <1>10 DEF HoldsFrom
    <2>3 \A t \in S : Wanted(t)[1] # "human key"
      <3> SUFFICES ASSUME NEW t \in S, Wanted(t)[1] = "human key" PROVE FALSE
        OBVIOUS
      <3>1 PICK u \in S : \E lock \in held[u] : HoldsFrom(u, lock) /\ lock[1] = "human key"
        BY <1>z
      <3> QED
        BY <3>1, <1>10 DEF HoldsFrom
    <2> QED
      BY <2>1, <2>2, <2>3
  <1>17 \A t \in S : FALSE
    BY <1>2, <1>7, <1>13, <1>15, <1>16, <1>w DEF LockedRows
  <1> QED
    BY <1>17 DEF Deadlocked

\* Two sessions that block each other are a deadlock of their own.
LEMMA DeadlocksFollow == LocksInv => DeadlocksAreKnown
  <1> SUFFICES ASSUME LocksInv, NEW S \in SUBSET Transactions, Deadlocked(S),
                      \A R \in SUBSET S : Deadlocked(R) => R = S
               PROVE  {program[t] : t \in S} \in KnownPairs
    BY DEF DeadlocksAreKnown
  <1>1 PICK t \in S, u \in S : /\ WaitsFor(t, u) /\ WaitsFor(u, t)
                               /\ {program[t], program[u]} \in KnownPairs
    BY HasKnownPair
  <1>2 Deadlocked({t, u}) /\ {t, u} \in SUBSET S
    BY <1>1 DEF Deadlocked
  <1>3 S = {t, u}
    BY <1>2
  <1>4 {program[v] : v \in S} = {program[t], program[u]}
    BY <1>3
  <1> QED
    BY <1>1, <1>4

-----------------------------------------------------------------------------
(* One behaviour of MCSpec takes the steps of one part.                      *)

CallInv ==
    IInv /\ ClockInv /\ GatewayInv /\ VoiceInv /\ MemoryInv /\ PolicyInv /\ LocksInv

callVars == <<part, vars, budgetVars, gatewayVars, voiceVars, memoryVars, policyVars, lockVars>>

LEMMA ToolsStep == IInv /\ [Next]_vars => IInv'
  BY TypeStep, NoRowStep, InputStep, AgreeStep, ApprovalStep, StartsStep, TurnsStep,
     OneAtWorkStep, EffectsStep, NothingStep, ExecutedStep DEF IInv

LEMMA PartsStart == MCInit => CallInv
  BY InitIInv, ClockStart, GatewayStart, VoiceStart, MemoryStart, PolicyStart, LocksStart
  DEF MCInit, CallInv

\* A part moves by its own next-state relation, or not at all.
LEMMA PartsMove ==
    [MCNext]_callVars =>
        /\ [Next]_vars /\ [BudgetNext]_budgetVars
        /\ (GatewayNext \/ UNCHANGED gatewayVars) /\ (VoiceNext \/ UNCHANGED voiceVars)
        /\ (MemoryNext \/ UNCHANGED memoryVars) /\ (PolicyNext \/ UNCHANGED policyVars)
        /\ (LocksNext \/ UNCHANGED lockVars)
  <1> HIDE DEF Next, BudgetNext, GatewayNext, VoiceNext, MemoryNext, PolicyNext, LocksNext
  <1> QED
    BY DEF MCNext, callVars

LEMMA PartsStep == CallInv /\ [MCNext]_callVars => CallInv'
  <1> SUFFICES ASSUME CallInv, [MCNext]_callVars PROVE CallInv'
    OBVIOUS
  <1>1 VoiceInv'
    BY PartsMove, VoiceMoves, VoiceStutter DEF CallInv, VoiceNext
  <1>2 PolicyInv' /\ LocksInv'
    BY PartsMove, PolicyStep, PolicyStutter, LocksStep, LocksStutter DEF CallInv
  <1>3 IInv' /\ ClockInv' /\ GatewayInv' /\ MemoryInv'
    BY PartsMove, ToolsStep, ClockStep, GatewayStep, GatewayStutter, MemoryStep, MemoryStutter
    DEF CallInv
  <1> QED
    BY <1>1, <1>2, <1>3 DEF CallInv

\* Every part keeps its inductive invariant, whichever part a behaviour runs.
THEOREM CallsInvariance == MCSpec => []CallInv
  <1>1 CallInv /\ [MCNext]_<<part, vars, budgetVars, gatewayVars, voiceVars, memoryVars,
                            policyVars, lockVars>> => CallInv'
    BY PartsStep DEF callVars
  <1> QED
    BY <1>1, PartsStart, PTL DEF MCSpec

\* The rows and the place of every part are what the tables and handlers allow.
THEOREM CallTypesCorrect == MCSpec => []CallTypesOK
  <1>1 CallInv => CallTypesOK
    BY MemoryFollows, PolicyFollows
    DEF CallInv, CallTypesOK, IInv, ClockInv, GatewayInv, VoiceInv, LocksInv
  <1> QED
    BY <1>1, CallsInvariance, PTL

\* The ledger adds up to the balance, an answered call is debited once,
\* platform use is debited, and the overdraft has its bound
\* (ai_gateway.AIGateway._execute, billing_runtime.record_charge).
THEOREM WalletStaysSound == MCSpec => []WalletIsSound
  <1>1 CallInv => WalletIsSound
    BY WalletFollows DEF CallInv
  <1> QED
    BY <1>1, CallsInvariance, PTL

\* A voice message has one transcript, written before any answer, and its
\* uploads are released (voice_runtime.py, gemini_transcription.py).
THEOREM TranscribedOnce == MCSpec => []VoiceIsTranscribedOnce
  <1>1 CallInv => VoiceIsTranscribedOnce
    BY DEF CallInv, VoiceInv
  <1> QED
    BY <1>1, CallsInvariance, PTL

\* A message is applied once, what an operator created stays, and inferences
\* are used only as approved (memory_runtime.py, memory.py).
THEOREM OperatorsPrevail == MCSpec => []MemoryRespectsOperators
  <1>1 CallInv => MemoryRespectsOperators
    BY MemoryFollows DEF CallInv
  <1> QED
    BY <1>1, CallsInvariance, PTL

\* Every effect of the policy engine is traced, allowed and no weaker than
\* the tool, by a configuration the edits keep coherent (policy_runtime.py,
\* policies.py, put_handoff_policy).
THEOREM PolicyStaysEnforced == MCSpec => []PolicyIsEnforced
  <1>1 CallInv => PolicyIsEnforced
    BY PolicyFollows DEF CallInv
  <1> QED
    BY <1>1, CallsInvariance, PTL

\* Of all transactions that meet on a conversation only the known pairs can
\* deadlock, and no circle of three or more exists, for any number of sessions
\* (handoff_runtime.py, handoff.py, agent_runtime.py, channel_runtime.py,
\* memory_runtime.py).
THEOREM OnlyKnownDeadlocks == MCSpec => []DeadlocksAreKnown
  <1>1 CallInv => DeadlocksAreKnown
    BY DeadlocksFollow DEF CallInv
  <1> QED
    BY <1>1, CallsInvariance, PTL
=================================================================================

------------------------------ MODULE AIGateway ------------------------------
(***************************************************************************)
(* The AI gateway and the wallet of one business: a call resolves a task   *)
(* profile, tries its routes in order, and records every attempt as a      *)
(* trace; the trace of a priced success and its debit are one transaction. *)
(* The platform owner edits profiles and prices and credits the wallet.    *)
(*                                                                         *)
(* Source: ai_gateway.py, billing_runtime.py, platform_billing.py, and the *)
(* profile endpoints of platform_ai.py and ai_profiles.py.                 *)
(*                                                                         *)
(* The balance is read before the provider is called and debited after it, *)
(* with no reservation in between, so calls overlap on one balance.        *)
(***************************************************************************)
EXTENDS Integers, Sequences, FiniteSets

CONSTANTS
    GwCallers,     \* concurrent calls of the business: workers and requests
    Models,        \* (provider, model) pairs a route may name
    Unsupported,   \* of these, the ones no registered adapter can serve
    Profiles,      \* task profiles an owner may save: [attempts, routes]
    Prices,        \* prices of one use of a model, already rounded up
    Credits,       \* amounts an owner may credit
    Nil,           \* SQL NULL
    MaxGwCalls,    \* bound: calls per caller
    MaxEdits       \* bound: owner operations

ASSUME GatewayAssumption ==
    /\ IsFiniteSet(GwCallers)
    /\ Prices \subseteq Nat
    /\ \E p \in Prices : \A q \in Prices : q <= p      \* an integer column
    /\ Credits \subseteq Nat \ {0}
    /\ Nil \notin Int \cup Profiles
    /\ MaxGwCalls \in Nat /\ MaxEdits \in Nat
    /\ \A p \in Profiles : p.attempts \in 1..3 /\ p.routes \in Seq(Models) \ {<<>>}

VARIABLES
    profiles,      \* saved profiles by scope: PlatformAITaskProfile, AITaskProfile
    price,         \* PlatformAIModelPrice in force for each model
    balance,       \* BusinessWallet.balance_rial; Nil before the row exists
    ledger,        \* BusinessWalletTransaction rows, oldest first
    traces,        \* AIExecutionTrace rows
    gwPc,          \* where each call is in _execute
    gwCalls,       \* calls each caller has started
    gwConf,        \* its ResolvedTaskProfile: scope, attempts, routes
    gwAt,          \* <<route, attempt>> it is at
    gwFree,        \* ensure_can_execute passed because the model had no price
    edits

gwOwnerVars == <<profiles, price, edits>>
gwCallVars  == <<gwPc, gwCalls, gwConf, gwAt, gwFree>>
gatewayVars == <<gwOwnerVars, balance, ledger, traces, gwCallVars>>

Scopes == {"platform", "tenant"}
GwPcs  == {"idle", "routes", "route", "invoke", "record"}
NoConf == [scope |-> "tenant", attempts |-> 1, routes |-> <<>>]

ModelOf(c) == gwConf[c].routes[gwAt[c][1]]
TraceOf(c, ok) ==
    [call |-> <<c, gwCalls[c]>>, at |-> gwAt[c], model |-> ModelOf(c),
     scope |-> gwConf[c].scope, ok |-> ok]

GatewayTypeOK ==
    /\ profiles \in [Scopes -> Profiles \cup {Nil}]
    /\ price \in [Models -> Prices \cup {Nil}]
    /\ balance \in Int \cup {Nil}
    /\ \A i \in 1..Len(ledger) :
           ledger[i].amount \in Nat /\ ledger[i].after \in Int
    /\ gwPc \in [GwCallers -> GwPcs]
    /\ gwCalls \in [GwCallers -> 0..MaxGwCalls]
    /\ gwFree \in [GwCallers -> BOOLEAN]
    /\ \A c \in GwCallers : gwPc[c] \in {"route", "invoke", "record"} =>
           gwAt[c] \in (1..Len(gwConf[c].routes)) \X (1..gwConf[c].attempts)
    /\ edits \in 0..MaxEdits

GatewayInit ==
    /\ profiles = [s \in Scopes |-> Nil]
    /\ price = [m \in Models |-> Nil]
    /\ balance = Nil
    /\ ledger = <<>>
    /\ traces = {}
    /\ gwPc = [c \in GwCallers |-> "idle"]
    /\ gwCalls = [c \in GwCallers |-> 0]
    /\ gwConf = [c \in GwCallers |-> NoConf]
    /\ gwAt = [c \in GwCallers |-> <<1, 1>>]
    /\ gwFree = [c \in GwCallers |-> FALSE]
    /\ edits = 0

-----------------------------------------------------------------------------
(* The calls.                                                              *)

\* The platform profile wins over the business's own one.  The row is read
\* first and its routes by a second statement, which sees later commits.
ReadProfileRow(c) ==
    /\ gwPc[c] = "idle" /\ gwCalls[c] < MaxGwCalls
    /\ gwCalls' = [gwCalls EXCEPT ![c] = @ + 1]
    /\ LET scope == IF profiles["platform"] # Nil THEN "platform" ELSE "tenant"
       IN  IF profiles[scope] = Nil
           THEN UNCHANGED <<gwPc, gwConf>>
           ELSE /\ gwPc' = [gwPc EXCEPT ![c] = "routes"]
                /\ gwConf' = [gwConf EXCEPT ![c] =
                       [scope |-> scope, attempts |-> profiles[scope].attempts,
                        routes |-> <<>>]]
    /\ UNCHANGED <<gwOwnerVars, balance, ledger, traces, gwAt, gwFree>>

ReadRoutes(c) ==
    /\ gwPc[c] = "routes"
    /\ gwPc' = [gwPc EXCEPT ![c] = "route"]
    /\ gwConf' = [gwConf EXCEPT ![c].routes = profiles[gwConf[c].scope].routes]
    /\ gwAt' = [gwAt EXCEPT ![c] = <<1, 1>>]
    /\ UNCHANGED <<gwOwnerVars, balance, ledger, traces, gwCalls, gwFree>>

Finish(c) ==
    /\ gwPc' = [gwPc EXCEPT ![c] = "idle"]
    /\ gwConf' = [gwConf EXCEPT ![c] = NoConf]
    /\ gwAt' = [gwAt EXCEPT ![c] = <<1, 1>>]
    /\ gwFree' = [gwFree EXCEPT ![c] = FALSE]

\* The next route, or all_routes_failed after the last one.
NextRoute(c) ==
    IF gwAt[c][1] = Len(gwConf[c].routes)
    THEN Finish(c)
    ELSE /\ gwPc' = [gwPc EXCEPT ![c] = "route"]
         /\ gwAt' = [gwAt EXCEPT ![c] = <<@[1] + 1, 1>>]
         /\ gwFree' = [gwFree EXCEPT ![c] = FALSE]
         /\ UNCHANGED gwConf

\* No adapter, or one without the operation: a failed trace, the next route.
SkipRoute(c) ==
    /\ gwPc[c] = "route" /\ ModelOf(c) \in Unsupported
    /\ traces' = traces \cup {TraceOf(c, FALSE)}
    /\ NextRoute(c)
    /\ UNCHANGED <<gwOwnerVars, balance, ledger, gwCalls>>

\* Mutant: an unpriced model is taken for a free one under every profile.
CanExecuteUnpriced(c) ==
    price[ModelOf(c)] = Nil \/ (balance # Nil /\ balance > 0)

\* ensure_can_execute: a price is required of platform profiles only, and a
\* priced model needs a positive balance.
Payable == balance # Nil /\ balance > 0
CanExecute(c) ==
    IF price[ModelOf(c)] = Nil THEN gwConf[c].scope # "platform" ELSE Payable

EnsureCanExecute(c) ==
    /\ gwPc[c] = "route" /\ ModelOf(c) \notin Unsupported
    /\ CanExecute(c)
    /\ gwPc' = [gwPc EXCEPT ![c] = "invoke"]
    /\ gwFree' = [gwFree EXCEPT ![c] = price[ModelOf(c)] = Nil]
    /\ UNCHANGED <<gwOwnerVars, balance, ledger, traces, gwCalls, gwConf, gwAt>>

RefuseCall(c) ==
    /\ gwPc[c] = "route" /\ ModelOf(c) \notin Unsupported
    /\ ~CanExecute(c)
    /\ traces' = traces \cup {TraceOf(c, FALSE)}
    /\ Finish(c)
    /\ UNCHANGED <<gwOwnerVars, balance, ledger, gwCalls>>

ProviderAnswers(c) ==
    /\ gwPc[c] = "invoke"
    /\ gwPc' = [gwPc EXCEPT ![c] = "record"]
    /\ UNCHANGED <<gwOwnerVars, balance, ledger, traces, gwCalls, gwConf, gwAt,
                   gwFree>>

\* A failed trace, then the route again if the error is worth it.
AttemptFails(c, retryable) ==
    /\ gwPc[c] = "invoke"
    /\ traces' = traces \cup {TraceOf(c, FALSE)}
    /\ IF retryable /\ gwAt[c][2] < gwConf[c].attempts
       THEN /\ gwPc' = [gwPc EXCEPT ![c] = "route"]
            /\ gwAt' = [gwAt EXCEPT ![c] = <<@[1], @[2] + 1>>]
            /\ gwFree' = [gwFree EXCEPT ![c] = FALSE]
            /\ UNCHANGED gwConf
       ELSE NextRoute(c)
    /\ UNCHANGED <<gwOwnerVars, balance, ledger, gwCalls>>

\* Worth it: a timeout or transport error, 408, 409, 425, 429, 5xx, and an
\* answer that is empty, malformed or incomplete.  Not: any other status, a
\* provider without a key, a parameter the adapter reserves.
ProviderTimesOut(c)   == AttemptFails(c, TRUE)
AnswerIsUnusable(c)   == AttemptFails(c, TRUE)
ProviderRefuses(c, r) == AttemptFails(c, r)
NotConfigured(c)      == AttemptFails(c, FALSE)

\* The debit of a trace, under the lock of the wallet row.
Debit(c) ==
    LET amount == price[ModelOf(c)]
    IN  /\ balance' = balance - amount
        /\ ledger' = Append(ledger, [kind |-> "ai_debit", amount |-> amount,
                       after |-> balance - amount, of |-> TraceOf(c, TRUE),
                       unchecked |-> gwFree[c]])

\* The succeeded trace and its charge, one transaction.  Without a wallet
\* record_charge raises: the trace is rolled back and the answer is lost.
RecordTrace(c) ==
    /\ gwPc[c] = "record"
    /\ \/ /\ price[ModelOf(c)] = Nil
          /\ traces' = traces \cup {TraceOf(c, TRUE)}
          /\ UNCHANGED <<balance, ledger>>
       \/ /\ price[ModelOf(c)] # Nil /\ balance = Nil
          /\ UNCHANGED <<balance, ledger, traces>>
       \/ /\ price[ModelOf(c)] # Nil /\ balance # Nil
          /\ traces' = traces \cup {TraceOf(c, TRUE)}
          /\ Debit(c)
    /\ Finish(c)
    /\ UNCHANGED <<gwOwnerVars, gwCalls>>

\* The process dies, the request is cancelled, or a commit fails.
CallIsLost(c) ==
    /\ gwPc[c] \in {"invoke", "record"}
    /\ Finish(c)
    /\ UNCHANGED <<gwOwnerVars, balance, ledger, traces, gwCalls>>

-----------------------------------------------------------------------------
(* The platform owner and the manager of the business.                     *)

Edit == edits < MaxEdits /\ edits' = edits + 1

\* The row and its routes are replaced in one transaction.
PutTaskProfile(scope, p) ==
    /\ Edit
    /\ profiles' = [profiles EXCEPT ![scope] = p]
    /\ UNCHANGED <<price, balance, ledger, traces, gwCallVars>>

\* Prices are only ever added; the newest one is in force.
PutModelPricing(m, p) ==
    /\ Edit
    /\ price' = [price EXCEPT ![m] = p]
    /\ UNCHANGED <<profiles, balance, ledger, traces, gwCallVars>>

\* Reading the wallet creates it.
GetBusinessWallet ==
    /\ Edit
    /\ balance = Nil
    /\ balance' = 0
    /\ UNCHANGED <<profiles, price, ledger, traces, gwCallVars>>

CreditBusinessWallet(a) ==
    /\ Edit
    /\ LET b == (IF balance = Nil THEN 0 ELSE balance) + a
       IN  /\ balance' = b
           /\ ledger' = Append(ledger, [kind |-> "credit", amount |-> a,
                          after |-> b, of |-> Nil, unchecked |-> FALSE])
    /\ UNCHANGED <<profiles, price, traces, gwCallVars>>

OwnerStep ==
    \/ \E s \in Scopes, p \in Profiles : PutTaskProfile(s, p)
    \/ \E m \in Models, p \in Prices : PutModelPricing(m, p)
    \/ GetBusinessWallet
    \/ \E a \in Credits : CreditBusinessWallet(a)

CallStep(c) ==
    \/ ReadProfileRow(c) \/ ReadRoutes(c) \/ SkipRoute(c)
    \/ EnsureCanExecute(c) \/ RefuseCall(c) \/ ProviderAnswers(c)
    \/ ProviderTimesOut(c) \/ AnswerIsUnusable(c) \/ NotConfigured(c)
    \/ \E r \in BOOLEAN : ProviderRefuses(c, r)
    \/ RecordTrace(c) \/ CallIsLost(c)

GatewayNext == OwnerStep \/ \E c \in GwCallers : CallStep(c)

-----------------------------------------------------------------------------
(* Properties.                                                             *)

Debits    == {i \in 1..Len(ledger) : ledger[i].kind = "ai_debit"}
Before(i) == IF i = 1 THEN 0 ELSE ledger[i - 1].after
MaxPrice  == CHOOSE p \in Prices : \A q \in Prices : q <= p

\* The rows of the wallet add up: each one continues the balance its
\* predecessor left, and the last one is the balance.
LedgerAddsUp ==
    /\ \A i \in 1..Len(ledger) : ledger[i].after =
           IF ledger[i].kind = "credit" THEN Before(i) + ledger[i].amount
                                        ELSE Before(i) - ledger[i].amount
    /\ balance = Nil => ledger = <<>>
    /\ balance # Nil /\ ledger # <<>> => balance = ledger[Len(ledger)].after

\* A debit belongs to a succeeded attempt, no attempt is debited twice, and
\* no call is: the routes after the one that answered are never tried.
DebitedOnce ==
    /\ \A i \in Debits : ledger[i].of.ok /\ ledger[i].of \in traces
    /\ \A i, j \in Debits : ledger[i].of.call = ledger[j].of.call => i = j

\* What a platform profile answered is paid for, although the price and the
\* wallet were looked up before the call and again after it.
PlatformUseIsDebited ==
    \A t \in traces : t.ok /\ t.scope = "platform" =>
        \E i \in Debits : ledger[i].of = t

\* Overlapping calls overdraw the wallet, by at most one charge per caller;
\* the charges of models priced during the call come on top.
OverdraftIsBounded ==
    balance # Nil /\ ledger # <<>> =>
        balance >= - MaxPrice * (Cardinality(GwCallers)
                                 + Cardinality({i \in Debits : ledger[i].unchecked}))

\* The wallet is sound: its rows add up, an answered call is debited exactly
\* once (always, under a platform profile), and the overdraft is bounded by
\* the callers (ai_gateway.AIGateway._execute, billing_runtime.record_charge,
\* platform_billing.credit_business_wallet).
WalletIsSound ==
    LedgerAddsUp /\ DebitedOnce /\ PlatformUseIsDebited /\ OverdraftIsBounded
=============================================================================

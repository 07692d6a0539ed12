------------------------------- MODULE RowLocks -------------------------------
(***************************************************************************)
(* The row locks of the transactions that meet on one conversation: its    *)
(* row, its active handoff, the agent run, the keys of the replies, and    *)
(* two memory items of its contact.  Only the locks are here; what the     *)
(* transactions write is in AgentRuns, OperatorInbox, ConversationLog and  *)
(* CustomerMemory.                                                         *)
(*                                                                         *)
(* Source: handoff_runtime.py, agent_runtime.py, dispatch_text and         *)
(* _persist_inbound_event_once of channel_runtime.py, create_message of    *)
(* conversations.py, generate_operator_assist of handoff.py,               *)
(* memory_runtime.py, memory.py.                                           *)
(*                                                                         *)
(* A statement waits for the transactions that hold a lock it conflicts    *)
(* with; a lock is kept to the commit.  A foreign key takes the row it     *)
(* names FOR KEY SHARE, an UPDATE takes its row FOR NO KEY UPDATE, a       *)
(* unique key or an advisory lock is a row of its own taken FOR UPDATE.    *)
(***************************************************************************)
EXTENDS Naturals, Sequences, FiniteSets

CONSTANTS
    Transactions,  \* concurrent database sessions
    NoProgram,     \* a session between two transactions
    MaxCommits     \* bound: transactions begun

ASSUME RowLocksAssumption == MaxCommits \in Nat

VARIABLES
    program,       \* what each session runs
    held,          \* locks it holds: pairs of a row and a mode
    next,          \* its next statement
    begun

lockVars == <<program, held, next, begun>>

KeyShare(row)  == <<row, "key share">>
Updates(row)   == <<row, "no key update">>
ForUpdate(row) == <<row, "update">>

\* The conflict table of the row locks of PostgreSQL, of these three modes.
ModesConflict(m, n) ==
    \/ m = "update" \/ n = "update"
    \/ m = "no key update" /\ n = "no key update"

-----------------------------------------------------------------------------
(* The locks of each transaction, in the order of its statements.          *)

\* Mutant: the run is locked before the handoff, as pause_for_tool_approval does.
GuardRunFirst ==
    <<ForUpdate("conversation"), ForUpdate("run"), ForUpdate("handoff")>>

\* guard_ai_dispatch finds a handoff and pauses the run, or finds none, and
\* dispatch_text goes on in its transaction.
GuardPauses ==
    <<ForUpdate("conversation"), ForUpdate("handoff"), ForUpdate("run")>>
GuardSends ==
    <<ForUpdate("conversation"), ForUpdate("advisory lock"), ForUpdate("run key"),
      Updates("conversation")>>

\* pause_for_tool_approval, with a handoff that is active.
PausesRun ==
    <<ForUpdate("conversation"), ForUpdate("run"), ForUpdate("handoff")>>

\* request_handoff links an active handoff, or inserts one.
LinksHandoff ==
    <<ForUpdate("conversation"), ForUpdate("handoff"), KeyShare("run")>>
InsertsHandoff == <<ForUpdate("conversation"), KeyShare("run")>>

\* claim_handoff and release_handoff.
ClaimsHandoff == <<ForUpdate("handoff")>>

\* resolve_handoff, with a source to resume; repeated, it finds a closed handoff.
ResolvesHandoff == <<ForUpdate("handoff"), ForUpdate("run")>>
ResumesAgain    == <<ForUpdate("run")>>

\* A reply of an operator, and any other Message: an inbound one, and one that an
\* API client records, under the key of an answer or not.  A row enters its unique
\* index before its foreign keys are looked up.
RepliesByHand  == <<ForUpdate("human key"), KeyShare("conversation"),
                    Updates("conversation")>>
WritesMessage  == <<KeyShare("conversation"), Updates("conversation")>>
RecordsAnswer  == <<ForUpdate("run key"), KeyShare("conversation"),
                    Updates("conversation")>>

\* The draft for an operator: its foreign keys are looked up in the order in which
\* the migration created them.
DraftsReply == <<KeyShare("handoff"), KeyShare("conversation")>>

\* _resolve_or_create_run; then the claim, the renewals and the results of a run.
InsertsRun == <<KeyShare("conversation")>>
UpdatesRun == <<Updates("run")>>

\* Extraction looks up each candidate in turn, and the look-up flushes the update
\* of the one before: two items are locked in the order the model named them.
Extracts     == <<Updates("item 1"), KeyShare("conversation"),
                  Updates("item 2"), KeyShare("conversation")>>
ExtractsBack == <<Updates("item 2"), KeyShare("conversation"),
                  Updates("item 1"), KeyShare("conversation")>>
EditsItem    == <<Updates("item 1")>>

Programs ==
    [guard_pauses |-> GuardPauses, guard_sends |-> GuardSends, pause |-> PausesRun,
     request_links |-> LinksHandoff, request_inserts |-> InsertsHandoff,
     claim |-> ClaimsHandoff, resolve |-> ResolvesHandoff, resume |-> ResumesAgain,
     reply |-> RepliesByHand, message |-> WritesMessage, record |-> RecordsAnswer,
     draft |-> DraftsReply, new_run |-> InsertsRun, run |-> UpdatesRun,
     extract |-> Extracts, extract_back |-> ExtractsBack, edit_item |-> EditsItem]

-----------------------------------------------------------------------------

LocksTypeOK ==
    /\ \A t \in Transactions :
           /\ program[t] \in DOMAIN Programs \cup {NoProgram}
           /\ program[t] # NoProgram => next[t] \in 1..(Len(Programs[program[t]]) + 1)
    /\ begun \in 0..MaxCommits

LocksInit ==
    /\ program = [t \in Transactions |-> NoProgram]
    /\ held = [t \in Transactions |-> {}]
    /\ next = [t \in Transactions |-> 1]
    /\ begun = 0

InTransaction(t) == program[t] # NoProgram
Wanted(t)        == Programs[program[t]][next[t]]
HasStatement(t)  == InTransaction(t) /\ next[t] <= Len(Programs[program[t]])

\* t waits until u has committed.
WaitsFor(t, u) ==
    /\ t # u /\ HasStatement(t)
    /\ \E lock \in held[u] :
           lock[1] = Wanted(t)[1] /\ ModesConflict(lock[2], Wanted(t)[2])

\* Sessions of which each waits for another of them.
Deadlocked(S) == S # {} /\ \A t \in S : \E u \in S : WaitsFor(t, u)

BeginTransaction(t, p) ==
    /\ ~InTransaction(t) /\ begun < MaxCommits
    /\ program' = [program EXCEPT ![t] = p]
    /\ next' = [next EXCEPT ![t] = 1]
    /\ begun' = begun + 1
    /\ UNCHANGED held

LockRow(t) ==
    /\ HasStatement(t)
    /\ \A u \in Transactions : ~WaitsFor(t, u)
    /\ held' = [held EXCEPT ![t] = @ \cup {Wanted(t)}]
    /\ next' = [next EXCEPT ![t] = @ + 1]
    /\ UNCHANGED <<program, begun>>

LetGo(t) ==
    /\ program' = [program EXCEPT ![t] = NoProgram]
    /\ held' = [held EXCEPT ![t] = {}]
    /\ next' = [next EXCEPT ![t] = 1]
    /\ UNCHANGED begun

EndTransaction(t) == InTransaction(t) /\ ~HasStatement(t) /\ LetGo(t)

\* PostgreSQL ends one of the sessions of a deadlock with an error.
AbortVictim(t) == (\E S \in SUBSET Transactions : t \in S /\ Deadlocked(S)) /\ LetGo(t)

LocksNext == \E t \in Transactions :
    \/ \E p \in DOMAIN Programs : BeginTransaction(t, p)
    \/ LockRow(t) \/ EndTransaction(t) \/ AbortVictim(t)

-----------------------------------------------------------------------------

\* The pairs of transactions that take two rows in opposite orders.
KnownPairs ==
    {{"pause", "resolve"}, {"record", "guard_sends"}, {"extract", "extract_back"}}
    \cup {{"draft", p} : p \in {"guard_pauses", "request_links", "pause"}}

\* Of all transactions that meet on a conversation only these pairs can deadlock,
\* and no circle of three exists: the approval pause of a run with the resolution
\* of its handoff, a draft for an operator with whoever goes from the conversation
\* to its handoff, a message recorded under the key of an answer being sent, and
\* two extractions for one contact (handoff_runtime.py, handoff.py,
\* agent_runtime.py, channel_runtime.py, memory_runtime.py).
DeadlocksAreKnown ==
    \A S \in SUBSET Transactions :
        Deadlocked(S) /\ (\A R \in SUBSET S : Deadlocked(R) => R = S) =>
            {program[t] : t \in S} \in KnownPairs
=============================================================================

-------------------------- MODULE SharedConversation ---------------------------
(***************************************************************************)
(* What a customer may rely on in a conversation that an AI agent and      *)
(* humans share: the agent speaks while no human has the conversation, one *)
(* reply at a time, each of its replies is recorded at most once and for   *)
(* good, and is sent again only when an earlier sending was forgotten.     *)
(*                                                                         *)
(* Workers, leases, jobs, retries and handoff rows are the means: AgentRuns*)
(* has them, and implements this module.                                   *)
(***************************************************************************)
EXTENDS Naturals

CONSTANTS
    Keys,      \* idempotency keys of the agent's replies
    Texts,     \* what it may say
    None       \* nothing said

VARIABLES
    keeper,    \* who has the conversation: "ai" or "human"
    said,      \* the recorded reply of each key
    sent,      \* how often the channel took a reply of each key
    lost       \* how many of these were forgotten

sharedVars == <<keeper, said, sent, lost>>

\* The customer has it, and nobody has recorded or forgotten it yet.
Underway(k) == said[k] = None /\ sent[k] > lost[k]
Quiet       == \A k \in Keys : ~Underway(k)

SharedInit ==
    /\ keeper = "ai"
    /\ said = [k \in Keys |-> None]
    /\ sent = [k \in Keys |-> 0]
    /\ lost = [k \in Keys |-> 0]

Send(k) ==
    /\ keeper = "ai" /\ said[k] = None /\ Quiet
    /\ sent' = [sent EXCEPT ![k] = @ + 1]
    /\ UNCHANGED <<keeper, said, lost>>

Record(k, t) ==
    /\ Underway(k)
    /\ said' = [said EXCEPT ![k] = t]
    /\ UNCHANGED <<keeper, sent, lost>>

Forget(k) ==
    /\ Underway(k)
    /\ lost' = [lost EXCEPT ![k] = @ + 1]
    /\ UNCHANGED <<keeper, said, sent>>

\* Sent, and forgotten before the answer of the channel arrived.
SendUnknowingly(k) ==
    /\ keeper = "ai" /\ said[k] = None /\ Quiet
    /\ sent' = [sent EXCEPT ![k] = @ + 1]
    /\ lost' = [lost EXCEPT ![k] = @ + 1]
    /\ UNCHANGED <<keeper, said>>

\* A human takes the conversation or gives it back, between two replies.
PassOn ==
    /\ Quiet
    /\ keeper' = IF keeper = "ai" THEN "human" ELSE "ai"
    /\ UNCHANGED <<said, sent, lost>>

SharedNext ==
    \/ \E k \in Keys :
          \/ Send(k) \/ Forget(k) \/ SendUnknowingly(k)
          \/ \E t \in Texts : Record(k, t)
    \/ PassOn

SharedSpec == SharedInit /\ [][SharedNext]_sharedVars
=============================================================================

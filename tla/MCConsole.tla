------------------------------ MODULE MCConsole -------------------------------
(***************************************************************************)
(* What people and workers write side by side, each part on a small        *)
(* instance: operators in the inbox, managers at the prompts, and every    *)
(* writer of the messages of a conversation.                               *)
(*                                                                         *)
(* The parts share no row: `part` picks the one a behaviour is about, and  *)
(* the others stay as they were.                                           *)
(***************************************************************************)
EXTENDS MCOperatorInbox, PromptVersions, ConversationLog

CONSTANTS p1, g1, m1, x, y, e1, e2, w1, w2, ki, kr

OnePrompt   == {p1}
OneAgent    == {g1}
TwoContents == {x, y}
OneInbound  == {m1}
TwoEditors  == {e1, e2}
TwoWorkers  == {w1, w2}

\* An API client names one message as a reply is named.
InboundKey  == {ki}
ReplyKey    == {kr}
SentAtOne   == [k \in InboundKey |-> 1]
OneAuthor   == {"human"}

VARIABLE part

ConsoleInit ==
    /\ part \in {"inbox", "prompts", "conversation"}
    /\ Init /\ PromptInit /\ LogInit

ConsoleNext ==
    /\ UNCHANGED part
    /\ \/ part = "inbox" /\ Next /\ UNCHANGED <<promptVars, logVars>>
       \/ part = "prompts" /\ PromptNext /\ UNCHANGED <<vars, logVars>>
       \/ part = "conversation" /\ LogNext /\ UNCHANGED <<vars, promptVars>>

ConsoleSpec ==
    ConsoleInit /\ [][ConsoleNext]_<<part, vars, promptVars, logVars>> /\ Fairness

\* The rows and the requests in flight are what the tables and handlers allow.
ConsoleTypesOK == TypeOK /\ PromptTypeOK /\ LogTypeOK
=============================================================================

---------------------------- MODULE PromptVersions ----------------------------
(***************************************************************************)
(* The prompts, agents and channel assignment of one business, edited by   *)
(* its managers while workers pin the prompt version of an agent run and   *)
(* generate with it, possibly several times for one message.               *)
(*                                                                         *)
(* Source: agents.py, agent_models.py, and _resolve_or_create_run and      *)
(* _load_run_snapshot of agent_runtime.py.                                 *)
(*                                                                         *)
(* An editor holds the AgentPrompt row from lock_prompt to its commit; a   *)
(* worker reads assignment, agent and version with three statements.       *)
(***************************************************************************)
EXTENDS Naturals, Sequences, FiniteSets

CONSTANTS
    Editors,       \* concurrent requests of managers
    PromptWorkers, \* deliveries handled at a time
    Prompts,
    Agents,        \* agents that may be created
    Contents,      \* prompt texts
    Inbounds,      \* customer messages of the channel
    Null,          \* SQL NULL
    MaxVersions,   \* bound: versions of one prompt
    MaxRequests    \* bound: requests of managers

ASSUME PromptAssumption ==
    /\ Null \notin Editors \cup Prompts \cup Agents \cup Nat
    /\ Null \notin [prompt : Prompts, active : BOOLEAN]
    /\ Null \notin [agent : Agents, prompt : Prompts, version : Nat]
    /\ MaxVersions \in Nat \ {0} /\ MaxRequests \in Nat

VARIABLES
    versions,      \* AgentPromptVersion rows of each prompt, by version number
    frozen,        \* the content each of them had when it was published
    agents,        \* Agent rows: [prompt, active]; Null before creation
    assigned,      \* AgentChannelAssignment.agent_id of the channel
    lockOf,        \* editor that holds the AgentPrompt row
    epc, edraft,   \* where each editor is; the draft it found
    pinned,        \* AgentRun of each message: [agent, prompt, version]
    used,          \* contents each message was generated with
    ppc, pmsg,     \* where each worker is, and its message
    pread,         \* agent and prompt it has read
    requests

promptRows    == <<versions, frozen, agents, assigned>>
editorVars    == <<lockOf, epc, edraft, requests>>
pinningVars   == <<pinned, used, ppc, pmsg, pread>>
promptVars    == <<promptRows, editorVars, pinningVars>>

VersionStatuses == {"draft", "published", "archived"}
WithStatus(p, s) == {v \in 1..Len(versions[p]) : versions[p][v].status = s}
TheOne(S)        == IF S = {} THEN Null ELSE CHOOSE v \in S : TRUE
DraftOf(p)       == TheOne(WithStatus(p, "draft"))
PublishedOf(p)   == TheOne(WithStatus(p, "published"))

PromptTypeOK ==
    /\ \A p \in Prompts : versions[p] \in
           Seq([status : VersionStatuses, content : Contents])
    /\ agents \in [Agents -> [prompt : Prompts, active : BOOLEAN] \cup {Null}]
    /\ assigned \in Agents \cup {Null}
    /\ lockOf \in [Prompts -> Editors \cup {Null}]
    /\ epc \in [Editors -> [op : {"idle", "draft", "publish"},
                            prompt : Prompts \cup {Null}, content : Contents \cup {Null}]]
    /\ pinned \in [Inbounds -> [agent : Agents, prompt : Prompts,
                                version : 1..MaxVersions] \cup {Null}]
    /\ used \in [Inbounds -> SUBSET Contents]
    /\ ppc \in [PromptWorkers -> {"idle", "agent", "version", "insert", "load"}]
    /\ requests \in 0..MaxRequests

Resting        == [op |-> "idle", prompt |-> Null, content |-> Null]
Drafting(p, c) == [op |-> "draft", prompt |-> p, content |-> c]
Publishing(p)  == [op |-> "publish", prompt |-> p, content |-> Null]

PromptInit ==
    /\ versions = [p \in Prompts |-> <<>>]
    /\ frozen = [p \in Prompts |-> <<>>]
    /\ agents = [a \in Agents |-> Null]
    /\ assigned = Null
    /\ lockOf = [p \in Prompts |-> Null]
    /\ epc = [e \in Editors |-> Resting]
    /\ edraft = [e \in Editors |-> Null]
    /\ pinned = [m \in Inbounds |-> Null]
    /\ used = [m \in Inbounds |-> {}]
    /\ ppc = [w \in PromptWorkers |-> "idle"]
    /\ pmsg = [w \in PromptWorkers |-> Null]
    /\ pread = [w \in PromptWorkers |-> Null]
    /\ requests = 0

-----------------------------------------------------------------------------
(* The managers.                                                           *)

Request == requests < MaxRequests /\ requests' = requests + 1

\* A prompt is created with its first draft.
CreatePrompt(p, c) ==
    /\ Request
    /\ versions[p] = <<>>
    /\ versions' = [versions EXCEPT ![p] = <<[status |-> "draft", content |-> c]>>]
    /\ frozen' = [frozen EXCEPT ![p] = <<Null>>]
    /\ UNCHANGED <<agents, assigned, lockOf, epc, edraft, pinningVars>>

\* Mutant: the prompt is read without FOR UPDATE.
ReadPrompt(e, p, work) ==
    /\ Request
    /\ epc[e] = Resting /\ versions[p] # <<>>
    /\ lockOf' = [lockOf EXCEPT ![p] = e]
    /\ epc' = [epc EXCEPT ![e] = work]
    /\ edraft' = [edraft EXCEPT ![e] = DraftOf(p)]
    /\ UNCHANGED <<promptRows, pinningVars>>

LockPrompt(e, p, work) ==
    /\ Request
    /\ epc[e] = Resting /\ versions[p] # <<>>
    /\ lockOf[p] = Null
    /\ lockOf' = [lockOf EXCEPT ![p] = e]
    /\ epc' = [epc EXCEPT ![e] = work]
    /\ edraft' = [edraft EXCEPT ![e] = DraftOf(p)]
    /\ UNCHANGED <<promptRows, pinningVars>>

ReleasePrompt(e, p) ==
    /\ lockOf' = [lockOf EXCEPT ![p] = Null]
    /\ epc' = [epc EXCEPT ![e] = Resting]
    /\ edraft' = [edraft EXCEPT ![e] = Null]
    /\ UNCHANGED requests

\* The draft found under the lock is rewritten; without one, the next version
\* number becomes the draft.
PutPromptDraft(e, p, c) ==
    /\ epc[e] = Drafting(p, c)
    /\ IF edraft[e] # Null
       THEN /\ versions' = [versions EXCEPT ![p][edraft[e]].content = c]
            /\ UNCHANGED frozen
       ELSE /\ Len(versions[p]) < MaxVersions
            /\ versions' = [versions EXCEPT ![p] =
                               Append(@, [status |-> "draft", content |-> c])]
            /\ frozen' = [frozen EXCEPT ![p] = Append(@, Null)]
    /\ ReleasePrompt(e, p)
    /\ UNCHANGED <<agents, assigned, pinningVars>>

\* The published version is archived, the draft takes its place.
PublishPrompt(e, p) ==
    /\ epc[e] = Publishing(p)
    /\ IF edraft[e] = Null
       THEN UNCHANGED <<versions, frozen>>
       ELSE /\ versions' = [versions EXCEPT ![p] =
                 [v \in 1..Len(@) |->
                     IF v = edraft[e] THEN [@[v] EXCEPT !.status = "published"]
                     ELSE IF @[v].status = "published"
                          THEN [@[v] EXCEPT !.status = "archived"] ELSE @[v]]]
            /\ frozen' = [frozen EXCEPT ![p][edraft[e]] =
                                            versions[p][edraft[e]].content]
    /\ ReleasePrompt(e, p)
    /\ UNCHANGED <<agents, assigned, pinningVars>>

\* create_agent and update_agent: the prompt only has to exist.
PutAgent(a, p, active) ==
    /\ Request
    /\ versions[p] # <<>>
    /\ agents[a] = Null => active
    /\ agents' = [agents EXCEPT ![a] = [prompt |-> p, active |-> active]]
    /\ UNCHANGED <<versions, frozen, assigned, lockOf, epc, edraft, pinningVars>>

PutChannelAssignment(a) ==
    /\ Request
    /\ agents[a] # Null
    /\ assigned' = a
    /\ UNCHANGED <<versions, frozen, agents, lockOf, epc, edraft, pinningVars>>

DeleteChannelAssignment ==
    /\ Request
    /\ assigned # Null
    /\ assigned' = Null
    /\ UNCHANGED <<versions, frozen, agents, lockOf, epc, edraft, pinningVars>>

ManagerStep ==
    \/ \E p \in Prompts, c \in Contents : CreatePrompt(p, c)
    \/ \E e \in Editors, p \in Prompts :
           \/ LockPrompt(e, p, Publishing(p)) \/ PublishPrompt(e, p)
           \/ \E c \in Contents :
                  LockPrompt(e, p, Drafting(p, c)) \/ PutPromptDraft(e, p, c)
    \/ \E a \in Agents :
           \/ \E p \in Prompts, b \in BOOLEAN : PutAgent(a, p, b)
           \/ PutChannelAssignment(a)
    \/ DeleteChannelAssignment

-----------------------------------------------------------------------------
(* The workers.                                                            *)

PGoto(w, l) == ppc' = [ppc EXCEPT ![w] = l]
PLeave(w) ==
    /\ PGoto(w, "idle")
    /\ pmsg' = [pmsg EXCEPT ![w] = Null]
    /\ pread' = [pread EXCEPT ![w] = Null]

\* An existing run keeps its pins; otherwise the assignment is looked up.
StartRun(w, m) ==
    /\ ppc[w] = "idle"
    /\ pmsg' = [pmsg EXCEPT ![w] = m]
    /\ IF pinned[m] # Null
       THEN PGoto(w, "load") /\ UNCHANGED pread
       ELSE /\ assigned # Null
            /\ PGoto(w, "agent")
            /\ pread' = [pread EXCEPT ![w] = [agent |-> assigned]]
    /\ UNCHANGED <<promptRows, editorVars, pinned, used>>

\* An inactive agent answers nothing.
ReadAgent(w) ==
    /\ ppc[w] = "agent"
    /\ LET row == agents[pread[w].agent]
       IN  IF row.active
           THEN /\ PGoto(w, "version")
                /\ pread' = [pread EXCEPT ![w] =
                                [agent |-> @.agent, prompt |-> row.prompt]]
                /\ UNCHANGED pmsg
           ELSE PLeave(w)
    /\ UNCHANGED <<promptRows, editorVars, pinned, used>>

\* Without a published version the event fails for good.
ReadPublished(w) ==
    /\ ppc[w] = "version"
    /\ LET v == PublishedOf(pread[w].prompt)
       IN  IF v = Null
           THEN PLeave(w)
           ELSE /\ PGoto(w, "insert")
                /\ pread' = [pread EXCEPT ![w] = [agent |-> @.agent,
                                prompt |-> @.prompt, version |-> v]]
                /\ UNCHANGED pmsg
    /\ UNCHANGED <<promptRows, editorVars, pinned, used>>

\* The run is unique per message: the loser of the race fails on the event its
\* rollback has expired, and its delivery comes back.
PinVersion(w) ==
    /\ ppc[w] = "insert"
    /\ IF pinned[pmsg[w]] = Null
       THEN /\ pinned' = [pinned EXCEPT ![pmsg[w]] = pread[w]]
            /\ PGoto(w, "load")
            /\ pread' = [pread EXCEPT ![w] = Null]
            /\ UNCHANGED pmsg
       ELSE PLeave(w) /\ UNCHANGED pinned
    /\ UNCHANGED <<promptRows, editorVars, used>>

\* The snapshot takes the content of the pinned version, and is generated
\* with; the delivery may end here and come back.
LoadSnapshot(w) ==
    /\ ppc[w] = "load"
    /\ LET run == pinned[pmsg[w]]
       IN  used' = [used EXCEPT ![pmsg[w]] =
                        @ \cup {versions[run.prompt][run.version].content}]
    /\ PLeave(w)
    /\ UNCHANGED <<promptRows, editorVars, pinned>>

PinningStep(w) ==
    \/ \E m \in Inbounds : StartRun(w, m)
    \/ ReadAgent(w) \/ ReadPublished(w) \/ PinVersion(w) \/ LoadSnapshot(w)

PromptNext == ManagerStep \/ \E w \in PromptWorkers : PinningStep(w)

-----------------------------------------------------------------------------
(* Properties.                                                             *)

\* What was published never changes, archived versions included.
PublishedIsFrozen ==
    \A p \in Prompts : \A v \in 1..Len(versions[p]) :
        versions[p][v].status # "draft" => frozen[p][v] = versions[p][v].content

\* One draft and one published version at most, numbered in this order.
VersionsAreOrdered ==
    \A p \in Prompts : \A v, w \in 1..Len(versions[p]) :
        v < w => \/ versions[p][v].status = "archived"
                 \/ versions[p][v].status = "published" /\ versions[p][w].status = "draft"

\* All attempts at one message use one text, a published one, whatever the
\* managers publish, reassign or deactivate in between.
OnePromptPerMessage ==
    \A m \in Inbounds :
        /\ Cardinality(used[m]) <= 1
        /\ used[m] # {} => used[m] = {frozen[pinned[m].prompt][pinned[m].version]}

\* Published prompts are immutable and ordered, and a message is answered with
\* the one its run was pinned to (agents.publish_prompt, put_prompt_draft,
\* agent_runtime._resolve_or_create_run, _load_run_snapshot).
PromptsAreImmutable ==
    PublishedIsFrozen /\ VersionsAreOrdered /\ OnePromptPerMessage
=============================================================================

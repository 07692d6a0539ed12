------------------------------ MODULE WebsiteChat ------------------------------
(***************************************************************************)
(* The chat widget of one browser and the public endpoints of the website  *)
(* channel behind it.  The widget polls and submits at the same time, over *)
(* one `session` variable.                                                 *)
(*                                                                         *)
(* Source: apps/webchat/widget.js, website_chat.py, channel_models.py.     *)
(*                                                                         *)
(* One poll is in flight at a time (the timer may overlap slow ones, which *)
(* adds messages in another order).  The account, origin and session are   *)
(* read in one step.  Enqueuing and what follows it are in ChannelIngress. *)
(***************************************************************************)
EXTENDS Naturals, Sequences, FiniteSets

CONSTANTS
    Texts,         \* what the visitor has to say
    NoSession,     \* JavaScript null
    MaxSessions,   \* bound: sessions opened
    MaxTries,      \* bound: submissions of one text
    MaxSwitches    \* bound: requests of managers

ASSUME WebAssumption ==
    /\ NoSession \notin Nat \cup Texts
    /\ MaxSessions \in Nat /\ MaxTries \in Nat /\ MaxSwitches \in Nat

VARIABLES
    channel,       \* "closed": account inactive or origin not allowed;
                   \* "mute": open, without its text capability; "open"
    switches,
    sessions,      \* WebsiteChatSession rows, and which have expired
    expired,
    log,           \* Messages of the website: [session, text, reply]
    webQueued,     \* of these, the inbound ones with a job
    current,       \* widget: `session`
    poll, submit,  \* widget: the two activities
    shown,         \* widget: `rendered`
    tries,         \* submissions of each text
    failed         \* of these, the ones reported as not sent

adminVars  == <<channel, switches>>
serverVars == <<sessions, expired, log, webQueued>>
widgetVars == <<current, poll, submit, shown, tries, failed>>
webVars    == <<adminVars, serverVars, widgetVars>>

Still == [pc |-> "idle"]

WebTypeOK ==
    /\ channel \in {"closed", "mute", "open"} /\ switches \in 0..MaxSwitches
    /\ sessions \subseteq 1..MaxSessions /\ expired \subseteq sessions
    /\ log \in Seq([session : sessions, text : Texts, reply : BOOLEAN])
    /\ webQueued \subseteq 1..Len(log)
    /\ current \in sessions \cup {NoSession}
    /\ poll.pc \in {"idle", "open", "opened", "fetch", "fetched"}
    /\ submit.pc \in {"idle", "open", "opened", "post", "persist", "enqueue", "answer"}
    /\ shown \subseteq 1..Len(log)
    /\ tries \in [Texts -> 0..MaxTries] /\ failed \in [Texts -> 0..MaxTries]

WebInit ==
    /\ channel = "open" /\ switches = 0
    /\ sessions = {} /\ expired = {} /\ log = <<>> /\ webQueued = {}
    /\ current = NoSession
    /\ poll = Still /\ submit = Still
    /\ shown = {}
    /\ tries = [t \in Texts |-> 0] /\ failed = [t \in Texts |-> 0]

-----------------------------------------------------------------------------
(* The manager.                                                            *)

\* update_channel, put_channel_capabilities, update_website_origins.
SwitchChannel(to) ==
    /\ switches < MaxSwitches /\ switches' = switches + 1
    /\ channel' = to /\ channel # to
    /\ UNCHANGED <<serverVars, widgetVars>>

-----------------------------------------------------------------------------
(* The public endpoints, as the widget calls them.                         *)

\* _load_website_account, _require_allowed_origin: else 404 or 403.
Admitted == channel # "closed"
\* _require_session: else 401.
Valid(s) == s \in sessions \ expired

SessionExpires(s) ==
    /\ s \in sessions \ expired
    /\ expired' = expired \cup {s}
    /\ UNCHANGED <<adminVars, sessions, log, webQueued, widgetVars>>

\* The agent's or an operator's reply to a queued message.
AnswerPost(m) ==
    /\ m \in webQueued
    /\ ~\E n \in 1..Len(log) : log[n].reply /\ log[n].text = log[m].text
    /\ log' = Append(log, [log[m] EXCEPT !.reply = TRUE])
    /\ UNCHANGED <<adminVars, sessions, expired, webQueued, widgetVars>>

NewSession == Cardinality(sessions) + 1

\* create_website_session, called by ensureSession; the answer is on its way.
OpenSession ==
    /\ Admitted /\ NewSession <= MaxSessions
    /\ sessions' = sessions \cup {NewSession}
    /\ UNCHANGED <<expired, log, webQueued>>

-----------------------------------------------------------------------------
(* The widget: poll().                                                     *)

\* ensureSession returns the session there is, or asks for a new one.
StartPoll ==
    /\ poll.pc = "idle"
    /\ poll' = IF current # NoSession THEN [pc |-> "fetch", session |-> current]
               ELSE [pc |-> "open"]
    /\ UNCHANGED <<adminVars, serverVars, current, submit, shown, tries, failed>>

PollOpens ==
    /\ poll.pc = "open"
    /\ OpenSession
    /\ poll' = [pc |-> "opened", session |-> NewSession]
    /\ UNCHANGED <<adminVars, current, submit, shown, tries, failed>>

\* The response sets `session`, whatever another call has set it to.
PollTakesSession ==
    /\ poll.pc = "opened"
    /\ current' = poll.session
    /\ poll' = [pc |-> "fetch", session |-> poll.session]
    /\ UNCHANGED <<adminVars, serverVars, submit, shown, tries, failed>>

\* list_website_messages: the texts of the conversation bound to the session.
FetchMessages ==
    /\ poll.pc = "fetch"
    /\ Admitted
    /\ poll' = [pc |-> "fetched", session |-> poll.session, ok |-> Valid(poll.session),
                items |-> {n \in 1..Len(log) : log[n].session = poll.session}]
    /\ UNCHANGED <<adminVars, serverVars, current, submit, shown, tries, failed>>

\* 401 forgets the session; otherwise what is new is rendered.
PollEnds ==
    /\ poll.pc = "fetched"
    /\ IF poll.ok THEN shown' = shown \cup poll.items /\ UNCHANGED current
       ELSE shown' = {} /\ current' = NoSession
    /\ poll' = Still
    /\ UNCHANGED <<adminVars, serverVars, submit, tries, failed>>

\* Refused, or lost on the way: the timer polls again.
PollFails ==
    /\ poll.pc # "idle"
    /\ poll' = Still
    /\ UNCHANGED <<adminVars, serverVars, current, submit, shown, tries, failed>>

-----------------------------------------------------------------------------
(* The widget: the submit handler.                                         *)

Sent(t) == tries[t] > failed[t]

\* The visitor types a text, again if it was reported as not sent.  Each
\* submission has a client_message_id of its own.
StartSubmit(t) ==
    /\ submit.pc = "idle"
    /\ ~Sent(t) /\ tries[t] < MaxTries
    /\ tries' = [tries EXCEPT ![t] = @ + 1]
    /\ submit' = IF current # NoSession
                 THEN [pc |-> "post", text |-> t, session |-> current]
                 ELSE [pc |-> "open", text |-> t]
    /\ UNCHANGED <<adminVars, serverVars, current, poll, shown, failed>>

SubmitOpens ==
    /\ submit.pc = "open"
    /\ OpenSession
    /\ submit' = [pc |-> "opened", text |-> submit.text, session |-> NewSession]
    /\ UNCHANGED <<adminVars, current, poll, shown, tries, failed>>

SubmitTakesSession ==
    /\ submit.pc = "opened"
    /\ current' = submit.session
    /\ submit' = [submit EXCEPT !.pc = "post"]
    /\ UNCHANGED <<adminVars, serverVars, poll, shown, tries, failed>>

SubmitGoto(l) ==
    /\ submit' = [submit EXCEPT !.pc = l]
    /\ UNCHANGED <<adminVars, current, poll, shown, tries, failed>>

\* post_website_message: the checks.
AdmitPost ==
    /\ submit.pc = "post"
    /\ Admitted /\ Valid(submit.session)
    /\ SubmitGoto("persist")
    /\ UNCHANGED serverVars

\* Mutant: 202 as soon as the message is stored.
PersistAndAnswer ==
    /\ submit.pc = "persist"
    /\ IF channel = "open"
       THEN log' = Append(log, [session |-> submit.session, text |-> submit.text,
                                reply |-> FALSE])
       ELSE UNCHANGED log
    /\ SubmitGoto("answer")
    /\ UNCHANGED <<sessions, expired, webQueued>>

\* persist_inbound_event: with the capability off, an ignored event without a
\* Message, answered 202 as well.
PersistPost ==
    /\ submit.pc = "persist"
    /\ IF channel = "open"
       THEN /\ log' = Append(log, [session |-> submit.session, text |-> submit.text,
                                   reply |-> FALSE])
            /\ SubmitGoto("enqueue")
       ELSE UNCHANGED log /\ SubmitGoto("answer")
    /\ UNCHANGED <<sessions, expired, webQueued>>

Inserted == CHOOSE n \in 1..Len(log) :
                /\ ~log[n].reply /\ log[n].text = submit.text
                /\ \A k \in 1..Len(log) :
                      ~log[k].reply /\ log[k].text = submit.text => k <= n

EnqueuePost ==
    /\ submit.pc = "enqueue"
    /\ webQueued' = webQueued \cup {Inserted}
    /\ SubmitGoto("answer")
    /\ UNCHANGED <<sessions, expired, log>>

\* 202.
SubmitEnds ==
    /\ submit.pc = "answer"
    /\ submit' = Still
    /\ UNCHANGED <<adminVars, serverVars, current, poll, shown, tries, failed>>

\* Refused, failed, 503 from Redis, or the answer is lost: "not sent".
SubmitFails ==
    /\ submit.pc # "idle"
    /\ submit' = Still
    /\ failed' = [failed EXCEPT ![submit.text] = @ + 1]
    /\ UNCHANGED <<adminVars, serverVars, current, poll, shown, tries>>

WebNext ==
    \/ \E to \in {"closed", "mute", "open"} : SwitchChannel(to)
    \/ \E s \in sessions : SessionExpires(s)
    \/ \E m \in webQueued : AnswerPost(m)
    \/ StartPoll \/ PollOpens \/ PollTakesSession \/ FetchMessages \/ PollEnds
    \/ PollFails
    \/ \E t \in Texts : StartSubmit(t)
    \/ SubmitOpens \/ SubmitTakesSession \/ AdmitPost \/ PersistPost \/ EnqueuePost
    \/ SubmitEnds \/ SubmitFails

-----------------------------------------------------------------------------
(* Properties.                                                             *)

Copies(t) == {n \in 1..Len(log) : log[n].text = t /\ ~log[n].reply}

\* The visitor is asked to try again for every copy but one.
CopiesFollowFailures == \A t \in Texts : Cardinality(Copies(t)) <= failed[t] + 1

\* A message that waits for no answer and has no job was reported as not sent.
UnqueuedIsReported ==
    \A n \in 1..Len(log) :
        ~log[n].reply /\ n \notin webQueued =>
            \/ failed[log[n].text] > 0
            \/ submit.pc = "enqueue" /\ submit.text = log[n].text

\* A reply belongs to the session of the message it answers.
RepliesComeHome ==
    \A n \in 1..Len(log) : log[n].reply =>
        \E m \in webQueued : m < n /\ log[m].session = log[n].session /\ log[m].text = log[n].text

\* What the visitor is told of a submission is so (widget.js submit handler,
\* post_website_message, persist_inbound_event).
WebsiteChatIsHonest ==
    CopiesFollowFailures /\ UnqueuedIsReported /\ RepliesComeHome
=============================================================================

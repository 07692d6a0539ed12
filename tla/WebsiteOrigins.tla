---------------------------- MODULE WebsiteOrigins ----------------------------
(***************************************************************************)
(* The allowed origins of one website channel, replaced as a whole by      *)
(* concurrent requests of managers while browsers are let in by them.      *)
(*                                                                         *)
(* Source: create_website_channel, update_website_origins and              *)
(* _require_allowed_origin of website_chat.py; WebsiteChannelOrigin.       *)
(*                                                                         *)
(* A row carries the number of the request that inserted it, 0 for the     *)
(* channel's creation: a DELETE only sees the rows of its snapshot.        *)
(***************************************************************************)
EXTENDS Naturals, FiniteSets

CONSTANTS
    OriginEditors, \* concurrent requests of managers
    Origins,       \* sites that may be allowed
    MaxPuts        \* bound: requests of managers

ASSUME OriginAssumption == MaxPuts \in Nat

VARIABLES
    siteRows,      \* WebsiteChannelOrigin rows: <<origin, put>>; {}: no channel
    put,           \* each request: [pc, want, seen, number]
    puts,
    replaced,      \* rows that a committed request saw and deleted
    lastPut,       \* number of the last request committed
    overlap        \* a request committed beside rows it had not seen

originVars == <<siteRows, put, puts, replaced, lastPut, overlap>>

OriginSets == (SUBSET Origins) \ {{}}
NoPut      == [pc |-> "idle", want |-> {}, seen |-> {}, number |-> 0]

OriginTypeOK ==
    /\ siteRows \subseteq Origins \X (0..MaxPuts)
    /\ put \in [OriginEditors -> [pc : {"idle", "delete", "insert"}, want : SUBSET Origins,
                  seen : SUBSET (Origins \X (0..MaxPuts)), number : 0..MaxPuts]]
    /\ puts \in 0..MaxPuts /\ lastPut \in 0..MaxPuts /\ overlap \in BOOLEAN
    /\ replaced \subseteq Origins \X (0..MaxPuts)

OriginInit ==
    /\ siteRows = {} /\ replaced = {}
    /\ put = [e \in OriginEditors |-> NoPut]
    /\ puts = 0 /\ lastPut = 0 /\ overlap = FALSE

\* create_website_channel: account, capability and origins in one commit.
CreateWebsiteChannel(want) ==
    /\ siteRows = {}
    /\ siteRows' = want \X {0}
    /\ UNCHANGED <<put, puts, replaced, lastPut, overlap>>

\* update_website_origins: the DELETE takes its snapshot.
BeginPut(e, want) ==
    /\ put[e].pc = "idle" /\ siteRows # {}
    /\ puts < MaxPuts /\ puts' = puts + 1
    /\ put' = [put EXCEPT ![e] = [pc |-> "delete", want |-> want, seen |-> siteRows,
                                  number |-> puts + 1]]
    /\ UNCHANGED <<siteRows, replaced, lastPut, overlap>>

\* It waits for another transaction that has deleted one of its rows.
DeleteOrigins(e) ==
    /\ put[e].pc = "delete"
    /\ \A f \in OriginEditors :
          put[f].pc = "insert" => put[f].seen \cap put[e].seen = {}
    /\ put' = [put EXCEPT ![e].pc = "insert", ![e].seen = @ \cap siteRows]
    /\ UNCHANGED <<siteRows, puts, replaced, lastPut, overlap>>

\* The INSERTs and the commit.  A row of a wanted origin that is still there
\* breaks the unique constraint: 500, nothing changed.
CommitOrigins(e) ==
    /\ put[e].pc = "insert"
    /\ put' = [put EXCEPT ![e] = NoPut]
    /\ LET kept == siteRows \ put[e].seen
       IN  IF \E r \in kept : r[1] \in put[e].want
           THEN UNCHANGED <<siteRows, replaced, lastPut, overlap>>
           ELSE /\ siteRows' = kept \cup (put[e].want \X {put[e].number})
                /\ replaced' = replaced \cup put[e].seen
                /\ lastPut' = put[e].number
                /\ overlap' = (overlap \/ kept # {})
    /\ UNCHANGED puts

\* The connection is lost before the commit.
RollBackPut(e) ==
    /\ put[e].pc # "idle"
    /\ put' = [put EXCEPT ![e] = NoPut]
    /\ UNCHANGED <<siteRows, puts, replaced, lastPut, overlap>>

OriginNext ==
    \/ \E want \in OriginSets : CreateWebsiteChannel(want)
    \/ \E e \in OriginEditors :
          \/ \E want \in OriginSets : BeginPut(e, want)
          \/ DeleteOrigins(e) \/ CommitOrigins(e) \/ RollBackPut(e)

-----------------------------------------------------------------------------
\* An origin some manager's committed request took away does not come back but
\* by another request, an origin is listed once, the channel never loses all
\* of them, and unless two requests overlapped one request set them all
\* (update_website_origins, uq_website_channel_origins_account_origin).
OriginsAreReplaced ==
    /\ siteRows \cap replaced = {}
    /\ \A r, s \in siteRows : r[1] = s[1] => r = s
    /\ puts > 0 => siteRows # {}
    /\ ~overlap => \A r \in siteRows : r[2] = lastPut
=============================================================================

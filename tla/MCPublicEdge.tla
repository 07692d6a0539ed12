----------------------------- MODULE MCPublicEdge -----------------------------
(***************************************************************************)
(* What the internet calls, each part on a small instance: the webhook of  *)
(* a channel, the website chat, the origins that are let into it, and the  *)
(* rate limiter in front.                                                  *)
(*                                                                         *)
(* The parts share no row: `part` picks the one a behaviour is about, and  *)
(* the others stay as they were.                                           *)
(***************************************************************************)
EXTENDS MCChannelIngress, WebsiteChat, WebsiteOrigins, RateLimit

CONSTANTS t1, e1, e2, o1, o2

OneText    == {t1}
TwoEditors == {e1, e2}
TwoOrigins == {o1, o2}

VARIABLE part

EdgeInit ==
    /\ part \in {"webhook", "website", "origins", "rate"}
    /\ Init /\ WebInit /\ OriginInit /\ RateInit

EdgeNext ==
    /\ UNCHANGED part
    /\ \/ part = "webhook" /\ Next /\ UNCHANGED <<webVars, originVars, rateVars>>
       \/ part = "website" /\ WebNext /\ UNCHANGED <<vars, originVars, rateVars>>
       \/ part = "origins" /\ OriginNext /\ UNCHANGED <<vars, webVars, rateVars>>
       \/ part = "rate" /\ RateNext /\ UNCHANGED <<vars, webVars, originVars>>

EdgeSpec ==
    EdgeInit /\ [][EdgeNext]_<<part, vars, webVars, originVars, rateVars>> /\ Fairness

\* The rows of every part are what the tables allow, the website is honest to its
\* visitors, its origins are the ones a manager asked for, and no client gets more
\* requests through than two windows allow (widget.js, website_chat.py,
\* production_hardening.RedisRateLimiter).
EdgeTypesOK == TypeOK /\ WebTypeOK /\ OriginTypeOK /\ RateTypeOK
EdgeIsSound == EdgeTypesOK /\ WebsiteChatIsHonest /\ OriginsAreReplaced /\ RateIsLimited
=============================================================================

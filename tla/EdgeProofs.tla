------------------------------- MODULE EdgeProofs -------------------------------
(***************************************************************************)
(* Proofs about what the internet calls: the webhook of a channel, the     *)
(* website chat, its origins and the rate limiter, for any number of       *)
(* requests, workers, updates and sessions and any values of the bounds.   *)
(***************************************************************************)
EXTENDS MCPublicEdge, FiniteSetTheorems, SequenceTheorems, TLAPS

-----------------------------------------------------------------------------
(* The rate limiter.  What is let through in the current window, and in it   *)
(* and the one before.                                                       *)

\* AdmittedFrom of a table.
Between(table, s, t) == table[t] - (IF s = 0 THEN 0 ELSE table[s - 1])

Counted == IF count < Limit THEN count ELSE Limit

\* admitted is flat from now on.
AdmittedFlat == \A s \in 0..MaxTime : s >= now => admitted[s] = admitted[now]

\* While a key lives: since it was made, and since a window before it.
KeyCounts ==
    ttl > 0 => \A s \in 0..now :
        /\ s + Window >= now + ttl => Between(admitted, s, now) <= Counted + outages
        /\ s + 2 * Window > now + ttl => Between(admitted, s, now) <= Limit + Counted + outages

\* Without a key: in the last window, and now.
NoKeyCounts ==
    ttl = 0 => \A s \in 0..now :
        /\ s + Window > now => Between(admitted, s, now) <= Limit + outages
        /\ s = now => Between(admitted, s, now) <= outages

\* Windows that are over.
PastCounts ==
    \A s \in 0..now :
        s + Window <= now => Between(admitted, s, s + Window - 1) <= 2 * Limit + outages

\* A refusal was promised the end of the window.
PromiseFits == count > Limit => promise = now + ttl

RateInv ==
    /\ RateTypeOK
    /\ AdmittedFlat
    /\ KeyCounts
    /\ NoKeyCounts
    /\ PastCounts
    /\ PromiseFits

\* The types, as the steps need them.
LEMMA RateTypes ==
    ASSUME RateTypeOK
    PROVE  /\ now \in 0..MaxTime /\ ttl \in 0..Window /\ count \in Nat /\ outages \in Nat
           /\ MaxTime \in Nat /\ Window \in Nat \ {0} /\ Limit \in Nat \ {0}
           /\ \A s \in 0..MaxTime : admitted[s] \in Nat
           /\ \A s, t \in 0..MaxTime : Between(admitted, s, t) \in Int
           /\ Counted \in Nat /\ Counted <= Limit /\ Counted <= count
  <1>1 /\ now \in 0..MaxTime /\ ttl \in 0..Window /\ count \in Nat /\ outages \in Nat
       /\ MaxTime \in Nat /\ Window \in Nat \ {0} /\ Limit \in Nat \ {0}
       /\ \A s \in 0..MaxTime : admitted[s] \in Nat
    BY RateAssumption DEF RateTypeOK
  <1> QED
    BY <1>1 DEF Between, Counted

\* One more request is let through now.
LEMMA OneMore ==
    ASSUME RateTypeOK, AdmittedFlat, LetThrough
    PROVE  /\ admitted' \in [0..MaxTime -> Nat]
           /\ \A s \in 0..MaxTime : s >= now => admitted'[s] = admitted'[now]
           /\ \A s \in 0..now : Between(admitted', s, now) = Between(admitted, s, now) + 1
           /\ \A s \in 0..now : s + Window <= now =>
                 Between(admitted', s, s + Window - 1) = Between(admitted, s, s + Window - 1)
  <1>1 /\ now \in 0..MaxTime /\ MaxTime \in Nat /\ Window \in Nat \ {0}
       /\ \A s \in 0..MaxTime : admitted[s] \in Nat
       /\ \A s \in 0..MaxTime : admitted'[s] = IF s >= now THEN admitted[s] + 1 ELSE admitted[s]
    BY RateTypes DEF LetThrough
  <1>2 admitted' \in [0..MaxTime -> Nat]
    BY <1>1 DEF LetThrough
  <1>3 \A s \in 0..MaxTime : s >= now => admitted'[s] = admitted'[now]
    BY <1>1 DEF AdmittedFlat
  <1>4 \A s \in 0..now : Between(admitted', s, now) = Between(admitted, s, now) + 1
    BY <1>1 DEF Between
  <1>5 \A s \in 0..now : s + Window <= now =>
          Between(admitted', s, s + Window - 1) = Between(admitted, s, s + Window - 1)
    BY <1>1 DEF Between
  <1> QED
    BY <1>2, <1>3, <1>4, <1>5

\* A second later the sums to now are what they were.
LEMMA TickKeeps ==
    ASSUME RateInv, Tick
    PROVE  RateInv'
  <1>1 /\ RateTypeOK /\ AdmittedFlat /\ KeyCounts /\ NoKeyCounts /\ PastCounts /\ PromiseFits
    BY DEF RateInv
  <1>2 /\ now \in 0..MaxTime /\ ttl \in 0..Window /\ count \in Nat /\ outages \in Nat
       /\ MaxTime \in Nat /\ Window \in Nat \ {0} /\ Limit \in Nat \ {0}
       /\ \A s \in 0..MaxTime : admitted[s] \in Nat
       /\ \A s, t \in 0..MaxTime : Between(admitted, s, t) \in Int
       /\ Counted \in Nat /\ Counted <= Limit
    BY <1>1, RateTypes
  <1>3 /\ now' = now + 1 /\ now < MaxTime /\ admitted' = admitted /\ outages' = outages
       /\ ttl' = (IF ttl = 0 THEN 0 ELSE ttl - 1)
       /\ count' = (IF ttl <= 1 THEN 0 ELSE count)
       /\ promise' = promise
    BY DEF Tick
  <1>4 RateTypeOK' /\ AdmittedFlat'
    BY <1>1, <1>2, <1>3 DEF RateTypeOK, AdmittedFlat
  <1>5 /\ \A s \in 0..now : Between(admitted, s, now + 1) = Between(admitted, s, now)
       /\ Between(admitted, now + 1, now + 1) = 0
    BY <1>1, <1>2, <1>3 DEF Between, AdmittedFlat
  <1>6 KeyCounts'
    <2> SUFFICES ASSUME ttl' > 0, NEW s \in 0..(now + 1)
                 PROVE  /\ s + Window >= now' + ttl' =>
                              Between(admitted, s, now + 1) <= Counted' + outages
                        /\ s + 2 * Window > now' + ttl' =>
                              Between(admitted, s, now + 1) <= Limit + Counted' + outages
      BY <1>3 DEF KeyCounts
    <2>1 now' + ttl' = now + ttl /\ ttl > 0 /\ count' = count
      BY <1>2, <1>3
    <2>2 Counted' = Counted
      BY <2>1 DEF Counted
    <2>3 CASE s \in 0..now
      BY <1>1, <1>2, <1>5, <2>1, <2>2, <2>3 DEF KeyCounts
    <2>4 CASE s = now + 1
      BY <1>2, <1>5, <2>2, <2>4
    <2> QED
      BY <1>2, <2>3, <2>4
  <1>7 ASSUME NEW s \in 0..now, s + Window > now + 1 \/ (s + Window = now + 1 /\ ttl # 1)
       PROVE  Between(admitted, s, now) <= Limit + outages \/ ttl > 1
    <2>1 Between(admitted, s, now) \in Int
      BY <1>2
    <2>2 CASE ttl = 0
      BY <1>1, <1>2, <1>7, <2>2 DEF NoKeyCounts
    <2>3 CASE ttl = 1
      <3>1 Between(admitted, s, now) <= Counted + outages
        BY <1>1, <1>2, <1>7, <2>3 DEF KeyCounts
      <3> QED
        BY <1>2, <2>1, <3>1
    <2> QED
      BY <1>2, <2>2, <2>3
  <1>8 NoKeyCounts'
    <2> SUFFICES ASSUME ttl' = 0, NEW s \in 0..(now + 1)
                 PROVE  /\ s + Window > now + 1 => Between(admitted, s, now + 1) <= Limit + outages
                        /\ s = now + 1 => Between(admitted, s, now + 1) <= outages
      BY <1>3 DEF NoKeyCounts
    <2>1 ~(ttl > 1)
      BY <1>2, <1>3
    <2>2 CASE s \in 0..now
      BY <1>2, <1>5, <1>7, <2>1, <2>2
    <2>3 CASE s = now + 1
      BY <1>2, <1>5, <2>3
    <2> QED
      BY <1>2, <2>2, <2>3
  <1>9 PastCounts'
    <2> SUFFICES ASSUME NEW s \in 0..(now + 1), s + Window <= now + 1
                 PROVE  Between(admitted, s, s + Window - 1) <= 2 * Limit + outages
      BY <1>3 DEF PastCounts
    <2>1 s \in 0..now /\ s + Window - 1 \in 0..MaxTime
      BY <1>2, <1>3
    <2>2 CASE s + Window <= now
      BY <1>1, <2>1, <2>2 DEF PastCounts
    <2>3 CASE s + Window = now + 1
      <3>1 s + Window - 1 = now /\ Between(admitted, s, now) \in Int
        BY <1>2, <2>1, <2>3
      <3>2 Between(admitted, s, now) <= Limit + Counted + outages
           \/ Between(admitted, s, now) <= Limit + outages
        BY <1>1, <1>2, <2>1, <2>3 DEF KeyCounts, NoKeyCounts
      <3> QED
        BY <1>2, <3>1, <3>2
    <2> QED
      BY <1>2, <2>1, <2>2, <2>3
  <1>10 PromiseFits'
    BY <1>1, <1>2, <1>3 DEF PromiseFits
  <1> QED
    BY <1>4, <1>6, <1>8, <1>9, <1>10 DEF RateInv

\* A request that is counted and let through, and one that is not counted.
LEMMA LetThroughKeeps ==
    ASSUME RateInv, LetThrough, now' = now, promise' = promise,
           \/ /\ count < Limit /\ count' = count + 1 /\ outages' = outages
              /\ ttl' = IF count = 0 THEN Window ELSE ttl
           \/ /\ outages < MaxOutages /\ outages' = outages + 1
              /\ count' = count /\ ttl' = ttl
    PROVE  RateInv'
  <1>1 /\ RateTypeOK /\ AdmittedFlat /\ KeyCounts /\ NoKeyCounts /\ PastCounts /\ PromiseFits
    BY DEF RateInv
  <1>2 /\ now \in 0..MaxTime /\ ttl \in 0..Window /\ count \in Nat /\ outages \in Nat
       /\ MaxTime \in Nat /\ Window \in Nat \ {0} /\ Limit \in Nat \ {0}
       /\ \A s, t \in 0..MaxTime : Between(admitted, s, t) \in Int
       /\ Counted \in Nat /\ Counted <= Limit
       /\ (ttl = 0 <=> count = 0)
    BY <1>1, RateTypes DEF RateTypeOK
  <1>3 /\ admitted' \in [0..MaxTime -> Nat]
       /\ \A s \in 0..MaxTime : s >= now => admitted'[s] = admitted'[now]
       /\ \A s \in 0..now : Between(admitted', s, now) = Between(admitted, s, now) + 1
       /\ \A s \in 0..now : s + Window <= now =>
             Between(admitted', s, s + Window - 1) = Between(admitted, s, s + Window - 1)
    BY <1>1, OneMore
  <1>4 RateTypeOK'
    <2>1 /\ count' \in Nat /\ ttl' \in 0..Window /\ (ttl' = 0 <=> count' = 0)
         /\ outages' \in 0..MaxOutages
      BY SMTT(30), <1>1, <1>2, RateAssumption DEF RateTypeOK
    <2> QED
      BY <1>1, <1>3, <2>1 DEF RateTypeOK
  <1>5 AdmittedFlat'
    BY <1>3 DEF AdmittedFlat
  <1>6 Counted' + outages' = Counted + outages + 1 /\ outages' \in Nat /\ outages' >= outages
    BY <1>2 DEF Counted
  <1>7 KeyCounts'
    <2> SUFFICES ASSUME ttl' > 0, NEW s \in 0..now
                 PROVE  /\ s + Window >= now + ttl' =>
                              Between(admitted', s, now) <= Counted' + outages'
                        /\ s + 2 * Window > now + ttl' =>
                              Between(admitted', s, now) <= Limit + Counted' + outages'
      BY DEF KeyCounts
    <2>1 Between(admitted, s, now) \in Int /\ Between(admitted', s, now) = Between(admitted, s, now) + 1
      <3>1 s \in 0..MaxTime
        BY <1>2
      <3> QED
        BY <1>2, <1>3, <3>1
    <2>2 CASE ttl > 0
      <3>1 ttl' = ttl
        BY <1>2, <2>2
      <3>2 /\ s + Window >= now + ttl => Between(admitted, s, now) <= Counted + outages
           /\ s + 2 * Window > now + ttl => Between(admitted, s, now) <= Limit + Counted + outages
        BY <1>1, <2>2 DEF KeyCounts
      <3>3 Counted' \in Nat
        BY <1>2 DEF Counted
      <3> QED
        <4> DEFINE sum == Between(admitted, s, now)
                   sum2 == Between(admitted', s, now)
        <4>1 sum \in Int /\ sum2 = sum + 1
          BY <2>1
        <4>2 /\ s + Window >= now + ttl => sum <= Counted + outages
             /\ s + 2 * Window > now + ttl => sum <= Limit + Counted + outages
          BY <3>2
        <4> HIDE DEF sum, sum2
        <4>3 Counted \in Nat /\ outages \in Nat /\ Limit \in Nat
          BY <1>2
        <4>4 sum <= Counted + outages => sum2 <= Counted' + outages'
          BY <1>6, <4>1, <4>3
        <4>5 sum <= Limit + Counted + outages => sum2 <= Limit + Counted' + outages'
          <5> DEFINE c == Counted
                     d == Counted'
                     f == outages
                     g == outages'
          <5>1 /\ c \in Nat /\ d \in Nat /\ f \in Nat /\ g \in Nat /\ Limit \in Nat
               /\ d + g = c + f + 1 /\ sum \in Int /\ sum2 = sum + 1
            BY <1>6, <3>3, <4>1, <4>3
          <5> HIDE DEF c, d, f, g
          <5>2 sum <= Limit + c + f => sum2 <= Limit + d + g
            BY <5>1
          <5> QED
            BY <5>2 DEF c, d, f, g
        <4> QED
          BY <3>1, <4>2, <4>4, <4>5 DEF sum2
    <2>3 CASE ttl = 0
      <3>1 ttl' = Window /\ Counted = 0 /\ Counted' = 1 /\ outages' = outages
        BY <1>2, <2>3 DEF Counted
      <3>2 /\ s + Window > now => Between(admitted, s, now) <= Limit + outages
           /\ s = now => Between(admitted, s, now) <= outages
        BY <1>1, <2>3 DEF NoKeyCounts
      <3> QED
        BY <1>2, <2>1, <3>1, <3>2
    <2> QED
      BY <1>2, <2>2, <2>3
  <1>8 NoKeyCounts'
    <2> SUFFICES ASSUME ttl' = 0, NEW s \in 0..now
                 PROVE  /\ s + Window > now => Between(admitted', s, now) <= Limit + outages'
                        /\ s = now => Between(admitted', s, now) <= outages'
      BY DEF NoKeyCounts
    <2>1 Between(admitted, s, now) \in Int /\ Between(admitted', s, now) = Between(admitted, s, now) + 1
      <3>1 s \in 0..MaxTime
        BY <1>2
      <3> QED
        BY <1>2, <1>3, <3>1
    <2>2 ttl = 0 /\ outages' = outages + 1
      BY <1>2
    <2>3 /\ s + Window > now => Between(admitted, s, now) <= Limit + outages
         /\ s = now => Between(admitted, s, now) <= outages
      BY <1>1, <2>2 DEF NoKeyCounts
    <2> QED
      BY <1>2, <2>1, <2>2, <2>3
  <1>9 PastCounts'
    <2> SUFFICES ASSUME NEW s \in 0..now, s + Window <= now
                 PROVE  Between(admitted', s, s + Window - 1) <= 2 * Limit + outages'
      BY DEF PastCounts
    <2>1 Between(admitted, s, s + Window - 1) <= 2 * Limit + outages
      BY <1>1 DEF PastCounts
    <2>2 s + Window - 1 \in 0..MaxTime
      BY <1>2
    <2>3 Between(admitted, s, s + Window - 1) \in Int
      BY <1>2, <2>2
    <2> QED
      BY <1>2, <1>3, <1>6, <2>1, <2>3
  <1>10 PromiseFits'
    BY <1>1, <1>2 DEF PromiseFits
  <1> QED
    BY <1>4, <1>5, <1>7, <1>8, <1>9, <1>10 DEF RateInv

\* A request that is refused.
LEMMA RefusalKeeps ==
    ASSUME RateInv, Request, count = Limit
    PROVE  RateInv'
  <1>1 /\ RateTypeOK /\ AdmittedFlat /\ KeyCounts /\ NoKeyCounts /\ PastCounts
    BY DEF RateInv
  <1>2 /\ now \in 0..MaxTime /\ ttl \in 0..Window /\ count \in Nat /\ outages \in Nat
       /\ MaxTime \in Nat /\ Window \in Nat \ {0} /\ Limit \in Nat \ {0}
       /\ (ttl = 0 <=> count = 0)
    BY <1>1, RateTypes DEF RateTypeOK
  <1>3 /\ count' = count + 1 /\ ttl' = ttl /\ promise' = now + ttl
       /\ now' = now /\ admitted' = admitted /\ outages' = outages
    BY <1>2 DEF Request
  <1>4 RateTypeOK' /\ AdmittedFlat'
    BY <1>1, <1>2, <1>3 DEF RateTypeOK, AdmittedFlat
  <1>5 Counted' = Counted
    BY <1>2, <1>3 DEF Counted
  <1>6 KeyCounts' /\ NoKeyCounts' /\ PastCounts'
    BY <1>1, <1>3, <1>5 DEF KeyCounts, NoKeyCounts, PastCounts
  <1>7 PromiseFits'
    BY <1>3 DEF PromiseFits
  <1> QED
    BY <1>4, <1>6, <1>7 DEF RateInv

\* No step breaks it.
LEMMA RateStep ==
    ASSUME RateInv, RateNext
    PROVE  RateInv'
  <1>1 /\ count \in Nat /\ Limit \in Nat /\ outages \in Nat
    BY RateTypes DEF RateInv
  <1>2 CASE Request /\ count < Limit
    <2>1 count + 1 <= Limit /\ count <= Limit
      BY <1>1, <1>2
    <2>2 /\ LetThrough /\ now' = now /\ outages' = outages /\ promise' = promise
         /\ count' = count + 1 /\ ttl' = IF count = 0 THEN Window ELSE ttl
      BY <1>2, <2>1 DEF Request
    <2> QED
      BY <1>2, <2>2, LetThroughKeeps
  <1>3 CASE Request /\ ~(count < Limit)
    <2>1 count = Limit
      BY <1>1, <1>3 DEF Request
    <2> QED
      BY <1>3, <2>1, RefusalKeeps
  <1>4 CASE RequestUncounted
    BY <1>4, LetThroughKeeps DEF RequestUncounted
  <1> QED
    BY <1>2, <1>3, <1>4, TickKeeps DEF RateNext

\* No key, nothing let through.
LEMMA RateStart ==
    ASSUME RateInit
    PROVE  RateInv
  <1> USE RateAssumption
  <1>1 RateTypeOK /\ AdmittedFlat
    BY DEF RateInit, RateTypeOK, AdmittedFlat
  <1>2 \A s \in 0..now : Between(admitted, s, now) = 0 /\ s = 0
    BY DEF RateInit, Between
  <1>3 KeyCounts /\ NoKeyCounts /\ PastCounts /\ PromiseFits
    BY <1>2 DEF RateInit, KeyCounts, NoKeyCounts, PastCounts, PromiseFits
  <1> QED
    BY <1>1, <1>3 DEF RateInv

\* It says that the bound is kept.
LEMMA RateSound ==
    ASSUME RateInv
    PROVE  RateTypeOK /\ RateIsLimited
  <1>1 /\ RateTypeOK /\ KeyCounts /\ NoKeyCounts /\ PastCounts /\ PromiseFits
    BY DEF RateInv
  <1>2 /\ now \in 0..MaxTime /\ ttl \in 0..Window /\ count \in Nat /\ outages \in Nat
       /\ MaxTime \in Nat /\ Window \in Nat \ {0} /\ Limit \in Nat \ {0}
       /\ \A s, t \in 0..MaxTime : Between(admitted, s, t) \in Int
       /\ Counted \in Nat /\ Counted <= Limit
    BY <1>1, RateTypes
  <1>3 \A s, t : AdmittedFrom(s, t) = Between(admitted, s, t)
    BY DEF AdmittedFrom, Between
  <1>4 ASSUME NEW s \in 0..now, s + Window - 1 < now
       PROVE  Between(admitted, s, s + Window - 1) <= 2 * Limit + outages
    BY <1>1, <1>2, <1>4 DEF PastCounts
  <1>5 ASSUME NEW s \in 0..now, ~(s + Window - 1 < now)
       PROVE  Between(admitted, s, now) <= 2 * Limit + outages
    <2>1 Between(admitted, s, now) \in Int
      BY <1>2
    <2>2 Between(admitted, s, now) <= Limit + Counted + outages
         \/ Between(admitted, s, now) <= Limit + outages
      BY <1>1, <1>2, <1>5 DEF KeyCounts, NoKeyCounts
    <2> QED
      BY <1>2, <2>1, <2>2
  <1> QED
    BY <1>1, <1>3, <1>4, <1>5 DEF RateIsLimited, PromiseFits

-----------------------------------------------------------------------------
(* The allowed origins.  A row carries the number of its request, and no     *)
(* request under way has the number of a row there is or was.                *)

EverThere == siteRows \cup replaced

PutFits(e) ==
    put[e].pc # "idle" =>
        /\ put[e].want # {}
        /\ put[e].number \in 1..puts
        /\ put[e].seen \subseteq EverThere
        /\ \A r \in EverThere : r[2] # put[e].number

OriginInv ==
    /\ OriginTypeOK
    /\ OriginsAreReplaced
    /\ \A e \in OriginEditors : PutFits(e)
    /\ \A e, f \in OriginEditors :
          put[e].pc # "idle" /\ put[f].pc # "idle" /\ put[e].number = put[f].number => e = f
    /\ \A r \in EverThere : r[2] <= puts
    /\ siteRows = {} => puts = 0
    /\ puts = 0 => replaced = {} /\ lastPut = 0

\* What a put is.
LEMMA PutTypes ==
    ASSUME OriginTypeOK, NEW e \in OriginEditors
    PROVE  /\ put[e].pc \in {"idle", "delete", "insert"}
           /\ put[e].want \in SUBSET Origins
           /\ put[e].seen \in SUBSET (Origins \X (0..MaxPuts))
           /\ put[e].number \in 0..MaxPuts
  BY DEF OriginTypeOK

\* Where one request is replaced by another state of itself.
LEMMA PutWritten ==
    ASSUME OriginTypeOK, NEW e \in OriginEditors, NEW next,
           next \in [pc : {"idle", "delete", "insert"}, want : SUBSET Origins,
                     seen : SUBSET (Origins \X (0..MaxPuts)), number : 0..MaxPuts],
           put' = [put EXCEPT ![e] = next]
    PROVE  /\ put' \in [OriginEditors -> [pc : {"idle", "delete", "insert"}, want : SUBSET Origins,
                          seen : SUBSET (Origins \X (0..MaxPuts)), number : 0..MaxPuts]]
           /\ put'[e] = next
           /\ \A f \in OriginEditors \ {e} : put'[f] = put[f]
  <1> DEFINE R == [pc : {"idle", "delete", "insert"}, want : SUBSET Origins,
                   seen : SUBSET (Origins \X (0..MaxPuts)), number : 0..MaxPuts]
  <1>1 put \in [OriginEditors -> R] /\ next \in R
    BY DEF OriginTypeOK
  <1> HIDE DEF R
  <1>2 /\ put' \in [OriginEditors -> R]
       /\ put'[e] = next
       /\ \A f \in OriginEditors \ {e} : put'[f] = put[f]
    BY <1>1
  <1> QED
    BY <1>2 DEF R

\* A request that ends, or that narrows what it has seen.
LEMMA PutNarrows ==
    ASSUME OriginInv, NEW e \in OriginEditors,
           UNCHANGED <<siteRows, puts, replaced, lastPut, overlap>>,
           \/ put' = [put EXCEPT ![e] = NoPut]
           \/ /\ put[e].pc = "delete"
              /\ put' = [put EXCEPT ![e].pc = "insert", ![e].seen = @ \cap siteRows]
    PROVE  OriginInv'
  <1>1 /\ OriginTypeOK /\ MaxPuts \in Nat
       /\ put[e].want \in SUBSET Origins /\ put[e].number \in 0..MaxPuts
       /\ put[e].seen \in SUBSET (Origins \X (0..MaxPuts))
    BY PutTypes, OriginAssumption DEF OriginInv
  <1> DEFINE next == put'[e]
  <1>2 /\ OriginTypeOK'
       /\ \A f \in OriginEditors \ {e} : put'[f] = put[f]
       /\ next.pc = "idle" \/ (/\ put[e].pc # "idle" /\ next.want = put[e].want
                               /\ next.number = put[e].number /\ next.seen \subseteq put[e].seen)
    <2>1 CASE put' = [put EXCEPT ![e] = NoPut]
      <3>1 NoPut \in [pc : {"idle", "delete", "insert"}, want : SUBSET Origins,
                      seen : SUBSET (Origins \X (0..MaxPuts)), number : 0..MaxPuts]
        BY <1>1 DEF NoPut
      <3>2 NoPut.pc = "idle"
        BY DEF NoPut
      <3> QED
        BY <1>1, <2>1, <3>1, <3>2, PutWritten DEF OriginTypeOK
    <2>2 CASE put[e].pc = "delete" /\
              put' = [put EXCEPT ![e].pc = "insert", ![e].seen = @ \cap siteRows]
      <3> DEFINE moved == [put[e] EXCEPT !.pc = "insert", !.seen = @ \cap siteRows]
                 R == [pc : {"idle", "delete", "insert"}, want : SUBSET Origins,
                       seen : SUBSET (Origins \X (0..MaxPuts)), number : 0..MaxPuts]
      <3>1 put[e] \in [pc : {"idle", "delete", "insert"}, want : SUBSET Origins,
                       seen : SUBSET (Origins \X (0..MaxPuts)), number : 0..MaxPuts]
        BY <1>1 DEF OriginTypeOK
      <3>2 moved \in [pc : {"idle", "delete", "insert"}, want : SUBSET Origins,
                      seen : SUBSET (Origins \X (0..MaxPuts)), number : 0..MaxPuts]
        BY <3>1
      <3>3 /\ moved.want = put[e].want /\ moved.number = put[e].number
           /\ moved.seen \subseteq put[e].seen
        BY <3>1
      <3>4 put' = [put EXCEPT ![e] = moved]
        <4>1 put \in [OriginEditors -> R]
          BY <1>1 DEF OriginTypeOK
        <4> QED
          BY <2>2, <3>1, <4>1
      <3> HIDE DEF R
      <3> HIDE DEF moved
      <3>5 put'[e] = moved
        BY <1>1, <3>2, <3>4, PutWritten
      <3> QED
        BY <1>1, <2>2, <3>2, <3>3, <3>4, <3>5, PutWritten DEF OriginTypeOK
    <2> QED
      BY <2>1, <2>2
  <1> HIDE DEF next
  <1>3 \A f \in OriginEditors : PutFits(f)
    BY DEF OriginInv
  <1>4 EverThere' = EverThere
    BY DEF EverThere
  <1>5 \A f \in OriginEditors : PutFits(f)'
    <2> SUFFICES ASSUME NEW f \in OriginEditors PROVE PutFits(f)'
      OBVIOUS
    <2>1 CASE f = e
      BY <1>2, <1>3, <1>4, <2>1 DEF PutFits, next
    <2>2 CASE f # e
      BY <1>2, <1>3, <1>4, <2>2 DEF PutFits
    <2> QED
      BY <2>1, <2>2
  <1>6 \A f, g \in OriginEditors :
          put'[f].pc # "idle" /\ put'[g].pc # "idle" /\ put'[f].number = put'[g].number => f = g
    BY <1>2 DEF OriginInv, next
  <1>7 OriginsAreReplaced'
    BY DEF OriginInv, OriginsAreReplaced
  <1> QED
    BY <1>2, <1>4, <1>5, <1>6, <1>7 DEF OriginInv

\* A new request gets a number of its own.
LEMMA BeginKeeps ==
    ASSUME OriginInv, NEW e \in OriginEditors, NEW want \in OriginSets, BeginPut(e, want)
    PROVE  OriginInv'
  <1> DEFINE next == [pc |-> "delete", want |-> want, seen |-> siteRows, number |-> puts + 1]
  <1>1 /\ OriginTypeOK /\ MaxPuts \in Nat /\ puts \in 0..MaxPuts /\ puts < MaxPuts
       /\ puts' = puts + 1 /\ siteRows # {}
       /\ put' = [put EXCEPT ![e] = next]
       /\ siteRows' = siteRows /\ replaced' = replaced /\ lastPut' = lastPut /\ overlap' = overlap
       /\ want \in SUBSET Origins /\ want # {}
       /\ siteRows \in SUBSET (Origins \X (0..MaxPuts))
    BY OriginAssumption DEF OriginInv, OriginTypeOK, BeginPut, OriginSets
  <1>2 /\ next.pc = "delete" /\ next.want = want /\ next.seen = siteRows /\ next.number = puts + 1
       /\ next \in [pc : {"idle", "delete", "insert"}, want : SUBSET Origins,
                    seen : SUBSET (Origins \X (0..MaxPuts)), number : 0..MaxPuts]
    BY <1>1
  <1> HIDE DEF next
  <1>3 /\ put' \in [OriginEditors -> [pc : {"idle", "delete", "insert"}, want : SUBSET Origins,
                      seen : SUBSET (Origins \X (0..MaxPuts)), number : 0..MaxPuts]]
       /\ put'[e] = next
       /\ \A f \in OriginEditors \ {e} : put'[f] = put[f]
    BY <1>1, <1>2, PutWritten
  <1>4 OriginTypeOK'
    BY <1>1, <1>3 DEF OriginTypeOK
  <1>5 EverThere' = EverThere
    BY <1>1 DEF EverThere
  <1>6 \A r \in EverThere : r[2] \in Nat /\ r[2] <= puts
    BY <1>1 DEF OriginInv, OriginTypeOK, EverThere
  <1>7 \A f \in OriginEditors : PutFits(f) /\ put[f].number \in 0..MaxPuts
    BY <1>1, PutTypes DEF OriginInv
  <1>8 \A f \in OriginEditors : PutFits(f)'
    <2> SUFFICES ASSUME NEW f \in OriginEditors PROVE PutFits(f)'
      OBVIOUS
    <2>1 CASE f = e
      <3>1 siteRows \subseteq EverThere
        BY DEF EverThere
      <3>2 \A r \in EverThere : r[2] # puts + 1
        BY <1>1, <1>6
      <3> QED
        BY <1>1, <1>2, <1>3, <1>5, <2>1, <3>1, <3>2 DEF PutFits
    <2>2 CASE f # e
      BY <1>1, <1>3, <1>5, <1>7, <2>2 DEF PutFits
    <2> QED
      BY <2>1, <2>2
  <1>9 \A f, g \in OriginEditors :
          put'[f].pc # "idle" /\ put'[g].pc # "idle" /\ put'[f].number = put'[g].number => f = g
    <2>1 \A f \in OriginEditors \ {e} : put[f].pc # "idle" => put[f].number # puts + 1
      BY <1>1, <1>7 DEF PutFits
    <2> QED
      BY <1>2, <1>3, <2>1 DEF OriginInv
  <1>10 OriginsAreReplaced'
    BY <1>1 DEF OriginInv, OriginsAreReplaced
  <1>11 \A r \in EverThere' : r[2] <= puts'
    BY <1>1, <1>5, <1>6
  <1> QED
    BY <1>1, <1>4, <1>8, <1>9, <1>10, <1>11 DEF OriginInv

\* The channel is made with request 0.
LEMMA CreateKeeps ==
    ASSUME OriginInv, NEW want \in OriginSets, CreateWebsiteChannel(want)
    PROVE  OriginInv'
  <1>1 /\ OriginTypeOK /\ MaxPuts \in Nat /\ puts = 0 /\ replaced = {} /\ lastPut = 0
       /\ siteRows' = want \X {0} /\ want \in SUBSET Origins /\ want # {}
       /\ put' = put /\ puts' = puts /\ replaced' = replaced /\ lastPut' = lastPut /\ overlap' = overlap
    BY OriginAssumption DEF OriginInv, CreateWebsiteChannel, OriginSets
  <1>2 /\ siteRows' \in SUBSET (Origins \X (0..MaxPuts))
       /\ \A r \in siteRows' : r[2] = 0
       /\ \A r, s \in siteRows' : r[1] = s[1] => r = s
    BY <1>1
  <1>3 OriginTypeOK'
    BY <1>1, <1>2 DEF OriginTypeOK
  <1>4 \A f \in OriginEditors : put[f].pc = "idle"
    BY <1>1 DEF OriginInv, PutFits
  <1>5 \A r \in EverThere' : r[2] <= puts'
    BY <1>1, <1>2 DEF EverThere
  <1>6 \A f \in OriginEditors : PutFits(f)'
    BY <1>1, <1>4 DEF PutFits
  <1>7 OriginsAreReplaced'
    BY <1>1, <1>2 DEF OriginsAreReplaced
  <1> QED
    BY <1>1, <1>3, <1>4, <1>5, <1>6, <1>7 DEF OriginInv

\* A commit takes away what it has seen and puts rows of its own number.
LEMMA CommitOriginsKeeps ==
    ASSUME OriginInv, NEW e \in OriginEditors, CommitOrigins(e)
    PROVE  OriginInv'
  <1> DEFINE kept == siteRows \ put[e].seen
             mine == put[e].want \X {put[e].number}
             n == put[e].number
  <1>1 CASE \E r \in kept : r[1] \in put[e].want
    BY <1>1, PutNarrows DEF CommitOrigins
  <1>2 CASE ~\E r \in kept : r[1] \in put[e].want
    <2>1 /\ siteRows' = kept \cup mine
         /\ replaced' = replaced \cup put[e].seen
         /\ lastPut' = n /\ overlap' = (overlap \/ kept # {}) /\ puts' = puts
         /\ put' = [put EXCEPT ![e] = NoPut]
         /\ put[e].pc = "insert"
      BY <1>2 DEF CommitOrigins
    <2>2 /\ OriginTypeOK /\ MaxPuts \in Nat /\ PutFits(e)
         /\ put[e].want \in SUBSET Origins /\ n \in 0..MaxPuts
         /\ put[e].seen \in SUBSET (Origins \X (0..MaxPuts))
         /\ puts \in 0..MaxPuts
      BY PutTypes, OriginAssumption DEF OriginInv, OriginTypeOK
    <2>3 /\ put[e].want # {} /\ n \in 1..puts /\ put[e].seen \subseteq EverThere
         /\ \A r \in EverThere : r[2] # n
      BY <2>1, <2>2 DEF PutFits
    <2>4 /\ \A r \in mine : r[2] = n /\ r[1] \in put[e].want
         /\ mine # {}
         /\ mine \subseteq Origins \X (0..MaxPuts)
         /\ \A r, s \in mine : r[1] = s[1] => r = s
      <3>1 \A r \in mine : r \in Origins \X (0..MaxPuts) /\ r[1] \in put[e].want /\ r = <<r[1], n>>
        BY <2>2
      <3>2 PICK o \in put[e].want : TRUE
        BY <2>3
      <3>3 <<o, n>> \in mine
        OBVIOUS
      <3> HIDE DEF mine
      <3>4 \A r, s \in mine : r[1] = s[1] => r = s
        BY <3>1
      <3> QED
        BY <3>1, <3>3, <3>4
    <2>5 /\ NoPut \in [pc : {"idle", "delete", "insert"}, want : SUBSET Origins,
                       seen : SUBSET (Origins \X (0..MaxPuts)), number : 0..MaxPuts]
         /\ NoPut.pc = "idle"
      BY <2>2 DEF NoPut
    <2>6 /\ put' \in [OriginEditors -> [pc : {"idle", "delete", "insert"}, want : SUBSET Origins,
                        seen : SUBSET (Origins \X (0..MaxPuts)), number : 0..MaxPuts]]
         /\ put'[e].pc = "idle"
         /\ \A f \in OriginEditors \ {e} : put'[f] = put[f]
      BY <2>1, <2>2, <2>5, PutWritten
    <2> HIDE DEF mine
    <2>7 OriginTypeOK'
      BY <2>1, <2>2, <2>4, <2>6 DEF OriginTypeOK
    <2>8 EverThere' = EverThere \cup mine
      BY <2>1, <2>3 DEF EverThere
    <2>9 \A f \in OriginEditors \ {e} :
            PutFits(f) /\ (put[f].pc # "idle" => put[f].number # n)
      BY <2>1 DEF OriginInv
    <2>10 \A f \in OriginEditors : PutFits(f)'
      <3> SUFFICES ASSUME NEW f \in OriginEditors PROVE PutFits(f)'
        OBVIOUS
      <3>1 CASE f = e
        BY <2>6, <3>1 DEF PutFits
      <3>2 CASE f # e
        BY <2>1, <2>4, <2>6, <2>8, <2>9, <3>2 DEF PutFits
      <3> QED
        BY <3>1, <3>2
    <2>11 \A f, g \in OriginEditors :
             put'[f].pc # "idle" /\ put'[g].pc # "idle" /\ put'[f].number = put'[g].number => f = g
      BY <2>6 DEF OriginInv
    <2>12 \A r \in EverThere' : r[2] <= puts'
      BY <2>1, <2>2, <2>3, <2>4, <2>8 DEF OriginInv
    <2>13 OriginsAreReplaced'
      <3>1 siteRows \cap replaced = {}
        BY DEF OriginInv, OriginsAreReplaced
      <3>2 siteRows' \cap replaced' = {}
        <4>1 kept \cap replaced' = {}
          BY <2>1, <3>1
        <4>2 mine \cap replaced' = {}
          BY <2>1, <2>3, <2>4 DEF EverThere
        <4> QED
          BY <2>1, <4>1, <4>2
      <3>3 \A r, s \in siteRows' : r[1] = s[1] => r = s
        <4>1 \A r, s \in kept : r[1] = s[1] => r = s
          BY DEF OriginInv, OriginsAreReplaced
        <4>2 \A r \in kept, s \in mine : r[1] # s[1]
          BY <1>2, <2>4
        <4> QED
          BY <2>1, <2>4, <4>1, <4>2
      <3>4 siteRows' # {}
        BY <2>1, <2>4
      <3>5 ~overlap' => \A r \in siteRows' : r[2] = lastPut'
        BY <2>1, <2>4
      <3> QED
        BY <3>2, <3>3, <3>4, <3>5 DEF OriginsAreReplaced
    <2>14 siteRows' # {} /\ puts' # 0
      BY <2>1, <2>2, <2>3, <2>4
    <2> QED
      BY <2>7, <2>10, <2>11, <2>12, <2>13, <2>14 DEF OriginInv
  <1> QED
    BY <1>1, <1>2

\* No step breaks it.
LEMMA OriginStep ==
    ASSUME OriginInv, OriginNext
    PROVE  OriginInv'
  <1>1 ASSUME NEW e \in OriginEditors, DeleteOrigins(e) \/ RollBackPut(e)
       PROVE  OriginInv'
    BY <1>1, PutNarrows DEF DeleteOrigins, RollBackPut
  <1> QED
    BY <1>1, BeginKeeps, CreateKeeps, CommitOriginsKeeps DEF OriginNext

\* No channel, no origins.
LEMMA OriginStart ==
    ASSUME OriginInit
    PROVE  OriginInv
  <1>1 NoPut \in [pc : {"idle", "delete", "insert"}, want : SUBSET Origins,
                  seen : SUBSET (Origins \X (0..MaxPuts)), number : 0..MaxPuts]
       /\ NoPut.pc = "idle"
    BY OriginAssumption DEF NoPut
  <1>2 OriginTypeOK
    <2> DEFINE R == [pc : {"idle", "delete", "insert"}, want : SUBSET Origins,
                     seen : SUBSET (Origins \X (0..MaxPuts)), number : 0..MaxPuts]
    <2>1 put \in [OriginEditors -> R]
      <3> HIDE DEF R
      <3>1 NoPut \in R
        BY <1>1 DEF R
      <3> QED
        BY <3>1 DEF OriginInit
    <2>2 /\ siteRows \subseteq Origins \X (0..MaxPuts) /\ replaced \subseteq Origins \X (0..MaxPuts)
         /\ puts \in 0..MaxPuts /\ lastPut \in 0..MaxPuts
      BY OriginAssumption DEF OriginInit
    <2>3 overlap \in BOOLEAN
      BY Zenon DEF OriginInit
    <2> QED
      BY <2>1, <2>2, <2>3, Zenon DEF OriginTypeOK
  <1>3 OriginsAreReplaced /\ EverThere = {}
    BY DEF OriginInit, OriginsAreReplaced, EverThere
  <1>4 \A e \in OriginEditors : PutFits(e) /\ put[e].pc = "idle"
    BY <1>1 DEF OriginInit, PutFits
  <1> QED
    BY <1>2, <1>3, <1>4 DEF OriginInit, OriginInv

-----------------------------------------------------------------------------
(* The webhook and the worker: the inductive invariant.                      *)

\* Without an event there is no Message; never two of them, or of a Contact.
RowsFollowEvents ==
    /\ \A u \in Updates : event[u] = "none" => rows[u] = 0
    /\ CanonicalStateIsUnique

\* A job is about an event that was committed.
EntriesHaveEvents ==
    /\ \A e \in entries : event[e[1]] # "none"
    /\ \A h \in Hooks : hpc[h] \in {"enqueue", "check", "mark"} => event[UpdateOf(h)] # "none"

\* A job there is, a worker's job, and the status of a hook's or worker's making
\* are of an update that was queued.
StatusMeansQueued ==
    /\ \A u \in Updates : event[u] \in {"enqueued", "processed"} => u \in queued
    /\ \A e \in entries : e[1] \in queued
    /\ \A w \in Workers : wpc[w] # "idle" => EventOf(w) \in queued
    /\ \A h \in Hooks : hpc[h] \in {"check", "mark"} => UpdateOf(h) \in queued

\* What is about to be answered is queued or needs no job.
RepliesFit ==
    \A h \in Hooks :
        hpc[h] = "reply" => UpdateOf(h) \in queued \/ event[UpdateOf(h)] = "ignored"

IngressInv ==
    /\ TypeOK
    /\ RowsFollowEvents
    /\ EntriesHaveEvents
    /\ StatusMeansQueued
    /\ RepliesFit
    /\ AcceptedMeansQueued

\* Faults are bounded.
LEMMA FaultFits ==
    ASSUME TypeOK, Fault
    PROVE  faults' \in 0..MaxFaults
  BY IngressAssumption DEF TypeOK, Fault

\* Types are preserved, and a job keeps its event.
LEMMA IngressTypeStep ==
    ASSUME TypeOK, EntriesHaveEvents, Next
    PROVE  TypeOK'
  <1> USE IngressAssumption DEF TypeOK, Statuses, Final, Entries, HookPcs, WorkerPcs, UpdateOf, EventOf, EntriesHaveEvents
  <1>1 ASSUME NEW h \in Hooks, NEW u \in Updates, PostUpdate(h, u)
       PROVE  TypeOK'
    <2>1 posts[u] + 1 \in 1..MaxPosts
      BY <1>1 DEF PostUpdate
    <2>2 <<u, posts[u] + 1>> \in Entries
      BY <2>1
    <2>3 posts' \in [Updates -> 0..MaxPosts]
      BY <1>1, <2>1 DEF PostUpdate
    <2> HIDE DEF Entries
    <2>4 PICK e \in Entries : hjob' = [hjob EXCEPT ![h] = e]
      BY <1>1, <2>2 DEF PostUpdate
    <2>5 hpc' = [hpc EXCEPT ![h] = "lookup"] /\ UNCHANGED <<tableVars, accepted, queueVars, fresh, workerVars, faults>>
      BY <1>1 DEF PostUpdate
    <2>6 hjob' \in [Hooks -> Entries \cup {<<>>}] /\ hpc' \in [Hooks -> HookPcs]
      BY <2>4, <2>5
    <2>7 \A k \in Hooks : hpc'[k] # "idle" => hjob'[k] \in Entries
      BY <2>4, <2>5
    <2>8 \A w \in Workers : wpc'[w] # "idle" => wjob'[w] \in Entries /\ event'[wjob'[w][1]] # "none"
      BY <2>5 DEF tableVars, workerVars
    <2> QED
      BY <2>3, <2>5, <2>6, <2>7, <2>8 DEF tableVars, queueVars, hookVars, workerVars
  <1>2 ASSUME NEW h \in Hooks, LookUpEvent(h)
       PROVE  TypeOK'
    BY <1>2 DEF LookUpEvent, HookGoto, tableVars, queueVars, hookVars, workerVars
  <1>3 ASSUME NEW h \in Hooks, InsertConflicts(h)
       PROVE  TypeOK'
    BY <1>3 DEF InsertConflicts, tableVars, queueVars, hookVars, workerVars
  <1>4 ASSUME NEW h \in Hooks, InsertEvent(h)
       PROVE  TypeOK'
    BY <1>4 DEF InsertEvent, HookGoto, tableVars, queueVars, hookVars, workerVars
  <1>5 ASSUME NEW h \in Hooks, InsertIgnored(h)
       PROVE  TypeOK'
    BY <1>5 DEF InsertIgnored, HookGoto, tableVars, queueVars, hookVars, workerVars
  <1>6 ASSUME NEW h \in Hooks, Enqueue(h)
       PROVE  TypeOK'
    BY <1>6 DEF Enqueue, HookGoto, tableVars, queueVars, hookVars, workerVars
  <1>7 ASSUME NEW h \in Hooks, CheckReceived(h)
       PROVE  TypeOK'
    BY <1>7 DEF CheckReceived, HookGoto, tableVars, queueVars, hookVars, workerVars
  <1>8 ASSUME NEW h \in Hooks, MarkEnqueued(h)
       PROVE  TypeOK'
    BY <1>8 DEF MarkEnqueued, HookGoto, tableVars, queueVars, hookVars, workerVars
  <1>9 ASSUME NEW h \in Hooks, Reply(h)
       PROVE  TypeOK'
    BY <1>9 DEF Reply, HookGoto, tableVars, queueVars, hookVars, workerVars
  <1>10 ASSUME NEW h \in Hooks, HookDies(h)
       PROVE  TypeOK'
    <2>1 faults' \in 0..MaxFaults
      BY <1>10, FaultFits DEF HookDies
    <2> QED
      BY <1>10, <2>1 DEF HookDies, HookGoto, tableVars, queueVars, hookVars, workerVars
  <1>11 ASSUME NEW h \in Hooks, NEW added \in BOOLEAN, EnqueueFails(h, added)
       PROVE  TypeOK'
    <2>1 faults' \in 0..MaxFaults
      BY <1>11, FaultFits DEF EnqueueFails
    <2> QED
      BY <1>11, <2>1 DEF EnqueueFails, HookGoto, tableVars, queueVars, hookVars, workerVars
  <1>12 ASSUME NEW w \in Workers, NEW e \in Entries, TakeJob(w, e)
       PROVE  TypeOK'
    BY <1>12 DEF TakeJob, tableVars, queueVars, hookVars, workerVars
  <1>13 ASSUME NEW w \in Workers, ReadEvent(w)
       PROVE  TypeOK'
    BY <1>13 DEF ReadEvent, WorkerGoto, tableVars, queueVars, hookVars, workerVars
  <1>14 ASSUME NEW w \in Workers, IgnoreInactive(w)
       PROVE  TypeOK'
    BY <1>14 DEF IgnoreInactive, WorkerGoto, tableVars, queueVars, hookVars, workerVars
  <1>15 ASSUME NEW w \in Workers, MarkProcessed(w)
       PROVE  TypeOK'
    BY <1>15 DEF MarkProcessed, WorkerGoto, tableVars, queueVars, hookVars, workerVars
  <1>16 ASSUME NEW w \in Workers, CheckProcessed(w)
       PROVE  TypeOK'
    BY <1>16 DEF CheckProcessed, WorkerGoto, tableVars, queueVars, hookVars, workerVars
  <1>17 ASSUME NEW w \in Workers, MarkIgnored(w)
       PROVE  TypeOK'
    BY <1>17 DEF MarkIgnored, WorkerGoto, tableVars, queueVars, hookVars, workerVars
  <1>18 ASSUME NEW w \in Workers, Acknowledge(w)
       PROVE  TypeOK'
    BY <1>18 DEF Acknowledge, WorkerGoto, tableVars, queueVars, hookVars, workerVars
  <1>19 ASSUME NEW w \in Workers, WorkerDies(w)
       PROVE  TypeOK'
    <2>1 faults' \in 0..MaxFaults
      BY <1>19, FaultFits DEF WorkerDies
    <2> QED
      BY <1>19, <2>1 DEF WorkerDies, WorkerGoto, tableVars, queueVars, hookVars, workerVars
  <1>20 ASSUME NEW w \in Workers, NEW deny \in BOOLEAN, EvaluatePolicy(w, deny)
       PROVE  TypeOK'
    BY <1>20 DEF EvaluatePolicy, WorkerGoto, tableVars, queueVars, hookVars, workerVars
  <1>21 ASSUME NEW w \in Workers, NEW retryable \in BOOLEAN, EnrichFails(w, retryable)
       PROVE  TypeOK'
    <2>1 faults' \in 0..MaxFaults
      BY <1>21, FaultFits DEF EnrichFails
    <2> QED
      BY <1>21, <2>1 DEF EnrichFails, WorkerGoto, tableVars, queueVars, hookVars, workerVars
  <1>22 ASSUME NEW w \in Workers, NEW retryable \in BOOLEAN, RunAgent(w, retryable)
       PROVE  TypeOK'
    <2>1 faults' \in 0..MaxFaults
      BY <1>22, FaultFits DEF RunAgent
    <2> QED
      BY <1>22, <2>1 DEF RunAgent, WorkerGoto, tableVars, queueVars, hookVars, workerVars
  <1> QED
    BY <1>1, <1>2, <1>3, <1>4, <1>5, <1>6, <1>7, <1>8, <1>9, <1>10, <1>11, <1>12,
       <1>13, <1>14, <1>15, <1>16, <1>17, <1>18, <1>19, <1>20, <1>21, <1>22
       DEF Next, HookStep, WorkerStep

\* Only the insert makes a Message, and it makes the event.
LEMMA RowsOfEventsStep ==
    ASSUME TypeOK, RowsFollowEvents, Next
    PROVE  RowsFollowEvents'
  <1> USE IngressAssumption DEF TypeOK, Statuses, Final, Entries, HookPcs, WorkerPcs, UpdateOf, EventOf, RowsFollowEvents, CanonicalStateIsUnique
  <1>1 ASSUME NEW h \in Hooks, NEW u \in Updates, PostUpdate(h, u)
       PROVE  RowsFollowEvents'
    BY <1>1 DEF PostUpdate, tableVars, queueVars, hookVars, workerVars
  <1>2 ASSUME NEW h \in Hooks, LookUpEvent(h)
       PROVE  RowsFollowEvents'
    BY <1>2 DEF LookUpEvent, HookGoto, tableVars, queueVars, hookVars, workerVars
  <1>3 ASSUME NEW h \in Hooks, InsertConflicts(h)
       PROVE  RowsFollowEvents'
    BY <1>3 DEF InsertConflicts, tableVars, queueVars, hookVars, workerVars
  <1>4 ASSUME NEW h \in Hooks, InsertEvent(h)
       PROVE  RowsFollowEvents'
    BY <1>4 DEF InsertEvent, HookGoto, tableVars, queueVars, hookVars, workerVars
  <1>5 ASSUME NEW h \in Hooks, InsertIgnored(h)
       PROVE  RowsFollowEvents'
    BY <1>5 DEF InsertIgnored, HookGoto, tableVars, queueVars, hookVars, workerVars
  <1>6 ASSUME NEW h \in Hooks, Enqueue(h)
       PROVE  RowsFollowEvents'
    BY <1>6 DEF Enqueue, HookGoto, tableVars, queueVars, hookVars, workerVars
  <1>7 ASSUME NEW h \in Hooks, CheckReceived(h)
       PROVE  RowsFollowEvents'
    BY <1>7 DEF CheckReceived, HookGoto, tableVars, queueVars, hookVars, workerVars
  <1>8 ASSUME NEW h \in Hooks, MarkEnqueued(h)
       PROVE  RowsFollowEvents'
    BY <1>8 DEF MarkEnqueued, HookGoto, tableVars, queueVars, hookVars, workerVars
  <1>9 ASSUME NEW h \in Hooks, Reply(h)
       PROVE  RowsFollowEvents'
    BY <1>9 DEF Reply, HookGoto, tableVars, queueVars, hookVars, workerVars
  <1>10 ASSUME NEW h \in Hooks, HookDies(h)
       PROVE  RowsFollowEvents'
    BY <1>10 DEF HookDies, HookGoto, Fault, tableVars, queueVars, hookVars, workerVars
  <1>11 ASSUME NEW h \in Hooks, NEW added \in BOOLEAN, EnqueueFails(h, added)
       PROVE  RowsFollowEvents'
    BY <1>11 DEF EnqueueFails, HookGoto, Fault, tableVars, queueVars, hookVars, workerVars
  <1>12 ASSUME NEW w \in Workers, NEW e \in Entries, TakeJob(w, e)
       PROVE  RowsFollowEvents'
    BY <1>12 DEF TakeJob, tableVars, queueVars, hookVars, workerVars
  <1>13 ASSUME NEW w \in Workers, ReadEvent(w)
       PROVE  RowsFollowEvents'
    BY <1>13 DEF ReadEvent, WorkerGoto, tableVars, queueVars, hookVars, workerVars
  <1>14 ASSUME NEW w \in Workers, IgnoreInactive(w)
       PROVE  RowsFollowEvents'
    BY <1>14 DEF IgnoreInactive, WorkerGoto, tableVars, queueVars, hookVars, workerVars
  <1>15 ASSUME NEW w \in Workers, MarkProcessed(w)
       PROVE  RowsFollowEvents'
    BY <1>15 DEF MarkProcessed, WorkerGoto, tableVars, queueVars, hookVars, workerVars
  <1>16 ASSUME NEW w \in Workers, CheckProcessed(w)
       PROVE  RowsFollowEvents'
    BY <1>16 DEF CheckProcessed, WorkerGoto, tableVars, queueVars, hookVars, workerVars
  <1>17 ASSUME NEW w \in Workers, MarkIgnored(w)
       PROVE  RowsFollowEvents'
    BY <1>17 DEF MarkIgnored, WorkerGoto, tableVars, queueVars, hookVars, workerVars
  <1>18 ASSUME NEW w \in Workers, Acknowledge(w)
       PROVE  RowsFollowEvents'
    BY <1>18 DEF Acknowledge, WorkerGoto, tableVars, queueVars, hookVars, workerVars
  <1>19 ASSUME NEW w \in Workers, WorkerDies(w)
       PROVE  RowsFollowEvents'
    BY <1>19 DEF WorkerDies, WorkerGoto, Fault, tableVars, queueVars, hookVars, workerVars
  <1>20 ASSUME NEW w \in Workers, NEW deny \in BOOLEAN, EvaluatePolicy(w, deny)
       PROVE  RowsFollowEvents'
    BY <1>20 DEF EvaluatePolicy, WorkerGoto, tableVars, queueVars, hookVars, workerVars
  <1>21 ASSUME NEW w \in Workers, NEW retryable \in BOOLEAN, EnrichFails(w, retryable)
       PROVE  RowsFollowEvents'
    BY <1>21 DEF EnrichFails, WorkerGoto, Fault, tableVars, queueVars, hookVars, workerVars
  <1>22 ASSUME NEW w \in Workers, NEW retryable \in BOOLEAN, RunAgent(w, retryable)
       PROVE  RowsFollowEvents'
    BY <1>22 DEF RunAgent, WorkerGoto, Fault, tableVars, queueVars, hookVars, workerVars
  <1> QED
    BY <1>1, <1>2, <1>3, <1>4, <1>5, <1>6, <1>7, <1>8, <1>9, <1>10, <1>11, <1>12,
       <1>13, <1>14, <1>15, <1>16, <1>17, <1>18, <1>19, <1>20, <1>21, <1>22
       DEF Next, HookStep, WorkerStep

\* An event that is there stays.
LEMMA EntriesStep ==
    ASSUME TypeOK, EntriesHaveEvents, Next
    PROVE  EntriesHaveEvents'
  <1> USE IngressAssumption DEF TypeOK, Statuses, Final, Entries, HookPcs, WorkerPcs, UpdateOf, EventOf, EntriesHaveEvents
  <1>1 ASSUME NEW h \in Hooks, NEW u \in Updates, PostUpdate(h, u)
       PROVE  EntriesHaveEvents'
    BY <1>1 DEF PostUpdate, tableVars, queueVars, hookVars, workerVars
  <1>2 ASSUME NEW h \in Hooks, LookUpEvent(h)
       PROVE  EntriesHaveEvents'
    BY <1>2 DEF LookUpEvent, HookGoto, tableVars, queueVars, hookVars, workerVars
  <1>3 ASSUME NEW h \in Hooks, InsertConflicts(h)
       PROVE  EntriesHaveEvents'
    BY <1>3 DEF InsertConflicts, tableVars, queueVars, hookVars, workerVars
  <1>4 ASSUME NEW h \in Hooks, InsertEvent(h)
       PROVE  EntriesHaveEvents'
    BY <1>4 DEF InsertEvent, HookGoto, tableVars, queueVars, hookVars, workerVars
  <1>5 ASSUME NEW h \in Hooks, InsertIgnored(h)
       PROVE  EntriesHaveEvents'
    BY <1>5 DEF InsertIgnored, HookGoto, tableVars, queueVars, hookVars, workerVars
  <1>6 ASSUME NEW h \in Hooks, Enqueue(h)
       PROVE  EntriesHaveEvents'
    BY <1>6 DEF Enqueue, HookGoto, tableVars, queueVars, hookVars, workerVars
  <1>7 ASSUME NEW h \in Hooks, CheckReceived(h)
       PROVE  EntriesHaveEvents'
    BY <1>7 DEF CheckReceived, HookGoto, tableVars, queueVars, hookVars, workerVars
  <1>8 ASSUME NEW h \in Hooks, MarkEnqueued(h)
       PROVE  EntriesHaveEvents'
    BY <1>8 DEF MarkEnqueued, HookGoto, tableVars, queueVars, hookVars, workerVars
  <1>9 ASSUME NEW h \in Hooks, Reply(h)
       PROVE  EntriesHaveEvents'
    BY <1>9 DEF Reply, HookGoto, tableVars, queueVars, hookVars, workerVars
  <1>10 ASSUME NEW h \in Hooks, HookDies(h)
       PROVE  EntriesHaveEvents'
    BY <1>10 DEF HookDies, HookGoto, Fault, tableVars, queueVars, hookVars, workerVars
  <1>11 ASSUME NEW h \in Hooks, NEW added \in BOOLEAN, EnqueueFails(h, added)
       PROVE  EntriesHaveEvents'
    BY <1>11 DEF EnqueueFails, HookGoto, Fault, tableVars, queueVars, hookVars, workerVars
  <1>12 ASSUME NEW w \in Workers, NEW e \in Entries, TakeJob(w, e)
       PROVE  EntriesHaveEvents'
    BY <1>12 DEF TakeJob, tableVars, queueVars, hookVars, workerVars
  <1>13 ASSUME NEW w \in Workers, ReadEvent(w)
       PROVE  EntriesHaveEvents'
    BY <1>13 DEF ReadEvent, WorkerGoto, tableVars, queueVars, hookVars, workerVars
  <1>14 ASSUME NEW w \in Workers, IgnoreInactive(w)
       PROVE  EntriesHaveEvents'
    BY <1>14 DEF IgnoreInactive, WorkerGoto, tableVars, queueVars, hookVars, workerVars
  <1>15 ASSUME NEW w \in Workers, MarkProcessed(w)
       PROVE  EntriesHaveEvents'
    BY <1>15 DEF MarkProcessed, WorkerGoto, tableVars, queueVars, hookVars, workerVars
  <1>16 ASSUME NEW w \in Workers, CheckProcessed(w)
       PROVE  EntriesHaveEvents'
    BY <1>16 DEF CheckProcessed, WorkerGoto, tableVars, queueVars, hookVars, workerVars
  <1>17 ASSUME NEW w \in Workers, MarkIgnored(w)
       PROVE  EntriesHaveEvents'
    BY <1>17 DEF MarkIgnored, WorkerGoto, tableVars, queueVars, hookVars, workerVars
  <1>18 ASSUME NEW w \in Workers, Acknowledge(w)
       PROVE  EntriesHaveEvents'
    BY <1>18 DEF Acknowledge, WorkerGoto, tableVars, queueVars, hookVars, workerVars
  <1>19 ASSUME NEW w \in Workers, WorkerDies(w)
       PROVE  EntriesHaveEvents'
    BY <1>19 DEF WorkerDies, WorkerGoto, Fault, tableVars, queueVars, hookVars, workerVars
  <1>20 ASSUME NEW w \in Workers, NEW deny \in BOOLEAN, EvaluatePolicy(w, deny)
       PROVE  EntriesHaveEvents'
    BY <1>20 DEF EvaluatePolicy, WorkerGoto, tableVars, queueVars, hookVars, workerVars
  <1>21 ASSUME NEW w \in Workers, NEW retryable \in BOOLEAN, EnrichFails(w, retryable)
       PROVE  EntriesHaveEvents'
    BY <1>21 DEF EnrichFails, WorkerGoto, Fault, tableVars, queueVars, hookVars, workerVars
  <1>22 ASSUME NEW w \in Workers, NEW retryable \in BOOLEAN, RunAgent(w, retryable)
       PROVE  EntriesHaveEvents'
    BY <1>22 DEF RunAgent, WorkerGoto, Fault, tableVars, queueVars, hookVars, workerVars
  <1> QED
    BY <1>1, <1>2, <1>3, <1>4, <1>5, <1>6, <1>7, <1>8, <1>9, <1>10, <1>11, <1>12,
       <1>13, <1>14, <1>15, <1>16, <1>17, <1>18, <1>19, <1>20, <1>21, <1>22
       DEF Next, HookStep, WorkerStep

\* What was queued stays queued.
LEMMA StatusStep ==
    ASSUME TypeOK, StatusMeansQueued, Next
    PROVE  StatusMeansQueued'
  <1> USE IngressAssumption DEF TypeOK, Statuses, Final, Entries, HookPcs, WorkerPcs, UpdateOf, EventOf, StatusMeansQueued
  <1>1 ASSUME NEW h \in Hooks, NEW u \in Updates, PostUpdate(h, u)
       PROVE  StatusMeansQueued'
    BY <1>1 DEF PostUpdate, tableVars, queueVars, hookVars, workerVars
  <1>2 ASSUME NEW h \in Hooks, LookUpEvent(h)
       PROVE  StatusMeansQueued'
    BY <1>2 DEF LookUpEvent, HookGoto, tableVars, queueVars, hookVars, workerVars
  <1>3 ASSUME NEW h \in Hooks, InsertConflicts(h)
       PROVE  StatusMeansQueued'
    BY <1>3 DEF InsertConflicts, tableVars, queueVars, hookVars, workerVars
  <1>4 ASSUME NEW h \in Hooks, InsertEvent(h)
       PROVE  StatusMeansQueued'
    BY <1>4 DEF InsertEvent, HookGoto, tableVars, queueVars, hookVars, workerVars
  <1>5 ASSUME NEW h \in Hooks, InsertIgnored(h)
       PROVE  StatusMeansQueued'
    BY <1>5 DEF InsertIgnored, HookGoto, tableVars, queueVars, hookVars, workerVars
  <1>6 ASSUME NEW h \in Hooks, Enqueue(h)
       PROVE  StatusMeansQueued'
    BY <1>6 DEF Enqueue, HookGoto, tableVars, queueVars, hookVars, workerVars
  <1>7 ASSUME NEW h \in Hooks, CheckReceived(h)
       PROVE  StatusMeansQueued'
    BY <1>7 DEF CheckReceived, HookGoto, tableVars, queueVars, hookVars, workerVars
  <1>8 ASSUME NEW h \in Hooks, MarkEnqueued(h)
       PROVE  StatusMeansQueued'
    BY <1>8 DEF MarkEnqueued, HookGoto, tableVars, queueVars, hookVars, workerVars
  <1>9 ASSUME NEW h \in Hooks, Reply(h)
       PROVE  StatusMeansQueued'
    BY <1>9 DEF Reply, HookGoto, tableVars, queueVars, hookVars, workerVars
  <1>10 ASSUME NEW h \in Hooks, HookDies(h)
       PROVE  StatusMeansQueued'
    BY <1>10 DEF HookDies, HookGoto, Fault, tableVars, queueVars, hookVars, workerVars
  <1>11 ASSUME NEW h \in Hooks, NEW added \in BOOLEAN, EnqueueFails(h, added)
       PROVE  StatusMeansQueued'
    BY <1>11 DEF EnqueueFails, HookGoto, Fault, tableVars, queueVars, hookVars, workerVars
  <1>12 ASSUME NEW w \in Workers, NEW e \in Entries, TakeJob(w, e)
       PROVE  StatusMeansQueued'
    BY <1>12 DEF TakeJob, tableVars, queueVars, hookVars, workerVars
  <1>13 ASSUME NEW w \in Workers, ReadEvent(w)
       PROVE  StatusMeansQueued'
    BY <1>13 DEF ReadEvent, WorkerGoto, tableVars, queueVars, hookVars, workerVars
  <1>14 ASSUME NEW w \in Workers, IgnoreInactive(w)
       PROVE  StatusMeansQueued'
    BY <1>14 DEF IgnoreInactive, WorkerGoto, tableVars, queueVars, hookVars, workerVars
  <1>15 ASSUME NEW w \in Workers, MarkProcessed(w)
       PROVE  StatusMeansQueued'
    BY <1>15 DEF MarkProcessed, WorkerGoto, tableVars, queueVars, hookVars, workerVars
  <1>16 ASSUME NEW w \in Workers, CheckProcessed(w)
       PROVE  StatusMeansQueued'
    BY <1>16 DEF CheckProcessed, WorkerGoto, tableVars, queueVars, hookVars, workerVars
  <1>17 ASSUME NEW w \in Workers, MarkIgnored(w)
       PROVE  StatusMeansQueued'
    BY <1>17 DEF MarkIgnored, WorkerGoto, tableVars, queueVars, hookVars, workerVars
  <1>18 ASSUME NEW w \in Workers, Acknowledge(w)
       PROVE  StatusMeansQueued'
    BY <1>18 DEF Acknowledge, WorkerGoto, tableVars, queueVars, hookVars, workerVars
  <1>19 ASSUME NEW w \in Workers, WorkerDies(w)
       PROVE  StatusMeansQueued'
    BY <1>19 DEF WorkerDies, WorkerGoto, Fault, tableVars, queueVars, hookVars, workerVars
  <1>20 ASSUME NEW w \in Workers, NEW deny \in BOOLEAN, EvaluatePolicy(w, deny)
       PROVE  StatusMeansQueued'
    BY <1>20 DEF EvaluatePolicy, WorkerGoto, tableVars, queueVars, hookVars, workerVars
  <1>21 ASSUME NEW w \in Workers, NEW retryable \in BOOLEAN, EnrichFails(w, retryable)
       PROVE  StatusMeansQueued'
    BY <1>21 DEF EnrichFails, WorkerGoto, Fault, tableVars, queueVars, hookVars, workerVars
  <1>22 ASSUME NEW w \in Workers, NEW retryable \in BOOLEAN, RunAgent(w, retryable)
       PROVE  StatusMeansQueued'
    BY <1>22 DEF RunAgent, WorkerGoto, Fault, tableVars, queueVars, hookVars, workerVars
  <1> QED
    BY <1>1, <1>2, <1>3, <1>4, <1>5, <1>6, <1>7, <1>8, <1>9, <1>10, <1>11, <1>12,
       <1>13, <1>14, <1>15, <1>16, <1>17, <1>18, <1>19, <1>20, <1>21, <1>22
       DEF Next, HookStep, WorkerStep

\* An ignored event becomes another one only when it was queued.
LEMMA RepliesStep ==
    ASSUME TypeOK, StatusMeansQueued, RepliesFit, AcceptedMeansQueued, Next
    PROVE  RepliesFit' /\ AcceptedMeansQueued'
  <1> USE IngressAssumption DEF TypeOK, Statuses, Final, Entries, HookPcs, WorkerPcs, UpdateOf, EventOf, StatusMeansQueued, RepliesFit, AcceptedMeansQueued
  <1>1 ASSUME NEW h \in Hooks, NEW u \in Updates, PostUpdate(h, u)
       PROVE  RepliesFit' /\ AcceptedMeansQueued'
    BY <1>1 DEF PostUpdate, tableVars, queueVars, hookVars, workerVars
  <1>2 ASSUME NEW h \in Hooks, LookUpEvent(h)
       PROVE  RepliesFit' /\ AcceptedMeansQueued'
    BY <1>2 DEF LookUpEvent, HookGoto, tableVars, queueVars, hookVars, workerVars
  <1>3 ASSUME NEW h \in Hooks, InsertConflicts(h)
       PROVE  RepliesFit' /\ AcceptedMeansQueued'
    BY <1>3 DEF InsertConflicts, tableVars, queueVars, hookVars, workerVars
  <1>4 ASSUME NEW h \in Hooks, InsertEvent(h)
       PROVE  RepliesFit' /\ AcceptedMeansQueued'
    BY <1>4 DEF InsertEvent, HookGoto, tableVars, queueVars, hookVars, workerVars
  <1>5 ASSUME NEW h \in Hooks, InsertIgnored(h)
       PROVE  RepliesFit' /\ AcceptedMeansQueued'
    BY <1>5 DEF InsertIgnored, HookGoto, tableVars, queueVars, hookVars, workerVars
  <1>6 ASSUME NEW h \in Hooks, Enqueue(h)
       PROVE  RepliesFit' /\ AcceptedMeansQueued'
    BY <1>6 DEF Enqueue, HookGoto, tableVars, queueVars, hookVars, workerVars
  <1>7 ASSUME NEW h \in Hooks, CheckReceived(h)
       PROVE  RepliesFit' /\ AcceptedMeansQueued'
    BY <1>7 DEF CheckReceived, HookGoto, tableVars, queueVars, hookVars, workerVars
  <1>8 ASSUME NEW h \in Hooks, MarkEnqueued(h)
       PROVE  RepliesFit' /\ AcceptedMeansQueued'
    BY <1>8 DEF MarkEnqueued, HookGoto, tableVars, queueVars, hookVars, workerVars
  <1>9 ASSUME NEW h \in Hooks, Reply(h)
       PROVE  RepliesFit' /\ AcceptedMeansQueued'
    BY <1>9 DEF Reply, HookGoto, tableVars, queueVars, hookVars, workerVars
  <1>10 ASSUME NEW h \in Hooks, HookDies(h)
       PROVE  RepliesFit' /\ AcceptedMeansQueued'
    BY <1>10 DEF HookDies, HookGoto, Fault, tableVars, queueVars, hookVars, workerVars
  <1>11 ASSUME NEW h \in Hooks, NEW added \in BOOLEAN, EnqueueFails(h, added)
       PROVE  RepliesFit' /\ AcceptedMeansQueued'
    BY <1>11 DEF EnqueueFails, HookGoto, Fault, tableVars, queueVars, hookVars, workerVars
  <1>12 ASSUME NEW w \in Workers, NEW e \in Entries, TakeJob(w, e)
       PROVE  RepliesFit' /\ AcceptedMeansQueued'
    BY <1>12 DEF TakeJob, tableVars, queueVars, hookVars, workerVars
  <1>13 ASSUME NEW w \in Workers, ReadEvent(w)
       PROVE  RepliesFit' /\ AcceptedMeansQueued'
    BY <1>13 DEF ReadEvent, WorkerGoto, tableVars, queueVars, hookVars, workerVars
  <1>14 ASSUME NEW w \in Workers, IgnoreInactive(w)
       PROVE  RepliesFit' /\ AcceptedMeansQueued'
    BY <1>14 DEF IgnoreInactive, WorkerGoto, tableVars, queueVars, hookVars, workerVars
  <1>15 ASSUME NEW w \in Workers, MarkProcessed(w)
       PROVE  RepliesFit' /\ AcceptedMeansQueued'
    BY <1>15 DEF MarkProcessed, WorkerGoto, tableVars, queueVars, hookVars, workerVars
  <1>16 ASSUME NEW w \in Workers, CheckProcessed(w)
       PROVE  RepliesFit' /\ AcceptedMeansQueued'
    BY <1>16 DEF CheckProcessed, WorkerGoto, tableVars, queueVars, hookVars, workerVars
  <1>17 ASSUME NEW w \in Workers, MarkIgnored(w)
       PROVE  RepliesFit' /\ AcceptedMeansQueued'
    BY <1>17 DEF MarkIgnored, WorkerGoto, tableVars, queueVars, hookVars, workerVars
  <1>18 ASSUME NEW w \in Workers, Acknowledge(w)
       PROVE  RepliesFit' /\ AcceptedMeansQueued'
    BY <1>18 DEF Acknowledge, WorkerGoto, tableVars, queueVars, hookVars, workerVars
  <1>19 ASSUME NEW w \in Workers, WorkerDies(w)
       PROVE  RepliesFit' /\ AcceptedMeansQueued'
    BY <1>19 DEF WorkerDies, WorkerGoto, Fault, tableVars, queueVars, hookVars, workerVars
  <1>20 ASSUME NEW w \in Workers, NEW deny \in BOOLEAN, EvaluatePolicy(w, deny)
       PROVE  RepliesFit' /\ AcceptedMeansQueued'
    BY <1>20 DEF EvaluatePolicy, WorkerGoto, tableVars, queueVars, hookVars, workerVars
  <1>21 ASSUME NEW w \in Workers, NEW retryable \in BOOLEAN, EnrichFails(w, retryable)
       PROVE  RepliesFit' /\ AcceptedMeansQueued'
    BY <1>21 DEF EnrichFails, WorkerGoto, Fault, tableVars, queueVars, hookVars, workerVars
  <1>22 ASSUME NEW w \in Workers, NEW retryable \in BOOLEAN, RunAgent(w, retryable)
       PROVE  RepliesFit' /\ AcceptedMeansQueued'
    BY <1>22 DEF RunAgent, WorkerGoto, Fault, tableVars, queueVars, hookVars, workerVars
  <1> QED
    BY <1>1, <1>2, <1>3, <1>4, <1>5, <1>6, <1>7, <1>8, <1>9, <1>10, <1>11, <1>12,
       <1>13, <1>14, <1>15, <1>16, <1>17, <1>18, <1>19, <1>20, <1>21, <1>22
       DEF Next, HookStep, WorkerStep

\* No step breaks it.
LEMMA IngressStep ==
    ASSUME IngressInv, Next
    PROVE  IngressInv'
  BY IngressTypeStep, RowsOfEventsStep, EntriesStep, StatusStep, RepliesStep DEF IngressInv

\* Nothing was delivered at first.
LEMMA IngressStart ==
    ASSUME Init
    PROVE  IngressInv
  <1>1 TypeOK
    BY IngressAssumption DEF Init, TypeOK, Statuses, HookPcs, WorkerPcs
  <1>2 /\ RowsFollowEvents /\ EntriesHaveEvents /\ StatusMeansQueued /\ RepliesFit
       /\ AcceptedMeansQueued
    BY DEF Init, RowsFollowEvents, CanonicalStateIsUnique, EntriesHaveEvents, StatusMeansQueued,
      RepliesFit, AcceptedMeansQueued
  <1> QED
    BY <1>1, <1>2 DEF IngressInv

-----------------------------------------------------------------------------
(* The website chat: the inductive invariant.                                *)

\* Copies, in any log, and the rows of a log over sessions.
CopiesIn(lg, t) == {n \in 1..Len(lg) : lg[n].text = t /\ ~lg[n].reply}
Rows(ids) == [session : ids, text : Texts, reply : BOOLEAN]

Held == {"opened", "post", "persist", "enqueue", "answer"}
HeldSubmit(ids) == [pc : Held, text : Texts, session : ids]

\* A poll in flight has a session, and what it fetched is in the log.
PollFits ==
    /\ poll.pc \in {"opened", "fetch", "fetched"} => poll.session \in sessions
    /\ poll.pc = "fetched" => poll.items \subseteq 1..Len(log)

\* So has a submission, once it got one.
SubmitFits ==
    \/ submit = Still
    \/ submit \in [pc : {"open"}, text : Texts]
    \/ submit \in HeldSubmit(sessions)

\* A text is submitted again only after a failure.
TriesFit ==
    /\ \A t \in Texts : tries[t] = failed[t] \/ tries[t] = failed[t] + 1
    /\ submit.pc # "idle" => tries[submit.text] = failed[submit.text] + 1

\* A submission stores at most one copy, and knows it until it is queued.
CopiesFit ==
    /\ \A t \in Texts : Cardinality(CopiesIn(log, t)) <= tries[t]
    /\ submit.pc \in {"open", "opened", "post", "persist"} =>
          Cardinality(CopiesIn(log, submit.text)) < tries[submit.text]
    /\ submit.pc = "enqueue" =>
          \E n \in CopiesIn(log, submit.text) :
             \A k \in CopiesIn(log, submit.text) : k <= n

\* Only what a visitor said gets a job.
QueuedAreInbound == \A n \in webQueued : ~log[n].reply

WebInv ==
    /\ WebTypeOK
    /\ PollFits
    /\ SubmitFits
    /\ TriesFit
    /\ CopiesFit
    /\ QueuedAreInbound
    /\ UnqueuedIsReported
    /\ RepliesComeHome

\* What one more row does to a log.
LEMMA AppendedRow ==
    ASSUME NEW S, NEW lg \in Seq(S), NEW x \in S
    PROVE  /\ Append(lg, x) \in Seq(S)
           /\ Len(lg) \in Nat
           /\ Len(Append(lg, x)) = Len(lg) + 1
           /\ \A n \in 1..Len(lg) : Append(lg, x)[n] = lg[n]
           /\ Append(lg, x)[Len(lg) + 1] = x
  BY LenProperties

\* The copies of a text are finitely many.
LEMMA CopiesAreFinite ==
    ASSUME NEW S, NEW lg \in Seq(S), NEW t
    PROVE  /\ IsFiniteSet(CopiesIn(lg, t))
           /\ Cardinality(CopiesIn(lg, t)) \in Nat
  <1>1 Len(lg) \in Nat
    BY LenProperties
  <1>2 CopiesIn(lg, t) \in SUBSET (1..Len(lg))
    BY DEF CopiesIn
  <1>3 IsFiniteSet(1..Len(lg))
    BY <1>1, FS_Interval
  <1>4 IsFiniteSet(CopiesIn(lg, t))
    BY <1>2, <1>3, FS_Subset
  <1> QED
    BY <1>4, FS_CardinalityType

\* A reply is no copy; a row of another text is none of this one.
LEMMA OtherRow ==
    ASSUME NEW S, NEW lg \in Seq(S), NEW x \in S, NEW t, x.reply \/ x.text # t
    PROVE  CopiesIn(Append(lg, x), t) = CopiesIn(lg, t)
  BY AppendedRow DEF CopiesIn

\* One more copy is the last one.
LEMMA AnotherCopy ==
    ASSUME NEW S, NEW lg \in Seq(S), NEW x \in S, ~x.reply
    PROVE  /\ CopiesIn(Append(lg, x), x.text) = CopiesIn(lg, x.text) \cup {Len(lg) + 1}
           /\ Cardinality(CopiesIn(Append(lg, x), x.text))
                 = Cardinality(CopiesIn(lg, x.text)) + 1
           /\ \A k \in CopiesIn(Append(lg, x), x.text) : k <= Len(lg) + 1
  <1>1 CopiesIn(Append(lg, x), x.text) = CopiesIn(lg, x.text) \cup {Len(lg) + 1}
    BY AppendedRow DEF CopiesIn
  <1>2 Len(lg) + 1 \notin CopiesIn(lg, x.text)
    BY LenProperties DEF CopiesIn
  <1>3 Cardinality(CopiesIn(lg, x.text) \cup {Len(lg) + 1})
          = Cardinality(CopiesIn(lg, x.text)) + 1
    BY <1>2, CopiesAreFinite, FS_AddElement
  <1>4 \A k \in CopiesIn(lg, x.text) : k <= Len(lg) + 1
    BY LenProperties DEF CopiesIn
  <1> QED
    BY <1>1, <1>3, <1>4, LenProperties

\* Two copies are more than one.
LEMMA OnlyCopy ==
    ASSUME NEW S, NEW lg \in Seq(S), NEW t, Cardinality(CopiesIn(lg, t)) <= 1,
           NEW n \in CopiesIn(lg, t), NEW k \in CopiesIn(lg, t)
    PROVE  n = k
  <1> SUFFICES ASSUME n # k
               PROVE  FALSE
    OBVIOUS
  <1>1 IsFiniteSet({n}) /\ Cardinality({n}) = 1
    BY FS_Singleton
  <1>2 Cardinality({n} \cup {k}) = 2
    <2> DEFINE T == {n}
    <2>1 k \notin T /\ IsFiniteSet(T) /\ Cardinality(T) = 1
      BY <1>1
    <2> HIDE DEF T
    <2>2 Cardinality(T \cup {k}) = IF k \in T THEN Cardinality(T) ELSE Cardinality(T) + 1
      BY <2>1, FS_AddElement
    <2>3 Cardinality(T \cup {k}) = 2
      BY <2>1, <2>2
    <2> QED
      BY <2>3, Zenon DEF T
  <1>3 {n} \cup {k} \in SUBSET CopiesIn(lg, t)
    OBVIOUS
  <1>4 2 <= Cardinality(CopiesIn(lg, t))
    BY <1>2, <1>3, CopiesAreFinite, FS_Subset
  <1> QED
    BY <1>4, CopiesAreFinite

\* What is submitted is a text, of a session if it has one.
LEMMA SubmitShape ==
    ASSUME SubmitFits, submit.pc # "idle"
    PROVE  /\ submit.text \in Texts
           /\ submit.pc # "open" => submit \in HeldSubmit(sessions)
  BY DEF SubmitFits, Still, HeldSubmit

\* It keeps both on its way.
LEMMA SubmitGoesOn ==
    ASSUME SubmitFits, submit.pc # "idle", submit.pc # "open", NEW l \in Held
    PROVE  /\ [submit EXCEPT !.pc = l] \in HeldSubmit(sessions)
           /\ [submit EXCEPT !.pc = l].pc = l
           /\ [submit EXCEPT !.pc = l].text = submit.text
  BY SubmitShape DEF HeldSubmit

\* A new session is one of the sessions.
LEMMA SessionOpened ==
    ASSUME WebTypeOK, OpenSession
    PROVE  /\ NewSession \in 1..MaxSessions
           /\ sessions' = sessions \cup {NewSession} /\ sessions' \subseteq 1..MaxSessions
           /\ expired' \subseteq sessions'
           /\ UNCHANGED <<log, webQueued>>
           /\ log \in Seq(Rows(sessions'))
  <1>1 IsFiniteSet(1..MaxSessions)
    BY FS_Interval, WebAssumption
  <1>2 Cardinality(sessions) \in Nat
    BY <1>1, FS_Subset, FS_CardinalityType DEF WebTypeOK
  <1>3 NewSession \in 1..MaxSessions /\ sessions' = sessions \cup {NewSession}
    BY <1>2, WebAssumption DEF OpenSession, NewSession
  <1>4 Rows(sessions) \subseteq Rows(sessions')
    BY <1>3 DEF Rows
  <1>5 log \in Seq(Rows(sessions))
    BY DEF WebTypeOK, Rows
  <1>6 log \in Seq(Rows(sessions'))
    BY <1>4, <1>5, SeqMonotonic
  <1> QED
    BY <1>3, <1>6 DEF OpenSession, WebTypeOK

\* The message that is enqueued is the last copy of its text.
LEMMA InsertedIsACopy ==
    ASSUME CopiesFit, submit.pc = "enqueue"
    PROVE  Inserted \in CopiesIn(log, submit.text)
  <1>1 PICK n \in CopiesIn(log, submit.text) : \A k \in CopiesIn(log, submit.text) : k <= n
    BY DEF CopiesFit
  <1>2 \E i \in 1..Len(log) :
          /\ ~log[i].reply /\ log[i].text = submit.text
          /\ \A k \in 1..Len(log) : ~log[k].reply /\ log[k].text = submit.text => k <= i
    BY <1>1 DEF CopiesIn
  <1> QED
    BY <1>2 DEF Inserted, CopiesIn

\* Types are preserved, and the widget keeps to the sessions it got.
LEMMA WebTypeStep ==
    ASSUME WebTypeOK, PollFits, SubmitFits, TriesFit, CopiesFit, WebNext
    PROVE  WebTypeOK' /\ PollFits' /\ SubmitFits'
  <1>a log \in Seq(Rows(sessions))
    BY DEF WebTypeOK, Rows
  <1>b /\ channel \in {"closed", "mute", "open"} /\ switches \in 0..MaxSwitches
       /\ sessions \subseteq 1..MaxSessions /\ expired \subseteq sessions
       /\ webQueued \subseteq 1..Len(log)
       /\ current \in sessions \cup {NoSession}
       /\ poll.pc \in {"idle", "open", "opened", "fetch", "fetched"}
       /\ submit.pc \in {"idle", "open", "opened", "post", "persist", "enqueue", "answer"}
       /\ shown \subseteq 1..Len(log)
       /\ tries \in [Texts -> 0..MaxTries] /\ failed \in [Texts -> 0..MaxTries]
       /\ SubmitFits
    BY DEF WebTypeOK
  <1> USE WebAssumption, <1>a, <1>b DEF PollFits
  <1>c (/\ channel' \in {"closed", "mute", "open"} /\ switches' \in 0..MaxSwitches
        /\ sessions' \subseteq 1..MaxSessions /\ expired' \subseteq sessions'
        /\ log' \in Seq(Rows(sessions'))
        /\ webQueued' \subseteq 1..Len(log')
        /\ current' \in sessions' \cup {NoSession}
        /\ poll'.pc \in {"idle", "open", "opened", "fetch", "fetched"}
        /\ submit'.pc \in {"idle", "open", "opened", "post", "persist", "enqueue", "answer"}
        /\ shown' \subseteq 1..Len(log')
        /\ tries' \in [Texts -> 0..MaxTries] /\ failed' \in [Texts -> 0..MaxTries]) => WebTypeOK'
    BY DEF WebTypeOK, Rows
  <1> USE <1>c DEF SubmitFits
  <1>1 ASSUME NEW to \in {"closed", "mute", "open"}, SwitchChannel(to)
       PROVE  WebTypeOK' /\ PollFits' /\ SubmitFits'
    BY <1>1 DEF SwitchChannel, adminVars, serverVars, widgetVars
  <1>2 ASSUME NEW s \in sessions, SessionExpires(s)
       PROVE  WebTypeOK' /\ PollFits' /\ SubmitFits'
    BY <1>2 DEF SessionExpires, adminVars, serverVars, widgetVars
  <1>3 ASSUME NEW m \in webQueued, AnswerPost(m)
       PROVE  WebTypeOK' /\ PollFits' /\ SubmitFits'
    <2>1 log[m] \in Rows(sessions)
      BY <1>3 DEF AnswerPost
    <2>2 [log[m] EXCEPT !.reply = TRUE] \in Rows(sessions)
      BY <2>1 DEF Rows
    <2>3 log' \in Seq(Rows(sessions)) /\ Len(log') = Len(log) + 1 /\ Len(log) \in Nat
      BY <1>3, <2>2, AppendedRow DEF AnswerPost
    <2> QED
      BY <1>3, <2>3 DEF AnswerPost, adminVars, serverVars, widgetVars
  <1>4 ASSUME StartPoll
       PROVE  WebTypeOK' /\ PollFits' /\ SubmitFits'
    BY <1>4 DEF StartPoll, adminVars, serverVars, widgetVars
  <1>5 ASSUME PollOpens
       PROVE  WebTypeOK' /\ PollFits' /\ SubmitFits'
    <2>1 /\ NewSession \in sessions' /\ sessions' \subseteq 1..MaxSessions
         /\ expired' \subseteq sessions' /\ sessions \subseteq sessions'
         /\ UNCHANGED <<log, webQueued>> /\ log \in Seq(Rows(sessions'))
      BY <1>5, SessionOpened DEF PollOpens, Rows
    <2>2 SubmitFits'
      BY <1>5, <2>1 DEF PollOpens, SubmitFits, HeldSubmit
    <2> QED
      BY <1>5, <2>1, <2>2 DEF PollOpens, adminVars, serverVars, widgetVars
  <1>6 ASSUME PollTakesSession
       PROVE  WebTypeOK' /\ PollFits' /\ SubmitFits'
    BY <1>6 DEF PollTakesSession, adminVars, serverVars, widgetVars
  <1>7 ASSUME FetchMessages
       PROVE  WebTypeOK' /\ PollFits' /\ SubmitFits'
    <2>1 poll'.pc = "fetched" /\ poll'.session = poll.session /\ poll'.items \subseteq 1..Len(log)
      BY <1>7 DEF FetchMessages
    <2> QED
      BY <1>7, <2>1 DEF FetchMessages, adminVars, serverVars, widgetVars
  <1>8 ASSUME PollEnds
       PROVE  WebTypeOK' /\ PollFits' /\ SubmitFits'
    BY <1>8 DEF PollEnds, adminVars, serverVars, widgetVars, Still
  <1>9 ASSUME PollFails
       PROVE  WebTypeOK' /\ PollFits' /\ SubmitFits'
    BY <1>9 DEF PollFails, adminVars, serverVars, widgetVars, Still
  <1>10 ASSUME NEW t \in Texts, StartSubmit(t)
       PROVE  WebTypeOK' /\ PollFits' /\ SubmitFits'
    <2>1 submit' \in [pc : {"open"}, text : Texts] \/ submit' \in HeldSubmit(sessions)
      BY <1>10 DEF StartSubmit, HeldSubmit, Held
    <2>2 submit'.pc \in Held \cup {"open"}
      BY <2>1 DEF HeldSubmit, Held
    <2>3 tries' \in [Texts -> 0..MaxTries]
      BY <1>10 DEF StartSubmit
    <2> QED
      BY <1>10, <2>1, <2>2, <2>3 DEF StartSubmit, adminVars, serverVars, widgetVars, Held
  <1>11 ASSUME SubmitOpens
       PROVE  WebTypeOK' /\ PollFits' /\ SubmitFits'
    <2>1 /\ NewSession \in sessions' /\ sessions' \subseteq 1..MaxSessions
         /\ expired' \subseteq sessions' /\ sessions \subseteq sessions'
         /\ UNCHANGED <<log, webQueued>> /\ log \in Seq(Rows(sessions'))
      BY <1>11, SessionOpened DEF SubmitOpens, Rows
    <2>2 submit.text \in Texts
      BY <1>11, SubmitShape DEF SubmitOpens
    <2>3 submit' \in HeldSubmit(sessions') /\ submit'.pc = "opened"
      BY <1>11, <2>1, <2>2 DEF SubmitOpens, HeldSubmit, Held
    <2> QED
      BY <1>11, <2>1, <2>3 DEF SubmitOpens, adminVars, serverVars, widgetVars
  <1>12 ASSUME SubmitTakesSession
       PROVE  WebTypeOK' /\ PollFits' /\ SubmitFits'
    <2>1 submit' \in HeldSubmit(sessions) /\ submit'.pc \in Held
      BY <1>12, SubmitGoesOn DEF SubmitTakesSession, Held
    <2>2 submit.session \in sessions
      BY <1>12, SubmitShape DEF SubmitTakesSession, HeldSubmit
    <2> QED
      BY <1>12, <2>1, <2>2 DEF SubmitTakesSession, adminVars, serverVars, widgetVars, Held
  <1>13 ASSUME AdmitPost
       PROVE  WebTypeOK' /\ PollFits' /\ SubmitFits'
    <2>1 submit' \in HeldSubmit(sessions) /\ submit'.pc \in Held
      BY <1>13, SubmitGoesOn DEF AdmitPost, SubmitGoto, Held
    <2> QED
      BY <1>13, <2>1 DEF AdmitPost, SubmitGoto, adminVars, serverVars, widgetVars, Held
  <1>14 ASSUME PersistPost
       PROVE  WebTypeOK' /\ PollFits' /\ SubmitFits'
    <2>1 submit.text \in Texts /\ submit.session \in sessions
      BY <1>14, SubmitShape DEF PersistPost, HeldSubmit
    <2>2 [session |-> submit.session, text |-> submit.text, reply |-> FALSE] \in Rows(sessions)
      BY <2>1 DEF Rows
    <2>3 log' \in Seq(Rows(sessions)) /\ Len(log) \in Nat /\ Len(log') >= Len(log)
      BY SMTT(30), <1>14, <2>2, AppendedRow, LenProperties DEF PersistPost
    <2>4 submit' \in HeldSubmit(sessions)
      BY <1>14, SubmitGoesOn DEF PersistPost, SubmitGoto, Held
    <2>5 submit'.pc \in Held
      BY <2>4 DEF HeldSubmit
    <2>6 UNCHANGED <<sessions, expired, webQueued, adminVars, current, poll, shown, tries, failed>>
      BY <1>14 DEF PersistPost, SubmitGoto
    <2> QED
      BY <2>3, <2>4, <2>5, <2>6 DEF adminVars, serverVars, widgetVars, Held
  <1>15 ASSUME EnqueuePost
       PROVE  WebTypeOK' /\ PollFits' /\ SubmitFits'
    <2>1 submit' \in HeldSubmit(sessions) /\ submit'.pc \in Held
      BY <1>15, SubmitGoesOn DEF EnqueuePost, SubmitGoto, Held
    <2>2 Inserted \in 1..Len(log)
      BY <1>15, InsertedIsACopy DEF EnqueuePost, CopiesIn
    <2> QED
      BY <1>15, <2>1, <2>2 DEF EnqueuePost, SubmitGoto, adminVars, serverVars, widgetVars, Held
  <1>16 ASSUME SubmitEnds
       PROVE  WebTypeOK' /\ PollFits' /\ SubmitFits'
    BY <1>16 DEF SubmitEnds, adminVars, serverVars, widgetVars, Still
  <1>17 ASSUME SubmitFails
       PROVE  WebTypeOK' /\ PollFits' /\ SubmitFits'
    <2>1 submit.text \in Texts
      BY <1>17, SubmitShape DEF SubmitFails
    <2>2 failed[submit.text] + 1 = tries[submit.text]
      BY <1>17 DEF SubmitFails, TriesFit
    <2>3 failed' \in [Texts -> 0..MaxTries]
      BY <1>17, <2>1, <2>2 DEF SubmitFails
    <2> QED
      BY <1>17, <2>3 DEF SubmitFails, adminVars, serverVars, widgetVars, Still
  <1> QED
    BY <1>1, <1>2, <1>3, <1>4, <1>5, <1>6, <1>7, <1>8, <1>9,
       <1>10, <1>11, <1>12, <1>13, <1>14, <1>15, <1>16, <1>17 DEF WebNext

\* What a step does to the messages and to what was submitted.
Aside   == UNCHANGED <<log, webQueued, submit, tries, failed>>
Onwards == /\ submit.pc \in {"open", "opened", "post"}
           /\ submit'.pc \in {"opened", "post", "persist"} /\ submit'.text = submit.text
           /\ UNCHANGED <<log, webQueued, tries, failed>>
Ignored == /\ submit.pc = "persist" /\ submit'.pc = "answer"
           /\ submit'.text = submit.text
           /\ UNCHANGED <<log, webQueued, tries, failed>>
Stored  == /\ submit.pc = "persist" /\ submit'.pc = "enqueue"
           /\ submit'.text = submit.text
           /\ \E x \in Rows(sessions) :
                 x.text = submit.text /\ ~x.reply /\ log' = Append(log, x)
           /\ UNCHANGED <<webQueued, tries, failed>>
Queues  == /\ submit.pc = "enqueue" /\ submit'.pc = "answer"
           /\ submit'.text = submit.text
           /\ webQueued' = webQueued \cup {Inserted}
           /\ UNCHANGED <<log, tries, failed>>
Answers(m) ==
    /\ m \in webQueued
    /\ \E x \in Rows(sessions) :
          /\ x.reply /\ x.text = log[m].text /\ x.session = log[m].session
          /\ log' = Append(log, x)
    /\ UNCHANGED <<webQueued, submit, tries, failed>>
Starts(t) ==
    /\ submit.pc = "idle" /\ tries[t] <= failed[t]
    /\ tries' = [tries EXCEPT ![t] = @ + 1]
    /\ submit'.pc \in {"open", "post"} /\ submit'.text = t
    /\ UNCHANGED <<log, webQueued, failed>>
Ends == /\ submit.pc = "answer" /\ submit'.pc = "idle"
        /\ UNCHANGED <<log, webQueued, tries, failed>>
Fails == /\ submit.pc # "idle" /\ submit'.pc = "idle"
         /\ failed' = [failed EXCEPT ![submit.text] = @ + 1]
         /\ UNCHANGED <<log, webQueued, tries>>

\* Every step is one of these.
LEMMA WebStepKinds ==
    ASSUME WebTypeOK, SubmitFits, WebNext
    PROVE  \/ Aside \/ Onwards \/ Ignored \/ Stored \/ Queues
           \/ \E m \in webQueued : Answers(m)
           \/ \E t \in Texts : Starts(t)
           \/ Ends \/ Fails
  <1>1 CASE \/ \E to \in {"closed", "mute", "open"} : SwitchChannel(to)
            \/ \E s \in sessions : SessionExpires(s)
            \/ StartPoll \/ PollOpens \/ PollTakesSession \/ FetchMessages \/ PollEnds
            \/ PollFails
    <2>1 Aside
      BY <1>1 DEF SwitchChannel, SessionExpires, StartPoll, PollOpens, PollTakesSession,
        FetchMessages, PollEnds, PollFails, OpenSession, Aside, adminVars, serverVars, widgetVars
    <2> QED
      BY <2>1
  <1>2 CASE SubmitOpens
    <2>1 Onwards
      BY <1>2 DEF SubmitOpens, OpenSession, Onwards
    <2> QED
      BY <2>1
  <1>3 CASE SubmitTakesSession \/ AdmitPost
    <2>1 submit.pc # "idle" /\ submit.pc # "open"
      BY <1>3 DEF SubmitTakesSession, AdmitPost
    <2>2 \A l \in Held : /\ [submit EXCEPT !.pc = l].pc = l
                         /\ [submit EXCEPT !.pc = l].text = submit.text
      BY <2>1, SubmitGoesOn
    <2>3 Onwards
      BY <1>3, <2>2 DEF SubmitTakesSession, AdmitPost, SubmitGoto, Onwards, Held, serverVars
    <2> QED
      BY <2>3
  <1>4 CASE PersistPost
    <2>1 submit.pc = "persist" /\ submit.text \in Texts /\ submit.session \in sessions
      BY <1>4, SubmitShape DEF PersistPost, HeldSubmit
    <2>2 \A l \in Held : /\ [submit EXCEPT !.pc = l].pc = l
                         /\ [submit EXCEPT !.pc = l].text = submit.text
      BY <2>1, SubmitGoesOn
    <2>3 CASE channel = "open"
      <3> DEFINE x == [session |-> submit.session, text |-> submit.text, reply |-> FALSE]
      <3>1 x \in Rows(sessions) /\ x.text = submit.text /\ ~x.reply
        BY <2>1 DEF Rows
      <3>2 log' = Append(log, x) /\ SubmitGoto("enqueue") /\ UNCHANGED webQueued
        BY <1>4, <2>3 DEF PersistPost
      <3> HIDE DEF x
      <3>3 Stored
        BY <2>1, <2>2, <3>1, <3>2 DEF Stored, SubmitGoto, Held
      <3> QED
        BY <3>3
    <2>4 CASE channel # "open"
      <3>1 Ignored
        BY <1>4, <2>1, <2>2, <2>4 DEF PersistPost, SubmitGoto, Ignored, Held
      <3> QED
        BY <3>1
    <2> QED
      BY <2>3, <2>4
  <1>5 CASE EnqueuePost
    <2>1 submit.pc = "enqueue"
      BY <1>5 DEF EnqueuePost
    <2>2 \A l \in Held : /\ [submit EXCEPT !.pc = l].pc = l
                         /\ [submit EXCEPT !.pc = l].text = submit.text
      BY <2>1, SubmitGoesOn
    <2>3 Queues
      BY <1>5, <2>2 DEF EnqueuePost, SubmitGoto, Queues, Held
    <2> QED
      BY <2>3
  <1>6 ASSUME NEW m \in webQueued, AnswerPost(m)
       PROVE  Answers(m)
    <2>1 log[m] \in Rows(sessions)
      <3>1 log \in Seq(Rows(sessions)) /\ m \in 1..Len(log)
        BY DEF WebTypeOK, Rows
      <3> QED
        BY <3>1, ElementOfSeq
    <2> DEFINE x == [log[m] EXCEPT !.reply = TRUE]
    <2>2 x \in Rows(sessions) /\ x.reply /\ x.text = log[m].text /\ x.session = log[m].session
      BY <2>1 DEF Rows
    <2>3 log' = Append(log, x) /\ UNCHANGED <<webQueued, submit, tries, failed>>
      BY <1>6 DEF AnswerPost, widgetVars
    <2> HIDE DEF x
    <2> QED
      BY <2>2, <2>3 DEF Answers
  <1>7 ASSUME NEW t \in Texts, StartSubmit(t)
       PROVE  Starts(t)
    <2>1 tries[t] \in Nat /\ failed[t] \in Nat
      BY DEF WebTypeOK
    <2>2 submit'.pc \in {"open", "post"} /\ submit'.text = t
      BY <1>7 DEF StartSubmit
    <2> QED
      BY <1>7, <2>1, <2>2 DEF StartSubmit, Sent, Starts, serverVars
  <1>8 CASE SubmitEnds
    <2>1 Ends
      BY <1>8 DEF SubmitEnds, Ends, serverVars, Still
    <2> QED
      BY <2>1
  <1>9 CASE SubmitFails
    <2>1 Fails
      BY <1>9 DEF SubmitFails, Fails, serverVars, Still
    <2> QED
      BY <2>1
  <1> QED
    BY <1>1, <1>2, <1>3, <1>4, <1>5, <1>6, <1>7, <1>8, <1>9 DEF WebNext

\* The types, as the steps need them.
LEMMA WebTypes ==
    ASSUME WebTypeOK
    PROVE  /\ log \in Seq(Rows(sessions)) /\ Len(log) \in Nat /\ webQueued \subseteq 1..Len(log)
           /\ tries \in [Texts -> Nat] /\ failed \in [Texts -> Nat]
           /\ \A t \in Texts : Cardinality(CopiesIn(log, t)) \in Nat
  <1>1 log \in Seq(Rows(sessions)) /\ webQueued \subseteq 1..Len(log)
    BY DEF WebTypeOK, Rows
  <1>2 tries \in [Texts -> Nat] /\ failed \in [Texts -> Nat]
    BY DEF WebTypeOK
  <1> QED
    BY <1>1, <1>2, LenProperties, CopiesAreFinite

\* A text is submitted again only after a failure.
LEMMA TriesStep ==
    ASSUME WebTypeOK, SubmitFits, TriesFit, WebNext
    PROVE  TriesFit'
  <1>1 tries \in [Texts -> Nat] /\ failed \in [Texts -> Nat]
    BY WebTypes
  <1>2 submit.pc # "idle" => submit.text \in Texts
    BY SubmitShape
  <1>3 CASE Aside
    BY <1>3 DEF Aside, TriesFit
  <1>4 CASE Onwards
    BY <1>4 DEF Onwards, TriesFit
  <1>5 CASE Ignored \/ Stored \/ Queues
    BY <1>5 DEF Ignored, Stored, Queues, TriesFit
  <1>6 CASE \E m \in webQueued : Answers(m)
    BY <1>6 DEF Answers, TriesFit
  <1>7 ASSUME NEW t \in Texts, Starts(t)
       PROVE  TriesFit'
    <2>1 tries[t] = failed[t] /\ failed[t] \in Nat
      BY <1>1, <1>7 DEF Starts, TriesFit
    <2>2 tries' = [tries EXCEPT ![t] = failed[t] + 1]
      BY <1>7, <2>1 DEF Starts
    <2> QED
      BY <1>1, <1>7, <2>1, <2>2 DEF Starts, TriesFit
  <1>8 CASE Ends
    BY <1>8 DEF Ends, TriesFit
  <1>9 CASE Fails
    <2>1 tries[submit.text] = failed[submit.text] + 1 /\ submit.text \in Texts
      BY <1>2, <1>9 DEF Fails, TriesFit
    <2>2 failed' = [failed EXCEPT ![submit.text] = tries[submit.text]]
      BY <1>9, <2>1 DEF Fails
    <2> QED
      BY <1>1, <1>9, <2>1, <2>2 DEF Fails, TriesFit
  <1> QED
    BY <1>3, <1>4, <1>5, <1>6, <1>7, <1>8, <1>9, WebStepKinds

\* A copy is stored by a submission that has none.
LEMMA CopiesStep ==
    ASSUME WebTypeOK, SubmitFits, TriesFit, CopiesFit, WebNext
    PROVE  CopiesFit'
  <1>1 /\ log \in Seq(Rows(sessions)) /\ Len(log) \in Nat /\ webQueued \subseteq 1..Len(log)
       /\ tries \in [Texts -> Nat]
       /\ \A t \in Texts : Cardinality(CopiesIn(log, t)) \in Nat
    BY WebTypes
  <1>2 submit.pc # "idle" => submit.text \in Texts
    BY SubmitShape
  <1>3 CASE Aside
    BY <1>3 DEF Aside, CopiesFit
  <1>4 CASE Onwards
    BY <1>4 DEF Onwards, CopiesFit
  <1>5 CASE Ignored \/ Queues
    BY <1>5 DEF Ignored, Queues, CopiesFit
  <1>6 CASE Stored
    <2>1 PICK x \in Rows(sessions) :
            x.text = submit.text /\ ~x.reply /\ log' = Append(log, x)
      BY <1>6 DEF Stored
    <2>2 submit.text \in Texts /\ submit'.text = submit.text /\ submit'.pc = "enqueue"
         /\ tries' = tries /\ submit.pc = "persist"
      BY <1>2, <1>6 DEF Stored
    <2>3 /\ Cardinality(CopiesIn(log', submit.text)) = Cardinality(CopiesIn(log, submit.text)) + 1
         /\ Len(log) + 1 \in CopiesIn(log', submit.text)
         /\ \A k \in CopiesIn(log', submit.text) : k <= Len(log) + 1
      <3>1 log \in Seq(Rows(sessions)) /\ ~x.reply /\ x.text = submit.text
              /\ log' = Append(log, x)
        BY <1>1, <2>1
      <3>2 /\ CopiesIn(Append(log, x), x.text) = CopiesIn(log, x.text) \cup {Len(log) + 1}
           /\ Cardinality(CopiesIn(Append(log, x), x.text))
                 = Cardinality(CopiesIn(log, x.text)) + 1
           /\ \A k \in CopiesIn(Append(log, x), x.text) : k <= Len(log) + 1
        BY <3>1, AnotherCopy
      <3>3 /\ CopiesIn(log', x.text) = CopiesIn(log, x.text) \cup {Len(log) + 1}
           /\ Cardinality(CopiesIn(log', x.text)) = Cardinality(CopiesIn(log, x.text)) + 1
           /\ \A k \in CopiesIn(log', x.text) : k <= Len(log) + 1
        BY <3>1, <3>2, Zenon
      <3>4 Len(log) + 1 \in CopiesIn(log', x.text)
        BY <3>3
      <3> QED
        BY <3>1, <3>3, <3>4, Zenon
    <2>4 Cardinality(CopiesIn(log, submit.text)) < tries[submit.text]
      BY <2>2 DEF CopiesFit
    <2>5 ASSUME NEW t \in Texts
         PROVE  Cardinality(CopiesIn(log', t)) <= tries[t]
      <3>1 CASE t = submit.text
        BY <1>1, <2>2, <2>3, <2>4, <3>1
      <3>2 CASE t # submit.text
        <4>1 CopiesIn(log', t) = CopiesIn(log, t)
          BY <1>1, <2>1, <3>2, OtherRow
        <4> QED
          BY <4>1 DEF CopiesFit
      <3> QED
        BY <3>1, <3>2
    <2> QED
      BY <2>2, <2>3, <2>5 DEF CopiesFit
  <1>7 ASSUME NEW m \in webQueued, Answers(m)
       PROVE  CopiesFit'
    <2>1 PICK x \in Rows(sessions) : x.reply /\ log' = Append(log, x)
      BY <1>7 DEF Answers
    <2>2 \A t : CopiesIn(log', t) = CopiesIn(log, t)
      BY <1>1, <2>1, OtherRow
    <2>3 tries' = tries /\ submit' = submit
      BY <1>7 DEF Answers
    <2> QED
      BY <2>2, <2>3 DEF CopiesFit
  <1>8 ASSUME NEW t \in Texts, Starts(t)
       PROVE  CopiesFit'
    <2>1 \A u \in Texts : tries'[u] = IF u = t THEN tries[u] + 1 ELSE tries[u]
      BY <1>1, <1>8 DEF Starts
    <2>2 log' = log /\ submit'.pc \in {"open", "post"} /\ submit'.text = t
      BY <1>8 DEF Starts
    <2>3 \A u \in Texts : /\ Cardinality(CopiesIn(log, u)) <= tries[u]
                          /\ tries[u] \in Nat /\ Cardinality(CopiesIn(log, u)) \in Nat
      BY <1>1 DEF CopiesFit
    <2>4 \A u \in Texts : Cardinality(CopiesIn(log, u)) <= tries'[u]
      BY <2>1, <2>3
    <2>5 Cardinality(CopiesIn(log, t)) < tries'[t]
      BY <2>1, <2>3
    <2> QED
      BY <2>2, <2>4, <2>5 DEF CopiesFit
  <1>9 CASE Ends
    BY <1>9 DEF Ends, CopiesFit
  <1>10 CASE Fails
    BY <1>10 DEF Fails, CopiesFit
  <1> QED
    BY <1>3, <1>4, <1>5, <1>6, <1>7, <1>8, <1>9, <1>10, WebStepKinds

\* A message has its job, unless its submission is not over or failed.
LEMMA UnqueuedStep ==
    ASSUME WebTypeOK, SubmitFits, TriesFit, CopiesFit, QueuedAreInbound, UnqueuedIsReported,
           WebNext
    PROVE  UnqueuedIsReported' /\ QueuedAreInbound'
  <1>1 /\ log \in Seq(Rows(sessions)) /\ Len(log) \in Nat /\ webQueued \subseteq 1..Len(log)
       /\ failed \in [Texts -> Nat]
       /\ \A n \in 1..Len(log) : log[n].text \in Texts
    <2>1 log \in Seq(Rows(sessions))
      BY WebTypes
    <2>2 \A n \in 1..Len(log) : log[n] \in Rows(sessions)
      BY <2>1, ElementOfSeq
    <2> QED
      BY <2>2, WebTypes DEF Rows
  <1>2 submit.pc # "idle" => submit.text \in Texts
    BY SubmitShape
  <1>3 CASE Aside
    BY <1>3 DEF Aside, UnqueuedIsReported, QueuedAreInbound
  <1>4 CASE Onwards
    BY <1>4 DEF Onwards, UnqueuedIsReported, QueuedAreInbound
  <1>5 CASE Ignored
    BY <1>5 DEF Ignored, UnqueuedIsReported, QueuedAreInbound
  <1>6 CASE Stored
    <2>1 PICK x \in Rows(sessions) :
            x.text = submit.text /\ ~x.reply /\ log' = Append(log, x)
      BY <1>6 DEF Stored
    <2>2 /\ submit'.text = submit.text /\ submit'.pc = "enqueue" /\ submit.pc = "persist"
         /\ failed' = failed /\ webQueued' = webQueued
      BY <1>6 DEF Stored
    <2>3 /\ Len(log') = Len(log) + 1
         /\ \A n \in 1..Len(log) : log'[n] = log[n]
         /\ log'[Len(log) + 1] = x
      BY <1>1, <2>1, AppendedRow
    <2> QED
      BY <1>1, <2>1, <2>2, <2>3 DEF UnqueuedIsReported, QueuedAreInbound
  <1>7 CASE Queues
    <2>1 /\ submit.pc = "enqueue" /\ submit'.pc = "answer" /\ submit'.text = submit.text
         /\ webQueued' = webQueued \cup {Inserted}
         /\ UNCHANGED <<log, tries, failed>>
      BY <1>7 DEF Queues
    <2>2 Inserted \in CopiesIn(log, submit.text)
      BY <2>1, InsertedIsACopy
    <2>3 ASSUME NEW n \in 1..Len(log), ~log[n].reply, n \notin webQueued'
         PROVE  failed[log[n].text] > 0
      <3>1 CASE log[n].text # submit.text
        BY <2>1, <2>3, <3>1 DEF UnqueuedIsReported
      <3>2 CASE log[n].text = submit.text
        <4>1 n \in CopiesIn(log, submit.text) /\ n # Inserted
          BY <2>1, <2>3, <3>2 DEF CopiesIn
        <4>2 ~(Cardinality(CopiesIn(log, submit.text)) <= 1)
          BY <1>1, <2>2, <4>1, OnlyCopy
        <4>3 /\ Cardinality(CopiesIn(log, submit.text)) <= tries[submit.text]
             /\ tries[submit.text] = failed[submit.text] + 1
             /\ Cardinality(CopiesIn(log, submit.text)) \in Nat
             /\ failed[submit.text] \in Nat
          BY <1>1, <1>2, <2>1, WebTypes DEF CopiesFit, TriesFit
        <4> QED
          BY <3>2, <4>2, <4>3
      <3> QED
        BY <3>1, <3>2
    <2> QED
      BY <2>1, <2>2, <2>3 DEF UnqueuedIsReported, QueuedAreInbound, CopiesIn
  <1>8 ASSUME NEW m \in webQueued, Answers(m)
       PROVE  UnqueuedIsReported' /\ QueuedAreInbound'
    <2>1 PICK x \in Rows(sessions) : x.reply /\ log' = Append(log, x)
      BY <1>8 DEF Answers
    <2>2 /\ Len(log') = Len(log) + 1
         /\ \A n \in 1..Len(log) : log'[n] = log[n]
         /\ log'[Len(log) + 1] = x
      BY <1>1, <2>1, AppendedRow
    <2>3 UNCHANGED <<webQueued, submit, tries, failed>>
      BY <1>8 DEF Answers
    <2>4 ASSUME NEW n \in 1..Len(log'), ~log'[n].reply
         PROVE  n \in 1..Len(log) /\ log'[n] = log[n]
      BY SMTT(30), <1>1, <2>1, <2>2, <2>4
    <2>5 UnqueuedIsReported'
      BY <2>3, <2>4 DEF UnqueuedIsReported
    <2>6 \A n \in webQueued : log'[n] = log[n]
      BY <1>1, <2>2
    <2> QED
      BY <2>3, <2>5, <2>6 DEF QueuedAreInbound
  <1>9 CASE \E t \in Texts : Starts(t)
    BY <1>9 DEF Starts, UnqueuedIsReported, QueuedAreInbound
  <1>10 CASE Ends
    BY <1>10 DEF Ends, UnqueuedIsReported, QueuedAreInbound
  <1>11 CASE Fails
    <2>1 \A t \in Texts : (failed[t] > 0 => failed'[t] > 0) /\ (t = submit.text => failed'[t] > 0)
      BY <1>1, <1>2, <1>11 DEF Fails
    <2>2 log' = log /\ webQueued' = webQueued
      BY <1>11 DEF Fails
    <2>3 ASSUME NEW n \in 1..Len(log), ~log[n].reply, n \notin webQueued
         PROVE  failed'[log[n].text] > 0
      <3>1 log[n].text \in Texts
        BY <1>1
      <3>2 failed[log[n].text] > 0 \/ log[n].text = submit.text
        BY <2>3 DEF UnqueuedIsReported
      <3> QED
        BY <2>1, <3>1, <3>2
    <2> QED
      BY <2>2, <2>3 DEF UnqueuedIsReported, QueuedAreInbound
  <1> QED
    BY <1>3, <1>4, <1>5, <1>6, <1>7, <1>8, <1>9, <1>10, <1>11, WebStepKinds

\* A reply is given to a message with a job, and rows stay.
LEMMA RepliesComeHomeStep ==
    ASSUME WebTypeOK, SubmitFits, RepliesComeHome, WebNext
    PROVE  RepliesComeHome'
  <1>1 /\ log \in Seq(Rows(sessions)) /\ Len(log) \in Nat /\ webQueued \subseteq 1..Len(log)
    BY WebTypes
  <1>2 CASE UNCHANGED log /\ webQueued \subseteq webQueued'
    BY <1>2 DEF RepliesComeHome
  <1>3 ASSUME NEW x \in Rows(sessions), log' = Append(log, x), webQueued' = webQueued,
              x.reply => \E m \in webQueued : x.text = log[m].text /\ x.session = log[m].session
       PROVE  RepliesComeHome'
    <2>1 /\ Len(log') = Len(log) + 1
         /\ \A n \in 1..Len(log) : log'[n] = log[n]
         /\ log'[Len(log) + 1] = x
      BY <1>1, <1>3, AppendedRow
    <2>2 ASSUME NEW n \in 1..Len(log), log[n].reply
         PROVE  \E m \in webQueued :
                   m < n /\ log'[m].session = log'[n].session /\ log'[m].text = log'[n].text
      BY <1>1, <2>1, <2>2 DEF RepliesComeHome
    <2>3 ASSUME x.reply
         PROVE  \E m \in webQueued :
                   m < Len(log) + 1 /\ log'[m].session = x.session /\ log'[m].text = x.text
      BY <1>1, <1>3, <2>1, <2>3
    <2>4 ASSUME NEW n \in 1..Len(log'), log'[n].reply
         PROVE  \E m \in webQueued :
                   m < n /\ log'[m].session = log'[n].session /\ log'[m].text = log'[n].text
      <3>1 n \in 1..Len(log) \/ n = Len(log) + 1
        BY <1>1, <2>1
      <3>2 CASE n \in 1..Len(log)
        BY <2>1, <2>2, <2>4, <3>2
      <3>3 CASE n = Len(log) + 1
        BY <2>1, <2>3, <2>4, <3>3
      <3> QED
        BY <3>1, <3>2, <3>3
    <2> QED
      BY <1>3, <2>4 DEF RepliesComeHome
  <1>4 Aside \/ Onwards \/ Ignored \/ Queues \/ Ends \/ Fails \/ (\E t \in Texts : Starts(t))
          => UNCHANGED log /\ webQueued \subseteq webQueued'
    BY DEF Aside, Onwards, Ignored, Queues, Ends, Fails, Starts
  <1>5 CASE Stored
    BY <1>3, <1>5 DEF Stored
  <1>6 ASSUME NEW m \in webQueued, Answers(m)
       PROVE  RepliesComeHome'
    BY <1>3, <1>6 DEF Answers
  <1> QED
    BY <1>2, <1>4, <1>5, <1>6, WebStepKinds

\* No step breaks it.
LEMMA WebStep ==
    ASSUME WebInv, WebNext
    PROVE  WebInv'
  BY WebTypeStep, TriesStep, CopiesStep, UnqueuedStep, RepliesComeHomeStep DEF WebInv

\* Nothing was said at first.
LEMMA WebStart ==
    ASSUME WebInit
    PROVE  WebInv
  <1>1 \A t : CopiesIn(log, t) = {}
    BY DEF WebInit, CopiesIn
  <1>2 \A t : Cardinality(CopiesIn(log, t)) = 0
    BY <1>1, FS_EmptySet
  <1>3 WebTypeOK
    BY WebAssumption DEF WebInit, WebTypeOK, Still
  <1>4 PollFits /\ SubmitFits /\ TriesFit /\ QueuedAreInbound
    BY DEF WebInit, Still, PollFits, SubmitFits, TriesFit, QueuedAreInbound
  <1>5 CopiesFit
    BY <1>2 DEF WebInit, Still, CopiesFit
  <1>6 UnqueuedIsReported /\ RepliesComeHome
    BY DEF WebInit, UnqueuedIsReported, RepliesComeHome
  <1> QED
    BY <1>3, <1>4, <1>5, <1>6 DEF WebInv

\* It says that the widget is honest.
LEMMA WebSound ==
    ASSUME WebInv
    PROVE  WebsiteChatIsHonest
  <1>1 \A t \in Texts : Copies(t) = CopiesIn(log, t)
    BY DEF Copies, CopiesIn
  <1>2 \A t \in Texts : /\ Cardinality(CopiesIn(log, t)) <= tries[t]
                        /\ tries[t] <= failed[t] + 1
                        /\ tries[t] \in Nat /\ failed[t] \in Nat
                        /\ Cardinality(CopiesIn(log, t)) \in Nat
    BY SMTT(30), WebTypes DEF WebInv, CopiesFit, TriesFit
  <1>3 CopiesFollowFailures
    BY <1>1, <1>2 DEF CopiesFollowFailures
  <1> QED
    BY <1>3 DEF WebInv, WebsiteChatIsHonest

-----------------------------------------------------------------------------
(* The webhook alone.                                                        *)

\* What holds of the webhook holds while it stands still.
LEMMA IngressStutter == IngressInv /\ UNCHANGED vars => IngressInv'
  BY DEF vars, tableVars, queueVars, hookVars, workerVars, IngressInv, TypeOK, RowsFollowEvents,
    CanonicalStateIsUnique, EntriesHaveEvents, StatusMeansQueued, RepliesFit,
    AcceptedMeansQueued, UpdateOf, EventOf

\* In every behaviour of the webhook and its workers.
LEMMA IngressInvariant == Spec => []IngressInv
  <1>1 IngressInv /\ [Next]_vars => IngressInv'
    BY IngressStep, IngressStutter
  <1> QED
    BY IngressStart, <1>1, PTL DEF Spec

\* One Message per update and one Contact per sender, however many deliveries
\* race and whichever unique constraint stops them (persist_inbound_event).
THEOREM OneMessagePerUpdate == Spec => []CanonicalStateIsUnique
  <1>1 IngressInv => CanonicalStateIsUnique
    BY DEF IngressInv, RowsFollowEvents
  <1> QED
    BY <1>1, IngressInvariant, PTL

\* The provider gets a 2xx, and stops retrying, only when a job was appended or
\* none is needed (receive_telegram_webhook, mark_event_enqueued).
THEOREM NoUpdateIsDropped == Spec => []AcceptedMeansQueued
  <1>1 IngressInv => AcceptedMeansQueued
    BY DEF IngressInv
  <1> QED
    BY <1>1, IngressInvariant, PTL

-----------------------------------------------------------------------------
(* The parts together: a behaviour is about one, the others stay as they were. *)

EdgeInv == IngressInv /\ WebInv /\ OriginInv /\ RateInv

\* What holds of the website chat holds while it stands still.
LEMMA WebStutter == WebInv /\ UNCHANGED webVars => WebInv'
  <1> SUFFICES ASSUME WebInv, UNCHANGED webVars PROVE WebInv'
    OBVIOUS
  <1>1 /\ channel' = channel /\ switches' = switches /\ sessions' = sessions
       /\ expired' = expired /\ log' = log /\ webQueued' = webQueued /\ current' = current
       /\ poll' = poll /\ submit' = submit /\ shown' = shown /\ tries' = tries
       /\ failed' = failed
    BY DEF webVars, adminVars, serverVars, widgetVars
  <1>2 WebTypeOK' /\ PollFits' /\ SubmitFits'
    BY <1>1 DEF WebInv, WebTypeOK, PollFits, SubmitFits
  <1>3 TriesFit' /\ CopiesFit' /\ QueuedAreInbound' /\ UnqueuedIsReported' /\ RepliesComeHome'
    BY <1>1 DEF WebInv, TriesFit, CopiesFit, QueuedAreInbound, UnqueuedIsReported,
      RepliesComeHome
  <1> QED
    BY <1>2, <1>3 DEF WebInv

\* The same for the origins.
LEMMA OriginStutter == OriginInv /\ UNCHANGED originVars => OriginInv'
  BY DEF originVars, OriginInv, OriginTypeOK, OriginsAreReplaced, PutFits, EverThere

\* The same for the rate limiter.
LEMMA RateStutter == RateInv /\ UNCHANGED rateVars => RateInv'
  BY DEF rateVars, RateInv, RateTypeOK, AdmittedFlat, KeyCounts, NoKeyCounts, PastCounts,
    PromiseFits, Counted

\* Every part starts as its invariant says, and no step of any part breaks it.
LEMMA EdgeInvariant == EdgeSpec => []EdgeInv
  <1>1 EdgeInit => EdgeInv
    BY IngressStart, WebStart, OriginStart, RateStart DEF EdgeInit, EdgeInv
  <1>2 EdgeInv /\ [EdgeNext]_<<part, vars, webVars, originVars, rateVars>> => EdgeInv'
    <2> SUFFICES ASSUME EdgeInv, [EdgeNext]_<<part, vars, webVars, originVars, rateVars>>
                 PROVE  EdgeInv'
      OBVIOUS
    <2>1 Next \/ UNCHANGED vars
      BY DEF EdgeNext
    <2>2 WebNext \/ UNCHANGED webVars
      BY DEF EdgeNext
    <2>3 OriginNext \/ UNCHANGED originVars
      BY DEF EdgeNext
    <2>4 RateNext \/ UNCHANGED rateVars
      BY DEF EdgeNext
    <2>5 IngressInv'
      BY <2>1, IngressStep, IngressStutter DEF EdgeInv
    <2>6 WebInv'
      BY <2>2, WebStep, WebStutter DEF EdgeInv
    <2>7 OriginInv'
      BY <2>3, OriginStep, OriginStutter DEF EdgeInv
    <2>8 RateInv'
      BY <2>4, RateStep, RateStutter DEF EdgeInv
    <2> QED
      BY <2>5, <2>6, <2>7, <2>8 DEF EdgeInv
  <1> QED
    BY <1>1, <1>2, PTL DEF EdgeSpec

\* The website is honest to its visitors, its origins are the ones a manager asked
\* for, and two windows of the rate limiter let through no more than twice its
\* limit and the requests of an outage (widget.js, website_chat.py,
\* RedisRateLimiter).
THEOREM EdgeStaysSound == EdgeSpec => []EdgeIsSound
  <1>1 EdgeInv => EdgeIsSound
    <2> SUFFICES ASSUME EdgeInv PROVE EdgeIsSound
      OBVIOUS
    <2>1 TypeOK /\ WebTypeOK /\ OriginTypeOK /\ OriginsAreReplaced
      BY DEF EdgeInv, IngressInv, WebInv, OriginInv
    <2>2 WebsiteChatIsHonest /\ RateTypeOK /\ RateIsLimited
      BY WebSound, RateSound DEF EdgeInv
    <2> QED
      BY <2>1, <2>2 DEF EdgeIsSound, EdgeTypesOK
  <1> QED
    BY <1>1, EdgeInvariant, PTL

=================================================================================

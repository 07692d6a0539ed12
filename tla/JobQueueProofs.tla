----------------------------- MODULE JobQueueProofs -----------------------------
(***************************************************************************)
(* Proofs about JobQueue for any set of consumers, finite or not, any      *)
(* batch size and delivery budget, and any number of entries and crashes.  *)
(***************************************************************************)
EXTENDS JobQueue, FiniteSetTheorems, TLAPS

-----------------------------------------------------------------------------
(* The inductive invariant.                                                 *)

\* What a consumer has read was delivered, and its next command is about an
\* entry of its batch or a job of its own.
FitsAt(c) ==
    /\ batch[c] \subseteq 1..read
    /\ jobs[c] \subseteq 1..read
    /\ pc[c] \in {"idle", "work"} => batch[c] = {}
    /\ pc[c] = "idle" => jobs[c] = {} /\ ~again[c]
    /\ pc[c] \in {"field", "count", "dead"} => cur[c] \in batch[c]
    /\ pc[c] = "work" => cur[c] \in jobs[c]
    /\ pc[c] \in {"xack", "xdel", "hdel"} => cur[c] \in batch[c] \cup jobs[c]

CursorFits == \A c \in Consumers : FitsAt(c)

\* Whoever acknowledges has decided: the entry is done or dead-lettered.
AckedIsSettled ==
    \A c \in Consumers : pc[c] \in {"xack", "xdel", "hdel"} => cur[c] \in done \cup dlq

\* An entry is pending because it was delivered.
DeliveredPending == \A id \in Pending : deliveries[id] >= 1

\* The consumers that took an entry over and have not counted that delivery.
Uncounted(id) ==
    {c \in Consumers : /\ again[c]
                       /\ id \in batch[c]
                       /\ pc[c] \in {"field", "count"} \/ id # cur[c]}

\* A missing field of the attempt hash reads as 1.
AtLeastOne(n) == IF n = 0 THEN 1 ELSE n

\* The account of one entry: the counter, with what is still going to be added
\* to it, never runs ahead of the deliveries, whichever of HSET, HDEL and HINCRBY
\* it went through.
Counted(id) ==
    /\ IsFiniteSet(Uncounted(id))
    /\ deliveries[id] <= MaxAttempts =>
          Cardinality(Uncounted(id)) + AtLeastOne(attempts[id]) <= AtLeastOne(deliveries[id])

CountedOnce == \A id \in Ids : Counted(id)

\* Whoever is about to dead-letter an entry has a reason.
RejectedInTime ==
    \A c \in Consumers : pc[c] = "dead" =>
        cur[c] \in Malformed \/ deliveries[cur[c]] > MaxAttempts

IInv ==
    /\ TypeOK
    /\ CursorFits
    /\ AckedIsSettled
    /\ NoEntryLost
    /\ DeliveredPending
    /\ CountedOnce
    /\ RejectedInTime
    /\ BudgetIsNotCutShort

-----------------------------------------------------------------------------
(* Sets of ids.                                                             *)

\* A nonempty set of naturals has a least element.
LEMMA LeastElement ==
    ASSUME NEW S \in SUBSET Nat, S # {}
    PROVE  \E x \in S : \A y \in S : x <= y
  <1> DEFINE R == {ss \in Nat \X Nat : ss[1] < ss[2]}
  <1>1 R = OpToRel(<, Nat)
    BY DEF OpToRel
  <1>2 IsWellFoundedOn(R, Nat)
    BY <1>1, NatLessThanWellFounded
  <1>3 \E x \in S : \A y \in S : ~(<<y, x>> \in R)
    <2> HIDE DEF R
    <2> QED
      BY <1>2, WFMin
  <1>4 PICK x \in S : \A y \in S : ~(<<y, x>> \in R)
    BY <1>3
  <1>5 ASSUME NEW y \in S, y < x
       PROVE  <<y, x>> \in R
    <2>1 <<y, x>> \in Nat \X Nat /\ <<y, x>>[1] < <<y, x>>[2]
      BY <1>5
    <2> QED
      BY <2>1
  <1>6 ASSUME NEW y \in S
       PROVE  x <= y
    <2>1 x \in Nat /\ y \in Nat /\ ~(y < x)
      BY <1>4, <1>5
    <2> QED
      BY <2>1
  <1> QED
    BY <1>6

\* Min returns it.
LEMMA MinOfIds ==
    ASSUME NEW S \in SUBSET Nat, S # {}
    PROVE  Min(S) \in S /\ \A y \in S : Min(S) <= y
  <1>1 PICK x \in S : \A y \in S : x <= y
    BY LeastElement
  <1> QED
    BY <1>1 DEF Min

\* Max returns the greatest element of a nonempty set that is bounded.
LEMMA MaxOfIds ==
    ASSUME NEW n \in Nat, NEW S \in SUBSET (1..n), S # {}
    PROVE  Max(S) \in S /\ \A y \in S : y <= Max(S)
  <1> DEFINE D == {k \in Nat : n - k \in S}
  <1>1 D # {}
    <2>1 PICK y \in S : TRUE
      OBVIOUS
    <2>2 n - y \in Nat /\ n - (n - y) = y
      BY <2>1
    <2>3 n - y \in D
      BY <2>1, <2>2
    <2> QED
      BY <2>3
  <1>2 PICK k \in D : \A m \in D : k <= m
    <2>1 D \subseteq Nat
      OBVIOUS
    <2> HIDE DEF D
    <2> QED
      BY <1>1, <2>1, LeastElement
  <1>3 \A y \in S : y <= n - k
    <2> TAKE y \in S
    <2>1 n - y \in Nat /\ n - (n - y) = y
      OBVIOUS
    <2>2 n - y \in D
      BY <2>1
    <2>3 k \in Nat /\ k <= n - y
      BY <1>2, <2>2
    <2> QED
      BY <2>1, <2>3
  <1>4 n - k \in S
    BY <1>2
  <1>5 \E x \in S : \A y \in S : x >= y
    BY <1>3, <1>4
  <1> QED
    BY <1>5 DEF Max

\* COUNT takes the oldest entries: some if there are any, and with an entry all
\* that are older.
LEMMA FirstOfIds ==
    ASSUME NEW n \in Nat, NEW S \in SUBSET (1..n)
    PROVE  /\ FirstOf(S) \subseteq S
           /\ S # {} => FirstOf(S) # {}
           /\ \A x \in FirstOf(S), y \in S : y <= x => y \in FirstOf(S)
  <1>1 FirstOf(S) \subseteq S
    BY DEF FirstOf
  <1>2 ASSUME S # {}
       PROVE  FirstOf(S) # {}
    <2>1 PICK x \in S : \A y \in S : x <= y
      BY <1>2, LeastElement
    <2>2 {i \in S : i < x} = {}
      <3>1 \A i \in S : i \in Nat /\ x \in Nat /\ x <= i
        BY <2>1
      <3>2 \A i \in S : ~(i < x)
        BY <3>1
      <3> QED
        BY <3>2
    <2>3 Cardinality({i \in S : i < x}) = 0
      BY <2>2, FS_EmptySet
    <2> QED
      BY <2>1, <2>3, QueueAssumption DEF FirstOf
  <1>3 ASSUME NEW x \in FirstOf(S), NEW y \in S, y <= x
       PROVE  y \in FirstOf(S)
    <2> DEFINE A == {i \in S : i < y}
               B == {i \in S : i < x}
    <2>1 A \in SUBSET B
      <3> x \in S
        BY <1>1
      <3>1 x \in Nat /\ y \in Nat /\ \A i \in S : i \in Nat
        OBVIOUS
      <3>2 \A i \in S : i < y => i < x
        BY <1>3, <3>1
      <3> QED
        BY <3>2
    <2>2 IsFiniteSet(1..n)
      BY FS_Interval
    <2>3 B \in SUBSET (1..n)
      OBVIOUS
    <2>4 IsFiniteSet(B)
      BY <2>2, <2>3, FS_Subset
    <2>5 IsFiniteSet(A) /\ Cardinality(A) <= Cardinality(B)
      BY <2>1, <2>4, FS_Subset
    <2>6 Cardinality(A) \in Nat /\ Cardinality(B) \in Nat
      BY <2>4, <2>5, FS_CardinalityType
    <2>7 Cardinality(B) < Batch
      BY <1>3 DEF FirstOf
    <2> QED
      BY <2>5, <2>6, <2>7, QueueAssumption DEF FirstOf
  <1> QED
    BY <1>1, <1>2, <1>3

-----------------------------------------------------------------------------
(* What the two helpers of the actions do.                                  *)

\* The consumers other than c are where they were.
OthersStay(c) ==
    \A d \in Consumers \ {c} :
        /\ pc'[d] = pc[d]
        /\ cur'[d] = cur[d]
        /\ batch'[d] = batch[d]
        /\ again'[d] = again[d]
        /\ jobs'[d] = jobs[d]

ConsumersTyped ==
    /\ pc \in [Consumers -> Pcs]
    /\ cur \in [Consumers -> 0..last]
    /\ batch \in [Consumers -> SUBSET Ids]
    /\ again \in [Consumers -> BOOLEAN]
    /\ jobs \in [Consumers -> SUBSET Ids]

\* A consumer that is given entries starts to decode one of them.
LEMMA DecodeStarts ==
    ASSUME TypeOK, NEW c \in Consumers, NEW ids \in SUBSET (1..last), ids # {},
           NEW reclaimed \in BOOLEAN, Decode(c, ids, reclaimed),
           UNCHANGED <<last, jobs>>
    PROVE  /\ ConsumersTyped'
           /\ OthersStay(c)
           /\ pc'[c] = "field"
           /\ batch'[c] = ids
           /\ cur'[c] \in ids
           /\ again'[c] = reclaimed
           /\ jobs'[c] = jobs[c]
  <1>1 Min(ids) \in ids
    <2>1 ids \in SUBSET Nat
      OBVIOUS
    <2> QED
      BY <2>1, MinOfIds
  <1>2 ids \in SUBSET Ids /\ Min(ids) \in 0..last
    <2>1 last \in Nat /\ MaxEntries \in Nat /\ last <= MaxEntries
      BY QueueAssumption DEF TypeOK
    <2>2 1..last \subseteq Ids /\ 1..last \subseteq 0..last
      BY <2>1 DEF Ids
    <2> QED
      BY <1>1, <2>2
  <1>3 ConsumersTyped'
    BY <1>2 DEF TypeOK, ConsumersTyped, Decode, Pcs
  <1>4 OthersStay(c)
    BY DEF TypeOK, OthersStay, Decode
  <1> QED
    BY <1>1, <1>3, <1>4 DEF TypeOK, Decode

\* A consumer that is through with an entry goes on with the rest of its batch,
\* then with its jobs, then with the loop.
LEMMA ProceedGoesOn ==
    ASSUME TypeOK, NEW c \in Consumers, NEW rest \in SUBSET (1..last),
           NEW ready \in SUBSET (1..last), Proceed(c, rest, ready), last' = last
    PROVE  /\ ConsumersTyped'
           /\ OthersStay(c)
           /\ batch'[c] = rest
           /\ jobs'[c] = ready
           /\ again'[c] = (again[c] /\ rest # {})
           /\ \/ rest # {} /\ pc'[c] = "field" /\ cur'[c] \in rest
              \/ rest = {} /\ ready # {} /\ pc'[c] = "work" /\ cur'[c] \in ready
              \/ rest = {} /\ ready = {} /\ pc'[c] = "idle"
  <1>1 ASSUME NEW S \in SUBSET (1..last), S # {}
       PROVE  Min(S) \in S /\ Min(S) \in 0..last
    <2>1 S \in SUBSET Nat /\ 1..last \subseteq 0..last
      BY DEF TypeOK
    <2>2 Min(S) \in S
      BY <1>1, <2>1, MinOfIds
    <2> QED
      BY <2>1, <2>2
  <1>2 rest \in SUBSET Ids /\ ready \in SUBSET Ids
    BY QueueAssumption DEF TypeOK, Ids
  <1>3 /\ batch' = [batch EXCEPT ![c] = rest]
       /\ jobs' = [jobs EXCEPT ![c] = ready]
    BY DEF Proceed
  <1>4 /\ again' \in [Consumers -> BOOLEAN]
       /\ again'[c] = (again[c] /\ rest # {})
       /\ \A d \in Consumers \ {c} : again'[d] = again[d]
    BY Zenon DEF TypeOK, Proceed
  <1>5 \E p \in Pcs, i \in 0..last :
          /\ pc' = [pc EXCEPT ![c] = p]
          /\ cur' = [cur EXCEPT ![c] = i]
          /\ \/ rest # {} /\ p = "field" /\ i \in rest
             \/ rest = {} /\ ready # {} /\ p = "work" /\ i \in ready
             \/ rest = {} /\ ready = {} /\ p = "idle"
    <2>1 CASE rest # {}
      <3>1 Min(rest) \in rest /\ Min(rest) \in 0..last
        BY <1>1, <2>1
      <3>2 /\ pc' = [pc EXCEPT ![c] = "field"]
           /\ cur' = [cur EXCEPT ![c] = Min(rest)]
        BY <2>1 DEF Proceed
      <3>3 "field" \in Pcs
        BY DEF Pcs
      <3> QED
        BY <2>1, <3>1, <3>2, <3>3
    <2>2 CASE rest = {} /\ ready # {}
      <3>1 Min(ready) \in ready /\ Min(ready) \in 0..last
        BY <1>1, <2>2
      <3>2 /\ pc' = [pc EXCEPT ![c] = "work"]
           /\ cur' = [cur EXCEPT ![c] = Min(ready)]
        BY <2>2 DEF Proceed
      <3>3 "work" \in Pcs
        BY DEF Pcs
      <3> QED
        BY <2>2, <3>1, <3>2, <3>3
    <2>3 CASE rest = {} /\ ready = {}
      BY <2>3 DEF Proceed, Pcs, TypeOK
    <2> QED
      BY <2>1, <2>2, <2>3
  <1>6 ConsumersTyped'
    BY <1>2, <1>3, <1>4, <1>5 DEF TypeOK, ConsumersTyped
  <1>7 OthersStay(c)
    BY <1>3, <1>4, <1>5 DEF TypeOK, OthersStay
  <1> QED
    BY <1>3, <1>4, <1>5, <1>6, <1>7 DEF TypeOK

-----------------------------------------------------------------------------
(* The consumer's own variables.                                            *)

\* XREADGROUP delivers every entry it passes.
LEMMA ConsumeReads ==
    ASSUME TypeOK, NEW c \in Consumers, Consume(c)
    PROVE  /\ read' \in (read + 1)..last
           /\ \E ids \in SUBSET stream :
                 /\ ids # {}
                 /\ ids \subseteq 1..read'
                 /\ \A id \in stream : id > read /\ id <= read' => id \in ids
                 /\ Decode(c, ids, FALSE)
  <1> DEFINE new == {id \in stream : id > read}
             ids == FirstOf(new)
  <1>1 new \in SUBSET (1..last) /\ last \in Nat /\ new # {}
    <2>1 new # {}
      BY DEF Consume
    <2>2 stream \subseteq 1..last /\ last \in Nat
      BY DEF TypeOK
    <2> QED
      BY <2>1, <2>2
  <1> HIDE DEF new
  <1>2 /\ ids \subseteq new
       /\ ids # {}
       /\ \A x \in ids, y \in new : y <= x => y \in ids
    BY <1>1, FirstOfIds
  <1>3 ids \in SUBSET (1..last)
    BY <1>1, <1>2
  <1> HIDE DEF ids
  <1>4 Max(ids) \in ids /\ \A y \in ids : y <= Max(ids)
    BY <1>1, <1>2, <1>3, MaxOfIds
  <1>5 read' = Max(ids) /\ Decode(c, ids, FALSE)
    BY DEF Consume, ids, new
  <1>6 read' \in ids /\ read' \in new
    BY <1>2, <1>4, <1>5
  <1>7 read' \in (read + 1)..last
    BY <1>1, <1>6 DEF new, TypeOK
  <1>8 ids \subseteq 1..read'
    BY <1>3, <1>4, <1>5, <1>7
  <1>9 \A id \in stream : id > read /\ id <= read' => id \in ids
    BY <1>2, <1>6 DEF new
  <1>10 ids \in SUBSET stream
    BY <1>2 DEF new
  <1> QED
    BY <1>2, <1>5, <1>7, <1>8, <1>9, <1>10

\* Going on leaves the cursor fit.
LEMMA ProceedFits ==
    ASSUME TypeOK, NEW c \in Consumers, NEW rest \in SUBSET (1..read),
           NEW ready \in SUBSET (1..read), Proceed(c, rest, ready), UNCHANGED <<last, read>>
    PROVE  ConsumersTyped' /\ OthersStay(c) /\ FitsAt(c)'
  <1>1 rest \in SUBSET (1..last) /\ ready \in SUBSET (1..last)
    BY DEF TypeOK
  <1>2 /\ ConsumersTyped'
       /\ OthersStay(c)
       /\ batch'[c] = rest
       /\ jobs'[c] = ready
       /\ again'[c] = (again[c] /\ rest # {})
       /\ \/ rest # {} /\ pc'[c] = "field" /\ cur'[c] \in rest
          \/ rest = {} /\ ready # {} /\ pc'[c] = "work" /\ cur'[c] \in ready
          \/ rest = {} /\ ready = {} /\ pc'[c] = "idle"
    BY <1>1, ProceedGoesOn
  <1>3 batch'[c] \subseteq 1..read' /\ jobs'[c] \subseteq 1..read'
    BY <1>2
  <1> QED
    BY <1>2, <1>3 DEF FitsAt

\* Every step of a consumer leaves the others alone and its own cursor fit.
LEMMA ConsumerMoves ==
    ASSUME TypeOK, CursorFits, NEW c \in Consumers,
           \/ Consume(c)
           \/ \E idle \in SUBSET Ids : Reclaim(c, idle)
           \/ ConsumerStep(c)
           \/ Crash(c)
    PROVE  /\ ConsumersTyped'
           /\ OthersStay(c)
           /\ FitsAt(c)'
           /\ last' = last
           /\ read' \in read..last
  <1>1 /\ read \in 0..last
       /\ last \in Nat
       /\ batch[c] \in SUBSET (1..last)
       /\ jobs[c] \in SUBSET (1..last)
       /\ FitsAt(c)
    BY DEF TypeOK, CursorFits, FitsAt
  <1>2 CASE Consume(c)
    <2>1 PICK ids \in SUBSET stream :
            ids # {} /\ ids \subseteq 1..read' /\ Decode(c, ids, FALSE)
      BY <1>2, ConsumeReads
    <2>2 /\ read' \in (read + 1)..last
         /\ UNCHANGED <<last, jobs>>
         /\ pc[c] = "idle"
      BY <1>2, ConsumeReads DEF Consume
    <2>3 ids \in SUBSET (1..last)
      BY <1>1, <2>1, <2>2
    <2>4 /\ ConsumersTyped'
         /\ OthersStay(c)
         /\ pc'[c] = "field"
         /\ batch'[c] = ids
         /\ cur'[c] \in ids
         /\ jobs'[c] = jobs[c]
      BY <2>1, <2>2, <2>3, DecodeStarts
    <2>5 FitsAt(c)'
      BY <1>1, <2>1, <2>2, <2>4 DEF FitsAt
    <2> QED
      BY <1>1, <2>2, <2>4, <2>5
  <1>3 ASSUME NEW idle \in SUBSET Ids, Reclaim(c, idle)
       PROVE  ConsumersTyped' /\ OthersStay(c) /\ FitsAt(c)' /\ UNCHANGED <<last, read>>
    <2>1 /\ idle \in SUBSET (1..read)
         /\ idle # {}
         /\ Decode(c, idle, TRUE)
         /\ UNCHANGED <<last, read, jobs>>
         /\ pc[c] = "idle"
      BY <1>3 DEF Reclaim, TypeOK
    <2>2 idle \in SUBSET (1..last)
      BY <1>1, <2>1
    <2>3 /\ ConsumersTyped'
         /\ OthersStay(c)
         /\ pc'[c] = "field"
         /\ batch'[c] = idle
         /\ cur'[c] \in idle
         /\ jobs'[c] = jobs[c]
      BY <2>1, <2>2, DecodeStarts
    <2> QED
      BY <1>1, <2>1, <2>3 DEF FitsAt
  <1>4 CASE EnsureAttempt(c)
    BY <1>1, <1>4 DEF EnsureAttempt, FitsAt, OthersStay, ConsumersTyped, TypeOK, Pcs, streamVars
  <1>5 CASE DeadLetter(c)
    BY <1>1, <1>5 DEF DeadLetter, FitsAt, OthersStay, ConsumersTyped, TypeOK, Pcs, streamVars
  <1>6 CASE AckPending(c)
    BY <1>1, <1>6 DEF AckPending, FitsAt, OthersStay, ConsumersTyped, TypeOK, Pcs, streamVars
  <1>7 CASE DeleteEntry(c)
    BY <1>1, <1>7 DEF DeleteEntry, FitsAt, OthersStay, ConsumersTyped, TypeOK, Pcs, streamVars
  <1>8 CASE CountAttempt(c)
    <2>1 /\ pc[c] = "count"
         /\ cur[c] \in batch[c]
         /\ UNCHANGED <<last, read>>
      BY <1>1, <1>8 DEF CountAttempt, FitsAt, streamVars
    <2>2 CASE pc' = [pc EXCEPT ![c] = "dead"] /\ UNCHANGED <<batch, jobs, cur, again>>
      BY <1>1, <2>1, <2>2 DEF FitsAt, OthersStay, ConsumersTyped, TypeOK, Pcs
    <2>3 CASE Proceed(c, batch[c] \ {cur[c]}, jobs[c] \cup {cur[c]})
      <3>1 /\ batch[c] \ {cur[c]} \in SUBSET (1..read)
           /\ jobs[c] \cup {cur[c]} \in SUBSET (1..read)
        BY <1>1, <2>1 DEF FitsAt
      <3> QED
        BY <1>1, <2>1, <2>3, <3>1, ProceedFits
    <2> QED
      BY <1>8, <2>2, <2>3 DEF CountAttempt
  <1>9 ASSUME NEW success \in BOOLEAN, ProcessJob(c, success)
       PROVE  ConsumersTyped' /\ OthersStay(c) /\ FitsAt(c)' /\ UNCHANGED <<last, read>>
    <2>1 /\ pc[c] = "work"
         /\ UNCHANGED <<last, read>>
      BY <1>9 DEF ProcessJob, streamVars
    <2>2 CASE pc' = [pc EXCEPT ![c] = "xack"] /\ UNCHANGED <<cur, batch, jobs, again>>
      BY <1>1, <2>1, <2>2 DEF FitsAt, OthersStay, ConsumersTyped, TypeOK, Pcs
    <2>3 CASE Proceed(c, {}, jobs[c] \ {cur[c]})
      <3>1 {} \in SUBSET (1..read) /\ jobs[c] \ {cur[c]} \in SUBSET (1..read)
        BY <1>1 DEF FitsAt
      <3> QED
        BY <1>1, <2>1, <2>3, <3>1, ProceedFits
    <2> QED
      BY <1>9, <2>1, <2>2, <2>3 DEF ProcessJob
  <1>10 CASE DeleteAttempts(c)
    <2>1 /\ pc[c] = "hdel"
         /\ UNCHANGED <<last, read>>
         /\ Proceed(c, batch[c] \ {cur[c]}, jobs[c] \ {cur[c]})
      BY <1>10 DEF DeleteAttempts, streamVars
    <2>2 /\ batch[c] \ {cur[c]} \in SUBSET (1..read)
         /\ jobs[c] \ {cur[c]} \in SUBSET (1..read)
      BY <1>1 DEF FitsAt
    <2> QED
      BY <1>1, <2>1, <2>2, ProceedFits
  <1>11 CASE Crash(c)
    BY <1>1, <1>11 DEF Crash, FitsAt, OthersStay, ConsumersTyped, TypeOK, Pcs, streamVars
  <1> QED
    BY <1>1, <1>2, <1>3, <1>4, <1>5, <1>6, <1>7, <1>8, <1>9, <1>10, <1>11 DEF ConsumerStep

-----------------------------------------------------------------------------
(* Each part of the invariant is preserved.                                 *)

\* The types of what the consumers share.
QueueTyped ==
    /\ last \in 0..MaxEntries
    /\ stream \subseteq 1..last
    /\ read \in 0..last
    /\ owner \in [Ids -> Consumers \cup {None}]
    /\ Pending \subseteq 1..read
    /\ attempts \in [Ids -> Nat]
    /\ dlq \subseteq Ids
    /\ unset \subseteq 1..last
    /\ done \subseteq Ids
    /\ deliveries \in [Ids -> 0..(MaxAttempts + 1)]
    /\ crashes \in 0..MaxCrashes

\* A delivery is counted and gives the entry an owner.
LEMMA DecodeOwns ==
    ASSUME TypeOK, NEW c \in Consumers, NEW ids \in SUBSET Ids, NEW reclaimed \in BOOLEAN,
           Decode(c, ids, reclaimed)
    PROVE  /\ owner' \in [Ids -> Consumers \cup {None}]
           /\ deliveries' \in [Ids -> 0..(MaxAttempts + 1)]
           /\ Pending' = Pending \cup ids
           /\ \A id \in Ids \ ids : deliveries'[id] = deliveries[id]
           /\ \A id \in ids : deliveries'[id] =
                 IF deliveries[id] <= MaxAttempts THEN deliveries[id] + 1 ELSE deliveries[id]
  <1>1 owner' \in [Ids -> Consumers \cup {None}]
    BY DEF TypeOK, Decode
  <1>2 deliveries' \in [Ids -> 0..(MaxAttempts + 1)]
    BY QueueAssumption DEF TypeOK, Decode
  <1>3 Pending' = Pending \cup ids
    BY ConsumersAssumption DEF Pending, TypeOK, Decode
  <1> QED
    BY <1>1, <1>2, <1>3 DEF Decode

\* The types of the shared variables are preserved.
LEMMA QueueTypedStep ==
    ASSUME TypeOK, CursorFits, Next
    PROVE  QueueTyped'
  <1> USE QueueAssumption DEF QueueTyped, TypeOK, Pending, Ids
  <1>1 CASE Append
    BY <1>1 DEF Append, historyVars
  <1>2 ASSUME NEW id \in Ids, SetFirstAttempt(id)
       PROVE  QueueTyped'
    BY <1>2 DEF SetFirstAttempt, streamVars, historyVars
  <1>3 ASSUME NEW id \in Ids, ProducerDies(id)
       PROVE  QueueTyped'
    BY SMTT(30), <1>3 DEF ProducerDies, streamVars, historyVars
  <1>4 ASSUME NEW c \in Consumers, Consume(c)
       PROVE  QueueTyped'
    <2>1 PICK ids \in SUBSET stream : ids \subseteq 1..read' /\ Decode(c, ids, FALSE)
      BY <1>4, ConsumeReads
    <2>2 /\ read' \in (read + 1)..last
         /\ UNCHANGED <<last, stream, attempts, dlq, unset, done, crashes>>
      BY <1>4, ConsumeReads DEF Consume
    <2>3 ids \in SUBSET Ids
      OBVIOUS
    <2>4 /\ owner' \in [Ids -> Consumers \cup {None}]
         /\ deliveries' \in [Ids -> 0..(MaxAttempts + 1)]
         /\ Pending' = Pending \cup ids
      BY <2>1, <2>3, DecodeOwns
    <2> QED
      BY SMTT(30), <2>1, <2>2, <2>4
  <1>5 ASSUME NEW c \in Consumers, NEW idle \in SUBSET Ids, Reclaim(c, idle)
       PROVE  QueueTyped'
    <2>1 /\ idle \subseteq Pending
         /\ Decode(c, idle, TRUE)
         /\ UNCHANGED <<last, stream, read, attempts, dlq, unset, done, crashes>>
      BY <1>5 DEF Reclaim
    <2>2 /\ owner' \in [Ids -> Consumers \cup {None}]
         /\ deliveries' \in [Ids -> 0..(MaxAttempts + 1)]
         /\ Pending' = Pending \cup idle
      BY <2>1, DecodeOwns
    <2> QED
      BY <2>1, <2>2
  <1>6 ASSUME NEW c \in Consumers, EnsureAttempt(c)
       PROVE  QueueTyped'
    BY <1>6 DEF EnsureAttempt, streamVars, historyVars
  <1>7 ASSUME NEW c \in Consumers, CountAttempt(c)
       PROVE  QueueTyped'
    <2>1 cur[c] \in Ids
      BY <1>7 DEF CountAttempt, CursorFits, FitsAt
    <2>2 attempts' \in [Ids -> Nat]
      BY SMTT(30), <1>7, <2>1 DEF CountAttempt
    <2> QED
      BY <1>7, <2>2 DEF CountAttempt, streamVars, historyVars
  <1>8 ASSUME NEW c \in Consumers, DeadLetter(c) \/ \E success \in BOOLEAN : ProcessJob(c, success)
       PROVE  QueueTyped'
    <2>1 cur[c] \in Ids
      BY <1>8 DEF DeadLetter, ProcessJob, CursorFits, FitsAt
    <2> QED
      BY <1>8, <2>1 DEF DeadLetter, ProcessJob, streamVars, historyVars
  <1>9 ASSUME NEW c \in Consumers, AckPending(c)
       PROVE  QueueTyped'
    BY <1>9 DEF AckPending, historyVars
  <1>10 ASSUME NEW c \in Consumers, DeleteEntry(c)
       PROVE  QueueTyped'
    BY <1>10 DEF DeleteEntry, historyVars
  <1>11 ASSUME NEW c \in Consumers, DeleteAttempts(c)
       PROVE  QueueTyped'
    BY <1>11 DEF DeleteAttempts, streamVars, historyVars
  <1>12 ASSUME NEW c \in Consumers, Crash(c)
       PROVE  QueueTyped'
    BY SMTT(30), <1>12 DEF Crash, streamVars, historyVars
  <1> QED
    BY <1>1, <1>2, <1>3, <1>4, <1>5, <1>6, <1>7, <1>8, <1>9, <1>10, <1>11, <1>12 DEF Next, ConsumerStep

\* The types are preserved.
LEMMA TypeStep ==
    ASSUME TypeOK, CursorFits, Next
    PROVE  TypeOK'
  <1>1 QueueTyped'
    BY QueueTypedStep
  <1>2 ConsumersTyped'
    <2>1 CASE Append
      BY <2>1, QueueAssumption DEF Append, consumerVars, TypeOK, ConsumersTyped
    <2>2 ASSUME NEW id \in Ids, SetFirstAttempt(id) \/ ProducerDies(id)
         PROVE  ConsumersTyped'
      BY <2>2 DEF SetFirstAttempt, ProducerDies, consumerVars, streamVars, TypeOK, ConsumersTyped
    <2> QED
      BY <2>1, <2>2, ConsumerMoves DEF Next
  <1> QED
    BY <1>1, <1>2 DEF TypeOK, QueueTyped, ConsumersTyped

\* Every cursor stays fit: what a consumer holds stays read.
LEMMA CursorStep ==
    ASSUME TypeOK, CursorFits, Next
    PROVE  CursorFits'
  <1>1 CASE Append
    BY <1>1 DEF Append, consumerVars, CursorFits, FitsAt
  <1>2 ASSUME NEW id \in Ids, SetFirstAttempt(id) \/ ProducerDies(id)
       PROVE  CursorFits'
    BY <1>2 DEF SetFirstAttempt, ProducerDies, consumerVars, streamVars, CursorFits, FitsAt
  <1>3 ASSUME NEW c \in Consumers,
              \/ Consume(c)
              \/ \E idle \in SUBSET Ids : Reclaim(c, idle)
              \/ ConsumerStep(c)
              \/ Crash(c)
       PROVE  CursorFits'
    <2>1 OthersStay(c) /\ FitsAt(c)' /\ read' \in read..last
      BY <1>3, ConsumerMoves
    <2>2 ASSUME NEW d \in Consumers \ {c}
         PROVE  FitsAt(d)'
      <3>1 1..read \subseteq 1..read'
        BY <2>1 DEF TypeOK
      <3> QED
        BY <2>1, <3>1 DEF OthersStay, CursorFits, FitsAt
    <2> QED
      BY <2>1, <2>2 DEF CursorFits
  <1> QED
    BY <1>1, <1>2, <1>3 DEF Next

\* What was acknowledged stays settled, and whoever starts to acknowledge has
\* settled it just before.
LEMMA SettledStep ==
    ASSUME TypeOK, AckedIsSettled, Next
    PROVE  AckedIsSettled'
  <1> USE DEF TypeOK, AckedIsSettled, streamVars, historyVars, consumerVars
  <1>1 CASE Append
    BY <1>1 DEF Append
  <1>2 ASSUME NEW id \in Ids, SetFirstAttempt(id) \/ ProducerDies(id)
       PROVE  AckedIsSettled'
    BY <1>2 DEF SetFirstAttempt, ProducerDies
  <1>3 ASSUME NEW c \in Consumers, Consume(c)
       PROVE  AckedIsSettled'
    BY <1>3 DEF Consume, Decode
  <1>4 ASSUME NEW c \in Consumers, NEW idle \in SUBSET Ids, Reclaim(c, idle)
       PROVE  AckedIsSettled'
    BY <1>4 DEF Reclaim, Decode
  <1>5 ASSUME NEW c \in Consumers, EnsureAttempt(c)
       PROVE  AckedIsSettled'
    BY <1>5 DEF EnsureAttempt
  <1>6 ASSUME NEW c \in Consumers, CountAttempt(c)
       PROVE  AckedIsSettled'
    BY <1>6 DEF CountAttempt, Proceed
  <1>7 ASSUME NEW c \in Consumers, DeadLetter(c)
       PROVE  AckedIsSettled'
    BY <1>7 DEF DeadLetter
  <1>8 ASSUME NEW c \in Consumers, NEW success \in BOOLEAN, ProcessJob(c, success)
       PROVE  AckedIsSettled'
    BY <1>8 DEF ProcessJob, Proceed
  <1>9 ASSUME NEW c \in Consumers, AckPending(c)
       PROVE  AckedIsSettled'
    BY <1>9 DEF AckPending
  <1>10 ASSUME NEW c \in Consumers, DeleteEntry(c)
       PROVE  AckedIsSettled'
    BY <1>10 DEF DeleteEntry
  <1>11 ASSUME NEW c \in Consumers, DeleteAttempts(c)
       PROVE  AckedIsSettled'
    BY <1>11 DEF DeleteAttempts, Proceed
  <1>12 ASSUME NEW c \in Consumers, Crash(c)
       PROVE  AckedIsSettled'
    BY <1>12 DEF Crash
  <1> QED
    BY <1>1, <1>2, <1>3, <1>4, <1>5, <1>6, <1>7, <1>8, <1>9, <1>10, <1>11, <1>12 DEF Next, ConsumerStep

\* Deliveries are only ever counted up.
LEMMA DeliveriesGrow ==
    ASSUME TypeOK, CursorFits, Next
    PROVE  \A i \in Ids : deliveries'[i] >= deliveries[i]
  <1>1 ASSUME NEW c \in Consumers, Consume(c)
       PROVE  \A i \in Ids : deliveries'[i] >= deliveries[i]
    <2>1 PICK ids \in SUBSET stream : Decode(c, ids, FALSE)
      BY <1>1, ConsumeReads
    <2>2 stream \subseteq Ids
      BY QueueAssumption DEF TypeOK, Ids
    <2>3 /\ \A id \in Ids \ ids : deliveries'[id] = deliveries[id]
         /\ \A id \in ids : deliveries'[id] =
               IF deliveries[id] <= MaxAttempts THEN deliveries[id] + 1 ELSE deliveries[id]
      BY <2>1, <2>2, DecodeOwns
    <2>4 \A i \in Ids : deliveries[i] \in Nat
      BY DEF TypeOK
    <2> QED
      BY <2>3, <2>4
  <1>2 ASSUME NEW c \in Consumers, NEW idle \in SUBSET Ids, Reclaim(c, idle)
       PROVE  \A i \in Ids : deliveries'[i] >= deliveries[i]
    <2>1 /\ \A id \in Ids \ idle : deliveries'[id] = deliveries[id]
         /\ \A id \in idle : deliveries'[id] =
               IF deliveries[id] <= MaxAttempts THEN deliveries[id] + 1 ELSE deliveries[id]
      BY <1>2, DecodeOwns DEF Reclaim
    <2> QED
      BY <2>1 DEF TypeOK
  <1>3 CASE \/ Append
             \/ \E id \in Ids : SetFirstAttempt(id) \/ ProducerDies(id)
             \/ \E c \in Consumers : ConsumerStep(c) \/ Crash(c)
    <2>1 deliveries' = deliveries
      BY <1>3 DEF ConsumerStep, Append, SetFirstAttempt, ProducerDies, EnsureAttempt, CountAttempt,
        DeadLetter, ProcessJob, AckPending, DeleteEntry, DeleteAttempts, Crash, historyVars
    <2> QED
      BY <2>1 DEF TypeOK
  <1> QED
    BY <1>1, <1>2, <1>3 DEF Next

\* An entry becomes pending by being delivered.
LEMMA DeliveredStep ==
    ASSUME TypeOK, CursorFits, DeliveredPending, Next
    PROVE  DeliveredPending'
  <1> USE DEF TypeOK, DeliveredPending
  <1>1 ASSUME NEW c \in Consumers, Consume(c)
       PROVE  DeliveredPending'
    <2>1 PICK ids \in SUBSET stream : Decode(c, ids, FALSE)
      BY <1>1, ConsumeReads
    <2>2 stream \subseteq Ids
      BY QueueAssumption DEF Ids
    <2>3 /\ Pending' = Pending \cup ids
         /\ \A id \in Ids \ ids : deliveries'[id] = deliveries[id]
         /\ \A id \in ids : deliveries'[id] =
               IF deliveries[id] <= MaxAttempts THEN deliveries[id] + 1 ELSE deliveries[id]
      BY <2>1, <2>2, DecodeOwns
    <2> QED
      BY <2>2, <2>3, QueueAssumption DEF Pending
  <1>2 ASSUME NEW c \in Consumers, NEW idle \in SUBSET Ids, Reclaim(c, idle)
       PROVE  DeliveredPending'
    <2>1 /\ Pending' = Pending \cup idle
         /\ \A id \in Ids \ idle : deliveries'[id] = deliveries[id]
         /\ \A id \in idle : deliveries'[id] =
               IF deliveries[id] <= MaxAttempts THEN deliveries[id] + 1 ELSE deliveries[id]
      BY <1>2, DecodeOwns DEF Reclaim
    <2> QED
      BY <2>1, QueueAssumption DEF Pending
  <1>3 ASSUME NEW c \in Consumers, AckPending(c)
       PROVE  DeliveredPending'
    BY <1>3 DEF AckPending, Pending, historyVars
  <1>4 CASE Append
    BY <1>4 DEF Pending, Append, historyVars
  <1>5 ASSUME NEW id \in Ids, SetFirstAttempt(id) \/ ProducerDies(id)
       PROVE  DeliveredPending'
    BY <1>5 DEF Pending, SetFirstAttempt, ProducerDies, streamVars, historyVars
  <1>6 ASSUME NEW c \in Consumers, NEW success \in BOOLEAN, ProcessJob(c, success)
       PROVE  DeliveredPending'
    BY <1>6 DEF Pending, ProcessJob, streamVars
  <1>7 ASSUME NEW c \in Consumers, \/ EnsureAttempt(c) \/ CountAttempt(c) \/ DeadLetter(c)
              \/ DeleteEntry(c) \/ DeleteAttempts(c) \/ Crash(c)
       PROVE  DeliveredPending'
    BY <1>7 DEF Pending, EnsureAttempt, CountAttempt, DeadLetter, DeleteEntry, DeleteAttempts, Crash,
      streamVars, historyVars
  <1> QED
    BY <1>1, <1>2, <1>3, <1>4, <1>5, <1>6, <1>7 DEF Next, ConsumerStep

\* No entry is lost: what is read is delivered with the same command, and what
\* leaves the pending list or the stream was settled.
LEMMA NothingLostStep ==
    ASSUME TypeOK, CursorFits, AckedIsSettled, NoEntryLost, Next
    PROVE  NoEntryLost'
  <1> USE DEF NoEntryLost
  <1>1 CASE Append
    BY <1>1 DEF Append, historyVars, Pending, TypeOK
  <1>2 ASSUME NEW c \in Consumers, Consume(c)
       PROVE  NoEntryLost'
    <2>1 PICK ids \in SUBSET stream :
            /\ \A id \in stream : id > read /\ id <= read' => id \in ids
            /\ Decode(c, ids, FALSE)
      BY <1>2, ConsumeReads
    <2>2 /\ read' \in (read + 1)..last
         /\ UNCHANGED <<last, stream, dlq, done>>
      BY <1>2, ConsumeReads DEF Consume
    <2>3 ids \in SUBSET Ids
      BY QueueAssumption DEF TypeOK, Ids
    <2>4 Pending' = Pending \cup ids
      BY <2>1, <2>3, DecodeOwns
    <2> QED
      BY <2>1, <2>2, <2>4 DEF TypeOK
  <1>3 ASSUME NEW c \in Consumers, NEW idle \in SUBSET Ids, Reclaim(c, idle)
       PROVE  NoEntryLost'
    <2>1 /\ Pending' = Pending \cup idle
         /\ UNCHANGED <<last, stream, read, dlq, done>>
      BY <1>3, DecodeOwns DEF Reclaim
    <2> QED
      BY <2>1
  <1>4 ASSUME NEW c \in Consumers, DeadLetter(c) \/ \E success \in BOOLEAN : ProcessJob(c, success)
       PROVE  NoEntryLost'
    BY <1>4 DEF DeadLetter, ProcessJob, streamVars, historyVars, Pending
  <1>5 ASSUME NEW c \in Consumers, AckPending(c) \/ DeleteEntry(c)
       PROVE  NoEntryLost'
    <2>1 /\ cur[c] \in done \cup dlq
         /\ UNCHANGED <<last, read, dlq, done>>
      BY <1>5 DEF AckPending, DeleteEntry, AckedIsSettled, historyVars
    <2>2 \A id \in Ids \ {cur[c]} : (id \in stream' <=> id \in stream) /\ (id \in Pending' <=> id \in Pending)
      BY <1>5 DEF AckPending, DeleteEntry, Pending, TypeOK
    <2>3 1..last \subseteq Ids
      BY QueueAssumption DEF TypeOK, Ids
    <2> QED
      BY <2>1, <2>2, <2>3
  <1>6 ASSUME NEW id \in Ids, SetFirstAttempt(id) \/ ProducerDies(id)
       PROVE  NoEntryLost'
    BY <1>6 DEF Pending, SetFirstAttempt, ProducerDies, streamVars, historyVars
  <1>7 ASSUME NEW c \in Consumers, EnsureAttempt(c) \/ CountAttempt(c) \/ DeleteAttempts(c) \/ Crash(c)
       PROVE  NoEntryLost'
    BY <1>7 DEF Pending, EnsureAttempt, CountAttempt, DeleteAttempts, Crash, streamVars, historyVars
  <1> QED
    BY <1>1, <1>2, <1>3, <1>4, <1>5, <1>6, <1>7 DEF Next, ConsumerStep

-----------------------------------------------------------------------------
(* The delivery budget.                                                     *)

\* Only a reclaim adds to the deliveries that are yet to be counted, and the
\* consumer that counts one is no longer among them.
LEMMA UncountedShrinks ==
    ASSUME TypeOK, CursorFits, NEW c \in Consumers, NEW id \in Ids,
           Consume(c) \/ ConsumerStep(c) \/ Crash(c)
    PROVE  /\ Uncounted(id)' \subseteq Uncounted(id)
           /\ CountAttempt(c) /\ id = cur[c] => c \notin Uncounted(id)'
  <1>1 OthersStay(c)
    BY ConsumerMoves
  <1>2 \A d \in Consumers \ {c} : d \in Uncounted(id)' <=> d \in Uncounted(id)
    BY <1>1 DEF OthersStay, Uncounted
  <1>3 FitsAt(c)
    BY DEF CursorFits
  <1> USE DEF TypeOK, FitsAt, Uncounted, Pcs
  <1>4 CASE Consume(c)
    <2>1 again'[c] = FALSE /\ ~CountAttempt(c)
      BY <1>4 DEF Consume, CountAttempt, Decode
    <2> QED
      BY <1>2, <2>1
  <1>5 CASE EnsureAttempt(c)
    <2>1 ~CountAttempt(c)
      BY <1>5 DEF EnsureAttempt, CountAttempt
    <2> QED
      BY <1>2, <1>5, <2>1 DEF EnsureAttempt
  <1>6 CASE CountAttempt(c)
    <2>1 pc[c] = "count"
      BY <1>6 DEF CountAttempt
    <2>2 CASE pc' = [pc EXCEPT ![c] = "dead"] /\ UNCHANGED <<batch, jobs, cur, again>>
      BY <1>2, <2>1, <2>2
    <2>3 CASE Proceed(c, batch[c] \ {cur[c]}, jobs[c] \cup {cur[c]})
      <3>1 batch'[c] = batch[c] \ {cur[c]} /\ (again'[c] => again[c])
        BY <2>3 DEF Proceed
      <3> QED
        BY <1>2, <2>1, <3>1
    <2> QED
      BY <1>6, <2>2, <2>3 DEF CountAttempt
  <1>7 CASE DeadLetter(c) \/ AckPending(c) \/ DeleteEntry(c)
    <2>1 ~CountAttempt(c)
      BY <1>7 DEF DeadLetter, AckPending, DeleteEntry, CountAttempt
    <2> QED
      BY <1>2, <1>7, <2>1 DEF DeadLetter, AckPending, DeleteEntry
  <1>8 ASSUME NEW success \in BOOLEAN, ProcessJob(c, success)
       PROVE  Uncounted(id)' \subseteq Uncounted(id) /\ ~CountAttempt(c)
    <2>1 pc[c] = "work" /\ batch[c] = {} /\ ~CountAttempt(c)
      BY <1>8, <1>3 DEF ProcessJob, CountAttempt
    <2>2 batch'[c] = {}
      BY <1>8, <2>1 DEF ProcessJob, Proceed
    <2> QED
      BY <1>2, <2>1, <2>2
  <1>9 CASE DeleteAttempts(c)
    <2>1 pc[c] = "hdel" /\ ~CountAttempt(c)
      BY <1>9 DEF DeleteAttempts, CountAttempt
    <2>2 batch'[c] = batch[c] \ {cur[c]} /\ (again'[c] => again[c])
      BY <1>9 DEF DeleteAttempts, Proceed
    <2> QED
      BY <1>2, <2>1, <2>2
  <1>10 CASE Crash(c)
    <2>1 again'[c] = FALSE /\ batch'[c] = {}
      BY <1>10 DEF Crash
    <2> QED
      BY <1>2, <2>1
  <1> QED
    BY <1>4, <1>5, <1>6, <1>7, <1>8, <1>9, <1>10 DEF ConsumerStep

\* A reclaim adds the consumer that did it, for the entries it took over.
LEMMA ReclaimAddsOne ==
    ASSUME TypeOK, CursorFits, NEW c \in Consumers, NEW idle \in SUBSET Ids, Reclaim(c, idle),
           NEW id \in Ids
    PROVE  /\ Uncounted(id)' \subseteq Uncounted(id) \cup {c}
           /\ id \notin idle => Uncounted(id)' \subseteq Uncounted(id)
  <1>1 OthersStay(c)
    BY ConsumerMoves
  <1>2 \A d \in Consumers \ {c} : d \in Uncounted(id)' <=> d \in Uncounted(id)
    BY <1>1 DEF OthersStay, Uncounted
  <1>3 batch'[c] = idle
    BY DEF Reclaim, Decode, TypeOK
  <1> QED
    BY <1>2, <1>3 DEF Uncounted

\* It stays balanced while nothing is added on the left or taken away on the
\* right.
LEMMA CountedKept ==
    ASSUME TypeOK, TypeOK', NEW id \in Ids, Counted(id),
           Uncounted(id)' \subseteq Uncounted(id),
           AtLeastOne(attempts'[id]) <= AtLeastOne(attempts[id]),
           deliveries'[id] >= deliveries[id]
    PROVE  Counted(id)'
  <1>1 /\ IsFiniteSet(Uncounted(id))
       /\ IsFiniteSet(Uncounted(id)')
       /\ Cardinality(Uncounted(id)') <= Cardinality(Uncounted(id))
    BY FS_Subset DEF Counted
  <1>2 Cardinality(Uncounted(id)') \in Nat /\ Cardinality(Uncounted(id)) \in Nat
    BY <1>1, FS_CardinalityType
  <1>3 /\ attempts[id] \in Nat /\ attempts'[id] \in Nat
       /\ deliveries[id] \in Nat /\ deliveries'[id] \in Nat
       /\ MaxAttempts \in Nat
    BY QueueAssumption DEF TypeOK
  <1>4 AtLeastOne(deliveries[id]) <= AtLeastOne(deliveries'[id])
    BY <1>3 DEF AtLeastOne
  <1> QED
    BY <1>1, <1>2, <1>3, <1>4 DEF Counted, AtLeastOne

\* A reclaim adds a delivery to both sides, for it takes over what was delivered
\* before.
LEMMA ReclaimCounted ==
    ASSUME TypeOK, TypeOK', CursorFits, DeliveredPending, NEW c \in Consumers,
           NEW idle \in SUBSET Ids, Reclaim(c, idle), NEW id \in idle, Counted(id)
    PROVE  Counted(id)'
  <1>1 /\ attempts' = attempts
       /\ deliveries[id] >= 1
       /\ deliveries'[id] = IF deliveries[id] <= MaxAttempts THEN deliveries[id] + 1
                            ELSE deliveries[id]
    BY DecodeOwns DEF Reclaim, DeliveredPending
  <1>2 /\ IsFiniteSet(Uncounted(id))
       /\ IsFiniteSet(Uncounted(id) \cup {c})
       /\ Cardinality(Uncounted(id) \cup {c}) <= Cardinality(Uncounted(id)) + 1
    <2>1 IsFiniteSet(Uncounted(id))
      BY DEF Counted
    <2>2 Cardinality(Uncounted(id)) \in Nat
      BY <2>1, FS_CardinalityType
    <2>3 /\ IsFiniteSet(Uncounted(id) \cup {c})
         /\ Cardinality(Uncounted(id) \cup {c}) =
              IF c \in Uncounted(id) THEN Cardinality(Uncounted(id))
              ELSE Cardinality(Uncounted(id)) + 1
      BY <2>1, FS_AddElement
    <2> QED
      BY <2>1, <2>2, <2>3
  <1>3 Uncounted(id)' \in SUBSET (Uncounted(id) \cup {c})
    BY ReclaimAddsOne
  <1>4 /\ IsFiniteSet(Uncounted(id)')
       /\ Cardinality(Uncounted(id)') <= Cardinality(Uncounted(id) \cup {c})
    BY <1>2, <1>3, FS_Subset
  <1>5 /\ Cardinality(Uncounted(id)') \in Nat
       /\ Cardinality(Uncounted(id) \cup {c}) \in Nat
       /\ Cardinality(Uncounted(id)) \in Nat
    BY <1>2, <1>4, FS_CardinalityType
  <1>6 attempts[id] \in Nat /\ deliveries[id] \in Nat /\ MaxAttempts \in Nat
    BY QueueAssumption DEF TypeOK
  <1> QED
    BY <1>1, <1>2, <1>4, <1>5, <1>6 DEF Counted, AtLeastOne

\* HINCRBY moves a delivery from the uncounted ones to the counter.
LEMMA CountAttemptCounted ==
    ASSUME TypeOK, TypeOK', CursorFits, NEW c \in Consumers, CountAttempt(c), again[c],
           NEW id \in Ids, id = cur[c], Counted(id)
    PROVE  Counted(id)'
  <1>1 c \in Uncounted(id)
    BY DEF CountAttempt, CursorFits, FitsAt, Uncounted
  <1>2 Uncounted(id)' \subseteq Uncounted(id) /\ c \notin Uncounted(id)'
    BY <1>1, UncountedShrinks DEF ConsumerStep
  <1>3 /\ IsFiniteSet(Uncounted(id))
       /\ IsFiniteSet(Uncounted(id) \ {c})
       /\ Cardinality(Uncounted(id) \ {c}) = Cardinality(Uncounted(id)) - 1
    BY <1>1, FS_RemoveElement DEF Counted
  <1>4 /\ IsFiniteSet(Uncounted(id)')
       /\ Cardinality(Uncounted(id)') <= Cardinality(Uncounted(id) \ {c})
    <2>1 Uncounted(id)' \in SUBSET (Uncounted(id) \ {c})
      BY <1>2
    <2> QED
      BY <1>3, <2>1, FS_Subset
  <1>5 Cardinality(Uncounted(id)') \in Nat /\ Cardinality(Uncounted(id)) \in Nat
    BY <1>3, <1>4, FS_CardinalityType
  <1>6 attempts[id] \in Nat /\ deliveries[id] \in Nat /\ MaxAttempts \in Nat
    BY <1>1, QueueAssumption DEF TypeOK
  <1>7 attempts'[id] = attempts[id] + 1 /\ deliveries' = deliveries
    BY <1>1 DEF CountAttempt, historyVars, TypeOK
  <1>8 deliveries'[id] <= MaxAttempts =>
         Cardinality(Uncounted(id)') + AtLeastOne(attempts'[id]) <= AtLeastOne(deliveries'[id])
    BY <1>3, <1>4, <1>5, <1>6, <1>7 DEF Counted, AtLeastOne
  <1> QED
    BY <1>4, <1>8 DEF Counted

\* The account of every entry stays balanced.
LEMMA CountedStep ==
    ASSUME TypeOK, TypeOK', CursorFits, DeliveredPending, CountedOnce, Next
    PROVE  CountedOnce'
  <1>1 \A id \in Ids : Counted(id) /\ deliveries'[id] >= deliveries[id]
    BY DeliveriesGrow DEF CountedOnce
  <1>2 \A id \in Ids : attempts[id] \in Nat /\ attempts'[id] \in Nat
    BY DEF TypeOK
  <1>3 CASE Append
    <2>1 \A id \in Ids : Uncounted(id)' = Uncounted(id) /\ attempts'[id] = attempts[id]
      BY <1>3 DEF Append, consumerVars, Uncounted
    <2> QED
      BY <1>1, <1>2, <2>1, CountedKept DEF CountedOnce, AtLeastOne
  <1>4 ASSUME NEW i \in Ids, SetFirstAttempt(i) \/ ProducerDies(i)
       PROVE  CountedOnce'
    <2>1 \A id \in Ids : Uncounted(id)' = Uncounted(id)
      BY <1>4 DEF SetFirstAttempt, ProducerDies, consumerVars, Uncounted
    <2>2 \A id \in Ids : attempts'[id] = attempts[id] \/ attempts'[id] = 1
      BY <1>4 DEF SetFirstAttempt, ProducerDies, TypeOK
    <2>3 \A id \in Ids : AtLeastOne(attempts'[id]) <= AtLeastOne(attempts[id])
      BY <1>2, <2>2 DEF AtLeastOne
    <2> QED
      BY <1>1, <2>1, <2>3, CountedKept DEF CountedOnce
  <1>5 ASSUME NEW c \in Consumers, NEW idle \in SUBSET Ids, Reclaim(c, idle)
       PROVE  CountedOnce'
    <2>1 ASSUME NEW id \in Ids \ idle
         PROVE  Counted(id)'
      <3>1 Uncounted(id)' \subseteq Uncounted(id)
        BY <1>5, ReclaimAddsOne
      <3>2 AtLeastOne(attempts'[id]) <= AtLeastOne(attempts[id])
        BY <1>2, <1>5 DEF Reclaim, AtLeastOne
      <3> QED
        BY <1>1, <3>1, <3>2, CountedKept
    <2>2 \A id \in idle : Counted(id)'
      BY <1>1, <1>5, ReclaimCounted
    <2> QED
      BY <2>1, <2>2 DEF CountedOnce
  <1>6 ASSUME NEW c \in Consumers, Consume(c) \/ ConsumerStep(c) \/ Crash(c)
       PROVE  CountedOnce'
    <2>1 \A id \in Ids : Uncounted(id)' \subseteq Uncounted(id)
      BY <1>6, UncountedShrinks
    <2>2 ASSUME NEW id \in Ids, CountAttempt(c), again[c], id = cur[c]
         PROVE  Counted(id)'
      BY <1>1, <2>2, CountAttemptCounted
    <2>3 ASSUME NEW id \in Ids, ~(CountAttempt(c) /\ again[c] /\ id = cur[c])
         PROVE  Counted(id)'
      <3>1 \/ attempts'[id] \in {attempts[id], 0}
           \/ attempts[id] = 0 /\ attempts'[id] = 1
        <4>1 CASE CountAttempt(c)
          BY <2>3, <4>1 DEF CountAttempt, TypeOK
        <4>2 CASE EnsureAttempt(c)
          BY <4>2 DEF EnsureAttempt, TypeOK
        <4>3 CASE DeleteAttempts(c)
          BY <4>3 DEF DeleteAttempts, TypeOK
        <4>4 attempts' = attempts \/ CountAttempt(c) \/ EnsureAttempt(c) \/ DeleteAttempts(c)
          BY <1>6 DEF ConsumerStep, Consume, DeadLetter, ProcessJob, AckPending, DeleteEntry, Crash
        <4> QED
          BY <4>1, <4>2, <4>3, <4>4
      <3>2 AtLeastOne(attempts'[id]) <= AtLeastOne(attempts[id])
        BY <1>2, <3>1 DEF AtLeastOne
      <3> QED
        BY <1>1, <2>1, <3>2, CountedKept
    <2> QED
      BY <2>2, <2>3 DEF CountedOnce
  <1> QED
    BY <1>3, <1>4, <1>5, <1>6 DEF Next

\* A counter beyond the budget means that many deliveries.
LEMMA BudgetIsSpent ==
    ASSUME TypeOK, CursorFits, CountedOnce, NEW c \in Consumers, pc[c] = "count",
           (IF again[c] THEN attempts[cur[c]] + 1 ELSE AtLeastOne(attempts[cur[c]])) > MaxAttempts
    PROVE  deliveries[cur[c]] > MaxAttempts
  <1> DEFINE id == cur[c]
  <1>1 id \in Ids /\ id \in batch[c]
    BY DEF CursorFits, FitsAt, TypeOK
  <1>2 /\ attempts[id] \in Nat
       /\ deliveries[id] \in Nat
       /\ MaxAttempts \in Nat \ {0}
       /\ IsFiniteSet(Uncounted(id))
       /\ Cardinality(Uncounted(id)) \in Nat
    BY <1>1, QueueAssumption, FS_CardinalityType DEF TypeOK, CountedOnce, Counted
  <1>3 deliveries[id] <= MaxAttempts =>
         Cardinality(Uncounted(id)) + AtLeastOne(attempts[id]) <= AtLeastOne(deliveries[id])
    BY <1>1 DEF CountedOnce, Counted
  <1>4 again[c] => Cardinality(Uncounted(id)) # 0
    <2>1 again[c] => c \in Uncounted(id)
      BY <1>1 DEF Uncounted
    <2> QED
      BY <1>2, <2>1, FS_EmptySet
  <1> QED
    BY <1>2, <1>3, <1>4 DEF AtLeastOne

\* Only an entry whose budget is spent, or a malformed one, is rejected.
LEMMA RejectedStep ==
    ASSUME TypeOK, CursorFits, CountedOnce, RejectedInTime, Next
    PROVE  RejectedInTime'
  <1>1 \A i \in Ids : deliveries[i] \in Nat /\ deliveries'[i] \in Nat
                     /\ deliveries'[i] >= deliveries[i]
    <2>1 TypeOK'
      BY TypeStep
    <2> QED
      BY <2>1, DeliveriesGrow DEF TypeOK
  <1>2 CASE UNCHANGED <<pc, cur, deliveries>>
    BY <1>2 DEF RejectedInTime
  <1>3 ASSUME NEW c \in Consumers, OthersStay(c),
              pc'[c] = "dead" => cur'[c] \in Malformed \/ deliveries'[cur'[c]] > MaxAttempts
       PROVE  RejectedInTime'
    <2>1 ASSUME NEW d \in Consumers \ {c}, pc'[d] = "dead"
         PROVE  cur'[d] \in Malformed \/ deliveries'[cur'[d]] > MaxAttempts
      <3>1 pc[d] = "dead" /\ cur'[d] = cur[d] /\ cur[d] \in Ids
        BY <1>3, <2>1 DEF OthersStay, CursorFits, FitsAt, TypeOK
      <3>2 cur[d] \in Malformed \/ deliveries[cur[d]] > MaxAttempts
        BY <3>1 DEF RejectedInTime
      <3> QED
        BY <1>1, <3>1, <3>2, QueueAssumption
    <2> QED
      BY <1>3, <2>1 DEF RejectedInTime
  <1>4 ASSUME NEW c \in Consumers, CountAttempt(c), pc'[c] = "dead"
       PROVE  cur'[c] \in Malformed \/ deliveries'[cur'[c]] > MaxAttempts
    <2>1 /\ pc[c] = "count"
         /\ deliveries' = deliveries
         /\ cur[c] \in Ids
      BY <1>4 DEF CountAttempt, historyVars, CursorFits, FitsAt, TypeOK
    <2>2 pc'[c] # "dead" \/ UNCHANGED cur
      BY <1>4 DEF CountAttempt, Proceed, TypeOK
    <2>3 \/ cur[c] \in Malformed
         \/ (IF again[c] THEN attempts[cur[c]] + 1 ELSE AtLeastOne(attempts[cur[c]])) > MaxAttempts
      BY <1>4, <2>1 DEF CountAttempt, Proceed, TypeOK, AtLeastOne
    <2> QED
      BY <1>4, <2>1, <2>2, <2>3, BudgetIsSpent
  <1>5 ASSUME NEW c \in Consumers,
              \/ Consume(c)
              \/ \E idle \in SUBSET Ids : Reclaim(c, idle)
              \/ ConsumerStep(c) /\ ~CountAttempt(c)
              \/ Crash(c)
       PROVE  pc'[c] # "dead"
    BY <1>5 DEF ConsumerStep, TypeOK, Consume, Reclaim, Decode, EnsureAttempt, DeadLetter, ProcessJob,
      Proceed, AckPending, DeleteEntry, DeleteAttempts, Crash
  <1>6 CASE Append \/ \E id \in Ids : SetFirstAttempt(id) \/ ProducerDies(id)
    BY <1>2, <1>6 DEF Append, SetFirstAttempt, ProducerDies, consumerVars, historyVars
  <1>7 ASSUME NEW c \in Consumers,
              \/ Consume(c)
              \/ \E idle \in SUBSET Ids : Reclaim(c, idle)
              \/ ConsumerStep(c)
              \/ Crash(c)
       PROVE  RejectedInTime'
    <2>1 OthersStay(c)
      BY <1>7, ConsumerMoves
    <2> QED
      BY <1>3, <1>4, <1>5, <1>7, <2>1
  <1> QED
    BY <1>6, <1>7 DEF Next

\* A dead-letter record says that the budget was spent, and it stays spent.
LEMMA BudgetStep ==
    ASSUME TypeOK, CursorFits, RejectedInTime, BudgetIsNotCutShort, Next
    PROVE  BudgetIsNotCutShort'
  <1>1 \A i \in Ids : deliveries[i] \in Nat /\ deliveries'[i] \in Nat
                     /\ deliveries'[i] >= deliveries[i]
    <2>1 TypeOK'
      BY TypeStep
    <2> QED
      BY <2>1, DeliveriesGrow DEF TypeOK
  <1>2 CASE dlq' = dlq
    BY <1>1, <1>2, QueueAssumption DEF BudgetIsNotCutShort
  <1>3 ASSUME NEW c \in Consumers, DeadLetter(c)
       PROVE  BudgetIsNotCutShort'
    BY <1>1, <1>3, QueueAssumption DEF DeadLetter, RejectedInTime, BudgetIsNotCutShort
  <1>4 dlq' = dlq \/ \E c \in Consumers : DeadLetter(c)
    BY DEF Next, ConsumerStep, Append, SetFirstAttempt, ProducerDies, Consume, Reclaim, EnsureAttempt,
      CountAttempt, ProcessJob, AckPending, DeleteEntry, DeleteAttempts, Crash
  <1> QED
    BY <1>2, <1>3, <1>4

-----------------------------------------------------------------------------
(* The theorems.                                                            *)

\* Every part holds of the empty queue.
LEMMA InvariantInit == Init => IInv
  <1> SUFFICES ASSUME Init PROVE IInv
    OBVIOUS
  <1>1 TypeOK
    BY QueueAssumption, ConsumersAssumption DEF Init, TypeOK, Pending, Ids, Pcs
  <1>2 CursorFits /\ AckedIsSettled /\ NoEntryLost /\ DeliveredPending /\ RejectedInTime
    BY QueueAssumption DEF Init, CursorFits, FitsAt, AckedIsSettled, NoEntryLost, DeliveredPending, Pending,
      RejectedInTime
  <1>3 BudgetIsNotCutShort
    BY DEF Init, BudgetIsNotCutShort
  <1>4 CountedOnce
    <2>1 \A id \in Ids : Uncounted(id) = {} /\ attempts[id] = 0 /\ deliveries[id] = 0
      BY DEF Init, Uncounted
    <2> QED
      BY <2>1, FS_EmptySet DEF CountedOnce, Counted, AtLeastOne
  <1> QED
    BY <1>1, <1>2, <1>3, <1>4 DEF IInv

\* Every part is preserved.
LEMMA InvariantStep == IInv /\ [Next]_vars => IInv'
  <1> SUFFICES ASSUME IInv, [Next]_vars PROVE IInv'
    OBVIOUS
  <1>1 CASE Next
    <2> USE <1>1 DEF IInv
    <2>1 TypeOK' /\ CursorFits'
      BY TypeStep, CursorStep
    <2>2 AckedIsSettled' /\ NoEntryLost' /\ DeliveredPending'
      BY SettledStep, NothingLostStep, DeliveredStep
    <2>3 CountedOnce'
      BY <2>1, CountedStep
    <2>4 RejectedInTime' /\ BudgetIsNotCutShort'
      BY RejectedStep, BudgetStep
    <2> QED
      BY <2>1, <2>2, <2>3, <2>4
  <1>2 CASE UNCHANGED vars
    BY <1>2 DEF vars, streamVars, consumerVars, historyVars, IInv, TypeOK, Pending, CursorFits, FitsAt,
      AckedIsSettled, NoEntryLost, DeliveredPending, CountedOnce, Counted, Uncounted, RejectedInTime,
      BudgetIsNotCutShort
  <1> QED
    BY <1>1, <1>2

\* The inductive invariant holds of every behaviour.
LEMMA Invariant == Spec => []IInv
  BY InvariantInit, InvariantStep, PTL DEF Spec

\* Every variable keeps its type, whatever producers, consumers and crashes
\* interleave.
THEOREM TypeCorrect == Spec => []TypeOK
  <1>1 IInv => TypeOK
    BY DEF IInv
  <1> QED
    BY <1>1, Invariant, PTL

\* At-least-once delivery: however many consumers crash between XREADGROUP, the
\* decision and XACK, XDEL, HDEL, no entry leaves the stream or the pending list
\* before it was decided.
THEOREM NothingLost == Spec => []NoEntryLost
  <1>1 IInv => NoEntryLost
    BY DEF IInv
  <1> QED
    BY <1>1, Invariant, PTL

\* Whichever way HSET, HSETNX, HINCRBY and HDEL of several processes interleave,
\* no well-formed entry is dead-lettered before it was delivered more than
\* worker_max_delivery_attempts times.
THEOREM BudgetKept == Spec => []BudgetIsNotCutShort
  <1>1 IInv => BudgetIsNotCutShort
    BY DEF IInv
  <1> QED
    BY <1>1, Invariant, PTL

=============================================================================

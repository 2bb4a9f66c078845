----------------------------- MODULE PollProofs -----------------------------
(* Proofs about Poll, for any intervals, timeouts and backoffs. *)
EXTENDS Poll, TLAPS

\* The longest first backoff.
FirstWait == MinBackoff + MinBackoff \div 4

\* How long the machine may have been silent, and how long calls may have
\* succeeded, by what it is waiting for.
NoMiss ==
  misses = 0 =>
    /\ backoff = MinBackoff
    /\ pc = "wait" => timer <= Told /\ silence <= CallTimeout + Told - timer
    /\ pc = "call" => silence <= CallTimeout + Told + Lag + Elapsed

OneMiss ==
  misses = 1 =>
    /\ pc = "wait" =>
         timer <= FirstWait /\ silence <= 2 * CallTimeout + Told + Lag + FirstWait - timer
    /\ pc = "call" =>
         silence <= 2 * CallTimeout + Told + 2 * Lag + FirstWait + Elapsed

SomeMiss ==
  misses > 0 =>
    /\ pc = "wait" => timer <= LongestBackoff /\ upFor < CallTimeout + LongestBackoff - timer
    /\ pc = "call" => upFor < CallTimeout + LongestBackoff + Lag + Elapsed

IInv == TypeOK /\ (~up => upFor = 0) /\ NoMiss /\ OneMiss /\ SomeMiss

-----------------------------------------------------------------------------
\* The interval a machine is told is never negative.
LEMMA ToldType == interval \in Int => Told \in Nat
<1> SUFFICES ASSUME interval \in Int PROVE Told \in Nat
  OBVIOUS
<1>1. interval \div Second \in Int /\ Second \in Nat
  BY PollAssumption
<1>2. ASSUME NEW n \in Int, n > 0, NEW m \in Nat PROVE n * m \in Nat
  BY <1>2
<1> QED
  BY <1>1, <1>2, PollAssumption DEF Told

\* The waits of nextBackoff: within bounds whatever the backoff, and a first
\* wait if the backoff is the least.
LEMMA WaitBounds ==
  ASSUME backoff \in MinBackoff .. MaxBackoff, NEW w \in Waits
  PROVE  /\ w \in 0 .. LongestBackoff
         /\ backoff = MinBackoff => w <= FirstWait
         /\ Doubled \in MinBackoff .. MaxBackoff
         /\ LongestBackoff \in Nat /\ FirstWait \in Nat
<1>1. backoff \in Nat /\ MaxBackoff \in Nat /\ MinBackoff \in Nat
  BY PollAssumption
<1>2. backoff \div 4 <= MaxBackoff \div 4 /\ MinBackoff \div 4 \in Nat /\ backoff \div 4 \in Nat
      /\ MaxBackoff \div 4 \in Nat
  BY <1>1
<1> QED
  BY <1>1, <1>2 DEF Waits, LongestBackoff, FirstWait, Doubled, Smaller

LEMMA Numbers ==
  /\ LongestBackoff \in Nat /\ FirstWait \in Nat /\ Recovery \in Nat
  /\ MinBackoff \in MinBackoff .. MaxBackoff
BY PollAssumption DEF LongestBackoff, FirstWait, Recovery

-----------------------------------------------------------------------------
LEMMA InitIInv == Init => IInv
BY ToldType, Numbers, PollAssumption
DEF Init, IInv, TypeOK, NoMiss, OneMiss, SomeMiss, Larger, Elapsed

LEMMA NextIInv == IInv /\ [Next]_vars => IInv'
<1> SUFFICES ASSUME IInv, [Next]_vars PROVE IInv'
  OBVIOUS
<1>1. /\ Told \in Nat /\ Told' = Told
      /\ interval' = interval /\ timeout' = timeout
  <2>1. interval' = interval /\ timeout' = timeout
    BY DEF Next, vars, config, Poll, Succeeds, Fails, PollNow, Outage, Recovers, Tick
  <2> QED
    BY <2>1, ToldType, PollAssumption DEF IInv, TypeOK, Told
<1>2. CASE Poll
  BY Numbers, PollAssumption, <1>1, <1>2 DEF Poll, config, IInv, TypeOK, NoMiss, OneMiss, SomeMiss, Elapsed, Larger
<1>3. CASE Succeeds
  BY Numbers, PollAssumption, <1>1, <1>3
  DEF Succeeds, config, IInv, TypeOK, NoMiss, OneMiss, SomeMiss, Elapsed, Larger, Smaller
<1>4. CASE Fails
  <2> PICK w \in Waits, s \in 0 .. silence : timer' = w /\ silence' = s
    BY <1>4 DEF Fails
  <2>1. /\ w \in 0 .. LongestBackoff
        /\ backoff = MinBackoff => w <= FirstWait
        /\ backoff' \in MinBackoff .. MaxBackoff
    BY <1>4, WaitBounds DEF Fails, IInv, TypeOK
  <2>2. /\ pc = "call" /\ pc' = "wait" /\ UNCHANGED <<up, upFor>>
        /\ misses' \in 1 .. 2 /\ (misses' = 1 => misses = 0)
    BY <1>4 DEF Fails, IInv, TypeOK, Smaller
  <2>3. upFor < CallTimeout
    BY <1>4, PollAssumption DEF Fails, IInv, TypeOK, Elapsed
  <2>4. TypeOK'
    BY <1>1, <2>1, <2>2, Numbers, PollAssumption DEF IInv, TypeOK, Larger
  <2>5. OneMiss'
    BY <1>1, <2>1, <2>2, Numbers, PollAssumption DEF IInv, TypeOK, NoMiss, OneMiss, Elapsed
  <2>6. SomeMiss'
    BY <1>1, <2>1, <2>2, <2>3, Numbers, PollAssumption DEF IInv, TypeOK, SomeMiss
  <2> QED
    BY <2>2, <2>4, <2>5, <2>6 DEF IInv, TypeOK, NoMiss
<1>5. CASE PollNow
  BY Numbers, PollAssumption, <1>1, <1>5 DEF PollNow, config, IInv, TypeOK, NoMiss, OneMiss, SomeMiss, Elapsed, Larger
<1>6. CASE Outage
  <2>1. upFor' = 0 /\ up' = FALSE /\ UNCHANGED <<pc, timer, backoff, silence, misses>>
    BY <1>6 DEF Outage
  <2>2. TypeOK'
    <3>1. upFor' \in 0 .. Recovery
      BY <2>1, Numbers
    <3> QED
      BY <1>1, <2>1, <3>1 DEF IInv, TypeOK, Larger
  <2>3. NoMiss' /\ OneMiss'
    BY <1>1, <2>1 DEF IInv, NoMiss, OneMiss, Elapsed
  <2>4. SomeMiss'
    <3>1. 0 <= upFor /\ upFor \in Int /\ timer \in Int
      BY <1>1, Numbers, PollAssumption DEF IInv, TypeOK, Larger
    <3>2. ASSUME NEW n \in Int, upFor < n PROVE 0 < n
      BY <3>1, <3>2
    <3> QED
      BY <1>1, <2>1, <3>1, <3>2, Numbers, PollAssumption DEF IInv, SomeMiss, Elapsed
  <2> QED
    BY <2>1, <2>2, <2>3, <2>4 DEF IInv
<1>7. CASE Recovers
  BY Numbers, PollAssumption, <1>1, <1>7 DEF Recovers, config, IInv, TypeOK, NoMiss, OneMiss, SomeMiss, Elapsed, Larger
<1>8. CASE Tick
  <2> PICK s \in 0 .. MaxSilence : silence' = s /\ s <= silence + 1
    BY <1>8, PollAssumption DEF Tick, Smaller, IInv, TypeOK
  <2> PICK u \in 0 .. Recovery : upFor' = u /\ u <= upFor + 1 /\ (~up => u = 0)
    BY <1>8, Numbers DEF Tick, Smaller, IInv, TypeOK
  <2> PICK t \in Int : timer' = t /\ t = timer - 1
    BY <1>8, Numbers, PollAssumption DEF Tick, IInv, TypeOK
  <2>1. /\ UNCHANGED <<pc, backoff, up, misses>>
        /\ pc = "wait" => timer > -Lag
        /\ pc = "call" => timer > 0
    BY <1>8 DEF Tick
  <2>2. TypeOK'
    BY <1>1, <2>1, Numbers, PollAssumption DEF IInv, TypeOK, Larger
  <2>3. NoMiss'
    BY <1>1, <2>1, Numbers, PollAssumption DEF IInv, TypeOK, NoMiss, Elapsed
  <2>4. OneMiss'
    BY <1>1, <2>1, Numbers, PollAssumption DEF IInv, TypeOK, OneMiss, Elapsed
  <2>5. SomeMiss'
    BY <1>1, <2>1, Numbers, PollAssumption DEF IInv, TypeOK, SomeMiss, Elapsed
  <2> QED
    BY <2>1, <2>2, <2>3, <2>4, <2>5 DEF IInv
<1>9. CASE UNCHANGED vars
  BY Numbers, PollAssumption, <1>1, <1>9
  DEF vars, config, IInv, TypeOK, NoMiss, OneMiss, SomeMiss, Elapsed, Larger
<1> QED
  BY <1>2, <1>3, <1>4, <1>5, <1>6, <1>7, <1>8, <1>9 DEF Next

LEMMA Inductive == Spec => []IInv
BY InitIInv, NextIInv, PTL DEF Spec

\* Type correctness: waits and backoffs stay within their bounds.
THEOREM TypeCorrect == Spec => []TypeOK
<1>1. IInv => TypeOK
  BY DEF IInv
<1> QED
  BY <1>1, Inductive, PTL

\* One missed poll drops nobody if the peer timeout leaves the room for it.
THEOREM OneMissIsSurvived == Spec => []OneMissSurvived
<1>1. IInv => OneMissSurvived
  <2> SUFFICES ASSUME IInv, RoomForOneMiss, misses <= 1 PROVE Listed
    BY DEF OneMissSurvived
  <2>1. Told \in Nat
    BY ToldType, PollAssumption DEF IInv, TypeOK
  <2>2. Elapsed <= CallTimeout \/ pc = "wait"
    BY PollAssumption DEF IInv, TypeOK, Elapsed
  <2>3. CASE misses = 0
    BY <2>1, <2>2, <2>3, Numbers, PollAssumption
    DEF IInv, NoMiss, TypeOK, RoomForOneMiss, Listed, Elapsed, FirstWait
  <2>4. CASE misses = 1
    BY <2>1, <2>2, <2>4, Numbers, PollAssumption
    DEF IInv, OneMiss, TypeOK, RoomForOneMiss, Listed, Elapsed, FirstWait
  <2> QED
    BY <2>3, <2>4 DEF IInv, TypeOK
<1> QED
  BY <1>1, Inductive, PTL

\* A server that is back for a while has heard the machine, whatever came before.
THEOREM HeardInTime == Spec => []BackInTime
<1>1. IInv => BackInTime
  <2> SUFFICES ASSUME IInv, upFor = Recovery
               PROVE  misses = 0 /\ silence <= Told + 2 * CallTimeout + Lag
    BY DEF BackInTime
  <2>1. Told \in Nat
    BY ToldType, PollAssumption DEF IInv, TypeOK
  <2>2. misses = 0
    BY Numbers, PollAssumption DEF IInv, TypeOK, SomeMiss, Elapsed, Recovery
  <2> QED
    BY <2>1, <2>2, PollAssumption DEF IInv, TypeOK, NoMiss, Elapsed
<1> QED
  BY <1>1, Inductive, PTL
=============================================================================

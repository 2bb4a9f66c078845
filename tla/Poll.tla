-------------------------------- MODULE Poll --------------------------------
(***************************************************************************)
(* The timing of one machine's polls: the interval the server tells it,    *)
(* the backoff after a failed poll, and the peer timeout after which the   *)
(* other machines no longer get it in their lists.                         *)
(*                                                                         *)
(* Durations are in units of which Second make a second.  A poll is the    *)
(* one call of a machine the server knows (client.Sync); a pass of meshd   *)
(* gets to it at most Lag after its time has come.  A failed poll may have *)
(* been heard by the server nevertheless.  While the server is up, and the *)
(* way to it open, a call that begins succeeds.                            *)
(*                                                                         *)
(* Bounds: silence stops growing at MaxSilence and upFor at Recovery.      *)
(***************************************************************************)
EXTENDS Integers

CONSTANTS Second,
          Intervals,        \* what -sync-interval may be
          Timeouts,         \* what -peer-timeout may be
          DefaultInterval,  \* protocol.DefaultSyncIntervalSeconds
          MinBackoff, MaxBackoff,
          CallTimeout,      \* the client's
          ReqTimeout,       \* the server's (requestContext)
          Lag,
          MaxSilence

ASSUME PollAssumption ==
  /\ Second \in Nat \ {0} /\ DefaultInterval \in Nat
  /\ Intervals \subseteq Int /\ Timeouts \subseteq Int
  /\ MinBackoff \in Nat /\ MaxBackoff \in Nat /\ MinBackoff <= MaxBackoff
  /\ CallTimeout \in Nat \ {0} /\ ReqTimeout \in Nat /\ Lag \in Nat /\ MaxSilence \in Nat

VARIABLES
  interval, timeout,  \* the server's configuration
  pc,       \* "wait" for the next poll, or "call"
  timer,    \* of the wait, or of the call: the time that is left
  backoff,  \* d.backoff
  up,       \* calls succeed
  \* The rest is not in the program.
  silence,  \* the time since the newest request that was committed came
  misses,   \* failed polls since the last good one; 2 is two or more
  upFor     \* how long calls have succeeded

config == <<interval, timeout>>
vars   == <<config, pc, timer, backoff, up, silence, misses, upFor>>

Smaller(a, b) == IF a < b THEN a ELSE b
Larger(a, b)  == IF a > b THEN a ELSE b

\* server.New and main refuse everything else.
Accepted(i, t) == i > 0 /\ t > i

\* The answer holds whole seconds; the client takes none as the default.
Told == IF interval \div Second > 0 THEN (interval \div Second) * Second
                                    ELSE DefaultInterval

\* nextBackoff: the backoff, and up to a quarter of it more.  Mutant: as much
\* more again.
WaitsDoubled == backoff .. 2 * backoff

Waits == backoff .. backoff + backoff \div 4

\* Mutant: the backoff goes on doubling.
DoubledForever == 2 * backoff

Doubled == Smaller(2 * backoff, MaxBackoff)

LongestBackoff == MaxBackoff + MaxBackoff \div 4

\* The longest it takes until a machine has polled, whatever came before.
Recovery == LongestBackoff + Lag + 2 * CallTimeout

TypeOK ==
  /\ interval \in Intervals /\ timeout \in Timeouts
  /\ pc \in {"wait", "call"}
  /\ pc = "wait" => timer \in -Lag .. Larger(Told, LongestBackoff)
  /\ pc = "call" => timer \in 0 .. CallTimeout
  /\ backoff \in MinBackoff .. MaxBackoff
  /\ up \in BOOLEAN
  /\ silence \in 0 .. MaxSilence
  /\ misses \in 0 .. 2
  /\ upFor \in 0 .. Recovery

\* A machine that has just polled.
Init ==
  /\ interval \in Intervals /\ timeout \in Timeouts /\ Accepted(interval, timeout)
  /\ pc = "wait" /\ timer = Told
  /\ backoff = MinBackoff
  /\ up = TRUE /\ upFor = 0
  /\ silence = 0 /\ misses = 0

-----------------------------------------------------------------------------

Poll ==
  /\ pc = "wait" /\ timer <= 0
  /\ pc' = "call" /\ timer' = CallTimeout
  /\ UNCHANGED <<config, backoff, up, silence, misses, upFor>>

Elapsed == CallTimeout - timer

\* Mutant: the backoff is not reset.
SucceedsStillBackedOff ==
  /\ pc = "call"
  /\ pc' = "wait" /\ timer' = Told
  /\ silence' \in 0 .. Smaller(silence, Elapsed)
  /\ misses' = 0
  /\ UNCHANGED <<config, backoff, up, upFor>>

\* The server took the time of the request some time in the call.
Succeeds ==
  /\ pc = "call"
  /\ pc' = "wait" /\ timer' = Told
  /\ backoff' = MinBackoff
  /\ silence' \in 0 .. Smaller(silence, Elapsed)
  /\ misses' = 0
  /\ UNCHANGED <<config, up, upFor>>

\* Something went wrong in the time of the call.
Fails ==
  /\ pc = "call" /\ (~up \/ upFor < Elapsed)
  /\ pc' = "wait" /\ timer' \in Waits
  /\ backoff' = Doubled
  /\ silence' \in 0 .. silence /\ (silence' = silence \/ silence' <= Elapsed)
  /\ misses' = Smaller(misses + 1, 2)
  /\ UNCHANGED <<config, up, upFor>>

\* SIGHUP (Run): the next poll is due now.
PollNow ==
  /\ pc = "wait" /\ timer > 0
  /\ timer' = 0
  /\ UNCHANGED <<config, pc, backoff, up, silence, misses, upFor>>

Outage ==
  /\ up
  /\ up' = FALSE /\ upFor' = 0
  /\ UNCHANGED <<config, pc, timer, backoff, silence, misses>>

Recovers ==
  /\ ~up
  /\ up' = TRUE
  /\ UNCHANGED <<config, pc, timer, backoff, silence, misses, upFor>>

\* Time stops for nothing but a poll that must begin and a call that must end.
Tick ==
  /\ timer > IF pc = "wait" THEN -Lag ELSE 0
  /\ timer' = timer - 1
  /\ silence' = Smaller(silence + 1, MaxSilence)
  /\ upFor' = IF up THEN Smaller(upFor + 1, Recovery) ELSE 0
  /\ UNCHANGED <<config, pc, backoff, up, misses>>

Next == Poll \/ Succeeds \/ Fails \/ PollNow \/ Outage \/ Recovers \/ Tick

Spec == Init /\ [][Next]_vars

-----------------------------------------------------------------------------
(* Properties *)

\* The server lists a machine that was heard so lately (HeardIsListed of
\* CoordStore).
Listed == silence <= timeout - ReqTimeout

\* The timeout is long enough for one missed poll: the interval told, a first
\* backoff, three calls that take as long as they may, and a late commit.
RoomForOneMiss ==
  timeout >= Told + MinBackoff + MinBackoff \div 4 + 3 * CallTimeout + 2 * Lag + ReqTimeout

\* One missed poll does not drop a machine from the lists (server.go:43), if
\* the timeout leaves this room: that it is longer than the interval, which is
\* all the server checks, is not enough.
OneMissSurvived == (RoomForOneMiss /\ misses <= 1) => Listed

\* Whatever happened before, a server that is back for this long has heard the
\* machine, and the machine is back to the interval (syncIfDue, nextBackoff).
BackInTime ==
  upFor = Recovery => misses = 0 /\ silence <= Told + 2 * CallTimeout + Lag
=============================================================================

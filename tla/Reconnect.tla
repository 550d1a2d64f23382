------------------------------ MODULE Reconnect ------------------------------
(***************************************************************************)
(* The agent's reconnect loop (src/crates/dongle_agent/src/main.rs) in     *)
(* seconds: how long it sleeps between sessions.  A session is a call of   *)
(* run_session: it may end before the hub has registered the dongle, while *)
(* it is held, or Timeout seconds after the last line the hub sent.        *)
(***************************************************************************)
EXTENDS Integers

CONSTANTS Base,        \* BACKOFF_BASE
          MaxBackoff,  \* BACKOFF_MAX
          ResetAfter,  \* BACKOFF_RESET_AFTER
          Timeout,     \* HEARTBEAT_TIMEOUT_SECS
          Attempt      \* bound: how long connecting and registering may take (the
                       \* code has no timeout on it: longer than ResetAfter)

ASSUME DelayAssumption ==
  /\ Base \in Nat \ {0} /\ MaxBackoff \in Nat /\ Base <= MaxBackoff
  /\ ResetAfter \in Nat /\ Timeout \in Nat /\ Attempt \in Nat

VARIABLES
  pc,       \* "attempt" (connect, register), "held", "sleep"
  elapsed,  \* started.elapsed(), up to Horizon
  quiet,    \* seconds since the hub's last line, while held
  backoff,  \* main's local
  delay,    \* what the loop last slept, or sleeps
  slept,    \* seconds of it that have passed
  since     \* history: seconds since the delay was last reset, up to MaxBackoff

vars == <<pc, elapsed, quiet, backoff, delay, slept, since>>

\* Bound: elapsed is not told apart beyond this.
Horizon == Attempt + ResetAfter + Timeout
Later(n, max) == IF n < max THEN n + 1 ELSE n

\* Mutant of next_backoff: the ceiling is forgotten on the way back up.
UncappedBackoff(d) == IF d >= MaxBackoff THEN Base ELSE 2 * d
next_backoff(d) == IF 2 * d < MaxBackoff THEN 2 * d ELSE MaxBackoff

\* The type invariant.
TypeOK ==
  /\ pc \in {"attempt", "held", "sleep"}
  /\ elapsed \in 0 .. Horizon /\ quiet \in 0 .. Timeout
  /\ backoff \in Base .. MaxBackoff /\ delay \in Base .. MaxBackoff
  /\ slept \in 0 .. MaxBackoff /\ since \in 0 .. MaxBackoff

Init ==
  /\ pc = "attempt" /\ elapsed = 0 /\ quiet = 0
  /\ backoff = Base /\ delay = Base /\ slept = 0 /\ since = 0
-----------------------------------------------------------------------------
Tick ==
  /\ CASE pc = "attempt" -> elapsed < Attempt
       [] pc = "held"    -> quiet < Timeout
       [] pc = "sleep"   -> slept < delay
  /\ elapsed' = IF pc = "sleep" THEN elapsed ELSE Later(elapsed, Horizon)
  /\ quiet'   = IF pc = "held" THEN quiet + 1 ELSE quiet
  /\ slept'   = IF pc = "sleep" THEN slept + 1 ELSE slept
  /\ since'   = Later(since, MaxBackoff)
  /\ UNCHANGED <<pc, backoff, delay>>

Registered ==
  /\ pc = "attempt"
  /\ pc' = "held" /\ quiet' = 0
  /\ UNCHANGED <<elapsed, backoff, delay, slept, since>>

Hear ==
  /\ pc = "held" /\ quiet' = 0
  /\ UNCHANGED <<pc, elapsed, backoff, delay, slept, since>>

\* Mutant of Retry: a healthy session does not reset the delay.
RetryNoReset ==
  /\ delay' = backoff /\ backoff' = next_backoff(delay')
  /\ since' = IF elapsed >= ResetAfter THEN 0 ELSE since
  /\ pc' = "sleep" /\ slept' = 0
  /\ UNCHANGED <<elapsed, quiet>>

\* run_session has returned: reset a healthy session's delay, sleep, double it.
Retry ==
  /\ delay' = IF elapsed >= ResetAfter THEN Base ELSE backoff
  /\ since' = IF elapsed >= ResetAfter THEN 0 ELSE since
  /\ backoff' = next_backoff(delay')
  /\ pc' = "sleep" /\ slept' = 0
  /\ UNCHANGED <<elapsed, quiet>>

AttemptFails == pc = "attempt" /\ Retry
Closed       == pc = "held" /\ quiet < Timeout /\ Retry
TimesOut     == pc = "held" /\ quiet = Timeout /\ Retry

Wake ==
  /\ pc = "sleep" /\ slept = delay
  /\ pc' = "attempt" /\ elapsed' = 0
  /\ UNCHANGED <<quiet, backoff, delay, slept, since>>

Next == Tick \/ Registered \/ Hear \/ AttemptFails \/ Closed \/ TimesOut \/ Wake

Spec == Init /\ [][Next]_vars

\* Time passes, an attempt ends (TCP gives up a hub that does not answer), a
\* sleep ends.
FairSpec == Spec /\ WF_vars(Tick) /\ WF_vars(AttemptFails) /\ WF_vars(Wake)
-----------------------------------------------------------------------------
(* Properties                                                              *)

\* A quick restart of the hub is barely noticed: the agent never sleeps longer
\* than a base delay and the time that has passed since the delay was reset (or
\* the agent started).
Proportionate == pc = "sleep" => delay <= Base + since

\* A hub that stays down in one way, refusing at once or swallowing every packet
\* until TCP gives up, is dialled once in MaxBackoff seconds in the end.
Quick == <>[](pc = "sleep" => elapsed < ResetAfter)
Slow  == <>[](pc = "sleep" => elapsed >= ResetAfter)
DownHubIsPaced ==
  <>[](pc # "held") /\ (Quick \/ Slow)
    => <>[](pc = "sleep" => elapsed + delay >= MaxBackoff)

\* The delay comes down only after a session the hub had registered.  It does
\* not: an attempt of ResetAfter seconds counts as a healthy session.
ShrinksAfterSession == [][delay' < delay => pc = "held"]_vars

\* A session that died on a missed heartbeat does not reset the delay.  It does,
\* if it was up for long enough before.
MissedHeartbeatKeepsDelay == [][TimesOut => delay' >= delay]_vars
=============================================================================

----------------------------- MODULE ClockProofs -----------------------------
(***************************************************************************)
(* Theorems about the clocks of a session and of the loop that redials:    *)
(* neither end gives up a peer in reach, and the loop never sleeps longer  *)
(* than it has been in trouble, for every choice of the periods.           *)
(***************************************************************************)
EXTENDS Heartbeats, TLAPS

\* The agent's clocks: quietA counts from the last line read, the ticker from
\* the last heartbeat, e seconds ago.
Since == Interval - ticker

InReach ==
  cut = Nothing =>
    /\ hub = "hold" /\ agent # "gone"
    /\ agent = "await" =>
         /\ toHub = Nothing /\ toAgent # Nothing
         /\ quietA = toAgent /\ quietH = toAgent
    /\ agent = "launch" =>
         /\ toHub = Nothing /\ toAgent = Nothing
         /\ quietA <= MaxLaunch /\ quietH <= MaxDelay + quietA
    /\ agent = "hold" =>
         /\ toHub = Nothing /\ toAgent = Nothing =>
              quietA <= Since /\ quietH <= MaxDelay + MaxLaunch + Since
         /\ toHub # Nothing =>
              /\ toAgent = Nothing /\ toHub = Since
              /\ quietA <= Interval + Since
              /\ quietH <= MaxDelay + MaxLaunch + Interval + Since
         /\ toAgent # Nothing =>
              /\ toHub = Nothing
              /\ toAgent <= Since /\ Since <= toAgent + MaxDelay
              /\ quietA <= Interval + Since /\ quietH <= Since

OutOfReach ==
  cut # Nothing =>
    /\ toHub = Nothing /\ toAgent = Nothing
    /\ agent = "await" => quietA >= cut
    /\ agent = "launch" => quietA >= cut /\ quietA <= MaxLaunch
    /\ agent = "hold" => quietA + MaxLaunch >= cut
    /\ agent \in {"await", "hold"} => quietA <= Timeout
    /\ hub = "hold" => quietH >= cut

IInv == TypeOK /\ InReach /\ OutOfReach

LEMMA InitIInv == Init => IInv
  BY ClockAssumption DEF Init, IInv, TypeOK, InReach, OutOfReach, Since, Nothing, Window

LEMMA StepIInv == ASSUME Room PROVE IInv /\ [Next]_vars => IInv'
<1> SUFFICES ASSUME IInv, [Next]_vars PROVE IInv'
  OBVIOUS
<1> USE ClockAssumption, Room
    DEF Room, IInv, TypeOK, InReach, OutOfReach, Since, Nothing, Window, Age, Send
<1>1. CASE Tick
  BY <1>1, SMTT(60) DEF Tick, Due
<1>2. CASE Cut
  BY <1>2, SMTT(60) DEF Cut
<1>3. CASE AgentReads
  BY <1>3, SMTT(60) DEF AgentReads
<1>4. CASE Launched
  BY <1>4, SMTT(60) DEF Launched
<1>5. CASE Beat
  BY <1>5, SMTT(60) DEF Beat
<1>6. CASE AgentTimesOut
  BY <1>6, SMTT(60) DEF AgentTimesOut
<1>7. CASE HubReads
  BY <1>7, SMTT(60) DEF HubReads
<1>8. CASE HubTimesOut
  BY <1>8, SMTT(60) DEF HubTimesOut
<1>9. CASE UNCHANGED vars
  BY <1>9 DEF vars
<1> QED
  BY <1>1, <1>2, <1>3, <1>4, <1>5, <1>6, <1>7, <1>8, <1>9 DEF Next

LEMMA Always == ASSUME Room PROVE Spec => []IInv
  BY InitIInv, StepIInv, PTL DEF Spec

\* For every period, timeout, delay and launch time with Room for the first
\* heartbeat, no session in reach is given up by either end.
THEOREM NoAlarm == ASSUME Room PROVE Spec => []NoFalseAlarm
<1>1. IInv => NoFalseAlarm
  BY DEF IInv, InReach, NoFalseAlarm
<1> QED
  BY <1>1, Always, PTL

\* ... and a session out of reach is given up by both within the window.
THEOREM Noticed == ASSUME Room PROVE Spec => []DropNoticed
<1>1. IInv => DropNoticed
  BY ClockAssumption DEF IInv, TypeOK, OutOfReach, DropNoticed, Window, Nothing
<1> QED
  BY <1>1, Always, PTL
-----------------------------------------------------------------------------
(* The reconnect loop *)

CONSTANTS Base, MaxBackoff, ResetAfter, Attempt
VARIABLES pc, elapsed, quiet, backoff, delay, slept, since

R == INSTANCE Reconnect

\* What the next delay may be is what has passed since the last reset: the sum of
\* the delays so far, of which each is half the next.
Paid(n) == n <= since \/ since = MaxBackoff

Backing ==
  /\ backoff \in Base .. MaxBackoff /\ delay \in Base .. MaxBackoff
  /\ since \in 0 .. MaxBackoff /\ slept \in Nat
  /\ pc # "sleep" => Paid(backoff - Base)
  /\ pc = "sleep" => backoff <= 2 * delay /\ Paid(delay - Base + slept)

LEMMA InitBacking == ASSUME R!DelayAssumption, R!Init PROVE Backing
BY DEF R!DelayAssumption, R!Init, Backing, Paid

LEMMA StepBacking ==
  ASSUME R!DelayAssumption, Backing, [R!Next]_(R!vars) PROVE Backing'
<1> USE DEF R!DelayAssumption, Backing, Paid
<1>1. CASE R!Tick
  <2>1. since' \in 0 .. MaxBackoff /\ (since' = since + 1 \/ since' = MaxBackoff)
    BY <1>1 DEF R!Tick, R!Later
  <2> QED BY <1>1, <2>1 DEF R!Tick
<1>2. CASE R!Registered \/ R!Hear BY <1>2 DEF R!Registered, R!Hear
<1>3. ASSUME R!Retry, pc # "sleep" PROVE Backing'
  <2>1. delay' \in Base .. MaxBackoff /\ since' \in 0 .. MaxBackoff /\ slept' = 0
    BY <1>3 DEF R!Retry
  <2>2. backoff' \in Base .. MaxBackoff /\ backoff' <= 2 * delay'
    BY <1>3, <2>1 DEF R!Retry, R!next_backoff
  <2>3. Paid(delay - Base + slept)' BY <1>3 DEF R!Retry
  <2> QED BY <1>3, <2>1, <2>2, <2>3 DEF R!Retry
<1>4. CASE R!Wake BY <1>4 DEF R!Wake
<1>5. CASE UNCHANGED R!vars BY <1>5 DEF R!vars
<1> QED
  BY <1>1, <1>2, <1>3, <1>4, <1>5 DEF R!Next, R!AttemptFails, R!Closed, R!TimesOut

\* For every base, ceiling and threshold and however long attempts take, the agent
\* never sleeps longer than a base delay and the time since the delay was reset.
THEOREM SleepsInProportion ==
  ASSUME R!DelayAssumption PROVE R!Spec => []R!Proportionate
<1>1. Backing => R!Proportionate
  BY DEF R!DelayAssumption, Backing, Paid, R!Proportionate
<1>2. Backing /\ [R!Next]_(R!vars) => Backing' BY StepBacking
<1>3. R!Init => Backing BY InitBacking
<1> QED BY <1>1, <1>2, <1>3, PTL DEF R!Spec
=============================================================================

----------------------------- MODULE Heartbeats -----------------------------
(***************************************************************************)
(* The clocks of one registered dongle session, in seconds: the agent's    *)
(* heartbeat ticker and read deadline (src/crates/dongle_agent/src/        *)
(* registration.rs run_session, heartbeat_loop) and the hub handler's read *)
(* deadline and replies (src/src/server/dongle_server.rs handle).  It      *)
(* starts when the hub has written Registered and shows what DongleLink    *)
(* takes for granted: a deadline passes only if the peer is out of reach.  *)
(***************************************************************************)
EXTENDS Integers

CONSTANTS Interval,   \* HEARTBEAT_INTERVAL_SECS
          Timeout,    \* HEARTBEAT_TIMEOUT_SECS
          MaxDelay,   \* bound: how long a line is on its way
          MaxLaunch   \* bound: how long launching snapclient takes

ASSUME ClockAssumption ==
  /\ Interval \in Nat \ {0} /\ Timeout \in Nat /\ MaxLaunch \in Nat /\ MaxDelay \in Nat
  /\ 2 * MaxDelay < Interval   \* a heartbeat is answered before the next one

\* The timeout leaves room for the first heartbeat to arrive.
Room == MaxDelay + MaxLaunch + Interval + MaxDelay < Timeout

VARIABLES
  agent,   \* "await", "launch", "hold" or "gone"
  hub,     \* "hold" or "gone"
  quietA,  \* seconds the agent has been reading (or launching snapclient)
  quietH,  \* seconds the hub has been reading
  ticker,  \* seconds to the next heartbeat
  toHub,   \* age of the heartbeat on its way, or -1
  toAgent, \* age of the line to the agent on its way, or -1
  cut      \* seconds since the network cut the connection, or -1

vars == <<agent, hub, quietA, quietH, ticker, toHub, toAgent, cut>>

Nothing == -1
\* The longest time either end may need to notice.
Window == Timeout + MaxLaunch
Age(m) == IF m = Nothing THEN m ELSE m + 1
Send   == IF cut = Nothing THEN 0 ELSE Nothing

\* The type invariant.
TypeOK ==
  /\ agent \in {"await", "launch", "hold", "gone"} /\ hub \in {"hold", "gone"}
  /\ quietA \in Nat /\ quietH \in 0 .. Timeout /\ ticker \in 0 .. Interval
  /\ toHub \in Nothing .. MaxDelay /\ toAgent \in Nothing .. MaxDelay
  /\ cut \in Nothing .. Window + 1   \* the clock stops there

Init ==
  /\ agent = "await" /\ hub = "hold"
  /\ quietA = 0 /\ quietH = 0 /\ ticker = Interval
  /\ toHub = Nothing /\ toAgent = 0 /\ cut = Nothing
-----------------------------------------------------------------------------
\* Mutant of Due: the hub's reads have no deadline.
DueAtAgent ==
  \/ agent \in {"await", "hold"} /\ quietA = Timeout
  \/ agent = "launch" /\ quietA = MaxLaunch
  \/ agent = "hold" /\ ticker = 0
  \/ toHub = MaxDelay \/ toAgent = MaxDelay

\* Somebody has to act before the clock moves on.
Due ==
  \/ agent \in {"await", "hold"} /\ quietA = Timeout
  \/ agent = "launch" /\ quietA = MaxLaunch
  \/ agent = "hold" /\ ticker = 0
  \/ hub = "hold" /\ quietH = Timeout
  \/ toHub = MaxDelay \/ toAgent = MaxDelay

Tick ==
  /\ ~Due /\ cut <= Window
  /\ quietA' = IF agent = "gone" THEN quietA ELSE quietA + 1
  /\ quietH' = IF hub = "gone" THEN quietH ELSE quietH + 1
  /\ ticker' = IF agent = "hold" THEN ticker - 1 ELSE ticker
  /\ toHub' = Age(toHub) /\ toAgent' = Age(toAgent) /\ cut' = Age(cut)
  /\ UNCHANGED <<agent, hub>>

\* From now on nothing gets through, and what was on its way is lost.
Cut ==
  /\ cut = Nothing /\ cut' = 0
  /\ toHub' = Nothing /\ toAgent' = Nothing
  /\ UNCHANGED <<agent, hub, quietA, quietH, ticker>>

\* A line arrives: Registered, then replies that only refresh the deadline.
AgentReads ==
  /\ agent \in {"await", "hold"} /\ toAgent # Nothing
  /\ toAgent' = Nothing /\ quietA' = 0
  /\ agent' = IF agent = "await" THEN "launch" ELSE "hold"
  /\ UNCHANGED <<hub, quietH, ticker, toHub, cut>>

\* snapclient runs: the ticker starts (its first tick is skipped), and so does
\* the deadline of the next read.
Launched ==
  /\ agent = "launch"
  /\ agent' = "hold" /\ quietA' = 0 /\ ticker' = Interval
  /\ UNCHANGED <<hub, quietH, toHub, toAgent, cut>>

Beat ==
  /\ agent = "hold" /\ ticker = 0
  /\ ticker' = Interval /\ toHub' = Send
  /\ UNCHANGED <<agent, hub, quietA, quietH, toAgent, cut>>

AgentTimesOut ==
  /\ agent \in {"await", "hold"} /\ quietA = Timeout /\ toAgent = Nothing
  /\ agent' = "gone"
  /\ UNCHANGED <<hub, quietA, quietH, ticker, toHub, toAgent, cut>>

\* Mutant of HubReads: the hub does not answer heartbeats.
HubReadsOnly ==
  /\ hub = "hold" /\ toHub # Nothing
  /\ toHub' = Nothing /\ quietH' = 0
  /\ UNCHANGED <<agent, hub, quietA, ticker, toAgent, cut>>

\* A heartbeat refreshes the hub's deadline and is answered in kind.
HubReads ==
  /\ hub = "hold" /\ toHub # Nothing
  /\ toHub' = Nothing /\ quietH' = 0 /\ toAgent' = Send
  /\ UNCHANGED <<agent, hub, quietA, ticker, cut>>

HubTimesOut ==
  /\ hub = "hold" /\ quietH = Timeout /\ toHub = Nothing
  /\ hub' = "gone"
  /\ UNCHANGED <<agent, quietA, quietH, ticker, toHub, toAgent, cut>>

Next == Tick \/ Cut \/ AgentReads \/ Launched \/ Beat \/ AgentTimesOut
        \/ HubReads \/ HubTimesOut

Spec == Init /\ [][Next]_vars
-----------------------------------------------------------------------------
(* Properties                                                              *)

\* As long as lines arrive within MaxDelay neither end gives its peer up, from
\* the registration on, through the launch of snapclient and every heartbeat
\* after it: the deadline leaves room for all of them (protocol lib.rs).
NoFalseAlarm == cut = Nothing => agent # "gone" /\ hub # "gone"

\* A connection that dies without a FIN is noticed by both ends within the
\* timeout (and the launch, which reads nothing).
DropNoticed == cut > Window => agent = "gone" /\ hub = "gone"
=============================================================================

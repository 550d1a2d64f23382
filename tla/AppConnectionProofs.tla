------------------------- MODULE AppConnectionProofs -------------------------
(***************************************************************************)
(* Theorems about AppConnection, for any number of connections and threads *)
(* and any capacity of the channels.                                       *)
(***************************************************************************)
EXTENDS AppConnection, TLAPS

(***************************************************************************)
(* Why a waiting connection is up to date: at every place of listen, a     *)
(* view whose last announcement the app has not been sent is one that      *)
(* listen is on its way to send, or one with a tick to come.  A receiver   *)
(* exists from before its first snapshot on, and a snapshot that is being  *)
(* written is as new as the last announcement, or a tick is to come.       *)
(***************************************************************************)

OnTheWay(v) ==
  {"start"} \cup {l \in DOMAIN Sends : Sends[l] = v}
    \cup (CASE v = "outputs" -> {}
            [] v = "zones"   -> {"outputs0", "outputs"}
            [] v = "sources" -> {"outputs0", "zones0", "subscribe"})

Unsubscribed(ch) ==
  {"start", "closed"} \cup
  (IF ch = "SOURCES_CHANGED" THEN {"outputs0", "zones0", "subscribe"} ELSE {})

ViewInv(c, v) ==
  /\ pc[c] # "closed" =>
       \/ rx[c][ChannelOf(v)] > 0
       \/ seen[c][v] >= announced[v]
       \/ pc[c] \in OnTheWay(v)
  /\ rx[c][ChannelOf(v)] = -1 => pc[c] \in Unsubscribed(ChannelOf(v))
  /\ pc[c] \in DOMAIN Sends /\ msg[c] # -1 /\ Sends[pc[c]] = v =>
       rx[c][ChannelOf(v)] > 0 \/ msg[c] >= announced[v]

MsgInv(c) == pc[c] \notin DOMAIN Sends => msg[c] = -1

IInv ==
  /\ TypeOK
  /\ \A v \in Views : announced[v] <= content[v]
  /\ \A c \in Conns : MsgInv(c)
  /\ \A c \in Conns : \A v \in Views : ViewInv(c, v)

Places == {"start", "subscribe", "select", "call", "closed"} \cup DOMAIN Sends

LEMMA ScriptLen == \A op \in Ops : Len(Script[op]) \in Nat \ {0}
BY DEF Ops, Script, RegisterDongle, DongleOffline, CreateZone, DeleteZone, RenameZone, SetZoneOutputs, Play,
       Stop, SessionBegan, Reroute, SessionEnded, TrackUpdate, ArtUpdate

LEMMA ChannelFacts ==
  /\ \A v \in Views : ChannelOf(v) \in Channels
  /\ \A ch \in Channels, v \in Views : v \in Behind(ch) <=> ChannelOf(v) = ch
BY DEF Views, Channels, ChannelOf, Behind

LEMMA PlaceFacts ==
  /\ DOMAIN Sends = {"outputs0", "zones0", "sources0", "outputs", "zones", "sources",
                     "list_outputs", "list_zones", "list_sources"}
  /\ \A l \in DOMAIN Sends : Sends[l] \in Views /\ After[l] \in Places \ {"start", "call", "closed"}
  /\ \A l \in DOMAIN Sends : \A v \in Views :
       v # Sends[l] /\ l \in OnTheWay(v) => After[l] \in OnTheWay(v)
  /\ \A l \in DOMAIN Sends : \A ch \in Channels :
       l \in Unsubscribed(ch) => After[l] \in Unsubscribed(ch)
  /\ \A l \in DOMAIN Sends : l \notin Unsubscribed(ChannelOf(Sends[l]))
  /\ \A v \in Views : Lists[v] \in DOMAIN Sends
BY DEF Sends, After, Places, Views, Channels, OnTheWay, Unsubscribed, ChannelOf, Lists

LEMMA InitInv == ASSUME Init PROVE IInv
<1>1. TypeOK
  BY BoundsAssumption DEF Init, TypeOK, Views, Channels, NoCall
<1> QED
  BY <1>1, ChannelFacts, PlaceFacts
     DEF Init, IInv, ViewInv, MsgInv, OnTheWay, Unsubscribed, Views, Channels
-----------------------------------------------------------------------------
(* The engine's steps.                                                     *)

\* A call that is under way is at a step of its script.
LEMMA AdvanceType ==
  ASSUME TypeOK, NEW p \in Conns \cup Threads, call[p] # NoCall, Advance(p)
  PROVE  /\ call' \in [Conns \cup Threads -> [op : Ops \cup {"none"}, at : Nat]]
         /\ \A q \in Conns \cup Threads :
              call'[q] # NoCall => call'[q].op \in Ops /\ call'[q].at \in 1..Len(Script[call'[q].op])
<1>1. call[p].op \in Ops /\ call[p].at \in 1..Len(Script[call[p].op]) BY DEF TypeOK
<1>2. Len(Script[call[p].op]) \in Nat BY <1>1, ScriptLen
<1>3. CASE call[p].at = Len(Script[call[p].op])
  <2>1. call' = [call EXCEPT ![p] = NoCall] BY <1>3 DEF Advance
  <2> QED BY <2>1 DEF TypeOK, NoCall
<1>4. CASE call[p].at # Len(Script[call[p].op])
  <2>1. call' = [call EXCEPT ![p] = [op |-> call[p].op, at |-> call[p].at + 1]]
    BY <1>4 DEF Advance
  <2>2. call'[p].op = call[p].op /\ call'[p].at = call[p].at + 1 BY <2>1 DEF TypeOK
  <2>3. \A q \in (Conns \cup Threads) \ {p} : call'[q] = call[q] BY <2>1 DEF TypeOK
  <2>4. call' \in [Conns \cup Threads -> [op : Ops \cup {"none"}, at : Nat]]
    BY <1>1, <2>1 DEF TypeOK
  <2>5. call'[p].at \in 1..Len(Script[call'[p].op]) BY <1>1, <1>2, <1>4, <2>2
  <2> QED BY <1>1, <2>2, <2>3, <2>4, <2>5 DEF TypeOK
<1> QED BY <1>3, <1>4

LEMMA BeginType ==
  ASSUME TypeOK, NEW p \in Conns \cup Threads, NEW op \in Ops, Begin(p, op)
  PROVE  /\ call' \in [Conns \cup Threads -> [op : Ops \cup {"none"}, at : Nat]]
         /\ \A q \in Conns \cup Threads :
              call'[q] # NoCall => call'[q].op \in Ops /\ call'[q].at \in 1..Len(Script[call'[q].op])
         /\ calls' \in Nat
<1>1. Len(Script[op]) \in Nat \ {0} BY ScriptLen
<1> QED BY <1>1 DEF Begin, TypeOK, NoCall

\* A change makes a view newer than its announcement, and nothing else.
LEMMA ChangeStep ==
  ASSUME IInv, NEW p \in Conns \cup Threads, Refuse(p) \/ Session(p) \/ Change(p)
  PROVE  IInv'
<1>1. TypeOK'
  <2>1. CASE Refuse(p) BY <2>1 DEF Refuse, IInv, TypeOK, NoCall, conn
  <2>2. CASE Session(p)
    <3>1. call[p] # NoCall BY <2>2 DEF Session, NoCall
    <3>2. content' \in [Views -> Nat] /\ live' \in Nat
      BY <2>2 DEF Session, IInv, TypeOK, Views
    <3> QED BY <2>2, <3>1, <3>2, AdvanceType DEF Session, IInv, TypeOK, conn
  <2>3. CASE Change(p)
    <3>1. PICK n \in {0, 1} :
            /\ Step(p) = "sources" /\ live = 0 => n = 0
            /\ content' = [content EXCEPT ![Step(p)] = @ + n]
            /\ live' = IF call[p] = [op |-> "delete_zone", at |-> 4] THEN live - n ELSE live
      BY <2>3 DEF Change
    <3>2. content' \in [Views -> Nat] BY <2>3, <3>1 DEF Change, IInv, TypeOK
    <3>3. call[p] = [op |-> "delete_zone", at |-> 4] => Step(p) = "sources"
      BY DEF Step, Script, DeleteZone
    <3>4. live' \in Nat BY <3>1, <3>3 DEF IInv, TypeOK
    <3> QED BY <2>3, <3>2, <3>4, AdvanceType DEF Change, IInv, TypeOK, conn
  <2> QED BY <2>1, <2>2, <2>3
<1>2. \A v \in Views : content'[v] >= content[v]
  <2>1. CASE Refuse(p) BY <2>1 DEF Refuse, IInv, TypeOK
  <2>2. CASE Session(p) BY <2>2 DEF Session, IInv, TypeOK
  <2>3. CASE Change(p) BY <2>3 DEF Change, IInv, TypeOK
  <2> QED BY <2>1, <2>2, <2>3
<1>3. UNCHANGED <<announced, conn>> BY DEF Refuse, Session, Change
<1>4. \A v \in Views : announced'[v] <= content'[v]
  BY <1>1, <1>2, <1>3 DEF IInv, TypeOK
<1> QED BY <1>1, <1>3, <1>4 DEF IInv, ViewInv, MsgInv, conn

\* A tick announces views: every receiver of its channel has one more to come, and
\* a connection without one has its first snapshot of them before it.
LEMMA TickStep ==
  ASSUME IInv, NEW p \in Conns \cup Threads, Tick(p)
  PROVE  IInv'
<1> DEFINE ch == Step(p)
<1>1. ch \in Channels BY DEF Tick
<1>2. \A v \in Views : announced'[v] = IF ChannelOf(v) = ch THEN content[v] ELSE announced[v]
  BY <1>1, ChannelFacts DEF Tick
<1>3. \A c \in Conns : /\ \A d \in Channels \ {ch} : rx'[c][d] = rx[c][d]
                       /\ rx[c][ch] >= 0 => rx'[c][ch] > 0
                       /\ rx[c][ch] = -1 => rx'[c][ch] = -1
  BY <1>1, BoundsAssumption DEF Tick, Ticked, IInv, TypeOK
<1>4. TypeOK'
  <2>1. announced' \in [Views -> Nat] BY <1>2 DEF Tick, IInv, TypeOK
  <2>2. rx' \in [Conns -> [Channels -> -1..(Capacity + 1)]]
    BY <1>1, BoundsAssumption DEF Tick, Ticked, IInv, TypeOK
  <2>3. call[p] # NoCall /\ Advance(p) BY DEF Tick
  <2> QED BY <2>1, <2>2, <2>3, AdvanceType DEF Tick, IInv, TypeOK
<1>5. \A v \in Views : announced'[v] <= content'[v]
  BY <1>2 DEF Tick, IInv, TypeOK
<1>6. ASSUME NEW c \in Conns, NEW v \in Views PROVE ViewInv(c, v)'
  <2>1. CASE ChannelOf(v) # ch
    BY <1>2, <1>3, <2>1, ChannelFacts DEF Tick, IInv, ViewInv
  <2>2. CASE ChannelOf(v) = ch /\ rx[c][ch] >= 0
    BY <1>3, <2>2 DEF Tick, IInv, ViewInv
  <2>3. CASE ChannelOf(v) = ch /\ rx[c][ch] = -1
    <3>1. pc[c] \in Unsubscribed(ch) BY <2>3 DEF IInv, ViewInv
    <3>2. Unsubscribed(ch) \subseteq OnTheWay(v) \cup {"closed"}
      BY <1>1, <2>3 DEF Unsubscribed, OnTheWay, ChannelOf, Views, Channels
    <3>3. pc[c] \in DOMAIN Sends => Sends[pc[c]] # v
      BY <2>3, <3>1, PlaceFacts
    <3> QED BY <1>3, <2>3, <3>1, <3>2, <3>3 DEF Tick, ViewInv
  <2> QED BY <1>1, <2>1, <2>2, <2>3 DEF IInv, TypeOK
<1> QED BY <1>4, <1>5, <1>6 DEF Tick, IInv, MsgInv
-----------------------------------------------------------------------------
(* The steps of a connection, which leave the other connections alone.     *)

SameConn(d) == pc'[d] = pc[d] /\ rx'[d] = rx[d] /\ msg'[d] = msg[d] /\ seen'[d] = seen[d]

LEMMA Others ==
  ASSUME IInv, NEW c \in Conns, TypeOK', UNCHANGED <<content, announced>>,
         \A d \in Conns \ {c} : SameConn(d),
         \A v \in Views : ViewInv(c, v)',
         MsgInv(c)'
  PROVE  IInv'
<1>1. ASSUME NEW d \in Conns \ {c} PROVE MsgInv(d)' /\ \A v \in Views : ViewInv(d, v)'
  BY <1>1 DEF IInv, SameConn, ViewInv, MsgInv
<1>2. \A v \in Views : announced'[v] <= content'[v] BY DEF IInv
<1> QED BY <1>1, <1>2 DEF IInv

LEMMA SubscribeStep == ASSUME IInv, NEW c \in Conns, Subscribe(c) PROVE IInv'
<1>1. TypeOK'
  <2>1. rx' \in [Conns -> [Channels -> -1..(Capacity + 1)]]
    <3>1. PICK ch \in Channels : rx' = [rx EXCEPT ![c][ch] = 0]
      BY DEF Subscribe, Channels
    <3>2. 0 \in -1..(Capacity + 1) BY BoundsAssumption
    <3> QED BY <3>1, <3>2 DEF IInv, TypeOK
  <2>2. PICK l \in Places : pc' = [pc EXCEPT ![c] = l]
    BY PlaceFacts DEF Subscribe, Goto, Places
  <2>3. pc' \in [Conns -> Places] BY <2>2 DEF IInv, TypeOK, Places
  <2>4. UNCHANGED <<content, live, announced, call, calls, msg, seen>> BY DEF Subscribe
  <2> QED BY <2>1, <2>3, <2>4 DEF IInv, TypeOK, Places
<1>2. \A d \in Conns \ {c} : SameConn(d) BY DEF Subscribe, Goto, IInv, TypeOK, SameConn
<1>3. UNCHANGED <<content, announced>> BY DEF Subscribe
<1>4. msg[c] = -1 BY PlaceFacts DEF Subscribe, IInv, MsgInv
<1>5. MsgInv(c)' BY <1>4 DEF Subscribe, MsgInv
<1>6. ASSUME NEW v \in Views PROVE ViewInv(c, v)'
  <2>1. CASE pc[c] = "start"
    <3>1. pc'[c] = "outputs0" /\ rx'[c] = [rx[c] EXCEPT !["OUTPUTS_CHANGED"] = 0]
      BY <2>1 DEF Subscribe, Goto, IInv, TypeOK
    <3>2. "outputs0" \in OnTheWay(v) BY PlaceFacts DEF OnTheWay, Views, Sends
    <3>3. "outputs0" \in Unsubscribed(ChannelOf(v)) \/ ChannelOf(v) = "OUTPUTS_CHANGED"
      BY DEF Unsubscribed, ChannelOf
    <3>4. ChannelOf(v) = "OUTPUTS_CHANGED" => rx'[c][ChannelOf(v)] = 0
      BY <3>1, ChannelFacts DEF IInv, TypeOK
    <3> QED BY <1>4, <3>1, <3>2, <3>3, <3>4 DEF Subscribe, ViewInv
  <2>2. CASE pc[c] = "subscribe"
    <3>1. pc'[c] = "sources0" /\ rx'[c] = [rx[c] EXCEPT !["SOURCES_CHANGED"] = 0]
      BY <2>2 DEF Subscribe, Goto, IInv, TypeOK
    <3>2. CASE v = "sources"
      <4>1. "sources0" \in OnTheWay(v) BY <3>2, PlaceFacts DEF OnTheWay, Sends
      <4>2. rx'[c][ChannelOf(v)] = 0
        BY <3>1, <3>2 DEF IInv, TypeOK, ChannelOf, Channels
      <4> QED BY <1>4, <3>1, <4>1, <4>2 DEF Subscribe, ViewInv
    <3>3. CASE v # "sources"
      <4>1. ChannelOf(v) = "OUTPUTS_CHANGED" BY <3>3 DEF ChannelOf
      <4>2. rx'[c][ChannelOf(v)] = rx[c][ChannelOf(v)]
        BY <3>1, <4>1 DEF IInv, TypeOK, Channels
      <4>3. "subscribe" \notin OnTheWay(v) /\ "subscribe" \notin Unsubscribed(ChannelOf(v))
        BY <3>3, <4>1, PlaceFacts DEF OnTheWay, Unsubscribed, Views
      <4> QED BY <1>3, <1>4, <2>2, <4>2, <4>3 DEF Subscribe, IInv, ViewInv
    <3> QED BY <3>2, <3>3
  <2> QED BY <2>1, <2>2 DEF Subscribe
<1> QED BY <1>1, <1>2, <1>3, <1>5, <1>6, Others

\* The snapshot is of a view as it is now, which no announcement is ahead of.
LEMMA SnapshotStep == ASSUME IInv, NEW c \in Conns, Snapshot(c) PROVE IInv'
<1>1. /\ pc[c] \in DOMAIN Sends /\ Sends[pc[c]] \in Views
      /\ msg' = [msg EXCEPT ![c] = content[Sends[pc[c]]]]
      /\ UNCHANGED <<content, live, announced, call, calls, pc, rx, seen>>
  BY PlaceFacts DEF Snapshot
<1>2. TypeOK' BY <1>1 DEF IInv, TypeOK
<1>3. \A d \in Conns \ {c} : SameConn(d) BY <1>1 DEF IInv, TypeOK, SameConn
<1>4. msg'[c] = content[Sends[pc[c]]] BY <1>1 DEF IInv, TypeOK
<1>5. \A v \in Views : ViewInv(c, v)' BY <1>1, <1>4 DEF IInv, ViewInv
<1>6. MsgInv(c)' BY <1>1 DEF MsgInv
<1> QED BY <1>1, <1>2, <1>3, <1>5, <1>6, Others

LEMMA WriteStep == ASSUME IInv, NEW c \in Conns, Write(c) PROVE IInv'
<1> DEFINE w == Sends[pc[c]]
<1>1. /\ pc[c] \in DOMAIN Sends /\ w \in Views /\ msg[c] # -1
      /\ seen' = [seen EXCEPT ![c][w] = msg[c]] /\ msg' = [msg EXCEPT ![c] = -1]
      /\ pc' = [pc EXCEPT ![c] = After[pc[c]]]
      /\ UNCHANGED <<content, live, announced, call, calls, rx>>
  BY PlaceFacts DEF Write, Goto
<1>2. TypeOK'
  <2>1. After[pc[c]] \in Places BY <1>1, PlaceFacts
  <2> QED BY <1>1, <2>1 DEF IInv, TypeOK, Places
<1>3. \A d \in Conns \ {c} : SameConn(d) BY <1>1 DEF IInv, TypeOK, SameConn
<1>4. /\ pc'[c] = After[pc[c]] /\ msg'[c] = -1 /\ seen'[c][w] = msg[c]
      /\ \A v \in Views \ {w} : seen'[c][v] = seen[c][v]
  BY <1>1 DEF IInv, TypeOK
<1>5. ASSUME NEW v \in Views PROVE ViewInv(c, v)'
  <2>1. ChannelOf(v) \in Channels BY ChannelFacts
  <2>2. rx'[c][ChannelOf(v)] = -1 => pc'[c] \in Unsubscribed(ChannelOf(v))
    BY <1>1, <1>4, <2>1, PlaceFacts DEF IInv, ViewInv
  <2>3. CASE v = w BY <1>1, <1>4, <2>2, <2>3 DEF IInv, ViewInv
  <2>4. CASE v # w
    <3>1. pc[c] # "closed" BY <1>1, PlaceFacts
    <3>2. pc[c] \in OnTheWay(v) => pc'[c] \in OnTheWay(v) BY <1>1, <1>4, <2>4, PlaceFacts
    <3> QED BY <1>1, <1>4, <2>2, <2>4, <3>1, <3>2 DEF IInv, ViewInv
  <2> QED BY <2>3, <2>4
<1>6. MsgInv(c)' BY <1>4 DEF MsgInv
<1> QED BY <1>1, <1>2, <1>3, <1>5, <1>6, Others

\* A tick that is received puts the views behind its channel on the way.
LEMMA RecvStep ==
  ASSUME IInv, NEW c \in Conns, NEW ch \in Channels, Recv(c, ch) PROVE IInv'
<1> DEFINE l == IF ch = "OUTPUTS_CHANGED" THEN "outputs" ELSE "sources"
<1>1. /\ pc[c] = "select" /\ rx[c][ch] > 0 /\ pc' = [pc EXCEPT ![c] = l]
      /\ rx' = [rx EXCEPT ![c][ch] = @ - 1]
      /\ UNCHANGED <<content, live, announced, call, calls, msg, seen>>
  BY DEF Recv, Goto
<1>2. TypeOK'
  <2>1. rx' \in [Conns -> [Channels -> -1..(Capacity + 1)]]
    <3>1. rx[c][ch] \in -1..(Capacity + 1) BY DEF IInv, TypeOK
    <3>2. rx[c][ch] - 1 \in -1..(Capacity + 1) BY <1>1, <3>1, BoundsAssumption
    <3> QED BY <1>1, <3>2 DEF IInv, TypeOK
  <2>2. pc' \in [Conns -> Places] BY <1>1, PlaceFacts DEF IInv, TypeOK, Places
  <2> QED BY <1>1, <2>1, <2>2 DEF IInv, TypeOK, Places
<1>3. \A d \in Conns \ {c} : SameConn(d) BY <1>1 DEF IInv, TypeOK, SameConn
<1>4. /\ pc'[c] = l /\ rx'[c][ch] >= 0
      /\ \A d \in Channels \ {ch} : rx'[c][d] = rx[c][d]
  BY <1>1 DEF IInv, TypeOK
<1>5. msg[c] = -1 BY <1>1, PlaceFacts DEF IInv, MsgInv
<1>6. ASSUME NEW v \in Views PROVE ViewInv(c, v)'
  <2>1. CASE ChannelOf(v) = ch
    <3>1. l \in OnTheWay(v)
      BY <2>1, PlaceFacts DEF OnTheWay, Sends, Views, ChannelOf, Channels
    <3> QED BY <1>1, <1>4, <1>5, <2>1, <3>1 DEF ViewInv
  <2>2. CASE ChannelOf(v) # ch
    <3>1. ChannelOf(v) \in Channels BY ChannelFacts
    <3>2. "select" \notin OnTheWay(v) /\ "select" \notin Unsubscribed(ChannelOf(v))
      BY PlaceFacts DEF OnTheWay, Unsubscribed, Views
    <3> QED BY <1>1, <1>4, <1>5, <2>2, <3>1, <3>2 DEF IInv, ViewInv
  <2> QED BY <2>1, <2>2
<1>7. MsgInv(c)' BY <1>1, <1>5 DEF MsgInv
<1> QED BY <1>1, <1>2, <1>3, <1>6, <1>7, Others

\* A waiting connection reads a request; the answer to a call takes it back.
LEMMA RequestStep ==
  ASSUME IInv, NEW c \in Conns, ReadList(c) \/ ReadCommand(c) \/ Reply(c) PROVE IInv'
<1>1. PICK l \in Places \ {"start", "subscribe", "closed", "outputs0", "zones0", "sources0"} :
        pc' = [pc EXCEPT ![c] = l]
  <2>1. CASE ReadList(c)
    <3>1. PICK v \in Views : pc' = [pc EXCEPT ![c] = Lists[v]] BY <2>1 DEF ReadList, Goto
    <3>2. Lists[v] \in {"list_outputs", "list_zones", "list_sources"} BY DEF Lists, Views
    <3> QED BY <3>1, <3>2, PlaceFacts DEF Places
  <2>2. CASE ReadCommand(c) BY <2>2, PlaceFacts DEF ReadCommand, Goto, Places
  <2>3. CASE Reply(c) BY <2>3, PlaceFacts DEF Reply, Goto, Places
  <2> QED BY <2>1, <2>2, <2>3
<1>2. pc[c] \in {"select", "call"} /\ UNCHANGED <<content, live, announced, rx, msg, seen>>
  BY DEF ReadList, ReadCommand, Reply
<1>3. TypeOK'
  <2>1. CASE ReadCommand(c)
    BY <1>1, <1>2, <2>1, BeginType, OpsAssumption DEF ReadCommand, IInv, TypeOK, Places
  <2>2. CASE ~ReadCommand(c)
    BY <1>1, <1>2, <2>2 DEF ReadList, Reply, IInv, TypeOK, Places
  <2> QED BY <2>1, <2>2
<1>4. pc'[c] = l /\ \A d \in Conns \ {c} : SameConn(d)
  BY <1>1, <1>2 DEF IInv, TypeOK, SameConn
<1>5. msg[c] = -1 BY <1>2, PlaceFacts DEF IInv, MsgInv
<1>6. ASSUME NEW v \in Views PROVE ViewInv(c, v)'
  <2>1. pc[c] \notin OnTheWay(v) /\ pc[c] \notin Unsubscribed(ChannelOf(v))
    BY <1>2, PlaceFacts DEF OnTheWay, Unsubscribed, Views
  <2> QED BY <1>2, <1>4, <1>5, <2>1 DEF IInv, ViewInv
<1>7. MsgInv(c)' BY <1>2, <1>5 DEF MsgInv
<1> QED BY <1>2, <1>3, <1>4, <1>6, <1>7, Others

LEMMA CloseStep == ASSUME IInv, NEW c \in Conns, Close(c) PROVE IInv'
<1>1. /\ pc' = [pc EXCEPT ![c] = "closed"]
      /\ rx' = [rx EXCEPT ![c] = [ch \in Channels |-> -1]]
      /\ msg' = [msg EXCEPT ![c] = -1]
      /\ UNCHANGED <<content, live, announced, call, calls, seen>>
  BY DEF Close, Goto
<1>2. TypeOK' BY <1>1, BoundsAssumption DEF IInv, TypeOK
<1>3. \A d \in Conns \ {c} : SameConn(d) BY <1>1 DEF IInv, TypeOK, SameConn
<1>4. pc'[c] = "closed" /\ msg'[c] = -1 BY <1>1 DEF IInv, TypeOK
<1>5. \A v \in Views : ViewInv(c, v)' BY <1>4, PlaceFacts DEF ViewInv, Unsubscribed
<1>6. MsgInv(c)' BY <1>4 DEF MsgInv
<1> QED BY <1>1, <1>2, <1>3, <1>5, <1>6, Others

LEMMA NextStep == ASSUME IInv, [Next]_vars PROVE IInv'
<1>1. ASSUME NEW p \in Threads, BeginThread(p) PROVE IInv'
  <2>1. PICK op \in ThreadOps : Begin(p, op) BY <1>1 DEF BeginThread
  <2>2. TypeOK' BY <1>1, <2>1, BeginType, OpsAssumption DEF BeginThread, IInv, TypeOK, conn
  <2> QED BY <1>1, <2>2 DEF BeginThread, IInv, ViewInv, MsgInv, conn
<1>2. CASE UNCHANGED vars BY <1>2 DEF vars, IInv, TypeOK, ViewInv, MsgInv
<1> QED BY <1>1, <1>2, ChangeStep, TickStep, SubscribeStep, SnapshotStep, WriteStep,
           RecvStep, RequestStep, CloseStep DEF Next, Engine, Listen

\* The state of the engine's calls, the connections and the apps is well formed.
THEOREM Types == Spec => []TypeOK
<1>1. IInv => TypeOK BY DEF IInv
<1> QED BY <1>1, InitInv, NextStep, PTL DEF Spec

\* A connection that waits with no tick to come has shown its app every view as
\* it was at its last announcement or later.
THEOREM WaitingIsUpToDate == Spec => []UpToDate
<1>1. IInv => UpToDate
  <2> SUFFICES ASSUME IInv, NEW c \in Conns, NEW v \in Views, Waiting(c, v)
               PROVE  seen[c][v] >= announced[v]
    BY DEF UpToDate
  <2>1. "select" \notin OnTheWay(v) BY PlaceFacts DEF OnTheWay, Views
  <2> QED BY <2>1 DEF Waiting, IInv, ViewInv
<1> QED BY <1>1, InitInv, NextStep, PTL DEF Spec
=============================================================================

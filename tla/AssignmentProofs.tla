--------------------------- MODULE AssignmentProofs ---------------------------
(***************************************************************************)
(* Theorems about Assignment, for any number of starts, crashes, failed    *)
(* calls and apps.                                                         *)
(***************************************************************************)
EXTENDS Assignment, FiniteSetTheorems, TLAPS

(***************************************************************************)
(* An identity is used only from the place on where it is on the disk, and *)
(* it is written only while there is none: what was ever announced is what *)
(* is on the disk.  A file is replaced only by a .tmp that was filled.     *)
(***************************************************************************)

JobPlace ==
  /\ job.stage # "none" =>
       \/ pc = "id" /\ job.file = "dongle_id" /\ disk["dongle_id"] = None
       \/ pc = "name" /\ job.file = "dongle_name"
       \/ pc = "save" /\ job.file = "hub_address"
  /\ job.stage = "rename" => tmp[job.file] = job.value
  /\ pc = "id" /\ job.stage # "none" => me.id = job.value
  /\ pc = "name" /\ job.stage # "none" => me.name = job.value
  /\ pc = "save" => job.stage # "none"

IdentityInv ==
  /\ pc \notin {"off", "id"} => me.id = disk["dongle_id"] /\ me.id \in Uuids
  /\ pc \notin {"off", "id", "name"} => me.name \in Labels
  /\ announced \subseteq {disk["dongle_id"]} \cap Uuids

PromiseInv ==
  \A p \in promised :
    /\ p.start \in Nat /\ p.start <= starts
    /\ pc # "off" /\ p.start = starts => pc \in {"save", "ready", "session"} /\ p.hub = me.hub

IInv == TypeOK /\ WholeFiles /\ JobPlace /\ IdentityInv /\ PromiseInv

LEMMA FileFacts ==
  /\ Files = {"dongle_id", "dongle_name", "hub_address"}
  /\ Contents["dongle_id"] = Uuids /\ Contents["dongle_name"] = Labels
  /\ Contents["hub_address"] = Hubs
BY DEF Files, Contents

LEMMA NotValues ==
  /\ None \notin Uuids /\ None \notin Labels /\ None \notin Hubs
  /\ Torn \notin Uuids /\ Torn \notin Labels /\ Torn \notin Hubs
  /\ None # Torn /\ FlagHubs \subseteq Hubs
BY ValuesAssumption, HubsAssumption

LEMMA InitInv == ASSUME Init PROVE IInv
BY FileFacts, NotValues
   DEF Init, IInv, TypeOK, WholeFiles, JobPlace, IdentityInv, PromiseInv, NoJob, Nobody, Away, Values

LEMMA StartStep == ASSUME IInv, Start PROVE IInv'
BY FileFacts, NotValues
   DEF Start, files, network, history, IInv, TypeOK, WholeFiles, JobPlace, IdentityInv, PromiseInv

\* The end of the process leaves the files and the history.
LEMMA OffStep == ASSUME IInv, Off PROVE IInv'
<1>1. app' \in [Apps -> [at : {"away", "silent", "asking", "babbling", "hungUp", "left",
                               "assigned"}, wants : Hubs \cup {None}]]
  BY DEF Off, Closed, Away
<1>2. \A a \in Apps : app'[a].at \notin {"asking", "left"} BY DEF Off, Closed, Away
<1> QED
  BY <1>1, <1>2, FileFacts, NotValues
     DEF Off, files, history, IInv, TypeOK, WholeFiles, JobPlace, IdentityInv, PromiseInv,
         NoJob, Nobody, Values

\* atomic_write: only a rename touches a file, and what it renames was filled.
LEMMA WriteStep == ASSUME IInv, Create \/ Fill \/ Rename \/ WriteFails PROVE IInv'
<1> USE FileFacts, NotValues DEF IInv, files, network, history
<1>1. CASE Create
  <2>1. job' = [job EXCEPT !.stage = "fill"] /\ tmp' = [tmp EXCEPT ![job.file] = Torn]
    BY <1>1 DEF Create
  <2> QED BY <1>1, <2>1
       DEF Create, TypeOK, WholeFiles, JobPlace, IdentityInv, PromiseInv, Values
<1>2. CASE Fill
  <2>1. job' = [job EXCEPT !.stage = "rename"] /\ tmp' = [tmp EXCEPT ![job.file] = job.value]
    BY <1>2 DEF Fill
  <2> QED BY <1>2, <2>1
       DEF Fill, TypeOK, WholeFiles, JobPlace, IdentityInv, PromiseInv, Values
<1>3. CASE Rename
  <2>1. /\ job.file \in Files /\ tmp[job.file] = job.value /\ job.value \in Contents[job.file]
        /\ disk' = [disk EXCEPT ![job.file] = job.value]
        /\ tmp' = [tmp EXCEPT ![job.file] = None] /\ job' = NoJob
    BY <1>3 DEF Rename, JobPlace, TypeOK
  <2>5. WholeFiles' BY <2>1 DEF TypeOK, WholeFiles
  <2>2. UNCHANGED <<args, me, client, app, starts, announced, promised>> BY <1>3 DEF Rename
  <2>3. CASE pc = "id"
    <3>1. pc' = "name" /\ job.file = "dongle_id" /\ announced = {}
      BY <1>3, <2>3 DEF Rename, Following, JobPlace, IdentityInv
    <3>2. IdentityInv'
      <4>1. me.id = job.value /\ job.value \in Uuids
        BY <1>3, <2>1, <2>3, <3>1 DEF Rename, JobPlace
      <4>2. disk'["dongle_id"] = job.value BY <2>1, <3>1 DEF TypeOK
      <4> QED BY <2>2, <3>1, <4>1, <4>2 DEF IdentityInv
    <3> QED BY <1>3, <2>5, <2>1, <2>2, <2>3, <3>1, <3>2
         DEF TypeOK, JobPlace, PromiseInv, NoJob, Values
  <2>4. CASE pc \in {"name", "save"}
    <3>1. pc' = (IF pc = "name" THEN "hub" ELSE "ready") /\ job.file # "dongle_id"
      BY <1>3, <2>4 DEF Rename, Following, JobPlace
    <3>2. IdentityInv'
      <4>1. disk'["dongle_id"] = disk["dongle_id"] BY <2>1, <3>1 DEF TypeOK
      <4>2. pc = "name" => me.name = job.value /\ job.value \in Labels
        BY <1>3, <2>1 DEF Rename, JobPlace
      <4> QED BY <2>2, <2>4, <3>1, <4>1, <4>2 DEF IdentityInv
    <3> QED BY <1>3, <2>5, <2>1, <2>2, <2>4, <3>1, <3>2
         DEF TypeOK, JobPlace, PromiseInv, NoJob, Values
  <2> QED BY <1>3, <2>3, <2>4 DEF Rename, JobPlace
<1>4. CASE WriteFails
  <2>1. CASE pc = "save"
    BY <1>4, <2>1
       DEF WriteFails, TypeOK, WholeFiles, JobPlace, IdentityInv, PromiseInv, NoJob, Values
  <2>2. CASE pc # "save" BY <1>4, <2>2, OffStep DEF WriteFails
  <2> QED BY <2>1, <2>2
<1> QED BY <1>1, <1>2, <1>3, <1>4

\* The places of main.
LEMMA MainStep ==
  ASSUME IInv, LoadId \/ LoadName \/ ResolveHub \/ Serve PROVE IInv'
<1> USE FileFacts, NotValues DEF IInv, files, network, history
<1>1. CASE LoadId
  <2>1. CASE disk["dongle_id"] # None
    <3>1. me' = [me EXCEPT !.id = disk["dongle_id"]] /\ pc' = "name" /\ UNCHANGED job
      BY <1>1, <2>1 DEF LoadId
    <3>2. disk["dongle_id"] \in Uuids BY <2>1 DEF TypeOK, WholeFiles
    <3> QED BY <1>1, <3>1, <3>2
         DEF LoadId, TypeOK, WholeFiles, JobPlace, IdentityInv, PromiseInv
  <2>2. CASE disk["dongle_id"] = None
    <3>1. PICK u \in Uuids : /\ me' = [me EXCEPT !.id = u] /\ UNCHANGED pc
                             /\ job' = [file |-> "dongle_id", value |-> u, stage |-> "create"]
      BY <1>1, <2>2 DEF LoadId, Write
    <3> QED BY <1>1, <2>2, <3>1
         DEF LoadId, TypeOK, WholeFiles, JobPlace, IdentityInv, PromiseInv, Values
  <2> QED BY <2>1, <2>2
<1>2. CASE LoadName
  <2>1. CASE \E n \in Labels : /\ me' = [me EXCEPT !.name = n]
                               /\ Write("dongle_name", n) /\ UNCHANGED pc
    BY <1>2, <2>1
       DEF LoadName, Write, TypeOK, WholeFiles, JobPlace, IdentityInv, PromiseInv, Values
  <2>2. CASE /\ disk["dongle_name"] # None
             /\ me' = [me EXCEPT !.name = disk["dongle_name"]] /\ pc' = "hub" /\ UNCHANGED job
    <3>1. disk["dongle_name"] \in Labels BY <2>2 DEF TypeOK, WholeFiles
    <3> QED BY <1>2, <2>2, <3>1
         DEF LoadName, TypeOK, WholeFiles, JobPlace, IdentityInv, PromiseInv
  <2> QED BY <1>2, <2>1, <2>2 DEF LoadName
<1>3. CASE ResolveHub
  <2>1. CASE args.hub # None
    BY <1>3, <2>1
       DEF ResolveHub, Write, TypeOK, WholeFiles, JobPlace, IdentityInv, PromiseInv, Values
  <2>2. CASE args.hub = None
    BY <1>3, <2>2
       DEF ResolveHub, TypeOK, WholeFiles, JobPlace, IdentityInv, PromiseInv
  <2> QED BY <2>1, <2>2
<1>4. CASE Serve
  BY <1>4 DEF Serve, TypeOK, WholeFiles, JobPlace, IdentityInv, PromiseInv
<1> QED BY <1>1, <1>2, <1>3, <1>4

AppType ==
  /\ app' \in [Apps -> [at : {"away", "silent", "asking", "babbling", "hungUp", "left",
                              "assigned"}, wants : Hubs \cup {None}]]
  /\ \A a \in Apps : app'[a].at \in {"asking", "left"} => app'[a].wants \in Hubs

\* The listener and the apps: one acknowledgement ends the wait.
LEMMA ListenerStep ==
  ASSUME IInv, (\E a \in Apps : Accept(a)) \/ Handle \/ Acknowledge PROVE IInv'
<1> USE FileFacts, NotValues DEF IInv, files, network, history
<1>1. CASE \E a \in Apps : Accept(a)
  BY <1>1 DEF Accept, TypeOK, WholeFiles, JobPlace, IdentityInv, PromiseInv
<1>2. CASE Handle
  <2>1. AppType BY <1>2 DEF Handle, Resume, AppType, TypeOK, Away
  <2> QED BY <1>2, <2>1
       DEF Handle, Resume, AppType, TypeOK, WholeFiles, JobPlace, IdentityInv, PromiseInv
<1>3. CASE Acknowledge
  <2>1. AppType BY <1>3 DEF Acknowledge, Closed, Away, AppType
  <2>2. PICK h \in Hubs : /\ me' = [me EXCEPT !.hub = h]
                          /\ promised' = promised \cup {[hub |-> h, start |-> starts]}
                          /\ job' = [file |-> "hub_address", value |-> h, stage |-> "create"]
    BY <1>3 DEF Acknowledge, Write, TypeOK
  <2>3. /\ pc = "read" /\ pc' = "save" /\ client' = None
        /\ UNCHANGED <<disk, tmp, args, starts, announced>>
    BY <1>3 DEF Acknowledge
  <2>4. PromiseInv' BY <2>2, <2>3 DEF PromiseInv, TypeOK
  <2> QED BY <2>1, <2>2, <2>3, <2>4
       DEF AppType, TypeOK, WholeFiles, JobPlace, IdentityInv, Values
<1> QED BY <1>1, <1>2, <1>3

LEMMA AppStep ==
  ASSUME IInv, NEW a \in Apps, ConnectApp(a) \/ Send(a) \/ HangUp(a) PROVE IInv'
<1> USE FileFacts, NotValues DEF IInv, files, network, history
<1>1. AppType
  <2>1. CASE ConnectApp(a) BY <2>1 DEF ConnectApp, AppType, TypeOK
  <2>2. CASE Send(a) BY <2>2 DEF Send, AppType, TypeOK
  <2>3. CASE HangUp(a) BY <2>3 DEF HangUp, AppType, TypeOK
  <2> QED BY <2>1, <2>2, <2>3
<1>2. UNCHANGED <<disk, tmp, pc, job, args, me, client, starts, announced, promised>>
  BY DEF ConnectApp, Send, HangUp
<1> QED BY <1>1, <1>2
     DEF AppType, TypeOK, WholeFiles, JobPlace, IdentityInv, PromiseInv

LEMMA NextStep == ASSUME IInv, [Next]_vars PROVE IInv'
<1>1. CASE UNCHANGED vars
  BY <1>1 DEF vars, IInv, TypeOK, WholeFiles, JobPlace, IdentityInv, PromiseInv
<1>2. CASE Crash \/ Exit BY <1>2, OffStep DEF Crash, Exit
<1> QED BY <1>1, <1>2, StartStep, WriteStep, MainStep, ListenerStep, AppStep DEF Next, Agent
-----------------------------------------------------------------------------
(* The theorems                                                            *)

LEMMA AlwaysInv == Spec => []IInv
<1> QED BY InitInv, NextStep, PTL DEF Spec

\* Every state the dongle reaches is well formed.
THEOREM Types == Spec => []TypeOK
<1>1. IInv => TypeOK BY DEF IInv
<1> QED BY <1>1, AlwaysInv, PTL

\* A dongle shows itself under one identity, however often it crashes.
THEOREM KnownAsOne == Spec => []OneIdentity
<1>1. IInv => OneIdentity
  <2> SUFFICES ASSUME IInv PROVE Cardinality(announced) <= 1 BY DEF OneIdentity
  <2>1. announced = {} \/ announced = {disk["dongle_id"]} BY DEF IInv, IdentityInv
  <2>2. Cardinality({}) = 0 BY FS_EmptySet
  <2>3. Cardinality({disk["dongle_id"]}) = 1 BY FS_Singleton
  <2> QED BY <2>1, <2>2, <2>3
<1> QED BY <1>1, AlwaysInv, PTL

\* No crash or failed write leaves a file half-written.
THEOREM FilesAreWhole == Spec => []WholeFiles
<1>1. IInv => WholeFiles BY DEF IInv
<1> QED BY <1>1, AlwaysInv, PTL

\* The hub that was acknowledged is the one the dongle goes to.
THEOREM GoesWhereAgreed == Spec => []AgreedHub
<1>1. IInv => AgreedHub BY DEF IInv, PromiseInv, AgreedHub
<1> QED BY <1>1, AlwaysInv, PTL

\* Assignment implements CommissionedDongle: a rename records, the registration with
\* the hub begins the session, every other step changes nothing of it.
THEOREM Implements == Spec => IsCommissioned
<1> DEFINE abstract == <<disk["dongle_id"], disk["hub_address"], Serving>>
<1>1. Init => Commissioned!Init
  BY FileFacts DEF Init, Commissioned!Init, Commissioned!Down, Serving
<1>2. IInv /\ [Next]_vars => [Commissioned!Next]_abstract
  <2> SUFFICES ASSUME IInv, [Next]_vars PROVE [Commissioned!Next]_abstract OBVIOUS
  <2>1. CASE pc # "session" /\ pc' # "session" /\ UNCHANGED disk
    BY <2>1 DEF Serving
  <2>2. CASE Serve
    <3>1. Serving = Commissioned!Down BY <2>2 DEF Serve, Serving, Commissioned!Down
    <3>2. Serving' = [id |-> disk["dongle_id"], hub |-> me.hub] /\ me.hub \in Hubs
      BY <2>2 DEF Serve, Serving, IInv, IdentityInv, TypeOK
    <3>3. disk["dongle_id"] # None BY <2>2, NotValues DEF Serve, IInv, IdentityInv
    <3>4. Commissioned!Serve BY <2>2, <3>1, <3>2, <3>3 DEF Commissioned!Serve, Serve, files
    <3> QED BY <3>4 DEF Commissioned!Next
  <2>3. CASE pc = "session" /\ Off
    <3>1. Serving # Commissioned!Down
      BY <2>3, NotValues DEF Serving, Commissioned!Down, IInv, IdentityInv
    <3>2. Serving' = Commissioned!Down BY <2>3 DEF Off, Serving, Commissioned!Down
    <3>3. Commissioned!GoDown BY <2>3, <3>1, <3>2 DEF Off, files, Commissioned!GoDown
    <3> QED BY <3>3 DEF Commissioned!Next
  <2>4. CASE Rename
    <3>6. pc \in {"id", "name", "save"} /\ pc' = Following(pc)
      BY <2>4 DEF Rename, IInv, JobPlace
    <3>1. /\ disk' = [disk EXCEPT ![job.file] = job.value] /\ pc # "session" /\ pc' # "session"
          /\ job.value \in Contents[job.file] /\ job.file \in Files
      <4>1. disk' = [disk EXCEPT ![job.file] = job.value]
        BY <2>4 DEF Rename, IInv, JobPlace
      <4>2. job.value \in Contents[job.file] /\ job.file \in Files
        BY <2>4 DEF Rename, IInv, TypeOK
      <4>3. pc # "session" /\ pc' # "session" BY <3>6 DEF Following
      <4> QED BY <4>1, <4>2, <4>3
    <3>2. Serving = Commissioned!Down /\ UNCHANGED Serving
      BY <3>1 DEF Serving, Commissioned!Down
    <3>3. CASE job.file = "dongle_id"
      <4>1. disk["dongle_id"] = None BY <2>4, <3>3 DEF Rename, IInv, JobPlace
      <4>2. disk'["dongle_id"] \in Uuids /\ disk'["hub_address"] = disk["hub_address"]
        BY <3>1, <3>3, FileFacts DEF IInv, TypeOK
      <4>3. Commissioned!Enroll BY <3>2, <4>1, <4>2 DEF Commissioned!Enroll
      <4> QED BY <4>3 DEF Commissioned!Next
    <3>4. CASE job.file = "hub_address"
      <4>1. disk'["hub_address"] \in Hubs /\ disk'["dongle_id"] = disk["dongle_id"]
        BY <3>1, <3>4, FileFacts DEF IInv, TypeOK
      <4>2. Commissioned!Appoint BY <3>2, <4>1 DEF Commissioned!Appoint
      <4> QED BY <4>2 DEF Commissioned!Next
    <3>5. CASE job.file = "dongle_name"
      BY <3>1, <3>2, <3>5, FileFacts DEF IInv, TypeOK
    <3> QED BY <3>1, <3>3, <3>4, <3>5, FileFacts
  <2>5. CASE UNCHANGED <<disk, pc, me>> BY <2>5 DEF Serving
  <2>6. CASE pc # "session" /\ Off BY <2>1, <2>6 DEF Off, files
  <2>7. CASE WriteFails
    <3>1. pc # "session" BY <2>7 DEF WriteFails, IInv, JobPlace
    <3> QED BY <2>1, <2>6, <2>7, <3>1 DEF WriteFails, files
  <2>8. CASE LoadId \/ LoadName \/ ResolveHub \/ Handle \/ Acknowledge \/ Start
    BY <2>1, <2>8 DEF LoadId, LoadName, ResolveHub, Handle, Resume, Acknowledge, Start, files
  <2>9. CASE \E a \in Apps : Accept(a) BY <2>1, <2>9 DEF Accept, files
  <2>10. CASE \E a \in Apps : ConnectApp(a) \/ Send(a) \/ HangUp(a)
    BY <2>5, <2>10 DEF ConnectApp, Send, HangUp, files
  <2>11. CASE Create \/ Fill BY <2>5, <2>11 DEF Create, Fill
  <2>12. CASE Crash \/ Exit BY <2>3, <2>6, <2>12 DEF Crash, Exit
  <2>13. CASE UNCHANGED vars BY <2>5, <2>13 DEF vars
  <2> QED BY <2>2, <2>4, <2>7, <2>8, <2>9, <2>10, <2>11, <2>12, <2>13 DEF Next, Agent
<1> QED BY <1>1, <1>2, AlwaysInv, PTL DEF Spec, IsCommissioned, Commissioned!Spec
=============================================================================

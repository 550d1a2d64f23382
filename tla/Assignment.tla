------------------------------ MODULE Assignment ------------------------------
(***************************************************************************)
(* A dongle from its start to its session: its identity, its hub, and the  *)
(* files they are kept in (crates/dongle_agent/src/main.rs, storage.rs,    *)
(* assignment.rs), over several starts.  The agent may crash between any   *)
(* two steps; a read, a write or a socket call may fail; apps connect, say *)
(* nothing, say something else, or hang up.  What a completed write or     *)
(* rename left in the directory outlives the process.                      *)
(***************************************************************************)
EXTENDS Integers, FiniteSets

CONSTANTS Uuids,       \* what Uuid::new_v4 returns, none of it twice
          Names,       \* labels of --name
          Hostname,    \* default_name
          Hubs,        \* hub addresses
          Unreadable,  \* those from_str refuses once written: no host, or a colon in it
          FlagHubs,    \* values of --hub
          Apps,        \* apps that assign
          Faults,      \* whether calls of the operating system may fail
          MaxStarts,   \* bound: starts of the agent
          MaxTries,    \* bound: connections of each app
          None, Torn   \* no file or no value; a file written in part

Labels == Names \cup {Hostname}

ASSUME ValuesAssumption ==
  None # Torn /\ {None, Torn} \cap (Uuids \cup Labels \cup Hubs) = {}
ASSUME HubsAssumption == FlagHubs \subseteq Hubs \ Unreadable
ASSUME BoundsAssumption == MaxStarts \in Nat /\ MaxTries \in Nat /\ Faults \in BOOLEAN

VARIABLES disk,          \* the content of each file
          tmp,           \* the content of its .tmp
          pc,            \* where main is
          job,           \* the atomic_write in progress
          args,          \* the command line
          me,            \* the identity and the hub in memory
          client,        \* the app whose connection is handled
          app,           \* what each app does, and the hub it sent
          starts, tries, \* how often the agent started, an app connected
          announced,     \* history: identities that were advertised or registered
          promised       \* history: hubs that were acknowledged, and in which start

vars == <<disk, tmp, pc, job, args, me, client, app, starts, tries,
          announced, promised>>
files == <<disk, tmp>>
network == <<client, app, tries>>
history == <<announced, promised>>

Contents == [dongle_id |-> Uuids, dongle_name |-> Labels, hub_address |-> Hubs]
Files == DOMAIN Contents
Values == Uuids \cup Labels \cup Hubs \cup {None, Torn}
NoJob == [file |-> "none", value |-> None, stage |-> "none"]
Away == [at |-> "away", wants |-> None]
Nobody == [id |-> None, name |-> None, hub |-> None]

\* The type invariant; past resolving the hub there is an identity, and a session
\* has a hub.
TypeOK ==
  /\ disk \in [Files -> Values] /\ tmp \in [Files -> Values]
  /\ \A f \in Files : {disk[f], tmp[f]} \subseteq Contents[f] \cup {None, Torn}
  /\ pc \in {"off", "id", "name", "hub", "accept", "read", "save", "ready", "session"}
  /\ job \in [file : Files \cup {"none"}, value : Values,
              stage : {"none", "create", "fill", "rename"}]
  /\ job.stage # "none" => job.file \in Files /\ job.value \in Contents[job.file]
  /\ args \in [hub : FlagHubs \cup {None}, name : Names \cup {None}]
  /\ me \in [id : Uuids \cup {None}, name : Labels \cup {None}, hub : Hubs \cup {None}]
  /\ pc \in {"accept", "read", "save", "ready", "session"} => None \notin {me.id, me.name}
  /\ pc \in {"save", "ready", "session"} => me.hub # None
  /\ client \in Apps \cup {None} /\ (pc = "read" => client \in Apps)
  /\ app \in [Apps -> [at : {"away", "silent", "asking", "babbling", "hungUp", "left",
                             "assigned"},
                       wants : Hubs \cup {None}]]
  /\ \A a \in Apps : app[a].at \in {"asking", "left"} => app[a].wants \in Hubs
  /\ starts \in Nat

Init ==
  /\ disk = [f \in Files |-> None] /\ tmp = [f \in Files |-> None]
  /\ pc = "off" /\ job = NoJob /\ me = Nobody
  /\ args = [hub |-> None, name |-> None]
  /\ client = None /\ app = [a \in Apps |-> Away]
  /\ starts = 0 /\ tries = [a \in Apps |-> 0]
  /\ announced = {} /\ promised = {}
-----------------------------------------------------------------------------
(* Processes come and go.                                                  *)

Start ==
  /\ pc = "off" /\ starts < MaxStarts
  /\ starts' = starts + 1
  /\ args' \in [hub : FlagHubs \cup {None}, name : Names \cup {None}]
  /\ pc' = "id"
  /\ UNCHANGED <<files, job, me, network, history>>

\* The sockets are closed; told are the apps that know of an assignment.
Closed(told) == [a \in Apps |-> IF a \in told THEN [Away EXCEPT !.at = "assigned"] ELSE Away]
Told == {a \in Apps : app[a].at = "assigned"}

\* The process ends: its memory is lost.
Off ==
  /\ pc' = "off" /\ job' = NoJob /\ me' = Nobody /\ client' = None
  /\ app' = Closed(Told)
  /\ UNCHANGED <<files, args, starts, tries, history>>

Crash == pc # "off" /\ Off

\* create_dir_all, a read, the bind or an accept fails: main exits.
Exit ==
  /\ Faults /\ job.stage = "none"
  /\ \/ pc = "id"
     \/ pc = "name" /\ args.name = None /\ disk["dongle_name"] # None
     \/ pc = "accept"
  /\ Off
-----------------------------------------------------------------------------
(* atomic_write: fs::write creates the .tmp and fills it, rename replaces  *)
(* the file.                                                               *)

Write(f, v) == job' = [file |-> f, value |-> v, stage |-> "create"]

\* Mutant of Create: the file itself is written.
CreateInPlace ==
  /\ job.stage = "create"
  /\ disk' = [disk EXCEPT ![job.file] = Torn]
  /\ job' = [job EXCEPT !.stage = "fill"]
  /\ UNCHANGED <<tmp, pc, args, me, network, starts, history>>

Create ==
  /\ job.stage = "create"
  /\ tmp' = [tmp EXCEPT ![job.file] = Torn]
  /\ job' = [job EXCEPT !.stage = "fill"]
  /\ UNCHANGED <<disk, pc, args, me, network, starts, history>>

Fill ==
  /\ job.stage = "fill"
  /\ tmp' = [tmp EXCEPT ![job.file] = job.value]
  /\ job' = [job EXCEPT !.stage = "rename"]
  /\ UNCHANGED <<disk, pc, args, me, network, starts, history>>

Following(place) == [id |-> "name", name |-> "hub", save |-> "ready"][place]

Rename ==
  /\ job.stage = "rename"
  /\ disk' = [disk EXCEPT ![job.file] = tmp[job.file]]
  /\ tmp' = [tmp EXCEPT ![job.file] = None]
  /\ job' = NoJob /\ pc' = Following(pc)
  /\ UNCHANGED <<args, me, network, starts, history>>

\* Mutant of WriteFails: an identity that was not written is used.
WriteFailsWarns ==
  /\ Faults /\ job.stage # "none"
  /\ job' = NoJob /\ pc' = Following(pc)
  /\ UNCHANGED <<files, args, me, network, starts, history>>

\* Mutant of WriteFails: the dongle waits for an assignment it can save.
WriteFailsWaits ==
  /\ Faults /\ job.stage # "none"
  /\ IF pc = "save" THEN /\ job' = NoJob /\ pc' = "accept"
                         /\ UNCHANGED <<files, args, me, network, starts, history>>
                    ELSE Off

\* main exits without an identity, and goes on with a hub that is not saved.
WriteFails ==
  /\ Faults /\ job.stage # "none"
  /\ IF pc = "save" THEN /\ job' = NoJob /\ pc' = "ready"
                         /\ UNCHANGED <<files, args, me, network, starts, history>>
                    ELSE Off
-----------------------------------------------------------------------------
(* main                                                                    *)

\* Mutant of LoadId: an identity that cannot be read is replaced.
LoadIdAnew ==
  /\ pc = "id" /\ job.stage = "none"
  /\ \/ /\ disk["dongle_id"] # None
        /\ me' = [me EXCEPT !.id = disk["dongle_id"]] /\ pc' = "name" /\ UNCHANGED job
     \/ \E u \in Uuids \ (announced \cup {disk["dongle_id"], tmp["dongle_id"]}) :
          /\ disk["dongle_id"] = None \/ Faults
          /\ me' = [me EXCEPT !.id = u] /\ Write("dongle_id", u) /\ UNCHANGED pc
  /\ UNCHANGED <<files, args, network, starts, history>>

\* An identity is drawn once and written before it is used.
LoadId ==
  /\ pc = "id" /\ job.stage = "none"
  /\ \/ /\ disk["dongle_id"] # None
        /\ me' = [me EXCEPT !.id = disk["dongle_id"]] /\ pc' = "name" /\ UNCHANGED job
     \/ \E u \in Uuids \ (announced \cup {tmp["dongle_id"]}) :
          /\ disk["dongle_id"] = None
          /\ me' = [me EXCEPT !.id = u] /\ Write("dongle_id", u) /\ UNCHANGED pc
  /\ UNCHANGED <<files, args, network, starts, history>>

\* Mutant of LoadName: there is no default name.
LoadNameOnly ==
  /\ pc = "name" /\ job.stage = "none"
  /\ \/ /\ args.name # None
        /\ me' = [me EXCEPT !.name = args.name]
        /\ Write("dongle_name", args.name) /\ UNCHANGED pc
     \/ /\ args.name = None
        /\ me' = [me EXCEPT !.name = disk["dongle_name"]] /\ pc' = "hub" /\ UNCHANGED job
  /\ UNCHANGED <<files, args, network, starts, history>>

LoadName ==
  /\ pc = "name" /\ job.stage = "none"
  /\ \/ \E n \in Labels :
          /\ n = args.name \/ (args.name = None /\ disk["dongle_name"] = None /\ n = Hostname)
          /\ me' = [me EXCEPT !.name = n]
          /\ Write("dongle_name", n) /\ UNCHANGED pc
     \/ /\ args.name = None /\ disk["dongle_name"] # None
        /\ me' = [me EXCEPT !.name = disk["dongle_name"]] /\ pc' = "hub" /\ UNCHANGED job
  /\ UNCHANGED <<files, args, network, starts, history>>

\* --hub wins and is saved; else the saved hub, if the file is there, can be read
\* and parses; else the dongle advertises itself and waits for an app.
ResolveHub ==
  /\ pc = "hub"
  /\ \/ /\ args.hub # None
        /\ me' = [me EXCEPT !.hub = args.hub]
        /\ Write("hub_address", args.hub) /\ pc' = "save"
        /\ UNCHANGED announced
     \/ /\ args.hub = None /\ disk["hub_address"] \in Hubs \ Unreadable
        /\ me' = [me EXCEPT !.hub = disk["hub_address"]]
        /\ pc' = "ready" /\ UNCHANGED <<job, announced>>
     \/ /\ args.hub = None
        /\ disk["hub_address"] \in Hubs \ Unreadable => Faults
        /\ pc' = "accept" /\ announced' = announced \cup {me.id}
        /\ UNCHANGED <<job, me>>
  /\ UNCHANGED <<files, args, network, starts, promised>>

\* run_session registers the identity with the hub, and again after every drop.
Serve ==
  /\ pc = "ready"
  /\ pc' = "session" /\ announced' = announced \cup {me.id}
  /\ UNCHANGED <<files, job, args, me, network, starts, promised>>
-----------------------------------------------------------------------------
(* await_assignment: one connection at a time.                             *)

Accept(a) ==
  /\ pc = "accept" /\ app[a].at \notin {"away", "assigned"}
  /\ client' = a /\ pc' = "read"
  /\ UNCHANGED <<files, job, args, me, app, tries, starts, history>>

Resume ==
  /\ client' = None /\ pc' = "accept" /\ app' = [app EXCEPT ![client] = Away]

\* Mutant of Handle: the end of the stream is taken for a line to come.
HandleNoEof ==
  /\ pc = "read" /\ app[client].at = "babbling"
  /\ Resume
  /\ UNCHANGED <<files, job, args, me, tries, starts, history>>

\* The end of the stream, a line that does not parse, a read or a reply that
\* fails: the next connection is accepted.
Handle ==
  /\ pc = "read"
  /\ app[client].at \in {"hungUp", "babbling", "left"} \/ Faults
  /\ Resume
  /\ UNCHANGED <<files, job, args, me, tries, starts, history>>

\* The reply is written, the listener is closed, and then the hub is saved.
Acknowledge ==
  /\ pc = "read" /\ app[client].at \in {"asking", "left"}
  /\ LET h == app[client].wants IN
       /\ me' = [me EXCEPT !.hub = h]
       /\ promised' = promised \cup {[hub |-> h, start |-> starts]}
       /\ Write("hub_address", h)
  /\ app' = Closed(Told \cup {a \in {client} : app[a].at = "asking"})
  /\ client' = None /\ pc' = "save"
  /\ UNCHANGED <<files, args, tries, starts, announced>>
-----------------------------------------------------------------------------
(* The apps                                                                *)

ConnectApp(a) ==
  /\ pc \in {"accept", "read"} /\ app[a] = Away /\ tries[a] < MaxTries
  /\ tries' = [tries EXCEPT ![a] = @ + 1]
  /\ app' = [app EXCEPT ![a].at = "silent"]
  /\ UNCHANGED <<files, pc, job, args, me, client, starts, history>>

Send(a) ==
  /\ app[a].at = "silent"
  /\ \E sent \in [at : {"asking"}, wants : Hubs] \cup [at : {"babbling"}, wants : {None}] :
       app' = [app EXCEPT ![a] = sent]
  /\ UNCHANGED <<files, pc, job, args, me, client, tries, starts, history>>

HangUp(a) ==
  /\ \/ app[a].at = "silent" /\ app' = [app EXCEPT ![a].at = "hungUp"]
     \/ app[a].at = "asking" /\ app' = [app EXCEPT ![a].at = "left"]
  /\ UNCHANGED <<files, pc, job, args, me, client, tries, starts, history>>

Agent ==
  \/ Create \/ Fill \/ Rename \/ WriteFails
  \/ LoadId \/ LoadName \/ ResolveHub \/ Serve \/ Handle \/ Acknowledge

Next ==
  \/ Start \/ Crash \/ Exit \/ Agent
  \/ \E a \in Apps : Accept(a) \/ ConnectApp(a) \/ Send(a) \/ HangUp(a)

Spec == Init /\ [][Next]_vars

\* The agent runs, and the backlog of the listener is served in order.  Nothing is
\* assumed of the apps.
FairSpec == Spec /\ WF_vars(Agent) /\ \A a \in Apps : SF_vars(Accept(a))
-----------------------------------------------------------------------------
(* Properties                                                              *)

\* However often the agent crashes or a write fails, the dongle is known under one
\* identity.
OneIdentity == Cardinality(announced) <= 1

\* A crash never leaves a half-written file: each holds nothing or a whole value.
WholeFiles == \A f \in Files : disk[f] # Torn

\* Every hub that was acknowledged since the start is the one the dongle goes to.
AgreedHub ==
  pc # "off" => \A p \in promised : p.start = starts => p.hub = me.hub

\* An app that sent its assignment is answered or loses its connection, unless some
\* client that says nothing holds the listener for ever.
Answered ==
  \A a \in Apps :
    \/ []<>(app[a].at \notin {"asking", "left"})
    \/ <>[](pc = "read" /\ app[client].at = "silent")

\* The dongle keeps what CommissionedDongle promises.
Serving == [id |-> IF pc = "session" THEN me.id ELSE None,
            hub |-> IF pc = "session" THEN me.hub ELSE None]
Commissioned == INSTANCE CommissionedDongle
                  WITH identity <- disk["dongle_id"], hub <- disk["hub_address"],
                       serving <- Serving
IsCommissioned == Commissioned!Spec

\* A dongle that acknowledged its assignment to a hub does not wait for one again.
AssignedForGood ==
  pc \in {"accept", "read"} => \A p \in promised : p.start = starts
===============================================================================

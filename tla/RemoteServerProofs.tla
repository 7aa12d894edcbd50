-------------------------- MODULE RemoteServerProofs --------------------------
(***************************************************************************)
(* What the peer is told about the program, for every number of pauses,    *)
(* frames and starts, with or without a second client in the process.      *)
(*                                                                         *)
(* The argument for ContinuedAfterStopped.  Only the owner suspends the    *)
(* program, and it goes on with its own work only after it has told the    *)
(* sink.  So while the program is suspended for the peer, or has been      *)
(* asked to go on, either the owner has yet to tell that it stopped or it  *)
(* has told (Reported): when the owner reports that it runs again, the     *)
(* last report was the stop.  The server's own report of a running         *)
(* program, at the end of the configuration, is not sent, because          *)
(* lastState_ becomes resumeRequested only later (Requested).              *)
(***************************************************************************)
EXTENDS RemoteServer, TLAPS

States == {"detached", "starting", "running", "pauseRequested", "suspended", "resumeRequested", "terminated"}

Controllers ==
    [state : States, session : {"none", "remote", "local"}, gen : Nat,
     policy : {"none", "remote"}, terminate : BOOLEAN]

Reports ==
    {Nothing} \cup [what : {"snapshot"}, state : States, gen : Nat]
    \cup [what : {"store"}, state : States]

Sinks == [last : States, stopped : Nat, terminated : BOOLEAN]

\* Places without a session of the peer, and those before its first request.
Outside == {"none", "loop", "accept", "accepted", "hello", "policy", "attach", "unpublish", "ended"}
Inside == {"configure", "ack", "serve", "inspecting", "disconnect"} \cup Requests
Unconnected == {"none", "loop", "accept", "accepted", "unpublish", "ended"}

Types ==
    /\ running \in BOOLEAN /\ active \in BOOLEAN
    /\ listener \in {"none", "open", "closed"} /\ socket \in {"none", "open", "closed"}
    /\ server \in Places
    /\ host \in {"idle", "close listener", "close connection", "join"}
    /\ peer \in {"away", "waiting", "connected", "gone"}
    /\ inbox \in Seq(Frames) /\ Len(inbox) <= MaxInbox
    /\ idle \in 0 .. MaxIdle
    /\ ctl \in Controllers
    /\ owner \in {"lua", "blocked", "ended"}
    /\ pub \in [Threads -> Reports]
    /\ sink \in Sinks

\* The session of the peer, and what is to be told to its sink, exist only
\* while its connection does.
Connected ==
    /\ ctl.session = "remote" => server \in Inside /\ ~ctl.terminate
    /\ server \in Outside => pub = [t \in Threads |-> Nothing]
    /\ server \notin Unconnected => active

Snapshot(t, state) == pub[t].what = "snapshot" /\ pub[t].state = state

\* Who tells what: only the server that a continuation was requested, and only
\* the owner that the program stopped.
Tellers ==
    /\ pub["owner"] # Nothing => pub["owner"].state \in {"suspended", "running", "terminated"}
    /\ pub["server"] # Nothing => pub["server"].state # "suspended"
    /\ sink.stopped <= ctl.gen
    /\ pub["owner"].what = "snapshot" => pub["owner"].gen <= ctl.gen

\* Before the configuration is done no continuation was requested, and after it
\* the server never tells that the program runs.
Requested ==
    LET requested == sink.last = "resumeRequested"
                     \/ (pub["server"] # Nothing /\ pub["server"].state = "resumeRequested")
    IN /\ requested => server \notin Outside \cup {"configure"}
       /\ sink.last = "resumeRequested" => ~Snapshot("server", "running")

\* The peer has been told that the program stopped, or cannot be told.
Stopped == view = "stopped" \/ sink.terminated \/ socket # "open"

Reported ==
    /\ ctl.session = "remote" /\ ctl.state \in {"suspended", "resumeRequested"} =>
         /\ owner = "blocked"
         /\ \/ pub["owner"] # Nothing /\ pub["owner"].what = "store" /\ pub["owner"].state = "suspended" /\ Stopped
            \/ pub["owner"] = Nothing /\ Stopped
            \/ Snapshot("owner", "suspended") /\ pub["owner"].gen # sink.stopped
    /\ Snapshot("owner", "running") => Stopped

Inv == Types /\ Connected /\ Tellers /\ Requested /\ Reported

------------------------------------------------------------------------------
(* What the operators of the module give *)

LEMMA ReportFields ==
    ASSUME NEW r \in Reports
    PROVE  /\ r.what \in {"nothing", "snapshot", "store"}
           /\ r.what = "nothing" <=> r = Nothing
           /\ r # Nothing => r.state \in States
           /\ r.what = "snapshot" => r.gen \in Nat
           /\ r # Nothing => [what |-> "store", state |-> r.state] \in Reports
BY DEF Reports, Nothing

LEMMA StateFields ==
    ASSUME NEW c \in Controllers, NEW st \in States
    PROVE  /\ [c EXCEPT !.state = st] \in Controllers
           /\ [c EXCEPT !.state = st].state = st
           /\ [c EXCEPT !.state = st].session = c.session
           /\ [c EXCEPT !.state = st].gen = c.gen
           /\ [c EXCEPT !.state = st].terminate = c.terminate
BY DEF Controllers

LEMMA SuspendedFields ==
    ASSUME NEW c \in Controllers, NEW n, n = c.gen + 1
    PROVE  /\ n \in Nat
           /\ [c EXCEPT !.state = "suspended", !.gen = n] \in Controllers
           /\ [c EXCEPT !.state = "suspended", !.gen = n].state = "suspended"
           /\ [c EXCEPT !.state = "suspended", !.gen = n].session = c.session
           /\ [c EXCEPT !.state = "suspended", !.gen = n].gen = n
           /\ [c EXCEPT !.state = "suspended", !.gen = n].terminate = c.terminate
<1>1. n \in Nat
    BY DEF Controllers
<1> QED
    BY <1>1 DEF Controllers, States

LEMMA AttachedFields ==
    ASSUME NEW c \in Controllers, NEW who \in {"remote", "local"}
    PROVE  /\ Attached(c, who) \in Controllers
           /\ Attached(c, who).state = "starting"
           /\ Attached(c, who).session = who
           /\ Attached(c, who).gen = c.gen
           /\ Attached(c, who).terminate = FALSE
BY DEF Controllers, States, Attached

LEMMA DetachedFields ==
    ASSUME NEW c \in Controllers, NEW action \in {"continue", "terminate"}
    PROVE  /\ Detached(c, action) \in Controllers
           /\ Detached(c, action).state \in {"detached", "terminated"}
           /\ Detached(c, action).session = "none"
           /\ Detached(c, action).gen = c.gen
BY DEF Controllers, States, Detached

LEMMA PolicyFields ==
    ASSUME NEW c \in Controllers, NEW policy \in {"none", "remote"}
    PROVE  /\ configureWritePolicy(c, policy) \in Controllers
           /\ configureWritePolicy(c, policy).state = c.state
           /\ configureWritePolicy(c, policy).session = c.session
           /\ configureWritePolicy(c, policy).gen = c.gen
           /\ configureWritePolicy(c, policy).terminate = c.terminate
BY DEF Controllers, configureWritePolicy

LEMMA Constants == MaxInbox \in Nat /\ MaxIdle \in Nat /\ MaxIdle > 0 /\ Disconnecting \in {"continue", "terminate"}
BY RemoteServerAssumption

LEMMA InboxTypes ==
    ASSUME Types
    PROVE  /\ inbox \in Seq(Frames) /\ Len(inbox) <= MaxInbox /\ idle \in 0 .. MaxIdle /\ idle \in Nat
           /\ \A frame \in Frames : Len(inbox) < MaxInbox =>
                Append(inbox, frame) \in Seq(Frames) /\ Len(Append(inbox, frame)) <= MaxInbox
           /\ inbox # <<>> => Tail(inbox) \in Seq(Frames) /\ Len(Tail(inbox)) <= MaxInbox
<1>1. inbox \in Seq(Frames) /\ Len(inbox) <= MaxInbox /\ idle \in 0 .. MaxIdle
    BY DEF Types
<1>2. idle \in Nat
    BY <1>1, Constants
<1>3. ASSUME NEW q \in Seq(Frames), NEW frame \in Frames, Len(q) < MaxInbox
      PROVE  Append(q, frame) \in Seq(Frames) /\ Len(Append(q, frame)) <= MaxInbox
    BY <1>3, Constants
<1>4. ASSUME NEW q \in Seq(Frames), q # <<>>, Len(q) <= MaxInbox
      PROVE  Tail(q) \in Seq(Frames) /\ Len(Tail(q)) <= MaxInbox
    BY <1>4, Constants
<1> QED
    BY <1>1, <1>2, <1>3, <1>4

\* What Publish leaves for the sink
LEMMA PublishFields ==
    ASSUME NEW t \in Threads, NEW c \in Controllers, NEW session, pub \in [Threads -> Reports],
           Publish(t, session, c)
    PROVE  /\ pub' \in [Threads -> Reports]
           /\ \A u \in Threads : u # t => pub'[u] = pub[u]
           /\ session # "remote" => pub'[t] = Nothing
           /\ session = "remote" => /\ pub'[t].what = "snapshot" /\ pub'[t].state = c.state
                                    /\ pub'[t].gen = c.gen /\ pub'[t] # Nothing
BY DEF Publish, Told, Reports, Controllers, Nothing

\* Steps that leave the host, the peer and what it sent alone keep their types.
LEMMA TypesKept ==
    ASSUME Types, UNCHANGED <<running, listener, active, host, peer, inbox, idle>>,
           socket' \in {"none", "open", "closed"}, server' \in Places, ctl' \in Controllers, owner' \in {"lua", "blocked", "ended"},
           pub' \in [Threads -> Reports], sink' \in Sinks
    PROVE  Types'
BY DEF Types

LEMMA TypesOf ==
    ASSUME Types
    PROVE  /\ ctl \in Controllers /\ owner \in {"lua", "blocked", "ended"}
           /\ pub \in [Threads -> Reports] /\ sink \in Sinks
           /\ server \in Places /\ socket \in {"none", "open", "closed"}
BY DEF Types

LEMMA InitInv == Init => Inv
<1> SUFFICES ASSUME Init PROVE Inv
    OBVIOUS
<1> USE RemoteServerAssumption
<1>1. ctl \in Controllers /\ sink \in Sinks /\ pub \in [Threads -> Reports]
    BY DEF Init, Controllers, Sinks, NewSink, Reports, States
<1>2. inbox \in Seq(Frames) /\ Len(inbox) <= MaxInbox /\ idle \in 0 .. MaxIdle
    BY DEF Init
<1> Types
    BY <1>1, <1>2 DEF Init, Types, Places
<1>3. Connected /\ Tellers /\ Requested /\ Reported
    BY DEF Init, Connected, Tellers, Requested, Reported, Snapshot, Nothing, NewSink, Outside,
           Unconnected, Threads
<1> QED
    BY <1>3 DEF Inv

------------------------------------------------------------------------------
(* The host and the peer change nothing that the events depend on, but they  *)
(* may close the connection.                                                *)

LEMMA HostAndPeer ==
    ASSUME Inv, Start \/ StartFails \/ Stop \/ Stopping \/ Peer
    PROVE  Inv'
<1> USE RemoteServerAssumption
<1> USE DEF Inv, notHost, notPeer, life, wire, events
<1>1. UNCHANGED <<ctl, owner, pub, sink, view>>
    BY DEF Start, StartFails, MayStart, Refused, Stop, Stopping, StopCloses, StopDisconnects, StopJoins,
           Peer, Connect, HangUp, Send
<1>2. socket' = socket \/ socket' # "open"
    BY DEF Start, StartFails, MayStart, Refused, Stop, Stopping, StopCloses, StopDisconnects, StopJoins,
           Peer, Connect, HangUp, Send, CloseSocket
<1>3. \/ server' = server /\ active' = active
      \/ server \in {"none", "ended"} /\ server' \in {"none", "loop"}
    BY DEF Start, StartFails, MayStart, Refused, Stop, Stopping, StopCloses, StopDisconnects, StopJoins,
           Peer, Connect, HangUp, Send
<1>4. inbox' \in Seq(Frames) /\ Len(inbox') <= MaxInbox /\ idle' = idle
  <2>1. CASE \E frame \in Frames : Send(frame)
    BY <2>1, InboxTypes DEF Send
  <2>2. CASE ~\E frame \in Frames : Send(frame)
    <3>1. inbox' = inbox /\ idle' = idle
      BY <2>2 DEF Start, StartFails, MayStart, Refused, Stop, Stopping, StopCloses, StopDisconnects,
                  StopJoins, Peer, Connect, HangUp
    <3> QED
      BY <3>1 DEF Types
  <2> QED
    BY <2>1, <2>2
<1>5. /\ running' \in BOOLEAN /\ active' \in BOOLEAN
      /\ listener' \in {"none", "open", "closed"} /\ socket' \in {"none", "open", "closed"}
      /\ host' \in {"idle", "close listener", "close connection", "join"}
      /\ peer' \in {"away", "waiting", "connected", "gone"}
    BY DEF Types, Start, StartFails, MayStart, Refused, Stop, Stopping, StopCloses, StopDisconnects,
           StopJoins, Peer, Connect, HangUp, Send, CloseSocket
<1>6. Types'
    BY <1>1, <1>3, <1>4, <1>5 DEF Types, Places
<1>7. Connected'
    BY <1>1, <1>3 DEF Connected, Outside, Inside, Requests, Unconnected
<1>8. Tellers'
    BY <1>1 DEF Tellers
<1>9. Requested'
    BY <1>1, <1>3 DEF Requested, Snapshot, Outside
<1>10. Reported'
    BY <1>1, <1>2 DEF Reported, Stopped, Snapshot
<1> QED
    BY <1>6, <1>7, <1>8, <1>9, <1>10

------------------------------------------------------------------------------
(* The server's thread *)

\* Steps of the server that leave the controller and the sink alone
Quietly ==
    /\ UNCHANGED <<listener, host, ctl, owner, pub, sink, view>>
    /\ Loop \/ Accept \/ AcceptFails \/ PublishConnection \/ NoConnection \/ Hello \/ Acknowledge \/ ServeSilence \/ ServeFrame
       \/ ServeStopped \/ Inspect \/ Inspected \/ UnpublishConnection

LEMMA QuietSteps ==
    ASSUME Inv, Quietly
    PROVE  Inv'
<1> USE RemoteServerAssumption
<1> USE DEF Inv, Quietly, notServer, serving, life, wire, events, At, Goto
<1>1. /\ server \in {"loop", "accept", "accepted", "unpublish"} =>
            server' \in {"accept", "accepted", "ended", "hello", "loop"}
      /\ server = "hello" => server' \in {"policy", "close"}
      /\ server \notin {"loop", "accept", "accepted", "unpublish", "hello"} =>
            server \in Inside /\ server' \in Inside \ {"configure"}
      /\ server' \notin Unconnected => active'
      /\ active' \in BOOLEAN /\ server \in Places
    BY DEF Types, Connected, Unconnected, Inside, Requests, Loop, Accept, AcceptFails, PublishConnection,
           NoConnection, Hello, Acknowledge, ServeSilence,
           ServeFrame, ServeStopped, Inspect, Inspected, UnpublishConnection
<1>2. socket' = socket \/ socket' = "none" \/ server \in Outside
    BY DEF Outside, Loop, Accept, AcceptFails, PublishConnection, NoConnection, Hello, Acknowledge,
           ServeSilence,
           ServeFrame, ServeStopped, Inspect, Inspected, UnpublishConnection
<1>3. inbox' \in Seq(Frames) /\ Len(inbox') <= MaxInbox
  <2>1. inbox' = inbox \/ inbox' = <<>> \/ (inbox # <<>> /\ inbox' = Tail(inbox))
    BY DEF Loop, Accept, AcceptFails, PublishConnection, NoConnection, Hello, Acknowledge, ServeSilence,
           ServeFrame, ServeStopped, Inspect, Inspected, UnpublishConnection
  <2>2. <<>> \in Seq(Frames) /\ Len(<<>>) = 0 /\ 0 <= MaxInbox
    BY Constants
  <2> QED
    BY ONLY Types, <2>1, <2>2, InboxTypes
<1>4. idle' \in 0 .. MaxIdle
  <2>1. idle' = idle \/ idle' = 0 \/ (idle + 1 < MaxIdle /\ idle' = idle + 1)
    <3>1. idle \in Nat
      BY InboxTypes
    <3>2. CASE ServeSilence
      BY <3>1, <3>2 DEF ServeSilence
    <3>3. CASE ~ServeSilence
      BY <3>3 DEF Loop, Accept, AcceptFails, PublishConnection, NoConnection, Hello, Acknowledge,
           ServeFrame, ServeStopped, Inspect, Inspected, UnpublishConnection
    <3> QED
      BY <3>2, <3>3
  <2> QED
    BY <2>1, InboxTypes, Constants
<1>5. /\ running' \in BOOLEAN /\ socket' \in {"none", "open", "closed"}
      /\ peer' \in {"away", "waiting", "connected", "gone"}
    BY DEF Types, Loop, Accept, AcceptFails, PublishConnection, NoConnection, Hello, Acknowledge,
           ServeSilence,
           ServeFrame, ServeStopped, Inspect, Inspected, UnpublishConnection
<1>6. Types'
    BY <1>1, <1>3, <1>4, <1>5 DEF Types, Places, Inside
<1>7. Connected'
    BY <1>1 DEF Connected, Outside, Inside, Requests
<1>8. Tellers'
    BY DEF Tellers
<1>9. Requested'
    BY <1>1 DEF Requested, Snapshot, Outside, Inside, Requests
<1>10. Reported'
  <2>1. CASE server \in Outside
    BY <2>1 DEF Reported, Snapshot, Connected, Threads, Nothing, Outside, Inside, Requests
  <2>2. CASE server \notin Outside
    BY <1>2, <2>2 DEF Reported, Snapshot, Stopped
  <2> QED
    BY <2>1, <2>2
<1> QED
    BY <1>6, <1>7, <1>8, <1>9, <1>10

\* An exception takes the server's thread out of the session or on its way to
\* its end.
LEMMA ThrowSteps ==
    ASSUME Inv, ServeThrows
    PROVE  Inv'
<1> USE DEF Inv, ServeThrows, Goto, serving, life, wire, events
<1>1. /\ UNCHANGED <<running, listener, active, host, socket, peer, inbox, idle, ctl, owner, pub, sink, view>>
      /\ \/ server \in {"hello", "policy", "attach"} /\ server' \in {"close", "reset policy"}
         \/ server \in Inside /\ server' = "disconnect"
    BY DEF Unwound, Inside, Requests
<1>2. Types'
    BY <1>1, TypesOf, TypesKept DEF Places
<1>3. Connected'
  <2>1. ctl' = ctl /\ pub' = pub /\ active' = active
    BY <1>1
  <2>2. Connected
    OBVIOUS
  <2>3. server \notin Unconnected
    BY ONLY <1>1 DEF Inside, Requests, Unconnected
  <2>4. ctl'.session = "remote" => server' \in Inside /\ ~ctl'.terminate
    BY ONLY <1>1, <2>1, <2>2 DEF Connected, Inside, Requests
  <2>5. server' \notin Outside
    BY ONLY <1>1 DEF Outside
  <2> QED
    BY ONLY <2>1, <2>2, <2>3, <2>4, <2>5 DEF Connected
<1>4. Tellers'
    BY <1>1 DEF Tellers
<1>5. Requested'
    BY <1>1 DEF Requested, Snapshot, Outside
<1>6. Reported'
    BY <1>1 DEF Reported, Stopped, Snapshot
<1> QED
    BY <1>2, <1>3, <1>4, <1>5, <1>6

\* Steps that change neither sink nor connection nor what anyone has to tell
\* are the policy's.
LEMMA PolicySteps ==
    ASSUME Inv, WritePolicy \/ ResetPolicy
    PROVE  Inv'
<1> USE DEF Inv, life, wire, events, At, Goto
<1>1. UNCHANGED <<running, listener, active, host, socket, peer, inbox, idle, owner, pub, sink, view>>
    BY DEF WritePolicy, ResetPolicy
<1>2. ctl \in Controllers
    BY DEF Types
<1>3. /\ ctl' \in Controllers /\ ctl'.state = ctl.state /\ ctl'.session = ctl.session
      /\ ctl'.gen = ctl.gen /\ ctl'.terminate = ctl.terminate
  <2>1. \/ ctl' = ctl
        \/ ctl' = configureWritePolicy(ctl, "remote")
        \/ ctl' = configureWritePolicy(ctl, "none")
    BY DEF WritePolicy, ResetPolicy
  <2> QED
    BY ONLY <1>2, <2>1, PolicyFields
<1>4. \/ server = "policy" /\ server' \in {"attach", "close"}
      \/ server = "reset policy" /\ server' = "close"
    BY DEF WritePolicy, ResetPolicy
<1>5. Types'
    BY <1>1, <1>3, <1>4, TypesKept, TypesOf DEF Places
<1>6. Connected'
    BY <1>1, <1>3, <1>4 DEF Connected, Outside, Inside, Requests, Unconnected
<1>7. Tellers'
    BY <1>1, <1>3 DEF Tellers
<1>8. Requested'
    BY <1>1, <1>4 DEF Requested, Snapshot, Outside
<1>9. Reported'
    BY <1>1, <1>3 DEF Reported, Snapshot, Stopped
<1> QED
    BY <1>5, <1>6, <1>7, <1>8, <1>9

\* The connection ends with nothing left to tell.
LEMMA ClosingSteps ==
    ASSUME Inv, CloseConnection
    PROVE  Inv'
<1> USE DEF Inv, life, wire, events, At, Goto, CloseConnection
<1>1. /\ UNCHANGED <<running, listener, active, host, starts, peer, inbox, idle, ctl, owner>>
      /\ sink' = NewSink /\ pub' = [u \in Threads |-> Nothing]
      /\ server = "close" /\ server' = "unpublish"
      /\ socket' \in {"none", "open", "closed"}
    BY DEF Types, CloseSocket
<1>2. ctl.session # "remote"
    BY <1>1 DEF Connected, Inside, Requests
<1>3. sink' \in Sinks /\ pub' \in [Threads -> Reports] /\ pub'["owner"] = Nothing /\ pub'["server"] = Nothing
    BY <1>1 DEF NewSink, Sinks, States, Reports, Threads
<1>4. Types'
    BY <1>1, <1>3 DEF Types, Places
<1>5. Connected'
    BY <1>1, <1>2 DEF Connected, Outside, Unconnected
<1>6. ctl.gen \in Nat /\ sink'.stopped = 0 /\ sink'.last = "detached"
  <2>1. ctl.gen \in Nat
    BY ONLY Types, TypesOf DEF Controllers
  <2> QED
    BY ONLY <1>1, <2>1 DEF NewSink
<1>7. Tellers'
    BY <1>1, <1>3, <1>6 DEF Tellers, Nothing
<1>8. Requested'
    BY <1>3, <1>6 DEF Requested, Snapshot, Nothing
<1>9. Reported'
    BY <1>1, <1>2, <1>3 DEF Reported, Snapshot, Nothing
<1> QED
    BY <1>4, <1>5, <1>7, <1>8, <1>9

\* The server moves on without a change of the session ...
LEMMA ServerMoves ==
    ASSUME Inv, UNCHANGED <<running, listener, active, host, socket, peer, inbox, idle, ctl, owner, pub, sink, view>>,
           server \in Inside \cup {"attach"}, server' \in {"serve", "disconnect", "reset policy"},
           ctl.session = "remote" => server' # "reset policy"
    PROVE  Inv'
<1> USE DEF Inv
<1>1. Types'
    BY TypesKept, TypesOf DEF Places
<1>2. Connected'
    BY DEF Connected, Outside, Inside, Requests, Unconnected
<1>3. Tellers'
    BY DEF Tellers
<1>4. Requested'
    BY DEF Requested, Snapshot, Outside
<1>5. Reported'
    BY DEF Reported, Snapshot, Stopped
<1> QED
    BY <1>1, <1>2, <1>3, <1>4, <1>5

\* ... or it changes the session and has to tell of it.
LEMMA ServerPublishes ==
    ASSUME Inv, UNCHANGED <<running, listener, active, host, socket, peer, inbox, idle, owner, sink, view>>,
           server \in Inside \cup {"attach"}, server' \in Inside \cup {"reset policy"},
           pub["server"] = Nothing,
           NEW session, Publish("server", session, ctl'),
           ctl' \in Controllers, ctl'.gen = ctl.gen, ctl'.state # "suspended",
           server' = "configure" => server = "attach",
           ctl'.session = "remote" => server' \in Inside /\ ~ctl'.terminate,
           ctl'.state = "running" => server = "configure",
           ctl'.state = "resumeRequested" =>
               server' = "serve" /\ (ctl'.session = "remote" => ctl.session = "remote" /\ ctl.state = "suspended")
    PROVE  Inv'
<1> USE DEF Inv
<1>1. ctl \in Controllers /\ pub \in [Threads -> Reports]
    BY DEF Types
<1>2. /\ pub' \in [Threads -> Reports] /\ pub'["owner"] = pub["owner"]
      /\ \/ pub'["server"] = Nothing
         \/ pub'["server"].what = "snapshot" /\ pub'["server"].state = ctl'.state
    BY <1>1, PublishFields DEF Threads
<1>3. Types'
    BY <1>2, TypesKept, TypesOf DEF Places, Inside
<1>4. Connected'
    BY DEF Connected, Outside, Inside, Requests, Unconnected
<1>5. Tellers'
    BY <1>2 DEF Tellers
<1>6. Requested'
    BY <1>2 DEF Requested, Snapshot, Outside, Inside, Requests, Nothing
<1>7. Reported'
    BY <1>2 DEF Reported, Snapshot, Stopped
<1> QED
    BY <1>3, <1>4, <1>5, <1>6, <1>7

LEMMA SessionSteps ==
    ASSUME Inv, AttachSession \/ ConfigurationDone \/ Pause \/ Continue \/ Detach \/ Disconnect
    PROVE  Inv'
<1> USE DEF life, wire, events, At, Goto, Published
<1>1. /\ UNCHANGED <<running, listener, active, host, socket, peer, inbox, idle, owner, sink, view>>
      /\ pub["server"] = Nothing
    BY DEF AttachSession, ConfigurationDone, Pause, Continue, Detach, Disconnect, ChangesState, Disconnected
<1>2. ctl \in Controllers /\ (ctl.session = "remote" => ~ctl.terminate)
    BY TypesOf DEF Inv, Connected
<1>3. CASE AttachSession
  <2>1. CASE ctl.session # "none"
    <3>1. server = "attach" /\ server' = "reset policy" /\ ctl' = ctl /\ pub' = pub
      BY <1>3, <2>1 DEF AttachSession
    <3>2. ctl.session # "remote"
      BY <3>1 DEF Inv, Connected, Inside, Requests
    <3> QED
      BY <1>1, <3>1, <3>2, ServerMoves
  <2>2. CASE ctl.session = "none"
    <3>1. /\ server = "attach" /\ server' = "configure" /\ ctl' = Attached(ctl, "remote")
          /\ Publish("server", "remote", ctl')
      BY <1>3, <2>2 DEF AttachSession
    <3>2. /\ ctl' \in Controllers /\ ctl'.state = "starting" /\ ctl'.session = "remote" /\ ctl'.gen = ctl.gen
          /\ ~ctl'.terminate
      BY <1>2, <3>1, AttachedFields
    <3> QED
      BY <1>1, <3>1, <3>2, ServerPublishes DEF Inside
  <2> QED
    BY <2>1, <2>2
<1>4. CASE ConfigurationDone
  <2>1. CASE ctl.session # "none" /\ ctl.state = "starting"
    <3>1. /\ server = "configure" /\ server' = "ack" /\ ctl' = [ctl EXCEPT !.state = "running"]
          /\ Publish("server", ctl.session, ctl')
      BY <1>4, <2>1 DEF ConfigurationDone
    <3>2. /\ ctl' \in Controllers /\ ctl'.state = "running" /\ ctl'.session = ctl.session /\ ctl'.gen = ctl.gen
          /\ ctl'.terminate = ctl.terminate
      BY <1>2, <3>1, StateFields DEF States
    <3> QED
      BY <1>1, <1>2, <3>1, <3>2, ServerPublishes DEF Inside
  <2>2. CASE ~(ctl.session # "none" /\ ctl.state = "starting")
    <3>1. server = "configure" /\ server' = "disconnect" /\ ctl' = ctl /\ pub' = pub
      BY <1>4, <2>2 DEF ConfigurationDone
    <3> QED
      BY <1>1, <3>1, ServerMoves DEF Inside
  <2> QED
    BY <2>1, <2>2
<1>5. ASSUME NEW from \in States, NEW to \in {"pauseRequested", "resumeRequested"},
             ChangesState(from, [ctl EXCEPT !.state = to]), server \in Requests,
             to = "resumeRequested" => from = "suspended"
      PROVE  Inv'
  <2> server \in Inside /\ server \notin {"configure", "reset policy"}
    BY <1>5 DEF Inside, Requests
  <2>1. CASE ctl.session # "none" /\ ctl.state = from
    <3>1. server' = "serve" /\ ctl' = [ctl EXCEPT !.state = to] /\ Publish("server", ctl.session, ctl')
      BY <1>5, <2>1 DEF ChangesState
    <3>2. /\ ctl' \in Controllers /\ ctl'.state = to /\ ctl'.session = ctl.session /\ ctl'.gen = ctl.gen
          /\ ctl'.terminate = ctl.terminate
      <4> to \in States
        BY DEF States
      <4> QED
        BY ONLY <1>2, <3>1, to \in States, StateFields
    <3>3. to # "running" /\ to # "suspended"
      OBVIOUS
    <3> QED
      BY <1>1, <1>2, <1>5, <2>1, <3>1, <3>2, <3>3, ServerPublishes DEF Inside
  <2>2. CASE ~(ctl.session # "none" /\ ctl.state = from)
    <3>1. server' = "serve" /\ ctl' = ctl /\ pub' = pub
      BY <1>5, <2>2 DEF ChangesState
    <3> QED
      BY <1>1, <3>1, ServerMoves
  <2> QED
    BY <2>1, <2>2
<1>6. CASE Pause
    BY <1>5, <1>6 DEF Pause, States, Requests
<1>7. CASE Continue
    BY <1>5, <1>7 DEF Continue, States, Requests
<1>8. ASSUME NEW action \in {"continue", "terminate"}, Disconnected(action),
             server \in {"leave", "kill", "disconnect"}
      PROVE  Inv'
  <2> server \in Inside
    BY <1>8 DEF Inside, Requests
  <2>1. CASE ctl.session = "remote"
    <3>1. /\ server' = "reset policy" /\ ctl' = Detached(ctl, action) /\ Publish("server", "remote", ctl')
      BY <1>8, <2>1 DEF Disconnected
    <3>2. /\ ctl' \in Controllers /\ ctl'.state \in {"detached", "terminated"} /\ ctl'.session = "none"
          /\ ctl'.gen = ctl.gen
      BY <1>2, <3>1, DetachedFields
    <3> QED
      BY <1>1, <3>1, <3>2, ServerPublishes
  <2>2. CASE ctl.session # "remote"
    <3>1. server' = "reset policy" /\ ctl' = ctl /\ pub' = pub
      BY <1>8, <2>2 DEF Disconnected
    <3> QED
      BY <1>1, <2>2, <3>1, ServerMoves
  <2> QED
    BY <2>1, <2>2
<1>9. CASE Detach
    BY <1>8, <1>9 DEF Detach
<1>10. CASE Disconnect
    BY <1>8, <1>10, Constants DEF Disconnect
<1> QED
    BY <1>3, <1>4, <1>6, <1>7, <1>9, <1>10

------------------------------------------------------------------------------
(* The owner *)

LEMMA OwnerPublishes ==
    ASSUME Inv, UNCHANGED <<running, listener, active, host, socket, peer, inbox, idle, server, sink, view>>,
           pub["owner"] = Nothing, Publish("owner", ctl.session, ctl'),
           ctl' \in Controllers, ctl'.session = ctl.session, ctl'.terminate = ctl.terminate,
           owner' \in {"lua", "blocked", "ended"},
           \/ ctl'.state = "suspended" /\ ctl'.gen = ctl.gen + 1 /\ owner' = "blocked"
           \/ ctl'.state = "running" /\ ctl'.gen = ctl.gen /\ ctl.state = "resumeRequested"
           \/ ctl'.state = "terminated" /\ ctl'.gen = ctl.gen
    PROVE  Inv'
<1> USE DEF Inv
<1>1. ctl \in Controllers /\ pub \in [Threads -> Reports] /\ sink \in Sinks
    BY TypesOf
<1>2. /\ pub' \in [Threads -> Reports] /\ pub'["server"] = pub["server"]
      /\ ctl.session # "remote" => pub'["owner"] = Nothing
      /\ ctl.session = "remote" => /\ pub'["owner"].what = "snapshot" /\ pub'["owner"].state = ctl'.state
                                  /\ pub'["owner"].gen = ctl'.gen /\ pub'["owner"] # Nothing
    BY <1>1, PublishFields DEF Threads
<1>3. ctl.gen \in Nat /\ ctl'.gen \in Nat /\ sink.stopped \in Nat /\ sink.stopped <= ctl.gen
    BY <1>1 DEF Controllers, Sinks, Tellers
<1>4. Types'
    BY <1>1, <1>2, TypesKept, TypesOf
<1>5. Connected'
  <2>1. server \in Outside => ctl.session # "remote"
    BY DEF Connected, Outside, Inside, Requests
  <2>2. server \in Outside => pub' = pub
    BY <1>1, <1>2, <2>1 DEF Publish
  <2> QED
    BY <2>1, <2>2 DEF Connected
<1>6. Tellers'
    BY <1>2, <1>3 DEF Tellers, Nothing
<1>7. Requested'
    BY <1>2 DEF Requested, Snapshot
<1>8. Reported'
    BY <1>2, <1>3 DEF Reported, Snapshot, Stopped, Nothing
<1> QED
    BY <1>4, <1>5, <1>6, <1>7, <1>8

\* Steps of the owner and of the client in the process that tell nobody: the
\* program is not suspended for the peer after them.
LEMMA SilentSteps ==
    ASSUME Inv, UNCHANGED <<running, listener, active, host, socket, peer, inbox, idle, server, pub, sink, view>>,
           ctl' \in Controllers, ctl'.gen = ctl.gen, owner' \in {"lua", "blocked", "ended"},
           ctl'.session # "remote" \/ ctl' = ctl,
           \/ owner' = owner \/ ctl.session # "remote"
           \/ ctl.state \notin {"suspended", "resumeRequested"}
    PROVE  Inv'
<1> USE DEF Inv
<1>1. Types'
    BY TypesKept, TypesOf
<1>2. Connected'
    BY DEF Connected
<1>3. Tellers'
    BY DEF Tellers
<1>4. Requested'
    BY DEF Requested, Snapshot
<1>5. Reported'
    BY DEF Reported, Snapshot, Stopped
<1> QED
    BY <1>1, <1>2, <1>3, <1>4, <1>5

LEMMA OwnerSteps ==
    ASSUME Inv, Owner
    PROVE  Inv'
<1> USE DEF ownerOnly, life, wire, events, OwnerAt, Published
<1>1. ctl \in Controllers /\ ctl.gen \in Nat
    BY TypesOf DEF Inv, Controllers
<1>2. /\ UNCHANGED <<running, listener, active, host, socket, peer, inbox, idle, server, sink, view>>
      /\ pub["owner"] = Nothing /\ owner' \in {"lua", "blocked", "ended"}
    BY DEF Owner, Suspend, Answer, Wake, Ends
<1>3. CASE Suspend
  <2>1. /\ ctl' = [ctl EXCEPT !.state = "suspended", !.gen = @ + 1] /\ Publish("owner", ctl.session, ctl')
        /\ owner' = "blocked"
    BY <1>3 DEF Suspend
  <2>2. /\ ctl' \in Controllers /\ ctl'.state = "suspended" /\ ctl'.session = ctl.session
        /\ ctl'.gen = ctl.gen + 1 /\ ctl'.terminate = ctl.terminate
    <3>1. ctl.gen + 1 = ctl.gen + 1
      OBVIOUS
    <3> QED
      BY ONLY <1>1, <2>1, <3>1, SuspendedFields
  <2> QED
    BY <1>2, <2>1, <2>2, OwnerPublishes
<1>4. CASE Answer
    BY <1>1, <1>2, <1>4, SilentSteps DEF Answer
<1>5. ASSUME NEW st \in {"running", "terminated"}, ctl' = [ctl EXCEPT !.state = st],
             Publish("owner", ctl.session, ctl'), st = "running" => ctl.state = "resumeRequested"
      PROVE  Inv'
  <2>1. /\ ctl' \in Controllers /\ ctl'.state = st /\ ctl'.session = ctl.session
        /\ ctl'.gen = ctl.gen /\ ctl'.terminate = ctl.terminate
    <3> st \in States
      BY DEF States
    <3> QED
      BY ONLY <1>1, ctl' = [ctl EXCEPT !.state = st], st \in States, StateFields
  <2> QED
    BY <1>2, <1>5, <2>1, OwnerPublishes
<1>6. CASE Wake
  <2>1. CASE ctl.state = "resumeRequested" /\ ~ctl.terminate
    <3>1. ctl' = [ctl EXCEPT !.state = "running"] /\ Publish("owner", ctl.session, ctl')
      BY <1>6, <2>1 DEF Wake
    <3> QED
      BY ONLY <1>5, <2>1, <3>1
  <2>2. CASE ~(ctl.state = "resumeRequested" /\ ~ctl.terminate)
    <3>1. ctl' = ctl /\ pub' = pub /\ (ctl.session # "remote" \/ ctl.state \notin {"suspended", "resumeRequested"})
      BY <1>6, <2>2 DEF Wake, Inv, Connected
    <3> QED
      BY <1>1, <1>2, <3>1, SilentSteps
  <2> QED
    BY <2>1, <2>2
<1>7. CASE Ends
  <2>1. CASE ctl.state # "terminated"
    <3>1. ctl' = [ctl EXCEPT !.state = "terminated"] /\ Publish("owner", ctl.session, ctl')
      BY <1>7, <2>1 DEF Ends
    <3> QED
      BY ONLY <1>5, <3>1
  <2>2. CASE ctl.state = "terminated"
    <3>1. ctl' = ctl /\ pub' = pub
      BY <1>7, <2>2 DEF Ends
    <3>2. ctl.state \notin {"suspended", "resumeRequested"}
      BY <2>2
    <3> QED
      BY <1>1, <1>2, <3>1, <3>2, SilentSteps
  <2> QED
    BY <2>1, <2>2
<1> QED
    BY <1>3, <1>4, <1>6, <1>7 DEF Owner

LEMMA LocalSteps ==
    ASSUME Inv, Local
    PROVE  Inv'
<1> USE DEF LocalChanges, life, wire, events
<1>1. ctl \in Controllers /\ owner \in {"lua", "blocked", "ended"}
    BY TypesOf DEF Inv
<1>2. UNCHANGED <<running, listener, active, host, socket, peer, inbox, idle, server, owner, pub, sink, view>>
    BY DEF Local, LocalAttach, LocalConfigured, LocalDetach
<1>3. CASE LocalAttach
    BY <1>1, <1>2, <1>3, AttachedFields, SilentSteps DEF LocalAttach
<1>4. CASE LocalConfigured
  <2>1. ctl' = [ctl EXCEPT !.state = "running"] /\ ctl.session = "local"
    BY <1>4 DEF LocalConfigured
  <2>2. ctl' \in Controllers /\ ctl'.gen = ctl.gen /\ ctl'.session = "local"
    BY <1>1, <2>1, StateFields DEF States
  <2> QED
    BY <1>1, <1>2, <2>2, SilentSteps
<1>5. CASE LocalDetach
    BY <1>1, <1>2, <1>5, DetachedFields, SilentSteps DEF LocalDetach
<1> QED
    BY <1>3, <1>4, <1>5 DEF Local

------------------------------------------------------------------------------
(* The sink *)

LEMMA StoredLaterFields ==
    ASSUME Types, NEW t \in Threads, pub[t].what = "snapshot", StoredLater(t)
    PROVE  /\ pub' \in [Threads -> Reports]
           /\ \A u \in Threads : u # t => pub'[u] = pub[u]
           /\ pub'[t].what = "store" /\ pub'[t].state = pub[t].state /\ pub'[t] # Nothing
           /\ pub[t] # Nothing /\ pub[t].state \in States /\ pub[t].gen \in Nat
<1>1. pub \in [Threads -> Reports] /\ pub[t] \in Reports
    BY TypesOf
<1>2. pub[t] # Nothing /\ pub[t].state \in States /\ pub[t].gen \in Nat
    BY <1>1, ReportFields DEF Nothing
<1>3. pub' = [pub EXCEPT ![t] = [what |-> "store", state |-> pub[t].state]]
    BY DEF StoredLater
<1>4. [what |-> "store", state |-> pub[t].state] \in Reports
    BY <1>1, <1>2, ReportFields
<1> QED
    BY <1>1, <1>2, <1>3, <1>4 DEF Nothing

\* What the sink's fields may become
LEMMA SinkFields ==
    ASSUME NEW s \in Sinks, NEW st \in States, NEW n \in Nat
    PROVE  /\ [s EXCEPT !.last = st] \in Sinks /\ [s EXCEPT !.last = st].last = st
           /\ [s EXCEPT !.last = st].stopped = s.stopped /\ [s EXCEPT !.last = st].terminated = s.terminated
           /\ [s EXCEPT !.stopped = n] \in Sinks /\ [s EXCEPT !.stopped = n].last = s.last
           /\ [s EXCEPT !.stopped = n].stopped = n /\ [s EXCEPT !.stopped = n].terminated = s.terminated
           /\ [s EXCEPT !.terminated = TRUE] \in Sinks /\ [s EXCEPT !.terminated = TRUE].last = s.last
           /\ [s EXCEPT !.terminated = TRUE].stopped = s.stopped /\ [s EXCEPT !.terminated = TRUE].terminated
BY DEF Sinks

\* The cases of TellSink in terms of the fields
LEMMA TellSinkFields ==
    ASSUME Types, NEW t \in Threads, TellSink(t)
    PROVE  /\ sink' \in Sinks
           /\ \/ /\ pub[t].state = "suspended" /\ pub[t].gen # sink.stopped
                 /\ sink'.stopped = pub[t].gen /\ sink'.last = sink.last /\ sink'.terminated = sink.terminated
                 /\ Announce(t, "stopped")
              \/ /\ pub[t].state = "running"
                 /\ sink'.last = "running" /\ sink'.stopped = sink.stopped /\ sink'.terminated = sink.terminated
                 /\ IF sink.last = "resumeRequested" THEN Announce(t, "running") ELSE view' = view
              \/ /\ pub[t].state = "terminated"
                 /\ sink'.terminated /\ sink'.last = sink.last /\ sink'.stopped = sink.stopped
                 /\ Announce(t, "terminated")
              \/ /\ pub[t].state # "running"
                 /\ pub[t].state = "suspended" => pub[t].gen = sink.stopped
                 /\ sink' = sink /\ view' = view
<1>1. sink \in Sinks /\ pub[t].gen \in Nat /\ "running" \in States
    BY TypesOf, ReportFields DEF TellSink, States
<1>2. CASE /\ pub[t].state = "suspended" /\ pub[t].gen # sink.stopped
           /\ sink' = [sink EXCEPT !.stopped = pub[t].gen]
           /\ Announce(t, "stopped")
    BY <1>1, <1>2, SinkFields
<1>3. CASE /\ pub[t].state = "running"
           /\ sink' = [sink EXCEPT !.last = "running"]
           /\ IF sink.last = "resumeRequested" THEN Announce(t, "running") ELSE UNCHANGED view
    BY <1>1, <1>3, SinkFields
<1>4. CASE /\ pub[t].state = "terminated" /\ ~sink.terminated
           /\ sink' = [sink EXCEPT !.terminated = TRUE]
           /\ Announce(t, "terminated")
    BY <1>1, <1>4, SinkFields
<1>5. CASE /\ \/ pub[t].state \notin {"suspended", "running", "terminated"}
              \/ pub[t].state = "suspended" /\ pub[t].gen = sink.stopped
              \/ pub[t].state = "terminated" /\ sink.terminated
           /\ sink' = sink /\ view' = view
    BY <1>1, <1>5
<1> QED
    BY <1>2, <1>3, <1>4, <1>5 DEF TellSink, events

LEMMA TellSteps ==
    ASSUME Inv, NEW t \in Threads, TellSink(t)
    PROVE  Inv'
<1> Types /\ Connected /\ Tellers /\ Requested /\ Reported
    BY DEF Inv
<1>1. /\ UNCHANGED <<running, listener, active, host, socket, peer, inbox, idle, server, ctl, owner>>
      /\ pub[t].what = "snapshot" /\ StoredLater(t)
    BY DEF TellSink, life, wire
<1>2. /\ pub' \in [Threads -> Reports]
      /\ \A u \in Threads : u # t => pub'[u] = pub[u]
      /\ pub'[t].what = "store" /\ pub'[t].state = pub[t].state /\ pub'[t] # Nothing
      /\ pub[t] # Nothing
    BY <1>1, StoredLaterFields
<1>3. t = "owner" \/ t = "server"
    BY DEF Threads
<1>4. server \notin Outside
  <2>1. CASE server \in Outside
    BY <1>2, <2>1 DEF Connected
  <2> QED
    BY <2>1
<1>5. Types'
    BY <1>1, <1>2, TellSinkFields, TypesKept, TypesOf
<1>6. Connected'
    BY <1>1, <1>4 DEF Connected
<1>7. Tellers'
  <2>1. pub["owner"].what = "snapshot" => pub["owner"].gen <= ctl.gen
    BY DEF Tellers
  <2>2. t = "server" => pub[t].state # "suspended"
    BY <1>2 DEF Tellers
  <2>3. sink'.stopped <= ctl.gen
    BY <1>1, <1>3, <2>1, <2>2, TellSinkFields DEF Tellers
  <2>4. CASE t = "owner"
    BY <1>1, <1>2, <2>3, <2>4 DEF Tellers, Threads
  <2>5. CASE t = "server"
    BY <1>1, <1>2, <2>3, <2>5 DEF Tellers, Threads
  <2> QED
    BY <1>3, <2>4, <2>5
<1>8. Requested'
  <2>1. sink'.last = "resumeRequested" => sink.last = "resumeRequested"
    BY TellSinkFields
  <2>2. CASE t = "owner"
    BY <1>1, <1>2, <2>1, <2>2 DEF Requested, Snapshot, Threads
  <2>3. CASE t = "server"
    BY <1>1, <1>2, <2>1, <2>3 DEF Requested, Snapshot, Threads
  <2> QED
    BY <1>3, <2>2, <2>3
<1>9. CASE t = "server"
  <2>1. pub'["owner"] = pub["owner"]
    BY <1>2, <1>9 DEF Threads
  <2>2. pub["server"].state # "suspended"
    BY <1>2, <1>9 DEF Tellers
  <2>3. Stopped => Stopped'
    BY <1>1, <1>9, <2>2, TellSinkFields DEF Stopped, Announce, Requested, Snapshot
  <2>4. sink'.stopped = sink.stopped
    BY <1>9, <2>2, TellSinkFields
  <2> QED
    BY <1>1, <1>5, <1>6, <1>7, <1>8, <2>1, <2>3, <2>4 DEF Inv, Reported, Snapshot
<1>10. CASE t = "owner"
  <2>1. pub["owner"].state = "suspended" /\ pub["owner"].gen # sink.stopped => Stopped'
    BY <1>1, <1>10, TellSinkFields DEF Stopped, Announce
  <2>2. ~Snapshot("owner", "running")' /\ ~Snapshot("owner", "suspended")'
    BY <1>2, <1>10 DEF Snapshot
  <2> QED
    BY <1>1, <1>2, <1>5, <1>6, <1>7, <1>8, <1>10, <2>1, <2>2 DEF Inv, Reported, Snapshot
<1> QED
    BY <1>3, <1>9, <1>10

LEMMA StoreSteps ==
    ASSUME Inv, NEW t \in Threads, StoreState(t)
    PROVE  Inv'
<1> Types /\ Connected /\ Tellers /\ Requested /\ Reported
    BY DEF Inv
<1>1. /\ UNCHANGED <<running, listener, active, host, socket, peer, inbox, idle, server, ctl, owner, view>>
      /\ pub[t].what = "store" /\ pub' = [pub EXCEPT ![t] = Nothing] /\ sink' = [sink EXCEPT !.last = pub[t].state]
    BY DEF StoreState, life, wire
<1>2. pub \in [Threads -> Reports] /\ sink \in Sinks /\ pub[t] \in Reports
    BY TypesOf
<1>3. pub[t] # Nothing /\ pub[t].state \in States
    BY <1>1, <1>2, ReportFields DEF Nothing
<1>4. /\ pub' \in [Threads -> Reports] /\ pub'[t] = Nothing
      /\ \A u \in Threads : u # t => pub'[u] = pub[u]
    BY <1>1, <1>2 DEF Reports
<1>5. /\ sink' \in Sinks /\ sink'.last = pub[t].state
      /\ sink'.stopped = sink.stopped /\ sink'.terminated = sink.terminated
    BY <1>1, <1>2, <1>3, SinkFields
<1>6. t = "owner" \/ t = "server"
    BY DEF Threads
<1>7. server \notin Outside
  <2>1. CASE server \in Outside
    BY <1>3, <2>1 DEF Connected
  <2> QED
    BY <2>1
<1>8. Types'
    BY <1>1, <1>4, <1>5, TypesKept, TypesOf
<1>9. Connected'
    BY <1>1, <1>7 DEF Connected
<1>10. Stopped' = Stopped
    BY <1>1, <1>5 DEF Stopped
<1>11. CASE t = "owner"
  <2>1. pub'["server"] = pub["server"] /\ pub'["owner"] = Nothing
    BY <1>4, <1>11 DEF Threads
  <2>2. pub["owner"].state \in {"suspended", "running", "terminated"}
    BY <1>3, <1>11 DEF Tellers
  <2>3. Tellers'
    BY <1>1, <1>5, <2>1 DEF Tellers, Nothing
  <2>4. Requested'
    BY <1>1, <1>5, <1>11, <2>1, <2>2 DEF Requested, Snapshot
  <2>5. Reported'
    BY <1>1, <1>3, <1>10, <1>11, <2>1, <2>2 DEF Reported, Snapshot, Nothing
  <2> QED
    BY <1>8, <1>9, <2>3, <2>4, <2>5 DEF Inv
<1>12. CASE t = "server"
  <2>1. pub'["owner"] = pub["owner"] /\ pub'["server"] = Nothing
    BY <1>4, <1>12 DEF Threads
  <2>2. Tellers'
    BY <1>1, <1>5, <2>1 DEF Tellers, Nothing
  <2>3. Requested'
    BY <1>1, <1>3, <1>5, <1>12, <2>1 DEF Requested, Snapshot, Nothing
  <2>4. Reported'
    BY <1>1, <1>5, <1>10, <2>1 DEF Reported, Snapshot
  <2> QED
    BY <1>8, <1>9, <2>2, <2>3, <2>4 DEF Inv
<1> QED
    BY <1>6, <1>11, <1>12

------------------------------------------------------------------------------
(* The theorems *)

LEMMA StepInv == Inv /\ [Next]_vars => Inv'
<1> SUFFICES ASSUME Inv, [Next]_vars PROVE Inv'
    OBVIOUS
<1>1. CASE Start \/ StartFails \/ Stop \/ Stopping \/ Peer
    BY <1>1, HostAndPeer
<1>2. CASE Server \/ Failing
  <2>1. CASE Quietly
    BY <2>1, QuietSteps
  <2>2. CASE WritePolicy \/ ResetPolicy
    BY <2>2, PolicySteps
  <2>3. CASE CloseConnection
    BY <2>3, ClosingSteps
  <2>4. CASE AttachSession \/ ConfigurationDone \/ Pause \/ Continue \/ Detach \/ Disconnect
    BY <2>4, SessionSteps
  <2>5. CASE Loop \/ Accept \/ AcceptFails \/ PublishConnection \/ NoConnection \/ Hello \/ Acknowledge \/ ServeSilence \/ ServeFrame
             \/ ServeStopped \/ Inspect \/ Inspected \/ UnpublishConnection
    <3>1. UNCHANGED <<listener, host, ctl, owner, pub, sink, view>>
      BY <2>5 DEF notServer, serving, life, wire, events, Loop, Accept, AcceptFails, PublishConnection,
                  NoConnection, Hello, Acknowledge,
                  ServeSilence, ServeFrame, ServeStopped, Inspect, Inspected, UnpublishConnection
    <3> QED
      BY <2>1, <2>5, <3>1 DEF Quietly
  <2>6. CASE ServeThrows
    BY <2>6, ThrowSteps
  <2> QED
    BY <1>2, <2>2, <2>3, <2>4, <2>5, <2>6 DEF Server, Handshake, Serving, Leaving, Failing
<1>3. CASE Owner
    BY <1>3, OwnerSteps
<1>4. CASE Local
    BY <1>4, LocalSteps
<1>5. CASE Publishing
    BY <1>5, TellSteps, StoreSteps DEF Publishing
<1>6. CASE UNCHANGED vars
  <2>1. UNCHANGED <<running, listener, active, host, socket, server, peer, inbox, idle, ctl, owner, pub, sink, view>>
    BY <1>6 DEF vars, life, wire, events
  <2>2. Types'
    BY <2>1 DEF Inv, Types
  <2>3. Connected' /\ Tellers'
    BY <2>1 DEF Inv, Connected, Tellers
  <2>4. Requested' /\ Reported'
    BY <2>1 DEF Inv, Requested, Reported, Snapshot, Stopped
  <2> QED
    BY <2>2, <2>3, <2>4 DEF Inv
<1> QED
    BY <1>1, <1>2, <1>3, <1>4, <1>5, <1>6 DEF Next

\* The whole invariant: where the server is, what is connected, requested and
\* reported (remote_server.cpp).
LEMMA Invariance == Spec => []Inv
BY InitInv, StepInv, PTL DEF Spec

\* The server is where its state says, and the session of the peer exists only
\* while its connection is published and served: stop always finds the
\* connection it has to close.
THEOREM SessionWhileServed == Spec => []TypeOK
<1>1. Inv => TypeOK
  <2> SUFFICES ASSUME Inv PROVE TypeOK
    OBVIOUS
  <2>1. ctl.session \in {"none", "remote", "local"}
    BY TypesOf DEF Inv, Controllers
  <2>2. ctl.session = "remote" => active /\ server \notin {"none", "loop", "accept", "accepted", "hello", "ended"}
    BY DEF Inv, Connected, Inside, Requests, Unconnected
  <2> QED
    BY <2>1, <2>2 DEF Inv, Types, TypeOK
<1> QED
    BY <1>1, Invariance, PTL

\* Whatever the owner and the server's thread do between a change of the
\* session and its report, the peer hears that the program goes on only after
\* it heard that it stopped.
THEOREM StopsBeforeItContinues == Spec => ContinuedAfterStopped
<1>1. Inv /\ [Next]_vars => [view' = "running" /\ view # "running" => view = "stopped" \/ sink.terminated]_vars
  <2> SUFFICES ASSUME Inv, [Next]_vars, view' = "running", view # "running"
               PROVE  view = "stopped" \/ sink.terminated
    OBVIOUS
  <2>1. PICK t \in Threads : TellSink(t)
    <3>1. UNCHANGED view \/ view' = "unknown" \/ \E t \in Threads : TellSink(t)
      BY DEF Next, Start, StartFails, MayStart, Refused, Stop, Stopping, StopCloses, StopDisconnects,
             StopJoins, Peer, Connect, HangUp, Send,
             Server, Handshake, Loop, Accept, AcceptFails, PublishConnection, NoConnection, Hello, WritePolicy, AttachSession, ConfigurationDone,
             Acknowledge, Serving, ServeSilence, ServeFrame, ServeStopped, Pause, Continue, ChangesState, Inspect,
             Inspected, Detach, Disconnected, Leaving, Disconnect, ResetPolicy, CloseConnection, UnpublishConnection, Failing, ServeThrows,
             Owner, Suspend, Answer, Wake, Ends, Local, LocalAttach, LocalConfigured, LocalDetach, LocalChanges,
             Publishing, StoreState, vars, life, wire, events, notHost, notPeer, notServer, serving, ownerOnly
    <3> QED
      BY <3>1
  <2>2. Types
    BY DEF Inv
  <2>3. pub[t].what = "snapshot" /\ pub[t].state = "running" /\ sink.last = "resumeRequested" /\ socket = "open"
    BY <2>1, <2>2, TellSinkFields DEF Announce, TellSink
  <2>4. t = "owner"
    BY <2>3 DEF Inv, Requested, Snapshot, Threads
  <2> QED
    BY <2>3, <2>4 DEF Inv, Reported, Snapshot, Stopped
<1> QED
    BY <1>1, Invariance, PTL DEF Spec, ContinuedAfterStopped

------------------------------------------------------------------------------
(* The rights of the peer *)

\* Where the controller has no other client, only the server's thread has a
\* session, and it holds the peer's rights from its handshake to their reset.
Alone ==
    /\ ctl.session # "local"
    /\ ctl.policy = "remote" => server \in Inside \cup {"attach", "reset policy"}

\* The rights that the configuration gives to the peer end with its session,
\* if the server is the controller's only client.  With a second one they may
\* outlive it: its session keeps the reset from being done.
THEOREM PolicyEndsWithSession ==
    ASSUME ~Shared
    PROVE  Spec => []PolicyOfPeer
<1>1. Init => Alone
    BY DEF Init, Alone
<1>2. Inv /\ Alone /\ [Next]_vars => Alone'
  <2> SUFFICES ASSUME Inv, Alone, [Next]_vars PROVE Alone'
    OBVIOUS
  <2>1. ctl \in Controllers /\ server \in Places
    BY TypesOf DEF Inv
  <2> USE DEF Alone
  <2>2. ASSUME UNCHANGED ctl,
               server' = server \/ server \notin Inside \cup {"attach", "reset policy"}
               \/ server' \in Inside \cup {"attach", "reset policy"}
        PROVE  Alone'
    BY <2>2
  <2>3. CASE Start \/ StartFails \/ Stop \/ Stopping \/ Peer \/ Publishing \/ UNCHANGED vars
    <3>1. /\ UNCHANGED ctl
          /\ server' = server \/ server \in {"none", "ended"}
      BY <2>3 DEF Start, StartFails, MayStart, Refused, Stop, Stopping, StopCloses, StopDisconnects,
                  StopJoins, Peer, Connect, HangUp, Send,
                  Publishing, TellSink, StoreState, vars, notHost, notPeer
    <3> QED
      BY <2>2, <3>1 DEF Inside, Requests
  <2>4. CASE Local
    BY <2>4 DEF Local, LocalAttach, LocalConfigured, LocalDetach
  <2>5. CASE Owner
    <3>1. server' = server /\ ctl'.session = ctl.session /\ ctl'.policy = ctl.policy
      BY <2>1, <2>5 DEF Owner, Suspend, Answer, Wake, Ends, ownerOnly, Controllers
    <3> QED
      BY <3>1
  <2>6. CASE Server \/ Failing
    <3> USE DEF At, Goto, Published
    <3>1. CASE Loop \/ Accept \/ AcceptFails \/ PublishConnection \/ NoConnection \/ Hello \/ Acknowledge \/ ServeSilence \/ ServeFrame
               \/ ServeStopped \/ Inspect \/ Inspected \/ UnpublishConnection \/ CloseConnection
      <4>1. /\ UNCHANGED ctl
            /\ \/ server \in {"loop", "accept", "accepted", "hello", "unpublish", "close"}
               \/ server' \in Inside
        BY <3>1 DEF serving, Inside, Requests, Loop, Accept, AcceptFails, PublishConnection,
                    NoConnection, Hello, Acknowledge, ServeSilence,
                    ServeFrame, ServeStopped, Inspect, Inspected, UnpublishConnection, CloseConnection
      <4> QED
        BY <2>2, <4>1 DEF Inside, Requests
    <3>2. CASE WritePolicy \/ ResetPolicy
      <4>1. ctl.session = "none"
        BY <2>1, <3>2 DEF WritePolicy, ResetPolicy, Inv, Connected, Inside, Requests, Controllers
      <4>2. CASE WritePolicy
        BY <2>1, <4>1, <4>2 DEF WritePolicy, PolicyMayChange, configureWritePolicy, Controllers
      <4>3. CASE ResetPolicy
        BY <2>1, <4>1, <4>3 DEF ResetPolicy, PolicyMayChange, configureWritePolicy, Controllers
      <4> QED
        BY <3>2, <4>2, <4>3
    <3>3. CASE AttachSession \/ ConfigurationDone \/ Pause \/ Continue
      <4>1. /\ ctl'.session # "local"
            /\ ctl' = ctl \/ ctl' = Attached(ctl, "remote") \/ \E st \in States : ctl' = [ctl EXCEPT !.state = st]
            /\ server' \in Inside \cup {"reset policy"}
        BY <2>1, <3>3 DEF AttachSession, ConfigurationDone, Pause, Continue, ChangesState, States,
                      Inside, Attached,
                          Controllers
      <4> QED
        BY <4>1
    <3>4. CASE Detach \/ Disconnect
      <4>1. /\ server' = "reset policy"
            /\ ctl' = ctl \/ ctl'.session = "none"
        BY <2>1, <3>4 DEF Detach, Disconnect, Disconnected, Detached, Controllers
      <4> QED
        BY <4>1
    <3>5. CASE ServeThrows
      <4>1. /\ UNCHANGED ctl
            /\ server \in {"hello", "policy"} \/ server' \in {"disconnect", "reset policy"}
        BY <3>5 DEF ServeThrows, Unwound, serving, Requests
      <4> QED
        BY <2>2, <4>1 DEF Inside, Requests
    <3> QED
      BY <2>6, <3>1, <3>2, <3>3, <3>4, <3>5 DEF Server, Handshake, Serving, Leaving, Failing
  <2> QED
    BY <2>3, <2>4, <2>5, <2>6 DEF Next
<1>3. Alone => PolicyOfPeer
    BY DEF Alone, PolicyOfPeer, Inside, Requests
<1> QED
    BY <1>1, <1>2, <1>3, Invariance, PTL DEF Spec
===============================================================================

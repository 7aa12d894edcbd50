----------------------------- MODULE RemoteServer -----------------------------
(***************************************************************************)
(* The remote debug server, remote_server.cpp over remote_transport.cpp:   *)
(* the host's thread, which starts and stops it, the server's thread,      *)
(* which accepts one connection at a time and serves it, the owner thread, *)
(* which runs the program, a client in the host process that shares the    *)
(* DebugController, and the peer at the other end of the connection.       *)
(*                                                                         *)
(* An action is a critical section of one of the mutexes, one access to an *)
(* atomic, or one call of the socket layer.  The controller is reduced to  *)
(* its session: DebugRuntime has the rest of it, its wakeups included, so  *)
(* here the owner just wakes when what it waits for is there.  What a      *)
(* controller call tells the event sink it tells after it has unlocked, in *)
(* steps of its own.                                                       *)
(*                                                                         *)
(* Left out: the bytes of frames (a malformed one is "bad"), identifiers   *)
(* of threads and frames, statistics, output and breakpoint events, and    *)
(* memory that runs out while a sink encodes an event.                     *)
(***************************************************************************)
EXTENDS Naturals, Sequences

CONSTANTS
    MaxInbox,       \* bound: frames on their way to the server
    MaxIdle,        \* idleTimeoutMs in heartbeat intervals
    MaxPauses,      \* bound: pause generations
    Starts,         \* bound: how often the host starts the server
    Disconnecting,  \* config_.disconnectAction: "continue" or "terminate"
    Shared          \* whether a client in the host process uses the same controller

ASSUME RemoteServerAssumption ==
    /\ MaxInbox \in Nat /\ MaxIdle \in Nat \ {0}
    /\ MaxPauses \in Nat /\ Starts \in Nat
    /\ Disconnecting \in {"continue", "terminate"} /\ Shared \in BOOLEAN

VARIABLES
    running,    \* running_
    listener,   \* the listening socket: "none", "open", "closed"
    active,     \* activeConnection_ is published
    socket,     \* the server's end of the connection: "none", "open", "closed"
    server,     \* where the server's thread is
    host,       \* where the host's thread is: idle, or in a step of stop
    starts,     \* how often it may still start
    peer,       \* the client's end: "away", "waiting" to be accepted, "connected", "gone"
    inbox,      \* what it sent
    idle,       \* idleMs in heartbeat intervals
    ctl,        \* the controller: state, session, generation, write policy, terminateRequested
    owner,      \* where the owner thread is
    command,    \* the inspection in the owner's queue: "none", "queued", "done"
    pub,        \* what a thread has yet to tell the remote session's sink
    sink,       \* ServerEventSink: lastState_, lastStoppedGeneration_, terminated_
    view        \* what the events that were sent tell the peer

life == <<running, listener, active, host, starts>>
wire == <<socket, peer, inbox>>
events == <<sink, view>>
vars == <<life, wire, idle, server, ctl, owner, command, pub, events>>

Threads == {"server", "owner"}
Nothing == [what |-> "nothing"]
Requests == {"pause", "continue", "inspect", "leave", "kill"}
\* "ping" is what changes nothing: Ping, Pong, a request that is answered from
\* what the controller knows, and one that is refused because it does not
\* decode, is not supported, or has an identifier that was used before.  "other" is what ends the
\* connection: a hello with the wrong token or version, Goodbye, and frames
\* that have no place where they arrive.
Frames == Requests \cup {"hello", "ping", "other"}

NewSink == [last |-> "detached", stopped |-> 0, terminated |-> FALSE]

Init ==
    /\ running = FALSE /\ listener = "none" /\ active = FALSE /\ socket = "none"
    /\ server = "none" /\ host = "idle" /\ starts = Starts
    /\ peer = "away" /\ inbox = <<>>
    /\ idle = 0
    /\ ctl = [state |-> "detached", session |-> "none", gen |-> 0, policy |-> "none", terminate |-> FALSE]
    /\ owner = "lua" /\ command = "none"
    /\ pub = [t \in Threads |-> Nothing]
    /\ sink = NewSink /\ view = "unknown"

------------------------------------------------------------------------------
(* Publication: publish calls the sink with the snapshot taken before *)

Told(s) == [what |-> "snapshot", state |-> s.state, gen |-> s.gen]
\* The sink of the remote session is told of the new state of the controller;
\* the other session's sink sends nothing to the peer.
Publish(t, session, s) == pub' = [pub EXCEPT ![t] = IF session = "remote" THEN Told(s) ELSE Nothing]
Published(t) == pub[t] = Nothing

\* Connection::send; a peer that went away may or may not be noticed.
Sends == IF socket = "open" THEN IF peer = "connected" THEN {TRUE} ELSE BOOLEAN ELSE {FALSE}

Announce(t, what) == view' = IF socket = "open" THEN what ELSE view
StoredLater(t) == pub' = [pub EXCEPT ![t] = [what |-> "store", state |-> @.state]]

TellSinkAlways(t) ==
    /\ pub[t].what = "snapshot"
    /\ StoredLater(t)
    /\ \/ pub[t].state = "suspended" /\ sink' = [sink EXCEPT !.stopped = pub[t].gen] /\ Announce(t, "stopped")
       \/ pub[t].state = "running" /\ sink' = [sink EXCEPT !.last = "running"] /\ Announce(t, "running")
       \/ pub[t].state \notin {"suspended", "running"} /\ UNCHANGED events
    /\ UNCHANGED <<life, wire, idle, server, ctl, owner, command>>
\* onDebugStateChanged up to its last line, which stores lastState_.
TellSink(t) ==
    /\ pub[t].what = "snapshot"
    /\ StoredLater(t)
    /\ \/ /\ pub[t].state = "suspended" /\ pub[t].gen # sink.stopped
          /\ sink' = [sink EXCEPT !.stopped = pub[t].gen]
          /\ Announce(t, "stopped")
       \/ /\ pub[t].state = "running"
          /\ sink' = [sink EXCEPT !.last = "running"]
          /\ IF sink.last = "resumeRequested" THEN Announce(t, "running") ELSE UNCHANGED view
       \/ /\ pub[t].state = "terminated" /\ ~sink.terminated
          /\ sink' = [sink EXCEPT !.terminated = TRUE]
          /\ Announce(t, "terminated")
       \/ /\ \/ pub[t].state \notin {"suspended", "running", "terminated"}
             \/ pub[t].state = "suspended" /\ pub[t].gen = sink.stopped
             \/ pub[t].state = "terminated" /\ sink.terminated
          /\ UNCHANGED events
    /\ UNCHANGED <<life, wire, idle, server, ctl, owner, command>>
StoreState(t) ==
    /\ pub[t].what = "store"
    /\ sink' = [sink EXCEPT !.last = pub[t].state]
    /\ pub' = [pub EXCEPT ![t] = Nothing]
    /\ UNCHANGED <<life, wire, idle, server, ctl, owner, command, view>>

------------------------------------------------------------------------------
(* The controller *)

Attached(s, who) == [s EXCEPT !.session = who, !.state = "starting", !.terminate = FALSE]
\* detachSession
Detached(s, action) ==
    [s EXCEPT !.session = "none", !.terminate = (action = "terminate"),
              !.state = IF action = "terminate" THEN "terminated" ELSE "detached"]
Cancelled == IF command = "queued" THEN "done" ELSE command

PolicyMayChangeDetached(s) == s.state \in {"detached", "starting"}
\* configureWritePolicy
PolicyMayChange(s) == s.session = "none" \/ s.state = "starting"
configureWritePolicy(s, policy) == IF PolicyMayChange(s) THEN [s EXCEPT !.policy = policy] ELSE s

------------------------------------------------------------------------------
(* The host: start and stop hold lifecycleMutex_ *)

notHost == <<wire, idle, ctl, owner, command, pub, events>>

\* A peer that no accept will return is disconnected with the listener.
Refused == IF peer = "waiting" THEN "away" ELSE peer
MayStart == host = "idle" /\ ~running /\ server \in {"none", "ended"}   \* the old thread is joined
Start ==
    /\ MayStart /\ starts > 0
    /\ running' = TRUE /\ listener' = "open" /\ starts' = starts - 1
    /\ server' = "loop" /\ peer' = Refused     \* the old listener is closed
    /\ UNCHANGED <<active, host, socket, inbox, idle, ctl, owner, command, pub, events>>
\* start is refused, cannot listen, or, with the new listener, cannot start its thread.
StartFails ==
    /\ MayStart
    /\ server' = "none"
    /\ \/ UNCHANGED <<listener, peer>>
       \/ listener' = "closed" /\ peer' = Refused
    /\ UNCHANGED <<running, active, host, starts, socket, inbox, idle, ctl, owner, command, pub, events>>
Stop ==
    /\ host = "idle" /\ (server # "none" \/ listener = "open")
    /\ running' = FALSE
    /\ host' = "close listener"
    /\ UNCHANGED <<listener, active, starts, server, notHost>>
StopKeepsListener ==
    /\ host = "close listener"
    /\ host' = IF active THEN "close connection" ELSE "join"
    /\ UNCHANGED <<running, listener, active, starts, server, notHost>>
StopCloses ==
    /\ host = "close listener"
    /\ listener' = IF listener = "open" THEN "closed" ELSE listener
    /\ peer' = Refused
    /\ host' = IF active THEN "close connection" ELSE "join"
    /\ UNCHANGED <<running, active, starts, socket, inbox, server, idle, ctl, owner, command, pub, events>>

\* TcpConnection::close.  The sinks' messages to it go nowhere from now on.
CloseSocket == socket' = IF socket = "open" THEN "closed" ELSE socket
StopDisconnects ==
    /\ host = "close connection"
    /\ CloseSocket
    /\ host' = "join"
    /\ UNCHANGED <<running, listener, active, starts, peer, inbox, idle, server, ctl, owner, command, pub, events>>
StopJoins ==
    /\ host = "join" /\ server \in {"none", "ended"}
    /\ active' = FALSE /\ server' = "none"
    /\ host' = "idle"
    /\ UNCHANGED <<running, listener, starts, notHost>>

------------------------------------------------------------------------------
(* The peer *)

notPeer == <<life, socket, idle, server, ctl, owner, command, pub, events>>

Connect ==
    /\ peer = "away" /\ listener = "open"
    /\ peer' = "waiting"
    /\ UNCHANGED <<inbox, notPeer>>
Send(frame) ==
    /\ peer = "connected" /\ Len(inbox) < MaxInbox
    /\ inbox' = Append(inbox, frame)
    /\ UNCHANGED <<peer, notPeer>>
HangUp ==
    /\ peer = "connected"
    /\ peer' = "gone"
    /\ UNCHANGED <<inbox, notPeer>>

------------------------------------------------------------------------------
(* The server's thread: run and serve *)

notServer == <<host, starts, listener>>
Goto(place) == server' = place
At(place) == server = place /\ Published("server")

Loop ==
    /\ At("loop")
    /\ Goto(IF running THEN "accept" ELSE "ended")
    /\ UNCHANGED <<life, wire, idle, ctl, owner, command, pub, events>>
\* accept fails or throws: the thread ends, and leaves the listener as it is.
AcceptFails ==
    /\ At("accept")
    /\ running' = FALSE
    /\ Goto("ended")
    /\ UNCHANGED <<active, notServer, wire, idle, ctl, owner, command, pub, events>>
\* accept returns a connection; once the listener is closed it can only fail.
Accept ==
    \/ /\ At("accept") /\ listener = "open" /\ peer = "waiting"
       /\ socket' = "open" /\ peer' = "connected"
       /\ Goto("accepted")
       /\ UNCHANGED <<life, inbox, idle, ctl, owner, command, pub, events>>
    \/ listener # "open" /\ AcceptFails
PublishLater ==
    /\ At("accepted")
    /\ Goto("hello")
    /\ UNCHANGED <<life, wire, idle, ctl, owner, command, pub, events>>
\* The connection is published under the mutex that stop takes.
PublishConnection ==
    /\ At("accepted")
    /\ active' = TRUE
    /\ Goto("hello")
    /\ UNCHANGED <<running, notServer, wire, idle, ctl, owner, command, pub, events>>
\* Memory runs out for the Connection: its socket is closed, the loop goes on.
NoConnection ==
    /\ At("accepted")
    /\ socket' = "none" /\ peer' = "away" /\ inbox' = <<>>
    /\ Goto("loop")
    /\ UNCHANGED <<life, idle, ctl, owner, command, pub, events>>

serving == <<life, ctl, owner, command, pub, events>>

\* The receive that waits ends without a frame: the connection was closed at
\* one end, or its timeout is over.
ReceivesNothing == socket # "open" \/ inbox = <<>>

\* setTimeouts, which fails if the connection is closed, and the first frame:
\* a peer that says nothing, or no hello, or the wrong token, is let go.
Hello ==
    /\ At("hello")
    /\ \/ /\ socket = "open" /\ inbox # <<>>
          /\ inbox' = Tail(inbox)
          /\ Goto(IF Head(inbox) = "hello" THEN "policy" ELSE "close")
       \/ /\ ReceivesNothing
          /\ Goto("close") /\ UNCHANGED inbox
    /\ UNCHANGED <<serving, socket, peer, idle>>

WritePolicy ==
    /\ At("policy")
    /\ IF PolicyMayChange(ctl)
       THEN ctl' = configureWritePolicy(ctl, "remote") /\ Goto("attach")
       ELSE UNCHANGED ctl /\ Goto("close")
    /\ UNCHANGED <<life, wire, idle, owner, command, pub, events>>
AttachSession ==
    /\ At("attach")
    /\ IF ctl.session # "none"
       THEN Goto("reset policy") /\ UNCHANGED <<ctl, pub, events>>
       ELSE /\ ctl' = Attached(ctl, "remote")
            /\ UNCHANGED events
            /\ Publish("server", "remote", Attached(ctl, "remote"))
            /\ Goto("configure")
    /\ UNCHANGED <<life, wire, idle, owner, command>>
ConfigurationDone ==
    /\ At("configure")
    /\ LET configured == [ctl EXCEPT !.state = "running"]
       IN IF ctl.session # "none" /\ ctl.state = "starting"
          THEN ctl' = configured /\ Publish("server", ctl.session, configured) /\ Goto("ack")
          ELSE UNCHANGED <<ctl, pub>> /\ Goto("disconnect")
    /\ UNCHANGED <<life, wire, idle, owner, command, events>>
\* The peer may select a state that does not exist, or not get the answer.
Acknowledge ==
    /\ At("ack")
    /\ \E found \in BOOLEAN, sent \in Sends : Goto(IF found /\ sent THEN "serve" ELSE "disconnect")
    /\ idle' = 0
    /\ UNCHANGED <<serving, wire>>

ServeSilenceForever ==
    /\ At("serve") /\ running /\ ReceivesNothing
    /\ Goto(IF socket # "open" \/ peer # "connected" THEN "disconnect" ELSE "serve")
    /\ UNCHANGED <<serving, wire, idle>>
\* One round of the loop, in which nothing arrives ...
ServeSilence ==
    /\ At("serve") /\ running /\ ReceivesNothing
    /\ LET over == socket # "open" \/ peer # "connected" \/ idle + 1 >= MaxIdle
       IN \E sent \in Sends :
            /\ idle' = IF over \/ ~sent THEN 0 ELSE idle + 1
            /\ Goto(IF over \/ ~sent THEN "disconnect" ELSE "serve")
    /\ UNCHANGED <<serving, wire>>
\* ... or a frame does, which may have been received before stop closed the
\* connection.
ServeFrame ==
    /\ At("serve") /\ running /\ inbox # <<>>
    /\ inbox' = Tail(inbox) /\ idle' = 0
    /\ LET frame == Head(inbox)
       IN Goto(IF frame = "ping" THEN "serve" ELSE IF frame \in Requests THEN frame ELSE "disconnect")
    /\ UNCHANGED <<serving, socket, peer>>
ServeStopped ==
    /\ At("serve") /\ ~running
    /\ Goto("disconnect")
    /\ UNCHANGED <<serving, wire, idle>>

\* Every request is answered in the round that serves it.
ChangesState(from, s) ==
    /\ IF ctl.session # "none" /\ ctl.state = from
       THEN ctl' = s /\ Publish("server", ctl.session, s) ELSE UNCHANGED <<ctl, pub>>
    /\ Goto("serve")
    /\ UNCHANGED <<life, wire, idle, owner, events>>
Pause == At("pause") /\ ChangesState("running", [ctl EXCEPT !.state = "pauseRequested"]) /\ UNCHANGED command
\* continueExecution and stepExecution
Continue ==
    /\ At("continue")
    /\ ChangesState("suspended", [ctl EXCEPT !.state = "resumeRequested"])
    /\ command' = IF ctl.state = "suspended" THEN Cancelled ELSE command
\* stackTrace, scopes, variables, evaluate, setVariable: the owner answers, or
\* the pause ends, or five seconds pass.
Inspect ==
    /\ At("inspect")
    /\ IF ctl.session # "none" /\ ctl.state = "suspended"
       THEN command' = "queued" /\ Goto("inspecting") ELSE UNCHANGED command /\ Goto("serve")
    /\ UNCHANGED <<life, wire, idle, ctl, owner, pub, events>>
Inspected ==
    /\ At("inspecting")
    /\ command' = "none"
    /\ Goto("serve")
    /\ UNCHANGED <<life, wire, idle, ctl, owner, pub, events>>
Disconnected(action) ==
    /\ IF ctl.session = "remote"
       THEN /\ ctl' = Detached(ctl, action)
            /\ Publish("server", "remote", Detached(ctl, action))
            /\ command' = Cancelled
       ELSE UNCHANGED <<ctl, pub, command>>
    /\ Goto("reset policy")
    /\ UNCHANGED <<life, wire, idle, owner, events>>
\* Detach is answered before the session ends; any other end of the loop, and
\* a handshake that fails after attachSession, ends it as configured.
Detach ==
    \/ At("leave") /\ Disconnected("continue")
    \/ At("kill") /\ Disconnected("terminate")
Disconnect == At("disconnect") /\ Disconnected(Disconnecting)

\* An exception leaves serve, through the destructors of what it has by then.
Unwound(place) ==
    CASE place \in {"hello", "policy"} -> "close"
      [] place = "attach" -> "reset policy"
      [] OTHER -> "disconnect"
ServeThrows ==
    /\ server \in {"hello", "policy", "attach", "configure", "ack", "serve"} \cup Requests
    /\ Published("server")
    /\ Goto(Unwound(server))
    /\ UNCHANGED <<serving, wire, idle>>

\* ~ResetWritePolicy
ResetPolicy ==
    /\ At("reset policy")
    /\ ctl' = configureWritePolicy(ctl, "none")
    /\ Goto("close")
    /\ UNCHANGED <<life, wire, idle, owner, command, pub, events>>
\* The connection ends for its peer and its sink; what a thread has yet to
\* tell that sink has nowhere to go.
CloseConnection ==
    /\ At("close")
    /\ CloseSocket
    /\ pub' = [u \in Threads |-> Nothing]
    /\ sink' = NewSink /\ view' = "unknown"
    /\ Goto("unpublish")
    /\ UNCHANGED <<life, peer, inbox, idle, ctl, owner, command>>
UnpublishConnection ==
    /\ At("unpublish")
    /\ active' = FALSE /\ socket' = "none" /\ inbox' = <<>>
    /\ peer' = "away" /\ idle' = 0
    /\ Goto("loop")
    /\ UNCHANGED <<running, notServer, ctl, owner, command, pub, events>>
------------------------------------------------------------------------------
(* The owner: the thread that runs the program, which ends once *)

ownerOnly == <<life, wire, idle, server, events>>
OwnerAt(place) == owner = place /\ Published("owner")

\* waitForSafepointRequest, for a pause request or at a breakpoint.
Suspend ==
    /\ OwnerAt("lua") /\ ~ctl.terminate
    /\ ctl.session # "none" /\ ctl.state \in {"pauseRequested", "running"} /\ ctl.gen < MaxPauses
    /\ LET s == [ctl EXCEPT !.state = "suspended", !.gen = @ + 1]
       IN ctl' = s /\ Publish("owner", ctl.session, s)
    /\ owner' = "blocked"
    /\ UNCHANGED <<ownerOnly, command>>
Answer ==
    /\ OwnerAt("blocked")
    /\ ctl.state = "suspended" /\ ~ctl.terminate /\ command = "queued"
    /\ command' = "done"
    /\ UNCHANGED <<ownerOnly, ctl, owner, pub>>
Wake ==
    /\ OwnerAt("blocked")
    /\ ctl.state # "suspended" \/ ctl.terminate
    /\ LET s == [ctl EXCEPT !.state = "running"]
       IN IF ctl.state = "resumeRequested" /\ ~ctl.terminate
          THEN ctl' = s /\ Publish("owner", ctl.session, s) ELSE UNCHANGED <<ctl, pub>>
    /\ owner' = "lua"
    /\ UNCHANGED <<ownerOnly, command>>
\* The program completes, fails or sees the request to terminate:
\* notifyProgramTerminated.
Ends ==
    /\ OwnerAt("lua")
    /\ LET s == [ctl EXCEPT !.state = "terminated"]
       IN IF ctl.state # "terminated"
          THEN ctl' = s /\ Publish("owner", ctl.session, s) /\ command' = Cancelled
          ELSE UNCHANGED <<ctl, pub, command>>
    /\ owner' = "ended"
    /\ UNCHANGED ownerOnly

------------------------------------------------------------------------------
(* A client in the host process *)

LocalChanges(s) == ctl' = s /\ UNCHANGED <<life, wire, idle, server, owner, pub, events>>
LocalAttach ==
    /\ Shared /\ ctl.session = "none"
    /\ LocalChanges(Attached(ctl, "local")) /\ UNCHANGED command
LocalConfigured ==
    /\ ctl.session = "local" /\ ctl.state = "starting"
    /\ LocalChanges([ctl EXCEPT !.state = "running"]) /\ UNCHANGED command
LocalDetach ==
    /\ ctl.session = "local"
    /\ LocalChanges(Detached(ctl, "continue")) /\ command' = Cancelled

------------------------------------------------------------------------------
Handshake ==
    Loop \/ Accept \/ PublishConnection \/ Hello \/ WritePolicy \/ AttachSession \/ ConfigurationDone
    \/ Acknowledge
Serving ==
    ServeSilence \/ ServeFrame \/ ServeStopped \/ Pause \/ Continue \/ Inspect \/ Inspected \/ Detach
Leaving == Disconnect \/ ResetPolicy \/ CloseConnection \/ UnpublishConnection
Server == Handshake \/ Serving \/ Leaving
Failing == AcceptFails \/ NoConnection \/ ServeThrows
Stopping == StopCloses \/ StopDisconnects \/ StopJoins
Peer == Connect \/ HangUp \/ \E frame \in Frames : Send(frame)
Owner == Suspend \/ Answer \/ Wake \/ Ends
Local == LocalAttach \/ LocalConfigured \/ LocalDetach
Publishing == \E t \in Threads : TellSink(t) \/ StoreState(t)

Next == Start \/ StartFails \/ Stop \/ Stopping \/ Peer \/ Server \/ Failing \/ Owner \/ Local \/ Publishing

\* Threads go on, waits of the server's thread end (each has a timeout), and
\* the owner wakes; what the host, the peer and the program do is up to them,
\* and nothing has to fail.
Fairness ==
    /\ WF_vars(Stopping) /\ WF_vars(Server) /\ WF_vars(Wake)
    /\ \A t \in Threads : WF_vars(TellSink(t) \/ StoreState(t))

Spec == Init /\ [][Next]_vars
FairSpec == Spec /\ Fairness

------------------------------------------------------------------------------
(* Properties *)

Places ==
    {"none", "loop", "accept", "accepted", "hello", "policy", "attach", "configure", "ack", "serve",
     "inspecting", "disconnect", "reset policy", "close", "unpublish", "ended"} \cup Requests

\* Types; the session of the peer exists only while its connection is served.
TypeOK ==
    /\ running \in BOOLEAN /\ active \in BOOLEAN
    /\ listener \in {"none", "open", "closed"} /\ socket \in {"none", "open", "closed"}
    /\ server \in Places
    /\ host \in {"idle", "close listener", "close connection", "join"}
    /\ peer \in {"away", "waiting", "connected", "gone"} /\ Len(inbox) <= MaxInbox
    /\ idle \in 0 .. MaxIdle
    /\ ctl.session \in {"none", "remote", "local"}
    /\ owner \in {"lua", "blocked", "ended"}
    /\ ctl.session = "remote" => active /\ server \notin {"none", "loop", "accept", "accepted", "hello", "ended"}

\* stop returns, whatever the connection, the peer and the program are doing,
\* and whether or not it saw the connection.
StopReturns == host # "idle" ~> host = "idle"

\* A peer that is gone or stays silent loses its session, and the program
\* does not stay suspended for it.
SessionsEnd ==
    /\ ctl.session = "remote" ~> ctl.session # "remote" \/ inbox # <<>>
    /\ peer = "gone" /\ owner = "blocked" ~> owner # "blocked" \/ ctl.session = "local"

\* The rights that the configuration gives to the peer end with its session,
\* however it ends (~ResetWritePolicy), if no other client has the controller.
PolicyOfPeer ==
    ctl.policy = "remote" =>
        server \notin {"none", "loop", "accept", "accepted", "hello", "close", "unpublish", "ended"}

\* While the end of the session has not been reported, a program is reported
\* to go on only after it was reported to be stopped.
ContinuedAfterStopped ==
    [][view' = "running" /\ view # "running" => view = "stopped" \/ sink.terminated]_vars

\* Nothing follows the report that the program has ended.
TerminatedIsLast == [][view = "terminated" => view' \in {"terminated", "unknown"}]_vars

\* The peer learns that the program goes on.
ResumeAnnounced == (view = "stopped" /\ ctl.state = "running") ~> (view # "stopped" \/ ctl.state # "running")
=============================================================================

----------------------------- MODULE RemoteLink -----------------------------
(* A federation link: back/src/tools/RemoteChannel.ts on the home side, one  *)
(* WebSocket, and the part of the member's core (back/src/index.ts) that     *)
(* answers it.  The socket is FIFO and may be closed or silently cut; the    *)
(* member may uninstall, install, upgrade or reload the channel's plugin, or *)
(* restart its core, at any time.  Delays (backoff, probe cadence) are not   *)
(* modelled: a timer that is armed may fire at any time.                     *)
EXTENDS Integers, Sequences, FiniteSets

CONSTANTS
    Msgs,        \* the commands the consumer sends through the handle, each once
    Instances,   \* the ids a member may assign (uuid())
    NoInstance,  \* '' on the wire and in the client
    ReplayMax,   \* REPLAY_MAX
    WireMax,     \* bound: the watchdog adds no START to a wire this long
    Faults,      \* what may go wrong, a subset of AllFaults
    MaxFaults,   \* bound on how many times something goes wrong
    SendsWhen,   \* the states in which the consumer sends (callers queue otherwise)
    Answers      \* how a START is answered, a subset of {"now", "later"} (see Accept)

AllFaults == {"close", "cut", "uninstall", "upgrade", "reload", "restart"}

ASSUME InstancesAssumption == NoInstance \notin Instances
ASSUME ReplayMaxAssumption == ReplayMax \in Nat \ {0}
ASSUME BoundsAssumption == WireMax \in Nat /\ MaxFaults \in Nat
ASSUME LinkFaultsAssumption == Faults \subseteq AllFaults
ASSUME AnswersAssumption == Answers \subseteq {"now", "later"}

VARIABLES
    sock,      \* ws.readyState: "connecting", "open", "closing" or "closed"
    closed,    \* the consumer called close()
    state,     \* the last state the consumer was notified of
    instance,  \* instanceId
    watchdog,  \* startAckTimer is pending
    retry,     \* retryTimer is pending
    awaiting,  \* awaitingPong
    gone,      \* channelGone
    sent,      \* sentWithInstance
    replay     \* replayPending

VARIABLES
    up,        \* what the home has written and the member has not read
    down,      \* what the member has written and the home has not read
    cut        \* nothing gets through any more, and neither side knows

VARIABLES
    serving,   \* ri.channels.has(channel)
    begun,     \* STARTs accepted whose answer awaits the cluster
    watching,  \* instances answered whose objects are added as pods show up
    regs,      \* instances the channel knows on this socket
    faults,    \* how many things have gone wrong
    todo       \* commands the consumer has not sent

client == <<sock, closed, state, instance, watchdog, retry, awaiting, gone, sent, replay>>
wire == <<up, down, cut>>
member == <<serving, begun, watching, regs>>
vars == <<client, wire, member, faults, todo>>

Start == [type |-> "start", msg |-> "none", inst |-> NoInstance]
Command(m, i) == [type |-> "command", msg |-> m, inst |-> i]
Started(i) == [type |-> "started", msg |-> "none", inst |-> i]
Refused(t, m, i) == [type |-> t, msg |-> m, inst |-> i]

Init ==
    /\ sock = "connecting" /\ closed = FALSE /\ state = "none" /\ instance = NoInstance
    /\ watchdog = FALSE /\ retry = FALSE /\ awaiting = FALSE /\ gone = FALSE
    /\ sent = <<>> /\ replay = FALSE
    /\ up = <<>> /\ down = <<>> /\ cut = FALSE
    /\ serving \in BOOLEAN /\ begun = 0 /\ watching = {} /\ regs = {}
    /\ faults = 0 /\ todo = Msgs

-----------------------------------------------------------------------------
(* The home: RemoteChannel.ts.                                               *)

(* Something goes wrong.                                                     *)
Fault(kind) == kind \in Faults /\ faults < MaxFaults /\ faults' = faults + 1

(* What a write leaves on a wire: nothing more when the wire is cut.         *)
Put(w, msgs) == IF cut THEN w ELSE w \o msgs

(* sendStart: the START goes out and the watchdog is armed.                  *)
CanStart == ~ closed /\ sock = "open"
StartSent == up' = Put(up, <<Start>>) /\ watchdog' = TRUE

(* sock.on('open')                                                           *)
OnOpen ==
    /\ sock = "connecting"
    /\ sock' = "open"
    /\ instance' = NoInstance
    /\ gone' = FALSE
    /\ StartSent
    /\ state' = "HANDSHAKING"
    /\ awaiting' = FALSE
    /\ UNCHANGED <<closed, retry, sent, replay, down, cut, member, faults, todo>>

(* The timer of armStartWatchdog: `if (!instanceId) sendStart()`.            *)
OnWatchdog ==
    /\ watchdog
    /\ Len(up) + Len(down) + begun < WireMax
    /\ IF instance = NoInstance /\ CanStart
         THEN StartSent
         ELSE watchdog' = FALSE /\ up' = up
    /\ UNCHANGED <<sock, closed, state, instance, retry, awaiting, gone, sent, replay,
                   down, cut, member, faults, todo>>

(* The timer of scheduleRetry, and connect(): the constructor of the socket  *)
(* may throw, and then the retry is scheduled again.                         *)
OnRetry ==
    /\ retry
    /\ \/ sock' = "connecting" /\ retry' = FALSE /\ faults' = faults
       \/ Fault("close") /\ UNCHANGED <<sock, retry>>
    /\ UNCHANGED <<closed, state, instance, watchdog, awaiting, gone, sent, replay,
                   wire, member, todo>>

(* Bug: the tick pings again whether or not the last pong came back.         *)
OnKeepalivePingOnly ==
    /\ sock = "open"
    /\ ~ awaiting
    /\ awaiting' = TRUE
    /\ UNCHANGED <<sock, closed, state, instance, watchdog, retry, gone, sent, replay,
                   wire, member, faults, todo>>

(* The tick of the keepalive interval: a ping is sent, or, when the last one *)
(* was not answered, the connection is terminated.  A pong of a live wire is *)
(* back within the interval unless something goes wrong.                     *)
OnKeepalive ==
    /\ sock = "open"
    /\ \/ ~ awaiting /\ awaiting' = TRUE /\ UNCHANGED <<sock, faults>>
       \/ /\ awaiting
          /\ sock' = "closing"
          /\ \/ cut /\ faults' = faults
             \/ ~ cut /\ Fault("close")
          /\ UNCHANGED awaiting
    /\ UNCHANGED <<closed, state, instance, watchdog, retry, gone, sent, replay,
                   wire, member, todo>>

OnPong ==
    /\ sock = "open" /\ awaiting /\ ~ cut
    /\ awaiting' = FALSE
    /\ UNCHANGED <<sock, closed, state, instance, watchdog, retry, gone, sent, replay,
                   wire, member, faults, todo>>

(* The socket of this link is over on both sides, with what was on it, and   *)
(* the member drops what it had registered for it (cleanupNonReconnectable). *)
SocketOver ==
    /\ up' = <<>> /\ down' = <<>> /\ cut' = FALSE
    /\ begun' = 0 /\ watching' = {} /\ regs' = {}

(* Bug: the close is reported, and no retry is scheduled.                    *)
OnCloseForGood ==
    /\ sock' = "closed"
    /\ awaiting' = FALSE
    /\ watchdog' = FALSE
    /\ state' = "RECONNECTING"
    /\ SocketOver
    /\ UNCHANGED <<closed, instance, retry, gone, sent, replay, todo>>

(* sock.on('close'), which 'error' is always followed by.                    *)
OnClose ==
    /\ sock' = "closed"
    /\ awaiting' = FALSE
    /\ watchdog' = FALSE
    /\ state' = "RECONNECTING"
    /\ retry' = TRUE
    /\ SocketOver
    /\ UNCHANGED <<closed, instance, gone, sent, replay, todo>>

(* Bugs: what is sent is not remembered; it is, and without a bound.         *)
RememberedNever(m) == sent
RememberedAll(m) == IF instance = NoInstance THEN sent ELSE Append(sent, m)

(* handle.send                                                               *)
Remembered(m) ==
    IF instance = NoInstance THEN sent
    ELSE IF Len(sent) < ReplayMax THEN Append(sent, m) ELSE Append(Tail(sent), m)

Send(m) ==
    /\ m \in todo
    /\ state \in SendsWhen
    /\ todo' = todo \ {m}
    /\ IF sock = "open"
         THEN up' = Put(up, <<Command(m, instance)>>) /\ sent' = Remembered(m)
         ELSE UNCHANGED <<up, sent>>
    /\ UNCHANGED <<sock, closed, state, instance, watchdog, retry, awaiting, gone, replay,
                   down, cut, member, faults>>

(* Bug: close() leaves the pending retry armed.                              *)
CloseKeepingRetry ==
    /\ ~ closed
    /\ closed' = TRUE
    /\ sock' = "closed" /\ awaiting' = FALSE /\ watchdog' = FALSE
    /\ state' = "DOWN"
    /\ SocketOver
    /\ UNCHANGED <<instance, retry, gone, sent, replay, serving, faults, todo>>

(* Bug: close() leaves the listeners on, and the close event comes after it. *)
CloseKeepingListeners ==
    /\ ~ closed
    /\ closed' = TRUE
    /\ sock' = "closing" /\ awaiting' = FALSE /\ watchdog' = FALSE /\ retry' = FALSE
    /\ state' = "DOWN"
    /\ SocketOver
    /\ UNCHANGED <<instance, gone, sent, replay, serving, faults, todo>>

(* handle.close                                                              *)
Close ==
    /\ ~ closed
    /\ closed' = TRUE
    /\ sock' = "closed" /\ awaiting' = FALSE /\ watchdog' = FALSE /\ retry' = FALSE
    /\ state' = "DOWN"
    /\ SocketOver
    /\ UNCHANGED <<instance, gone, sent, replay, serving, faults, todo>>

-----------------------------------------------------------------------------
(* sock.on('message')                                                        *)

Receive(type) ==
    /\ sock = "open"
    /\ down # <<>>
    /\ Head(down).type = type
    /\ down' = Tail(down)
    /\ UNCHANGED <<sock, closed, retry, awaiting, cut, member, faults, todo>>

(* The START RESPONSE with an instance: operational, and what the instance   *)
(* before it was refused is sent again; otherwise what was sent is forgotten.*)
OnStarted ==
    /\ Receive("started")
    /\ instance' = Head(down).inst
    /\ watchdog' = FALSE
    /\ gone' = FALSE
    /\ state' = "CONNECTED"
    /\ up' = IF replay THEN Put(up, [n \in 1..Len(sent) |-> Command(sent[n], instance')]) ELSE up
    /\ sent' = <<>>
    /\ replay' = FALSE

(* Bug: a refused START is not probed again.                                 *)
OnStartRefusedForGood ==
    /\ Receive("startRefused")
    /\ gone' = TRUE
    /\ state' = IF gone THEN state ELSE "HANDSHAKING"
    /\ watchdog' = FALSE
    /\ UNCHANGED <<instance, sent, replay, up>>

(* The START RESPONSE without an instance and CHANNEL_UNSUPPORTED.           *)
OnStartRefused ==
    /\ Receive("startRefused")
    /\ gone' = TRUE
    /\ state' = IF gone THEN state ELSE "HANDSHAKING"
    /\ watchdog' = TRUE
    /\ UNCHANGED <<instance, sent, replay, up>>

(* Any other START RESPONSE without an instance is only traced.              *)
OnStartDenied ==
    /\ Receive("startDenied")
    /\ UNCHANGED <<state, instance, watchdog, gone, sent, replay, up>>

(* INSTANCE_UNKNOWN: the handshake is done again over the same socket.       *)
OnInstanceUnknown ==
    /\ Receive("unknown")
    /\ instance' = NoInstance
    /\ replay' = (sent # <<>>)
    /\ state' = "HANDSHAKING"
    /\ StartSent
    /\ UNCHANGED <<gone, sent>>

(* Bug: the instance is dropped, and the consumer goes on seeing CONNECTED.  *)
OnUnsupportedSilent ==
    /\ Receive("unsupported")
    /\ instance' = NoInstance
    /\ replay' = (replay \/ sent # <<>>)
    /\ gone' = TRUE
    /\ watchdog' = TRUE
    /\ UNCHANGED <<state, sent, up>>

(* CHANNEL_UNSUPPORTED, as the answer to a command or pushed on uninstall.   *)
OnUnsupported ==
    /\ Receive("unsupported")
    /\ instance' = NoInstance
    /\ replay' = (replay \/ sent # <<>>)
    /\ gone' = TRUE
    /\ state' = IF gone THEN state ELSE "HANDSHAKING"
    /\ watchdog' = TRUE
    /\ UNCHANGED <<sent, up>>

OnMessage == OnStarted \/ OnStartRefused \/ OnStartDenied \/ OnInstanceUnknown \/ OnUnsupported

-----------------------------------------------------------------------------
(* The member: processClientMessage and what it calls, in back/src/index.ts. *)

MemberReads(type) ==
    /\ up # <<>>
    /\ Head(up).type = type
    /\ up' = Tail(up)
    /\ UNCHANGED <<client, cut, serving, faults, todo>>

(* A uuid is never one that is in use anywhere.                              *)
InUse ==
    {instance} \cup regs \cup watching
      \cup {up[n].inst : n \in 1..Len(up)} \cup {down[n].inst : n \in 1..Len(down)}
Fresh == Instances \ InUse

(* The channel is looked up before anything else, so a START for one that is *)
(* not there is answered with CHANNEL_UNSUPPORTED.                           *)
RefuseStart ==
    /\ MemberReads("start")
    /\ ~ serving
    /\ down' = Put(down, <<Refused("startRefused", "none", NoInstance)>>)
    /\ UNCHANGED <<begun, watching, regs>>

(* A START that awaits nothing (autonomous channel, or the cluster view): it *)
(* is answered, and addObject registers the instance, in the same turn.      *)
AcceptStart ==
    /\ MemberReads("start")
    /\ serving /\ "now" \in Answers
    /\ \E i \in Fresh :
         /\ down' = Put(down, <<Started(i)>>)
         /\ regs' = regs \cup {i}
    /\ UNCHANGED <<begun, watching>>

(* A START for the other views awaits the cluster before it is answered.     *)
SuspendStart ==
    /\ MemberReads("start")
    /\ serving /\ "later" \in Answers
    /\ begun' = begun + 1
    /\ UNCHANGED <<down, watching, regs>>

(* The cluster answers.  Nobody looks again whether the channel is there:    *)
(* the START is denied, or an instance is assigned and its objects watched.  *)
Accept ==
    /\ begun > 0
    /\ begun' = begun - 1
    /\ \/ /\ down' = Put(down, <<Refused("startDenied", "none", NoInstance)>>)
          /\ watching' = watching
       \/ \E i \in Fresh :
            /\ down' = Put(down, <<Started(i)>>)
            /\ watching' = watching \cup {i}
    /\ UNCHANGED <<client, up, cut, serving, regs, faults, todo>>

(* The watch reports a pod: addObject registers the instance with whatever   *)
(* channel is there by then.                                                 *)
AddObject(i) ==
    /\ i \in watching \ regs
    /\ serving
    /\ regs' = regs \cup {i}
    /\ UNCHANGED <<client, wire, serving, begun, watching, faults, todo>>

(* A command: processClientMessage refuses it when the channel is not there, *)
(* processChannelCommand when the channel does not know the instance.        *)
TakeCommand ==
    /\ MemberReads("command")
    /\ LET m == Head(up).msg
           i == Head(up).inst
       IN  \/ /\ ~ serving
              /\ down' = Put(down, <<Refused("unsupported", m, i)>>)
           \/ /\ serving /\ i \notin regs
              /\ down' = Put(down, <<Refused("unknown", m, i)>>)
           \/ /\ serving /\ i \in regs
              /\ down' = down
    /\ UNCHANGED <<begun, watching, regs>>

-----------------------------------------------------------------------------
(* What happens to the socket and to the member's plugin.                    *)

SocketCloses ==
    /\ sock \in {"connecting", "open"}
    /\ Fault("close")
    /\ OnClose
    /\ UNCHANGED serving

(* terminate() destroyed the socket, and its close event arrives.            *)
Terminated ==
    /\ sock = "closing"
    /\ OnClose
    /\ UNCHANGED <<serving, faults>>

(* A load balancer drops the connection without telling either side.         *)
Cut ==
    /\ sock = "open" /\ ~ cut
    /\ Fault("cut")
    /\ cut' = TRUE /\ up' = <<>> /\ down' = <<>>
    /\ UNCHANGED <<client, member, todo>>

(* The member closes the socket; over a cut wire the home does not see it.   *)
MemberCloses ==
    \/ ~ cut /\ sock \in {"connecting", "open"} /\ OnClose
    \/ /\ cut \/ sock \notin {"connecting", "open"}
       /\ begun' = 0 /\ watching' = {} /\ regs' = {}
       /\ UNCHANGED <<client, wire, todo>>

(* The plugin is uninstalled: its connections are told, then it is dropped.  *)
Uninstall ==
    /\ serving
    /\ Fault("uninstall")
    /\ serving' = FALSE
    /\ regs' = {}
    /\ down' = IF regs # {} THEN Put(down, <<Refused("unsupported", "none", NoInstance)>>) ELSE down
    /\ UNCHANGED <<client, up, cut, begun, watching, todo>>

(* The plugin is installed, or the core has finished starting it.            *)
Install ==
    /\ ~ serving
    /\ serving' = TRUE
    /\ UNCHANGED <<client, wire, begun, watching, regs, faults, todo>>

(* A newer version over the running one: the channel object is replaced by   *)
(* one that knows no instance, and nobody is told.                           *)
Upgrade ==
    /\ serving
    /\ Fault("upgrade")
    /\ regs' = {}
    /\ UNCHANGED <<client, wire, serving, begun, watching, todo>>

(* A hot reload also replaces it, and then closes the sockets it served.     *)
Reload ==
    /\ serving /\ regs # {}
    /\ Fault("reload")
    /\ MemberCloses
    /\ UNCHANGED serving

(* The core restarts: it accepts sockets before its plugins are started.     *)
Restart ==
    /\ Fault("restart")
    /\ serving' = FALSE
    /\ MemberCloses

-----------------------------------------------------------------------------

Timers == OnWatchdog \/ OnRetry \/ OnKeepalive
Network == OnOpen \/ OnPong \/ Terminated
Member ==
    \/ RefuseStart \/ AcceptStart \/ SuspendStart \/ Accept \/ TakeCommand
    \/ \E i \in Instances : AddObject(i)
Trouble == SocketCloses \/ Cut \/ Uninstall \/ Upgrade \/ Reload \/ Restart

(* A closed link does nothing more.                                          *)
Over == closed /\ UNCHANGED vars

Next ==
    \/ Timers \/ Network \/ OnMessage \/ Member \/ Install \/ Trouble
    \/ \E m \in Msgs : Send(m)
    \/ Close \/ Over

(* Timers fire, what is on a live wire arrives, a dial is answered, and an   *)
(* uninstalled plugin is installed again some day.                           *)
Fairness ==
    /\ WF_vars(OnWatchdog) /\ WF_vars(OnRetry) /\ WF_vars(OnKeepalive)
    /\ WF_vars(OnOpen) /\ WF_vars(OnPong) /\ WF_vars(Terminated)
    /\ WF_vars(OnMessage) /\ WF_vars(Member) /\ WF_vars(Install)

Spec == Init /\ [][Next]_vars
FairSpec == Spec /\ Fairness

-----------------------------------------------------------------------------

Messages == [type : {"start", "command", "started", "startRefused", "startDenied",
                     "unknown", "unsupported"},
             msg : Msgs \cup {"none"}, inst : Instances \cup {NoInstance}]

FlagsOK ==
    /\ closed \in BOOLEAN /\ watchdog \in BOOLEAN /\ retry \in BOOLEAN
    /\ awaiting \in BOOLEAN /\ gone \in BOOLEAN /\ replay \in BOOLEAN
    /\ cut \in BOOLEAN /\ serving \in BOOLEAN

HomeOK ==
    /\ sock \in {"connecting", "open", "closing", "closed"}
    /\ state \in {"none", "HANDSHAKING", "CONNECTED", "RECONNECTING", "DOWN"}
    /\ instance \in Instances \cup {NoInstance}
    /\ sent \in Seq(Msgs) /\ Len(sent) <= ReplayMax

WireOK == up \in Seq(Messages) /\ down \in Seq(Messages)

MemberOK ==
    /\ begun \in Nat
    /\ watching \subseteq Instances /\ regs \subseteq Instances
    /\ faults \in Nat /\ todo \subseteq Msgs

(* The types of the link's state; sentWithInstance stays within REPLAY_MAX.  *)
TypeOK == FlagsOK /\ HomeOK /\ WireOK /\ MemberOK

(* CONNECTED is only reported with a socket and an instance, and never for a *)
(* channel the member said it does not have: otherwise callers send instead  *)
(* of queueing (RemoteChannel.ts:97).                                        *)
ConnectedIsOperational ==
    state = "CONNECTED" => sock \in {"open", "closing"} /\ instance # NoInstance /\ ~ gone

(* A link that is not closed by its consumer never stops trying: it has a    *)
(* socket or a retry pending, and an open socket without an instance has the *)
(* START watchdog pending.                                                   *)
NeverGivesUp ==
    /\ ~ closed => (retry <=> sock = "closed")
    /\ sock = "open" /\ instance = NoInstance => watchdog

(* close() is terminal: no timer is left that could dial again, and the      *)
(* consumer's last news is DOWN.                                             *)
CloseIsTerminal ==
    closed => sock = "closed" /\ state = "DOWN" /\ ~ retry /\ ~ watchdog /\ ~ awaiting

(* The state callback follows the progression of IFederation.ts:20: only a   *)
(* handshake leads to CONNECTED, and nothing follows DOWN.                   *)
Progression ==
    [][/\ state' = "CONNECTED" => state \in {"HANDSHAKING", "CONNECTED"}
       /\ state' = "RECONNECTING" => state # "DOWN"
       /\ state = "DOWN" => state' = "DOWN"]_state

(* A command the member refuses for a dead instance or a missing channel can *)
(* still be sent again (RemoteChannel.ts:117): the client remembers it.      *)
RefusedIsRemembered ==
    \A n \in 1..Len(down) :
        down[n].type \in {"unknown", "unsupported"} /\ down[n].inst # NoInstance
          => \E k \in 1..Len(sent) : sent[k] = down[n].msg

(* RemoteChannel.ts:330, the watchdog keeps probing while the link is not    *)
(* operational, which is how it finds out that the plugin is back.           *)
HandshakeIsProbed == sock = "open" /\ state = "HANDSHAKING" => instance = NoInstance /\ watchdog

(* Once things stop going wrong the link comes back on its own: it reports   *)
(* CONNECTED, with an instance the channel at the other end knows.           *)
ComesBack == <>[](closed \/ (state = "CONNECTED" /\ instance \in regs))

(* A dead connection is noticed though nobody is told of it.                 *)
CutIsNoticed == cut ~> ~ cut
=============================================================================

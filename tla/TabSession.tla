----------------------------- MODULE TabSession -----------------------------
(* A tab of the front end and the channel that serves it: the socket of the  *)
(* tab (front/src/App.tsx), the WebSocket server of the core (back/src/      *)
(* index.ts) and the connections of a channel that streams pods, as log,     *)
(* alert and ops keep them.  The channel resumes its instances on another    *)
(* socket (reconnectable) or is started again.  A socket may break, which    *)
(* either end notices when it does, the channel may be hot-reloaded and the  *)
(* core may be restarted, which listens before it has its channels.  The     *)
(* view of the tab is by namespace; timers fire at any time.                 *)
EXTENDS Integers, Sequences, SequencesExt

CONSTANTS
    Socks,      \* sockets; one is used again when nothing refers to it
    NoSock,
    Ids,        \* instance ids (uuid())
    NoId,       \* ''
    Pods,       \* what the view of the tab may select
    First,      \* the pods that are there from the start
    Overlaps,   \* whether a dial may be unanswered when the retry fires again
    Faults,     \* what may go wrong, a subset of TabFaults
    MaxFaults,  \* bound on how many times something goes wrong
    MaxStops    \* bound on how many times the user presses STOP

(* "late": what was on its way to the core when a socket broke still arrives. *)
TabFaults == {"drop", "dial", "reload", "restart", "late"}
Kinds == {"resume", "restart"}

ASSUME SocksAssumption == Socks # {} /\ NoSock \notin Socks /\ NoId \notin Ids
ASSUME PodsAssumption == First \subseteq Pods
ASSUME OverlapsAssumption == Overlaps \in BOOLEAN
ASSUME TabFaultsAssumption == Faults \subseteq TabFaults /\ MaxFaults \in Nat /\ MaxStops \in Nat

VARIABLES
    kind,      \* whether the channel's instances can be resumed
    ws,        \* tab.ws
    inst,      \* tab.channelObject.instanceId
    started,   \* tab.channelStarted
    interval,  \* tab.reconnectRef is retrying
    bound,     \* the sockets that have the tab's handlers
    older      \* dials of an interval that was replaced

VARIABLES
    front,     \* the state of each socket in the browser
    back,      \* and in the core
    up, down,  \* what is on its way on each
    cut        \* the sockets on which nothing arrives any more

VARIABLES
    begun,     \* how many STARTs of each socket await the cluster
    conns,     \* webSockets of the channel: [ws, pods], where pods maps the
               \* instances of the connection to the pods streamed for them
    watch,     \* the pods' watches: which socket and instance each serves
    pods,      \* the pods there are
    serving,   \* the core has the channel, ri.channels.has(id)
    astray     \* history, that no step reads: the last START or RECONNECT to be
               \* answered was denied, or was of a socket the tab had left by then

VARIABLES faults, stops

tab == <<kind, ws, inst, started, interval, bound, older>>
net == <<front, back, up, down, cut>>
core == <<begun, conns, watch, pods, serving, astray>>
bounds == <<faults, stops>>
vars == <<tab, net, core, bounds>>

Message(type, i) == [type |-> type, inst |-> i]
Fault(what) == what \in Faults /\ faults < MaxFaults /\ faults' = faults + 1

(* The tab is open, with its socket and its dialog, and nothing started.     *)
Init ==
    /\ kind \in Kinds
    /\ ws = (CHOOSE s \in Socks : TRUE) /\ inst = NoId /\ started = FALSE /\ interval = FALSE
    /\ bound = {} /\ older = {}
    /\ front = [s \in Socks |-> IF s = ws THEN "open" ELSE "none"]
    /\ back = front
    /\ up = [s \in Socks |-> <<>>] /\ down = [s \in Socks |-> <<>>] /\ cut = {}
    /\ begun = [s \in Socks |-> 0] /\ conns = <<>> /\ watch = {} /\ pods = First
    /\ serving = TRUE /\ astray = FALSE
    /\ faults = 0 /\ stops = 0

Sent(wire, s, m) == IF s \in cut THEN wire ELSE [wire EXCEPT ![s] = Append(@, m)]
IsOpen(s) == s # NoSock /\ front[s] = "open"

-----------------------------------------------------------------------------
(* The tab                                                                   *)

(* startTabChannel, when the socket of the tab is open.                      *)
SendStart ==
    /\ bound' = bound \cup {ws}
    /\ up' = Sent(up, ws, Message("start", NoId))
    /\ started' = TRUE

UserStart ==
    /\ ~ started /\ IsOpen(ws)
    /\ SendStart
    /\ UNCHANGED <<kind, ws, inst, interval, older, front, back, down, cut, core, bounds>>

(* stopTabChannel                                                            *)
StopTab ==
    /\ up' = IF IsOpen(ws) THEN Sent(up, ws, Message("stop", inst)) ELSE up
    /\ started' = FALSE

UserStop ==
    /\ started /\ stops < MaxStops
    /\ stops' = stops + 1
    /\ StopTab
    /\ UNCHANGED <<kind, ws, inst, interval, bound, older, front, back, down, cut, core, faults>>

(* Bug: only the sockets of a channel that resumes are retried.              *)
OnCloseGivingUp(s) ==
    /\ front[s] = "open" /\ s \in cut
    /\ front' = [front EXCEPT ![s] = "closed"]
    /\ down' = [down EXCEPT ![s] = <<>>]
    /\ IF s = ws /\ s \in bound
         THEN /\ bound' = bound \ {s}
              /\ ws' = NoSock
              /\ interval' = (kind = "resume")
              /\ older' = {d \in Socks : front[d] = "dialing"}
         ELSE UNCHANGED <<bound, ws, interval, older>>
    /\ UNCHANGED <<kind, inst, started, back, up, cut, core, bounds>>

(* The browser notices that a socket is gone.  socketDisconnect, if it is    *)
(* the tab's and has its handlers: it is forgotten, and a new interval       *)
(* replaces one that was retrying.                                           *)
OnClose(s) ==
    /\ front[s] = "open" /\ s \in cut
    /\ front' = [front EXCEPT ![s] = "closed"]
    /\ down' = [down EXCEPT ![s] = <<>>]
    /\ IF s = ws /\ s \in bound
         THEN /\ bound' = bound \ {s}
              /\ ws' = NoSock
              /\ interval' = TRUE
              /\ older' = {d \in Socks : front[d] = "dialing"}
         ELSE UNCHANGED <<bound, ws, interval, older>>
    /\ UNCHANGED <<kind, inst, started, back, up, cut, core, bounds>>

Unused(s) ==
    /\ front[s] \in {"none", "closed"} /\ back[s] \in {"none", "closed"}
    /\ s # ws /\ begun[s] = 0
    /\ \A w \in watch : w[1] # s
    /\ \A n \in 1..Len(conns) : conns[n].ws # s

(* The interval dials, whatever became of the dial before.                   *)
Dial ==
    /\ interval
    /\ ~ Overlaps => \A d \in Socks : front[d] # "dialing"
    /\ \E s \in Socks : Unused(s)
    /\ ws' = CHOOSE s \in Socks : Unused(s)
    /\ front' = [front EXCEPT ![ws'] = "dialing"]
    /\ back' = [back EXCEPT ![ws'] = "none"]
    /\ cut' = cut \ {ws'}
    /\ UNCHANGED <<kind, inst, started, interval, bound, older, up, down, core, bounds>>

DialFails(s) ==
    /\ front[s] = "dialing" /\ Fault("dial")
    /\ front' = [front EXCEPT ![s] = "closed"]
    /\ UNCHANGED <<tab, back, up, down, cut, core, stops>>

(* The dial is answered: its interval is over.                               *)
Opens(s) ==
    /\ front[s] = "dialing"
    /\ front' = [front EXCEPT ![s] = "open"]
    /\ back' = [back EXCEPT ![s] = "open"]
    /\ interval' = (interval /\ s \in older)
    /\ older' = older \ {s}
    /\ UNCHANGED <<kind, ws, down, cut, core, bounds>>

(* socketReconnect, for a channel that resumes: it is for the tab whose      *)
(* socket this is by now, if there is one.                                   *)
OpensToResume(s) ==
    /\ kind = "resume"
    /\ Opens(s)
    /\ IF s = ws
         THEN /\ bound' = bound \cup {s}
              /\ up' = Sent(up, s, Message("reconnect", inst))
         ELSE UNCHANGED <<bound, up>>
    /\ UNCHANGED <<inst, started>>

(* The onopen of a channel that does not: the tab is started again on the    *)
(* socket it has by now, if that one is open.                                *)
OpensToRestart(s) ==
    /\ kind = "restart"
    /\ Opens(s)
    /\ inst' = NoId
    /\ IF ws = s \/ IsOpen(ws)
         THEN SendStart
         ELSE started' = FALSE /\ UNCHANGED <<bound, up>>

(* wsOnMessage, and what the channel makes of an answer to START; an         *)
(* instance that was not found stops the tab.                                *)
FrontReads(s) ==
    /\ front[s] = "open" /\ down[s] # <<>>
    /\ down' = [down EXCEPT ![s] = Tail(@)]
    /\ LET m == Head(down[s])
       IN  IF s # ws \/ s \notin bound THEN UNCHANGED <<inst, started, up>>
           ELSE CASE m.type = "started" -> inst' = m.inst /\ UNCHANGED <<started, up>>
                  [] m.type = "resumed" -> UNCHANGED <<inst, started, up>>
                  [] m.type = "lost"    -> StopTab /\ inst' = inst
    /\ UNCHANGED <<kind, ws, interval, bound, older, front, back, cut, core, bounds>>

-----------------------------------------------------------------------------
(* The core                                                                  *)

CoreReads(s, type) ==
    /\ back[s] = "open" /\ up[s] # <<>>
    /\ s \in cut => "late" \in Faults
    /\ Head(up[s]).type = type
    /\ up' = [up EXCEPT ![s] = Tail(@)]
    /\ UNCHANGED <<tab, front, back, cut, bounds>>

(* A core that has no such channel answers an error, which the tab shows and *)
(* does nothing about.                                                       *)
TurnAway(s) ==
    /\ ~ serving
    /\ \E type \in {"start", "stop", "reconnect"} :
         CoreReads(s, type) /\ astray' = (astray \/ (s = ws /\ type # "stop"))
    /\ UNCHANGED <<down, begun, conns, watch, pods, serving>>

(* A START awaits the pods the key gives access to.                          *)
TakeStart(s) ==
    /\ serving
    /\ CoreReads(s, "start")
    /\ begun' = [begun EXCEPT ![s] = @ + 1]
    /\ UNCHANGED <<down, conns, watch, pods, serving, astray>>

(* There are none: it is denied, which the tab shows as well.                *)
Deny(s) ==
    /\ begun[s] > 0 /\ pods = {}
    /\ begun' = [begun EXCEPT ![s] = @ - 1]
    /\ astray' = (astray \/ s = ws)
    /\ UNCHANGED <<tab, net, conns, watch, pods, serving, bounds>>

InUse ==
    {inst} \cup {w[2] : w \in watch}
      \cup (UNION {DOMAIN conns[n].pods : n \in 1..Len(conns)})
      \cup (UNION {{wire[s][n].inst : n \in 1..Len(wire[s])} : s \in Socks, wire \in {up, down}})

(* There are: it is answered, and the pods are watched, for as long as the   *)
(* socket of the START is open.                                              *)
Accept(s) ==
    /\ begun[s] > 0 /\ pods # {}
    /\ begun' = [begun EXCEPT ![s] = @ - 1]
    /\ Ids \ InUse # {}
    /\ IF back[s] = "open"
         THEN LET i == CHOOSE i \in Ids : i \notin InUse
              IN  down' = Sent(down, s, Message("started", i)) /\ watch' = watch \cup {<<s, i>>}
         ELSE UNCHANGED <<down, watch>>
    /\ astray' = (astray /\ s # ws)
    /\ UNCHANGED <<tab, front, back, up, cut, conns, pods, serving, bounds>>

(* The connection of a socket, or 0, and the one an instance is found in.    *)
ConnOf(s) == SelectInSeq(conns, LAMBDA c : c.ws = s)
ConnWith(i) == SelectInSeq(conns, LAMBDA c : i \in DOMAIN c.pods)

(* Bug: whatever has the instance moves to the socket.                       *)
TakeReconnectAll(s) ==
    /\ serving
    /\ CoreReads(s, "reconnect")
    /\ LET i == Head(up[s]).inst
       IN  /\ conns' = [n \in DOMAIN conns |->
                          IF i \in DOMAIN conns[n].pods THEN [conns[n] EXCEPT !.ws = s] ELSE conns[n]]
           /\ down' = Sent(down, s, Message(IF ConnWith(i) # 0 THEN "resumed" ELSE "lost", i))
    /\ astray' = (s # ws)
    /\ UNCHANGED <<begun, watch, pods, serving>>

(* processReconnect, and updateConnection of the channel.                    *)
TakeReconnect(s) ==
    /\ serving
    /\ CoreReads(s, "reconnect")
    /\ LET i == Head(up[s]).inst
           n == ConnWith(i)
       IN  IF n # 0
             THEN /\ conns' = [conns EXCEPT ![n].ws = s]
                  /\ down' = Sent(down, s, Message("resumed", i))
             ELSE /\ conns' = conns
                  /\ down' = Sent(down, s, Message("lost", i))
    /\ astray' = (s # ws)
    /\ UNCHANGED <<begun, watch, pods, serving>>

Without(f, i) == [j \in DOMAIN f \ {i} |-> f[j]]

(* stopInstance of the channel; the watch goes on.                           *)
TakeStop(s) ==
    /\ serving
    /\ CoreReads(s, "stop")
    /\ conns' = IF ConnOf(s) = 0 THEN conns
                ELSE [conns EXCEPT ![ConnOf(s)].pods = Without(@, Head(up[s]).inst)]
    /\ UNCHANGED <<down, begun, watch, pods, serving, astray>>

Streamed(s, p) ==
    ConnOf(s) # 0 /\ \E i \in DOMAIN conns[ConnOf(s)].pods : p \in conns[ConnOf(s)].pods[i]

With(f, i, p) ==
    [j \in DOMAIN f \cup {i} |->
        (IF j \in DOMAIN f THEN f[j] ELSE {}) \cup (IF j = i THEN {p} ELSE {})]

(* A watch reports a pod, when it shows up and whenever it changes:          *)
(* addObject, and the channel's, on the socket and for the instance of the   *)
(* START, whatever became of them.                                           *)
WatchReports(s, i, p) ==
    /\ <<s, i>> \in watch /\ p \in pods
    /\ ~ Streamed(s, p)
    /\ conns' = IF ConnOf(s) = 0
                  THEN Append(conns, [ws |-> s, pods |-> [j \in {i} |-> {p}]])
                  ELSE [conns EXCEPT ![ConnOf(s)].pods = With(@, i, p)]
    /\ UNCHANGED <<tab, net, begun, watch, pods, serving, astray, bounds>>

(* It is not opened again when its socket is no longer open.                 *)
WatchEnds(s, i) ==
    /\ <<s, i>> \in watch /\ back[s] # "open"
    /\ watch' = watch \ {<<s, i>>}
    /\ UNCHANGED <<tab, net, begun, conns, pods, serving, astray, bounds>>

PodStarts ==
    /\ \E p \in Pods \ pods : pods' = pods \cup {p}
    /\ UNCHANGED <<tab, net, begun, conns, watch, serving, astray, bounds>>

(* Bug: the connections of the other channels are left without a socket.     *)
CoreClosesUnbinding(s) ==
    /\ back[s] = "open" /\ s \in cut
    /\ back' = [back EXCEPT ![s] = "closed"]
    /\ up' = [up EXCEPT ![s] = <<>>]
    /\ conns' = CASE ConnOf(s) = 0 -> conns
                  [] kind = "restart" -> RemoveAt(conns, ConnOf(s))
                  [] OTHER -> [conns EXCEPT ![ConnOf(s)].ws = NoSock]
    /\ UNCHANGED <<tab, front, down, cut, begun, watch, pods, serving, astray, bounds>>

(* The core notices that a socket is gone: cleanupNonReconnectable.          *)
CoreCloses(s) ==
    /\ back[s] = "open" /\ s \in cut
    /\ back' = [back EXCEPT ![s] = "closed"]
    /\ up' = [up EXCEPT ![s] = <<>>]
    /\ conns' = IF kind = "restart" /\ ConnOf(s) # 0 THEN RemoveAt(conns, ConnOf(s)) ELSE conns
    /\ UNCHANGED <<tab, front, down, cut, begun, watch, pods, serving, astray, bounds>>

-----------------------------------------------------------------------------
(* What goes wrong                                                           *)

Drop(s) ==
    /\ front[s] = "open" /\ back[s] = "open" /\ s \notin cut
    /\ Fault("drop")
    /\ cut' = cut \cup {s}
    /\ UNCHANGED <<tab, front, back, up, down, core, stops>>

(* Bug: the sockets the channel was serving are left open.                   *)
ReloadQuietly ==
    /\ serving /\ Fault("reload")
    /\ conns' = <<>>
    /\ UNCHANGED <<tab, net, begun, watch, pods, serving, astray, stops>>

(* onDevPluginReloaded: a channel without connections replaces the one there *)
(* was, whose open sockets are closed.                                       *)
Reload ==
    /\ serving /\ Fault("reload")
    /\ LET orphans == {s \in Socks : back[s] = "open" /\ ConnOf(s) # 0}
       IN  /\ back' = [s \in Socks |-> IF s \in orphans THEN "closed" ELSE back[s]]
           /\ up' = [s \in Socks |-> IF s \in orphans THEN <<>> ELSE up[s]]
           /\ cut' = cut \cup orphans
    /\ conns' = <<>>
    /\ UNCHANGED <<tab, front, down, begun, watch, pods, serving, astray, stops>>

(* The core is restarted, and listens; its channels come up later.           *)
Restart ==
    /\ Fault("restart")
    /\ back' = [s \in Socks |-> IF back[s] = "open" THEN "closed" ELSE back[s]]
    /\ up' = [s \in Socks |-> <<>>]
    /\ cut' = cut \cup {s \in Socks : back[s] = "open"}
    /\ begun' = [s \in Socks |-> 0]
    /\ conns' = <<>> /\ watch' = {} /\ serving' = FALSE
    /\ UNCHANGED <<tab, front, down, pods, astray, stops>>

Serve ==
    /\ ~ serving
    /\ serving' = TRUE
    /\ UNCHANGED <<tab, net, begun, conns, watch, pods, astray, bounds>>

Retries == Dial \/ \E s \in Socks : OpensToResume(s) \/ OpensToRestart(s)
Serves(s) ==
    TurnAway(s) \/ TakeStart(s) \/ Deny(s) \/ Accept(s) \/ TakeReconnect(s) \/ TakeStop(s)
    \/ CoreCloses(s)

Next ==
    \/ UserStart \/ UserStop \/ Dial
    \/ \E s \in Socks : OpensToResume(s) \/ OpensToRestart(s) \/ DialFails(s)
    \/ \E s \in Socks : OnClose(s) \/ FrontReads(s) \/ Serves(s) \/ Drop(s)
    \/ \E s \in Socks, i \in Ids : WatchEnds(s, i) \/ \E p \in Pods : WatchReports(s, i, p)
    \/ PodStarts \/ Reload \/ Restart \/ Serve

Spec == Init /\ [][Next]_vars

(* Timers fire, a dial is answered one way or the other, what is on a live   *)
(* socket arrives, either end ends up noticing that it is gone, and a watch  *)
(* reports the pods there are.                                               *)
Fairness ==
    /\ WF_vars(Retries)
    /\ \A s \in Socks : WF_vars(OnClose(s)) /\ WF_vars(FrontReads(s)) /\ WF_vars(Serves(s))
    /\ \A s \in Socks, i \in Ids, p \in Pods : WF_vars(WatchReports(s, i, p))
    /\ \A s \in Socks, i \in Ids : WF_vars(WatchEnds(s, i))
FairSpec == Spec /\ Fairness

-----------------------------------------------------------------------------

Requests == [type : {"start", "stop", "reconnect"}, inst : Ids \cup {NoId}]
Answers == [type : {"started", "resumed", "lost"}, inst : Ids \cup {NoId}]
PodMaps == UNION {[I -> SUBSET Pods] : I \in SUBSET Ids}
Connections == [ws : Socks, pods : PodMaps]

(* The types of what the browser, the wire and the core hold.                *)
TypeOK ==
    /\ kind \in Kinds /\ ws \in Socks \cup {NoSock} /\ inst \in Ids \cup {NoId}
    /\ started \in BOOLEAN /\ interval \in BOOLEAN
    /\ bound \subseteq Socks /\ older \subseteq Socks /\ cut \subseteq Socks
    /\ front \in [Socks -> {"none", "dialing", "open", "closed"}]
    /\ back \in [Socks -> {"none", "open", "closed"}]
    /\ up \in [Socks -> Seq(Requests)] /\ down \in [Socks -> Seq(Answers)]
    /\ begun \in [Socks -> Nat] /\ conns \in Seq(Connections)
    /\ watch \subseteq Socks \X Ids /\ pods \subseteq Pods
    /\ serving \in BOOLEAN /\ astray \in BOOLEAN
    /\ faults \in 0..MaxFaults /\ stops \in 0..MaxStops

(* Both ends of the tab's socket are there and nothing is on its way.        *)
Settled ==
    /\ ws # NoSock /\ front[ws] = "open" /\ back[ws] = "open" /\ ws \notin cut
    /\ up[ws] = <<>> /\ down[ws] = <<>> /\ begun[ws] = 0

(* index.ts:735 and App.tsx:1940: a tab that shows itself started is served   *)
(* on the socket it has when that is quiet, whatever sockets, channels and   *)
(* cores it went through; or its pods are about to be.  Only a RECONNECT     *)
(* that the core gets to when the tab is on another socket takes the         *)
(* instance away from it, and only a START that no pod answers to, or a core *)
(* that has no channel yet, leaves it without.                               *)
StartedIsServed ==
    started /\ Settled /\ ~ astray =>
        \/ <<ws, inst>> \in watch
        \/ ConnOf(ws) # 0 /\ inst \in DOMAIN conns[ConnOf(ws)].pods

(* The channel finds the connection of a socket, and of an asset to stream,  *)
(* by the first that matches (containsAsset, stopInstance, addObject): two   *)
(* connections on one socket would stream a pod twice, and a STOP would end  *)
(* one of them.  Sockets come, move to another connection and go; there is   *)
(* never a second.                                                           *)
OneConnectionEach ==
    \A m, n \in 1..Len(conns) : conns[m].ws = conns[n].ws => m = n

(* App.tsx:1940, "The socket still has to come back": a started tab is       *)
(* streamed something again on a live socket, or is shown stopped, unless    *)
(* its instance went to a socket it had left or the core turned it away.     *)
StreamComesBack ==
    started /\ pods # {} ~>
        (~ started \/ astray \/ (ws # NoSock /\ ws \notin cut /\ \E p \in Pods : Streamed(ws, p)))

(* usecases.md:6 of the docs, "the reconnect feature allows keeping the      *)
(* stream alive even if you lose your communications": once the watches have *)
(* reported every pod there is, all of them are streamed to the tab.         *)
Reported == \A w \in watch, p \in pods : Streamed(w[1], p)
PodsAreStreamed ==
    started /\ inst # NoId /\ Settled /\ Reported => \A p \in pods : Streamed(ws, p)
=============================================================================

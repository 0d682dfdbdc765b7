-------------------------- MODULE RemoteLinkProofs --------------------------
(* What holds of a federation link for any number of commands, instances,    *)
(* faults and messages on the wire.  The invariant IInv says of each state   *)
(* of the socket which timers are pending and what the consumer was told; a  *)
(* START RESPONSE that assigns an instance carries one, which is why the     *)
(* wire towards the home is part of it.                                      *)
EXTENDS RemoteLink, SequenceTheorems, TLAPS

Assigned == \A n \in 1..Len(down) : down[n].type = "started" => down[n].inst \in Instances

ToldOfSocket ==
    /\ sock = "open" => state \in {"HANDSHAKING", "CONNECTED"}
    /\ closed <=> state = "DOWN"

Link == ConnectedIsOperational /\ NeverGivesUp /\ CloseIsTerminal /\ ToldOfSocket

IInv == TypeOK /\ Assigned /\ Link

-----------------------------------------------------------------------------
(* What is written on a wire, and what is read from it.                      *)

(* A wire stays a sequence of messages when messages are put on it.          *)
LEMMA PutType ==
    ASSUME NEW w \in Seq(Messages), NEW ms \in Seq(Messages), cut \in BOOLEAN
    PROVE  Put(w, ms) \in Seq(Messages)
BY DEF Put

(* A single message put on a wire.                                           *)
LEMMA PutOneType ==
    ASSUME NEW w \in Seq(Messages), NEW msg \in Messages, cut \in BOOLEAN
    PROVE  Put(w, <<msg>>) \in Seq(Messages)
BY DEF Put

(* The messages both sides write are messages.                               *)
LEMMA MessageTypes ==
    /\ Start \in Messages
    /\ \A m \in Msgs, i \in Instances \cup {NoInstance} : Command(m, i) \in Messages
    /\ \A i \in Instances : Started(i) \in Messages
    /\ \A t \in {"startRefused", "startDenied", "unknown", "unsupported"},
          m \in Msgs \cup {"none"}, i \in Instances \cup {NoInstance} :
            Refused(t, m, i) \in Messages
BY DEF Start, Command, Started, Refused, Messages

(* What is read is a message, and what is left is a wire.                    *)
LEMMA ReadType ==
    ASSUME NEW w \in Seq(Messages), w # <<>>
    PROVE  /\ Head(w) \in Messages
           /\ Tail(w) \in Seq(Messages)
           /\ Head(w) = w[1]
           /\ 1 \in 1..Len(w)
           /\ Len(Tail(w)) = Len(w) - 1
           /\ \A n \in 1..Len(Tail(w)) : Tail(w)[n] = w[n + 1] /\ n + 1 \in 1..Len(w)
OBVIOUS

(* Putting a message that assigns nothing, or assigns an instance, on a wire *)
(* whose START RESPONSEs all carry one.                                      *)
LEMMA PutAssigned ==
    ASSUME TypeOK, Assigned, NEW msg \in Messages,
           msg.type = "started" => msg.inst \in Instances,
           down' = Put(down, <<msg>>)
    PROVE  Assigned'
BY DEF TypeOK, FlagsOK, WireOK, Assigned, Put

(* Reading from a wire whose START RESPONSEs all carry an instance.          *)
LEMMA ReadAssigned ==
    ASSUME TypeOK, Assigned, down # <<>>, down' = Tail(down)
    PROVE  Assigned'
BY ReadType DEF TypeOK, FlagsOK, WireOK, Assigned

-----------------------------------------------------------------------------
(* The invariant.                                                            *)

(* The types of the link's state are preserved by every step.                *)
LEMMA TypeStep ==
    ASSUME TypeOK, Assigned, Next
    PROVE  TypeOK'
<1> USE InstancesAssumption, ReplayMaxAssumption, BoundsAssumption
<1> USE DEF TypeOK
<1>1. ASSUME OnWatchdog PROVE TypeOK'
  <2>1. FlagsOK'  BY <1>1 DEF FlagsOK, OnWatchdog, StartSent, CanStart, member
  <2>2. HomeOK'  BY <1>1 DEF FlagsOK, HomeOK, OnWatchdog, StartSent, CanStart, member
  <2>3. WireOK'  BY <1>1, MessageTypes, PutOneType DEF FlagsOK, HomeOK, WireOK, MemberOK,
                    OnWatchdog, StartSent, CanStart, member
  <2>4. MemberOK'  BY <1>1 DEF WireOK, MemberOK, OnWatchdog, StartSent, CanStart, member
  <2> QED  BY <2>1, <2>2, <2>3, <2>4
<1>2. ASSUME OnRetry PROVE TypeOK'
  <2>1. FlagsOK'  BY <1>2 DEF FlagsOK, OnRetry, Fault, wire, member
  <2>2. HomeOK'  BY <1>2 DEF FlagsOK, HomeOK, OnRetry, Fault, wire, member
  <2>3. WireOK'  BY <1>2 DEF FlagsOK, HomeOK, WireOK, MemberOK, OnRetry, Fault, wire, member
  <2>4. MemberOK'
    <3>1. faults' = faults \/ faults' = faults + 1
      BY <1>2, Zenon DEF OnRetry, Fault
    <3>2. UNCHANGED <<member, todo>>
      BY <1>2 DEF OnRetry
    <3>3. faults' \in Nat
      BY <3>1 DEF MemberOK
    <3> QED  BY <3>2, <3>3 DEF MemberOK, member
  <2> QED  BY <2>1, <2>2, <2>3, <2>4
<1>3. ASSUME OnKeepalive PROVE TypeOK'
  <2>1. FlagsOK'  BY <1>3 DEF FlagsOK, OnKeepalive, Fault, wire, member
  <2>2. HomeOK'  BY <1>3 DEF FlagsOK, HomeOK, OnKeepalive, Fault, wire, member
  <2>3. WireOK'  BY <1>3 DEF FlagsOK, HomeOK, WireOK, MemberOK, OnKeepalive, Fault, wire, member
  <2>4. MemberOK'  BY <1>3 DEF WireOK, MemberOK, OnKeepalive, Fault, wire, member
  <2> QED  BY <2>1, <2>2, <2>3, <2>4
<1>4. ASSUME OnOpen PROVE TypeOK'
  BY <1>4, MessageTypes, PutOneType DEF FlagsOK, HomeOK, WireOK, MemberOK, OnOpen, StartSent, member
<1>5. ASSUME OnPong PROVE TypeOK'
  BY <1>5 DEF FlagsOK, HomeOK, WireOK, MemberOK, OnPong, wire, member
<1>6. ASSUME Terminated PROVE TypeOK'
  <2>1. FlagsOK'  BY <1>6 DEF FlagsOK, Terminated, OnClose, SocketOver
  <2>2. HomeOK'  BY <1>6 DEF FlagsOK, HomeOK, Terminated, OnClose, SocketOver
  <2>3. WireOK'  BY <1>6 DEF FlagsOK, HomeOK, WireOK, MemberOK, Terminated, OnClose, SocketOver
  <2>4. MemberOK'  BY <1>6 DEF WireOK, MemberOK, Terminated, OnClose, SocketOver
  <2> QED  BY <2>1, <2>2, <2>3, <2>4
<1>7. ASSUME OnStarted PROVE TypeOK'
  <2>1. FlagsOK'  BY <1>7 DEF FlagsOK, OnStarted, Receive, member
  <2>2. HomeOK'
    <3>1. instance' \in Instances \cup {NoInstance}
      BY <1>7, ReadType DEF WireOK, OnStarted, Receive, Messages
    <3> QED  BY <1>7, <3>1 DEF HomeOK, OnStarted, Receive
  <2>3. WireOK'
    <3> DEFINE resent == [n \in 1..Len(sent) |-> Command(sent[n], instance')]
    <3>1. instance' \in Instances \cup {NoInstance}
      BY <1>7, ReadType DEF WireOK, OnStarted, Receive, Messages
    <3>2. resent \in Seq(Messages)
      <4>1. \A n \in 1..Len(sent) : Command(sent[n], instance') \in Messages
        BY <3>1, MessageTypes DEF HomeOK
      <4>2. Len(sent) \in Nat
        BY DEF HomeOK
      <4> QED  BY <4>1, <4>2
    <3>3. up' \in {up, Put(up, resent)}
      BY <1>7 DEF OnStarted
    <3>4. up' \in Seq(Messages)
      BY <3>2, <3>3, PutType DEF WireOK, FlagsOK
    <3>5. down' \in Seq(Messages)
      BY <1>7, ReadType DEF WireOK, OnStarted, Receive
    <3> QED  BY <3>4, <3>5 DEF WireOK
  <2>4. MemberOK'  BY <1>7, ReadType DEF WireOK, MemberOK, OnStarted, Receive, member
  <2> QED  BY <2>1, <2>2, <2>3, <2>4
<1>8. ASSUME OnStartRefused PROVE TypeOK'
  BY <1>8, ReadType DEF FlagsOK, HomeOK, WireOK, MemberOK, OnStartRefused, Receive, member
<1>9. ASSUME OnStartDenied PROVE TypeOK'
  BY <1>9, ReadType DEF FlagsOK, HomeOK, WireOK, MemberOK, OnStartDenied, Receive, member
<1>10. ASSUME OnInstanceUnknown PROVE TypeOK'
  BY <1>10, MessageTypes, PutOneType, ReadType DEF FlagsOK, HomeOK, WireOK, MemberOK,
     OnInstanceUnknown, Receive, StartSent, member
<1>11. ASSUME OnUnsupported PROVE TypeOK'
  BY <1>11, ReadType DEF FlagsOK, HomeOK, WireOK, MemberOK, OnUnsupported, Receive, member
<1>12. ASSUME RefuseStart PROVE TypeOK'
  BY <1>12, MessageTypes, PutOneType, ReadType DEF FlagsOK, HomeOK, WireOK, MemberOK, RefuseStart,
     MemberReads, client
<1>13. ASSUME AcceptStart PROVE TypeOK'
  BY <1>13, MessageTypes, PutOneType, ReadType DEF FlagsOK, HomeOK, WireOK, MemberOK, AcceptStart,
     MemberReads, Fresh, client
<1>14. ASSUME SuspendStart PROVE TypeOK'
  BY <1>14, ReadType DEF FlagsOK, HomeOK, WireOK, MemberOK, SuspendStart, MemberReads, client
<1>15. ASSUME Accept PROVE TypeOK'
  <2>1. FlagsOK'  BY <1>15 DEF FlagsOK, Accept, Fresh, client
  <2>2. HomeOK'  BY <1>15 DEF FlagsOK, HomeOK, Accept, Fresh, client
  <2>3. WireOK'  BY <1>15, MessageTypes, PutOneType DEF FlagsOK, HomeOK, WireOK, MemberOK, Accept,
                    Fresh, client
  <2>4. MemberOK'
    <3>1. begun' \in Nat /\ UNCHANGED <<regs, faults, todo>>
      BY <1>15 DEF MemberOK, Accept
    <3>2. watching' \subseteq Instances
      BY <1>15 DEF MemberOK, Accept, Fresh
    <3> QED  BY <3>1, <3>2 DEF MemberOK
  <2> QED  BY <2>1, <2>2, <2>3, <2>4
<1>16. ASSUME TakeCommand PROVE TypeOK'
  <2>1. FlagsOK'  BY <1>16 DEF FlagsOK, TakeCommand, MemberReads, client
  <2>2. HomeOK'  BY <1>16, ReadType DEF FlagsOK, HomeOK, TakeCommand, MemberReads, client
  <2>3. WireOK'
    <3>1. /\ Head(up) \in Messages /\ up' \in Seq(Messages)
          /\ Head(up).msg \in Msgs \cup {"none"}
          /\ Head(up).inst \in Instances \cup {NoInstance}
      BY <1>16, ReadType DEF WireOK, TakeCommand, MemberReads, Messages
    <3>2. \A t \in {"unknown", "unsupported"} : Refused(t, Head(up).msg, Head(up).inst) \in Messages
      BY <3>1, MessageTypes
    <3>3. CASE down' = down
      BY <3>1, <3>3 DEF WireOK
    <3>4. CASE \E t \in {"unknown", "unsupported"} :
                 down' = Put(down, <<Refused(t, Head(up).msg, Head(up).inst)>>)
      BY <3>1, <3>2, <3>4, PutOneType DEF WireOK, FlagsOK
    <3> QED  BY <1>16, <3>3, <3>4 DEF TakeCommand
  <2>4. MemberOK'  BY <1>16, ReadType DEF WireOK, MemberOK, TakeCommand, MemberReads, client
  <2> QED  BY <2>1, <2>2, <2>3, <2>4
<1>17. ASSUME NEW i \in Instances, AddObject(i) PROVE TypeOK'
  BY <1>17 DEF FlagsOK, HomeOK, WireOK, MemberOK, AddObject, client, wire
<1>18. ASSUME Install PROVE TypeOK'
  BY <1>18 DEF FlagsOK, HomeOK, WireOK, MemberOK, Install, client, wire
<1>19. ASSUME SocketCloses PROVE TypeOK'
  <2>1. FlagsOK'  BY <1>19 DEF FlagsOK, SocketCloses, OnClose, SocketOver, Fault
  <2>2. HomeOK'  BY <1>19 DEF FlagsOK, HomeOK, SocketCloses, OnClose, SocketOver, Fault
  <2>3. WireOK'  BY <1>19 DEF FlagsOK, HomeOK, WireOK, MemberOK, SocketCloses, OnClose,
                    SocketOver, Fault
  <2>4. MemberOK'  BY <1>19 DEF WireOK, MemberOK, SocketCloses, OnClose, SocketOver, Fault
  <2> QED  BY <2>1, <2>2, <2>3, <2>4
<1>20. ASSUME Cut PROVE TypeOK'
  BY <1>20 DEF FlagsOK, HomeOK, WireOK, MemberOK, Cut, Fault, client, member
<1>21. ASSUME Uninstall PROVE TypeOK'
  <2>1. FlagsOK'  BY <1>21 DEF FlagsOK, Uninstall, Fault, client
  <2>2. HomeOK'  BY <1>21 DEF FlagsOK, HomeOK, Uninstall, Fault, client
  <2>3. WireOK'  BY <1>21, MessageTypes, PutOneType DEF FlagsOK, HomeOK, WireOK, MemberOK,
                    Uninstall, Fault, client
  <2>4. MemberOK'  BY <1>21 DEF WireOK, MemberOK, Uninstall, Fault, client
  <2> QED  BY <2>1, <2>2, <2>3, <2>4
<1>22. ASSUME Upgrade PROVE TypeOK'
  BY <1>22 DEF FlagsOK, HomeOK, WireOK, MemberOK, Upgrade, Fault, client, wire
<1>23. ASSUME Reload PROVE TypeOK'
  <2>1. FlagsOK'  BY <1>23 DEF FlagsOK, Reload, MemberCloses, OnClose, SocketOver, Fault, client,
                     wire
  <2>2. HomeOK'  BY <1>23 DEF FlagsOK, HomeOK, Reload, MemberCloses, OnClose, SocketOver, Fault,
                    client, wire
  <2>3. WireOK'
    <3>1. CASE OnClose
      BY <3>1 DEF WireOK, OnClose, SocketOver
    <3>2. CASE UNCHANGED <<client, wire, todo>>
      BY <3>2 DEF WireOK, wire
    <3> QED  BY <1>23, <3>1, <3>2, Zenon DEF Reload, MemberCloses
  <2>4. MemberOK'  BY <1>23 DEF WireOK, MemberOK, Reload, MemberCloses, OnClose, SocketOver,
                      Fault, client, wire
  <2> QED  BY <2>1, <2>2, <2>3, <2>4
<1>24. ASSUME Restart PROVE TypeOK'
  <2>1. FlagsOK'  BY <1>24 DEF FlagsOK, Restart, MemberCloses, OnClose, SocketOver, Fault, client,
                     wire
  <2>2. HomeOK'  BY <1>24 DEF FlagsOK, HomeOK, Restart, MemberCloses, OnClose, SocketOver, Fault,
                    client, wire
  <2>3. WireOK'
    <3>1. CASE OnClose
      BY <3>1 DEF WireOK, OnClose, SocketOver
    <3>2. CASE UNCHANGED <<client, wire, todo>>
      BY <3>2 DEF WireOK, wire
    <3> QED  BY <1>24, <3>1, <3>2, Zenon DEF Restart, MemberCloses
  <2>4. MemberOK'  BY <1>24 DEF WireOK, MemberOK, Restart, MemberCloses, OnClose, SocketOver,
                      Fault, client, wire
  <2> QED  BY <2>1, <2>2, <2>3, <2>4
<1>25. ASSUME NEW m \in Msgs, Send(m) PROVE TypeOK'
  <2>1. FlagsOK'  BY <1>25 DEF FlagsOK, Send, Remembered, member
  <2>2. HomeOK'  BY <1>25 DEF FlagsOK, HomeOK, Send, Remembered, member
  <2>3. WireOK'  BY <1>25, MessageTypes, PutOneType DEF FlagsOK, HomeOK, WireOK, MemberOK, Send,
                    Remembered, member
  <2>4. MemberOK'  BY <1>25 DEF WireOK, MemberOK, Send, Remembered, member
  <2> QED  BY <2>1, <2>2, <2>3, <2>4
<1>26. ASSUME Close PROVE TypeOK'
  <2>1. FlagsOK'  BY <1>26 DEF FlagsOK, Close, SocketOver
  <2>2. HomeOK'  BY <1>26 DEF FlagsOK, HomeOK, Close, SocketOver
  <2>3. WireOK'  BY <1>26 DEF FlagsOK, HomeOK, WireOK, MemberOK, Close, SocketOver
  <2>4. MemberOK'  BY <1>26 DEF WireOK, MemberOK, Close, SocketOver
  <2> QED  BY <2>1, <2>2, <2>3, <2>4
<1>27. ASSUME Over PROVE TypeOK'
  BY <1>27 DEF FlagsOK, HomeOK, WireOK, MemberOK, Over, vars, client, wire, member
<1> QED
  BY <1>1, <1>2, <1>3, <1>4, <1>5, <1>6, <1>7, <1>8, <1>9, <1>10, <1>11, <1>12, <1>13, <1>14,
     <1>15, <1>16, <1>17, <1>18, <1>19, <1>20, <1>21, <1>22, <1>23, <1>24, <1>25, <1>26, <1>27
     DEF Next, Timers, Network, OnMessage, Member, Trouble

(* Every START RESPONSE on the wire that assigns an instance carries one.    *)
LEMMA AssignedStep ==
    ASSUME TypeOK, Assigned, Next
    PROVE  Assigned'
<1>1. ASSUME NEW type, Receive(type) PROVE Assigned'
  BY <1>1, ReadAssigned DEF Receive
<1>2. ASSUME NEW msg \in Messages, msg.type = "started" => msg.inst \in Instances,
             down' = Put(down, <<msg>>)
      PROVE  Assigned'
  BY <1>2, PutAssigned
<1>3. ASSUME down' = <<>> PROVE Assigned'
  BY <1>3 DEF Assigned
<1>4. ASSUME down' = down PROVE Assigned'
  BY <1>4 DEF Assigned
<1>5. CASE RefuseStart
  BY <1>2, <1>5, MessageTypes DEF RefuseStart, Refused
<1>6. CASE AcceptStart
  BY <1>2, <1>6, MessageTypes DEF AcceptStart, Started, Fresh
<1>7. CASE Accept
  <2>1. CASE down' = Put(down, <<Refused("startDenied", "none", NoInstance)>>)
    BY <1>2, <2>1, MessageTypes DEF Refused
  <2>2. CASE \E i \in Instances : down' = Put(down, <<Started(i)>>)
    BY <1>2, <2>2, MessageTypes DEF Started
  <2> QED  BY <1>7, <2>1, <2>2 DEF Accept, Fresh
<1>8. CASE TakeCommand
  <2>1. /\ Head(up).msg \in Msgs \cup {"none"}
        /\ Head(up).inst \in Instances \cup {NoInstance}
    BY <1>8, ReadType DEF TypeOK, WireOK, TakeCommand, MemberReads, Messages
  <2>2. CASE \E t \in {"unknown", "unsupported"} :
               down' = Put(down, <<Refused(t, Head(up).msg, Head(up).inst)>>)
    BY <1>2, <2>1, <2>2, MessageTypes DEF Refused
  <2> QED  BY <1>4, <1>8, <2>2 DEF TakeCommand
<1>9. CASE Uninstall
  <2>1. CASE down' = Put(down, <<Refused("unsupported", "none", NoInstance)>>)
    BY <1>2, <2>1, MessageTypes DEF Refused
  <2> QED  BY <1>4, <1>9, <2>1 DEF Uninstall
<1>10. ASSUME OnClose PROVE Assigned'
  BY <1>3, <1>10 DEF OnClose, SocketOver
<1>11. ASSUME MemberCloses PROVE Assigned'
  BY <1>4, <1>10, <1>11 DEF MemberCloses, wire
<1>12. CASE OnMessage
  BY <1>1, <1>12 DEF OnMessage, OnStarted, OnStartRefused, OnStartDenied, OnInstanceUnknown,
                     OnUnsupported
<1>13. CASE Timers \/ OnOpen \/ OnPong
  BY <1>4, <1>13 DEF Timers, OnWatchdog, OnRetry, OnKeepalive, OnOpen, OnPong, wire
<1>14. CASE Terminated \/ SocketCloses
  BY <1>10, <1>14 DEF Terminated, SocketCloses
<1>15. CASE Reload \/ Restart
  BY <1>11, <1>15 DEF Reload, Restart
<1>16. CASE SuspendStart \/ Install \/ Upgrade \/ Over
  BY <1>4, <1>16 DEF SuspendStart, MemberReads, Install, Upgrade, Over, vars, wire
<1>17. CASE Cut \/ Close
  BY <1>3, <1>17 DEF Cut, Close, SocketOver
<1>18. CASE \E i \in Instances : AddObject(i)
  BY <1>4, <1>18 DEF AddObject, wire
<1>19. CASE \E m \in Msgs : Send(m)
  BY <1>4, <1>19 DEF Send
<1> QED
  BY <1>5, <1>6, <1>7, <1>8, <1>9, <1>12, <1>13, <1>14, <1>15, <1>16, <1>17, <1>18, <1>19
     DEF Next, Network, Member, Trouble

(* The invariant holds of the initial states.                                *)
LEMMA LinkInit == Init => IInv
<1> SUFFICES ASSUME Init PROVE IInv
  OBVIOUS
<1> USE DEF Init
<1>1. FlagsOK
  BY DEF FlagsOK
<1>2. HomeOK
  BY ReplayMaxAssumption DEF HomeOK
<1>3. WireOK /\ MemberOK
  BY DEF WireOK, MemberOK
<1>4. Assigned
  BY DEF Assigned
<1>5. Link
  BY InstancesAssumption
     DEF Link, ConnectedIsOperational, NeverGivesUp, CloseIsTerminal, ToldOfSocket
<1> QED  BY <1>1, <1>2, <1>3, <1>4, <1>5 DEF IInv, TypeOK

(* A step of the member changes nothing the client knows.                    *)
LEMMA LinkUnchanged ==
    ASSUME Link, UNCHANGED client
    PROVE  Link'
BY DEF Link, client, ConnectedIsOperational, NeverGivesUp, CloseIsTerminal, ToldOfSocket

(* What the client knows of its socket, its timers and its consumer is       *)
(* preserved by every step.                                                  *)
LEMMA LinkStep ==
    ASSUME IInv, Next
    PROVE  Link'
<1> USE DEF IInv, Link
<1>1. CASE OnWatchdog
  BY <1>1 DEF OnWatchdog, StartSent, CanStart, ConnectedIsOperational, NeverGivesUp,
              CloseIsTerminal, ToldOfSocket
<1>2. CASE OnRetry
  BY <1>2 DEF OnRetry, ConnectedIsOperational, NeverGivesUp, CloseIsTerminal, ToldOfSocket
<1>3. CASE OnKeepalive
  BY <1>3 DEF OnKeepalive, ConnectedIsOperational, NeverGivesUp, CloseIsTerminal, ToldOfSocket
<1>4. CASE OnOpen
  BY <1>4 DEF OnOpen, StartSent, ConnectedIsOperational, NeverGivesUp, CloseIsTerminal, ToldOfSocket
<1>5. CASE OnPong
  BY <1>5 DEF OnPong, ConnectedIsOperational, NeverGivesUp, CloseIsTerminal, ToldOfSocket
<1>6. ASSUME OnClose, sock # "closed" PROVE Link'
  BY <1>6 DEF OnClose, ConnectedIsOperational, NeverGivesUp, CloseIsTerminal, ToldOfSocket
<1>7. CASE Terminated \/ SocketCloses
  BY <1>6, <1>7 DEF Terminated, SocketCloses
<1>8. ASSUME MemberCloses PROVE Link'
  <2>1. CASE OnClose /\ sock \in {"connecting", "open"}
    BY <1>6, <2>1
  <2>2. CASE UNCHANGED client
    BY <2>2, LinkUnchanged
  <2> QED  BY <1>8, <2>1, <2>2 DEF MemberCloses
<1>9. CASE Reload \/ Restart
  BY <1>8, <1>9 DEF Reload, Restart
<1>10. CASE OnStarted
  <2>1. instance' # NoInstance
    BY <1>10, ReadType, InstancesAssumption DEF OnStarted, Receive, Assigned, TypeOK, WireOK
  <2> QED
    BY <1>10, <2>1 DEF OnStarted, Receive, ConnectedIsOperational, NeverGivesUp,
                       CloseIsTerminal, ToldOfSocket
<1>11. CASE OnStartRefused
  BY <1>11 DEF OnStartRefused, Receive, ConnectedIsOperational, NeverGivesUp, CloseIsTerminal,
               ToldOfSocket
<1>12. CASE OnStartDenied
  BY <1>12 DEF OnStartDenied, Receive, ConnectedIsOperational, NeverGivesUp, CloseIsTerminal,
               ToldOfSocket
<1>13. CASE OnInstanceUnknown
  BY <1>13 DEF OnInstanceUnknown, Receive, StartSent, ConnectedIsOperational, NeverGivesUp,
               CloseIsTerminal, ToldOfSocket
<1>14. CASE OnUnsupported
  BY <1>14 DEF OnUnsupported, Receive, ConnectedIsOperational, NeverGivesUp, CloseIsTerminal,
               ToldOfSocket
<1>15. CASE \E m \in Msgs : Send(m)
  BY <1>15 DEF Send, ConnectedIsOperational, NeverGivesUp, CloseIsTerminal, ToldOfSocket
<1>16. CASE Close
  BY <1>16 DEF Close, ConnectedIsOperational, NeverGivesUp, CloseIsTerminal, ToldOfSocket
<1>17. CASE Member \/ Install \/ Uninstall \/ Upgrade \/ Cut \/ Over
  <2>1. UNCHANGED client
    BY <1>17 DEF Member, RefuseStart, AcceptStart, SuspendStart, Accept, TakeCommand, AddObject,
                 MemberReads, Install, Uninstall, Upgrade, Cut, Over, vars
  <2> QED  BY <2>1, LinkUnchanged
<1> QED
  BY <1>1, <1>2, <1>3, <1>4, <1>5, <1>7, <1>9, <1>10, <1>11, <1>12, <1>13, <1>14, <1>15, <1>16,
     <1>17
     DEF Next, Timers, Network, OnMessage, Trouble

(* The invariant is inductive.                                               *)
LEMMA LinkInvariant == Spec => []IInv
<1>1. IInv /\ [Next]_vars => IInv'
  <2>1. ASSUME IInv, Next PROVE IInv'
    BY <2>1, TypeStep, AssignedStep, LinkStep DEF IInv
  <2>2. ASSUME IInv, UNCHANGED vars PROVE IInv'
    BY <2>2 DEF IInv, TypeOK, FlagsOK, HomeOK, WireOK, MemberOK, Assigned, Link,
                ConnectedIsOperational, NeverGivesUp, CloseIsTerminal, ToldOfSocket,
                vars, client, wire, member
  <2> QED  BY <2>1, <2>2
<1> QED  BY LinkInit, <1>1, PTL DEF Spec

-----------------------------------------------------------------------------
(* What follows from it.                                                     *)

(* The state of the link always has its types, and what the client remembers *)
(* stays within REPLAY_MAX.                                                  *)
THEOREM LinkTyped == Spec => []TypeOK
BY LinkInvariant, PTL DEF IInv

(* CONNECTED is only reported with a socket and an assigned instance, and    *)
(* never for a channel known to be gone.                                     *)
THEOREM ConnectedOnlyWhenOperational == Spec => []ConnectedIsOperational
BY LinkInvariant, PTL DEF IInv, Link

(* An open link always has a way on: a socket or a pending retry, and the    *)
(* START watchdog while it has no instance.                                  *)
THEOREM LinkNeverGivesUp == Spec => []NeverGivesUp
BY LinkInvariant, PTL DEF IInv, Link

(* After close() no timer is left and the last news is DOWN.                 *)
THEOREM CloseIsFinal == Spec => []CloseIsTerminal
BY LinkInvariant, PTL DEF IInv, Link

(* The consumer is told the states in the order the federation promises.     *)
THEOREM StatesProgress == Spec => Progression
<1> DEFINE Step == /\ state' = "CONNECTED" => state \in {"HANDSHAKING", "CONNECTED"}
                   /\ state' = "RECONNECTING" => state # "DOWN"
                   /\ state = "DOWN" => state' = "DOWN"
<1>1. ASSUME IInv, [Next]_vars PROVE [Step]_state
  <2> SUFFICES ASSUME Next, state' # state PROVE Step
    BY <1>1 DEF vars, client
  <2> USE DEF IInv, Link, CloseIsTerminal, ToldOfSocket
  <2>1. CASE OnOpen
    BY <1>1, <2>1 DEF OnOpen
  <2>2. CASE OnMessage
    BY <1>1, <2>2 DEF OnMessage, OnStarted, OnStartRefused, OnStartDenied, OnInstanceUnknown,
                      OnUnsupported, Receive
  <2>3. ASSUME OnClose, sock # "closed" PROVE Step
    BY <1>1, <2>3 DEF OnClose
  <2>4. CASE Terminated \/ SocketCloses \/ Reload \/ Restart
    BY <2>3, <2>4 DEF Terminated, SocketCloses, Reload, Restart, MemberCloses, client
  <2>5. CASE Close
    BY <2>5 DEF Close
  <2>6. CASE Timers \/ OnPong \/ Member \/ Install \/ Uninstall \/ Upgrade \/ Cut \/ Over
             \/ \E m \in Msgs : Send(m)
    BY <2>6 DEF Timers, OnWatchdog, OnRetry, OnKeepalive, OnPong, Member, RefuseStart, AcceptStart,
                SuspendStart, Accept, TakeCommand, AddObject, MemberReads, Install, Uninstall,
                Upgrade, Cut, Over, Send, vars, client
  <2> QED
    BY <2>1, <2>2, <2>4, <2>5, <2>6 DEF Next, Network, Trouble
<1> QED  BY LinkInvariant, <1>1, PTL DEF Spec, Progression
=============================================================================

-------------------------- MODULE TabSessionProofs --------------------------
(* Proofs about a tab and the channel that serves it: that what both ends    *)
(* and the wire hold is of its type, that no socket has two connections of a *)
(* channel, and that a tab that shows itself started is served on the socket *)
(* it has.  All hold for any sockets, instances and pods, whatever goes      *)
(* wrong and however many dials are unanswered.                              *)
EXTENDS TabSession, FiniteSetTheorems, SequenceTheorems, TLAPS
-----------------------------------------------------------------------------
(* The invariant                                                             *)

Fresh(s) ==
    /\ begun[s] = 0 /\ \A w \in watch : w[1] # s
    /\ \A n \in 1..Len(conns) : conns[n].ws # s

Has(wire, types) == \E n \in 1..Len(wire) : wire[n].type \in types

(* What one end knows of a socket, the other knows too or it is cut, and     *)
(* nothing is on its way to an end that is not there.                        *)
Ends ==
    \A s \in Socks :
      /\ front[s] = "open" => back[s] = "open" \/ s \in cut
      /\ back[s] = "open" => front[s] = "open" \/ s \in cut
      /\ back[s] # "open" => up[s] = <<>>
      /\ front[s] # "open" => down[s] = <<>>
      /\ front[s] = "dialing" => back[s] = "none" /\ Fresh(s)

(* A RECONNECT is the first thing on its socket.                             *)
Resumes ==
    \A s \in Socks : \A n \in 1..Len(up[s]) : up[s][n].type = "reconnect" =>
      /\ n = 1 /\ kind = "resume" /\ Fresh(s) /\ down[s] = <<>>
      /\ s = ws => up[s][n].inst = inst

(* An instance the core told a socket of is watched for it.                  *)
Told ==
    \A s \in Socks : \A n \in 1..Len(down[s]) : down[s][n].type = "started" =>
      <<s, down[s][n].inst>> \in watch \/ s \in cut

Expecting == started /\ IsOpen(ws) /\ ws \notin cut

Handled == started /\ IsOpen(ws) => ws \in bound

(* A tab that is started again after a STOP sent its START after it.         *)
StartsLast(wire) ==
    \A n \in 1..Len(wire) : wire[n].type = "stop" => \E m \in n + 1..Len(wire) : wire[m].type = "start"
Restarted == Expecting => StartsLast(up[ws])

Served ==
    \/ <<ws, inst>> \in watch
    \/ kind = "resume" /\ \E n \in 1..Len(conns) : conns[n].ws = ws /\ inst \in DOMAIN conns[n].pods
Awaited == Has(up[ws], {"start", "reconnect"}) \/ begun[ws] > 0 \/ Has(down[ws], {"started", "lost"})

Owed == Expecting /\ ~ astray => Served \/ Awaited

SocketInv == TypeOK /\ Ends /\ Resumes /\ OneConnectionEach
TabInv == SocketInv /\ Told /\ Handled /\ Restarted /\ Owed

-----------------------------------------------------------------------------
(* Sequences, and what is on its way                                         *)

LEMMA SmallestOf ==
    ASSUME NEW n \in Nat, NEW I \in SUBSET (1..n), I # {}
    PROVE  Min(I) \in I
<1> DEFINE S == 1..n
           T == {1..m : m \in I}
           R == StrictSubsetOrdering(S)
<1>1. IsWellFoundedOn(R, SUBSET S)
  <2>1. IsFiniteSet(S)
    BY FS_Interval
  <2> QED  BY <2>1, FS_FiniteSubsetsOfFinite, FS_StrictSubsetOrderingWellFounded
<1>2. T \subseteq SUBSET S /\ T # {}
  <2>1. \A m \in I : 1..m \subseteq S
    BY SMT
  <2> QED  BY <2>1
<1>3. PICK X \in T : \A Y \in T : <<Y, X>> \notin R
  <2> HIDE DEF R, T, S
  <2> QED  BY <1>1, <1>2, WFMin
<1>4. PICK m \in I : X = 1..m
  OBVIOUS
<1>5. ASSUME NEW k \in I
      PROVE  m <= k
  <2>1. <<1..k, 1..m>> \notin R
    BY <1>3, <1>4
  <2>2. CASE k < m
    <3>1. k \in Nat /\ m \in Nat /\ k <= n /\ m <= n /\ m \in 1..m /\ m \notin 1..k
      BY <2>2
    <3>2. 1..k \subseteq 1..m /\ 1..k # 1..m /\ 1..k \in SUBSET S /\ 1..m \in SUBSET S
      BY <2>2, <3>1
    <3> QED  BY <2>1, <3>2 DEF StrictSubsetOrdering
  <2> QED  BY <2>2
<1>6. \E x \in I : \A y \in I : x <= y
  BY <1>5
<1> HIDE DEF S, T, R
<1> QED  BY <1>6 DEF Min

LEMMA AppendReads ==
    ASSUME NEW T, NEW q \in Seq(T), NEW m \in T
    PROVE  /\ Append(q, m) \in Seq(T) /\ Len(Append(q, m)) = Len(q) + 1
           /\ \A n \in 1..Len(q) : Append(q, m)[n] = q[n]
           /\ Append(q, m)[Len(q) + 1] = m
OBVIOUS

LEMMA TailReads ==
    ASSUME NEW T, NEW q \in Seq(T), q # <<>>
    PROVE  /\ Tail(q) \in Seq(T) /\ Len(q) > 0 /\ Len(Tail(q)) = Len(q) - 1
           /\ Head(q) = q[1] /\ q[1] \in T
           /\ \A n \in 1..Len(q) - 1 : Tail(q)[n] = q[n + 1]
OBVIOUS

LEMMA RemovedAt ==
    ASSUME NEW T, NEW q \in Seq(T), NEW k \in 1..Len(q)
    PROVE  /\ RemoveAt(q, k) \in Seq(T) /\ Len(RemoveAt(q, k)) = Len(q) - 1
           /\ \A n \in 1..Len(q) - 1 : RemoveAt(q, k)[n] = IF n < k THEN q[n] ELSE q[n + 1]
<1> DEFINE a == SubSeq(q, 1, k - 1)
           b == SubSeq(q, k + 1, Len(q))
<1>1. a \in Seq(T) /\ Len(a) = k - 1 /\ \A n \in 1..k - 1 : a[n] = q[n]
  OBVIOUS
<1>2. b \in Seq(T) /\ Len(b) = Len(q) - k /\ \A n \in 1..Len(q) - k : b[n] = q[n + k]
  OBVIOUS
<1>3. RemoveAt(q, k) = a \o b
  BY DEF RemoveAt
<1> HIDE DEF a, b
<1>4. Len(q) \in Nat /\ k \in Nat /\ k >= 1 /\ k <= Len(q)
  OBVIOUS
<1>5. /\ a \o b \in Seq(T) /\ Len(a \o b) = Len(a) + Len(b)
      /\ \A n \in 1..Len(a) + Len(b) : (a \o b)[n] = IF n <= Len(a) THEN a[n] ELSE b[n - Len(a)]
  BY <1>1, <1>2, ConcatProperties
<1>6. Len(a) + Len(b) = Len(q) - 1
  BY <1>1, <1>2, <1>4
<1>7. ASSUME NEW n \in 1..Len(q) - 1
      PROVE  (a \o b)[n] = IF n < k THEN q[n] ELSE q[n + 1]
  <2>1. CASE n < k
    BY <1>1, <1>4, <1>5, <1>6, <2>1
  <2>2. CASE n >= k
    <3>1. (a \o b)[n] = b[n - (k - 1)] /\ n - (k - 1) \in 1..Len(q) - k
      BY <1>1, <1>4, <1>5, <1>6, <2>2
    <3>2. b[n - (k - 1)] = q[n - (k - 1) + k] /\ n - (k - 1) + k = n + 1
      BY <1>2, <1>4, <3>1
    <3> QED  BY <2>2, <3>1, <3>2
  <2>3. n < k \/ n >= k
    BY <1>4
  <2> QED  BY <2>1, <2>2, <2>3
<1> QED  BY <1>3, <1>5, <1>6, <1>7

LEMMA SentReads ==
    ASSUME NEW T, NEW wire \in [Socks -> Seq(T)], NEW s \in Socks, NEW m \in T
    PROVE  /\ Sent(wire, s, m) \in [Socks -> Seq(T)]
           /\ \A x \in Socks : x # s \/ s \in cut => Sent(wire, s, m)[x] = wire[x]
           /\ s \notin cut => Sent(wire, s, m)[s] = Append(wire[s], m)
BY AppendReads DEF Sent

(* The connection of a socket is one of its connections, if it has any, and  *)
(* the same of an instance.                                                  *)
LEMMA ConnOfFinds ==
    ASSUME TypeOK, NEW s
    PROVE  \/ ConnOf(s) = 0 /\ \A n \in 1..Len(conns) : conns[n].ws # s
           \/ ConnOf(s) \in 1..Len(conns) /\ conns[ConnOf(s)].ws = s
<1> DEFINE I == {n \in 1..Len(conns) : conns[n].ws = s}
<1>1. ConnOf(s) = IF I # {} THEN Min(I) ELSE 0
  BY DEF ConnOf, SelectInSeq
<1>2. I # {} => Min(I) \in I
  <2>1. Len(conns) \in Nat /\ I \in SUBSET (1..Len(conns))
    BY DEF TypeOK
  <2> HIDE DEF I
  <2> QED  BY <2>1, SmallestOf
<1> QED  BY <1>1, <1>2

LEMMA ConnWithFinds ==
    ASSUME TypeOK, NEW i
    PROVE  \/ ConnWith(i) = 0
           \/ ConnWith(i) \in 1..Len(conns) /\ i \in DOMAIN conns[ConnWith(i)].pods
<1> DEFINE I == {n \in 1..Len(conns) : i \in DOMAIN conns[n].pods}
<1>1. ConnWith(i) = IF I # {} THEN Min(I) ELSE 0
  BY DEF ConnWith, SelectInSeq
<1>2. I # {} => Min(I) \in I
  <2>1. Len(conns) \in Nat /\ I \in SUBSET (1..Len(conns))
    BY DEF TypeOK
  <2> HIDE DEF I
  <2> QED  BY <2>1, SmallestOf
<1> QED  BY <1>1, <1>2

-----------------------------------------------------------------------------
(* What each step makes of the connections                                   *)

LEMMA PodMapTyped ==
    ASSUME NEW f
    PROVE  f \in PodMaps <=>
             f = [j \in DOMAIN f |-> f[j]] /\ DOMAIN f \subseteq Ids /\ \A j \in DOMAIN f : f[j] \subseteq Pods
<1>1. ASSUME f \in PodMaps
      PROVE  f = [j \in DOMAIN f |-> f[j]] /\ DOMAIN f \subseteq Ids /\ \A j \in DOMAIN f : f[j] \subseteq Pods
  <2>1. PICK I \in SUBSET Ids : f \in [I -> SUBSET Pods]
    BY <1>1 DEF PodMaps
  <2> QED  BY <2>1
<1>2. ASSUME f = [j \in DOMAIN f |-> f[j]], DOMAIN f \subseteq Ids, \A j \in DOMAIN f : f[j] \subseteq Pods
      PROVE  f \in PodMaps
  <2>1. f \in [DOMAIN f -> SUBSET Pods] /\ DOMAIN f \in SUBSET Ids
    BY <1>2
  <2> QED  BY <2>1 DEF PodMaps
<1> QED  BY <1>1, <1>2

LEMMA WithTyped ==
    ASSUME NEW f \in PodMaps, NEW i \in Ids, NEW p \in Pods
    PROVE  With(f, i, p) \in PodMaps /\ DOMAIN With(f, i, p) = DOMAIN f \cup {i}
<1> DEFINE g == With(f, i, p)
<1>1. DOMAIN f \subseteq Ids /\ \A j \in DOMAIN f : f[j] \subseteq Pods
  BY PodMapTyped
<1>2. g = [j \in DOMAIN g |-> g[j]] /\ DOMAIN g = DOMAIN f \cup {i}
  BY DEF With
<1>3. \A j \in DOMAIN g : g[j] = (IF j \in DOMAIN f THEN f[j] ELSE {}) \cup (IF j = i THEN {p} ELSE {})
  BY DEF With
<1>4. DOMAIN g \subseteq Ids /\ \A j \in DOMAIN g : g[j] \subseteq Pods
  <2> HIDE DEF g
  <2> QED  BY <1>1, <1>2, <1>3
<1> HIDE DEF g
<1>5. g \in PodMaps
  BY <1>2, <1>4, PodMapTyped
<1> QED  BY <1>2, <1>5 DEF g

LEMMA WithoutTyped ==
    ASSUME NEW f \in PodMaps, NEW i
    PROVE  Without(f, i) \in PodMaps /\ DOMAIN Without(f, i) = DOMAIN f \ {i}
<1> DEFINE g == Without(f, i)
<1>1. DOMAIN f \subseteq Ids /\ \A j \in DOMAIN f : f[j] \subseteq Pods
  BY PodMapTyped
<1>2. g = [j \in DOMAIN g |-> g[j]] /\ DOMAIN g = DOMAIN f \ {i} /\ \A j \in DOMAIN g : g[j] = f[j]
  BY DEF Without
<1>3. DOMAIN g \subseteq Ids /\ \A j \in DOMAIN g : g[j] \subseteq Pods
  <2> HIDE DEF g
  <2> QED  BY <1>1, <1>2
<1> HIDE DEF g
<1>4. g \in PodMaps
  BY <1>2, <1>3, PodMapTyped
<1> QED  BY <1>2, <1>4 DEF g

LEMMA NewTyped ==
    ASSUME NEW i \in Ids, NEW p \in Pods
    PROVE  [j \in {i} |-> {p}] \in PodMaps
<1> DEFINE g == [j \in {i} |-> {p}]
<1>1. DOMAIN g = {i} /\ g = [j \in DOMAIN g |-> g[j]] /\ \A j \in DOMAIN g : g[j] = {p}
  OBVIOUS
<1> HIDE DEF g
<1>2. g \in PodMaps
  BY <1>1, PodMapTyped
<1> QED  BY <1>2 DEF g

LEMMA ConnsTyped ==
    ASSUME TypeOK
    PROVE  /\ conns \in Seq(Connections) /\ Len(conns) \in Nat
           /\ \A n \in 1..Len(conns) : conns[n] \in Connections
           /\ \A n \in 1..Len(conns) : conns[n].ws \in Socks /\ conns[n].pods \in PodMaps
<1>1. conns \in Seq(Connections)
  BY DEF TypeOK
<1>2. \A c \in Connections : c.ws \in Socks /\ c.pods \in PodMaps
  BY DEF Connections
<1> QED  BY <1>1, <1>2

LEMMA Replaced ==
    ASSUME NEW T, NEW q \in Seq(T), NEW k \in 1..Len(q), NEW c \in T
    PROVE  LET r == [q EXCEPT ![k] = c]
           IN  /\ r \in Seq(T) /\ Len(r) = Len(q) /\ r[k] = c
               /\ \A n \in 1..Len(q) : n # k => r[n] = q[n]
OBVIOUS

(* TakeReconnect moves one connection, if any, to the socket, and tells it.  *)
LEMMA ReconnectReads ==
    ASSUME TypeOK, NEW s \in Socks, TakeReconnect(s), NEW k, k = ConnWith(Head(up[s]).inst)
    PROVE  /\ conns' \in Seq(Connections) /\ Len(conns') = Len(conns)
           /\ \A n \in 1..Len(conns) : conns'[n].pods = conns[n].pods
           /\ \A n \in 1..Len(conns) : conns'[n].ws = IF n = k THEN s ELSE conns[n].ws
           /\ k # 0 => k \in 1..Len(conns) /\ Head(up[s]).inst \in DOMAIN conns[k].pods
           /\ down' = Sent(down, s, Message(IF k = 0 THEN "lost" ELSE "resumed", Head(up[s]).inst))
<1> DEFINE i == Head(up[s]).inst
<1>1. k = 0 \/ (k \in 1..Len(conns) /\ i \in DOMAIN conns[k].pods)
  BY ConnWithFinds
<1>2. CASE k = 0
  BY <1>2, ConnsTyped DEF TakeReconnect
<1>3. CASE k # 0
  <2> DEFINE c == [conns[k] EXCEPT !.ws = s]
  <2>1. c \in Connections /\ c.ws = s /\ c.pods = conns[k].pods
    BY <1>1, <1>3, ConnsTyped DEF Connections
  <2>2. conns' = [conns EXCEPT ![k] = c]
    BY <1>3 DEF TakeReconnect
  <2>3. down' = Sent(down, s, Message("resumed", i))
    BY <1>3 DEF TakeReconnect
  <2> HIDE DEF c
  <2> QED  BY <1>1, <1>3, <2>1, <2>2, <2>3, ConnsTyped, Replaced
<1> QED  BY <1>2, <1>3

(* TakeStop takes an instance from the connection of the socket, if any.     *)
LEMMA StopReads ==
    ASSUME TypeOK, NEW s \in Socks, TakeStop(s)
    PROVE  /\ conns' \in Seq(Connections) /\ Len(conns') = Len(conns)
           /\ \A n \in 1..Len(conns) : conns'[n].ws = conns[n].ws
           /\ \A n \in 1..Len(conns) : conns[n].ws # s => conns'[n] = conns[n]
<1> DEFINE k == ConnOf(s)
<1>1. \/ k = 0 /\ \A n \in 1..Len(conns) : conns[n].ws # s
      \/ k \in 1..Len(conns) /\ conns[k].ws = s
  BY ConnOfFinds
<1>2. CASE k = 0
  BY <1>2, ConnsTyped DEF TakeStop
<1>3. CASE k # 0
  <2> DEFINE c == [conns[k] EXCEPT !.pods = Without(@, Head(up[s]).inst)]
  <2>1. c \in Connections /\ c.ws = s
    <3>1. conns[k] \in Connections /\ conns[k].pods \in PodMaps /\ conns[k].ws = s
      BY <1>1, <1>3, ConnsTyped
    <3> HIDE DEF k
    <3>2. c = [ws |-> s, pods |-> Without(conns[k].pods, Head(up[s]).inst)]
      BY <3>1 DEF Connections
    <3> QED  BY <3>1, <3>2, WithoutTyped DEF Connections
  <2>2. conns' = [conns EXCEPT ![k] = c]
    BY <1>3 DEF TakeStop
  <2> HIDE DEF c, k
  <2> QED  BY <1>1, <1>3, <2>1, <2>2, ConnsTyped, Replaced
<1> QED  BY <1>2, <1>3

(* WatchReports gives a socket that has no connection its own.               *)
LEMMA ReportReads ==
    ASSUME TypeOK, NEW s \in Socks, NEW i \in Ids, NEW p \in Pods, WatchReports(s, i, p)
    PROVE  /\ conns' \in Seq(Connections) /\ Len(conns') \in {Len(conns), Len(conns) + 1}
           /\ \A n \in 1..Len(conns) : conns'[n].ws = conns[n].ws /\ DOMAIN conns[n].pods \subseteq DOMAIN conns'[n].pods
           /\ Len(conns') # Len(conns) => conns'[Len(conns) + 1].ws = s /\ \A n \in 1..Len(conns) : conns[n].ws # s
<1> DEFINE k == ConnOf(s)
<1>1. \/ k = 0 /\ \A n \in 1..Len(conns) : conns[n].ws # s
      \/ k \in 1..Len(conns) /\ conns[k].ws = s
  BY ConnOfFinds
<1>2. CASE k = 0
  <2> DEFINE c == [ws |-> s, pods |-> [j \in {i} |-> {p}]]
  <2>1. c \in Connections /\ c.ws = s
    BY NewTyped DEF Connections
  <2>2. conns' = Append(conns, c)
    BY <1>2 DEF WatchReports
  <2> HIDE DEF c, k
  <2>3. /\ conns' \in Seq(Connections) /\ Len(conns') = Len(conns) + 1
        /\ \A n \in 1..Len(conns) : conns'[n] = conns[n]
        /\ conns'[Len(conns) + 1] = c
    BY <2>1, <2>2, ConnsTyped, AppendReads
  <2>4. Len(conns) \in Nat /\ 0 \notin 1..Len(conns)
    BY ConnsTyped
  <2> QED  BY <1>1, <1>2, <2>1, <2>3, <2>4
<1>3. CASE k # 0
  <2> DEFINE c == [conns[k] EXCEPT !.pods = With(@, i, p)]
  <2>1. c \in Connections /\ c.ws = s /\ DOMAIN conns[k].pods \subseteq DOMAIN c.pods
    <3>1. conns[k] \in Connections /\ conns[k].pods \in PodMaps /\ conns[k].ws = s
      BY <1>1, <1>3, ConnsTyped
    <3> HIDE DEF k
    <3>2. c = [ws |-> s, pods |-> With(conns[k].pods, i, p)]
      BY <3>1 DEF Connections
    <3>3. With(conns[k].pods, i, p) \in PodMaps /\ DOMAIN conns[k].pods \subseteq DOMAIN With(conns[k].pods, i, p)
      <4> DEFINE f == conns[k].pods
      <4>1. f \in PodMaps
        BY <3>1
      <4> HIDE DEF f
      <4>2. With(f, i, p) \in PodMaps /\ DOMAIN With(f, i, p) = DOMAIN f \cup {i}
        BY <4>1, WithTyped
      <4> QED  BY <4>2 DEF f
    <3> HIDE DEF c
    <3> QED  BY <3>2, <3>3 DEF Connections
  <2>2. conns' = [conns EXCEPT ![k] = c]
    BY <1>3 DEF WatchReports
  <2> HIDE DEF c, k
  <2>3. /\ conns' \in Seq(Connections) /\ Len(conns') = Len(conns) /\ conns'[k] = c
        /\ \A n \in 1..Len(conns) : n # k => conns'[n] = conns[n]
    BY <1>1, <1>3, <2>1, <2>2, ConnsTyped, Replaced
  <2> QED  BY <1>1, <1>3, <2>1, <2>3
<1> QED  BY <1>2, <1>3

(* CoreCloses removes at most a connection of the socket, of a channel that  *)
(* does not resume.                                                          *)
LEMMA ClosesReads ==
    ASSUME TypeOK, NEW s \in Socks, CoreCloses(s)
    PROVE  /\ conns' \in Seq(Connections)
           /\ \/ conns' = conns
              \/ /\ kind = "restart"
                 /\ \E k \in 1..Len(conns) :
                      /\ Len(conns') = Len(conns) - 1
                      /\ \A n \in 1..Len(conns) - 1 : conns'[n] = IF n < k THEN conns[n] ELSE conns[n + 1]
<1> DEFINE k == ConnOf(s)
<1>1. CASE kind = "restart" /\ k # 0
  <2>1. k \in 1..Len(conns)
    BY <1>1, ConnOfFinds
  <2>2. conns' = RemoveAt(conns, k)
    BY <1>1 DEF CoreCloses
  <2> HIDE DEF k
  <2> QED  BY <1>1, <2>1, <2>2, ConnsTyped, RemovedAt
<1>2. CASE ~ (kind = "restart" /\ k # 0)
  <2>1. conns' = conns
    BY <1>2, Zenon DEF CoreCloses
  <2> QED  BY <2>1, ConnsTyped
<1> QED  BY <1>1, <1>2

-----------------------------------------------------------------------------
(* Types                                                                     *)

LEMMA MessageTyped ==
    ASSUME TypeOK
    PROVE  /\ \A t \in {"start", "stop", "reconnect"} : Message(t, NoId) \in Requests /\ Message(t, inst) \in Requests
           /\ \A t \in {"started", "resumed", "lost"}, i \in Ids \cup {NoId} : Message(t, i) \in Answers
BY DEF TypeOK, Message, Requests, Answers

LEMMA UpSent ==
    ASSUME TypeOK, NEW s \in Socks, NEW m \in Requests
    PROVE  /\ Sent(up, s, m) \in [Socks -> Seq(Requests)]
           /\ \A x \in Socks : x # s \/ s \in cut => Sent(up, s, m)[x] = up[x]
           /\ s \notin cut => Sent(up, s, m)[s] = Append(up[s], m)
<1>1. up \in [Socks -> Seq(Requests)]
  BY DEF TypeOK
<1> QED  BY <1>1, SentReads

LEMMA DownSent ==
    ASSUME TypeOK, NEW s \in Socks, NEW m \in Answers
    PROVE  /\ Sent(down, s, m) \in [Socks -> Seq(Answers)]
           /\ \A x \in Socks : x # s \/ s \in cut => Sent(down, s, m)[x] = down[x]
           /\ s \notin cut => Sent(down, s, m)[s] = Append(down[s], m)
<1>1. down \in [Socks -> Seq(Answers)]
  BY DEF TypeOK
<1> QED  BY <1>1, SentReads

LEMMA IsOpenTyped ==
    ASSUME TypeOK, IsOpen(ws)
    PROVE  ws \in Socks /\ front[ws] = "open"
BY DEF TypeOK, IsOpen

LEMMA DialReads ==
    ASSUME Dial
    PROVE  ws' \in Socks /\ Unused(ws')
BY DEF Dial

LEMMA CoreReadsTyped ==
    ASSUME TypeOK, NEW s \in Socks, NEW t, CoreReads(s, t)
    PROVE  /\ up' \in [Socks -> Seq(Requests)] /\ up' = [up EXCEPT ![s] = Tail(@)]
           /\ up[s] \in Seq(Requests) /\ up[s] # <<>> /\ Head(up[s]) \in Requests /\ Head(up[s]).type = t
           /\ Head(up[s]).inst \in Ids \cup {NoId} /\ back[s] = "open"
           /\ tab' = tab /\ front' = front /\ back' = back /\ cut' = cut /\ bounds' = bounds
<1>1. up[s] \in Seq(Requests) /\ up[s] # <<>> /\ up' = [up EXCEPT ![s] = Tail(@)] /\ Head(up[s]).type = t /\ back[s] = "open"
  BY DEF TypeOK, CoreReads
<1>2. Head(up[s]) \in Requests /\ Tail(up[s]) \in Seq(Requests)
  BY <1>1, TailReads
<1>3. Head(up[s]).inst \in Ids \cup {NoId}
  BY <1>2 DEF Requests
<1>4. up' \in [Socks -> Seq(Requests)]
  BY <1>1, <1>2 DEF TypeOK
<1>5. tab' = tab /\ front' = front /\ back' = back /\ cut' = cut /\ bounds' = bounds
  BY DEF CoreReads
<1> QED  BY <1>1, <1>2, <1>3, <1>4, <1>5

LEMMA FrontReadsTyped ==
    ASSUME TypeOK, NEW s \in Socks, FrontReads(s)
    PROVE  /\ down[s] \in Seq(Answers) /\ down[s] # <<>> /\ Head(down[s]) \in Answers
           /\ Head(down[s]).type \in {"started", "resumed", "lost"}
<1>1. down[s] \in Seq(Answers) /\ down[s] # <<>>
  BY DEF FrontReads, TypeOK
<1>2. Head(down[s]) \in Answers
  BY <1>1, TailReads
<1> QED  BY <1>1, <1>2 DEF Answers

LEMMA SendStartTyped ==
    ASSUME TypeOK, ws \in Socks, SendStart
    PROVE  /\ bound' = bound \cup {ws} /\ started' = TRUE
           /\ up' = Sent(up, ws, Message("start", NoId)) /\ up' \in [Socks -> Seq(Requests)]
BY MessageTyped, UpSent DEF SendStart

LEMMA StopTabTyped ==
    ASSUME TypeOK, StopTab
    PROVE  /\ started' = FALSE /\ up' \in [Socks -> Seq(Requests)]
           /\ IsOpen(ws) => up' = Sent(up, ws, Message("stop", inst))
           /\ ~ IsOpen(ws) => up' = up
<1>1. CASE IsOpen(ws)
  BY <1>1, IsOpenTyped, MessageTyped, UpSent DEF StopTab
<1>2. CASE ~ IsOpen(ws)
  BY <1>2 DEF StopTab, TypeOK
<1> QED  BY <1>1, <1>2

LEMMA FaultTyped ==
    ASSUME TypeOK, NEW w, Fault(w)
    PROVE  faults' \in 0..MaxFaults
BY TabFaultsAssumption DEF TypeOK, Fault

LEMMA OpensTyped ==
    ASSUME TypeOK, NEW s \in Socks, Opens(s)
    PROVE  /\ front' = [front EXCEPT ![s] = "open"] /\ back' = [back EXCEPT ![s] = "open"]
           /\ front' \in [Socks -> {"none", "dialing", "open", "closed"}] /\ back' \in [Socks -> {"none", "open", "closed"}]
           /\ interval' \in BOOLEAN /\ older' \subseteq Socks /\ front[s] = "dialing"
           /\ kind' = kind /\ ws' = ws /\ down' = down /\ cut' = cut /\ core' = core /\ bounds' = bounds
BY DEF Opens, TypeOK

LEMMA TabTyped ==
    ASSUME TypeOK,
           \/ UserStart \/ UserStop \/ Dial
           \/ \E s \in Socks : \/ OpensToResume(s) \/ OpensToRestart(s) \/ DialFails(s)
                               \/ OnClose(s) \/ FrontReads(s)
    PROVE  TypeOK'
<1>1. CASE UserStart
  <2>1. up' \in [Socks -> Seq(Requests)] /\ bound' \subseteq Socks /\ started' = TRUE
    BY <1>1, IsOpenTyped, SendStartTyped DEF UserStart, TypeOK
  <2> QED  BY <1>1, <2>1 DEF UserStart, TypeOK, core, bounds
<1>2. CASE UserStop
  <2>1. up' \in [Socks -> Seq(Requests)] /\ started' = FALSE
    BY <1>2, StopTabTyped DEF UserStop
  <2>2. stops' \in 0..MaxStops
    BY <1>2, TabFaultsAssumption DEF UserStop, TypeOK
  <2> QED  BY <1>2, <2>1, <2>2 DEF UserStop, TypeOK, core
<1>3. CASE Dial
  <2>1. ws' \in Socks
    BY <1>3, DialReads
  <2> QED  BY <1>3, <2>1 DEF Dial, TypeOK, core, bounds
<1>4. ASSUME NEW s \in Socks, OpensToResume(s)
      PROVE  TypeOK'
  <2>1. up' \in [Socks -> Seq(Requests)] /\ bound' \subseteq Socks
    <3>1. CASE s = ws
      BY <1>4, <3>1, MessageTyped, UpSent DEF OpensToResume, TypeOK
    <3>2. CASE s # ws
      BY <1>4, <3>2 DEF OpensToResume, TypeOK
    <3> QED  BY <3>1, <3>2
  <2>2. Opens(s) /\ inst' = inst /\ started' = started
    BY <1>4 DEF OpensToResume
  <2> QED  BY <2>1, <2>2, OpensTyped DEF TypeOK, core, bounds
<1>5. ASSUME NEW s \in Socks, OpensToRestart(s)
      PROVE  TypeOK'
  <2>1. up' \in [Socks -> Seq(Requests)] /\ bound' \subseteq Socks /\ started' \in BOOLEAN
    <3>1. CASE ws = s \/ IsOpen(ws)
      BY <1>5, <3>1, IsOpenTyped, SendStartTyped DEF OpensToRestart, TypeOK
    <3>2. CASE ~ (ws = s \/ IsOpen(ws))
      BY <1>5, <3>2 DEF OpensToRestart, TypeOK
    <3> QED  BY <3>1, <3>2
  <2>2. Opens(s) /\ inst' = NoId
    BY <1>5 DEF OpensToRestart
  <2> QED  BY <2>1, <2>2, OpensTyped DEF TypeOK, core, bounds
<1>6. ASSUME NEW s \in Socks, DialFails(s)
      PROVE  TypeOK'
  <2>1. faults' \in 0..MaxFaults
    BY <1>6, FaultTyped DEF DialFails
  <2> QED  BY <1>6, <2>1 DEF DialFails, TypeOK, tab, core
<1>7. ASSUME NEW s \in Socks, OnClose(s)
      PROVE  TypeOK'
  <2>1. front' \in [Socks -> {"none", "dialing", "open", "closed"}] /\ down' \in [Socks -> Seq(Answers)]
    BY <1>7 DEF OnClose, TypeOK
  <2>2. bound' \subseteq Socks /\ ws' \in Socks \cup {NoSock} /\ interval' \in BOOLEAN /\ older' \subseteq Socks
    BY <1>7 DEF OnClose, TypeOK
  <2> QED  BY <1>7, <2>1, <2>2 DEF OnClose, TypeOK, core, bounds
<1>8. ASSUME NEW s \in Socks, FrontReads(s)
      PROVE  TypeOK'
  <2>1. down[s] \in Seq(Answers) /\ down[s] # <<>>
    BY <1>8 DEF FrontReads, TypeOK
  <2>2. Tail(down[s]) \in Seq(Answers) /\ Head(down[s]) \in Answers
    BY <2>1, TailReads
  <2>3. Head(down[s]).type \in {"started", "resumed", "lost"} /\ Head(down[s]).inst \in Ids \cup {NoId}
    BY <2>2 DEF Answers
  <2>4. down' \in [Socks -> Seq(Answers)]
    BY <1>8, <2>2 DEF FrontReads, TypeOK
  <2>5. inst' \in Ids \cup {NoId} /\ started' \in BOOLEAN /\ up' \in [Socks -> Seq(Requests)]
    <3>1. CASE s # ws \/ s \notin bound
      BY <1>8, <3>1 DEF FrontReads, TypeOK
    <3>2. CASE ~ (s # ws \/ s \notin bound) /\ Head(down[s]).type = "started"
      BY <1>8, <2>3, <3>2 DEF FrontReads, TypeOK
    <3>3. CASE ~ (s # ws \/ s \notin bound) /\ Head(down[s]).type = "resumed"
      BY <1>8, <3>3 DEF FrontReads, TypeOK
    <3>4. CASE ~ (s # ws \/ s \notin bound) /\ Head(down[s]).type = "lost"
      <4>1. StopTab /\ inst' = inst
        BY <1>8, <3>4 DEF FrontReads
      <4> QED  BY <4>1, StopTabTyped DEF TypeOK
    <3> QED  BY <2>3, <3>1, <3>2, <3>3, <3>4
  <2> QED  BY <1>8, <2>4, <2>5 DEF FrontReads, TypeOK, core, bounds
<1> QED  BY <1>1, <1>2, <1>3, <1>4, <1>5, <1>6, <1>7, <1>8

LEMMA AcceptReads ==
    ASSUME TypeOK, NEW s \in Socks, Accept(s)
    PROVE  /\ begun[s] > 0 /\ begun' = [begun EXCEPT ![s] = @ - 1]
           /\ tab' = tab /\ front' = front /\ back' = back /\ up' = up /\ cut' = cut
           /\ conns' = conns /\ pods' = pods /\ serving' = serving /\ astray' = (astray /\ s # ws) /\ bounds' = bounds
           /\ back[s] = "open" => \E i \in Ids : /\ down' = Sent(down, s, Message("started", i))
                                                 /\ watch' = watch \cup {<<s, i>>}
           /\ back[s] # "open" => down' = down /\ watch' = watch
<1>1. CASE back[s] = "open"
  <2>1. \E i \in Ids : i \notin InUse
    BY <1>1 DEF Accept
  <2>2. (CHOOSE i \in Ids : i \notin InUse) \in Ids
    BY <2>1
  <2> QED  BY <1>1, <2>2 DEF Accept
<1>2. CASE back[s] # "open"
  BY <1>2 DEF Accept
<1> QED  BY <1>1, <1>2

(* TurnAway drops a request.                                                *)
LEMMA TurnAwayReads ==
    ASSUME TypeOK, NEW s \in Socks, TurnAway(s)
    PROVE  /\ \E t \in {"start", "stop", "reconnect"} :
                CoreReads(s, t) /\ astray' = (astray \/ (s = ws /\ t # "stop"))
           /\ astray' \in BOOLEAN /\ down' = down /\ serving' = serving
           /\ begun' = begun /\ conns' = conns /\ watch' = watch /\ pods' = pods
BY DEF TurnAway, TypeOK

(* Deny ends a START.                                                        *)
LEMMA DenyReads ==
    ASSUME TypeOK, NEW s \in Socks, Deny(s)
    PROVE  /\ begun[s] > 0 /\ begun' = [begun EXCEPT ![s] = @ - 1] /\ begun' \in [Socks -> Nat]
           /\ astray' = (astray \/ s = ws) /\ tab' = tab /\ net' = net /\ bounds' = bounds
           /\ conns' = conns /\ watch' = watch /\ pods' = pods /\ serving' = serving
<1>1. begun \in [Socks -> Nat] /\ begun[s] > 0 /\ begun' = [begun EXCEPT ![s] = @ - 1]
  BY DEF Deny, TypeOK
<1>2. begun' \in [Socks -> Nat]
  BY <1>1
<1> QED  BY <1>1, <1>2 DEF Deny

LEMMA ServesTyped ==
    ASSUME TypeOK, NEW s \in Socks, Serves(s)
    PROVE  TypeOK'
<1>1. CASE TakeStart(s)
  <2>1. CoreReads(s, "start") /\ begun' = [begun EXCEPT ![s] = @ + 1]
    BY <1>1 DEF TakeStart
  <2>2. begun' \in [Socks -> Nat]
    BY <2>1 DEF TypeOK
  <2> QED  BY <1>1, <2>1, <2>2, CoreReadsTyped DEF TakeStart, TypeOK, tab, bounds
<1>2. CASE Accept(s)
  <2>1. begun' \in [Socks -> Nat]
    <3>1. begun \in [Socks -> Nat] /\ begun[s] > 0 /\ begun' = [begun EXCEPT ![s] = @ - 1]
      BY <1>2, AcceptReads DEF TypeOK
    <3> QED  BY <3>1
  <2>2. down' \in [Socks -> Seq(Answers)] /\ watch' \subseteq Socks \X Ids
    <3>1. CASE back[s] = "open"
      <4>1. \E i \in Ids : /\ down' = Sent(down, s, Message("started", i))
                           /\ watch' = watch \cup {<<s, i>>}
        BY <1>2, <3>1, AcceptReads
      <4>2. PICK i \in Ids : down' = Sent(down, s, Message("started", i)) /\ watch' = watch \cup {<<s, i>>}
        BY <4>1
      <4>3. Message("started", i) \in Answers
        BY MessageTyped
      <4>4. down' \in [Socks -> Seq(Answers)]
        BY <4>2, <4>3, DownSent
      <4> QED  BY <4>2, <4>4 DEF TypeOK
    <3>2. CASE back[s] # "open"
      BY <1>2, <3>2, AcceptReads DEF TypeOK
    <3> QED  BY <3>1, <3>2
  <2>3. astray' \in BOOLEAN
    BY <1>2, AcceptReads
  <2> QED  BY <1>2, <2>1, <2>2, <2>3, AcceptReads DEF TypeOK, tab, bounds
<1>3. CASE TakeReconnect(s)
  <2>1. CoreReads(s, "reconnect")
    BY <1>3 DEF TakeReconnect
  <2>2. conns' \in Seq(Connections) /\ down' \in [Socks -> Seq(Answers)]
    BY <1>3, <2>1, CoreReadsTyped, ReconnectReads, MessageTyped, DownSent
  <2>3. astray' \in BOOLEAN
    BY <1>3 DEF TakeReconnect
  <2> QED  BY <1>3, <2>1, <2>2, <2>3, CoreReadsTyped DEF TakeReconnect, TypeOK, tab, bounds
<1>4. CASE TakeStop(s)
  <2>1. CoreReads(s, "stop")
    BY <1>4 DEF TakeStop
  <2>2. conns' \in Seq(Connections)
    BY <1>4, StopReads
  <2> QED  BY <1>4, <2>1, <2>2, CoreReadsTyped DEF TakeStop, TypeOK, tab, bounds
<1>5. CASE CoreCloses(s)
  <2>1. conns' \in Seq(Connections)
    BY <1>5, ClosesReads
  <2>2. up' \in [Socks -> Seq(Requests)] /\ back' \in [Socks -> {"none", "open", "closed"}]
    BY <1>5 DEF CoreCloses, TypeOK
  <2> QED  BY <1>5, <2>1, <2>2 DEF CoreCloses, TypeOK, tab, bounds
<1>6. CASE TurnAway(s)
  <2>1. PICK t \in {"start", "stop", "reconnect"} : CoreReads(s, t)
    BY <1>6, TurnAwayReads
  <2> QED  BY <1>6, <2>1, CoreReadsTyped, TurnAwayReads DEF TypeOK, tab, bounds
<1>7. CASE Deny(s)
  <2>1. astray' \in BOOLEAN
    BY <1>7, DenyReads
  <2> QED  BY <1>7, <2>1, DenyReads DEF TypeOK, tab, net, bounds
<1> QED  BY <1>1, <1>2, <1>3, <1>4, <1>5, <1>6, <1>7 DEF Serves

LEMMA OtherTyped ==
    ASSUME TypeOK,
           \/ \E s \in Socks : Drop(s)
           \/ \E s \in Socks, i \in Ids : WatchEnds(s, i) \/ \E p \in Pods : WatchReports(s, i, p)
           \/ PodStarts \/ Reload \/ Restart \/ Serve
    PROVE  TypeOK'
<1>1. ASSUME NEW s \in Socks, Drop(s)
      PROVE  TypeOK'
  <2>1. faults' \in 0..MaxFaults
    BY <1>1, FaultTyped DEF Drop
  <2> QED  BY <1>1, <2>1 DEF Drop, TypeOK, tab, core
<1>2. ASSUME NEW s \in Socks, NEW i \in Ids, WatchEnds(s, i)
      PROVE  TypeOK'
  BY <1>2 DEF WatchEnds, TypeOK, tab, net, bounds
<1>3. ASSUME NEW s \in Socks, NEW i \in Ids, NEW p \in Pods, WatchReports(s, i, p)
      PROVE  TypeOK'
  <2>1. conns' \in Seq(Connections)
    BY <1>3, ReportReads
  <2> QED  BY <1>3, <2>1 DEF WatchReports, TypeOK, tab, net, bounds
<1>4. CASE PodStarts
  BY <1>4 DEF PodStarts, TypeOK, tab, net, bounds
<1>5. CASE Reload
  <2>1. faults' \in 0..MaxFaults
    BY <1>5, FaultTyped DEF Reload
  <2>2. back' \in [Socks -> {"none", "open", "closed"}] /\ up' \in [Socks -> Seq(Requests)] /\ cut' \subseteq Socks
    BY <1>5 DEF Reload, TypeOK
  <2>3. conns' \in Seq(Connections)
    BY <1>5 DEF Reload
  <2> QED  BY <1>5, <2>1, <2>2, <2>3 DEF Reload, TypeOK, tab
<1>6. CASE Restart
  <2>1. faults' \in 0..MaxFaults
    BY <1>6, FaultTyped DEF Restart
  <2>2. back' \in [Socks -> {"none", "open", "closed"}] /\ up' \in [Socks -> Seq(Requests)] /\ cut' \subseteq Socks
    BY <1>6 DEF Restart, TypeOK
  <2>3. conns' \in Seq(Connections) /\ begun' \in [Socks -> Nat] /\ watch' \subseteq Socks \X Ids
    BY <1>6 DEF Restart
  <2> QED  BY <1>6, <2>1, <2>2, <2>3 DEF Restart, TypeOK, tab
<1>7. CASE Serve
  BY <1>7 DEF Serve, TypeOK, tab, net, bounds
<1> QED  BY <1>1, <1>2, <1>3, <1>4, <1>5, <1>6, <1>7

LEMMA TypeNext == TypeOK /\ [Next]_vars => TypeOK'
<1> SUFFICES ASSUME TypeOK, [Next]_vars
             PROVE  TypeOK'
  OBVIOUS
<1>1. CASE Next
  BY <1>1, TabTyped, ServesTyped, OtherTyped DEF Next
<1>2. CASE UNCHANGED vars
  BY <1>2 DEF TypeOK, vars, tab, net, core, bounds
<1> QED  BY <1>1, <1>2

LEMMA TypeInit == Init => TypeOK
<1> SUFFICES ASSUME Init
             PROVE  TypeOK
  OBVIOUS
<1>1. ws \in Socks
  <2>1. \E s \in Socks : TRUE
    BY SocksAssumption, Zenon
  <2>2. ws = CHOOSE s \in Socks : TRUE
    BY DEF Init
  <2> QED  BY <2>1, <2>2, Zenon
<1>2. /\ front \in [Socks -> {"none", "dialing", "open", "closed"}] /\ back \in [Socks -> {"none", "open", "closed"}]
      /\ up \in [Socks -> Seq(Requests)] /\ down \in [Socks -> Seq(Answers)]
      /\ begun \in [Socks -> Nat] /\ conns \in Seq(Connections) /\ faults \in 0..MaxFaults /\ stops \in 0..MaxStops
  BY TabFaultsAssumption DEF Init
<1> QED  BY <1>1, <1>2, PodsAssumption DEF Init, TypeOK

-----------------------------------------------------------------------------
(* The sockets and their connections                                         *)

(* No RECONNECT is new, nor in another place.                                *)
NoneNew ==
    \A x \in Socks : \A n \in 1..Len(up'[x]) :
      up'[x][n].type = "reconnect" => n \in 1..Len(up[x]) /\ up'[x][n] = up[x][n]

LEMMA SentIsNone ==
    ASSUME SocketInv, NEW s \in Socks, front[s] = "open", NEW m \in Requests, m.type # "reconnect",
           up' = Sent(up, s, m)
    PROVE  NoneNew /\ \A x \in Socks : back[x] # "open" => up'[x] = <<>>
<1> USE DEF SocketInv
<1>1. \A x \in Socks : x # s \/ s \in cut => up'[x] = up[x]
  BY UpSent
<1>2. \A x \in Socks : up[x] \in Seq(Requests)
  BY DEF TypeOK
<1>3. CASE s \in cut
  BY <1>1, <1>2, <1>3 DEF NoneNew, Ends
<1>4. CASE s \notin cut
  <2>1. back[s] = "open" /\ up'[s] = Append(up[s], m)
    BY <1>4, UpSent DEF Ends
  <2>2. Len(up'[s]) = Len(up[s]) + 1 /\ up'[s][Len(up[s]) + 1] = m /\ \A n \in 1..Len(up[s]) : up'[s][n] = up[s][n]
    BY <1>2, <2>1, AppendReads
  <2>3. ASSUME NEW n \in 1..Len(up'[s]), up'[s][n].type = "reconnect"
        PROVE  n \in 1..Len(up[s]) /\ up'[s][n] = up[s][n]
    BY <1>2, <2>2, <2>3
  <2>4. NoneNew
    BY <1>1, <1>2, <2>3 DEF NoneNew
  <2> QED  BY <1>1, <2>1, <2>4 DEF Ends
<1> QED  BY <1>3, <1>4

LEMMA ReadIsNone ==
    ASSUME SocketInv, NEW s \in Socks, NEW t, CoreReads(s, t)
    PROVE  /\ NoneNew /\ \A n \in 1..Len(up'[s]) : up'[s][n].type # "reconnect"
           /\ \A x \in Socks : x # s => up'[x] = up[x]
           /\ back[s] = "open"
<1> USE DEF SocketInv
<1>1. up[s] \in Seq(Requests) /\ up[s] # <<>> /\ up' = [up EXCEPT ![s] = Tail(@)] /\ back[s] = "open"
  BY CoreReadsTyped
<1>2. Len(up'[s]) = Len(up[s]) - 1 /\ Len(up[s]) \in Nat /\ \A n \in 1..Len(up[s]) - 1 : up'[s][n] = up[s][n + 1]
  BY <1>1, TailReads DEF TypeOK
<1>3. ASSUME NEW n \in 1..Len(up'[s])
      PROVE  up'[s][n].type # "reconnect"
  <2>1. n + 1 \in 1..Len(up[s]) /\ n + 1 # 1 /\ up'[s][n] = up[s][n + 1]
    BY <1>2
  <2> QED  BY <2>1 DEF Resumes
<1>4. \A x \in Socks : x # s => up'[x] = up[x]
  BY <1>1 DEF TypeOK
<1> QED  BY <1>1, <1>3, <1>4 DEF NoneNew

(* What keeps Resumes when no RECONNECT is new.                              *)
LEMMA ResumesKept ==
    ASSUME SocketInv, NoneNew, kind' = kind,
           \A x \in Socks :
             (\E n \in 1..Len(up[x]) : up[x][n].type = "reconnect") /\ (\E n \in 1..Len(up'[x]) : up'[x][n].type = "reconnect")
             /\ Fresh(x) /\ down[x] = <<>> /\ kind = "resume"
               => Fresh(x)' /\ down'[x] = <<>> /\ (x = ws' => x = ws /\ inst' = inst)
    PROVE  Resumes'
<1> SUFFICES ASSUME NEW x \in Socks, NEW n \in 1..Len(up'[x]), up'[x][n].type = "reconnect"
             PROVE  /\ n = 1 /\ kind' = "resume" /\ Fresh(x)' /\ down'[x] = <<>>
                    /\ x = ws' => up'[x][n].inst = inst'
  BY DEF Resumes
<1>1. n \in 1..Len(up[x]) /\ up'[x][n] = up[x][n]
  BY DEF NoneNew
<1>2. n = 1 /\ kind = "resume" /\ Fresh(x) /\ down[x] = <<>> /\ (x = ws => up[x][n].inst = inst)
  BY <1>1 DEF SocketInv, Resumes
<1>3. Fresh(x)' /\ down'[x] = <<>> /\ (x = ws' => x = ws /\ inst' = inst)
  BY <1>1, <1>2
<1> QED  BY <1>1, <1>2, <1>3

LEMMA FreshSame ==
    ASSUME begun' = begun, watch' = watch, conns' = conns, NEW x
    PROVE  Fresh(x)' <=> Fresh(x)
BY DEF Fresh

LEMMA SocketsOfUser ==
    ASSUME SocketInv, UserStart \/ UserStop
    PROVE  SocketInv'
<1> USE DEF SocketInv
<1>1. TypeOK'
  BY TabTyped
<1>2. /\ kind' = kind /\ ws' = ws /\ inst' = inst /\ front' = front /\ back' = back /\ down' = down /\ cut' = cut
      /\ begun' = begun /\ watch' = watch /\ conns' = conns
  BY DEF UserStart, UserStop, core
<1>3. NoneNew /\ \A x \in Socks : back[x] # "open" => up'[x] = <<>>
  <2>1. CASE UserStart
    <3>1. Message("start", NoId) \in Requests /\ Message("start", NoId).type # "reconnect"
      BY MessageTyped DEF Message
    <3>2. ws \in Socks /\ front[ws] = "open" /\ up' = Sent(up, ws, Message("start", NoId))
      BY <2>1, IsOpenTyped DEF UserStart, SendStart
    <3> QED  BY <3>1, <3>2, SentIsNone
  <2>2. CASE UserStop
    <3>1. Message("stop", inst) \in Requests /\ Message("stop", inst).type # "reconnect"
      BY MessageTyped DEF Message
    <3>2. CASE IsOpen(ws)
      <4>1. ws \in Socks /\ front[ws] = "open" /\ up' = Sent(up, ws, Message("stop", inst))
        BY <2>2, <3>2, IsOpenTyped DEF UserStop, StopTab
      <4> QED  BY <3>1, <4>1, SentIsNone
    <3>3. CASE ~ IsOpen(ws)
      BY <2>2, <3>3 DEF UserStop, StopTab, NoneNew, Ends
    <3> QED  BY <3>2, <3>3
  <2> QED  BY <2>1, <2>2
<1>4. \A x : Fresh(x)' <=> Fresh(x)
  BY <1>2, FreshSame
<1>5. Resumes'
  BY <1>2, <1>3, <1>4, ResumesKept
<1>6. Ends'
  BY <1>2, <1>3, <1>4 DEF Ends
<1> QED  BY <1>1, <1>2, <1>5, <1>6 DEF OneConnectionEach

LEMMA SocketsOfDial ==
    ASSUME SocketInv, Dial
    PROVE  SocketInv'
<1> USE DEF SocketInv
<1>1. TypeOK'
  BY TabTyped
<1>2. PICK d \in Socks : d = ws' /\ Unused(d)
  BY DialReads
<1>3. /\ kind' = kind /\ inst' = inst /\ up' = up /\ down' = down /\ cut' = cut \ {d}
      /\ begun' = begun /\ watch' = watch /\ conns' = conns
      /\ front' = [front EXCEPT ![d] = "dialing"] /\ back' = [back EXCEPT ![d] = "none"]
  BY <1>2 DEF Dial, core
<1>4. \A x : Fresh(x)' <=> Fresh(x)
  BY <1>3, FreshSame
<1>5. Fresh(d) /\ front[d] # "open" /\ back[d] # "open"
  BY <1>2 DEF Unused, Fresh
<1>6. up[d] = <<>> /\ down[d] = <<>>
  BY <1>2, <1>5 DEF Ends
<1>7. /\ front'[d] = "dialing" /\ back'[d] = "none"
      /\ \A x \in Socks : x # d => front'[x] = front[x] /\ back'[x] = back[x] /\ (x \in cut' <=> x \in cut)
  BY <1>2, <1>3 DEF TypeOK
<1>8. NoneNew /\ \A n \in 1..Len(up'[d]) : up'[d][n].type # "reconnect"
  BY <1>3, <1>6 DEF NoneNew
<1>9. Resumes'
  BY <1>2, <1>3, <1>4, <1>8, ResumesKept
<1>10. Ends'
  <2>1. ASSUME NEW x \in Socks, x # d
        PROVE  /\ front'[x] = "open" => back'[x] = "open" \/ x \in cut'
               /\ back'[x] = "open" => front'[x] = "open" \/ x \in cut'
               /\ back'[x] # "open" => up'[x] = <<>>
               /\ front'[x] # "open" => down'[x] = <<>>
               /\ front'[x] = "dialing" => back'[x] = "none" /\ Fresh(x)'
    BY <1>3, <1>4, <1>7, <2>1 DEF Ends
  <2>2. Fresh(d)'
    BY <1>5, <1>3 DEF Fresh
  <2> QED  BY <1>3, <1>6, <1>7, <2>1, <2>2 DEF Ends
<1> QED  BY <1>1, <1>3, <1>9, <1>10 DEF OneConnectionEach

LEMMA SocketsOfOpens ==
    ASSUME SocketInv, NEW s \in Socks, OpensToResume(s) \/ OpensToRestart(s)
    PROVE  SocketInv'
<1> USE DEF SocketInv
<1>1. TypeOK'
  BY TabTyped
<1>2. Opens(s)
  BY DEF OpensToResume, OpensToRestart
<1>3. /\ kind' = kind /\ ws' = ws /\ down' = down /\ cut' = cut /\ begun' = begun /\ watch' = watch /\ conns' = conns
      /\ front' = [front EXCEPT ![s] = "open"] /\ back' = [back EXCEPT ![s] = "open"] /\ front[s] = "dialing"
  BY <1>2, OpensTyped DEF core
<1>4. \A x : Fresh(x)' <=> Fresh(x)
  BY <1>3, FreshSame
<1>5. back[s] = "none" /\ Fresh(s) /\ up[s] = <<>> /\ down[s] = <<>>
  BY <1>3 DEF Ends
<1>6. /\ front'[s] = "open" /\ back'[s] = "open"
      /\ \A x \in Socks : x # s => front'[x] = front[x] /\ back'[x] = back[x]
  BY <1>3 DEF TypeOK
<1>7. /\ \A x \in Socks : back'[x] # "open" => up'[x] = <<>>
      /\ Resumes'
  <2>1. CASE OpensToResume(s) /\ s = ws
    <3> DEFINE m == Message("reconnect", inst)
    <3>1. m \in Requests /\ m.type = "reconnect" /\ m.inst = inst
      BY MessageTyped DEF Message
    <3>2. up' = Sent(up, s, m) /\ inst' = inst /\ kind = "resume"
      BY <2>1 DEF OpensToResume
    <3> HIDE DEF m
    <3>3. \A x \in Socks : x # s => up'[x] = up[x]
      BY <3>1, <3>2, UpSent
    <3>4. \A n \in 1..Len(up'[s]) : n = 1 /\ up'[s][n].inst = inst
      <4>1. CASE s \in cut
        BY <1>5, <3>1, <3>2, <4>1, UpSent
      <4>2. CASE s \notin cut
        <5>1. up'[s] = Append(<<>>, m)
          BY <1>5, <3>1, <3>2, <4>2, UpSent
        <5>2. Len(up'[s]) = 1 /\ up'[s][1] = m
          BY <3>1, <5>1
        <5> QED  BY <3>1, <5>2
      <4> QED  BY <4>1, <4>2
    <3>5. \A x \in Socks : back'[x] # "open" => up'[x] = <<>>
      BY <1>6, <3>3 DEF Ends
    <3>6. ASSUME NEW x \in Socks, NEW n \in 1..Len(up'[x]), up'[x][n].type = "reconnect"
          PROVE  n = 1 /\ kind' = "resume" /\ Fresh(x)' /\ down'[x] = <<>> /\ (x = ws' => up'[x][n].inst = inst')
      <4>1. CASE x = s
        BY <1>3, <1>4, <1>5, <3>2, <3>4, <4>1
      <4>2. CASE x # s
        BY <1>3, <1>4, <2>1, <3>2, <3>3, <3>6, <4>2 DEF Resumes
      <4> QED  BY <4>1, <4>2
    <3> QED  BY <3>5, <3>6 DEF Resumes
  <2>2. CASE OpensToResume(s) /\ s # ws
    <3>1. up' = up /\ inst' = inst
      BY <2>2 DEF OpensToResume
    <3>2. NoneNew
      BY <3>1 DEF NoneNew
    <3>3. Resumes'
      BY <1>3, <1>4, <3>1, <3>2, ResumesKept
    <3> QED  BY <1>6, <3>1, <3>3 DEF Ends
  <2>3. CASE OpensToRestart(s)
    <3>1. kind = "restart"
      BY <2>3 DEF OpensToRestart
    <3>2. \A x \in Socks : \A n \in 1..Len(up[x]) : up[x][n].type # "reconnect"
      BY <3>1 DEF Resumes
    <3>3. NoneNew /\ \A x \in Socks : back'[x] # "open" => up'[x] = <<>>
      <4>1. CASE ws = s \/ IsOpen(ws)
        <5> DEFINE m == Message("start", NoId)
        <5>1. m \in Requests /\ m.type # "reconnect"
          BY MessageTyped DEF Message
        <5>2. ws \in Socks /\ up' = Sent(up, ws, m)
          BY <2>3, <4>1, IsOpenTyped DEF OpensToRestart, SendStart
        <5> HIDE DEF m
        <5>3. CASE ws = s
          <6>1. \A x \in Socks : x # s => up'[x] = up[x]
            BY <5>1, <5>2, <5>3, UpSent
          <6>2. \A n \in 1..Len(up'[s]) : up'[s][n].type # "reconnect"
            <7>1. CASE s \in cut
              BY <1>5, <5>1, <5>2, <5>3, <7>1, UpSent
            <7>2. CASE s \notin cut
              <8>1. up'[s] = Append(<<>>, m)
                BY <1>5, <5>1, <5>2, <5>3, <7>2, UpSent
              <8>2. Len(up'[s]) = 1 /\ up'[s][1] = m
                BY <5>1, <8>1
              <8> QED  BY <5>1, <8>2
            <7> QED  BY <7>1, <7>2
          <6>3. NoneNew
            BY <6>1, <6>2 DEF NoneNew
          <6> QED  BY <1>6, <6>1, <6>3 DEF Ends
        <5>4. CASE ws # s
          <6>1. front[ws] = "open"
            BY <4>1, <5>4, IsOpenTyped
          <6> QED  BY <1>6, <5>1, <5>2, <6>1, SentIsNone
        <5> QED  BY <5>3, <5>4
      <4>2. CASE ~ (ws = s \/ IsOpen(ws))
        <5>1. up' = up
          BY <2>3, <4>2 DEF OpensToRestart
        <5> QED  BY <1>6, <5>1 DEF NoneNew, Ends
      <4> QED  BY <4>1, <4>2
    <3>4. Resumes'
      BY <1>3, <3>2, <3>3, ResumesKept
    <3> QED  BY <3>3, <3>4
  <2> QED  BY <2>1, <2>2, <2>3
<1>8. Ends'
  <2>1. ASSUME NEW x \in Socks
        PROVE  /\ front'[x] = "open" => back'[x] = "open" \/ x \in cut'
               /\ back'[x] = "open" => front'[x] = "open" \/ x \in cut'
               /\ front'[x] # "open" => down'[x] = <<>>
               /\ front'[x] = "dialing" => back'[x] = "none" /\ Fresh(x)'
    BY <1>3, <1>4, <1>6 DEF Ends
  <2> QED  BY <1>7, <2>1 DEF Ends
<1> QED  BY <1>1, <1>3, <1>7, <1>8 DEF OneConnectionEach

LEMMA SocketsOfFront ==
    ASSUME SocketInv, NEW s \in Socks, DialFails(s) \/ OnClose(s) \/ FrontReads(s)
    PROVE  SocketInv'
<1> USE DEF SocketInv
<1>1. TypeOK'
  BY TabTyped
<1>2. /\ kind' = kind /\ back' = back /\ cut' = cut
      /\ begun' = begun /\ watch' = watch /\ conns' = conns
  BY DEF DialFails, OnClose, FrontReads, tab, core
<1>3. \A x : Fresh(x)' <=> Fresh(x)
  BY <1>2, FreshSame
<1>4. CASE DialFails(s)
  <2>1. up' = up /\ down' = down /\ ws' = ws /\ inst' = inst /\ front' = [front EXCEPT ![s] = "closed"] /\ front[s] = "dialing"
    BY <1>4 DEF DialFails, tab
  <2>2. NoneNew
    BY <2>1 DEF NoneNew
  <2>3. Resumes'
    BY <1>2, <1>3, <2>1, <2>2, ResumesKept
  <2>4. front'[s] = "closed" /\ \A x \in Socks : x # s => front'[x] = front[x]
    BY <2>1 DEF TypeOK
  <2>5. Ends'
    BY <1>2, <1>3, <2>1, <2>4 DEF Ends
  <2> QED  BY <1>1, <1>2, <2>3, <2>5 DEF OneConnectionEach
<1>5. CASE OnClose(s)
  <2>1. /\ up' = up /\ inst' = inst /\ ws' \in {ws, NoSock}
        /\ down' = [down EXCEPT ![s] = <<>>] /\ front' = [front EXCEPT ![s] = "closed"] /\ s \in cut
    BY <1>5 DEF OnClose
  <2>2. /\ front'[s] = "closed" /\ down'[s] = <<>>
        /\ \A x \in Socks : x # s => front'[x] = front[x] /\ down'[x] = down[x]
    BY <2>1 DEF TypeOK
  <2>3. NoneNew
    BY <2>1 DEF NoneNew
  <2>4. Resumes'
    BY <1>2, <1>3, <2>1, <2>2, <2>3, ResumesKept, SocksAssumption
  <2>5. Ends'
    BY <1>2, <1>3, <2>1, <2>2 DEF Ends
  <2> QED  BY <1>1, <1>2, <2>4, <2>5 DEF OneConnectionEach
<1>6. CASE FrontReads(s)
  <2>1. /\ ws' = ws /\ front' = front /\ down' = [down EXCEPT ![s] = Tail(@)] /\ down[s] # <<>> /\ front[s] = "open"
    BY <1>6 DEF FrontReads
  <2>2. \A x \in Socks : x # s => down'[x] = down[x]
    BY <2>1 DEF TypeOK
  <2>3. NoneNew /\ (\A x \in Socks : back[x] # "open" => up'[x] = <<>>) /\ (s # ws => inst' = inst)
    <3>1. CASE s # ws \/ s \notin bound
      BY <1>6, <3>1 DEF FrontReads, NoneNew, Ends
    <3>2. CASE ~ (s # ws \/ s \notin bound) /\ Head(down[s]).type \in {"started", "resumed"}
      <4>1. up' = up
        BY <1>6, <3>2 DEF FrontReads
      <4> QED  BY <3>2, <4>1 DEF NoneNew, Ends
    <3>3. CASE ~ (s # ws \/ s \notin bound) /\ Head(down[s]).type = "lost"
      <4>1. Message("stop", inst) \in Requests /\ Message("stop", inst).type # "reconnect"
        BY MessageTyped DEF Message
      <4>2. StopTab
        BY <1>6, <3>3 DEF FrontReads
      <4>3. ws \in Socks /\ front[ws] = "open" /\ IsOpen(ws)
        BY <2>1, <3>3, SocksAssumption DEF IsOpen
      <4>4. up' = Sent(up, ws, Message("stop", inst))
        BY <4>2, <4>3 DEF StopTab
      <4> QED  BY <3>3, <4>1, <4>3, <4>4, SentIsNone
    <3>4. Head(down[s]).type \in {"started", "resumed", "lost"}
      <4>1. down[s] \in Seq(Answers)
        BY DEF TypeOK
      <4>2. Head(down[s]) \in Answers
        BY <2>1, <4>1, TailReads
      <4> QED  BY <4>2 DEF Answers
    <3> QED  BY <3>1, <3>2, <3>3, <3>4
  <2>4. Resumes'
    BY <1>2, <1>3, <2>1, <2>2, <2>3, ResumesKept
  <2>5. Ends'
    BY <1>2, <1>3, <2>1, <2>2, <2>3 DEF Ends
  <2> QED  BY <1>1, <1>2, <2>4, <2>5 DEF OneConnectionEach
<1> QED  BY <1>4, <1>5, <1>6

(* A socket the core reads from is not new, and what it answers is on a      *)
(* socket the browser has, or is not sent.                                   *)
LEMMA AnswersOnOpen ==
    ASSUME SocketInv, NEW s \in Socks, back[s] = "open", NEW m \in Answers, down' = Sent(down, s, m)
    PROVE  /\ \A x \in Socks : x # s => down'[x] = down[x]
           /\ \A x \in Socks : front[x] # "open" => down'[x] = <<>>
           /\ front[s] # "dialing"
<1> USE DEF SocketInv
<1>1. \A x \in Socks : x # s \/ s \in cut => down'[x] = down[x]
  BY DownSent
<1>2. front[s] = "open" \/ s \in cut
  BY DEF Ends
<1>3. front[s] # "dialing"
  BY DEF Ends
<1> QED  BY <1>1, <1>2, <1>3 DEF Ends

LEMMA SocketsOfServes ==
    ASSUME SocketInv, NEW s \in Socks, Serves(s)
    PROVE  SocketInv'
<1> USE DEF SocketInv
<1>1. TypeOK'
  BY ServesTyped
<1>2. CASE TakeStart(s)
  <2>1. CoreReads(s, "start")
    BY <1>2 DEF TakeStart
  <2>2. /\ kind' = kind /\ ws' = ws /\ inst' = inst /\ front' = front /\ back' = back /\ cut' = cut
        /\ down' = down /\ watch' = watch /\ conns' = conns /\ begun' = [begun EXCEPT ![s] = @ + 1]
    BY <1>2, <2>1, CoreReadsTyped DEF TakeStart, tab
  <2>3. /\ NoneNew /\ \A n \in 1..Len(up'[s]) : up'[s][n].type # "reconnect"
        /\ \A x \in Socks : x # s => up'[x] = up[x]
        /\ back[s] = "open"
    BY <2>1, ReadIsNone
  <2>4. \A x \in Socks : x # s => begun'[x] = begun[x]
    BY <2>2 DEF TypeOK
  <2>5. \A x \in Socks : x # s /\ Fresh(x) => Fresh(x)'
    BY <2>2, <2>4 DEF Fresh
  <2>6. Resumes'
    BY <2>2, <2>3, <2>5, ResumesKept
  <2>7. Ends'
    BY <2>2, <2>3, <2>5 DEF Ends
  <2> QED  BY <1>1, <2>2, <2>6, <2>7 DEF OneConnectionEach
<1>3. CASE Accept(s)
  <2>1. /\ kind' = kind /\ ws' = ws /\ inst' = inst /\ front' = front /\ back' = back /\ cut' = cut /\ up' = up
        /\ conns' = conns /\ begun[s] > 0 /\ begun' = [begun EXCEPT ![s] = @ - 1]
    BY <1>3, AcceptReads DEF tab
  <2>2. ~ Fresh(s)
    BY <2>1 DEF Fresh
  <2>3. /\ \A x \in Socks : x # s => down'[x] = down[x]
        /\ \A x \in Socks : front[x] # "open" => down'[x] = <<>>
        /\ \A w \in watch' : w \in watch \/ w[1] = s
    <3>1. CASE back[s] = "open"
      <4>1. \E i \in Ids : /\ down' = Sent(down, s, Message("started", i))
                           /\ watch' = watch \cup {<<s, i>>}
        BY <1>3, <3>1, AcceptReads
      <4>2. PICK i \in Ids : down' = Sent(down, s, Message("started", i)) /\ watch' = watch \cup {<<s, i>>}
        BY <4>1
      <4>3. Message("started", i) \in Answers
        BY MessageTyped
      <4> QED  BY <3>1, <4>2, <4>3, AnswersOnOpen
    <3>2. CASE back[s] # "open"
      BY <1>3, <3>2, AcceptReads DEF Ends
    <3> QED  BY <3>1, <3>2
  <2>4. \A x \in Socks : x # s => begun'[x] = begun[x]
    BY <2>1 DEF TypeOK
  <2>5. \A x \in Socks : Fresh(x) => Fresh(x)' /\ x # s
    BY <2>1, <2>2, <2>3, <2>4 DEF Fresh
  <2>6. NoneNew
    BY <2>1 DEF NoneNew
  <2>7. Resumes'
    BY <2>1, <2>3, <2>5, <2>6, ResumesKept
  <2>8. Ends'
    BY <2>1, <2>3, <2>5 DEF Ends
  <2> QED  BY <1>1, <2>1, <2>7, <2>8 DEF OneConnectionEach
<1>4. CASE TakeReconnect(s)
  <2>1. CoreReads(s, "reconnect")
    BY <1>4 DEF TakeReconnect
  <2> DEFINE k == ConnWith(Head(up[s]).inst)
             m == Message(IF k = 0 THEN "lost" ELSE "resumed", Head(up[s]).inst)
  <2>2. /\ kind' = kind /\ ws' = ws /\ inst' = inst /\ front' = front /\ back' = back /\ cut' = cut
        /\ begun' = begun /\ watch' = watch
    BY <1>4, <2>1, CoreReadsTyped DEF TakeReconnect, tab
  <2>3. /\ NoneNew /\ \A n \in 1..Len(up'[s]) : up'[s][n].type # "reconnect"
        /\ \A x \in Socks : x # s => up'[x] = up[x]
        /\ back[s] = "open"
    BY <2>1, ReadIsNone
  <2>4. /\ Len(conns') = Len(conns) /\ down' = Sent(down, s, m)
        /\ \A n \in 1..Len(conns) : conns'[n].ws = IF n = k THEN s ELSE conns[n].ws
    BY <1>4, ReconnectReads
  <2>5. m \in Answers
    BY <2>1, CoreReadsTyped, MessageTyped
  <2>6. Fresh(s)
    <3>1. up[s] \in Seq(Requests) /\ up[s] # <<>> /\ Head(up[s]).type = "reconnect"
      BY <2>1, CoreReadsTyped
    <3>2. 1 \in 1..Len(up[s]) /\ up[s][1].type = "reconnect"
      BY <3>1, TailReads
    <3> QED  BY <3>2 DEF Resumes
  <2> HIDE DEF k, m
  <2>7. /\ \A x \in Socks : x # s => down'[x] = down[x]
        /\ \A x \in Socks : front[x] # "open" => down'[x] = <<>>
        /\ front[s] # "dialing"
    BY <2>3, <2>4, <2>5, AnswersOnOpen
  <2>8. \A x \in Socks : x # s /\ Fresh(x) => Fresh(x)'
    BY <2>2, <2>4 DEF Fresh
  <2>9. Resumes'
    BY <2>2, <2>3, <2>7, <2>8, ResumesKept
  <2>10. Ends'
    BY <2>2, <2>3, <2>7, <2>8 DEF Ends
  <2>11. OneConnectionEach'
    BY <2>4, <2>6 DEF OneConnectionEach, Fresh
  <2> QED  BY <1>1, <2>9, <2>10, <2>11
<1>5. CASE TakeStop(s)
  <2>1. CoreReads(s, "stop")
    BY <1>5 DEF TakeStop
  <2>2. /\ kind' = kind /\ ws' = ws /\ inst' = inst /\ front' = front /\ back' = back /\ cut' = cut
        /\ down' = down /\ begun' = begun /\ watch' = watch
    BY <1>5, <2>1, CoreReadsTyped DEF TakeStop, tab
  <2>3. /\ NoneNew /\ \A n \in 1..Len(up'[s]) : up'[s][n].type # "reconnect"
        /\ \A x \in Socks : x # s => up'[x] = up[x]
        /\ back[s] = "open"
    BY <2>1, ReadIsNone
  <2>4. Len(conns') = Len(conns) /\ \A n \in 1..Len(conns) : conns'[n].ws = conns[n].ws
    BY <1>5, StopReads
  <2>5. \A x \in Socks : Fresh(x) => Fresh(x)'
    BY <2>2, <2>4 DEF Fresh
  <2>6. Resumes'
    BY <2>2, <2>3, <2>5, ResumesKept
  <2>7. Ends'
    BY <2>2, <2>3, <2>5 DEF Ends
  <2>8. OneConnectionEach'
    BY <2>4 DEF OneConnectionEach
  <2> QED  BY <1>1, <2>6, <2>7, <2>8
<1>6. CASE CoreCloses(s)
  <2>1. /\ kind' = kind /\ ws' = ws /\ inst' = inst /\ front' = front /\ cut' = cut /\ back[s] = "open" /\ s \in cut
        /\ down' = down /\ begun' = begun /\ watch' = watch
        /\ back' = [back EXCEPT ![s] = "closed"] /\ up' = [up EXCEPT ![s] = <<>>]
    BY <1>6 DEF CoreCloses, tab
  <2>2. /\ back'[s] = "closed" /\ up'[s] = <<>>
        /\ \A x \in Socks : x # s => back'[x] = back[x] /\ up'[x] = up[x]
    BY <2>1 DEF TypeOK
  <2>3. \/ conns' = conns
        \/ /\ kind = "restart"
           /\ \E k \in 1..Len(conns) :
                /\ Len(conns') = Len(conns) - 1
                /\ \A n \in 1..Len(conns) - 1 : conns'[n] = IF n < k THEN conns[n] ELSE conns[n + 1]
    BY <1>6, ClosesReads
  <2>4. (\A x \in Socks : Fresh(x) => Fresh(x)') /\ OneConnectionEach'
    <3>1. CASE conns' = conns
      BY <2>1, <3>1 DEF Fresh, OneConnectionEach
    <3>2. ASSUME NEW k \in 1..Len(conns), Len(conns') = Len(conns) - 1,
                 \A n \in 1..Len(conns) - 1 : conns'[n] = IF n < k THEN conns[n] ELSE conns[n + 1]
          PROVE  (\A x \in Socks : Fresh(x) => Fresh(x)') /\ OneConnectionEach'
      <4> DEFINE at(n) == IF n < k THEN n ELSE n + 1
      <4>1. Len(conns) \in Nat
        BY ConnsTyped
      <4>2. \A n \in 1..Len(conns') : at(n) \in 1..Len(conns) /\ conns'[n] = conns[at(n)]
        BY <3>2, <4>1
      <4>3. \A m, n \in 1..Len(conns') : at(m) = at(n) => m = n
        BY <3>2, <4>1
      <4> HIDE DEF at
      <4>4. \A x \in Socks : Fresh(x) => Fresh(x)'
        BY <2>1, <4>2 DEF Fresh
      <4>5. ASSUME NEW m \in 1..Len(conns'), NEW n \in 1..Len(conns'), conns'[m].ws = conns'[n].ws
            PROVE  m = n
        <5>1. conns[at(m)].ws = conns[at(n)].ws /\ at(m) \in 1..Len(conns) /\ at(n) \in 1..Len(conns)
          BY <4>2, <4>5
        <5>2. at(m) = at(n)
          BY <5>1 DEF OneConnectionEach
        <5> QED  BY <4>3, <5>2
      <4> QED  BY <4>4, <4>5 DEF OneConnectionEach
    <3> QED  BY <2>3, <3>1, <3>2
  <2>5. NoneNew
    BY <2>2 DEF NoneNew
  <2>6. Resumes'
    BY <2>1, <2>4, <2>5, ResumesKept
  <2>7. Ends'
    BY <2>1, <2>2, <2>4 DEF Ends
  <2> QED  BY <1>1, <2>4, <2>6, <2>7
<1>7. CASE TurnAway(s)
  <2>1. PICK t \in {"start", "stop", "reconnect"} : CoreReads(s, t)
    BY <1>7, TurnAwayReads
  <2>2. /\ kind' = kind /\ ws' = ws /\ inst' = inst /\ front' = front /\ back' = back /\ cut' = cut
        /\ down' = down /\ begun' = begun /\ watch' = watch /\ conns' = conns
    BY <1>7, <2>1, CoreReadsTyped, TurnAwayReads DEF tab
  <2>3. /\ NoneNew /\ \A x \in Socks : x # s => up'[x] = up[x]
        /\ back[s] = "open"
    BY <2>1, ReadIsNone
  <2>4. \A x : Fresh(x)' <=> Fresh(x)
    BY <2>2, FreshSame
  <2>5. Resumes'
    BY <2>2, <2>3, <2>4, ResumesKept
  <2>6. Ends'
    BY <2>2, <2>3, <2>4 DEF Ends
  <2> QED  BY <1>1, <2>2, <2>5, <2>6 DEF OneConnectionEach
<1>8. CASE Deny(s)
  <2>1. /\ kind' = kind /\ ws' = ws /\ inst' = inst /\ front' = front /\ back' = back /\ cut' = cut
        /\ up' = up /\ down' = down /\ watch' = watch /\ conns' = conns
        /\ begun[s] > 0 /\ begun' = [begun EXCEPT ![s] = @ - 1]
    BY <1>8, DenyReads DEF tab, net
  <2>2. \A x \in Socks : x # s => begun'[x] = begun[x]
    BY <2>1 DEF TypeOK
  <2>3. \A x \in Socks : Fresh(x) => Fresh(x)' /\ x # s
    BY <2>1, <2>2 DEF Fresh
  <2>4. NoneNew
    BY <2>1 DEF NoneNew
  <2>5. Resumes'
    BY <2>1, <2>3, <2>4, ResumesKept
  <2>6. Ends'
    BY <2>1, <2>3 DEF Ends
  <2> QED  BY <1>1, <2>1, <2>5, <2>6 DEF OneConnectionEach
<1> QED  BY <1>2, <1>3, <1>4, <1>5, <1>6, <1>7, <1>8 DEF Serves

LEMMA SocketsOfWatches ==
    ASSUME SocketInv, NEW s \in Socks, NEW i \in Ids,
           WatchEnds(s, i) \/ \E p \in Pods : WatchReports(s, i, p)
    PROVE  SocketInv'
<1> USE DEF SocketInv
<1>1. TypeOK'
  BY OtherTyped
<1>2. /\ kind' = kind /\ ws' = ws /\ inst' = inst /\ front' = front /\ back' = back /\ cut' = cut
      /\ up' = up /\ down' = down /\ begun' = begun /\ watch' \subseteq watch
  BY DEF WatchEnds, WatchReports, tab, net
<1>3. (\A x \in Socks : Fresh(x) => Fresh(x)') /\ OneConnectionEach'
  <2>1. CASE WatchEnds(s, i)
    BY <1>2, <2>1 DEF WatchEnds, Fresh, OneConnectionEach
  <2>2. ASSUME NEW p \in Pods, WatchReports(s, i, p)
        PROVE  (\A x \in Socks : Fresh(x) => Fresh(x)') /\ OneConnectionEach'
    <3>1. ~ Fresh(s)
      BY <2>2 DEF WatchReports, Fresh
    <3>2. /\ Len(conns') \in {Len(conns), Len(conns) + 1}
          /\ \A n \in 1..Len(conns) : conns'[n].ws = conns[n].ws
          /\ Len(conns') # Len(conns) => conns'[Len(conns) + 1].ws = s /\ \A n \in 1..Len(conns) : conns[n].ws # s
      BY <2>2, ReportReads
    <3>3. Len(conns) \in Nat
      BY ConnsTyped
    <3>4. \A n \in 1..Len(conns') : n \in 1..Len(conns) \/ (n = Len(conns) + 1 /\ Len(conns') # Len(conns))
      BY <3>2, <3>3
    <3> QED  BY <1>2, <3>1, <3>2, <3>4 DEF Fresh, OneConnectionEach
  <2> QED  BY <2>1, <2>2
<1>4. NoneNew
  BY <1>2 DEF NoneNew
<1>5. Resumes'
  BY <1>2, <1>3, <1>4, ResumesKept
<1>6. Ends'
  BY <1>2, <1>3 DEF Ends
<1> QED  BY <1>1, <1>3, <1>5, <1>6

LEMMA SocketsOfFaults ==
    ASSUME SocketInv, (\E s \in Socks : Drop(s)) \/ PodStarts \/ Reload \/ Restart \/ Serve
    PROVE  SocketInv'
<1> USE DEF SocketInv
<1>1. TypeOK'
  BY OtherTyped
<1>2. kind' = kind /\ ws' = ws /\ inst' = inst /\ front' = front /\ down' = down
  BY DEF Drop, PodStarts, Reload, Restart, Serve, tab, net
<1>3. CASE (\E s \in Socks : Drop(s)) \/ PodStarts \/ Serve
  <2>1. back' = back /\ up' = up /\ cut \subseteq cut' /\ begun' = begun /\ watch' = watch /\ conns' = conns
    BY <1>3 DEF Drop, PodStarts, Serve, core, net
  <2>2. \A x : Fresh(x)' <=> Fresh(x)
    BY <2>1, FreshSame
  <2>3. NoneNew
    BY <2>1 DEF NoneNew
  <2>4. Resumes'
    BY <1>2, <2>1, <2>2, <2>3, ResumesKept
  <2>5. Ends'
    BY <1>2, <2>1, <2>2 DEF Ends
  <2> QED  BY <1>1, <2>1, <2>4, <2>5 DEF OneConnectionEach
<1>4. CASE Reload \/ Restart
  <2>1. /\ \A x \in Socks : begun'[x] = begun[x] \/ begun'[x] = 0
        /\ watch' \subseteq watch /\ conns' = <<>> /\ cut \subseteq cut'
        /\ \A x \in Socks : \/ back'[x] = back[x] /\ up'[x] \in {up[x], <<>>}
                            \/ back[x] = "open" /\ back'[x] = "closed" /\ up'[x] = <<>> /\ x \in cut'
    BY <1>4 DEF Reload, Restart, TypeOK
  <2>2. \A x \in Socks : Fresh(x) => Fresh(x)'
    BY <2>1 DEF Fresh
  <2>3. NoneNew
    BY <2>1 DEF NoneNew
  <2>4. Resumes'
    BY <1>2, <2>1, <2>2, <2>3, ResumesKept
  <2>5. Ends'
    BY <1>2, <2>1, <2>2 DEF Ends
  <2>6. OneConnectionEach'
    BY <2>1 DEF OneConnectionEach
  <2> QED  BY <1>1, <2>4, <2>5, <2>6
<1> QED  BY <1>3, <1>4

LEMMA SocketNext == SocketInv /\ [Next]_vars => SocketInv'
<1> SUFFICES ASSUME SocketInv, [Next]_vars
             PROVE  SocketInv'
  OBVIOUS
<1>1. CASE Next
  BY <1>1, SocketsOfUser, SocketsOfDial, SocketsOfOpens, SocketsOfFront, SocketsOfServes, SocketsOfWatches, SocketsOfFaults
  DEF Next
<1>2. CASE UNCHANGED vars
  BY <1>2 DEF SocketInv, TypeOK, Ends, Resumes, OneConnectionEach, Fresh, vars, tab, net, core, bounds
<1> QED  BY <1>1, <1>2

LEMMA SocketInit == Init => SocketInv
<1> SUFFICES ASSUME Init
             PROVE  SocketInv
  OBVIOUS
<1>1. TypeOK
  BY TypeInit
<1>2. \A s \in Socks : front[s] \in {"open", "none"} /\ back[s] = front[s] /\ up[s] = <<>> /\ down[s] = <<>>
  BY DEF Init
<1>3. conns = <<>>
  BY DEF Init
<1> QED  BY <1>1, <1>2, <1>3 DEF SocketInv, Ends, Resumes, OneConnectionEach

LEMMA SocketAlways == Spec => []SocketInv
BY SocketInit, SocketNext, PTL DEF Spec

(* What the browser, the wire and the core hold is of its type.              *)
THEOREM TabTypes == Spec => []TypeOK
<1>1. SocketInv => TypeOK
  BY DEF SocketInv
<1> QED  BY <1>1, SocketAlways, PTL

(* No socket ever has two connections of the channel, whatever is resumed,   *)
(* replaced or restarted: a STOP ends what it means to, and no pod is        *)
(* streamed twice.                                                           *)
THEOREM OneConnectionPerSocket == Spec => []OneConnectionEach
<1>1. SocketInv => OneConnectionEach
  BY DEF SocketInv
<1> QED  BY <1>1, SocketAlways, PTL

-----------------------------------------------------------------------------
(* The tab is served                                                         *)

LEMMA AppendHas ==
    ASSUME NEW T, NEW q \in Seq(T), NEW m \in T, NEW types
    PROVE  /\ Has(q, types) \/ m.type \in types => Has(Append(q, m), types)
           /\ m.type = "start" => StartsLast(Append(q, m))
<1> DEFINE r == Append(q, m)
<1>1. Len(r) = Len(q) + 1 /\ Len(q) \in Nat /\ r[Len(q) + 1] = m /\ \A n \in 1..Len(q) : r[n] = q[n]
  BY AppendReads
<1> HIDE DEF r
<1>2. Has(q, types) \/ m.type \in types => Has(r, types)
  BY <1>1 DEF Has
<1>3. ASSUME m.type = "start", NEW n \in 1..Len(r), r[n].type = "stop"
      PROVE  \E k \in n + 1..Len(r) : r[k].type = "start"
  <2>1. n # Len(q) + 1
    BY <1>1, <1>3
  <2>2. Len(q) + 1 \in n + 1..Len(r) /\ r[Len(q) + 1].type = "start"
    BY <1>1, <1>3, <2>1
  <2> QED  BY <2>2
<1>4. m.type = "start" => StartsLast(r)
  BY <1>3 DEF StartsLast
<1> QED  BY <1>2, <1>4 DEF r

LEMMA TailHas ==
    ASSUME NEW T, NEW q \in Seq(T), q # <<>>, NEW types
    PROVE  /\ Has(q, types) => Head(q).type \in types \/ Has(Tail(q), types)
           /\ StartsLast(q) => StartsLast(Tail(q))
           /\ StartsLast(q) /\ Head(q).type = "stop" => Has(Tail(q), {"start"})
<1> DEFINE r == Tail(q)
<1>1. Len(r) = Len(q) - 1 /\ Len(q) \in Nat /\ Head(q) = q[1] /\ \A n \in 1..Len(q) - 1 : r[n] = q[n + 1]
  BY TailReads
<1> HIDE DEF r
<1>2. ASSUME NEW n \in 1..Len(q), n # 1
      PROVE  n - 1 \in 1..Len(r) /\ r[n - 1] = q[n]
  <2>1. n - 1 \in 1..Len(q) - 1 /\ n - 1 + 1 = n
    BY <1>1, <1>2
  <2> QED  BY <1>1, <2>1
<1>3. Has(q, types) => Head(q).type \in types \/ Has(r, types)
  BY <1>1, <1>2 DEF Has
<1>4. ASSUME StartsLast(q), NEW n \in 1..Len(r), r[n].type = "stop"
      PROVE  \E m \in n + 1..Len(r) : r[m].type = "start"
  <2>1. n + 1 \in 1..Len(q) /\ q[n + 1].type = "stop"
    BY <1>1, <1>4
  <2>2. PICK m \in n + 1 + 1..Len(q) : q[m].type = "start"
    BY <1>4, <2>1 DEF StartsLast
  <2>3. m - 1 \in n + 1..Len(r) /\ m \in 1..Len(q) /\ m # 1
    BY <1>1
  <2> QED  BY <1>2, <2>2, <2>3
<1>5. ASSUME StartsLast(q), Head(q).type = "stop"
      PROVE  Has(r, {"start"})
  <2>1. 1 \in 1..Len(q) /\ q[1].type = "stop"
    BY <1>1, <1>5, TailReads
  <2>2. PICK m \in 1 + 1..Len(q) : q[m].type = "start"
    BY <1>5, <2>1 DEF StartsLast
  <2>3. m \in 1..Len(q) /\ m # 1
    BY <1>1
  <2> QED  BY <1>2, <2>2, <2>3 DEF Has
<1> QED  BY <1>3, <1>4, <1>5 DEF StartsLast, r

LEMMA ToldKept ==
    ASSUME TypeOK, Told, watch \subseteq watch', cut \subseteq cut',
           \A x \in Socks : \A n \in 1..Len(down'[x]) : down'[x][n].type = "started" =>
             \/ \E m \in 1..Len(down[x]) : down[x][m] = down'[x][n]
             \/ <<x, down'[x][n].inst>> \in watch' \/ x \in cut'
    PROVE  Told'
BY DEF Told

LEMMA ToldSent ==
    ASSUME TypeOK, Told, NEW s \in Socks, NEW m \in Answers, down' = Sent(down, s, m),
           watch \subseteq watch', cut' = cut, m.type = "started" => <<s, m.inst>> \in watch'
    PROVE  Told'
<1>1. /\ \A x \in Socks : x # s \/ s \in cut => down'[x] = down[x]
      /\ s \notin cut => down'[s] = Append(down[s], m)
  BY DownSent
<1>2. down[s] \in Seq(Answers)
  BY DEF TypeOK
<1>3. ASSUME s \notin cut, NEW n \in 1..Len(down'[s])
      PROVE  down'[s][n] = m \/ \E k \in 1..Len(down[s]) : down[s][k] = down'[s][n]
  <2>1. Len(down'[s]) = Len(down[s]) + 1 /\ down'[s][Len(down[s]) + 1] = m /\ \A k \in 1..Len(down[s]) : down'[s][k] = down[s][k]
    BY <1>1, <1>2, <1>3, AppendReads
  <2>2. n = Len(down[s]) + 1 \/ n \in 1..Len(down[s])
    BY <1>2, <2>1
  <2> QED  BY <2>1, <2>2
<1> QED  BY <1>1, <1>3, ToldKept

LEMMA ToldNext == SocketInv /\ Told /\ [Next]_vars => Told'
<1> SUFFICES ASSUME SocketInv, Told, [Next]_vars
             PROVE  Told'
  OBVIOUS
<1> USE DEF SocketInv
<1>1. ASSUME down' = down, watch \subseteq watch', cut \subseteq cut'
      PROVE  Told'
  BY <1>1 DEF Told
<1>2. CASE UserStart \/ UserStop \/ PodStarts \/ Serve \/ UNCHANGED vars
  BY <1>1, <1>2 DEF UserStart, UserStop, PodStarts, Serve, vars, tab, net, core
<1>3. CASE Dial
  <2>1. PICK d \in Socks : d = ws' /\ Unused(d)
    BY <1>3, DialReads
  <2>2. cut' = cut \ {d} /\ down' = down /\ watch' = watch
    BY <1>3, <2>1 DEF Dial, core
  <2>3. down[d] = <<>>
    BY <2>1 DEF Unused, Ends
  <2> QED  BY <2>2, <2>3 DEF Told
<1>4. ASSUME NEW s \in Socks, OpensToResume(s) \/ OpensToRestart(s)
      PROVE  Told'
  <2>1. Opens(s)
    BY <1>4 DEF OpensToResume, OpensToRestart
  <2> QED  BY <1>1, <2>1, OpensTyped DEF core
<1>5. ASSUME NEW s \in Socks,
             DialFails(s) \/ Drop(s) \/ CoreCloses(s) \/ TurnAway(s) \/ TakeStart(s) \/ Deny(s) \/ TakeStop(s)
      PROVE  Told'
  BY <1>1, <1>5 DEF DialFails, Drop, CoreCloses, TurnAway, TakeStart, Deny, TakeStop, CoreReads, core, net
<1>6. ASSUME NEW s \in Socks, OnClose(s)
      PROVE  Told'
  <2>1. down' = [down EXCEPT ![s] = <<>>] /\ cut' = cut /\ watch' = watch
    BY <1>6 DEF OnClose, core
  <2> QED  BY <2>1 DEF Told, TypeOK
<1>7. ASSUME NEW s \in Socks, FrontReads(s)
      PROVE  Told'
  <2>1. down' = [down EXCEPT ![s] = Tail(@)] /\ cut' = cut /\ watch' = watch /\ down[s] # <<>>
    BY <1>7 DEF FrontReads, core
  <2>2. down[s] \in Seq(Answers) /\ (\A x \in Socks : x # s => down'[x] = down[x]) /\ down'[s] = Tail(down[s])
    BY <2>1 DEF TypeOK
  <2>3. Len(down'[s]) = Len(down[s]) - 1 /\ Len(down[s]) \in Nat /\ \A n \in 1..Len(down[s]) - 1 : down'[s][n] = down[s][n + 1]
    <3> DEFINE q == down[s]
    <3>1. q \in Seq(Answers) /\ q # <<>> /\ down'[s] = Tail(q)
      BY <2>1, <2>2
    <3> HIDE DEF q
    <3>2. Len(Tail(q)) = Len(q) - 1 /\ Len(q) \in Nat /\ \A n \in 1..Len(q) - 1 : Tail(q)[n] = q[n + 1]
      BY <3>1, TailReads
    <3> QED  BY <3>1, <3>2 DEF q
  <2>4. \A n \in 1..Len(down'[s]) : n + 1 \in 1..Len(down[s]) /\ down'[s][n] = down[s][n + 1]
    BY <2>3
  <2> QED  BY <2>1, <2>2, <2>4, ToldKept
<1>8. ASSUME NEW s \in Socks, Accept(s)
      PROVE  Told'
  <2>1. CASE back[s] = "open"
    <3>1. \E i \in Ids : /\ down' = Sent(down, s, Message("started", i))
                         /\ watch' = watch \cup {<<s, i>>}
      BY <1>8, <2>1, AcceptReads
    <3>2. PICK i \in Ids : down' = Sent(down, s, Message("started", i)) /\ watch' = watch \cup {<<s, i>>}
      BY <3>1
    <3>3. Message("started", i) \in Answers /\ Message("started", i).inst = i
      BY MessageTyped DEF Message
    <3> QED  BY <1>8, <3>2, <3>3, AcceptReads, ToldSent
  <2>2. CASE back[s] # "open"
    BY <1>1, <1>8, <2>2, AcceptReads
  <2> QED  BY <2>1, <2>2
<1>9. ASSUME NEW s \in Socks, TakeReconnect(s)
      PROVE  Told'
  <2> DEFINE k == ConnWith(Head(up[s]).inst)
             m == Message(IF k = 0 THEN "lost" ELSE "resumed", Head(up[s]).inst)
  <2>1. CoreReads(s, "reconnect") /\ down' = Sent(down, s, m) /\ watch' = watch
    BY <1>9, ReconnectReads DEF TakeReconnect
  <2>2. m \in Answers /\ m.type # "started" /\ cut' = cut
    BY <2>1, CoreReadsTyped, MessageTyped DEF Message
  <2> HIDE DEF m
  <2> QED  BY <2>1, <2>2, ToldSent
<1>10. ASSUME NEW s \in Socks, NEW i \in Ids, WatchEnds(s, i)
       PROVE  Told'
  <2>1. down' = down /\ cut' = cut /\ watch' = watch \ {<<s, i>>} /\ back[s] # "open"
    BY <1>10 DEF WatchEnds, net
  <2>2. s \in cut \/ down[s] = <<>>
    BY <2>1 DEF Ends
  <2> QED  BY <2>1, <2>2 DEF Told
<1>11. ASSUME NEW s \in Socks, NEW i \in Ids, NEW p \in Pods, WatchReports(s, i, p)
       PROVE  Told'
  BY <1>1, <1>11 DEF WatchReports, net
<1>12. CASE Reload
  BY <1>1, <1>12 DEF Reload
<1>13. CASE Restart
  <2>1. down' = down /\ \A x \in Socks : x \in cut' <=> x \in cut \/ back[x] = "open"
    BY <1>13 DEF Restart
  <2>2. \A x \in Socks : x \in cut' \/ down'[x] = <<>>
    BY <2>1 DEF Ends
  <2> QED  BY <2>2 DEF Told
<1> QED  BY <1>2, <1>3, <1>4, <1>5, <1>6, <1>7, <1>8, <1>9, <1>10, <1>11, <1>12, <1>13 DEF Next, Serves

LEMMA HandledNext == SocketInv /\ Handled /\ [Next]_vars => Handled'
<1> SUFFICES ASSUME SocketInv, Handled, [Next]_vars
             PROVE  Handled'
  OBVIOUS
<1> USE DEF SocketInv
<1>1. ASSUME started' => started, ws' = ws, front' = front, bound' = bound
      PROVE  Handled'
  BY <1>1 DEF Handled, IsOpen
<1>2. CASE UserStop \/ PodStarts \/ Reload \/ Restart \/ Serve \/ UNCHANGED vars
  BY <1>1, <1>2 DEF UserStop, StopTab, PodStarts, Reload, Restart, Serve, vars, tab, net, core
<1>3. CASE UserStart
  BY <1>3 DEF UserStart, SendStart, Handled
<1>4. CASE Dial
  <2>1. ws' \in Socks /\ front' = [front EXCEPT ![ws'] = "dialing"]
    BY <1>4, DialReads DEF Dial
  <2>2. front'[ws'] = "dialing"
    BY <2>1 DEF TypeOK
  <2> QED  BY <2>2 DEF Handled, IsOpen
<1>5. ASSUME NEW s \in Socks, OpensToResume(s)
      PROVE  Handled'
  <2>1. Opens(s) /\ ws' = ws /\ front' = [front EXCEPT ![s] = "open"] /\ started' = started
    BY <1>5, OpensTyped DEF OpensToResume
  <2>2. CASE s = ws
    BY <1>5, <2>1, <2>2 DEF OpensToResume, Handled
  <2>3. CASE s # ws
    BY <1>5, <2>1, <2>3 DEF OpensToResume, Handled, IsOpen, TypeOK
  <2> QED  BY <2>2, <2>3
<1>6. ASSUME NEW s \in Socks, OpensToRestart(s)
      PROVE  Handled'
  <2>1. Opens(s) /\ ws' = ws
    BY <1>6, OpensTyped DEF OpensToRestart
  <2> QED  BY <1>6, <2>1 DEF OpensToRestart, SendStart, Handled
<1>7. ASSUME NEW s \in Socks, DialFails(s)
      PROVE  Handled'
  BY <1>7 DEF DialFails, tab, Handled, IsOpen, TypeOK
<1>8. ASSUME NEW s \in Socks, OnClose(s)
      PROVE  Handled'
  <2>1. started' = started /\ front' = [front EXCEPT ![s] = "closed"]
    BY <1>8 DEF OnClose
  <2>2. CASE s = ws /\ s \in bound
    BY <1>8, <2>1, <2>2 DEF OnClose, Handled, IsOpen
  <2>3. CASE ~ (s = ws /\ s \in bound)
    <3>1. ws' = ws /\ bound' = bound
      BY <1>8, <2>3 DEF OnClose
    <3>2. IsOpen(ws)' => IsOpen(ws)
      BY <2>1, <3>1 DEF IsOpen, TypeOK
    <3> QED  BY <2>1, <3>1, <3>2 DEF Handled
  <2> QED  BY <2>2, <2>3
<1>9. ASSUME NEW s \in Socks, FrontReads(s)
      PROVE  Handled'
  <2>1. ws' = ws /\ front' = front /\ bound' = bound
    BY <1>9 DEF FrontReads
  <2>2. Head(down[s]).type \in {"started", "resumed", "lost"}
    BY <1>9, FrontReadsTyped
  <2>3. started' => started
    BY <1>9, <2>2 DEF FrontReads, StopTab
  <2> QED  BY <1>1, <2>1, <2>3
<1>10. ASSUME NEW s \in Socks, Serves(s) \/ Drop(s)
       PROVE  Handled'
  BY <1>1, <1>10 DEF Serves, TurnAway, TakeStart, Deny, Accept, TakeReconnect, TakeStop, CoreReads, CoreCloses, Drop, tab, net
<1>11. ASSUME NEW s \in Socks, NEW i \in Ids, WatchEnds(s, i) \/ \E p \in Pods : WatchReports(s, i, p)
       PROVE  Handled'
  BY <1>1, <1>11 DEF WatchEnds, WatchReports, tab, net
<1> QED  BY <1>2, <1>3, <1>4, <1>5, <1>6, <1>7, <1>8, <1>9, <1>10, <1>11 DEF Next

(* Expecting is only lost, never gained, but by a START or a socket that     *)
(* opens.                                                                    *)
LEMMA ExpectingKept ==
    ASSUME SocketInv,
           \/ UserStop \/ Dial \/ PodStarts \/ Reload \/ Restart \/ Serve \/ UNCHANGED vars
           \/ \E s \in Socks : DialFails(s) \/ OnClose(s) \/ FrontReads(s) \/ Serves(s) \/ Drop(s)
           \/ \E s \in Socks, i \in Ids : WatchEnds(s, i) \/ \E p \in Pods : WatchReports(s, i, p),
           Expecting'
    PROVE  Expecting /\ ws' = ws
<1> USE DEF SocketInv
<1>1. ASSUME started' => started, ws' = ws, front' = front, cut \subseteq cut'
      PROVE  Expecting /\ ws' = ws
  BY <1>1 DEF Expecting, IsOpen
<1>2. CASE UserStop \/ PodStarts \/ Reload \/ Restart \/ Serve \/ UNCHANGED vars
  BY <1>1, <1>2 DEF UserStop, StopTab, PodStarts, Reload, Restart, Serve, vars, tab, net, core
<1>3. CASE Dial
  <2>1. ws' \in Socks /\ front' = [front EXCEPT ![ws'] = "dialing"]
    BY <1>3, DialReads DEF Dial
  <2>2. front'[ws'] = "dialing"
    BY <2>1 DEF TypeOK
  <2> QED  BY <2>2 DEF Expecting, IsOpen
<1>4. ASSUME NEW s \in Socks, DialFails(s) \/ OnClose(s)
      PROVE  Expecting /\ ws' = ws
  <2>1. /\ front' = [front EXCEPT ![s] = "closed"] /\ started' = started /\ cut' = cut
        /\ ws' = ws \/ ws' = NoSock
    BY <1>4 DEF DialFails, OnClose, tab
  <2>2. IsOpen(ws)' => IsOpen(ws) /\ ws' = ws
    BY <2>1 DEF IsOpen, TypeOK
  <2> QED  BY <2>1, <2>2 DEF Expecting
<1>5. ASSUME NEW s \in Socks, FrontReads(s)
      PROVE  Expecting /\ ws' = ws
  <2>1. ws' = ws /\ front' = front /\ cut' = cut
    BY <1>5 DEF FrontReads
  <2>2. Head(down[s]).type \in {"started", "resumed", "lost"}
    BY <1>5, FrontReadsTyped
  <2>3. started' => started
    BY <1>5, <2>2 DEF FrontReads, StopTab
  <2> QED  BY <1>1, <2>1, <2>3
<1>6. ASSUME NEW s \in Socks, Serves(s) \/ Drop(s)
      PROVE  Expecting /\ ws' = ws
  BY <1>1, <1>6 DEF Serves, TurnAway, TakeStart, Deny, Accept, TakeReconnect, TakeStop, CoreReads, CoreCloses, Drop, tab, net
<1>7. ASSUME NEW s \in Socks, NEW i \in Ids, WatchEnds(s, i) \/ \E p \in Pods : WatchReports(s, i, p)
      PROVE  Expecting /\ ws' = ws
  BY <1>1, <1>7 DEF WatchEnds, WatchReports, tab, net
<1> QED  BY <1>2, <1>3, <1>4, <1>5, <1>6, <1>7

(* The socket of an expecting tab is open in the core.                       *)
LEMMA ExpectingReads ==
    ASSUME SocketInv, Expecting
    PROVE  ws \in Socks /\ front[ws] = "open" /\ back[ws] = "open" /\ ws \notin cut /\ started
BY IsOpenTyped DEF SocketInv, Expecting, Ends

(* A START on the socket of the tab is what it expects.                      *)
LEMMA SendStartHas ==
    ASSUME SocketInv, ws \in Socks, SendStart, ws \notin cut
    PROVE  StartsLast(up'[ws]) /\ Has(up'[ws], {"start", "reconnect"})
<1> DEFINE m == Message("start", NoId)
<1>1. m \in Requests /\ m.type = "start" /\ up' = Sent(up, ws, m) /\ up[ws] \in Seq(Requests)
  BY MessageTyped DEF SocketInv, Message, SendStart, TypeOK
<1> HIDE DEF m
<1>2. up'[ws] = Append(up[ws], m)
  BY <1>1, UpSent DEF SocketInv
<1> QED  BY <1>1, <1>2, AppendHas

(* How what is on its way from an expecting tab changes.                     *)
LEMMA UpOfExpecting ==
    ASSUME SocketInv,
           \/ UserStop \/ Dial \/ PodStarts \/ Reload \/ Restart \/ Serve \/ UNCHANGED vars
           \/ \E s \in Socks : DialFails(s) \/ OnClose(s) \/ FrontReads(s) \/ Serves(s) \/ Drop(s)
           \/ \E s \in Socks, i \in Ids : WatchEnds(s, i) \/ \E p \in Pods : WatchReports(s, i, p),
           Expecting'
    PROVE  up'[ws] = up[ws] \/ (up[ws] # <<>> /\ up'[ws] = Tail(up[ws]))
<1> USE DEF SocketInv
<1>1. Expecting /\ ws' = ws
  BY ExpectingKept
<1>2. ws \in Socks /\ front[ws] = "open" /\ back[ws] = "open" /\ ws \notin cut
  BY <1>1, ExpectingReads
<1>3. ws \notin cut' /\ started'
  BY <1>1 DEF Expecting
<1>4. CASE UserStop
  BY <1>3, <1>4 DEF UserStop, StopTab
<1>5. CASE Dial \/ PodStarts \/ Serve \/ UNCHANGED vars
  BY <1>5 DEF Dial, PodStarts, Serve, vars, net
<1>6. CASE Reload \/ Restart
  BY <1>2, <1>3, <1>6 DEF Reload, Restart
<1>7. ASSUME NEW s \in Socks, DialFails(s) \/ OnClose(s) \/ Deny(s) \/ Accept(s) \/ Drop(s)
      PROVE  up'[ws] = up[ws]
  BY <1>7 DEF DialFails, OnClose, Deny, Accept, Drop, net
<1>8. ASSUME NEW s \in Socks, FrontReads(s)
      PROVE  up'[ws] = up[ws]
  <2>1. Head(down[s]).type \in {"started", "resumed", "lost"}
    BY <1>8, FrontReadsTyped
  <2> QED  BY <1>3, <1>8, <2>1 DEF FrontReads, StopTab
<1>9. ASSUME NEW s \in Socks, TurnAway(s) \/ TakeStart(s) \/ TakeReconnect(s) \/ TakeStop(s)
      PROVE  up'[ws] = up[ws] \/ (up[ws] # <<>> /\ up'[ws] = Tail(up[ws]))
  <2>1. PICK t \in {"start", "reconnect", "stop"} : CoreReads(s, t)
    BY <1>9 DEF TurnAway, TakeStart, TakeReconnect, TakeStop
  <2>2. up' = [up EXCEPT ![s] = Tail(@)] /\ up[s] # <<>>
    BY <2>1, CoreReadsTyped
  <2> QED  BY <1>2, <2>2 DEF TypeOK
<1>10. ASSUME NEW s \in Socks, CoreCloses(s)
       PROVE  up'[ws] = up[ws]
  BY <1>2, <1>10 DEF CoreCloses, TypeOK
<1>11. ASSUME NEW s \in Socks, NEW i \in Ids, WatchEnds(s, i) \/ \E p \in Pods : WatchReports(s, i, p)
       PROVE  up'[ws] = up[ws]
  BY <1>11 DEF WatchEnds, WatchReports, net
<1> QED  BY <1>4, <1>5, <1>6, <1>7, <1>8, <1>9, <1>10, <1>11 DEF Serves

LEMMA RestartedNext == SocketInv /\ Restarted /\ [Next]_vars => Restarted'
<1> SUFFICES ASSUME SocketInv, Restarted, [Next]_vars, Expecting'
             PROVE  StartsLast(up'[ws'])
  BY DEF Restarted
<1> USE DEF SocketInv
<1>1. CASE UserStart
  <2>1. ws' = ws /\ ws \in Socks /\ SendStart /\ cut' = cut
    BY <1>1, IsOpenTyped DEF UserStart
  <2> QED  BY <2>1, SendStartHas DEF Expecting
<1>2. ASSUME NEW s \in Socks, OpensToResume(s)
      PROVE  StartsLast(up'[ws'])
  <2>1. Opens(s) /\ ws' = ws /\ cut' = cut /\ started' = started /\ front[s] = "dialing" /\ front' = [front EXCEPT ![s] = "open"]
    BY <1>2, OpensTyped DEF OpensToResume
  <2>2. CASE s = ws
    <3> DEFINE m == Message("reconnect", inst)
    <3>1. m \in Requests /\ m.type = "reconnect" /\ up' = Sent(up, s, m) /\ up[s] = <<>> /\ s \notin cut
      BY <1>2, <2>1, <2>2, MessageTyped DEF Message, OpensToResume, Ends, Expecting
    <3> HIDE DEF m
    <3>2. up'[s] = Append(<<>>, m)
      BY <3>1, UpSent
    <3>3. Len(up'[s]) = 1 /\ up'[s][1] = m
      BY <3>1, <3>2
    <3> QED  BY <2>1, <2>2, <3>1, <3>3 DEF StartsLast
  <2>3. CASE s # ws
    <3>1. Expecting /\ up' = up
      BY <1>2, <2>1, <2>3 DEF Expecting, IsOpen, TypeOK, OpensToResume
    <3> QED  BY <2>1, <3>1 DEF Restarted
  <2> QED  BY <2>2, <2>3
<1>3. ASSUME NEW s \in Socks, OpensToRestart(s)
      PROVE  StartsLast(up'[ws'])
  <2>1. Opens(s) /\ ws' = ws /\ cut' = cut
    BY <1>3, OpensTyped DEF OpensToRestart
  <2>2. ws = s \/ IsOpen(ws)
    BY <1>3 DEF OpensToRestart, Expecting
  <2>3. ws \in Socks /\ SendStart /\ ws \notin cut
    BY <1>3, <2>1, <2>2, IsOpenTyped DEF OpensToRestart, Expecting
  <2> QED  BY <2>1, <2>3, SendStartHas
<1>4. CASE \/ UserStop \/ Dial \/ PodStarts \/ Reload \/ Restart \/ Serve \/ UNCHANGED vars
           \/ \E s \in Socks : DialFails(s) \/ OnClose(s) \/ FrontReads(s) \/ Serves(s) \/ Drop(s)
           \/ \E s \in Socks, i \in Ids : WatchEnds(s, i) \/ \E p \in Pods : WatchReports(s, i, p)
  <2>1. Expecting /\ ws' = ws
    BY <1>4, ExpectingKept
  <2>2. up'[ws] = up[ws] \/ (up[ws] # <<>> /\ up'[ws] = Tail(up[ws]))
    BY <1>4, UpOfExpecting
  <2>3. StartsLast(up[ws]) /\ up[ws] \in Seq(Requests)
    BY <2>1, ExpectingReads DEF Restarted, TypeOK
  <2> QED  BY <2>1, <2>2, <2>3, TailHas
<1> QED  BY <1>1, <1>2, <1>3, <1>4 DEF Next

LEMMA OwedKept ==
    ASSUME SocketInv, Served \/ Awaited,
           kind' = kind, ws' = ws, inst' = inst, up'[ws] = up[ws], down'[ws] = down[ws], begun'[ws] = begun[ws],
           <<ws, inst>> \in watch => <<ws, inst>> \in watch',
           kind = "resume" => \A n \in 1..Len(conns) : conns[n].ws = ws =>
             n \in 1..Len(conns') /\ conns'[n].ws = ws /\ DOMAIN conns[n].pods \subseteq DOMAIN conns'[n].pods
    PROVE  (Served \/ Awaited)'
<1>1. CASE Served
  BY <1>1 DEF Served
<1>2. CASE Awaited
  BY <1>2 DEF Awaited, Has
<1> QED  BY <1>1, <1>2

(* What the core makes of a request of the tab.                              *)
LEMMA OwedOfServes ==
    ASSUME SocketInv, Restarted, Owed, NEW s \in Socks, Serves(s),
           Expecting', ~ astray'
    PROVE  (Served \/ Awaited)'
<1> USE DEF SocketInv
<1>1. Expecting /\ ws' = ws
  BY ExpectingKept
<1>2. ws \in Socks /\ front[ws] = "open" /\ back[ws] = "open" /\ ws \notin cut
  BY <1>1, ExpectingReads
<1>3. up[ws] \in Seq(Requests) /\ down[ws] \in Seq(Answers)
  BY <1>2 DEF TypeOK
<1>4. CASE TakeStart(s)
  <2>1. CoreReads(s, "start") /\ begun' = [begun EXCEPT ![s] = @ + 1] /\ down' = down /\ watch' = watch /\ conns' = conns
        /\ astray' = astray
    BY <1>4 DEF TakeStart
  <2>2. CASE s = ws
    <3>1. begun'[ws] > 0
      BY <1>2, <2>1, <2>2 DEF TypeOK
    <3> QED  BY <1>1, <3>1 DEF Awaited
  <2>3. CASE s # ws
    <3>1. kind' = kind /\ inst' = inst /\ up'[ws] = up[ws]
      BY <1>2, <2>1, <2>3, CoreReadsTyped, ReadIsNone DEF tab
    <3>2. begun'[ws] = begun[ws]
      BY <1>2, <2>1, <2>3 DEF TypeOK
    <3>3. Served \/ Awaited
      BY <1>1, <2>1, <3>1 DEF Owed
    <3> QED  BY <1>1, <2>1, <3>1, <3>2, <3>3, OwedKept
  <2> QED  BY <2>2, <2>3
<1>5. CASE Accept(s)
  <2>1. /\ kind' = kind /\ inst' = inst /\ up' = up /\ conns' = conns /\ (s # ws => astray' = astray)
        /\ begun' = [begun EXCEPT ![s] = @ - 1]
    BY <1>5, AcceptReads DEF tab, TypeOK
  <2>2. CASE back[s] = "open"
    <3>1. \E i \in Ids : /\ down' = Sent(down, s, Message("started", i))
                         /\ watch' = watch \cup {<<s, i>>}
      BY <1>5, <2>2, AcceptReads
    <3>2. PICK i \in Ids : down' = Sent(down, s, Message("started", i)) /\ watch' = watch \cup {<<s, i>>}
      BY <3>1
    <3>3. Message("started", i) \in Answers /\ Message("started", i).type = "started"
      BY MessageTyped DEF Message
    <3>4. CASE s = ws
      <4>1. down'[ws] = Append(down[ws], Message("started", i))
        BY <1>2, <3>2, <3>3, <3>4, DownSent
      <4>2. Has(down'[ws], {"started", "lost"})
        BY <1>3, <3>3, <4>1, AppendHas
      <4> QED  BY <1>1, <4>2 DEF Awaited
    <3>5. CASE s # ws
      <4>1. down'[ws] = down[ws] /\ begun'[ws] = begun[ws]
        BY <1>2, <2>1, <3>2, <3>3, <3>5, DownSent DEF TypeOK
      <4>2. Served \/ Awaited
        BY <1>1, <2>1, <3>5 DEF Owed
      <4> QED  BY <1>1, <2>1, <3>2, <4>1, <4>2, OwedKept
    <3> QED  BY <3>4, <3>5
  <2>3. CASE back[s] # "open"
    <3>1. s # ws /\ down' = down /\ watch' = watch
      BY <1>2, <1>5, <2>3, AcceptReads
    <3>2. begun'[ws] = begun[ws]
      BY <1>2, <2>1, <3>1 DEF TypeOK
    <3>3. Served \/ Awaited
      BY <1>1, <2>1, <3>1 DEF Owed
    <3> QED  BY <1>1, <2>1, <3>1, <3>2, <3>3, OwedKept
  <2> QED  BY <2>2, <2>3
<1>6. CASE TakeReconnect(s)
  <2> DEFINE i == Head(up[s]).inst
             k == ConnWith(i)
             m == Message(IF k = 0 THEN "lost" ELSE "resumed", i)
  <2>1. s = ws /\ CoreReads(s, "reconnect")
    BY <1>6 DEF TakeReconnect
  <2>2. /\ Len(conns') = Len(conns) /\ down' = Sent(down, s, m)
        /\ \A n \in 1..Len(conns) : conns'[n].pods = conns[n].pods
        /\ \A n \in 1..Len(conns) : conns'[n].ws = IF n = k THEN s ELSE conns[n].ws
        /\ k # 0 => k \in 1..Len(conns) /\ i \in DOMAIN conns[k].pods
    BY <1>6, ReconnectReads
  <2>3. m \in Answers /\ (k = 0 => m.type = "lost")
    BY <2>1, CoreReadsTyped, MessageTyped DEF Message
  <2>4. kind = "resume" /\ i = inst
    <3>1. up[s] # <<>> /\ Head(up[s]).type = "reconnect"
      BY <2>1, CoreReadsTyped
    <3>2. 1 \in 1..Len(up[s]) /\ Head(up[s]) = up[s][1]
      BY <1>3, <2>1, <3>1, TailReads
    <3> QED  BY <2>1, <3>1, <3>2 DEF Resumes
  <2>5. kind' = kind /\ inst' = inst
    BY <2>1, CoreReadsTyped DEF tab
  <2> HIDE DEF i, k, m
  <2>6. CASE k = 0
    <3>1. down'[ws] = Append(down[ws], m)
      BY <1>2, <2>1, <2>2, <2>3, DownSent
    <3>2. Has(down'[ws], {"started", "lost"})
      BY <1>3, <2>3, <2>6, <3>1, AppendHas
    <3> QED  BY <1>1, <3>2 DEF Awaited
  <2>7. CASE k # 0
    <3>1. k \in 1..Len(conns') /\ conns'[k].ws = ws' /\ inst' \in DOMAIN conns'[k].pods
      BY <1>1, <2>1, <2>2, <2>4, <2>5, <2>7
    <3> QED  BY <2>4, <2>5, <3>1 DEF Served
  <2> QED  BY <2>6, <2>7
<1>7. CASE TakeStop(s)
  <2>1. CoreReads(s, "stop") /\ begun' = begun /\ down' = down /\ watch' = watch /\ astray' = astray
    BY <1>7 DEF TakeStop
  <2>2. kind' = kind /\ inst' = inst
    BY <2>1, CoreReadsTyped DEF tab
  <2>3. CASE s = ws
    <3>1. up[ws] # <<>> /\ Head(up[ws]).type = "stop" /\ up'[ws] = Tail(up[ws])
      BY <1>2, <2>1, <2>3, CoreReadsTyped DEF TypeOK
    <3>2. Has(up'[ws], {"start"})
      BY <1>1, <1>3, <3>1, TailHas DEF Restarted
    <3> QED  BY <1>1, <3>2 DEF Awaited, Has
  <2>4. CASE s # ws
    <3>1. up'[ws] = up[ws]
      BY <1>2, <2>1, <2>4, ReadIsNone
    <3>2. Len(conns') = Len(conns) /\ \A n \in 1..Len(conns) : conns[n].ws # s => conns'[n] = conns[n]
      BY <1>7, StopReads
    <3>3. Served \/ Awaited
      BY <1>1, <2>1, <2>2 DEF Owed
    <3> QED  BY <1>1, <2>1, <2>2, <2>4, <3>1, <3>2, <3>3, OwedKept
  <2> QED  BY <2>3, <2>4
<1>8. CASE CoreCloses(s)
  <2>1. /\ kind' = kind /\ inst' = inst /\ down' = down /\ begun' = begun /\ watch' = watch /\ astray' = astray /\ s \in cut
        /\ up' = [up EXCEPT ![s] = <<>>]
    BY <1>8 DEF CoreCloses, tab
  <2>2. up'[ws] = up[ws]
    BY <1>2, <2>1 DEF TypeOK
  <2>3. kind = "resume" => conns' = conns
    BY <1>8, ClosesReads
  <2>4. Served \/ Awaited
    BY <1>1, <2>1 DEF Owed
  <2> QED  BY <1>1, <2>1, <2>2, <2>3, <2>4, OwedKept
<1>9. CASE TurnAway(s)
  <2>1. PICK t \in {"start", "stop", "reconnect"} :
          CoreReads(s, t) /\ astray' = (astray \/ (s = ws /\ t # "stop"))
    BY <1>9, TurnAwayReads
  <2>2. kind' = kind /\ inst' = inst /\ down' = down /\ begun' = begun /\ watch' = watch /\ conns' = conns
    BY <1>9, <2>1, CoreReadsTyped, TurnAwayReads DEF tab
  <2>3. CASE s = ws
    <3>1. t = "stop"
      BY <2>1, <2>3
    <3>2. up[ws] # <<>> /\ Head(up[ws]).type = "stop" /\ up'[ws] = Tail(up[ws])
      BY <1>2, <2>1, <2>3, <3>1, CoreReadsTyped DEF TypeOK
    <3>3. Has(up'[ws], {"start"})
      BY <1>1, <1>3, <3>2, TailHas DEF Restarted
    <3> QED  BY <1>1, <3>3 DEF Awaited, Has
  <2>4. CASE s # ws
    <3>1. up'[ws] = up[ws]
      BY <1>2, <2>1, <2>4, ReadIsNone
    <3>2. Served \/ Awaited
      BY <1>1, <2>1 DEF Owed
    <3> QED  BY <1>1, <2>2, <3>1, <3>2, OwedKept
  <2> QED  BY <2>3, <2>4
<1>10. CASE Deny(s)
  <2>1. /\ kind' = kind /\ inst' = inst /\ up' = up /\ down' = down /\ watch' = watch /\ conns' = conns
        /\ begun' = [begun EXCEPT ![s] = @ - 1] /\ astray' = (astray \/ s = ws)
    BY <1>10, DenyReads DEF tab, net
  <2>2. s # ws
    BY <2>1
  <2>3. begun'[ws] = begun[ws]
    BY <1>2, <2>1, <2>2 DEF TypeOK
  <2>4. Served \/ Awaited
    BY <1>1, <2>1 DEF Owed
  <2> QED  BY <1>1, <2>1, <2>3, <2>4, OwedKept
<1> QED  BY <1>4, <1>5, <1>6, <1>7, <1>8, <1>9, <1>10 DEF Serves

LEMMA OwedNext == TabInv /\ [Next]_vars => Owed'
<1> SUFFICES ASSUME TabInv, [Next]_vars, Expecting', ~ astray'
             PROVE  (Served \/ Awaited)'
  BY DEF Owed
<1> USE DEF TabInv, SocketInv
<1>1. CASE UserStart
  <2>1. ws' = ws /\ ws \in Socks /\ SendStart /\ cut' = cut
    BY <1>1, IsOpenTyped DEF UserStart
  <2>2. Has(up'[ws], {"start", "reconnect"})
    BY <2>1, SendStartHas DEF Expecting
  <2> QED  BY <2>1, <2>2 DEF Awaited
<1>2. ASSUME NEW s \in Socks, OpensToResume(s)
      PROVE  (Served \/ Awaited)'
  <2>1. /\ Opens(s) /\ kind' = kind /\ ws' = ws /\ cut' = cut /\ down' = down /\ core' = core
        /\ started' = started /\ inst' = inst /\ front' = [front EXCEPT ![s] = "open"]
    BY <1>2, OpensTyped DEF OpensToResume
  <2>2. CASE s = ws
    <3> DEFINE m == Message("reconnect", inst)
    <3>1. m \in Requests /\ m.type = "reconnect" /\ up' = Sent(up, s, m) /\ s \notin cut /\ up[s] \in Seq(Requests)
      BY <1>2, <2>1, <2>2, MessageTyped DEF Message, OpensToResume, Expecting, TypeOK
    <3> HIDE DEF m
    <3>2. up'[s] = Append(up[s], m)
      BY <3>1, UpSent
    <3>3. Has(up'[s], {"start", "reconnect"})
      BY <3>1, <3>2, AppendHas
    <3> QED  BY <2>1, <2>2, <3>3 DEF Awaited
  <2>3. CASE s # ws
    <3>1. Expecting /\ up' = up
      BY <1>2, <2>1, <2>3 DEF Expecting, IsOpen, TypeOK, OpensToResume
    <3>2. Served \/ Awaited
      BY <2>1, <3>1 DEF Owed, core
    <3> QED  BY <2>1, <3>1, <3>2, OwedKept DEF core
  <2> QED  BY <2>2, <2>3
<1>3. ASSUME NEW s \in Socks, OpensToRestart(s)
      PROVE  (Served \/ Awaited)'
  <2>1. Opens(s) /\ ws' = ws /\ cut' = cut
    BY <1>3, OpensTyped DEF OpensToRestart
  <2>2. ws = s \/ IsOpen(ws)
    BY <1>3 DEF OpensToRestart, Expecting
  <2>3. ws \in Socks /\ SendStart /\ ws \notin cut
    BY <1>3, <2>1, <2>2, IsOpenTyped DEF OpensToRestart, Expecting
  <2>4. Has(up'[ws], {"start", "reconnect"})
    BY <2>3, SendStartHas
  <2> QED  BY <2>1, <2>4 DEF Awaited
<1>4. CASE \/ UserStop \/ Dial \/ PodStarts \/ Reload \/ Restart \/ Serve \/ UNCHANGED vars
           \/ \E s \in Socks : DialFails(s) \/ OnClose(s) \/ FrontReads(s) \/ Serves(s) \/ Drop(s)
           \/ \E s \in Socks, i \in Ids : WatchEnds(s, i) \/ \E p \in Pods : WatchReports(s, i, p)
  <2>1. Expecting /\ ws' = ws
    BY <1>4, ExpectingKept
  <2>2. ws \in Socks /\ front[ws] = "open" /\ back[ws] = "open" /\ ws \notin cut
    BY <2>1, ExpectingReads
  <2>3. front'[ws] = "open" /\ ws \notin cut' /\ started'
    BY <2>1, <2>2 DEF Expecting, IsOpen
  <2>4. CASE UserStop
    BY <2>3, <2>4 DEF UserStop, StopTab
  <2>5. CASE Dial
    <3>1. ws' # ws
      BY <2>5, DialReads DEF Unused
    <3> QED  BY <2>1, <3>1
  <2>6. CASE PodStarts \/ Serve \/ (\E s \in Socks : DialFails(s) \/ Drop(s)) \/ UNCHANGED vars
    <3>1. /\ kind' = kind /\ inst' = inst /\ up' = up /\ down' = down /\ begun' = begun /\ watch' = watch /\ conns' = conns
          /\ astray' = astray
      BY <2>6 DEF PodStarts, Serve, DialFails, Drop, vars, tab, net, core
    <3>2. Served \/ Awaited
      BY <2>1, <3>1 DEF Owed
    <3> QED  BY <2>1, <3>1, <3>2, OwedKept
  <2>7. ASSUME NEW s \in Socks, OnClose(s)
        PROVE  (Served \/ Awaited)'
    <3>1. /\ kind' = kind /\ inst' = inst /\ up' = up /\ core' = core
          /\ front' = [front EXCEPT ![s] = "closed"] /\ down' = [down EXCEPT ![s] = <<>>]
      BY <2>7 DEF OnClose
    <3>2. s # ws /\ down'[ws] = down[ws]
      BY <2>2, <2>3, <3>1 DEF TypeOK
    <3>3. Served \/ Awaited
      BY <2>1, <3>1 DEF Owed, core
    <3> QED  BY <2>1, <3>1, <3>2, <3>3, OwedKept DEF core
  <2>8. ASSUME NEW s \in Socks, FrontReads(s)
        PROVE  (Served \/ Awaited)'
    <3>1. kind' = kind /\ core' = core /\ down' = [down EXCEPT ![s] = Tail(@)]
      BY <2>8 DEF FrontReads
    <3>2. /\ down[s] \in Seq(Answers) /\ down[s] # <<>>
          /\ Head(down[s]).type \in {"started", "resumed", "lost"}
      BY <2>8, FrontReadsTyped
    <3>3. CASE s # ws
      <4>1. inst' = inst /\ up' = up
        BY <2>8, <3>3 DEF FrontReads
      <4>2. down'[ws] = down[ws]
        BY <2>2, <3>1, <3>3 DEF TypeOK
      <4>3. Served \/ Awaited
        BY <2>1, <3>1, <4>1 DEF Owed, core
      <4> QED  BY <2>1, <3>1, <4>1, <4>2, <4>3, OwedKept DEF core
    <3>4. CASE s = ws /\ Head(down[s]).type = "started"
      <4>1. ws \in bound
        BY <2>1 DEF Handled, Expecting
      <4>2. inst' = Head(down[s]).inst
        BY <2>8, <3>4, <4>1 DEF FrontReads
      <4>3. 1 \in 1..Len(down[s]) /\ Head(down[s]) = down[s][1]
        BY <3>2, TailReads
      <4>4. <<ws, inst'>> \in watch
        BY <2>2, <3>4, <4>2, <4>3 DEF Told
      <4> QED  BY <2>1, <3>1, <4>4 DEF Served, core
    <3>5. CASE s = ws /\ Head(down[s]).type = "resumed"
      <4>1. ws \in bound
        BY <2>1 DEF Handled, Expecting
      <4>2. inst' = inst /\ up' = up
        BY <2>8, <3>5, <4>1 DEF FrontReads
      <4>3. Served \/ Awaited
        BY <2>1, <3>1, <4>2 DEF Owed, core
      <4>4. down'[ws] = Tail(down[ws])
        BY <2>2, <3>1, <3>5 DEF TypeOK
      <4>5. Has(down[ws], {"started", "lost"}) => Has(down'[ws], {"started", "lost"})
        BY <3>2, <3>5, <4>4, TailHas
      <4> QED  BY <2>1, <3>1, <4>2, <4>3, <4>5 DEF Served, Awaited, core
    <3>6. CASE s = ws /\ Head(down[s]).type = "lost"
      <4>1. ws \in bound
        BY <2>1 DEF Handled, Expecting
      <4>2. StopTab
        BY <2>8, <3>6, <4>1 DEF FrontReads
      <4> QED  BY <2>3, <4>2 DEF StopTab
    <3> QED  BY <3>2, <3>3, <3>4, <3>5, <3>6
  <2>9. ASSUME NEW s \in Socks, NEW i \in Ids, WatchEnds(s, i) \/ \E p \in Pods : WatchReports(s, i, p)
        PROVE  (Served \/ Awaited)'
    <3>1. kind' = kind /\ inst' = inst /\ up' = up /\ down' = down /\ begun' = begun /\ astray' = astray
      BY <2>9 DEF WatchEnds, WatchReports, tab, net
    <3>2. Served \/ Awaited
      BY <2>1, <3>1 DEF Owed
    <3>3. CASE WatchEnds(s, i)
      <4>1. conns' = conns /\ watch' = watch \ {<<s, i>>} /\ s # ws
        BY <2>2, <3>3 DEF WatchEnds
      <4> QED  BY <2>1, <3>1, <3>2, <4>1, OwedKept
    <3>4. ASSUME NEW p \in Pods, WatchReports(s, i, p)
          PROVE  (Served \/ Awaited)'
      <4>1. watch' = watch
        BY <3>4 DEF WatchReports
      <4>2. /\ Len(conns') \in {Len(conns), Len(conns) + 1}
            /\ \A n \in 1..Len(conns) : conns'[n].ws = conns[n].ws /\ DOMAIN conns[n].pods \subseteq DOMAIN conns'[n].pods
        BY <3>4, ReportReads
      <4>3. \A n \in 1..Len(conns) : n \in 1..Len(conns')
        BY <4>2, ConnsTyped
      <4> QED  BY <2>1, <3>1, <3>2, <4>1, <4>2, <4>3, OwedKept
    <3> QED  BY <2>9, <3>3, <3>4
  <2>10. CASE Reload
    <3>1. /\ kind' = kind /\ inst' = inst /\ down' = down /\ begun' = begun /\ watch' = watch /\ astray' = astray
          /\ ws \notin {s \in Socks : back[s] = "open" /\ ConnOf(s) # 0}
      BY <2>3, <2>10 DEF Reload, tab
    <3>2. ConnOf(ws) = 0 /\ up'[ws] = up[ws]
      BY <2>2, <2>10, <3>1 DEF Reload
    <3>3. \A n \in 1..Len(conns) : conns[n].ws # ws
      BY <3>2, ConnOfFinds, ConnsTyped
    <3>4. Served \/ Awaited
      BY <2>1, <3>1 DEF Owed
    <3> QED  BY <2>1, <3>1, <3>2, <3>3, <3>4, OwedKept
  <2>11. CASE Restart
    BY <2>2, <2>3, <2>11 DEF Restart
  <2>12. ASSUME NEW s \in Socks, Serves(s)
         PROVE  (Served \/ Awaited)'
    BY <2>12, OwedOfServes
  <2> QED  BY <1>4, <2>4, <2>5, <2>6, <2>7, <2>8, <2>9, <2>10, <2>11, <2>12
<1> QED  BY <1>1, <1>2, <1>3, <1>4 DEF Next

LEMMA TabAlways == Spec => []TabInv
<1>1. Init => TabInv
  <2> SUFFICES ASSUME Init
               PROVE  TabInv
    OBVIOUS
  <2>1. SocketInv
    BY SocketInit
  <2>2. ~ started /\ \A s \in Socks : down[s] = <<>>
    BY DEF Init
  <2> QED  BY <2>1, <2>2 DEF TabInv, Told, Handled, Restarted, Owed, Expecting
<1>2. TabInv /\ [Next]_vars => TabInv'
  BY SocketNext, ToldNext, HandledNext, RestartedNext, OwedNext DEF TabInv
<1> QED  BY <1>1, <1>2, PTL DEF Spec

(* A tab that shows itself started is served on the socket it has, or its    *)
(* pods are about to be, once both ends of the socket have said what they    *)
(* had to: through every break, dial, reload and restart, unless the last    *)
(* START or RECONNECT that the core answered was of a socket the tab had     *)
(* left, or was turned away.                                                 *)
THEOREM StartedTabsAreServed == Spec => []StartedIsServed
<1>1. TabInv => StartedIsServed
  <2> SUFFICES ASSUME TabInv, started, Settled, ~ astray
               PROVE  \/ <<ws, inst>> \in watch
                      \/ ConnOf(ws) # 0 /\ inst \in DOMAIN conns[ConnOf(ws)].pods
    BY DEF StartedIsServed
  <2> USE DEF TabInv, SocketInv
  <2>1. Expecting /\ up[ws] = <<>> /\ down[ws] = <<>> /\ begun[ws] = 0
    BY DEF Expecting, IsOpen, Settled
  <2>2. ~ Awaited
    BY <2>1 DEF Awaited, Has
  <2>3. Served
    BY <2>1, <2>2 DEF Owed
  <2>4. ASSUME NEW n \in 1..Len(conns), conns[n].ws = ws, inst \in DOMAIN conns[n].pods
        PROVE  ConnOf(ws) # 0 /\ inst \in DOMAIN conns[ConnOf(ws)].pods
    <3>1. ConnOf(ws) \in 1..Len(conns) /\ conns[ConnOf(ws)].ws = ws
      BY <2>4, ConnOfFinds
    <3>2. ConnOf(ws) = n
      BY <2>4, <3>1 DEF OneConnectionEach
    <3>3. n # 0
      BY ConnsTyped
    <3> QED  BY <2>4, <3>2, <3>3
  <2> QED  BY <2>3, <2>4 DEF Served
<1> QED  BY <1>1, TabAlways, PTL
=============================================================================

-------------------------- MODULE MembershipProofs --------------------------
(***************************************************************************)
(* Safety of Membership for any nodes, addresses and bounds: no sequence   *)
(* of joins, departures, suspicions and elections takes the leader out of  *)
(* the configuration, or a server that its leader takes to be alive and    *)
(* that is not joining anew.                                               *)
(***************************************************************************)
EXTENDS Membership, TLAPS

(* No member list names its own node, no handler adds or removes its own   *)
(* node on a join, and a departure that a handler works on is known to its *)
(* node.  A node that is down has no event left, and one that runs has an  *)
(* address and has not heard of its own departure.                         *)
EventFresh(n) ==
    /\ event[n].is \in JoinStep => event[n].member # n
    /\ event[n].is = "leave" => event[n].member \notin members[n]

Handlers ==
    \A n \in Node :
        /\ n \notin members[n]
        /\ status[n] = "down" => event[n] = Idle /\ listening[n]
        /\ Running(n) => event[n] # Gone(n) /\ address[n] \in Addr
        /\ EventFresh(n)

IInv == TypeOK /\ Handlers /\ LeaderIsServer

-----------------------------------------------------------------------------

LEMMA EventStates ==
    /\ Idle \in EventState /\ Idle.is = "idle"
    /\ \A m \in Node :
          /\ Gone(m) \in EventState /\ Gone(m) # Idle
          /\ Gone(m).is = "leave" /\ Gone(m).member = m
    /\ \A step \in JoinStep, m \in Node, a \in Addr :
          /\ Joining(step, m, a) \in EventState
          /\ Joining(step, m, a).is = step
          /\ Joining(step, m, a).member = m /\ Joining(step, m, a).addr = a
    /\ \A e \in EventState :
          /\ e.is = "idle" \/ e.is = "leave" \/ e.is \in JoinStep
          /\ e.is = "leave" => e.member \in Node /\ e = Gone(e.member)
          /\ e.is \in JoinStep => /\ e.member \in Node /\ e.addr \in Addr
                                 /\ e = Joining(e.is, e.member, e.addr)
    /\ "idle" \notin JoinStep /\ "leave" \notin JoinStep
<1>1. Idle.is = "idle"
  BY DEF Idle
<1>2. \A m : Gone(m).is = "leave" /\ Gone(m).member = m
  BY DEF Gone
<1>3. \A step, m, a :
         /\ Joining(step, m, a).is = step
         /\ Joining(step, m, a).member = m /\ Joining(step, m, a).addr = a
  BY DEF Joining
<1>4. "idle" \notin JoinStep /\ "leave" \notin JoinStep
  BY DEF JoinStep
<1>5. \A m : Gone(m) # Idle
  BY <1>1, <1>2
<1>6. /\ Idle \in EventState
      /\ \A m \in Node : Gone(m) \in EventState
      /\ \A step \in JoinStep, m \in Node, a \in Addr :
            Joining(step, m, a) \in EventState
  BY DEF EventState
<1>7. ASSUME NEW e \in EventState
      PROVE  /\ e.is = "idle" \/ e.is = "leave" \/ e.is \in JoinStep
             /\ e.is = "leave" => e.member \in Node /\ e = Gone(e.member)
             /\ e.is \in JoinStep => /\ e.member \in Node /\ e.addr \in Addr
                                    /\ e = Joining(e.is, e.member, e.addr)
  <2>1. CASE e = Idle
    BY <2>1, <1>1, <1>4
  <2>2. CASE \E m \in Node : e = Gone(m)
    BY <2>2, <1>2, <1>4
  <2>3. CASE \E step \in JoinStep, m \in Node, a \in Addr : e = Joining(step, m, a)
    BY <2>3, <1>3, <1>4
  <2> QED
    BY <2>1, <2>2, <2>3 DEF EventState
<1> QED
  BY <1>1, <1>2, <1>3, <1>4, <1>5, <1>6, <1>7

(* The next state of a handler at its own join's step is again an event. *)
LEMMA NextStep ==
    ASSUME NEW e \in EventState, e.is \in JoinStep, NEW step \in JoinStep
    PROVE  /\ [e EXCEPT !.is = step] = Joining(step, e.member, e.addr)
           /\ [e EXCEPT !.is = step] \in EventState
<1>1. e = Joining(e.is, e.member, e.addr) /\ e.member \in Node /\ e.addr \in Addr
  BY EventStates
<1>2. [e EXCEPT !.is = step] = Joining(step, e.member, e.addr)
  BY <1>1 DEF Joining
<1> QED
  BY <1>1, <1>2, EventStates

LEMMA InitIInv == Init => IInv
<1> SUFFICES ASSUME Init PROVE IInv
  OBVIOUS
<1>1. /\ voters \subseteq Node /\ Bootstrap \in voters
      /\ servers \in [voters -> Addr]
  BY MembershipAssumption DEF Init, voters
<1>2. TypeOK
  BY <1>1, EventStates DEF Init, TypeOK, Running
<1>3. Handlers
  BY <1>1, EventStates DEF Init, Handlers, EventFresh, Running
<1>4. LeaderIsServer
  BY <1>1 DEF Init, LeaderIsServer, RaftRuns
<1> QED
  BY <1>2, <1>3, <1>4 DEF IInv

(* An event Serf puts into a handler's hands, whatever it says. *)
LEMMA NoticeKeepsIInv ==
    ASSUME IInv, NEW n \in Node, NEW e \in EventState,
           NEW known \in SUBSET Node,
           RaftRuns(n), n \notin known,
           e = Gone(n) => ~Running(n),
           e.is \in JoinStep => e.member # n,
           e.is = "leave" => e.member \notin known,
           members' = [members EXCEPT ![n] = known],
           event' = [event EXCEPT ![n] = e],
           UNCHANGED <<status, address, listening, servers, leader>>
    PROVE  IInv'
<1> USE DEF IInv
<1>1. TypeOK'
  BY DEF TypeOK, Running, voters
<1>2. Handlers'
  BY DEF TypeOK, Handlers, EventFresh, Running, RaftRuns
<1>3. LeaderIsServer'
  BY DEF LeaderIsServer, RaftRuns, voters
<1> QED
  BY <1>1, <1>2, <1>3

(* A step of a handler that works on an event: the next state of the event *)
(* is idle or still of the same member's join, and the configuration, if   *)
(* it changes, still has the handler's node.                               *)
LEMMA HandledKeepsIInv ==
    ASSUME IInv, NEW n \in Node, NEW e \in EventState,
           RaftRuns(n), Handle(n, e),
           e = Idle \/ (e.is \in JoinStep /\ e.member # n),
           DOMAIN servers' \subseteq Node,
           servers' \in [DOMAIN servers' -> Addr],
           servers' = servers \/ (leader = n /\ n \in DOMAIN servers'),
           leader' \in {leader, None}
    PROVE  IInv'
<1> USE DEF IInv
<1>1. TypeOK'
  BY DEF Handle, TypeOK, Running, voters
<1>2. Handlers'
  BY EventStates DEF Handle, TypeOK, Handlers, EventFresh, Running, RaftRuns
<1>3. LeaderIsServer'
  BY DEF Handle, LeaderIsServer, RaftRuns, voters
<1> QED
  BY <1>1, <1>2, <1>3

(* What Raft makes of a change that its leader asks for. *)
LEMMA ReconfigureIs ==
    ASSUME IInv, NEW n \in Node, NEW config,
           Committed(n, config) \/ NotCommitted(n, config)
    PROVE  servers' \in {servers, config} /\ leader' \in {leader, None}
BY DEF Committed, NotCommitted

(* The configurations handlers ask for: still of nodes and addresses, and  *)
(* nobody but the member asked about comes, goes or moves.                 *)
LEMMA AskedFor ==
    ASSUME IInv, NEW m \in Node, NEW a \in Addr
    PROVE  /\ Without(m) \in [voters \ {m} -> Addr]
           /\ With(m, a) \in [voters \cup {m} -> Addr]
           /\ \A k \in voters \ {m} :
                 Without(m)[k] = servers[k] /\ With(m, a)[k] = servers[k]
BY DEF IInv, TypeOK, Without, With

(* A node goes down. *)
LEMMA StopKeepsIInv ==
    ASSUME IInv, NEW n \in Node, Stop(n)
    PROVE  IInv'
<1> USE DEF IInv
<1>1. TypeOK'
  BY EventStates DEF Stop, TypeOK, Running, voters
<1>2. Handlers'
  BY EventStates DEF Stop, TypeOK, Handlers, EventFresh, Running
<1>3. LeaderIsServer'
  BY DEF Stop, TypeOK, LeaderIsServer, RaftRuns, voters
<1> QED
  BY <1>1, <1>2, <1>3

LEMMA JoinReadsKeepsIInv ==
    ASSUME IInv, NEW n \in Node, JoinReads(n)
    PROVE  IInv'
<1> DEFINE e == event[n]
           next == event'[n]
<1> HIDE DEF e
<1>1. e \in EventState /\ e.is \in JoinStep /\ e.member # n
  BY DEF e, JoinReads, JoinStep, IInv, TypeOK, Handlers, EventFresh
<1>2. PICK step \in EventState :
         /\ Handle(n, step)
         /\ step = Idle \/ (step.is \in JoinStep /\ step.member = e.member)
  <2>1. "remove" \in JoinStep /\ "add" \in JoinStep
    BY DEF JoinStep
  <2>2. \A s \in {"remove", "add"} :
           /\ [e EXCEPT !.is = s] \in EventState
           /\ [e EXCEPT !.is = s].is \in JoinStep
           /\ [e EXCEPT !.is = s].member = e.member
    BY <1>1, <2>1, NextStep, EventStates
  <2>3. \/ Handle(n, Idle)
        \/ \E s \in {"remove", "add"} : Handle(n, [e EXCEPT !.is = s])
    BY DEF JoinReads, e
  <2> QED
    BY <2>2, <2>3, EventStates
<1>3. RaftRuns(n) /\ servers' = servers /\ leader' = leader
  BY DEF JoinReads
<1> QED
  BY <1>1, <1>2, <1>3, HandledKeepsIInv DEF IInv, TypeOK, voters

LEMMA JoinRemovesKeepsIInv ==
    ASSUME IInv, NEW n \in Node, JoinRemoves(n)
    PROVE  IInv'
<1> DEFINE e == event[n]
<1> HIDE DEF e
<1>1. e \in EventState /\ e.is \in JoinStep /\ e.member # n
  BY DEF e, JoinRemoves, JoinStep, IInv, TypeOK, Handlers, EventFresh
<1>2. e.member \in Node /\ e.addr \in Addr
  BY <1>1, EventStates
<1>3. PICK step \in EventState :
         /\ Handle(n, step)
         /\ step = Idle \/ (step.is \in JoinStep /\ step.member = e.member)
  <2>0. "add" \in JoinStep
    BY DEF JoinStep
  <2>1. /\ [e EXCEPT !.is = "add"] \in EventState
        /\ [e EXCEPT !.is = "add"].is \in JoinStep
        /\ [e EXCEPT !.is = "add"].member = e.member
    BY <1>1, <2>0, NextStep, EventStates
  <2>2. Handle(n, Idle) \/ Handle(n, [e EXCEPT !.is = "add"])
    BY DEF JoinRemoves, e
  <2> QED
    BY <2>1, <2>2, EventStates
<1>4. /\ RaftRuns(n) /\ leader' \in {leader, None}
      /\ servers' = servers \/ (leader = n /\ servers' = Without(e.member))
  BY DEF JoinRemoves, AfterRemove, Committed, NotCommitted, e
<1>5. /\ DOMAIN servers' \subseteq Node /\ servers' \in [DOMAIN servers' -> Addr]
      /\ servers' = servers \/ (leader = n /\ n \in DOMAIN servers')
  <2>1. CASE servers' = servers
    BY <2>1 DEF IInv, TypeOK, voters
  <2>2. CASE leader = n /\ servers' = Without(e.member)
    <3>1. Without(e.member) \in [voters \ {e.member} -> Addr]
      BY <1>2, AskedFor
    <3>2. n \in voters /\ voters \subseteq Node
      BY <2>2, MembershipAssumption DEF IInv, LeaderIsServer, TypeOK
    <3> QED
      BY <2>2, <3>1, <3>2, <1>1
  <2> QED
    BY <1>4, <2>1, <2>2
<1> QED
  BY <1>1, <1>3, <1>4, <1>5, HandledKeepsIInv

LEMMA JoinAddsKeepsIInv ==
    ASSUME IInv, NEW n \in Node, JoinAdds(n)
    PROVE  IInv'
<1> DEFINE e == event[n]
<1> HIDE DEF e
<1>1. e \in EventState /\ e.is \in JoinStep
  BY DEF e, JoinAdds, JoinStep, IInv, TypeOK
<1>2. e.member \in Node /\ e.addr \in Addr
  BY <1>1, EventStates
<1>3. /\ RaftRuns(n) /\ Handle(n, Idle) /\ leader' \in {leader, None}
      /\ servers' = servers \/ (leader = n /\ servers' = With(e.member, e.addr))
  BY DEF JoinAdds, Committed, NotCommitted, e
<1>4. /\ DOMAIN servers' \subseteq Node /\ servers' \in [DOMAIN servers' -> Addr]
      /\ servers' = servers \/ (leader = n /\ n \in DOMAIN servers')
  <2>1. CASE servers' = servers
    BY <2>1 DEF IInv, TypeOK, voters
  <2>2. CASE leader = n /\ servers' = With(e.member, e.addr)
    <3>1. With(e.member, e.addr) \in [voters \cup {e.member} -> Addr]
      BY <1>2, AskedFor
    <3>2. n \in voters /\ voters \subseteq Node
      BY <2>2, MembershipAssumption DEF IInv, LeaderIsServer, TypeOK
    <3> QED
      BY <2>2, <3>1, <3>2, <1>2
  <2> QED
    BY <1>3, <2>1, <2>2
<1> QED
  BY <1>3, <1>4, HandledKeepsIInv, EventStates

LEMMA HandleLeaveKeepsIInv ==
    ASSUME IInv, NEW n \in Node, HandleLeave(n)
    PROVE  IInv'
<1> DEFINE m == event[n].member
<1> HIDE DEF m
<1>1. m \in Node /\ m # n
  BY EventStates DEF m, HandleLeave, IsLocal, IInv, TypeOK
<1>2. /\ RaftRuns(n) /\ Handle(n, Idle) /\ leader' \in {leader, None}
      /\ servers' = servers \/ (leader = n /\ servers' = Without(m))
  BY DEF HandleLeave, AfterLeave, Committed, NotCommitted, m
<1>3. /\ DOMAIN servers' \subseteq Node /\ servers' \in [DOMAIN servers' -> Addr]
      /\ servers' = servers \/ (leader = n /\ n \in DOMAIN servers')
  <2>1. CASE servers' = servers
    BY <2>1 DEF IInv, TypeOK, voters
  <2>2. CASE leader = n /\ servers' = Without(m)
    <3>1. Without(m) \in [voters \ {m} -> Addr]
      BY <1>1, MembershipAssumption DEF IInv, TypeOK, Without
    <3>2. n \in voters /\ voters \subseteq Node
      BY <2>2, MembershipAssumption DEF IInv, LeaderIsServer, TypeOK
    <3> QED
      BY <2>2, <3>1, <3>2, <1>1
  <2> QED
    BY <1>2, <2>1, <2>2
<1> QED
  BY <1>2, <1>3, HandledKeepsIInv, EventStates

LEMMA StepKeepsIInv == IInv /\ [Next]_vars => IInv'
<1> SUFFICES ASSUME IInv, [Next]_vars
             PROVE  IInv'
  OBVIOUS
<1> USE DEF IInv
<1>1. ASSUME NEW n \in Node, NEW m \in Node, NoticeJoin(n, m)
      PROVE  IInv'
  <2> DEFINE e == Joining("join", m, address[m])
  <2> HIDE DEF e
  <2>1. members[n] \cup {m} \in SUBSET Node /\ n \notin members[n] \cup {m}
    BY <1>1 DEF NoticeJoin, TypeOK, Handlers
  <2>2. address[m] \in Addr
    BY <1>1 DEF NoticeJoin, Running, IInv, Handlers
  <2>3. e \in EventState /\ e.is \in JoinStep /\ e.member = m
    BY <2>2, EventStates DEF e, JoinStep
  <2>4. e # Gone(n) /\ e.is # "leave"
    BY <2>3, EventStates
  <2> QED
    BY <1>1, <2>1, <2>3, <2>4, NoticeKeepsIInv DEF NoticeJoin, Ready, e
<1>2. ASSUME NEW n \in Node, NEW m \in Node, NoticeLeave(n, m) \/ Suspect(n, m)
      PROVE  IInv'
  <2>1. /\ members[n] \ {m} \in SUBSET Node /\ n \notin members[n] \ {m}
        /\ m # n /\ m \notin members[n] \ {m}
    BY <1>2 DEF NoticeLeave, Suspect, TypeOK, Handlers
  <2>2. /\ Gone(m) \in EventState /\ Gone(m) # Gone(n)
        /\ Gone(m).is \notin JoinStep /\ Gone(m).member = m
    BY EventStates, <2>1
  <2> QED
    BY <1>2, <2>1, <2>2, NoticeKeepsIInv DEF NoticeLeave, Suspect, Ready
<1>3. ASSUME NEW n \in Node, NoticeOwnLeave(n)
      PROVE  IInv'
  <2>1. members[n] \in SUBSET Node /\ n \notin members[n]
        /\ members' = [members EXCEPT ![n] = members[n]]
    BY <1>3 DEF NoticeOwnLeave, TypeOK, Handlers
  <2> DEFINE e == Gone(n)
  <2> HIDE DEF e
  <2>2. /\ e \in EventState /\ ~Running(n)
        /\ e.is \notin JoinStep /\ e.member = n
    BY <1>3, EventStates DEF NoticeOwnLeave, Running, e
  <2>3. /\ RaftRuns(n) /\ event' = [event EXCEPT ![n] = e]
        /\ UNCHANGED <<status, address, listening, servers, leader>>
    BY <1>3 DEF NoticeOwnLeave, Ready, e
  <2> QED
    BY <2>1, <2>2, <2>3, NoticeKeepsIInv
<1>4. ASSUME NEW n \in Node, JoinReads(n) \/ JoinRemoves(n) \/ JoinAdds(n)
      PROVE  IInv'
  BY <1>4, JoinReadsKeepsIInv, JoinRemovesKeepsIInv, JoinAddsKeepsIInv
<1>5. ASSUME NEW n \in Node, HandleLeave(n)
      PROVE  IInv'
  BY <1>5, HandleLeaveKeepsIInv
<1>6. ASSUME NEW n \in Node, HandleOwnLeave(n)
      PROVE  IInv'
  <2>1. ~Running(n) /\ status[n] # "down"
    BY <1>6, EventStates DEF HandleOwnLeave, IsLocal, TypeOK, Handlers, RaftRuns
  <2>2. TypeOK'
    BY <1>6, <2>1, EventStates DEF HandleOwnLeave, TypeOK, Running, voters
  <2>3. Handlers'
    BY <1>6, <2>1, EventStates DEF HandleOwnLeave, TypeOK, Handlers, EventFresh, Running
  <2>4. LeaderIsServer'
    BY <1>6 DEF HandleOwnLeave, LeaderIsServer, RaftRuns, voters
  <2> QED
    BY <2>2, <2>3, <2>4
<1>7. ASSUME NEW n \in Node, Start(n)
      PROVE  IInv'
  <2>0. PICK a \in Addr : address' = [address EXCEPT ![n] = a]
    BY <1>7, MembershipAssumption DEF Start
  <2>4. /\ status[n] = "down" /\ status' = [status EXCEPT ![n] = "running"]
        /\ UNCHANGED <<members, event, listening, servers, leader>>
    BY <1>7 DEF Start
  <2>1. TypeOK'
    BY <1>7, <2>0, EventStates DEF Start, TypeOK, Handlers, Running, voters
  <2>2. Handlers'
    BY <2>0, <2>4, EventStates DEF TypeOK, Handlers, EventFresh, Running
  <2>3. LeaderIsServer'
    BY <1>7 DEF Start, TypeOK, LeaderIsServer, RaftRuns, voters
  <2> QED
    BY <2>1, <2>2, <2>3
<1>8. ASSUME NEW n \in Node, Leave(n)
      PROVE  IInv'
  <2>1. TypeOK' /\ Handlers'
    BY <1>8 DEF Leave, TypeOK, Handlers, EventFresh, Running, voters
  <2>2. LeaderIsServer'
    BY <1>8 DEF Leave, TypeOK, LeaderIsServer, RaftRuns, voters
  <2> QED
    BY <2>1, <2>2
<1>9. ASSUME NEW n \in Node, CloseLog(n) \/ Crash(n)
      PROVE  IInv'
  BY <1>9, StopKeepsIInv DEF CloseLog, Crash
<1>10. ASSUME NEW n \in Node, Elect(n)
       PROVE  IInv'
  BY <1>10 DEF Elect, TypeOK, Handlers, EventFresh, LeaderIsServer, Running, RaftRuns, voters
<1>11. CASE LoseLeader
  BY <1>11 DEF LoseLeader, TypeOK, Handlers, EventFresh, LeaderIsServer, Running, RaftRuns, voters
<1>12. CASE UNCHANGED vars
  BY <1>12 DEF vars, TypeOK, Handlers, EventFresh, LeaderIsServer, Running, RaftRuns, voters
<1> QED
  BY <1>1, <1>2, <1>3, <1>4, <1>5, <1>6, <1>7, <1>8, <1>9, <1>10, <1>11, <1>12 DEF Next

LEMMA AlwaysIInv == Spec => []IInv
BY InitIInv, StepKeepsIInv, PTL DEF Spec

-----------------------------------------------------------------------------

(* What ServersStay says of one step. *)
Stays ==
    \A m \in voters :
        ~KeepsServer(m) =>
            /\ leader # None
            /\ \/ m \notin members[leader]
               \/ event[leader].is \in JoinStep /\ event[leader].member = m

LEMMA StepKeepsServers == IInv /\ [Next]_vars => Stays \/ UNCHANGED vars
<1> SUFFICES ASSUME IInv, Next PROVE Stays
  BY DEF Stays
<1>1. CASE servers' = servers
  BY <1>1 DEF Stays, KeepsServer, voters
<1>2. ASSUME NEW n \in Node, NEW k \in Node, leader = n,
             \A m \in voters \ {k} : KeepsServer(m),
             \/ k \notin members[n]
             \/ event[n].is \in JoinStep /\ event[n].member = k
      PROVE  Stays
  BY <1>2, MembershipAssumption DEF Stays
<1>3. ASSUME NEW n \in Node, JoinRemoves(n)
      PROVE  Stays
  <2> DEFINE m == event[n].member
  <2> HIDE DEF m
  <2>1. m \in Node /\ event[n].is \in JoinStep
    BY <1>3, EventStates DEF m, JoinRemoves, JoinStep, IInv, TypeOK
  <2>2. servers' = servers \/ (leader = n /\ servers' = Without(m))
    BY <1>3 DEF JoinRemoves, AfterRemove, Committed, NotCommitted, m
  <2>3. servers' = Without(m) => \A k \in voters \ {m} : KeepsServer(k)
    BY DEF Without, KeepsServer
  <2> QED
    BY <1>1, <1>2, <2>1, <2>2, <2>3 DEF m
<1>4. ASSUME NEW n \in Node, JoinAdds(n)
      PROVE  Stays
  <2> DEFINE m == event[n].member
             a == event[n].addr
  <2> HIDE DEF m, a
  <2>1. m \in Node /\ event[n].is \in JoinStep
    BY <1>4, EventStates DEF m, JoinAdds, JoinStep, IInv, TypeOK
  <2>2. servers' = servers \/ (leader = n /\ servers' = With(m, a))
    BY <1>4 DEF JoinAdds, Committed, NotCommitted, m, a
  <2>3. servers' = With(m, a) => \A k \in voters \ {m} : KeepsServer(k)
    BY DEF With, KeepsServer
  <2> QED
    BY <1>1, <1>2, <2>1, <2>2, <2>3 DEF m
<1>5. ASSUME NEW n \in Node, HandleLeave(n)
      PROVE  Stays
  <2> DEFINE m == event[n].member
  <2> HIDE DEF m
  <2>1. m \in Node /\ m \notin members[n]
    BY <1>5, EventStates DEF m, HandleLeave, IInv, TypeOK, Handlers, EventFresh
  <2>2. servers' = servers \/ (leader = n /\ servers' = Without(m))
    BY <1>5 DEF HandleLeave, AfterLeave, Committed, NotCommitted, m
  <2>3. servers' = Without(m) => \A k \in voters \ {m} : KeepsServer(k)
    BY DEF Without, KeepsServer
  <2> QED
    BY <1>1, <1>2, <2>1, <2>2, <2>3
<1>6. \/ servers' = servers
      \/ \E n \in Node : JoinRemoves(n) \/ JoinAdds(n) \/ HandleLeave(n)
  BY DEF Next, NoticeJoin, NoticeLeave, Suspect, NoticeOwnLeave, JoinReads,
         HandleOwnLeave, Start, Leave, CloseLog, Crash, Stop, Elect, LoseLeader
<1> QED
  BY <1>1, <1>3, <1>4, <1>5, <1>6

-----------------------------------------------------------------------------

(* Every variable keeps its type, and the handler of a running node never  *)
(* stops reading events (eventHandler returns for its own node's leave).   *)
THEOREM MembershipTypes == Spec => []TypeOK
<1>1. IInv => TypeOK
  BY DEF IInv
<1> QED
  BY <1>1, AlwaysIInv, PTL

(* The leader is never removed by a handler (isLocal, handleLeave), in a   *)
(* cluster of any size.                                                    *)
THEOREM LeaderAlwaysServer == Spec => []LeaderIsServer
<1>1. IInv => LeaderIsServer
  BY DEF IInv
<1> QED
  BY <1>1, AlwaysIInv, PTL

(* No join or leave that a handler passes on takes a server out of the     *)
(* configuration, or moves it, but one the leader was told is gone or that *)
(* is joining (DistributedLog.Join and Leave).                             *)
THEOREM ServersAlwaysStay == Spec => ServersStay
<1>1. IInv /\ [Next]_vars => [Stays]_vars
  BY StepKeepsServers
<1>2. Spec => [][Stays]_vars
  BY <1>1, AlwaysIInv, PTL DEF Spec
<1> QED
  BY <1>2 DEF ServersStay, Stays
=============================================================================

----------------------------- MODULE Membership -----------------------------
(***************************************************************************)
(* How nodes come into and out of the Raft cluster: the event handler of   *)
(* internal/discovery/membership.go, DistributedLog.Join and Leave, and    *)
(* the order in which Agent.Shutdown takes a node down.                    *)
(*                                                                         *)
(* External: Serf tells every node's handler, sooner or later, that        *)
(* another node joined, left or failed; it can suspect a node that runs,   *)
(* and miss that a node was gone for a while (the update event it sends    *)
(* then, if the address is another, is one eventHandler ignores).  Raft    *)
(* elects a leader among the voters while it reaches a majority of them,   *)
(* changes the voters through its leader only, and lets no two voters have *)
(* one address.  A node that comes back finds Raft's files in order        *)
(* (CommitLogCrash has when not), maybe under another address.             *)
(***************************************************************************)
EXTENDS Integers, FiniteSets

CONSTANTS
    Node,
    Bootstrap,      \* the node that starts the cluster, as its only voter
    Formed,         \* the clusters to begin with: nodes that have joined it since
    Addr,
    rpcAddr,        \* the addresses a node is started under: its rpc_addr tag
    MaxChanges,     \* bound: starts, departures and false suspicions of nodes
    MaxElections,   \* bound: elections Raft holds
    None

ASSUME MembershipAssumption ==
    /\ IsFiniteSet(Node)
    /\ Bootstrap \in Node
    /\ rpcAddr \in [Node -> SUBSET Addr]
    /\ \A servers \in Formed :
          /\ DOMAIN servers \subseteq Node /\ Bootstrap \in DOMAIN servers
          /\ servers \in [DOMAIN servers -> Addr]
    /\ None \notin Node \cup Addr
    /\ MaxChanges \in Nat /\ MaxElections \in Nat

VARIABLES
    status,         \* "down", "running", or "leaving": Serf left, Raft still runs
    address,        \* the address a node was last started under
    members,        \* the other members each node was told of and takes to be alive
    event,          \* what each node's eventHandler is working on
    listening,      \* whether eventHandler still reads its channel
    servers,        \* external: Raft's configuration, a server's ID to its address
    leader,         \* external: Raft's leader, or None
    changes, elections  \* counters, for the bounds

counters == <<changes, elections>>
vars == <<status, address, members, event, listening, servers, leader, counters>>

Idle       == [is |-> "idle"]
Joining(step, m, a) == [is |-> step, member |-> m, addr |-> a]
Gone(m)    == [is |-> "leave", member |-> m]

JoinStep == {"join", "remove", "add"}
EventState ==
    {Idle} \cup {Gone(m) : m \in Node}
      \cup {Joining(step, m, a) : step \in JoinStep, m \in Node, a \in Addr}

voters == DOMAIN servers

Running(m) == status[m] = "running"
RaftRuns(m) == status[m] # "down"

(* The nodes that can run at the same time have different addresses. *)
AddressFree(a) == \A k \in Node : RaftRuns(k) => address[k] # a

(* A configuration that node n can commit to: n and the servers it reaches *)
(* at the addresses given, whoever is there, are most of its servers.      *)
Quorum(n, config) ==
    2 * Cardinality({k \in DOMAIN config : k = n \/ ~AddressFree(config[k])})
        > Cardinality(DOMAIN config)

(* A formed cluster: its nodes run, are voters and know one another.  When *)
(* it is the bootstrap node alone this is what setupRaft makes.            *)
Init ==
    /\ servers \in Formed
    /\ status = [n \in Node |-> IF n \in voters THEN "running" ELSE "down"]
    /\ address = [n \in Node |-> IF n \in voters THEN servers[n] ELSE None]
    /\ members = [n \in Node |-> IF n \in voters THEN voters \ {n} ELSE {}]
    /\ event = [n \in Node |-> Idle]
    /\ listening = [n \in Node |-> TRUE]
    /\ leader = Bootstrap
    /\ changes = 0 /\ elections = 1

Change == changes < MaxChanges /\ changes' = changes + 1

-----------------------------------------------------------------------------
(* Serf *)

(* Serf delivers the next event to a handler that waits for one. *)
Ready(n) == RaftRuns(n) /\ listening[n] /\ event[n] = Idle

NoticeJoin(n, m) ==
    /\ Ready(n) /\ n # m
    /\ Running(m) /\ m \notin members[n]
    /\ members' = [members EXCEPT ![n] = @ \cup {m}]
    /\ event' = [event EXCEPT ![n] = Joining("join", m, address[m])]
    /\ UNCHANGED <<status, address, listening, servers, leader, counters>>

NoticeLeave(n, m) ==
    /\ Ready(n)
    /\ ~Running(m) /\ m \in members[n]
    /\ members' = [members EXCEPT ![n] = @ \ {m}]
    /\ event' = [event EXCEPT ![n] = Gone(m)]
    /\ UNCHANGED <<status, address, listening, servers, leader, counters>>

(* A slow network makes Serf declare a node that runs failed. *)
Suspect(n, m) ==
    /\ Ready(n)
    /\ Change
    /\ Running(m) /\ m \in members[n]
    /\ members' = [members EXCEPT ![n] = @ \ {m}]
    /\ event' = [event EXCEPT ![n] = Gone(m)]
    /\ UNCHANGED <<status, address, listening, servers, leader, elections>>

(* A node that leaves is told so too. *)
NoticeOwnLeave(n) ==
    /\ Ready(n)
    /\ status[n] = "leaving"
    /\ event' = [event EXCEPT ![n] = Gone(n)]
    /\ UNCHANGED <<status, address, members, listening, servers, leader, counters>>

-----------------------------------------------------------------------------
(* eventHandler *)

(* External: the leader n changes the configuration (RemoveServer and      *)
(* AddVoter).  A leader that cannot commit the change loses its lead, and  *)
(* the next one has the change or has it not.                              *)
Committed(n, config) ==
    Quorum(n, config) /\ servers' = config /\ UNCHANGED leader

NotCommitted(n, config) ==
    ~Quorum(n, config) /\ servers' \in {servers, config} /\ leader' = None

With(m, a) == [k \in voters \cup {m} |-> IF k = m THEN a ELSE servers[k]]
Without(m) == [k \in voters \ {m} |-> servers[k]]

(* External: AddVoter fails if another server has the address. *)
AddressTaken(m, a) == \E k \in voters \ {m} : servers[k] = a

Handle(n, next) ==
    /\ event' = [event EXCEPT ![n] = next]
    /\ UNCHANGED <<status, address, members, listening, counters>>

(* Mutant: a server with the member's ID has joined already. *)
AlreadyJoinedById(e) == e.member \in voters

AlreadyJoined(e) == e.member \in voters /\ servers[e.member] = e.addr

(* DistributedLog.Join, in the steps that steps of others come between:    *)
(* Join looks the member's ID and address up among the servers.  When both *)
(* are there the member has joined already, when neither is it is to be    *)
(* added, and when one of them is it is to be removed first.               *)
JoinReads(n) ==
    LET e == event[n]
    IN  /\ RaftRuns(n) /\ e.is = "join"
        /\ Handle(n, IF AlreadyJoined(e) THEN Idle
                     ELSE IF e.member \in voters \/ AddressTaken(e.member, e.addr)
                     THEN [e EXCEPT !.is = "remove"]
                     ELSE [e EXCEPT !.is = "add"])
        /\ UNCHANGED <<servers, leader>>

(* Mutant: the server that was found is removed, also one with another ID. *)
AfterRemoveFound(e) ==
    [k \in {v \in voters : v # e.member /\ servers[v] # e.addr} |-> servers[k]]

(* RemoveServer names the ID of the member, also when Raft does not have   *)
(* it and only the address is another server's.                            *)
AfterRemove(e) == Without(e.member)

(* Any other node than the leader gets ErrNotLeader, and gives up. *)
JoinRemoves(n) ==
    LET e == event[n]
    IN  /\ RaftRuns(n) /\ e.is = "remove"
        /\ \/ /\ leader # n
              /\ Handle(n, Idle)
              /\ UNCHANGED <<servers, leader>>
           \/ /\ leader = n
              /\ Committed(n, AfterRemove(e))
              /\ Handle(n, [e EXCEPT !.is = "add"])
           \/ /\ leader = n
              /\ NotCommitted(n, AfterRemove(e))
              /\ Handle(n, Idle)

JoinAdds(n) ==
    LET e == event[n]
    IN  /\ RaftRuns(n) /\ e.is = "add"
        /\ Handle(n, Idle)
        /\ \/ /\ leader # n \/ AddressTaken(e.member, e.addr)
              /\ UNCHANGED <<servers, leader>>
           \/ /\ leader = n /\ ~AddressTaken(e.member, e.addr)
              /\ \/ Committed(n, With(e.member, e.addr))
                 \/ NotCommitted(n, With(e.member, e.addr))

(* Mutant: the local member is a member like any other. *)
IsLocalNever(n, m) == FALSE

IsLocal(n, m) == n = m

(* Mutant: only joins are passed on. *)
AfterLeaveKept(m) == servers

AfterLeave(m) == Without(m)

(* Mutant: the handler returns after the leave of any member. *)
HandleLeaveOnce(n) ==
    /\ RaftRuns(n) /\ event[n].is = "leave"
    /\ listening' = [listening EXCEPT ![n] = FALSE]
    /\ event' = [event EXCEPT ![n] = Idle]
    /\ UNCHANGED <<status, address, members, servers, leader, counters>>

(* handleLeave and DistributedLog.Leave. *)
HandleLeave(n) ==
    LET m == event[n].member
    IN  /\ RaftRuns(n) /\ event[n].is = "leave"
        /\ ~IsLocal(n, m)
        /\ Handle(n, Idle)
        /\ \/ leader # n /\ UNCHANGED <<servers, leader>>
           \/ /\ leader = n
              /\ Committed(n, AfterLeave(m)) \/ NotCommitted(n, AfterLeave(m))

(* The handler returns for good on its own member's leave. *)
HandleOwnLeave(n) ==
    /\ RaftRuns(n) /\ event[n].is = "leave"
    /\ IsLocal(n, event[n].member)
    /\ listening' = [listening EXCEPT ![n] = FALSE]
    /\ event' = [event EXCEPT ![n] = Idle]
    /\ UNCHANGED <<status, address, members, servers, leader, counters>>

-----------------------------------------------------------------------------
(* A node's life *)

(* agent.New with the node's Raft and Serf.  The bootstrap node waits for  *)
(* a leader (setupLog) before it takes connections (serve), so it comes    *)
(* back only where it can still be elected itself.                         *)
Start(n) ==
    /\ status[n] = "down"
    /\ \E a \in rpcAddr[n] :
          AddressFree(a) /\ address' = [address EXCEPT ![n] = a]
    /\ n = Bootstrap => leader = None
    /\ Change
    /\ status' = [status EXCEPT ![n] = "running"]
    /\ UNCHANGED <<members, event, listening, servers, leader, elections>>

(* Agent.Shutdown: membership.Leave first, and log.Close, which stops      *)
(* Raft, last.                                                             *)
Leave(n) ==
    /\ Running(n)
    /\ Change
    /\ status' = [status EXCEPT ![n] = "leaving"]
    /\ UNCHANGED <<address, members, event, listening, servers, leader, elections>>

(* What the process knew of Serf is gone; Raft's configuration is on disk. *)
Stop(n) ==
    /\ status' = [status EXCEPT ![n] = "down"]
    /\ leader' = IF leader = n THEN None ELSE leader
    /\ members' = [members EXCEPT ![n] = {}]
    /\ event' = [event EXCEPT ![n] = Idle]
    /\ listening' = [listening EXCEPT ![n] = TRUE]
    /\ UNCHANGED <<address, servers, elections>>

CloseLog(n) == status[n] = "leaving" /\ Stop(n) /\ UNCHANGED changes

(* The process dies. *)
Crash(n) == Running(n) /\ Change /\ Stop(n)

-----------------------------------------------------------------------------
(* Raft *)

Elect(n) ==
    /\ leader = None
    /\ elections < MaxElections
    /\ n \in voters /\ RaftRuns(n) /\ Quorum(n, servers)
    /\ leader' = n
    /\ elections' = elections + 1
    /\ UNCHANGED <<status, address, members, event, listening, servers, changes>>

(* The leader loses its majority, or the connection to it. *)
LoseLeader ==
    /\ leader # None
    /\ leader' = None
    /\ UNCHANGED <<status, address, members, event, listening, servers, counters>>

Next ==
    \/ \E n, m \in Node : NoticeJoin(n, m) \/ NoticeLeave(n, m) \/ Suspect(n, m)
    \/ \E n \in Node :
          \/ NoticeOwnLeave(n) \/ JoinReads(n) \/ JoinRemoves(n) \/ JoinAdds(n)
          \/ HandleLeave(n) \/ HandleOwnLeave(n)
          \/ Start(n) \/ Leave(n) \/ CloseLog(n) \/ Crash(n) \/ Elect(n)
    \/ LoseLeader

Spec == Init /\ [][Next]_vars

(* Serf's gossip goes on, a handler that has an event works it off, Raft   *)
(* elects while it can, and a leader that lost its majority steps down     *)
(* (LeaderLeaseTimeout).  A shutdown that began may take for ever: an open *)
(* ConsumeStream holds it in GracefulStop, before log.Close.               *)
Progress(n) ==
    \/ \E m \in Node : NoticeJoin(n, m) \/ NoticeLeave(n, m)
    \/ JoinReads(n) \/ JoinRemoves(n) \/ JoinAdds(n) \/ HandleLeave(n)

Fairness ==
    /\ \A n \in Node : WF_vars(Progress(n))
    /\ WF_vars(\E n \in Node : Elect(n))
    /\ WF_vars(~Quorum(leader, servers) /\ LoseLeader)

LiveSpec == Spec /\ Fairness

-----------------------------------------------------------------------------
(* Properties *)

(* Every variable has its type, and the handler of a node that runs reads  *)
(* its events.                                                             *)
TypeOK ==
    /\ status \in [Node -> {"down", "running", "leaving"}]
    /\ address \in [Node -> Addr \cup {None}]
    /\ members \in [Node -> SUBSET Node]
    /\ event \in [Node -> EventState]
    /\ listening \in [Node -> BOOLEAN]
    /\ \A n \in Node : Running(n) => listening[n]
    /\ voters \subseteq Node /\ servers \in [voters -> Addr]
    /\ leader \in Node \cup {None}

(* No handler removes the node it runs on: a leader, also one that leaves, *)
(* is a server of the configuration it leads, and its Raft runs.           *)
LeaderIsServer == leader # None => leader \in voters /\ RaftRuns(leader)

(* Whoever joins, and under whatever address, a server stays one under its *)
(* own address unless the leader was told that it is gone, or is at its    *)
(* own join: Join removes the member, never the server whose address it    *)
(* has, and no event a handler holds is older than what its node knows.    *)
KeepsServer(m) == m \in DOMAIN servers' /\ servers'[m] = servers[m]

ServersStay ==
    [][\A m \in voters :
          ~KeepsServer(m) =>
             /\ leader # None
             /\ \/ m \notin members[leader]
                \/ event[leader].is \in JoinStep /\ event[leader].member = m]_vars

(* A leader that runs and is not being shut down: one that left Serf still *)
(* leads, but its handler has returned (Agent.Shutdown, eventHandler).     *)
LeaderHandles == leader # None /\ Running(leader)

(* A member that the leader has not seen yet becomes a voter under the     *)
(* address it runs under, unless that is another server's: the join path   *)
(* of eventHandler, while the node leads and the member runs.              *)
LeaderAddsNewcomers ==
    \A m \in Node :
        (LeaderHandles /\ Running(m) /\ m # leader /\ m \notin members[leader])
            ~> \/ ~LeaderHandles \/ ~Running(m)
               \/ m \in voters /\ servers[m] = address[m]
               \/ AddressTaken(m, address[m])

(* A voter that is gone is removed, if the leader still has it as a member: *)
(* the leave path of eventHandler, while the node leads.                   *)
LeaderRemovesLeavers ==
    \A m \in Node :
        (LeaderHandles /\ ~Running(m) /\ m \in members[leader])
            ~> (~LeaderHandles \/ Running(m) \/ m \notin voters)

(* A server that all the others know, and that is gone for good, leaves the *)
(* configuration if a leader settles: discovery "de-registers services    *)
(* when they are offline" (notes/Server-to-server Service Discovery.md).   *)
KnownToOthers(m) ==
    voters # {m} /\ \A n \in voters \ {m} : m \in members[n]

LeftAreRemoved ==
    \A m \in Node :
        (KnownToOthers(m) /\ [](~Running(m)) /\ <>[]LeaderHandles)
            ~> m \notin voters
=============================================================================

---------------------------- MODULE LoadBalance ----------------------------
(***************************************************************************)
(* The client side of internal/loadbalance: a Resolver that asks a server  *)
(* for the cluster (GetServers of server.go and distributed.go) and a      *)
(* Picker that chooses the connection of each call, in a process that      *)
(* dials the cluster through one or more gRPC client connections.  There   *)
(* is ONE Resolver and ONE Picker in the process (resolver.go:86,          *)
(* picker.go:66): every client connection uses the same two objects.       *)
(*                                                                         *)
(* External: Raft, of which only the leader matters, and gRPC.  Its base   *)
(* balancer keeps a SubConn for each address and is_leader attribute of    *)
(* the last UpdateState, shuts down those it no longer finds, and calls    *)
(* Picker.Build when a SubConn becomes ready or stops being ready, unless  *)
(* all have failed.  A call that is given a SubConn that is not ready, or  *)
(* none, waits for the next Build.  When a connection breaks or cannot be  *)
(* made gRPC calls ResolveNow, and at no other time.                       *)
(***************************************************************************)
EXTENDS Integers, FiniteSets, Sequences, Functions

CONSTANTS
    Client,         \* gRPC client connections of the process
    Server,         \* the servers of the cluster
    MaxElections,   \* bound: changes of the leader
    MaxFaults,      \* bound: connections that break or cannot be made, failed calls
    MaxCalls,       \* bound: consume calls
    None,
    Dead            \* a SubConn that was shut down

ASSUME LoadBalanceAssumption ==
    /\ IsFiniteSet(Server)
    /\ {None, Dead} \cap (Server \cup Client) = {} /\ None # Dead
    /\ {None, Dead} \cap [client : Client, server : Server] = {}
    /\ MaxElections \in Nat /\ MaxFaults \in Nat /\ MaxCalls \in Nat

VARIABLES
    leader,         \* external: raft.Leader() where GetServers is answered
    status,         \* external: each client connection: "new", "open", "closed"
    subConn,        \* external: the SubConn of each client connection and server
    asked,          \* external: the client connections that ResolveNow is due for
    clientConn,     \* Resolver.clientConn; resolverConn was made with it
    resolverOpen,   \* the clients whose Build made a resolverConn that is open
    resolving,      \* the ResolveNow that holds Resolver.mu, or Idle
    leaderConn,     \* Picker.leader
    followers,      \* Picker.followers
    current,        \* Picker.current
    turns,          \* history: the calls each follower was given since Build
    elections, faults   \* counters, for the bounds

resolver == <<asked, clientConn, resolverOpen, resolving>>
picker   == <<leaderConn, followers, current, turns>>
counters == <<elections, faults>>
vars     == <<leader, status, subConn, resolver, picker, counters>>

SubConn == [client : Client, server : Server]
Conn(c, s) == [client |-> c, server |-> s]

Absent == [is |-> "absent"]
SubConnState == {Absent} \cup [is : {"connecting", "ready", "failed"}, isLeader : BOOLEAN]

(* GetServers, on its way: the flags of the servers asked about so far. *)
Idle == [for |-> None]
ResolvingState == {Idle} \cup [for : Client, via : Client, flags : UNION {[S -> BOOLEAN] : S \in SUBSET Server}]

IsReady(h) == h \in SubConn /\ subConn[h.client][h.server].is = "ready"
Flagged(h) == h \in SubConn /\ subConn[h.client][h.server].is # "absent"
                            /\ subConn[h.client][h.server].isLeader

Init ==
    /\ leader \in Server
    /\ status = [c \in Client |-> "new"]
    /\ subConn = [c \in Client |-> [s \in Server |-> Absent]]
    /\ asked = {}
    /\ clientConn = None
    /\ resolverOpen = {}
    /\ resolving = Idle
    /\ leaderConn = None
    /\ followers = << >>
    /\ current = 0
    /\ turns = << >>
    /\ elections = 0 /\ faults = 0

-----------------------------------------------------------------------------
(* Picker.Build *)

(* A map is ranged over in any order. *)
Orders(S) == {f \in [1..Cardinality(S) -> S] : IsInjective(f)}

(* The SubConns of c that are ready in conns. *)
ReadySCs(c, conns) == {h \in SubConn : h.client = c /\ conns[h.server].is = "ready"}

(* What a SubConn kept from before is now. *)
Kept(h, c, gone) == IF h \in SubConn /\ h.client = c /\ h.server \in gone THEN Dead ELSE h

(* Mutants: the followers of earlier Builds stay; the leader is among the  *)
(* followers; a leader is never replaced.                                  *)
BuildAppends(c, conns, gone) ==
    LET ready   == ReadySCs(c, conns)
        leaders == {h \in ready : conns[h.server].isLeader}
    IN  /\ leaderConn' \in IF leaders = {} THEN {Kept(leaderConn, c, gone)} ELSE leaders
        /\ followers' \in {[i \in DOMAIN followers |-> Kept(followers[i], c, gone)] \o f :
                             f \in Orders(ready \ leaders)}
        /\ turns' = [i \in DOMAIN followers' |-> 0]
        /\ UNCHANGED current

BuildAllFollow(c, conns, gone) ==
    LET ready   == ReadySCs(c, conns)
        leaders == {h \in ready : conns[h.server].isLeader}
    IN  /\ leaderConn' \in IF leaders = {} THEN {Kept(leaderConn, c, gone)} ELSE leaders
        /\ followers' \in Orders(ready)
        /\ turns' = [i \in DOMAIN followers' |-> 0]
        /\ UNCHANGED current

BuildFirstLeader(c, conns, gone) ==
    LET ready   == ReadySCs(c, conns)
        leaders == {h \in ready : conns[h.server].isLeader}
    IN  /\ leaderConn' \in IF leaders = {} \/ leaderConn # None
                           THEN {Kept(leaderConn, c, gone)} ELSE leaders
        /\ followers' \in Orders(ready \ leaders)
        /\ turns' = [i \in DOMAIN followers' |-> 0]
        /\ UNCHANGED current

(* Build for c, whose SubConns are conns, after those to gone were shut    *)
(* down: with no ready leader the old one stays.                           *)
Build(c, conns, gone) ==
    LET ready   == ReadySCs(c, conns)
        leaders == {h \in ready : conns[h.server].isLeader}
    IN  /\ leaderConn' \in IF leaders = {} THEN {Kept(leaderConn, c, gone)} ELSE leaders
        /\ followers' \in Orders(ready \ leaders)
        /\ turns' = [i \in DOMAIN followers' |-> 0]
        /\ UNCHANGED current

(* External: gRPC answers the calls of c by itself while all have failed.  *)
AllFailed(conns) ==
    /\ \E s \in DOMAIN conns : conns[s].is = "failed"
    /\ \A s \in DOMAIN conns : conns[s].is \in {"absent", "failed"}

(* Those shut down without a Build are dead where the Picker has them. *)
Forget(c, gone) ==
    /\ leaderConn' = Kept(leaderConn, c, gone)
    /\ followers' = [i \in DOMAIN followers |-> Kept(followers[i], c, gone)]
    /\ UNCHANGED <<current, turns>>

Regenerate(c, conns, gone) ==
    IF AllFailed(conns) THEN Forget(c, gone) ELSE Build(c, conns, gone)

-----------------------------------------------------------------------------
(* Picker.Pick *)

NextIndex == ((current + 1) % Len(followers)) + 1

PickProduce == leaderConn

(* Mutant: consume calls never fall back on the leader. *)
PickConsumeFollower == IF followers = << >> THEN None ELSE followers[NextIndex]

(* Without followers every call goes to the leader.  (With followers, one   *)
(* that is neither Produce nor Consume waits for ever: of the service that *)
(* is GetServers alone, which the Resolver calls on a connection of its    *)
(* own.)                                                                   *)
PickConsume == IF followers = << >> THEN leaderConn ELSE followers[NextIndex]

(* Mutant: the counter is not advanced. *)
ConsumeNoAdvance(c) ==
    /\ status[c] = "open"
    /\ followers # << >>
    /\ turns' = [turns EXCEPT ![NextIndex] = @ + 1]
    /\ UNCHANGED <<leader, status, subConn, resolver, leaderConn, followers, current, counters>>

(* A consume call of c is given a follower. *)
Consume(c) ==
    /\ status[c] = "open"
    /\ followers # << >>
    /\ current < MaxCalls
    /\ current' = current + 1
    /\ turns' = [turns EXCEPT ![NextIndex] = @ + 1]
    /\ UNCHANGED <<leader, status, subConn, resolver, leaderConn, followers, counters>>

-----------------------------------------------------------------------------
(* Resolver *)

(* Resolver.Build, called when c is dialled, ends in a ResolveNow. *)
Dial(c) ==
    /\ status[c] = "new"
    /\ status' = [status EXCEPT ![c] = "open"]
    /\ clientConn' = c
    /\ resolverOpen' = resolverOpen \cup {c}
    /\ asked' = asked \cup {c}
    /\ UNCHANGED <<leader, subConn, resolving, picker, counters>>

(* ResolveNow takes the lock and calls GetServers, which reads the servers *)
(* of Raft's configuration.                                                *)
ResolveNow(c) ==
    /\ c \in asked
    /\ resolving = Idle
    /\ asked' = asked \ {c}
    /\ resolving' = [for |-> c, via |-> clientConn, flags |-> << >>]
    /\ UNCHANGED <<leader, status, subConn, clientConn, resolverOpen, picker, counters>>

(* GetServers asks Raft for its leader once for each server. *)
ReadLeader(s) ==
    /\ resolving # Idle /\ resolving.via \in resolverOpen
    /\ s \notin DOMAIN resolving.flags
    /\ resolving' = [resolving EXCEPT !.flags =
          [t \in DOMAIN @ \cup {s} |-> IF t = s THEN leader = s ELSE @[t]]]
    /\ UNCHANGED <<leader, status, subConn, asked, clientConn, resolverOpen, picker, counters>>

(* GetServers returns an error: it is logged, and that is all.  (Once      *)
(* resolverConn is closed it cannot but fail.)                             *)
ResolveFails ==
    /\ resolving # Idle
    /\ IF resolving.via \in resolverOpen
       THEN faults < MaxFaults /\ faults' = faults + 1
       ELSE UNCHANGED faults
    /\ resolving' = Idle
    /\ UNCHANGED <<leader, status, subConn, asked, clientConn, resolverOpen, picker, elections>>

(* External: the base balancer keeps the SubConns whose address and        *)
(* attribute are unchanged, and makes new ones for the others.             *)
Updated(conns, flags) ==
    [s \in Server |->
        IF conns[s].is # "absent" /\ conns[s].isLeader = flags[s] THEN conns[s]
        ELSE [is |-> "connecting", isLeader |-> flags[s]]]

Replaced(conns, flags) ==
    {s \in Server : conns[s].is # "absent" /\ conns[s].isLeader # flags[s]}

(* The servers go to Resolver.clientConn, which drops them if closed. *)
UpdateState ==
    LET c == clientConn
        conns == Updated(subConn[c], resolving.flags)
    IN  /\ resolving # Idle /\ DOMAIN resolving.flags = Server
        /\ resolving' = Idle
        /\ IF status[c] = "open"
           THEN /\ subConn' = [subConn EXCEPT ![c] = conns]
                /\ Regenerate(c, conns, Replaced(subConn[c], resolving.flags))
           ELSE UNCHANGED <<subConn, picker>>
        /\ UNCHANGED <<leader, status, asked, clientConn, resolverOpen, counters>>

(* The client connection is closed: its SubConns are shut down, and        *)
(* Resolver.Close closes resolverConn, whoever made that.  gRPC waits for  *)
(* a ResolveNow of the same client connection.                             *)
Close(c) ==
    /\ status[c] = "open"
    /\ resolving.for # c
    /\ status' = [status EXCEPT ![c] = "closed"]
    /\ subConn' = [subConn EXCEPT ![c] = [s \in Server |-> Absent]]
    /\ asked' = asked \ {c}
    /\ resolverOpen' = resolverOpen \ {clientConn}
    /\ Forget(c, Server)
    /\ UNCHANGED <<leader, clientConn, resolving, counters>>

-----------------------------------------------------------------------------
(* External: connections and leadership *)

Connected(c, s) ==
    LET conns == [subConn[c] EXCEPT ![s].is = "ready"]
    IN  /\ subConn[c][s].is \in {"connecting", "failed"}
        /\ subConn' = [subConn EXCEPT ![c] = conns]
        /\ Regenerate(c, conns, {})
        /\ UNCHANGED <<leader, status, resolver, counters>>

(* A connection breaks; gRPC makes it anew and asks for a resolution. *)
Disconnected(c, s) ==
    LET conns == [subConn[c] EXCEPT ![s].is = "connecting"]
    IN  /\ subConn[c][s].is = "ready"
        /\ faults < MaxFaults /\ faults' = faults + 1
        /\ subConn' = [subConn EXCEPT ![c] = conns]
        /\ asked' = asked \cup {c}
        /\ Regenerate(c, conns, {})
        /\ UNCHANGED <<leader, status, clientConn, resolverOpen, resolving, elections>>

(* A connection cannot be made: no Build, unless it was the last hope. *)
ConnectFails(c, s) ==
    /\ subConn[c][s].is = "connecting"
    /\ faults < MaxFaults /\ faults' = faults + 1
    /\ subConn' = [subConn EXCEPT ![c][s].is = "failed"]
    /\ asked' = asked \cup {c}
    /\ UNCHANGED <<leader, status, clientConn, resolverOpen, resolving, picker, elections>>

LoseLeader ==
    /\ leader # None
    /\ leader' = None
    /\ UNCHANGED <<status, subConn, resolver, picker, counters>>

Elect(s) ==
    /\ leader = None
    /\ elections < MaxElections /\ elections' = elections + 1
    /\ leader' = s
    /\ UNCHANGED <<status, subConn, resolver, picker, faults>>

-----------------------------------------------------------------------------

Next ==
    \/ \E c \in Client : Dial(c) \/ Consume(c) \/ ResolveNow(c) \/ Close(c)
    \/ \E s \in Server : ReadLeader(s) \/ Elect(s)
    \/ ResolveFails \/ UpdateState \/ LoseLeader
    \/ \E c \in Client, s \in Server :
          Connected(c, s) \/ Disconnected(c, s) \/ ConnectFails(c, s)

Spec == Init /\ [][Next]_vars

(* gRPC runs the resolutions it was asked for, a call of GetServers ends,  *)
(* a connection that is tried again and again is made, and Raft elects.    *)
Resolves ==
    \/ \E c \in Client : ResolveNow(c)
    \/ \E s \in Server : ReadLeader(s)
    \/ UpdateState
    \/ (resolving # Idle /\ resolving.via \notin resolverOpen) /\ ResolveFails

Fairness ==
    /\ WF_vars(Resolves)
    /\ \A c \in Client, s \in Server : WF_vars(Connected(c, s))
    /\ WF_vars(\E s \in Server : Elect(s))

LiveSpec == Spec /\ Fairness

-----------------------------------------------------------------------------
(* Properties *)

(* Every variable has its type: turns has a count for each follower, and   *)
(* the followers of a Build are each there once.                           *)
FollowersOnce ==
    \A i, j \in DOMAIN followers :
        followers[i] = followers[j] /\ followers[i] # Dead => i = j

TypeOK ==
    /\ leader \in Server \cup {None}
    /\ status \in [Client -> {"new", "open", "closed"}]
    /\ subConn \in [Client -> [Server -> SubConnState]]
    /\ asked \subseteq Client
    /\ clientConn \in Client \cup {None}
    /\ resolverOpen \subseteq Client
    /\ resolving \in ResolvingState
    /\ leaderConn \in SubConn \cup {None, Dead}
    /\ followers \in Seq(SubConn \cup {Dead}) /\ FollowersOnce
    /\ current \in 0..MaxCalls
    /\ turns \in [DOMAIN followers -> Nat]
    /\ elections \in 0..MaxElections /\ faults \in 0..MaxFaults

(* A call is never sent to a server of the wrong role: whatever SubConns   *)
(* came and went, a ready one that a produce call is given is the leader   *)
(* of the last resolution, and a follower given to a consume call is not.  *)
RolesKept ==
    /\ IsReady(leaderConn) => Flagged(leaderConn)
    /\ \A i \in DOMAIN followers : IsReady(followers[i]) => ~Flagged(followers[i])

(* While the process has one client connection, the leader that Build      *)
(* leaves in the Picker never keeps a call waiting: if any SubConn is      *)
(* ready consume calls are given a ready one, and so are produce calls if  *)
(* it is one of the leader's.                                              *)
CallsFindReady ==
    \A c \in Client : Client = {c} =>
        LET ready == ReadySCs(c, subConn[c])
        IN  /\ ready # {} => IsReady(PickConsume)
            /\ (\E h \in ready : Flagged(h)) => IsReady(PickProduce)

(* Between two Builds nextFollower spreads the consume calls evenly, from  *)
(* wherever the counter stands.                                            *)
TurnsEven ==
    \A i, j \in DOMAIN turns : turns[i] <= turns[j] + 1

(* The leader that a client connection was told of, and no other server,   *)
(* gets its produce calls, unless leadership moves or it is told anew.     *)
OnlyFlagged(c, s) == {t \in Server : Flagged(Conn(c, t))} = {s}

ToldLeaderIsPicked ==
    \A c \in Client, s \in Server :
        (Client = {c} /\ OnlyFlagged(c, s))
            ~> (~OnlyFlagged(c, s) \/ (PickProduce = Conn(c, s) /\ IsReady(PickProduce)))

(* Produce calls that are sent to a server go to the leader once           *)
(* leadership settles: "our picker directs produce calls to the leader"    *)
(* (notes/Discover servers and Load Balance from the Client.md).           *)
ProduceReachesLeader ==
    \A c \in Client, s \in Server :
        (Client = {c} /\ IsReady(PickProduce) /\ <>[](status[c] = "open" /\ leader = s))
            ~> PickProduce = Conn(c, s)
=============================================================================

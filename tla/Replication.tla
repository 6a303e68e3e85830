---------------------------- MODULE Replication ----------------------------
(***************************************************************************)
(* DistributedLog of internal/log/distributed.go: the commit logs of a     *)
(* cluster, kept equal by Raft.  A produce call reaches Append on some     *)
(* node, apply hands the request to that node's Raft and waits; Raft       *)
(* passes each committed request, on every node and in one order, to       *)
(* fsm.Apply, which appends the record to the node's own log; the node     *)
(* whose Raft accepted the request answers with the offset that append     *)
(* returned.                                                               *)
(*                                                                         *)
(* Raft is external (github.com/hashicorp/raft): committed is the one      *)
(* sequence of requests it agrees on, pending are those a leader accepted  *)
(* that may still be committed.  Several nodes can believe they lead, but  *)
(* only leader can commit.  Each node's log is the sequence of its records *)
(* (CommitLog implements such a log): the record at offset o is element    *)
(* o + 1.  A record is named by the call that produced it.  A node that    *)
(* stops does not come back: what it finds in its files is CommitLogCrash. *)
(***************************************************************************)
EXTENDS Integers, FiniteSets, Sequences, Functions

CONSTANTS
    Node,
    Call,           \* produce calls, each with its own record
    MaxElections,   \* bound: elections Raft holds
    None

ASSUME ReplicationAssumption ==
    /\ None \notin Node
    /\ MaxElections \in Nat
    /\ IsFiniteSet(Node)

VARIABLES
    committed,      \* external: the requests Raft has committed, in order
    pending,        \* external: accepted requests that are not committed yet
    leader,         \* external: the node that can commit, or None
    leading,        \* external: the nodes whose Raft is in leader state
    applied,        \* external: how many of them each node's Raft has passed on
    elections,      \* elections held, for the bound
    up,             \* the nodes that run
    log,            \* DistributedLog.log of each node
    call            \* what became of each produce call

raftVars == <<committed, pending, leader, leading, elections>>
vars == <<raftVars, applied, up, log, call>>

-----------------------------------------------------------------------------
(* What became of a call: it waits in future.Error() on a node, returned   *)
(* an offset from a node, was turned away before Raft took it, or failed   *)
(* after.                                                                  *)

New           == [is |-> "new"]
Waiting(n)    == [is |-> "waiting", at |-> n]
Done(n, off)  == [is |-> "done", at |-> n, offset |-> off]
Rejected      == [is |-> "rejected"]
Failed        == [is |-> "failed"]

CallState ==
    {New, Rejected, Failed} \cup {Waiting(n) : n \in Node}
        \cup [is : {"done"}, at : Node, offset : Nat]

WaitsAt(n) == {c \in Call : call[c] = Waiting(n)}

(* Mutant: the futures are not resolved. *)
FailWaitingSilent(n, handed) == call

(* The futures of the calls that wait at n resolve with an error, but for  *)
(* those whose requests Raft has handed to n's finite-state machine.       *)
FailWaiting(n, handed) ==
    [c \in Call |-> IF c \in WaitsAt(n) \ handed THEN Failed ELSE call[c]]

Majority(nodes) == 2 * Cardinality(nodes) > Cardinality(Node)

Init ==
    /\ committed = << >>
    /\ pending = {}
    /\ leader = None
    /\ leading = {}
    /\ elections = 0
    /\ applied = [n \in Node |-> 0]
    /\ up = Node
    /\ log = [n \in Node |-> << >>]
    /\ call = [c \in Call |-> New]

-----------------------------------------------------------------------------
(* DistributedLog.Append and apply *)

(* Mutant: the answer does not wait for the future. *)
ProposeUncommitted(c, n) ==
    /\ call[c] = New
    /\ n \in leading
    /\ pending' = pending \cup {c}
    /\ call' = [call EXCEPT ![c] = Done(n, Len(log[n]))]
    /\ UNCHANGED <<committed, leader, leading, elections, applied, up, log>>

(* raft.Apply accepts the request: the node believes it leads. *)
Propose(c, n) ==
    /\ call[c] = New
    /\ n \in leading
    /\ pending' = pending \cup {c}
    /\ call' = [call EXCEPT ![c] = Waiting(n)]
    /\ UNCHANGED <<committed, leader, leading, elections, applied, up, log>>

(* Mutant: the call gives up on a request that Raft has taken. *)
RejectLate(c) ==
    /\ call[c] = New
    /\ leading # {}
    /\ pending' = pending \cup {c}
    /\ call' = [call EXCEPT ![c] = Rejected]
    /\ UNCHANGED <<committed, leader, leading, elections, applied, up, log>>

(* raft.Apply fails at once: ErrNotLeader from a follower, or               *)
(* ErrEnqueueTimeout from a leader busy for all of apply's ten seconds.    *)
Reject(c) ==
    /\ call[c] = New
    /\ call' = [call EXCEPT ![c] = Rejected]
    /\ UNCHANGED <<raftVars, applied, up, log>>

-----------------------------------------------------------------------------
(* fsm.Apply *)

(* The next request Raft passes to n's finite-state machine. *)
NextRequest(n) == committed[applied[n] + 1]

(* Mutant: the offset of the record before. *)
AppliedOffsetPrev(n) == Len(log[n]) - 1

(* Mutant: the log's length after the append rather than before it. *)
AppliedOffsetNext(n) == Len(log[n]) + 1

(* The offset Log.Append returns, and fsm.applyAppend answers with. *)
AppliedOffset(n) == Len(log[n])

(* The future that waits for a request is at the node that accepted it. *)
Answered(n, c) == c \in WaitsAt(n)

(* Mutant: a request whose future is gone is not appended. *)
AppendedIfWaiting(n, c) ==
    IF call[c].is = "failed" THEN log[n] ELSE Append(log[n], c)

Appended(n, c) == Append(log[n], c)

(* Mutant: only a node that leads appends. *)
ApplyByLeader(n) ==
    LET c == NextRequest(n)
    IN  /\ n \in leading
        /\ applied[n] < Len(committed)
        /\ applied' = [applied EXCEPT ![n] = @ + 1]
        /\ log' = [log EXCEPT ![n] = Appended(n, c)]
        /\ call' = IF Answered(n, c)
                   THEN [call EXCEPT ![c] = Done(n, AppliedOffset(n))]
                   ELSE call
        /\ UNCHANGED <<raftVars, up>>

Apply(n) ==
    LET c == NextRequest(n)
    IN  /\ n \in up
        /\ applied[n] < Len(committed)
        /\ applied' = [applied EXCEPT ![n] = @ + 1]
        /\ log' = [log EXCEPT ![n] = Appended(n, c)]
        /\ call' = IF Answered(n, c)
                   THEN [call EXCEPT ![c] = Done(n, AppliedOffset(n))]
                   ELSE call
        /\ UNCHANGED <<raftVars, up>>

-----------------------------------------------------------------------------
(* Raft and the machines it runs on *)

Elect(n) ==
    /\ leader = None /\ Majority(up)
    /\ elections < MaxElections
    /\ n \in up \ leading
    /\ leader' = n
    /\ leading' = leading \cup {n}
    /\ elections' = elections + 1
    /\ UNCHANGED <<committed, pending, applied, up, log, call>>

Commit(c) ==
    /\ leader # None
    /\ c \in pending
    /\ committed' = Append(committed, c)
    /\ pending' = pending \ {c}
    /\ UNCHANGED <<leader, leading, elections, applied, up, log, call>>

(* A pending request is overwritten by a newer leader's log. *)
Overwrite(c) ==
    /\ c \in pending
    /\ \A n \in leading : c \notin WaitsAt(n)
    /\ pending' = pending \ {c}
    /\ UNCHANGED <<committed, leader, leading, elections, applied, up, log, call>>

(* The others stop hearing from the leader, which does not notice yet. *)
Partition ==
    /\ leader # None
    /\ leader' = None
    /\ UNCHANGED <<committed, pending, leading, elections, applied, up, log, call>>

(* A node that cannot lead any more notices: ErrLeadershipLost.  A request *)
(* that was committed may be with fsm.Apply by then, which answers it.     *)
StepDown(n) ==
    /\ n \in leading \ {leader}
    /\ leading' = leading \ {n}
    /\ \E handed \in SUBSET (WaitsAt(n) \cap Range(committed)) :
          call' = FailWaiting(n, handed)
    /\ UNCHANGED <<committed, pending, leader, elections, applied, up, log>>

(* The process dies, or Close stops its Raft: whoever waits for an answer  *)
(* gets an error.  Without a majority no node can commit.                  *)
Stop(n) ==
    /\ n \in up
    /\ up' = up \ {n}
    /\ leading' = leading \ {n}
    /\ leader' = IF leader = n \/ ~Majority(up') THEN None ELSE leader
    /\ call' = FailWaiting(n, {})
    /\ UNCHANGED <<committed, pending, elections, applied, log>>

-----------------------------------------------------------------------------

Next ==
    \/ \E c \in Call, n \in Node : Propose(c, n)
    \/ \E c \in Call : Reject(c) \/ Commit(c) \/ Overwrite(c)
    \/ \E n \in Node : Apply(n) \/ Elect(n) \/ StepDown(n) \/ Stop(n)
    \/ Partition

Spec == Init /\ [][Next]_vars

(* Raft commits what its leader accepted; n's machine gets it while there  *)
(* is a leader to tell n of it, or if n was told before it stopped leading *)
(* (then a call still waits there); and a deposed leader notices within    *)
(* LeaderLeaseTimeout.                                                     *)
ToldOf(n) == leader # None \/ (n \notin leading /\ WaitsAt(n) # {})

Fairness ==
    /\ \A c \in Call : WF_vars(Commit(c))
    /\ \A n \in Node : WF_vars(ToldOf(n) /\ Apply(n)) /\ WF_vars(StepDown(n))

LiveSpec == Spec /\ Fairness

-----------------------------------------------------------------------------
(* Properties *)

(* Every variable has its type; only a running node can lead, and a call   *)
(* waits where its request is still in flight or handed to fsm.Apply.      *)
TypeOK ==
    /\ committed \in Seq(Call)
    /\ pending \subseteq Call
    /\ leader \in leading \cup {None}
    /\ leading \subseteq up /\ up \subseteq Node
    /\ elections \in 0..MaxElections
    /\ applied \in [Node -> 0..Len(committed)]
    /\ log \in [Node -> Seq(Call)]
    /\ call \in [Call -> CallState]
    /\ \A c \in Call : call[c].is = "waiting" =>
          call[c].at \in up /\ (call[c].at \in leading \/ c \in Range(committed))

(* Two nodes that both have a record at an offset have the same record     *)
(* there (fsm.Apply), whoever led, stopped or gave up in between.          *)
ReplicasAgree ==
    \A n, m \in Node :
        \A i \in DOMAIN log[n] \cap DOMAIN log[m] : log[n][i] = log[m][i]

(* The offset a produce call returns is where its record is: on the node   *)
(* that answered as soon as it answers, and on every other node that has   *)
(* come that far, also after the one that answered stopped.                *)
AnswersHold ==
    \A c \in Call : call[c].is = "done" =>
        /\ call[c].offset < Len(log[call[c].at])
        /\ \A n \in Node :
              call[c].offset < Len(log[n]) => log[n][call[c].offset + 1] = c

(* A call leaves at most one record in a log; a call that was turned away  *)
(* leaves none, so that a client may safely repeat it.  (One that failed   *)
(* later may leave one: see the README.)                                   *)
AtMostOnce ==
    \A n \in Node :
        /\ IsInjective(log[n])
        /\ \A i \in DOMAIN log[n] : call[log[n][i]].is # "rejected"

(* Append returns: no produce call waits for its future for ever.          *)
CallsEnd ==
    \A c \in Call : call[c].is = "waiting" ~> call[c].is # "waiting"

(* Once leadership settles, a record whose offset was returned can be read *)
(* from every node that runs, as the tests of distributed_test.go and      *)
(* agent_test.go wait for.                                                 *)
AnswersReachAll ==
    <>[](leader # None) =>
        \A c \in Call, n \in Node :
            call[c].is = "done" ~> n \notin up \/ c \in Range(log[n])

-----------------------------------------------------------------------------

Promise == INSTANCE SharedLog WITH log <- committed, view <- log

(* The replicated logs behave, for the gRPC handlers and their clients, as *)
(* SharedLog: one log that every node comes to know in order, whoever      *)
(* leads, is elected, cut off or stopped underneath.                       *)
ImplementsSharedLog == Promise!Spec

(* A record produced after another was acknowledged gets a greater offset, *)
(* on whichever nodes the two calls were made and whoever led in between:  *)
(* DistributedLog.apply returns no offset before Raft committed it.        *)
RealTimeOrder == Promise!RealTimeOrder
=============================================================================

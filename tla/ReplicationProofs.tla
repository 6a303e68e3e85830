------------------------- MODULE ReplicationProofs -------------------------
(***************************************************************************)
(* What replication keeps, for every cluster, set of calls and number of   *)
(* elections: each node's log is a prefix of the one committed sequence,   *)
(* in which no call is twice, and an answer names the place of its call.   *)
(***************************************************************************)
EXTENDS Replication, TLAPS

Prefixes ==
    \A n \in Node :
        /\ Len(log[n]) = applied[n]
        /\ \A i \in 1..applied[n] : log[n][i] = committed[i]

(* No call is committed twice, or again after it was committed. *)
Fresh ==
    /\ \A i, j \in 1..Len(committed) : committed[i] = committed[j] => i = j
    /\ \A i \in 1..Len(committed) : committed[i] \notin pending

(* A call that Raft did not take is nowhere in it. *)
Untaken ==
    \A c \in Call : call[c].is \in {"new", "rejected"} =>
        /\ c \notin pending
        /\ \A i \in 1..Len(committed) : committed[i] # c

Answers ==
    \A c \in Call : call[c].is = "done" =>
        /\ call[c].offset < applied[call[c].at]
        /\ committed[call[c].offset + 1] = c

IInv == TypeOK /\ Prefixes /\ Fresh /\ Untaken /\ Answers

-----------------------------------------------------------------------------

LEMMA CallStates ==
    ASSUME NEW s \in CallState
    PROVE  /\ s.is \in {"new", "rejected", "failed", "waiting", "done"}
           /\ s.is = "new" <=> s = New
           /\ s.is = "done" => s.at \in Node /\ s.offset \in Nat
           /\ s.is = "waiting" => s.at \in Node /\ s = Waiting(s.at)
BY DEF CallState, New, Rejected, Failed, Waiting

LEMMA InitIInv == Init => IInv
BY ReplicationAssumption DEF Init, IInv, TypeOK, Prefixes, Fresh, Untaken, Answers, CallState, New


LEMMA ProposeKeepsIInv ==
    ASSUME IInv, NEW c \in Call, NEW n \in Node, Propose(c, n)
    PROVE  IInv'
<1> USE DEF IInv
<1>1. /\ call' \in [Call -> CallState]
      /\ \A d \in Call \ {c} : call'[d] = call[d]
      /\ call'[c].is = "waiting" /\ call'[c].at = n /\ call[c].is = "new"
  BY DEF Propose, TypeOK, CallState, Waiting, New
<1>2. TypeOK'
  BY <1>1 DEF Propose, TypeOK
<1>3. Prefixes'
  BY DEF Propose, Prefixes
<1>4. Fresh'
  BY <1>1 DEF Propose, Fresh, Untaken
<1>5. Untaken'
  BY <1>1 DEF Propose, Untaken
<1>6. Answers'
  BY <1>1 DEF Propose, Answers
<1> QED
  BY <1>2, <1>3, <1>4, <1>5, <1>6

LEMMA RejectKeepsIInv ==
    ASSUME IInv, NEW c \in Call, Reject(c)
    PROVE  IInv'
<1> USE DEF IInv
<1>1. /\ call' \in [Call -> CallState]
      /\ \A d \in Call \ {c} : call'[d] = call[d]
      /\ call'[c].is = "rejected" /\ call[c].is = "new"
  BY DEF Reject, TypeOK, CallState, Rejected, New
<1>2. TypeOK'
  BY <1>1 DEF Reject, raftVars, TypeOK
<1>3. Prefixes' /\ Fresh'
  BY DEF Reject, raftVars, Prefixes, Fresh
<1>4. Untaken'
  BY <1>1 DEF Reject, raftVars, Untaken
<1>5. Answers'
  BY <1>1 DEF Reject, raftVars, Answers
<1> QED
  BY <1>2, <1>3, <1>4, <1>5

LEMMA CommitKeepsIInv ==
    ASSUME IInv, NEW c \in Call, Commit(c)
    PROVE  IInv'
<1> USE DEF IInv
<1>1. /\ Len(committed') = Len(committed) + 1 /\ Len(committed) \in Nat
      /\ \A i \in 1..Len(committed) : committed'[i] = committed[i]
      /\ committed'[Len(committed) + 1] = c
      /\ committed' \in Seq(Call)
  BY DEF Commit, TypeOK
<1>2. TypeOK'
  <2>1. ASSUME NEW d \in Range(committed) PROVE d \in Range(committed')
    <3>1. PICK i \in 1..Len(committed) : committed[i] = d
      BY DEF Range, TypeOK
    <3>2. i \in DOMAIN committed' /\ committed'[i] = d
      BY <1>1, <3>1
    <3> QED
      BY <3>2 DEF Range
  <2>2. applied' \in [Node -> 0..Len(committed')]
    BY <1>1 DEF Commit, TypeOK
  <2>3. pending' \subseteq Call /\ UNCHANGED <<leader, leading, elections, up, log, call>>
    BY DEF Commit, TypeOK
  <2> QED
    BY <1>1, <2>1, <2>2, <2>3 DEF TypeOK
<1>3. Prefixes'
  BY <1>1 DEF Commit, Prefixes, TypeOK
<1>4. Fresh'
  BY <1>1 DEF Commit, Fresh
<1>5. Untaken'
  BY <1>1 DEF Commit, Untaken
<1>6. Answers'
  <2> SUFFICES ASSUME NEW d \in Call, call[d].is = "done"
               PROVE  /\ call[d].offset < applied[call[d].at]
                      /\ committed'[call[d].offset + 1] = d
    BY DEF Commit, Answers
  <2>1. call[d].at \in Node /\ call[d].offset \in Nat
    BY CallStates DEF TypeOK
  <2>2. /\ call[d].offset < applied[call[d].at]
        /\ committed[call[d].offset + 1] = d
    BY DEF Answers
  <2>3. applied[call[d].at] \in 0..Len(committed)
    BY <2>1 DEF TypeOK
  <2>4. call[d].offset + 1 \in 1..Len(committed)
    BY <1>1, <2>1, <2>2, <2>3
  <2> QED
    BY <1>1, <2>2, <2>4
<1> QED
  BY <1>2, <1>3, <1>4, <1>5, <1>6

LEMMA OverwriteKeepsIInv ==
    ASSUME IInv, NEW c \in Call, Overwrite(c)
    PROVE  IInv'
<1> USE DEF IInv
<1>1. /\ pending' = pending \ {c}
      /\ UNCHANGED <<committed, leader, leading, elections, applied, up, log, call>>
  BY DEF Overwrite
<1>2. TypeOK'
  BY <1>1 DEF TypeOK
<1>3. Prefixes' /\ Fresh' /\ Untaken' /\ Answers'
  BY <1>1 DEF Prefixes, Fresh, Untaken, Answers
<1> QED
  BY <1>2, <1>3

LEMMA ElectKeepsIInv ==
    ASSUME IInv, NEW n \in Node, Elect(n)
    PROVE  IInv'
<1>1. TypeOK'
  <2>1. /\ leader' = n /\ leading' = leading \cup {n} /\ n \in up
        /\ elections' = elections + 1 /\ elections < MaxElections
        /\ UNCHANGED <<committed, pending, applied, up, log, call>>
    BY DEF Elect
  <2>2. elections' \in 0..MaxElections
    BY <2>1, ReplicationAssumption DEF IInv, TypeOK
  <2> QED
    BY <2>1, <2>2 DEF IInv, TypeOK
<1> QED
  BY <1>1 DEF Elect, IInv, Prefixes, Fresh, Untaken, Answers

LEMMA PartitionKeepsIInv == IInv /\ Partition => IInv'
<1> SUFFICES ASSUME IInv, Partition PROVE IInv'
  OBVIOUS
<1> USE DEF IInv
<1>1. /\ leader' = None
      /\ UNCHANGED <<committed, pending, leading, elections, applied, up, log, call>>
  BY DEF Partition
<1>2. TypeOK'
  BY <1>1 DEF TypeOK
<1>3. Prefixes' /\ Fresh' /\ Untaken' /\ Answers'
  BY <1>1 DEF Prefixes, Fresh, Untaken, Answers
<1> QED
  BY <1>2, <1>3

(* A call that stops waiting failed, and the others are as they were. *)
LEMMA FailWaitingIs ==
    ASSUME TypeOK, NEW n \in Node, NEW handed, call' = FailWaiting(n, handed)
    PROVE  /\ call' \in [Call -> CallState]
           /\ \A c \in Call : call'[c].is = "waiting" =>
                 call'[c] = call[c] /\ (call[c].at # n \/ c \in handed)
           /\ \A c \in Call : call'[c].is \in {"new", "rejected", "done"} =>
                 call'[c] = call[c]
<1>1. ASSUME NEW c \in Call
      PROVE  /\ call'[c] \in CallState
             /\ call'[c].is = "waiting" =>
                   call'[c] = call[c] /\ (call[c].at # n \/ c \in handed)
             /\ call'[c].is \in {"new", "rejected", "done"} => call'[c] = call[c]
  <2>1. CASE call[c] = Waiting(n) /\ c \notin handed
    <3>1. call'[c] = Failed
      BY <2>1 DEF FailWaiting, WaitsAt
    <3> QED
      BY <3>1 DEF Failed, CallState
  <2>2. CASE call[c] # Waiting(n) \/ c \in handed
    <3>1. call'[c] = call[c] /\ call[c] \in CallState
      BY <2>2 DEF FailWaiting, WaitsAt, TypeOK
    <3> QED
      BY <2>2, <3>1, CallStates
  <2> QED
    BY <2>1, <2>2
<1> QED
  BY <1>1 DEF FailWaiting

LEMMA StepDownKeepsIInv ==
    ASSUME IInv, NEW n \in Node, StepDown(n)
    PROVE  IInv'
<1> USE DEF IInv
<1>0. PICK handed \in SUBSET (WaitsAt(n) \cap Range(committed)) :
          call' = FailWaiting(n, handed)
  BY DEF StepDown
<1>1. TypeOK'
  BY <1>0, FailWaitingIs DEF StepDown, TypeOK
<1>2. Prefixes' /\ Fresh'
  BY DEF StepDown, Prefixes, Fresh
<1>3. Untaken'
  BY <1>0, FailWaitingIs DEF StepDown, Untaken
<1>4. Answers'
  BY <1>0, FailWaitingIs DEF StepDown, Answers
<1> QED
  BY <1>1, <1>2, <1>3, <1>4

LEMMA StopKeepsIInv ==
    ASSUME IInv, NEW n \in Node, Stop(n)
    PROVE  IInv'
<1> USE DEF IInv
<1>1. TypeOK'
  BY FailWaitingIs, ReplicationAssumption DEF Stop, TypeOK
<1>2. Prefixes' /\ Fresh'
  BY DEF Stop, Prefixes, Fresh
<1>3. Untaken'
  BY FailWaitingIs DEF Stop, Untaken
<1>4. Answers'
  BY FailWaitingIs DEF Stop, Answers
<1> QED
  BY <1>1, <1>2, <1>3, <1>4

LEMMA ApplyKeepsIInv ==
    ASSUME IInv, NEW n \in Node, Apply(n)
    PROVE  IInv'
<1> USE DEF IInv
<1> DEFINE c == committed[applied[n] + 1]
<1>1. /\ applied[n] \in Nat /\ applied[n] + 1 \in 1..Len(committed)
      /\ Len(committed) \in Nat /\ c \in Call
  BY DEF Apply, TypeOK
<1>2. /\ applied' = [applied EXCEPT ![n] = @ + 1]
      /\ log' = [log EXCEPT ![n] = Append(log[n], c)]
      /\ call' = IF call[c] = Waiting(n)
                 THEN [call EXCEPT ![c] = Done(n, applied[n])] ELSE call
      /\ UNCHANGED <<committed, pending, leader, leading, elections, up>>
  BY <1>1 DEF Apply, NextRequest, Appended, Answered, AppliedOffset, WaitsAt,
              Prefixes, raftVars
<1>3. /\ Len(log'[n]) = applied[n] + 1
      /\ \A i \in 1..applied[n] : log'[n][i] = log[n][i]
      /\ log'[n][applied[n] + 1] = c
      /\ log' \in [Node -> Seq(Call)]
  BY <1>1, <1>2 DEF TypeOK, Prefixes
<1>4. call' \in [Call -> CallState]
  BY <1>1, <1>2 DEF TypeOK, CallState, Done
<1>5. \A d \in Call : call'[d] # call[d] =>
          /\ d = c /\ call'[d] = Done(n, applied[n])
          /\ call'[d].is = "done" /\ call'[d].at = n /\ call'[d].offset = applied[n]
  BY <1>1, <1>2 DEF TypeOK, Done
<1>6. TypeOK'
  BY <1>1, <1>2, <1>3, <1>4, <1>5 DEF TypeOK
<1>7. Prefixes'
  BY <1>1, <1>2, <1>3 DEF TypeOK, Prefixes
<1>8. Fresh'
  BY <1>2 DEF Fresh
<1>9. Untaken'
  BY <1>2, <1>5 DEF Untaken
<1>10. Answers'
  <2> SUFFICES ASSUME NEW d \in Call, call'[d].is = "done"
               PROVE  /\ call'[d].offset < applied'[call'[d].at]
                      /\ committed[call'[d].offset + 1] = d
    BY <1>2 DEF Answers
  <2>1. CASE call'[d] = call[d]
    <3>1. call[d].at \in Node /\ call[d].offset \in Nat
      BY <2>1, CallStates DEF TypeOK
    <3>2. applied[call[d].at] \in Nat /\ applied[call[d].at] <= applied'[call[d].at]
      BY <1>2, <3>1 DEF TypeOK
    <3>3. applied'[call[d].at] \in Nat
      BY <1>2, <3>1 DEF TypeOK
    <3> QED
      BY <2>1, <3>1, <3>2, <3>3 DEF Answers
  <2>2. CASE call'[d] # call[d]
    BY <1>1, <1>2, <1>5, <2>2 DEF TypeOK
  <2> QED
    BY <2>1, <2>2
<1> QED
  BY <1>6, <1>7, <1>8, <1>9, <1>10

LEMMA IInvInductive == IInv /\ [Next]_vars => IInv'
<1> SUFFICES ASSUME IInv, [Next]_vars PROVE IInv'
  OBVIOUS
<1>1. CASE Next
  BY <1>1, ProposeKeepsIInv, RejectKeepsIInv, CommitKeepsIInv, OverwriteKeepsIInv,
     ApplyKeepsIInv, ElectKeepsIInv, StepDownKeepsIInv, StopKeepsIInv,
     PartitionKeepsIInv DEF Next
<1>2. CASE UNCHANGED vars
  BY <1>2 DEF vars, raftVars, IInv, TypeOK, Prefixes, Fresh, Untaken, Answers
<1> QED
  BY <1>1, <1>2

(* The strengthening holds in every reachable state. *)
LEMMA IInvHolds == Spec => []IInv
BY InitIInv, IInvInductive, PTL DEF Spec

-----------------------------------------------------------------------------

(* Every variable of Replication has its type, whatever Raft elects, commits *)
(* or overwrites.                                                          *)
THEOREM ReplicationTypes == Spec => []TypeOK
BY IInvHolds, PTL DEF IInv

(* fsm.Apply keeps the logs of any two nodes equal where both have records. *)
THEOREM ReplicasAlwaysAgree == Spec => []ReplicasAgree
<1>1. IInv => ReplicasAgree
  BY DEF IInv, TypeOK, Prefixes, ReplicasAgree
<1> QED
  BY <1>1, IInvHolds, PTL

(* The offset Append returns stays the place of its record on every node.  *)
THEOREM AnswersAlwaysHold == Spec => []AnswersHold
<1>1. ASSUME IInv, NEW c \in Call, call[c].is = "done"
      PROVE  /\ call[c].offset < Len(log[call[c].at])
             /\ \A n \in Node :
                   call[c].offset < Len(log[n]) => log[n][call[c].offset + 1] = c
  <2>1. call[c].at \in Node /\ call[c].offset \in Nat
    BY <1>1, CallStates DEF IInv, TypeOK
  <2>2. /\ call[c].offset < applied[call[c].at]
        /\ committed[call[c].offset + 1] = c
    BY <1>1 DEF IInv, Answers
  <2>3. \A n \in Node : Len(log[n]) = applied[n] /\ applied[n] \in Nat
    BY <1>1 DEF IInv, TypeOK, Prefixes
  <2> QED
    BY <1>1, <2>1, <2>2, <2>3 DEF IInv, Prefixes
<1>2. IInv => AnswersHold
  BY <1>1 DEF AnswersHold
<1> QED
  BY <1>2, IInvHolds, PTL

(* No log has two records of one call, or one of a call turned away.       *)
THEOREM AlwaysAtMostOnce == Spec => []AtMostOnce
<1>1. ASSUME IInv, NEW n \in Node
      PROVE  /\ IsInjective(log[n])
             /\ \A i \in DOMAIN log[n] : call[log[n][i]].is # "rejected"
  <2>1. /\ DOMAIN log[n] = 1..applied[n]
        /\ 1..applied[n] \subseteq 1..Len(committed)
        /\ \A i \in 1..applied[n] : log[n][i] = committed[i] /\ committed[i] \in Call
    BY <1>1 DEF IInv, TypeOK, Prefixes
  <2>2. IsInjective(log[n])
    BY <1>1, <2>1 DEF IInv, Fresh, IsInjective
  <2>3. ASSUME NEW i \in 1..applied[n] PROVE call[committed[i]].is # "rejected"
    BY <1>1, <2>1 DEF IInv, Untaken
  <2> QED
    BY <2>1, <2>2, <2>3
<1>2. IInv => AtMostOnce
  BY <1>1 DEF AtMostOnce
<1> QED
  BY <1>2, IInvHolds, PTL

-----------------------------------------------------------------------------
(* Replication implements SharedLog. *)

(* What Promise calls the states of a call. *)
LEMMA SameCallStates ==
    /\ New = Promise!New /\ Rejected = Promise!Rejected /\ Failed = Promise!Failed
    /\ \A n : Waiting(n) = Promise!Waiting(n)
    /\ \A n, off : Done(n, off) = Promise!Done(n, off)
BY DEF New, Rejected, Failed, Waiting, Done, Promise!New, Promise!Rejected,
       Promise!Failed, Promise!Waiting, Promise!Done

(* Raft commits only what waits or failed, and once. *)
LEMMA CommitImplements ==
    ASSUME IInv, NEW c \in Call, Commit(c)
    PROVE  Promise!Enter(c)
<1>1. call[c] \in CallState /\ c \in pending
  BY DEF Commit, IInv, TypeOK
<1>2. call[c].is # "new" /\ call[c].is # "rejected"
  BY <1>1 DEF IInv, Untaken
<1>3. c \notin Range(committed)
  BY <1>1 DEF IInv, TypeOK, Fresh, Range
<1>4. call[c].is # "done"
  <2> SUFFICES ASSUME call[c].is = "done" PROVE FALSE
    OBVIOUS
  <2>1. /\ call[c].at \in Node /\ call[c].offset \in Nat
        /\ call[c].offset < applied[call[c].at] /\ committed[call[c].offset + 1] = c
    BY <1>1, CallStates DEF IInv, Answers
  <2>2. call[c].offset + 1 \in DOMAIN committed
    BY <2>1 DEF IInv, TypeOK
  <2> QED
    BY <1>3, <2>1, <2>2 DEF Range
<1>5. call[c].is \in {"waiting", "failed"}
  BY <1>1, <1>2, <1>4, CallStates
<1> QED
  BY <1>3, <1>5 DEF Commit, Range, Promise!Enter, Promise!Range

(* fsm.Apply appends the next record and answers the call that waits here. *)
LEMMA ApplyImplements ==
    ASSUME IInv, NEW n \in Node, Apply(n)
    PROVE  Promise!See(n)
<1> DEFINE c == committed[applied[n] + 1]
<1>1. Len(log[n]) = applied[n] /\ log \in [Node -> Seq(Call)]
  BY DEF IInv, Prefixes, TypeOK
<1>2. c \in Call /\ applied[n] < Len(committed)
  BY DEF Apply, IInv, TypeOK
<1>3. /\ log' = [log EXCEPT ![n] = Append(log[n], c)]
      /\ call' = IF call[c] = Waiting(n)
                 THEN [call EXCEPT ![c] = Done(n, applied[n])] ELSE call
      /\ committed' = committed
  BY <1>1, <1>2 DEF Apply, NextRequest, Appended, Answered, AppliedOffset, WaitsAt, raftVars
<1> QED
  BY <1>1, <1>2, <1>3, SameCallStates DEF Promise!See

(* A node that loses its lead, or stops, fails the calls that wait there.  *)
LEMMA FailWaitingImplements ==
    ASSUME NEW n \in Node, NEW handed, call' = FailWaiting(n, handed),
           UNCHANGED <<committed, log>>
    PROVE  \E calls \in SUBSET Call : Promise!Fail(calls)
<1>1. \A c \in WaitsAt(n) : call[c].is = "waiting"
  BY DEF WaitsAt, Waiting
<1>2. Promise!Fail(WaitsAt(n) \ handed)
  BY <1>1, SameCallStates DEF FailWaiting, Promise!Fail
<1> QED
  BY <1>2 DEF WaitsAt

LEMMA InitImplements == Init => Promise!Init
BY SameCallStates DEF Init, Promise!Init

LEMMA StepImplements ==
    ASSUME IInv, [Next]_vars
    PROVE  [Promise!Next]_<<committed, log, call>>
<1>1. ASSUME NEW c \in Call, NEW n \in Node, Propose(c, n) PROVE Promise!Take(c, n)
  BY <1>1, SameCallStates DEF Propose, Promise!Take
<1>2. ASSUME NEW c \in Call, Reject(c) PROVE Promise!Reject(c)
  BY <1>2, SameCallStates DEF Reject, raftVars, Promise!Reject
<1>3. ASSUME NEW n \in Node, StepDown(n) \/ Stop(n)
      PROVE  \E calls \in SUBSET Call : Promise!Fail(calls)
  BY <1>3, FailWaitingImplements DEF StepDown, Stop
<1>4. ASSUME \/ \E c \in Call : Overwrite(c)
             \/ \E n \in Node : Elect(n)
             \/ Partition
             \/ UNCHANGED vars
      PROVE  UNCHANGED <<committed, log, call>>
  BY <1>4 DEF Overwrite, Elect, Partition, vars, raftVars
<1> QED
  BY <1>1, <1>2, <1>3, <1>4, CommitImplements, ApplyImplements DEF Next, Promise!Next

(* The replicated logs are, for those who produce and consume, one log of  *)
(* which each node has a part, for every cluster and every history of      *)
(* elections, partitions and deaths.                                       *)
THEOREM ReplicationImplementsSharedLog == Spec => ImplementsSharedLog
<1>1. IInv /\ [Next]_vars => [Promise!Next]_<<committed, log, call>>
  BY StepImplements
<1> QED
  BY <1>1, InitImplements, IInvHolds, PTL
     DEF Spec, ImplementsSharedLog, Promise!Spec, Promise!vars

(* So acknowledged offsets respect the order in which calls were made and  *)
(* answered, over any number of leaders, as SharedLog promises.            *)
PromiseProofs == INSTANCE SharedLogProofs WITH log <- committed, view <- log

THEOREM OffsetsAlwaysInRealTimeOrder == Spec => RealTimeOrder
<1>1. PromiseProofs!Spec => PromiseProofs!RealTimeOrder
  BY PromiseProofs!RealTimeAlwaysOrdered
<1>2. PromiseProofs!Spec <=> Promise!Spec
  BY DEF PromiseProofs!Spec, Promise!Spec, PromiseProofs!Init, Promise!Init,
         PromiseProofs!Next, Promise!Next, PromiseProofs!vars, Promise!vars,
         PromiseProofs!Take, Promise!Take, PromiseProofs!Reject,
         Promise!Reject, PromiseProofs!Enter, Promise!Enter, PromiseProofs!See,
         Promise!See, PromiseProofs!Fail, Promise!Fail, PromiseProofs!New,
         Promise!New, PromiseProofs!Waiting, Promise!Waiting,
         PromiseProofs!Done, Promise!Done, PromiseProofs!Rejected,
         Promise!Rejected, PromiseProofs!Failed, Promise!Failed,
         PromiseProofs!Range, Promise!Range
<1>3. PromiseProofs!RealTimeOrder <=> RealTimeOrder
  BY DEF RealTimeOrder, PromiseProofs!RealTimeOrder, Promise!RealTimeOrder,
         PromiseProofs!Following, Promise!Following, PromiseProofs!New, Promise!New
<1> QED
  BY <1>1, <1>2, <1>3, ReplicationImplementsSharedLog, PTL DEF ImplementsSharedLog
=============================================================================

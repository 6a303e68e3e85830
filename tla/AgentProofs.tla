---------------------------- MODULE AgentProofs ----------------------------
(***************************************************************************)
(* What the streams of a node and its shutdown keep, for every number of   *)
(* nodes, streams and requests.  SInv is about the streams and the log     *)
(* below them, AInv adds the node's life.                                  *)
(***************************************************************************)
EXTENDS Agent, TLAPS

CallState ==
    {New, Rejected, Failed} \cup {Waiting(n) : n \in Node}
        \cup [is : {"done"}, at : Node, offset : Nat]

CallTypeOK == call \in [Call -> CallState]

(* Each node's part of the log is its beginning. *)
Views ==
    \A n \in Node :
        /\ Len(view[n]) <= Len(log)
        /\ \A i \in 1..Len(view[n]) : view[n][i] = log[i]

(* The requests of a stream before the one in hand were answered, those    *)
(* after it are untouched, and one that waits has its handler waiting.     *)
Requests ==
    \A p \in Producer : \A k \in 1..MaxRequests :
        /\ k <= answered[p] => call[<<p, k>>].is = "done"
        /\ k > answered[p] + 1 => call[<<p, k>>].is = "new"
        /\ call[<<p, k>>].is = "waiting" =>
              call[<<p, k>>] = Waiting(at[p]) /\ stream[p] = "open"

(* In the log is every call that was answered and none that was not taken. *)
InLog ==
    /\ \A i \in 1..Len(log) : call[log[i]].is \notin {"new", "rejected"}
    /\ \A c \in Call : call[c].is = "done" => \E i \in 1..Len(log) : log[i] = c

LogInOrder ==
    \A i, j \in 1..Len(log) :
        (i < j /\ log[i][1] = log[j][1]) => log[i][2] < log[j][2]

SInv ==
    /\ StreamTypeOK /\ CallTypeOK
    /\ Views /\ StreamsInOrder
    /\ Requests /\ InLog /\ LogInOrder

-----------------------------------------------------------------------------

LEMMA CallStates ==
    ASSUME NEW s \in CallState
    PROVE  /\ s.is \in {"new", "rejected", "failed", "waiting", "done"}
           /\ s.is = "new" <=> s = New
           /\ s.is = "waiting" => s = Waiting(s.at)
BY DEF CallState, New, Rejected, Failed, Waiting

LEMMA StatesAre ==
    /\ New.is = "new" /\ Rejected.is = "rejected" /\ Failed.is = "failed"
    /\ {New, Rejected, Failed} \subseteq CallState
    /\ \A n \in Node : Waiting(n) \in CallState /\ Waiting(n).is = "waiting"
    /\ \A n \in Node : \A off \in Nat : Done(n, off) \in CallState /\ Done(n, off).is = "done"
BY DEF CallState, New, Rejected, Failed, Waiting, Done

LEMMA CallIs ==
    /\ \A p \in Producer : \A k \in 1..MaxRequests : <<p, k>> \in Call
    /\ \A c \in Call : c = <<c[1], c[2]>> /\ c[1] \in Producer /\ c[2] \in 1..MaxRequests
    /\ \A s \in Producer \cup Consumer : at[s] \in Node
    /\ \A s \in Consumer : from[s] \in Nat
    /\ MaxRequests \in Nat
BY StreamsAssumption

(* The request in hand is the only one of its stream that can change. *)
LEMMA RequestIs ==
    ASSUME SInv, NEW p \in Producer, answered[p] < MaxRequests
    PROVE  /\ Request(p) \in Call /\ answered[p] \in Nat
           /\ Request(p) = <<p, answered[p] + 1>>
           /\ answered[p] + 1 \in 1..MaxRequests
<1>1. answered[p] \in 0..MaxRequests
  BY DEF SInv, StreamTypeOK
<1>2. answered[p] \in Nat /\ answered[p] + 1 \in 1..MaxRequests
  BY <1>1, CallIs
<1> QED
  BY <1>2, CallIs DEF Request

LEMMA InitSInv == StreamInit => SInv
BY StatesAre, CallIs, StreamsAssumption
   DEF StreamInit, Init, SInv, StreamTypeOK, CallTypeOK, Views, StreamsInOrder, Requests,
       InLog, LogInOrder

LEMMA BeginKeepsSInv ==
    ASSUME SInv, NEW s \in Producer \cup Consumer, Begin(s)
    PROVE  SInv'
<1>1. stream' \in [Producer \cup Consumer -> {"new", "open", "ended"}]
      /\ \A t \in Producer \cup Consumer : stream[t] = "open" => stream'[t] = "open"
  BY DEF Begin, SInv, StreamTypeOK
<1> QED
  BY <1>1 DEF Begin, vars, SInv, StreamTypeOK, CallTypeOK, Views, StreamsInOrder, Requests,
              InLog, LogInOrder

(* A handler that ends is not one that waits. *)
LEMMA EndKeepsSInv ==
    ASSUME SInv, NEW s \in Producer \cup Consumer, Ended(s),
           UNCHANGED <<vars, serving, answered, sent>>,
           s \in Producer => \A k \in 1..MaxRequests : call[<<s, k>>].is # "waiting"
    PROVE  SInv'
<1>1. stream' \in [Producer \cup Consumer -> {"new", "open", "ended"}]
      /\ \A t \in Producer \cup Consumer : t # s => stream'[t] = stream[t]
  BY DEF Ended, SInv, StreamTypeOK
<1> QED
  BY <1>1 DEF vars, SInv, StreamTypeOK, CallTypeOK, Views, StreamsInOrder, Requests,
              InLog, LogInOrder

(* A call waits only where its stream has come to. *)
LEMMA WaitsInHand ==
    ASSUME SInv, NEW p \in Producer, NEW k \in 1..MaxRequests, call[<<p, k>>].is = "waiting"
    PROVE  k = answered[p] + 1 /\ call[Request(p)].is = "waiting" /\ answered[p] < MaxRequests
<1>1. answered[p] \in Nat
  BY DEF SInv, StreamTypeOK
<1>2. k = answered[p] + 1
  BY <1>1, CallIs DEF SInv, Requests
<1> QED
  BY <1>1, <1>2, CallIs DEF Request

LEMMA ReceiveKeepsSInv ==
    ASSUME SInv, NEW p \in Producer, Receive(p)
    PROVE  SInv'
<1> DEFINE c == Request(p)
<1>1. /\ c \in Call /\ answered[p] \in Nat /\ c = <<p, answered[p] + 1>>
      /\ stream[p] = "open" /\ call[c].is = "new" /\ at[p] \in Node
  BY RequestIs, CallIs, StatesAre DEF Receive, Take, IsOpen
<1>2. /\ call' \in [Call -> CallState] /\ call'[c] = Waiting(at[p])
      /\ call'[c].is = "waiting"
      /\ \A d \in Call : d # c => call'[d] = call[d]
  BY <1>1, StatesAre DEF Receive, Take, SInv, CallTypeOK
<1>3. UNCHANGED <<log, view, serving, stream, answered, sent>>
  BY DEF Receive, Take, streamVars
<1> HIDE DEF c
<1>4. Requests'
  <2> SUFFICES ASSUME NEW q \in Producer, NEW k \in 1..MaxRequests
               PROVE  /\ k <= answered[q] => call'[<<q, k>>].is = "done"
                      /\ k > answered[q] + 1 => call'[<<q, k>>].is = "new"
                      /\ call'[<<q, k>>].is = "waiting" =>
                            call'[<<q, k>>] = Waiting(at[q]) /\ stream[q] = "open"
    BY <1>3 DEF Requests
  <2>1. <<q, k>> \in Call
    BY CallIs
  <2>2. CASE <<q, k>> = c
    BY <1>1, <1>2, <2>2
  <2>3. CASE <<q, k>> # c
    BY <1>2, <2>1, <2>3 DEF SInv, Requests
  <2> QED
    BY <2>2, <2>3
<1>5. InLog'
  <2>1. \A i \in 1..Len(log) : log[i] \in Call /\ call[log[i]].is # "new"
    BY DEF SInv, StreamTypeOK, InLog
  <2>2. \A i \in 1..Len(log) : call'[log[i]] = call[log[i]]
    BY <1>1, <1>2, <2>1
  <2> QED
    BY <1>2, <1>3, <2>2 DEF SInv, InLog
<1> QED
  BY <1>2, <1>3, <1>4, <1>5
     DEF SInv, StreamTypeOK, CallTypeOK, Views, StreamsInOrder, LogInOrder

(* A call of a stream's that is turned away, or fails. *)
LEMMA GivenUpKeepsSInv ==
    ASSUME SInv, NEW p \in Producer, answered[p] < MaxRequests, Ended(p),
           UNCHANGED <<log, view, serving, answered, sent>>,
           NEW s \in {Rejected, Failed}, call' = [call EXCEPT ![Request(p)] = s],
           call[Request(p)].is = IF s = Rejected THEN "new" ELSE "waiting"
    PROVE  SInv'
<1> DEFINE c == Request(p)
<1>1. c \in Call /\ answered[p] \in Nat /\ c = <<p, answered[p] + 1>>
  BY RequestIs
<1>2. /\ call' \in [Call -> CallState] /\ call'[c] = s
      /\ \A d \in Call : d # c => call'[d] = call[d]
  BY <1>1, StatesAre DEF SInv, CallTypeOK
<1>3. /\ stream' \in [Producer \cup Consumer -> {"new", "open", "ended"}]
      /\ \A t \in Producer \cup Consumer : t # p => stream'[t] = stream[t]
  BY DEF Ended, SInv, StreamTypeOK
<1>4. s.is = "rejected" \/ s.is = "failed"
  BY StatesAre
<1>5. s.is = "rejected" => call[c].is = "new"
  BY StatesAre
<1>6. call[c].is # "done"
  OBVIOUS
<1> HIDE DEF c
<1>7. Requests'
  <2> SUFFICES ASSUME NEW q \in Producer, NEW k \in 1..MaxRequests
               PROVE  /\ k <= answered[q] => call'[<<q, k>>].is = "done"
                      /\ k > answered[q] + 1 => call'[<<q, k>>].is = "new"
                      /\ call'[<<q, k>>].is = "waiting" =>
                            call'[<<q, k>>] = Waiting(at[q]) /\ stream'[q] = "open"
    BY DEF Requests
  <2>1. <<q, k>> \in Call
    BY CallIs
  <2>2. CASE <<q, k>> = c
    BY <1>1, <1>2, <1>4, <2>2
  <2>3. CASE <<q, k>> # c
    <3>1. call'[<<q, k>>] = call[<<q, k>>]
      BY <1>2, <2>1, <2>3
    <3>2. call[<<q, k>>].is = "waiting" => q # p
      BY <1>1, <2>3, WaitsInHand
    <3> QED
      BY <1>3, <3>1, <3>2 DEF SInv, Requests
  <2> QED
    BY <2>2, <2>3
<1>8. InLog'
  <2>1. \A i \in 1..Len(log) : log[i] \in Call /\ call[log[i]].is # "new"
    BY DEF SInv, StreamTypeOK, InLog
  <2>2. \A i \in 1..Len(log) : call'[log[i]].is \notin {"new", "rejected"}
    BY <1>2, <1>4, <1>5, <2>1 DEF SInv, InLog
  <2>3. \A d \in Call : call'[d].is = "done" => call[d].is = "done"
    BY <1>2, <1>4
  <2> QED
    BY <2>2, <2>3 DEF SInv, InLog
<1> QED
  BY <1>2, <1>3, <1>7, <1>8
     DEF SInv, StreamTypeOK, CallTypeOK, Views, StreamsInOrder, LogInOrder

LEMMA RefuseKeepsSInv ==
    ASSUME SInv, NEW p \in Producer, Refuse(p)
    PROVE  SInv'
<1>1. /\ call' = [call EXCEPT ![Request(p)] = Rejected] /\ answered[p] < MaxRequests
      /\ Ended(p) /\ UNCHANGED <<log, view, serving, answered, sent>>
      /\ call[Request(p)].is = "new"
  BY StatesAre DEF Refuse, Reject
<1> QED
  BY <1>1, GivenUpKeepsSInv

LEMMA AbortKeepsSInv ==
    ASSUME SInv, NEW p \in Producer, Abort(p)
    PROVE  SInv'
<1>1. /\ answered[p] < MaxRequests /\ Request(p) \in Call
      /\ Ended(p) /\ UNCHANGED <<log, view, serving, answered, sent>>
      /\ call[Request(p)].is = "waiting"
  BY RequestIs DEF Abort, InRequest, Fail
<1>2. call' = [call EXCEPT ![Request(p)] = Failed]
  BY <1>1 DEF Abort, Fail, SInv, CallTypeOK
<1>3. Failed # Rejected
  BY StatesAre
<1> QED
  BY <1>1, <1>2, <1>3, GivenUpKeepsSInv

LEMMA RespondKeepsSInv ==
    ASSUME SInv, NEW p \in Producer, Respond(p)
    PROVE  SInv'
<1>1. /\ answered[p] \in Nat /\ answered[p] + 1 \in 1..MaxRequests
      /\ call[<<p, answered[p] + 1>>].is = "done"
  BY RequestIs DEF Respond, InRequest
<1>2. /\ answered' \in [Producer -> 0..MaxRequests]
      /\ answered'[p] = answered[p] + 1
      /\ \A q \in Producer : q # p => answered'[q] = answered[q]
  BY <1>1 DEF Respond, SInv, StreamTypeOK
<1>3. Requests'
  <2> SUFFICES ASSUME NEW q \in Producer, NEW k \in 1..MaxRequests
               PROVE  /\ k <= answered'[q] => call[<<q, k>>].is = "done"
                      /\ k > answered'[q] + 1 => call[<<q, k>>].is = "new"
                      /\ call[<<q, k>>].is = "waiting" =>
                            call[<<q, k>>] = Waiting(at[q]) /\ stream[q] = "open"
    BY DEF Respond, vars, Requests
  <2>1. CASE q = p
    BY <1>1, <1>2, <2>1 DEF SInv, Requests
  <2>2. CASE q # p
    BY <1>2, <2>2 DEF SInv, Requests
  <2> QED
    BY <2>1, <2>2
<1> QED
  BY <1>2, <1>3 DEF Respond, vars, SInv, StreamTypeOK, CallTypeOK, Views, StreamsInOrder,
                    InLog, LogInOrder

LEMMA EndProduceKeepsSInv ==
    ASSUME SInv, NEW p \in Producer, EndProduce(p)
    PROVE  SInv'
<1>1. ASSUME NEW k \in 1..MaxRequests, call[<<p, k>>].is = "waiting"
      PROVE  FALSE
  BY <1>1, WaitsInHand, StatesAre DEF EndProduce, InRequest
<1> QED
  BY <1>1, EndKeepsSInv DEF EndProduce

LEMMA EndConsumeKeepsSInv ==
    ASSUME SInv, NEW s \in Consumer, EndConsume(s)
    PROVE  SInv'
BY EndKeepsSInv, StreamsAssumption DEF EndConsume

(* A consume stream sends the record that follows those it sent. *)
LEMMA SendKeepsSInv ==
    ASSUME SInv, NEW s \in Consumer, Send(s)
    PROVE  SInv'
<1> DEFINE r == view[at[s]][NextOffset(s) + 1]
           m == Len(sent[s])
<1>1. /\ at[s] \in Node /\ from[s] \in Nat /\ m \in Nat
      /\ NextOffset(s) = from[s] + m
  BY CallIs DEF SInv, StreamTypeOK, NextOffset
<1>2. /\ view[at[s]] \in Seq(Call) /\ log \in Seq(Call)
      /\ from[s] + m + 1 \in 1..Len(view[at[s]])
      /\ Len(view[at[s]]) <= Len(log)
  BY <1>1 DEF Send, SInv, StreamTypeOK, Views
<1>3. r = log[from[s] + m + 1] /\ r \in Call /\ from[s] + m + 1 <= Len(log)
  BY <1>1, <1>2 DEF SInv, Views
<1>4. sent' = [sent EXCEPT ![s] = Append(@, r)] /\ UNCHANGED <<vars, serving, stream, answered>>
  BY DEF Send
<1> HIDE DEF r
<1>5. /\ sent' \in [Consumer -> Seq(Call)]
      /\ \A t \in Consumer : t # s => sent'[t] = sent[t]
      /\ Len(sent'[s]) = m + 1 /\ sent'[s][m + 1] = r
      /\ \A i \in 1..m : sent'[s][i] = sent[s][i]
  BY <1>3, <1>4 DEF SInv, StreamTypeOK
<1>6. StreamsInOrder'
  <2> SUFFICES ASSUME NEW t \in Consumer, NEW i \in DOMAIN sent'[t]
               PROVE  from[t] + i <= Len(log) /\ sent'[t][i] = log[from[t] + i]
    BY <1>4 DEF StreamsInOrder, vars
  <2>1. CASE t # s
    BY <1>5, <2>1 DEF SInv, StreamsInOrder
  <2>2. CASE t = s
    <3>1. i \in 1..(m + 1)
      BY <1>5, <2>2 DEF StreamTypeOK
    <3>2. CASE i = m + 1
      BY <1>1, <1>3, <1>5, <2>2, <3>2
    <3>3. CASE i # m + 1
      <4>1. i \in 1..m /\ i \in DOMAIN sent[s]
        BY <1>1, <3>1, <3>3 DEF SInv, StreamTypeOK
      <4> QED
        BY <1>5, <2>2, <4>1 DEF SInv, StreamsInOrder
    <3> QED
      BY <3>2, <3>3
  <2> QED
    BY <2>1, <2>2
<1> QED
  BY <1>4, <1>5, <1>6
     DEF vars, SInv, StreamTypeOK, CallTypeOK, Views, Requests, InLog, LogInOrder

LEMMA HandleKeepsSInv ==
    ASSUME SInv, NEW s \in Producer \cup Consumer, Handle(s)
    PROVE  SInv'
BY BeginKeepsSInv, ReceiveKeepsSInv, RefuseKeepsSInv, AbortKeepsSInv, RespondKeepsSInv,
   EndProduceKeepsSInv, SendKeepsSInv, EndConsumeKeepsSInv DEF Handle

-----------------------------------------------------------------------------
(* The log below the streams. *)

(* The record of a call that waits, or failed, comes after those of its    *)
(* stream that are in the log.                                             *)
LEMMA CommitKeepsSInv ==
    ASSUME SInv, NEW c \in Call, Commit(c)
    PROVE  SInv'
<1>1. /\ log \in Seq(Call) /\ Len(log) \in Nat
      /\ log' = Append(log, c) /\ UNCHANGED <<view, call, serving, stream, answered, sent>>
      /\ call[c].is \in {"waiting", "failed"} /\ c \notin Range(log)
  BY DEF Commit, Enter, streamVars, SInv, StreamTypeOK
<1>2. /\ log' \in Seq(Call) /\ Len(log') = Len(log) + 1
      /\ log'[Len(log) + 1] = c
      /\ \A i \in 1..Len(log) : log'[i] = log[i] /\ log[i] \in Call /\ log[i] # c
  BY <1>1 DEF Range
<1>3. Views'
  BY <1>1, <1>2 DEF SInv, Views, StreamTypeOK
<1>4. StreamsInOrder'
  <2> SUFFICES ASSUME NEW t \in Consumer, NEW i \in DOMAIN sent[t]
               PROVE  from[t] + i <= Len(log') /\ sent[t][i] = log'[from[t] + i]
    BY <1>1 DEF StreamsInOrder
  <2>1. from[t] + i <= Len(log) /\ sent[t][i] = log[from[t] + i]
    BY DEF SInv, StreamsInOrder
  <2>2. i \in Nat \ {0} /\ from[t] \in Nat
    BY CallIs DEF SInv, StreamTypeOK
  <2>3. from[t] + i \in 1..Len(log)
    BY <1>1, <2>1, <2>2
  <2> QED
    BY <1>1, <1>2, <2>1, <2>3
<1>5. Requests'
  BY <1>1 DEF SInv, Requests
<1>6. InLog'
  <2>1. \A i \in 1..Len(log') : call[log'[i]].is \notin {"new", "rejected"}
    BY <1>1, <1>2 DEF SInv, InLog
  <2>2. ASSUME NEW d \in Call, call[d].is = "done"
        PROVE  \E i \in 1..Len(log') : log'[i] = d
    <3>1. PICK i \in 1..Len(log) : log[i] = d
      BY <2>2 DEF SInv, InLog
    <3>2. i \in 1..Len(log')
      BY <1>1, <1>2
    <3> QED
      BY <1>2, <3>1, <3>2
  <2> QED
    BY <1>1, <2>1, <2>2 DEF InLog
<1>7. ASSUME NEW i \in 1..Len(log), log[i][1] = c[1]
      PROVE  log[i][2] < c[2]
  <2>1. /\ log[i] = <<c[1], log[i][2]>> /\ log[i][2] \in 1..MaxRequests
        /\ c = <<c[1], c[2]>> /\ c[2] \in 1..MaxRequests /\ c[1] \in Producer
    BY <1>2, <1>7, CallIs
  <2>2. call[log[i]].is # "new" /\ call[c].is # "done"
    BY <1>1 DEF SInv, InLog
  <2>3. answered[c[1]] \in Nat
    BY <2>1 DEF SInv, StreamTypeOK
  <2>4. log[i][2] <= answered[c[1]] + 1
    BY <2>1, <2>2, <2>3 DEF SInv, Requests
  <2>5. c[2] > answered[c[1]]
    BY <2>1, <2>2, <2>3 DEF SInv, Requests
  <2>6. log[i][2] # c[2]
    BY <1>2, <2>1
  <2>7. log[i][2] \in Nat /\ c[2] \in Nat
    BY <2>1, CallIs
  <2> QED
    BY <2>3, <2>4, <2>5, <2>6, <2>7
<1>8. LogInOrder'
  <2> SUFFICES ASSUME NEW i \in 1..Len(log'), NEW j \in 1..Len(log'),
                      i < j, log'[i][1] = log'[j][1]
               PROVE  log'[i][2] < log'[j][2]
    BY DEF LogInOrder
  <2>1. i \in 1..Len(log)
    BY <1>1, <1>2
  <2>2. CASE j = Len(log) + 1
    BY <1>2, <1>7, <2>1, <2>2
  <2>3. CASE j # Len(log) + 1
    <3>1. j \in 1..Len(log)
      BY <1>1, <1>2, <2>3
    <3> QED
      BY <1>2, <2>1, <3>1 DEF SInv, LogInOrder
  <2> QED
    BY <2>2, <2>3
<1> QED
  BY <1>1, <1>2, <1>3, <1>4, <1>5, <1>6, <1>8 DEF SInv, StreamTypeOK, CallTypeOK

(* A node comes to its next record, and answers the call that waits. *)
LEMMA ProceedKeepsSInv ==
    ASSUME SInv, NEW n \in Node, Proceed(n)
    PROVE  SInv'
<1> DEFINE off == Len(view[n])
           c == log[off + 1]
<1>1. /\ log \in Seq(Call) /\ Len(log) \in Nat /\ off \in Nat /\ off < Len(log)
      /\ off + 1 \in 1..Len(log) /\ c \in Call /\ view[n] \in Seq(Call)
  BY DEF Proceed, See, SInv, StreamTypeOK
<1>2. /\ view' = [view EXCEPT ![n] = Append(@, c)]
      /\ call' = IF call[c] = Waiting(n) THEN [call EXCEPT ![c] = Done(n, off)] ELSE call
      /\ UNCHANGED <<log, serving, stream, answered, sent>>
  BY DEF Proceed, See, streamVars
<1> HIDE DEF c, off
<1>3. /\ view' \in [Node -> Seq(Call)]
      /\ \A m \in Node : m # n => view'[m] = view[m]
      /\ Len(view'[n]) = off + 1 /\ view'[n][off + 1] = c
      /\ \A i \in 1..off : view'[n][i] = view[n][i]
  BY <1>1, <1>2 DEF SInv, StreamTypeOK, off
<1>4. Views'
  <2> SUFFICES ASSUME NEW m \in Node
               PROVE  /\ Len(view'[m]) <= Len(log)
                      /\ \A i \in 1..Len(view'[m]) : view'[m][i] = log[i]
    BY <1>2 DEF Views
  <2>1. CASE m # n
    BY <1>3, <2>1 DEF SInv, Views
  <2>2. CASE m = n
    <3>1. \A i \in 1..off : view[n][i] = log[i]
      BY DEF SInv, Views, off
    <3>2. \A i \in 1..(off + 1) : i \in 1..off \/ i = off + 1
      BY <1>1
    <3>3. \A i \in 1..(off + 1) : view'[n][i] = log[i]
      BY <1>3, <3>1, <3>2 DEF c
    <3> QED
      BY <1>1, <1>3, <2>2, <3>3
  <2> QED
    BY <2>1, <2>2
<1>5. /\ call' \in [Call -> CallState]
      /\ \A d \in Call : \/ call'[d] = call[d]
                         \/ call[d].is = "waiting" /\ call'[d].is = "done" /\ d = c
  BY <1>1, <1>2, StatesAre DEF SInv, CallTypeOK
<1>6. Requests'
  <2> SUFFICES ASSUME NEW q \in Producer, NEW k \in 1..MaxRequests
               PROVE  /\ k <= answered[q] => call'[<<q, k>>].is = "done"
                      /\ k > answered[q] + 1 => call'[<<q, k>>].is = "new"
                      /\ call'[<<q, k>>].is = "waiting" =>
                            call'[<<q, k>>] = Waiting(at[q]) /\ stream[q] = "open"
    BY <1>2 DEF Requests
  <2>1. <<q, k>> \in Call
    BY CallIs
  <2>2. CASE call'[<<q, k>>] = call[<<q, k>>]
    BY <2>2 DEF SInv, Requests
  <2>3. CASE call[<<q, k>>].is = "waiting" /\ call'[<<q, k>>].is = "done"
    BY <2>3 DEF SInv, Requests
  <2> QED
    BY <1>5, <2>1, <2>2, <2>3
<1>7. InLog'
  <2>1. \A i \in 1..Len(log) : log[i] \in Call
    BY <1>1
  <2>2. \A i \in 1..Len(log) : call'[log[i]].is \notin {"new", "rejected"}
    BY <1>5, <2>1 DEF SInv, InLog
  <2>3. \A d \in Call : call'[d].is = "done" => \E i \in 1..Len(log) : log[i] = d
    BY <1>1, <1>5 DEF SInv, InLog, c
  <2> QED
    BY <1>2, <2>2, <2>3 DEF InLog
<1> QED
  BY <1>1, <1>2, <1>3, <1>4, <1>5, <1>6, <1>7
     DEF SInv, StreamTypeOK, CallTypeOK, StreamsInOrder, LogInOrder

(* The process ends with its handlers and the calls that wait in it. *)
LEMMA ProcessEndsKeepsSInv ==
    ASSUME SInv, ProcessEnds
    PROVE  SInv'
<1>1. /\ stream' = [s \in DOMAIN stream |-> IF s \in Handlers THEN "ended" ELSE stream[s]]
      /\ call' = [c \in Call |-> IF call[c] = Waiting(Self) THEN Failed ELSE call[c]]
      /\ UNCHANGED <<log, view, serving, answered, sent>>
  BY DEF ProcessEnds, Fail
<1>2. /\ stream' \in [Producer \cup Consumer -> {"new", "open", "ended"}]
      /\ \A s \in Producer \cup Consumer : at[s] # Self => stream'[s] = stream[s]
  BY <1>1 DEF SInv, StreamTypeOK, Handlers
<1>3. /\ call' \in [Call -> CallState]
      /\ \A d \in Call : \/ call'[d] = call[d] /\ call[d] # Waiting(Self)
                         \/ call[d].is = "waiting" /\ call'[d].is = "failed"
  BY <1>1, StatesAre, AgentAssumption DEF SInv, CallTypeOK
<1>4. Requests'
  <2> SUFFICES ASSUME NEW q \in Producer, NEW k \in 1..MaxRequests
               PROVE  /\ k <= answered[q] => call'[<<q, k>>].is = "done"
                      /\ k > answered[q] + 1 => call'[<<q, k>>].is = "new"
                      /\ call'[<<q, k>>].is = "waiting" =>
                            call'[<<q, k>>] = Waiting(at[q]) /\ stream'[q] = "open"
    BY <1>1 DEF Requests
  <2>1. <<q, k>> \in Call
    BY CallIs
  <2>2. CASE call'[<<q, k>>] = call[<<q, k>>] /\ call[<<q, k>>] # Waiting(Self)
    BY <1>2, <2>2 DEF SInv, Requests
  <2>3. CASE call[<<q, k>>].is = "waiting" /\ call'[<<q, k>>].is = "failed"
    BY <2>3 DEF SInv, Requests
  <2> QED
    BY <1>3, <2>1, <2>2, <2>3
<1>5. InLog'
  <2>1. \A i \in 1..Len(log) : log[i] \in Call
    BY DEF SInv, StreamTypeOK
  <2>2. \A i \in 1..Len(log) : call'[log[i]].is \notin {"new", "rejected"}
    BY <1>3, <2>1 DEF SInv, InLog
  <2>3. \A d \in Call : call'[d].is = "done" => call[d].is = "done"
    BY <1>3
  <2> QED
    BY <1>1, <2>2, <2>3 DEF SInv, InLog
<1> QED
  BY <1>1, <1>2, <1>3, <1>4, <1>5
     DEF SInv, StreamTypeOK, CallTypeOK, Views, StreamsInOrder, LogInOrder

-----------------------------------------------------------------------------
(* The life of the node. *)

(* Until setup is over there is no handler and no shutdown; the log is     *)
(* open until teardown is done with it; and once GracefulStop returned     *)
(* there are no handlers and no new ones.                                  *)
Life ==
    /\ phase \in Range(Setup) =>
          /\ Self \notin serving /\ ~shutdown /\ teardown = "membership.Leave"
          /\ Handlers = {}
          /\ \A c \in Caller : caller[c] = "idle"
    /\ phase = "running" /\ ~logOpen => teardown \in {"log.Close", "done"}
    /\ phase = "exited" => ~logOpen /\ Handlers = {}
    /\ teardown \in {"log.Close", "done"} => Handlers = {}
    /\ teardown \in {"drain", "log.Close", "done"} => Self \notin serving

(* One caller gets inside, and nobody returns before it does.              *)
Locks ==
    /\ ~shutdown => shutdownLock = None /\ \A c \in Caller : caller[c] \in {"idle", "waiting"}
    /\ shutdownLock # None => \A c \in Caller : caller[c] \notin Returned
    /\ shutdown /\ shutdownLock = None => ~logOpen \/ \E c \in Caller : caller[c] = "error"

AInv == SInv /\ AgentTypeOK /\ Life /\ Locks

LEMMA SetupIs ==
    /\ Range(Setup) = {"setupMux", "setupLog", "setupServer", "setupMembership"}
    /\ DOMAIN Setup = 1..4 /\ Len(Setup) = 4
    /\ \A i \in 1..3 : Setup[i + 1] \in Range(Setup)
BY DEF Setup, Range

LEMMA InitAInv == AgentInit => AInv
<1> SUFFICES ASSUME AgentInit PROVE AInv
  OBVIOUS
<1>1. SInv
  BY InitSInv DEF AgentInit
<1>2. AgentTypeOK
  BY <1>1, SetupIs, AgentAssumption DEF SInv, AgentInit, AgentTypeOK, Caller
<1>3. Handlers = {}
  BY DEF AgentInit, StreamInit, Handlers, IsOpen
<1> QED
  BY <1>1, <1>2, <1>3 DEF AgentInit, AInv, Life, Locks

LEMMA SetupStepKeepsAInv == AInv /\ SetupStep => AInv'
<1> SUFFICES ASSUME AInv, SetupStep PROVE AInv'
  OBVIOUS
<1>1. PICK i \in 1..4 :
          /\ phase = Setup[i]
          /\ phase' = IF i = 4 THEN "running" ELSE Setup[i + 1]
          /\ logOpen' = (phase # "setupMux")
          /\ serving' = IF i = 4 THEN serving \cup {Self} ELSE serving
  BY SetupIs DEF SetupStep
<1>2. /\ listening' = TRUE
      /\ UNCHANGED <<vars, stream, answered, sent, shutdown, shutdownLock, teardown, caller>>
  BY DEF SetupStep
<1>3. /\ phase \in Range(Setup)
      /\ i # 4 => phase' \in Range(Setup)
  BY <1>1, SetupIs DEF Range
<1>4. serving' \subseteq Node
  BY <1>1, AgentAssumption DEF AInv, SInv, StreamTypeOK
<1>5. SInv'
  BY <1>2, <1>4 DEF vars, AInv, SInv, StreamTypeOK, CallTypeOK, Views, StreamsInOrder,
                    Requests, InLog, LogInOrder
<1>6. AgentTypeOK'
  <2>1. logOpen' \in BOOLEAN /\ phase' \in Range(Setup) \cup {"running", "exited"}
    BY <1>1, <1>3
  <2> QED
    BY <1>2, <1>5, <2>1 DEF AInv, SInv, AgentTypeOK
<1>7. Handlers' = Handlers
  BY <1>2 DEF Handlers, IsOpen
<1>8. Life'
  <2>1. phase' = "running" => logOpen' /\ i = 4
    <3> SUFFICES ASSUME phase' = "running" PROVE logOpen' /\ i = 4
      OBVIOUS
    <3>1. i = 4
      BY <1>1, SetupIs
    <3>2. phase # "setupMux"
      BY <1>1, <3>1 DEF Setup
    <3> QED
      BY <1>1, <3>1, <3>2, Zenon
  <2>2. phase' # "exited" /\ teardown' = "membership.Leave" /\ shutdown' = FALSE
    BY <1>1, <1>2, <1>3, SetupIs DEF AInv, Life, AgentTypeOK
  <2>3. phase' \in Range(Setup) => serving' = serving
    BY <1>1, SetupIs
  <2> QED
    BY <1>2, <1>3, <1>7, <2>1, <2>2, <2>3 DEF AInv, Life
<1>9. Locks'
  BY <1>2, <1>3 DEF AInv, Life, Locks
<1> QED
  BY <1>5, <1>6, <1>8, <1>9 DEF AInv

LEMMA ProcessEndsKeepsAInv ==
    ASSUME AInv, ProcessEnds
    PROVE  AInv'
<1>1. SInv'
  BY ProcessEndsKeepsSInv DEF AInv
<1>2. /\ phase' = "exited" /\ listening' = FALSE /\ logOpen' = FALSE
      /\ UNCHANGED <<serving, shutdown, shutdownLock, teardown, caller>>
  BY DEF ProcessEnds
<1>3. Handlers' = {}
  BY DEF ProcessEnds, Handlers, IsOpen, AInv, SInv, StreamTypeOK
<1>4. AgentTypeOK'
  BY <1>1, <1>2 DEF AInv, SInv, AgentTypeOK
<1>5. Life' /\ Locks'
  BY <1>2, <1>3, SetupIs DEF AInv, Life, Locks
<1> QED
  BY <1>1, <1>4, <1>5 DEF AInv

(* A step that leaves the streams and the log below them alone. *)
LEMMA SameStreams ==
    ASSUME SInv, UNCHANGED allVars
    PROVE  SInv' /\ Handlers' = Handlers
BY DEF allVars, streamVars, vars, SInv, StreamTypeOK, CallTypeOK, Views, StreamsInOrder,
       Requests, InLog, LogInOrder, Handlers, IsOpen

LEMMA CallShutdownKeepsAInv ==
    ASSUME AInv, NEW c \in Caller, CallShutdown(c)
    PROVE  AInv'
<1>1. SInv' /\ Handlers' = Handlers
  BY SameStreams DEF AInv, CallShutdown
<1>2. /\ phase = "running" /\ caller[c] = "idle"
      /\ caller' = [caller EXCEPT ![c] = "waiting"]
      /\ UNCHANGED <<serving, phase, listening, logOpen, shutdown, shutdownLock, teardown>>
  BY DEF CallShutdown, allVars, streamVars
<1>3. /\ caller' \in [Caller -> {"idle", "waiting", "inside"} \cup Returned]
      /\ caller'[c] = "waiting"
      /\ \A d \in Caller : d # c => caller'[d] = caller[d]
  BY <1>2 DEF AInv, AgentTypeOK
<1>4. AgentTypeOK'
  BY <1>1, <1>2, <1>3 DEF AInv, SInv, AgentTypeOK
<1>5. Life'
  BY <1>1, <1>2, SetupIs DEF AInv, Life
<1>6. Locks'
  BY <1>2, <1>3 DEF AInv, Locks, Returned
<1> QED
  BY <1>1, <1>4, <1>5, <1>6 DEF AInv

LEMMA LockKeepsAInv ==
    ASSUME AInv, NEW c \in Caller, Lock(c)
    PROVE  AInv'
<1>1. SInv' /\ Handlers' = Handlers
  BY SameStreams DEF AInv, Lock
<1>2. /\ phase = "running" /\ caller[c] = "waiting" /\ shutdownLock = None
      /\ UNCHANGED <<serving, phase, listening, logOpen, teardown>>
      /\ c # None
  BY AgentAssumption DEF Lock, allVars, streamVars
<1>3. CASE shutdown
  <2>1. shutdownLock' = None /\ caller' = [caller EXCEPT ![c] = "nil"] /\ shutdown'
    BY <1>3 DEF Lock, Return
  <2>2. /\ caller' \in [Caller -> {"idle", "waiting", "inside"} \cup Returned]
        /\ caller'[c] = "nil"
        /\ \A d \in Caller : d # c => caller'[d] = caller[d]
    BY <2>1 DEF AInv, AgentTypeOK, Returned
  <2>3. AgentTypeOK'
    BY <1>1, <1>2, <2>1, <2>2 DEF AInv, SInv, AgentTypeOK
  <2>4. Life'
    BY <1>1, <1>2, SetupIs DEF AInv, Life
  <2>5. Locks'
    BY <1>2, <1>3, <2>1, <2>2 DEF AInv, Locks
  <2> QED
    BY <1>1, <2>3, <2>4, <2>5 DEF AInv
<1>4. CASE ~shutdown
  <2>1. shutdownLock' = c /\ caller' = [caller EXCEPT ![c] = "inside"] /\ shutdown' = TRUE
    BY <1>4 DEF Lock
  <2>2. /\ caller' \in [Caller -> {"idle", "waiting", "inside"} \cup Returned]
        /\ caller'[c] = "inside"
        /\ \A d \in Caller : d # c => caller'[d] = caller[d]
    BY <2>1 DEF AInv, AgentTypeOK
  <2>3. \A d \in Caller : caller[d] \in {"idle", "waiting"}
    BY <1>4 DEF AInv, Locks
  <2>4. AgentTypeOK'
    BY <1>1, <1>2, <2>1, <2>2, <2>3 DEF AInv, SInv, AgentTypeOK
  <2>5. Life'
    BY <1>1, <1>2, SetupIs DEF AInv, Life
  <2>6. Locks'
    BY <1>2, <2>1, <2>2, <2>3 DEF AInv, Locks, Returned
  <2> QED
    BY <1>1, <2>4, <2>5, <2>6 DEF AInv
<1> QED
  BY <1>3, <1>4

(* The one inside holds the lock, and the log is open until it closes it. *)
LEMMA InsideIs ==
    ASSUME AInv, NEW c \in Caller, NEW f, Inside(c, f)
    PROVE  /\ phase = "running" /\ caller[c] = "inside" /\ teardown = f
           /\ shutdown /\ shutdownLock = c /\ c # None
           /\ phase \notin Range(Setup)
           /\ \A d \in Caller : caller[d] \notin Returned /\ (caller[d] = "inside" => d = c)
BY SetupIs, AgentAssumption DEF Inside, AInv, AgentTypeOK, Locks

(* A teardown function that leaves the streams alone succeeds. *)
LEMMA TeardownKeepsAInv ==
    ASSUME AInv, NEW c \in Caller, NEW f, Inside(c, f), f \notin {"log.Close", "done"},
           UNCHANGED <<vars, stream, answered, sent, phase, logOpen, shutdown,
                       shutdownLock, caller>>,
           listening' \in BOOLEAN, serving' \subseteq serving,
           teardown' \in {"server.GracefulStop", "drain", "log.Close"},
           teardown' = "log.Close" => Handlers = {},
           teardown' \in {"drain", "log.Close"} => Self \notin serving'
    PROVE  AInv'
<1>1. SInv'
  BY DEF vars, AInv, SInv, StreamTypeOK, CallTypeOK, Views, StreamsInOrder, Requests,
         InLog, LogInOrder
<1>2. Handlers' = Handlers
  BY DEF Handlers, IsOpen
<1>3. AgentTypeOK'
  BY <1>1 DEF AInv, SInv, AgentTypeOK
<1>4. Life'
  BY <1>2, InsideIs DEF AInv, Life
<1>5. Locks'
  BY DEF AInv, Locks
<1> QED
  BY <1>1, <1>3, <1>4, <1>5 DEF AInv

LEMMA LeaveKeepsAInv ==
    ASSUME AInv, NEW c \in Caller, Leave(c)
    PROVE  AInv'
BY TeardownKeepsAInv DEF Leave, allVars, streamVars, AInv, AgentTypeOK

LEMMA GracefulStopKeepsAInv ==
    ASSUME AInv, NEW c \in Caller, GracefulStop(c)
    PROVE  AInv'
BY TeardownKeepsAInv DEF GracefulStop

LEMMA GracefulStopReturnsKeepsAInv ==
    ASSUME AInv, NEW c \in Caller, GracefulStopReturns(c)
    PROVE  AInv'
BY TeardownKeepsAInv, InsideIs
   DEF GracefulStopReturns, allVars, streamVars, AInv, AgentTypeOK, Life

(* Shutdown returns to the caller inside. *)
LEMMA ReturnIs ==
    ASSUME AInv, NEW c \in Caller, NEW f, Inside(c, f), NEW r \in Returned, Return(c, r)
    PROVE  /\ caller' \in [Caller -> {"idle", "waiting", "inside"} \cup Returned]
           /\ caller'[c] = r /\ shutdownLock' = None
           /\ \A d \in Caller : d # c => caller'[d] = caller[d]
           /\ \A d \in Caller : caller'[d] # "inside"
BY InsideIs DEF Return, AInv, AgentTypeOK, Returned

LEMMA LeaveFailsKeepsAInv ==
    ASSUME AInv, NEW c \in Caller, LeaveFails(c)
    PROVE  AInv'
<1>1. SInv' /\ Handlers' = Handlers
  BY SameStreams DEF AInv, LeaveFails
<1>2. /\ Inside(c, "membership.Leave") /\ Return(c, "error") /\ "error" \in Returned
      /\ UNCHANGED <<serving, phase, listening, logOpen, shutdown, teardown>>
  BY DEF LeaveFails, allVars, streamVars, Returned
<1>3. AgentTypeOK'
  <2>1. StreamTypeOK'
    BY <1>1 DEF SInv
  <2>2. /\ caller' \in [Caller -> {"idle", "waiting", "inside"} \cup Returned]
        /\ shutdownLock' = None /\ \A d \in Caller : caller'[d] # "inside"
    BY <1>2, ReturnIs
  <2>3. \A d \in Caller : caller'[d] = "inside" <=> shutdownLock' = d
    BY <2>2, AgentAssumption
  <2> QED
    BY <1>2, <2>1, <2>2, <2>3 DEF AInv, AgentTypeOK
<1>4. Life'
  BY <1>1, <1>2, InsideIs DEF AInv, Life
<1>5. Locks'
  BY <1>2, ReturnIs, InsideIs DEF Locks
<1> QED
  BY <1>1, <1>3, <1>4, <1>5 DEF AInv

(* With no handlers, no call waits in the node's Raft. *)
LEMMA NoneWaits ==
    ASSUME SInv, Handlers = {}
    PROVE  {d \in Call : call[d] = Waiting(Self)} = {}
<1> SUFFICES ASSUME NEW d \in Call, call[d] = Waiting(Self) PROVE FALSE
  OBVIOUS
<1>1. d = <<d[1], d[2]>> /\ d[1] \in Producer /\ d[2] \in 1..MaxRequests
  BY CallIs
<1>2. call[d].is = "waiting"
  BY StatesAre, AgentAssumption
<1>3. Waiting(Self) = Waiting(at[d[1]]) /\ stream[d[1]] = "open"
  BY <1>1, <1>2 DEF SInv, Requests
<1>4. at[d[1]] = Self
  BY <1>3 DEF Waiting
<1> QED
  BY <1>1, <1>3, <1>4 DEF Handlers, IsOpen

(* log.Close fails no call: the handlers have returned. *)
LEMMA CloseLogCutsNone ==
    ASSUME AInv, NEW c \in Caller, Inside(c, "log.Close"),
           UNCHANGED vars \/ Fail({d \in Call : call[d] = Waiting(Self)})
    PROVE  UNCHANGED vars
<1>1. Handlers = {}
  BY DEF Inside, AInv, Life
<1>2. CASE Fail({d \in Call : call[d] = Waiting(Self)})
  <2>1. /\ call' = [d \in Call |-> IF d \in {e \in Call : call[e] = Waiting(Self)}
                                   THEN Failed ELSE call[d]]
        /\ UNCHANGED <<log, view>>
    BY <1>2 DEF Fail
  <2> QED
    BY <1>1, <2>1, NoneWaits DEF AInv, SInv, CallTypeOK, vars
<1> QED
  BY <1>2

LEMMA CloseLogKeepsAInv ==
    ASSUME AInv, NEW c \in Caller, CloseLog(c) \/ CloseLogFails(c)
    PROVE  AInv'
<1>1. UNCHANGED allVars
  BY CloseLogCutsNone DEF CloseLog, CloseLogFails, allVars
<1>2. SInv' /\ Handlers' = Handlers
  BY <1>1, SameStreams DEF AInv
<1>3. PICK result \in Returned :
      /\ Inside(c, "log.Close") /\ Return(c, result)
      /\ logOpen' \in {FALSE, logOpen} /\ teardown' \in {"log.Close", "done"}
      /\ result = "error" \/ logOpen' = FALSE
      /\ UNCHANGED <<serving, phase, listening, shutdown>>
  <2>1. CASE CloseLog(c)
    <3>1. /\ Inside(c, "log.Close") /\ Return(c, "nil")
          /\ logOpen' = FALSE /\ teardown' = "done"
          /\ UNCHANGED <<serving, phase, listening, shutdown>>
      BY <2>1 DEF CloseLog, streamVars
    <3> QED
      BY <3>1 DEF Returned
  <2>2. CASE CloseLogFails(c)
    <3>1. /\ Inside(c, "log.Close") /\ Return(c, "error")
          /\ logOpen' \in {FALSE, logOpen} /\ teardown' = "log.Close"
          /\ UNCHANGED <<serving, phase, listening, shutdown>>
      BY <2>2 DEF CloseLogFails, streamVars, Inside
    <3> QED
      BY <3>1 DEF Returned
  <2> QED
    BY <2>1, <2>2
<1>4. AgentTypeOK'
  <2>1. StreamTypeOK'
    BY <1>2 DEF SInv
  <2>2. /\ caller' \in [Caller -> {"idle", "waiting", "inside"} \cup Returned]
        /\ shutdownLock' = None /\ \A d \in Caller : caller'[d] # "inside"
    BY <1>3, ReturnIs
  <2>3. \A d \in Caller : caller'[d] = "inside" <=> shutdownLock' = d
    BY <2>2, AgentAssumption
  <2> QED
    BY <1>3, <2>1, <2>2, <2>3 DEF AInv, AgentTypeOK
<1>5. Life'
  BY <1>2, <1>3, InsideIs DEF AInv, Life
<1>6. Locks'
  BY <1>3, ReturnIs, InsideIs DEF Locks
<1> QED
  BY <1>2, <1>4, <1>5, <1>6 DEF AInv

LEMMA ListenerFailsKeepsAInv == AInv /\ ListenerFails => AInv'
<1> SUFFICES ASSUME AInv, ListenerFails PROVE AInv'
  OBVIOUS
<1>1. SInv' /\ Handlers' = Handlers
  BY SameStreams DEF AInv, ListenerFails
<1>2. /\ listening' = FALSE
      /\ UNCHANGED <<serving, phase, logOpen, shutdown, shutdownLock, teardown, caller>>
  BY DEF ListenerFails, allVars, streamVars
<1> QED
  BY <1>1, <1>2 DEF AInv, SInv, AgentTypeOK, Life, Locks

(* A handler's step starts a handler only where the server takes streams.  *)
LEMMA StreamStepKeepsAInv ==
    ASSUME AInv, NEW s \in Producer \cup Consumer, StreamStep(s)
    PROVE  AInv'
<1>1. SInv' /\ serving' = serving /\ UNCHANGED agentVars
  BY HandleKeepsSInv DEF StreamStep, AInv, Handle, Begin, Receive, Refuse, Abort, Respond,
                         EndProduce, Send, EndConsume, streamVars
<1>2. Handlers' \subseteq Handlers \/ (phase = "running" /\ Self \in serving)
  <2>1. CASE Begin(s)
    <3>1. \A t \in Producer \cup Consumer : t # s => stream'[t] = stream[t]
      BY <2>1 DEF Begin, AInv, SInv, StreamTypeOK
    <3> QED
      BY <2>1, <3>1 DEF StreamStep, Begin, Handlers, IsOpen
  <2>2. CASE stream' = stream \/ Ended(s)
    <3>1. \A t \in Producer \cup Consumer : stream'[t] = "open" => stream[t] = "open"
      BY <2>2 DEF Ended, AInv, SInv, StreamTypeOK
    <3> QED
      BY <3>1 DEF Handlers, IsOpen
  <2> QED
    BY <2>1, <2>2 DEF StreamStep, Handle, Receive, Refuse, Abort, Respond, EndProduce, Send,
                      EndConsume, streamVars
<1>3. AgentTypeOK'
  BY <1>1 DEF agentVars, AInv, SInv, AgentTypeOK
<1>4. Life'
  BY <1>1, <1>2, SetupIs DEF agentVars, AInv, Life
<1>5. Locks'
  BY <1>1 DEF agentVars, AInv, Locks
<1> QED
  BY <1>1, <1>3, <1>4, <1>5 DEF AInv

LEMMA LogStepKeepsAInv == AInv /\ LogStep => AInv'
<1> SUFFICES ASSUME AInv, LogStep PROVE AInv'
  OBVIOUS
<1>1. SInv' /\ UNCHANGED streamVars /\ UNCHANGED agentVars
  BY CommitKeepsSInv, ProceedKeepsSInv DEF LogStep, Commit, Proceed, AInv
<1>2. Handlers' = Handlers
  BY <1>1 DEF streamVars, Handlers, IsOpen
<1> QED
  BY <1>1, <1>2 DEF streamVars, agentVars, AInv, SInv, AgentTypeOK, Life, Locks

LEMMA AInvInductive == AInv /\ [AgentNext]_everything => AInv'
<1> SUFFICES ASSUME AInv, [AgentNext]_everything PROVE AInv'
  OBVIOUS
<1>1. CASE SetupStep \/ SetupFails \/ Exit \/ Killed \/ ListenerFails
  BY <1>1, SetupStepKeepsAInv, ProcessEndsKeepsAInv, ListenerFailsKeepsAInv DEF SetupFails, Exit, Killed
<1>2. ASSUME NEW c \in Caller, CallShutdown(c) \/ ShutdownStep(c)
      PROVE  AInv'
  BY <1>2, CallShutdownKeepsAInv, LockKeepsAInv, LeaveKeepsAInv, GracefulStopKeepsAInv,
     GracefulStopReturnsKeepsAInv, CloseLogKeepsAInv, LeaveFailsKeepsAInv DEF ShutdownStep
<1>3. CASE UNCHANGED everything
  <2>1. SInv' /\ Handlers' = Handlers
    BY <1>3, SameStreams DEF everything, AInv
  <2> QED
    BY <1>3, <2>1 DEF everything, allVars, streamVars, agentVars, AInv, SInv, AgentTypeOK,
                      Life, Locks
<1> QED
  BY <1>1, <1>2, <1>3, StreamStepKeepsAInv, LogStepKeepsAInv
     DEF AgentNext, Signal, MuxServeFails, GrpcServeFails, Caller

LEMMA AInvHolds == AgentSpec => []AInv
BY InitAInv, AInvInductive, PTL DEF AgentSpec

-----------------------------------------------------------------------------

(* Every variable of the node and of its streams has its type, and the     *)
(* caller inside Shutdown is the one that holds the lock.                  *)
THEOREM AgentTypes == AgentSpec => []AgentTypeOK
BY AInvHolds, PTL DEF AInv

(* Consume streams send the log, in order and without a gap.               *)
THEOREM StreamsAlwaysInOrder == AgentSpec => []StreamsInOrder
BY AInvHolds, PTL DEF AInv, SInv

(* Produce streams fill the log in the order of their requests.            *)
THEOREM ProduceAlwaysInOrder == AgentSpec => []ProduceInOrder
<1>1. ASSUME AInv, NEW p \in Producer, NEW k \in 1..answered[p]
      PROVE  <<p, k>> \in Range(log)
  <2>1. answered[p] \in 0..MaxRequests
    BY <1>1 DEF AInv, SInv, StreamTypeOK
  <2>2. k \in 1..MaxRequests /\ k <= answered[p]
    BY <2>1, CallIs
  <2>3. <<p, k>> \in Call /\ call[<<p, k>>].is = "done"
    BY <1>1, <2>2, CallIs DEF AInv, SInv, Requests
  <2>4. PICK i \in 1..Len(log) : log[i] = <<p, k>>
    BY <1>1, <2>3 DEF AInv, SInv, InLog
  <2>5. DOMAIN log = 1..Len(log)
    BY <1>1 DEF AInv, SInv, StreamTypeOK
  <2> QED
    BY <2>4, <2>5 DEF Range
<1>2. ASSUME AInv, NEW i \in DOMAIN log, NEW j \in DOMAIN log, i < j, log[i][1] = log[j][1]
      PROVE  log[i][2] < log[j][2]
  <2>1. DOMAIN log = 1..Len(log)
    BY <1>2 DEF AInv, SInv, StreamTypeOK
  <2> QED
    BY <1>2, <2>1 DEF AInv, SInv, LogInOrder
<1>3. AInv => ProduceInOrder
  BY <1>1, <1>2 DEF ProduceInOrder
<1> QED
  BY <1>3, AInvHolds, PTL

(* No handler finds its log closed, whoever shuts the node down.           *)
THEOREM HandlersAlwaysHaveLog == AgentSpec => []HandlersHaveLog
<1>1. AInv => HandlersHaveLog
  BY SetupIs DEF AInv, AgentTypeOK, Life, HandlersHaveLog
<1> QED
  BY <1>1, AInvHolds, PTL

(* Shutdown returns nil only of a node that is down, or after an error.    *)
THEOREM NilAlwaysMeansDown == AgentSpec => []NilMeansDown
<1>1. AInv => NilMeansDown
  BY DEF AInv, Locks, NilMeansDown, Returned
<1> QED
  BY <1>1, AInvHolds, PTL

(* An orderly shutdown fails no call.                                      *)
THEOREM ShutdownNeverCutsCalls == AgentSpec => ShutdownCutsNoCall
<1>1. AInv /\ [AgentNext]_everything =>
        [logOpen /\ ~logOpen' /\ phase' = "running" => call' = call]_everything
  <2> SUFFICES ASSUME AInv, AgentNext, logOpen, ~logOpen', phase' = "running"
               PROVE  call' = call
    OBVIOUS
  <2>1. ~SetupStep
    <3> SUFFICES ASSUME SetupStep PROVE FALSE
      OBVIOUS
    <3>1. PICK i \in 1..4 : /\ phase = Setup[i]
                            /\ phase' = IF i = 4 THEN "running" ELSE Setup[i + 1]
                            /\ logOpen' = (phase # "setupMux")
      BY SetupIs DEF SetupStep
    <3>2. i = 4
      BY <3>1, SetupIs
    <3>3. phase # "setupMux"
      BY <3>1, <3>2 DEF Setup
    <3> QED
      BY <3>1, <3>3, Zenon
  <2>2. PICK c \in Caller : CloseLog(c) \/ CloseLogFails(c)
    BY <2>1 DEF AgentNext, SetupFails, Exit, Killed, ProcessEnds, ListenerFails, CallShutdown,
                Signal, MuxServeFails, GrpcServeFails, Lock, Leave, GracefulStop,
                GracefulStopReturns, ShutdownStep, LeaveFails, StreamStep, LogStep, agentVars
  <2>3. UNCHANGED vars
    BY <2>2, CloseLogCutsNone DEF CloseLog, CloseLogFails
  <2> QED
    BY <2>3 DEF vars
<1> QED
  BY <1>1, AInvHolds, PTL DEF AgentSpec, ShutdownCutsNoCall

(* The agent and its handlers use the log only as SharedLog allows, which  *)
(* Replication implements: their composition asks nothing else of it.      *)
THEOREM AgentKeepsToSharedLog == AgentSpec => Spec
<1>1. AgentInit => Init
  BY DEF AgentInit, StreamInit
<1>2. AInv /\ [AgentNext]_everything => [Next]_vars
  <2> SUFFICES ASSUME AInv, AgentNext, vars' # vars PROVE Next
    BY DEF everything, allVars
  <2>1. ASSUME NEW calls, Fail(calls) PROVE Next
    <3>1. PICK few : few = calls \cap Call
      OBVIOUS
    <3>2. few \in SUBSET Call /\ Fail(few)
      BY <2>1, <3>1 DEF Fail
    <3> QED
      BY <3>2 DEF Next
  <2>2. ASSUME NEW s \in Producer \cup Consumer, StreamStep(s) PROVE Next
    <3>1. CASE s \in Producer /\ (Receive(s) \/ Refuse(s))
      <4>1. Request(s) \in Call /\ at[s] \in Node
        BY <3>1, StreamsAssumption DEF Request, Receive, Refuse, AInv, SInv, StreamTypeOK
      <4> QED
        BY <3>1, <4>1 DEF Receive, Refuse, Next
    <3>2. CASE s \in Producer /\ Abort(s)
      BY <2>1, <3>2 DEF Abort
    <3>3. CASE ~(s \in Producer /\ (Receive(s) \/ Refuse(s) \/ Abort(s)))
      BY <2>2, <3>3 DEF StreamStep, Handle, Begin, Respond, EndProduce, Send, EndConsume
    <3> QED
      BY <3>1, <3>2, <3>3
  <2>3. CASE LogStep
    BY <2>3 DEF LogStep, Commit, Proceed, Next
  <2>4. CASE SetupFails \/ Exit \/ Killed
    BY <2>1, <2>4 DEF SetupFails, Exit, Killed, ProcessEnds
  <2>5. CASE \E c \in Caller : CloseLog(c) \/ CloseLogFails(c)
    BY <2>1, <2>5 DEF CloseLog, CloseLogFails
  <2> QED
    BY <2>2, <2>3, <2>4, <2>5
       DEF AgentNext, SetupStep, ListenerFails, CallShutdown, Signal, MuxServeFails,
           GrpcServeFails, Lock, Leave, GracefulStop, GracefulStopReturns, ShutdownStep,
           LeaveFails, allVars
<1> QED
  BY <1>1, <1>2, AInvHolds, PTL DEF AgentSpec, Spec

(* A record that a client produces, through any stream of any node, after  *)
(* another was acknowledged gets a greater offset.                         *)
LogProofs == INSTANCE SharedLogProofs

THEOREM StreamsAlwaysInRealTimeOrder == AgentSpec => RealTimeOrder
<1>1. LogProofs!Spec => LogProofs!RealTimeOrder
  BY LogProofs!RealTimeAlwaysOrdered
<1>2. LogProofs!Spec <=> Spec
  BY DEF LogProofs!Spec, Spec, LogProofs!Init, Init, LogProofs!Next, Next,
         LogProofs!vars, vars, LogProofs!Take, Take, LogProofs!Reject, Reject,
         LogProofs!Enter, Enter, LogProofs!See, See, LogProofs!Fail, Fail,
         LogProofs!New, New, LogProofs!Waiting, Waiting, LogProofs!Done, Done,
         LogProofs!Rejected, Rejected, LogProofs!Failed, Failed,
         LogProofs!Range, Range
<1>3. LogProofs!RealTimeOrder <=> RealTimeOrder
  BY DEF RealTimeOrder, LogProofs!RealTimeOrder, Following, LogProofs!Following,
         New, LogProofs!New
<1> QED
  BY <1>1, <1>2, <1>3, AgentKeepsToSharedLog, PTL
=============================================================================

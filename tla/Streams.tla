------------------------------ MODULE Streams ------------------------------
(***************************************************************************)
(* The streaming handlers of internal/server/server.go over the log that   *)
(* SharedLog describes.  A ProduceStream handler receives a request,       *)
(* appends, answers, and only then receives the next one; a ConsumeStream  *)
(* handler reads record after record from its own node's part of the log   *)
(* and tries again where that part ends.  (Produce and Consume by          *)
(* themselves are streams of one request.)                                 *)
(*                                                                         *)
(* A call is named by the stream it comes from and its place in it.  The   *)
(* Authorizer's refusal is one of the ways a call is turned away, or a     *)
(* consume stream ends.  The user's log is never truncated, so an offset   *)
(* out of range is one past the end.                                       *)
(***************************************************************************)
EXTENDS SharedLog

CONSTANTS
    Producer, Consumer,     \* streams that clients open
    MaxRequests,            \* bound: requests of a produce stream
    at,                     \* the node each stream is opened on
    from                    \* the offset each consume stream asks for

ASSUME StreamsAssumption ==
    /\ MaxRequests \in Nat
    /\ Call = Producer \X (1..MaxRequests)
    /\ Producer \cap Consumer = {}
    /\ at \in [Producer \cup Consumer -> Node]
    /\ from \in [Consumer -> Nat]

VARIABLES
    serving,        \* the nodes whose gRPC server takes new streams
    stream,         \* the state of each stream's handler
    answered,       \* how many requests of a produce stream were answered
    sent            \* the records a consume stream has sent

streamVars == <<serving, stream, answered, sent>>
allVars    == <<vars, streamVars>>

StreamInit ==
    /\ Init
    /\ serving \subseteq Node
    /\ stream = [s \in Producer \cup Consumer |-> "new"]
    /\ answered = [p \in Producer |-> 0]
    /\ sent = [s \in Consumer |-> << >>]

IsOpen(s) == stream[s] = "open"
Ended(s) == stream' = [stream EXCEPT ![s] = "ended"]

(* A client opens a stream, and the server starts a handler for it. *)
Begin(s) ==
    /\ stream[s] = "new"
    /\ at[s] \in serving
    /\ stream' = [stream EXCEPT ![s] = "open"]
    /\ UNCHANGED <<vars, serving, answered, sent>>

-----------------------------------------------------------------------------
(* ProduceStream and Produce *)

(* The request the handler of p works on, or receives next. *)
Request(p) == <<p, answered[p] + 1>>

InRequest(p) == answered[p] < MaxRequests /\ call[Request(p)] # New

(* stream.Recv returns a request and Append hands it to the log, *)
Receive(p) ==
    /\ IsOpen(p)
    /\ answered[p] < MaxRequests
    /\ Take(Request(p), at[p])
    /\ UNCHANGED streamVars

(* or Authorize or Append turns it away: the handler returns. *)
Refuse(p) ==
    /\ IsOpen(p)
    /\ answered[p] < MaxRequests
    /\ Reject(Request(p))
    /\ Ended(p)
    /\ UNCHANGED <<serving, answered, sent>>

(* Mutant: the handler goes on to the next request after an error. *)
AbortContinue(p) ==
    /\ IsOpen(p) /\ InRequest(p)
    /\ Fail({Request(p)})
    /\ answered' = [answered EXCEPT ![p] = @ + 1]
    /\ UNCHANGED <<serving, stream, sent>>

(* Append returns an error after it took the request. *)
Abort(p) ==
    /\ IsOpen(p) /\ InRequest(p)
    /\ Fail({Request(p)})
    /\ Ended(p)
    /\ UNCHANGED <<serving, answered, sent>>

(* Append returned the offset, and stream.Send passes it to the client. *)
Respond(p) ==
    /\ IsOpen(p) /\ InRequest(p)
    /\ call[Request(p)].is = "done"
    /\ answered' = [answered EXCEPT ![p] = @ + 1]
    /\ UNCHANGED <<vars, serving, stream, sent>>

(* Mutant: the handler returns while Append waits. *)
EndProduceInside(p) ==
    /\ IsOpen(p)
    /\ Ended(p)
    /\ UNCHANGED <<vars, serving, answered, sent>>

(* The client closes or cancels, or the connection breaks: Recv, or Send,  *)
(* returns an error.  A handler that is inside Append does not notice.     *)
EndProduce(p) ==
    /\ IsOpen(p)
    /\ InRequest(p) => call[Request(p)].is = "done"
    /\ Ended(p)
    /\ UNCHANGED <<vars, serving, answered, sent>>

-----------------------------------------------------------------------------
(* ConsumeStream and Consume *)

(* Mutant: the offset grows before the read. *)
NextOffsetEarly(s) == from[s] + Len(sent[s]) + 1

(* req.Offset, which grows by one with each record sent. *)
NextOffset(s) == from[s] + Len(sent[s])

(* Mutant: the last record is held back. *)
SendLate(s) ==
    /\ IsOpen(s)
    /\ NextOffset(s) + 1 < Len(view[at[s]])
    /\ sent' = [sent EXCEPT ![s] = Append(@, view[at[s]][NextOffset(s) + 1])]
    /\ UNCHANGED <<vars, serving, stream, answered>>

(* Consume finds a record and Send succeeds. *)
Send(s) ==
    /\ IsOpen(s)
    /\ NextOffset(s) < Len(view[at[s]])
    /\ sent' = [sent EXCEPT ![s] = Append(@, view[at[s]][NextOffset(s) + 1])]
    /\ UNCHANGED <<vars, serving, stream, answered>>

(* The client cancels or breaks off, or Consume or Send returns an error. *)
EndConsume(s) ==
    /\ IsOpen(s)
    /\ Ended(s)
    /\ UNCHANGED <<vars, serving, answered, sent>>

-----------------------------------------------------------------------------

(* What the handlers of the streams do, and their clients. *)
Handle(s) ==
    \/ Begin(s)
    \/ s \in Producer /\ (Receive(s) \/ Refuse(s) \/ Abort(s) \/ Respond(s) \/ EndProduce(s))
    \/ s \in Consumer /\ (Send(s) \/ EndConsume(s))

(* What the log does meanwhile. *)
Proceed(n) == See(n) /\ UNCHANGED streamVars
Commit(c)  == Enter(c) /\ UNCHANGED streamVars

-----------------------------------------------------------------------------
(* Properties *)

(* Every variable has its type. *)
StreamTypeOK ==
    /\ log \in Seq(Call)
    /\ view \in [Node -> Seq(Call)]
    /\ serving \subseteq Node
    /\ stream \in [Producer \cup Consumer -> {"new", "open", "ended"}]
    /\ answered \in [Producer -> 0..MaxRequests]
    /\ sent \in [Consumer -> Seq(Call)]

(* A consume stream sends each record of the log from its offset on once   *)
(* and in order, whatever is appended meanwhile and however far behind its *)
(* node is: two consumers never disagree, on whatever nodes they read.     *)
StreamsInOrder ==
    \A s \in Consumer : \A i \in DOMAIN sent[s] :
        from[s] + i <= Len(log) /\ sent[s][i] = log[from[s] + i]

(* The records of a produce stream are in the log in the order of its      *)
(* requests and at most once each, also one that failed and came in late,  *)
(* and those that were answered are there.                                 *)
ProduceInOrder ==
    /\ \A i, j \in DOMAIN log :
          (i < j /\ log[i][1] = log[j][1]) => log[i][2] < log[j][2]
    /\ \A p \in Producer : \A k \in 1..answered[p] : <<p, k>> \in Range(log)

(* An answered record reaches every consume stream that is open below it,  *)
(* and stays open, on every node: the stream sends "every record that      *)
(* follows (even those not in the log)" yet.                               *)
AnswersAreStreamed ==
    \A p \in Producer, s \in Consumer : \A k \in 1..MaxRequests :
        (call[<<p, k>>].is = "done" /\ IsOpen(s) /\ call[<<p, k>>].offset >= from[s])
            ~> (~IsOpen(s) \/ <<p, k>> \in Range(sent[s]))
=============================================================================

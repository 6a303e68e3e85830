-------------------------- MODULE SharedLogProofs --------------------------
(***************************************************************************)
(* What SharedLog keeps for every set of nodes and calls, and with it      *)
(* whatever implements SharedLog.                                          *)
(***************************************************************************)
EXTENDS SharedLog, TLAPS

CallState ==
    {New, Rejected, Failed} \cup {Waiting(n) : n \in Node}
        \cup [is : {"done"}, at : Node, offset : Nat]

LogTypeOK ==
    /\ log \in Seq(Call)
    /\ view \in [Node -> Seq(Call)]
    /\ call \in [Call -> CallState]

(* Only calls that were taken get in, and an answer is a call's place.     *)
CallsMatch ==
    /\ \A i \in 1..Len(log) : call[log[i]].is \notin {"new", "rejected"}
    /\ \A c \in Call : call[c].is = "done" =>
          /\ call[c].offset + 1 \in 1..Len(log)
          /\ log[call[c].offset + 1] = c

LInv == LogTypeOK /\ CallsMatch

LEMMA CallStates ==
    /\ New \in CallState /\ Rejected \in CallState /\ Failed \in CallState
    /\ New.is = "new" /\ Rejected.is = "rejected" /\ Failed.is = "failed"
    /\ \A n \in Node : Waiting(n) \in CallState /\ Waiting(n).is = "waiting"
    /\ \A n \in Node : \A off \in Nat :
          /\ Done(n, off) \in CallState /\ Done(n, off).is = "done"
          /\ Done(n, off).offset = off
    /\ \A s \in CallState : s.is = "done" => s.offset \in Nat
<1>1. \A n \in Node : Waiting(n) \in CallState /\ Waiting(n).is = "waiting"
  BY DEF CallState, Waiting
<1>2. \A n \in Node : \A off \in Nat :
        Done(n, off) \in CallState /\ Done(n, off).is = "done" /\ Done(n, off).offset = off
  BY DEF CallState, Done
<1>3. \A s \in CallState : s.is = "done" => s.offset \in Nat
  BY DEF CallState, New, Rejected, Failed, Waiting
<1> QED
  BY <1>1, <1>2, <1>3 DEF CallState, New, Rejected, Failed

-----------------------------------------------------------------------------

LEMMA InitLInv == Init => LInv
BY CallStates DEF Init, LInv, LogTypeOK, CallsMatch

LEMMA TakeKeepsLInv ==
    ASSUME LInv, NEW c \in Call, NEW n \in Node, Take(c, n)
    PROVE  LInv'
<1>1. /\ call' \in [Call -> CallState] /\ log' = log /\ view' = view
      /\ \A d \in Call \ {c} : call'[d] = call[d]
      /\ call'[c].is = "waiting"
  BY CallStates DEF Take, LInv, LogTypeOK
<1>2. \A i \in 1..Len(log) : log[i] \in Call
  BY DEF LInv, LogTypeOK
<1>3. CallsMatch'
  BY <1>1, <1>2 DEF LInv, CallsMatch
<1> QED
  BY <1>1, <1>2 DEF LInv, LogTypeOK, CallsMatch

LEMMA RejectKeepsLInv ==
    ASSUME LInv, NEW c \in Call, Reject(c)
    PROVE  LInv'
<1>1. /\ call' \in [Call -> CallState] /\ log' = log /\ view' = view
      /\ \A d \in Call \ {c} : call'[d] = call[d]
      /\ call'[c].is = "rejected" /\ call[c].is = "new"
  BY CallStates DEF Reject, LInv, LogTypeOK
<1>2. \A i \in 1..Len(log) : log[i] \in Call /\ log[i] # c
  BY <1>1 DEF LInv, LogTypeOK, CallsMatch
<1> QED
  BY <1>1, <1>2 DEF LInv, LogTypeOK, CallsMatch

LEMMA EnterKeepsLInv ==
    ASSUME LInv, NEW c \in Call, Enter(c)
    PROVE  LInv'
<1>1. /\ call' = call /\ view' = view /\ log' \in Seq(Call)
      /\ Len(log) \in Nat /\ Len(log') = Len(log) + 1
      /\ \A i \in 1..Len(log) : log'[i] = log[i]
      /\ log'[Len(log) + 1] = c
      /\ call[c].is \notin {"new", "rejected"}
  BY DEF Enter, LInv, LogTypeOK
<1> QED
  BY <1>1 DEF LInv, LogTypeOK, CallsMatch

LEMMA SeeKeepsLInv ==
    ASSUME LInv, NEW n \in Node, See(n)
    PROVE  LInv'
<1> DEFINE off == Len(view[n])
           c == log[off + 1]
<1>1. /\ off \in Nat /\ off + 1 \in 1..Len(log) /\ Len(log) \in Nat /\ c \in Call
  BY DEF See, LInv, LogTypeOK
<1>2. /\ view' = [view EXCEPT ![n] = Append(view[n], c)]
      /\ log' = log
      /\ call' = IF call[c] = Waiting(n) THEN [call EXCEPT ![c] = Done(n, off)] ELSE call
  BY DEF See
<1>3. view' \in [Node -> Seq(Call)]
  BY <1>1, <1>2 DEF LInv, LogTypeOK
<1> HIDE DEF off
<1>4. /\ call' \in [Call -> CallState]
      /\ \A d \in Call : call'[d] # call[d] =>
            d = c /\ call'[d].is = "done" /\ call'[d].offset = off
  BY <1>1, <1>2, CallStates DEF LInv, LogTypeOK
<1> QED
  BY <1>1, <1>2, <1>3, <1>4 DEF LInv, LogTypeOK, CallsMatch

LEMMA FailKeepsLInv ==
    ASSUME LInv, NEW calls \in SUBSET Call, Fail(calls)
    PROVE  LInv'
<1>1. /\ log' = log /\ view' = view /\ call' \in [Call -> CallState]
      /\ \A c \in Call : call'[c] = call[c] \/ (call[c].is = "waiting" /\ call'[c].is = "failed")
  BY CallStates DEF Fail, LInv, LogTypeOK
<1>2. \A i \in 1..Len(log) : log[i] \in Call
  BY DEF LInv, LogTypeOK
<1> QED
  BY <1>1, <1>2 DEF LInv, LogTypeOK, CallsMatch

LEMMA LInvInductive == LInv /\ [Next]_vars => LInv'
<1> SUFFICES ASSUME LInv, [Next]_vars PROVE LInv'
  OBVIOUS
<1>1. CASE UNCHANGED vars
  BY <1>1 DEF vars, LInv, LogTypeOK, CallsMatch
<1> QED
  BY <1>1, TakeKeepsLInv, RejectKeepsLInv, EnterKeepsLInv, SeeKeepsLInv, FailKeepsLInv
     DEF Next

LEMMA LInvHolds == Spec => []LInv
BY InitLInv, LInvInductive, PTL DEF Spec

-----------------------------------------------------------------------------
(* The order of answers *)

(* After c was acknowledged while d had not begun: c keeps its answer, and *)
(* up to its place the log does not have d.                                *)
Behind(c, d) ==
    /\ call[c].is = "done"
    /\ \A i \in 1..(call[c].offset + 1) : log[i] # d

(* A call keeps its answer, and the log only grows at its end. *)
LEMMA StepKeeps ==
    ASSUME LInv, [Next]_vars
    PROVE  /\ \A c \in Call : call[c].is = "done" => call'[c] = call[c]
           /\ \A i \in 1..Len(log) : log'[i] = log[i]
<1>1. ASSUME NEW c \in Call, Enter(c)
      PROVE  call' = call /\ \A i \in 1..Len(log) : log'[i] = log[i]
  BY <1>1 DEF Enter, LInv, LogTypeOK
<1>2. ASSUME NEW n \in Node, See(n)
      PROVE  log' = log /\ \A c \in Call : call[c].is = "done" => call'[c] = call[c]
  <2> DEFINE c == log[Len(view[n]) + 1]
  <2>1. \/ call' = call
        \/ call[c] = Waiting(n) /\ \A d \in Call \ {c} : call'[d] = call[d]
    BY <1>2 DEF See, LInv, LogTypeOK
  <2>2. Waiting(n).is # "done"
    BY DEF Waiting
  <2> QED
    BY <1>2, <2>1, <2>2 DEF See
<1>3. ASSUME NEW c \in Call, NEW n \in Node, Take(c, n)
      PROVE  log' = log /\ \A d \in Call : call[d].is = "done" => call'[d] = call[d]
  BY <1>3 DEF Take, New
<1>4. ASSUME NEW c \in Call, Reject(c)
      PROVE  log' = log /\ \A d \in Call : call[d].is = "done" => call'[d] = call[d]
  BY <1>4 DEF Reject, New
<1>5. ASSUME NEW calls \in SUBSET Call, Fail(calls)
      PROVE  log' = log /\ \A c \in Call : call[c].is = "done" => call'[c] = call[c]
  BY <1>5 DEF Fail
<1> QED
  BY <1>1, <1>2, <1>3, <1>4, <1>5 DEF Next, vars

(* Acknowledged offsets respect the order in which calls were made and     *)
(* answered.                                                               *)
THEOREM RealTimeAlwaysOrdered == Spec => RealTimeOrder
<1>1. ASSUME NEW c \in Call, NEW d \in Call
      PROVE  Spec => [](call[c].is = "done" /\ call[d] = New =>
                          [](call[d].is = "done" => d \in Following(c)))
  <2>1. LInv /\ call[c].is = "done" /\ call[d] = New => Behind(c, d)
    <3> SUFFICES ASSUME LInv, call[c].is = "done", call[d] = New PROVE Behind(c, d)
      OBVIOUS
    <3>1. call[c].offset + 1 \in 1..Len(log) /\ call[c].offset \in Nat /\ Len(log) \in Nat
      BY CallStates DEF LInv, LogTypeOK, CallsMatch
    <3>2. \A i \in 1..Len(log) : log[i] # d
      BY DEF LInv, CallsMatch, New
    <3> QED
      BY <3>1, <3>2 DEF Behind
  <2>2. LInv /\ Behind(c, d) /\ [Next]_vars => Behind(c, d)'
    <3> SUFFICES ASSUME LInv, Behind(c, d), [Next]_vars PROVE Behind(c, d)'
      OBVIOUS
    <3>1. /\ call'[c] = call[c] /\ call[c].offset \in Nat
          /\ call[c].offset + 1 \in 1..Len(log) /\ Len(log) \in Nat
      BY StepKeeps, CallStates DEF Behind, LInv, LogTypeOK, CallsMatch
    <3> QED
      BY <3>1, StepKeeps DEF Behind
  <2>3. LInv /\ Behind(c, d) => (call[d].is = "done" => d \in Following(c))
    <3> SUFFICES ASSUME LInv, Behind(c, d), call[d].is = "done"
                 PROVE  d \in Following(c)
      OBVIOUS
    <3>1. /\ call[c].offset \in Nat /\ call[d].offset \in Nat
          /\ log[call[d].offset + 1] = d
      BY CallStates DEF Behind, LInv, LogTypeOK, CallsMatch
    <3> QED
      BY <3>1 DEF Behind, Following
  <2> QED
    BY <2>1, <2>2, <2>3, LInvHolds, PTL DEF Spec
<1> QED
  BY <1>1 DEF RealTimeOrder
=============================================================================

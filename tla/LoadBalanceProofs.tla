------------------------- MODULE LoadBalanceProofs -------------------------
(***************************************************************************)
(* Safety of LoadBalance for any client connections, servers and bounds:   *)
(* through elections, resolutions and connections that come and go, no     *)
(* call is sent to a server of the wrong role, and none waits while a      *)
(* connection of its client is ready.                                      *)
(***************************************************************************)
EXTENDS LoadBalance, FiniteSetTheorems, TLAPS

Exists(h) == subConn[h.client][h.server].is # "absent"

PickerTypeOK ==
    /\ leaderConn \in SubConn \cup {None, Dead}
    /\ followers \in Seq(SubConn \cup {Dead}) /\ FollowersOnce
    /\ current \in 0..MaxCalls
    /\ turns \in [DOMAIN followers -> Nat]

(* Nothing is resolved, and no SubConn made, before the first Dial.        *)
Asked ==
    \/ clientConn \in Client
    \/ /\ asked = {} /\ resolving = Idle
       /\ \A c \in Client, s \in Server : ~Exists(Conn(c, s))

(* What the Picker has of SubConns that exist has kept its role.           *)
Roles ==
    /\ leaderConn \in SubConn => Exists(leaderConn) /\ Flagged(leaderConn)
    /\ \A i \in DOMAIN followers :
          followers[i] \in SubConn => Exists(followers[i]) /\ ~Flagged(followers[i])

(* While any SubConn of the only client connection is ready, the Picker    *)
(* has what the last Build found.                                          *)
InStep ==
    \A c \in Client : Client = {c} =>
        LET ready == ReadySCs(c, subConn[c])
        IN  ready # {} =>
              /\ \A i \in DOMAIN followers : followers[i] \in ready
              /\ followers = << >> => \E h \in ready : Flagged(h)
              /\ (\E h \in ready : Flagged(h)) => leaderConn \in ready

IInv == TypeOK /\ Asked /\ Roles /\ InStep

-----------------------------------------------------------------------------

LEMMA SubConns ==
    /\ \A h \in SubConn : h.client \in Client /\ h.server \in Server
    /\ \A c \in Client, s \in Server : Conn(c, s) \in SubConn
    /\ None \notin SubConn /\ Dead \notin SubConn
    /\ None \notin Client
BY LoadBalanceAssumption DEF SubConn, Conn

LEMMA States ==
    /\ Absent \in SubConnState /\ Absent.is = "absent"
    /\ \A st \in SubConnState : st.is # "absent" =>
          /\ st.is \in {"connecting", "ready", "failed"} /\ st.isLeader \in BOOLEAN
    /\ \A b \in BOOLEAN : [is |-> "connecting", isLeader |-> b] \in SubConnState
BY DEF Absent, SubConnState

LEMMA StateSet ==
    ASSUME NEW st \in SubConnState, st.is # "absent",
           NEW w \in {"connecting", "ready", "failed"}
    PROVE  /\ [st EXCEPT !.is = w] \in SubConnState
           /\ [st EXCEPT !.is = w].is = w
           /\ [st EXCEPT !.is = w].isLeader = st.isLeader
<1>1. st \in [is : {"connecting", "ready", "failed"}, isLeader : BOOLEAN]
  BY DEF SubConnState, Absent
<1>2. [st EXCEPT !.is = w] \in [is : {"connecting", "ready", "failed"}, isLeader : BOOLEAN]
  BY <1>1
<1> QED
  BY <1>1, <1>2 DEF SubConnState

LEMMA SeqsAreFunctions ==
    ASSUME NEW S, NEW n \in Nat, NEW f \in [1..n -> S]
    PROVE  f \in Seq(S) /\ Len(f) = n /\ (f = << >> <=> n = 0)
<1>1. f \in Seq(S)
  OBVIOUS
<1> QED
  BY <1>1

(* The ready SubConns of a client connection are finitely many.            *)
LEMMA ReadyFinite ==
    ASSUME NEW c \in Client, NEW conns
    PROVE  IsFiniteSet(ReadySCs(c, conns))
<1> DEFINE f == [s \in Server |-> Conn(c, s)]
           All == {Conn(c, s) : s \in Server}
<1>1. f \in Surjection(Server, All)
  BY DEF Surjection
<1>2. IsFiniteSet(All)
  BY <1>1, FS_Surjection, LoadBalanceAssumption
<1>3. ReadySCs(c, conns) \subseteq All
  BY DEF ReadySCs, SubConn, Conn
<1> QED
  BY <1>2, <1>3, FS_Subset

(* An order of a finite set is a sequence of its members, and empty only   *)
(* if the set is.                                                          *)
LEMMA OrdersAre ==
    ASSUME NEW S, IsFiniteSet(S), NEW f \in Orders(S)
    PROVE  /\ f \in Seq(S) /\ (f = << >> => S = {})
           /\ \A i, j \in DOMAIN f : f[i] = f[j] => i = j
<1>1. Cardinality(S) \in Nat
  BY FS_CardinalityType
<1>2. f \in [1..Cardinality(S) -> S]
  BY DEF Orders
<1>3. \A i, j \in DOMAIN f : f[i] = f[j] => i = j
  BY DEF Orders, IsInjective
<1> QED
  BY <1>1, <1>2, <1>3, SeqsAreFunctions, FS_EmptySet

-----------------------------------------------------------------------------

LEMMA InitIInv == Init => IInv
<1> SUFFICES ASSUME Init PROVE IInv
  OBVIOUS
<1>1. subConn = [c \in Client |-> [s \in Server |-> Absent]]
  BY DEF Init
<1>2. subConn \in [Client -> [Server -> SubConnState]]
  BY <1>1, States
<1>3. /\ followers = << >> /\ turns = << >>
      /\ followers \in Seq(SubConn \cup {Dead}) /\ turns \in [DOMAIN followers -> Nat]
  BY DEF Init
<1>4. TypeOK
  BY <1>2, <1>3, LoadBalanceAssumption DEF Init, TypeOK, FollowersOnce, ResolvingState
<1>5. \A c \in Client : ReadySCs(c, subConn[c]) = {}
  BY <1>1, States DEF ReadySCs, SubConn
<1> QED
  <2>1. Asked
    BY <1>1, States DEF Init, Asked, Exists, Conn
  <2> QED
    BY <1>4, <1>5, <2>1, SubConns DEF Init, IInv, Roles, InStep

(* What the Picker kept of a SubConn that was not shut down is as it was.  *)
LEMMA KeptIs ==
    ASSUME NEW h \in SubConn \cup {None, Dead}, NEW c \in Client, NEW gone \in SUBSET Server
    PROVE  /\ Kept(h, c, gone) \in {h, Dead}
           /\ Kept(h, c, gone) \in SubConn =>
                /\ Kept(h, c, gone) = h /\ h \in SubConn
                /\ h.client = c => h.server \notin gone
BY SubConns DEF Kept

(* A step that changes the SubConns of one client connection, keeps the    *)
(* flag of those it does not shut down, and tells the Picker.              *)
Changes(c, conns, gone) ==
    /\ conns \in [Server -> SubConnState]
    /\ \A s \in Server \ gone : subConn[c][s].is # "absent" =>
          conns[s].is # "absent" /\ conns[s].isLeader = subConn[c][s].isLeader
    /\ subConn' = [subConn EXCEPT ![c] = conns]

LEMMA ChangedTo ==
    ASSUME TypeOK, NEW c \in Client, NEW gone, NEW conns, Changes(c, conns, gone)
    PROVE  \A s \in Server : subConn'[c][s] = conns[s]
BY DEF TypeOK, Changes

LEMMA ChangesAre ==
    ASSUME TypeOK, NEW c \in Client, NEW gone \in SUBSET Server, NEW conns, Changes(c, conns, gone)
    PROVE  /\ subConn' \in [Client -> [Server -> SubConnState]]
           /\ \A h \in SubConn :
                 (h.client = c => h.server \notin gone) /\ Exists(h)
                    => Exists(h)' /\ (Flagged(h)' <=> Flagged(h))
<1>1. /\ subConn \in [Client -> [Server -> SubConnState]]
      /\ conns \in [Server -> SubConnState]
      /\ subConn' = [subConn EXCEPT ![c] = conns]
  BY DEF TypeOK, Changes
<1>2. \A d \in Client : subConn'[d] = IF d = c THEN conns ELSE subConn[d]
  BY <1>1
<1>3. ASSUME NEW h \in SubConn, h.client = c => h.server \notin gone, Exists(h)
      PROVE  Exists(h)' /\ (Flagged(h)' <=> Flagged(h))
  <2>1. h.client \in Client /\ h.server \in Server
    BY SubConns
  <2>2. CASE h.client = c
    BY <1>2, <1>3, <2>1, <2>2 DEF Exists, Flagged, Changes
  <2>3. CASE h.client # c
    BY <1>2, <1>3, <2>1, <2>3 DEF Exists, Flagged
  <2> QED
    BY <2>2, <2>3
<1> QED
  BY <1>1, <1>2, <1>3

(* What Build leaves has the roles of the SubConns it was given.           *)
LEMMA BuildKeeps ==
    ASSUME TypeOK, Roles, NEW c \in Client, NEW gone \in SUBSET Server, NEW conns,
           Changes(c, conns, gone), Build(c, conns, gone)
    PROVE  PickerTypeOK' /\ Roles' /\ InStep'
<1> DEFINE ready == ReadySCs(c, conns)
           leaders == {h \in ready : conns[h.server].isLeader}
<1>1. /\ leaderConn' \in IF leaders = {} THEN {Kept(leaderConn, c, gone)} ELSE leaders
      /\ followers' \in Orders(ready \ leaders)
      /\ turns' = [i \in DOMAIN followers' |-> 0]
      /\ current' = current
  BY DEF Build
<1>2. /\ leaderConn \in SubConn \cup {None, Dead} /\ current \in 0..MaxCalls
  BY DEF TypeOK
<1>3. \A h \in ready :
         /\ h \in SubConn /\ h.client = c /\ h.server \in Server
         /\ subConn'[c][h.server] = conns[h.server]
         /\ Exists(h)' /\ (Flagged(h)' <=> h \in leaders)
  <2> SUFFICES ASSUME NEW h \in ready
               PROVE  /\ h \in SubConn /\ h.client = c /\ h.server \in Server
                      /\ subConn'[c][h.server] = conns[h.server]
                      /\ Exists(h)' /\ (Flagged(h)' <=> h \in leaders)
    OBVIOUS
  <2>1. h \in SubConn /\ h.client = c /\ conns[h.server].is = "ready"
    BY DEF ReadySCs
  <2>2. h.server \in Server
    BY <2>1, SubConns
  <2>3. subConn'[c][h.server] = conns[h.server]
    BY <2>2, ChangedTo
  <2>4. Exists(h)' /\ (Flagged(h)' <=> conns[h.server].isLeader)
    BY <2>1, <2>3 DEF Exists, Flagged
  <2> QED
    BY <2>1, <2>2, <2>3, <2>4
<1>4. /\ followers' \in Seq(ready \ leaders) /\ (followers' = << >> => ready \ leaders = {})
      /\ \A i, j \in DOMAIN followers' : followers'[i] = followers'[j] => i = j
  <2>1. IsFiniteSet(ready \ leaders)
    BY ReadyFinite, FS_Subset
  <2> QED
    BY <1>1, <2>1, OrdersAre
<1>5. \A i \in DOMAIN followers' : followers'[i] \in ready \ leaders
  BY <1>4
<1>6. leaders # {} => leaderConn' \in leaders
  BY <1>1
<1>7. leaders = {} => leaderConn' = Kept(leaderConn, c, gone)
  BY <1>1
<1>8. PickerTypeOK'
  <2>1. leaderConn' \in SubConn \cup {None, Dead}
    BY <1>2, <1>3, <1>6, <1>7, KeptIs
  <2>2. followers' \in Seq(SubConn \cup {Dead})
    BY <1>3, <1>4
  <2>3. FollowersOnce'
    BY <1>4 DEF FollowersOnce
  <2> QED
    BY <1>1, <1>2, <2>1, <2>2, <2>3 DEF PickerTypeOK
<1>9. Roles'
  <2>1. leaderConn' \in SubConn => Exists(leaderConn)' /\ Flagged(leaderConn)'
    <3>1. CASE leaders # {}
      BY <1>3, <1>6, <3>1 DEF Exists, Flagged
    <3>2. CASE leaders = {} /\ leaderConn' \in SubConn
      <4>1. /\ leaderConn' = leaderConn /\ leaderConn \in SubConn
            /\ leaderConn.client = c => leaderConn.server \notin gone
        BY <1>2, <1>7, <3>2, KeptIs
      <4>2. Exists(leaderConn) /\ Flagged(leaderConn)
        BY <4>1 DEF Roles
      <4> QED
        BY <4>1, <4>2, ChangesAre DEF Exists, Flagged
    <3> QED
      BY <3>1, <3>2
  <2>2. \A i \in DOMAIN followers' : Exists(followers[i])' /\ ~Flagged(followers[i])'
    BY <1>3, <1>5 DEF Exists, Flagged
  <2> QED
    BY <2>1, <2>2 DEF Roles
<1>10. InStep'
  <2> SUFFICES ASSUME NEW d \in Client, Client = {d}, ReadySCs(d, subConn[d])' # {}
               PROVE  /\ \A i \in DOMAIN followers' : followers'[i] \in ReadySCs(d, subConn[d])'
                      /\ followers' = << >> => \E h \in ReadySCs(d, subConn[d])' : Flagged(h)'
                      /\ (\E h \in ReadySCs(d, subConn[d])' : Flagged(h)')
                            => leaderConn' \in ReadySCs(d, subConn[d])'
    BY DEF InStep
  <2>1. ReadySCs(d, subConn[d])' = ready
    <3>1. d = c /\ ReadySCs(d, subConn[d])' = {h \in SubConn : h.client = d /\ subConn'[d][h.server].is = "ready"}
      BY DEF ReadySCs
    <3>2. \A s \in Server : subConn'[c][s] = conns[s]
      BY ChangedTo
    <3>3. \A h \in SubConn : h.server \in Server
      BY SubConns
    <3> QED
      BY <3>1, <3>2, <3>3 DEF ReadySCs
  <2> QED
    BY <1>3, <1>4, <1>5, <1>6, <2>1
<1> QED
  BY <1>8, <1>9, <1>10

LEMMA ForgetKeeps ==
    ASSUME TypeOK, Roles, NEW c \in Client, NEW gone \in SUBSET Server, NEW conns,
           Changes(c, conns, gone), Forget(c, gone), ReadySCs(c, conns) = {}
    PROVE  PickerTypeOK' /\ Roles' /\ InStep'
<1>1. /\ leaderConn' = Kept(leaderConn, c, gone)
      /\ followers' = [i \in DOMAIN followers |-> Kept(followers[i], c, gone)]
      /\ current' = current /\ turns' = turns
  BY DEF Forget
<1>2. /\ leaderConn \in SubConn \cup {None, Dead} /\ current \in 0..MaxCalls
      /\ followers \in Seq(SubConn \cup {Dead}) /\ turns \in [DOMAIN followers -> Nat]
  BY DEF TypeOK
<1>3. Len(followers) \in Nat /\ DOMAIN followers = 1..Len(followers)
      /\ \A i \in DOMAIN followers : followers[i] \in SubConn \cup {Dead}
  BY <1>2
<1>4. \A i \in DOMAIN followers :
         Kept(followers[i], c, gone) \in SubConn \cup {Dead}
  BY <1>3, KeptIs
<1>5. PickerTypeOK'
  <2>1. followers' \in [1..Len(followers) -> SubConn \cup {Dead}]
    BY <1>1, <1>3, <1>4
  <2>2. followers' \in Seq(SubConn \cup {Dead}) /\ DOMAIN followers' = DOMAIN followers
    BY <1>1, <1>3, <2>1, SeqsAreFunctions
  <2>3. leaderConn' \in SubConn \cup {None, Dead}
    <3>1. Kept(leaderConn, c, gone) \in {leaderConn, Dead}
      BY <1>2, KeptIs
    <3> QED
      BY <1>1, <1>2, <3>1
  <2>4. FollowersOnce'
    <3> SUFFICES ASSUME NEW i \in DOMAIN followers', NEW j \in DOMAIN followers',
                        followers'[i] = followers'[j], followers'[i] # Dead
                 PROVE  i = j
      BY DEF FollowersOnce
    <3>1. /\ i \in DOMAIN followers /\ followers'[i] = Kept(followers[i], c, gone)
          /\ j \in DOMAIN followers /\ followers'[j] = Kept(followers[j], c, gone)
      BY <1>1
    <3>2. /\ Kept(followers[i], c, gone) \in {followers[i], Dead}
          /\ Kept(followers[j], c, gone) \in {followers[j], Dead}
      <4>1. followers[i] \in SubConn \cup {None, Dead} /\ followers[j] \in SubConn \cup {None, Dead}
        BY <1>3, <3>1
      <4> QED
        BY <4>1, KeptIs
    <3>3. followers'[i] = followers[i] /\ followers'[j] = followers[j]
      BY <3>1, <3>2
    <3> QED
      BY <3>1, <3>3 DEF TypeOK, FollowersOnce
  <2> QED
    BY <1>1, <1>2, <2>2, <2>3, <2>4 DEF PickerTypeOK
<1>6. Roles'
  <2>1. leaderConn' \in SubConn => Exists(leaderConn)' /\ Flagged(leaderConn)'
    <3> SUFFICES ASSUME leaderConn' \in SubConn PROVE Exists(leaderConn)' /\ Flagged(leaderConn)'
      OBVIOUS
    <3>1. /\ leaderConn' = leaderConn /\ leaderConn \in SubConn
          /\ leaderConn.client = c => leaderConn.server \notin gone
      BY <1>1, <1>2, KeptIs
    <3>2. Exists(leaderConn) /\ Flagged(leaderConn)
      BY <3>1 DEF Roles
    <3> QED
      BY <3>1, <3>2, ChangesAre DEF Exists, Flagged
  <2>2. ASSUME NEW i \in DOMAIN followers', followers'[i] \in SubConn
        PROVE  Exists(followers[i])' /\ ~Flagged(followers[i])'
    <3>1. i \in DOMAIN followers /\ followers'[i] = Kept(followers[i], c, gone)
      BY <1>1, <2>2
    <3>2. /\ followers'[i] = followers[i] /\ followers[i] \in SubConn
          /\ followers[i].client = c => followers[i].server \notin gone
      BY <1>3, <2>2, <3>1, KeptIs
    <3>3. Exists(followers[i]) /\ ~Flagged(followers[i])
      BY <3>1, <3>2 DEF Roles
    <3> DEFINE h == followers[i]
    <3>4. /\ subConn'[h.client][h.server].is # "absent"
          /\ Flagged(h)' <=> Flagged(h)
      BY <3>2, <3>3, ChangesAre DEF Exists
    <3> QED
      BY <3>2, <3>3, <3>4 DEF Exists, Flagged
  <2> QED
    BY <2>1, <2>2 DEF Roles
<1>7. InStep'
  <2> SUFFICES ASSUME NEW d \in Client, Client = {d}
               PROVE  ReadySCs(d, subConn[d])' = {}
    BY DEF InStep
  <2>1. d = c
    OBVIOUS
  <2>2. \A h \in SubConn : h.server \in Server /\ subConn'[c][h.server] = conns[h.server]
    BY SubConns, ChangedTo
  <2> QED
    BY <2>1, <2>2 DEF ReadySCs
<1> QED
  BY <1>5, <1>6, <1>7

LEMMA RegenerateKeeps ==
    ASSUME TypeOK, Roles, NEW c \in Client, NEW gone \in SUBSET Server, NEW conns,
           Changes(c, conns, gone), Regenerate(c, conns, gone)
    PROVE  PickerTypeOK' /\ Roles' /\ InStep'
<1>1. CASE AllFailed(conns)
  <2>1. \A s \in Server : conns[s].is \in {"absent", "failed"}
    BY <1>1 DEF AllFailed, Changes
  <2>2. ReadySCs(c, conns) = {}
    BY <2>1, SubConns DEF ReadySCs
  <2> QED
    BY <1>1, <2>2, ForgetKeeps DEF Regenerate
<1>2. CASE ~AllFailed(conns)
  BY <1>2, BuildKeeps DEF Regenerate
<1> QED
  BY <1>1, <1>2

(* A step that leaves the SubConns and the connections in the Picker.      *)
LEMMA SamePicker ==
    ASSUME TypeOK, Roles, InStep, UNCHANGED <<subConn, leaderConn, followers>>,
           current' \in 0..MaxCalls, turns' \in [DOMAIN followers -> Nat]
    PROVE  PickerTypeOK' /\ Roles' /\ InStep'
<1>1. PickerTypeOK'
  BY DEF TypeOK, PickerTypeOK, FollowersOnce
<1>2. Roles'
  BY DEF Roles, Exists, Flagged
<1>3. InStep'
  BY DEF InStep, ReadySCs, Flagged
<1> QED
  BY <1>1, <1>2, <1>3

-----------------------------------------------------------------------------

(* What is left of TypeOK. *)
RestTypeOK ==
    /\ leader \in Server \cup {None}
    /\ status \in [Client -> {"new", "open", "closed"}]
    /\ asked \subseteq Client
    /\ clientConn \in Client \cup {None}
    /\ resolverOpen \subseteq Client
    /\ resolving \in ResolvingState
    /\ elections \in 0..MaxElections /\ faults \in 0..MaxFaults

LEMMA TypeParts ==
    TypeOK <=> /\ RestTypeOK /\ PickerTypeOK
               /\ subConn \in [Client -> [Server -> SubConnState]]
BY DEF TypeOK, RestTypeOK, PickerTypeOK

LEMMA TypePartsNext ==
    TypeOK' <=> /\ RestTypeOK' /\ PickerTypeOK'
                /\ subConn' \in [Client -> [Server -> SubConnState]]
BY DEF TypeOK, RestTypeOK, PickerTypeOK

LEMMA UnchangedPicker ==
    ASSUME TypeOK, Roles, InStep, UNCHANGED <<subConn, picker>>
    PROVE  /\ PickerTypeOK' /\ Roles' /\ InStep'
           /\ subConn' \in [Client -> [Server -> SubConnState]]
BY SamePicker DEF TypeOK, picker

(* Steps of the resolution and of Raft, which the Picker does not see.     *)
LEMMA ResolvingStates ==
    /\ Idle \in ResolvingState
    /\ \A c, d \in Client : [for |-> c, via |-> d, flags |-> << >>] \in ResolvingState \ {Idle}
    /\ \A r \in ResolvingState : r # Idle =>
          /\ r.for \in Client /\ r.via \in Client
          /\ DOMAIN r.flags \subseteq Server
          /\ \A t \in DOMAIN r.flags : r.flags[t] \in BOOLEAN
          /\ DOMAIN r.flags = Server => r.flags \in [Server -> BOOLEAN]
<1>1. Idle \in ResolvingState
  BY DEF ResolvingState
<1>2. ASSUME NEW c \in Client, NEW d \in Client
      PROVE  [for |-> c, via |-> d, flags |-> << >>] \in ResolvingState \ {Idle}
  <2>1. << >> \in UNION {[S -> BOOLEAN] : S \in SUBSET Server}
    <3>1. << >> \in [{} -> BOOLEAN]
      OBVIOUS
    <3> QED
      BY <3>1
  <2>2. [for |-> c, via |-> d, flags |-> << >>].for = c /\ Idle.for = None
    BY DEF Idle
  <2> QED
    BY <2>1, <2>2, SubConns DEF ResolvingState
<1>3. ASSUME NEW r \in ResolvingState, r # Idle
      PROVE  /\ r.for \in Client /\ r.via \in Client
             /\ DOMAIN r.flags \subseteq Server
             /\ \A t \in DOMAIN r.flags : r.flags[t] \in BOOLEAN
             /\ DOMAIN r.flags = Server => r.flags \in [Server -> BOOLEAN]
  <2>1. /\ r.for \in Client /\ r.via \in Client
        /\ r.flags \in UNION {[S -> BOOLEAN] : S \in SUBSET Server}
    BY <1>3 DEF ResolvingState
  <2>2. PICK S \in SUBSET Server : r.flags \in [S -> BOOLEAN]
    BY <2>1
  <2>3. DOMAIN r.flags = S /\ \A t \in S : r.flags[t] \in BOOLEAN
    BY <2>2
  <2> QED
    BY <2>1, <2>2, <2>3
<1> QED
  BY <1>1, <1>2, <1>3

LEMMA ReadLeaderResolves ==
    ASSUME TypeOK, NEW s \in Server, ReadLeader(s)
    PROVE  resolving' \in ResolvingState
<1>1. /\ resolving # Idle /\ resolving \in ResolvingState
      /\ resolving.for \in Client /\ resolving.via \in Client
      /\ DOMAIN resolving.flags \subseteq Server
      /\ \A t \in DOMAIN resolving.flags : resolving.flags[t] \in BOOLEAN
  BY ResolvingStates DEF ReadLeader, TypeOK
<1> DEFINE S == DOMAIN resolving.flags \cup {s}
           f == [t \in S |-> IF t = s THEN leader = s ELSE resolving.flags[t]]
<1>2. f \in [S -> BOOLEAN] /\ S \in SUBSET Server
  BY <1>1
<1>3. f \in UNION {[T -> BOOLEAN] : T \in SUBSET Server}
  BY <1>2
<1>4. resolving' = [resolving EXCEPT !.flags = f]
  BY DEF ReadLeader
<1>5. resolving \in [for : Client, via : Client,
                     flags : UNION {[T -> BOOLEAN] : T \in SUBSET Server}]
  BY <1>1 DEF ResolvingState
<1> QED
  BY <1>3, <1>4, <1>5 DEF ResolvingState

LEMMA DialKeeps ==
    ASSUME IInv, NEW c \in Client, Dial(c)
    PROVE  IInv'
<1>1. RestTypeOK'
  BY DEF Dial, IInv, TypeOK, RestTypeOK, counters
<1>2. Asked'
  BY DEF Dial, Asked
<1> QED
  BY <1>1, <1>2, UnchangedPicker, TypePartsNext DEF IInv, Dial

LEMMA ConsumeKeeps ==
    ASSUME IInv, NEW c \in Client, Consume(c)
    PROVE  IInv'
<1>1. RestTypeOK' /\ Asked'
  BY DEF Consume, IInv, TypeOK, RestTypeOK, resolver, counters, Asked, Exists
<1>2. current' \in 0..MaxCalls /\ turns' \in [DOMAIN followers -> Nat]
  <2>1. /\ current \in 0..MaxCalls /\ current < MaxCalls /\ current' = current + 1
        /\ turns \in [DOMAIN followers -> Nat]
        /\ turns' = [turns EXCEPT ![NextIndex] = @ + 1]
    BY DEF Consume, IInv, TypeOK
  <2>2. current' \in 0..MaxCalls
    BY <2>1, LoadBalanceAssumption
  <2>3. turns' \in [DOMAIN followers -> Nat]
    <3>1. PICK k : k = NextIndex
      OBVIOUS
    <3>2. turns' = [turns EXCEPT ![k] = turns[k] + 1]
      BY <2>1, <3>1
    <3>3. CASE k \in DOMAIN followers
      BY <2>1, <3>2, <3>3
    <3>4. CASE k \notin DOMAIN followers
      BY <2>1, <3>2, <3>4
    <3> QED
      BY <3>3, <3>4
  <2> QED
    BY <2>2, <2>3
<1>3. UNCHANGED <<subConn, leaderConn, followers>>
  BY DEF Consume
<1>4. PickerTypeOK' /\ Roles' /\ InStep'
  BY <1>2, <1>3, SamePicker DEF IInv
<1> QED
  BY <1>1, <1>3, <1>4, TypePartsNext DEF IInv, TypeOK

LEMMA ResolveNowKeeps ==
    ASSUME IInv, NEW c \in Client, ResolveNow(c)
    PROVE  IInv'
<1>1. clientConn \in Client /\ clientConn' = clientConn
  BY DEF ResolveNow, IInv, Asked
<1>2. RestTypeOK'
  BY <1>1, ResolvingStates DEF ResolveNow, IInv, TypeOK, RestTypeOK, counters
<1> QED
  BY <1>1, <1>2, UnchangedPicker, TypePartsNext DEF IInv, ResolveNow, Asked, Exists

LEMMA ReadLeaderKeeps ==
    ASSUME IInv, NEW s \in Server, ReadLeader(s)
    PROVE  IInv'
<1>1. RestTypeOK'
  BY ReadLeaderResolves DEF ReadLeader, IInv, TypeOK, RestTypeOK, counters
<1> QED
  BY <1>1, UnchangedPicker, TypePartsNext DEF IInv, ReadLeader, Asked, Exists

LEMMA ResolveFailsKeeps == IInv /\ ResolveFails => IInv'
<1> SUFFICES ASSUME IInv, ResolveFails PROVE IInv'
  OBVIOUS
<1>1. faults' \in 0..MaxFaults
  BY LoadBalanceAssumption DEF ResolveFails, IInv, TypeOK
<1>2. RestTypeOK'
  BY <1>1, ResolvingStates DEF ResolveFails, IInv, TypeOK, RestTypeOK
<1> QED
  BY <1>2, UnchangedPicker, TypePartsNext DEF IInv, ResolveFails, Asked, Exists

LEMMA LeaderKeeps == IInv /\ (LoseLeader \/ \E s \in Server : Elect(s)) => IInv'
<1> SUFFICES ASSUME IInv, LoseLeader \/ \E s \in Server : Elect(s) PROVE IInv'
  OBVIOUS
<1>1. /\ leader' \in Server \cup {None} /\ elections' \in 0..MaxElections /\ faults' = faults
      /\ UNCHANGED <<status, subConn, resolver, picker>>
  BY LoadBalanceAssumption DEF LoseLeader, Elect, IInv, TypeOK, counters
<1>2. RestTypeOK' /\ Asked'
  BY <1>1 DEF IInv, TypeOK, RestTypeOK, resolver, Asked, Exists
<1> QED
  BY <1>1, <1>2, UnchangedPicker, TypePartsNext DEF IInv

-----------------------------------------------------------------------------
(* Steps that change SubConns. *)

(* The new state of one SubConn that exists.                               *)
LEMMA SetChanges ==
    ASSUME TypeOK, NEW c \in Client, NEW s \in Server,
           NEW w \in {"connecting", "ready", "failed"}, NEW conns,
           subConn[c][s].is # "absent",
           conns = [subConn[c] EXCEPT ![s].is = w],
           subConn' = [subConn EXCEPT ![c] = conns]
    PROVE  /\ Changes(c, conns, {})
           /\ conns[s].is = w /\ conns[s].isLeader = subConn[c][s].isLeader
           /\ \A t \in Server : t # s => conns[t] = subConn[c][t]
<1>1. subConn[c] \in [Server -> SubConnState]
  BY DEF TypeOK
<1>2. subConn[c][s] \in SubConnState
  BY <1>1
<1>3. PICK st \in SubConnState : st = subConn[c][s] /\ st.is # "absent"
  BY <1>2
<1>4. /\ [st EXCEPT !.is = w] \in SubConnState
      /\ [st EXCEPT !.is = w].is = w
      /\ [st EXCEPT !.is = w].isLeader = st.isLeader
  BY <1>3, StateSet
<1>5. /\ conns \in [Server -> SubConnState]
      /\ conns[s] = [st EXCEPT !.is = w]
      /\ \A t \in Server : t # s => conns[t] = subConn[c][t]
  BY <1>1, <1>3, <1>4, Zenon
<1>6. conns[s].is = w /\ conns[s].isLeader = subConn[c][s].isLeader
  BY <1>3, <1>4, <1>5, Zenon
<1>7. \A t \in Server : subConn[c][t].is # "absent" =>
         conns[t].is # "absent" /\ conns[t].isLeader = subConn[c][t].isLeader
  BY <1>5, <1>6
<1> QED
  BY <1>5, <1>6, <1>7 DEF Changes

LEMMA ConnectedKeeps ==
    ASSUME IInv, NEW c \in Client, NEW s \in Server, Connected(c, s)
    PROVE  IInv'
<1>1. PICK conns : conns = [subConn[c] EXCEPT ![s].is = "ready"]
  OBVIOUS
<1>2. /\ subConn[c][s].is \in {"connecting", "failed"}
      /\ subConn' = [subConn EXCEPT ![c] = conns]
      /\ Regenerate(c, conns, {})
      /\ UNCHANGED <<leader, status, resolver, counters>>
  BY <1>1, Zenon DEF Connected
<1>3. TypeOK /\ Roles
  BY DEF IInv
<1>4. Changes(c, conns, {})
  <2>1. subConn[c][s].is # "absent" /\ "ready" \in {"connecting", "ready", "failed"}
    BY <1>2
  <2> QED
    BY <1>1, <1>2, <1>3, <2>1, SetChanges, Zenon
<1>5. PickerTypeOK' /\ Roles' /\ InStep' /\ subConn' \in [Client -> [Server -> SubConnState]]
  BY <1>2, <1>3, <1>4, RegenerateKeeps, ChangesAre
<1>6. RestTypeOK' /\ Asked'
  <2>1. clientConn \in Client
    BY <1>2 DEF IInv, Asked, Exists, Conn
  <2> QED
    BY <1>2, <2>1 DEF IInv, TypeOK, RestTypeOK, resolver, counters, Asked
<1> QED
  BY <1>5, <1>6, TypePartsNext DEF IInv

LEMMA DisconnectedKeeps ==
    ASSUME IInv, NEW c \in Client, NEW s \in Server, Disconnected(c, s)
    PROVE  IInv'
<1>1. PICK conns : conns = [subConn[c] EXCEPT ![s].is = "connecting"]
  OBVIOUS
<1>2. /\ subConn[c][s].is = "ready"
      /\ subConn' = [subConn EXCEPT ![c] = conns]
      /\ Regenerate(c, conns, {})
      /\ faults < MaxFaults /\ faults' = faults + 1
      /\ asked' = asked \cup {c}
      /\ UNCHANGED <<leader, status, clientConn, resolverOpen, resolving, elections>>
  BY <1>1, Zenon DEF Disconnected
<1>3. TypeOK /\ Roles
  BY DEF IInv
<1>4. Changes(c, conns, {})
  <2>1. subConn[c][s].is # "absent" /\ "connecting" \in {"connecting", "ready", "failed"}
    BY <1>2
  <2> QED
    BY <1>1, <1>2, <1>3, <2>1, SetChanges, Zenon
<1>5. PickerTypeOK' /\ Roles' /\ InStep' /\ subConn' \in [Client -> [Server -> SubConnState]]
  BY <1>2, <1>3, <1>4, RegenerateKeeps, ChangesAre
<1>6. RestTypeOK'
  BY <1>2, LoadBalanceAssumption DEF IInv, TypeOK, RestTypeOK
<1>7. Asked'
  <2>1. clientConn \in Client
    BY <1>2 DEF IInv, Asked, Exists, Conn
  <2> QED
    BY <1>2, <2>1 DEF Asked
<1> QED
  BY <1>5, <1>6, <1>7, TypePartsNext DEF IInv

(* No Build, but the SubConn was not ready before either. *)
LEMMA ConnectFailsKeeps ==
    ASSUME IInv, NEW c \in Client, NEW s \in Server, ConnectFails(c, s)
    PROVE  IInv'
<1>1. PICK conns : conns = [subConn[c] EXCEPT ![s].is = "failed"]
  OBVIOUS
<1>2. subConn \in [Client -> [Server -> SubConnState]]
  BY DEF IInv, TypeOK
<1>3. /\ subConn[c][s].is = "connecting"
      /\ faults < MaxFaults /\ faults' = faults + 1
      /\ asked' = asked \cup {c}
      /\ UNCHANGED <<leader, status, clientConn, resolverOpen, resolving, picker, elections>>
  BY DEF ConnectFails
<1>4. subConn' = [subConn EXCEPT ![c] = conns]
  BY <1>1, Zenon DEF ConnectFails
<1>5. /\ Changes(c, conns, {}) /\ conns[s].is = "failed"
      /\ \A t \in Server : t # s => conns[t] = subConn[c][t]
  <2>1. TypeOK /\ subConn[c][s].is # "absent" /\ "failed" \in {"connecting", "ready", "failed"}
    BY <1>3 DEF IInv
  <2>2. Changes(c, conns, {})
    BY <1>1, <1>4, <2>1, SetChanges
  <2>3. conns[s].is = "failed"
    <3>1. PICK st \in SubConnState : st = subConn[c][s] /\ st.is # "absent"
      BY <1>2, <2>1
    <3>2. conns[s] = [st EXCEPT !.is = "failed"]
      BY <1>1, <1>2, <3>1, Zenon
    <3>3. [st EXCEPT !.is = "failed"].is = "failed"
      BY <3>1, StateSet
    <3> QED
      BY <3>2, <3>3, Zenon
  <2>4. \A t \in Server : t # s => conns[t] = subConn[c][t]
    BY <1>1, <1>2
  <2> QED
    BY <2>2, <2>3, <2>4
<1>6. /\ subConn' \in [Client -> [Server -> SubConnState]]
      /\ \A h \in SubConn : Exists(h) => Exists(h)' /\ (Flagged(h)' <=> Flagged(h))
  <2>1. TypeOK /\ {} \in SUBSET Server /\ Changes(c, conns, {})
    BY <1>5 DEF IInv
  <2>2. \A h \in SubConn : h.client = c => h.server \notin {}
    OBVIOUS
  <2> QED
    BY <2>1, <2>2, ChangesAre
<1>7. PickerTypeOK' /\ Roles'
  <2>1. PickerTypeOK'
    BY <1>3 DEF picker, IInv, TypeOK, PickerTypeOK, FollowersOnce
  <2>2. Roles'
    BY <1>3, <1>6 DEF picker, IInv, Roles, Exists, Flagged
  <2> QED
    BY <2>1, <2>2
<1>8. InStep'
  <2> SUFFICES ASSUME NEW d \in Client, Client = {d}
               PROVE  LET ready == ReadySCs(d, subConn[d])'
                      IN  ready # {} =>
                            /\ \A i \in DOMAIN followers : followers[i] \in ready
                            /\ followers = << >> => \E h \in ready : Flagged(h)'
                            /\ (\E h \in ready : Flagged(h)') => leaderConn \in ready
    BY <1>3 DEF InStep, picker
  <2>1. d = c
    OBVIOUS
  <2>2. \A h \in SubConn :
           h.client = c => (subConn'[c][h.server].is = "ready" <=> subConn[c][h.server].is = "ready")
    BY <1>2, <1>3, <1>4, <1>5, SubConns
  <2>3. ReadySCs(d, subConn[d])' = ReadySCs(d, subConn[d])
    BY <2>1, <2>2 DEF ReadySCs
  <2>4. \A h \in ReadySCs(d, subConn[d]) : Flagged(h)' <=> Flagged(h)
    BY <1>6 DEF ReadySCs, Exists, Flagged
  <2> QED
    BY <2>3, <2>4 DEF IInv, InStep
<1>9. RestTypeOK'
  BY <1>3, LoadBalanceAssumption DEF IInv, TypeOK, RestTypeOK
<1>10. Asked'
  <2>1. clientConn \in Client
    BY <1>3 DEF IInv, Asked, Exists, Conn
  <2> QED
    BY <1>3, <2>1 DEF Asked
<1> QED
  BY <1>6, <1>7, <1>8, <1>9, <1>10, TypePartsNext DEF IInv

LEMMA UpdateStateKeeps == IInv /\ UpdateState => IInv'
<1> SUFFICES ASSUME IInv, UpdateState PROVE IInv'
  OBVIOUS
<1>1. /\ resolving # Idle /\ resolving' = Idle
      /\ resolving.flags \in [Server -> BOOLEAN]
      /\ UNCHANGED <<leader, status, asked, clientConn, resolverOpen, counters>>
  BY ResolvingStates DEF UpdateState, IInv, TypeOK
<1>2. clientConn \in Client
  BY <1>1 DEF IInv, Asked
<1>3. RestTypeOK' /\ Asked'
  BY <1>1, <1>2, ResolvingStates DEF IInv, TypeOK, RestTypeOK, counters, Asked
<1>4. CASE status[clientConn] = "open"
  <2>1. PICK c, conns, gone :
            /\ c = clientConn /\ c \in Client
            /\ conns = Updated(subConn[c], resolving.flags)
            /\ gone = Replaced(subConn[c], resolving.flags)
    BY <1>2
  <2>2. subConn' = [subConn EXCEPT ![c] = conns] /\ Regenerate(c, conns, gone)
    BY <1>4, <2>1 DEF UpdateState
  <2>3. subConn[c] \in [Server -> SubConnState]
    BY <2>1 DEF IInv, TypeOK
  <2>4. ASSUME NEW s \in Server
        PROVE  /\ conns[s] \in SubConnState
               /\ s \notin gone /\ subConn[c][s].is # "absent" => conns[s] = subConn[c][s]
    <3>1. conns[s] = IF subConn[c][s].is # "absent" /\ subConn[c][s].isLeader = resolving.flags[s]
                     THEN subConn[c][s]
                     ELSE [is |-> "connecting", isLeader |-> resolving.flags[s]]
      BY <2>1 DEF Updated
    <3>2. s \notin gone <=> ~(subConn[c][s].is # "absent" /\ subConn[c][s].isLeader # resolving.flags[s])
      BY <2>1 DEF Replaced
    <3>3. resolving.flags[s] \in BOOLEAN /\ subConn[c][s] \in SubConnState
      BY <1>1, <2>3
    <3>4. conns[s] \in SubConnState
      BY <3>1, <3>3, States
    <3> QED
      BY <3>1, <3>2, <3>4
  <2>5. conns \in [Server -> SubConnState]
    <3>1. conns = [s \in Server |-> conns[s]]
      BY <2>1 DEF Updated
    <3> QED
      BY <2>4, <3>1
  <2>6. Changes(c, conns, gone)
    BY <2>2, <2>4, <2>5 DEF Changes
  <2>7. gone \in SUBSET Server
    BY <2>1 DEF Replaced
  <2>8. PickerTypeOK' /\ Roles' /\ InStep' /\ subConn' \in [Client -> [Server -> SubConnState]]
    BY <2>1, <2>2, <2>6, <2>7, RegenerateKeeps, ChangesAre DEF IInv
  <2> QED
    BY <1>3, <2>8, TypePartsNext DEF IInv
<1>5. CASE status[clientConn] # "open"
  <2>1. UNCHANGED <<subConn, picker>>
    BY <1>5 DEF UpdateState
  <2> QED
    BY <1>3, <2>1, UnchangedPicker, TypePartsNext DEF IInv
<1> QED
  BY <1>4, <1>5

LEMMA CloseKeeps ==
    ASSUME IInv, NEW c \in Client, Close(c)
    PROVE  IInv'
<1>1. PICK conns : conns = [s \in Server |-> Absent]
  OBVIOUS
<1>2. /\ status' = [status EXCEPT ![c] = "closed"]
      /\ subConn' = [subConn EXCEPT ![c] = conns]
      /\ asked' = asked \ {c} /\ resolverOpen' \subseteq resolverOpen
      /\ Forget(c, Server)
      /\ UNCHANGED <<leader, clientConn, resolving, counters>>
  BY <1>1 DEF Close
<1>3. Changes(c, conns, Server) /\ ReadySCs(c, conns) = {}
  BY <1>1, <1>2, States, SubConns DEF Changes, ReadySCs
<1>4. PickerTypeOK' /\ Roles' /\ InStep' /\ subConn' \in [Client -> [Server -> SubConnState]]
  BY <1>2, <1>3, ForgetKeeps, ChangesAre DEF IInv
<1>5. RestTypeOK'
  BY <1>2 DEF IInv, TypeOK, RestTypeOK, counters
<1>6. Asked'
  <2>1. ASSUME clientConn \notin Client, NEW d \in Client, NEW s \in Server
        PROVE  ~Exists(Conn(d, s))'
    <3>1. subConn[d][s].is = "absent"
      BY <2>1 DEF IInv, Asked, Exists, Conn
    <3>2. subConn'[d][s] \in {subConn[d][s], Absent}
      BY <1>1, <1>2 DEF IInv, TypeOK
    <3> QED
      BY <3>1, <3>2, States DEF Exists, Conn
  <2> QED
    BY <1>2, <2>1 DEF IInv, Asked
<1> QED
  BY <1>4, <1>5, <1>6, TypePartsNext DEF IInv

LEMMA StutterKeeps == IInv /\ UNCHANGED vars => IInv'
<1> SUFFICES ASSUME IInv, UNCHANGED vars PROVE IInv'
  OBVIOUS
<1>1. RestTypeOK' /\ Asked'
  BY DEF vars, resolver, counters, IInv, TypeOK, RestTypeOK, Asked, Exists
<1> QED
  BY <1>1, UnchangedPicker, TypePartsNext DEF IInv, vars

THEOREM IInvHolds == Spec => []IInv
<1>1. IInv /\ [Next]_vars => IInv'
  <2> SUFFICES ASSUME IInv, [Next]_vars PROVE IInv'
    OBVIOUS
  <2>1. CASE Next
    BY <2>1, DialKeeps, ConsumeKeeps, ResolveNowKeeps, CloseKeeps, ReadLeaderKeeps, LeaderKeeps,
       ResolveFailsKeeps, UpdateStateKeeps, ConnectedKeeps, DisconnectedKeeps, ConnectFailsKeeps
       DEF Next
  <2> QED
    BY <2>1, StutterKeeps
<1> QED
  BY <1>1, InitIInv, PTL DEF Spec

-----------------------------------------------------------------------------

(* Every variable keeps its type. *)
THEOREM LoadBalanceTypes == Spec => []TypeOK
<1>1. IInv => TypeOK
  BY DEF IInv
<1> QED
  BY <1>1, IInvHolds, PTL

(* With any number of client connections sharing the Picker, no call goes  *)
(* to a ready server of the wrong role.                                    *)
THEOREM RolesAlwaysKept == Spec => []RolesKept
<1>1. IInv => RolesKept
  BY DEF IInv, Roles, RolesKept, IsReady
<1> QED
  BY <1>1, IInvHolds, PTL

(* With one client connection and any number of servers, no call waits     *)
(* while a connection that could take it is ready.                         *)
THEOREM CallsAlwaysFindReady == Spec => []CallsFindReady
<1>1. ASSUME IInv, NEW c \in Client, Client = {c}, ReadySCs(c, subConn[c]) # {}
      PROVE  IsReady(PickConsume)
  <2>1. \A h \in ReadySCs(c, subConn[c]) : IsReady(h)
    BY DEF ReadySCs, IsReady
  <2>2. CASE followers = << >>
    BY <1>1, <2>1, <2>2 DEF IInv, InStep, PickConsume
  <2>3. CASE followers # << >>
    <3>1. NextIndex \in DOMAIN followers
      <4>1. /\ Len(followers) \in Nat \ {0} /\ current \in Nat
            /\ DOMAIN followers = 1..Len(followers)
        BY <1>1, <2>3 DEF IInv, TypeOK
      <4>2. (current + 1) % Len(followers) \in 0..Len(followers) - 1
        BY <4>1
      <4> QED
        BY <4>1, <4>2 DEF NextIndex
    <3> QED
      BY <1>1, <2>1, <2>3, <3>1 DEF IInv, InStep, PickConsume
  <2> QED
    BY <2>2, <2>3
<1>2. ASSUME IInv, NEW c \in Client, Client = {c}, \E h \in ReadySCs(c, subConn[c]) : Flagged(h)
      PROVE  IsReady(PickProduce)
  BY <1>2 DEF IInv, InStep, PickProduce, ReadySCs, IsReady
<1>3. IInv => CallsFindReady
  BY <1>1, <1>2 DEF CallsFindReady
<1> QED
  BY <1>3, IInvHolds, PTL

-----------------------------------------------------------------------------
(* TurnsEven.  It is not inductive: the two followers with the most and    *)
(* the fewest turns must not be any two, but the last one that had a turn  *)
(* and the one that is next.                                               *)

(* How many turns ago, if all had turns, follower i had its last one.      *)
Since(i, n, last) == IF i - 1 <= last THEN last - (i - 1) ELSE last - (i - 1) + n

(* Since the Build there were some rounds of turns, and in one more those  *)
(* followers had theirs that the counter passed last.                      *)
InRounds(t, n, last) ==
    \E rounds \in Nat, extra \in 0..n - 1 :
        \A i \in 1..n : t[i] = IF Since(i, n, last) < extra THEN rounds + 1 ELSE rounds

TakeTurns == followers # << >> => InRounds(turns, Len(followers), current % Len(followers))

LEMMA DivMod ==
    ASSUME NEW a \in Nat, NEW n \in Nat \ {0}
    PROVE  /\ a = n * (a \div n) + (a % n)
           /\ a % n \in 0..n - 1 /\ a \div n \in Nat
BY SMT

LEMMA RemainderUnique ==
    ASSUME NEW n \in Nat \ {0}, NEW q \in Nat, NEW p \in Nat,
           NEW r \in 0..n - 1, NEW s \in 0..n - 1, n * q + r = n * p + s
    PROVE  r = s
<1>1. n * (q - p) = s - r
  OBVIOUS
<1>2. q = p
  <2>1. CASE q - p >= 1
    <3>1. n * (q - p) >= n
      BY <2>1
    <3> QED
      BY <3>1, <1>1
  <2>2. CASE q - p <= -1
    <3>1. n * (q - p) <= -n
      BY <2>2
    <3> QED
      BY <3>1, <1>1
  <2> QED
    BY <2>1, <2>2
<1> QED
  BY <1>2

(* The remainder of a counter wraps round.                                 *)
LEMMA NextRemainder ==
    ASSUME NEW c \in Nat, NEW n \in Nat \ {0}
    PROVE  (c + 1) % n = IF (c % n) + 1 = n THEN 0 ELSE (c % n) + 1
<1> DEFINE q == c \div n
           r == c % n
           p == (c + 1) \div n
           s == (c + 1) % n
<1>1. c = n * q + r /\ r \in 0..n - 1 /\ q \in Nat
  BY DivMod
<1>2. c + 1 = n * p + s /\ s \in 0..n - 1 /\ p \in Nat
  <2>1. c + 1 \in Nat
    OBVIOUS
  <2> QED
    BY <2>1, DivMod
<1> HIDE DEF q, r, p, s
<1>3. CASE r + 1 = n
  <2>1. n * (q + 1) + 0 = n * p + s /\ q + 1 \in Nat /\ 0 \in 0..n - 1
    BY <1>1, <1>2, <1>3
  <2> QED
    BY <2>1, <1>2, <1>3, RemainderUnique DEF r, s
<1>4. CASE r + 1 # n
  <2>1. n * q + (r + 1) = n * p + s /\ r + 1 \in 0..n - 1
    BY <1>1, <1>2, <1>4
  <2> QED
    BY <2>1, <1>1, <1>2, <1>4, RemainderUnique DEF r, s
<1> QED
  BY <1>3, <1>4

(* What a step does to the turns: it gives one, or a Build begins anew, or *)
(* nothing changes but who is dead among the followers.                    *)
LEMMA StepTurns ==
    ASSUME [Next]_vars
    PROVE  \/ turns' = [i \in DOMAIN followers' |-> 0]
           \/ DOMAIN followers' = DOMAIN followers /\ UNCHANGED <<current, turns>>
           \/ \E c \in Client : Consume(c)
<1>1. ASSUME NEW c, NEW conns, NEW gone, Regenerate(c, conns, gone)
      PROVE  \/ turns' = [i \in DOMAIN followers' |-> 0]
             \/ DOMAIN followers' = DOMAIN followers /\ UNCHANGED <<current, turns>>
  <2>1. CASE AllFailed(conns)
    BY <1>1, <2>1 DEF Regenerate, Forget
  <2>2. CASE ~AllFailed(conns)
    BY <1>1, <2>2 DEF Regenerate, Build
  <2> QED
    BY <2>1, <2>2
<1>2. CASE UNCHANGED picker
  BY <1>2 DEF picker
<1>3. ASSUME NEW c \in Client, Close(c)
      PROVE  DOMAIN followers' = DOMAIN followers /\ UNCHANGED <<current, turns>>
  BY <1>3 DEF Close, Forget
<1>4. ASSUME NEW c \in Client, NEW s \in Server, Connected(c, s) \/ Disconnected(c, s)
      PROVE  \E conns : Regenerate(c, conns, {})
  BY <1>4 DEF Connected, Disconnected
<1>5. CASE UpdateState
  BY <1>1, <1>2, <1>5 DEF UpdateState, picker
<1>6. CASE Next
  BY <1>1, <1>2, <1>3, <1>4, <1>5, <1>6
     DEF Next, Dial, ResolveNow, ReadLeader, Elect, ResolveFails, LoseLeader, ConnectFails
<1> QED
  BY <1>2, <1>6 DEF vars

(* The follower whose turn it is had its last one longest ago.             *)
LEMMA TurnGiven ==
    ASSUME NEW n \in Nat \ {0}, NEW last \in 0..n - 1, NEW next \in 0..n - 1,
           next = IF last + 1 = n THEN 0 ELSE last + 1,
           NEW t \in [1..n -> Nat], InRounds(t, n, last)
    PROVE  InRounds([t EXCEPT ![next + 1] = @ + 1], n, next)
<1> DEFINE u == [t EXCEPT ![next + 1] = @ + 1]
<1>1. PICK rounds \in Nat, extra \in 0..n - 1 :
          \A i \in 1..n : t[i] = IF Since(i, n, last) < extra THEN rounds + 1 ELSE rounds
  BY DEF InRounds
<1>2. next + 1 \in 1..n /\ Since(next + 1, n, last) = n - 1 /\ Since(next + 1, n, next) = 0
  BY DEF Since
<1>3. \A i \in (1..n) \ {next + 1} :
         Since(i, n, next) = Since(i, n, last) + 1 /\ Since(i, n, last) \in 0..n - 2
  BY DEF Since
<1>4. u[next + 1] = rounds + 1
  <2>1. t[next + 1] = rounds
    BY <1>1, <1>2
  <2> QED
    BY <1>2, <2>1
<1>5. \A i \in (1..n) \ {next + 1} : u[i] = t[i]
  OBVIOUS
<1> HIDE DEF u
<1>6. CASE extra + 1 < n
  <2>1. ASSUME NEW i \in 1..n
        PROVE  u[i] = IF Since(i, n, next) < extra + 1 THEN rounds + 1 ELSE rounds
    <3>1. CASE i = next + 1
      BY <1>2, <1>4, <3>1
    <3>2. CASE i # next + 1
      <4>1. Since(i, n, next) = Since(i, n, last) + 1 /\ Since(i, n, last) \in 0..n - 2
        BY <1>3, <3>2
      <4>2. u[i] = IF Since(i, n, last) < extra THEN rounds + 1 ELSE rounds
        BY <1>1, <1>5, <3>2
      <4> QED
        BY <4>1, <4>2
    <3> QED
      BY <3>1, <3>2
  <2>2. extra + 1 \in 0..n - 1
    BY <1>6
  <2> QED
    BY <2>1, <2>2 DEF InRounds, u
<1>7. CASE extra + 1 = n
  <2>1. ASSUME NEW i \in 1..n
        PROVE  u[i] = IF Since(i, n, next) < 0 THEN rounds + 1 + 1 ELSE rounds + 1
    <3>1. CASE i = next + 1
      BY <1>2, <1>4, <3>1
    <3>2. CASE i # next + 1
      <4>1. Since(i, n, next) = Since(i, n, last) + 1 /\ Since(i, n, last) \in 0..n - 2
        BY <1>3, <3>2
      <4>2. u[i] = rounds + 1
        BY <1>1, <1>5, <1>7, <3>2, <4>1
      <4> QED
        BY <4>1, <4>2
    <3> QED
      BY <3>1, <3>2
  <2>2. rounds + 1 \in Nat /\ 0 \in 0..n - 1
    OBVIOUS
  <2> QED
    BY <2>1, <2>2 DEF InRounds, u
<1> QED
  BY <1>6, <1>7

LEMMA SameBound ==
    ASSUME NEW m \in Nat, NEW n \in Nat, 1..m = 1..n
    PROVE  m = n
<1>1. CASE m < n
  BY <1>1, n \in 1..n
<1>2. CASE n < m
  BY <1>2, m \in 1..m
<1> QED
  BY <1>1, <1>2

LEMMA TakeTurnsKept == TypeOK /\ TypeOK' /\ TakeTurns /\ [Next]_vars => TakeTurns'
<1> SUFFICES ASSUME TypeOK, TypeOK', TakeTurns, [Next]_vars, followers' # << >>
             PROVE  InRounds(turns', Len(followers'), current' % Len(followers'))
  BY DEF TakeTurns
<1>1. /\ followers \in Seq(SubConn \cup {Dead}) /\ followers' \in Seq(SubConn \cup {Dead})
      /\ current \in Nat /\ current' \in Nat /\ turns \in [DOMAIN followers -> Nat]
  BY LoadBalanceAssumption DEF TypeOK
<1>2. /\ Len(followers') \in Nat \ {0} /\ DOMAIN followers' = 1..Len(followers')
      /\ Len(followers) \in Nat /\ DOMAIN followers = 1..Len(followers)
  BY <1>1
<1>3. CASE turns' = [i \in DOMAIN followers' |-> 0]
  <2> DEFINE n == Len(followers')
             last == current' % n
  <2>1. last \in 0..n - 1
    BY <1>1, <1>2, DivMod
  <2>2. \A i \in 1..n : Since(i, n, last) >= 0
    BY <1>2, <2>1 DEF Since
  <2> HIDE DEF last
  <2>3. \A i \in 1..n : turns'[i] = IF Since(i, n, last) < 0 THEN 0 + 1 ELSE 0
    <3>1. \A i \in 1..n : turns'[i] = 0
      BY <1>2, <1>3
    <3>2. \A i \in 1..n : Since(i, n, last) \in Int
      BY <1>2, <2>1 DEF Since
    <3> QED
      BY <2>2, <3>1, <3>2
  <2>4. 0 \in Nat /\ 0 \in 0..n - 1
    BY <1>2
  <2> USE DEF last
  <2> QED
    BY <2>3, <2>4 DEF InRounds
<1>4. CASE DOMAIN followers' = DOMAIN followers /\ UNCHANGED <<current, turns>>
  <2>1. Len(followers') = Len(followers)
    <3>1. 1..Len(followers') = 1..Len(followers)
      BY <1>2, <1>4
    <3> QED
      BY <1>2, <3>1, SameBound
  <2>2. followers # << >>
    BY <1>2, <2>1
  <2> QED
    BY <1>4, <2>1, <2>2 DEF TakeTurns
<1>5. ASSUME NEW c \in Client, Consume(c)
      PROVE  InRounds(turns', Len(followers'), current' % Len(followers'))
  <2> DEFINE n == Len(followers)
             last == current % n
             next == (current + 1) % n
  <2>1. /\ followers # << >> /\ followers' = followers /\ current' = current + 1
        /\ turns' = [turns EXCEPT ![next + 1] = @ + 1]
    BY <1>5 DEF Consume, NextIndex
  <2>2. n \in Nat \ {0} /\ current + 1 \in Nat /\ turns \in [1..n -> Nat]
    BY <1>1, <1>2, <2>1
  <2>3. last \in 0..n - 1 /\ next \in 0..n - 1
    BY <1>1, <2>2, DivMod
  <2>4. next = IF last + 1 = n THEN 0 ELSE last + 1
    BY <1>1, <2>2, NextRemainder
  <2>5. InRounds(turns, n, last)
    BY <2>1 DEF TakeTurns
  <2> HIDE DEF n, last, next
  <2>6. InRounds([turns EXCEPT ![next + 1] = @ + 1], n, next)
    BY <2>1, <2>2, <2>3, <2>4, <2>5, TurnGiven
  <2> QED
    BY <2>1, <2>6 DEF n, next
<1> QED
  BY <1>3, <1>4, <1>5, StepTurns

(* With any number of followers, and from whatever the counter stood at    *)
(* when they were found, no follower is more than one call ahead.          *)
THEOREM TurnsAlwaysEven == Spec => []TurnsEven
<1>1. Init => TakeTurns
  BY DEF Init, TakeTurns
<1>2. TypeOK /\ TakeTurns => TurnsEven
  <2> SUFFICES ASSUME TypeOK, TakeTurns, NEW i \in DOMAIN turns, NEW j \in DOMAIN turns
               PROVE  turns[i] <= turns[j] + 1
    BY DEF TurnsEven
  <2>1. followers # << >> /\ DOMAIN turns = 1..Len(followers)
    BY DEF TypeOK
  <2>2. PICK rounds \in Nat :
            \A k \in 1..Len(followers) : turns[k] = rounds \/ turns[k] = rounds + 1
    BY <2>1 DEF TakeTurns, InRounds
  <2> QED
    BY <2>1, <2>2
<1> QED
  BY <1>1, <1>2, TakeTurnsKept, LoadBalanceTypes, PTL DEF Spec
=============================================================================

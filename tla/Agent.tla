------------------------------- MODULE Agent -------------------------------
(***************************************************************************)
(* The life of one node, Self, from agent.New to the end of its process,   *)
(* with the streams its gRPC server handles (internal/agent/agent.go and   *)
(* run in cmd/smolkafka/main.go).                                          *)
(*                                                                         *)
(* Shutdown has up to three callers: main on a signal, serve when the      *)
(* listener that gRPC and Raft share is closed or breaks, and the          *)
(* goroutine that serves gRPC when it breaks.  Its teardown leaves the     *)
(* cluster, stops the gRPC server, which closes that listener and waits    *)
(* for the handlers, and closes the log, which stops Raft.                 *)
(***************************************************************************)
EXTENDS Streams

CONSTANTS Self, None

Caller == {"main", "serve", "grpc"}

ASSUME AgentAssumption == Self \in Node /\ None \notin Caller

VARIABLES
    phase,          \* the next function of setup, "running" or "exited"
    listening,      \* the listener the mux accepts connections from is open
    logOpen,        \* DistributedLog runs: neither Close nor the process's end
    shutdown,       \* Agent.shutdown
    shutdownLock,   \* the caller that holds Agent.shutdownLock, or None
    teardown,       \* the teardown function Shutdown comes to next
    caller          \* how far each caller of Shutdown is, and what it returned

agentVars == <<phase, listening, logOpen, shutdown, shutdownLock, teardown, caller>>
everything == <<allVars, agentVars>>

Setup == <<"setupMux", "setupLog", "setupServer", "setupMembership">>
Returned == {"nil", "error"}

AgentInit ==
    /\ serving = Node \ {Self}
    /\ StreamInit
    /\ phase = "setupMux"
    /\ listening = FALSE /\ logOpen = FALSE
    /\ shutdown = FALSE
    /\ shutdownLock = None
    /\ teardown = "membership.Leave"
    /\ caller = [c \in Caller |-> "idle"]

Handlers == {s \in Producer \cup Consumer : at[s] = Self /\ IsOpen(s)}

-----------------------------------------------------------------------------
(* agent.New *)

(* A function of setup succeeds; after the last one serve takes            *)
(* connections (setupLogger changes nothing).                              *)
SetupStep ==
    \E i \in DOMAIN Setup :
        /\ phase = Setup[i]
        /\ phase' = IF i = Len(Setup) THEN "running" ELSE Setup[i + 1]
        /\ listening' = TRUE
        /\ logOpen' = (phase # "setupMux")
        /\ serving' = IF i = Len(Setup) THEN serving \cup {Self} ELSE serving
        /\ UNCHANGED <<vars, stream, answered, sent, shutdown, shutdownLock, teardown, caller>>

(* The process ends, whatever its state: the connections of its streams    *)
(* break, and so do the calls that wait in its Raft.                       *)
ProcessEnds ==
    /\ phase' = "exited"
    /\ listening' = FALSE /\ logOpen' = FALSE
    /\ stream' = [s \in DOMAIN stream |-> IF s \in Handlers THEN "ended" ELSE stream[s]]
    /\ Fail({c \in Call : call[c] = Waiting(Self)})
    /\ UNCHANGED <<serving, answered, sent, shutdown, shutdownLock, teardown, caller>>

(* A function of setup fails, as WaitForLeader does after its timeout: New *)
(* returns the error and main exits.                                       *)
SetupFails == phase \in Range(Setup) /\ ProcessEnds

-----------------------------------------------------------------------------
(* Shutdown *)

(* A caller comes to the lock of Shutdown. *)
CallShutdown(c) ==
    /\ phase = "running"
    /\ caller[c] = "idle"
    /\ caller' = [caller EXCEPT ![c] = "waiting"]
    /\ UNCHANGED <<allVars, phase, listening, logOpen, shutdown, shutdownLock, teardown>>

(* main gets a signal. *)
Signal == CallShutdown("main")

(* mux.Serve returns an error, for the listener is closed or broken. *)
MuxServeFails == ~listening /\ CallShutdown("serve")

(* gRPC's Serve does too, but returns nil once GracefulStop has begun. *)
GrpcServeFails ==
    /\ ~listening
    /\ teardown \in {"membership.Leave", "server.GracefulStop"}
    /\ CallShutdown("grpc")

(* Mutant: the lock stays locked. *)
ReturnLocked(c, result) ==
    /\ caller' = [caller EXCEPT ![c] = result]
    /\ UNCHANGED shutdownLock

Return(c, result) ==
    /\ caller' = [caller EXCEPT ![c] = result]
    /\ shutdownLock' = None

(* Mutant: the lock is not taken. *)
LockNone(c) ==
    /\ phase = "running"
    /\ caller[c] = "waiting"
    /\ IF shutdown
       THEN Return(c, "nil") /\ UNCHANGED shutdown
       ELSE /\ shutdown' = TRUE
            /\ shutdownLock' = c
            /\ caller' = [caller EXCEPT ![c] = "inside"]
    /\ UNCHANGED <<allVars, phase, listening, logOpen, teardown>>

(* A caller gets the lock.  Later ones find shutdown set and return nil. *)
Lock(c) ==
    /\ phase = "running"
    /\ caller[c] = "waiting"
    /\ shutdownLock = None
    /\ IF shutdown
       THEN Return(c, "nil") /\ UNCHANGED shutdown
       ELSE /\ shutdown' = TRUE
            /\ shutdownLock' = c
            /\ caller' = [caller EXCEPT ![c] = "inside"]
    /\ UNCHANGED <<allVars, phase, listening, logOpen, teardown>>

Inside(c, function) ==
    /\ phase = "running"
    /\ caller[c] = "inside"
    /\ teardown = function

Leave(c) ==
    /\ Inside(c, "membership.Leave")
    /\ teardown' = "server.GracefulStop"
    /\ UNCHANGED <<allVars, phase, listening, logOpen, shutdown, shutdownLock, caller>>

(* membership.Leave returns an error, and so does Shutdown. *)
LeaveFails(c) ==
    /\ Inside(c, "membership.Leave")
    /\ Return(c, "error")
    /\ UNCHANGED <<allVars, phase, listening, logOpen, shutdown, teardown>>

(* External: GracefulStop closes the listener and takes no new stream. *)
GracefulStop(c) ==
    /\ Inside(c, "server.GracefulStop")
    /\ serving' = serving \ {Self}
    /\ listening' = FALSE
    /\ teardown' = "drain"
    /\ UNCHANGED <<vars, stream, answered, sent, phase, logOpen, shutdown,
                   shutdownLock, caller>>

(* Mutant: the log is closed without waiting for the handlers. *)
StopNow(c) ==
    /\ Inside(c, "drain")
    /\ teardown' = "log.Close"
    /\ UNCHANGED <<allVars, phase, listening, logOpen, shutdown, shutdownLock, caller>>

(* External: it returns when every handler has. *)
GracefulStopReturns(c) ==
    /\ Inside(c, "drain")
    /\ Handlers = {}
    /\ teardown' = "log.Close"
    /\ UNCHANGED <<allVars, phase, listening, logOpen, shutdown, shutdownLock, caller>>

(* Raft stops, which resolves the calls that wait in it; the log's files   *)
(* are closed.                                                             *)
CloseLog(c) ==
    /\ Inside(c, "log.Close")
    /\ logOpen' = FALSE
    /\ Fail({d \in Call : call[d] = Waiting(Self)})
    /\ teardown' = "done"
    /\ Return(c, "nil")
    /\ UNCHANGED <<streamVars, phase, listening, shutdown>>

(* Raft's Shutdown returns an error and the log stays open, or the log's   *)
(* own Close does, with Raft stopped.                                      *)
CloseLogFails(c) ==
    /\ Inside(c, "log.Close")
    /\ \/ UNCHANGED <<vars, logOpen>>
       \/ Fail({d \in Call : call[d] = Waiting(Self)}) /\ logOpen' = FALSE
    /\ Return(c, "error")
    /\ UNCHANGED <<streamVars, phase, listening, shutdown, teardown>>

(* main returned from Shutdown, *)
Exit == phase = "running" /\ caller["main"] \in Returned /\ ProcessEnds

(* or did not come to that. *)
Killed == phase = "running" /\ ProcessEnds

-----------------------------------------------------------------------------

(* Accept on the listener fails: both Serve calls will return its error.   *)
(* Connections made before go on, and can open streams.                    *)
ListenerFails ==
    /\ phase = "running" /\ listening
    /\ listening' = FALSE
    /\ UNCHANGED <<allVars, phase, logOpen, shutdown, shutdownLock, teardown, caller>>

(* Self has handlers while its process runs; its part of the log grows     *)
(* while its Raft does.                                                    *)
StreamStep(s) ==
    /\ Handle(s)
    /\ at[s] = Self => phase = "running"
    /\ UNCHANGED agentVars

LogStep ==
    /\ \/ \E c \in Call : Commit(c)
       \/ \E n \in Node : (n = Self => logOpen) /\ Proceed(n)
    /\ UNCHANGED agentVars

ShutdownStep(c) ==
    \/ Lock(c)
    \/ Leave(c) \/ LeaveFails(c)
    \/ GracefulStop(c) \/ GracefulStopReturns(c)
    \/ CloseLog(c) \/ CloseLogFails(c)

AgentNext ==
    \/ SetupStep \/ SetupFails \/ Exit \/ Killed
    \/ ListenerFails
    \/ Signal \/ MuxServeFails \/ GrpcServeFails
    \/ \E c \in Caller : ShutdownStep(c)
    \/ \E s \in Producer \cup Consumer : StreamStep(s)
    \/ LogStep

AgentSpec == AgentInit /\ [][AgentNext]_everything

(* A goroutine that can go on does; a handler that finds a record sends    *)
(* it; Raft passes what is in the log to every node that runs.             *)
AgentFairness ==
    /\ \A c \in Caller : WF_everything(ShutdownStep(c))
    /\ \A s \in Consumer : WF_everything(Send(s) /\ UNCHANGED agentVars)
    /\ \A n \in Node : WF_everything((n = Self => logOpen) /\ Proceed(n) /\ UNCHANGED agentVars)

AgentLiveSpec == AgentSpec /\ AgentFairness

-----------------------------------------------------------------------------
(* Properties *)

(* Every variable has its type, and the one caller that is inside the      *)
(* teardown is the one that holds the lock.                                *)
AgentTypeOK ==
    /\ StreamTypeOK
    /\ phase \in Range(Setup) \cup {"running", "exited"}
    /\ listening \in BOOLEAN /\ logOpen \in BOOLEAN
    /\ shutdown \in BOOLEAN
    /\ shutdownLock \in Caller \cup {None}
    /\ teardown \in {"membership.Leave", "server.GracefulStop", "drain", "log.Close", "done"}
    /\ caller \in [Caller -> {"idle", "waiting", "inside"} \cup Returned]
    /\ \A c \in Caller : caller[c] = "inside" <=> shutdownLock = c

(* A handler never finds the log closed under it, before, during and after *)
(* a shutdown, whoever asked for it.                                       *)
HandlersHaveLog == Handlers # {} => logOpen /\ phase = "running"

(* A Shutdown that returned nil means that the node is down, also to a     *)
(* caller that came second, unless an earlier one returned an error.       *)
NilMeansDown ==
    \A c \in Caller : caller[c] = "nil" =>
        ~logOpen \/ \E d \in Caller : caller[d] = "error"

(* An orderly shutdown fails no produce call that Raft has taken: log.Close *)
(* finds none waiting.                                                     *)
ShutdownCutsNoCall ==
    [][logOpen /\ ~logOpen' /\ phase' = "running" => call' = call]_everything

(* Nothing but streams that clients keep open holds Shutdown up.  (A       *)
(* consume stream does so until its client ends it.)                       *)
OnlyStreamsHoldShutdown ==
    <>[](Handlers = {}) =>
        \A c \in Caller : caller[c] = "waiting" ~> (caller[c] \in Returned \/ phase = "exited")
=============================================================================

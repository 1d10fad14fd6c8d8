------------------------------- MODULE Gateway -------------------------------
(***************************************************************************)
(* The gateway's requests from admission to reply, and its shutdown:       *)
(* main (gateway/cmd/server/main.go:113-149), the limiter's middleware     *)
(* (internal/metrics/metrics.go:175), HandleProcessFrame, HandleWebSocket, *)
(* HandleHealth and HandleAdminRouting (internal/http/handlers.go) over    *)
(* the processor pool.  HandleStats goes the way of a frame: one Get, one  *)
(* call, one reply.  HandleProcessStream is StreamPipeline.                *)
(*                                                                         *)
(* The processors are external: a call ends, with a result or an error, at *)
(* its deadline at the latest (30 s a frame, 5 s a message, 2 s a probe).  *)
(* http.Server.Shutdown lets nothing new in and waits for the requests in  *)
(* progress, hijacked WebSockets excepted, for 10 s at most.               *)
(***************************************************************************)
EXTENDS RateLimiter, ProcessorPool, FiniteSets

CONSTANTS Frames,       \* POST /api/process or /process, GET /stats
          Sockets,      \* /ws
          Probes,       \* GET /health and GET /api/admin/routing
          Admins,       \* POST /api/admin/routing
          Indices       \* the indices administrators ask for, negative for round_robin

\* A request is of one kind, told by its path.
ASSUME GatewayAssumption ==
    /\ Indices \subseteq Int
    /\ Frames \cap (Sockets \cup Probes \cup Admins) = {}
    /\ Sockets \cap (Probes \cup Admins) = {}
    /\ Probes \cap Admins = {}

VARIABLES
    pc,        \* where each request's handler is
    client,    \* the processor a frame or socket got from the pool
    index,     \* the index an administrator's SetSticky stores
    polled,    \* processors a probe has asked
    server,    \* main: "serving", "draining", "closing", "closed" or "exited"
    expired,   \* Shutdown gave up after its 10 s
    promise,   \* history: the index of the last SetSticky that returned, while none runs
    want,      \* history: what was promised when a frame or socket was admitted
    turns      \* history: how often each processor's turn came

limiter == << tokens, pending, held, now, admitted, at >>
history == << promise, want, turns >>
gatewayVars ==
    << limiter, poolVars, pc, client, index, polled, server, expired, history >>

\* Who takes a client from the pool: a frame, a request for statistics, a socket.
Routed == Frames \cup Sockets
\* What Shutdown waits for: hijacked connections are not.
Waited == Frames \cup Probes \cup Admins
Request == Waited \cup Sockets
AnyProcessor == -2

\* The locals of the handlers that are not running.
NoClients == [r \in Routed |-> NoClient]
NoIndex == [a \in Admins |-> RoundRobin]
NonePolled == [h \in Probes |-> 0]

GatewayInit ==
    /\ Init /\ PoolInit
    /\ pc = [r \in Request |-> "new"]
    /\ client = NoClients /\ index = NoIndex
    /\ polled = NonePolled
    /\ server = "serving" /\ expired = FALSE
    /\ promise = RoundRobin
    /\ want = [r \in Routed |-> AnyProcessor]
    /\ turns = [i \in Processor |-> 0]

Step(r, from, to) ==
    /\ server # "exited"
    /\ pc[r] = from
    /\ pc' = [pc EXCEPT ![r] = to]
    /\ UNCHANGED << server, expired >>

Arrive(r, to) == server = "serving" /\ Step(r, "new", to)

-----------------------------------------------------------------------------
(* Frames and sockets.                                                     *)

\* Past the limiter a request may still be answered at once: method, token,
\* body or size (a socket: token or upgrade).
Admit(r) ==
    /\ Allow
    /\ \/ Arrive(r, "get") /\ want' = [want EXCEPT ![r] = promise]
       \/ Arrive(r, "done") /\ UNCHANGED want
    /\ UNCHANGED << poolVars, client, index, polled, promise, turns >>

\* 429.
Refuse(r) ==
    /\ tokens = 0
    /\ Arrive(r, "done")
    /\ UNCHANGED << limiter, poolVars, client, index, polled, history >>

\* Where a handler goes with its client: a frame is sent, a socket is read.
Onward(r) == IF r \in Frames THEN "call" ELSE "read"

GetClient(r) ==
    /\ GetLoad(r)
    /\ client' = [client EXCEPT ![r] = Route]
    /\ Step(r, "get", CASE Route = NoClient -> "done"
                        [] Route = Undecided -> "add"
                        [] Route \in Processor -> Onward(r))
    /\ UNCHANGED << limiter, index, polled, history >>

GetTurn(r) ==
    /\ GetAdd(r)
    /\ client' = [client EXCEPT ![r] = Turn]
    /\ turns' = [turns EXCEPT ![Turn] = @ + 1]
    /\ Step(r, "add", Onward(r))
    /\ UNCHANGED << limiter, index, polled, promise, want >>

\* ProcessSingleChunk opens a stream, sends one chunk and returns the answer or
\* the first error.
CallEnds(r, to) == Step(r, "call", to)

\* A handler returns, and what it knew goes with it.
Forget(r) ==
    /\ client' = [client EXCEPT ![r] = NoClient]
    /\ want' = [want EXCEPT ![r] = AnyProcessor]

\* The reply is written; an error of saving the run is ignored.
FrameEnds(f) ==
    /\ CallEnds(f, "done") /\ Forget(f)
    /\ UNCHANGED << limiter, poolVars, index, polled, promise, turns >>

\* A message that is no frame is answered at once.
ReadMessage(w) ==
    /\ Step(w, "read", "call") \/ Step(w, "read", "read")
    /\ UNCHANGED << limiter, poolVars, client, index, polled, history >>

\* The result or the error is written; the loop ends if a result cannot be.
MessageEnds(w) ==
    /\ \/ CallEnds(w, "read") /\ UNCHANGED << client, want >>
       \/ CallEnds(w, "done") /\ Forget(w)
    /\ UNCHANGED << limiter, poolVars, index, polled, promise, turns >>

SocketCloses(w) ==
    /\ Step(w, "read", "done") /\ Forget(w)
    /\ UNCHANGED << limiter, poolVars, index, polled, promise, turns >>

-----------------------------------------------------------------------------
(* Probes and administrators, whom the limiter lets pass, come repeatedly.  *)

ProbeArrives(h) ==
    /\ Arrive(h, "lock")
    /\ UNCHANGED << limiter, poolVars, client, index, polled, history >>

ProbeLocks(h) ==
    /\ HealthBegins(h)
    /\ Step(h, "lock", "poll")
    /\ UNCHANGED << limiter, client, index, polled, history >>

\* Variant: a processor that fails is asked again.
PollRepeats(h) ==
    /\ polled[h] < clients
    /\ Step(h, "poll", "poll")
    /\ UNCHANGED << limiter, poolVars, client, index, polled, history >>

PollEnds(h) ==
    /\ polled[h] < clients
    /\ polled' = [polled EXCEPT ![h] = @ + 1]
    /\ Step(h, "poll", "poll")
    /\ UNCHANGED << limiter, poolVars, client, index, history >>

\* /health replies; the routing page also asks the pool for its addresses.
ProbeUnlocks(h) ==
    /\ polled[h] = clients
    /\ polled' = [polled EXCEPT ![h] = 0]
    /\ HealthEnds(h)
    /\ Step(h, "poll", "new") \/ Step(h, "poll", "addrs")
    /\ UNCHANGED << limiter, client, index, history >>

ProbeLooks(h) ==
    /\ Look
    /\ Step(h, "addrs", "new")
    /\ UNCHANGED << limiter, client, index, polled, history >>

\* A request with a wrong token, body or mode is answered without a step here.
AdminArrives(a) ==
    /\ Arrive(a, "check")
    /\ UNCHANGED << limiter, poolVars, client, index, polled, history >>

\* From here on SetSticky runs, and the routing of who has no client yet may change.
AdminChecks(a) ==
    /\ \E i \in Indices :
         \/ /\ IndexExists(i)
            /\ Step(a, "check", "store")
            /\ index' = [index EXCEPT ![a] = i]
            /\ promise' = AnyProcessor
            /\ want' = [r \in Routed |-> IF client[r] < 0 THEN AnyProcessor ELSE want[r]]
         \/ /\ IndexMissing(i)
            /\ Step(a, "check", "new")
            /\ UNCHANGED << index, promise, want >>
    /\ UNCHANGED << limiter, client, polled, turns >>

\* SetSticky(i) returned, no other SetSticky running.
Promised(i) == IF i < 0 THEN RoundRobin ELSE i

AdminStores(a) ==
    /\ StoreSticky(index[a])
    /\ Step(a, "store", "new")
    /\ index' = [index EXCEPT ![a] = RoundRobin]
    /\ promise' = IF \E b \in Admins \ {a} : pc[b] = "store"
                  THEN AnyProcessor
                  ELSE Promised(index[a])
    /\ UNCHANGED << limiter, client, polled, want, turns >>

-----------------------------------------------------------------------------
(* main.                                                                   *)

Main(from, to) ==
    /\ server = from /\ server' = to
    /\ UNCHANGED << limiter, pc, client, index, polled, history >>

\* The process ends, and with it its handlers and their locks.
ProcessEnds(from) ==
    /\ server = from /\ server' = "exited"
    /\ pc' = [r \in Request |-> "done"]
    /\ client' = NoClients /\ index' = NoIndex
    /\ polled' = NonePolled
    /\ readers' = {}
    /\ UNCHANGED << limiter, clients, current, sticky, closing, expired, history >>

\* log.Fatalf: the port could not be opened.
ListenFails == ProcessEnds("serving") /\ \A r \in Request : pc[r] = "new"

Signal == Main("serving", "draining") /\ UNCHANGED << poolVars, expired >>

\* Variant: the server is closed without waiting.
DrainedAtOnce == Main("draining", "closing") /\ UNCHANGED << poolVars, expired >>

Drained ==
    /\ \A r \in Waited : pc[r] \in {"new", "done"}
    /\ Main("draining", "closing")
    /\ UNCHANGED << poolVars, expired >>

ShutdownExpires ==
    /\ \E r \in Waited : pc[r] \notin {"new", "done"}
    /\ Main("draining", "closing")
    /\ expired' = TRUE
    /\ UNCHANGED poolVars

\* The deferred pool.Close(), and main returns.
ClosePool ==
    \/ ~ closing /\ CloseWaits /\ Main("closing", "closing") /\ UNCHANGED expired
    \/ CloseAll /\ Main("closing", "closed") /\ UNCHANGED expired

Exit == ProcessEnds("closed")

-----------------------------------------------------------------------------
Ticker ==
    /\ Tick \/ ReceiveTick \/ Refill
    /\ UNCHANGED << poolVars, pc, client, index, polled, server, expired, history >>

Handle(r) ==
    \/ r \in Routed /\ (GetClient(r) \/ GetTurn(r))
    \/ r \in Frames /\ FrameEnds(r)
    \/ r \in Sockets /\ MessageEnds(r)
    \/ r \in Probes /\ (ProbeLocks(r) \/ PollEnds(r) \/ ProbeUnlocks(r) \/ ProbeLooks(r))
    \/ r \in Admins /\ (AdminChecks(r) \/ AdminStores(r))

Clients ==
    \/ \E r \in Routed : Admit(r) \/ Refuse(r)
    \/ \E w \in Sockets : ReadMessage(w) \/ SocketCloses(w)
    \/ \E h \in Probes : ProbeArrives(h)
    \/ \E a \in Admins : AdminArrives(a)

Stop == Drained \/ ShutdownExpires \/ ClosePool \/ Exit

Done == server = "exited" /\ UNCHANGED gatewayVars

GatewayNext ==
    \/ Ticker \/ Clients \/ ListenFails \/ Signal \/ Stop
    \/ \E r \in Request : Handle(r)
    \/ Done

\* Handlers and main run; calls end at their deadlines.  Nobody has to send a
\* request or a signal.
GatewaySpec ==
    /\ GatewayInit /\ [][GatewayNext]_gatewayVars
    /\ WF_gatewayVars(Stop)
    /\ \A r \in Request : WF_gatewayVars(Handle(r))

-----------------------------------------------------------------------------
(* Properties.                                                             *)

\* Type invariant of the pool and its callers; the read lock is held exactly by
\* the handlers between its two ends, and by no Get when the list is gone.
GatewayTypeOK ==
    /\ clients \in {0, Processors} /\ current \in Nat
    /\ sticky \in Processor \cup {RoundRobin}
    /\ readers = { r \in Request : pc[r] \in {"add", "poll"} }
    /\ clients = 0 => readers \subseteq Probes
    /\ pc \in [Request -> {"new", "get", "add", "call", "read", "lock", "poll",
                           "addrs", "check", "store", "done"}]
    /\ client \in [Routed -> Processor \cup {Undecided, NoClient}]
    /\ index \in [Admins -> Int] /\ \A a \in Admins : index[a] < Processors
    /\ polled \in [Probes -> 0 .. Processors]
    /\ server \in {"serving", "draining", "closing", "closed", "exited"}
    /\ {expired, closing} \subseteq BOOLEAN

\* "All traffic goes to this index" (client.go:155, 233): a request admitted
\* after SetSticky(i) returned, and routed before another SetSticky begins, goes
\* to processor i.
StickyRoutes ==
    \A r \in Routed : want[r] >= 0 /\ client[r] >= 0 => client[r] = want[r]

\* Round-robin is fair however Gets interleave with one another and with changes
\* of the mode: no processor's turn comes two times more often than another's.
TurnsBalanced == \A i, j \in Processor : turns[i] <= turns[j] + 1

\* The pool's connections are closed only when no request that Shutdown waits for
\* is in progress, unless Shutdown gave up.
ClosedAfterDrain ==
    clients = 0 /\ ~ expired => \A r \in Waited : pc[r] \in {"new", "done"}

\* A signal ends the process: Close() gets its lock although health checks hold
\* it over calls and Gets compete for it.
ShutdownEnds == server = "draining" ~> server = "exited"
=============================================================================

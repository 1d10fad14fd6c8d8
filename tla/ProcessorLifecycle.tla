------------------------- MODULE ProcessorLifecycle -------------------------
(***************************************************************************)
(* How the C++ processor starts and stops: main and its signal handler     *)
(* (processor-cpp/src/main.cpp:10-86), GrpcServer (server/grpc_server.cpp: *)
(* 466-503) and MetricsServer with its thread (server/metrics_server.cpp:  *)
(* 37-60, 137-222).                                                        *)
(*                                                                         *)
(* One function handles SIGINT and SIGTERM.  As on Linux, a signal whose   *)
(* number the main thread does not block goes there and suspends whatever  *)
(* main was doing, a handler of the other number included; its own number  *)
(* is blocked meanwhile, so that a repeat goes to another thread.  A       *)
(* handler reads g_metrics or g_server in one step with the call it makes. *)
(*                                                                         *)
(* The gRPC server is external: Shutdown() refuses new calls and waits,    *)
(* without a deadline, until the open ones have ended; Wait() returns      *)
(* after that.  A second Shutdown() waits for the first one to return.     *)
(***************************************************************************)
EXTENDS ThreadPool, Integers, FiniteSets

CONSTANTS Scrapers,       \* how clients of the metrics port behave
          MaxScrapes,     \* bound: connections to the metrics port
          MaxCalls,       \* bound: gRPC calls open at a time
          MaxSignals,     \* bound: signals sent
          ListenMayFail   \* whether socket, bind or listen may fail

ASSUME ProcessorLifecycleAssumption ==
    /\ Scrapers \subseteq {"prompt", "silent"}
    /\ {MaxScrapes, MaxCalls, MaxSignals} \subseteq Nat
    /\ ListenMayFail \in BOOLEAN

VARIABLES
    main,      \* where main is
    signals,   \* signals delivered; each one activates the handler once
    handler,   \* where each activation is
    number,    \* the signal each activation handles
    on,        \* the thread each activation runs on
    stopper,   \* who runs MetricsServer::stop() past its guard
    stopping,  \* where stop() is: "close" or "join"
    running,   \* running_
    fd,        \* server_fd_ is not -1
    thread,    \* where the metrics thread is
    joinable,  \* thread_ has a thread that was not joined
    scraper,   \* the connection being served, "none" if there is none
    scrapes,   \* connections accepted so far
    server,    \* the gRPC server: "none", "null", "up", "draining" or "down"
    shutter,   \* the activation that runs Shutdown()
    calls,     \* open gRPC calls
    causes     \* history: what std::terminate may come from, see CleanEnd

metrics == << stopper, stopping, running, fd, thread, joinable, scraper, scrapes >>
activations == << signals, handler, number, on >>
grpc == << server, shutter, calls >>
vars == << main, activations, metrics, grpc, causes, pool >>

\* Activations by the order of their signals; main itself calls stop() as 0.
Activation == 1 .. MaxSignals
MainItself == 0
Nobody == -1
Numbers == {"SIGINT", "SIGTERM"}

\* Threads that may get a signal main blocks: the metrics thread, one that serves
\* a call, and one that does neither (a worker of the pool, a thread of gRPC's).
Others == {"metrics", "call", "idle"}

Init ==
    /\ main = "boot"
    /\ signals = 0
    /\ handler = [k \in Activation |-> "none"]
    /\ number = [k \in Activation |-> "SIGINT"]
    /\ on = [k \in Activation |-> "main"]
    /\ stopper = Nobody /\ stopping = "close"
    /\ running = FALSE /\ fd = FALSE
    /\ thread = "unborn" /\ joinable = FALSE
    /\ scraper = "none" /\ scrapes = 0
    /\ server = "none" /\ shutter = Nobody /\ calls = 0
    /\ causes = {}
    /\ PoolInit

Ended == main \in {"exited", "terminated"}

\* g_server and g_metrics as a handler sees them.
ServerVisible == server \in {"up", "draining", "down"} /\ main \notin {"destroying", "pool"}
MetricsVisible == main \in {"registered", "starting", "born", "waiting", "leaving"}

\* The activations under way on a thread.  Where there are two, the later one has
\* interrupted the other and runs; calls and idle threads are many, one of them to
\* each activation.
OnThread(t) == { k \in Activation : handler[k] \in {"metrics", "server"} /\ on[k] = t }
Stacked(k) == \E j \in OnThread(on[k]) : k < j /\ on[k] \in {"main", "metrics"}
Runs(k) == ~ Ended /\ k \in OnThread(on[k]) /\ ~ Stacked(k)

-----------------------------------------------------------------------------
(* MetricsServer::stop().                                                  *)

Elsewhere(who) == who # MainItself /\ on[who] # "main"

\* running_.exchange(false): only the first caller goes on.
EnterStop(who) ==
    /\ running
    /\ running' = FALSE
    /\ stopper' = who /\ stopping' = "close"
    /\ causes' = causes \cup { c \in {"start", "elsewhere"} :
                                 \/ c = "start" /\ main \in {"starting", "born"}
                                 \/ c = "elsewhere" /\ Elsewhere(who) }
    /\ UNCHANGED << fd, thread, joinable, scraper, scrapes >>

\* Variant: the socket is left open.
CloseListenerNot(who) ==
    /\ stopper = who /\ stopping = "close"
    /\ stopping' = "join"
    /\ UNCHANGED << fd, stopper, running, thread, joinable, scraper, scrapes, causes >>

CloseListener(who) ==
    /\ stopper = who /\ stopping = "close"
    /\ fd' = FALSE
    /\ stopping' = "join"
    /\ UNCHANGED << stopper, running, thread, joinable, scraper, scrapes, causes >>

\* Variant: the thread is detached.
DetachThread(who) ==
    /\ stopper = who /\ stopping = "join"
    /\ joinable' = FALSE
    /\ stopper' = Nobody
    /\ UNCHANGED << stopping, running, fd, thread, scraper, scrapes, causes >>

\* Variant: stop() returns without joining.
ForgetThread(who) ==
    /\ stopper = who /\ stopping = "join"
    /\ stopper' = Nobody
    /\ UNCHANGED << joinable, stopping, running, fd, thread, scraper, scrapes, causes >>

JoinThread(who) ==
    /\ stopper = who /\ stopping = "join"
    /\ joinable => thread = "ended"
    /\ joinable' = FALSE
    /\ stopper' = Nobody
    /\ UNCHANGED << stopping, running, fd, thread, scraper, scrapes, causes >>

InStop(who) == CloseListener(who) \/ JoinThread(who)

-----------------------------------------------------------------------------
(* The signal handler.                                                     *)

\* Before the server is started there is no other thread.
MayTake(t) ==
    CASE t = "metrics" -> thread \notin {"unborn", "ended"}
      [] t = "call" -> Cardinality(OnThread("call")) < calls
      [] t = "idle" -> main # "boot"

Signal(n, t) ==
    /\ ~ Ended /\ signals < MaxSignals
    /\ IF \E k \in OnThread("main") : number[k] = n
       THEN /\ t \in Others /\ MayTake(t)
            /\ t = "metrics" => \A k \in OnThread(t) : number[k] # n
       ELSE t = "main"
    /\ signals' = signals + 1
    /\ handler' = [handler EXCEPT ![signals + 1] = "metrics"]
    /\ number' = [number EXCEPT ![signals + 1] = n]
    /\ on' = [on EXCEPT ![signals + 1] = t]
    /\ UNCHANGED << main, metrics, grpc, causes, pool >>

HandlerGoes(k, from, to) ==
    /\ Runs(k)
    /\ handler[k] = from
    /\ handler' = [handler EXCEPT ![k] = to]
    /\ UNCHANGED << signals, number, on >>

\* g_metrics->stop().
HandlerStopsMetrics(k) ==
    /\ \/ /\ (MetricsVisible /\ EnterStop(k)) \/ InStop(k)
          /\ HandlerGoes(k, "metrics", "metrics")
       \/ /\ ~ MetricsVisible \/ ~ running
          /\ stopper # k
          /\ HandlerGoes(k, "metrics", "server")
          /\ UNCHANGED << metrics, causes >>
    /\ UNCHANGED << main, grpc, pool >>

\* A thread that joins itself: std::system_error, which nobody catches.
HandlerJoinsItself(k) ==
    /\ stopper = k /\ stopping = "join"
    /\ joinable /\ on[k] = "metrics"
    /\ HandlerGoes(k, "metrics", "metrics")
    /\ main' = "terminated"
    /\ UNCHANGED << metrics, grpc, causes, pool >>

\* g_server->stop().
HandlerStopsServer(k) ==
    /\ \/ /\ ServerVisible /\ server = "up"
          /\ server' = "draining" /\ shutter' = k
          /\ HandlerGoes(k, "server", "server")
       \/ /\ server = "draining" /\ shutter = k /\ calls = 0
          /\ server' = "down" /\ shutter' = Nobody
          /\ HandlerGoes(k, "server", "done")
       \/ /\ ~ ServerVisible \/ server = "down"
          /\ HandlerGoes(k, "server", "done")
          /\ UNCHANGED << server, shutter >>
    /\ UNCHANGED << main, metrics, calls, causes, pool >>

-----------------------------------------------------------------------------
(* main(): it moves only while no handler runs on its thread.              *)

MainGoes(from, to) ==
    /\ OnThread("main") = {} /\ main = from
    /\ main' = to
    /\ UNCHANGED << activations, shutter, calls >>

\* The service with its pool; BuildAndStart() returns a null pointer when the
\* port cannot be bound.
StartServer ==
    /\ MainGoes("boot", "built")
    /\ server' \in {"up", "null"}
    /\ StartWorkers
    /\ UNCHANGED << metrics, causes >>

RegisterMetrics ==
    /\ MainGoes("built", "registered")
    /\ UNCHANGED << metrics, server, causes, pool >>

\* MetricsServer::start(): running_ first,
StartMetrics ==
    /\ MainGoes("registered", "starting")
    /\ running' = TRUE
    /\ UNCHANGED << stopper, stopping, fd, thread, joinable, scraper, scrapes, server, causes, pool >>

\* then the thread,
BearThread ==
    /\ MainGoes("starting", "born")
    /\ thread' = "socket"
    /\ UNCHANGED << stopper, stopping, running, fd, joinable, scraper, scrapes, server, causes, pool >>

\* which is then moved to thread_.
KeepThread ==
    /\ MainGoes("born", "waiting")
    /\ joinable' = TRUE
    /\ UNCHANGED << stopper, stopping, running, fd, thread, scraper, scrapes, server, causes, pool >>

WaitReturns ==
    /\ server \in {"down", "null"}
    /\ MainGoes("waiting", "leaving")
    /\ UNCHANGED << metrics, server, causes, pool >>

\* stop() returns at once when somebody else is past its guard.
MainStopsMetrics ==
    /\ \/ (EnterStop(MainItself) \/ InStop(MainItself)) /\ MainGoes("leaving", "leaving")
       \/ /\ ~ running /\ stopper # MainItself
          /\ MainGoes("leaving", "destroying")
          /\ UNCHANGED << metrics, causes >>
    /\ UNCHANGED << server, pool >>

\* The destructors: ~MetricsServer finds running_ false, and ~thread of a
\* joinable thread calls std::terminate.
Destroy ==
    /\ MainGoes("destroying", IF joinable THEN "terminated" ELSE "pool")
    /\ UNCHANGED << metrics, server, causes, pool >>

\* Then ~GrpcServer destroys the service, its statistics and its pool.
DestroyService ==
    /\ ShutdownStep
    /\ MainGoes("pool", IF shutdown' = "joined" THEN "exited" ELSE "pool")
    /\ UNCHANGED << metrics, server, causes >>

-----------------------------------------------------------------------------
(* MetricsServer::serve().                                                 *)

\* It moves only while no handler runs on it.
ThreadGoes(from, to) ==
    /\ ~ Ended /\ OnThread("metrics") = {}
    /\ thread = from /\ thread' = to

OpenListener ==
    /\ ThreadGoes("socket", "listen")
    /\ fd' = TRUE
    /\ UNCHANGED << stopper, stopping, running, joinable, scraper, scrapes, causes >>

\* The socket was refused, the port is taken, or stop() closed it meanwhile.
ListenFails ==
    /\ \/ ListenMayFail /\ thread \in {"socket", "listen"}
       \/ thread = "listen" /\ ~ fd
    /\ ThreadGoes(thread, "ended")
    /\ running' = FALSE
    /\ fd' = FALSE
    /\ causes' = causes \cup { c \in {"port"} : running }
    /\ UNCHANGED << stopper, stopping, joinable, scraper, scrapes >>

Listen ==
    /\ fd
    /\ ThreadGoes("listen", "loop")
    /\ UNCHANGED << stopper, stopping, running, fd, joinable, scraper, scrapes, causes >>

TestRunning ==
    /\ ThreadGoes("loop", IF running THEN "accept" ELSE "ended")
    /\ UNCHANGED << stopper, stopping, running, fd, joinable, scraper, scrapes, causes >>

Accept ==
    /\ fd /\ scrapes < MaxScrapes
    /\ scraper' \in Scrapers
    /\ scrapes' = scrapes + 1
    /\ ThreadGoes("accept", "recv")
    /\ UNCHANGED << stopper, stopping, running, fd, joinable, causes >>

\* Variant: a failed accept is tried again without a look at running_.
AcceptFailsRetries ==
    /\ ~ fd
    /\ ThreadGoes("accept", "accept")
    /\ UNCHANGED << stopper, stopping, running, fd, joinable, scraper, scrapes, causes >>

AcceptFails ==
    /\ ~ fd
    /\ ThreadGoes("accept", "loop")
    /\ UNCHANGED << stopper, stopping, running, fd, joinable, scraper, scrapes, causes >>

\* The client sent its request, or closed the connection: on to the next one.
Answer ==
    /\ scraper = "prompt"
    /\ \/ ThreadGoes("recv", "report")
       \/ ThreadGoes("recv", "loop")
    /\ scraper' = "none"
    /\ UNCHANGED << stopper, stopping, running, fd, joinable, scrapes, causes >>

Report ==
    /\ ThreadGoes("report", "loop")
    /\ UNCHANGED << stopper, stopping, running, fd, joinable, scraper, scrapes, causes >>

MetricsThread ==
    /\ \/ OpenListener \/ ListenFails \/ Listen \/ TestRunning
       \/ Accept \/ AcceptFails \/ Answer \/ Report
    /\ UNCHANGED << main, activations, grpc, pool >>

-----------------------------------------------------------------------------
(* Calls of the gRPC clients (external).                                   *)

OpenCall ==
    /\ ~ Ended /\ server = "up" /\ calls < MaxCalls
    /\ calls' = calls + 1
    /\ UNCHANGED << main, activations, metrics, server, shutter, causes, pool >>

\* A call whose thread handles a signal does not end meanwhile.
EndCall ==
    /\ ~ Ended /\ calls > 0 /\ Cardinality(OnThread("call")) < calls
    /\ calls' = calls - 1
    /\ UNCHANGED << main, activations, metrics, server, shutter, causes, pool >>

-----------------------------------------------------------------------------
Handler(k) == HandlerStopsMetrics(k) \/ HandlerJoinsItself(k) \/ HandlerStopsServer(k)
Main ==
    \/ StartServer \/ RegisterMetrics \/ StartMetrics \/ BearThread \/ KeepThread
    \/ WaitReturns \/ MainStopsMetrics \/ Destroy \/ DestroyService

PoolGoes(w) == ~ Ended /\ WorkerStep(w) /\ UNCHANGED << main, activations, metrics, grpc, causes >>
PoolWakes(w) == ~ Ended /\ Wake(w) /\ UNCHANGED << main, activations, metrics, grpc, causes >>

Terminated == Ended /\ UNCHANGED vars

Next ==
    \/ \E n \in Numbers, t \in Others \cup {"main"} : Signal(n, t)
    \/ \E k \in Activation : Handler(k)
    \/ Main \/ MetricsThread
    \/ OpenCall \/ EndCall
    \/ \E w \in Worker : PoolGoes(w) \/ PoolWakes(w)
    \/ Terminated

\* The threads run and open calls end; no signal, no client and no spurious
\* wakeup has to come.
Fairness ==
    /\ \A k \in Activation : WF_vars(Handler(k))
    /\ WF_vars(Main) /\ WF_vars(MetricsThread)
    /\ WF_vars(EndCall)
    /\ \A w \in Worker : WF_vars(PoolGoes(w))

Spec == Init /\ [][Next]_vars /\ Fairness

-----------------------------------------------------------------------------
(* Properties.                                                             *)

\* Type invariant; thread_ is joinable from start() until it is joined, and
\* whoever is past the guard of stop() has cleared running_.
TypeOK ==
    /\ main \in {"boot", "built", "registered", "starting", "born", "waiting", "leaving",
                 "destroying", "pool", "exited", "terminated"}
    /\ signals \in 0 .. MaxSignals
    /\ handler \in [Activation -> {"none", "metrics", "server", "done"}]
    /\ number \in [Activation -> Numbers] /\ on \in [Activation -> Others \cup {"main"}]
    /\ stopper \in Activation \cup {MainItself, Nobody} /\ stopping \in {"close", "join"}
    /\ running \in BOOLEAN /\ fd \in BOOLEAN /\ joinable \in BOOLEAN
    /\ thread \in {"unborn", "socket", "listen", "loop", "accept", "recv", "report", "ended"}
    /\ joinable => thread # "unborn"
    /\ stopper # Nobody => ~ running
    /\ server \in {"none", "null", "up", "draining", "down"}
    /\ shutter \in Activation \cup {Nobody}
    /\ causes \subseteq {"port", "start", "elsewhere"}
    /\ worker \in [Worker -> {"unborn", "test", "to_wait", "waiting", "ended"}]
    /\ stop \in BOOLEAN /\ shutdown \in {"none", "notify", "join", "joined"}
    /\ scrapes \in 0 .. MaxScrapes /\ calls \in 0 .. MaxCalls

\* main destroys the service only when nobody uses it any more: the metrics thread,
\* which reads its statistics by reference (metrics_server.hpp:25), has ended, and
\* no gRPC call is open.
ServiceOutlivesItsUsers ==
    main \in {"pool", "exited"} => thread = "ended" /\ calls = 0

\* Once stop() has closed the listener the thread never accepts again, wherever
\* it was at that moment.
NoScrapeAfterClose ==
    [][ ~ running /\ stopper # Nobody /\ stopping = "join" => scrapes' = scrapes ]_vars

\* std::terminate has three causes and no other: the metrics port was refused, so
\* that no stop() joins the thread; a signal came inside start(), so that stop()
\* found no thread to join; or a repeated signal ran stop() on another thread,
\* which joins itself or is overtaken by main's destructors.
CleanEnd == main = "terminated" => causes # {}

\* A handler waits for its own thread: it calls Shutdown() inside the Shutdown()
\* it interrupted, or on a thread whose call Shutdown() waits for.
WaitsForItself ==
    \E k \in Activation :
        /\ handler[k] = "server" /\ server = "draining"
        /\ \/ on[k] = "call"
           \/ shutter # k /\ shutter \in OnThread(on[k]) /\ on[k] \in {"main", "metrics"}

\* A signal that finds main waiting for the server brings it to the destruction of
\* the service, unless one of CleanEnd's causes comes up or a second signal makes
\* a handler wait for its own thread.
SignalStops ==
    main = "waiting" /\ server = "up" /\ OnThread("main") # {}
        ~> main \in {"pool", "exited"} \/ causes # {} \/ WaitsForItself

\* The destruction of the pool ends, and the process with it, when no worker is
\* between its test of stop_ and its sleep as the others are notified; the worker
\* that is misses the notification, and nothing but a spurious wakeup helps.
PoolEnds == shutdown = "notify" /\ ~ Missing ~> main = "exited"
=============================================================================

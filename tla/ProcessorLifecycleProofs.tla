---------------------- MODULE ProcessorLifecycleProofs ----------------------
(***************************************************************************)
(* Proofs about the end of the C++ processor, for any number of signals,   *)
(* calls, scrapes and workers, signals that interrupt handlers and silent  *)
(* clients of the metrics port included: what may happen on the way to the *)
(* exit, not that it is reached.                                           *)
(***************************************************************************)
EXTENDS ProcessorLifecycle, TLAPS

(***************************************************************************)
(* The inductive invariant: TypeOK in three parts, and what ties them.     *)
(***************************************************************************)
Flags == running \in BOOLEAN /\ fd \in BOOLEAN /\ joinable \in BOOLEAN /\ stop \in BOOLEAN

\* The activations of the handler; one that is past the guard of stop() is still
\* in its first half.
Acts ==
    /\ signals \in 0 .. MaxSignals
    /\ handler \in [Activation -> {"none", "metrics", "server", "done"}]
    /\ number \in [Activation -> Numbers] /\ on \in [Activation -> Others \cup {"main"}]
    /\ \A k \in Activation : signals < k => handler[k] = "none"
    /\ stopper \in Activation => handler[stopper] = "metrics"

Places ==
    /\ main \in {"boot", "built", "registered", "starting", "born", "waiting", "leaving",
                 "destroying", "pool", "exited", "terminated"}
    /\ stopper \in Activation \cup {MainItself, Nobody} /\ stopping \in {"close", "join"}
    /\ thread \in {"unborn", "socket", "listen", "loop", "accept", "recv", "report", "ended"}
    /\ joinable => thread # "unborn"
    /\ stopper # Nobody => ~ running
    /\ server \in {"none", "null", "up", "draining", "down"}
    /\ shutter \in Activation \cup {Nobody}
    /\ causes \subseteq {"port", "start", "elsewhere"}
    /\ worker \in [Worker -> {"unborn", "test", "to_wait", "waiting", "ended"}]
    /\ shutdown \in {"none", "notify", "join", "joined"}
    /\ scrapes \in 0 .. MaxScrapes /\ calls \in 0 .. MaxCalls

\* stop() begins after start() and main has done with it before the destructors.
StopperFits ==
    /\ main \in {"boot", "built", "registered"} => ~ running /\ stopper = Nobody
    /\ main \in {"destroying", "pool", "exited"} => ~ running
    /\ stopper = MainItself => main = "leaving"

\* The thread is born inside start(), and is joined only when it has ended.
ThreadFits ==
    /\ main \in {"boot", "built", "registered", "starting"} => thread = "unborn" /\ ~ joinable
    /\ main = "born" => thread # "unborn" /\ ~ joinable
    /\ main \in {"waiting", "leaving", "destroying", "pool", "exited"} /\ ~ joinable
        => thread = "ended"
    /\ main \in {"pool", "exited"} => ~ joinable

\* Calls are open only while the server is up or draining, and main waits for it.
ServerFits ==
    /\ main = "boot" => server = "none"
    /\ server \in {"none", "null", "down"} => calls = 0
    /\ main \in {"leaving", "destroying", "pool", "exited"} => server \in {"null", "down"}

\* After the listener was closed, a thread that accepts finds it closed.
ListenerFits ==
    stopper # Nobody /\ stopping = "join" /\ thread = "accept" => ~ fd

\* A thread that nobody will join, or that is joined on another thread than main,
\* has one of the three causes.
CausesFit ==
    /\ main \in {"starting", "born"} /\ ~ running => causes # {}
    /\ main \in {"waiting", "leaving", "destroying"} /\ joinable /\ ~ running /\ stopper = Nobody
        => causes # {}
    /\ stopper \in Activation => on[stopper] = "main" \/ causes # {}
    /\ CleanEnd

Fits == Places /\ StopperFits /\ ThreadFits /\ ServerFits /\ ListenerFits /\ CausesFit

IInv == Flags /\ Acts /\ Fits

LEMMA InitEstablishes == Init => IInv
<1> SUFFICES ASSUME Init PROVE IInv
    OBVIOUS
<1> USE ProcessorLifecycleAssumption
<1>1. Flags
    BY DEF Init, PoolInit, Flags
<1>2. Acts
    BY DEF Init, Acts, Numbers, Others, Activation, Nobody
<1>3. Places
    BY DEF Init, PoolInit, Places
<1>4. StopperFits /\ ThreadFits /\ ServerFits /\ ListenerFits
    BY DEF Init, StopperFits, ThreadFits, ServerFits, ListenerFits, MainItself, Nobody
<1>5. CausesFit
    BY DEF Init, CausesFit, CleanEnd, Activation, Nobody
<1> QED
    BY <1>1, <1>2, <1>3, <1>4, <1>5 DEF IInv, Fits

(***************************************************************************)
(* The parts that no step disturbs together with others: flags first.      *)
(***************************************************************************)

\* Every assignment to a flag gives it TRUE, FALSE or the value of no other variable.
LEMMA FlagsKeep == Flags /\ [Next]_vars => Flags'
<1> SUFFICES ASSUME Flags, [Next]_vars PROVE Flags'
    OBVIOUS
<1> USE DEF Flags
<1>1. ASSUME NEW k \in Activation, Handler(k) PROVE Flags'
    BY <1>1 DEF Handler, HandlerStopsMetrics, HandlerJoinsItself, HandlerStopsServer, EnterStop,
                InStop, CloseListener, JoinThread, metrics, pool
<1>2. CASE Main
    BY <1>2 DEF Main, StartServer, RegisterMetrics, StartMetrics, BearThread, KeepThread,
                WaitReturns, MainStopsMetrics, Destroy, DestroyService, StartWorkers, ShutdownStep,
                BeginShutdown, NotifyAll, JoinWorkers, EnterStop, InStop, CloseListener, JoinThread,
                metrics, pool
<1>3. CASE MetricsThread
    BY <1>3 DEF MetricsThread, OpenListener, ListenFails, Listen, TestRunning, Accept, AcceptFails,
                Answer, Report, pool
<1>4. CASE \E w \in Worker : PoolGoes(w) \/ PoolWakes(w)
    BY <1>4 DEF PoolGoes, PoolWakes, WorkerStep, TestStop, Sleep, Wake, metrics
<1>5. ASSUME NEW n \in Numbers, NEW t \in Others \cup {"main"}, Signal(n, t) PROVE Flags'
    BY <1>5 DEF Signal, metrics, pool
<1>6. CASE OpenCall \/ EndCall \/ UNCHANGED vars
    BY <1>6 DEF OpenCall, EndCall, vars, metrics, pool
<1> QED
    BY <1>1, <1>2, <1>3, <1>4, <1>5, <1>6 DEF Next, Terminated

\* The steps of the handler: an activation stays where it is or goes on.
LEMMA HandlerMoves ==
    ASSUME IInv, NEW k \in Activation, NEW from \in {"metrics", "server"},
           NEW to \in {"metrics", "server", "done"},
           HandlerGoes(k, from, to), stopper' = stopper, stopper = k => to = from
    PROVE  Acts'
<1>1. handler[k] = from /\ handler' = [handler EXCEPT ![k] = to]
      /\ UNCHANGED << signals, number, on >>
    BY DEF HandlerGoes
<1>2. handler \in [Activation -> {"none", "metrics", "server", "done"}]
    BY DEF IInv, Acts
<1>3. handler' \in [Activation -> {"none", "metrics", "server", "done"}]
    BY <1>1, <1>2
<1>4. \A j \in Activation : handler'[j] = IF j = k THEN to ELSE handler[j]
    BY <1>1, <1>2
<1> QED
    BY <1>1, <1>3, <1>4 DEF IInv, Acts

\* An interrupted thread gets one activation more; the others stay.
LEMMA SignalKeeps ==
    ASSUME IInv, NEW n \in Numbers, NEW t \in Others \cup {"main"}, Signal(n, t)
    PROVE  Acts' /\ Fits'
<1> USE ProcessorLifecycleAssumption
<1> DEFINE k == signals + 1
<1>1. k \in Activation /\ signals \in Nat /\ signals' = k
    BY DEF Signal, IInv, Acts, Activation
<1>2. handler' = [handler EXCEPT ![k] = "metrics"] /\ number' = [number EXCEPT ![k] = n]
      /\ on' = [on EXCEPT ![k] = t] /\ UNCHANGED << main, metrics, grpc, causes, pool >>
    BY DEF Signal
<1>3. handler[k] = "none"
    BY <1>1 DEF IInv, Acts
<1>4. stopper' = stopper /\ (stopper \in Activation => stopper # k)
    BY <1>2, <1>3 DEF metrics, IInv, Acts
<1> HIDE DEF k
<1>5. /\ handler' \in [Activation -> {"none", "metrics", "server", "done"}]
      /\ number' \in [Activation -> Numbers] /\ on' \in [Activation -> Others \cup {"main"}]
    BY <1>1, <1>2 DEF IInv, Acts
<1>6. \A j \in Activation : j # k => handler'[j] = handler[j] /\ on'[j] = on[j]
    BY <1>1, <1>2 DEF IInv, Acts
<1>7. signals' \in 0 .. MaxSignals /\ \A j \in Activation : signals' < j => j # k /\ signals < j
    BY <1>1 DEF Activation, k
<1>8. Acts'
    BY <1>4, <1>5, <1>6, <1>7 DEF IInv, Acts
<1>9. Places' /\ StopperFits' /\ ThreadFits' /\ ServerFits' /\ ListenerFits'
    BY <1>2 DEF metrics, grpc, pool, IInv, Fits, Places, StopperFits, ThreadFits, ServerFits, ListenerFits
<1>10. CausesFit'
    BY <1>2, <1>4, <1>6 DEF metrics, IInv, Fits, CausesFit, CleanEnd
<1> QED
    BY <1>8, <1>9, <1>10 DEF Fits

\* stop(), whoever calls it (metrics_server.cpp:48-56).
LEMMA StopKeeps ==
    ASSUME IInv, NEW who \in Activation \cup {MainItself},
           who = MainItself => main = "leaving",
           who \in Activation => handler[who] = "metrics",
           EnterStop(who) \/ InStop(who),
           main' = main, handler' = handler, UNCHANGED << signals, number, on >>,
           UNCHANGED << server, shutter, calls >>, UNCHANGED pool
    PROVE  Acts' /\ Fits'
<1> USE ProcessorLifecycleAssumption
<1>0. MainItself = 0 /\ Nobody = -1 /\ Nobody \notin Activation /\ MainItself \notin Activation
    BY DEF MainItself, Nobody, Activation
<1>1. CASE EnterStop(who)
  <2>1. running /\ ~ running' /\ stopper' = who /\ stopping' = "close" /\ stopper = Nobody
      BY <1>1 DEF EnterStop, IInv, Fits, Places
  <2>2. UNCHANGED << fd, thread, joinable, scraper, scrapes >>
      BY <1>1 DEF EnterStop
  <2>3. causes \subseteq causes' /\ causes' \subseteq {"port", "start", "elsewhere"}
      BY <1>1 DEF EnterStop, IInv, Fits, Places
  <2>4. main \in {"starting", "born"} => "start" \in causes'
      BY <1>1 DEF EnterStop
  <2>5. who \in Activation /\ on[who] # "main" => "elsewhere" \in causes'
      BY <1>0, <1>1 DEF EnterStop, Elsewhere
  <2>6. Acts'
      BY <2>1 DEF IInv, Acts
  <2>7. Places'
      BY <2>1, <2>2, <2>3 DEF pool, IInv, Fits, Places
  <2>8. StopperFits' /\ ThreadFits' /\ ServerFits' /\ ListenerFits'
      BY <1>0, <2>1, <2>2 DEF IInv, Fits, StopperFits, ThreadFits, ServerFits, ListenerFits
  <2>9. CausesFit'
    <3>0. who # Nobody
        BY <1>0
    <3>1. ASSUME causes # {} PROVE causes' # {}
      <4>1. PICK c \in causes : TRUE
          BY <3>1
      <4> QED
          BY <4>1, <2>3
    <3>2. main \in {"starting", "born"} => causes' # {}
        BY <2>4
    <3>3. stopper' \in Activation => on'[stopper'] = "main" \/ causes' # {}
        BY <1>0, <2>1, <2>5
    <3>4. CleanEnd'
        BY <3>1 DEF IInv, Fits, CausesFit, CleanEnd
    <3> QED
        BY <2>1, <3>0, <3>2, <3>3, <3>4 DEF CausesFit
  <2> QED
      BY <2>6, <2>7, <2>8, <2>9 DEF Fits
<1>2. CASE CloseListener(who)
  <2>1. stopper = who /\ fd' = FALSE
        /\ UNCHANGED << stopper, running, thread, joinable, scraper, scrapes, causes >>
        /\ stopping' = "join"
      BY <1>2 DEF CloseListener
  <2>2. Acts' /\ Places'
      BY <2>1 DEF pool, IInv, Acts, Fits, Places
  <2>3. StopperFits' /\ ThreadFits' /\ ServerFits' /\ ListenerFits'
      BY <2>1 DEF IInv, Fits, StopperFits, ThreadFits, ServerFits, ListenerFits
  <2>4. CausesFit'
      BY <2>1 DEF IInv, Fits, CausesFit, CleanEnd
  <2> QED
      BY <2>2, <2>3, <2>4 DEF Fits
<1>3. CASE JoinThread(who)
  <2>1. stopper = who /\ stopper' = Nobody /\ (joinable => thread = "ended") /\ joinable' = FALSE
        /\ UNCHANGED << stopping, running, fd, thread, scraper, scrapes, causes >>
      BY <1>3 DEF JoinThread
  <2>2. Acts'
      BY <1>0, <2>1 DEF IInv, Acts
  <2>3. Places' /\ ~ running
      BY <1>0, <2>1 DEF pool, IInv, Fits, Places
  <2>4. StopperFits' /\ ThreadFits' /\ ServerFits' /\ ListenerFits'
      BY <1>0, <2>1, <2>3 DEF IInv, Flags, Fits, StopperFits, ThreadFits, ServerFits, ListenerFits
  <2>5. CausesFit'
      BY <1>0, <2>1, <2>3 DEF IInv, Fits, CausesFit, CleanEnd
  <2> QED
      BY <2>2, <2>3, <2>4, <2>5 DEF Fits
<1> QED
    BY <1>1, <1>2, <1>3 DEF InStop

LEMMA HandlerKeeps == ASSUME IInv, NEW k \in Activation, Handler(k) PROVE Acts' /\ Fits'
<1> USE ProcessorLifecycleAssumption
<1>0. MainItself = 0 /\ Nobody = -1 /\ Nobody \notin Activation /\ MainItself \notin Activation
    BY DEF MainItself, Nobody, Activation
<1>1. CASE HandlerStopsMetrics(k)
  <2>1. CASE (EnterStop(k) \/ InStop(k)) /\ HandlerGoes(k, "metrics", "metrics")
    <3>1. handler[k] = "metrics" /\ handler' = handler /\ UNCHANGED << signals, number, on >>
        BY <2>1 DEF HandlerGoes, IInv, Acts
    <3>2. main' = main /\ UNCHANGED << server, shutter, calls >> /\ UNCHANGED pool
        BY <1>1 DEF HandlerStopsMetrics, grpc
    <3> QED
        BY <1>0, <2>1, <3>1, <3>2, StopKeeps
  <2>2. CASE stopper # k /\ HandlerGoes(k, "metrics", "server") /\ UNCHANGED << metrics, causes >>
    <3>1. UNCHANGED << main, grpc, pool, metrics, causes, on >>
        BY <1>1, <2>2 DEF HandlerStopsMetrics, HandlerGoes
    <3>2. Acts'
        BY <2>2, <3>1, HandlerMoves DEF metrics
    <3>3. Places' /\ StopperFits' /\ ThreadFits' /\ ServerFits' /\ ListenerFits' /\ CausesFit'
        BY <3>1 DEF metrics, grpc, pool, IInv, Fits, Places, StopperFits, ThreadFits, ServerFits,
                    ListenerFits, CausesFit, CleanEnd
    <3> QED
        BY <3>2, <3>3 DEF Fits
  <2> QED
      BY <1>1, <2>1, <2>2 DEF HandlerStopsMetrics
<1>2. CASE HandlerJoinsItself(k)
  <2>1. stopper = k /\ on[k] = "metrics" /\ main' = "terminated" /\ HandlerGoes(k, "metrics", "metrics")
        /\ UNCHANGED << metrics, grpc, causes, pool >>
      BY <1>2 DEF HandlerJoinsItself
  <2>2. Acts' /\ UNCHANGED on
      BY <2>1, HandlerMoves DEF metrics, HandlerGoes
  <2>3. causes # {}
      BY <2>1 DEF IInv, Fits, CausesFit
  <2>4. Places' /\ StopperFits'
      BY <1>0, <2>1 DEF metrics, grpc, pool, IInv, Fits, Places, StopperFits
  <2>5. ThreadFits' /\ ServerFits' /\ ListenerFits'
      BY <2>1 DEF metrics, grpc, IInv, Fits, ThreadFits, ServerFits, ListenerFits
  <2>6. CausesFit'
      BY <2>1, <2>2, <2>3 DEF metrics, IInv, Fits, CausesFit, CleanEnd
  <2> QED
      BY <2>2, <2>4, <2>5, <2>6 DEF Fits
<1>3. CASE HandlerStopsServer(k)
  <2>1. UNCHANGED << main, metrics, calls, causes, pool, on >>
      BY <1>3 DEF HandlerStopsServer, HandlerGoes
  <2>2. stopper # k
    <3>1. handler[k] = "server"
        BY <1>3 DEF HandlerStopsServer, HandlerGoes
    <3> QED
        BY <3>1 DEF IInv, Acts
  <2>3. Acts'
      BY <1>3, <2>1, <2>2, HandlerMoves DEF HandlerStopsServer, metrics
  <2>4. /\ shutter' \in Activation \cup {Nobody}
        /\ \/ server' = server
           \/ server = "up" /\ server' = "draining"
           \/ server = "draining" /\ server' = "down" /\ calls = 0
      BY <1>3 DEF HandlerStopsServer, IInv, Fits, Places
  <2>5. Places' /\ ServerFits'
      BY <2>1, <2>4 DEF metrics, pool, IInv, Fits, Places, ServerFits
  <2>6. StopperFits' /\ ThreadFits' /\ ListenerFits' /\ CausesFit'
      BY <2>1 DEF metrics, IInv, Fits, StopperFits, ThreadFits, ListenerFits, CausesFit, CleanEnd
  <2> QED
      BY <2>3, <2>5, <2>6 DEF Fits
<1> QED
    BY <1>1, <1>2, <1>3 DEF Handler

\* A step of main that leaves the activations and stop() as they were.
LEMMA MainMoves ==
    ASSUME IInv, UNCHANGED activations, stopper' = stopper
    PROVE  Acts'
  BY DEF activations, IInv, Acts

LEMMA MainKeeps == IInv /\ Main => Acts' /\ Fits'
<1> SUFFICES ASSUME IInv, Main PROVE Acts' /\ Fits'
    OBVIOUS
<1> USE ProcessorLifecycleAssumption
<1>0. MainItself = 0 /\ Nobody = -1 /\ Nobody \notin Activation /\ MainItself \notin Activation
    BY DEF MainItself, Nobody, Activation
<1>1. CASE StartServer
  <2>1. main = "boot" /\ main' = "built" /\ server' \in {"up", "null"}
        /\ UNCHANGED << activations, metrics, shutter, calls, causes, shutdown >>
      BY <1>1 DEF StartServer, StartWorkers, MainGoes
  <2>2. worker' \in [Worker -> {"unborn", "test", "to_wait", "waiting", "ended"}]
      BY <1>1 DEF StartServer, StartWorkers
  <2>3. Acts'
      BY <2>1, MainMoves DEF metrics
  <2>4. Places' /\ ServerFits'
      BY <2>1, <2>2 DEF metrics, IInv, Fits, Places, ServerFits
  <2>5. StopperFits' /\ ThreadFits' /\ ListenerFits'
      BY <1>0, <2>1 DEF metrics, IInv, Fits, StopperFits, ThreadFits, ListenerFits
  <2>6. CausesFit'
      BY <1>0, <2>1 DEF metrics, activations, IInv, Fits, CausesFit, CleanEnd
  <2> QED
      BY <2>3, <2>4, <2>5, <2>6 DEF Fits
<1>2. CASE RegisterMetrics
  <2>1. main = "built" /\ main' = "registered"
        /\ UNCHANGED << activations, metrics, server, shutter, calls, causes, pool >>
      BY <1>2 DEF RegisterMetrics, MainGoes
  <2>2. Acts'
      BY <2>1, MainMoves DEF metrics
  <2>3. Fits'
      BY <1>0, <2>1 DEF metrics, pool, activations, IInv, Fits, Places, StopperFits, ThreadFits,
                        ServerFits, ListenerFits, CausesFit, CleanEnd
  <2> QED
      BY <2>2, <2>3
<1>3. CASE StartMetrics
  <2>1. main = "registered" /\ main' = "starting" /\ running' = TRUE
        /\ UNCHANGED << activations, stopper, stopping, fd, thread, joinable, scraper, scrapes,
                        server, shutter, calls, causes, pool >>
      BY <1>3 DEF StartMetrics, MainGoes
  <2>2. Acts'
      BY <2>1, MainMoves
  <2>3. Fits'
      BY <1>0, <2>1 DEF pool, activations, IInv, Fits, Places, StopperFits, ThreadFits,
                        ServerFits, ListenerFits, CausesFit, CleanEnd
  <2> QED
      BY <2>2, <2>3
<1>4. CASE BearThread
  <2>1. main = "starting" /\ main' = "born" /\ thread' = "socket"
        /\ UNCHANGED << activations, stopper, stopping, running, fd, joinable, scraper, scrapes,
                        server, shutter, calls, causes, pool >>
      BY <1>4 DEF BearThread, MainGoes
  <2>2. Acts'
      BY <2>1, MainMoves
  <2>3. Fits'
      BY <1>0, <2>1 DEF pool, activations, IInv, Fits, Places, StopperFits, ThreadFits,
                        ServerFits, ListenerFits, CausesFit, CleanEnd
  <2> QED
      BY <2>2, <2>3
<1>5. CASE KeepThread
  <2>1. main = "born" /\ main' = "waiting" /\ joinable' = TRUE
        /\ UNCHANGED << activations, stopper, stopping, running, fd, thread, scraper, scrapes,
                        server, shutter, calls, causes, pool >>
      BY <1>5 DEF KeepThread, MainGoes
  <2>2. Acts'
      BY <2>1, MainMoves
  <2>3. Places' /\ StopperFits' /\ ThreadFits' /\ ServerFits' /\ ListenerFits'
      BY <1>0, <2>1 DEF pool, IInv, Fits, Places, StopperFits, ThreadFits, ServerFits, ListenerFits
  <2>4. CausesFit'
      BY <2>1 DEF activations, IInv, Fits, CausesFit, CleanEnd
  <2> QED
      BY <2>2, <2>3, <2>4 DEF Fits
<1>6. CASE WaitReturns
  <2>1. main = "waiting" /\ main' = "leaving" /\ server \in {"down", "null"}
        /\ UNCHANGED << activations, metrics, server, shutter, calls, causes, pool >>
      BY <1>6 DEF WaitReturns, MainGoes
  <2>2. Acts'
      BY <2>1, MainMoves DEF metrics
  <2>3. Fits'
      BY <1>0, <2>1 DEF metrics, pool, activations, IInv, Fits, Places, StopperFits, ThreadFits,
                        ServerFits, ListenerFits, CausesFit, CleanEnd
  <2> QED
      BY <2>2, <2>3
<1>7. CASE MainStopsMetrics
  <2>1. main = "leaving" /\ UNCHANGED << activations, server, shutter, calls, pool >>
      BY <1>7 DEF MainStopsMetrics, MainGoes
  <2>2. CASE (EnterStop(MainItself) \/ InStop(MainItself)) /\ main' = main
      BY <1>0, <2>1, <2>2, StopKeeps DEF activations
  <2>3. CASE ~ running /\ stopper # MainItself /\ main' = "destroying" /\ UNCHANGED << metrics, causes >>
    <3>1. Acts'
        BY <2>1, <2>3, MainMoves DEF metrics
    <3>2. Fits'
        BY <1>0, <2>1, <2>3 DEF metrics, pool, activations, IInv, Fits, Places, StopperFits, ThreadFits,
                                ServerFits, ListenerFits, CausesFit, CleanEnd
    <3> QED
        BY <3>1, <3>2
  <2> QED
      BY <1>7, <2>2, <2>3 DEF MainStopsMetrics, MainGoes
<1>8. CASE Destroy
  <2>1. main = "destroying" /\ main' = (IF joinable THEN "terminated" ELSE "pool")
        /\ OnThread("main") = {}
        /\ UNCHANGED << activations, metrics, server, shutter, calls, causes, pool >>
      BY <1>8 DEF Destroy, MainGoes
  <2>2. Acts'
      BY <2>1, MainMoves DEF metrics
  <2>3. joinable => causes # {}
    <3>1. ~ running /\ stopper # MainItself
        BY <2>1 DEF IInv, Fits, StopperFits
    <3>2. stopper \in Activation => on[stopper] # "main"
        BY <2>1 DEF OnThread, IInv, Acts
    <3> QED
        BY <2>1, <3>1, <3>2 DEF IInv, Fits, Places, CausesFit
  <2>4. Places' /\ StopperFits' /\ ThreadFits' /\ ServerFits' /\ ListenerFits'
      BY <1>0, <2>1 DEF metrics, pool, IInv, Flags, Fits, Places, StopperFits, ThreadFits,
                        ServerFits, ListenerFits
  <2>5. CausesFit'
      BY <2>1, <2>3 DEF metrics, activations, IInv, Flags, Fits, CausesFit, CleanEnd
  <2> QED
      BY <2>2, <2>4, <2>5 DEF Fits
<1>9. CASE DestroyService
  <2>1. main = "pool" /\ main' \in {"pool", "exited"}
        /\ UNCHANGED << activations, metrics, server, shutter, calls, causes >>
      BY <1>9 DEF DestroyService, MainGoes
  <2>2. Acts'
      BY <2>1, MainMoves DEF metrics
  <2>3. /\ worker' \in [Worker -> {"unborn", "test", "to_wait", "waiting", "ended"}]
        /\ shutdown' \in {"none", "notify", "join", "joined"}
      BY <1>9 DEF DestroyService, ShutdownStep, BeginShutdown, NotifyAll, JoinWorkers, IInv, Fits, Places
  <2>4. Places'
      BY <2>1, <2>3 DEF metrics, IInv, Fits, Places
  <2>5. StopperFits' /\ ThreadFits' /\ ServerFits' /\ ListenerFits' /\ CausesFit'
      BY <1>0, <2>1 DEF metrics, activations, IInv, Fits, StopperFits, ThreadFits, ServerFits,
                        ListenerFits, CausesFit, CleanEnd
  <2> QED
      BY <2>2, <2>4, <2>5 DEF Fits
<1> QED
    BY <1>1, <1>2, <1>3, <1>4, <1>5, <1>6, <1>7, <1>8, <1>9 DEF Main

\* The thread changes neither main nor stop(); it clears running_ only when it
\* gives up, and says so.
LEMMA ThreadKeeps == IInv /\ MetricsThread => Acts' /\ Fits'
<1> SUFFICES ASSUME IInv, MetricsThread PROVE Acts' /\ Fits'
    OBVIOUS
<1> USE ProcessorLifecycleAssumption
<1>1. UNCHANGED << main, activations, server, shutter, calls, pool, stopper, stopping, joinable >>
    BY DEF MetricsThread, grpc, OpenListener, ListenFails, Listen, TestRunning, Accept, AcceptFails,
           Answer, Report
<1>2. thread \notin {"unborn", "ended"} /\ thread' # "unborn"
      /\ thread' \in {"socket", "listen", "loop", "accept", "recv", "report", "ended"}
    BY DEF MetricsThread, ThreadGoes, OpenListener, ListenFails, Listen, TestRunning, Accept,
           AcceptFails, Answer, Report
<1>3. scrapes' \in 0 .. MaxScrapes
    BY DEF MetricsThread, OpenListener, ListenFails, Listen, TestRunning, Accept, AcceptFails,
           Answer, Report, IInv, Fits, Places
<1>4. /\ causes \subseteq causes' /\ causes' \subseteq {"port", "start", "elsewhere"}
      /\ running' = running \/ (running' = FALSE /\ (running => "port" \in causes'))
    BY DEF MetricsThread, OpenListener, ListenFails, Listen, TestRunning, Accept, AcceptFails,
           Answer, Report, IInv, Fits, Places
<1>5. thread' = "accept" => running
    BY DEF MetricsThread, ThreadGoes, OpenListener, ListenFails, Listen, TestRunning, Accept,
           AcceptFails, Answer, Report
<1>6. causes # {} => causes' # {}
    BY <1>4
<1>7. Acts'
    BY <1>1, MainMoves
<1>8. Places'
    BY <1>1, <1>2, <1>3, <1>4 DEF pool, IInv, Flags, Fits, Places
<1>9. StopperFits' /\ ServerFits'
    BY <1>1, <1>4 DEF IInv, Flags, Fits, StopperFits, ServerFits
<1>10. ThreadFits'
    BY <1>1, <1>2 DEF IInv, Flags, Fits, ThreadFits
<1>11. ListenerFits'
    BY <1>1, <1>5 DEF IInv, Fits, Places, ListenerFits
<1>12. CausesFit'
  <2>1. CASE running' = running
      BY <1>1, <1>6, <2>1 DEF activations, IInv, Fits, CausesFit, CleanEnd
  <2>2. CASE running' = FALSE /\ running
    <3>1. causes' # {}
        BY <1>4, <2>2
    <3> QED
        BY <1>1, <3>1 DEF CausesFit, CleanEnd
  <2> QED
      BY <1>4, <2>1, <2>2 DEF IInv, Flags
<1> QED
    BY <1>7, <1>8, <1>9, <1>10, <1>11, <1>12 DEF Fits

LEMMA NextKeeps == IInv /\ [Next]_vars => Acts' /\ Fits'
<1> SUFFICES ASSUME IInv, [Next]_vars PROVE Acts' /\ Fits'
    OBVIOUS
<1> USE ProcessorLifecycleAssumption
<1>1. ASSUME NEW n \in Numbers, NEW t \in Others \cup {"main"}, Signal(n, t)
      PROVE  Acts' /\ Fits'
    BY <1>1, SignalKeeps
<1>2. ASSUME NEW k \in Activation, Handler(k)
      PROVE  Acts' /\ Fits'
    BY <1>2, HandlerKeeps
<1>3. CASE Main
    BY <1>3, MainKeeps
<1>4. CASE MetricsThread
    BY <1>4, ThreadKeeps
<1>5. CASE OpenCall \/ EndCall
  <2>1. UNCHANGED << main, activations, metrics, server, shutter, causes, pool >>
      BY <1>5 DEF OpenCall, EndCall
  <2>2. calls' \in 0 .. MaxCalls /\ (calls' = 0 \/ server \notin {"none", "null", "down"})
        /\ (calls = 0 => calls' = 0 \/ server = "up")
      BY <1>5 DEF OpenCall, EndCall, IInv, Fits, Places, ServerFits
  <2>3. Acts'
      BY <2>1, MainMoves DEF metrics
  <2>4. Places' /\ ServerFits'
      BY <2>1, <2>2 DEF metrics, pool, IInv, Fits, Places, ServerFits
  <2>5. StopperFits' /\ ThreadFits' /\ ListenerFits' /\ CausesFit'
      BY <2>1 DEF metrics, activations, IInv, Fits, StopperFits, ThreadFits, ListenerFits, CausesFit,
                  CleanEnd
  <2> QED
      BY <2>3, <2>4, <2>5 DEF Fits
<1>6. ASSUME NEW w \in Worker, PoolGoes(w) \/ PoolWakes(w)
      PROVE  Acts' /\ Fits'
  <2>1. UNCHANGED << main, activations, metrics, grpc, causes, shutdown >>
      BY <1>6 DEF PoolGoes, PoolWakes, WorkerStep, TestStop, Sleep, Wake
  <2>2. worker' \in [Worker -> {"unborn", "test", "to_wait", "waiting", "ended"}]
      BY <1>6 DEF PoolGoes, PoolWakes, WorkerStep, TestStop, Sleep, Wake, WorkerGoes, IInv, Fits, Places
  <2>3. Acts'
      BY <2>1, MainMoves DEF metrics
  <2>4. Places'
      BY <2>1, <2>2 DEF metrics, grpc, IInv, Fits, Places
  <2>5. StopperFits' /\ ThreadFits' /\ ServerFits' /\ ListenerFits' /\ CausesFit'
      BY <2>1 DEF metrics, grpc, activations, IInv, Fits, StopperFits, ThreadFits, ServerFits,
                  ListenerFits, CausesFit, CleanEnd
  <2> QED
      BY <2>3, <2>4, <2>5 DEF Fits
<1>7. CASE UNCHANGED vars
  <2>1. UNCHANGED << main, activations, metrics, grpc, causes, pool >>
      BY <1>7 DEF vars
  <2>2. Acts'
      BY <2>1, MainMoves DEF metrics
  <2>3. Fits'
      BY <2>1 DEF metrics, grpc, pool, activations, IInv, Fits, Places, StopperFits, ThreadFits,
                  ServerFits, ListenerFits, CausesFit, CleanEnd
  <2> QED
      BY <2>2, <2>3
<1> QED
    BY <1>1, <1>2, <1>3, <1>4, <1>5, <1>6, <1>7 DEF Next, Terminated

LEMMA Invariance == Spec => []IInv
<1>1. Init => IInv
    BY InitEstablishes
<1>2. IInv /\ [Next]_vars => IInv'
    BY FlagsKeep, NextKeeps DEF IInv
<1> QED
    BY <1>1, <1>2, PTL DEF Spec

\* Every variable keeps its range, thread_ is joinable only once it was started, and
\* whoever is past the guard of stop() has cleared running_.
THEOREM TypeCorrect == Spec => []TypeOK
<1>1. IInv => TypeOK
    BY DEF IInv, Flags, Acts, Fits, Places, TypeOK
<1> QED
    BY <1>1, Invariance, PTL

\* main destroys the service, and with it the statistics the metrics thread reads
\* by reference, only when that thread has ended and no gRPC call is open.
THEOREM ServiceIsUsedNoMore == Spec => []ServiceOutlivesItsUsers
<1>1. IInv => ServiceOutlivesItsUsers
    BY DEF IInv, Flags, Fits, Places, ThreadFits, ServerFits, ServiceOutlivesItsUsers
<1> QED
    BY <1>1, Invariance, PTL

\* The process ends in std::terminate only when the metrics port was refused, a
\* signal came inside start(), or a repeated one ran stop() on another thread.
THEOREM TerminateHasCauses == Spec => []CleanEnd
<1>1. IInv => CleanEnd
    BY DEF IInv, Fits, CausesFit
<1> QED
    BY <1>1, Invariance, PTL

\* Once stop() has closed the listener no connection is accepted, whoever runs
\* stop() and wherever the thread was.
THEOREM ClosedMeansClosed == Spec => NoScrapeAfterClose
<1>1. ASSUME IInv, [Next]_vars, ~ running, stopper # Nobody, stopping = "join"
      PROVE  scrapes' = scrapes
  <2>1. CASE MetricsThread
      BY <1>1, <2>1 DEF MetricsThread, OpenListener, ListenFails, Listen, TestRunning, Accept,
                        AcceptFails, Answer, Report, ThreadGoes, IInv, Flags, Fits, ListenerFits
  <2>2. ASSUME NEW k \in Activation, Handler(k) PROVE scrapes' = scrapes
      BY <2>2 DEF metrics, Handler, HandlerStopsMetrics, HandlerJoinsItself, HandlerStopsServer,
                  EnterStop, InStop, CloseListener, JoinThread
  <2>3. CASE Main
      BY <2>3 DEF Main, metrics, StartServer, RegisterMetrics, StartMetrics, BearThread, KeepThread,
                  WaitReturns, MainStopsMetrics, Destroy, DestroyService, EnterStop, InStop,
                  CloseListener, JoinThread
  <2>4. ASSUME NEW n \in Numbers, NEW t \in Others \cup {"main"}, Signal(n, t)
        PROVE  scrapes' = scrapes
      BY <2>4 DEF Signal, metrics
  <2>5. CASE OpenCall \/ EndCall \/ UNCHANGED vars \/ \E w \in Worker : PoolGoes(w) \/ PoolWakes(w)
      BY <2>5 DEF OpenCall, EndCall, PoolGoes, PoolWakes, vars, metrics
  <2> QED
      BY <1>1, <2>1, <2>2, <2>3, <2>4, <2>5 DEF Next, Terminated
<1> QED
    BY <1>1, Invariance, PTL DEF Spec, NoScrapeAfterClose
=============================================================================

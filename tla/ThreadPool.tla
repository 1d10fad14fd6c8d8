----------------------------- MODULE ThreadPool -----------------------------
(***************************************************************************)
(* The workers of the C++ processor's thread pool and its shutdown         *)
(* (ThreadPool in processor-cpp/src/server/grpc_server.cpp:12-47).  The    *)
(* service owns a pool and enqueues nothing on it: tasks_ stays empty, and *)
(* what the pool does is to start its workers, let them wait, and join     *)
(* them when it is destroyed.                                              *)
(*                                                                         *)
(* stop_ is atomic and shutdown() takes no mutex: a worker that has tested *)
(* stop_ and not yet gone to sleep does not hear notify_all().  The        *)
(* condition variable may wake a worker without being notified.            *)
(***************************************************************************)
CONSTANT Worker   \* the threads of workers_

VARIABLES worker,   \* where each thread is: "unborn", "test", "to_wait", "waiting" or "ended"
          stop,     \* stop_
          shutdown  \* where shutdown() is: "none", "notify", "join" or "joined"

pool == << worker, stop, shutdown >>

PoolInit ==
    /\ worker = [w \in Worker |-> "unborn"]
    /\ stop = FALSE
    /\ shutdown = "none"

\* The constructor.
StartWorkers ==
    /\ worker' = [w \in Worker |-> "test"]
    /\ UNCHANGED << stop, shutdown >>

WorkerGoes(w, from, to) == worker[w] = from /\ worker' = [worker EXCEPT ![w] = to]

\* The predicate of wait(), tested with the mutex held, which a worker that is
\* told to sleep keeps until it does.
TestStop(w) ==
    /\ \A v \in Worker : worker[v] # "to_wait"
    /\ WorkerGoes(w, "test", IF stop THEN "ended" ELSE "to_wait")
    /\ UNCHANGED << stop, shutdown >>

Sleep(w) ==
    /\ WorkerGoes(w, "to_wait", "waiting")
    /\ UNCHANGED << stop, shutdown >>

\* A spurious wakeup.
Wake(w) ==
    /\ WorkerGoes(w, "waiting", "test")
    /\ UNCHANGED << stop, shutdown >>

BeginShutdown ==
    /\ shutdown = "none"
    /\ stop' = TRUE
    /\ shutdown' = "notify"
    /\ UNCHANGED worker

\* Variant: notify_one().
NotifyOne ==
    /\ shutdown = "notify"
    /\ \/ \E w \in Worker : WorkerGoes(w, "waiting", "test")
       \/ (\A w \in Worker : worker[w] # "waiting") /\ UNCHANGED worker
    /\ shutdown' = "join"
    /\ UNCHANGED stop

NotifyAll ==
    /\ shutdown = "notify"
    /\ worker' = [w \in Worker |-> IF worker[w] = "waiting" THEN "test" ELSE worker[w]]
    /\ shutdown' = "join"
    /\ UNCHANGED stop

JoinWorkers ==
    /\ shutdown = "join"
    /\ \A w \in Worker : worker[w] = "ended"
    /\ shutdown' = "joined"
    /\ UNCHANGED << worker, stop >>

ShutdownStep == BeginShutdown \/ NotifyAll \/ JoinWorkers

WorkerStep(w) == TestStop(w) \/ Sleep(w)

\* The workers are about to be notified, and one of them is about to sleep.
Missing == shutdown = "notify" /\ \E w \in Worker : worker[w] = "to_wait"
=============================================================================

---------------------------- MODULE GatewayProofs ----------------------------
(***************************************************************************)
(* Proofs about the gateway, for any numbers of requests of each kind, of  *)
(* processors and of tokens: bursts are bounded, the pool's lock is held   *)
(* by who should hold it, turns are fair, a sticky index is honoured, and  *)
(* the pool's connections outlive the requests that Shutdown waits for.    *)
(***************************************************************************)
EXTENDS Gateway, TLAPS

(***************************************************************************)
(* The rate limiter.                                                       *)
(***************************************************************************)

\* Tokens, ticks on their way and the admissions so far stay within the budget.
LimiterInv == TypeOK /\ BudgetKept

\* The full bucket that NewRateLimiter builds is within the budget.
LEMMA LimiterInit == Init => LimiterInv
  BY RateLimiterAssumption DEF Init, LimiterInv, TypeOK, BudgetKept

\* A tick may add one token later and starts a new window (metrics.go:150-159).
LEMMA TickKeeps == LimiterInv /\ Tick => LimiterInv'
<1> SUFFICES ASSUME LimiterInv, Tick PROVE LimiterInv'
    OBVIOUS
<1> USE RateLimiterAssumption
<1>1. at' = [t \in 0 .. now + 1 |-> IF t <= now THEN at[t] ELSE admitted]
    BY DEF Tick
<1>2. TypeOK'
    BY <1>1 DEF LimiterInv, TypeOK, Tick
<1>3. ASSUME NEW t \in 0 .. now'
      PROVE  admitted' + tokens' + pending' + held' <= at'[t] + Rps + 2 + (now' - t)
  <2>1. CASE t <= now
    <3>1. at'[t] = at[t] /\ t \in 0 .. now
        BY <1>1, <1>3, <2>1 DEF Tick, LimiterInv, TypeOK
    <3>2. admitted + tokens + pending + held <= at[t] + Rps + 2 + (now - t)
        BY <3>1 DEF LimiterInv, BudgetKept
    <3>3. at[t] \in Nat
        BY <3>1 DEF LimiterInv, TypeOK
    <3>4. CASE pending = 1
        BY <3>1, <3>2, <3>3, <3>4 DEF Tick, LimiterInv, TypeOK
    <3>5. CASE pending = 0
        BY <3>1, <3>2, <3>3, <3>5 DEF Tick, LimiterInv, TypeOK
    <3> QED
        BY <3>4, <3>5 DEF LimiterInv, TypeOK
  <2>2. CASE t = now + 1
    <3>1. at'[t] = admitted
        BY <1>1, <2>2 DEF LimiterInv, TypeOK
    <3> QED
        BY <3>1, <2>2 DEF Tick, LimiterInv, TypeOK
  <2> QED
      BY <1>3, <2>1, <2>2 DEF Tick, LimiterInv, TypeOK
<1> QED
    BY <1>2, <1>3 DEF LimiterInv, BudgetKept

\* The goroutine's receive moves a tick from the ticker's channel into its hand
\* (metrics.go:153).
LEMMA ReceiveKeeps == LimiterInv /\ ReceiveTick => LimiterInv'
<1> SUFFICES ASSUME LimiterInv, ReceiveTick PROVE LimiterInv'
    OBVIOUS
<1> USE RateLimiterAssumption
<1>1. TypeOK'
    BY DEF LimiterInv, TypeOK, ReceiveTick
<1>2. ASSUME NEW t \in 0 .. now
      PROVE  admitted' + tokens' + pending' + held' <= at'[t] + Rps + 2 + (now - t)
  <2>1. admitted + tokens + pending + held <= at[t] + Rps + 2 + (now - t)
      BY <1>2 DEF LimiterInv, BudgetKept
  <2>2. at[t] \in Nat /\ at' = at
      BY <1>2 DEF LimiterInv, TypeOK, ReceiveTick
  <2> QED
      BY <1>2, <2>1, <2>2 DEF ReceiveTick, LimiterInv, TypeOK
<1> QED
    BY <1>1, <1>2 DEF LimiterInv, BudgetKept, ReceiveTick

\* The send turns the tick in hand into a token or drops it (metrics.go:154-157).
LEMMA RefillKeeps == LimiterInv /\ Refill => LimiterInv'
<1> SUFFICES ASSUME LimiterInv, Refill PROVE LimiterInv'
    OBVIOUS
<1> USE RateLimiterAssumption
<1>1. TypeOK'
    BY DEF LimiterInv, TypeOK, Refill
<1>2. ASSUME NEW t \in 0 .. now
      PROVE  admitted' + tokens' + pending' + held' <= at'[t] + Rps + 2 + (now - t)
  <2>1. admitted + tokens + pending + held <= at[t] + Rps + 2 + (now - t)
      BY <1>2 DEF LimiterInv, BudgetKept
  <2>2. at[t] \in Nat /\ at' = at
      BY <1>2 DEF LimiterInv, TypeOK, Refill
  <2> QED
      BY <1>2, <2>1, <2>2 DEF Refill, LimiterInv, TypeOK
<1> QED
    BY <1>1, <1>2 DEF LimiterInv, BudgetKept, Refill

\* An admission takes its token with it.
LEMMA AllowKeeps == LimiterInv /\ Allow => LimiterInv'
<1> SUFFICES ASSUME LimiterInv, Allow PROVE LimiterInv'
    OBVIOUS
<1> USE RateLimiterAssumption
<1>1. TypeOK'
    BY DEF LimiterInv, TypeOK, Allow
<1>2. ASSUME NEW t \in 0 .. now
      PROVE  admitted' + tokens' + pending' + held' <= at'[t] + Rps + 2 + (now - t)
  <2>1. admitted + tokens + pending + held <= at[t] + Rps + 2 + (now - t)
      BY <1>2 DEF LimiterInv, BudgetKept
  <2>2. at[t] \in Nat /\ at' = at
      BY <1>2 DEF LimiterInv, TypeOK, Allow
  <2> QED
      BY <1>2, <2>1, <2>2 DEF Allow, LimiterInv, TypeOK
<1> QED
    BY <1>1, <1>2 DEF LimiterInv, BudgetKept, Allow

\* The budget is an invariant of the limiter.
LEMMA LimiterInvariance == Spec => []LimiterInv
<1>1. LimiterInv /\ [Next]_vars => LimiterInv'
  <2>1. LimiterInv /\ UNCHANGED vars => LimiterInv'
      BY DEF LimiterInv, TypeOK, BudgetKept, vars
  <2> QED
      BY <2>1, TickKeeps, ReceiveKeeps, RefillKeeps, AllowKeeps DEF Next, TimeIsUp
<1> QED
    BY LimiterInit, <1>1, PTL DEF Spec

\* The token channel never exceeds its capacity.
THEOREM LimiterTypeCorrect == Spec => []TypeOK
<1>1. LimiterInv => TypeOK
    BY DEF LimiterInv
<1> QED
    BY LimiterInvariance, <1>1, PTL

\* Whatever the rate and the window, a burst is at most a full bucket, the ticks
\* of the window and two more: the tick in the goroutine's hand and the one the
\* ticker keeps for it.
THEOREM BurstsAreBounded == Spec => []BurstBounded
<1>1. LimiterInv => BurstBounded
  <2> SUFFICES ASSUME LimiterInv, NEW t \in 0 .. now
               PROVE  admitted - at[t] <= Rps + 2 + (now - t)
      BY DEF BurstBounded
  <2>1. admitted + tokens + pending + held <= at[t] + Rps + 2 + (now - t)
      BY DEF LimiterInv, BudgetKept
  <2>2. at[t] \in Nat
      BY DEF LimiterInv, TypeOK
  <2> QED
      BY <2>1, <2>2, RateLimiterAssumption DEF LimiterInv, TypeOK
<1> QED
    BY LimiterInvariance, <1>1, PTL

(***************************************************************************)
(* The limiter within the gateway: its middleware admits a request before  *)
(* anything else is done for it, and nothing else touches the limiter.     *)
(***************************************************************************)
LEMMA LimiterSteps ==
    ASSUME [GatewayNext]_gatewayVars
    PROVE  [Next]_vars
<1> USE DEF limiter, vars, Next
<1>1. CASE Ticker
    BY <1>1 DEF Ticker, Tick, ReceiveTick, Refill
<1>2. ASSUME NEW r \in Routed, Admit(r) PROVE [Next]_vars
    BY <1>2 DEF Admit, Arrive, Step, Allow
<1>3. ASSUME NEW r \in Routed, Refuse(r) PROVE [Next]_vars
    BY <1>3 DEF Refuse, Arrive, Step
<1>4. ASSUME NEW w \in Sockets, ReadMessage(w) PROVE [Next]_vars
    BY <1>4 DEF ReadMessage, Step
<1>5. ASSUME NEW w \in Sockets, SocketCloses(w) PROVE [Next]_vars
    BY <1>5 DEF SocketCloses, Step, Forget
<1>6. ASSUME NEW h \in Probes, ProbeArrives(h) PROVE [Next]_vars
    BY <1>6 DEF ProbeArrives, Arrive, Step
<1>7. ASSUME NEW a \in Admins, AdminArrives(a) PROVE [Next]_vars
    BY <1>7 DEF AdminArrives, Arrive, Step
<1>8. CASE ListenFails
    BY <1>8 DEF ListenFails, ProcessEnds
<1>9. CASE Signal
    BY <1>9 DEF Signal, Main
<1>10. CASE Drained
    BY <1>10 DEF Drained, Main
<1>11. CASE ShutdownExpires
    BY <1>11 DEF ShutdownExpires, Main
<1>12. CASE ClosePool
    BY <1>12 DEF ClosePool, Main, CloseWaits, CloseAll
<1>13. CASE Exit
    BY <1>13 DEF Exit, ProcessEnds
<1>14. ASSUME NEW r \in Routed, GetClient(r) PROVE [Next]_vars
    BY <1>14 DEF GetClient, Step, GetLoad, Onward
<1>15. ASSUME NEW r \in Routed, GetTurn(r) PROVE [Next]_vars
    BY <1>15 DEF GetTurn, Step, GetAdd, RUnlock, Onward
<1>16. ASSUME NEW f \in Frames, FrameEnds(f) PROVE [Next]_vars
    BY <1>16 DEF FrameEnds, CallEnds, Step, Forget
<1>17. ASSUME NEW w \in Sockets, MessageEnds(w) PROVE [Next]_vars
    BY <1>17 DEF MessageEnds, CallEnds, Step, Forget
<1>18. ASSUME NEW h \in Probes, ProbeLocks(h) PROVE [Next]_vars
    BY <1>18 DEF ProbeLocks, Step, HealthBegins, RLock
<1>19. ASSUME NEW h \in Probes, PollEnds(h) PROVE [Next]_vars
    BY <1>19 DEF PollEnds, Step
<1>20. ASSUME NEW h \in Probes, ProbeUnlocks(h) PROVE [Next]_vars
    BY <1>20 DEF ProbeUnlocks, Step, HealthEnds, RUnlock
<1>21. ASSUME NEW h \in Probes, ProbeLooks(h) PROVE [Next]_vars
    BY <1>21 DEF ProbeLooks, Step, Look
<1>22. ASSUME NEW a \in Admins, AdminChecks(a) PROVE [Next]_vars
    BY <1>22 DEF AdminChecks, Step, IndexExists, IndexMissing
<1>23. ASSUME NEW a \in Admins, AdminStores(a) PROVE [Next]_vars
    BY <1>23 DEF AdminStores, Step, StoreSticky, Promised
<1>24. CASE UNCHANGED gatewayVars
    BY <1>24 DEF gatewayVars
<1> QED
    BY <1>1, <1>2, <1>3, <1>4, <1>5, <1>6, <1>7, <1>8, <1>9, <1>10, <1>11,
       <1>12, <1>13, <1>14, <1>15, <1>16, <1>17, <1>18, <1>19, <1>20, <1>21,
       <1>22, <1>23, <1>24
       DEF GatewayNext, Clients, Handle, Stop, Done

\* Bursts are bounded for all the requests of the gateway together.
THEOREM GatewayBurstsAreBounded == GatewaySpec => []BurstBounded
<1>1. GatewaySpec => Spec
  <2>1. GatewayInit => Init
      BY DEF GatewayInit
  <2>2. [GatewayNext]_gatewayVars => [Next]_vars
      BY LimiterSteps
  <2> QED BY <2>1, <2>2, PTL DEF GatewaySpec, Spec
<1> QED BY <1>1, BurstsAreBounded, PTL

(***************************************************************************)
(* The pool and its callers.  Which points of its handler a request can be *)
(* at depends on its kind, and with that who can hold the read lock.       *)
(***************************************************************************)

Places(r) ==
    /\ r \in Frames => pc[r] \in {"new", "get", "add", "call", "done"}
    /\ r \in Sockets => pc[r] \in {"new", "get", "add", "call", "read", "done"}
    /\ r \in Probes => pc[r] \in {"new", "lock", "poll", "addrs", "done"}
    /\ r \in Admins => pc[r] \in {"new", "check", "store", "done"}

\* The client a frame or socket has got is told by its place.
Gotten(r) ==
    /\ pc[r] \in {"new", "get", "done"} => client[r] = NoClient
    /\ pc[r] = "add" => client[r] = Undecided
    /\ pc[r] \in {"call", "read"} => client[r] \in Processor

PoolInv ==
    /\ GatewayTypeOK
    /\ \A r \in Request : Places(r)
    /\ \A r \in Routed : Gotten(r)

\* What Get finds: nothing after Close, the sticky client, or that the counter
\* decides.
LEMMA RouteIs ==
    ASSUME clients \in {0, Processors}, sticky \in Processor \cup {RoundRobin}
    PROVE  /\ clients = 0 => Route = NoClient
           /\ clients # 0 /\ sticky \in Processor => Route = sticky /\ sticky >= 0
           /\ clients # 0 /\ sticky = RoundRobin => Route = Undecided
           /\ Route \in Processor \cup {Undecided, NoClient}
           /\ NoClient \notin Processor /\ Undecided \notin Processor
BY ProcessorPoolAssumption DEF Route, Processor, RoundRobin, NoClient, Undecided

\* The counter gives a processor there is: no Close comes between the halves of a Get.
LEMMA TurnIs ==
    ASSUME PoolInv, NEW r \in Routed, pc[r] = "add"
    PROVE  clients = Processors /\ Turn = (current + 1) % Processors /\ Turn \in Processor
<1>1. r \in readers /\ r \notin Probes
    BY GatewayAssumption DEF PoolInv, GatewayTypeOK, Routed, Request, Waited
<1>2. clients = Processors
    BY <1>1 DEF PoolInv, GatewayTypeOK
<1> QED
    BY <1>2, ProcessorPoolAssumption DEF Turn, Processor, PoolInv, GatewayTypeOK

\* The pool starts with no reader.
LEMMA PoolInvInit == GatewayInit => PoolInv
<1> SUFFICES ASSUME GatewayInit PROVE PoolInv
    OBVIOUS
<1>1. GatewayTypeOK
  <2>1. \A r \in Request : pc[r] = "new"
      BY DEF GatewayInit
  <2>2. readers = { r \in Request : pc[r] \in {"add", "poll"} }
      BY <2>1 DEF GatewayInit, PoolInit
  <2>3. /\ clients \in {0, Processors} /\ current \in Nat /\ sticky \in Processor \cup {RoundRobin}
        /\ clients = 0 => readers \subseteq Probes
        /\ {expired, closing} \subseteq BOOLEAN
      BY DEF GatewayInit, PoolInit
  <2>4. /\ index \in [Admins -> Int] /\ \A a \in Admins : index[a] < Processors
      BY ProcessorPoolAssumption DEF GatewayInit, NoIndex, RoundRobin
  <2>5. client \in [Routed -> Processor \cup {Undecided, NoClient}]
      BY DEF GatewayInit, NoClients
  <2>6. polled \in [Probes -> 0 .. Processors]
      BY ProcessorPoolAssumption DEF GatewayInit, NonePolled
  <2> QED BY <2>2, <2>3, <2>4, <2>5, <2>6 DEF GatewayTypeOK, GatewayInit
<1> QED
    BY <1>1 DEF PoolInv, GatewayInit, Places, Gotten, NoClients, Routed, Request, Waited

\* The end of the process ends every handler.
LEMMA EndedFits ==
    ASSUME PoolInv,
           pc' = [q \in Request |-> "done"],
           client' = NoClients, index' = NoIndex, polled' = NonePolled, readers' = {},
           server' = "exited",
           UNCHANGED << clients, current, sticky, closing, expired >>
    PROVE  PoolInv'
<1>1. \A r \in Request : pc'[r] = "done"
    OBVIOUS
<1>2. readers' = { r \in Request : pc'[r] \in {"add", "poll"} }
    BY <1>1
<1>3. /\ index' \in [Admins -> Int] /\ \A a \in Admins : index'[a] < Processors
    BY ProcessorPoolAssumption DEF NoIndex, RoundRobin
<1>4. polled' \in [Probes -> 0 .. Processors]
    BY ProcessorPoolAssumption DEF NonePolled
<1>5. client' \in [Routed -> Processor \cup {Undecided, NoClient}]
    BY DEF NoClients
<1>6. GatewayTypeOK'
    BY <1>2, <1>3, <1>4, <1>5 DEF GatewayTypeOK, PoolInv
<1> QED
    BY <1>1, <1>6 DEF PoolInv, Places, Gotten, NoClients, Routed, Request, Waited

\* Every step of the gateway keeps the pool's invariant.
LEMMA PoolStep ==
    ASSUME PoolInv, [GatewayNext]_gatewayVars
    PROVE  PoolInv'
<1> USE GatewayAssumption, ProcessorPoolAssumption, RouteIs
    DEF PoolInv, GatewayTypeOK, Places, Gotten, Request, Waited, Routed, poolVars
<1>1. CASE Ticker
    BY <1>1 DEF Ticker, Tick, ReceiveTick, Refill
<1>2. ASSUME NEW r \in Routed, Admit(r) PROVE PoolInv'
    BY <1>2 DEF Admit, Arrive, Step, Allow
<1>3. ASSUME NEW r \in Routed, Refuse(r) PROVE PoolInv'
    BY <1>3 DEF Refuse, Arrive, Step
<1>4. ASSUME NEW w \in Sockets, ReadMessage(w) PROVE PoolInv'
    BY <1>4 DEF ReadMessage, Step
<1>5. ASSUME NEW w \in Sockets, SocketCloses(w) PROVE PoolInv'
    BY <1>5 DEF SocketCloses, Step, Forget
<1>6. ASSUME NEW h \in Probes, ProbeArrives(h) PROVE PoolInv'
    BY <1>6 DEF ProbeArrives, Arrive, Step
<1>7. ASSUME NEW a \in Admins, AdminArrives(a) PROVE PoolInv'
    BY <1>7 DEF AdminArrives, Arrive, Step
<1>8. CASE ListenFails
  <2>1. /\ pc' = [q \in Request |-> "done"]
        /\ client' = NoClients /\ index' = NoIndex /\ polled' = NonePolled /\ readers' = {}
        /\ server' = "exited"
        /\ UNCHANGED << clients, current, sticky, closing, expired >>
      BY <1>8 DEF ListenFails, Exit, ProcessEnds
  <2> QED BY <2>1, EndedFits
<1>9. CASE Signal
    BY <1>9 DEF Signal, Main
<1>10. CASE Drained
    BY <1>10 DEF Drained, Main
<1>11. CASE ShutdownExpires
    BY <1>11 DEF ShutdownExpires, Main
<1>12. CASE ClosePool
    BY <1>12 DEF ClosePool, Main, CloseWaits, CloseAll
<1>13. CASE Exit
  <2>1. /\ pc' = [q \in Request |-> "done"]
        /\ client' = NoClients /\ index' = NoIndex /\ polled' = NonePolled /\ readers' = {}
        /\ server' = "exited"
        /\ UNCHANGED << clients, current, sticky, closing, expired >>
      BY <1>13 DEF ListenFails, Exit, ProcessEnds
  <2> QED BY <2>1, EndedFits
<1>14. ASSUME NEW r \in Routed, GetClient(r) PROVE PoolInv'
  <2>1. /\ pc[r] = "get" /\ server' = server /\ expired' = expired /\ polled' = polled
        /\ index' = index /\ clients' = clients /\ current' = current /\ sticky' = sticky
        /\ closing' = closing /\ client' = [client EXCEPT ![r] = Route]
      BY <1>14 DEF GetClient, Step, GetLoad
  <2> DEFINE to == CASE Route = NoClient -> "done"
                     [] Route = Undecided -> "add"
                     [] Route \in Processor -> Onward(r)
  <2>2. pc' = [pc EXCEPT ![r] = to]
      BY <1>14 DEF GetClient, Step
  <2>3. NoClient # Undecided /\ NoClient \notin Processor /\ Undecided \notin Processor
      BY ProcessorPoolAssumption DEF NoClient, Undecided, Processor
  <2>4. CASE Route = NoClient
    <3>1. to = "done"
        BY <2>4, <2>3
    <3>2. pc' = [pc EXCEPT ![r] = "done"] /\ readers' = readers
        BY <1>14, <2>4, <2>2, <2>3, <3>1 DEF GetClient, GetLoad
    <3> QED BY <2>1, <2>4, <3>2
  <2>5. CASE Route = Undecided
    <3>1. to = "add"
        BY <2>5, <2>3
    <3>2. clients # 0
        BY <2>5, <2>3
    <3>3. pc' = [pc EXCEPT ![r] = "add"] /\ readers' = readers \cup {r} /\ clients # 0
        BY <1>14, <2>5, <2>2, <3>1, <3>2 DEF GetClient, GetLoad
    <3> QED BY <2>1, <2>5, <3>3
  <2>6. CASE Route \in Processor
    <3>1. pc' = [pc EXCEPT ![r] = Onward(r)] /\ readers' = readers
        BY <1>14, <2>6 DEF GetClient, Step, GetLoad, NoClient, Undecided
    <3>2. Onward(r) \in {"call", "read"} /\ (r \in Frames => Onward(r) = "call")
        BY DEF Onward
    <3> QED BY <2>1, <2>6, <3>1, <3>2
  <2> QED BY <2>4, <2>5, <2>6
<1>15. ASSUME NEW r \in Routed, GetTurn(r) PROVE PoolInv'
  <2>1. /\ pc[r] = "add" /\ server' = server /\ expired' = expired /\ polled' = polled
        /\ index' = index /\ clients' = clients /\ current' = current + 1 /\ sticky' = sticky
        /\ closing' = closing /\ client' = [client EXCEPT ![r] = Turn]
        /\ pc' = [pc EXCEPT ![r] = Onward(r)] /\ readers' = readers \ {r}
      BY <1>15 DEF GetTurn, Step, GetAdd, RUnlock
  <2>2. Turn \in Processor
      BY <2>1, TurnIs
  <2>3. Onward(r) \in {"call", "read"} /\ (r \in Frames => Onward(r) = "call")
      BY DEF Onward
  <2> QED BY <2>1, <2>2, <2>3
<1>16. ASSUME NEW f \in Frames, FrameEnds(f) PROVE PoolInv'
    BY <1>16 DEF FrameEnds, CallEnds, Step, Forget
<1>17. ASSUME NEW w \in Sockets, MessageEnds(w) PROVE PoolInv'
    BY <1>17 DEF MessageEnds, CallEnds, Step, Forget
<1>18. ASSUME NEW h \in Probes, ProbeLocks(h) PROVE PoolInv'
    BY <1>18 DEF ProbeLocks, Step, HealthBegins, RLock
<1>19. ASSUME NEW h \in Probes, PollEnds(h) PROVE PoolInv'
    BY <1>19 DEF PollEnds, Step
<1>20. ASSUME NEW h \in Probes, ProbeUnlocks(h) PROVE PoolInv'
    BY <1>20 DEF ProbeUnlocks, Step, HealthEnds, RUnlock
<1>21. ASSUME NEW h \in Probes, ProbeLooks(h) PROVE PoolInv'
    BY <1>21 DEF ProbeLooks, Step, Look
<1>22. ASSUME NEW a \in Admins, AdminChecks(a) PROVE PoolInv'
    BY <1>22 DEF AdminChecks, Step, IndexExists, IndexMissing
<1>23. ASSUME NEW a \in Admins, AdminStores(a) PROVE PoolInv'
  <2>1. /\ pc[a] = "store" /\ pc' = [pc EXCEPT ![a] = "new"]
        /\ server' = server /\ expired' = expired /\ polled' = polled /\ client' = client
        /\ clients' = clients /\ current' = current /\ closing' = closing /\ readers' = readers
        /\ index' = [index EXCEPT ![a] = RoundRobin]
        /\ sticky' = IF index[a] < 0 THEN RoundRobin ELSE index[a]
      BY <1>23 DEF AdminStores, Step, StoreSticky
  <2>2. sticky' \in Processor \cup {RoundRobin}
      BY <2>1 DEF Processor
  <2>3. index' \in [Admins -> Int] /\ \A b \in Admins : index'[b] < Processors
      BY <2>1 DEF RoundRobin
  <2> QED BY <2>1, <2>2, <2>3
<1>24. CASE UNCHANGED gatewayVars
    BY <1>24 DEF gatewayVars
<1> QED
    BY <1>1, <1>2, <1>3, <1>4, <1>5, <1>6, <1>7, <1>8, <1>9, <1>10, <1>11,
       <1>12, <1>13, <1>14, <1>15, <1>16, <1>17, <1>18, <1>19, <1>20, <1>21,
       <1>22, <1>23, <1>24
       DEF GatewayNext, Clients, Handle, Stop, Done

\* Hence it holds at any time.
LEMMA PoolInvariance == GatewaySpec => []PoolInv
<1>1. GatewayInit => PoolInv
    BY PoolInvInit
<1>2. PoolInv /\ [GatewayNext]_gatewayVars => PoolInv'
    BY PoolStep
<1> QED BY <1>1, <1>2, PTL DEF GatewaySpec

\* The read lock is held exactly by the Gets and the health checks in progress,
\* and no Get is between its two halves when the list of clients is gone.
THEOREM PoolTyped == GatewaySpec => []GatewayTypeOK
<1>1. PoolInv => GatewayTypeOK
    BY DEF PoolInv
<1> QED BY <1>1, PoolInvariance, PTL

(***************************************************************************)
(* The shutdown.  Once Shutdown has returned in time, no request that it   *)
(* waits for is or comes to be in progress; the pool is closed after that. *)
(***************************************************************************)

ShutdownFits ==
    /\ clients = 0 => server \in {"closed", "exited"}
    /\ server \in {"closing", "closed", "exited"} /\ ~ expired
       => \A r \in Waited : pc[r] \in {"new", "done"}

\* No step undoes what Shutdown has waited for.
LEMMA ShutdownStep ==
    ASSUME PoolInv, ShutdownFits, [GatewayNext]_gatewayVars
    PROVE  ShutdownFits'
<1> USE DEF ShutdownFits, Waited, Request, Routed, poolVars
<1> USE GatewayAssumption DEF PoolInv, GatewayTypeOK
<1>1. CASE Ticker
    BY <1>1 DEF Ticker, Tick, ReceiveTick, Refill
<1>2. ASSUME NEW r \in Routed, Admit(r) PROVE ShutdownFits'
    BY <1>2 DEF Admit, Arrive, Step, Allow
<1>3. ASSUME NEW r \in Routed, Refuse(r) PROVE ShutdownFits'
    BY <1>3 DEF Refuse, Arrive, Step
<1>4. ASSUME NEW w \in Sockets, ReadMessage(w) PROVE ShutdownFits'
    BY <1>4 DEF ReadMessage, Step
<1>5. ASSUME NEW w \in Sockets, SocketCloses(w) PROVE ShutdownFits'
    BY <1>5 DEF SocketCloses, Step, Forget
<1>6. ASSUME NEW h \in Probes, ProbeArrives(h) PROVE ShutdownFits'
    BY <1>6 DEF ProbeArrives, Arrive, Step
<1>7. ASSUME NEW a \in Admins, AdminArrives(a) PROVE ShutdownFits'
    BY <1>7 DEF AdminArrives, Arrive, Step
<1>8. CASE ListenFails
    BY <1>8 DEF ListenFails, ProcessEnds
<1>9. CASE Signal
    BY <1>9 DEF Signal, Main
<1>10. CASE Drained
    BY <1>10 DEF Drained, Main
<1>11. CASE ShutdownExpires
    BY <1>11 DEF ShutdownExpires, Main
<1>12. CASE ClosePool
    BY <1>12 DEF ClosePool, Main, CloseWaits, CloseAll
<1>13. CASE Exit
    BY <1>13 DEF Exit, ProcessEnds
<1>14. ASSUME NEW r \in Routed, GetClient(r) PROVE ShutdownFits'
    BY <1>14 DEF GetClient, Step, GetLoad, Onward
<1>15. ASSUME NEW r \in Routed, GetTurn(r) PROVE ShutdownFits'
    BY <1>15 DEF GetTurn, Step, GetAdd, RUnlock, Onward
<1>16. ASSUME NEW f \in Frames, FrameEnds(f) PROVE ShutdownFits'
    BY <1>16 DEF FrameEnds, CallEnds, Step, Forget
<1>17. ASSUME NEW w \in Sockets, MessageEnds(w) PROVE ShutdownFits'
    BY <1>17 DEF MessageEnds, CallEnds, Step, Forget
<1>18. ASSUME NEW h \in Probes, ProbeLocks(h) PROVE ShutdownFits'
    BY <1>18 DEF ProbeLocks, Step, HealthBegins, RLock
<1>19. ASSUME NEW h \in Probes, PollEnds(h) PROVE ShutdownFits'
    BY <1>19 DEF PollEnds, Step
<1>20. ASSUME NEW h \in Probes, ProbeUnlocks(h) PROVE ShutdownFits'
    BY <1>20 DEF ProbeUnlocks, Step, HealthEnds, RUnlock
<1>21. ASSUME NEW h \in Probes, ProbeLooks(h) PROVE ShutdownFits'
    BY <1>21 DEF ProbeLooks, Step, Look
<1>22. ASSUME NEW a \in Admins, AdminChecks(a) PROVE ShutdownFits'
    BY <1>22 DEF AdminChecks, Step, IndexExists, IndexMissing
<1>23. ASSUME NEW a \in Admins, AdminStores(a) PROVE ShutdownFits'
    BY <1>23 DEF AdminStores, Step, StoreSticky, Promised
<1>24. CASE UNCHANGED gatewayVars
    BY <1>24 DEF gatewayVars
<1> QED
    BY <1>1, <1>2, <1>3, <1>4, <1>5, <1>6, <1>7, <1>8, <1>9, <1>10, <1>11,
       <1>12, <1>13, <1>14, <1>15, <1>16, <1>17, <1>18, <1>19, <1>20, <1>21,
       <1>22, <1>23, <1>24
       DEF GatewayNext, Clients, Handle, Stop, Done

\* The connections to the processors are closed after the last request that
\* Shutdown waits for, unless Shutdown gave up (main's deferred pool.Close()).
THEOREM ConnectionsOutliveRequests == GatewaySpec => []ClosedAfterDrain
<1>1. GatewayInit => ShutdownFits
    BY ProcessorPoolAssumption DEF GatewayInit, PoolInit, ShutdownFits
<1>2. PoolInv /\ ShutdownFits /\ [GatewayNext]_gatewayVars => ShutdownFits'
    BY ShutdownStep
<1>3. ShutdownFits => ClosedAfterDrain
    BY DEF ShutdownFits, ClosedAfterDrain
<1> QED BY <1>1, <1>2, <1>3, PoolInvariance, PTL DEF GatewaySpec

(***************************************************************************)
(* Round-robin.  The processors behind the counter within its round have   *)
(* had one turn more than the others.                                      *)
(***************************************************************************)

\* The remainder of the counter goes up by one, or back to 0.
LEMMA NextTurn ==
    ASSUME NEW p \in Nat \ {0}, NEW c \in Nat
    PROVE  /\ c % p \in 0 .. (p - 1)
           /\ (c + 1) % p = IF c % p = p - 1 THEN 0 ELSE (c % p) + 1
<1> DEFINE d == c \div p
           r == c % p
           d2 == (c + 1) \div p
           r2 == (c + 1) % p
<1>1. /\ d \in Int /\ r \in 0 .. (p - 1) /\ c = p * d + r
      /\ d2 \in Int /\ r2 \in 0 .. (p - 1) /\ c + 1 = p * d2 + r2
    OBVIOUS
<1> HIDE DEF d, r, d2, r2
<1>2. (r + 1) - r2 = p * (d2 - d)
    BY <1>1
<1>3. CASE d2 - d >= 2
  <2>1. p * (d2 - d) >= p * 2
      BY <1>1, <1>3
  <2> QED BY <1>1, <1>2, <2>1
<1>4. CASE d2 - d <= -1
  <2>1. p * (d2 - d) <= -p
      BY <1>1, <1>4
  <2> QED BY <1>1, <1>2, <2>1
<1>5. CASE d2 - d = 0
  <2>1. r2 = r + 1
      BY <1>1, <1>2, <1>5
  <2> QED BY <1>1, <2>1 DEF r, r2
<1>6. CASE d2 - d = 1
  <2>1. r2 = r + 1 - p
      BY <1>1, <1>2, <1>6
  <2>2. r = p - 1 /\ r2 = 0
      BY <1>1, <2>1
  <2> QED BY <1>1, <2>2 DEF r, r2
<1> QED BY <1>1, <1>3, <1>4, <1>5, <1>6

TurnsFit ==
    /\ turns \in [Processor -> Nat]
    /\ \E q \in Nat : \A i \in Processor :
          turns[i] = IF i \in 1 .. (current % Processors) THEN q + 1 ELSE q

\* Only the second half of a Get takes a turn, and it takes the next one.
LEMMA TurnsStep ==
    ASSUME PoolInv, TurnsFit, [GatewayNext]_gatewayVars
    PROVE  TurnsFit'
<1>1. PICK q \in Nat :
        /\ turns \in [Processor -> Nat] /\ current \in Nat
        /\ \A i \in Processor : turns[i] = IF i \in 1 .. (current % Processors) THEN q + 1 ELSE q
    BY DEF TurnsFit, PoolInv, GatewayTypeOK
<1>2. turns' = turns /\ current' = current => TurnsFit'
    BY DEF TurnsFit
<1> USE <1>2 DEF poolVars, history
<1>3. CASE Ticker
    BY <1>3 DEF Ticker, Tick, ReceiveTick, Refill
<1>4. ASSUME NEW r \in Routed, Admit(r) PROVE TurnsFit'
    BY <1>4 DEF Admit, Arrive, Step, Allow
<1>5. ASSUME NEW r \in Routed, Refuse(r) PROVE TurnsFit'
    BY <1>5 DEF Refuse, Arrive, Step
<1>6. ASSUME NEW w \in Sockets, ReadMessage(w) PROVE TurnsFit'
    BY <1>6 DEF ReadMessage, Step
<1>7. ASSUME NEW w \in Sockets, SocketCloses(w) PROVE TurnsFit'
    BY <1>7 DEF SocketCloses, Step, Forget
<1>8. ASSUME NEW h \in Probes, ProbeArrives(h) PROVE TurnsFit'
    BY <1>8 DEF ProbeArrives, Arrive, Step
<1>9. ASSUME NEW a \in Admins, AdminArrives(a) PROVE TurnsFit'
    BY <1>9 DEF AdminArrives, Arrive, Step
<1>10. CASE ListenFails
    BY <1>10 DEF ListenFails, ProcessEnds
<1>11. CASE Signal
    BY <1>11 DEF Signal, Main
<1>12. CASE Drained
    BY <1>12 DEF Drained, Main
<1>13. CASE ShutdownExpires
    BY <1>13 DEF ShutdownExpires, Main
<1>14. CASE ClosePool
    BY <1>14 DEF ClosePool, Main, CloseWaits, CloseAll
<1>15. CASE Exit
    BY <1>15 DEF Exit, ProcessEnds
<1>16. ASSUME NEW r \in Routed, GetClient(r) PROVE TurnsFit'
    BY <1>16 DEF GetClient, Step, GetLoad, Onward
<1>17. ASSUME NEW r \in Routed, GetTurn(r) PROVE TurnsFit'
  <2>1. turns' = [turns EXCEPT ![Turn] = @ + 1] /\ current' = current + 1
      BY <1>17 DEF GetTurn, GetAdd
  <2>2. Turn = (current + 1) % Processors /\ Turn \in Processor
      BY <1>17, TurnIs DEF GetTurn, Step
  <2> DEFINE m == current % Processors
             t == Turn
  <2>3. /\ m \in 0 .. (Processors - 1) /\ t \in Processor
        /\ t = IF m = Processors - 1 THEN 0 ELSE m + 1
        /\ current' % Processors = t
      BY <1>1, <2>1, <2>2, NextTurn, ProcessorPoolAssumption
  <2>4. turns' = [turns EXCEPT ![t] = @ + 1]
      BY <2>1
  <2>5. \A i \in Processor : turns[i] = IF i \in 1 .. m THEN q + 1 ELSE q
      BY <1>1
  <2> HIDE DEF m, t
  <2>6. /\ turns' \in [Processor -> Nat] /\ turns'[t] = turns[t] + 1
        /\ \A i \in Processor \ {t} : turns'[i] = turns[i]
      BY <1>1, <2>3, <2>4
  <2>7. CASE m = Processors - 1
    <3>1. t = 0 /\ 0 \in Processor
        BY <2>3, <2>7
    <3>2. \A i \in Processor : turns[i] = IF i = 0 THEN q ELSE q + 1
        BY <2>5, <2>7, ProcessorPoolAssumption DEF Processor
    <3>3. \A i \in Processor : turns'[i] = q + 1
        BY <1>1, <2>6, <3>1, <3>2
    <3>4. q + 1 \in Nat /\ 1 .. (current' % Processors) = {}
        BY <1>1, <2>3, <3>1
    <3> QED BY <2>6, <3>3, <3>4 DEF TurnsFit
  <2>8. CASE m # Processors - 1
    <3>1. t = m + 1 /\ m \in Nat
        BY <2>3, <2>8, ProcessorPoolAssumption
    <3>2. \A i \in Processor : i \in 1 .. t <=> i \in 1 .. m \/ i = t
        BY <3>1 DEF Processor
    <3>3. turns[t] = q
        BY <2>3, <2>5, <3>1
    <3>4. \A i \in Processor : turns'[i] = IF i \in 1 .. t THEN q + 1 ELSE q
        BY <2>5, <2>6, <3>2, <3>3
    <3> QED BY <1>1, <2>3, <2>6, <3>4 DEF TurnsFit
  <2> QED BY <2>7, <2>8
<1>18. ASSUME NEW f \in Frames, FrameEnds(f) PROVE TurnsFit'
    BY <1>18 DEF FrameEnds, CallEnds, Step, Forget
<1>19. ASSUME NEW w \in Sockets, MessageEnds(w) PROVE TurnsFit'
    BY <1>19 DEF MessageEnds, CallEnds, Step, Forget
<1>20. ASSUME NEW h \in Probes, ProbeLocks(h) PROVE TurnsFit'
    BY <1>20 DEF ProbeLocks, Step, HealthBegins, RLock
<1>21. ASSUME NEW h \in Probes, PollEnds(h) PROVE TurnsFit'
    BY <1>21 DEF PollEnds, Step
<1>22. ASSUME NEW h \in Probes, ProbeUnlocks(h) PROVE TurnsFit'
    BY <1>22 DEF ProbeUnlocks, Step, HealthEnds, RUnlock
<1>23. ASSUME NEW h \in Probes, ProbeLooks(h) PROVE TurnsFit'
    BY <1>23 DEF ProbeLooks, Step, Look
<1>24. ASSUME NEW a \in Admins, AdminChecks(a) PROVE TurnsFit'
    BY <1>24 DEF AdminChecks, Step, IndexExists, IndexMissing
<1>25. ASSUME NEW a \in Admins, AdminStores(a) PROVE TurnsFit'
    BY <1>25 DEF AdminStores, Step, StoreSticky, Promised
<1>26. CASE UNCHANGED gatewayVars
    BY <1>26 DEF gatewayVars
<1> QED
    BY <1>3, <1>4, <1>5, <1>6, <1>7, <1>8, <1>9, <1>10, <1>11, <1>12, <1>13,
       <1>14, <1>15, <1>16, <1>17, <1>18, <1>19, <1>20, <1>21, <1>22, <1>23,
       <1>24, <1>25, <1>26
       DEF GatewayNext, Clients, Handle, Stop, Done

\* However Gets interleave, no processor is ever two turns ahead of another: the
\* counter is advanced by one atomic step that also decides.
THEOREM TurnsAreFair == GatewaySpec => []TurnsBalanced
<1>1. GatewayInit => TurnsFit
  <2> SUFFICES ASSUME GatewayInit PROVE TurnsFit
      OBVIOUS
  <2>1. current % Processors = 0
      BY ProcessorPoolAssumption DEF GatewayInit, PoolInit
  <2>2. \A i \in Processor : turns[i] = IF i \in 1 .. (current % Processors) THEN 0 + 1 ELSE 0
      BY <2>1 DEF GatewayInit
  <2>3. turns \in [Processor -> Nat] /\ 0 \in Nat
      BY DEF GatewayInit
  <2> QED BY <2>2, <2>3 DEF TurnsFit
<1>2. PoolInv /\ TurnsFit /\ [GatewayNext]_gatewayVars => TurnsFit'
    BY TurnsStep
<1>3. TurnsFit => TurnsBalanced
    BY DEF TurnsFit, TurnsBalanced
<1> QED BY <1>1, <1>2, <1>3, PoolInvariance, PTL DEF GatewaySpec

(***************************************************************************)
(* The sticky index.  A promise stands while no SetSticky runs, and is the *)
(* index in force; a request admitted under it has not been routed yet, or *)
(* has been routed to it.                                                  *)
(***************************************************************************)

Storing == \E a \in Admins : pc[a] = "store"

\* What a request was promised, by where it is.
Kept(r) ==
    /\ pc[r] = "get" /\ want[r] >= 0 => want[r] = sticky /\ ~ Storing
    /\ pc[r] = "add" => want[r] < 0
    /\ pc[r] \in {"call", "read"} => want[r] < 0 \/ want[r] = client[r]

StickyFits ==
    /\ promise \in Int /\ want \in [Routed -> Int]
    /\ promise # AnyProcessor => promise = sticky /\ ~ Storing
    /\ \A r \in Routed : Kept(r)

LEMMA StickyStep ==
    ASSUME PoolInv, StickyFits, [GatewayNext]_gatewayVars
    PROVE  StickyFits'
<1>1. AnyProcessor \in Int /\ AnyProcessor < 0
    BY DEF AnyProcessor
<1> USE <1>1, GatewayAssumption
    DEF StickyFits, Kept, Storing, PoolInv, GatewayTypeOK, Places, Gotten,
        Waited, Request, Routed, poolVars, history
<1>2. CASE Ticker
    BY <1>2 DEF Ticker, Tick, ReceiveTick, Refill
<1>3. ASSUME NEW r \in Routed, Admit(r) PROVE StickyFits'
  <2>1. UNCHANGED << client, promise, sticky >>
      BY <1>3 DEF Admit
  <2>2. (Storing' <=> Storing)
      BY <1>3 DEF Admit, Arrive, Step
  <2>3. CASE Arrive(r, "get") /\ want' = [want EXCEPT ![r] = promise]
      BY <1>3, <2>1, <2>2, <2>3 DEF Arrive, Step
  <2>4. CASE Arrive(r, "done") /\ UNCHANGED want
      BY <1>3, <2>1, <2>2, <2>4 DEF Arrive, Step
  <2> QED BY <1>3, <2>3, <2>4 DEF Admit
<1>4. ASSUME NEW r \in Routed, Refuse(r) PROVE StickyFits'
    BY <1>4 DEF Refuse, Arrive, Step
<1>5. ASSUME NEW w \in Sockets, ReadMessage(w) PROVE StickyFits'
    BY <1>5 DEF ReadMessage, Step
<1>6. ASSUME NEW w \in Sockets, SocketCloses(w) PROVE StickyFits'
  <2>1. /\ pc' = [pc EXCEPT ![w] = "done"] /\ want' = [want EXCEPT ![w] = AnyProcessor]
        /\ client' = [client EXCEPT ![w] = NoClient] /\ UNCHANGED << promise, sticky >>
      BY <1>6 DEF SocketCloses, Step, Forget
  <2>2. (Storing' <=> Storing)
      BY <2>1
  <2> QED BY <2>1, <2>2
<1>7. ASSUME NEW h \in Probes, ProbeArrives(h) PROVE StickyFits'
    BY <1>7 DEF ProbeArrives, Arrive, Step
<1>8. ASSUME NEW a \in Admins, AdminArrives(a) PROVE StickyFits'
    BY <1>8 DEF AdminArrives, Arrive, Step
<1>9. CASE ListenFails
    BY <1>9 DEF ListenFails, ProcessEnds
<1>10. CASE Signal
    BY <1>10 DEF Signal, Main
<1>11. CASE Drained
    BY <1>11 DEF Drained, Main
<1>12. CASE ShutdownExpires
    BY <1>12 DEF ShutdownExpires, Main
<1>13. CASE ClosePool
    BY <1>13 DEF ClosePool, Main, CloseWaits, CloseAll
<1>14. CASE Exit
    BY <1>14 DEF Exit, ProcessEnds
<1>15. ASSUME NEW r \in Routed, GetClient(r) PROVE StickyFits'
  <2>1. /\ pc[r] = "get" /\ client' = [client EXCEPT ![r] = Route]
        /\ UNCHANGED << want, promise, sticky >>
      BY <1>15 DEF GetClient, Step, GetLoad
  <2> DEFINE to == CASE Route = NoClient -> "done"
                     [] Route = Undecided -> "add"
                     [] Route \in Processor -> Onward(r)
  <2>2. pc' = [pc EXCEPT ![r] = to]
      BY <1>15 DEF GetClient, Step
  <2>3. NoClient # Undecided /\ NoClient \notin Processor /\ Undecided \notin Processor
      BY ProcessorPoolAssumption DEF NoClient, Undecided, Processor
  <2>4. /\ to = "done" \/ (to = "add" /\ sticky < 0) \/ (to \in {"call", "read"} /\ Route = sticky)
    <3>1. CASE Route = NoClient
        BY <3>1, <2>3
    <3>2. CASE Route = Undecided
      <4>1. sticky < 0
          BY <3>2, <2>3, RouteIs DEF RoundRobin
      <4> QED BY <3>2, <2>3, <4>1
    <3>3. CASE Route \in Processor
      <4>1. Route = sticky
          BY <3>3, <2>3, RouteIs
      <4>2. to = Onward(r)
          BY <3>3, <2>3
      <4> QED BY <4>1, <4>2 DEF Onward
    <3> QED BY <3>1, <3>2, <3>3, RouteIs
  <2> HIDE DEF to
  <2>5. (Storing' <=> Storing)
      BY <2>2, <2>4
  <2> QED BY <2>1, <2>2, <2>4, <2>5
<1>16. ASSUME NEW r \in Routed, GetTurn(r) PROVE StickyFits'
  <2>1. /\ pc[r] = "add" /\ pc' = [pc EXCEPT ![r] = Onward(r)]
        /\ client' = [client EXCEPT ![r] = Turn] /\ UNCHANGED << want, promise, sticky >>
      BY <1>16 DEF GetTurn, Step, GetAdd
  <2>2. Onward(r) \in {"call", "read"}
      BY DEF Onward
  <2>3. (Storing' <=> Storing)
      BY <2>1, <2>2
  <2> QED BY <2>1, <2>2, <2>3
<1>17. ASSUME NEW f \in Frames, FrameEnds(f) PROVE StickyFits'
  <2>1. /\ pc' = [pc EXCEPT ![f] = "done"] /\ want' = [want EXCEPT ![f] = AnyProcessor]
        /\ client' = [client EXCEPT ![f] = NoClient] /\ UNCHANGED << promise, sticky >>
      BY <1>17 DEF FrameEnds, CallEnds, Step, Forget
  <2>2. (Storing' <=> Storing)
      BY <2>1
  <2> QED BY <2>1, <2>2
<1>18. ASSUME NEW w \in Sockets, MessageEnds(w) PROVE StickyFits'
  <2>1. CASE /\ pc' = [pc EXCEPT ![w] = "done"] /\ want' = [want EXCEPT ![w] = AnyProcessor]
             /\ client' = [client EXCEPT ![w] = NoClient] /\ UNCHANGED << promise, sticky >>
    <3>1. (Storing' <=> Storing)
        BY <2>1
    <3> QED BY <2>1, <3>1
  <2>2. CASE /\ pc[w] = "call" /\ pc' = [pc EXCEPT ![w] = "read"]
             /\ UNCHANGED << client, want, promise, sticky >>
    <3>1. (Storing' <=> Storing)
        BY <2>2
    <3> QED BY <2>2, <3>1
  <2> QED BY <1>18, <2>1, <2>2 DEF MessageEnds, CallEnds, Step, Forget
<1>19. ASSUME NEW h \in Probes, ProbeLocks(h) PROVE StickyFits'
    BY <1>19 DEF ProbeLocks, Step, HealthBegins, RLock
<1>20. ASSUME NEW h \in Probes, PollEnds(h) PROVE StickyFits'
    BY <1>20 DEF PollEnds, Step
<1>21. ASSUME NEW h \in Probes, ProbeUnlocks(h) PROVE StickyFits'
    BY <1>21 DEF ProbeUnlocks, Step, HealthEnds, RUnlock
<1>22. ASSUME NEW h \in Probes, ProbeLooks(h) PROVE StickyFits'
    BY <1>22 DEF ProbeLooks, Step, Look
<1>23. ASSUME NEW a \in Admins, AdminChecks(a) PROVE StickyFits'
  <2>1. UNCHANGED << client, sticky >> /\ pc[a] = "check"
      BY <1>23 DEF AdminChecks, Step, IndexExists, IndexMissing
  <2>2. CASE /\ pc' = [pc EXCEPT ![a] = "store"] /\ promise' = AnyProcessor
             /\ want' = [r \in Routed |-> IF client[r] < 0 THEN AnyProcessor ELSE want[r]]
    <3>1. \A r \in Routed : pc'[r] = pc[r]
        BY <2>2
    <3>2. \A r \in Routed : pc[r] \in {"get", "add"} => client[r] < 0
        BY DEF NoClient, Undecided
    <3>3. \A r \in Routed : want'[r] = AnyProcessor \/ want'[r] = want[r]
        BY <2>2
    <3>4. \A r \in Routed : pc[r] \in {"get", "add"} => want'[r] = AnyProcessor
        BY <2>2, <3>2
    <3>5. want' \in [Routed -> Int]
        BY <2>2
    <3>6. ASSUME NEW r \in Routed PROVE Kept(r)'
      <4>1. /\ pc'[r] = pc[r] /\ client'[r] = client[r] /\ Kept(r)
            /\ want'[r] = AnyProcessor \/ want'[r] = want[r]
            /\ pc[r] \in {"get", "add"} => want'[r] = AnyProcessor
          BY <2>1, <3>1, <3>3, <3>4
      <4> QED BY <4>1
    <3>7. promise' \in Int /\ ~ (promise' # AnyProcessor)
        BY <2>2
    <3> QED BY <3>5, <3>6, <3>7
  <2>3. CASE pc' = [pc EXCEPT ![a] = "new"] /\ UNCHANGED << promise, want >>
    <3>1. (Storing' => Storing)
        BY <2>3
    <3>2. \A r \in Routed : pc'[r] = pc[r]
        BY <2>3
    <3> QED BY <2>1, <2>3, <3>1, <3>2
  <2> QED BY <1>23, <2>2, <2>3 DEF AdminChecks, Step, IndexExists, IndexMissing
<1>24. ASSUME NEW a \in Admins, AdminStores(a) PROVE StickyFits'
  <2>1. /\ pc[a] = "store" /\ pc' = [pc EXCEPT ![a] = "new"] /\ UNCHANGED << client, want >>
        /\ sticky' = IF index[a] < 0 THEN RoundRobin ELSE index[a]
        /\ promise' = IF \E b \in Admins \ {a} : pc[b] = "store"
                      THEN AnyProcessor ELSE Promised(index[a])
      BY <1>24 DEF AdminStores, Step, StoreSticky
  <2>2. Promised(index[a]) = sticky' /\ sticky' \in Int
      BY <2>1 DEF Promised, RoundRobin
  <2>3. promise' # AnyProcessor => promise' = sticky' /\ ~ Storing'
      BY <2>1, <2>2
  <2>4. Storing
      BY <2>1
  <2>5. \A r \in Routed : pc'[r] = pc[r] /\ Kept(r)
      BY <2>1
  <2>6. promise' \in Int
      BY <2>1, <2>2
  <2> QED BY <2>1, <2>3, <2>4, <2>5, <2>6
<1>25. CASE UNCHANGED gatewayVars
    BY <1>25 DEF gatewayVars
<1> QED
    BY <1>2, <1>3, <1>4, <1>5, <1>6, <1>7, <1>8, <1>9, <1>10, <1>11, <1>12,
       <1>13, <1>14, <1>15, <1>16, <1>17, <1>18, <1>19, <1>20, <1>21, <1>22,
       <1>23, <1>24, <1>25
       DEF GatewayNext, Clients, Handle, Stop, Done

\* A request admitted after SetSticky(i) returned, and routed before another
\* SetSticky begins, goes to processor i (client.go:155, 233).
THEOREM StickyIsHonoured == GatewaySpec => []StickyRoutes
<1>1. GatewayInit => StickyFits
    BY GatewayAssumption DEF GatewayInit, PoolInit, StickyFits, Kept, Storing, AnyProcessor,
       RoundRobin, Waited, Request, Routed
<1>2. PoolInv /\ StickyFits /\ [GatewayNext]_gatewayVars => StickyFits'
    BY StickyStep
<1>3. PoolInv /\ StickyFits => StickyRoutes
  <2> SUFFICES ASSUME PoolInv, StickyFits, NEW r \in Routed, want[r] >= 0, client[r] >= 0
               PROVE  client[r] = want[r]
      BY DEF StickyRoutes
  <2>1. client[r] # NoClient /\ client[r] # Undecided
      BY DEF NoClient, Undecided
  <2>2. pc[r] \in {"call", "read"}
      BY <2>1 DEF PoolInv, Places, Gotten, Routed, Request, Waited
  <2> QED BY <2>2 DEF StickyFits, Kept
<1> QED BY <1>1, <1>2, <1>3, PoolInvariance, PTL DEF GatewaySpec
=============================================================================

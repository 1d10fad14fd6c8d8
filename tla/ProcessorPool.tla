---------------------------- MODULE ProcessorPool ----------------------------
(***************************************************************************)
(* The gateway's ProcessorPool (gateway/internal/grpc/client.go:150-277):  *)
(* one gRPC client per processor, chosen in turn or by a sticky index.     *)
(*                                                                         *)
(* The list of clients is guarded by a sync.RWMutex: a writer that waits   *)
(* keeps new readers out.  sticky and current are atomics of their own.    *)
(* The operators here say what a caller's step does to the pool; Gateway   *)
(* gives them their callers.  The counter's wrap at 2^64 is left out.      *)
(***************************************************************************)
EXTENDS Integers

CONSTANT Processors   \* the number of processor addresses

ASSUME ProcessorPoolAssumption == Processors \in Nat \ {0}

VARIABLES clients,   \* len(clients): Processors, and 0 once the pool is closed
          current,   \* the round-robin counter
          sticky,    \* the sticky index, -1 for round-robin
          readers,   \* the callers that hold the read lock over several steps
          closing    \* Close() waits for the write lock

poolVars == << clients, current, sticky, readers, closing >>

Processor == 0 .. Processors - 1
RoundRobin == -1

\* What Get knows after it has loaded sticky: an error, the sticky client, or
\* that the counter decides.
NoClient == -2
Undecided == -1

PoolInit ==
    /\ clients = Processors
    /\ current = 0
    /\ sticky = RoundRobin
    /\ readers = {}
    /\ closing = FALSE

RLock(c) == ~ closing /\ readers' = readers \cup {c}
RUnlock(c) == readers' = readers \ {c}

Route ==
    CASE clients = 0 -> NoClient
      [] clients > 0 /\ sticky \in 0 .. clients - 1 -> sticky
      [] clients > 0 /\ sticky \notin 0 .. clients - 1 -> Undecided

\* Variant: the counter is advanced before the sticky index is looked at.
GetLoadCounts(c) ==
    /\ ~ closing
    /\ readers' = IF Route = Undecided THEN readers \cup {c} ELSE readers
    /\ current' = current + 1
    /\ UNCHANGED << clients, sticky, closing >>

\* Get() up to the load of sticky.  A Get that returns at once takes and
\* releases the lock within the step.
GetLoad(c) ==
    /\ ~ closing
    /\ readers' = IF Route = Undecided THEN readers \cup {c} ELSE readers
    /\ UNCHANGED << clients, current, sticky, closing >>

Turn == (current + 1) % clients

\* The atomic increment that decides, and the return.
GetAdd(c) ==
    /\ c \in readers
    /\ current' = current + 1
    /\ RUnlock(c)
    /\ UNCHANGED << clients, sticky, closing >>

\* SetSticky: the number of clients is read under the lock, the index stored
\* without it.
IndexExists(i) == ~ closing /\ i < clients /\ UNCHANGED poolVars
IndexMissing(i) == ~ closing /\ i >= clients /\ UNCHANGED poolVars

\* Variant: index 0 is taken for none.
StoreStickyPositive(i) ==
    /\ sticky' = IF i <= 0 THEN RoundRobin ELSE i
    /\ UNCHANGED << clients, current, readers, closing >>

StoreSticky(i) ==
    /\ sticky' = IF i < 0 THEN RoundRobin ELSE i
    /\ UNCHANGED << clients, current, readers, closing >>

\* HealthCheck holds the read lock over its calls to all the processors.
HealthBegins(c) == RLock(c) /\ UNCHANGED << clients, current, sticky, closing >>

\* Variant: an early return without the deferred RUnlock.
HealthEndsLocked(c) == c \in readers /\ UNCHANGED poolVars

HealthEnds(c) ==
    /\ c \in readers
    /\ RUnlock(c)
    /\ UNCHANGED << clients, current, sticky, closing >>

\* Addrs(), Count() and ClientAt() only read, under the lock.
Look == ~ closing /\ UNCHANGED poolVars

CloseWaits ==
    /\ closing' = TRUE
    /\ UNCHANGED << clients, current, sticky, readers >>

\* Close() with the write lock: every connection is closed, the list dropped.
CloseAll ==
    /\ closing /\ readers = {}
    /\ closing' = FALSE
    /\ clients' = 0
    /\ UNCHANGED << current, sticky, readers >>
=============================================================================

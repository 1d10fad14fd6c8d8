--------------------------- MODULE MetricsScrape ---------------------------
(***************************************************************************)
(* A reader of ServerStats while streams are being processed: the metrics  *)
(* thread's build_metrics (processor-cpp/src/server/metrics_server.cpp:62) *)
(* or a GetStats call (grpc_server.cpp:433), which reads the counters they *)
(* share in the same order.  The counters are read one by one, without a   *)
(* lock, so a report mixes moments of the handlers' progress.              *)
(***************************************************************************)
EXTENDS MediaStream

CONSTANT ReportedClients   \* bound: the clients beside which reports are taken

VARIABLE report   \* what the report in progress has read so far

scrapeVars == << vars, report >>

\* Variant: the frames are read after the allocations.
LoadOrderFramesLast ==
    << "total_arena_allocations", "total_heap_allocations", "total_frames_processed" >>

\* The order of the loads in build_metrics, of the counters that a reader relates
\* to each other (GetStats stops after the arena's).
LoadOrder ==
    << "total_frames_processed", "total_arena_allocations", "total_heap_allocations" >>

InReport(c) == report[CHOOSE i \in 1 .. Len(report) : LoadOrder[i] = c]

ScrapeInit == Init /\ report = << >>

Load ==
    /\ clients \in ReportedClients
    /\ Len(report) < Len(LoadOrder)
    /\ report' = Append(report, stats[LoadOrder[Len(report) + 1]])
    /\ UNCHANGED vars

\* The report is sent, and the next one begins.
SendReport ==
    /\ Len(report) = Len(LoadOrder)
    /\ report' = << >>
    /\ UNCHANGED vars

ScrapeNext ==
    \/ Next /\ UNCHANGED report
    \/ Load \/ SendReport

ScrapeSpec == ScrapeInit /\ [][ScrapeNext]_scrapeVars /\ Fairness

-----------------------------------------------------------------------------
\* A report never shows more frames than allocations made for frames: the
\* handler counts the allocation first and the report reads the frames first.
ReportCoversFrames ==
    Len(report) = Len(LoadOrder)
    => InReport("total_frames_processed") <=
          InReport("total_arena_allocations") + InReport("total_heap_allocations")
=============================================================================

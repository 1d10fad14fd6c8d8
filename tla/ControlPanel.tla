--------------------------- MODULE ControlPanel ---------------------------
(***************************************************************************)
(* The scripts of the panel page (indexHTML in gateway/cmd/server/main.go) *)
(* in one of the tabs of Accounts: the camera stream over /ws, the load    *)
(* generator, the routing switch and the displays that are refreshed by    *)
(* timers.  A script runs to its next await without interruption: every    *)
(* await, timer, event of a socket and answer of the gateway is a step of  *)
(* its own, and in between come clicks.                                    *)
(*                                                                         *)
(* Bound: in one visit the person uses one part of the panel, since the    *)
(* parts share no variable but the main mode, begins when the first calls  *)
(* of the page have been answered, and is done before the token expires.   *)
(***************************************************************************)
EXTENDS Accounts, FiniteSetsExt

CONSTANTS PanelTab,    \* the tab whose panel is modelled
          MaxStarts,   \* bound: presses of the start button
          Captures,    \* bound: frames captured, by the number of starts
          MaxMessages, \* bound: messages generated
          Routes,      \* the routing modes: round robin and each processor
          Refreshes,   \* bound: refreshes in flight at once
          MaxChanges   \* bound: changes of the routing, and of the gateway's health

ASSUME ControlPanelAssumption ==
    /\ PanelTab \in Tab
    /\ \A v \in Visits : v.uses \in {"account", "video", "load", "routing"}
    /\ {MaxStarts, MaxMessages, MaxChanges} \subseteq Nat
    /\ Captures \in [1 .. MaxStarts -> Nat]

VARIABLES video,   \* what the camera stream consists of
          load,    \* the load generator
          routing, \* the routing switch and the displays
          gateway  \* the gateway's routing, and its health: "up", "failing" (it
                   \* answers, its processors do not) or "down"

panel == << video, load, routing, gateway >>
panelVars == << vars, panel >>

Start == 1 .. MaxStarts
NoStart == 0

\* videoDemo, and what there really is: the calls of startVideoDemo, their
\* cameras, sockets and intervals, and the frames a socket has not answered.
\* canStop is whether the stop button is enabled; beside remembers the starts that
\* were under way together with another one.
NoVideo ==
    [stream |-> NoStart, ws |-> NoStart, timer |-> NoStart, pending |-> FALSE,
     call |-> [s \in Start |-> "idle"],
     cameras |-> {}, timers |-> {},
     socket |-> [s \in Start |-> "none"],
     unanswered |-> [s \in Start |-> 0],
     frames |-> 0,
     canStop |-> FALSE,
     beside |-> {}]

Message == 1 .. MaxMessages
NoMessage == 0

NoLoad ==
    [running |-> FALSE, byHand |-> NoMessage, stage |-> [m \in Message |-> "unsent"],
     requests |-> 0, success |-> 0, errors |-> 0, torn |-> FALSE]

NoDisplay ==
    [shown |-> "", pick |-> "", status |-> "",
     refresh |-> [r \in Refreshes |-> "idle"], poll |-> "idle", posting |-> ""]

PanelInit ==
    /\ Init
    /\ video = NoVideo /\ load = NoLoad /\ routing = NoDisplay
    /\ gateway = [route |-> "rr", health |-> "up", changes |-> 0]

\* The page is there, its first calls are answered, and the visit is to use it.
Using(part) ==
    /\ visit.uses = part
    /\ page[PanelTab] = "panel" /\ nav[PanelTab] = NoPath /\ calls[PanelTab] = {}
    /\ UNCHANGED vars

-----------------------------------------------------------------------------
(* The camera stream.                                                      *)

\* A socket that never opened has no onclose yet: its end is met by SocketFails.
Closing(socket, ws) ==
    [s \in Start |-> IF s # ws THEN socket[s]
                     ELSE CASE socket[s] = "open" -> "closing"
                            [] socket[s] = "connecting" -> "closed"
                            [] OTHER -> socket[s]]

\* stopVideoDemo stops what videoDemo refers to.
Stopped(v) ==
    [v EXCEPT !.timers = @ \ {v.timer}, !.timer = NoStart,
              !.pending = FALSE,
              !.socket = Closing(@, v.ws),
              !.ws = NoStart,
              !.cameras = @ \ {v.stream}, !.stream = NoStart,
              !.canStop = FALSE]

Starting == { s \in Start : video.call[s] \in {"camera", "play", "open"} }

\* The start button is disabled only while a stream runs, not while one is started.
PressStart ==
    /\ Using("video")
    /\ ~ video.canStop
    /\ \E s \in Start :
          /\ video.call[s] = "idle" /\ \A r \in 1 .. s - 1 : video.call[r] # "idle"
          /\ video.frames <= Captures[s]
          /\ video' = [Stopped(video) EXCEPT
                            !.call[s] = "camera",
                            !.beside = IF Starting = {} THEN @ ELSE @ \cup Starting \cup {s}]
    /\ UNCHANGED << load, routing, gateway >>

PressStop ==
    /\ Using("video")
    /\ video.canStop
    /\ video' = Stopped(video)
    /\ UNCHANGED << load, routing, gateway >>

\* setMainMode('load') and back again: the switch is not disabled while a stream
\* is being started.
LeaveVideo ==
    /\ Using("video")
    /\ video' = Stopped(video)
    /\ UNCHANGED << load, routing, gateway >>

\* getUserMedia: the person allows or refuses the camera.
CameraAnswers(s) ==
    /\ Using("video")
    /\ video.call[s] = "camera"
    /\ \/ video' = [video EXCEPT !.call[s] = "play", !.cameras = @ \cup {s}, !.stream = s]
       \/ video' = [video EXCEPT !.call[s] = "returned"]
    /\ UNCHANGED << load, routing, gateway >>

\* play() may fail too, and then the camera stays on and the stop button disabled.
Plays(s) ==
    /\ Using("video")
    /\ video.call[s] = "play"
    /\ \/ video' = [video EXCEPT !.call[s] = "open", !.socket[s] = "connecting", !.ws = s]
       \/ video' = [video EXCEPT !.call[s] = "failed"]
    /\ UNCHANGED << load, routing, gateway >>

SocketOpens(s) ==
    /\ Using("video")
    /\ video.call[s] = "open" /\ video.socket[s] = "connecting"
    /\ video' = [video EXCEPT !.call[s] = "returned", !.socket[s] = "open",
                              !.timers = @ \cup {s}, !.timer = s, !.canStop = TRUE]
    /\ UNCHANGED << load, routing, gateway >>

\* Variant: the handler of the error gives up the socket, but not the camera.
SocketFailsAlone(s) ==
    /\ Using("video")
    /\ video.call[s] = "open"
    /\ video' = [video EXCEPT !.call[s] = "returned", !.socket[s] = "closed"]
    /\ UNCHANGED << load, routing, gateway >>

\* An error of the socket, its being closed, or eight seconds: stopVideoDemo.
SocketFails(s) ==
    /\ Using("video")
    /\ video.call[s] = "open"
    /\ \E now_ \in {"closed", video.socket[s]} :
          video' = Stopped([video EXCEPT !.call[s] = "returned", !.socket[s] = now_])
    /\ UNCHANGED << load, routing, gateway >>

\* The socket's end reaches the page: after close(), or because the connection
\* is lost.  onclose clears pending, whichever socket is in use by now.
SocketCloses(s) ==
    /\ Using("video")
    /\ video.call[s] = "returned" /\ video.socket[s] \in {"open", "closing"}
    /\ video' = [video EXCEPT !.socket[s] = "closed", !.pending = FALSE]
    /\ UNCHANGED << load, routing, gateway >>

\* Variant: pending is not looked at.
MayCaptureAlways(v) == v.ws # NoStart /\ v.socket[v.ws] = "open"

MayCapture(v) == v.ws # NoStart /\ v.socket[v.ws] = "open" /\ ~ v.pending

\* videoSendFrame, called by any interval that runs.
CaptureFrame ==
    /\ Using("video")
    /\ video.timers # {}
    /\ video.frames < Captures[Cardinality({ s \in Start : video.call[s] # "idle" })]
    /\ MayCapture(video)
    /\ video' = [video EXCEPT !.pending = TRUE, !.unanswered[video.ws] = @ + 1, !.frames = @ + 1]
    /\ UNCHANGED << load, routing, gateway >>

\* onmessage: a result or an error, drawn or shown.
FrameAnswered(s) ==
    /\ Using("video")
    /\ video.socket[s] = "open" /\ video.unanswered[s] > 0
    /\ video' = [video EXCEPT !.pending = FALSE, !.unanswered[s] = @ - 1]
    /\ UNCHANGED << load, routing, gateway >>

VideoStep ==
    \/ PressStart \/ PressStop \/ LeaveVideo \/ CaptureFrame
    \/ \E s \in Start : CameraAnswers(s) \/ Plays(s) \/ SocketOpens(s) \/ SocketFails(s)
                        \/ SocketCloses(s) \/ FrameAnswered(s)

-----------------------------------------------------------------------------
(* The load generator.                                                     *)

\* startContinuous and stopContinuous; setMainMode('video') stops it as well.
StartContinuous ==
    /\ Using("load") /\ ~ load.running
    /\ load' = [load EXCEPT !.running = TRUE]
    /\ UNCHANGED << video, routing, gateway >>

StopContinuous ==
    /\ Using("load") /\ load.running
    /\ load' = [load EXCEPT !.running = FALSE]
    /\ UNCHANGED << video, routing, gateway >>

\* sendGeneratedMessage up to its fetch: by the interval, or by the button, which
\* is disabled until its own message is done.
SendMessage(m) ==
    /\ Using("load")
    /\ load.stage[m] = "unsent" /\ \A n \in 1 .. m - 1 : load.stage[n] # "unsent"
    /\ LET sent == [load EXCEPT !.stage[m] = "sending"]
       IN  \/ load.running /\ load' = sent
           \/ load.byHand = NoMessage /\ load' = [sent EXCEPT !.byHand = m]
    /\ UNCHANGED << video, routing, gateway >>

Done(l, m) ==
    [l EXCEPT !.stage[m] = "done", !.byHand = IF @ = m THEN NoMessage ELSE @]

\* The response's head, or no response: counted at once, with its error.
ResponseHead(m) ==
    /\ Using("load") /\ load.stage[m] = "sending"
    /\ LET counted == [load EXCEPT !.requests = @ + 1]
       IN  \/ load' = [counted EXCEPT !.stage[m] = "reading"]
           \/ load' = [counted EXCEPT !.stage[m] = "failing", !.errors = @ + 1]
           \/ load' = Done([counted EXCEPT !.errors = @ + 1], m)
    /\ UNCHANGED << video, routing, gateway >>

\* Variant: a body that cannot be read counts no request, but two errors.
BodyFails(l) == [l EXCEPT !.errors = @ + 2]

\* The catch block counts the request once more.
BodyLost(l) == [l EXCEPT !.requests = @ + 1, !.errors = @ + 1]

\* The body: a result that succeeded or did not, or nothing that can be read.
ResponseBody(m) ==
    /\ Using("load")
    /\ LET read == Done(load, m)
       IN  \/ /\ load.stage[m] = "reading"
              /\ load' \in { [read EXCEPT !.success = @ + 1], [read EXCEPT !.errors = @ + 1] }
           \/ load.stage[m] = "failing" /\ load' = read
           \/ load.stage[m] \in {"reading", "failing"} /\ load' = BodyLost(read)
    /\ UNCHANGED << video, routing, gateway >>

\* resetLoadStats does not wait for the messages that are half counted.
ResetCounters ==
    /\ Using("load")
    /\ load' = [load EXCEPT !.requests = 0, !.success = 0, !.errors = 0,
                            !.torn = @ \/ \E m \in Message : load.stage[m] = "reading"]
    /\ UNCHANGED << video, routing, gateway >>

LoadStep ==
    \/ StartContinuous \/ StopContinuous \/ ResetCounters
    \/ \E m \in Message : SendMessage(m) \/ ResponseHead(m) \/ ResponseBody(m)

-----------------------------------------------------------------------------
(* The routing switch and the displays.                                    *)

Reachable == gateway.health # "down"

\* Another administrator changes the routing, or the gateway's health changes.
GatewayChanges ==
    /\ Using("routing") /\ gateway.changes < MaxChanges
    /\ \/ \E route \in Routes \ {gateway.route} :
             gateway' = [gateway EXCEPT !.route = route, !.changes = @ + 1]
       \/ \E health \in {"up", "failing", "down"} \ {gateway.health} :
             gateway' = [gateway EXCEPT !.health = health, !.changes = @ + 1]
    /\ UNCHANGED << video, load, routing >>

\* Variant: no setInterval, refreshed when the page is loaded and on demand.
RefreshByHand(r) ==
    /\ Using("routing") /\ routing.refresh[r] = "idle" /\ routing.shown = ""
    /\ routing' = [routing EXCEPT !.refresh[r] = "asked"]
    /\ UNCHANGED << video, load, gateway >>

\* refreshRoutingAndProcessors, every four seconds or by its button.
Refresh(r) ==
    /\ Using("routing") /\ routing.refresh[r] = "idle"
    /\ routing' = [routing EXCEPT !.refresh[r] = "asked"]
    /\ UNCHANGED << video, load, gateway >>

\* The gateway reads its mode; the answer may take longer than that to a later
\* refresh.
RefreshAnswered(r) ==
    /\ Using("routing") /\ routing.refresh[r] = "asked"
    /\ routing' = [routing EXCEPT !.refresh[r] = IF Reachable THEN gateway.route ELSE "error"]
    /\ UNCHANGED << video, load, gateway >>

\* The text is replaced, and the radio buttons are made anew with the gateway's
\* mode checked, whatever the person has picked meanwhile.
RefreshShown(r) ==
    /\ Using("routing") /\ routing.refresh[r] \notin {"idle", "asked"}
    /\ LET answer == routing.refresh[r]
       IN  routing' = [routing EXCEPT !.refresh[r] = "idle", !.shown = answer,
                                      !.pick = IF answer = "error" THEN @ ELSE answer]
    /\ UNCHANGED << video, load, gateway >>

Pick ==
    /\ Using("routing") /\ routing.pick # ""
    /\ \E route \in Routes \ {routing.pick} : routing' = [routing EXCEPT !.pick = route]
    /\ UNCHANGED << video, load, gateway >>

\* applyRouting sends what is picked now (bound: one at a time).
ApplyRouting ==
    /\ Using("routing") /\ routing.pick # "" /\ routing.posting = ""
    /\ gateway.changes < MaxChanges
    /\ routing' = [routing EXCEPT !.posting = routing.pick]
    /\ UNCHANGED << video, load, gateway >>

\* SetSticky, then a refresh; an answer that is lost leaves the mode set.
Applied ==
    /\ Using("routing") /\ routing.posting # ""
    /\ gateway' = IF Reachable
                  THEN [gateway EXCEPT !.route = routing.posting,
                                       !.changes = Min({MaxChanges, @ + 1})]
                  ELSE gateway
    /\ \E r \in Refreshes :
          routing' = [routing EXCEPT !.posting = "",
                                     !.refresh[r] = IF Reachable /\ @ = "idle" THEN "asked" ELSE @]
    /\ UNCHANGED << video, load >>

\* updateStats, every two seconds.  An answer that is an error changes nothing.
Poll ==
    /\ Using("routing")
    /\ \/ /\ routing.poll = "idle"
          /\ routing' = [routing EXCEPT !.poll = "asked"]
       \/ /\ routing.poll = "asked"
          /\ routing' = [routing EXCEPT !.poll = gateway.health]
       \/ /\ routing.poll \in {"up", "failing", "down"}
          /\ routing' = [routing EXCEPT !.poll = "idle",
                                         !.status = CASE routing.poll = "up" -> "connected"
                                                      [] routing.poll = "down" -> "disconnected"
                                                      [] OTHER -> @]
    /\ UNCHANGED << video, load, gateway >>

RoutingStep ==
    \/ GatewayChanges \/ Pick \/ ApplyRouting \/ Applied \/ Poll
    \/ \E r \in Refreshes : Refresh(r) \/ RefreshAnswered(r) \/ RefreshShown(r)

-----------------------------------------------------------------------------
\* Loading another page ends the scripts: the browser stops their cameras,
\* sockets and timers.
PanelFollows ==
    IF nav[PanelTab] # NoPath /\ nav'[PanelTab] = NoPath
    THEN /\ video' = NoVideo /\ load' = NoLoad /\ routing' = NoDisplay
         /\ UNCHANGED gateway
    ELSE UNCHANGED panel

PanelNext ==
    \/ Next /\ PanelFollows
    \/ VideoStep \/ LoadStep \/ RoutingStep

\* Timers fire, and what the page asks is answered or fails.
PanelFairness ==
    /\ Fairness
    /\ WF_panelVars(Poll) /\ WF_panelVars(Applied)
    /\ \A r \in Refreshes :
          WF_panelVars(Refresh(r)) /\ WF_panelVars(RefreshAnswered(r)) /\ WF_panelVars(RefreshShown(r))

PanelSpec == PanelInit /\ [][PanelNext]_panelVars /\ PanelFairness

-----------------------------------------------------------------------------
(* Properties.                                                             *)

Live(s) == video.socket[s] \in {"connecting", "open"}

\* A start that was never under way beside another one loses hold of nothing, also
\* when the mode is switched while it waits or what overlapped earlier comes late:
\* its camera, interval and socket are those that stopVideoDemo would stop, and once
\* it is over and any of them is on, the stop button is enabled - unless its play()
\* failed.
CameraCanBeStopped ==
    \A s \in Start \ video.beside :
        /\ s \in video.cameras => video.stream = s
        /\ s \in video.timers => video.timer = s
        /\ Live(s) => video.ws = s
        /\ s \notin Starting /\ (s \in video.cameras \/ s \in video.timers \/ Live(s)) =>
               video.canStop \/ video.call[s] = "failed"

\* A socket has one frame unanswered, and one more for each earlier socket whose
\* late end cleared the flag they share - unless two starts overlapped, when the
\* answers to the socket left behind clear it as well.
FramesInFlightBounded ==
    video.beside # {}
    \/ \A s \in Start :
          video.unanswered[s] <= 1 + Cardinality({ r \in 1 .. s - 1 : video.socket[r] = "closed" })

\* The load generator never shows more outcomes than requests, however its
\* messages overlap and fail, unless the counters were reset between the two
\* counts of a message.
LoadStatsAddUp == load.torn \/ load.success + load.errors <= load.requests

\* Of a panel that stays open, the displays end by showing what the gateway's
\* routing is and whether the gateway can be reached, and keep to it, whatever
\* answers to earlier refreshes come late - except that the status of a gateway
\* whose processors fail stays what it was.
DisplayCatchesUp ==
    <>[](visit.uses = "routing" /\ page[PanelTab] = "panel" /\ nav[PanelTab] = NoPath)
    => <>[](/\ routing.shown = (IF Reachable THEN gateway.route ELSE "error")
            /\ gateway.health = "up" => routing.status = "connected"
            /\ gateway.health = "down" => routing.status = "disconnected")
=============================================================================

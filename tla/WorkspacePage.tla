---------------------------- MODULE WorkspacePage ----------------------------
(***************************************************************************)
(* The workspace page of the web interface                                 *)
(* (frontend/src/views/WorkspaceView.vue): the URL, the report or the page *)
(* of the list of e-mails it names, and the asynchronous functions that    *)
(* load them.                                                              *)
(*                                                                         *)
(* A function of the page runs from one request to the next; while it      *)
(* waits, the analyst navigates, a timer polls and other functions run, so *)
(* answers arrive in any order.  One such function under way is a flow     *)
(* here, and each of its steps is the answer to a request with all that    *)
(* happens until the next one is sent.                                     *)
(*                                                                         *)
(* "pending" is queued or running, which the page does not tell apart.     *)
(* The campaigns of a report, loaded after it, the other sections and the  *)
(* session are left out.                                                   *)
(***************************************************************************)
EXTENDS Integers, Sequences

CONSTANTS
  Analyses,    \* ids of analyses; /analyses/{id} shows one
  Pages,       \* page numbers of the list; /analyses?page={n} shows one
  Elsewhere,   \* any URL of a section without the list of e-mails
  Flows,       \* slots for the functions under way
  MaxMoves,    \* bound: navigations and uploads that end
  MaxFaults,   \* bound: requests that fail on the network
  MaxRetries,  \* bound: presses of the retry button
  MaxEvents,   \* bound: all of these together
  NoReport, NoFlow

ASSUME PagesAssumption == Pages \subseteq Nat /\ 1 \in Pages
ASSUME BoundsAssumption ==
  /\ MaxMoves \in Nat /\ MaxFaults \in Nat /\ MaxRetries \in Nat
  /\ MaxEvents \in Nat
ASSUME ViewsAssumption ==
  Analyses \cap Pages = {} /\ Elsewhere \notin Analyses \cup Pages

VARIABLES
  past,     \* the statuses each analysis has had at the server
  route,    \* router.currentRoute, and with it tab
  report,   \* report: the analysis shown, as an answer described it
  list,     \* analysisPage: its page number, and the page its rows are of
  busy,     \* busy
  error,    \* error: the message of a failed request is shown
  flow,     \* the functions under way
  moves, faults, retries,
  overlapped  \* history: a function was under way at the last navigation

pageVars == <<route, report, list, busy, error, flow, overlapped>>
vars == <<past, pageVars, moves, faults, retries>>

Views == Analyses \cup Pages \cup {Elsewhere}
Reports == [id : Analyses, status : {"pending", "completed", "failed"}]

\* A function waits for the answer to one request.  act: it runs in act();
\* of: what was asked for; since: how long past[of] was then.
Waits == [act : BOOLEAN, of : Views,
          step : {"open", "dashboard", "list", "report", "retry", "retried",
                  "poll", "pollList"},
          since : Nat]

ASSUME NoValueAssumption == NoReport \notin Reports /\ NoFlow \notin Waits

----------------------------------------------------------------------------
\* The page of the list that a URL asks for.
PageOf(v) == IF v \in Pages THEN v ELSE 1

\* The page after onMounted.
Init ==
  /\ past = [a \in Analyses |-> <<"pending">>]
  /\ route \in Views
  /\ report = IF route \in Analyses THEN [id |-> route, status |-> "pending"]
              ELSE NoReport
  /\ list = [page |-> PageOf(route), rows |-> PageOf(route)]
  /\ busy = FALSE
  /\ error = FALSE
  /\ flow = [f \in Flows |-> NoFlow]
  /\ moves = 0
  /\ faults = 0
  /\ retries = 0
  /\ overlapped = FALSE

Room == moves + faults + retries < MaxEvents

Now(a) == past[a][Len(past[a])]

\* The server has processed the message.
Settle(a) ==
  /\ Now(a) = "pending"
  /\ \E s \in {"completed", "failed"} : past' = [past EXCEPT ![a] = Append(@, s)]
  /\ UNCHANGED <<pageVars, moves, faults, retries>>

\* The next request of a function.
Request(act, step, of) ==
  [act |-> act, step |-> step, of |-> of,
   since |-> IF of \in Analyses THEN Len(past[of]) ELSE 0]

Sends(f, act, step, of) == flow' = [flow EXCEPT ![f] = Request(act, step, of)]

Waiting(f, step) == flow[f] # NoFlow /\ flow[f].step = step

\* What the server may have answered to the request of f.
Answered(f) ==
  LET a == flow[f].of
  IN {[id |-> a, status |-> past[a][i]] : i \in flow[f].since..Len(past[a])}

\* act(fn), until the first request of fn.
Act(f, step, of) ==
  /\ flow[f] = NoFlow
  /\ Sends(f, TRUE, step, of)
  /\ busy' = TRUE
  /\ error' = FALSE

\* finally: busy is cleared, by the function that ends.
Released(f) == busy' = (busy /\ ~flow[f].act)

Idle == \A f \in Flows : flow[f] = NoFlow

Ends(f) == flow' = [flow EXCEPT ![f] = NoFlow] /\ Released(f)

----------------------------------------------------------------------------
(* Navigation and refreshing.                                              *)

SyncsWhenIdle == ~busy

\* watch(fullPath): whatever else is under way, the new URL is loaded.
Syncs == TRUE

\* router.push, back and forward; syncRoute until its first request.
Navigate(f, v) ==
  /\ moves < MaxMoves /\ Room
  /\ moves' = moves + 1
  /\ v # route
  /\ route' = v
  /\ IF Syncs
     THEN /\ IF v \in Analyses THEN Act(f, "open", v) ELSE Act(f, "dashboard", v)
          /\ report' = NoReport
          /\ list' = [list EXCEPT !.page = PageOf(v)]
     ELSE UNCHANGED <<report, list, busy, error, flow>>
  /\ overlapped' = ~Idle
  /\ UNCHANGED <<past, faults, retries>>

\* afterUpload: the intake tells of an upload that ended.
Uploaded(f) ==
  /\ moves < MaxMoves /\ Room
  /\ moves' = moves + 1
  /\ Act(f, "dashboard", route)
  /\ UNCHANGED <<past, route, report, list, faults, retries, overlapped>>

\* syncRoute: the report the URL names is shown, and refresh() follows.
Opened(f) ==
  /\ Waiting(f, "open")
  /\ report' \in Answered(f)
  /\ Sends(f, TRUE, "dashboard", flow[f].of)
  /\ UNCHANGED <<past, route, list, busy, error, moves, faults, retries,
                 overlapped>>

\* refresh(), its last part: the report that is shown is loaded again.
ReloadsReport(f) ==
  IF report # NoReport
  THEN Sends(f, TRUE, "report", report.id) /\ UNCHANGED busy
  ELSE Ends(f)


\* refresh(): the dashboard is there; tab and the page are read only now.
DashboardLoaded(f) ==
  /\ Waiting(f, "dashboard")
  /\ IF route # Elsewhere
     THEN Sends(f, TRUE, "list", list.page) /\ UNCHANGED busy
     ELSE ReloadsReport(f)
  /\ UNCHANGED <<past, route, report, list, error, moves, faults, retries,
                 overlapped>>

\* loadAnalyses: the answer says which page it is.
ShowsList(f) == list' = [page |-> flow[f].of, rows |-> flow[f].of]

ListLoaded(f) ==
  /\ Waiting(f, "list")
  /\ ShowsList(f)
  /\ ReloadsReport(f)
  /\ UNCHANGED <<past, route, report, error, moves, faults, retries,
                 overlapped>>

ReportLoaded(f) ==
  /\ Waiting(f, "report")
  /\ report' \in Answered(f)
  /\ Ends(f)
  /\ UNCHANGED <<past, route, list, error, moves, faults, retries, overlapped>>

----------------------------------------------------------------------------
(* The retry button.                                                       *)

\* retryReport: the button is there for a failed report, and while not busy.
Retry(f) ==
  /\ report # NoReport
  /\ report.status = "failed"
  /\ ~busy
  /\ retries < MaxRetries /\ Room
  /\ retries' = retries + 1
  /\ Act(f, "retry", report.id)
  /\ UNCHANGED <<past, route, report, list, moves, faults, overlapped>>

\* POST /analyses/{id}/retry at the server.
RetryAccepted(f) ==
  /\ Waiting(f, "retry")
  /\ Now(flow[f].of) = "failed"
  /\ past' = [past EXCEPT ![flow[f].of] = Append(@, "pending")]
  /\ flow' = [flow EXCEPT ![f].step = "retried", ![f].since = @ + 1]
  /\ UNCHANGED <<route, report, list, busy, error, moves, faults, retries,
                 overlapped>>

\* 409: the analysis is not failed any more.
RetryRefused(f) ==
  /\ Waiting(f, "retry")
  /\ Now(flow[f].of) # "failed"
  /\ error' = TRUE
  /\ Ends(f)
  /\ UNCHANGED <<past, route, report, list, moves, faults, retries, overlapped>>

\* The answer is read in a transaction after that one.
Retried(f) ==
  /\ Waiting(f, "retried")
  /\ report' \in Answered(f)
  /\ Ends(f)
  /\ UNCHANGED <<past, route, list, error, moves, faults, retries, overlapped>>

----------------------------------------------------------------------------
(* The timer of onMounted.                                                 *)

PollsNothing == FALSE

\* The report is asked for again while it is queued or running.
PollsReport == report # NoReport /\ report.status = "pending"

PollReport(f) ==
  /\ ~busy
  /\ flow[f] = NoFlow
  /\ PollsReport
  /\ Sends(f, FALSE, "poll", report.id)
  /\ UNCHANGED <<past, route, report, list, busy, error, moves, faults, retries,
                 overlapped>>

\* The list is, when one of its rows is: it may have one at any time.
PollList(f) ==
  /\ ~busy
  /\ flow[f] = NoFlow
  /\ ~PollsReport
  /\ route # Elsewhere
  /\ Sends(f, FALSE, "pollList", list.page)
  /\ UNCHANGED <<past, route, report, list, busy, error, moves, faults, retries,
                 overlapped>>

ReportPolled(f) ==
  /\ Waiting(f, "poll")
  /\ report' \in Answered(f)
  /\ \/ Ends(f)
     \/ route # Elsewhere /\ Sends(f, FALSE, "pollList", list.page) /\ UNCHANGED busy
  /\ UNCHANGED <<past, route, list, error, moves, faults, retries, overlapped>>

ListPolled(f) ==
  /\ Waiting(f, "pollList")
  /\ ShowsList(f)
  /\ Ends(f)
  /\ UNCHANGED <<past, route, report, error, moves, faults, retries,
                 overlapped>>

\* A request fails: act() shows it, the timer tries again later.
Fails(f) ==
  /\ flow[f] # NoFlow
  /\ faults < MaxFaults /\ Room
  /\ faults' = faults + 1
  /\ error' = (error \/ flow[f].act)
  /\ Ends(f)
  /\ UNCHANGED <<past, route, report, list, moves, retries, overlapped>>

Answer(f) ==
  \/ Opened(f) \/ DashboardLoaded(f) \/ ListLoaded(f) \/ ReportLoaded(f)
  \/ RetryAccepted(f) \/ RetryRefused(f) \/ Retried(f)
  \/ ReportPolled(f) \/ ListPolled(f)

Next ==
  \/ \E a \in Analyses : Settle(a)
  \/ \E f \in Flows :
       \/ \E v \in Views : Navigate(f, v)
       \/ Uploaded(f) \/ Retry(f) \/ PollReport(f) \/ PollList(f)
       \/ Answer(f) \/ Fails(f)

Spec == Init /\ [][Next]_vars

(* Messages are processed, requests are answered, and the timer runs every  *)
(* three seconds; nothing is assumed of the analyst.                        *)
FairSpec ==
  /\ Spec
  /\ \A a \in Analyses : WF_vars(Settle(a))
  /\ \A f \in Flows : WF_vars(Answer(f) \/ PollReport(f))

----------------------------------------------------------------------------
(* Properties.                                                             *)

\* The page shows what this URL names.
Shows(v) ==
  IF v \in Analyses THEN report # NoReport /\ report.id = v
  ELSE report = NoReport /\ (v \in Pages => list.rows = v)

\* A navigation to a report is not lost, whatever is under way when it happens:
\* unless a request fails or the analyst moves on, the page comes to show that
\* report.  It may not stay: see the next property.
NavigationLands ==
  \A a \in Analyses :
    route = a /\ report = NoReport /\ faults = 0
      ~> route # a \/ faults # 0 \/ Shows(a)


\* A report shown as queued or running does not stay so: while its message
\* is processed the page keeps asking, whatever fails, overlaps or blocks.
ReportSettles ==
  report # NoReport /\ report.status = "pending"
    ~> report = NoReport \/ report.status # "pending"

=============================================================================

------------------------------ MODULE Dashboard ------------------------------
(***************************************************************************)
(* GET /dashboard: internal/service/dashboard_service.go with the handler  *)
(* above it, the provider clients below it and the timers around it.  One  *)
(* request: it lists the user's widgets, asks the provider of one widget   *)
(* after the other, each under a timeout of its own, and writes the        *)
(* response if the connection's write deadline has not passed by then.     *)
(*                                                                         *)
(* Time is a number of ticks since the server read the request.  It passes *)
(* while the database lists the widgets and while a provider is awaited;   *)
(* the server's own steps take none.                                       *)
(***************************************************************************)
EXTENDS Integers, Sequences, Providers

CONSTANTS
  WidgetType,        \* types of the user's widgets
  Configured,        \* types whose client can be used: it has its API key
  Answers,           \* what providers may answer; they may also stay silent
  MaxWidgets,        \* bound on the widgets of the user
  ExternalTimeout,   \* EXTERNAL_TIMEOUT
  ClientTimeout,     \* Timeout of the http.Client that all clients share
  WriteTimeout,      \* WriteTimeout of the http.Server
  MaxListing,        \* bound on the time that ListByUser takes
  MaxElapsed         \* bound on the time that is looked at

ASSUME DashboardAssumption ==
  /\ WidgetType \subseteq {"weather", "news", "stock", "currency"}
  /\ WidgetType \ KeyedTypes \subseteq Configured
  /\ Answers \subseteq Answer
  /\ {MaxWidgets, MaxListing, MaxElapsed} \subseteq Nat
  /\ {ExternalTimeout, ClientTimeout, WriteTimeout} \subseteq Nat \ {0}

VARIABLES
  pc,        \* where the request's goroutine is
  list,      \* the types of the listed widgets, by position
  results,   \* the results so far: status, error and duration
  elapsed,   \* ticks since the request was read
  started,   \* elapsed when the current call started, or when the list came
  client,    \* is the client still connected?
  calls,     \* calls to providers so far
  status     \* HTTP status of the response, or 0

vars == <<pc, list, results, elapsed, started, client, calls, status>>

Result == [ok : BOOLEAN, duration : Nat,
           error : {"none", "not_configured", "provider", "timeout", "canceled"}]

Over == {"delivered", "undelivered"}

\* However calls fail, time out or are cancelled, there is never more than one
\* result and never more than one call to a provider for a listed widget.
TypeOK ==
  /\ pc \in {"listing", "looping", "fetching", "writing"} \cup Over
  /\ list \in Seq(WidgetType) /\ Len(list) <= MaxWidgets
  /\ results \in Seq(Result) /\ Len(results) <= Len(list)
  /\ started \in 0 .. elapsed /\ elapsed \in 0 .. MaxElapsed
  /\ client \in {"connected", "gone"}
  /\ calls \in 0 .. Len(list)
  /\ status \in {0, 200, 500}

Init ==
  /\ pc = "listing" /\ list = <<>> /\ results = <<>>
  /\ elapsed = 0 /\ started = 0
  /\ client = "connected" /\ calls = 0 /\ status = 0

-----------------------------------------------------------------------------
(* Plausible bugs, for the mutation runs.                                  *)

PerCallWithoutContext == ClientTimeout
CancelledIgnored == FALSE
TimedOutNever == FALSE
MoreWidgetsStopAtError ==
  Len(results) < Len(list) /\ \A k \in DOMAIN results : results[k].ok

-----------------------------------------------------------------------------
(* Timers.                                                                 *)

\* The per-call context and the http.Client each have a timeout.
PerCall == IF ExternalTimeout < ClientTimeout THEN ExternalTimeout ELSE ClientTimeout

\* A plausible bug: one context for all calls, made when the request came in.
DeadlineOfWholeRequest == PerCall

\* When the current call times out.
Deadline == started + PerCall
TimedOut == elapsed >= Deadline

\* The request's context is cancelled when the client disconnects.
Cancelled == client = "gone"

\* The range loop of fetchSequential has another widget.
MoreWidgets == Len(results) < Len(list)
Current == list[Len(results) + 1]

\* fetchOne is done with the current widget.
AddResult(ok, error) ==
  /\ results' = Append(results, [ok |-> ok, error |-> error,
                                 duration |-> IF pc = "fetching" THEN elapsed - started ELSE 0])
  /\ pc' = "looping"

\* A plausible bug: a call that failed is made once more.
ProviderAnswersRetry ==
  /\ pc = "fetching"
  /\ \E answer \in Answers :
       IF FetchSucceeds(Current, answer)
         THEN AddResult(TRUE, "none") /\ UNCHANGED <<started, calls>>
         ELSE started' = elapsed /\ calls' = calls + 1 /\ UNCHANGED <<pc, results>>
  /\ UNCHANGED <<list, elapsed, client, status>>

-----------------------------------------------------------------------------
ListReturns ==
  /\ pc = "listing" /\ ~Cancelled
  /\ \E n \in 0 .. MaxWidgets : list' \in [1 .. n -> WidgetType]
  /\ pc' = "looping"
  /\ started' = elapsed
  /\ UNCHANGED <<results, elapsed, client, calls, status>>

\* The database fails, or the context is cancelled: FromError answers 500.
ListFails ==
  /\ pc = "listing"
  /\ pc' = "writing" /\ status' = 500
  /\ UNCHANGED <<list, results, elapsed, started, client, calls>>

\* The client is asked: it checks its key before anything else, and the
\* transport checks the context before it contacts the provider.
StartFetch ==
  /\ pc = "looping" /\ MoreWidgets
  /\ \/ /\ Current \notin Configured
        /\ AddResult(FALSE, "not_configured")
        /\ UNCHANGED <<started, calls>>
     \/ /\ Current \in Configured /\ Cancelled
        /\ AddResult(FALSE, "canceled")
        /\ UNCHANGED <<started, calls>>
     \/ /\ Current \in Configured /\ ~Cancelled
        /\ pc' = "fetching"
        /\ started' = elapsed
        /\ calls' = calls + 1
        /\ UNCHANGED results
  /\ UNCHANGED <<list, elapsed, client, status>>

ProviderAnswers ==
  /\ pc = "fetching"
  /\ \E answer \in Answers :
       LET ok == FetchSucceeds(Current, answer)
       IN  AddResult(ok, IF ok THEN "none" ELSE "provider")
  /\ UNCHANGED <<list, elapsed, started, client, calls, status>>

\* describe tells an error that is DeadlineExceeded from any other.
CallEnds ==
  /\ pc = "fetching"
  /\ \/ TimedOut /\ AddResult(FALSE, "timeout")
     \/ Cancelled /\ AddResult(FALSE, "canceled")
  /\ UNCHANGED <<list, elapsed, started, client, calls, status>>

\* Build returns and the handler writes 200.
Assemble ==
  /\ pc = "looping" /\ ~MoreWidgets
  /\ pc' = "writing" /\ status' = 200
  /\ UNCHANGED <<list, results, elapsed, started, client, calls>>

\* The response leaves if the write deadline has not passed.
Write ==
  /\ pc = "writing"
  /\ pc' = IF client = "connected" /\ elapsed < WriteTimeout
             THEN "delivered" ELSE "undelivered"
  /\ UNCHANGED <<list, results, elapsed, started, client, calls, status>>

Disconnect ==
  /\ pc \notin Over /\ client = "connected"
  /\ client' = "gone"
  /\ UNCHANGED <<pc, list, results, elapsed, started, calls, status>>

\* Time stands still when a step of the server is due.
Tick ==
  /\ \/ pc = "listing" /\ elapsed < MaxListing
     \/ pc = "fetching" /\ ~TimedOut
  /\ ~Cancelled
  /\ elapsed < MaxElapsed
  /\ elapsed' = elapsed + 1
  /\ UNCHANGED <<pc, list, results, started, client, calls, status>>

Next ==
  \/ ListReturns \/ ListFails \/ StartFetch \/ ProviderAnswers \/ CallEnds
  \/ Assemble \/ Write \/ Disconnect \/ Tick

Spec == Init /\ [][Next]_vars

(***************************************************************************)
(* The server's own steps and the timers happen; the database answers in   *)
(* one way or the other.  No provider need ever answer.                    *)
(***************************************************************************)
FairSpec ==
  /\ Spec
  /\ WF_vars(ListReturns \/ ListFails)
  /\ WF_vars(StartFetch) /\ WF_vars(CallEnds) /\ WF_vars(Assemble) /\ WF_vars(Write)
  /\ WF_vars(Tick)

-----------------------------------------------------------------------------
\* However calls fail, time out or are cancelled: one outcome per listed widget,
\* in the order of the list, each the doing of its own provider.
Contract == INSTANCE DashboardContract
              WITH outcome <- [k \in DOMAIN results |-> results[k].error],
                   present <- client = "connected",
                   phase   <- CASE pc \in {"looping", "fetching"} -> "fetching"
                                [] pc = "writing" -> "answered"
                                [] pc \in Over -> "over"
                                [] OTHER -> "listing"

ImplementsContract == Contract!Spec

\* A widget is reported as timed out only after a provider has had the whole of
\* its own allowance: slow calls before it do not eat into it.
OwnAllowance ==
  \A k \in DOMAIN results :
    results[k].error = "timeout" => results[k].duration = PerCall

\* docs/API.md: 5 s per call.  A request never lasts longer than one timeout for
\* each provider it called, and never waits for one that is not configured.
LatencyBound == elapsed <= MaxListing + calls * ExternalTimeout

\* The inductive invariant: what a request has used up is accounted for by its
\* calls, one for each result at most and one that is under way.
DashboardInv ==
  /\ pc = "listing" => list = <<>> /\ results = <<>> /\ calls = 0 /\ elapsed <= MaxListing
  /\ pc = "fetching" =>
       /\ MoreWidgets /\ Current \in Configured
       /\ calls \in 1 .. Len(results) + 1
       /\ started <= MaxListing + (calls - 1) * ExternalTimeout
       /\ elapsed <= Deadline
  /\ pc # "fetching" => calls <= Len(results)
  /\ LatencyBound /\ OwnAllowance

\* When the client has gone no further provider is called for it.
NoCallForNobody == [][client = "gone" => calls' = calls]_calls

\* The request ends even if no provider ever answers.
RequestEnds == <>(pc \in Over)

-----------------------------------------------------------------------------
(* What the documentation promises and the code does not keep.             *)

\* docs/API.md: one provider timing out never fails the request.  A client that
\* stays connected gets the dashboard once the widgets are listed.
ListedMeansDelivered ==
  pc = "undelivered" => status # 200 \/ client = "gone"
=============================================================================

-------------------------- MODULE Dashboard_proofs --------------------------
(***************************************************************************)
(* Proofs about module Dashboard, for any widgets, any timeouts and any    *)
(* answers of the providers.                                               *)
(***************************************************************************)
EXTENDS Dashboard, SequenceTheorems, TLAPS

\* One more call is one more allowance.
LEMMA OneMore ==
  \A n, t \in Int : (n + 1) * t = n * t + t /\ (n - 1) * t = n * t - t
OBVIOUS

\* A call that has not used up its allowance p <= t may last one tick more.
LEMMA OneTick ==
  ASSUME NEW e \in Int, NEW s \in Int, NEW p \in Int, NEW t \in Int, NEW m \in Int, NEW c \in Int,
         e < s + p, p <= t, s <= m + c - t
  PROVE  e + 1 <= s + p /\ e + 1 <= m + c
OBVIOUS

\* No timeout is negative, and no call may last longer than EXTERNAL_TIMEOUT.
LEMMA PerCallBound == PerCall \in Nat /\ PerCall <= ExternalTimeout
BY DashboardAssumption DEF PerCall

\* Whether a fetch succeeds is defined for every type that a widget may have.
LEMMA FetchSucceedsType ==
  \A type \in WidgetType : \A answer \in Answers : FetchSucceeds(type, answer) \in BOOLEAN
<1> SUFFICES ASSUME NEW type \in WidgetType, NEW answer \in Answers
             PROVE  FetchSucceeds(type, answer) \in BOOLEAN
  OBVIOUS
<1> USE DEF FetchSucceeds, WeatherFetches, NewsFetches, StockFetches, CurrencyFetches, Decodes
<1>1. ASSUME type = "weather" PROVE FetchSucceeds(type, answer) = Decodes(answer)
  BY <1>1
<1>2. ASSUME type = "news" PROVE FetchSucceeds(type, answer) = Decodes(answer)
  BY <1>2
<1>3. ASSUME type = "stock" PROVE FetchSucceeds(type, answer) = StockFetches(answer)
  BY <1>3
<1>4. ASSUME type = "currency" PROVE FetchSucceeds(type, answer) = CurrencyFetches(answer)
  BY <1>4
<1>5. type \in {"weather", "news", "stock", "currency"}
  BY DashboardAssumption
<1>6. {Decodes(answer), StockFetches(answer), CurrencyFetches(answer)} \subseteq BOOLEAN
  OBVIOUS
<1> HIDE DEF FetchSucceeds, StockFetches, CurrencyFetches, Decodes
<1> QED
  BY <1>1, <1>2, <1>3, <1>4, <1>5, <1>6

\* What AddResult appends is a result, and nothing else changes.
LEMMA AddResultType ==
  ASSUME TypeOK, NEW ok \in BOOLEAN,
         NEW error \in {"none", "not_configured", "provider", "timeout", "canceled"},
         AddResult(ok, error)
  PROVE  /\ pc' = "looping"
         /\ results' \in Seq(Result) /\ Len(results') = Len(results) + 1
         /\ \A k \in 1 .. Len(results) : results'[k] = results[k]
         /\ results'[Len(results) + 1] =
              [ok |-> ok, error |-> error,
               duration |-> IF pc = "fetching" THEN elapsed - started ELSE 0]
<1> DEFINE r == [ok |-> ok, error |-> error,
                 duration |-> IF pc = "fetching" THEN elapsed - started ELSE 0]
<1>1. r \in Result
  BY DEF TypeOK, Result
<1>2. results \in Seq(Result)
  BY DEF TypeOK
<1>3. results' = Append(results, r) /\ pc' = "looping"
  BY DEF AddResult
<1> HIDE DEF r
<1>4. /\ Append(results, r) \in Seq(Result)
      /\ Len(Append(results, r)) = Len(results) + 1
      /\ \A k \in 1 .. Len(results) : Append(results, r)[k] = results[k]
      /\ Append(results, r)[Len(results) + 1] = r
  BY <1>1, <1>2, AppendProperties
<1> QED
  BY <1>3, <1>4 DEF r

\* A result that is not a timeout of the current call keeps OwnAllowance, and so
\* does a timeout after exactly its allowance.
LEMMA AddResultAllowance ==
  ASSUME TypeOK, OwnAllowance, NEW ok \in BOOLEAN,
         NEW error \in {"none", "not_configured", "provider", "timeout", "canceled"},
         AddResult(ok, error),
         error = "timeout" => pc = "fetching" /\ elapsed = Deadline
  PROVE  OwnAllowance'
<1>1. /\ results' \in Seq(Result) /\ Len(results') = Len(results) + 1
      /\ \A k \in 1 .. Len(results) : results'[k] = results[k]
      /\ results'[Len(results) + 1] =
           [ok |-> ok, error |-> error,
            duration |-> IF pc = "fetching" THEN elapsed - started ELSE 0]
  BY AddResultType
<1>2. results \in Seq(Result) /\ Len(results) \in Nat /\ started \in Int /\ elapsed \in Int
  BY DEF TypeOK
<1>3. /\ DOMAIN results = 1 .. Len(results)
      /\ DOMAIN results' = 1 .. Len(results) + 1
  BY <1>1, <1>2
<1>4. error = "timeout" => results'[Len(results) + 1].duration = PerCall
  BY <1>1, <1>2, PerCallBound DEF Deadline
<1> SUFFICES ASSUME NEW k \in DOMAIN results', results'[k].error = "timeout"
             PROVE  results'[k].duration = PerCall
  BY DEF OwnAllowance, PerCall
<1>5. CASE k \in DOMAIN results
  BY <1>1, <1>3, <1>5 DEF OwnAllowance
<1>6. CASE k = Len(results) + 1
  BY <1>1, <1>4, <1>6
<1> QED
  BY <1>2, <1>3, <1>5, <1>6

-----------------------------------------------------------------------------
\* The invariant of the proofs.
Invariant == TypeOK /\ DashboardInv

\* The request starts in the invariant.
LEMMA InvariantInit == Init => Invariant
<1> SUFFICES ASSUME Init PROVE Invariant
  OBVIOUS
<1>1. TypeOK
  BY DashboardAssumption, EmptySeq DEF Init, TypeOK, Over
<1>2. DashboardInv
  BY DashboardAssumption DEF Init, DashboardInv, LatencyBound, OwnAllowance
<1> QED
  BY <1>1, <1>2 DEF Invariant

\* The integers among the variables.
LEMMA Numbers ==
  ASSUME TypeOK
  PROVE  /\ {elapsed, started, calls, Len(results), Len(list)} \subseteq Nat
         /\ {ExternalTimeout, MaxListing, PerCall, MaxElapsed} \subseteq Nat
         /\ calls * ExternalTimeout \in Int
         /\ (calls - 1) * ExternalTimeout = calls * ExternalTimeout - ExternalTimeout
         /\ (calls + 1) * ExternalTimeout = calls * ExternalTimeout + ExternalTimeout
<1>1. /\ {elapsed, started, calls, Len(results), Len(list)} \subseteq Nat
      /\ {ExternalTimeout, MaxListing, PerCall, MaxElapsed} \subseteq Nat
  BY DashboardAssumption, PerCallBound DEF TypeOK
<1> QED
  BY <1>1, OneMore

\* The list arrives.
LEMMA ListReturnsStep == Invariant /\ ListReturns => Invariant'
<1> SUFFICES ASSUME Invariant, ListReturns PROVE Invariant'
  OBVIOUS
<1> USE DEF Invariant
<1>1. PICK n \in 0 .. MaxWidgets : list' \in [1 .. n -> WidgetType]
  BY DEF ListReturns
<1>2. n \in Nat /\ n <= MaxWidgets
  BY DashboardAssumption
<1>3. list' \in Seq(WidgetType) /\ Len(list') = n
  BY <1>1, <1>2, SeqDef
<1>4. results = <<>> /\ calls = 0 /\ elapsed <= MaxListing
  BY DEF ListReturns, DashboardInv
<1>5. TypeOK'
  BY <1>2, <1>3, <1>4, Numbers DEF ListReturns, TypeOK
<1>6. DashboardInv'
  BY <1>4, Numbers, PerCallBound DEF ListReturns, DashboardInv, LatencyBound, OwnAllowance, PerCall
<1> QED
  BY <1>5, <1>6

\* A provider is asked, or its widget is passed over.
LEMMA StartFetchStep == Invariant /\ StartFetch => Invariant'
<1> SUFFICES ASSUME Invariant, StartFetch PROVE Invariant'
  OBVIOUS
<1> USE DEF Invariant
<1>1. /\ pc = "looping" /\ MoreWidgets
      /\ UNCHANGED <<list, elapsed, client, status>>
      /\ calls <= Len(results) /\ LatencyBound /\ OwnAllowance
  BY DEF StartFetch, DashboardInv
<1>2. ASSUME NEW error \in {"not_configured", "canceled"},
             AddResult(FALSE, error), UNCHANGED <<started, calls>>
      PROVE  Invariant'
  <2>1. pc' = "looping" /\ results' \in Seq(Result) /\ Len(results') = Len(results) + 1
    BY <1>2, AddResultType
  <2>2. OwnAllowance'
    BY <1>1, <1>2, AddResultAllowance
  <2>3. TypeOK'
    BY <1>1, <1>2, <2>1, Numbers DEF TypeOK, MoreWidgets
  <2>4. DashboardInv'
    BY <1>1, <1>2, <2>1, <2>2, Numbers DEF DashboardInv, LatencyBound
  <2> QED
    BY <2>3, <2>4
<1>3. CASE /\ Current \in Configured
           /\ pc' = "fetching" /\ started' = elapsed /\ calls' = calls + 1 /\ UNCHANGED results
  <2>1. TypeOK'
    BY <1>1, <1>3, Numbers DEF TypeOK, MoreWidgets
  <2>2. OwnAllowance'
    BY <1>1, <1>3 DEF OwnAllowance, PerCall
  <2>3. calls' = calls + 1 /\ calls' \in 1 .. Len(results') + 1 /\ calls' - 1 = calls
    <3>1. calls \in Nat /\ Len(results) \in Nat /\ calls <= Len(results)
      BY <1>1, Numbers
    <3> QED
      BY <1>3, <3>1
  <2>4. elapsed <= MaxListing + calls * ExternalTimeout
    BY <1>1 DEF LatencyBound
  <2>5. elapsed <= MaxListing + (calls + 1) * ExternalTimeout
    BY <2>4, Numbers
  <2>6. LatencyBound' /\ started' <= MaxListing + (calls' - 1) * ExternalTimeout
    BY <1>1, <1>3, <2>3, <2>4, <2>5 DEF LatencyBound
  <2>7. Deadline' = elapsed + PerCall /\ MoreWidgets' /\ Current' = Current
    BY <1>1, <1>3 DEF Deadline, PerCall, MoreWidgets, Current
  <2>8. elapsed' <= Deadline'
    BY <1>1, <2>7, Numbers
  <2> QED
    BY <1>3, <2>1, <2>2, <2>3, <2>6, <2>7, <2>8 DEF DashboardInv
<1> QED
  BY <1>2, <1>3 DEF StartFetch

\* A call ends in one way or the other.
LEMMA CallStep == Invariant /\ (ProviderAnswers \/ CallEnds) => Invariant'
<1> SUFFICES ASSUME Invariant, ProviderAnswers \/ CallEnds PROVE Invariant'
  OBVIOUS
<1> USE DEF Invariant
<1>1. /\ pc = "fetching" /\ MoreWidgets
      /\ UNCHANGED <<list, elapsed, started, client, calls, status>>
      /\ calls \in 1 .. Len(results) + 1 /\ elapsed <= Deadline
      /\ LatencyBound /\ OwnAllowance
  BY DEF ProviderAnswers, CallEnds, DashboardInv
<1>2. Current \in WidgetType
  BY <1>1, ElementOfSeq, Numbers DEF MoreWidgets, Current, TypeOK
<1>3. PICK ok \in BOOLEAN, error \in {"none", "provider", "timeout", "canceled"} :
        AddResult(ok, error) /\ (error = "timeout" => TimedOut)
  <2>1. CASE ProviderAnswers
    <3>1. PICK answer \in Answers :
            AddResult(FetchSucceeds(Current, answer),
                      IF FetchSucceeds(Current, answer) THEN "none" ELSE "provider")
      BY <2>1 DEF ProviderAnswers
    <3> QED
      BY <1>2, <3>1, FetchSucceedsType
  <2>2. CASE CallEnds
    BY <2>2 DEF CallEnds
  <2> QED
    BY <2>1, <2>2
<1>4. error = "timeout" => elapsed = Deadline
  BY <1>1, <1>3, Numbers DEF TimedOut, Deadline
<1>5. pc' = "looping" /\ results' \in Seq(Result) /\ Len(results') = Len(results) + 1
  BY <1>3, AddResultType
<1>6. OwnAllowance'
  BY <1>1, <1>3, <1>4, AddResultAllowance
<1>7. TypeOK'
  BY <1>1, <1>5, Numbers DEF TypeOK, MoreWidgets
<1>8. DashboardInv'
  BY <1>1, <1>5, <1>6, Numbers DEF DashboardInv, LatencyBound
<1> QED
  BY <1>7, <1>8

\* Time passes, and a call lasts at most its allowance.
LEMMA TickStep == Invariant /\ Tick => Invariant'
<1> SUFFICES ASSUME Invariant, Tick PROVE Invariant'
  OBVIOUS
<1> USE DEF Invariant
<1>1. /\ UNCHANGED <<pc, list, results, started, client, calls, status>>
      /\ elapsed' = elapsed + 1 /\ elapsed < MaxElapsed
  BY DEF Tick
<1>2. TypeOK'
  BY <1>1, Numbers DEF TypeOK
<1>3. OwnAllowance'
  BY <1>1 DEF OwnAllowance, DashboardInv, PerCall
<1>4. CASE pc = "listing" /\ elapsed < MaxListing
  <2>1. list = <<>> /\ results = <<>> /\ calls = 0 /\ elapsed' <= MaxListing
    BY <1>1, <1>4, Numbers DEF DashboardInv
  <2>2. 0 * ExternalTimeout = 0 /\ Len(<<>>) = 0
    BY Numbers
  <2>3. LatencyBound'
    BY <1>1, <2>1, <2>2, Numbers DEF LatencyBound
  <2> QED
    BY <1>1, <1>2, <1>3, <1>4, <2>1, <2>2, <2>3 DEF DashboardInv
<1>5. CASE pc = "fetching" /\ ~TimedOut
  <2>1. /\ calls \in 1 .. Len(results) + 1 /\ MoreWidgets /\ Current \in Configured
        /\ started <= MaxListing + (calls - 1) * ExternalTimeout
        /\ elapsed < started + PerCall
    BY <1>5, Numbers DEF DashboardInv, TimedOut, Deadline
  <2>2. elapsed' <= started + PerCall /\ elapsed' <= MaxListing + calls * ExternalTimeout
    <3>1. started <= MaxListing + calls * ExternalTimeout - ExternalTimeout
      BY <2>1, Numbers
    <3>2. /\ {elapsed, started, PerCall, ExternalTimeout, MaxListing} \subseteq Int
          /\ calls * ExternalTimeout \in Int
      BY Numbers
    <3> DEFINE used == calls * ExternalTimeout
    <3> HIDE DEF used
    <3>3. elapsed + 1 <= started + PerCall /\ elapsed + 1 <= MaxListing + used
      BY <2>1, <3>1, <3>2, PerCallBound, OneTick DEF used
    <3> QED
      BY <1>1, <3>3 DEF used
  <2>3. Deadline' = started + PerCall /\ MoreWidgets' /\ Current' = Current
    BY <1>1, <2>1 DEF Deadline, PerCall, MoreWidgets, Current
  <2> QED
    BY <1>1, <1>2, <1>3, <1>5, <2>1, <2>2, <2>3 DEF DashboardInv, LatencyBound
<1> QED
  BY <1>4, <1>5 DEF Tick

\* The other steps change neither the results nor what time is counted by.
LEMMA OtherStep ==
  Invariant /\ (ListFails \/ Assemble \/ Write \/ Disconnect \/ UNCHANGED vars) => Invariant'
<1> SUFFICES ASSUME Invariant, ListFails \/ Assemble \/ Write \/ Disconnect \/ UNCHANGED vars
             PROVE  Invariant'
  OBVIOUS
<1> USE DEF Invariant
<1>1. UNCHANGED <<list, results, elapsed, started, calls>>
  BY DEF ListFails, Assemble, Write, Disconnect, vars
<1>2. /\ pc' = pc \/ (pc # "fetching" /\ pc' \in {"writing"} \cup Over)
      /\ pc' \in {"listing", "looping", "fetching", "writing"} \cup Over
      /\ client' \in {"connected", "gone"} /\ status' \in {0, 200, 500}
  BY DEF ListFails, Assemble, Write, Disconnect, vars, TypeOK, Over
<1>3. TypeOK'
  BY <1>1, <1>2 DEF TypeOK, Over
<1>4. OwnAllowance' /\ LatencyBound'
  BY <1>1 DEF OwnAllowance, LatencyBound, DashboardInv, PerCall
<1>5. (MoreWidgets' <=> MoreWidgets) /\ Deadline' = Deadline /\ Current' = Current
  BY <1>1 DEF MoreWidgets, Deadline, PerCall, Current
<1>6. (pc = "listing" => calls <= Len(results))
  BY DEF DashboardInv
<1>7. DashboardInv'
  BY <1>1, <1>2, <1>4, <1>5, <1>6 DEF DashboardInv, Over
<1> QED
  BY <1>3, <1>7

\* Every step keeps the invariant.
LEMMA InvariantStep == Invariant /\ [Next]_vars => Invariant'
BY ListReturnsStep, StartFetchStep, CallStep, TickStep, OtherStep DEF Next

-----------------------------------------------------------------------------
\* The inductive invariant of the dashboard, for any widgets and timeouts.
THEOREM DashboardInvariant == Spec => []DashboardInv
<1>1. Spec => []Invariant
  BY InvariantInit, InvariantStep, PTL DEF Spec
<1> QED
  BY <1>1, PTL DEF Invariant

\* Type correctness of Dashboard, with at most one call and one result per widget.
THEOREM DashboardTypeCorrect == Spec => []TypeOK
<1>1. Spec => []Invariant
  BY InvariantInit, InvariantStep, PTL DEF Spec
<1> QED
  BY <1>1, PTL DEF Invariant

\* No provider is cut short by the slowness of those asked before it.
THEOREM EachItsOwnAllowance == Spec => []OwnAllowance
BY DashboardInvariant, PTL DEF DashboardInv

\* The time until the response is bounded by the calls that were made.
THEOREM LatencyBounded == Spec => []LatencyBound
BY DashboardInvariant, PTL DEF DashboardInv

\* No provider is called for a client that has gone.
THEOREM NoCallsForTheGone == Spec => NoCallForNobody
<1>1. [Next]_vars => [client = "gone" => calls' = calls]_calls
  BY DEF Next, vars, ListReturns, ListFails, StartFetch, ProviderAnswers, CallEnds, Assemble,
         Write, Disconnect, Tick, Cancelled
<1> QED
  BY <1>1, PTL DEF Spec, NoCallForNobody

-----------------------------------------------------------------------------
(* The dashboard keeps its contract.  Fairness is left to the model checker.*)

\* The phase that the contract sees.
PhaseAt(place) ==
  CASE place \in {"looping", "fetching"} -> "fetching"
    [] place = "writing" -> "answered"
    [] place \in Over -> "over"
    [] OTHER -> "listing"

Phase == PhaseAt(pc)

\* The outcomes that the contract sees.
Outcome == [k \in DOMAIN results |-> results[k].error]

\* The phase by the place of the goroutine.
LEMMA PhaseOf ==
  /\ PhaseAt("listing") = "listing"
  /\ PhaseAt("looping") = "fetching"
  /\ PhaseAt("fetching") = "fetching"
  /\ PhaseAt("writing") = "answered"
  /\ \A place \in Over : PhaseAt(place) = "over"
BY DEF PhaseAt, Over

\* A new result is the outcome of the first widget that has none.
LEMMA AddResultSettles ==
  ASSUME Invariant, NEW ok \in BOOLEAN,
         NEW error \in {"none", "not_configured", "provider", "timeout", "canceled"},
         AddResult(ok, error), pc \in {"looping", "fetching"}, MoreWidgets,
         UNCHANGED <<list, client, status>>, TypeOK',
         error \in Contract!PossibleOutcomes(Current)
  PROVE  Contract!Settle
<1> DEFINE k == Len(results) + 1
<1>1. /\ results' \in Seq(Result) /\ Len(results') = Len(results) + 1 /\ pc' = "looping"
      /\ \A j \in 1 .. Len(results) : results'[j] = results[j]
      /\ results'[k].error = error
  <2>1. TypeOK
    BY DEF Invariant
  <2>2. /\ results' \in Seq(Result) /\ Len(results') = Len(results) + 1 /\ pc' = "looping"
        /\ \A j \in 1 .. Len(results) : results'[j] = results[j]
        /\ results'[k] = [ok |-> ok, error |-> error,
                          duration |-> IF pc = "fetching" THEN elapsed - started ELSE 0]
    BY <2>1, AddResultType
  <2> QED
    BY <2>2
<1>2. results \in Seq(Result) /\ list \in Seq(WidgetType)
  BY DEF Invariant, TypeOK
<1>3. /\ DOMAIN results = 1 .. Len(results) /\ DOMAIN results' = 1 .. Len(results) + 1
      /\ DOMAIN list = 1 .. Len(list) /\ Len(results) \in Nat /\ Len(list) \in Nat
  BY <1>1, <1>2
<1>4. k \in DOMAIN list \ DOMAIN Outcome /\ Current = list[k]
  BY <1>3 DEF MoreWidgets, Current, Outcome
<1>5. DOMAIN results' = DOMAIN results \cup {k}
  BY <1>3
<1>6. Outcome' = [j \in DOMAIN results \cup {k} |-> results'[j].error]
  BY <1>5 DEF Outcome
<1>7. \A j \in DOMAIN results \cup {k} :
        results'[j].error = IF j = k THEN error ELSE Outcome[j]
  BY <1>1, <1>3 DEF Outcome
<1>8. Outcome' = [j \in DOMAIN Outcome \cup {k} |-> IF j = k THEN error ELSE Outcome[j]]
  BY <1>6, <1>7 DEF Outcome
<1>9. Phase = "fetching" /\ Phase' = "fetching"
  BY <1>1, PhaseOf DEF Phase
<1> HIDE DEF k
<1> QED
  BY <1>4, <1>8, <1>9 DEF Contract!Settle, Outcome, Phase, PhaseAt

\* Every step of the dashboard is a step of its contract, or a stutter.
LEMMA StepKeepsContract ==
  Invariant /\ Invariant' /\ [Next]_vars => [Contract!Next]_(Contract!vars)
<1> SUFFICES ASSUME Invariant, Invariant', [Next]_vars PROVE [Contract!Next]_(Contract!vars)
  OBVIOUS
<1> USE DEF Invariant
<1>0. TypeOK /\ TypeOK'
  OBVIOUS
<1>1. CASE ListReturns
  <2>1. Phase = "listing" /\ Phase' = "fetching" /\ client = "connected"
    BY <1>0, <1>1, PhaseOf DEF ListReturns, Cancelled, TypeOK, Phase
  <2>2. /\ \E n \in 0 .. MaxWidgets : list' \in [1 .. n -> WidgetType]
        /\ UNCHANGED <<results, client, status>>
    BY <1>1 DEF ListReturns
  <2>3. Contract!List
    BY <2>1, <2>2 DEF Contract!List, Phase, PhaseAt
  <2> QED
    BY <2>3 DEF Contract!Next
<1>2. CASE ListFails
  <2>1. Phase = "listing" /\ Phase' = "answered"
    BY <1>0, <1>2, PhaseOf DEF ListFails, Phase
  <2>2. status' = 500 /\ UNCHANGED <<list, results, client>>
    BY <1>2 DEF ListFails
  <2>3. Contract!Answer
    BY <2>1, <2>2 DEF Contract!Answer, Phase, PhaseAt
  <2> QED
    BY <2>3 DEF Contract!Next
<1>3. CASE StartFetch
  <2>1. pc = "looping" /\ MoreWidgets /\ UNCHANGED <<list, client, status>>
    BY <1>3 DEF StartFetch
  <2>2. CASE Current \notin Configured /\ AddResult(FALSE, "not_configured")
    BY <1>0, <2>1, <2>2, AddResultSettles DEF Contract!PossibleOutcomes, Contract!Next
  <2>3. CASE Current \in Configured /\ Cancelled /\ AddResult(FALSE, "canceled")
    BY <1>0, <2>1, <2>3, AddResultSettles
       DEF Contract!PossibleOutcomes, Contract!Next, Cancelled
  <2>4. CASE pc' = "fetching" /\ UNCHANGED results
    <3>1. Phase' = Phase
      BY <1>0, <2>1, <2>4, PhaseOf DEF Phase
    <3> QED
      BY <2>1, <2>4, <3>1 DEF Contract!vars, Phase, PhaseAt
  <2> QED
    BY <1>3, <2>2, <2>3, <2>4 DEF StartFetch
<1>4. CASE ProviderAnswers \/ CallEnds
  <2>1. /\ pc = "fetching" /\ MoreWidgets /\ Current \in Configured
        /\ UNCHANGED <<list, client, status>>
    BY <1>4 DEF ProviderAnswers, CallEnds, DashboardInv
  <2>2. Current \in WidgetType
    BY <2>1, ElementOfSeq, Numbers DEF MoreWidgets, Current, TypeOK
  <2>3. PICK ok \in BOOLEAN, error \in {"none", "provider", "timeout", "canceled"} :
          AddResult(ok, error) /\ (error = "canceled" => Cancelled)
    <3>1. CASE ProviderAnswers
      <4>1. PICK answer \in Answers :
              AddResult(FetchSucceeds(Current, answer),
                        IF FetchSucceeds(Current, answer) THEN "none" ELSE "provider")
        BY <3>1 DEF ProviderAnswers
      <4> QED
        BY <2>2, <4>1, FetchSucceedsType
    <3>2. CASE CallEnds
      BY <3>2 DEF CallEnds
    <3> QED
      BY <1>4, <3>1, <3>2
  <2>4. error \in Contract!PossibleOutcomes(Current)
    BY <2>1, <2>3 DEF Contract!PossibleOutcomes, Cancelled
  <2> QED
    BY <1>0, <2>1, <2>3, <2>4, AddResultSettles DEF Contract!Next
<1>5. CASE Assemble
  <2>1. Phase = "fetching" /\ Phase' = "answered"
    BY <1>0, <1>5, PhaseOf DEF Assemble, Phase
  <2>2. Len(results) = Len(list) /\ status' = 200 /\ UNCHANGED <<list, results, client>>
    BY <1>0, <1>5, Numbers DEF Assemble, MoreWidgets, TypeOK
  <2>3. DOMAIN Outcome = DOMAIN list
    BY <1>0, <2>2 DEF Outcome, TypeOK
  <2>4. Contract!Answer
    BY <2>1, <2>2, <2>3 DEF Contract!Answer, Phase, PhaseAt, Outcome
  <2> QED
    BY <2>4 DEF Contract!Next
<1>6. CASE Write
  <2>1. Phase = "answered" /\ Phase' = "over"
    BY <1>0, <1>6, PhaseOf DEF Write, Phase, Over
  <2>2. UNCHANGED <<list, results, client, status>>
    BY <1>6 DEF Write
  <2>3. Contract!Finish
    BY <2>1, <2>2 DEF Contract!Finish, Phase, PhaseAt
  <2> QED
    BY <2>3 DEF Contract!Next
<1>7. CASE Disconnect
  <2>1. Phase # "over" /\ Phase' = Phase
    BY <1>0, <1>7, PhaseOf DEF Disconnect, Phase, TypeOK, Over
  <2>2. client = "connected" /\ client' = "gone" /\ UNCHANGED <<list, results, status>>
    BY <1>7 DEF Disconnect
  <2>3. Contract!Leave
    BY <2>1, <2>2 DEF Contract!Leave, Phase, PhaseAt
  <2> QED
    BY <2>3 DEF Contract!Next
<1>8. CASE Tick \/ UNCHANGED vars
  BY <1>8 DEF Tick, vars, Contract!vars
<1> QED
  BY <1>1, <1>2, <1>3, <1>4, <1>5, <1>6, <1>7, <1>8 DEF Next

\* The dashboard starts as its contract does.
LEMMA InitKeepsContract == Init => Contract!Init
BY DEF Init, Contract!Init, Over

\* Whatever the widgets, the timeouts and the providers do, every widget gets one
\* outcome, that of its own call, and only a complete set is answered with 200.
THEOREM DashboardKeepsContract == Spec => Contract!Init /\ [][Contract!Next]_(Contract!vars)
<1>1. Spec => []Invariant
  BY InvariantInit, InvariantStep, PTL DEF Spec
<1> QED
  BY <1>1, InitKeepsContract, StepKeepsContract, PTL DEF Spec
=============================================================================

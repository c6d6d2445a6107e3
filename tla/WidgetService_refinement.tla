----------------------- MODULE WidgetService_refinement -----------------------
(***************************************************************************)
(* The widget endpoints implement the atomic store of WidgetStore, for any *)
(* number of goroutines, users, types, configs and ids: the initial state  *)
(* maps to an initial state, and each step to a step or to a stutter.      *)
(* From the same invariant: what no step may do to the widgets of a user.  *)
(***************************************************************************)
EXTENDS WidgetService_proofs

-----------------------------------------------------------------------------
(* No response before the answer.                                          *)

LEMMA SilentInit == Init => SilentUntilAnswered
BY DEF Init, SilentUntilAnswered

\* A step that leaves the responses alone and answers nothing.
LEMMA SilentStep ==
  ASSUME TypeOK, SilentUntilAnswered, NEW s \in Slot, UNCHANGED res,
         NEW next \in Control \ {"answered"}, pc[s] # "answered",
         pc' = [pc EXCEPT ![s] = next]
  PROVE  SilentUntilAnswered'
BY DEF TypeOK, SilentUntilAnswered

LEMMA AnswerIsSilent ==
  ASSUME TypeOK, SilentUntilAnswered, NEW s \in Slot, NEW r, Answer(s, r)
  PROVE  SilentUntilAnswered'
BY DEF TypeOK, SilentUntilAnswered, Answer

LEMMA SilentNext == TypeOK /\ SilentUntilAnswered /\ [Next]_vars => SilentUntilAnswered'
<1> SUFFICES ASSUME TypeOK, SilentUntilAnswered, [Next]_vars
             PROVE  SilentUntilAnswered'
  OBVIOUS
<1>1. ASSUME NEW s \in Slot, NEW q, NEW st, NEW next \in {"load", "exec"},
             Accept(s, q, st, next)
      PROVE  SilentUntilAnswered'
  BY <1>1, SilentStep DEF Accept, Control
<1>2. ASSUME NEW s \in Slot, NEW code, Refuse(s, code)
      PROVE  SilentUntilAnswered'
  BY <1>2, AnswerIsSilent DEF Refuse
<1>3. ASSUME NEW s \in Slot, ClientRequest(s)
      PROVE  SilentUntilAnswered'
  BY <1>1, <1>2, <1>3
  DEF ClientRequest, CreateWidget, ListWidgets, GetWidget, UpdateWidget, DeleteWidget
<1>4. ASSUME NEW s \in Slot, LoadWidget(s) \/ SendUpdate(s)
      PROVE  SilentUntilAnswered'
  <2>1. CASE \E r : Answer(s, r)
    BY <2>1, AnswerIsSilent
  <2>2. CASE pc[s] = "load" /\ pc' = [pc EXCEPT ![s] = "loaded"] /\ UNCHANGED res
    BY <2>2, SilentStep DEF Control
  <2>3. CASE pc[s] = "loaded" /\ pc' = [pc EXCEPT ![s] = "exec"] /\ UNCHANGED res
    BY <2>3, SilentStep DEF Control
  <2> QED BY <1>4, <2>1, <2>2, <2>3 DEF LoadWidget, SendUpdate
<1>5. ASSUME NEW s \in Slot,
             \/ InsertRow(s) \/ SelectList(s) \/ SelectOne(s) \/ UpdateRow(s) \/ DeleteRow(s)
             \/ RefuseValues(s) \/ Rollback(s)
      PROVE  SilentUntilAnswered'
  BY <1>5, AnswerIsSilent
  DEF InsertRow, SelectList, SelectOne, UpdateRow, DeleteRow, RefuseValues, Rollback
<1>6. ASSUME NEW s \in Slot, Respond(s)
      PROVE  SilentUntilAnswered'
  BY <1>6 DEF Respond, TypeOK, SilentUntilAnswered
<1>7. ASSUME NEW s \in Slot, Abandon(s)
      PROVE  SilentUntilAnswered'
  BY <1>7 DEF Abandon, TypeOK, SilentUntilAnswered
<1>8. CASE UNCHANGED <<pc, res>>
  BY <1>8 DEF SilentUntilAnswered
<1> QED
  BY <1>3, <1>4, <1>5, <1>6, <1>7, <1>8 DEF Next, Progress, DrawId, Tick, vars

-----------------------------------------------------------------------------
(* The store's own copies of the definitions they share.                   *)

LEMMA SameConstants ==
  /\ Store!Id = Id
  /\ Store!NoRequest = NoRequest
  /\ Store!NoResponse = NoResponse
  /\ Store!NoBody = NoBody
BY DEF Store!Id, Id, Store!NoRequest, NoRequest, Store!NoResponse, NoResponse,
       Store!Error, Error, Store!NoBody, NoBody

LEMMA SameAnswers ==
  ASSUME NEW code, NEW body
  PROVE  /\ Store!Error(code) = Error(code)
         /\ Store!Success(code, body) = Success(code, body)
BY DEF Store!Error, Error, Store!Success, Success, Store!NoBody, NoBody

LEMMA SameRequests ==
  ASSUME NEW u, NEW i, NEW t, NEW b
  PROVE  /\ Store!CreateRequest(u, t, b) = CreateRequest(u, t, b)
         /\ Store!ListRequest(u) = ListRequest(u)
         /\ Store!GetRequest(u, i) = GetRequest(u, i)
         /\ Store!UpdateRequest(u, i, b) = UpdateRequest(u, i, b)
         /\ Store!DeleteRequest(u, i) = DeleteRequest(u, i)
BY DEF Store!NoRequest, NoRequest,
       Store!CreateRequest, CreateRequest, Store!ListRequest, ListRequest,
       Store!GetRequest, GetRequest, Store!UpdateRequest, UpdateRequest,
       Store!DeleteRequest, DeleteRequest

LEMMA SameValidation ==
  ASSUME NEW q, NEW t, NEW b
  PROVE  /\ Store!AcceptsCreate(q) <=> AcceptsCreate(q)
         /\ Store!Normalize(t, b) = Normalize(t, b)
BY DEF Store!AcceptsCreate, AcceptsCreate, Store!Normalize, Normalize

-----------------------------------------------------------------------------
(* The table as the store sees it.                                         *)

\* A row is there for the store when it is there.
LEMMA ShownRowType ==
  ASSUME TypeOK, NEW i \in Id
  PROVE  /\ widgets[i] = NoRow => rowsBar[i] = NoRow
         /\ widgets[i] # NoRow =>
              /\ rowsBar[i] = Show(widgets[i])
              /\ rowsBar[i] # NoRow
              /\ rowsBar[i].owner = widgets[i].owner
              /\ rowsBar[i].type = widgets[i].type
<1>1. rowsBar[i] = ShownRow(i)
  BY DEF rowsBar
<1>2. ASSUME widgets[i] # NoRow
      PROVE  Show(widgets[i]) # NoRow
  <2>1. widgets[i] \in Row
    BY <1>2 DEF TypeOK
  <2> QED BY <2>1, ShowType, NoRowAssumption
<1> QED BY <1>1, <1>2 DEF ShownRow, Show

\* The widgets of a user are the rows that carry the user's id.
LEMMA OwnedRows ==
  ASSUME TypeOK, NEW u
  PROVE  Store!Owned(u) = {i \in Id : widgets[i] # NoRow /\ widgets[i].owner = u}
BY ShownRowType, SameConstants DEF Store!Owned

LEMMA MatchIsOwned ==
  ASSUME TypeOK, NEW s \in Slot, req[s].id \in Id
  PROVE  Matches(s) <=> req[s].id \in Store!Owned(req[s].user)
BY OwnedRows DEF Matches

LEMMA SameTable ==
  ASSUME UNCHANGED widgets
  PROVE  rowsBar' = rowsBar
BY DEF rowsBar, ShownRow

\* One row changes for the store as it does in the table.
LEMMA ChangedRow ==
  ASSUME TypeOK, NEW i \in Id, NEW row \in Row \cup {NoRow},
         widgets' = [widgets EXCEPT ![i] = row]
  PROVE  rowsBar' = [rowsBar EXCEPT ![i] = IF row = NoRow THEN NoRow ELSE Show(row)]
<1>1. widgets'[i] = row /\ \A j \in Id \ {i} : widgets'[j] = widgets[j]
  BY DEF TypeOK
<1>2. rowsBar' = [j \in Id |-> ShownRow(j)'] /\ rowsBar = [j \in Id |-> ShownRow(j)]
  BY DEF rowsBar
<1>3. ShownRow(i)' = IF row = NoRow THEN NoRow ELSE Show(row)
  BY <1>1 DEF ShownRow, Show
<1>4. \A j \in Id \ {i} : ShownRow(j)' = ShownRow(j)
  BY <1>1 DEF ShownRow, Show
<1> QED BY <1>2, <1>3, <1>4

-----------------------------------------------------------------------------
(* The ids that are taken.                                                 *)

\* Nothing is taken while the INSERTs that are going on stay the same.
LEMMA SameUsed ==
  ASSUME nextId' = nextId,
         \A t \in Slot : PendingInsert(t)' <=> PendingInsert(t),
         \A t \in Slot : PendingInsert(t) => stmt'[t].id = stmt[t].id
  PROVE  UsedIds' = UsedIds
BY DEF UsedIds

\* A step of a slot that carries no drawn id, before or after it.
LEMMA NoIdTaken ==
  ASSUME nextId' = nextId, NEW s \in Slot, Others(s),
         ~PendingInsert(s), ~PendingInsert(s)'
  PROVE  UsedIds' = UsedIds
<1>1. \A t \in Slot : PendingInsert(t)' <=> PendingInsert(t)
  BY DEF Others, PendingInsert, Pending
<1>2. \A t \in Slot : PendingInsert(t) => stmt'[t].id = stmt[t].id
  BY DEF Others
<1> QED BY <1>1, <1>2, SameUsed

\* When an INSERT ends, its id is taken for good.
LEMMA IdTaken ==
  ASSUME TypeOK, WidgetInv, nextId' = nextId, NEW s \in Slot, Others(s),
         PendingInsert(s), ~PendingInsert(s)'
  PROVE  /\ stmt[s].id \in Id
         /\ stmt[s].id \notin UsedIds
         /\ UsedIds' = UsedIds \cup {stmt[s].id}
<1>1. InsertOK(s) /\ stmt[s].id \in Id
  BY InsertedRowType DEF WidgetInv
<1>2. \A t \in Slot \ {s} : /\ PendingInsert(t)' <=> PendingInsert(t)
                           /\ stmt'[t].id = stmt[t].id
  BY DEF Others, PendingInsert, Pending
<1>3. /\ stmt[s].id < nextId
      /\ \A t \in Slot \ {s} : PendingInsert(t) => stmt[t].id # stmt[s].id
  BY <1>1 DEF InsertOK
<1>4. stmt[s].id \notin UsedIds
  BY DEF UsedIds
<1>5. ASSUME NEW i \in Id
      PROVE  i \in UsedIds' <=> i \in UsedIds \/ i = stmt[s].id
  BY <1>2, <1>3 DEF UsedIds
<1>6. UsedIds' \in SUBSET Id /\ UsedIds \in SUBSET Id
  BY DEF UsedIds
<1> QED BY <1>1, <1>4, <1>5, <1>6

\* A drawn id is not taken as long as its INSERT is going on.
LEMMA DrawnIdNotTaken ==
  ASSUME TypeOK, WidgetInv, NEW s \in Slot, DrawId(s)
  PROVE  UsedIds' = UsedIds
<1>1. /\ ~PendingInsert(s) /\ PendingInsert(s)' /\ stmt'[s].id = nextId
      /\ nextId' = nextId + 1 /\ nextId \in Int
  <2>1. nextId \in Int /\ nextId # 0
    BY WidgetAPIAssumption DEF TypeOK
  <2>2. stmt'[s].id = nextId /\ pc' = pc /\ req' = req
    BY DEF DrawId, TypeOK, Statement
  <2> QED BY <2>1, <2>2 DEF DrawId, Nextval, PendingInsert, Pending
<1>2. \A t \in Slot \ {s} : /\ PendingInsert(t)' <=> PendingInsert(t)
                           /\ stmt'[t].id = stmt[t].id
  BY DEF DrawId, TypeOK, PendingInsert, Pending
<1>3. ASSUME NEW i \in Id
      PROVE  i \in UsedIds' <=> i \in UsedIds
  <2>1. i \in Int
    BY WidgetAPIAssumption DEF Id
  <2>2. i < nextId + 1 /\ i # nextId <=> i < nextId
    BY <1>1, <2>1
  <2> QED BY <1>1, <1>2, <2>2 DEF UsedIds
<1>4. UsedIds' \in SUBSET Id /\ UsedIds \in SUBSET Id
  BY DEF UsedIds
<1> QED BY <1>3, <1>4

-----------------------------------------------------------------------------
(* The calls as the store sees them.                                       *)

\* A slot whose variables do not change serves the same call.
LEMMA SameCall ==
  ASSUME NEW s \in Slot, pc'[s] = pc[s], req'[s] = req[s], stmt'[s] = stmt[s],
         res'[s] = res[s]
  PROVE  StoreCall(s)' = StoreCall(s)
BY DEF StoreCall, RefusedAtLoad

\* One call changes for the store when one slot moves.
LEMMA ChangedCall ==
  ASSUME NEW s \in Slot, Others(s), \A t \in Slot \ {s} : res'[t] = res[t]
  PROVE  callBar' = [callBar EXCEPT ![s] = StoreCall(s)']
<1>1. \A t \in Slot \ {s} : StoreCall(t)' = StoreCall(t)
  BY SameCall DEF Others
<1>2. callBar = [t \in Slot |-> StoreCall(t)] /\ callBar' = [t \in Slot |-> StoreCall(t)']
  BY DEF callBar
<1> QED BY <1>1, <1>2

\* What answering does to the slots.
LEMMA AnswerEffect ==
  ASSUME TypeOK, NEW s \in Slot, NEW r, Answer(s, r)
  PROVE  /\ Others(s)
         /\ \A t \in Slot \ {s} : res'[t] = res[t]
         /\ req'[s] = NoRequest /\ stmt'[s] = NoStatement
         /\ pc[s] = "orphan" => pc'[s] = "idle" /\ res'[s] = NoResponse
         /\ pc[s] # "orphan" => pc'[s] = "answered" /\ res'[s] = r
         /\ ~PendingInsert(s)'
<1>1. Others(s) /\ \A t \in Slot \ {s} : res'[t] = res[t]
  BY DEF Answer, TypeOK, Others
<1>2. /\ req'[s] = NoRequest /\ stmt'[s] = NoStatement
      /\ pc[s] = "orphan" => pc'[s] = "idle" /\ res'[s] = NoResponse
      /\ pc[s] # "orphan" => pc'[s] = "answered" /\ res'[s] = r
  BY DEF Answer, TypeOK
<1> QED BY <1>1, <1>2 DEF PendingInsert, Pending

\* The end of a request is the store's.
LEMMA AnswerIsFinish ==
  ASSUME TypeOK, NEW s \in Slot, NEW r, Answer(s, r)
  PROVE  /\ callBar' = [callBar EXCEPT ![s] = IF pc[s] = "orphan" THEN Store!Idle
                                                               ELSE Store!Done(r)]
         /\ Store!Finish(s, r)
<1>1. StoreCall(s)' = IF pc[s] = "orphan" THEN Store!Idle ELSE Store!Done(r)
  BY AnswerEffect, SameConstants DEF StoreCall, RefusedAtLoad, Store!Idle, Store!Done
<1>2. callBar' = [callBar EXCEPT ![s] = IF pc[s] = "orphan" THEN Store!Idle
                                                         ELSE Store!Done(r)]
  BY <1>1, AnswerEffect, ChangedCall
<1>3. callBar[s].status = "lost" <=> pc[s] = "orphan"
  <2>1. callBar[s].status = StoreCall(s).status
    BY DEF callBar
  <2>2. StoreCall(s).status = "lost" <=> pc[s] = "orphan"
    BY DEF StoreCall, RefusedAtLoad
  <2> QED BY <2>1, <2>2
<1> QED BY <1>2, <1>3 DEF Store!Finish

\* The store's view of a slot, at each point of a request.
LEMMA CallAt ==
  ASSUME WidgetInv, SilentUntilAnswered, NEW s \in Slot
  PROVE  /\ pc[s] = "idle" => callBar[s] = Store!Idle
         /\ pc[s] = "answered" => callBar[s] = Store!Done(res[s])
         /\ pc[s] \in {"load", "loaded", "exec"} /\ ~RefusedAtLoad(s) =>
              callBar[s] = [status |-> "open", req |-> req[s], res |-> NoResponse]
         /\ pc[s] = "orphan" =>
              callBar[s] = [status |-> "lost", req |-> req[s], res |-> NoResponse]
         /\ RefusedAtLoad(s) => callBar[s] = Store!Done(Error("validation_error"))
<1>1. ControlOK(s) /\ callBar[s] = StoreCall(s)
  BY DEF WidgetInv, callBar
<1>2. pc[s] # "answered" => res[s] = NoResponse
  BY DEF SilentUntilAnswered
<1> USE SameConstants DEF ControlOK, StoreCall, Store!Idle, Store!Done
<1>3. pc[s] = "idle" => callBar[s] = Store!Idle
  BY <1>1, <1>2 DEF RefusedAtLoad
<1>4. pc[s] = "answered" => callBar[s] = Store!Done(res[s])
  BY <1>1 DEF RefusedAtLoad
<1>5. pc[s] \in {"load", "loaded", "exec"} /\ ~RefusedAtLoad(s) =>
        callBar[s] = [status |-> "open", req |-> req[s], res |-> NoResponse]
  BY <1>1, <1>2
<1>6. pc[s] = "orphan" =>
        callBar[s] = [status |-> "lost", req |-> req[s], res |-> NoResponse]
  BY <1>1, <1>2 DEF RefusedAtLoad
<1>7. RefusedAtLoad(s) => callBar[s] = Store!Done(Error("validation_error"))
  BY <1>1 DEF RefusedAtLoad
<1> QED BY <1>3, <1>4, <1>5, <1>6, <1>7

\* A slot with a statement at the database has an open or a lost call.
LEMMA CallAtStatement ==
  ASSUME WidgetInv, SilentUntilAnswered, NEW s \in Slot,
         pc[s] \in {"load", "exec", "orphan"}
  PROVE  callBar[s].req = req[s] /\ callBar[s].status \in {"open", "lost"}
<1>1. ~RefusedAtLoad(s)
  BY DEF RefusedAtLoad
<1>2. CASE pc[s] = "orphan"
  <2>1. callBar[s] = [status |-> "lost", req |-> req[s], res |-> NoResponse]
    BY <1>2, CallAt
  <2> QED BY <2>1
<1>3. CASE pc[s] # "orphan"
  <2>1. callBar[s] = [status |-> "open", req |-> req[s], res |-> NoResponse]
    BY <1>1, <1>3, CallAt
  <2> QED BY <2>1
<1> QED BY <1>2, <1>3

\* A slot without a request, and one with its response, as the store sees them.
LEMMA StatusAt ==
  ASSUME WidgetInv, SilentUntilAnswered, NEW s \in Slot
  PROVE  /\ pc[s] = "idle" => callBar[s].status = "idle"
         /\ pc[s] = "answered" => callBar[s].status = "done"
<1>1. pc[s] = "idle" => callBar[s] = Store!Idle
  BY CallAt
<1>2. pc[s] = "answered" => callBar[s] = Store!Done(res[s])
  BY CallAt
<1> QED BY <1>1, <1>2 DEF Store!Idle, Store!Done

-----------------------------------------------------------------------------
(* The steps.                                                              *)

RefInv == TypeOK /\ WidgetInv /\ SilentUntilAnswered

\* The first state of the store is empty and idle.
LEMMA InitRefines == Init => Store!Init
<1> SUFFICES ASSUME Init PROVE Store!Init
  OBVIOUS
<1>1. rowsBar = [i \in Store!Id |-> NoRow]
  BY SameConstants DEF Init, rowsBar, ShownRow
<1>2. UsedIds = {}
  <2>1. \A i \in Id : ~(i < 1)
    BY WidgetAPIAssumption DEF Id
  <2> QED BY <2>1 DEF Init, UsedIds
<1>3. callBar = [s \in Slot |-> Store!Idle]
  <2> SUFFICES ASSUME NEW s \in Slot PROVE StoreCall(s) = Store!Idle
    BY DEF callBar
  <2> QED BY SameConstants DEF Init, StoreCall, RefusedAtLoad, Store!Idle
<1> QED BY <1>1, <1>2, <1>3 DEF Store!Init

\* A request that is refused for what it says.
LEMMA RefuseRefines ==
  ASSUME RefInv, NEW s \in Slot, NEW code \in {"bad_request", "validation_error"},
         Refuse(s, code)
  PROVE  Store!Next
<1>1. pc[s] = "idle" /\ Answer(s, Error(code)) /\ UNCHANGED db
  BY DEF Refuse
<1>2. callBar[s].status = "idle"
  BY <1>1, StatusAt DEF RefInv
<1>3. callBar' = [callBar EXCEPT ![s] = Store!Done(Store!Error(code))]
  BY <1>1, AnswerIsFinish, SameAnswers DEF RefInv
<1>4. UNCHANGED <<rowsBar, UsedIds>>
  <2>1. Others(s) /\ ~PendingInsert(s) /\ ~PendingInsert(s)'
    BY <1>1, AnswerEffect DEF RefInv, PendingInsert, Pending
  <2> QED BY <1>1, <2>1, SameTable, NoIdTaken DEF db
<1>5. Store!Refuse(s)
  BY <1>2, <1>3, <1>4 DEF Store!Refuse
<1> QED BY <1>5 DEF Store!Next

\* A request that is accepted.
LEMMA AcceptRefines ==
  ASSUME RefInv, NEW s \in Slot, NEW q \in Store!Requests, NEW st,
         NEW next \in {"load", "exec"}, Accept(s, q, st, next),
         q.op = "create" => AcceptsCreate(q) /\ st.id = 0
  PROVE  Store!Next
<1> DEFINE open == [status |-> "open", req |-> q, res |-> NoResponse]
<1>1. pc[s] = "idle" /\ UNCHANGED <<db, res>> /\ res[s] = NoResponse
  BY DEF Accept, RefInv, SilentUntilAnswered
<1>2. pc'[s] = next /\ req'[s] = q /\ stmt'[s] = st /\ Others(s)
  BY DEF Accept, RefInv, TypeOK, Others
<1>3. StoreCall(s)' = open
  BY <1>1, <1>2 DEF StoreCall, RefusedAtLoad
<1> HIDE DEF open
<1>4. callBar' = [callBar EXCEPT ![s] = open] /\ callBar'[s] = open
  BY <1>1, <1>2, <1>3, ChangedCall DEF callBar
<1>5. callBar[s].status = "idle"
  BY <1>1, StatusAt DEF RefInv
<1>6. UNCHANGED <<rowsBar, UsedIds>>
  <2>1. ~PendingInsert(s) /\ ~PendingInsert(s)'
    BY <1>1, <1>2 DEF PendingInsert, Pending
  <2> QED BY <1>1, <1>2, <2>1, SameTable, NoIdTaken DEF db
<1>7. /\ q.op = "create" => Store!AcceptsCreate(q)
      /\ callBar' = [callBar EXCEPT ![s] = [status |-> "open", req |-> q,
                                           res |-> Store!NoResponse]]
  BY <1>4, SameConstants, SameValidation DEF open
<1>8. callBar'[s].status = "open"
  BY <1>4 DEF open
<1>9. Store!Invoke(s)
  BY <1>5, <1>6, <1>7, <1>8 DEF Store!Invoke
<1> QED BY <1>9 DEF Store!Next

\* The store's requests are those that the handlers accept.
LEMMA RequestsOfHandlers ==
  ASSUME NEW u \in User
  PROVE  /\ \A t \in RawType, b \in RawConfig : CreateRequest(u, t, b) \in Store!Requests
         /\ ListRequest(u) \in Store!Requests
         /\ \A i \in Id : GetRequest(u, i) \in Store!Requests
         /\ \A i \in Id : DeleteRequest(u, i) \in Store!Requests
         /\ \A i \in Id, b \in RawConfig : UpdateRequest(u, i, b) \in Store!Requests
BY SameConstants, SameRequests DEF Store!Requests

\* A client's request is invoked at the store, or refused.
LEMMA ClientRequestRefines ==
  ASSUME RefInv, NEW s \in Slot, ClientRequest(s)
  PROVE  Store!Next
<1>1. PICK u \in User :
        \/ \E t \in RawType, b \in RawConfig \cup {Malformed} : CreateWidget(s, u, t, b)
        \/ ListWidgets(s, u)
        \/ \E i \in 0 .. MaxId :
             \/ GetWidget(s, u, i) \/ DeleteWidget(s, u, i)
             \/ \E b \in RawConfig \cup {Malformed} : UpdateWidget(s, u, i, b)
  BY DEF ClientRequest
<1>2. \A i \in 0 .. MaxId : i # 0 => i \in Id
  BY WidgetAPIAssumption DEF Id
<1>3. ASSUME NEW t \in RawType, NEW b \in RawConfig \cup {Malformed}, CreateWidget(s, u, t, b)
      PROVE  Store!Next
  <2> DEFINE q == CreateRequest(u, t, b)
             st == [type |-> t, config |-> Normalize(t, b), at |-> clock, id |-> 0]
  <2>1. CASE Refuse(s, "bad_request") \/ Refuse(s, "validation_error")
    BY <2>1, RefuseRefines
  <2>2. CASE b # Malformed /\ AcceptsCreate(q) /\ Accept(s, q, st, "exec")
    <3>1. q \in Store!Requests /\ st.id = 0
      BY <2>2, RequestsOfHandlers
    <3> QED BY <2>2, <3>1, AcceptRefines
  <2> QED BY <1>3, <2>1, <2>2 DEF CreateWidget
<1>4. ASSUME NEW q \in Store!Requests, q.op # "create", NEW next \in {"load", "exec"},
             Accept(s, q, NoStatement, next)
      PROVE  Store!Next
  BY <1>4, AcceptRefines
<1>5. \A i, b : /\ ListRequest(u).op = "list" /\ GetRequest(u, i).op = "get"
               /\ DeleteRequest(u, i).op = "delete" /\ UpdateRequest(u, i, b).op = "update"
  BY DEF ListRequest, GetRequest, DeleteRequest, UpdateRequest, NoRequest
<1>6. CASE ListWidgets(s, u)
  BY <1>4, <1>5, <1>6, RequestsOfHandlers DEF ListWidgets
<1>7. ASSUME NEW i \in 0 .. MaxId, GetWidget(s, u, i)
      PROVE  Store!Next
  BY <1>2, <1>4, <1>5, <1>7, RequestsOfHandlers, RefuseRefines DEF GetWidget
<1>8. ASSUME NEW i \in 0 .. MaxId, DeleteWidget(s, u, i)
      PROVE  Store!Next
  BY <1>2, <1>4, <1>5, <1>8, RequestsOfHandlers, RefuseRefines DEF DeleteWidget
<1>9. ASSUME NEW i \in 0 .. MaxId, NEW b \in RawConfig \cup {Malformed},
             UpdateWidget(s, u, i, b)
      PROVE  Store!Next
  BY <1>2, <1>4, <1>5, <1>9, RequestsOfHandlers, RefuseRefines DEF UpdateWidget
<1> QED BY <1>1, <1>3, <1>6, <1>7, <1>8, <1>9

\* What the server answers for a statement at the database, at the store.
LEMMA StatementFinish ==
  ASSUME RefInv, NEW s \in Slot, pc[s] \in {"load", "exec", "orphan"}, NEW r, Answer(s, r)
  PROVE  /\ Store!Finish(s, r)
         /\ callBar[s].req = req[s]
         /\ callBar[s].status \in {"open", "lost"}
         /\ Others(s) /\ ~PendingInsert(s)'
BY AnswerIsFinish, AnswerEffect, CallAtStatement DEF RefInv

\* A statement that finds no row of the caller.
LEMMA NotFoundRefines ==
  ASSUME RefInv, NEW s \in Slot, pc[s] \in {"load", "exec", "orphan"},
         req[s].op \in {"get", "update", "delete"}, ~Matches(s),
         Answer(s, Error("not_found")), UNCHANGED <<widgets, nextId>>
  PROVE  Store!Next
<1>1. /\ Store!Finish(s, Error("not_found")) /\ callBar[s].req = req[s]
      /\ Others(s) /\ ~PendingInsert(s)'
  BY StatementFinish
<1>2. req[s].id \in Id
  BY DEF RefInv, WidgetInv, ControlOK
<1>3. req[s].id \notin Store!Owned(req[s].user)
  BY <1>2, MatchIsOwned DEF RefInv
<1>4. ~PendingInsert(s)
  BY DEF PendingInsert, Pending
<1>5. UNCHANGED <<rowsBar, UsedIds>>
  BY <1>1, <1>4, SameTable, NoIdTaken
<1>6. Store!NotFound(s)
  BY <1>1, <1>3, <1>5, SameAnswers DEF Store!NotFound
<1> QED BY <1>6 DEF Store!Next

\* GetByID decides a PATCH whose widget is gone or whose config does not fit
\* the widget's type; otherwise nothing has happened yet.
LEMMA LoadWidgetRefines ==
  ASSUME RefInv, NEW s \in Slot, LoadWidget(s)
  PROVE  Store!Next \/ UNCHANGED <<rowsBar, UsedIds, callBar>>
<1>1. pc[s] = "load" /\ UNCHANGED db /\ req[s].op = "update" /\ req[s].id \in Id
  BY DEF LoadWidget, RefInv, WidgetInv, ControlOK
<1>2. CASE ~Matches(s) /\ Answer(s, Error("not_found"))
  BY <1>1, <1>2, NotFoundRefines DEF db
<1>3. CASE /\ Matches(s)
           /\ stmt' = [stmt EXCEPT ![s].type = widgets[req[s].id].type]
           /\ pc' = [pc EXCEPT ![s] = "loaded"]
           /\ UNCHANGED <<req, res>>
  <2> DEFINE row == rowsBar[req[s].id]
  <2>1. /\ pc'[s] = "loaded" /\ req'[s] = req[s] /\ Others(s)
        /\ res'[s] = NoResponse
    BY <1>1, <1>3 DEF RefInv, TypeOK, SilentUntilAnswered, Others
  <2>2. stmt'[s].type = widgets[req[s].id].type
    BY <1>3 DEF RefInv, TypeOK, Statement
  <2>3. row.type = widgets[req[s].id].type
    BY <1>1, <1>3, ShownRowType DEF RefInv, Matches
  <2>4. RefusedAtLoad(s)' <=> Normalize(row.type, req[s].body) = Invalid
    BY <2>1, <2>2, <2>3 DEF RefusedAtLoad, Normalize
  <2>5. callBar[s] = [status |-> "open", req |-> req[s], res |-> NoResponse]
    BY <1>1, CallAt DEF RefInv, RefusedAtLoad
  <2>6. callBar' = [callBar EXCEPT ![s] = StoreCall(s)']
    BY <1>3, <2>1, ChangedCall
  <2>7. UNCHANGED <<rowsBar, UsedIds>>
    <3>1. ~PendingInsert(s) /\ ~PendingInsert(s)'
      BY <1>1, <2>1 DEF PendingInsert, Pending
    <3> QED BY <1>1, <2>1, <3>1, SameTable, NoIdTaken DEF db
  <2>8. CASE RefusedAtLoad(s)'
    <3>1. StoreCall(s)' = Store!Done(Store!Error("validation_error"))
      BY <2>1, <2>8, SameConstants, SameAnswers DEF StoreCall, Store!Done
    <3>2. callBar[s].status = "open" /\ callBar[s].req = req[s]
      BY <2>5
    <3>3. Store!Finish(s, Store!Error("validation_error"))
      BY <2>6, <3>1, <3>2 DEF Store!Finish
    <3>4. req[s].id \in Store!Owned(req[s].user)
      BY <1>1, <1>3, MatchIsOwned DEF RefInv
    <3>5. Store!Normalize(row.type, req[s].body) = Invalid
      BY <2>4, <2>8, SameValidation
    <3>6. Store!RejectUpdate(s)
      BY <1>1, <2>7, <3>2, <3>3, <3>4, <3>5 DEF Store!RejectUpdate
    <3> QED BY <3>6 DEF Store!Next
  <2>9. CASE ~RefusedAtLoad(s)'
    <3>1. StoreCall(s)' = [status |-> "open", req |-> req[s], res |-> NoResponse]
      BY <2>1, <2>9 DEF StoreCall
    <3>2. callBar' = callBar
      <4>1. callBar = [t \in Slot |-> callBar[t]]
        BY DEF callBar
      <4> QED BY <2>5, <2>6, <3>1, <4>1
    <3> QED BY <2>7, <3>2
  <2> QED BY <2>8, <2>9
<1> QED BY <1>2, <1>3 DEF LoadWidget

\* A PATCH that was refused at GetByID only says so now; any other sends its
\* UPDATE, and nothing has happened yet.
LEMMA SendUpdateRefines ==
  ASSUME RefInv, NEW s \in Slot, SendUpdate(s)
  PROVE  UNCHANGED <<rowsBar, UsedIds, callBar>>
<1> DEFINE type == stmt[s].type
           raw  == req[s].body
<1>1. /\ pc[s] = "loaded" /\ UNCHANGED db /\ req[s].op = "update"
      /\ callBar = [t \in Slot |-> callBar[t]]
  BY DEF SendUpdate, RefInv, WidgetInv, ControlOK, callBar
<1>2. CASE Normalize(type, raw) = Invalid /\ Answer(s, Error("validation_error"))
  <2>1. callBar[s] = Store!Done(Error("validation_error"))
    BY <1>1, <1>2, CallAt DEF RefInv, RefusedAtLoad
  <2>2. callBar' = [callBar EXCEPT ![s] = Store!Done(Error("validation_error"))]
    BY <1>1, <1>2, AnswerIsFinish DEF RefInv
  <2>3. Others(s) /\ ~PendingInsert(s) /\ ~PendingInsert(s)'
    BY <1>1, <1>2, AnswerEffect DEF RefInv, PendingInsert, Pending
  <2>4. UNCHANGED <<rowsBar, UsedIds>>
    BY <1>1, <2>3, SameTable, NoIdTaken DEF db
  <2>5. UNCHANGED callBar
    BY <1>1, <2>1, <2>2
  <2> QED BY <2>4, <2>5
<1>3. CASE /\ Normalize(type, raw) # Invalid
           /\ stmt' = [stmt EXCEPT ![s] = [type |-> type, config |-> Normalize(type, raw),
                                           at |-> clock, id |-> 0]]
           /\ pc' = [pc EXCEPT ![s] = "exec"]
           /\ UNCHANGED <<req, res>>
  <2>1. /\ pc'[s] = "exec" /\ req'[s] = req[s] /\ res'[s] = NoResponse /\ Others(s)
        /\ \A t \in Slot \ {s} : res'[t] = res[t]
    BY <1>1, <1>3 DEF RefInv, TypeOK, SilentUntilAnswered, Others
  <2>2. callBar[s] = [status |-> "open", req |-> req[s], res |-> NoResponse]
    BY <1>1, <1>3, CallAt DEF RefInv, RefusedAtLoad
  <2>3. StoreCall(s)' = [status |-> "open", req |-> req[s], res |-> NoResponse]
    BY <2>1 DEF StoreCall, RefusedAtLoad
  <2>4. UNCHANGED callBar
    BY <1>1, <2>1, <2>2, <2>3, ChangedCall
  <2>5. ~PendingInsert(s) /\ ~PendingInsert(s)'
    BY <1>1, <2>1 DEF PendingInsert, Pending
  <2> QED BY <1>1, <2>1, <2>4, <2>5, SameTable, NoIdTaken DEF db
<1> QED BY <1>2, <1>3 DEF SendUpdate

\* nextval() is invisible: the id is nobody's until the INSERT ends.
LEMMA DrawIdRefines ==
  ASSUME RefInv, NEW s \in Slot, DrawId(s)
  PROVE  UNCHANGED <<rowsBar, UsedIds, callBar>>
<1>1. UsedIds' = UsedIds
  BY DrawnIdNotTaken DEF RefInv
<1>2. rowsBar' = rowsBar
  BY SameTable DEF DrawId
<1>3. StoreCall(s)' = StoreCall(s)
  BY DEF DrawId, Pending, StoreCall, RefusedAtLoad
<1>4. \A t \in Slot \ {s} : StoreCall(t)' = StoreCall(t)
  BY SameCall DEF DrawId, RefInv, TypeOK
<1>5. callBar' = callBar
  BY <1>3, <1>4 DEF callBar
<1> QED BY <1>1, <1>2, <1>5

\* The row of an INSERT takes an id that nobody had.
LEMMA InsertRowRefines ==
  ASSUME RefInv, NEW s \in Slot, InsertRow(s)
  PROVE  Store!Next
<1> DEFINE id == stmt[s].id
           q == req[s]
           new == [owner |-> q.user, type |-> q.type, config |-> Normalize(q.type, q.body)]
           body == [i \in {id} |-> Show(InsertedRow(s))]
<1>1. PendingInsert(s) /\ Pending(s, "create") /\ pc[s] \in {"exec", "orphan"}
        /\ q.op = "create" /\ nextId' = nextId
  BY DEF InsertRow, PendingInsert, Pending
<1>2. /\ InsertOK(s) /\ InsertedRow(s) \in Row /\ id \in Id
  BY <1>1, InsertedRowType DEF RefInv, WidgetInv
<1>3. /\ stmt[s].type = q.type /\ stmt[s].config = Normalize(q.type, q.body)
      /\ stmt[s].config \in Jsonb
  BY <1>1, <1>2 DEF InsertOK
<1>4. Show(InsertedRow(s)) = new
  BY <1>3 DEF Show, InsertedRow
<1>5. InsertedRow(s) # NoRow
  BY <1>2, NoRowAssumption
<1>6. rowsBar' = [rowsBar EXCEPT ![id] = new]
  <2>1. widgets' = [widgets EXCEPT ![id] = InsertedRow(s)]
    BY DEF InsertRow
  <2> QED BY <1>2, <1>4, <1>5, <2>1, ChangedRow DEF RefInv
<1>7. /\ Store!Finish(s, Success("created", body)) /\ callBar[s].req = q
      /\ Others(s) /\ ~PendingInsert(s)'
  BY <1>1, StatementFinish DEF InsertRow
<1>8. id \notin UsedIds /\ UsedIds' = UsedIds \cup {id}
  BY <1>1, <1>7, IdTaken DEF RefInv
<1>9. Success("created", body) = Store!Success("created", [j \in {id} |-> new])
  BY <1>4, SameAnswers
<1>10. new.config = stmt[s].config
         /\ new = [owner |-> q.user, type |-> q.type, config |-> Store!Normalize(q.type, q.body)]
  BY <1>3, SameValidation
<1> HIDE DEF id, q, new, body
<1>11. Store!Create(s)
  <2>1. id \in Store!Id \ UsedIds
    BY <1>2, <1>8, SameConstants
  <2>2. new.config \in Jsonb
    BY <1>3, <1>10
  <2>3. Store!Finish(s, Store!Success("created", [j \in {id} |-> new]))
    BY <1>7, <1>9
  <2> QED BY <1>1, <1>6, <1>7, <1>8, <1>10, <2>1, <2>2, <2>3 DEF Store!Create
<1> QED BY <1>11 DEF Store!Next

\* A list is read in one statement.
LEMMA SelectListRefines ==
  ASSUME RefInv, NEW s \in Slot, SelectList(s)
  PROVE  Store!Next
<1> DEFINE u == req[s].user
           ids == {i \in Id : widgets[i] # NoRow /\ widgets[i].owner = u}
           body == [i \in ids |-> Show(widgets[i])]
<1>1. pc[s] \in {"exec", "orphan"} /\ req[s].op = "list" /\ UNCHANGED db
        /\ ~PendingInsert(s) /\ Answer(s, Success("ok", body))
  BY DEF SelectList, Pending, PendingInsert
<1>2. Store!Owned(u) = ids
  BY OwnedRows DEF RefInv
<1>3. \A i \in ids : rowsBar[i] = Show(widgets[i])
  BY ShownRowType DEF RefInv
<1> HIDE DEF ids
<1>4. Store!Show(Store!Owned(u)) = body
  BY <1>2, <1>3 DEF Store!Show
<1>5. /\ Store!Finish(s, Success("ok", body)) /\ callBar[s].req = req[s]
      /\ Others(s) /\ ~PendingInsert(s)'
  BY <1>1, StatementFinish
<1>6. UNCHANGED <<rowsBar, UsedIds>>
  BY <1>1, <1>5, SameTable, NoIdTaken DEF db
<1> HIDE DEF body
<1>7. Store!List(s)
  BY <1>1, <1>4, <1>5, <1>6, SameAnswers DEF Store!List
<1> QED BY <1>7 DEF Store!Next

LEMMA SelectOneRefines ==
  ASSUME RefInv, NEW s \in Slot, SelectOne(s)
  PROVE  Store!Next
<1> DEFINE id == req[s].id
           body == [i \in {id} |-> Show(widgets[i])]
<1>1. pc[s] \in {"exec", "orphan"} /\ req[s].op = "get" /\ UNCHANGED db /\ ~PendingInsert(s)
  BY DEF SelectOne, Pending, PendingInsert
<1>2. id \in Id
  BY <1>1 DEF RefInv, WidgetInv, ControlOK
<1>3. CASE ~Matches(s) /\ Answer(s, Error("not_found"))
  BY <1>1, <1>3, NotFoundRefines DEF db
<1>4. CASE Matches(s) /\ Answer(s, Success("ok", body))
  <2>1. id \in Store!Owned(req[s].user)
    BY <1>2, <1>4, MatchIsOwned DEF RefInv
  <2>2. Store!Show({id}) = body
    BY <1>2, <1>4, ShownRowType DEF RefInv, Matches, Store!Show
  <2>3. /\ Store!Finish(s, Success("ok", body)) /\ callBar[s].req = req[s]
        /\ Others(s) /\ ~PendingInsert(s)'
    BY <1>1, <1>4, StatementFinish
  <2>4. UNCHANGED <<rowsBar, UsedIds>>
    BY <1>1, <2>3, SameTable, NoIdTaken DEF db
  <2> HIDE DEF body
  <2>5. Store!Get(s)
    BY <1>1, <2>1, <2>2, <2>3, <2>4, SameAnswers DEF Store!Get
  <2> QED BY <2>5 DEF Store!Next
<1> QED BY <1>3, <1>4 DEF SelectOne

\* The widget still has the type that GetByID read, so the config that is
\* written is the one that the store computes now.
LEMMA UpdateRowRefines ==
  ASSUME RefInv, NEW s \in Slot, UpdateRow(s)
  PROVE  Store!Next
<1> DEFINE q == req[s]
           id == q.id
           old == widgets[id]
           row == [old EXCEPT !.config = stmt[s].config, !.updated = stmt[s].at]
           body == [i \in {id} |-> Show(row)]
           new == [rowsBar[id] EXCEPT !.config = Store!Normalize(rowsBar[id].type, q.body)]
<1>1. /\ pc[s] \in {"exec", "orphan"} /\ q.op = "update" /\ ~PendingInsert(s)
      /\ Pending(s, "update") /\ stmt[s].config \in Jsonb /\ UNCHANGED nextId
  BY DEF UpdateRow, Pending, PendingInsert
<1>2. id \in Id /\ UpdateOK(s)
  BY <1>1 DEF RefInv, WidgetInv, ControlOK
<1>3. CASE ~Matches(s) /\ Answer(s, Error("not_found")) /\ UNCHANGED widgets
  BY <1>1, <1>3, NotFoundRefines
<1>4. CASE /\ Matches(s)
           /\ widgets' = [widgets EXCEPT ![id] = row]
           /\ Answer(s, Success("ok", body))
  <2>1. old \in Row /\ old # NoRow
    BY <1>2, <1>4, MatchType DEF RefInv, Matches
  <2>2. /\ old.type = stmt[s].type
        /\ stmt[s].config = Store!Normalize(stmt[s].type, q.body)
    BY <1>1, <1>2, <2>1, SameValidation DEF UpdateOK, KnownWidget
  <2>3. row \in Row /\ row # NoRow
    <3>1. stmt[s].config \in StoredConfig /\ stmt[s].at \in Time
      BY <1>1, WidgetAPIAssumption DEF RefInv, TypeOK, Statement
    <3>2. row \in Row
      BY <2>1, <3>1 DEF Row
    <3> QED BY <3>2, NoRowAssumption
  <2>4. /\ row.owner = old.owner /\ row.type = old.type /\ row.config = stmt[s].config
    BY <2>1 DEF Row
  <2>5. rowsBar[id] = [owner |-> old.owner, type |-> old.type, config |-> old.config]
    BY <1>2, <2>1, ShownRowType DEF RefInv, Show
  <2>6. Show(row) = [owner |-> old.owner, type |-> old.type, config |-> stmt[s].config]
    BY <2>4 DEF Show
  <2>7. new = Show(row) /\ new.config = stmt[s].config
    BY <2>2, <2>5, <2>6
  <2>8. rowsBar' = [rowsBar EXCEPT ![id] = Show(row)]
    <3> HIDE DEF row
    <3> QED BY <1>2, <1>4, <2>3, ChangedRow DEF RefInv
  <2>9. id \in Store!Owned(q.user)
    BY <1>2, <1>4, MatchIsOwned DEF RefInv
  <2>10. /\ Store!Finish(s, Success("ok", body)) /\ callBar[s].req = q
         /\ Others(s) /\ ~PendingInsert(s)'
    BY <1>1, <1>4, StatementFinish
  <2>11. UsedIds' = UsedIds
    BY <1>1, <2>10, NoIdTaken
  <2> HIDE DEF row
  <2>12. Success("ok", body) = Store!Success("ok", [j \in {id} |-> new])
    BY <2>7, SameAnswers
  <2>13. rowsBar' = [rowsBar EXCEPT ![id] = new] /\ new.config \in Jsonb
    BY <1>1, <2>7, <2>8
  <2>14. Store!Finish(s, Store!Success("ok", [j \in {id} |-> new]))
    BY <2>10, <2>12
  <2>15. Store!Update(s)
    BY <1>1, <2>9, <2>10, <2>11, <2>13, <2>14 DEF Store!Update
  <2> QED BY <2>15 DEF Store!Next
<1> QED BY <1>3, <1>4 DEF UpdateRow

LEMMA DeleteRowRefines ==
  ASSUME RefInv, NEW s \in Slot, DeleteRow(s)
  PROVE  Store!Next
<1> DEFINE id == req[s].id
<1>1. /\ pc[s] \in {"exec", "orphan"} /\ req[s].op = "delete" /\ ~PendingInsert(s)
      /\ UNCHANGED nextId
  BY DEF DeleteRow, Pending, PendingInsert
<1>2. id \in Id
  BY <1>1 DEF RefInv, WidgetInv, ControlOK
<1>3. CASE ~Matches(s) /\ Answer(s, Error("not_found")) /\ UNCHANGED widgets
  BY <1>1, <1>3, NotFoundRefines
<1>4. CASE /\ Matches(s)
           /\ widgets' = [widgets EXCEPT ![id] = NoRow]
           /\ Answer(s, Success("no_content", NoBody))
  <2>1. id \in Store!Owned(req[s].user)
    BY <1>2, <1>4, MatchIsOwned DEF RefInv
  <2>2. rowsBar' = [rowsBar EXCEPT ![id] = NoRow]
    BY <1>2, <1>4, ChangedRow DEF RefInv
  <2>3. /\ Store!Finish(s, Success("no_content", NoBody)) /\ callBar[s].req = req[s]
        /\ Others(s) /\ ~PendingInsert(s)'
    BY <1>1, <1>4, StatementFinish
  <2>4. UsedIds' = UsedIds
    BY <1>1, <2>3, NoIdTaken
  <2>5. Success("no_content", NoBody) = Store!Success("no_content", Store!NoBody)
    BY SameAnswers, SameConstants
  <2>6. Store!Delete(s)
    BY <1>1, <2>1, <2>2, <2>3, <2>4, <2>5 DEF Store!Delete
  <2> QED BY <2>6 DEF Store!Next
<1> QED BY <1>3, <1>4 DEF DeleteRow

\* A statement that fails is a failed request; the id of an INSERT is lost.
LEMMA FailureRefines ==
  ASSUME RefInv, NEW s \in Slot, RefuseValues(s) \/ Rollback(s)
  PROVE  Store!Next
<1>1. /\ pc[s] \in {"load", "exec", "orphan"}
      /\ Answer(s, Error("internal_error")) /\ UNCHANGED db
  BY DEF RefuseValues, Rollback, Pending
<1>2. /\ Store!Finish(s, Error("internal_error")) /\ callBar[s].status \in {"open", "lost"}
      /\ Others(s) /\ ~PendingInsert(s)'
  BY <1>1, StatementFinish
<1>3. UsedIds' = UsedIds \/ \E i \in Id : UsedIds' = UsedIds \cup {i}
  BY <1>1, <1>2, NoIdTaken, IdTaken DEF RefInv, db
<1>4. UNCHANGED rowsBar
  BY <1>1, SameTable DEF db
<1>5. Store!Fail(s)
  BY <1>2, <1>3, <1>4, SameAnswers, SameConstants DEF Store!Fail
<1> QED BY <1>5 DEF Store!Next

LEMMA RespondRefines ==
  ASSUME RefInv, NEW s \in Slot, Respond(s)
  PROVE  Store!Next
<1>1. pc[s] = "answered" /\ req[s] = NoRequest /\ UNCHANGED <<db, req, stmt>>
  BY DEF Respond, RefInv, WidgetInv, ControlOK
<1>2. callBar[s].status = "done"
  BY <1>1, StatusAt DEF RefInv
<1>3. /\ pc'[s] = "idle" /\ res'[s] = NoResponse /\ Others(s)
      /\ \A t \in Slot \ {s} : res'[t] = res[t]
  BY DEF Respond, RefInv, TypeOK, Others
<1>4. StoreCall(s)' = Store!Idle
  BY <1>1, <1>3, SameConstants DEF StoreCall, RefusedAtLoad, Store!Idle
<1>5. callBar' = [callBar EXCEPT ![s] = Store!Idle]
  BY <1>3, <1>4, ChangedCall
<1>6. UNCHANGED <<rowsBar, UsedIds>>
  <2>1. ~PendingInsert(s) /\ ~PendingInsert(s)'
    BY <1>1, <1>3 DEF PendingInsert, Pending
  <2> QED BY <1>1, <1>3, <2>1, SameTable, NoIdTaken DEF db
<1>7. Store!Return(s)
  BY <1>2, <1>5, <1>6 DEF Store!Return
<1> QED BY <1>7 DEF Store!Next

\* A client or server that goes away.  A write at the database is lost sight of
\* and stays open; anything else ends here.
LEMMA AbandonRefines ==
  ASSUME RefInv, NEW s \in Slot, Abandon(s)
  PROVE  Store!Next
<1>1. pc[s] \in {"load", "loaded", "exec", "answered"} /\ UNCHANGED db
  BY DEF Abandon
<1>2. Others(s) /\ \A t \in Slot \ {s} : res'[t] = res[t]
  BY DEF Abandon, RefInv, TypeOK, Others
<1>3. CASE pc[s] = "exec" /\ req[s].op \in {"create", "update", "delete"}
  <2>1. pc'[s] = "orphan" /\ UNCHANGED <<req, stmt, res>>
    BY <1>3 DEF Abandon, RefInv, TypeOK
  <2>2. callBar[s] = [status |-> "open", req |-> req[s], res |-> NoResponse]
    BY <1>3, CallAt DEF RefInv, RefusedAtLoad
  <2>3. StoreCall(s)' = [status |-> "lost", req |-> req[s], res |-> NoResponse]
    BY <1>3, <2>1 DEF StoreCall, RefusedAtLoad, RefInv, SilentUntilAnswered
  <2>4. callBar' = [callBar EXCEPT ![s].status = "lost"]
    BY <1>2, <2>2, <2>3, ChangedCall
  <2>5. UNCHANGED <<rowsBar, UsedIds>>
    <3>1. \A t \in Slot : PendingInsert(t)' <=> PendingInsert(t)
      BY <1>2, <1>3, <2>1 DEF PendingInsert, Pending, Others
    <3> QED BY <1>1, <2>1, <3>1, SameTable, SameUsed DEF db
  <2>6. callBar[s].status = "open"
    BY <2>2
  <2>7. Store!Abandon(s)
    BY <2>4, <2>5, <2>6 DEF Store!Abandon
  <2> QED BY <2>7 DEF Store!Next
<1>4. CASE ~(pc[s] = "exec" /\ req[s].op \in {"create", "update", "delete"})
  <2>1. pc'[s] = "idle" /\ req'[s] = NoRequest /\ res'[s] = NoResponse
    BY <1>4 DEF Abandon, RefInv, TypeOK
  <2>2. StoreCall(s)' = Store!Idle
    BY <2>1, SameConstants DEF StoreCall, RefusedAtLoad, Store!Idle
  <2>3. callBar' = [callBar EXCEPT ![s] = Store!Idle]
    BY <1>2, <2>2, ChangedCall
  <2>4. callBar[s].status \in {"open", "done"}
    <3>1. callBar[s].status = StoreCall(s).status
      BY DEF callBar
    <3> QED BY <1>1, <3>1 DEF StoreCall
  <2>5. UNCHANGED <<rowsBar, UsedIds>>
    <3>1. ~PendingInsert(s) /\ ~PendingInsert(s)'
      BY <1>1, <1>4, <2>1 DEF PendingInsert, Pending
    <3> QED BY <1>1, <1>2, <3>1, SameTable, NoIdTaken DEF db
  <2>6. Store!Abandon(s)
    BY <2>3, <2>4, <2>5 DEF Store!Abandon
  <2> QED BY <2>6 DEF Store!Next
<1> QED BY <1>3, <1>4

\* Every step is a step of the store, or none.
LEMMA NextRefines ==
  ASSUME RefInv, [Next]_vars
  PROVE  Store!Next \/ UNCHANGED <<rowsBar, UsedIds, callBar>>
<1>1. CASE Tick \/ UNCHANGED vars
  <2>1. UNCHANGED <<widgets, nextId, pc, req, stmt, res>>
    BY <1>1 DEF Tick, vars
  <2>2. \A t \in Slot : StoreCall(t)' = StoreCall(t)
    BY <2>1, SameCall
  <2>3. UNCHANGED callBar
    BY <2>2 DEF callBar
  <2>4. UsedIds' = UsedIds
    BY <2>1 DEF UsedIds, PendingInsert, Pending
  <2> QED BY <2>1, <2>3, <2>4, SameTable
<1>2. ASSUME NEW s \in Slot, Progress(s)
      PROVE  Store!Next \/ UNCHANGED <<rowsBar, UsedIds, callBar>>
  BY <1>2, LoadWidgetRefines, SendUpdateRefines, DrawIdRefines, InsertRowRefines,
     SelectListRefines, SelectOneRefines, UpdateRowRefines, DeleteRowRefines,
     FailureRefines, RespondRefines DEF Progress
<1> QED
  BY <1>1, <1>2, ClientRequestRefines, FailureRefines, AbandonRefines DEF Next

-----------------------------------------------------------------------------
(* The theorems.                                                           *)

\* A goroutine holds no response before its request has been answered, nor
\* after it was given up.
THEOREM SilentBeforeAnswer == Spec => []SilentUntilAnswered
<1>1. TypeOK /\ SilentUntilAnswered /\ [Next]_vars => SilentUntilAnswered'
  BY SilentNext
<1> QED BY <1>1, SilentInit, TypeCorrect, PTL DEF Spec

\* However requests overlap, fail or are abandoned, every response is the one of
\* an atomic store of each user's widgets: no lost or doubled write, nobody
\* else's widget, no answer from two states.
THEOREM WidgetServiceRefinesStore == Spec => ImplementsStore
<1>1. Init => Store!Init
  BY InitRefines
<1>2. TypeOK /\ WidgetInv /\ SilentUntilAnswered /\ [Next]_vars => [Store!Next]_(Store!vars)
  BY NextRefines DEF RefInv, Store!vars
<1> QED
  BY <1>1, <1>2, WidgetInvariant, SilentBeforeAnswer, PTL DEF Spec, ImplementsStore, Store!Spec

-----------------------------------------------------------------------------
(* What a step may never do to the widgets of a user.                      *)

LEMMA WidgetIsDrawn ==
  ASSUME WidgetInv, NEW i \in Id, widgets[i] # NoRow
  PROVE  i \in UsedIds
BY DEF WidgetInv, TableInv, InsertOK, UsedIds

\* One widget changes: by its INSERT, or by a statement of its owner.
ByInsert(s, i) == PendingInsert(s) /\ i = stmt[s].id /\ i \notin UsedIds
ByUpdate(s, i) ==
  /\ Pending(s, "update") /\ Matches(s) /\ req[s].id = i
  /\ widgets'[i] = [widgets[i] EXCEPT !.config = stmt[s].config, !.updated = stmt[s].at]
ByDelete(s, i) ==
  /\ Pending(s, "delete") /\ Matches(s) /\ req[s].id = i
  /\ widgets'[i] = NoRow

LEMMA TableStep ==
  ASSUME TypeOK, WidgetInv, [Next]_vars, NEW i \in Id, widgets'[i] # widgets[i]
  PROVE  \E s \in Slot : ByInsert(s, i) \/ ByUpdate(s, i) \/ ByDelete(s, i)
<1>1. ASSUME NEW s \in Slot, InsertRow(s)
      PROVE  ByInsert(s, i)
  <2>1. PendingInsert(s) /\ i = stmt[s].id
    BY <1>1 DEF InsertRow, TypeOK
  <2> QED BY <2>1 DEF ByInsert, UsedIds
<1>2. ASSUME NEW s \in Slot, UpdateRow(s)
      PROVE  ByUpdate(s, i)
  BY <1>2 DEF UpdateRow, Matches, TypeOK, ByUpdate
<1>3. ASSUME NEW s \in Slot, DeleteRow(s)
      PROVE  ByDelete(s, i)
  BY <1>3 DEF DeleteRow, Matches, TypeOK, ByDelete
<1>4. ASSUME NEW s \in Slot, ClientRequest(s)
      PROVE  UNCHANGED widgets
  BY <1>4
  DEF ClientRequest, CreateWidget, ListWidgets, GetWidget, UpdateWidget, DeleteWidget,
      Refuse, Accept, db
<1>5. ASSUME NEW s \in Slot, Progress(s), ~InsertRow(s), ~UpdateRow(s), ~DeleteRow(s)
      PROVE  UNCHANGED widgets
  BY <1>5
  DEF Progress, LoadWidget, SendUpdate, DrawId, SelectList, SelectOne, RefuseValues,
      Respond, db
<1>6. ASSUME NEW s \in Slot, Rollback(s) \/ Abandon(s)
      PROVE  UNCHANGED widgets
  BY <1>6 DEF Rollback, Abandon, db
<1>7. ~Tick /\ ~UNCHANGED vars
  BY DEF Tick, vars
<1>8. PICK s \in Slot : ClientRequest(s) \/ Progress(s) \/ Rollback(s) \/ Abandon(s)
  BY <1>7 DEF Next
<1> QED BY <1>1, <1>2, <1>3, <1>4, <1>5, <1>6, <1>8

\* An INSERT that is going on went on before, or has just drawn a new id.
LEMMA IdsOfInserts ==
  ASSUME TypeOK, WidgetInv, [Next]_vars
  PROVE  nextId' \in {nextId, nextId + 1} /\ \A t \in Slot : KeepsId(t)
<1>1. ASSUME NEW s \in Slot, Others(s), KeepsId(s), NEW t \in Slot
      PROVE  KeepsId(t)
  BY <1>1 DEF Others, KeepsId, PendingInsert, Pending
<1>2. ASSUME NEW s \in Slot, NEW r, Answer(s, r)
      PROVE  Others(s) /\ KeepsId(s)
  BY <1>2, AnswerEffect DEF KeepsId
<1>3. ASSUME NEW s \in Slot, ClientRequest(s)
      PROVE  Others(s) /\ KeepsId(s) /\ nextId' = nextId
  <2>1. ASSUME NEW code, Refuse(s, code)
        PROVE  Others(s) /\ KeepsId(s) /\ nextId' = nextId
    BY <2>1, <1>2 DEF Refuse, db
  <2>2. ASSUME NEW q, NEW st, NEW next, Accept(s, q, st, next), st.id = 0
        PROVE  Others(s) /\ KeepsId(s) /\ nextId' = nextId
    BY <2>2 DEF Accept, Others, KeepsId, PendingInsert, TypeOK, db
  <2>3. NoStatement.id = 0
    BY DEF NoStatement
  <2>4. ASSUME NEW u, NEW t, NEW b, CreateWidget(s, u, t, b)
        PROVE  Others(s) /\ KeepsId(s) /\ nextId' = nextId
    <3> DEFINE st == [type |-> t, config |-> Normalize(t, b), at |-> clock, id |-> 0]
    <3>1. st.id = 0
      OBVIOUS
    <3> HIDE DEF st
    <3>2. (\E code : Refuse(s, code)) \/ Accept(s, CreateRequest(u, t, b), st, "exec")
      BY <2>4 DEF CreateWidget, st
    <3> QED BY <3>1, <3>2, <2>1, <2>2
  <2>5. ASSUME NEW u, NEW i, NEW b,
               \/ ListWidgets(s, u) \/ GetWidget(s, u, i) \/ DeleteWidget(s, u, i)
               \/ UpdateWidget(s, u, i, b)
        PROVE  Others(s) /\ KeepsId(s) /\ nextId' = nextId
    BY <2>1, <2>2, <2>3, <2>5 DEF ListWidgets, GetWidget, DeleteWidget, UpdateWidget
  <2> QED BY <1>3, <2>4, <2>5 DEF ClientRequest
<1>4. ASSUME NEW s \in Slot, LoadWidget(s) \/ SendUpdate(s)
      PROVE  Others(s) /\ KeepsId(s) /\ nextId' = nextId
  <2>1. req[s].op = "update" /\ nextId' = nextId
    BY <1>4 DEF LoadWidget, SendUpdate, WidgetInv, ControlOK, db
  <2>2. CASE \E r : Answer(s, r)
    BY <2>1, <2>2, <1>2
  <2>3. CASE /\ req' = req
             /\ \E st : stmt' = [stmt EXCEPT ![s] = st]
             /\ \E next : pc' = [pc EXCEPT ![s] = next]
    <3>1. Others(s)
      BY <2>3 DEF TypeOK, Others
    <3> QED BY <2>1, <2>3, <3>1 DEF KeepsId, PendingInsert, Pending
  <2>4. CASE LoadWidget(s)
    BY <2>2, <2>3, <2>4 DEF LoadWidget
  <2>5. CASE SendUpdate(s)
    BY <2>2, <2>3, <2>5 DEF SendUpdate
  <2> QED BY <1>4, <2>4, <2>5
<1>5. ASSUME NEW s \in Slot, DrawId(s)
      PROVE  Others(s) /\ KeepsId(s) /\ nextId' = nextId + 1
  BY <1>5 DEF DrawId, Nextval, TypeOK, Statement, Others, KeepsId
<1>6. ASSUME NEW s \in Slot,
             \/ InsertRow(s) \/ SelectList(s) \/ SelectOne(s) \/ UpdateRow(s) \/ DeleteRow(s)
             \/ RefuseValues(s) \/ Rollback(s)
      PROVE  Others(s) /\ KeepsId(s) /\ nextId' = nextId
  BY <1>6, <1>2
  DEF InsertRow, SelectList, SelectOne, UpdateRow, DeleteRow, RefuseValues, Rollback, db
<1>7. ASSUME NEW s \in Slot, Respond(s) \/ Abandon(s)
      PROVE  Others(s) /\ KeepsId(s) /\ nextId' = nextId
  BY <1>7
  DEF Respond, Abandon, TypeOK, Others, KeepsId, PendingInsert, Pending, NoRequest, db
<1>8. CASE UNCHANGED <<nextId, pc, req, stmt>>
  BY <1>8 DEF KeepsId, PendingInsert, Pending
<1>9. CASE \E s \in Slot : /\ Others(s) /\ KeepsId(s)
                           /\ nextId' \in {nextId, nextId + 1}
  BY <1>1, <1>9
<1>10. ASSUME NEW s \in Slot, Progress(s)
       PROVE  Others(s) /\ KeepsId(s) /\ nextId' \in {nextId, nextId + 1}
  BY <1>10, <1>4, <1>5, <1>6, <1>7 DEF Progress
<1> QED BY <1>3, <1>6, <1>7, <1>8, <1>9, <1>10 DEF Next, Tick, vars

\* A taken id stays taken.
LEMMA UsedGrows ==
  ASSUME TypeOK, WidgetInv, [Next]_vars, NEW i \in UsedIds
  PROVE  i \in UsedIds'
<1>1. /\ i \in Id /\ i < nextId
      /\ \A t \in Slot : PendingInsert(t) => stmt[t].id # i
  BY DEF UsedIds
<1>2. i \in Int /\ nextId \in Int
  BY <1>1, WidgetAPIAssumption DEF Id, TypeOK
<1>3. i < nextId'
  BY <1>1, <1>2, IdsOfInserts
<1>4. \A t \in Slot : PendingInsert(t)' => stmt'[t].id # i
  BY <1>1, <1>2, IdsOfInserts DEF KeepsId
<1> QED BY <1>1, <1>3, <1>4 DEF UsedIds

\* Every answer with a body shows what a statement of the caller found or wrote.
LEMMA ShownIsOwned ==
  ASSUME TypeOK, WidgetInv, [Next]_vars, NEW s \in Slot,
         pc[s] # "answered", pc'[s] = "answered", NEW i \in DOMAIN res'[s].body
  PROVE  res'[s].body[i].owner = req[s].user
<1>1. ASSUME NEW r, Answer(s, r)
      PROVE  res'[s] = r
  BY <1>1, AnswerEffect
<1>2. ASSUME NEW code, Answer(s, Error(code))
      PROVE  FALSE
  <2>1. res'[s].body = NoBody
    BY <1>1, <1>2 DEF Error
  <2> QED BY <2>1 DEF NoBody
<1>3. ASSUME NEW t \in Slot, t # s, Others(t)
      PROVE  FALSE
  BY <1>3 DEF Others
<1>4. CASE InsertRow(s)
  <2>1. res'[s].body = [j \in {stmt[s].id} |-> Show(InsertedRow(s))]
    BY <1>1, <1>4 DEF InsertRow, Success
  <2> QED BY <2>1 DEF Show, InsertedRow
<1>5. CASE SelectList(s)
  <2> DEFINE ids == {j \in Id : widgets[j] # NoRow /\ widgets[j].owner = req[s].user}
  <2>1. res'[s].body = [j \in ids |-> Show(widgets[j])]
    BY <1>1, <1>5 DEF SelectList, Success
  <2> QED BY <2>1 DEF Show
<1>6. CASE SelectOne(s)
  <2>1. Matches(s) /\ Answer(s, Success("ok", [j \in {req[s].id} |-> Show(widgets[j])]))
    BY <1>2, <1>6 DEF SelectOne
  <2>2. res'[s].body = [j \in {req[s].id} |-> Show(widgets[j])]
    BY <1>1, <2>1 DEF Success
  <2> QED BY <2>1, <2>2 DEF Show, Matches
<1>7. CASE UpdateRow(s)
  <2> DEFINE old == widgets[req[s].id]
             row == [old EXCEPT !.config = stmt[s].config, !.updated = stmt[s].at]
  <2>1. Matches(s) /\ Answer(s, Success("ok", [j \in {req[s].id} |-> Show(row)]))
    BY <1>2, <1>7 DEF UpdateRow
  <2>2. res'[s].body = [j \in {req[s].id} |-> Show(row)]
    BY <1>1, <2>1 DEF Success
  <2>3. old \in Row
    <3>1. req[s].id \in Id
      BY <1>7 DEF UpdateRow, Pending, WidgetInv, ControlOK
    <3> QED BY <2>1, <3>1, MatchType
  <2>4. row.owner = old.owner
    BY <2>3 DEF Row
  <2> QED BY <2>1, <2>2, <2>4 DEF Show, Matches
<1>8. CASE DeleteRow(s)
  <2>1. Answer(s, Success("no_content", NoBody))
    BY <1>2, <1>8 DEF DeleteRow
  <2>2. res'[s].body = NoBody
    BY <1>1, <2>1 DEF Success
  <2> QED BY <2>2 DEF NoBody
<1>9. ~ClientRequest(s)
  <2>1. ASSUME NEW q, NEW st, NEW next \in {"load", "exec"}, Accept(s, q, st, next)
        PROVE  FALSE
    BY <2>1 DEF Accept, TypeOK
  <2>2. \A code : ~Refuse(s, code)
    BY <1>2 DEF Refuse
  <2> QED
    BY <2>1, <2>2
    DEF ClientRequest, CreateWidget, ListWidgets, GetWidget, UpdateWidget, DeleteWidget
<1>10. ~LoadWidget(s) /\ ~SendUpdate(s)
  BY <1>2 DEF LoadWidget, SendUpdate, TypeOK
<1>11. ~DrawId(s) /\ ~RefuseValues(s) /\ ~Rollback(s) /\ ~Respond(s) /\ ~Abandon(s)
  BY <1>2 DEF DrawId, RefuseValues, Rollback, Respond, Abandon, TypeOK
<1>12. ~Tick /\ ~UNCHANGED vars
  BY DEF Tick, vars
<1>13. ASSUME NEW t \in Slot,
              ClientRequest(t) \/ Progress(t) \/ Rollback(t) \/ Abandon(t)
       PROVE  t = s
  <2>1. \/ UNCHANGED pc
        \/ \E p : pc' = [pc EXCEPT ![t] = p]
    BY <1>13
    DEF ClientRequest, CreateWidget, ListWidgets, GetWidget, UpdateWidget, DeleteWidget,
        Refuse, Accept, Progress, LoadWidget, SendUpdate, DrawId, InsertRow, SelectList,
        SelectOne, UpdateRow, DeleteRow, RefuseValues, Respond, Rollback, Abandon, Answer
  <2> QED BY <2>1 DEF TypeOK
<1> QED
  BY <1>4, <1>5, <1>6, <1>7, <1>8, <1>9, <1>10, <1>11, <1>12, <1>13 DEF Next, Progress

\* A widget changes, or goes, only while its owner has a PATCH or a DELETE of it
\* under way, whoever else uses its id at the same time.
THEOREM OnlyTheOwnerWrites == Spec => OnlyOwnersWrite
<1>1. ASSUME TypeOK, WidgetInv, [Next]_vars, NEW i \in Id,
             widgets[i] # NoRow, widgets'[i] # widgets[i]
      PROVE  \E s \in Slot : /\ req[s].op \in {"update", "delete"} /\ req[s].id = i
                             /\ req[s].user = widgets[i].owner
  <2>1. PICK s \in Slot : ByUpdate(s, i) \/ ByDelete(s, i)
    BY <1>1, TableStep, WidgetIsDrawn DEF ByInsert
  <2>2. req[s].op \in {"update", "delete"} /\ req[s].id = i /\ req[s].user = widgets[i].owner
    BY <2>1 DEF ByUpdate, ByDelete, Pending, Matches
  <2> QED BY <2>2
<1>2. TypeOK /\ WidgetInv /\ [Next]_vars =>
        [\A i \in Id : widgets[i] # NoRow /\ widgets'[i] # widgets[i] =>
           \E s \in Slot : /\ req[s].op \in {"update", "delete"} /\ req[s].id = i
                           /\ req[s].user = widgets[i].owner]_vars
  BY <1>1
<1> QED BY <1>2, WidgetInvariant, PTL DEF Spec, OnlyOwnersWrite

\* No overlap of requests gives a widget to somebody else, or makes it a widget
\* of another type or of another time.
THEOREM IdentityIsKept == Spec => WidgetsKeepIdentity
<1>1. ASSUME TypeOK, WidgetInv, [Next]_vars, NEW i \in Id,
             widgets[i] # NoRow, widgets'[i] # NoRow
      PROVE  /\ widgets'[i].owner = widgets[i].owner
             /\ widgets'[i].type = widgets[i].type
             /\ widgets'[i].created = widgets[i].created
  <2>1. CASE widgets'[i] = widgets[i]
    BY <2>1
  <2>2. CASE widgets'[i] # widgets[i]
    <3>1. PICK s \in Slot : ByUpdate(s, i)
      BY <1>1, <2>2, TableStep, WidgetIsDrawn DEF ByInsert, ByDelete
    <3>2. widgets[i] \in Row
      BY <1>1 DEF TypeOK
    <3> QED BY <3>1, <3>2 DEF ByUpdate, Row
  <2> QED BY <2>1, <2>2
<1>2. TypeOK /\ WidgetInv /\ [Next]_vars =>
        [\A i \in Id : widgets[i] # NoRow /\ widgets'[i] # NoRow =>
           /\ widgets'[i].owner = widgets[i].owner
           /\ widgets'[i].type = widgets[i].type
           /\ widgets'[i].created = widgets[i].created]_vars
  BY <1>1
<1> QED BY <1>2, WidgetInvariant, PTL DEF Spec, WidgetsKeepIdentity

\* An id is given to one widget and never again: a request for a deleted widget
\* cannot reach a later one, although nextval() and INSERT are two steps.
THEOREM IdsAreNotReused == Spec => IdsServeOnce
<1>1. ASSUME TypeOK, WidgetInv, [Next]_vars, NEW i \in Id
      PROVE  /\ i \in UsedIds \/ widgets[i] # NoRow => i \in UsedIds'
             /\ i \in UsedIds /\ widgets[i] = NoRow => widgets'[i] = NoRow
  <2>1. i \in UsedIds \/ widgets[i] # NoRow => i \in UsedIds'
    BY <1>1, UsedGrows, WidgetIsDrawn
  <2>2. ASSUME i \in UsedIds, widgets[i] = NoRow, widgets'[i] # NoRow
        PROVE  FALSE
    <3>1. PICK s \in Slot : ByUpdate(s, i)
      BY <1>1, <2>2, TableStep DEF ByInsert, ByDelete
    <3> QED BY <2>2, <3>1 DEF Matches, ByUpdate
  <2> QED BY <2>1, <2>2
<1>2. TypeOK /\ WidgetInv /\ [Next]_vars =>
        [\A i \in Id :
           /\ i \in UsedIds \/ widgets[i] # NoRow => i \in UsedIds'
           /\ i \in UsedIds /\ widgets[i] = NoRow => widgets'[i] = NoRow]_vars
  BY <1>1
<1> QED BY <1>2, WidgetInvariant, PTL DEF Spec, IdsServeOnce

\* No response shows a widget of another user, also when the table changes
\* between the statements of a request.
THEOREM OwnWidgetsShown == Spec => AnswersShowOwnWidgets
<1>1. TypeOK /\ WidgetInv /\ [Next]_vars =>
        [\A s \in Slot : pc[s] # "answered" /\ pc'[s] = "answered" =>
           \A i \in DOMAIN res'[s].body : res'[s].body[i].owner = req[s].user]_vars
  BY ShownIsOwned
<1> QED BY <1>1, WidgetInvariant, PTL DEF Spec, AnswersShowOwnWidgets
=============================================================================

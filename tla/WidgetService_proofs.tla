------------------------- MODULE WidgetService_proofs -------------------------
(***************************************************************************)
(* Proofs about WidgetService, for any number of slots, users, types,      *)
(* configs and ids: its type invariant, and WidgetInv, the inductive       *)
(* invariant behind StoredConfigFits and CreatedBeforeUpdated.             *)
(***************************************************************************)
EXTENDS WidgetService, TLAPS

-----------------------------------------------------------------------------
(* Types of the records that the actions build.                            *)

LEMMA NoBodyType == NoBody \in Bodies
<1>1. {} \in SUBSET Id /\ NoBody \in [{} -> PublicRow]
  BY DEF NoBody
<1> QED BY <1>1 DEF Bodies

LEMMA ErrorType ==
  ASSUME NEW code \in Code
  PROVE  Error(code) \in Response
BY NoBodyType DEF Error, Response

LEMMA ShowType ==
  ASSUME NEW row \in Row
  PROVE  Show(row) \in PublicRow
BY DEF Show, Row, PublicRow

\* A response whose body shows some widgets.
LEMMA SuccessType ==
  ASSUME NEW code \in Code, NEW ids \in SUBSET Id, NEW body \in [ids -> PublicRow]
  PROVE  Success(code, body) \in Response
BY DEF Success, Response, Bodies

LEMMA EmptyTypes ==
  NoRequest \in Request /\ NoStatement \in Statement /\ NoResponse \in Response
<1>1. NoRequest \in Request
  BY WidgetAPIAssumption DEF Request, NoRequest
<1>2. NoStatement \in Statement
  BY WidgetAPIAssumption, MaxClockAssumption DEF Statement, NoStatement, Time
<1>3. NoResponse \in Response
  BY ErrorType DEF NoResponse, Code
<1> QED BY <1>1, <1>2, <1>3

LEMMA CreateRequestType ==
  ASSUME NEW u \in User, NEW t \in RawType, NEW b \in RawConfig
  PROVE  CreateRequest(u, t, b) \in Request
BY EmptyTypes DEF CreateRequest, Request

LEMMA ReadRequestTypes ==
  ASSUME NEW u \in User, NEW i \in 0 .. MaxId
  PROVE  {ListRequest(u), GetRequest(u, i), DeleteRequest(u, i)} \subseteq Request
<1>1. ListRequest(u) \in Request
  BY EmptyTypes DEF ListRequest, Request
<1>2. GetRequest(u, i) \in Request
  BY EmptyTypes DEF GetRequest, Request
<1>3. DeleteRequest(u, i) \in Request
  BY EmptyTypes DEF DeleteRequest, Request
<1> QED BY <1>1, <1>2, <1>3

LEMMA UpdateRequestType ==
  ASSUME NEW u \in User, NEW i \in 0 .. MaxId, NEW b \in RawConfig
  PROVE  UpdateRequest(u, i, b) \in Request
BY EmptyTypes DEF UpdateRequest, Request

\* What NormalizeConfig accepts is in normal form for its type.
LEMMA NormalizeType ==
  ASSUME NEW t \in WidgetType, NEW b \in RawConfig, Normalize(t, b) # Invalid
  PROVE  Normalize(t, b) \in StoredConfig /\ Normalize(t, b) \in NormalForms(t)
<1>1. <<t, b>> \in WidgetType \X RawConfig
  OBVIOUS
<1>2. Normalize(t, b) \in StoredConfig \cup {Invalid}
  BY <1>1, WidgetAPIAssumption DEF Normalize
<1>3. Normalize(t, b) \in NormalForms(t)
  BY DEF NormalForms
<1> QED BY <1>2, <1>3

-----------------------------------------------------------------------------
(* Steps that only move one slot.                                          *)

\* What the other slots see of a step of slot s: nothing but the table.
Others(s) ==
  \A t \in Slot \ {s} : pc'[t] = pc[t] /\ req'[t] = req[t] /\ stmt'[t] = stmt[t]

\* Slot s has no request any more, except for a response to send.
Settled(s) ==
  /\ Others(s)
  /\ pc'[s] \in {"idle", "answered"}
  /\ req'[s] = NoRequest
  /\ stmt'[s] = NoStatement

SlotTypeOK ==
  /\ pc \in [Slot -> Control]
  /\ req \in [Slot -> Request]
  /\ stmt \in [Slot -> Statement]
  /\ res \in [Slot -> Response]

LEMMA AnswerStep ==
  ASSUME TypeOK, NEW s \in Slot, NEW r \in Response, Answer(s, r)
  PROVE  SlotTypeOK' /\ Settled(s)
<1> USE EmptyTypes DEF TypeOK
<1>1. pc' \in [Slot -> Control]
  BY DEF Answer, Control
<1>2. req' \in [Slot -> Request] /\ stmt' \in [Slot -> Statement] /\ res' \in [Slot -> Response]
  BY DEF Answer
<1>3. Others(s)
  BY DEF Answer, Others
<1>4. pc'[s] \in {"idle", "answered"} /\ req'[s] = NoRequest /\ stmt'[s] = NoStatement
  BY DEF Answer
<1> QED BY <1>1, <1>2, <1>3, <1>4 DEF SlotTypeOK, Settled

LEMMA AcceptStep ==
  ASSUME TypeOK, NEW s \in Slot, NEW q \in Request, NEW st \in Statement,
         NEW next \in Control, Accept(s, q, st, next)
  PROVE  /\ SlotTypeOK'
         /\ Others(s)
         /\ pc'[s] = next /\ req'[s] = q /\ stmt'[s] = st
BY DEF TypeOK, SlotTypeOK, Accept, Others

\* The response to a request that did not get what it asked for.
LEMMA FailureStep ==
  ASSUME TypeOK, NEW s \in Slot, NEW code \in Code, Answer(s, Error(code))
  PROVE  SlotTypeOK' /\ Settled(s)
BY ErrorType, AnswerStep

-----------------------------------------------------------------------------
(* Type correctness.                                                       *)

LEMMA ClientRequestTypes ==
  ASSUME TypeOK, NEW s \in Slot, ClientRequest(s)
  PROVE  TypeOK'
<1> USE WidgetAPIAssumption, MaxClockAssumption
<1>0. SUFFICES UNCHANGED db /\ SlotTypeOK'
  BY DEF TypeOK, SlotTypeOK, db
<1>1. ASSUME NEW code \in Code, Refuse(s, code)
      PROVE  UNCHANGED db /\ SlotTypeOK'
  BY <1>1, FailureStep DEF Refuse
<1>2. ASSUME NEW q \in Request, NEW st \in Statement, NEW next \in Control,
             Accept(s, q, st, next)
      PROVE  UNCHANGED db /\ SlotTypeOK'
  <2>1. SlotTypeOK'
    BY <1>2, AcceptStep
  <2> QED BY <1>2, <2>1 DEF Accept
<1>3. ASSUME NEW u \in User, NEW t \in RawType, NEW b \in RawConfig \cup {Malformed},
             CreateWidget(s, u, t, b)
      PROVE  UNCHANGED db /\ SlotTypeOK'
  <2>1. CASE Refuse(s, "bad_request") \/ Refuse(s, "validation_error")
    BY <2>1, <1>1 DEF Code
  <2>2. CASE /\ b # Malformed /\ AcceptsCreate(CreateRequest(u, t, b))
             /\ Accept(s, CreateRequest(u, t, b),
                       [type |-> t, config |-> Normalize(t, b), at |-> clock, id |-> 0],
                       "exec")
    <3>1. b \in RawConfig
      BY <2>2
    <3>2. CreateRequest(u, t, b) \in Request
      BY <3>1, CreateRequestType
    <3>3. t \in WidgetType /\ Normalize(t, b) # Invalid
      BY <2>2 DEF AcceptsCreate, CreateRequest, NoRequest
    <3>4. Normalize(t, b) \in StoredConfig
      BY <3>1, <3>3, NormalizeType
    <3>5. [type |-> t, config |-> Normalize(t, b), at |-> clock, id |-> 0] \in Statement
      BY <3>3, <3>4 DEF Statement, TypeOK
    <3> QED BY <2>2, <3>2, <3>5, <1>2 DEF Control
  <2> QED BY <1>3, <2>1, <2>2 DEF CreateWidget
<1>4. ASSUME NEW u \in User, NEW i \in 0 .. MaxId, NEW b \in RawConfig \cup {Malformed},
             ListWidgets(s, u) \/ GetWidget(s, u, i) \/ DeleteWidget(s, u, i)
               \/ UpdateWidget(s, u, i, b)
      PROVE  UNCHANGED db /\ SlotTypeOK'
  <2>1. CASE Refuse(s, "bad_request")
    BY <2>1, <1>1 DEF Code
  <2>2. CASE \E q \in {ListRequest(u), GetRequest(u, i), DeleteRequest(u, i)} :
               Accept(s, q, NoStatement, "exec")
    BY <2>2, <1>2, ReadRequestTypes, EmptyTypes DEF Control
  <2>3. CASE b # Malformed /\ Accept(s, UpdateRequest(u, i, b), NoStatement, "load")
    <3>1. UpdateRequest(u, i, b) \in Request
      BY <2>3, UpdateRequestType
    <3> QED BY <2>3, <3>1, <1>2, EmptyTypes DEF Control
  <2> QED BY <1>4, <2>1, <2>2, <2>3 DEF ListWidgets, GetWidget, DeleteWidget, UpdateWidget
<1> QED BY <1>3, <1>4 DEF ClientRequest

\* The row that an INSERT is about to add.
LEMMA InsertedRowType ==
  ASSUME TypeOK, WidgetInv, NEW s \in Slot, PendingInsert(s)
  PROVE  InsertedRow(s) \in Row /\ stmt[s].id \in Id
<1>1. /\ stmt[s].type \in WidgetType
      /\ stmt[s].config \in StoredConfig
      /\ req[s].user \in User
      /\ stmt[s].at \in Time
  BY WidgetAPIAssumption
  DEF WidgetInv, ControlOK, InsertOK, PendingInsert, Pending, TypeOK, Statement
<1>2. stmt[s].id \in 0 .. MaxId /\ stmt[s].id # 0
  BY DEF PendingInsert, TypeOK, Statement
<1> QED BY <1>1, <1>2, WidgetAPIAssumption DEF InsertedRow, Row, Id

\* A statement on one widget that matches a row.
LEMMA MatchType ==
  ASSUME TypeOK, NEW s \in Slot, req[s].id \in Id, Matches(s)
  PROVE  widgets[req[s].id] \in Row
BY DEF TypeOK, Matches

LEMMA ProgressTypes ==
  ASSUME TypeOK, WidgetInv, NEW s \in Slot, Progress(s)
  PROVE  TypeOK'
<1> USE WidgetAPIAssumption, MaxClockAssumption
<1>0. ASSUME widgets' \in [Id -> Row \cup {NoRow}], nextId' \in 1 .. MaxId + 1,
             clock' = clock, SlotTypeOK'
      PROVE  TypeOK'
  BY <1>0 DEF TypeOK, SlotTypeOK
<1>1. ASSUME NEW code \in Code, Answer(s, Error(code)), UNCHANGED db
      PROVE  TypeOK'
  BY <1>0, <1>1, FailureStep DEF TypeOK, db
<1>2. ASSUME NEW r \in Response, Answer(s, r),
             widgets' \in [Id -> Row \cup {NoRow}], UNCHANGED <<nextId, clock>>
      PROVE  TypeOK'
  BY <1>0, <1>2, AnswerStep DEF TypeOK
<1>3. CASE LoadWidget(s)
  <2>1. CASE Answer(s, Error("not_found"))
    BY <1>3, <2>1, <1>1 DEF LoadWidget, Code
  <2>2. CASE /\ Matches(s)
             /\ stmt' = [stmt EXCEPT ![s].type = widgets[req[s].id].type]
             /\ pc' = [pc EXCEPT ![s] = "loaded"]
             /\ UNCHANGED <<req, res>>
    <3>1. widgets[req[s].id] \in Row
      BY <1>3, <2>2, MatchType DEF LoadWidget, WidgetInv, ControlOK
    <3> DEFINE new == [stmt[s] EXCEPT !.type = widgets[req[s].id].type]
    <3>2. new \in Statement
      BY <3>1 DEF TypeOK, Statement, Row
    <3>3. stmt' = [stmt EXCEPT ![s] = new]
      BY <2>2 DEF TypeOK
    <3> HIDE DEF new
    <3>4. stmt \in [Slot -> Statement]
      BY DEF TypeOK
    <3>5. stmt' \in [Slot -> Statement]
      BY <3>2, <3>3, <3>4
    <3> QED BY <1>3, <2>2, <3>5, <1>0 DEF LoadWidget, TypeOK, SlotTypeOK, Control, db
  <2> QED BY <1>3, <2>1, <2>2 DEF LoadWidget
<1>4. CASE SendUpdate(s)
  <2> DEFINE type == stmt[s].type
             raw  == req[s].body
  <2>1. CASE Answer(s, Error("validation_error"))
    BY <1>4, <2>1, <1>1 DEF SendUpdate, Code
  <2>2. CASE /\ Normalize(type, raw) # Invalid
             /\ stmt' = [stmt EXCEPT ![s] = [type |-> type, config |-> Normalize(type, raw),
                                             at |-> clock, id |-> 0]]
             /\ pc' = [pc EXCEPT ![s] = "exec"]
             /\ UNCHANGED <<req, res>>
    <3>1. type \in WidgetType /\ raw \in RawConfig
      BY <1>4 DEF SendUpdate, WidgetInv, ControlOK, UpdateOK
    <3>2. Normalize(type, raw) \in StoredConfig
      BY <2>2, <3>1, NormalizeType
    <3>3. [type |-> type, config |-> Normalize(type, raw), at |-> clock, id |-> 0] \in Statement
      BY <3>1, <3>2 DEF Statement, TypeOK
    <3> QED BY <1>4, <2>2, <3>3, <1>0 DEF SendUpdate, TypeOK, SlotTypeOK, Control, db
  <2> QED BY <1>4, <2>1, <2>2 DEF SendUpdate
<1>5. CASE DrawId(s)
  <2>1. nextId \in Id /\ nextId' \in 1 .. MaxId + 1
    BY <1>5 DEF DrawId, SequenceLeft, Nextval, TypeOK, Id
  <2> DEFINE new == [stmt[s] EXCEPT !.id = nextId]
  <2>2. new \in Statement
    <3>1. stmt[s] \in Statement
      BY DEF TypeOK
    <3>2. nextId \in 0 .. MaxId
      BY <2>1 DEF Id
    <3> QED BY <3>1, <3>2 DEF Statement
  <2>3. stmt' = [stmt EXCEPT ![s] = new]
    BY <1>5 DEF DrawId, TypeOK
  <2>4. stmt \in [Slot -> Statement]
    BY DEF TypeOK
  <2> HIDE DEF new
  <2>5. stmt' \in [Slot -> Statement]
    BY <2>2, <2>3, <2>4
  <2> QED BY <1>5, <2>1, <2>5, <1>0 DEF DrawId, TypeOK, SlotTypeOK
<1>6. CASE InsertRow(s)
  <2>1. InsertedRow(s) \in Row /\ stmt[s].id \in Id
    BY <1>6, InsertedRowType DEF InsertRow
  <2>2. Success("created", [i \in {stmt[s].id} |-> Show(InsertedRow(s))]) \in Response
    BY <2>1, ShowType, SuccessType DEF Code
  <2>3. widgets' \in [Id -> Row \cup {NoRow}]
    BY <1>6, <2>1 DEF InsertRow, TypeOK
  <2> QED BY <1>6, <2>2, <2>3, <1>2 DEF InsertRow
<1>7. CASE SelectList(s)
  <2> DEFINE ids == {i \in Id : widgets[i] # NoRow /\ widgets[i].owner = req[s].user}
  <2>1. \A i \in ids : widgets[i] \in Row
    BY DEF TypeOK
  <2>2. [i \in ids |-> Show(widgets[i])] \in [ids -> PublicRow]
    BY <2>1, ShowType
  <2>3. Success("ok", [i \in ids |-> Show(widgets[i])]) \in Response
    BY <2>2, SuccessType DEF Code
  <2> QED BY <1>7, <2>3, <1>2 DEF SelectList, TypeOK, db
<1>8. CASE SelectOne(s)
  <2>1. CASE Answer(s, Error("not_found"))
    BY <1>8, <2>1, <1>1 DEF SelectOne, Code
  <2>2. CASE /\ Matches(s)
             /\ Answer(s, Success("ok", [i \in {req[s].id} |-> Show(widgets[i])]))
    <3>1. req[s].id \in Id
      BY <1>8 DEF SelectOne, Pending, WidgetInv, ControlOK
    <3>2. widgets[req[s].id] \in Row
      BY <2>2, <3>1, MatchType
    <3>3. [i \in {req[s].id} |-> Show(widgets[i])] \in [{req[s].id} -> PublicRow]
      BY <3>2, ShowType
    <3>4. Success("ok", [i \in {req[s].id} |-> Show(widgets[i])]) \in Response
      BY <3>1, <3>3, SuccessType DEF Code
    <3> QED BY <1>8, <2>2, <3>4, <1>2 DEF SelectOne, TypeOK, db
  <2> QED BY <1>8, <2>1, <2>2 DEF SelectOne
<1>9. CASE UpdateRow(s)
  <2> DEFINE row == [widgets[req[s].id] EXCEPT !.config  = stmt[s].config,
                                              !.updated = stmt[s].at]
  <2>1. CASE Answer(s, Error("not_found")) /\ UNCHANGED widgets
    BY <1>9, <2>1, <1>1 DEF UpdateRow, Code, db
  <2>2. CASE /\ Matches(s)
             /\ widgets' = [widgets EXCEPT ![req[s].id] = row]
             /\ Answer(s, Success("ok", [i \in {req[s].id} |-> Show(row)]))
    <3>1. req[s].id \in Id
      BY <1>9 DEF UpdateRow, Pending, WidgetInv, ControlOK
    <3>2. widgets[req[s].id] \in Row
      BY <2>2, <3>1, MatchType
    <3>3. stmt[s].config \in StoredConfig /\ stmt[s].at \in Time
      BY <1>9 DEF UpdateRow, TypeOK, Statement
    <3>4. row \in Row
      BY <3>2, <3>3 DEF Row
    <3>5. Success("ok", [i \in {req[s].id} |-> Show(row)]) \in Response
      BY <3>1, <3>4, ShowType, SuccessType DEF Code
    <3>6. widgets' \in [Id -> Row \cup {NoRow}]
      BY <2>2, <3>4 DEF TypeOK
    <3> QED BY <1>9, <2>2, <3>5, <3>6, <1>2 DEF UpdateRow
  <2> QED BY <1>9, <2>1, <2>2 DEF UpdateRow
<1>10. CASE DeleteRow(s)
  <2>1. CASE Answer(s, Error("not_found")) /\ UNCHANGED widgets
    BY <1>10, <2>1, <1>1 DEF DeleteRow, Code, db
  <2>2. CASE /\ widgets' = [widgets EXCEPT ![req[s].id] = NoRow]
             /\ Answer(s, Success("no_content", NoBody))
    <3>1. Success("no_content", NoBody) \in Response
      BY NoBodyType DEF Success, Response, Code
    <3>2. widgets' \in [Id -> Row \cup {NoRow}]
      BY <2>2 DEF TypeOK
    <3> QED BY <1>10, <2>2, <3>1, <3>2, <1>2 DEF DeleteRow
  <2> QED BY <1>10, <2>1, <2>2 DEF DeleteRow
<1>11. CASE RefuseValues(s)
  BY <1>11, <1>1 DEF RefuseValues, Code
<1>12. CASE Respond(s)
  BY <1>12, <1>0, EmptyTypes DEF Respond, TypeOK, SlotTypeOK, Control, db
<1> QED
  BY <1>3, <1>4, <1>5, <1>6, <1>7, <1>8, <1>9, <1>10, <1>11, <1>12 DEF Progress

LEMMA TypePreserved ==
  TypeOK /\ WidgetInv /\ [Next]_vars => TypeOK'
<1> SUFFICES ASSUME TypeOK, WidgetInv, [Next]_vars
             PROVE  TypeOK'
  OBVIOUS
<1>1. ASSUME NEW s \in Slot, Rollback(s)
      PROVE  TypeOK'
  BY <1>1, FailureStep DEF Rollback, Code, TypeOK, SlotTypeOK, db
<1>2. ASSUME NEW s \in Slot, Abandon(s)
      PROVE  TypeOK'
  BY <1>2, EmptyTypes DEF Abandon, TypeOK, Control, db
<1>3. CASE Tick
  BY <1>3, MaxClockAssumption DEF Tick, TypeOK, Time
<1>4. CASE UNCHANGED vars
  BY <1>4 DEF vars, TypeOK
<1> QED
  BY <1>1, <1>2, <1>3, <1>4, ClientRequestTypes, ProgressTypes DEF Next

-----------------------------------------------------------------------------
(* WidgetInv is inductive.  First what a step of one slot leaves alone.    *)

SlotOK(s) == ControlOK(s) /\ InsertOK(s) /\ UpdateOK(s)

RowFits(row) ==
  /\ row.config \in NormalForms(row.type) \cap Jsonb
  /\ row.created <= row.updated

\* A row stays, goes away, or is updated with a config that fits.
Evolves(i) ==
  \/ widgets'[i] = widgets[i]
  \/ widgets'[i] = NoRow
  \/ /\ widgets[i] # NoRow /\ widgets'[i] # NoRow
     /\ widgets'[i].owner = widgets[i].owner
     /\ widgets'[i].type = widgets[i].type
     /\ widgets'[i].created = widgets[i].created
     /\ RowFits(widgets'[i])

\* The INSERT of slot s adds row i, under the id that it drew.
Filled(s, i) ==
  /\ PendingInsert(s) /\ ~PendingInsert(s)' /\ i = stmt[s].id

\* An id that slot s holds after a step it held before, or it is a new one.
KeepsId(s) ==
  PendingInsert(s)' =>
    \/ PendingInsert(s) /\ stmt'[s].id = stmt[s].id
    \/ stmt'[s].id = nextId

LEMMA OthersKeepInv ==
  ASSUME TypeOK, WidgetInv, NEW s \in Slot, Others(s), KeepsId(s),
         nextId' \in Int, clock' \in Int, nextId <= nextId', clock <= clock',
         \A i \in Id : Evolves(i) \/ Filled(s, i)
  PROVE  \A t \in Slot \ {s} : SlotOK(t)'
<1> SUFFICES ASSUME NEW t \in Slot \ {s}
             PROVE  SlotOK(t)'
  OBVIOUS
<1>1. pc'[t] = pc[t] /\ req'[t] = req[t] /\ stmt'[t] = stmt[t]
  BY DEF Others
<1>2. SlotOK(t)
  BY DEF WidgetInv, SlotOK
<1>3. \A op : Pending(t, op)' <=> Pending(t, op)
  BY <1>1 DEF Pending
<1>4. PendingInsert(t)' <=> PendingInsert(t)
  BY <1>1 DEF PendingInsert, Pending
<1>5. nextId \in Int /\ clock \in Int /\ stmt[t].at \in Int /\ stmt[t].id \in Int
        /\ req[t].id \in Int
  BY MaxClockAssumption, WidgetAPIAssumption DEF TypeOK, Time, Statement, Request
<1>6. ControlOK(t)'
  BY <1>1, <1>2, <1>5 DEF SlotOK, ControlOK
<1>7. InsertOK(t)'
  <2>1. SUFFICES ASSUME PendingInsert(t)
                 PROVE  /\ stmt[t].id < nextId'
                        /\ widgets'[stmt[t].id] = NoRow
                        /\ \A u \in Slot \ {t} : PendingInsert(u)' => stmt'[u].id # stmt[t].id
    BY <1>1, <1>2, <1>3, <1>4 DEF SlotOK, InsertOK
  <2>2. /\ stmt[t].id < nextId /\ widgets[stmt[t].id] = NoRow
        /\ \A u \in Slot \ {t} : PendingInsert(u) => stmt[u].id # stmt[t].id
    BY <2>1, <1>2 DEF SlotOK, InsertOK
  <2>3. stmt[t].id \in Id
    BY <2>1, InsertedRowType
  <2>4. widgets'[stmt[t].id] = NoRow
    BY <2>2, <2>3 DEF Evolves, Filled
  <2>5. ASSUME NEW u \in Slot \ {t}, PendingInsert(u)'
        PROVE  stmt'[u].id # stmt[t].id
    <3>1. CASE u = s
      BY <2>2, <2>5, <3>1, <1>5 DEF KeepsId
    <3>2. CASE u # s
      BY <2>2, <2>5, <3>2 DEF Others, PendingInsert, Pending
    <3> QED BY <3>1, <3>2
  <2> QED BY <2>2, <2>4, <2>5, <1>5
<1>8. UpdateOK(t)'
  <2>1. SUFFICES ASSUME pc[t] = "loaded" \/ Pending(t, "update")
                 PROVE  /\ KnownWidget(t)'
                        /\ widgets'[req[t].id] # NoRow /\ Pending(t, "update") =>
                             widgets'[req[t].id].created <= stmt[t].at
    BY <1>1, <1>2, <1>3 DEF SlotOK, UpdateOK
  <2>2. /\ KnownWidget(t)
        /\ widgets[req[t].id] # NoRow /\ Pending(t, "update") =>
             widgets[req[t].id].created <= stmt[t].at
    BY <2>1, <1>2 DEF SlotOK, UpdateOK
  <2>3. req[t].id \in Id
    BY <2>1, <1>2 DEF SlotOK, ControlOK, Pending
  <2>4. Evolves(req[t].id)
    BY <2>2, <2>3 DEF KnownWidget, Filled
  <2>5. ASSUME NEW u \in Slot, PendingInsert(u)'
        PROVE  stmt'[u].id # req[t].id
    <3>1. CASE u = s
      BY <2>2, <2>5, <3>1, <1>5 DEF KeepsId, KnownWidget
    <3>2. CASE u # s
      BY <2>2, <2>5, <3>2 DEF Others, PendingInsert, Pending, KnownWidget
    <3> QED BY <3>1, <3>2
  <2>6. req[t].id < nextId'
    BY <2>2, <1>5 DEF KnownWidget
  <2> QED BY <2>2, <2>4, <2>5, <2>6, <1>1 DEF Evolves, KnownWidget
<1> QED BY <1>6, <1>7, <1>8 DEF SlotOK

LEMMA TableKeepsInv ==
  ASSUME TypeOK, WidgetInv, nextId' \in Int, clock' \in Int,
         nextId <= nextId', clock <= clock',
         \A i \in Id : Evolves(i)
  PROVE  (TableInv /\ StoredConfigFits /\ CreatedBeforeUpdated)'
<1>1. nextId \in Int /\ clock \in Int
  BY MaxClockAssumption, WidgetAPIAssumption DEF TypeOK, Time
<1>2. \A i \in Id : i \in Int
  BY WidgetAPIAssumption DEF Id
<1>3. \A i \in Id : widgets[i] # NoRow => widgets[i].created \in Int
  BY MaxClockAssumption DEF TypeOK, Row, Time
<1>4. ASSUME NEW i \in Id, widgets'[i] # NoRow
      PROVE  i < nextId' /\ widgets'[i].created <= clock' /\ RowFits(widgets'[i])
  <2>1. widgets[i] # NoRow /\ widgets'[i].created = widgets[i].created
    BY <1>4 DEF Evolves
  <2>2. RowFits(widgets[i])
    BY <2>1 DEF WidgetInv, StoredConfigFits, CreatedBeforeUpdated, RowFits
  <2>3. RowFits(widgets'[i])
    BY <1>4, <2>2 DEF Evolves
  <2>4. i < nextId /\ widgets[i].created <= clock
    BY <2>1 DEF WidgetInv, TableInv
  <2> QED BY <2>1, <2>3, <2>4, <1>1, <1>2, <1>3
<1> QED BY <1>4 DEF TableInv, StoredConfigFits, CreatedBeforeUpdated, RowFits

LEMMA WidgetInvParts ==
  ASSUME NEW s \in Slot, SlotOK(s)', \A t \in Slot \ {s} : SlotOK(t)',
         (TableInv /\ StoredConfigFits /\ CreatedBeforeUpdated)'
  PROVE  WidgetInv'
BY DEF WidgetInv, SlotOK

-----------------------------------------------------------------------------
(* The steps, by what they do to their slot.                               *)

LEMMA SettledSlotOK ==
  ASSUME TypeOK, NEW s \in Slot, Settled(s), clock' = clock
  PROVE  SlotOK(s)' /\ KeepsId(s) /\ ~PendingInsert(s)'
<1>1. ~PendingInsert(s)' /\ \A op : ~Pending(s, op)'
  BY DEF Settled, PendingInsert, Pending
<1>2. 0 <= clock
  BY MaxClockAssumption DEF TypeOK, Time
<1>3. ControlOK(s)'
  BY <1>2 DEF Settled, ControlOK, NoRequest, NoStatement
<1>4. InsertOK(s)' /\ UpdateOK(s)'
  BY <1>1 DEF InsertOK, UpdateOK, Settled
<1> QED BY <1>1, <1>3, <1>4 DEF SlotOK, KeepsId

\* A request is over, and at most one row was updated or deleted.
LEMMA SettledKeepsInv ==
  ASSUME TypeOK, WidgetInv, NEW s \in Slot, Settled(s), UNCHANGED <<nextId, clock>>,
         \A i \in Id : Evolves(i)
  PROVE  WidgetInv'
<1>1. nextId \in Int /\ clock \in Int
  BY MaxClockAssumption, WidgetAPIAssumption DEF TypeOK, Time
<1>2. SlotOK(s)' /\ KeepsId(s)
  BY SettledSlotOK
<1>3. Others(s)
  BY DEF Settled
<1>4. \A t \in Slot \ {s} : SlotOK(t)'
  BY <1>1, <1>2, <1>3, OthersKeepInv
<1>5. (TableInv /\ StoredConfigFits /\ CreatedBeforeUpdated)'
  BY <1>1, TableKeepsInv
<1> QED BY <1>2, <1>4, <1>5, WidgetInvParts

LEMMA AnswerKeepsInv ==
  ASSUME TypeOK, WidgetInv, NEW s \in Slot, NEW r, Answer(s, r), UNCHANGED db
  PROVE  WidgetInv'
<1>1. Settled(s)
  BY DEF Answer, Settled, Others, TypeOK, Control
<1>2. \A i \in Id : Evolves(i)
  BY DEF Evolves, db
<1> QED BY <1>1, <1>2, SettledKeepsInv DEF db

\* Slot s moves on; the table is not touched.
LEMMA SlotStepKeepsInv ==
  ASSUME TypeOK, WidgetInv, NEW s \in Slot, Others(s), KeepsId(s), SlotOK(s)',
         UNCHANGED <<widgets, clock>>, nextId' \in Int, nextId <= nextId'
  PROVE  WidgetInv'
<1>1. clock \in Int /\ clock' \in Int /\ clock <= clock'
  BY MaxClockAssumption DEF TypeOK, Time
<1>2. \A i \in Id : Evolves(i)
  BY DEF Evolves
<1>3. \A t \in Slot \ {s} : SlotOK(t)'
  BY <1>1, <1>2, OthersKeepInv
<1>4. (TableInv /\ StoredConfigFits /\ CreatedBeforeUpdated)'
  BY <1>1, <1>2, TableKeepsInv
<1> QED BY <1>3, <1>4, WidgetInvParts

\* A request comes in and its first statement is sent.
LEMMA AcceptKeepsInv ==
  ASSUME TypeOK, WidgetInv, NEW s \in Slot, NEW q, NEW st, NEW next, Accept(s, q, st, next),
         st.id = 0, st.at = 0 \/ st.at = clock,
         \/ next = "exec" /\ q.op \in {"list", "get", "delete"}
         \/ next = "load" /\ q.op = "update"
         \/ /\ next = "exec" /\ q.op = "create"
            /\ st.type = q.type /\ st.type \in WidgetType
            /\ st.config = Normalize(st.type, q.body) /\ st.config # Invalid,
         q.user \in User,
         q.op \in {"get", "update", "delete"} => q.id \in Id,
         q.op \in {"create", "update"} => q.body \in RawConfig
  PROVE  WidgetInv'
<1>1. pc'[s] = next /\ req'[s] = q /\ stmt'[s] = st /\ Others(s)
  BY DEF Accept, TypeOK, Others
<1>2. clock \in Int /\ 0 <= clock /\ clock' = clock /\ nextId' = nextId /\ nextId \in Int
  BY MaxClockAssumption, WidgetAPIAssumption DEF Accept, db, TypeOK, Time
<1>3. ~PendingInsert(s)' /\ ~Pending(s, "update")'
  BY <1>1 DEF PendingInsert, Pending
<1>4. ControlOK(s)'
  BY <1>1, <1>2 DEF ControlOK
<1>5. InsertOK(s)'
  BY <1>1, <1>3 DEF InsertOK, Pending
<1>6. UpdateOK(s)'
  BY <1>1, <1>3 DEF UpdateOK
<1>7. SlotOK(s)' /\ KeepsId(s)
  BY <1>3, <1>4, <1>5, <1>6 DEF SlotOK, KeepsId
<1> QED BY <1>1, <1>2, <1>7, SlotStepKeepsInv DEF Accept, db

-----------------------------------------------------------------------------
(* One lemma or step for each action.                                      *)

LEMMA RequestFields ==
  ASSUME NEW u, NEW i, NEW b
  PROVE  /\ ListRequest(u).op = "list" /\ ListRequest(u).user = u
         /\ GetRequest(u, i).op = "get" /\ GetRequest(u, i).user = u /\ GetRequest(u, i).id = i
         /\ DeleteRequest(u, i).op = "delete" /\ DeleteRequest(u, i).user = u
         /\ DeleteRequest(u, i).id = i
         /\ UpdateRequest(u, i, b).op = "update" /\ UpdateRequest(u, i, b).user = u
         /\ UpdateRequest(u, i, b).id = i /\ UpdateRequest(u, i, b).body = b
         /\ NoStatement.id = 0 /\ NoStatement.at = 0
BY DEF ListRequest, GetRequest, DeleteRequest, UpdateRequest, NoRequest, NoStatement

LEMMA ClientRequestKeepsInv ==
  ASSUME TypeOK, WidgetInv, NEW s \in Slot, ClientRequest(s)
  PROVE  WidgetInv'
<1>1. ASSUME NEW code, Refuse(s, code)
      PROVE  WidgetInv'
  BY <1>1, AnswerKeepsInv DEF Refuse
<1>2. ASSUME NEW u \in User, NEW t \in RawType, NEW b \in RawConfig \cup {Malformed},
             CreateWidget(s, u, t, b)
      PROVE  WidgetInv'
  <2> DEFINE q == CreateRequest(u, t, b)
             st == [type |-> t, config |-> Normalize(t, b), at |-> clock, id |-> 0]
  <2>1. CASE Refuse(s, "bad_request") \/ Refuse(s, "validation_error")
    BY <2>1, <1>1
  <2>2. CASE b # Malformed /\ AcceptsCreate(q) /\ Accept(s, q, st, "exec")
    <3>1. q.op = "create" /\ q.user = u /\ q.type = t /\ q.body = b
      BY DEF CreateRequest, NoRequest
    <3>2. t \in WidgetType /\ b \in RawConfig /\ Normalize(t, b) # Invalid
      BY <2>2, <3>1 DEF AcceptsCreate
    <3>3. st.id = 0 /\ st.at = clock /\ st.type = t /\ st.config = Normalize(t, b)
      OBVIOUS
    <3> HIDE DEF q, st
    <3> QED BY <2>2, <3>1, <3>2, <3>3, AcceptKeepsInv
  <2> QED BY <1>2, <2>1, <2>2 DEF CreateWidget
<1>3. ASSUME NEW u \in User, NEW i \in 0 .. MaxId, NEW b \in RawConfig \cup {Malformed},
             ListWidgets(s, u) \/ GetWidget(s, u, i) \/ DeleteWidget(s, u, i)
               \/ UpdateWidget(s, u, i, b)
      PROVE  WidgetInv'
  <2>1. CASE Refuse(s, "bad_request")
    BY <2>1, <1>1
  <2>2. i # 0 => i \in Id
    BY WidgetAPIAssumption DEF Id
  <2>3. CASE Accept(s, ListRequest(u), NoStatement, "exec")
    BY <2>3, RequestFields, AcceptKeepsInv
  <2>4. CASE i # 0 /\ Accept(s, GetRequest(u, i), NoStatement, "exec")
    BY <2>2, <2>4, RequestFields, AcceptKeepsInv
  <2>5. CASE i # 0 /\ Accept(s, DeleteRequest(u, i), NoStatement, "exec")
    BY <2>2, <2>5, RequestFields, AcceptKeepsInv
  <2>6. CASE i # 0 /\ b # Malformed /\ Accept(s, UpdateRequest(u, i, b), NoStatement, "load")
    BY <2>2, <2>6, RequestFields, AcceptKeepsInv
  <2> QED
    BY <1>3, <2>1, <2>3, <2>4, <2>5, <2>6
    DEF ListWidgets, GetWidget, DeleteWidget, UpdateWidget
<1>4. 0 \in 0 .. MaxId /\ Malformed \in RawConfig \cup {Malformed}
  BY WidgetAPIAssumption
<1> QED BY <1>2, <1>3, <1>4 DEF ClientRequest

\* What GetByID reads stays true of the id: it is below nextId, and no INSERT
\* that is still going on has drawn it, since its row is there.
LEMMA LoadWidgetKeepsInv ==
  ASSUME TypeOK, WidgetInv, NEW s \in Slot, LoadWidget(s)
  PROVE  WidgetInv'
<1>1. CASE Answer(s, Error("not_found"))
  BY <1>1, AnswerKeepsInv DEF LoadWidget
<1>2. CASE /\ Matches(s)
           /\ stmt' = [stmt EXCEPT ![s].type = widgets[req[s].id].type]
           /\ pc' = [pc EXCEPT ![s] = "loaded"]
           /\ UNCHANGED <<req, res>>
  <2>1. ControlOK(s) /\ pc[s] = "load"
    BY DEF WidgetInv, LoadWidget
  <2>2. req[s].id \in Id /\ req[s].op = "update"
    BY <2>1 DEF ControlOK
  <2>3. widgets[req[s].id] \in Row
    BY <1>2, <2>2, MatchType
  <2>4. pc'[s] = "loaded" /\ req' = req /\ Others(s)
    BY <1>2 DEF TypeOK, Others
  <2>5. stmt'[s].type = widgets[req[s].id].type /\ stmt'[s].at = stmt[s].at
    BY <1>2 DEF TypeOK, Statement
  <2>6. UNCHANGED db
    BY DEF LoadWidget
  <2>7. ~PendingInsert(s)' /\ \A op : ~Pending(s, op)'
    BY <2>4 DEF PendingInsert, Pending
  <2>8. ControlOK(s)'
    BY <2>1, <2>4, <2>5, <2>6 DEF ControlOK, db
  <2>9. KnownWidget(s)'
    <3>1. req[s].id < nextId
      BY <1>2, <2>2 DEF WidgetInv, TableInv, Matches
    <3>2. ASSUME NEW t \in Slot, PendingInsert(t)'
          PROVE  stmt'[t].id # req[s].id
      <4>1. t # s
        BY <3>2, <2>7
      <4>2. PendingInsert(t) /\ stmt'[t] = stmt[t]
        BY <3>2, <4>1, <2>4 DEF PendingInsert, Pending, Others
      <4> QED BY <1>2, <4>2 DEF WidgetInv, InsertOK, Matches
    <3> QED BY <1>2, <2>4, <2>5, <2>6, <3>1, <3>2 DEF KnownWidget, Matches, db
  <2>10. InsertOK(s)' /\ UpdateOK(s)'
    BY <2>3, <2>5, <2>6, <2>7, <2>9 DEF InsertOK, UpdateOK, Row
  <2>11. SlotOK(s)' /\ KeepsId(s)
    BY <2>7, <2>8, <2>10 DEF SlotOK, KeepsId
  <2>12. nextId' \in Int /\ nextId <= nextId'
    BY <2>6, WidgetAPIAssumption DEF TypeOK, db
  <2> QED BY <2>4, <2>6, <2>11, <2>12, SlotStepKeepsInv DEF db
<1> QED BY <1>1, <1>2 DEF LoadWidget

\* The row was there before now(), so it is not younger than the UPDATE.
LEMMA SendUpdateKeepsInv ==
  ASSUME TypeOK, WidgetInv, NEW s \in Slot, SendUpdate(s)
  PROVE  WidgetInv'
<1> DEFINE type == stmt[s].type
           raw  == req[s].body
           st   == [type |-> type, config |-> Normalize(type, raw), at |-> clock, id |-> 0]
<1>1. CASE Answer(s, Error("validation_error"))
  BY <1>1, AnswerKeepsInv DEF SendUpdate
<1>2. CASE /\ Normalize(type, raw) # Invalid
           /\ stmt' = [stmt EXCEPT ![s] = st]
           /\ pc' = [pc EXCEPT ![s] = "exec"]
           /\ UNCHANGED <<req, res>>
  <2>1. ControlOK(s) /\ UpdateOK(s) /\ pc[s] = "loaded"
    BY DEF WidgetInv, SendUpdate
  <2>2. KnownWidget(s) /\ type \in WidgetType /\ req[s].op = "update" /\ req[s].id \in Id
    BY <2>1 DEF UpdateOK, ControlOK
  <2>3. pc'[s] = "exec" /\ req' = req /\ Others(s)
    BY <1>2 DEF TypeOK, Others
  <2>4. /\ stmt'[s].type = type /\ stmt'[s].config = Normalize(type, raw)
        /\ stmt'[s].at = clock /\ stmt'[s].id = 0
    BY <1>2 DEF TypeOK
  <2>5. UNCHANGED db
    BY DEF SendUpdate
  <2>6. clock \in Int /\ nextId' \in Int /\ nextId <= nextId'
    BY <2>5, WidgetAPIAssumption, MaxClockAssumption DEF TypeOK, Time, db
  <2>7. ~PendingInsert(s)' /\ ~Pending(s, "create")'
    BY <2>2, <2>3 DEF PendingInsert, Pending
  <2>8. ControlOK(s)'
    BY <2>1, <2>2, <2>3, <2>4, <2>5, <2>6 DEF ControlOK, db
  <2>9. KnownWidget(s)'
    <3>1. ASSUME NEW t \in Slot, PendingInsert(t)'
          PROVE  stmt'[t].id # req[s].id
      BY <3>1, <2>2, <2>3, <2>7 DEF PendingInsert, Pending, Others, KnownWidget
    <3> QED BY <2>2, <2>3, <2>4, <2>5, <3>1 DEF KnownWidget, db
  <2>10. widgets[req[s].id] # NoRow => widgets[req[s].id].created <= clock
    BY <2>2 DEF WidgetInv, TableInv
  <2>11. InsertOK(s)' /\ UpdateOK(s)'
    BY <1>2, <2>2, <2>3, <2>4, <2>5, <2>7, <2>9, <2>10 DEF InsertOK, UpdateOK, db
  <2>12. SlotOK(s)' /\ KeepsId(s)
    BY <2>7, <2>8, <2>11 DEF SlotOK, KeepsId
  <2> QED BY <2>3, <2>5, <2>6, <2>12, SlotStepKeepsInv DEF db
<1> QED BY <1>1, <1>2 DEF SendUpdate

LEMMA DrawIdKeepsInv ==
  ASSUME TypeOK, WidgetInv, NEW s \in Slot, DrawId(s)
  PROVE  WidgetInv'
<1>1. ControlOK(s) /\ InsertOK(s) /\ Pending(s, "create") /\ req[s].op = "create"
  BY DEF WidgetInv, DrawId, Pending
<1>2. /\ nextId \in Id /\ nextId \in Int /\ nextId' = nextId + 1
      /\ nextId' \in Int /\ nextId <= nextId'
  BY WidgetAPIAssumption DEF DrawId, SequenceLeft, Nextval, TypeOK, Id
<1>3. pc' = pc /\ req' = req /\ Others(s) /\ UNCHANGED <<widgets, clock>>
  BY DEF DrawId, TypeOK, Others
<1>4. /\ stmt'[s].id = nextId /\ stmt'[s].type = stmt[s].type
      /\ stmt'[s].config = stmt[s].config /\ stmt'[s].at = stmt[s].at
  BY DEF DrawId, TypeOK, Statement
<1>5. KeepsId(s)
  BY <1>4 DEF KeepsId
<1>6. ControlOK(s)'
  BY <1>1, <1>3, <1>4 DEF ControlOK
<1>7. widgets[nextId] = NoRow
  BY <1>2 DEF WidgetInv, TableInv
<1>8. ASSUME NEW t \in Slot \ {s}, PendingInsert(t)'
      PROVE  stmt'[t].id # nextId
  <2>1. PendingInsert(t) /\ stmt'[t] = stmt[t]
    BY <1>8, <1>3 DEF PendingInsert, Pending, Others
  <2>2. stmt[t].id < nextId
    BY <2>1 DEF WidgetInv, InsertOK
  <2>3. stmt[t].id \in Int
    BY WidgetAPIAssumption DEF TypeOK, Statement
  <2> QED BY <2>1, <2>2, <2>3, <1>2
<1>9. stmt'[s].config \in Jsonb
  BY <1>4 DEF DrawId
<1>10. InsertOK(s)'
  BY <1>1, <1>2, <1>3, <1>4, <1>7, <1>8, <1>9 DEF InsertOK, Pending
<1>11. UpdateOK(s)'
  BY <1>1, <1>3 DEF UpdateOK, Pending
<1> QED BY <1>2, <1>3, <1>5, <1>6, <1>10, <1>11, SlotStepKeepsInv DEF SlotOK

\* The new row takes an id that no other INSERT and no known widget has.
LEMMA InsertRowKeepsInv ==
  ASSUME TypeOK, WidgetInv, NEW s \in Slot, InsertRow(s)
  PROVE  WidgetInv'
<1> DEFINE row == InsertedRow(s)
           id  == stmt[s].id
<1>1. row \in Row /\ id \in Id
  BY InsertedRowType DEF InsertRow
<1>2. Settled(s)
  BY DEF InsertRow, Answer, Settled, Others, TypeOK, Control
<1>3. SlotOK(s)' /\ KeepsId(s) /\ ~PendingInsert(s)'
  BY <1>2, SettledSlotOK DEF InsertRow
<1>4. nextId \in Int /\ clock \in Int /\ nextId' = nextId /\ clock' = clock
  BY MaxClockAssumption, WidgetAPIAssumption DEF TypeOK, Time, InsertRow
<1>5. widgets' = [widgets EXCEPT ![id] = row]
  BY DEF InsertRow
<1>6. ASSUME NEW i \in Id
      PROVE  IF i = id THEN Filled(s, i) /\ widgets'[i] = row ELSE widgets'[i] = widgets[i]
  BY <1>1, <1>3, <1>5 DEF InsertRow, TypeOK, Filled
<1>7. \A t \in Slot \ {s} : SlotOK(t)'
  <2>1. \A i \in Id : Evolves(i) \/ Filled(s, i)
    BY <1>6 DEF Evolves
  <2>2. Others(s)
    BY <1>2 DEF Settled
  <2> QED BY <1>3, <1>4, <2>1, <2>2, OthersKeepInv
<1>8. row # NoRow /\ id < nextId /\ RowFits(row) /\ row.created <= clock
  <2>1. InsertOK(s) /\ ControlOK(s) /\ PendingInsert(s) /\ Pending(s, "create")
    BY DEF WidgetInv, InsertRow, PendingInsert
  <2>2. row # NoRow
    BY <1>1, NoRowAssumption
  <2>3. req[s].body \in RawConfig
    BY <2>1 DEF ControlOK, Pending
  <2>4. stmt[s].config \in NormalForms(stmt[s].type) \cap Jsonb
    BY <2>1, <2>3, NormalizeType DEF InsertOK
  <2>5. stmt[s].at <= clock /\ stmt[s].at \in Int
    BY <2>1, MaxClockAssumption DEF ControlOK, TypeOK, Statement, Time
  <2> QED BY <2>1, <2>2, <2>4, <2>5 DEF RowFits, InsertedRow, InsertOK
<1> HIDE DEF row
<1>9. ASSUME NEW i \in Id, widgets'[i] # NoRow
      PROVE  i < nextId' /\ widgets'[i].created <= clock' /\ RowFits(widgets'[i])
  <2>1. CASE i = id
    BY <2>1, <1>4, <1>6, <1>8
  <2>2. CASE i # id
    BY <2>2, <1>4, <1>6, <1>9
    DEF WidgetInv, TableInv, StoredConfigFits, CreatedBeforeUpdated, RowFits
  <2> QED BY <2>1, <2>2
<1>10. (TableInv /\ StoredConfigFits /\ CreatedBeforeUpdated)'
  BY <1>9 DEF TableInv, StoredConfigFits, CreatedBeforeUpdated, RowFits
<1> QED BY <1>3, <1>7, <1>10, WidgetInvParts

\* The row is still the one that was read, so the config fits its type.
LEMMA UpdateRowKeepsInv ==
  ASSUME TypeOK, WidgetInv, NEW s \in Slot, UpdateRow(s)
  PROVE  WidgetInv'
<1> DEFINE old == widgets[req[s].id]
           row == [old EXCEPT !.config = stmt[s].config, !.updated = stmt[s].at]
<1>1. CASE Answer(s, Error("not_found")) /\ UNCHANGED widgets
  BY <1>1, AnswerKeepsInv DEF UpdateRow, db
<1>2. CASE /\ Matches(s)
           /\ widgets' = [widgets EXCEPT ![req[s].id] = row]
           /\ Answer(s, Success("ok", [i \in {req[s].id} |-> Show(row)]))
  <2>1. ControlOK(s) /\ UpdateOK(s) /\ Pending(s, "update")
    BY DEF WidgetInv, UpdateRow
  <2>2. req[s].id \in Id /\ req[s].body \in RawConfig
    BY <2>1 DEF ControlOK, Pending
  <2>3. old \in Row /\ old # NoRow
    BY <1>2, <2>2, MatchType DEF Matches
  <2>4. /\ row.owner = old.owner /\ row.type = old.type /\ row.created = old.created
        /\ row.config = stmt[s].config /\ row.updated = stmt[s].at
    BY <2>3 DEF Row
  <2>5. row \in Row
    <3>1. stmt[s].config \in StoredConfig /\ stmt[s].at \in Time
      BY WidgetAPIAssumption DEF UpdateRow, TypeOK, Statement
    <3> QED BY <2>3, <3>1 DEF Row
  <2>6. stmt[s].config \in NormalForms(old.type) \cap Jsonb /\ old.created <= stmt[s].at
    BY <2>1, <2>2, <2>3, NormalizeType DEF UpdateOK, KnownWidget, UpdateRow
  <2>7. row # NoRow
    BY <2>5, NoRowAssumption
  <2>8. RowFits(row)
    BY <2>4, <2>6 DEF RowFits
  <2> HIDE DEF row
  <2>9. \A i \in Id : Evolves(i)
    BY <1>2, <2>2, <2>3, <2>4, <2>7, <2>8 DEF Evolves, TypeOK
  <2>10. Settled(s)
    BY <1>2 DEF Answer, Settled, Others, TypeOK, Control
  <2> QED BY <2>9, <2>10, SettledKeepsInv DEF UpdateRow
<1> QED BY <1>1, <1>2 DEF UpdateRow

LEMMA ProgressKeepsInv ==
  ASSUME TypeOK, WidgetInv, NEW s \in Slot, Progress(s)
  PROVE  WidgetInv'
<1>1. ASSUME NEW r, Answer(s, r), UNCHANGED db
      PROVE  WidgetInv'
  BY <1>1, AnswerKeepsInv
<1>2. CASE SelectList(s)
  BY <1>2, <1>1 DEF SelectList
<1>3. CASE SelectOne(s)
  BY <1>3, <1>1 DEF SelectOne
<1>4. CASE DeleteRow(s)
  <2>1. CASE Answer(s, Error("not_found")) /\ UNCHANGED widgets
    BY <1>4, <2>1, <1>1 DEF DeleteRow, db
  <2>2. CASE /\ widgets' = [widgets EXCEPT ![req[s].id] = NoRow]
             /\ Answer(s, Success("no_content", NoBody))
    <3>1. \A i \in Id : Evolves(i)
      BY <2>2 DEF Evolves, TypeOK
    <3>2. Settled(s)
      BY <2>2 DEF Answer, Settled, Others, TypeOK, Control
    <3> QED BY <1>4, <3>1, <3>2, SettledKeepsInv DEF DeleteRow
  <2> QED BY <1>4, <2>1, <2>2 DEF DeleteRow
<1>5. CASE RefuseValues(s)
  BY <1>5, <1>1 DEF RefuseValues
<1>6. CASE Respond(s)
  <2>1. pc[s] = "answered" /\ req[s] = NoRequest
    BY <1>6 DEF Respond, WidgetInv, ControlOK
  <2>2. pc'[s] = "idle" /\ req' = req /\ stmt' = stmt /\ Others(s) /\ UNCHANGED db
    BY <1>6 DEF Respond, TypeOK, Others
  <2>3. SlotOK(s)' /\ KeepsId(s)
    BY <2>1, <2>2
    DEF WidgetInv, SlotOK, ControlOK, InsertOK, UpdateOK, KeepsId, PendingInsert, Pending, db
  <2>4. nextId' \in Int /\ nextId <= nextId'
    BY <2>2, WidgetAPIAssumption DEF TypeOK, db
  <2> QED BY <2>2, <2>3, <2>4, SlotStepKeepsInv DEF db
<1> QED
  BY <1>2, <1>3, <1>4, <1>5, <1>6, LoadWidgetKeepsInv, SendUpdateKeepsInv, DrawIdKeepsInv,
     InsertRowKeepsInv, UpdateRowKeepsInv DEF Progress

LEMMA WidgetInvPreserved ==
  TypeOK /\ WidgetInv /\ [Next]_vars => WidgetInv'
<1> SUFFICES ASSUME TypeOK, WidgetInv, [Next]_vars
             PROVE  WidgetInv'
  OBVIOUS
<1>1. ASSUME NEW s \in Slot, Rollback(s)
      PROVE  WidgetInv'
  BY <1>1, AnswerKeepsInv DEF Rollback
<1>2. ASSUME NEW s \in Slot, Abandon(s)
      PROVE  WidgetInv'
  <2>1. UNCHANGED db /\ nextId' \in Int /\ nextId <= nextId'
    BY <1>2, WidgetAPIAssumption DEF Abandon, TypeOK, db
  <2>2. CASE pc[s] = "exec" /\ req[s].op \in {"create", "update", "delete"}
    <3>1. pc'[s] = "orphan" /\ req' = req /\ stmt' = stmt /\ Others(s)
      BY <1>2, <2>2 DEF Abandon, TypeOK, Others
    <3>2. \A op : Pending(s, op)' <=> Pending(s, op)
      BY <2>2, <3>1 DEF Pending
    <3>3. \A t \in Slot : PendingInsert(t)' <=> PendingInsert(t)
      BY <3>1, <3>2 DEF PendingInsert, Pending, Others
    <3>4. KnownWidget(s)' <=> KnownWidget(s)
      BY <2>1, <3>1, <3>3 DEF KnownWidget, db
    <3>5. SlotOK(s)' /\ KeepsId(s)
      BY <2>1, <2>2, <3>1, <3>2, <3>3, <3>4
      DEF WidgetInv, SlotOK, ControlOK, InsertOK, UpdateOK, KeepsId, db
    <3> QED BY <2>1, <3>1, <3>5, SlotStepKeepsInv DEF db
  <2>3. CASE ~(pc[s] = "exec" /\ req[s].op \in {"create", "update", "delete"})
    <3>1. Settled(s)
      BY <1>2, <2>3 DEF Abandon, TypeOK, Settled, Others
    <3>2. \A i \in Id : Evolves(i)
      BY <2>1 DEF Evolves, db
    <3> QED BY <2>1, <3>1, <3>2, SettledKeepsInv DEF db
  <2> QED BY <2>2, <2>3
<1>3. CASE Tick
  <2>1. clock \in Int /\ clock' = clock + 1
    BY <1>3, MaxClockAssumption DEF Tick, TypeOK, Time
  <2>2. UNCHANGED <<widgets, nextId, pc, req, stmt>>
    BY <1>3 DEF Tick
  <2>3. \A s \in Slot : stmt[s].at \in Int
    BY MaxClockAssumption DEF TypeOK, Statement, Time
  <2>4. \A i \in Id : widgets[i] # NoRow => widgets[i].created \in Int
    BY MaxClockAssumption DEF TypeOK, Row, Time
  <2>5. \A s \in Slot : ControlOK(s)'
    BY <2>1, <2>2, <2>3 DEF WidgetInv, ControlOK
  <2>6. \A s \in Slot : InsertOK(s)' /\ UpdateOK(s)'
    BY <2>2 DEF WidgetInv, InsertOK, UpdateOK, KnownWidget, PendingInsert, Pending
  <2>7. TableInv' /\ StoredConfigFits' /\ CreatedBeforeUpdated'
    BY <2>1, <2>2, <2>4 DEF WidgetInv, TableInv, StoredConfigFits, CreatedBeforeUpdated
  <2> QED BY <2>5, <2>6, <2>7 DEF WidgetInv
<1>4. CASE UNCHANGED vars
  BY <1>4
  DEF vars, WidgetInv, ControlOK, InsertOK, UpdateOK, KnownWidget, PendingInsert, Pending,
      TableInv, StoredConfigFits, CreatedBeforeUpdated
<1> QED
  BY <1>1, <1>2, <1>3, <1>4, ClientRequestKeepsInv, ProgressKeepsInv DEF Next

LEMMA InitInv == Init => TypeOK /\ WidgetInv
<1> SUFFICES ASSUME Init
             PROVE  TypeOK /\ WidgetInv
  OBVIOUS
<1>1. TypeOK
  BY EmptyTypes, WidgetAPIAssumption, MaxClockAssumption DEF Init, TypeOK, Control, Time
<1>2. ASSUME NEW s \in Slot
      PROVE  SlotOK(s)
  BY DEF Init, SlotOK, ControlOK, InsertOK, UpdateOK, PendingInsert, Pending,
         NoRequest, NoStatement
<1>3. TableInv /\ StoredConfigFits /\ CreatedBeforeUpdated
  BY DEF Init, TableInv, StoredConfigFits, CreatedBeforeUpdated
<1> QED BY <1>1, <1>2, <1>3 DEF WidgetInv, SlotOK

-----------------------------------------------------------------------------
(* The theorems.                                                           *)

\* WidgetInv holds however the handlers, the database and the clients of any
\* number of requests interleave, fail and go away.
THEOREM WidgetInvariant == Spec => [](TypeOK /\ WidgetInv)
<1>1. Init => TypeOK /\ WidgetInv
  BY InitInv
<1>2. TypeOK /\ WidgetInv /\ [Next]_vars => (TypeOK /\ WidgetInv)'
  BY TypePreserved, WidgetInvPreserved
<1> QED BY <1>1, <1>2, PTL DEF Spec

\* Every value the specification computes has the type the code gives it.
THEOREM TypeCorrect == Spec => []TypeOK
BY WidgetInvariant, PTL

\* Whatever UpdateConfig read before, what the table holds fits its type: no
\* overlap of PATCH, DELETE and POST can store a config under the wrong type.
THEOREM StoredConfigsFit == Spec => []StoredConfigFits
<1>1. WidgetInv => StoredConfigFits
  BY DEF WidgetInv
<1> QED BY <1>1, WidgetInvariant, PTL

\* updated_at is never before created_at, although statements are stamped when
\* they are sent and not when they take effect.
THEOREM StampsInOrder == Spec => []CreatedBeforeUpdated
<1>1. WidgetInv => CreatedBeforeUpdated
  BY DEF WidgetInv
<1> QED BY <1>1, WidgetInvariant, PTL
=============================================================================

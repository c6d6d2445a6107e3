---------------------------- MODULE WidgetService ----------------------------
(***************************************************************************)
(* The widget endpoints as the code runs them: the handlers of             *)
(* internal/api/handler/widget.go, the service below them and the          *)
(* statements that internal/repository/postgres/widget_repo.go sends.      *)
(*                                                                         *)
(* Every request runs in a goroutine of its own (a slot).  A statement is  *)
(* sent, executed by the database at some later instant, and answered;     *)
(* now() is the time when it was sent.  PATCH is two statements without a  *)
(* transaction around them: it reads the widget, validates the new config  *)
(* against the type it read, and then updates the row.  A statement may    *)
(* fail, and a client or the server process may go away at any point: a    *)
(* write that was already sent may then take effect, or not.               *)
(***************************************************************************)
EXTENDS WidgetAPI

CONSTANT MaxClock     \* bound on the clock of the database, in ticks

ASSUME MaxClockAssumption == MaxClock \in Nat

Time == 0 .. MaxClock

\* A row of the table widgets.
Row == [owner   : User,
        type    : WidgetType,
        config  : StoredConfig,
        created : Time,
        updated : Time]

ASSUME NoRowAssumption == NoRow \notin Row \cup PublicRow

\* The statement a slot has sent, and what its goroutine keeps in between:
\* the type that UpdateConfig read, the config it writes, now(), nextval().
Statement ==
  [type   : WidgetType \cup {None},
   config : StoredConfig \cup {None},
   at     : Time,
   id     : 0 .. MaxId]

NoStatement == [type |-> None, config |-> None, at |-> 0, id |-> 0]

VARIABLES
  widgets,   \* the table: id -> row or NoRow
  nextId,    \* the next value of its id sequence
  clock,     \* the clock of the database
  pc,        \* slot -> where its goroutine is
  req,       \* slot -> the request it serves
  stmt,      \* slot -> the statement it has sent
  res        \* slot -> the response it is about to send

db   == <<widgets, nextId, clock>>
vars == <<widgets, nextId, clock, pc, req, stmt, res>>

Control == {"idle", "load", "loaded", "exec", "orphan", "answered"}

\* The table holds rows of the widget types under the ids that the sequence has
\* given, and every goroutine is at a known point of its request.
TypeOK ==
  /\ widgets \in [Id -> Row \cup {NoRow}]
  /\ nextId \in 1 .. MaxId + 1
  /\ clock \in Time
  /\ pc \in [Slot -> Control]
  /\ req \in [Slot -> Request]
  /\ stmt \in [Slot -> Statement]
  /\ res \in [Slot -> Response]

Init ==
  /\ widgets = [i \in Id |-> NoRow]
  /\ nextId = 1
  /\ clock = 0
  /\ pc = [s \in Slot |-> "idle"]
  /\ req = [s \in Slot |-> NoRequest]
  /\ stmt = [s \in Slot |-> NoStatement]
  /\ res = [s \in Slot |-> NoResponse]

-----------------------------------------------------------------------------
(* Helpers.                                                                *)

\* The request is over: r goes to the client, unless nobody waits for it.
Answer(s, r) ==
  /\ pc' = [pc EXCEPT ![s] = IF @ = "orphan" THEN "idle" ELSE "answered"]
  /\ res' = [res EXCEPT ![s] = IF pc[s] = "orphan" THEN NoResponse ELSE r]
  /\ req' = [req EXCEPT ![s] = NoRequest]
  /\ stmt' = [stmt EXCEPT ![s] = NoStatement]

\* A request comes in and is refused before any statement is sent.
Refuse(s, code) ==
  /\ pc[s] = "idle"
  /\ Answer(s, Error(code))
  /\ UNCHANGED db

\* A request comes in and its first statement is sent.
Accept(s, q, st, next) ==
  /\ pc[s] = "idle"
  /\ req' = [req EXCEPT ![s] = q]
  /\ stmt' = [stmt EXCEPT ![s] = st]
  /\ pc' = [pc EXCEPT ![s] = next]
  /\ UNCHANGED <<db, res>>

\* Slots whose write the database may still execute.
Pending(s, op) == pc[s] \in {"exec", "orphan"} /\ req[s].op = op
PendingInsert(s) == Pending(s, "create") /\ stmt[s].id # 0

Show(row) == [owner |-> row.owner, type |-> row.type, config |-> row.config]

-----------------------------------------------------------------------------
(* Plausible bugs, for the mutation runs.                                  *)

SequenceEndOffByOne == nextId <= MaxId + 1
NextvalRepeats(n)   == IF n = MaxId THEN n ELSE n + 1
MatchesAnyOwner(s)  == widgets[req[s].id] # NoRow
RowStampedAtCommit(s) ==
  [owner   |-> req[s].user,
   type    |-> stmt[s].type,
   config  |-> stmt[s].config,
   created |-> clock,
   updated |-> stmt[s].at]

-----------------------------------------------------------------------------
(* Pieces of the statements.                                               *)

\* nextval() of the sequence still has a value to give.
SequenceLeft == nextId <= MaxId
Nextval(n)   == n + 1

\* WHERE id = $1 AND user_id = $2
Matches(s) ==
  widgets[req[s].id] # NoRow /\ widgets[req[s].id].owner = req[s].user

\* The row that INSERT adds: both time stamps default to now().
InsertedRow(s) ==
  [owner   |-> req[s].user,
   type    |-> stmt[s].type,
   config  |-> stmt[s].config,
   created |-> stmt[s].at,
   updated |-> stmt[s].at]

-----------------------------------------------------------------------------
(* The handlers, up to the first statement.                                *)

CreateWidget(s, u, t, b) ==
  LET q == CreateRequest(u, t, b)
  IN  \/ b = Malformed /\ Refuse(s, "bad_request")
      \/ b # Malformed /\ ~AcceptsCreate(q) /\ Refuse(s, "validation_error")
      \/ /\ b # Malformed /\ AcceptsCreate(q)
         /\ Accept(s, q, [type |-> t, config |-> Normalize(t, b), at |-> clock, id |-> 0],
                   "exec")

ListWidgets(s, u) == Accept(s, ListRequest(u), NoStatement, "exec")

GetWidget(s, u, i) ==
  \/ i = 0 /\ Refuse(s, "bad_request")
  \/ i # 0 /\ Accept(s, GetRequest(u, i), NoStatement, "exec")

UpdateWidget(s, u, i, b) ==
  \/ (i = 0 \/ b = Malformed) /\ Refuse(s, "bad_request")
  \/ /\ i # 0 /\ b # Malformed
     /\ Accept(s, UpdateRequest(u, i, b), NoStatement, "load")

DeleteWidget(s, u, i) ==
  \/ i = 0 /\ Refuse(s, "bad_request")
  \/ i # 0 /\ Accept(s, DeleteRequest(u, i), NoStatement, "exec")

\* UpdateConfig, first half: GetByID.
LoadWidget(s) ==
  /\ pc[s] = "load"
  /\ \/ /\ Matches(s)
        /\ stmt' = [stmt EXCEPT ![s].type = widgets[req[s].id].type]
        /\ pc' = [pc EXCEPT ![s] = "loaded"]
        /\ UNCHANGED <<req, res>>
     \/ ~Matches(s) /\ Answer(s, Error("not_found"))
  /\ UNCHANGED db

\* UpdateConfig, second half: validate, and send the UPDATE.
SendUpdate(s) ==
  /\ pc[s] = "loaded"
  /\ LET type == stmt[s].type
         raw  == req[s].body
     IN  \/ /\ Normalize(type, raw) = Invalid
            /\ Answer(s, Error("validation_error"))
         \/ /\ Normalize(type, raw) # Invalid
            /\ stmt' = [stmt EXCEPT ![s] = [type |-> type, config |-> Normalize(type, raw),
                                            at |-> clock, id |-> 0]]
            /\ pc' = [pc EXCEPT ![s] = "exec"]
            /\ UNCHANGED <<req, res>>
  /\ UNCHANGED db

-----------------------------------------------------------------------------
(* The database executes a statement and, but for INSERT's first half, the *)
(* handler turns its result into a response.                               *)

DrawId(s) ==
  /\ Pending(s, "create") /\ stmt[s].id = 0
  /\ stmt[s].config \in Jsonb /\ SequenceLeft
  /\ stmt' = [stmt EXCEPT ![s].id = nextId]
  /\ nextId' = Nextval(nextId)
  /\ UNCHANGED <<widgets, clock, pc, req, res>>

InsertRow(s) ==
  /\ PendingInsert(s)
  /\ widgets' = [widgets EXCEPT ![stmt[s].id] = InsertedRow(s)]
  /\ Answer(s, Success("created", [i \in {stmt[s].id} |-> Show(InsertedRow(s))]))
  /\ UNCHANGED <<nextId, clock>>

SelectList(s) ==
  /\ Pending(s, "list")
  /\ LET ids == {i \in Id : widgets[i] # NoRow /\ widgets[i].owner = req[s].user}
     IN  Answer(s, Success("ok", [i \in ids |-> Show(widgets[i])]))
  /\ UNCHANGED db

SelectOne(s) ==
  /\ Pending(s, "get")
  /\ \/ /\ Matches(s)
        /\ Answer(s, Success("ok", [i \in {req[s].id} |-> Show(widgets[i])]))
     \/ ~Matches(s) /\ Answer(s, Error("not_found"))
  /\ UNCHANGED db

UpdateRow(s) ==
  /\ Pending(s, "update") /\ stmt[s].config \in Jsonb
  /\ \/ /\ Matches(s)
        /\ LET row == [widgets[req[s].id] EXCEPT !.config  = stmt[s].config,
                                                !.updated = stmt[s].at]
           IN  /\ widgets' = [widgets EXCEPT ![req[s].id] = row]
               /\ Answer(s, Success("ok", [i \in {req[s].id} |-> Show(row)]))
     \/ ~Matches(s) /\ Answer(s, Error("not_found")) /\ UNCHANGED widgets
  /\ UNCHANGED <<nextId, clock>>

DeleteRow(s) ==
  /\ Pending(s, "delete")
  /\ \/ /\ Matches(s)
        /\ widgets' = [widgets EXCEPT ![req[s].id] = NoRow]
        /\ Answer(s, Success("no_content", NoBody))
     \/ ~Matches(s) /\ Answer(s, Error("not_found")) /\ UNCHANGED widgets
  /\ UNCHANGED <<nextId, clock>>

\* The database refuses the values: U+0000 in JSONB, or no id is left.
RefuseValues(s) ==
  /\ \/ (Pending(s, "create") \/ Pending(s, "update")) /\ stmt[s].config \notin Jsonb
     \/ Pending(s, "create") /\ stmt[s].id = 0 /\ ~SequenceLeft
  /\ Answer(s, Error("internal_error"))
  /\ UNCHANGED db

\* Any other failure of a statement: it is rolled back, and a drawn id is lost.
Rollback(s) ==
  /\ pc[s] \in {"load", "exec", "orphan"}
  /\ Answer(s, Error("internal_error"))
  /\ UNCHANGED db

Respond(s) ==
  /\ pc[s] = "answered"
  /\ pc' = [pc EXCEPT ![s] = "idle"]
  /\ res' = [res EXCEPT ![s] = NoResponse]
  /\ UNCHANGED <<db, req, stmt>>

\* The client disconnects, which cancels the request's context, or the server
\* process dies.  The database may already have the statement.
Abandon(s) ==
  /\ pc[s] \in {"load", "loaded", "exec", "answered"}
  /\ IF pc[s] = "exec" /\ req[s].op \in {"create", "update", "delete"}
       THEN /\ pc' = [pc EXCEPT ![s] = "orphan"]
            /\ UNCHANGED <<req, stmt, res>>
       ELSE /\ pc' = [pc EXCEPT ![s] = "idle"]
            /\ req' = [req EXCEPT ![s] = NoRequest]
            /\ stmt' = [stmt EXCEPT ![s] = NoStatement]
            /\ res' = [res EXCEPT ![s] = NoResponse]
  /\ UNCHANGED db

Tick ==
  /\ clock < MaxClock
  /\ clock' = clock + 1
  /\ UNCHANGED <<widgets, nextId, pc, req, stmt, res>>

-----------------------------------------------------------------------------
ClientRequest(s) ==
  \E u \in User :
    \/ \E t \in RawType, b \in RawConfig \cup {Malformed} : CreateWidget(s, u, t, b)
    \/ ListWidgets(s, u)
    \/ \E i \in 0 .. MaxId :
         \/ GetWidget(s, u, i) \/ DeleteWidget(s, u, i)
         \/ \E b \in RawConfig \cup {Malformed} : UpdateWidget(s, u, i, b)

\* What the server and the database do on their own.
Progress(s) ==
  \/ LoadWidget(s) \/ SendUpdate(s)
  \/ DrawId(s) \/ InsertRow(s) \/ SelectList(s) \/ SelectOne(s)
  \/ UpdateRow(s) \/ DeleteRow(s) \/ RefuseValues(s)
  \/ Respond(s)

Next ==
  \/ \E s \in Slot : ClientRequest(s) \/ Progress(s) \/ Rollback(s) \/ Abandon(s)
  \/ Tick

Spec == Init /\ [][Next]_vars

-----------------------------------------------------------------------------
(* Safety.                                                                 *)

\* Whatever updates overlap, a stored widget holds a config that
\* NormalizeConfig produces for the widget's own type and that fits the JSONB
\* column: the providers' clients parse it without validating it again.
\* UpdateConfig validates against a type it read in an earlier statement.
StoredConfigFits ==
  \A i \in Id : widgets[i] # NoRow =>
    widgets[i].config \in NormalForms(widgets[i].type) \cap Jsonb

\* No response shows an updated_at before created_at, although an UPDATE
\* writes the time when it was sent and not the time when it took effect.
CreatedBeforeUpdated ==
  \A i \in Id : widgets[i] # NoRow => widgets[i].created <= widgets[i].updated

-----------------------------------------------------------------------------
(* The inductive invariant behind them.                                    *)

\* Which requests can be at which control point.
ControlOK(s) ==
  /\ pc[s] \in {"idle", "answered"} => req[s] = NoRequest
  /\ pc[s] \in {"load", "loaded"} => req[s].op = "update"
  /\ pc[s] = "orphan" => req[s].op \in {"create", "update", "delete"}
  /\ req[s].op # "none" => req[s].user \in User
  /\ req[s].op \in {"get", "update", "delete"} => req[s].id \in Id
  /\ req[s].op \in {"create", "update"} => req[s].body \in RawConfig
  /\ stmt[s].at <= clock

\* An INSERT carries a normalized config, and the id it drew is its own.
InsertOK(s) ==
  /\ Pending(s, "create") =>
       /\ stmt[s].type = req[s].type
       /\ stmt[s].type \in WidgetType
       /\ stmt[s].config = Normalize(stmt[s].type, req[s].body)
       /\ stmt[s].config # Invalid
  /\ PendingInsert(s) =>
       /\ stmt[s].config \in Jsonb
       /\ stmt[s].id < nextId
       /\ widgets[stmt[s].id] = NoRow
       /\ \A t \in Slot \ {s} : PendingInsert(t) => stmt[t].id # stmt[s].id

\* The widget a PATCH has read is still the one it will update, or is gone
\* for good: no INSERT will fill its id.
KnownWidget(s) ==
  /\ req[s].id < nextId
  /\ \A t \in Slot : PendingInsert(t) => stmt[t].id # req[s].id
  /\ widgets[req[s].id] # NoRow =>
       /\ widgets[req[s].id].owner = req[s].user
       /\ widgets[req[s].id].type = stmt[s].type

UpdateOK(s) ==
  /\ pc[s] = "loaded" \/ Pending(s, "update") =>
       KnownWidget(s) /\ stmt[s].type \in WidgetType
  /\ Pending(s, "update") =>
       /\ stmt[s].config = Normalize(stmt[s].type, req[s].body)
       /\ stmt[s].config # Invalid
       /\ widgets[req[s].id] # NoRow => widgets[req[s].id].created <= stmt[s].at

\* Ids at or above nextId are free, and no time stamp is in the future.
TableInv ==
  \A i \in Id : widgets[i] # NoRow =>
    /\ i < nextId
    /\ widgets[i].created <= clock

\* Why StoredConfigFits and CreatedBeforeUpdated hold: ids are never used
\* again, so what UpdateConfig read about a widget stays true of its id.
WidgetInv ==
  /\ \A s \in Slot : ControlOK(s) /\ InsertOK(s) /\ UpdateOK(s)
  /\ TableInv /\ StoredConfigFits /\ CreatedBeforeUpdated

-----------------------------------------------------------------------------
(* The endpoints implement the atomic store.                               *)

ShownRow(i) == IF widgets[i] = NoRow THEN NoRow ELSE Show(widgets[i])

\* Drawn ids, without those whose INSERT is still going on.
UsedIds ==
  {i \in Id : i < nextId /\ \A s \in Slot : PendingInsert(s) => stmt[s].id # i}

\* A PATCH whose config does not fit takes effect, as a refusal, at GetByID.
RefusedAtLoad(s) ==
  pc[s] = "loaded" /\ Normalize(stmt[s].type, req[s].body) = Invalid

StoreCall(s) ==
  [status |-> CASE pc[s] = "idle"   -> "idle"
                [] pc[s] = "orphan" -> "lost"
                [] pc[s] = "answered" \/ RefusedAtLoad(s) -> "done"
                [] OTHER -> "open",
   req |-> IF RefusedAtLoad(s) THEN NoRequest ELSE req[s],
   res |-> IF RefusedAtLoad(s) THEN Error("validation_error") ELSE res[s]]

rowsBar == [i \in Id |-> ShownRow(i)]
callBar == [s \in Slot |-> StoreCall(s)]

Store == INSTANCE WidgetStore WITH rows <- rowsBar, used <- UsedIds, call <- callBar

\* However requests overlap, fail or are abandoned, every response is the one
\* an atomic per-user store gives at some instant while the request runs: no
\* lost or doubled write, nobody else's widget, no answer from two states.
ImplementsStore == Store!Spec

\* What the mapping needs besides WidgetInv: no response before the answer.
SilentUntilAnswered == \A s \in Slot : pc[s] # "answered" => res[s] = NoResponse

-----------------------------------------------------------------------------
(* What a step may never do, to the widgets of a user.                     *)

\* A widget is changed or deleted only while its owner has a PATCH or DELETE of
\* its id under way: no other request, of anybody, touches it.
OnlyOwnersWrite ==
  [][\A i \in Id : widgets[i] # NoRow /\ widgets'[i] # widgets[i] =>
       \E s \in Slot : /\ req[s].op \in {"update", "delete"} /\ req[s].id = i
                       /\ req[s].user = widgets[i].owner]_vars

\* A widget keeps its owner, its type and its created_at for as long as it lives.
WidgetsKeepIdentity ==
  [][\A i \in Id : widgets[i] # NoRow /\ widgets'[i] # NoRow =>
       /\ widgets'[i].owner = widgets[i].owner
       /\ widgets'[i].type = widgets[i].type
       /\ widgets'[i].created = widgets[i].created]_vars

\* An id that is taken stays taken, and once its widget is gone it is empty for
\* good: whoever holds an old id never reaches somebody's new widget.
IdsServeOnce ==
  [][\A i \in Id :
       /\ i \in UsedIds \/ widgets[i] # NoRow => i \in UsedIds'
       /\ i \in UsedIds /\ widgets[i] = NoRow => widgets'[i] = NoRow]_vars

\* The widgets in a response are the caller's, whatever became of the table
\* between the statements of the request.
AnswersShowOwnWidgets ==
  [][\A s \in Slot : pc[s] # "answered" /\ pc'[s] = "answered" =>
       \A i \in DOMAIN res'[s].body : res'[s].body[i].owner = req[s].user]_vars

-----------------------------------------------------------------------------
(* What the documentation promises and overlapping requests break.         *)

\* docs/API.md: PATCH answers with a new updated_at.  Of two updates, the one
\* that is applied last does not have the earlier time stamp.
UpdatedAtMovesForward ==
  [][\A i \in Id : widgets[i] # NoRow /\ widgets'[i] # NoRow =>
       widgets[i].updated <= widgets'[i].updated]_vars
=============================================================================

----------------------------- MODULE WidgetStore -----------------------------
(***************************************************************************)
(* What the widget endpoints promise: each user owns a collection of       *)
(* widgets, and every request takes effect on it at one instant between    *)
(* its arrival and its answer, or fails with internal_error and has no     *)
(* effect.  A request whose client or server goes away may still take      *)
(* effect, once.  Ids are never used again and a widget never changes its  *)
(* owner or its type.                                                      *)
(***************************************************************************)
EXTENDS WidgetAPI

VARIABLES
  rows,   \* id -> the widget with that id, or NoRow
  used,   \* ids that no later widget will get
  call    \* slot -> the request it serves

vars == <<rows, used, call>>

Idle == [status |-> "idle", req |-> NoRequest, res |-> NoResponse]
Done(r) == [status |-> "done", req |-> NoRequest, res |-> r]

Init ==
  /\ rows = [i \in Id |-> NoRow]
  /\ used = {}
  /\ call = [s \in Slot |-> Idle]

-----------------------------------------------------------------------------
Owned(u) == {i \in Id : rows[i] # NoRow /\ rows[i].owner = u}
Show(ids) == [i \in ids |-> rows[i]]

Requests ==
  {CreateRequest(u, t, b) : u \in User, t \in RawType, b \in RawConfig}
  \cup {ListRequest(u) : u \in User}
  \cup {GetRequest(u, i) : u \in User, i \in Id}
  \cup {UpdateRequest(u, i, b) : u \in User, i \in Id, b \in RawConfig}
  \cup {DeleteRequest(u, i) : u \in User, i \in Id}

\* The answer goes to the client, unless the client is gone.
Finish(s, r) ==
  call' = [call EXCEPT ![s] = IF @.status = "lost" THEN Idle ELSE Done(r)]

Invoke(s) ==
  /\ call[s].status = "idle"
  /\ call'[s].status = "open"       \* implied; tells TLC early
  /\ \E q \in Requests :
       /\ q.op = "create" => AcceptsCreate(q)
       /\ call' = [call EXCEPT ![s] = [status |-> "open", req |-> q, res |-> NoResponse]]
  /\ UNCHANGED <<rows, used>>

\* A request that is refused for what it says, whatever the store holds.
Refuse(s) ==
  /\ call[s].status = "idle"
  /\ \E code \in {"bad_request", "validation_error"} :
       call' = [call EXCEPT ![s] = Done(Error(code))]
  /\ UNCHANGED <<rows, used>>

Create(s) ==
  LET q == call[s].req
  IN  /\ q.op = "create"
      /\ \E i \in Id \ used :
           LET row == [owner  |-> q.user,
                       type   |-> q.type,
                       config |-> Normalize(q.type, q.body)]
           IN  /\ row.config \in Jsonb
               /\ rows' = [rows EXCEPT ![i] = row]
               /\ used' = used \cup {i}
               /\ Finish(s, Success("created", [j \in {i} |-> row]))

List(s) ==
  /\ call[s].req.op = "list"
  /\ Finish(s, Success("ok", Show(Owned(call[s].req.user))))
  /\ UNCHANGED <<rows, used>>

Get(s) ==
  /\ call[s].req.op = "get"
  /\ call[s].req.id \in Owned(call[s].req.user)
  /\ Finish(s, Success("ok", Show({call[s].req.id})))
  /\ UNCHANGED <<rows, used>>

Update(s) ==
  LET q == call[s].req
  IN  /\ q.op = "update"
      /\ q.id \in Owned(q.user)
      /\ LET new == [rows[q.id] EXCEPT !.config = Normalize(rows[q.id].type, q.body)]
         IN  /\ new.config \in Jsonb
             /\ rows' = [rows EXCEPT ![q.id] = new]
             /\ Finish(s, Success("ok", [j \in {q.id} |-> new]))
      /\ UNCHANGED used

RejectUpdate(s) ==
  LET q == call[s].req
  IN  /\ q.op = "update"
      /\ q.id \in Owned(q.user)
      /\ Normalize(rows[q.id].type, q.body) = Invalid
      /\ Finish(s, Error("validation_error"))
      /\ UNCHANGED <<rows, used>>

Delete(s) ==
  /\ call[s].req.op = "delete"
  /\ call[s].req.id \in Owned(call[s].req.user)
  /\ rows' = [rows EXCEPT ![call[s].req.id] = NoRow]
  /\ Finish(s, Success("no_content", NoBody))
  /\ UNCHANGED used

\* Another user's widget looks exactly like one that does not exist.
NotFound(s) ==
  /\ call[s].req.op \in {"get", "update", "delete"}
  /\ call[s].req.id \notin Owned(call[s].req.user)
  /\ Finish(s, Error("not_found"))
  /\ UNCHANGED <<rows, used>>

\* No effect, except that an id may be lost.
Fail(s) ==
  /\ call[s].status \in {"open", "lost"}
  /\ used' = used \/ \E i \in Id : used' = used \cup {i}
  /\ Finish(s, Error("internal_error"))
  /\ UNCHANGED rows

\* The client or the server goes away: nobody waits for the answer.
Abandon(s) ==
  /\ \/ /\ call[s].status \in {"open", "done"}
        /\ call' = [call EXCEPT ![s] = Idle]
     \/ /\ call[s].status = "open"
        /\ call' = [call EXCEPT ![s].status = "lost"]
  /\ UNCHANGED <<rows, used>>

Return(s) ==
  /\ call[s].status = "done"
  /\ call' = [call EXCEPT ![s] = Idle]
  /\ UNCHANGED <<rows, used>>

Next ==
  \E s \in Slot :
    \/ Invoke(s) \/ Refuse(s)
    \/ Create(s) \/ List(s) \/ Get(s) \/ Update(s) \/ RejectUpdate(s)
    \/ Delete(s) \/ NotFound(s)
    \/ Fail(s) \/ Abandon(s) \/ Return(s)

Spec == Init /\ [][Next]_vars
=============================================================================

------------------------------ MODULE WidgetAPI ------------------------------
(***************************************************************************)
(* What the specifications of the widget CRUD endpoints have in common:    *)
(* the requests clients send, the rows of the widgets table as clients see *)
(* them, and the responses.                                                *)
(***************************************************************************)
EXTENDS Integers

CONSTANTS
  Slot,             \* goroutines that serve requests, one request each
  User,             \* authenticated callers
  WidgetType,       \* the supported widget types
  RawType,          \* the type strings a client may send
  RawConfig,        \* the JSON configs a client may send
  StoredConfig,     \* normalized configs
  Jsonb,            \* those that Postgres takes as JSONB
  NormalFormOf,    \* what NormalizeConfig computes, see module WidgetConfig
  Invalid,         \* its result when it returns an error
  Malformed,        \* a body that does not bind to the request struct
  MaxId,            \* the last value of the id sequence (BIGSERIAL)
  NoRow,            \* no row has this id
  None              \* a field that an operation does not use

Id == 1 .. MaxId

\* A row of the table widgets as a response shows it, its two time stamps aside.
PublicRow == [owner : User, type : WidgetType, config : StoredConfig]

ASSUME WidgetAPIAssumption ==
  /\ MaxId \in Nat \ {0}
  /\ WidgetType \subseteq RawType
  /\ Jsonb \subseteq StoredConfig
  /\ NormalFormOf \in [WidgetType \X RawConfig -> StoredConfig \cup {Invalid}]
  /\ Invalid \notin StoredConfig
  /\ Malformed \notin RawConfig
  /\ None \notin User
  /\ None \notin RawType
  /\ None \notin RawConfig
  /\ None \notin StoredConfig

-----------------------------------------------------------------------------
(* Requests.  Id 0 stands for every :id that is not a positive integer.    *)

Request ==
  [op   : {"none", "create", "list", "get", "update", "delete"},
   user : User \cup {None},
   id   : 0 .. MaxId,
   type : RawType \cup {None},
   body : RawConfig \cup {Malformed, None}]

NoRequest ==
  [op |-> "none", user |-> None, id |-> 0, type |-> None, body |-> None]

CreateRequest(u, t, b) ==
  [NoRequest EXCEPT !.op = "create", !.user = u, !.type = t, !.body = b]
ListRequest(u) == [NoRequest EXCEPT !.op = "list", !.user = u]
GetRequest(u, i) == [NoRequest EXCEPT !.op = "get", !.user = u, !.id = i]
UpdateRequest(u, i, b) ==
  [NoRequest EXCEPT !.op = "update", !.user = u, !.id = i, !.body = b]
DeleteRequest(u, i) == [NoRequest EXCEPT !.op = "delete", !.user = u, !.id = i]

-----------------------------------------------------------------------------
(* Responses: a status with its error code, and the widgets of the body by *)
(* id (a list is ordered by id, so the function determines it).            *)

Code == {"none", "ok", "created", "no_content",
         "bad_request", "validation_error", "not_found", "internal_error"}

Bodies == UNION {[ids -> PublicRow] : ids \in SUBSET Id}

Response == [code : Code, body : Bodies]

NoBody == [i \in {} |-> NoRow]
Error(code) == [code |-> code, body |-> NoBody]
NoResponse == Error("none")
Success(code, body) == [code |-> code, body |-> body]

-----------------------------------------------------------------------------
(* Validation.                                                             *)

Normalize(t, b) == NormalFormOf[t, b]

\* The normal forms of a type: what its widgets may hold.
NormalForms(t) == {Normalize(t, b) : b \in RawConfig} \ {Invalid}

\* ParseWidgetType and NormalizeConfig both accept.
AcceptsCreate(q) ==
  q.type \in WidgetType /\ Normalize(q.type, q.body) # Invalid
=============================================================================

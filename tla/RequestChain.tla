---------------------------- MODULE RequestChain ----------------------------
(***************************************************************************)
(* One request in the Gin engine that internal/api/router.go builds: the   *)
(* middleware around the handlers.  gin calls the functions of a chain in  *)
(* order; one that calls c.Next() runs the rest of the chain inside        *)
(* itself, c.Abort() lets nothing further start, and a panic unwinds the   *)
(* functions that are still running up to the one that recovers.           *)
(*                                                                         *)
(* A handler is what it does to its request: "ok", "refused" (an error of  *)
(* the domain, 404 for all of them), "broken" (any other error) or         *)
(* "panic".  A body that no handler reads counts as one that fits.         *)
(***************************************************************************)
EXTENDS Integers, Sequences, SequencesExt

CONSTANT Subject      \* subjects that signed tokens may have, 0 and less included

ASSUME ChainAssumption == Subject \subseteq Int

VARIABLES
  request,   \* what was sent
  index,     \* position of the function called last; Aborted after Abort
  running,   \* the functions that have called Next, outermost first
  mode,      \* "run", "panic" or "done"
  id,        \* request ID in the context and the response's header
  user,      \* user ID in the context, 0 if there is none
  answers,   \* what was written to the client
  log,       \* status of each access-log line
  acted      \* HISTORY: the users for whom a handler ran

vars == <<request, index, running, mode, id, user, answers, log, acted>>

-----------------------------------------------------------------------------
(* Plausible bugs, for the mutation runs.                                  *)
ParseAnySubject(token) == IF token.signed /\ token.fresh THEN token.sub ELSE 0
IdAsSent(header) == header
RecoveryFirst == <<"RequestID", "Recovery", "Logger", "CORS", "BodyLimit">>
NoAbort == index + 1

-----------------------------------------------------------------------------
(* Requests.                                                               *)

Token == [signed : BOOLEAN, fresh : BOOLEAN, sub : Subject]

\* bearer: the header has the prefix "Bearer " and something after it.
Authorization == [bearer : BOOLEAN, token : Token]

Request == [route : {"health", "public", "protected", "unknown", "other_method", "options", "slash"},
            id : {"", "given", "too_long"},
            origin : {"none", "allowed", "denied"},
            authorization : Authorization,
            body : {"fits", "too_large"},
            does : {"ok", "refused", "broken", "panic"}]

\* TokenIssuer.Parse: the user, or 0 for ErrInvalidToken.
Parse(token) ==
  IF token.signed /\ token.fresh /\ token.sub > 0 THEN token.sub ELSE 0

\* What RequestID uses.
IdFor(header) == IF header = "given" THEN "given" ELSE "generated"

ReadsBody == request.route \in {"public", "protected"}

-----------------------------------------------------------------------------
Global == <<"RequestID", "Logger", "Recovery", "CORS", "BodyLimit">>

\* gin redirects a path with a trailing slash too many (or too few) before it
\* has a chain (301, for other methods than GET 307): RedirectTrailingSlash is on
\* unless it is switched off.
Chain ==
  CASE request.route = "slash" -> <<>>
    [] request.route = "protected" -> Global \o <<"Auth", "handler">>
    [] OTHER -> Global \o <<"handler">>

Aborted == 63        \* abortIndex
AbortFrom == Aborted

Status == {200, 204, 301, 400, 401, 403, 404, 405, 500, 503}
Answer == [status : Status,
           shape : {"body", "envelope", "empty"}, id : {"", "given", "generated"}]

TypeOK ==
  /\ request \in Request
  /\ index \in 0 .. Aborted
  /\ running \in Seq(ToSet(Global) \cup {"Auth"}) /\ Len(running) <= 5
  /\ mode \in {"run", "panic", "done"}
  /\ id \in {"", "given", "generated"}
  /\ user \in Subject \cup {0}
  /\ answers \in Seq(Answer)
  /\ log \in Seq(Status)
  /\ acted \subseteq Subject \cup {0}

Init ==
  /\ request \in Request /\ (request.route = "health" => request.does # "refused")
  /\ index = 0 /\ running = <<>> /\ mode = "run"
  /\ id = "" /\ user = 0 /\ answers = <<>> /\ log = <<>> /\ acted = {}

Write(status, shape) == answers' = Append(answers, [status |-> status, shape |-> shape, id |-> id])

\* response.Error: the envelope, and AbortWithStatusJSON.
Error(status) == Write(status, "envelope") /\ index' = AbortFrom

Calls(f) == mode = "run" /\ index < Len(Chain) /\ Chain[index + 1] = f
Proceed == index' = index + 1
CallNext(f) == running' = Append(running, f) /\ Proceed

RequestID ==
  /\ Calls("RequestID")
  /\ id' = IdFor(request.id)
  /\ CallNext("RequestID")
  /\ UNCHANGED <<request, mode, user, answers, log, acted>>

\* Functions that do nothing before Next: Logger and Recovery after it, and
\* BodyLimit, which shows when the body is read.
PassOn ==
  /\ \E f \in {"Logger", "Recovery", "BodyLimit"} : Calls(f) /\ CallNext(f)
  /\ UNCHANGED <<request, mode, id, user, answers, log, acted>>

\* gin-contrib/cors refuses other origins and answers preflights itself, both
\* without a body; everything else continues.
CORS ==
  /\ Calls("CORS")
  /\ CASE request.origin = "denied" -> Write(403, "empty") /\ index' = AbortFrom
       [] request.origin = "allowed" /\ request.route = "options" ->
            Write(204, "empty") /\ index' = AbortFrom
       [] OTHER -> Proceed /\ UNCHANGED answers
  /\ UNCHANGED <<request, running, mode, id, user, log, acted>>

Auth ==
  /\ Calls("Auth")
  /\ LET header == request.authorization
         subject == IF header.bearer THEN Parse(header.token) ELSE 0
     IN  IF subject = 0
           THEN Error(401) /\ UNCHANGED <<user, running>>
           ELSE user' = subject /\ CallNext("Auth") /\ UNCHANGED answers
  /\ UNCHANGED <<request, mode, id, log, acted>>

\* The handlers, those of NoRoute and NoMethod included.
Handle ==
  /\ Calls("handler")
  /\ CASE request.route = "unknown" -> Error(404) /\ UNCHANGED <<mode, acted>>
       [] request.route \in {"other_method", "options"} -> Error(405) /\ UNCHANGED <<mode, acted>>
       [] ReadsBody /\ request.body = "too_large" -> Error(400) /\ UNCHANGED <<mode, acted>>
       [] OTHER ->
            /\ acted' = acted \cup {user}
            /\ CASE request.does = "ok" -> Write(200, "body") /\ Proceed /\ UNCHANGED mode
                 [] request.does = "refused" -> Error(404) /\ UNCHANGED mode
                 [] request.does = "broken" ->
                      Error(IF request.route = "health" THEN 503 ELSE 500) /\ UNCHANGED mode
                 [] request.does = "panic" -> mode' = "panic" /\ UNCHANGED <<index, answers>>
  /\ UNCHANGED <<request, running, id, user, log>>

\* The loop of the innermost Next is over, and its caller goes on after it.
Return ==
  /\ mode = "run" /\ index >= Len(Chain) /\ running # <<>>
  /\ running' = Front(running)
  /\ log' = IF Last(running) = "Logger" THEN Append(log, Last(answers).status) ELSE log
  /\ UNCHANGED <<request, index, mode, id, user, answers, acted>>

\* Without Recovery, net/http drops the connection.
Unwind ==
  /\ mode = "panic"
  /\ IF running = <<>>
       THEN mode' = "done" /\ UNCHANGED <<running, index, answers>>
       ELSE /\ running' = Front(running)
            /\ IF Last(running) = "Recovery"
                 THEN mode' = "run" /\ Error(500)
                 ELSE UNCHANGED <<mode, index, answers>>
  /\ UNCHANGED <<request, id, user, log, acted>>

\* ServeHTTP returns.
Finish ==
  /\ mode = "run" /\ index >= Len(Chain) /\ running = <<>>
  /\ mode' = "done"
  /\ IF Chain = <<>> THEN Write(301, "empty") ELSE UNCHANGED answers
  /\ UNCHANGED <<request, index, running, id, user, log, acted>>

Next == RequestID \/ PassOn \/ CORS \/ Auth \/ Handle \/ Return \/ Unwind \/ Finish

Spec == Init /\ [][Next]_vars

-----------------------------------------------------------------------------
\* Every request is answered exactly once, a panic included, and by nobody after a
\* middleware has refused it.
AnsweredOnce ==
  Len(answers) <= 1 /\ (mode = "done" => Len(answers) = 1)

\* A handler behind Auth runs only for the subject of a valid token, whatever
\* came before it; any other handler sees no user at all.
ActsForTokenOwner ==
  \A u \in acted :
    LET token == request.authorization.token
    IN  IF request.route = "protected"
          THEN request.authorization.bearer /\ token.signed /\ token.fresh
                 /\ u = token.sub /\ u > 0
          ELSE u = 0

\* The access log has one line for every request that reaches the chain, with the
\* status that the client got, whichever function answered and even after a panic.
LoggedAsAnswered ==
  mode = "done" /\ request.route # "slash" => log = <<answers[1].status>>

\* Except for what CORS refuses, errors come in the envelope with the request's ID,
\* which is the client's own if it is usable.
ErrorsCarryId ==
  \A k \in DOMAIN answers :
    answers[k].status >= 400 /\ request.origin # "denied" =>
      answers[k].shape = "envelope"
        /\ answers[k].id = IF request.id = "given" THEN "given" ELSE "generated"

-----------------------------------------------------------------------------
(* Why they hold.                                                          *)

\* The functions that wrap the rest of the chain.
Outer == <<"RequestID", "Logger", "Recovery", "BodyLimit", "Auth">>

\* How many of them are running while the chain goes down: CORS does not wrap.
Depth == IF index <= 3 THEN index ELSE index - 1

\* A chain that has ended was answered once, and Logger has written its line when it
\* has returned; one that has not is still unanswered, and only a handler panics.
ProgressInv ==
  /\ \A k \in DOMAIN running : running[k] = Outer[k]
  /\ index \in 0 .. Len(Chain) \cup {Aborted}
  /\ mode = "done" => running = <<>>
  /\ mode = "run" /\ index < Len(Chain) =>
       Len(running) = Depth /\ answers = <<>> /\ log = <<>>
  /\ mode = "panic" => index >= 1 /\ Len(running) >= 3 /\ answers = <<>> /\ log = <<>>
  /\ Chain # <<>> /\ (mode = "done" \/ (mode = "run" /\ index >= Len(Chain))) =>
       Len(answers) = 1 /\ log = IF Len(running) >= 2 THEN <<>> ELSE <<answers[1].status>>
  /\ Chain = <<>> =>
       /\ index = 0 /\ mode # "panic" /\ running = <<>>
       /\ IF mode = "run" THEN answers = <<>> ELSE Len(answers) = 1 /\ answers[1].status = 301

\* Behind RequestID the ID is known, and behind Auth the user.
IdentityInv ==
  /\ index >= 1 => id = IdFor(request.id)
  /\ request.route # "protected" => user = 0
  /\ request.route = "protected" /\ index \in {6, 7} =>
       /\ request.authorization.bearer /\ user > 0
       /\ user = Parse(request.authorization.token)

\* The inductive invariant.
ChainInv == ProgressInv /\ IdentityInv /\ ActsForTokenOwner /\ ErrorsCarryId

(* What the documentation promises and the code does not keep.             *)

\* docs/API.md: every response carries an X-Request-ID header.
EveryResponseIdentified ==
  \A k \in DOMAIN answers : answers[k].id # ""
=============================================================================

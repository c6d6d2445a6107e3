------------------------------ MODULE Lifecycle ------------------------------
(***************************************************************************)
(* One process: run() of cmd/api/main.go from the configuration to the     *)
(* exit, the http.Server, the pool of database connections and the         *)
(* requests that share it.  A request alternates between work of its own   *)
(* and statements; only a statement needs a connection, and it waits for   *)
(* one as long as it takes.  The health check is the one that gives up.    *)
(*                                                                         *)
(* Statements have no timeout.  A database that hangs (it neither answers  *)
(* nor breaks the connection) is a fault of its own here.  Timers may run  *)
(* out whenever they run.                                                  *)
(***************************************************************************)
EXTENDS Integers, Sequences, FiniteSets, SequencesExt

CONSTANTS
  Client,         \* the clients' connections; each serves one request at a time
  MaxConns,       \* connections of the pool
  MaxStatements,  \* statements of one request: a PATCH has two
  Environments    \* what config.Load may find in the environment

ASSUME LifecycleAssumption ==
  /\ MaxConns \in Nat \ {0}
  /\ MaxStatements \in Nat \ {0}

VARIABLES
  main,       \* where run() is
  outcome,    \* what it is going to return
  signalled,  \* SIGINT or SIGTERM has come: ctx is done, and more of them change nothing
  listener,   \* the goroutine of ListenAndServe
  hung,       \* the database hangs
  pc,         \* what the server does for each client
  left,       \* statements that a client's request still has to make
  pinging,    \* the clients whose request is a health check
  held,       \* the clients whose request holds a connection of the pool
  waiters     \* those that wait for one, in the order in which they asked

vars == <<main, outcome, signalled, listener, hung, pc, left, pinging, held, waiters>>
process == <<main, outcome, signalled, listener>>
requests == <<pc, left, pinging, held, waiters>>

TypeOK ==
  /\ main \in {"loading", "connecting", "migrating", "serving", "draining",
               "closing", "exited"}
  /\ outcome \in {"none", "ok", "error"}
  /\ listener \in {"off", "starting", "open", "failed", "closed"}
  /\ {signalled, hung} \subseteq BOOLEAN
  /\ pc \in [Client -> {"none", "open", "working", "waiting", "statement", "answering"}]
  /\ left \in [Client -> 0 .. MaxStatements]
  /\ pinging \subseteq Client
  /\ held \subseteq Client
  /\ waiters \in Seq(Client)

Init ==
  /\ main = "loading" /\ outcome = "none" /\ signalled = FALSE
  /\ listener = "off" /\ hung = FALSE
  /\ pc = [c \in Client |-> "none"] /\ left = [c \in Client |-> 0]
  /\ pinging = {} /\ held = {} /\ waiters = <<>>

-----------------------------------------------------------------------------
(* The configuration.                                                      *)

MinSecretLength == 32

\* validate; "parsed" is that every variable has a value of its type and the
\* required ones are there.
Valid(cfg) ==
  /\ cfg.parsed
  /\ cfg.appEnv \in {"development", "production"}
  /\ cfg.port \in 1 .. 65535
  /\ cfg.secretLength >= MinSecretLength
  /\ cfg.jwtTTL > 0 /\ cfg.externalTimeout > 0

-----------------------------------------------------------------------------
(* The pool.  A connection that is returned goes to the one who has waited *)
(* longest.  Close makes every later Acquire fail, that of the waiters     *)
(* included, and waits until all connections are returned.                 *)

\* A plausible bug: the process leaves the pool open until it ends.
PoolLeftOpen == FALSE

PoolClosed == main = "closing"
ConnectionFree == Cardinality(held) < MaxConns /\ waiters = <<>>

\* c returns its connection and is at next.
Release(c, next) ==
  IF waiters # <<>> /\ ~PoolClosed
    THEN /\ held' = (held \ {c}) \cup {Head(waiters)}
         /\ waiters' = Tail(waiters)
         /\ pc' = [pc EXCEPT ![c] = next, ![Head(waiters)] = "statement"]
    ELSE /\ held' = held \ {c}
         /\ waiters' = <<>>
         /\ pc' = [d \in Client |-> IF d = c THEN next
                                    ELSE IF pc[d] = "waiting" THEN "answering" ELSE pc[d]]

(* Plausible bugs, for the mutation runs.                                  *)
LeaksOnError(c) ==
  /\ pc[c] \in {"waiting", "statement"}
  /\ pc' = [pc EXCEPT ![c] = "answering"]
  /\ waiters' = Remove(waiters, c)
  /\ UNCHANGED held
LeavesPlaceInQueue(c) ==
  \/ pc[c] = "statement" /\ Release(c, "answering")
  \/ /\ pc[c] = "waiting"
     /\ pc' = [pc EXCEPT ![c] = "answering"]
     /\ UNCHANGED <<held, waiters>>
KeepsConnection(c) ==
  pc' = [pc EXCEPT ![c] = "working"] /\ UNCHANGED <<held, waiters>>
RepeatsStatement(c) == left[c] + 1
NeverExpires(c) == FALSE
NobodyWaits == waiters = <<>>

\* c stops waiting, or its statement ends with an error.
GiveUp(c) ==
  \/ pc[c] = "statement" /\ Release(c, "answering")
  \/ /\ pc[c] = "waiting"
     /\ pc' = [pc EXCEPT ![c] = "answering"]
     /\ \E i \in DOMAIN waiters : waiters[i] = c /\ waiters' = RemoveAt(waiters, i)
     /\ UNCHANGED held

\* The rows of a statement are closed before the request goes on.
AfterStatement(c) == Release(c, "working")
Remaining(c) == left[c] - 1

-----------------------------------------------------------------------------
(* run().                                                                  *)

Load ==
  /\ main = "loading"
  /\ \E cfg \in Environments :
       IF Valid(cfg) THEN main' = "connecting" /\ UNCHANGED outcome
                     ELSE main' = "closing" /\ outcome' = "error"
  /\ UNCHANGED <<signalled, listener, hung, requests>>

\* NewPool pings the database for at most 5 s; Migrate may take any time.  Both
\* give up when ctx is done.
Prepare ==
  /\ \/ /\ main = "connecting" /\ ~signalled /\ ~hung
        /\ main' = "migrating" /\ UNCHANGED <<outcome, listener>>
     \/ /\ main = "migrating" /\ ~hung
        /\ main' = "serving" /\ listener' = "starting" /\ UNCHANGED outcome
     \/ /\ main \in {"connecting", "migrating"}
        /\ main' = "closing" /\ outcome' = "error" /\ UNCHANGED listener
  /\ UNCHANGED <<signalled, hung, requests>>

\* ListenAndServe binds the port, or fails; a server that is shut down already
\* does not start.  An open listener may fail later.
Listen ==
  /\ \/ /\ listener = "starting"
        /\ listener' \in IF main = "serving" THEN {"open", "failed"} ELSE {"closed"}
     \/ listener = "open" /\ listener' = "failed"
  /\ main # "exited"
  /\ UNCHANGED <<main, outcome, signalled, hung, requests>>

\* Before NotifyContext, while main is loading, a signal just kills the process.
Signal ==
  /\ main \notin {"loading", "exited"} /\ ~signalled
  /\ signalled' = TRUE
  /\ UNCHANGED <<main, outcome, listener, hung, requests>>

\* The select: if both are ready, either.  Shutdown closes the listener first.
StopServing ==
  /\ main = "serving"
  /\ \/ /\ listener = "failed"
        /\ main' = "closing" /\ outcome' = "error" /\ UNCHANGED listener
     \/ /\ signalled
        /\ main' = "draining" /\ UNCHANGED outcome
        /\ listener' = IF listener = "open" THEN "closed" ELSE listener
  /\ UNCHANGED <<signalled, hung, requests>>

\* What Shutdown waits for.
Drained == \A c \in Client : pc[c] = "none"

\* Shutdown returns; it neither cancels nor closes what is still running.
ShutdownReturns ==
  /\ main = "draining"
  /\ main' = "closing"
  /\ \/ Drained /\ outcome' = "ok"
     \/ outcome' = "error"                 \* after shutdownTimeout
  /\ UNCHANGED <<signalled, listener, hung, requests>>

\* pool.Close returns and the process ends, whatever still runs in it.
Exit ==
  /\ main = "closing" /\ held = {}
  /\ main' = "exited"
  /\ pc' = [c \in Client |-> "none"] /\ waiters' = <<>> /\ pinging' = {}
  /\ left' = [c \in Client |-> 0]
  /\ UNCHANGED <<outcome, signalled, listener, hung, held>>

-----------------------------------------------------------------------------
(* Requests.                                                               *)

Connect(c) ==
  /\ listener = "open" /\ main # "exited" /\ pc[c] = "none"
  /\ pc' = [pc EXCEPT ![c] = "open"]
  /\ UNCHANGED <<process, hung, left, pinging, held, waiters>>

\* The client closes, an idle timeout or Shutdown does.
CloseIdle(c) ==
  /\ pc[c] = "open"
  /\ pc' = [pc EXCEPT ![c] = "none"]
  /\ UNCHANGED <<process, hung, left, pinging, held, waiters>>

\* An accepted connection is served, that of a server that shuts down included.
Arrive(c) ==
  /\ pc[c] = "open"
  /\ pc' = [pc EXCEPT ![c] = "working"]
  /\ \/ /\ left' \in {[left EXCEPT ![c] = n] : n \in 0 .. MaxStatements}
        /\ UNCHANGED pinging
     \/ left' = [left EXCEPT ![c] = 1] /\ pinging' = pinging \cup {c}
  /\ UNCHANGED <<process, hung, held, waiters>>

\* The request needs its next statement: Acquire.
Acquire(c) ==
  /\ pc[c] = "working" /\ left[c] > 0
  /\ \/ PoolClosed /\ pc' = [pc EXCEPT ![c] = "answering"] /\ UNCHANGED <<held, waiters>>
     \/ /\ ~PoolClosed /\ ConnectionFree
        /\ pc' = [pc EXCEPT ![c] = "statement"] /\ held' = held \cup {c}
        /\ UNCHANGED waiters
     \/ /\ ~PoolClosed /\ ~ConnectionFree
        /\ pc' = [pc EXCEPT ![c] = "waiting"] /\ waiters' = Append(waiters, c)
        /\ UNCHANGED held
  /\ UNCHANGED <<process, hung, left, pinging>>

\* The database has executed the statement.
Executed(c) ==
  /\ pc[c] = "statement" /\ ~hung
  /\ AfterStatement(c)
  /\ left' = [left EXCEPT ![c] = Remaining(c)]
  /\ UNCHANGED <<process, hung, pinging>>

\* The connection breaks, or the client goes away and the request's context is
\* cancelled: the statement, or the wait for a connection, ends with an error.
Interrupted(c) ==
  /\ GiveUp(c)
  /\ UNCHANGED <<process, hung, left, pinging>>

\* healthPingTimeout.
PingExpires(c) ==
  /\ c \in pinging
  /\ GiveUp(c)
  /\ UNCHANGED <<process, hung, left, pinging>>

\* All statements are made; what a dashboard asks its providers is done, too.
Finish(c) ==
  /\ pc[c] = "working" /\ left[c] = 0
  /\ pc' = [pc EXCEPT ![c] = "answering"]
  /\ UNCHANGED <<process, hung, left, pinging, held, waiters>>

\* The connection is kept for the next request unless the server shuts down.
Answer(c) ==
  /\ pc[c] = "answering"
  /\ pc' \in {[pc EXCEPT ![c] = s] : s \in IF main = "draining" THEN {"none"} ELSE {"none", "open"}}
  /\ left' = [left EXCEPT ![c] = 0] /\ pinging' = pinging \ {c}
  /\ UNCHANGED <<process, hung, held, waiters>>

DatabaseHangs ==
  /\ ~hung /\ main # "exited"
  /\ hung' = TRUE
  /\ UNCHANGED <<process, requests>>

ServerStep(c) == Acquire(c) \/ Executed(c) \/ Finish(c) \/ Answer(c)

Next ==
  \/ Load \/ Prepare \/ Listen \/ Signal \/ StopServing \/ ShutdownReturns \/ Exit
  \/ DatabaseHangs
  \/ \E c \in Client : Connect(c) \/ CloseIdle(c) \/ Arrive(c) \/ ServerStep(c)
                         \/ Interrupted(c) \/ PingExpires(c)

Spec == Init /\ [][Next]_vars

(***************************************************************************)
(* main and the requests run on, timers expire, and a database that does   *)
(* not hang executes what it was sent.  No client, signal or failure need  *)
(* ever come.                                                              *)
(***************************************************************************)
FairSpec ==
  /\ Spec
  /\ WF_vars(Load) /\ WF_vars(Prepare) /\ WF_vars(StopServing)
  /\ WF_vars(ShutdownReturns) /\ WF_vars(Exit)
  /\ \A c \in Client : WF_vars(ServerStep(c)) /\ WF_vars(PingExpires(c))

-----------------------------------------------------------------------------
\* Connections follow statements, on every path: through errors, timeouts and
\* cancellations none is lost, a request that waits for a connection holds none
\* (a PATCH returns that of its SELECT), and a dashboard holds none while it asks
\* its providers.
ConnectionsFollowStatements ==
  /\ held = {c \in Client : pc[c] = "statement"}
  /\ Cardinality(held) <= MaxConns

\* Nobody waits beside a free connection, and nobody waits twice or unseen: a
\* health check that gives up without having reached the database does so
\* because every connection is in use.
NobodyWaitsInVain ==
  /\ waiters # <<>> => Cardinality(held) = MaxConns
  /\ ToSet(waiters) = {c \in Client : pc[c] = "waiting"} /\ IsInjective(waiters)

\* A process that ends with success has answered every request that it read: what
\* is cut off is cut off by a failure or after the timeout of Shutdown only.
CleanExitCutsNobodyOff ==
  main = "closing" /\ outcome = "ok" => \A c \in Client : pc[c] = "none"

\* The inductive invariant: whoever waits or holds has a statement to make, and
\* nobody connects once Shutdown has closed the listener.
LifecycleInv ==
  /\ IsFiniteSet(held) /\ ConnectionsFollowStatements /\ NobodyWaitsInVain
  /\ \A c \in Client : pc[c] \in {"waiting", "statement"} => left[c] > 0
  /\ main = "draining" \/ (main = "closing" /\ outcome = "ok") => listener # "open"
  /\ CleanExitCutsNobodyOff

\* A request that has to wait for a connection ends, however many it competes
\* with and however many statements it still has to make.
WaitersEnd ==
  \A c \in Client :
    pc[c] = "waiting" ~> pc[c] \in {"none", "open", "answering"} \/ hung

\* After the signal the process ends, although requests may wait for each other
\* and outlast the timeout of Shutdown: unless the database hangs, which pool.Close
\* waits for.
ProcessEnds == signalled ~> main = "exited" \/ hung

\* The health check is answered, whether the pool is taken or the database hangs.
HealthAnswered ==
  \A c \in Client : c \in pinging ~> c \notin pinging
=============================================================================

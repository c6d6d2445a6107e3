------------------------------ MODULE Directory ------------------------------
(***************************************************************************)
(* What registration and login promise: an address, however it is typed,   *)
(* is registered at most once and keeps its password, and every request    *)
(* takes effect at one instant between its arrival and its answer, or      *)
(* fails with internal_error and has no effect.                            *)
(*                                                                         *)
(* docs/API.md promises 401 for every wrong password.  Login departs from  *)
(* it in one case, which it names: BcryptConfuses.                         *)
(***************************************************************************)
EXTENDS AccountsAPI

VARIABLES
  passwords,   \* address -> the password it was registered with, or None
  call         \* slot -> the request it serves

vars == <<passwords, call>>

Idle == [status |-> "idle", req |-> NoCall, code |-> "none"]
Done(code) == [status |-> "done", req |-> NoCall, code |-> code]

Init ==
  /\ passwords = [a \in Address |-> None]
  /\ call = [s \in Slot |-> Idle]

\* The answer goes to the client, unless the client is gone.
Finish(s, code) ==
  call' = [call EXCEPT ![s] = IF @.status = "lost" THEN Idle ELSE Done(code)]

Invoke(s) ==
  /\ call[s].status = "idle"
  /\ \E e \in Email, p \in Password, op \in {"register", "login"} :
       /\ op = "register" => AcceptsRegister(e, p)
       /\ call' = [call EXCEPT ![s] =
                     [status |-> "open", code |-> "none",
                      req |-> [op |-> op, email |-> e, password |-> p]]]
  /\ UNCHANGED passwords

\* A request that is refused for what it says, whoever is registered.
Refuse(s) ==
  /\ call[s].status = "idle"
  /\ \E code \in {"bad_request", "validation_error"} :
       call' = [call EXCEPT ![s] = Done(code)]
  /\ UNCHANGED passwords

Register(s) ==
  LET q == call[s].req
  IN  /\ q.op = "register"
      /\ passwords[q.email.address] = None
      /\ passwords' = [passwords EXCEPT ![q.email.address] = q.password]
      /\ Finish(s, "created")

Conflict(s) ==
  /\ call[s].req.op = "register"
  /\ passwords[call[s].req.email.address] # None
  /\ Finish(s, "conflict")
  /\ UNCHANGED passwords

Login(s) ==
  LET q    == call[s].req
      kept == passwords[q.email.address]
  IN  /\ q.op = "login"
      /\ Finish(s, IF \/ kept = q.password
                      \/ kept # None /\ BcryptConfuses(kept, q.password)
                     THEN "ok" ELSE "unauthorized")
      /\ UNCHANGED passwords

Fail(s) ==
  /\ call[s].status \in {"open", "lost"}
  /\ Finish(s, "internal_error")
  /\ UNCHANGED passwords

\* The client or the server goes away: nobody waits for the answer.
Abandon(s) ==
  /\ \/ /\ call[s].status \in {"open", "done"}
        /\ call' = [call EXCEPT ![s] = Idle]
     \/ /\ call[s].status = "open"
        /\ call' = [call EXCEPT ![s].status = "lost"]
  /\ UNCHANGED passwords

Return(s) ==
  /\ call[s].status = "done"
  /\ call' = [call EXCEPT ![s] = Idle]
  /\ UNCHANGED passwords

Next ==
  \E s \in Slot :
    \/ Invoke(s) \/ Refuse(s) \/ Register(s) \/ Conflict(s) \/ Login(s)
    \/ Fail(s) \/ Abandon(s) \/ Return(s)

Spec == Init /\ [][Next]_vars
=============================================================================

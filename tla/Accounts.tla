------------------------------- MODULE Accounts -------------------------------
(***************************************************************************)
(* Registration, login and tokens as the code runs them:                   *)
(* internal/service/auth_service.go, the statements of user_repo.go and    *)
(* the tokens of internal/auth/jwt.go.                                     *)
(*                                                                         *)
(* Register sends one INSERT and leaves it to the UNIQUE constraint to     *)
(* find an address that is taken.  Login reads the user, then compares the *)
(* password with the hash it read and issues a token.  Time is counted in  *)
(* ticks, of which a second has several: tokens hold whole seconds.        *)
(***************************************************************************)
EXTENDS AccountsAPI, FiniteSets

CONSTANTS
  MaxUsers,    \* the last value of the id sequence (BIGSERIAL)
  NoUser,      \* there is no such row
  TTL,         \* JWT_TTL, in ticks
  Second,      \* ticks of a second
  MaxClock,    \* bound on the clock, in ticks
  MaxTokens    \* bound on the tokens that are issued

ASSUME AccountsAssumption ==
  /\ {MaxUsers, TTL, Second} \subseteq Nat \ {0}
  /\ {MaxClock, MaxTokens} \subseteq Nat

Id   == 1 .. MaxUsers
Time == 0 .. MaxClock

\* A hash, with the password it was made of as its history.  The program learns
\* from it only which passwords it matches.
Hash == [of : Password]
HashPassword(password) == [of |-> password]
CheckPassword(hash, password) == Significant(hash.of) = Significant(password)

\* A row of the table users.
User == [id : Id, email : Email, hash : Hash]

ASSUME NoUserAssumption == NoUser \notin User

VARIABLES
  users,    \* the table: id -> row or NoUser
  nextId,   \* the next value of its id sequence
  clock,    \* the time, in ticks
  pc,       \* slot -> where its goroutine is
  req,      \* slot -> the request it serves
  found,    \* slot -> what GetByEmail returned to Login
  code,     \* slot -> the code of the answer it is about to send
  tokens    \* the tokens issued so far, with the login that each came from

vars == <<users, nextId, clock, pc, req, found, code, tokens>>

\* sub and exp are in the token and announced is the expires_in that was sent
\* with it; the rest is history.
Token == [sub : Id, exp : Nat, announced : Nat,
          at : Time, email : Email, password : Password]

Control == {"idle", "insert", "orphan", "select", "compare", "answered"}

\* Rows have the ids that the sequence gave, and every goroutine is at a known
\* point of its request.
TypeOK ==
  /\ users \in [Id -> User \cup {NoUser}]
  /\ nextId \in 1 .. MaxUsers + 1
  /\ clock \in Time
  /\ pc \in [Slot -> Control]
  /\ req \in [Slot -> Call]
  /\ found \in [Slot -> User \cup {NoUser}]
  /\ code \in [Slot -> Code]
  /\ tokens \subseteq Token

Init ==
  /\ users = [i \in Id |-> NoUser]
  /\ nextId = 1
  /\ clock = 0
  /\ pc = [s \in Slot |-> "idle"]
  /\ req = [s \in Slot |-> NoCall]
  /\ found = [s \in Slot |-> NoUser]
  /\ code = [s \in Slot |-> "none"]
  /\ tokens = {}

-----------------------------------------------------------------------------
(* Helpers.                                                                *)

\* The request is over: c goes to the client, unless nobody waits for it.
Answer(s, c) ==
  /\ pc' = [pc EXCEPT ![s] = IF @ = "orphan" THEN "idle" ELSE "answered"]
  /\ code' = [code EXCEPT ![s] = IF pc[s] = "orphan" THEN "none" ELSE c]
  /\ req' = [req EXCEPT ![s] = NoCall]
  /\ found' = [found EXCEPT ![s] = NoUser]

Accept(s, op, email, password, next) ==
  /\ pc[s] = "idle"
  /\ req' = [req EXCEPT ![s] = [op |-> op, email |-> email, password |-> password]]
  /\ pc' = [pc EXCEPT ![s] = next]
  /\ UNCHANGED <<users, nextId, clock, found, code, tokens>>

-----------------------------------------------------------------------------
(* Plausible bugs, for the mutation runs.                                  *)

SequenceEndOffByOne == nextId <= MaxUsers + 1
StoredEmailAsTyped(s) == req[s].email
LookupEmailAsTyped(s) == req[s].email
PasswordNotCompared(s) == found[s] # NoUser
ExpiryRoundedUp(at) == ((at + TTL + Second - 1) \div Second) * Second

-----------------------------------------------------------------------------
(* Pieces of the steps.                                                    *)

\* nextval() of the sequence still has a value to give.
SequenceLeft == nextId <= MaxUsers

\* What Register stores and what Login looks for.
StoredEmail(s) == Canonical(req[s].email)
LookupEmail(s) == Canonical(req[s].email)

UsersWith(email) == {i \in Id : users[i] # NoUser /\ users[i].email = email}

PasswordMatches(s) ==
  found[s] # NoUser /\ CheckPassword(found[s].hash, req[s].password)

\* NewNumericDate drops the fraction of a second.
Expiry(at) == ((at + TTL) \div Second) * Second

\* The expires_in of the answer, in seconds: it drops the fraction of JWT_TTL.
ExpiresIn == TTL \div Second

\* Parse accepts the token now.
Valid(token) == clock < token.exp

-----------------------------------------------------------------------------
\* bindJSON: a field is missing, or the body is not of the expected form.
RefuseBody(s) ==
  /\ pc[s] = "idle"
  /\ Answer(s, "bad_request")
  /\ UNCHANGED <<users, nextId, clock, tokens>>

Register(s, email, password) ==
  \/ /\ AcceptsRegister(email, password)
     /\ Accept(s, "register", email, password, "insert")
  \/ /\ pc[s] = "idle" /\ ~AcceptsRegister(email, password)
     /\ Answer(s, "validation_error")
     /\ UNCHANGED <<users, nextId, clock, tokens>>

Login(s, email, password) == Accept(s, "login", email, password, "select")

\* The database executes the INSERT; an id is drawn even when the address is taken.
InsertUser(s) ==
  /\ pc[s] \in {"insert", "orphan"} /\ SequenceLeft
  /\ nextId' = nextId + 1
  /\ \/ /\ UsersWith(StoredEmail(s)) = {}
        /\ users' = [users EXCEPT ![nextId] =
                       [id |-> nextId, email |-> StoredEmail(s),
                        hash |-> HashPassword(req[s].password)]]
        /\ Answer(s, "created")
     \/ /\ UsersWith(StoredEmail(s)) # {}
        /\ Answer(s, "conflict")
        /\ UNCHANGED users
  /\ UNCHANGED <<clock, tokens>>

\* GetByEmail.
SelectUser(s) ==
  /\ pc[s] = "select"
  /\ \/ \E i \in UsersWith(LookupEmail(s)) : found' = [found EXCEPT ![s] = users[i]]
     \/ UsersWith(LookupEmail(s)) = {} /\ UNCHANGED found
  /\ pc' = [pc EXCEPT ![s] = "compare"]
  /\ UNCHANGED <<users, nextId, clock, req, code, tokens>>

\* Login compares, and issues a token for the user it read.
Compare(s) ==
  /\ pc[s] = "compare"
  /\ \/ /\ PasswordMatches(s) /\ Cardinality(tokens) < MaxTokens
        /\ tokens' = tokens \cup
             {[sub |-> found[s].id, exp |-> Expiry(clock), announced |-> ExpiresIn,
               at |-> clock, email |-> req[s].email, password |-> req[s].password]}
        /\ Answer(s, "ok")
     \/ /\ ~PasswordMatches(s)
        /\ Answer(s, "unauthorized")
        /\ UNCHANGED tokens
  /\ UNCHANGED <<users, nextId, clock>>

\* A statement fails.  A drawn id is lost, which Postgres does not undo.
Rollback(s) ==
  /\ \/ pc[s] = "select" /\ UNCHANGED nextId
     \/ /\ pc[s] \in {"insert", "orphan"}
        /\ \/ UNCHANGED nextId
           \/ SequenceLeft /\ nextId' = nextId + 1
  /\ Answer(s, "internal_error")
  /\ UNCHANGED <<users, clock, tokens>>

Respond(s) ==
  /\ pc[s] = "answered"
  /\ pc' = [pc EXCEPT ![s] = "idle"]
  /\ code' = [code EXCEPT ![s] = "none"]
  /\ UNCHANGED <<users, nextId, clock, req, found, tokens>>

\* The client disconnects or the server process dies.  The database may
\* already have the INSERT.
Abandon(s) ==
  /\ pc[s] \in {"insert", "select", "compare", "answered"}
  /\ IF pc[s] = "insert"
       THEN /\ pc' = [pc EXCEPT ![s] = "orphan"]
            /\ UNCHANGED <<req, found, code>>
       ELSE /\ pc' = [pc EXCEPT ![s] = "idle"]
            /\ req' = [req EXCEPT ![s] = NoCall]
            /\ found' = [found EXCEPT ![s] = NoUser]
            /\ code' = [code EXCEPT ![s] = "none"]
  /\ UNCHANGED <<users, nextId, clock, tokens>>

Tick ==
  /\ clock < MaxClock
  /\ clock' = clock + 1
  /\ UNCHANGED <<users, nextId, pc, req, found, code, tokens>>

Next ==
  \/ \E s \in Slot :
       \/ RefuseBody(s)
       \/ \E e \in Email, p \in Password : Register(s, e, p) \/ Login(s, e, p)
       \/ InsertUser(s) \/ SelectUser(s) \/ Compare(s)
       \/ Rollback(s) \/ Respond(s) \/ Abandon(s)
  \/ Tick

Spec == Init /\ [][Next]_vars

-----------------------------------------------------------------------------
\* Overlapping registrations of one address, in whatever spelling, leave one
\* account: UNIQUE compares bytes, so this needs every stored address canonical.
OneAccountPerAddress ==
  \A i, j \in Id :
    /\ users[i] # NoUser /\ users[j] # NoUser
    /\ users[i].email.address = users[j].email.address
    => i = j

\* A token names the user who registered the address that was logged in, in
\* whatever spelling, although ids are also drawn by registrations that fail; and
\* it was issued for a password that this user's hash matches.
TokenNamesItsOwner ==
  \A t \in tokens :
    /\ users[t.sub] # NoUser
    /\ users[t.sub].email.address = t.email.address
    /\ CheckPassword(users[t.sub].hash, t.password)

\* A token is accepted for the expires_in seconds that came with it, to the second:
\* it ends less than a second before, and after them it is accepted at most for the
\* fraction of a second of JWT_TTL that expires_in leaves out (none, when JWT_TTL
\* is a whole number of seconds).
TokenLife ==
  \A t \in tokens :
    /\ Valid(t) => clock < t.at + t.announced * Second + (TTL % Second)
    /\ ~Valid(t) => clock > t.at + t.announced * Second - Second

-----------------------------------------------------------------------------
(* The inductive invariant behind them.                                    *)

\* A row is stored under its own id, below nextId, with a canonical address.
RowsInv ==
  \A i \in Id : users[i] # NoUser =>
    users[i].id = i /\ i < nextId /\ users[i].email.plain

\* A request that is going on has its credentials and no answer yet, and what
\* Login has read is still in the table when it compares.
CallOK(s) ==
  /\ pc[s] \in {"idle", "answered"} => req[s] = NoCall
  /\ pc[s] # "answered" => code[s] = "none"
  /\ pc[s] \in {"insert", "orphan"} => req[s].op = "register"
  /\ pc[s] \in {"select", "compare"} => req[s].op = "login"
  /\ pc[s] \in {"insert", "orphan", "select", "compare"} =>
       req[s].email \in Email /\ req[s].password \in Password
  /\ found[s] # NoUser =>
       /\ pc[s] = "compare"
       /\ users[found[s].id] = found[s]
       /\ found[s].email = LookupEmail(s)

\* No token is from the future, and each has the times that Login gave it.
TokensInv ==
  \A t \in tokens : t.at <= clock /\ t.exp = Expiry(t.at) /\ t.announced = ExpiresIn

\* Why the properties above hold: rows are only added, never changed, under fresh
\* ids and with canonical addresses.
AccountsInv ==
  /\ RowsInv /\ TokensInv
  /\ \A s \in Slot : CallOK(s)
  /\ OneAccountPerAddress /\ TokenNamesItsOwner

-----------------------------------------------------------------------------
(* Registration and login implement the atomic directory.                  *)

PasswordOf(address) ==
  IF \E i \in Id : users[i] # NoUser /\ users[i].email.address = address
    THEN users[CHOOSE i \in Id :
                 users[i] # NoUser /\ users[i].email.address = address].hash.of
    ELSE None

\* A login takes effect when GetByEmail reads the user.
DirectoryCall(s) ==
  [status |-> CASE pc[s] = "idle" -> "idle"
                [] pc[s] = "orphan" -> "lost"
                [] pc[s] \in {"compare", "answered"} -> "done"
                [] OTHER -> "open",
   req  |-> IF pc[s] = "compare" THEN NoCall ELSE req[s],
   code |-> IF pc[s] = "compare"
              THEN IF PasswordMatches(s) THEN "ok" ELSE "unauthorized"
              ELSE code[s]]

\* The state of the directory.
passwordsBar == [a \in Address |-> PasswordOf(a)]
callBar == [s \in Slot |-> DirectoryCall(s)]

Promise == INSTANCE Directory WITH passwords <- passwordsBar, call <- callBar

\* However requests overlap, fail or are abandoned, every answer is the one of
\* an atomic directory: an acknowledged registration can log in at once, in any
\* spelling, and an address that was taken is never overwritten.
ImplementsDirectory == Promise!Spec

-----------------------------------------------------------------------------
(* What a step may never do, to the accounts.                              *)

\* Once an address is registered its password stays: no later registration in
\* another spelling, and none that overlaps or is tried again, replaces it.
PasswordsAreKept ==
  [][\A a \in Address : passwordsBar[a] # None => passwordsBar'[a] = passwordsBar[a]]_vars

\* An answer is true of the table when it is given: 201 means registered now, with
\* this password, 409 that the address is taken, and 200 that this is its password,
\* or one that bcrypt takes for it.
AnswersAreTrue ==
  [][\A s \in Slot : pc[s] # "answered" /\ pc'[s] = "answered" =>
       LET a == req[s].email.address
           p == req[s].password
       IN  /\ code'[s] = "created" => passwordsBar[a] = None /\ passwordsBar'[a] = p
           /\ code'[s] = "conflict" => passwordsBar[a] # None
           /\ code'[s] = "ok" =>
                 passwordsBar[a] = p \/ BcryptConfuses(passwordsBar[a], p)]_vars
=============================================================================

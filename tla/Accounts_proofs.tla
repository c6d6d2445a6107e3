--------------------------- MODULE Accounts_proofs ---------------------------
(***************************************************************************)
(* Type correctness and the safety properties of registration and login,   *)
(* for any number of goroutines, addresses, passwords, ids and ticks; and  *)
(* that they implement the atomic directory: the initial state maps to an  *)
(* initial state, and each step to a step or to a stutter.                 *)
(***************************************************************************)
EXTENDS Accounts, TLAPS

-----------------------------------------------------------------------------
(* Typing.                                                                 *)

\* The canonical form of an address is an address without capitals and padding.
LEMMA CanonicalType ==
  ASSUME NEW e \in Email
  PROVE  /\ Canonical(e) \in Email
         /\ Canonical(e).address = e.address
         /\ Canonical(e).plain
BY DEF Canonical, Email

\* The end of a request is well-typed.
LEMMA AnswerType ==
  ASSUME TypeOK, NEW s \in Slot, NEW c \in Code, Answer(s, c)
  PROVE  /\ pc' \in [Slot -> Control] /\ req' \in [Slot -> Call]
         /\ found' \in [Slot -> User \cup {NoUser}] /\ code' \in [Slot -> Code]
<1>1. NoCall \in Call
  BY DEF NoCall, Call
<1>2. "none" \in Code /\ "idle" \in Control /\ "answered" \in Control
  BY DEF Code, Control
<1> QED BY <1>1, <1>2 DEF TypeOK, Answer

\* The start of a request is well-typed.
LEMMA AcceptType ==
  ASSUME TypeOK, NEW s \in Slot, NEW e \in Email, NEW p \in Password,
         NEW op \in {"register", "login"}, NEW next \in {"insert", "select"},
         Accept(s, op, e, p, next)
  PROVE  TypeOK'
<1>1. [op |-> op, email |-> e, password |-> p] \in Call
  BY DEF Call
<1>2. next \in Control
  BY DEF Control
<1> QED BY <1>1, <1>2 DEF TypeOK, Accept

\* The first values are well-typed.
LEMMA InitType == Init => TypeOK
<1> SUFFICES ASSUME Init PROVE TypeOK
  OBVIOUS
<1>1. NoCall \in Call /\ "none" \in Code /\ "idle" \in Control
  BY DEF NoCall, Call, Code, Control
<1>2. 1 \in 1 .. MaxUsers + 1 /\ 0 \in Time
  BY AccountsAssumption DEF Time
<1> QED BY <1>1, <1>2 DEF Init, TypeOK

\* What InsertUser writes into the table is a row.
LEMMA NewUserType ==
  ASSUME TypeOK, NEW s \in Slot, CallOK(s), pc[s] \in {"insert", "orphan"}, SequenceLeft
  PROVE  /\ nextId \in Id
         /\ StoredEmail(s) \in Email /\ StoredEmail(s).plain
         /\ [id |-> nextId, email |-> StoredEmail(s),
             hash |-> HashPassword(req[s].password)] \in User
<1>1. nextId \in Id
  BY AccountsAssumption DEF TypeOK, SequenceLeft, Id
<1>2. req[s].email \in Email /\ req[s].password \in Password
  BY DEF CallOK
<1>3. StoredEmail(s) \in Email /\ StoredEmail(s).plain
  BY <1>2, CanonicalType DEF StoredEmail
<1>4. HashPassword(req[s].password) \in Hash
  BY <1>2 DEF HashPassword, Hash
<1> QED BY <1>1, <1>3, <1>4 DEF User

\* The expiry that Issue computes is a whole number of seconds, not after the
\* lifetime of the token, and less than a second before its end.
LEMMA ExpiryBounds ==
  ASSUME NEW at \in Time
  PROVE  /\ Expiry(at) \in Nat
         /\ Expiry(at) <= at + TTL
         /\ at + TTL < Expiry(at) + Second
<1> DEFINE n == at + TTL
           q == n \div Second
<1>1. n \in Nat /\ Second \in Nat \ {0}
  BY AccountsAssumption DEF Time
<1>2. q \in Nat /\ n = Second * q + (n % Second) /\ n % Second \in 0 .. Second - 1
  <2> HIDE DEF n
  <2> QED BY <1>1
<1>3. Expiry(at) = q * Second
  BY DEF Expiry
<1>4. q * Second \in Nat /\ q * Second = Second * q
  <2> HIDE DEF q
  <2> QED BY <1>1, <1>2
<1>5. q * Second <= n /\ n < q * Second + Second
  <2> DEFINE m == q * Second
             r == n % Second
  <2>1. m \in Nat /\ n = m + r /\ r \in 0 .. Second - 1
    BY <1>2, <1>4
  <2> HIDE DEF n, m, r
  <2> QED BY <1>1, <2>1
<1> QED BY <1>3, <1>4, <1>5

\* The expires_in of an answer is the lifetime without its fraction of a second.
LEMMA ExpiresInBounds ==
  /\ ExpiresIn \in Nat
  /\ TTL % Second \in Nat
  /\ TTL = ExpiresIn * Second + (TTL % Second)
<1> DEFINE q == TTL \div Second
<1>1. TTL \in Nat /\ Second \in Nat \ {0}
  BY AccountsAssumption
<1>2. q \in Nat /\ TTL % Second \in Nat /\ TTL = Second * q + (TTL % Second)
  BY <1>1
<1>3. ExpiresIn = q
  BY DEF ExpiresIn
<1>4. q * Second = Second * q
  <2> HIDE DEF q
  <2> QED BY <1>1, <1>2
<1> HIDE DEF q
<1> QED BY <1>2, <1>3, <1>4

\* Every step keeps the types.
LEMMA NextType ==
  ASSUME TypeOK, AccountsInv, [Next]_vars
  PROVE  TypeOK'
<1> USE DEF Code
<1>1. ASSUME NEW s \in Slot, RefuseBody(s)
      PROVE  TypeOK'
  BY <1>1, AnswerType DEF RefuseBody, TypeOK
<1>2. ASSUME NEW s \in Slot, NEW e \in Email, NEW p \in Password, Register(s, e, p)
      PROVE  TypeOK'
  <2>1. CASE Accept(s, "register", e, p, "insert")
    BY <2>1, AcceptType
  <2>2. CASE Answer(s, "validation_error") /\ UNCHANGED <<users, nextId, clock, tokens>>
    BY <2>2, AnswerType DEF TypeOK
  <2> QED BY <1>2, <2>1, <2>2 DEF Register
<1>3. ASSUME NEW s \in Slot, NEW e \in Email, NEW p \in Password, Login(s, e, p)
      PROVE  TypeOK'
  BY <1>3, AcceptType DEF Login
<1>4. ASSUME NEW s \in Slot, InsertUser(s)
      PROVE  TypeOK'
  <2>1. CallOK(s)
    BY DEF AccountsInv
  <2>2. nextId' \in 1 .. MaxUsers + 1
    BY <1>4, AccountsAssumption DEF InsertUser, SequenceLeft, TypeOK
  <2>3. users' \in [Id -> User \cup {NoUser}]
    BY <1>4, <2>1, NewUserType DEF InsertUser, TypeOK
  <2> QED BY <1>4, <2>2, <2>3, AnswerType DEF InsertUser, TypeOK
<1>5. ASSUME NEW s \in Slot, SelectUser(s)
      PROVE  TypeOK'
  <2>1. found' \in [Slot -> User \cup {NoUser}]
    BY <1>5 DEF SelectUser, UsersWith, TypeOK
  <2>2. pc' \in [Slot -> Control]
    BY <1>5 DEF SelectUser, TypeOK, Control
  <2> QED BY <1>5, <2>1, <2>2 DEF SelectUser, TypeOK
<1>6. ASSUME NEW s \in Slot, Compare(s)
      PROVE  TypeOK'
  <2>1. CASE PasswordMatches(s)
    <3> DEFINE t == [sub |-> found[s].id, exp |-> Expiry(clock), announced |-> ExpiresIn,
                     at |-> clock, email |-> req[s].email, password |-> req[s].password]
    <3>1. found[s].id \in Id
      BY <2>1 DEF PasswordMatches, TypeOK, User
    <3>2. req[s].email \in Email /\ req[s].password \in Password
      BY <1>6 DEF Compare, AccountsInv, CallOK
    <3>3. clock \in Time /\ Expiry(clock) \in Nat /\ ExpiresIn \in Nat
      BY ExpiryBounds, ExpiresInBounds DEF TypeOK
    <3>4. t \in Token
      BY <3>1, <3>2, <3>3 DEF Token
    <3> HIDE DEF t
    <3>5. tokens' \subseteq Token
      BY <1>6, <2>1, <3>4 DEF Compare, TypeOK, t
    <3> QED BY <1>6, <2>1, <3>5, AnswerType DEF Compare, TypeOK
  <2>2. CASE ~PasswordMatches(s)
    BY <1>6, <2>2, AnswerType DEF Compare, TypeOK
  <2> QED BY <2>1, <2>2
<1>7. ASSUME NEW s \in Slot, Rollback(s)
      PROVE  TypeOK'
  <2>1. nextId' \in 1 .. MaxUsers + 1
    BY <1>7, AccountsAssumption DEF Rollback, SequenceLeft, TypeOK
  <2> QED BY <1>7, <2>1, AnswerType DEF Rollback, TypeOK
<1>8. ASSUME NEW s \in Slot, Respond(s) \/ Abandon(s)
      PROVE  TypeOK'
  <2>1. NoCall \in Call
    BY DEF NoCall, Call
  <2> QED BY <1>8, <2>1 DEF Respond, Abandon, TypeOK, Control
<1>9. CASE Tick
  BY <1>9, AccountsAssumption DEF Tick, TypeOK, Time
<1>10. CASE UNCHANGED vars
  BY <1>10 DEF vars, TypeOK
<1> QED BY <1>1, <1>2, <1>3, <1>4, <1>5, <1>6, <1>7, <1>8, <1>9, <1>10 DEF Next

-----------------------------------------------------------------------------
(* The inductive invariant.                                                *)

\* Rows that are in the table stay as they are.
RowsKept == \A i \in Id : users[i] # NoUser => users'[i] = users[i]

\* The end of a request leaves every request in order.
LEMMA AnswerKeepsCalls ==
  ASSUME TypeOK, AccountsInv, RowsKept, NEW s \in Slot, NEW c, Answer(s, c)
  PROVE  \A t \in Slot : CallOK(t)'
<1> SUFFICES ASSUME NEW t \in Slot PROVE CallOK(t)'
  OBVIOUS
<1>1. CallOK(t)
  BY DEF AccountsInv
<1>2. CASE t = s
  <2>1. pc'[s] \in {"idle", "answered"} /\ found'[s] = NoUser /\ req'[s] = NoCall
          /\ (pc'[s] # "answered" => code'[s] = "none")
    BY DEF Answer, TypeOK
  <2> QED BY <1>2, <2>1 DEF CallOK
<1>3. CASE t # s
  <2>1. pc'[t] = pc[t] /\ req'[t] = req[t] /\ found'[t] = found[t] /\ code'[t] = code[t]
    BY <1>3 DEF Answer, TypeOK
  <2>2. found[t] # NoUser => users'[found[t].id] = users[found[t].id]
    <3> SUFFICES ASSUME found[t] # NoUser PROVE users'[found[t].id] = users[found[t].id]
      OBVIOUS
    <3>1. found[t].id \in Id /\ users[found[t].id] # NoUser
      BY <1>1 DEF CallOK, TypeOK, User
    <3> QED BY <3>1 DEF RowsKept
  <2> QED BY <1>1, <2>1, <2>2 DEF CallOK, LookupEmail
<1> QED BY <1>2, <1>3

\* A step that leaves table, tokens and clock alone keeps what is said of them.
LEMMA TableKept ==
  ASSUME TypeOK, AccountsInv, UNCHANGED <<users, tokens>>,
         nextId' \in Nat, nextId <= nextId', clock' \in Nat, clock <= clock'
  PROVE  RowsInv' /\ TokensInv' /\ OneAccountPerAddress' /\ TokenNamesItsOwner' /\ RowsKept
<1>1. RowsInv'
  BY DEF AccountsInv, RowsInv, TypeOK, Id
<1>2. TokensInv'
  BY DEF AccountsInv, TokensInv, TypeOK, Token, Time, Expiry, ExpiresIn
<1>3. OneAccountPerAddress' /\ TokenNamesItsOwner' /\ RowsKept
  BY DEF AccountsInv, OneAccountPerAddress, TokenNamesItsOwner, RowsKept, CheckPassword
<1> QED BY <1>1, <1>2, <1>3

\* A registration that is accepted leaves every request in order.
LEMMA AcceptKeepsInv ==
  ASSUME TypeOK, AccountsInv, NEW s \in Slot, NEW e \in Email, NEW p \in Password,
         NEW op, NEW next, Accept(s, op, e, p, next),
         <<op, next>> \in {<<"register", "insert">>, <<"login", "select">>}
  PROVE  AccountsInv'
<1>1. nextId' \in Nat /\ nextId <= nextId' /\ clock' \in Nat /\ clock <= clock'
  BY DEF Accept, TypeOK, Time
<1>2. RowsInv' /\ TokensInv' /\ OneAccountPerAddress' /\ TokenNamesItsOwner'
  BY <1>1, TableKept DEF Accept
<1>3. ASSUME NEW t \in Slot PROVE CallOK(t)'
  <2>1. CallOK(t)
    BY DEF AccountsInv
  <2>2. CASE t = s
    <3>1. /\ req'[s].op = op /\ req'[s].email = e /\ req'[s].password = p
          /\ pc'[s] = next
      BY DEF Accept, TypeOK
    <3>2. found'[s] = NoUser /\ code'[s] = "none"
      BY <2>1, <2>2 DEF Accept, CallOK
    <3> QED BY <2>2, <3>1, <3>2 DEF CallOK
  <2>3. CASE t # s
    <3>1. /\ pc'[t] = pc[t] /\ req'[t] = req[t] /\ found'[t] = found[t]
          /\ users' = users /\ code' = code
      BY <2>3 DEF Accept, TypeOK
    <3> QED BY <2>1, <3>1 DEF CallOK, LookupEmail
  <2> QED BY <2>2, <2>3
<1> QED BY <1>2, <1>3 DEF AccountsInv

\* InsertUser adds a row under a fresh id and a fresh address, or nothing.
LEMMA InsertKeepsInv ==
  ASSUME TypeOK, AccountsInv, NEW s \in Slot, InsertUser(s)
  PROVE  AccountsInv'
<1> DEFINE email == StoredEmail(s)
           row   == [id |-> nextId, email |-> email, hash |-> HashPassword(req[s].password)]
<1>1. pc[s] \in {"insert", "orphan"} /\ SequenceLeft /\ CallOK(s)
  BY DEF InsertUser, AccountsInv
<1>2. nextId \in Id /\ email \in Email /\ email.plain /\ row \in User
  BY <1>1, NewUserType
<1>3. nextId \in Nat /\ nextId' = nextId + 1 /\ clock' = clock /\ clock \in Nat
  BY DEF InsertUser, TypeOK, Time
<1>4. CASE UsersWith(email) = {} /\ users' = [users EXCEPT ![nextId] = row]
            /\ Answer(s, "created")
  <2> HIDE DEF row, email
  <2>1. users[nextId] = NoUser
    BY <1>2, <1>3 DEF AccountsInv, RowsInv
  <2>2. \A i \in Id : users'[i] = IF i = nextId THEN row ELSE users[i]
    BY <1>2, <1>4 DEF TypeOK
  <2>3. RowsKept
    BY <2>1, <2>2 DEF RowsKept
  <2>4. row.id = nextId /\ row.email = email
    BY DEF row
  <2>5. RowsInv'
    <3> SUFFICES ASSUME NEW i \in Id, users'[i] # NoUser
                 PROVE  users'[i].id = i /\ i < nextId' /\ users'[i].email.plain
      BY DEF RowsInv
    <3>1. CASE i = nextId
      BY <1>2, <1>3, <2>2, <2>4, <3>1
    <3>2. CASE i # nextId
      BY <1>3, <2>2, <3>2 DEF AccountsInv, RowsInv, Id
    <3> QED BY <3>1, <3>2
  <2>6. ASSUME NEW i \in Id, users[i] # NoUser
        PROVE  users[i].email.address # email.address
    <3> SUFFICES ASSUME users[i].email.address = email.address PROVE FALSE
      OBVIOUS
    <3>1. users[i].email \in Email /\ users[i].email.plain
      BY <2>6 DEF TypeOK, User, AccountsInv, RowsInv
    <3>2. users[i].email = email
      BY <1>2, <3>1 DEF Email
    <3> QED BY <1>4, <2>6, <3>2 DEF UsersWith
  <2>7. OneAccountPerAddress'
    BY <2>2, <2>4, <2>6 DEF AccountsInv, OneAccountPerAddress
  <2>8. tokens' = tokens
    BY DEF InsertUser
  <2>9. TokenNamesItsOwner'
    <3> SUFFICES ASSUME NEW t \in tokens
                 PROVE  users'[t.sub] = users[t.sub] /\ TokenNamesItsOwner
      BY <2>8 DEF TokenNamesItsOwner, CheckPassword
    <3> QED BY <2>3 DEF AccountsInv, TokenNamesItsOwner, TypeOK, Token, RowsKept
  <2>10. TokensInv'
    BY <1>3, <2>8 DEF AccountsInv, TokensInv, Expiry, ExpiresIn
  <2> QED BY <1>4, <2>3, <2>5, <2>7, <2>9, <2>10, AnswerKeepsCalls DEF AccountsInv
<1>5. CASE Answer(s, "conflict") /\ UNCHANGED users
  <2>1. UNCHANGED <<users, tokens>> /\ nextId' \in Nat /\ nextId <= nextId' /\ clock' \in Nat
          /\ clock <= clock'
    BY <1>3, <1>5 DEF InsertUser
  <2>2. RowsInv' /\ TokensInv' /\ OneAccountPerAddress' /\ TokenNamesItsOwner' /\ RowsKept
    BY <2>1, TableKept
  <2> QED BY <1>5, <2>2, AnswerKeepsCalls DEF AccountsInv
<1> QED BY <1>4, <1>5 DEF InsertUser

\* Compare issues a token for the user that Login has read, or none.
LEMMA CompareKeepsInv ==
  ASSUME TypeOK, AccountsInv, NEW s \in Slot, Compare(s)
  PROVE  AccountsInv'
<1>1. UNCHANGED <<users, nextId, clock>> /\ nextId \in Nat /\ clock \in Time /\ clock \in Nat
  BY DEF Compare, TypeOK, Time
<1>2. CASE PasswordMatches(s)
  <2> DEFINE new == [sub |-> found[s].id, exp |-> Expiry(clock), announced |-> ExpiresIn,
                     at |-> clock, email |-> req[s].email, password |-> req[s].password]
  <2>1. tokens' = tokens \cup {new} /\ Answer(s, "ok")
    BY <1>2 DEF Compare
  <2>2. pc[s] = "compare" /\ CallOK(s)
    BY DEF Compare, AccountsInv
  <2>3. found[s] # NoUser /\ CheckPassword(found[s].hash, req[s].password)
    BY <1>2 DEF PasswordMatches
  <2>4. users[new.sub] # NoUser /\ users[new.sub].email.address = new.email.address
          /\ CheckPassword(users[new.sub].hash, new.password)
    <3>1. users[found[s].id] = found[s] /\ found[s].email = Canonical(req[s].email)
      BY <2>2, <2>3 DEF CallOK, LookupEmail
    <3>2. Canonical(req[s].email).address = req[s].email.address
      BY <2>2, CanonicalType DEF CallOK
    <3> QED BY <2>3, <3>1, <3>2
  <2>5. new.at <= clock /\ new.exp = Expiry(new.at) /\ new.announced = ExpiresIn
    BY <1>1
  <2> HIDE DEF new
  <2>6. TokenNamesItsOwner'
    BY <1>1, <2>1, <2>4 DEF AccountsInv, TokenNamesItsOwner, CheckPassword
  <2>7. TokensInv'
    BY <1>1, <2>1, <2>5 DEF AccountsInv, TokensInv, Expiry, ExpiresIn
  <2>8. RowsInv' /\ OneAccountPerAddress' /\ RowsKept
    BY <1>1 DEF AccountsInv, RowsInv, OneAccountPerAddress, RowsKept
  <2> QED BY <2>1, <2>6, <2>7, <2>8, AnswerKeepsCalls DEF AccountsInv
<1>3. CASE ~PasswordMatches(s)
  <2>1. UNCHANGED <<users, tokens>> /\ Answer(s, "unauthorized")
    BY <1>3 DEF Compare
  <2>2. RowsInv' /\ TokensInv' /\ OneAccountPerAddress' /\ TokenNamesItsOwner' /\ RowsKept
    BY <1>1, <2>1, TableKept
  <2> QED BY <2>1, <2>2, AnswerKeepsCalls DEF AccountsInv
<1> QED BY <1>2, <1>3

\* SelectUser keeps a row that is in the table, with the address it looked for.
LEMMA SelectKeepsInv ==
  ASSUME TypeOK, AccountsInv, NEW s \in Slot, SelectUser(s)
  PROVE  AccountsInv'
<1>1. UNCHANGED <<users, nextId, clock, req, code, tokens>>
        /\ nextId \in Nat /\ clock \in Nat
  BY DEF SelectUser, TypeOK, Time
<1>2. RowsInv' /\ TokensInv' /\ OneAccountPerAddress' /\ TokenNamesItsOwner'
  BY <1>1, TableKept
<1>3. ASSUME NEW t \in Slot PROVE CallOK(t)'
  <2>1. CallOK(t)
    BY DEF AccountsInv
  <2>2. CASE t = s
    <3>1. pc[s] = "select" /\ pc'[s] = "compare"
      BY DEF SelectUser, TypeOK
    <3>2. CASE UsersWith(LookupEmail(s)) = {} /\ UNCHANGED found
      BY <1>1, <2>1, <2>2, <3>1, <3>2 DEF CallOK
    <3>3. ASSUME NEW i \in UsersWith(LookupEmail(s)), found' = [found EXCEPT ![s] = users[i]]
          PROVE  CallOK(s)'
      <4>1. found'[s] = users[i] /\ users[i] # NoUser /\ users[i].email = LookupEmail(s)
              /\ i \in Id
        BY <3>3 DEF UsersWith, TypeOK
      <4>2. users[i].id = i
        BY <4>1 DEF AccountsInv, RowsInv
      <4> QED BY <1>1, <2>1, <2>2, <3>1, <4>1, <4>2 DEF CallOK, LookupEmail
    <3> QED BY <2>2, <3>2, <3>3 DEF SelectUser
  <2>3. CASE t # s
    <3>1. pc'[t] = pc[t] /\ found'[t] = found[t]
      BY <2>3 DEF SelectUser, TypeOK
    <3> QED BY <1>1, <2>1, <3>1 DEF CallOK, LookupEmail
  <2> QED BY <2>2, <2>3
<1> QED BY <1>2, <1>3 DEF AccountsInv

\* Every step keeps the inductive invariant.
LEMMA NextKeepsInv ==
  ASSUME TypeOK, AccountsInv, [Next]_vars
  PROVE  AccountsInv'
<1>1. nextId \in Nat /\ clock \in Nat /\ MaxUsers \in Nat
  BY AccountsAssumption DEF TypeOK, Time
<1>2. ASSUME NEW s \in Slot, NEW c, Answer(s, c), UNCHANGED <<users, clock, tokens>>,
             nextId' \in {nextId, nextId + 1}
      PROVE  AccountsInv'
  <2>1. RowsInv' /\ TokensInv' /\ OneAccountPerAddress' /\ TokenNamesItsOwner' /\ RowsKept
    BY <1>1, <1>2, TableKept
  <2> QED BY <1>2, <2>1, AnswerKeepsCalls DEF AccountsInv
<1>3. ASSUME NEW s \in Slot, RefuseBody(s) \/ Rollback(s)
      PROVE  AccountsInv'
  BY <1>2, <1>3 DEF RefuseBody, Rollback
<1>4. ASSUME NEW s \in Slot, NEW e \in Email, NEW p \in Password,
             Register(s, e, p) \/ Login(s, e, p)
      PROVE  AccountsInv'
  <2>1. CASE Accept(s, "register", e, p, "insert")
    BY <2>1, AcceptKeepsInv
  <2>2. CASE Accept(s, "login", e, p, "select")
    BY <2>2, AcceptKeepsInv
  <2>3. CASE Answer(s, "validation_error") /\ UNCHANGED <<users, nextId, clock, tokens>>
    BY <1>2, <2>3
  <2> QED BY <1>4, <2>1, <2>2, <2>3 DEF Register, Login
<1>5. ASSUME NEW s \in Slot, InsertUser(s) \/ SelectUser(s) \/ Compare(s)
      PROVE  AccountsInv'
  BY <1>5, InsertKeepsInv, SelectKeepsInv, CompareKeepsInv
<1>6. ASSUME NEW s \in Slot, Respond(s) \/ Abandon(s)
      PROVE  AccountsInv'
  <2>1. UNCHANGED <<users, nextId, clock, tokens>>
    BY <1>6 DEF Respond, Abandon
  <2>2. RowsInv' /\ TokensInv' /\ OneAccountPerAddress' /\ TokenNamesItsOwner' /\ RowsKept
    BY <1>1, <2>1, TableKept
  <2>3. ASSUME NEW t \in Slot PROVE CallOK(t)'
    <3>1. CallOK(t)
      BY DEF AccountsInv
    <3>2. CASE t # s
      <4>1. pc'[t] = pc[t] /\ req'[t] = req[t] /\ found'[t] = found[t] /\ code'[t] = code[t]
        BY <1>6, <3>2 DEF Respond, Abandon, TypeOK
      <4> QED BY <2>1, <3>1, <4>1 DEF CallOK, LookupEmail
    <3>3. CASE t = s /\ pc'[s] = "idle" /\ found'[s] = NoUser
               /\ req'[s] = NoCall /\ code'[s] = "none"
      BY <3>3 DEF CallOK
    <3>4. CASE t = s /\ pc[s] = "insert" /\ pc'[s] = "orphan" /\ UNCHANGED <<req, found, code>>
      BY <2>1, <3>1, <3>4 DEF CallOK, LookupEmail
    <3>5. pc[s] = "answered" => found[s] = NoUser /\ req[s] = NoCall
      BY DEF AccountsInv, CallOK
    <3>6. CASE Respond(s)
      BY <3>2, <3>3, <3>5, <3>6 DEF Respond, TypeOK
    <3>7. CASE Abandon(s)
      BY <3>2, <3>3, <3>4, <3>7 DEF Abandon, TypeOK
    <3> QED BY <1>6, <3>6, <3>7
  <2> QED BY <2>2, <2>3 DEF AccountsInv
<1>7. CASE Tick \/ UNCHANGED vars
  <2>1. UNCHANGED <<users, nextId, pc, req, found, code, tokens>> /\ clock' \in {clock, clock + 1}
    BY <1>7 DEF Tick, vars
  <2>2. RowsInv' /\ TokensInv' /\ OneAccountPerAddress' /\ TokenNamesItsOwner'
    BY <1>1, <2>1, TableKept
  <2>3. \A t \in Slot : CallOK(t)'
    BY <2>1 DEF AccountsInv, CallOK, LookupEmail
  <2> QED BY <2>2, <2>3 DEF AccountsInv
<1> QED BY <1>3, <1>4, <1>5, <1>6, <1>7 DEF Next

\* The empty table satisfies the invariant.
LEMMA InitInv == Init => AccountsInv
BY DEF Init, AccountsInv, RowsInv, TokensInv, CallOK, OneAccountPerAddress, TokenNamesItsOwner

-----------------------------------------------------------------------------
(* Theorems.                                                               *)

\* The inductive invariant of registration and login: rows are only added, never
\* changed, under fresh ids and with canonical addresses.
THEOREM AccountsInvariant == Spec => [](TypeOK /\ AccountsInv)
<1>1. Init => TypeOK /\ AccountsInv
  BY InitType, InitInv
<1>2. TypeOK /\ AccountsInv /\ [Next]_vars => TypeOK' /\ AccountsInv'
  BY NextType, NextKeepsInv
<1> QED BY <1>1, <1>2, PTL DEF Spec

\* However registrations overlap, fail or are abandoned, an address has one
\* account at most, in whatever spelling it was typed.
THEOREM OneAccount == Spec => []OneAccountPerAddress
<1>1. AccountsInv => OneAccountPerAddress
  BY DEF AccountsInv
<1> QED BY <1>1, AccountsInvariant, PTL

\* Every token ever issued names the user of the address that was logged in, and
\* was issued for a password that this user's hash matches.
THEOREM TokensNameTheirOwners == Spec => []TokenNamesItsOwner
<1>1. AccountsInv => TokenNamesItsOwner
  BY DEF AccountsInv
<1> QED BY <1>1, AccountsInvariant, PTL

\* Whatever the lifetime and the length of a tick, a token ends less than a second
\* before the expires_in seconds that came with it are over, and is accepted after
\* them for no more than the fraction of a second that JWT_TTL has.
THEOREM TokensLive == Spec => []TokenLife
<1>1. TypeOK /\ AccountsInv => TokenLife
  <2> SUFFICES ASSUME TypeOK, AccountsInv, NEW t \in tokens
               PROVE  /\ Valid(t) =>
                           clock < t.at + t.announced * Second + (TTL % Second)
                      /\ ~Valid(t) => clock > t.at + t.announced * Second - Second
    BY DEF TokenLife
  <2> DEFINE announced == ExpiresIn * Second
             fraction  == TTL % Second
  <2>1. t.at \in Time /\ t.exp = Expiry(t.at) /\ t.announced = ExpiresIn
    BY DEF TypeOK, Token, AccountsInv, TokensInv
  <2>2. t.exp \in Nat /\ t.exp <= t.at + TTL /\ t.at + TTL < t.exp + Second
    BY <2>1, ExpiryBounds
  <2>3. clock \in Nat /\ t.at \in Nat /\ TTL \in Nat /\ Second \in Nat
    BY <2>1, AccountsAssumption DEF TypeOK, Time
  <2>4. TTL = announced + fraction /\ fraction \in Nat
    BY ExpiresInBounds
  <2>5. announced \in Nat
    <3>1. ExpiresIn \in Nat
      BY ExpiresInBounds
    <3> HIDE DEF fraction
    <3> QED BY <2>3, <3>1
  <2> HIDE DEF announced, fraction
  <2>6. /\ Valid(t) => clock < t.at + announced + fraction
        /\ ~Valid(t) => clock > t.at + announced - Second
    BY <2>2, <2>3, <2>4, <2>5 DEF Valid
  <2> QED BY <2>1, <2>6 DEF announced, fraction
<1> QED BY <1>1, AccountsInvariant, PTL

\* Type correctness of Accounts.
THEOREM AccountsTypeCorrect == Spec => []TypeOK
BY AccountsInvariant, PTL

-----------------------------------------------------------------------------
(* The table as the directory sees it.                                     *)

\* The password of a registered address is the one in its only row.
LEMMA PasswordOfRow ==
  ASSUME AccountsInv, NEW i \in Id, users[i] # NoUser
  PROVE  PasswordOf(users[i].email.address) = users[i].hash.of
<1> DEFINE address == users[i].email.address
           HasIt(j) == users[j] # NoUser /\ users[j].email.address = address
           chosen == CHOOSE j \in Id : HasIt(j)
<1>1. HasIt(i)
  OBVIOUS
<1>2. chosen \in Id /\ HasIt(chosen)
  BY <1>1
<1>3. chosen = i
  BY <1>2 DEF AccountsInv, OneAccountPerAddress
<1>4. PasswordOf(address) = users[chosen].hash.of
  BY <1>1 DEF PasswordOf
<1> QED BY <1>3, <1>4

\* The same of the next state.
LEMMA PasswordOfRowNext ==
  (AccountsInv => \A i \in Id : users[i] # NoUser =>
                    PasswordOf(users[i].email.address) = users[i].hash.of)'
<1>1. AccountsInv => \A i \in Id : users[i] # NoUser =>
                       PasswordOf(users[i].email.address) = users[i].hash.of
  BY PasswordOfRow
<1> QED BY <1>1, PTL

\* An address without a row has no password.
LEMMA PasswordOfNobody ==
  ASSUME NEW a, \A i \in Id : users[i] # NoUser => users[i].email.address # a
  PROVE  PasswordOf(a) = None
BY DEF PasswordOf

\* The directory does not change when the table does not.
LEMMA SameTable ==
  ASSUME UNCHANGED users
  PROVE  passwordsBar' = passwordsBar
BY DEF passwordsBar, PasswordOf

\* UsersWith finds the rows of an address, however it is typed.
LEMMA UsersWithAddress ==
  ASSUME TypeOK, AccountsInv, NEW e \in Email
  PROVE  \A i \in Id : users[i] # NoUser =>
           (i \in UsersWith(Canonical(e)) <=> users[i].email.address = e.address)
<1> SUFFICES ASSUME NEW i \in Id, users[i] # NoUser
             PROVE  users[i].email = Canonical(e) <=> users[i].email.address = e.address
  BY DEF UsersWith
<1>1. users[i].email \in Email /\ users[i].email.plain
  BY DEF TypeOK, User, AccountsInv, RowsInv
<1>2. Canonical(e) \in Email /\ Canonical(e).address = e.address /\ Canonical(e).plain
  BY CanonicalType
<1> QED BY <1>1, <1>2 DEF Email

-----------------------------------------------------------------------------
(* The calls as the directory sees them.                                   *)

\* A slot whose variables do not change serves the same call.
LEMMA SameCall ==
  ASSUME NEW s \in Slot, pc'[s] = pc[s], req'[s] = req[s], found'[s] = found[s],
         code'[s] = code[s]
  PROVE  DirectoryCall(s)' = DirectoryCall(s)
BY DEF DirectoryCall, PasswordMatches, CheckPassword

\* The end of a request is the directory's Finish.
LEMMA AnswerIsFinish ==
  ASSUME TypeOK, NEW s \in Slot, NEW c, Answer(s, c)
  PROVE  callBar' = [callBar EXCEPT ![s] = IF pc[s] = "orphan" THEN Promise!Idle
                                                              ELSE Promise!Done(c)]
<1>1. DirectoryCall(s)' = IF pc[s] = "orphan" THEN Promise!Idle ELSE Promise!Done(c)
  <2>1. req'[s] = Promise!NoCall
    BY DEF Answer, TypeOK, NoCall, Promise!NoCall
  <2>2. CASE pc[s] = "orphan"
    <3>1. pc'[s] = "idle" /\ code'[s] = "none"
      BY <2>2 DEF Answer, TypeOK
    <3> QED BY <2>1, <2>2, <3>1 DEF DirectoryCall, Promise!Idle
  <2>3. CASE pc[s] # "orphan"
    <3>1. pc'[s] = "answered" /\ code'[s] = c
      BY <2>3 DEF Answer, TypeOK
    <3> QED BY <2>1, <2>3, <3>1 DEF DirectoryCall, Promise!Done
  <2> QED BY <2>2, <2>3
<1>2. \A t \in Slot \ {s} : DirectoryCall(t)' = DirectoryCall(t)
  BY SameCall DEF Answer, TypeOK
<1> QED BY <1>1, <1>2 DEF callBar

\* The directory's view of a slot, at each point of a request.
LEMMA CallAt ==
  ASSUME AccountsInv, NEW s \in Slot
  PROVE  /\ pc[s] = "idle" => callBar[s] = Promise!Idle
         /\ pc[s] = "answered" => callBar[s] = Promise!Done(code[s])
         /\ pc[s] \in {"insert", "select"} =>
              callBar[s] = [status |-> "open", req |-> req[s], code |-> "none"]
         /\ pc[s] = "orphan" =>
              callBar[s] = [status |-> "lost", req |-> req[s], code |-> "none"]
         /\ pc[s] = "compare" =>
              callBar[s] = Promise!Done(IF PasswordMatches(s) THEN "ok" ELSE "unauthorized")
<1>1. CallOK(s) /\ callBar[s] = DirectoryCall(s)
  BY DEF AccountsInv, callBar
<1>2. NoCall = Promise!NoCall
  BY DEF NoCall, Promise!NoCall
<1> USE DEF CallOK, DirectoryCall, Promise!Idle, Promise!Done
<1>3. pc[s] = "idle" => callBar[s] = Promise!Idle
  BY <1>1, <1>2
<1>4. pc[s] = "answered" => callBar[s] = Promise!Done(code[s])
  BY <1>1, <1>2
<1>5. pc[s] \in {"insert", "select"} =>
        callBar[s] = [status |-> "open", req |-> req[s], code |-> "none"]
  BY <1>1
<1>6. pc[s] = "orphan" =>
        callBar[s] = [status |-> "lost", req |-> req[s], code |-> "none"]
  BY <1>1
<1>7. pc[s] = "compare" =>
        callBar[s] = Promise!Done(IF PasswordMatches(s) THEN "ok" ELSE "unauthorized")
  BY <1>1, <1>2
<1> QED BY <1>3, <1>4, <1>5, <1>6, <1>7

-----------------------------------------------------------------------------
(* The steps.                                                              *)

\* The first state of the directory is empty and idle.
LEMMA InitRefines == Init => Promise!Init
<1> SUFFICES ASSUME Init PROVE Promise!Init
  OBVIOUS
<1>1. passwordsBar = [a \in Address |-> None]
  BY PasswordOfNobody DEF Init, passwordsBar
<1>2. callBar = [s \in Slot |-> Promise!Idle]
  <2> SUFFICES ASSUME NEW s \in Slot PROVE DirectoryCall(s) = Promise!Idle
    BY DEF callBar
  <2> QED BY DEF Init, DirectoryCall, Promise!Idle, NoCall, Promise!NoCall
<1> QED BY <1>1, <1>2 DEF Promise!Init

\* A request that is refused for what it says.
LEMMA RefuseRefines ==
  ASSUME TypeOK, AccountsInv, NEW s \in Slot, pc[s] = "idle",
         NEW c \in {"bad_request", "validation_error"}, Answer(s, c), UNCHANGED users
  PROVE  Promise!Next
<1>1. callBar[s] = Promise!Idle
  BY CallAt
<1>2. callBar' = [callBar EXCEPT ![s] = Promise!Done(c)]
  BY AnswerIsFinish
<1>3. UNCHANGED passwordsBar
  BY SameTable
<1>4. callBar[s].status = "idle"
  BY <1>1 DEF Promise!Idle
<1>5. \E code_1 \in {"bad_request", "validation_error"} :
         callBar' = [callBar EXCEPT ![s] = Promise!Done(code_1)]
  BY <1>2
<1>6. Promise!Refuse(s)
  BY <1>3, <1>4, <1>5 DEF Promise!Refuse
<1> QED BY <1>6 DEF Promise!Next

\* A request that is accepted.
LEMMA AcceptRefines ==
  ASSUME TypeOK, AccountsInv, NEW s \in Slot, NEW e \in Email, NEW p \in Password,
         NEW op, NEW next, Accept(s, op, e, p, next),
         <<op, next>> \in {<<"register", "insert">>, <<"login", "select">>},
         op = "register" => AcceptsRegister(e, p)
  PROVE  Promise!Next
<1> DEFINE open == [status |-> "open", code |-> "none",
                    req |-> [op |-> op, email |-> e, password |-> p]]
<1>1. callBar[s] = Promise!Idle /\ CallOK(s)
  BY CallAt DEF Accept, AccountsInv
<1>2. DirectoryCall(s)' = open
  <2>1. pc'[s] = next /\ req'[s] = [op |-> op, email |-> e, password |-> p]
          /\ code'[s] = "none"
    BY <1>1 DEF Accept, TypeOK, CallOK
  <2> QED BY <2>1 DEF DirectoryCall
<1>3. \A t \in Slot \ {s} : DirectoryCall(t)' = DirectoryCall(t)
  BY SameCall DEF Accept, TypeOK
<1> HIDE DEF open
<1>4. callBar' = [callBar EXCEPT ![s] = open]
  BY <1>2, <1>3 DEF callBar
<1>5. passwordsBar' = passwordsBar
  BY SameTable DEF Accept
<1>6. e \in Promise!Email /\ (op = "register" => Promise!AcceptsRegister(e, p))
  BY DEF Email, Promise!Email, AcceptsRegister, Promise!AcceptsRegister, Canonical,
         Promise!Canonical
<1>7. op \in {"register", "login"}
  OBVIOUS
<1>8. \E e_1 \in Promise!Email, p_1 \in Password, op_1 \in {"register", "login"} :
         /\ op_1 = "register" => Promise!AcceptsRegister(e_1, p_1)
         /\ callBar' = [callBar EXCEPT ![s] =
                          [status |-> "open", code |-> "none",
                           req |-> [op |-> op_1, email |-> e_1, password |-> p_1]]]
  BY <1>4, <1>6, <1>7 DEF open
<1>9. callBar[s].status = "idle"
  BY <1>1 DEF Promise!Idle
<1>10. Promise!Invoke(s)
  BY <1>5, <1>8, <1>9 DEF Promise!Invoke
<1> QED BY <1>10 DEF Promise!Next

\* The end of a request that the directory has not answered yet.
LEMMA FinishAt ==
  ASSUME TypeOK, NEW s \in Slot, NEW c, Answer(s, c)
  PROVE  Promise!Finish(s, c)
<1>1. callBar[s].status = "lost" <=> pc[s] = "orphan"
  BY DEF callBar, DirectoryCall
<1>2. callBar' = [callBar EXCEPT ![s] = IF pc[s] = "orphan" THEN Promise!Idle
                                                            ELSE Promise!Done(c)]
  BY AnswerIsFinish
<1> QED BY <1>1, <1>2 DEF Promise!Finish

\* A new row is a new registration and changes nobody else's password.
LEMMA NewRow ==
  ASSUME TypeOK, AccountsInv, AccountsInv', SequenceLeft,
         NEW e \in Email, NEW p \in Password, UsersWith(Canonical(e)) = {},
         users' = [users EXCEPT ![nextId] =
                     [id |-> nextId, email |-> Canonical(e), hash |-> HashPassword(p)]]
  PROVE  /\ passwordsBar[e.address] = None
         /\ passwordsBar' = [passwordsBar EXCEPT ![e.address] = p]
<1> DEFINE address == e.address
           row == [id |-> nextId, email |-> Canonical(e), hash |-> HashPassword(p)]
<1>1. nextId \in Id /\ users[nextId] = NoUser
  <2>1. nextId \in Nat /\ nextId \in Id
    BY AccountsAssumption DEF TypeOK, SequenceLeft, Id
  <2>2. ~(nextId < nextId)
    BY <2>1
  <2> QED BY <2>1, <2>2 DEF AccountsInv, RowsInv
<1>2. address \in Address /\ row # NoUser
  <2>1. address \in Address
    BY DEF Email
  <2>2. Canonical(e) \in Email /\ HashPassword(p) \in Hash
    BY CanonicalType DEF HashPassword, Hash
  <2>3. row \in User
    BY <1>1, <2>2 DEF User
  <2> QED BY <2>1, <2>3, NoUserAssumption
<1>3. row.email.address = address /\ row.hash.of = p
  BY CanonicalType DEF HashPassword
<1>4. users'[nextId] = row /\ \A i \in Id \ {nextId} : users'[i] = users[i]
  BY <1>1 DEF TypeOK
<1>5. \A i \in Id : users[i] # NoUser => users[i].email.address # address
  BY UsersWithAddress DEF UsersWith
<1> HIDE DEF row, address
<1>6. PasswordOf(address) = None
  BY <1>5, PasswordOfNobody
<1>7. PasswordOf(address)' = p
  BY <1>1, <1>2, <1>3, <1>4, PasswordOfRowNext
<1>8. ASSUME NEW a \in Address \ {address} PROVE PasswordOf(a)' = PasswordOf(a)
  <2>1. CASE \E i \in Id : users[i] # NoUser /\ users[i].email.address = a
    <3>1. PICK i \in Id : users[i] # NoUser /\ users[i].email.address = a
      BY <2>1
    <3>2. PasswordOf(a) = users[i].hash.of
      BY <3>1, PasswordOfRow
    <3>3. users'[i] = users[i]
      BY <1>1, <1>4, <3>1
    <3>4. PasswordOf(a)' = users'[i].hash.of
      BY <3>1, <3>3, PasswordOfRowNext
    <3> QED BY <3>2, <3>3, <3>4
  <2>2. CASE \A i \in Id : users[i] # NoUser => users[i].email.address # a
    <3>1. ASSUME NEW i \in Id, users'[i] # NoUser PROVE users'[i].email.address # a
      <4>1. CASE i = nextId
        BY <1>2, <1>3, <1>4, <4>1
      <4>2. CASE i # nextId
        BY <1>4, <2>2, <3>1, <4>2
      <4> QED BY <4>1, <4>2
    <3>2. PasswordOf(a)' = None
      BY <3>1 DEF PasswordOf
    <3> QED BY <2>2, <3>2, PasswordOfNobody
  <2> QED BY <2>1, <2>2
<1>9. passwordsBar[address] = None
  BY <1>2, <1>6 DEF passwordsBar
<1>10. passwordsBar' = [passwordsBar EXCEPT ![address] = p]
  BY <1>2, <1>7, <1>8 DEF passwordsBar
<1> QED BY <1>9, <1>10 DEF address

\* INSERT registers an address that nobody had, or finds that it is taken.
LEMMA InsertEffect ==
  ASSUME TypeOK, AccountsInv, AccountsInv', NEW s \in Slot, InsertUser(s),
         NEW e \in Email, NEW p \in Password, e = req[s].email, p = req[s].password
  PROVE  \/ /\ Answer(s, "created")
            /\ passwordsBar[e.address] = None
            /\ passwordsBar' = [passwordsBar EXCEPT ![e.address] = p]
         \/ /\ Answer(s, "conflict")
            /\ passwordsBar[e.address] # None
            /\ UNCHANGED passwordsBar
<1>1. StoredEmail(s) = Canonical(e) /\ e.address \in Address /\ SequenceLeft
  BY DEF StoredEmail, Email, InsertUser
<1>2. CASE UsersWith(StoredEmail(s)) = {}
  <2>1. /\ Answer(s, "created")
        /\ users' = [users EXCEPT ![nextId] =
                       [id |-> nextId, email |-> Canonical(e), hash |-> HashPassword(p)]]
    BY <1>1, <1>2 DEF InsertUser
  <2> QED BY <1>1, <1>2, <2>1, NewRow
<1>3. CASE UsersWith(StoredEmail(s)) # {}
  <2>1. PICK i \in Id : users[i] # NoUser /\ users[i].email = Canonical(e)
    BY <1>1, <1>3 DEF UsersWith
  <2>2. PasswordOf(e.address) = users[i].hash.of
    BY <2>1, CanonicalType, PasswordOfRow
  <2>3. users[i].hash.of # None
    BY <2>1, AccountsAPIAssumption DEF TypeOK, User, Hash
  <2>4. passwordsBar[e.address] # None
    BY <1>1, <2>2, <2>3 DEF passwordsBar
  <2> QED BY <1>3, <2>4, SameTable DEF InsertUser
<1> QED BY <1>2, <1>3

\* So it is a step of the directory.
LEMMA InsertRefines ==
  ASSUME TypeOK, AccountsInv, AccountsInv', NEW s \in Slot, InsertUser(s)
  PROVE  Promise!Next
<1>1. CallOK(s) /\ pc[s] \in {"insert", "orphan"}
  BY DEF AccountsInv, InsertUser
<1>2. PICK e \in Email, p \in Password : e = req[s].email /\ p = req[s].password
  BY <1>1 DEF CallOK
<1>3. callBar[s].req.op = "register" /\ callBar[s].req.email.address = e.address
        /\ callBar[s].req.password = p
  <2>1. callBar[s].req = req[s]
    BY <1>1 DEF callBar, DirectoryCall
  <2>2. req[s].op = "register"
    BY <1>1 DEF CallOK
  <2> QED BY <1>2, <2>1, <2>2
<1>4. CASE /\ Answer(s, "created")
           /\ passwordsBar[e.address] = None
           /\ passwordsBar' = [passwordsBar EXCEPT ![e.address] = p]
  <2>1. Promise!Finish(s, "created")
    BY <1>4, FinishAt
  <2>2. Promise!Register(s)
    BY <1>3, <1>4, <2>1 DEF Promise!Register
  <2> QED BY <2>2 DEF Promise!Next
<1>5. CASE /\ Answer(s, "conflict")
           /\ passwordsBar[e.address] # None
           /\ UNCHANGED passwordsBar
  <2>1. Promise!Finish(s, "conflict")
    BY <1>5, FinishAt
  <2>2. Promise!Conflict(s)
    BY <1>3, <1>5, <2>1 DEF Promise!Conflict
  <2> QED BY <2>2 DEF Promise!Next
<1> QED BY <1>2, <1>4, <1>5, InsertEffect

\* Reading the user decides the login.
LEMMA SelectRefines ==
  ASSUME TypeOK, AccountsInv, NEW s \in Slot, SelectUser(s)
  PROVE  Promise!Next
<1> DEFINE match == found'[s] # NoUser /\ CheckPassword(found'[s].hash, req[s].password)
           verdict == IF match THEN "ok" ELSE "unauthorized"
           Right(kept, p) == \/ kept = p
                             \/ kept # None /\ Promise!BcryptConfuses(kept, p)
<1>1. CallOK(s) /\ pc[s] = "select" /\ found[s] = NoUser
  BY DEF AccountsInv, SelectUser, CallOK
<1>2. PICK e \in Email, p \in Password : e = req[s].email /\ p = req[s].password
  BY <1>1 DEF CallOK
<1>3. callBar[s].req.op = "login" /\ callBar[s].req.email.address = e.address
        /\ callBar[s].req.password = p /\ callBar[s].status = "open"
  <2>1. callBar[s].req = req[s] /\ callBar[s].status = "open"
    BY <1>1 DEF callBar, DirectoryCall
  <2>2. req[s].op = "login"
    BY <1>1 DEF CallOK
  <2> QED BY <1>2, <2>1, <2>2
<1>4. LookupEmail(s) = Canonical(e) /\ e.address \in Address
  BY <1>2 DEF LookupEmail, Email
<1>5. match <=> Right(passwordsBar[e.address], p)
  <2>1. CASE \E i \in UsersWith(LookupEmail(s)) : found' = [found EXCEPT ![s] = users[i]]
    <3>1. PICK i \in Id : users[i] # NoUser /\ users[i].email = Canonical(e)
                           /\ found' = [found EXCEPT ![s] = users[i]]
      BY <1>4, <2>1 DEF UsersWith
    <3>2. PasswordOf(e.address) = users[i].hash.of
      BY <3>1, CanonicalType, PasswordOfRow
    <3>3. found'[s] = users[i] /\ users[i].hash.of \in Password
      BY <3>1 DEF TypeOK, User, Hash
    <3>4. passwordsBar[e.address] = users[i].hash.of
      BY <1>4, <3>2 DEF passwordsBar
    <3>5. match <=> Significant(users[i].hash.of) = Significant(p)
      BY <1>2, <3>1, <3>3 DEF CheckPassword
    <3>6. users[i].hash.of # None
      BY <3>3, AccountsAPIAssumption
    <3> HIDE DEF match
    <3> QED BY <3>4, <3>5, <3>6 DEF Promise!BcryptConfuses
  <2>2. CASE UsersWith(LookupEmail(s)) = {} /\ UNCHANGED found
    <3>1. \A i \in Id : users[i] # NoUser => users[i].email.address # e.address
      BY <1>4, <2>2, UsersWithAddress DEF UsersWith
    <3>2. passwordsBar[e.address] = None
      BY <1>4, <3>1, PasswordOfNobody DEF passwordsBar
    <3> QED BY <1>1, <2>2, <3>2, AccountsAPIAssumption
  <2> QED BY <2>1, <2>2 DEF SelectUser
<1>6. DirectoryCall(s)' = Promise!Done(verdict)
  <2>1. pc'[s] = "compare" /\ req' = req
    BY DEF SelectUser, TypeOK
  <2>2. PasswordMatches(s)' <=> match
    BY <2>1 DEF PasswordMatches, CheckPassword
  <2>3. NoCall = Promise!NoCall
    BY DEF NoCall, Promise!NoCall
  <2> QED BY <2>1, <2>2, <2>3 DEF DirectoryCall, Promise!Done
<1>7. \A t \in Slot \ {s} : DirectoryCall(t)' = DirectoryCall(t)
  BY SameCall DEF SelectUser, TypeOK
<1>8. callBar' = [callBar EXCEPT ![s] = Promise!Done(verdict)]
  BY <1>6, <1>7 DEF callBar
<1>9. verdict = IF Right(passwordsBar[e.address], p) THEN "ok" ELSE "unauthorized"
  BY <1>5
<1> HIDE DEF verdict
<1>10. Promise!Finish(s, IF Right(passwordsBar[e.address], p) THEN "ok" ELSE "unauthorized")
  BY <1>3, <1>8, <1>9 DEF Promise!Finish
<1>11. UNCHANGED passwordsBar
  BY SameTable DEF SelectUser
<1>12. Promise!Login(s)
  BY <1>3, <1>10, <1>11 DEF Promise!Login
<1> QED BY <1>12 DEF Promise!Next

\* The login was decided when the user was read: nothing happens now.
LEMMA CompareRefines ==
  ASSUME TypeOK, AccountsInv, NEW s \in Slot, Compare(s)
  PROVE  UNCHANGED <<passwordsBar, callBar>>
<1>1. pc[s] = "compare" /\ UNCHANGED users
  BY DEF Compare
<1>2. PICK c : /\ c = IF PasswordMatches(s) THEN "ok" ELSE "unauthorized"
               /\ Answer(s, c)
  BY DEF Compare
<1>3. callBar[s] = Promise!Done(c)
  BY <1>1, <1>2, CallAt
<1>4. callBar' = [callBar EXCEPT ![s] = Promise!Done(c)]
  BY <1>1, <1>2, AnswerIsFinish
<1>5. callBar = [t \in Slot |-> callBar[t]]
  BY DEF callBar
<1>6. UNCHANGED callBar
  BY <1>3, <1>4, <1>5
<1> QED BY <1>1, <1>6, SameTable

\* A statement that fails is a failed request.
LEMMA RollbackRefines ==
  ASSUME TypeOK, AccountsInv, NEW s \in Slot, Rollback(s)
  PROVE  Promise!Next
<1>1. callBar[s].status \in {"open", "lost"}
  BY DEF Rollback, callBar, DirectoryCall
<1>2. Promise!Finish(s, "internal_error")
  BY FinishAt DEF Rollback
<1>3. UNCHANGED passwordsBar
  BY SameTable DEF Rollback
<1>4. Promise!Fail(s)
  BY <1>1, <1>2, <1>3 DEF Promise!Fail
<1> QED BY <1>4 DEF Promise!Next

\* The answer that is sent is the directory's.
LEMMA RespondRefines ==
  ASSUME TypeOK, AccountsInv, NEW s \in Slot, Respond(s)
  PROVE  Promise!Next
<1>1. CallOK(s) /\ pc[s] = "answered" /\ req[s] = NoCall
  BY DEF AccountsInv, CallOK, Respond
<1>2. callBar[s].status = "done"
  BY <1>1 DEF callBar, DirectoryCall
<1>3. pc'[s] = "idle" /\ code'[s] = "none" /\ req' = req
  BY DEF Respond, TypeOK
<1>4. DirectoryCall(s)' = Promise!Idle
  BY <1>1, <1>3 DEF DirectoryCall, Promise!Idle, NoCall, Promise!NoCall
<1>5. \A t \in Slot \ {s} : DirectoryCall(t)' = DirectoryCall(t)
  BY SameCall DEF Respond, TypeOK
<1>6. callBar' = [callBar EXCEPT ![s] = Promise!Idle]
  BY <1>4, <1>5 DEF callBar
<1>7. UNCHANGED passwordsBar
  BY SameTable DEF Respond
<1>8. Promise!Return(s)
  BY <1>2, <1>6, <1>7 DEF Promise!Return
<1> QED BY <1>8 DEF Promise!Next

\* A client that goes away, before or after its request took effect.
LEMMA AbandonRefines ==
  ASSUME TypeOK, AccountsInv, NEW s \in Slot, Abandon(s)
  PROVE  Promise!Next
<1>1. CallOK(s) /\ pc[s] \in {"insert", "select", "compare", "answered"}
  BY DEF AccountsInv, Abandon
<1>2. UNCHANGED passwordsBar
  BY SameTable DEF Abandon
<1>3. \A t \in Slot \ {s} : DirectoryCall(t)' = DirectoryCall(t)
  BY SameCall DEF Abandon, TypeOK
<1>4. CASE pc[s] = "insert"
  <2>1. callBar[s] = [status |-> "open", req |-> req[s], code |-> "none"]
    BY <1>4, CallAt
  <2>2. pc'[s] = "orphan" /\ req' = req /\ code' = code /\ code[s] = "none"
    BY <1>1, <1>4 DEF Abandon, TypeOK, CallOK
  <2>3. DirectoryCall(s)' = [callBar[s] EXCEPT !.status = "lost"]
    BY <2>1, <2>2 DEF DirectoryCall
  <2>4. callBar' = [callBar EXCEPT ![s].status = "lost"]
    BY <1>3, <2>3 DEF callBar
  <2>5. callBar[s].status = "open"
    BY <2>1
  <2>6. Promise!Abandon(s)
    BY <1>2, <2>4, <2>5 DEF Promise!Abandon
  <2> QED BY <2>6 DEF Promise!Next
<1>5. CASE pc[s] # "insert"
  <2>1. callBar[s].status \in {"open", "done"}
    BY <1>1, <1>5 DEF callBar, DirectoryCall
  <2>2. pc'[s] = "idle" /\ req'[s] = NoCall /\ code'[s] = "none"
    BY <1>5 DEF Abandon, TypeOK
  <2>3. DirectoryCall(s)' = Promise!Idle
    BY <2>2 DEF DirectoryCall, Promise!Idle, NoCall, Promise!NoCall
  <2>4. callBar' = [callBar EXCEPT ![s] = Promise!Idle]
    BY <1>3, <2>3 DEF callBar
  <2>5. Promise!Abandon(s)
    BY <1>2, <2>1, <2>4 DEF Promise!Abandon
  <2> QED BY <2>5 DEF Promise!Next
<1> QED BY <1>4, <1>5

\* Every step is a step of the directory, or none.
LEMMA NextRefines ==
  ASSUME TypeOK, AccountsInv, AccountsInv', [Next]_vars
  PROVE  Promise!Next \/ UNCHANGED <<passwordsBar, callBar>>
<1>1. ASSUME NEW s \in Slot, RefuseBody(s) PROVE Promise!Next
  BY <1>1, RefuseRefines DEF RefuseBody
<1>2. ASSUME NEW s \in Slot, NEW e \in Email, NEW p \in Password,
             Register(s, e, p) \/ Login(s, e, p)
      PROVE  Promise!Next
  <2>1. CASE AcceptsRegister(e, p) /\ Accept(s, "register", e, p, "insert")
    BY <2>1, AcceptRefines
  <2>2. CASE Accept(s, "login", e, p, "select")
    BY <2>2, AcceptRefines
  <2>3. CASE pc[s] = "idle" /\ Answer(s, "validation_error") /\ UNCHANGED users
    BY <2>3, RefuseRefines
  <2> QED BY <1>2, <2>1, <2>2, <2>3 DEF Register, Login
<1>3. ASSUME NEW s \in Slot,
             InsertUser(s) \/ SelectUser(s) \/ Rollback(s) \/ Respond(s) \/ Abandon(s)
      PROVE  Promise!Next
  BY <1>3, InsertRefines, SelectRefines, RollbackRefines, RespondRefines, AbandonRefines
<1>4. ASSUME NEW s \in Slot, Compare(s) PROVE UNCHANGED <<passwordsBar, callBar>>
  BY <1>4, CompareRefines
<1>5. CASE Tick \/ UNCHANGED vars
  <2>1. UNCHANGED users
    BY <1>5 DEF Tick, vars
  <2>2. \A t \in Slot : DirectoryCall(t)' = DirectoryCall(t)
    BY <1>5, SameCall DEF Tick, vars
  <2>3. UNCHANGED callBar
    BY <2>2 DEF callBar
  <2> QED BY <2>1, <2>3, SameTable
<1> QED BY <1>1, <1>2, <1>3, <1>4, <1>5 DEF Next

-----------------------------------------------------------------------------
\* However requests overlap, fail or are abandoned, every answer is the one of
\* an atomic directory of addresses and passwords.
THEOREM AccountsRefinesDirectory == Spec => ImplementsDirectory
<1>1. Init => Promise!Init
  BY InitRefines
<1>2. TypeOK /\ AccountsInv /\ AccountsInv' /\ [Next]_vars => [Promise!Next]_(Promise!vars)
  BY NextRefines DEF Promise!vars
<1> QED BY <1>1, <1>2, AccountsInvariant, PTL DEF Spec, ImplementsDirectory, Promise!Spec

-----------------------------------------------------------------------------
(* What a step may never do to the accounts.                               *)

\* Only an INSERT changes what the directory shows.
LEMMA OnlyInsertRegisters ==
  ASSUME [Next]_vars, \A s \in Slot : ~InsertUser(s)
  PROVE  UNCHANGED passwordsBar
<1>1. UNCHANGED users
  BY DEF Next, RefuseBody, Register, Login, Accept, SelectUser, Compare, Rollback, Respond,
         Abandon, Tick, vars
<1> QED BY <1>1, SameTable

\* A password that matches what Login has read is the one of the address, or looks
\* like it to bcrypt.
LEMMA FoundIsCurrent ==
  ASSUME TypeOK, AccountsInv, NEW s \in Slot, pc[s] = "compare", PasswordMatches(s)
  PROVE  LET kept == passwordsBar[req[s].email.address]
         IN  kept = req[s].password \/ BcryptConfuses(kept, req[s].password)
<1>1. /\ CallOK(s) /\ found[s] # NoUser
      /\ Significant(found[s].hash.of) = Significant(req[s].password)
  BY DEF AccountsInv, PasswordMatches, CheckPassword
<1>2. PICK e \in Email : e = req[s].email
  BY <1>1 DEF CallOK
<1>3. found[s].id \in Id /\ users[found[s].id] = found[s]
  BY <1>1 DEF CallOK, TypeOK, User
<1>4. found[s].email.address = e.address /\ e.address \in Address
  BY <1>1, <1>2, CanonicalType DEF CallOK, LookupEmail, Email
<1>5. PasswordOf(users[found[s].id].email.address) = users[found[s].id].hash.of
  BY <1>1, <1>3, PasswordOfRow
<1>6. passwordsBar[req[s].email.address] = found[s].hash.of
  BY <1>2, <1>3, <1>4, <1>5 DEF passwordsBar
<1> QED BY <1>1, <1>6 DEF BcryptConfuses

\* The answers that are more than a refusal.
LEMMA AnswerIsTrue ==
  ASSUME TypeOK, AccountsInv, AccountsInv', [Next]_vars,
         NEW s \in Slot, pc[s] # "answered", pc'[s] = "answered",
         code'[s] \in {"created", "conflict", "ok"}
  PROVE  LET a == req[s].email.address
             p == req[s].password
         IN  /\ code'[s] = "created" => passwordsBar[a] = None /\ passwordsBar'[a] = p
             /\ code'[s] = "conflict" => passwordsBar[a] # None
             /\ code'[s] = "ok" =>
                  passwordsBar[a] = p \/ BcryptConfuses(passwordsBar[a], p)
<1>1. ASSUME NEW c, Answer(s, c)
      PROVE  code'[s] = c
  BY <1>1 DEF Answer, TypeOK
<1>2. CASE InsertUser(s)
  <2>1. PICK e \in Email, p \in Password : e = req[s].email /\ p = req[s].password
    BY <1>2 DEF AccountsInv, CallOK, InsertUser
  <2>2. passwordsBar = [a \in Address |-> passwordsBar[a]] /\ e.address \in Address
    BY DEF passwordsBar, Email
  <2> QED BY <1>1, <1>2, <2>1, <2>2, InsertEffect
<1>3. CASE Compare(s)
  <2>1. CASE PasswordMatches(s) /\ Answer(s, "ok")
    BY <1>1, <1>3, <2>1, FoundIsCurrent DEF Compare
  <2>2. CASE Answer(s, "unauthorized")
    BY <1>1, <2>2
  <2> QED BY <1>3, <2>1, <2>2 DEF Compare
<1>4. ~RefuseBody(s) /\ ~Rollback(s)
  BY <1>1 DEF RefuseBody, Rollback
<1>5. \A e \in Email, p \in Password : ~Register(s, e, p) /\ ~Login(s, e, p)
  BY <1>1 DEF Register, Login, Accept, TypeOK
<1>6. ~SelectUser(s) /\ ~Respond(s) /\ ~Abandon(s) /\ ~Tick /\ ~UNCHANGED vars
  BY DEF SelectUser, Respond, Abandon, TypeOK, Tick, vars
<1>7. PICK t \in Slot :
        \/ RefuseBody(t) \/ InsertUser(t) \/ SelectUser(t) \/ Compare(t)
        \/ Rollback(t) \/ Respond(t) \/ Abandon(t)
        \/ \E e \in Email, p \in Password : Register(t, e, p) \/ Login(t, e, p)
  BY <1>6 DEF Next
<1>8. t = s
  <2>1. \E c : pc' = [pc EXCEPT ![t] = c]
    BY <1>7
    DEF RefuseBody, InsertUser, SelectUser, Compare, Rollback, Respond, Abandon, Register,
        Login, Accept, Answer
  <2> QED BY <2>1 DEF TypeOK
<1> QED BY <1>2, <1>3, <1>4, <1>5, <1>6, <1>7, <1>8

\* No overlap of registrations, and no repetition of one, replaces a password.
THEOREM PasswordsStay == Spec => PasswordsAreKept
<1>1. ASSUME TypeOK, AccountsInv, AccountsInv', [Next]_vars, NEW a \in Address,
             passwordsBar[a] # None
      PROVE  passwordsBar'[a] = passwordsBar[a]
  <2>1. ASSUME NEW s \in Slot, InsertUser(s)
        PROVE  passwordsBar'[a] = passwordsBar[a]
    <3>1. PICK e \in Email, p \in Password : e = req[s].email /\ p = req[s].password
      BY <1>1, <2>1 DEF AccountsInv, CallOK, InsertUser
    <3>2. \/ /\ passwordsBar[e.address] = None
             /\ passwordsBar' = [passwordsBar EXCEPT ![e.address] = p]
          \/ UNCHANGED passwordsBar
      BY <1>1, <2>1, <3>1, InsertEffect
    <3>3. passwordsBar = [b \in Address |-> passwordsBar[b]]
      BY DEF passwordsBar
    <3> QED BY <1>1, <3>2, <3>3
  <2> QED BY <1>1, <2>1, OnlyInsertRegisters
<1>2. TypeOK /\ AccountsInv /\ AccountsInv' /\ [Next]_vars =>
        [\A a \in Address :
           passwordsBar[a] # None => passwordsBar'[a] = passwordsBar[a]]_vars
  BY <1>1
<1> QED BY <1>2, AccountsInvariant, PTL DEF Spec, PasswordsAreKept

\* What a registration or a login answers is true of the table at that moment; the
\* password of a login that succeeds is the one of the address, or one that bcrypt
\* takes for it.
THEOREM AnswersTrue == Spec => AnswersAreTrue
<1>1. TypeOK /\ AccountsInv /\ AccountsInv' /\ [Next]_vars =>
        [\A s \in Slot : pc[s] # "answered" /\ pc'[s] = "answered" =>
           LET a == req[s].email.address
               p == req[s].password
           IN  /\ code'[s] = "created" => passwordsBar[a] = None /\ passwordsBar'[a] = p
               /\ code'[s] = "conflict" => passwordsBar[a] # None
               /\ code'[s] = "ok" =>
                    passwordsBar[a] = p \/ BcryptConfuses(passwordsBar[a], p)]_vars
  BY AnswerIsTrue
<1> QED BY <1>1, AccountsInvariant, PTL DEF Spec, AnswersAreTrue
=============================================================================

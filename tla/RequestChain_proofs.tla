------------------------- MODULE RequestChain_proofs -------------------------
(***************************************************************************)
(* Proofs about module RequestChain, for any subjects of tokens.           *)
(***************************************************************************)
EXTENDS RequestChain, SequenceTheorems, TLAPS

Invariant == TypeOK /\ ChainInv

\* The functions of the chains.
Name == {"RequestID", "Logger", "Recovery", "CORS", "BodyLimit", "Auth", "handler"}

\* Its length, and which function is where.
LEMMA ChainAt ==
  /\ Chain = <<>> <=> request.route = "slash"
  /\ Len(Chain) = IF request.route = "slash" THEN 0 ELSE IF request.route = "protected" THEN 7 ELSE 6
  /\ request.route # "slash" =>
       /\ Chain[1] = "RequestID" /\ Chain[2] = "Logger" /\ Chain[3] = "Recovery"
       /\ Chain[4] = "CORS" /\ Chain[5] = "BodyLimit"
       /\ Chain[6] = IF request.route = "protected" THEN "Auth" ELSE "handler"
       /\ request.route = "protected" => Chain[7] = "handler"
<1>1. /\ Global \in Seq(Name) /\ Len(Global) = 5
      /\ Global[1] = "RequestID" /\ Global[2] = "Logger" /\ Global[3] = "Recovery"
      /\ Global[4] = "CORS" /\ Global[5] = "BodyLimit"
  BY DEF Global, Name
<1>2. CASE request.route = "slash"
  BY <1>2 DEF Chain
<1>3. CASE request.route = "protected"
  <2> DEFINE rest == <<"Auth", "handler">>
  <2>1. rest \in Seq(Name) /\ Len(rest) = 2 /\ rest[1] = "Auth" /\ rest[2] = "handler"
    BY DEF Name
  <2> HIDE DEF rest
  <2>2. /\ Len(Global \o rest) = 7
        /\ \A i \in 1 .. 5 : (Global \o rest)[i] = Global[i]
        /\ \A i \in 6 .. 7 : (Global \o rest)[i] = rest[i - 5]
    <3>1. /\ Len(Global \o rest) = Len(Global) + Len(rest)
          /\ \A i \in 1 .. Len(Global) + Len(rest) : (Global \o rest)[i] =
               IF i <= Len(Global) THEN Global[i] ELSE rest[i - Len(Global)]
      BY <1>1, <2>1, ConcatProperties
    <3> HIDE DEF rest
    <3>2. Len(Global) = 5 /\ Len(rest) = 2
      BY <1>1, <2>1
    <3> QED
      BY <3>1, <3>2
  <2>3. Chain = Global \o rest
    BY <1>3 DEF Chain, rest
  <2>4. Chain # <<>>
    BY <2>2, <2>3
  <2> QED
    BY <1>1, <1>3, <2>1, <2>2, <2>3, <2>4
<1>4. CASE request.route \notin {"slash", "protected"}
  <2> DEFINE rest == <<"handler">>
  <2>1. rest \in Seq(Name) /\ Len(rest) = 1 /\ rest[1] = "handler"
    BY DEF Name
  <2> HIDE DEF rest
  <2>2. /\ Len(Global \o rest) = 6
        /\ \A i \in 1 .. 5 : (Global \o rest)[i] = Global[i]
        /\ (Global \o rest)[6] = rest[1]
    <3>1. /\ Len(Global \o rest) = Len(Global) + Len(rest)
          /\ \A i \in 1 .. Len(Global) + Len(rest) : (Global \o rest)[i] =
               IF i <= Len(Global) THEN Global[i] ELSE rest[i - Len(Global)]
      BY <1>1, <2>1, ConcatProperties
    <3> HIDE DEF rest
    <3>2. Len(Global) = 5 /\ Len(rest) = 1
      BY <1>1, <2>1
    <3> QED
      BY <3>1, <3>2
  <2>3. Chain = Global \o rest
    BY <1>4 DEF Chain, rest
  <2>4. Chain # <<>>
    BY <2>2, <2>3
  <2> QED
    BY <1>1, <1>4, <2>1, <2>2, <2>3, <2>4
<1> QED
  BY <1>2, <1>3, <1>4

\* Where a function that is called stands, and what has happened before.
LEMMA CallsAt ==
  ASSUME Invariant, NEW f, Calls(f)
  PROVE  /\ mode = "run" /\ request.route # "slash" /\ index \in 0 .. 6 /\ index < Len(Chain)
         /\ Len(running) = Depth /\ answers = <<>> /\ log = <<>>
         /\ f = "RequestID" => index = 0
         /\ f = "Logger" => index = 1
         /\ f = "Recovery" => index = 2
         /\ f = "CORS" => index = 3
         /\ f = "BodyLimit" => index = 4
         /\ f = "Auth" => index = 5 /\ request.route = "protected"
         /\ f = "handler" => index = Len(Chain) - 1
<1>1. /\ mode = "run" /\ index \in 0 .. Len(Chain) \cup {Aborted} /\ index < Len(Chain)
      /\ Chain[index + 1] = f
      /\ Len(running) = Depth /\ answers = <<>> /\ log = <<>>
  BY DEF Calls, Invariant, ChainInv, ProgressInv
<1>2. request.route # "slash" /\ Len(Chain) \in {6, 7} /\ index \in 0 .. 6
  BY <1>1, ChainAt DEF Aborted
<1>3. index = 0 \/ index = 1 \/ index = 2 \/ index = 3 \/ index = 4 \/ index = 5 \/ index = 6
  BY <1>2
<1>4. /\ index = 0 => f = "RequestID"
      /\ index = 1 => f = "Logger"
      /\ index = 2 => f = "Recovery"
      /\ index = 3 => f = "CORS"
      /\ index = 4 => f = "BodyLimit"
      /\ index = 5 => f = IF request.route = "protected" THEN "Auth" ELSE "handler"
      /\ index = 6 => f = "handler" /\ request.route = "protected"
  BY <1>1, <1>2, ChainAt
<1> QED
  BY <1>1, <1>2, <1>3, <1>4, ChainAt

\* The first answer.
LEMMA FirstAnswer ==
  ASSUME TypeOK, answers = <<>>,
         NEW status \in Status,
         NEW shape \in {"body", "envelope", "empty"}, Write(status, shape)
  PROVE  /\ answers' \in Seq(Answer) /\ Len(answers') = 1 /\ DOMAIN answers' = {1}
         /\ answers'[1] = [status |-> status, shape |-> shape, id |-> id]
<1> DEFINE a == [status |-> status, shape |-> shape, id |-> id]
<1>1. a \in Answer
  BY DEF Answer, TypeOK
<1>2. answers' = <<a>>
  BY DEF Write
<1> HIDE DEF a
<1>3. <<a>> \in Seq(Answer) /\ Len(<<a>>) = 1 /\ DOMAIN <<a>> = {1} /\ <<a>>[1] = a
  BY <1>1
<1> QED
  BY <1>2, <1>3 DEF a

\* The wrapping functions run in their order.
LEMMA CallNextOuter ==
  ASSUME TypeOK, ProgressInv, NEW f \in {"RequestID", "Logger", "Recovery", "BodyLimit", "Auth"},
         Len(running) < 5, f = Outer[Len(running) + 1], running' = Append(running, f)
  PROVE  /\ running' \in Seq(ToSet(Global) \cup {"Auth"})
         /\ Len(running') = Len(running) + 1 /\ Len(running') <= 5
         /\ \A k \in DOMAIN running' : running'[k] = Outer[k]
<1>1. f \in ToSet(Global) \cup {"Auth"}
  BY DEF ToSet, Global
<1>2. running \in Seq(ToSet(Global) \cup {"Auth"}) /\ Len(running) \in Nat
  <2>1. running \in Seq(ToSet(Global) \cup {"Auth"})
    BY DEF TypeOK
  <2> QED
    BY <2>1
<1>3. /\ running' \in Seq(ToSet(Global) \cup {"Auth"}) /\ Len(running') = Len(running) + 1
      /\ \A k \in 1 .. Len(running) : running'[k] = running[k]
      /\ running'[Len(running) + 1] = f
  BY <1>1, <1>2, AppendProperties
<1>4. DOMAIN running = 1 .. Len(running) /\ DOMAIN running' = 1 .. Len(running) + 1
  BY <1>2, <1>3
<1> QED
  BY <1>2, <1>3, <1>4 DEF ProgressInv

\* What returning leaves of the running functions.
LEMMA FrontOf ==
  ASSUME NEW S, NEW s \in Seq(S), s # <<>>
  PROVE  /\ Front(s) \in Seq(S) /\ Len(Front(s)) = Len(s) - 1
         /\ \A k \in 1 .. Len(s) - 1 : Front(s)[k] = s[k]
         /\ Last(s) = s[Len(s)] /\ Len(s) \in Nat \ {0}
<1>1. Len(s) \in Nat \ {0}
  BY LenProperties, EmptySeq
<1>2. /\ SubSeq(s, 1, Len(s) - 1) \in Seq(S) /\ Len(SubSeq(s, 1, Len(s) - 1)) = Len(s) - 1
      /\ \A k \in 1 .. Len(s) - 1 : SubSeq(s, 1, Len(s) - 1)[k] = s[k]
  <2>1. /\ 1 \in 1 .. Len(s) + 1 /\ Len(s) - 1 \in 0 .. Len(s)
        /\ (Len(s) - 1) - 1 + 1 = Len(s) - 1
    BY <1>1
  <2> QED
    BY <2>1, SubSeqProperties
<1> QED
  BY <1>1, <1>2 DEF Front, Last

\* Which wrapping function runs at which depth.
LEMMA OuterAt ==
  /\ Outer[1] = "RequestID" /\ Outer[2] = "Logger" /\ Outer[3] = "Recovery"
  /\ Outer[4] = "BodyLimit" /\ Outer[5] = "Auth"
BY DEF Outer

\* The lengths of the chains.
LEMMA ChainLength ==
  /\ Len(Chain) = 0 \/ Len(Chain) = 6 \/ Len(Chain) = 7
  /\ Chain # <<>> => Len(Chain) = 6 \/ Len(Chain) = 7
<1>1. Chain = <<>> <=> request.route = "slash"
  BY ChainAt
<1>2. Len(Chain) = IF request.route = "slash" THEN 0 ELSE IF request.route = "protected" THEN 7 ELSE 6
  BY ChainAt
<1> QED
  BY <1>1, <1>2

\* The chain does not change while it runs.
LEMMA ChainStays == request' = request => Chain' = Chain
BY DEF Chain, Global

\* The way down: one more function is running.
LEMMA GoesDown ==
  ASSUME Invariant, NEW f \in {"RequestID", "Logger", "Recovery", "BodyLimit", "Auth"},
         Calls(f), CallNext(f), UNCHANGED <<request, mode, answers, log>>
  PROVE  /\ ProgressInv' /\ index' = index + 1 /\ index' \in 0 .. 7
         /\ running' \in Seq(ToSet(Global) \cup {"Auth"}) /\ Len(running') <= 5
<1>1. /\ mode = "run" /\ request.route # "slash" /\ index \in 0 .. 6 /\ index < Len(Chain)
      /\ Len(running) = Depth /\ answers = <<>> /\ log = <<>>
      /\ f = "RequestID" => index = 0
      /\ f = "Logger" => index = 1
      /\ f = "Recovery" => index = 2
      /\ f = "BodyLimit" => index = 4
      /\ f = "Auth" => index = 5 /\ request.route = "protected"
  BY CallsAt
<1>2. Len(running) < 5 /\ f = Outer[Len(running) + 1]
  BY <1>1 DEF Depth, Outer
<1>3. TypeOK /\ ProgressInv
  BY DEF Invariant, ChainInv
<1>4. /\ running' \in Seq(ToSet(Global) \cup {"Auth"})
      /\ Len(running') = Len(running) + 1 /\ Len(running') <= 5
      /\ \A k \in DOMAIN running' : running'[k] = Outer[k]
  BY <1>2, <1>3, CallNextOuter DEF CallNext
<1>5. index' = index + 1 /\ Chain' = Chain /\ Len(Chain) \in {6, 7} /\ Chain # <<>>
      /\ (f = "Auth" => Len(Chain) = 7)
  BY <1>1, ChainStays, ChainAt DEF CallNext, Proceed
<1>6. index' \in 0 .. Len(Chain) /\ index' < Len(Chain) /\ Len(running') = Depth'
  <2>1. (Len(Chain) = 6 \/ Len(Chain) = 7) /\ index \in Int
    BY <1>1, <1>5
  <2>2. index + 1 < Len(Chain) /\ 0 <= index + 1
    <3>1. index \in {0, 1, 2, 4} \/ (index = 5 /\ Len(Chain) = 7)
      BY <1>1, <1>5
    <3> DEFINE n == Len(Chain)
    <3>2. (n = 6 \/ n = 7) /\ (index \in {0, 1, 2, 4} \/ (index = 5 /\ n = 7))
      BY <2>1, <3>1
    <3> HIDE DEF n
    <3>3. index + 1 < n /\ 0 <= index + 1
      BY <3>2
    <3> QED
      BY <3>3 DEF n
  <2>3. Len(running) + 1 = IF index + 1 <= 3 THEN index + 1 ELSE index
    BY <1>1 DEF Depth
  <2> QED
    BY <1>4, <1>5, <2>1, <2>2, <2>3 DEF Depth
<1>7. ProgressInv'
  BY <1>1, <1>4, <1>5, <1>6 DEF ProgressInv
<1> QED
  BY <1>1, <1>4, <1>5, <1>7

\* The turning point: the chain is answered and nothing further starts.
LEMMA TurnsBack ==
  ASSUME Invariant, NEW f \in {"CORS", "Auth", "handler"}, Calls(f),
         NEW status \in Status,
         NEW shape \in {"body", "envelope", "empty"}, Write(status, shape),
         index' = Aborted \/ (f = "handler" /\ index' = index + 1),
         UNCHANGED <<request, running, mode, id, log>>
  PROVE  /\ ProgressInv' /\ index' \in 0 .. Aborted
         /\ answers' \in Seq(Answer) /\ DOMAIN answers' = {1}
         /\ answers'[1] = [status |-> status, shape |-> shape, id |-> id]
<1>1. /\ mode = "run" /\ request.route # "slash" /\ index \in 0 .. 6 /\ index < Len(Chain)
      /\ Len(running) = Depth /\ answers = <<>> /\ log = <<>>
      /\ f = "CORS" => index = 3
      /\ f = "Auth" => index = 5
      /\ f = "handler" => index = Len(Chain) - 1
  BY CallsAt
<1>2. TypeOK /\ ProgressInv
  BY DEF Invariant, ChainInv
<1>3. /\ answers' \in Seq(Answer) /\ Len(answers') = 1 /\ DOMAIN answers' = {1}
      /\ answers'[1] = [status |-> status, shape |-> shape, id |-> id]
  BY <1>1, <1>2, FirstAnswer
<1>4. Chain' = Chain /\ Len(Chain) \in {6, 7} /\ Chain # <<>>
  BY <1>1, ChainStays, ChainAt
<1>5. Len(running) >= 3
  <2> DEFINE n == Len(Chain)
  <2>1. (n = 6 \/ n = 7) /\ (index = 3 \/ index = 5 \/ index = n - 1)
    BY <1>1, <1>4
  <2> HIDE DEF n
  <2>2. index = 3 \/ index = 5 \/ index = 6
    BY <2>1
  <2>3. Len(running) = Depth
    BY <1>1
  <2> QED
    BY <2>2, <2>3 DEF Depth
<1>6. /\ index' \in 0 .. Len(Chain) \cup {Aborted} /\ index' >= Len(Chain)
      /\ index' \in 0 .. Aborted
  <2> DEFINE n == Len(Chain)
  <2>1. (n = 6 \/ n = 7) /\ (index' = 63 \/ index' = n)
    BY <1>1, <1>4 DEF Aborted
  <2> HIDE DEF n
  <2>2. index' \in 0 .. n \cup {63} /\ index' >= n /\ index' \in 0 .. 63
    <3>1. CASE index' = 63
      BY <2>1, <3>1
    <3>2. CASE index' = n
      BY <2>1, <3>2
    <3> QED
      BY <2>1, <3>1, <3>2
  <2> QED
    BY <2>2 DEF n, Aborted
<1>8. ProgressInv'
  BY <1>1, <1>2, <1>3, <1>4, <1>5, <1>6 DEF ProgressInv
<1> QED
  BY <1>3, <1>6, <1>8

\* An answer carries the ID of its request, because RequestID has run before.
LEMMA IdKnown ==
  ASSUME Invariant, NEW f \in {"CORS", "Auth", "handler"}, Calls(f)
  PROVE  id = IdFor(request.id) /\ index \in 3 .. 6
<1>1. index \in 0 .. 6
  BY CallsAt
<1>2. index \in 3 .. 6
  BY <1>1, CallsAt, ChainAt
<1> QED
  BY <1>2 DEF Invariant, ChainInv, IdentityInv
-----------------------------------------------------------------------------
(* The steps.                                                              *)

\* The parts of the invariant, before and after a step.
LEMMA Parts ==
  Invariant => TypeOK /\ ProgressInv /\ IdentityInv /\ ActsForTokenOwner /\ ErrorsCarryId
BY DEF Invariant, ChainInv

LEMMA PartsHere ==
  TypeOK /\ ProgressInv /\ IdentityInv /\ ActsForTokenOwner /\ ErrorsCarryId => Invariant
BY DEF Invariant, ChainInv

LEMMA PartsNext ==
  TypeOK' /\ ProgressInv' /\ IdentityInv' /\ ActsForTokenOwner' /\ ErrorsCarryId' => Invariant'
BY DEF Invariant, ChainInv

\* A token of the right subject.
LEMMA ParsedUser ==
  ASSUME NEW token \in Token, Parse(token) # 0
  PROVE  /\ token.signed /\ token.fresh /\ Parse(token) = token.sub /\ token.sub > 0
         /\ Parse(token) \in Subject
BY DEF Parse, Token

\* RequestID settles the request's ID.
LEMMA RequestIDStep == Invariant /\ RequestID => Invariant'
<1> SUFFICES ASSUME Invariant, RequestID PROVE Invariant'
  OBVIOUS
<1> USE Parts
<1>1. /\ Calls("RequestID") /\ CallNext("RequestID") /\ id' = IdFor(request.id)
      /\ UNCHANGED <<request, mode, user, answers, log, acted>>
  BY DEF RequestID
<1>2. index = 0 /\ answers = <<>>
  BY <1>1, CallsAt
<1>3. /\ ProgressInv' /\ index' = 1
      /\ running' \in Seq(ToSet(Global) \cup {"Auth"}) /\ Len(running') <= 5
  BY <1>1, <1>2, GoesDown
<1>4. TypeOK'
  <2>1. id' \in {"", "given", "generated"} /\ index' \in 0 .. Aborted
    BY <1>1, <1>3 DEF IdFor, Aborted
  <2> QED
    BY <1>1, <1>3, <2>1 DEF TypeOK
<1>5. IdentityInv'
  BY <1>1, <1>3 DEF IdentityInv, IdFor
<1>6. ActsForTokenOwner'
  BY <1>1 DEF ActsForTokenOwner
<1>7. ErrorsCarryId'
  BY <1>1, <1>2 DEF ErrorsCarryId
<1> QED
  BY <1>3, <1>4, <1>5, <1>6, <1>7, PartsNext

\* Logger, Recovery and BodyLimit go on.
LEMMA PassOnStep == Invariant /\ PassOn => Invariant'
<1> SUFFICES ASSUME Invariant, PassOn PROVE Invariant'
  OBVIOUS
<1> USE Parts
<1>1. PICK f \in {"Logger", "Recovery", "BodyLimit"} : Calls(f) /\ CallNext(f)
  BY DEF PassOn
<1>2. UNCHANGED <<request, mode, id, user, answers, log, acted>>
  BY DEF PassOn
<1>3. index \in {1, 2, 4} /\ answers = <<>>
  BY <1>1, CallsAt
<1>4. /\ ProgressInv' /\ index' = index + 1
      /\ running' \in Seq(ToSet(Global) \cup {"Auth"}) /\ Len(running') <= 5
  BY <1>1, <1>2, GoesDown
<1>5. TypeOK'
  <2>1. index' \in 0 .. Aborted
    BY <1>3, <1>4 DEF Aborted
  <2> QED
    BY <1>2, <1>4, <2>1 DEF TypeOK
<1>6. IdentityInv'
  BY <1>2, <1>3, <1>4 DEF IdentityInv, IdFor
<1>7. ActsForTokenOwner'
  BY <1>2 DEF ActsForTokenOwner
<1>8. ErrorsCarryId'
  BY <1>2, <1>3 DEF ErrorsCarryId
<1> QED
  BY <1>4, <1>5, <1>6, <1>7, <1>8, PartsNext

\* Whoever answers with an error but CORS uses the envelope, and no user is there
\* yet whom it could act for.
LEMMA TurnsBackStep ==
  ASSUME Invariant, NEW f \in {"CORS", "Auth", "handler"}, Calls(f),
         NEW status \in Status,
         NEW shape \in {"body", "envelope", "empty"}, Write(status, shape),
         index' = Aborted \/ (f = "handler" /\ index' = index + 1),
         status >= 400 /\ request.origin # "denied" => shape = "envelope",
         UNCHANGED <<request, running, mode, id, user, log>>,
         acted' = acted \/ (f = "handler" /\ acted' = acted \cup {user})
  PROVE  Invariant'
<1> USE Parts
<1>1. /\ ProgressInv' /\ index' \in 0 .. Aborted
      /\ answers' \in Seq(Answer) /\ DOMAIN answers' = {1}
      /\ answers'[1] = [status |-> status, shape |-> shape, id |-> id]
  BY TurnsBack
<1>2. id = IdFor(request.id) /\ index \in 3 .. 6
  BY IdKnown
<1>3. /\ f = "handler" /\ request.route = "protected" => index = 6
      /\ index' \in {6, 7} => f = "handler" /\ index' = index + 1
  BY CallsAt, ChainAt DEF Aborted
<1>4. f = "handler" /\ request.route = "protected" =>
        /\ request.authorization.bearer /\ user > 0
        /\ user = Parse(request.authorization.token)
  BY <1>3 DEF IdentityInv
<1>5. request.authorization.token \in Token
  BY DEF TypeOK, Request, Authorization
<1>6. TypeOK'
  BY <1>1 DEF TypeOK
<1>7. IdentityInv'
  BY <1>2, <1>3, <1>4 DEF IdentityInv, IdFor, Parse
<1>8. ActsForTokenOwner'
  <2>1. f = "handler" /\ request.route = "protected" =>
          LET token == request.authorization.token
          IN  /\ request.authorization.bearer /\ token.signed /\ token.fresh
              /\ user = token.sub /\ user > 0
    BY <1>4, <1>5, ParsedUser
  <2>2. request.route # "protected" => user = 0
    BY DEF IdentityInv
  <2> QED
    BY <2>1, <2>2 DEF ActsForTokenOwner
<1>9. ErrorsCarryId'
  BY <1>1, <1>2 DEF ErrorsCarryId, IdFor
<1> QED
  BY <1>1, <1>6, <1>7, <1>8, <1>9, PartsNext

\* CORS answers what it refuses and the preflights, and goes on otherwise.
LEMMA CORSStep == Invariant /\ CORS => Invariant'
<1> SUFFICES ASSUME Invariant, CORS PROVE Invariant'
  OBVIOUS
<1> USE Parts
<1>1. Calls("CORS") /\ UNCHANGED <<request, running, mode, id, user, log, acted>>
  BY DEF CORS
<1>2. CASE request.origin = "denied"
  <2>1. Write(403, "empty") /\ index' = Aborted
    BY <1>2 DEF CORS, AbortFrom
  <2> QED
    BY <1>1, <1>2, <2>1, TurnsBackStep DEF Status
<1>3. CASE request.origin # "denied" /\ Write(204, "empty") /\ index' = Aborted
  BY <1>1, <1>3, TurnsBackStep DEF Status
<1>4. CASE index' = index + 1 /\ UNCHANGED answers
  <2>1. /\ mode = "run" /\ request.route # "slash" /\ index = 3 /\ index < Len(Chain)
        /\ Len(running) = Depth /\ answers = <<>> /\ log = <<>>
    BY <1>1, CallsAt
  <2>2. Chain' = Chain /\ (Len(Chain) = 6 \/ Len(Chain) = 7) /\ Chain # <<>>
    BY <1>1, <2>1, ChainAt, ChainStays
  <2>3. index' = 4 /\ Len(running) = 3 /\ 4 < Len(Chain) /\ 4 \in 0 .. Len(Chain)
    BY <1>4, <2>1, <2>2 DEF Depth
  <2>4. ProgressInv'
    BY <1>1, <1>4, <2>1, <2>2, <2>3 DEF ProgressInv, Depth
  <2>5. TypeOK'
    <3>1. index' \in 0 .. Aborted
      BY <2>3 DEF Aborted
    <3> QED
      BY <1>1, <1>4, <3>1 DEF TypeOK
  <2>6. IdentityInv' /\ ActsForTokenOwner' /\ ErrorsCarryId'
    BY <1>1, <1>4, <2>1, <2>3 DEF IdentityInv, ActsForTokenOwner, ErrorsCarryId, IdFor
  <2> QED
    BY <2>4, <2>5, <2>6, PartsNext
<1> QED
  BY <1>2, <1>3, <1>4 DEF CORS, AbortFrom, Proceed

\* Auth refuses, or lets the owner of the token through.
LEMMA AuthStep == Invariant /\ Auth => Invariant'
<1> SUFFICES ASSUME Invariant, Auth PROVE Invariant'
  OBVIOUS
<1> USE Parts
<1> DEFINE header == request.authorization
           subject == IF header.bearer THEN Parse(header.token) ELSE 0
<1>1. Calls("Auth") /\ UNCHANGED <<request, mode, id, log, acted>>
  BY DEF Auth
<1>2. CASE subject = 0
  <2>1. Write(401, "envelope") /\ index' = Aborted /\ UNCHANGED <<user, running>>
    BY <1>2 DEF Auth, Error, AbortFrom
  <2> QED
    BY <1>1, <2>1, TurnsBackStep DEF Status
<1>3. CASE subject # 0
  <2>1. user' = subject /\ CallNext("Auth") /\ UNCHANGED answers
    BY <1>3 DEF Auth
  <2>2. header.token \in Token
    BY DEF TypeOK, Request, Authorization
  <2>3. header.bearer /\ subject = Parse(header.token) /\ subject > 0 /\ subject \in Subject
    BY <1>3, <2>2, ParsedUser
  <2>4. index = 5 /\ request.route = "protected" /\ answers = <<>>
    BY <1>1, CallsAt
  <2>5. /\ ProgressInv' /\ index' = 6
        /\ running' \in Seq(ToSet(Global) \cup {"Auth"}) /\ Len(running') <= 5
    BY <1>1, <2>1, <2>4, GoesDown
  <2>6. TypeOK'
    <3>1. index' \in 0 .. Aborted /\ user' \in Subject \cup {0}
      BY <2>1, <2>3, <2>5 DEF Aborted
    <3> QED
      BY <1>1, <2>1, <2>5, <3>1 DEF TypeOK
  <2>7. IdentityInv'
    BY <1>1, <2>1, <2>3, <2>4, <2>5 DEF IdentityInv, IdFor, Parse
  <2>8. ActsForTokenOwner' /\ ErrorsCarryId'
    BY <1>1, <2>1, <2>4 DEF ActsForTokenOwner, ErrorsCarryId
  <2> QED
    BY <2>5, <2>6, <2>7, <2>8, PartsNext
<1> QED
  BY <1>2, <1>3

\* A handler answers or panics, for the user that Auth has let through.
LEMMA HandleStep == Invariant /\ Handle => Invariant'
<1> SUFFICES ASSUME Invariant, Handle PROVE Invariant'
  OBVIOUS
<1> USE Parts
<1>1. Calls("handler") /\ UNCHANGED <<request, running, id, user, log>>
  BY DEF Handle
<1>2. ASSUME NEW status \in {400, 404, 405, 500, 503}, Error(status), UNCHANGED mode,
             acted' = acted \/ acted' = acted \cup {user}
      PROVE  Invariant'
  <2>1. Write(status, "envelope") /\ index' = Aborted
    BY <1>2 DEF Error, AbortFrom
  <2> QED
    BY <1>1, <1>2, <2>1, TurnsBackStep DEF Status
<1>3. ASSUME Write(200, "body"), index' = index + 1, UNCHANGED mode, acted' = acted \cup {user}
      PROVE  Invariant'
  BY <1>1, <1>3, TurnsBackStep DEF Status
<1>4. ASSUME mode' = "panic", UNCHANGED <<index, answers>>, acted' = acted \cup {user}
      PROVE  Invariant'
  <2>1. /\ mode = "run" /\ request.route # "slash" /\ index < Len(Chain)
        /\ Len(running) = Depth /\ answers = <<>> /\ log = <<>> /\ index = Len(Chain) - 1
    BY <1>1, CallsAt
  <2>2. Chain' = Chain /\ (Len(Chain) = 6 \/ Len(Chain) = 7) /\ Chain # <<>>
    BY <1>1, <2>1, ChainAt, ChainStays
  <2>3. (index = 5 \/ index = 6) /\ Len(running) >= 3
    BY <2>1, <2>2 DEF Depth
  <2>4. ProgressInv'
    BY <1>1, <1>4, <2>1, <2>2, <2>3 DEF ProgressInv
  <2>5. TypeOK'
    BY <1>1, <1>4 DEF TypeOK
  <2>6. IdentityInv' /\ ErrorsCarryId'
    BY <1>1, <1>4, <2>1 DEF IdentityInv, ErrorsCarryId, IdFor, Parse
  <2>7. request.route = "protected" => index = 6
    BY <1>1, CallsAt, ChainAt
  <2>8. request.authorization.token \in Token
    BY DEF TypeOK, Request, Authorization
  <2>9. request.route = "protected" =>
          LET token == request.authorization.token
          IN  /\ request.authorization.bearer /\ token.signed /\ token.fresh
              /\ user = token.sub /\ user > 0
    BY <2>7, <2>8, ParsedUser DEF IdentityInv
  <2>10. ActsForTokenOwner'
    BY <1>1, <1>4, <2>9 DEF ActsForTokenOwner, IdentityInv
  <2> QED
    BY <2>4, <2>5, <2>6, <2>10, PartsNext
<1>5. CASE Error(404) /\ UNCHANGED <<mode, acted>>
  BY <1>2, <1>5
<1>6. CASE (Error(405) \/ Error(400)) /\ UNCHANGED <<mode, acted>>
  BY <1>2, <1>6
<1>7. CASE /\ acted' = acted \cup {user}
           /\ \/ Write(200, "body") /\ index' = index + 1 /\ UNCHANGED mode
              \/ (Error(404) \/ Error(500) \/ Error(503)) /\ UNCHANGED mode
              \/ mode' = "panic" /\ UNCHANGED <<index, answers>>
  BY <1>2, <1>3, <1>4, <1>7
<1>8. request.does \in {"ok", "refused", "broken", "panic"}
  BY DEF TypeOK, Request
<1> QED
  BY <1>5, <1>6, <1>7, <1>8 DEF Handle, Proceed

\* The way up: functions return, and Logger writes its line.
LEMMA ReturnStep == Invariant /\ Return => Invariant'
<1> SUFFICES ASSUME Invariant, Return PROVE Invariant'
  OBVIOUS
<1> USE Parts
<1>1. /\ mode = "run" /\ index >= Len(Chain) /\ running # <<>> /\ running' = Front(running)
      /\ log' = IF Last(running) = "Logger" THEN Append(log, Last(answers).status) ELSE log
      /\ UNCHANGED <<request, index, mode, id, user, answers, acted>>
  BY DEF Return
<1>2. /\ running \in Seq(ToSet(Global) \cup {"Auth"}) /\ Len(running) <= 5
      /\ answers \in Seq(Answer) /\ log \in Seq(Status)
  BY DEF TypeOK
<1>3. /\ running' \in Seq(ToSet(Global) \cup {"Auth"}) /\ Len(running') = Len(running) - 1
      /\ \A k \in 1 .. Len(running) - 1 : running'[k] = running[k]
      /\ Last(running) = running[Len(running)] /\ Len(running) \in Nat \ {0}
  BY <1>1, <1>2, FrontOf
<1>4. /\ \A k \in DOMAIN running : running[k] = Outer[k]
      /\ DOMAIN running = 1 .. Len(running) /\ DOMAIN running' = 1 .. Len(running) - 1
  BY <1>2, <1>3 DEF ProgressInv
<1>5. Last(running) = Outer[Len(running)]
  BY <1>3, <1>4
<1>6. Last(running) = "Logger" <=> Len(running) = 2
  <2> DEFINE n == Len(running)
  <2>1. n \in Nat \ {0} /\ n <= 5 /\ Last(running) = Outer[n]
    BY <1>2, <1>3, <1>5
  <2> HIDE DEF n
  <2>2. n = 1 \/ n = 2 \/ n = 3 \/ n = 4 \/ n = 5
    BY <2>1
  <2>3. Last(running) = "Logger" <=> n = 2
    BY <2>1, <2>2, OuterAt
  <2> QED
    BY <2>3 DEF n
<1>7. Chain # <<>> /\ Chain' = Chain
  BY <1>1, ChainStays DEF ProgressInv
<1>8. Len(answers) = 1 /\ log = IF Len(running) >= 2 THEN <<>> ELSE <<answers[1].status>>
  BY <1>1, <1>7 DEF ProgressInv
<1>9. answers[1].status \in Status /\ Last(answers) = answers[1]
  <2>1. answers[1] \in Answer
    <3> DEFINE n == Len(answers)
    <3>1. n = 1 /\ answers \in Seq(Answer)
      BY <1>2, <1>8
    <3>2. \A i \in 1 .. n : answers[i] \in Answer
      BY <3>1, ElementOfSeq
    <3> HIDE DEF n
    <3> QED
      BY <3>1, <3>2
  <2>2. \A a \in Answer : a.status \in Status
    BY DEF Answer
  <2> QED
    BY <1>8, <2>1, <2>2 DEF Last
<1>10. log' = IF Len(running') >= 2 THEN <<>> ELSE <<answers[1].status>>
  <2>1. CASE Len(running) = 2
    BY <1>1, <1>3, <1>6, <1>8, <1>9, <2>1
  <2>2. CASE Len(running) # 2
    BY <1>1, <1>3, <1>6, <1>8, <2>2
  <2> QED
    BY <2>1, <2>2
<1>11. log' \in Seq(Status)
  BY <1>9, <1>10
<1>12. TypeOK'
  <2>1. Len(running') <= 5
    <3> DEFINE n == Len(running)
               m == Len(running')
    <3>1. n \in Nat \ {0} /\ n <= 5 /\ m = n - 1
      BY <1>2, <1>3
    <3> HIDE DEF n, m
    <3>2. m <= 5
      BY <3>1
    <3> QED
      BY <3>2 DEF m
  <2> QED
    BY <1>1, <1>3, <1>11, <2>1 DEF TypeOK
<1>13. ProgressInv'
  <2>1. \A k \in DOMAIN running' : running'[k] = Outer[k]
    BY <1>3, <1>4
  <2>2. index' \in 0 .. Len(Chain') \cup {Aborted} /\ index' >= Len(Chain')
    BY <1>1, <1>7 DEF ProgressInv
  <2>3. index' \in Int /\ Len(Chain') \in Int
    BY <1>7, ChainAt, <2>2 DEF Aborted
  <2>4. ~(index' < Len(Chain'))
    BY <2>2, <2>3
  <2> QED
    BY <1>1, <1>7, <1>8, <1>10, <2>1, <2>2, <2>4 DEF ProgressInv
<1>14. IdentityInv' /\ ActsForTokenOwner' /\ ErrorsCarryId'
  BY <1>1 DEF IdentityInv, ActsForTokenOwner, ErrorsCarryId, IdFor, Parse
<1> QED
  BY <1>12, <1>13, <1>14, PartsNext

\* Only a handler panics, so RequestID has run.
LEMMA PanicIdentity == Invariant /\ mode = "panic" => id = IdFor(request.id)
BY Parts DEF ProgressInv, IdentityInv

\* A panic unwinds to Recovery, which answers; Logger is still to come.
LEMMA UnwindStep == Invariant /\ Unwind => Invariant'
<1> SUFFICES ASSUME Invariant, Unwind PROVE Invariant'
  OBVIOUS
<1> USE Parts
<1>1. mode = "panic" /\ UNCHANGED <<request, id, user, log, acted>>
  BY DEF Unwind
<1>2. Len(running) >= 3 /\ answers = <<>> /\ log = <<>> /\ Chain # <<>>
  BY <1>1 DEF ProgressInv
<1>3. running \in Seq(ToSet(Global) \cup {"Auth"}) /\ Len(running) <= 5
  BY DEF TypeOK
<1>4. running # <<>>
  BY <1>2
<1>5. running' = Front(running)
  BY <1>4 DEF Unwind
<1>6. /\ running' \in Seq(ToSet(Global) \cup {"Auth"}) /\ Len(running') = Len(running) - 1
      /\ \A k \in 1 .. Len(running) - 1 : running'[k] = running[k]
      /\ Last(running) = running[Len(running)] /\ Len(running) \in Nat \ {0}
  BY <1>3, <1>4, <1>5, FrontOf
<1>7. /\ \A k \in DOMAIN running : running[k] = Outer[k]
      /\ DOMAIN running = 1 .. Len(running) /\ DOMAIN running' = 1 .. Len(running) - 1
  BY <1>3, <1>6 DEF ProgressInv
<1>8. \A k \in DOMAIN running' : running'[k] = Outer[k]
  BY <1>6, <1>7
<1>9. Last(running) = "Recovery" <=> Len(running) = 3
  <2> DEFINE n == Len(running)
  <2>1. n \in Nat \ {0} /\ n >= 3 /\ n <= 5 /\ Last(running) = Outer[n]
    BY <1>2, <1>3, <1>6, <1>7
  <2> HIDE DEF n
  <2>2. n = 3 \/ n = 4 \/ n = 5
    BY <2>1
  <2>3. Last(running) = "Recovery" <=> n = 3
    BY <2>1, <2>2, OuterAt
  <2> QED
    BY <2>3 DEF n
<1>10. Chain' = Chain /\ (Len(Chain) = 6 \/ Len(Chain) = 7)
  BY <1>1, <1>2, ChainStays, ChainAt
<1>11. CASE Len(running) = 3
  <2>1. mode' = "run" /\ Write(500, "envelope") /\ index' = Aborted
    BY <1>4, <1>9, <1>11 DEF Unwind, Error, AbortFrom
  <2>2. /\ answers' \in Seq(Answer) /\ Len(answers') = 1 /\ DOMAIN answers' = {1}
        /\ answers'[1] = [status |-> 500, shape |-> "envelope", id |-> id]
    BY <1>2, <2>1, FirstAnswer DEF Status
  <2>3. index' \in 0 .. Aborted /\ ~(index' < Len(Chain'))
    <3> DEFINE n == Len(Chain')
    <3>1. (n = 6 \/ n = 7) /\ index' = 63
      BY <1>10, <2>1 DEF Aborted
    <3> HIDE DEF n
    <3>2. index' \in 0 .. 63 /\ ~(index' < n)
      BY <3>1
    <3> QED
      BY <3>2 DEF n, Aborted
  <2>5. Len(running') = 2
    BY <1>6, <1>11
  <2>4. TypeOK'
    <3>1. /\ request' \in Request /\ id' \in {"", "given", "generated"}
          /\ user' \in Subject \cup {0} /\ log' \in Seq(Status)
          /\ acted' \subseteq Subject \cup {0}
      BY <1>1 DEF TypeOK
    <3>2. mode' \in {"run", "panic", "done"} /\ Len(running') <= 5
      BY <2>1, <2>5
    <3> QED
      BY <1>6, <2>2, <2>3, <3>1, <3>2 DEF TypeOK
  <2>6. ProgressInv'
    BY <1>1, <1>2, <1>8, <1>10, <2>1, <2>2, <2>3, <2>5 DEF ProgressInv
  <2>7. IdentityInv'
    BY <1>1, <1>2, <2>1, PanicIdentity DEF IdentityInv, IdFor, Parse, Aborted
  <2>8. ActsForTokenOwner' /\ ErrorsCarryId'
    BY <1>1, <1>2, <2>2, PanicIdentity DEF ActsForTokenOwner, ErrorsCarryId, IdFor
  <2> QED
    BY <2>4, <2>6, <2>7, <2>8, PartsNext
<1>12. CASE Len(running) # 3
  <2>1. UNCHANGED <<mode, index, answers>>
    BY <1>4, <1>9, <1>12 DEF Unwind
  <2>2. Len(running') >= 3 /\ Len(running') <= 5
    BY <1>2, <1>3, <1>6, <1>12
  <2>3. TypeOK'
    BY <1>1, <1>6, <2>1, <2>2 DEF TypeOK
  <2>4. ProgressInv'
    BY <1>1, <1>2, <1>8, <1>10, <2>1, <2>2 DEF ProgressInv
  <2>5. IdentityInv' /\ ActsForTokenOwner' /\ ErrorsCarryId'
    BY <1>1, <2>1 DEF IdentityInv, ActsForTokenOwner, ErrorsCarryId, IdFor, Parse
  <2> QED
    BY <2>3, <2>4, <2>5, PartsNext
<1> QED
  BY <1>11, <1>12

\* ServeHTTP returns; without a chain, gin has redirected.
LEMMA FinishStep == Invariant /\ Finish => Invariant'
<1> SUFFICES ASSUME Invariant, Finish PROVE Invariant'
  OBVIOUS
<1> USE Parts
<1>1. /\ mode = "run" /\ index >= Len(Chain) /\ running = <<>> /\ mode' = "done"
      /\ UNCHANGED <<request, index, running, id, user, log, acted>>
  BY DEF Finish
<1>2. Chain' = Chain
  BY <1>1, ChainStays
<1>3. CASE Chain = <<>>
  <2>1. Write(301, "empty") /\ answers = <<>>
    BY <1>1, <1>3 DEF Finish, ProgressInv
  <2>2. /\ answers' \in Seq(Answer) /\ Len(answers') = 1 /\ DOMAIN answers' = {1}
        /\ answers'[1] = [status |-> 301, shape |-> "empty", id |-> id]
    BY <2>1, FirstAnswer DEF Status
  <2>3. TypeOK'
    BY <1>1, <2>2 DEF TypeOK
  <2>4. ProgressInv'
    BY <1>1, <1>2, <1>3, <2>2 DEF ProgressInv
  <2>5. IdentityInv' /\ ActsForTokenOwner' /\ ErrorsCarryId'
    BY <1>1, <2>2 DEF IdentityInv, ActsForTokenOwner, ErrorsCarryId, IdFor, Parse
  <2> QED
    BY <2>3, <2>4, <2>5, PartsNext
<1>4. CASE Chain # <<>>
  <2>1. UNCHANGED answers
    BY <1>4 DEF Finish
  <2>2. TypeOK'
    BY <1>1, <2>1 DEF TypeOK
  <2>3. ProgressInv'
    BY <1>1, <1>2, <1>4, <2>1 DEF ProgressInv
  <2>4. IdentityInv' /\ ActsForTokenOwner' /\ ErrorsCarryId'
    BY <1>1, <2>1 DEF IdentityInv, ActsForTokenOwner, ErrorsCarryId, IdFor, Parse
  <2> QED
    BY <2>2, <2>3, <2>4, PartsNext
<1> QED
  BY <1>3, <1>4

\* The empty sequence.
LEMMA Nothing ==
  ASSUME NEW S
  PROVE  <<>> \in Seq(S) /\ Len(<<>>) = 0 /\ DOMAIN <<>> = {}
<1>1. <<>> \in Seq(S) /\ (<<>> = <<>> <=> Len(<<>>) = 0)
  BY EmptySeq
<1>2. Len(<<>>) = 0
  BY <1>1
<1>3. DOMAIN <<>> = 1 .. Len(<<>>)
  BY <1>1, LenProperties
<1>4. \A n : n = 0 => 1 .. n = {}
  OBVIOUS
<1> QED
  BY <1>1, <1>2, <1>3, <1>4

\* Every request starts in the invariant.
LEMMA InvariantInit == Init => Invariant
<1> SUFFICES ASSUME Init PROVE Invariant
  OBVIOUS
<1>1. request \in Request /\ mode = "run" /\ id = "" /\ user = 0 /\ acted = {}
  BY DEF Init
<1>2. index = 0
  BY DEF Init
<1>3. running = <<>> /\ answers = <<>> /\ log = <<>>
  BY DEF Init
<1>4. 0 <= 3 /\ 0 \in 0 .. 63 /\ ~(0 >= 1) /\ 0 \notin {6, 7} /\ 0 <= 5
  OBVIOUS
<1>5. /\ running \in Seq(ToSet(Global) \cup {"Auth"}) /\ Len(running) = 0 /\ DOMAIN running = {}
      /\ answers \in Seq(Answer) /\ DOMAIN answers = {} /\ log \in Seq(Status)
  BY <1>3, Nothing
<1>6. TypeOK
  <2>1. index \in 0 .. Aborted
    BY <1>2, <1>4 DEF Aborted
  <2>2. Len(running) <= 5
    BY <1>5, <1>4
  <2> QED
    BY <1>1, <1>5, <2>1, <2>2 DEF TypeOK
<1>7. ProgressInv
  <2>1. index \in 0 .. Len(Chain) /\ (Chain # <<>> => ~(index >= Len(Chain)))
    <3> DEFINE n == Len(Chain)
    <3>1. (n = 0 \/ n = 6 \/ n = 7) /\ (Chain # <<>> => n = 6 \/ n = 7) /\ index = 0
      BY <1>2, ChainLength
    <3> HIDE DEF n
    <3>2. index \in 0 .. n /\ (Chain # <<>> => ~(index >= n))
      BY <3>1
    <3> QED
      BY <3>2 DEF n
  <2>2. Depth = 0
    BY <1>2, <1>4 DEF Depth
  <2>3. \A k \in DOMAIN running : running[k] = Outer[k]
    BY <1>5
  <2> QED
    BY <1>1, <1>5, <1>2, <1>3, <2>1, <2>2, <2>3 DEF ProgressInv
<1>8. IdentityInv
  BY <1>1, <1>2, <1>4 DEF IdentityInv
<1>9. ActsForTokenOwner
  BY <1>1 DEF ActsForTokenOwner
<1>10. ErrorsCarryId
  BY <1>5 DEF ErrorsCarryId
<1> QED
  BY <1>6, <1>7, <1>8, <1>9, <1>10, PartsHere

\* Every step keeps the invariant.
LEMMA InvariantStep == Invariant /\ [Next]_vars => Invariant'
<1> SUFFICES ASSUME Invariant, [Next]_vars PROVE Invariant'
  OBVIOUS
<1>1. CASE Next
  BY <1>1, RequestIDStep, PassOnStep, CORSStep, AuthStep, HandleStep, ReturnStep, UnwindStep,
     FinishStep DEF Next
<1>2. CASE UNCHANGED vars
  <2>1. TypeOK'
    BY <1>2, Parts DEF vars, TypeOK
  <2>2. ProgressInv'
    BY <1>2, Parts, ChainStays DEF vars, ProgressInv, Depth
  <2>3. IdentityInv'
    BY <1>2, Parts DEF vars, IdentityInv, IdFor, Parse
  <2>4. ActsForTokenOwner'
    BY <1>2, Parts DEF vars, ActsForTokenOwner
  <2>5. ErrorsCarryId'
    BY <1>2, Parts DEF vars, ErrorsCarryId
  <2> QED
    BY <2>1, <2>2, <2>3, <2>4, <2>5, PartsNext
<1> QED
  BY <1>1, <1>2

-----------------------------------------------------------------------------
\* The inductive invariant of one request in the middleware, for any subjects.
THEOREM ChainInvariant == Spec => []ChainInv
<1>1. Spec => []Invariant
  BY InvariantInit, InvariantStep, PTL DEF Spec
<1> QED
  BY <1>1, PTL DEF Invariant

\* Type correctness of RequestChain.
THEOREM ChainTypeCorrect == Spec => []TypeOK
<1>1. Spec => []Invariant
  BY InvariantInit, InvariantStep, PTL DEF Spec
<1> QED
  BY <1>1, PTL DEF Invariant

\* A handler behind Auth runs for the subject of a valid token only.
THEOREM OnlyTheOwner == Spec => []ActsForTokenOwner
BY ChainInvariant, PTL DEF ChainInv

\* Errors carry the request's ID in the envelope.
THEOREM ErrorsIdentified == Spec => []ErrorsCarryId
BY ChainInvariant, PTL DEF ChainInv

\* Every request is answered exactly once.
THEOREM OneAnswer == Spec => []AnsweredOnce
<1>1. Spec => []Invariant
  BY InvariantInit, InvariantStep, PTL DEF Spec
<1>2. Invariant => AnsweredOnce
  <2> SUFFICES ASSUME Invariant PROVE AnsweredOnce
    OBVIOUS
  <2>1. TypeOK /\ ProgressInv
    BY Parts
  <2>2. mode \in {"run", "panic", "done"} /\ Len(<<>>) = 0
    BY <2>1 DEF TypeOK
  <2>3. index < Len(Chain) \/ index >= Len(Chain)
    <3> DEFINE n == Len(Chain)
    <3>1. n = 0 \/ n = 6 \/ n = 7
      BY ChainLength
    <3>2. index \in 0 .. 63
      BY <2>1 DEF TypeOK, Aborted
    <3> HIDE DEF n
    <3>3. index < n \/ index >= n
      BY <3>1, <3>2
    <3> QED
      BY <3>3 DEF n
  <2>4. answers = <<>> \/ Len(answers) = 1
    BY <2>1, <2>2, <2>3 DEF ProgressInv
  <2>5. mode = "done" => Len(answers) = 1
    BY <2>1 DEF ProgressInv
  <2>6. Len(answers) <= 1
    <3> DEFINE n == Len(answers)
    <3>1. n = 0 \/ n = 1
      BY <2>2, <2>4
    <3> HIDE DEF n
    <3>2. n <= 1
      BY <3>1
    <3> QED
      BY <3>2 DEF n
  <2> QED
    BY <2>5, <2>6 DEF AnsweredOnce
<1> QED
  BY <1>1, <1>2, PTL

\* The access log has one line per request in the chain, with the status it got.
THEOREM LoggedOnce == Spec => []LoggedAsAnswered
<1>1. Spec => []Invariant
  BY InvariantInit, InvariantStep, PTL DEF Spec
<1>2. Invariant => LoggedAsAnswered
  <2> SUFFICES ASSUME Invariant, mode = "done", request.route # "slash"
               PROVE  log = <<answers[1].status>>
    BY DEF LoggedAsAnswered
  <2>1. ProgressInv /\ Chain # <<>>
    BY Parts, ChainAt
  <2>2. running = <<>> /\ ~(Len(<<>>) >= 2)
    BY <2>1 DEF ProgressInv
  <2> QED
    BY <2>1, <2>2 DEF ProgressInv
<1> QED
  BY <1>1, <1>2, PTL
=============================================================================

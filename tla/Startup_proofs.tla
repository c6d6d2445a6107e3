--------------------------- MODULE Startup_proofs ---------------------------
(***************************************************************************)
(* Proofs about module Startup, for any number of instances, migrations    *)
(* and deaths.                                                             *)
(***************************************************************************)
EXTENDS Startup, TLAPS

\* The two ends of Apply(i) when it meets migration v.
Succeeds(i, v) ==
  /\ Executes(v) /\ Applies(v)
  /\ todo' = [todo EXCEPT ![i] = @ \ {v}] /\ UNCHANGED at
Fails(i, v) ==
  /\ ~Executes(v) /\ at' = [at EXCEPT ![i] = OnError]
  /\ UNCHANGED <<recorded, schema, todo>>

\* What Apply does, with its migration named.
LEMMA ApplyMeets ==
  ASSUME NEW i \in Instance, Apply(i)
  PROVE  /\ at[i] = "applying" /\ UNCHANGED <<versioned, orphans, alone, deaths>>
         /\ \E v \in NextOf(i) : Succeeds(i, v) \/ Fails(i, v)
BY DEF Apply, Succeeds, Fails

\* The transactions that a dead instance may leave are those of its next step.
LEMMA SentType ==
  ASSUME TypeOK, NEW i \in Instance
  PROVE  Sent(i) \subseteq Version \cup {0}
BY DEF TypeOK, Sent, NextOf

\* Every step keeps the types.
LEMMA TypeStep == TypeOK /\ [Next]_vars => TypeOK'
<1> SUFFICES ASSUME TypeOK, [Next]_vars PROVE TypeOK'
  OBVIOUS
<1> USE StartupAssumption DEF TypeOK, Migrating, Version
<1>1. ASSUME NEW i \in Instance, Start(i) PROVE TypeOK'
  BY <1>1 DEF Start, database
<1>2. ASSUME NEW i \in Instance, Ensure(i) PROVE TypeOK'
  BY <1>2 DEF Ensure, database
<1>3. ASSUME NEW i \in Instance, CreateVersionTable(i) PROVE TypeOK'
  BY <1>3 DEF CreateVersionTable
<1>4. ASSUME NEW i \in Instance, List(i) PROVE TypeOK'
  BY <1>4 DEF List, database, Pending
<1>5. ASSUME NEW i \in Instance, Apply(i) PROVE TypeOK'
  <2>1. PICK v \in NextOf(i) : Succeeds(i, v) \/ Fails(i, v)
    BY <1>5, ApplyMeets
  <2>2. UNCHANGED <<versioned, orphans, alone, deaths>> /\ v \in Version
    BY <1>5, ApplyMeets DEF NextOf
  <2>3. CASE Succeeds(i, v)
    BY <2>2, <2>3 DEF Succeeds, Applies
  <2>4. CASE Fails(i, v)
    BY <2>2, <2>4 DEF Fails, OnError
  <2> QED
    BY <2>1, <2>3, <2>4
<1>6. ASSUME NEW i \in Instance, Serve(i) PROVE TypeOK'
  BY <1>6 DEF Serve, database
<1>7. ASSUME NEW i \in Instance, Die(i) PROVE TypeOK'
  <2>1. Sent(i) \subseteq Version \cup {0}
    BY SentType
  <2>2. orphans' \subseteq Version \cup {0}
    BY <1>7, <2>1 DEF Die
  <2> QED
    BY <1>7, <2>2 DEF Die, database
<1>8. ASSUME NEW t \in Version \cup {0}, EndOrphan(t) PROVE TypeOK'
  <2>1. t \in orphans /\ orphans' \subseteq orphans /\ UNCHANGED <<at, todo, alone, deaths>>
    BY <1>8 DEF EndOrphan
  <2>2. CASE t # 0 /\ Applies(t) /\ UNCHANGED versioned
    <3>1. t \in Version
      BY <2>2
    <3> QED
      BY <2>1, <2>2, <3>1 DEF Applies
  <2>3. CASE versioned' \in BOOLEAN /\ UNCHANGED <<recorded, schema>>
    BY <2>1, <2>3
  <2> QED
    BY <1>8, <2>2, <2>3 DEF EndOrphan, database
<1>9. CASE UNCHANGED vars
  BY <1>9 DEF vars
<1> QED
  BY <1>1, <1>2, <1>3, <1>4, <1>5, <1>6, <1>7, <1>8, <1>9 DEF Next

\* The types hold initially.
LEMMA TypeInit == Init => TypeOK
<1> SUFFICES ASSUME Init PROVE TypeOK
  OBVIOUS
<1> USE DEF Init
<1>1. recorded \in [Version -> Nat] /\ versioned \in BOOLEAN /\ schema \subseteq Version
  OBVIOUS
<1>2. at \in [Instance -> Migrating \cup {"down", "serving", "failed"}]
  OBVIOUS
<1>3. /\ todo \in [Instance -> SUBSET Version]
      /\ orphans \subseteq Version \cup {0} /\ alone \subseteq Instance
  OBVIOUS
<1>4. deaths \in 0 .. MaxDeaths
  BY StartupAssumption
<1> QED
  BY <1>1, <1>2, <1>3, <1>4 DEF TypeOK

\* What goose finds pending is what the database lacks.
LEMMA PendingIsMissing ==
  ASSUME TypeOK, VersionsTrackSchema
  PROVE  Pending = Version \ schema
BY DEF TypeOK, VersionsTrackSchema, Pending

\* A migration that is applied extends the schema without a gap if what comes
\* before it is there.
LEMMA AppliesInOrder ==
  ASSUME TypeOK, VersionsTrackSchema,
         NEW v \in Version, 1 .. v - 1 \subseteq schema, Executes(v), Applies(v)
  PROVE  VersionsTrackSchema'
<1> USE StartupAssumption DEF Version
<1>1. v \notin schema /\ recorded[v] = 0
  BY DEF VersionsTrackSchema, Executes
<1>2. recorded' = [recorded EXCEPT ![v] = 1] /\ schema' = schema \cup {v}
  BY <1>1 DEF Applies, TypeOK
<1>3. \A u \in Version : recorded'[u] = IF u \in schema' THEN 1 ELSE 0
  BY <1>1, <1>2 DEF TypeOK, VersionsTrackSchema
<1>4. \A w \in 1 .. v : w \in 1 .. v - 1 \/ w = v
  OBVIOUS
<1>5. 1 .. v \subseteq schema'
  BY <1>2, <1>4
<1>6. ASSUME NEW u \in Version, u \in schema' PROVE 1 .. u \subseteq schema'
  BY <1>2, <1>5, <1>6 DEF VersionsTrackSchema
<1> QED
  BY <1>3, <1>6 DEF VersionsTrackSchema

\* What comes before the next migration of an instance is in the database,
\* because it would be on the same list.
LEMMA NextIsNext ==
  ASSUME TypeOK, NothingSkipped, NEW i \in Instance, at[i] = "applying", NEW v \in NextOf(i)
  PROVE  v \in Version /\ v \in todo[i] /\ 1 .. v - 1 \subseteq schema
<1>1. v \in todo[i] /\ v \in Version /\ \A w \in todo[i] : v <= w
  BY DEF NextOf, TypeOK
<1>2. ASSUME NEW w \in 1 .. v - 1 PROVE w \in schema
  <2>1. w \in Version /\ ~(v <= w)
    BY <1>1, StartupAssumption DEF Version
  <2> QED
    BY <1>1, <2>1 DEF NothingSkipped
<1> QED
  BY <1>1, <1>2

\* Every step keeps the inductive invariant.
LEMMA InvStep == TypeOK /\ TypeOK' /\ StartupInv /\ [Next]_vars => StartupInv'
<1> SUFFICES ASSUME TypeOK, TypeOK', StartupInv, [Next]_vars PROVE StartupInv'
  OBVIOUS
<1> USE DEF StartupInv
<1>1. ASSUME NEW i \in Instance, Start(i) PROVE StartupInv'
  <2> USE <1>1 DEF Start, database
  <2>1. VersionsTrackSchema'
    BY DEF VersionsTrackSchema
  <2>2. ServingHasSchema' /\ NothingSkipped'
    BY DEF ServingHasSchema, NothingSkipped, TypeOK
  <2>3. AloneUndisturbed' /\ AloneNeverFails'
    BY DEF AloneUndisturbed, AloneNeverFails, TypeOK
  <2> QED
    BY <2>1, <2>2, <2>3
<1>2. ASSUME NEW i \in Instance, Ensure(i) PROVE StartupInv'
  BY <1>2 DEF Ensure, database, TypeOK, Migrating, VersionsTrackSchema, ServingHasSchema,
              NothingSkipped, AloneUndisturbed, AloneNeverFails
<1>3. ASSUME NEW i \in Instance, CreateVersionTable(i) PROVE StartupInv'
  BY <1>3 DEF CreateVersionTable, TypeOK, Migrating, VersionsTrackSchema,
              ServingHasSchema, NothingSkipped, AloneUndisturbed, AloneNeverFails
<1>4. ASSUME NEW i \in Instance, List(i) PROVE StartupInv'
  <2> USE <1>4 DEF List, database
  <2>1. VersionsTrackSchema'
    BY DEF VersionsTrackSchema
  <2>2. todo' = [todo EXCEPT ![i] = Version \ schema]
    BY PendingIsMissing
  <2>3. ServingHasSchema' /\ NothingSkipped'
    BY <2>2 DEF ServingHasSchema, NothingSkipped, TypeOK
  <2>4. AloneUndisturbed' /\ AloneNeverFails'
    BY <2>2 DEF AloneUndisturbed, AloneNeverFails, TypeOK, Migrating
  <2> QED
    BY <2>1, <2>3, <2>4
<1>5. ASSUME NEW i \in Instance, Apply(i) PROVE StartupInv'
  <2>1. PICK v \in NextOf(i) : Succeeds(i, v) \/ Fails(i, v)
    BY <1>5, ApplyMeets
  <2>2. at[i] = "applying" /\ UNCHANGED <<versioned, orphans, alone, deaths>>
    BY <1>5, ApplyMeets
  <2>3. v \in Version /\ v \in todo[i] /\ 1 .. v - 1 \subseteq schema
    BY <2>2, NextIsNext
  <2>4. CASE Succeeds(i, v)
    <3>1. VersionsTrackSchema'
      BY <2>3, <2>4, AppliesInOrder DEF Succeeds
    <3>2. schema' = schema \cup {v} /\ todo' = [todo EXCEPT ![i] = @ \ {v}] /\ at' = at
      BY <2>4 DEF Succeeds, Applies
    <3>3. ServingHasSchema' /\ NothingSkipped'
      BY <2>2, <2>3, <3>2 DEF ServingHasSchema, NothingSkipped, TypeOK
    <3>4. AloneUndisturbed' /\ AloneNeverFails'
      BY <2>2, <3>2 DEF AloneUndisturbed, AloneNeverFails, TypeOK, Migrating
    <3> QED
      BY <3>1, <3>3, <3>4
  <2>5. CASE Fails(i, v)
    <3>1. i \notin alone
      BY <2>2, <2>3, <2>5 DEF Fails, Executes, AloneUndisturbed
    <3>2. at' = [at EXCEPT ![i] = "failed"] /\ UNCHANGED <<recorded, schema, todo>>
      BY <2>5 DEF Fails, OnError
    <3>3. VersionsTrackSchema'
      BY <3>2 DEF VersionsTrackSchema
    <3>4. ServingHasSchema' /\ NothingSkipped'
      BY <2>2, <3>2 DEF ServingHasSchema, NothingSkipped, TypeOK
    <3>5. AloneUndisturbed' /\ AloneNeverFails'
      BY <2>2, <3>1, <3>2 DEF AloneUndisturbed, AloneNeverFails, TypeOK, Migrating
    <3> QED
      BY <3>3, <3>4, <3>5
  <2> QED
    BY <2>1, <2>4, <2>5
<1>6. ASSUME NEW i \in Instance, Serve(i) PROVE StartupInv'
  <2> USE <1>6 DEF Serve, database
  <2>1. schema = Version
    BY DEF NothingSkipped, TypeOK
  <2>2. VersionsTrackSchema'
    BY DEF VersionsTrackSchema
  <2>3. ServingHasSchema' /\ NothingSkipped'
    BY <2>1 DEF ServingHasSchema, NothingSkipped, TypeOK, Version
  <2>4. AloneUndisturbed' /\ AloneNeverFails'
    BY DEF AloneUndisturbed, AloneNeverFails, TypeOK, Migrating
  <2> QED
    BY <2>2, <2>3, <2>4
<1>7. ASSUME NEW i \in Instance, Die(i) PROVE StartupInv'
  <2> USE <1>7 DEF Die, database
  <2>1. at' = [at EXCEPT ![i] = "down"] /\ at[i] # "down"
    BY DEF TypeOK, Migrating
  <2>2. VersionsTrackSchema' /\ ServingHasSchema'
    BY <2>1 DEF VersionsTrackSchema, ServingHasSchema, TypeOK
  <2>3. \A t \in Sent(i) : 1 .. t - 1 \subseteq schema
    BY NextIsNext DEF Sent
  <2>4. NothingSkipped'
    BY <2>1, <2>3 DEF NothingSkipped, TypeOK
  <2>5. ASSUME i \in alone, at[i] \in Migrating
        PROVE  \A j \in Instance : at'[j] \notin Migrating
    BY <2>1, <2>5 DEF AloneUndisturbed, TypeOK, Migrating
  <2>6. at[i] \notin Migrating => orphans' = orphans
    BY DEF Sent, Migrating
  <2>7. AloneUndisturbed'
    <3> SUFFICES ASSUME NEW j \in alone, at'[j] \in Migrating
                 PROVE  /\ orphans' = {}
                        /\ \A k \in Instance \ {j} : at'[k] \notin Migrating
                        /\ at'[j] = "applying" => todo'[j] \cap schema' = {}
      BY DEF AloneUndisturbed, Migrating
    <3>1. j \in Instance /\ j # i /\ at'[j] = at[j]
      BY <2>1 DEF TypeOK, Migrating
    <3>2. at[i] \notin Migrating /\ orphans = {}
      BY <3>1 DEF AloneUndisturbed
    <3> QED
      BY <2>1, <2>6, <3>1, <3>2 DEF AloneUndisturbed, TypeOK, Migrating
  <2>8. AloneNeverFails'
    BY <2>1 DEF AloneNeverFails, TypeOK
  <2> QED
    BY <2>2, <2>4, <2>7, <2>8
<1>8. ASSUME NEW t \in Version \cup {0}, EndOrphan(t) PROVE StartupInv'
  <2>1. t \in orphans /\ orphans' = orphans \ {t} /\ UNCHANGED <<at, todo, alone, deaths>>
    BY <1>8 DEF EndOrphan
  <2>2. AloneUndisturbed' /\ AloneNeverFails'
    BY <2>1 DEF AloneUndisturbed, AloneNeverFails, TypeOK, Migrating
  <2>3. CASE UNCHANGED <<recorded, schema>>
    BY <2>1, <2>2, <2>3 DEF VersionsTrackSchema, ServingHasSchema, NothingSkipped
  <2>4. CASE t # 0 /\ Executes(t) /\ Applies(t)
    <3>1. t \in Version /\ 1 .. t - 1 \subseteq schema
      BY <2>1, <2>4 DEF NothingSkipped
    <3>2. VersionsTrackSchema'
      BY <2>4, <3>1, AppliesInOrder
    <3>3. schema' = schema \cup {t}
      BY <2>4 DEF Applies
    <3>4. ServingHasSchema' /\ NothingSkipped'
      BY <2>1, <3>1, <3>3 DEF ServingHasSchema, NothingSkipped
    <3> QED
      BY <2>2, <3>2, <3>4
  <2> QED
    BY <1>8, <2>3, <2>4 DEF EndOrphan, database
<1>9. CASE UNCHANGED vars
  BY <1>9 DEF vars, VersionsTrackSchema, ServingHasSchema,
              NothingSkipped, AloneUndisturbed, AloneNeverFails
<1> QED
  BY <1>1, <1>2, <1>3, <1>4, <1>5, <1>6, <1>7, <1>8, <1>9 DEF Next

\* An empty database satisfies the inductive invariant.
LEMMA InvInit == Init => StartupInv
BY StartupAssumption DEF Init, StartupInv, VersionsTrackSchema, ServingHasSchema,
   NothingSkipped, AloneUndisturbed, AloneNeverFails, Version

-----------------------------------------------------------------------------
\* Type correctness of module Startup.
THEOREM StartupTypeCorrect == Spec => []TypeOK
BY TypeInit, TypeStep, PTL DEF Spec

\* The inductive invariant of Migrate in instances that share a database.
THEOREM StartupInvariant == Spec => []StartupInv
<1>1. Init => TypeOK /\ StartupInv
  BY TypeInit, InvInit
<1>2. TypeOK /\ StartupInv /\ [Next]_vars => (TypeOK /\ StartupInv)'
  BY TypeStep, InvStep
<1> QED
  BY <1>1, <1>2, PTL DEF Spec

\* However many instances start, overlap and die, some with a COMMIT on the way,
\* goose_db_version tells exactly which migrations are in the database, and those
\* are there without a gap.
THEOREM VersionsAreTrue == Spec => []VersionsTrackSchema
BY StartupInvariant, PTL DEF StartupInv

\* Whoever created them, an instance that serves has all its tables.
THEOREM ServesWithSchema == Spec => []ServingHasSchema
BY StartupInvariant, PTL DEF StartupInv

\* Migrate never fails in an instance that has it to itself, however it was
\* interrupted before, once the database has ended the transactions of the dead.
THEOREM SafeOnEveryStartup == Spec => []AloneNeverFails
BY StartupInvariant, PTL DEF StartupInv
=============================================================================

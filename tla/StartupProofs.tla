----------------------------- MODULE StartupProofs -----------------------------
(***************************************************************************)
(* For any number of workers, seeds, attempts and faults: a worker that    *)
(* serves has its schema and registries, and workers that start together   *)
(* do not make each other give up.                                         *)
(***************************************************************************)
EXTENDS Startup, TLAPS

Stages == {"down", "migrate", "ddl", "applied", "seed", "insert", "statuses",
           "seeded", "nats", "serving", "dead"}

SeedStage == {"seed", "insert", "statuses", "seeded"}

WorkerType ==
    [pc : Stages, attempt : 0 .. MaxAttempts, seen : 0 .. Latest,
     missing : SUBSET Seeds, wrote : SUBSET Seeds, put : BOOLEAN]

Types ==
    /\ version \in 0 .. Latest
    /\ ddl \in Workers \cup {NoWorker}
    /\ registry \in SUBSET Seeds
    /\ foreign \in BOOLEAN
    /\ statuses \in SUBSET {1, 2, 3}
    /\ used \in BOOLEAN
    /\ worker \in [Workers -> WorkerType]
    /\ faults \in 0 .. MaxFaults

\* What a worker may rely on where it is: the others only add to the database.
Ready(w) ==
    /\ worker[w].pc \in SeedStage \cup {"nats", "serving"} => version = Latest
    /\ At(w, "insert") => Seeds \subseteq registry \cup worker[w].missing
    /\ worker[w].pc \in {"statuses", "seeded"} => Seeds \subseteq registry \cup worker[w].wrote
    /\ worker[w].pc \in {"nats", "serving"} =>
         Seeds \subseteq registry /\ statuses = CALLBACK_REQUEST_STATUSES

RInv == Types /\ \A w \in Workers : Ready(w)

Calm == MaxAttempts >= 2 /\ faults = 0 /\ ~foreign /\ ~used

\* The first attempt fails only for what another has completed; the second one
\* then finds nothing left to do.
Second(w) ==
    /\ ~At(w, "dead")
    /\ worker[w].pc \in {"ddl", "applied"} => worker[w].attempt = 1
    /\ At(w, "ddl") => version \in {worker[w].seen, Latest}
    /\ At(w, "migrate") /\ worker[w].attempt # 1 => version = Latest
    /\ worker[w].pc \in SeedStage /\ worker[w].attempt # 1 => Seeds \subseteq registry
    /\ At(w, "insert") =>
         \/ worker[w].missing \cap registry = {}
         \/ Seeds \subseteq registry /\ worker[w].attempt = 1

GInv == RInv /\ (Calm => \A w \in Workers : Second(w))

\* Only the record of the worker that steps changes.
Others(w) == \A v \in Workers \ {w} : worker'[v] = worker[v]

LEMMA IdleType == Idle \in WorkerType
<1>1. 0 \in 0 .. MaxAttempts /\ 0 \in 0 .. Latest
  BY StartupAssumption
<1> QED
  BY <1>1 DEF Idle, WorkerType, Stages

\* A failed attempt, whether another follows or not, leaves well-typed records.
LEMMA FailStep ==
    ASSUME Types, NEW w \in Workers, NEW stage \in {"migrate", "seed"}, Fail(w, stage)
    PROVE  /\ worker' \in [Workers -> WorkerType]
           /\ ddl' \in Workers \cup {NoWorker}
           /\ Others(w)
           /\ worker'[w].pc \in {stage, "dead"}
           /\ worker[w].attempt < MaxAttempts =>
                worker'[w].pc = stage /\ worker'[w].attempt = worker[w].attempt + 1
<1>1. worker[w] \in WorkerType /\ worker \in [Workers -> WorkerType]
  BY DEF Types
<1>2. worker[w].attempt \in 0 .. MaxAttempts /\ MaxAttempts \in Nat \ {0}
  BY <1>1, StartupAssumption DEF WorkerType
<1> DEFINE dead == [Idle EXCEPT !.pc = "dead"]
           again == [Idle EXCEPT !.pc = stage, !.attempt = worker[w].attempt + 1]
           after == IF worker[w].attempt >= MaxAttempts THEN dead ELSE again
<1>0. worker' = [worker EXCEPT ![w] = after] /\ ddl' = IF ddl = w THEN NoWorker ELSE ddl
  BY DEF Fail
<1>3. dead \in WorkerType /\ dead.pc = "dead"
  BY IdleType DEF Idle, WorkerType, Stages
<1>4. again.pc = stage /\ again.attempt = worker[w].attempt + 1
  BY DEF Idle
<1>5. ASSUME worker[w].attempt < MaxAttempts
      PROVE  again \in WorkerType
  <2>1. worker[w].attempt + 1 \in 0 .. MaxAttempts
    BY <1>2, <1>5
  <2> QED
    BY <2>1, IdleType DEF Idle, WorkerType, Stages
<1> HIDE DEF dead, again
<1>6. CASE worker[w].attempt >= MaxAttempts
  <2>1. after = dead
    BY <1>6
  <2> HIDE DEF after
  <2> QED
    BY <1>0, <1>1, <1>2, <1>3, <1>6, <2>1 DEF Others, Types
<1>7. CASE worker[w].attempt < MaxAttempts
  <2>1. after = again
    BY <1>2, <1>7
  <2> HIDE DEF after
  <2> QED
    BY <1>0, <1>1, <1>4, <1>5, <1>7, <2>1 DEF Others, Types
<1> QED
  BY <1>2, <1>6, <1>7

\* A worker enters a stage with its first attempt.
LEMMA EnterStep ==
    ASSUME Types, NEW w \in Workers, NEW stage \in Stages, Enter(w, stage)
    PROVE  /\ worker' \in [Workers -> WorkerType]
           /\ Others(w)
           /\ worker'[w] = [Idle EXCEPT !.pc = stage, !.attempt = 1]
           /\ worker'[w].pc = stage
           /\ worker'[w].attempt = 1
<1> DEFINE first == [Idle EXCEPT !.pc = stage, !.attempt = 1]
<1>1. 1 \in 0 .. MaxAttempts
  BY StartupAssumption
<1>2. first \in WorkerType /\ first.pc = stage /\ first.attempt = 1
  BY <1>1, IdleType DEF Idle, WorkerType
<1>3. worker' = [worker EXCEPT ![w] = first] /\ worker \in [Workers -> WorkerType]
  BY DEF Enter, Types
<1> HIDE DEF first
<1>4. worker' \in [Workers -> WorkerType] /\ Others(w) /\ worker'[w] = first
  BY <1>2, <1>3 DEF Others
<1> QED
  BY <1>2, <1>4 DEF first

\* What the workers do to the database only adds to what others rely on.
Grows ==
    /\ version' \in {version, Latest}
    /\ registry \subseteq registry'
    /\ statuses' \in {statuses, CALLBACK_REQUEST_STATUSES}

LEMMA OthersStayReady ==
    ASSUME NEW w \in Workers, Grows, Others(w), \A v \in Workers : Ready(v)
    PROVE  \A v \in Workers \ {w} : Ready(v)'
BY DEF Grows, Others, Ready, At, SeedStage

\* Every step of a worker keeps the types, only adds, and leaves the worker
\* where what it relies on holds.
LEMMA StepReady ==
    ASSUME RInv, NEW w \in Workers, Start(w) \/ Work(w) \/ Fault(w) \/ Crash(w)
    PROVE  Types' /\ Others(w) /\ Grows /\ Ready(w)'
<1>1. worker[w] \in WorkerType /\ worker \in [Workers -> WorkerType] /\ Types /\ Ready(w)
  BY DEF RInv, Types
<1>2. Latest \in 0 .. Latest /\ NoWorker \notin Workers
  BY StartupAssumption
<1> USE DEF db
<1>3. ASSUME NEW stage \in {"migrate", "seed"}, Fail(w, stage), UNCHANGED db,
             faults' \in 0 .. MaxFaults, stage = "seed" => version = Latest
      PROVE  Types' /\ Others(w) /\ Grows /\ Ready(w)'
  BY <1>1, <1>3, FailStep DEF Types, Grows, Ready, At, SeedStage
<1>4. ASSUME NEW stage \in Stages, Enter(w, stage),
             version' \in {version, Latest},
             registry' \in SUBSET Seeds, registry \subseteq registry',
             statuses' \in {statuses, CALLBACK_REQUEST_STATUSES},
             ddl' \in Workers \cup {NoWorker}, UNCHANGED <<foreign, used, faults>>
      PROVE  Types' /\ Others(w) /\ Grows /\ worker'[w].pc = stage
  BY <1>1, <1>2, <1>4, EnterStep DEF Types, Grows, CALLBACK_REQUEST_STATUSES
<1>5. ASSUME NEW r \in WorkerType, worker' = [worker EXCEPT ![w] = r], UNCHANGED <<db, faults>>,
             ddl' \in Workers \cup {NoWorker}
      PROVE  Types' /\ Others(w) /\ Grows /\ worker'[w] = r
  BY <1>1, <1>5 DEF Types, Others, Grows
<1>6. CASE Start(w)
  <2>1. Enter(w, "migrate")
    BY <1>6 DEF Start, Enter
  <2> QED
    BY <1>1, <1>4, <1>6, <2>1 DEF Start, Stages, Ready, At, SeedStage, Types
<1>7. CASE ReadVersion(w)
  <2>1. CASE version = Latest
    BY <1>1, <1>4, <1>7, <2>1 DEF ReadVersion, Stages, Ready, At, SeedStage, Types
  <2>2. CASE version # Latest
    <3> DEFINE r == [worker[w] EXCEPT !.pc = "ddl", !.seen = version]
    <3>1. r \in WorkerType /\ r.pc = "ddl"
      BY <1>1 DEF WorkerType, Stages, Types
    <3>2. worker' = [worker EXCEPT ![w] = r]
      BY <1>1, <1>7, <2>2 DEF ReadVersion
    <3> HIDE DEF r
    <3> QED
      BY <1>1, <1>5, <1>7, <3>1, <3>2 DEF ReadVersion, Ready, At, SeedStage, Types
  <2> QED
    BY <2>1, <2>2
<1>8. CASE RunRevisions(w)
  <2>1. CASE version = worker[w].seen
    <3> DEFINE r == [worker[w] EXCEPT !.pc = "applied"]
    <3>1. r \in WorkerType /\ r.pc = "applied"
      BY <1>1 DEF WorkerType, Stages
    <3>2. worker' = [worker EXCEPT ![w] = r]
      BY <1>1, <1>8, <2>1 DEF RunRevisions, Go
    <3> HIDE DEF r
    <3> QED
      BY <1>1, <1>5, <1>8, <2>1, <3>1, <3>2 DEF RunRevisions, Ready, At, SeedStage
  <2>2. CASE version # worker[w].seen
    BY <1>1, <1>3, <1>8, <2>2 DEF RunRevisions, Types
  <2> QED
    BY <2>1, <2>2
<1>9. CASE CommitMigration(w)
  BY <1>1, <1>4, <1>9 DEF CommitMigration, Stages, Ready, At, SeedStage, Types
<1>10. CASE ReadScopes(w)
  <2>1. CASE foreign
    BY <1>1, <1>3, <1>10, <2>1 DEF ReadScopes, Types, Ready, At, SeedStage
  <2>2. CASE ~foreign
    <3> DEFINE r == [worker[w] EXCEPT !.pc = "insert", !.missing = Seeds \ registry]
    <3>1. r \in WorkerType /\ r.pc = "insert" /\ r.missing = Seeds \ registry
      BY <1>1 DEF WorkerType, Stages
    <3>2. worker' = [worker EXCEPT ![w] = r]
      BY <1>1, <1>10, <2>2 DEF ReadScopes
    <3> HIDE DEF r
    <3> QED
      BY <1>1, <1>5, <1>10, <2>2, <3>1, <3>2 DEF ReadScopes, Ready, At, SeedStage, Types
  <2> QED
    BY <2>1, <2>2
<1>11. CASE InsertScopes(w)
  <2>1. CASE worker[w].missing \cap registry # {}
    BY <1>1, <1>3, <1>11, <2>1 DEF InsertScopes, Types, Ready, At, SeedStage
  <2>2. CASE worker[w].missing \cap registry = {}
    <3> DEFINE r == [worker[w] EXCEPT !.pc = "statuses", !.wrote = worker[w].missing]
    <3>1. r \in WorkerType /\ r.pc = "statuses" /\ r.wrote = worker[w].missing
      BY <1>1 DEF WorkerType, Stages
    <3>2. worker' = [worker EXCEPT ![w] = r]
      BY <1>1, <1>11, <2>2 DEF InsertScopes
    <3> HIDE DEF r
    <3> QED
      BY <1>1, <1>5, <1>11, <2>2, <3>1, <3>2 DEF InsertScopes, Ready, At, SeedStage, Types
  <2> QED
    BY <2>1, <2>2
<1>12. CASE PutStatuses(w)
  <2>1. CASE used
    BY <1>1, <1>3, <1>12, <2>1 DEF PutStatuses, Types, Ready, At, SeedStage
  <2>2. CASE ~used
    <3> DEFINE r == [worker[w] EXCEPT !.pc = "seeded", !.put = TRUE]
    <3>1. r \in WorkerType /\ r.pc = "seeded" /\ r.wrote = worker[w].wrote
      BY <1>1 DEF WorkerType, Stages
    <3>2. worker' = [worker EXCEPT ![w] = r]
      BY <1>1, <1>12, <2>2 DEF PutStatuses
    <3> HIDE DEF r
    <3> QED
      BY <1>1, <1>5, <1>12, <2>2, <3>1, <3>2 DEF PutStatuses, Ready, At, SeedStage, Types
  <2> QED
    BY <2>1, <2>2
<1>13. CASE CommitSeeds(w)
  <2>1. registry' \in SUBSET Seeds /\ Seeds \subseteq registry'
    BY <1>1, <1>13 DEF CommitSeeds, Types, WorkerType, Ready, At
  <2> QED
    BY <1>1, <1>4, <1>13, <2>1 DEF CommitSeeds, Stages, Ready, At, SeedStage, Types
<1>14. CASE Serve(w)
  <2> DEFINE r == [worker[w] EXCEPT !.pc = "serving"]
  <2>1. r \in WorkerType /\ r.pc = "serving"
    BY <1>1 DEF WorkerType, Stages
  <2>2. worker' = [worker EXCEPT ![w] = r]
    BY <1>1, <1>14 DEF Serve, Go
  <2> HIDE DEF r
  <2> QED
    BY <1>1, <1>5, <1>14, <2>1, <2>2 DEF Serve, Ready, At, SeedStage, Types
<1>15. CASE Fault(w)
  <2>1. faults' \in 0 .. MaxFaults
    BY <1>1, <1>15, StartupAssumption DEF Fault, Types
  <2> QED
    BY <1>1, <1>3, <1>15, <2>1 DEF Fault, Ready, SeedStage
<1>16. CASE Crash(w)
  <2>1. faults' \in 0 .. MaxFaults
    BY <1>1, <1>16, StartupAssumption DEF Crash, Types
  <2> DEFINE dead == [Idle EXCEPT !.pc = "dead"]
  <2>2. dead \in WorkerType /\ dead.pc = "dead"
    BY IdleType DEF Idle, WorkerType, Stages
  <2>3. worker' = [worker EXCEPT ![w] = dead]
    BY <1>16 DEF Crash
  <2> HIDE DEF dead
  <2> QED
    BY <1>1, <1>16, <2>1, <2>2, <2>3 DEF Crash, Types, Others, Grows, Ready, At, SeedStage
<1> QED
  BY <1>6, <1>7, <1>8, <1>9, <1>10, <1>11, <1>12, <1>13, <1>14, <1>15, <1>16 DEF Work

LEMMA ReadyInit == Init => RInv
<1> SUFFICES ASSUME Init
             PROVE  RInv
  OBVIOUS
<1>1. \A w \in Workers : worker[w] = Idle /\ worker[w].pc = "down"
  BY DEF Init, Idle
<1>2. worker \in [Workers -> WorkerType]
  BY IdleType DEF Init
<1>3. 0 \in 0 .. MaxFaults
  BY StartupAssumption
<1> QED
  BY <1>1, <1>2, <1>3 DEF Init, RInv, Types, Ready, At, SeedStage

LEMMA ReadyNext == RInv /\ [Next]_vars => RInv'
<1> SUFFICES ASSUME RInv, [Next]_vars
             PROVE  RInv'
  OBVIOUS
<1>1. CASE Next
  <2>1. PICK w \in Workers : Start(w) \/ Work(w) \/ Fault(w) \/ Crash(w)
    BY <1>1 DEF Next
  <2>2. Types' /\ Others(w) /\ Grows /\ Ready(w)'
    BY <2>1, StepReady
  <2>3. \A v \in Workers \ {w} : Ready(v)'
    BY <2>2, OthersStayReady DEF RInv
  <2> QED
    BY <2>2, <2>3 DEF RInv
<1>2. CASE UNCHANGED vars
  BY <1>2 DEF vars, RInv, Types, Ready, At
<1> QED
  BY <1>1, <1>2

\* A worker that serves has the schema of its release and complete registries,
\* however many workers start, fail and die around it.
THEOREM ServesWhatIsThere == Spec => []ServingIsReady
<1>1. RInv => ServingIsReady
  BY DEF RInv, Ready, ServingIsReady, At
<1> QED
  BY <1>1, ReadyInit, ReadyNext, PTL DEF Spec

\* The calm of a start is over for good once something has failed.
LEMMA CalmBefore ==
    ASSUME RInv, NEW w \in Workers, Start(w) \/ Work(w) \/ Fault(w) \/ Crash(w), Calm'
    PROVE  Calm /\ (Start(w) \/ Work(w)) /\ faults' = faults
<1>1. faults \in Nat
  BY StartupAssumption DEF RInv, Types
<1> USE DEF db, Work, Start, ReadVersion, RunRevisions, CommitMigration, ReadScopes,
            InsertScopes, PutStatuses, CommitSeeds, Serve
<1>2. CASE Start(w) \/ Work(w)
  BY <1>2 DEF Calm
<1>3. CASE Fault(w) \/ Crash(w)
  BY <1>1, <1>3 DEF Fault, Crash, Calm
<1> QED
  BY <1>2, <1>3

\* A step of one worker leaves each other worker its second attempt.
LEMMA OthersStaySecond ==
    ASSUME RInv, NEW w \in Workers, NEW v \in Workers \ {w}, Others(w), Grows, Second(v),
           registry' = registry \/ Seeds \subseteq registry'
    PROVE  Second(v)'
<1>1. worker[v] \in WorkerType /\ registry \subseteq Seeds
  BY DEF RInv, Types
<1> QED
  BY <1>1 DEF Second, Others, Grows, At, SeedStage, WorkerType

\* A step of a worker leads it to no attempt it would lose.
LEMMA StepSecond ==
    ASSUME RInv, Calm, NEW w \in Workers, Start(w) \/ Work(w), Second(w)
    PROVE  Second(w)' /\ (registry' = registry \/ Seeds \subseteq registry')
<1>1. worker[w] \in WorkerType /\ worker \in [Workers -> WorkerType] /\ Types /\ Ready(w)
  BY DEF RInv, Types
<1>2. MaxAttempts \in Nat /\ 1 < MaxAttempts
  BY StartupAssumption DEF Calm
<1>3. worker[w].attempt \in Nat /\ worker[w].missing \subseteq Seeds /\ registry \subseteq Seeds
  BY <1>1 DEF WorkerType, Types
<1> USE DEF db
<1>4. CASE Start(w)
  <2>1. Enter(w, "migrate")
    BY <1>4 DEF Start, Enter
  <2> QED
    BY <1>1, <1>4, <2>1, EnterStep DEF Start, Stages, Second, At, SeedStage
<1>5. CASE ReadVersion(w)
  <2>1. CASE version = Latest
    BY <1>1, <1>5, <2>1, EnterStep DEF ReadVersion, Stages, Second, At, SeedStage
  <2>2. CASE version # Latest
    <3> DEFINE r == [worker[w] EXCEPT !.pc = "ddl", !.seen = version]
    <3>1. r.pc = "ddl" /\ r.seen = version /\ r.attempt = worker[w].attempt
      BY <1>1 DEF WorkerType
    <3>2. worker' = [worker EXCEPT ![w] = r]
      BY <1>1, <1>5, <2>2 DEF ReadVersion
    <3> HIDE DEF r
    <3>3. worker'[w] = r
      BY <1>1, <3>2
    <3> QED
      BY <1>5, <2>2, <3>1, <3>3 DEF ReadVersion, Second, At, SeedStage
  <2> QED
    BY <2>1, <2>2
<1>6. CASE RunRevisions(w)
  <2>1. CASE version = worker[w].seen
    <3> DEFINE r == [worker[w] EXCEPT !.pc = "applied"]
    <3>1. r.pc = "applied" /\ r.attempt = worker[w].attempt
      BY <1>1 DEF WorkerType
    <3>2. worker' = [worker EXCEPT ![w] = r]
      BY <1>1, <1>6, <2>1 DEF RunRevisions, Go
    <3> HIDE DEF r
    <3>3. worker'[w] = r
      BY <1>1, <3>2
    <3> QED
      BY <1>6, <3>1, <3>3 DEF RunRevisions, Second, At, SeedStage
  <2>2. CASE version # worker[w].seen
    <3>1. Fail(w, "migrate") /\ version' = Latest /\ registry' = registry /\ worker[w].attempt = 1
      BY <1>6, <2>2 DEF RunRevisions, Second, At
    <3> QED
      BY <1>1, <1>2, <3>1, FailStep DEF Second, At, SeedStage
  <2> QED
    BY <2>1, <2>2
<1>7. CASE CommitMigration(w)
  BY <1>1, <1>7, EnterStep DEF CommitMigration, Stages, Second, At, SeedStage
<1>8. CASE ReadScopes(w)
  <2> DEFINE r == [worker[w] EXCEPT !.pc = "insert", !.missing = Seeds \ registry]
  <2>1. r.pc = "insert" /\ r.missing = Seeds \ registry /\ r.attempt = worker[w].attempt
    BY <1>1 DEF WorkerType
  <2>2. worker' = [worker EXCEPT ![w] = r]
    BY <1>1, <1>8 DEF ReadScopes, Calm
  <2> HIDE DEF r
  <2>3. worker'[w] = r
    BY <1>1, <2>2
  <2> QED
    BY <1>8, <2>1, <2>3 DEF ReadScopes, Second, At, SeedStage
<1>9. CASE InsertScopes(w)
  <2>1. CASE worker[w].missing \cap registry # {}
    <3>1. Fail(w, "seed") /\ registry' = registry /\ worker[w].attempt = 1 /\ Seeds \subseteq registry
      BY <1>9, <2>1 DEF InsertScopes, Second, At
    <3> QED
      BY <1>1, <1>2, <3>1, FailStep DEF Second, At, SeedStage
  <2>2. CASE worker[w].missing \cap registry = {}
    <3> DEFINE r == [worker[w] EXCEPT !.pc = "statuses", !.wrote = worker[w].missing]
    <3>1. r.pc = "statuses" /\ r.attempt = worker[w].attempt
      BY <1>1 DEF WorkerType
    <3>2. worker' = [worker EXCEPT ![w] = r]
      BY <1>1, <1>9, <2>2 DEF InsertScopes
    <3> HIDE DEF r
    <3>3. worker'[w] = r
      BY <1>1, <3>2
    <3> QED
      BY <1>9, <3>1, <3>3 DEF InsertScopes, Second, At, SeedStage
  <2> QED
    BY <2>1, <2>2
<1>10. CASE PutStatuses(w)
  <2> DEFINE r == [worker[w] EXCEPT !.pc = "seeded", !.put = TRUE]
  <2>1. r.pc = "seeded" /\ r.attempt = worker[w].attempt
    BY <1>1 DEF WorkerType
  <2>2. worker' = [worker EXCEPT ![w] = r]
    BY <1>1, <1>10 DEF PutStatuses, Calm
  <2> HIDE DEF r
  <2>3. worker'[w] = r
    BY <1>1, <2>2
  <2> QED
    BY <1>10, <2>1, <2>3 DEF PutStatuses, Second, At, SeedStage
<1>11. CASE CommitSeeds(w)
  <2>1. Seeds \subseteq registry'
    BY <1>1, <1>11 DEF CommitSeeds, Ready, At
  <2> QED
    BY <1>1, <1>11, <2>1, EnterStep DEF CommitSeeds, Stages, Second, At, SeedStage
<1>12. CASE Serve(w)
  <2> DEFINE r == [worker[w] EXCEPT !.pc = "serving"]
  <2>1. r.pc = "serving"
    BY <1>1 DEF WorkerType
  <2>2. worker' = [worker EXCEPT ![w] = r]
    BY <1>1, <1>12 DEF Serve, Go
  <2> HIDE DEF r
  <2>3. worker'[w] = r
    BY <1>1, <2>2
  <2> QED
    BY <1>12, <2>1, <2>3 DEF Serve, Second, At, SeedStage
<1> QED
  BY <1>4, <1>5, <1>6, <1>7, <1>8, <1>9, <1>10, <1>11, <1>12 DEF Work

LEMMA GiveUpInit == Init => GInv
<1>1. ASSUME Init
      PROVE  \A w \in Workers : worker[w].pc = "down"
  BY <1>1 DEF Init, Idle
<1> QED
  BY <1>1, ReadyInit DEF GInv, Second, At, SeedStage

LEMMA GiveUpNext == GInv /\ [Next]_vars => GInv'
<1> SUFFICES ASSUME GInv, [Next]_vars, Calm'
             PROVE  \A v \in Workers : Second(v)'
  BY ReadyNext DEF GInv
<1>1. CASE Next
  <2>1. PICK w \in Workers : Start(w) \/ Work(w) \/ Fault(w) \/ Crash(w)
    BY <1>1 DEF Next
  <2>2. Calm /\ (Start(w) \/ Work(w)) /\ \A v \in Workers : Second(v)
    BY <2>1, CalmBefore DEF GInv
  <2>3. Second(w)' /\ (registry' = registry \/ Seeds \subseteq registry')
    BY <2>2, StepSecond DEF GInv
  <2>4. Others(w) /\ Grows
    BY <2>1, StepReady DEF GInv
  <2>5. \A v \in Workers \ {w} : Second(v)'
    BY <2>2, <2>3, <2>4, OthersStaySecond DEF GInv
  <2> QED
    BY <2>3, <2>5
<1>2. CASE UNCHANGED vars
  BY <1>2 DEF vars, GInv, Calm, Second, At
<1> QED
  BY <1>1, <1>2

\* Two attempts are enough for any number of workers that start together, as
\* long as nothing but themselves gets in their way.
THEOREM TogetherIsSafe == Spec => []NobodyGivesUp
<1>1. GInv => NobodyGivesUp
  BY DEF GInv, Calm, Second, NobodyGivesUp
<1> QED
  BY <1>1, GiveUpInit, GiveUpNext, PTL DEF Spec

================================================================================

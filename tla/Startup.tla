-------------------------------- MODULE Startup --------------------------------
(***************************************************************************)
(* Workers of one deployment start at any time against one database: each  *)
(* applies the pending migrations in a transaction, seeds the registries   *)
(* in another, connects to NATS and serves.  A failed attempt is rolled    *)
(* back and retried; after the last one the exception ends the worker.     *)
(* Left out: the timeout of an attempt (its thread goes on in the          *)
(* background) and the waits between attempts.                             *)
(***************************************************************************)
EXTENDS Naturals, FiniteSets

CONSTANTS Workers, NoWorker,
          Seeds,          \* scopes of user_scopes.json, SEO among them
          Seo,
          Latest,         \* the head revision
          MaxAttempts,    \* DEFAULT_MAX_ATTEMPTS
          MaxFaults       \* lost connections, crashes and NATS failures, at most

ASSUME StartupAssumption ==
    /\ Seo \in Seeds
    /\ NoWorker \notin Workers
    /\ {Latest, MaxAttempts} \subseteq Nat \ {0}
    /\ MaxFaults \in Nat

VARIABLES version,    \* alembic_version, committed
          ddl,        \* the worker whose transaction holds the DDL locks
          registry,   \* ids in user_scopes, committed
          foreign,    \* another row has the name or the id of the SEO seed
          statuses,   \* ids in callback_request_statuses, committed
          used,       \* a callback request refers to a status outside the seeds
          worker,     \* what each worker does
          faults

vars == <<version, ddl, registry, foreign, statuses, used, worker, faults>>

db == <<version, registry, foreign, statuses, used>>

CALLBACK_REQUEST_STATUSES == {1, 2}

Idle == [pc |-> "down", attempt |-> 0, seen |-> 0, missing |-> {}, wrote |-> {}, put |-> FALSE]

Init ==
    /\ version \in 0 .. Latest
    /\ ddl = NoWorker
    /\ registry \in SUBSET Seeds
    /\ foreign \in BOOLEAN
    /\ statuses \in {{}, {1, 2}, {1, 2, 3}}
    /\ used \in BOOLEAN
    /\ version = 0 => registry = {} /\ statuses = {} /\ ~foreign
    /\ foreign => Seo \notin registry
    /\ used => 3 \in statuses
    /\ worker = [w \in Workers |-> Idle]
    /\ faults = 0

At(w, pc) == worker[w].pc = pc

Go(w, pc) == worker' = [worker EXCEPT ![w].pc = pc]

Start(w) ==
    /\ At(w, "down")
    /\ worker' = [worker EXCEPT ![w] = [Idle EXCEPT !.pc = "migrate", !.attempt = 1]]
    /\ UNCHANGED <<db, ddl, faults>>

\* The locks are not released.
BugFail(w, stage) ==
    /\ LET attempt == worker[w].attempt IN
       worker' = [worker EXCEPT ![w] =
           IF attempt >= MaxAttempts
           THEN [Idle EXCEPT !.pc = "dead"]
           ELSE [Idle EXCEPT !.pc = stage, !.attempt = attempt + 1]]
    /\ ddl' = ddl

\* An exception ends the attempt: the transaction is rolled back, its locks are
\* released, and the stage begins again unless this was the last attempt.
Fail(w, stage) ==
    /\ LET attempt == worker[w].attempt IN
       worker' = [worker EXCEPT ![w] =
           IF attempt >= MaxAttempts
           THEN [Idle EXCEPT !.pc = "dead"]
           ELSE [Idle EXCEPT !.pc = stage, !.attempt = attempt + 1]]
    /\ ddl' = IF ddl = w THEN NoWorker ELSE ddl

\* The attempts of the stage before count too.
BugEnter(w, stage) ==
    worker' = [worker EXCEPT ![w] = [Idle EXCEPT !.pc = stage, !.attempt = worker[w].attempt]]

\* The next stage counts its attempts anew.
Enter(w, stage) == worker' = [worker EXCEPT ![w] = [Idle EXCEPT !.pc = stage, !.attempt = 1]]

\* The revision is read without a lock.
ReadVersion(w) ==
    /\ At(w, "migrate")
    /\ IF version = Latest
       THEN Enter(w, "seed")
       ELSE worker' = [worker EXCEPT ![w].pc = "ddl", ![w].seen = version]
    /\ UNCHANGED <<db, ddl, faults>>

\* A worker that finds another at it leaves the migration to it.
BugRunRevisions(w) ==
    /\ At(w, "ddl")
    /\ IF ddl # NoWorker
       THEN Enter(w, "seed") /\ UNCHANGED ddl
       ELSE IF version = worker[w].seen
            THEN ddl' = w /\ Go(w, "applied")
            ELSE Fail(w, "migrate")
    /\ UNCHANGED <<db, faults>>

\* The first statement waits for the locks of another worker's transaction;
\* what that has applied meanwhile makes this one fail.
RunRevisions(w) ==
    /\ At(w, "ddl")
    /\ ddl = NoWorker
    /\ IF version = worker[w].seen
       THEN ddl' = w /\ Go(w, "applied")
       ELSE Fail(w, "migrate")
    /\ UNCHANGED <<db, faults>>

CommitMigration(w) ==
    /\ At(w, "applied")
    /\ version' = Latest
    /\ ddl' = NoWorker
    /\ Enter(w, "seed")
    /\ UNCHANGED <<registry, foreign, statuses, used, faults>>

\* UserScopesSeeder: a foreign SEO row needs an operator; of the seeds the
\* missing ids are computed from what is committed now.
ReadScopes(w) ==
    /\ At(w, "seed")
    /\ IF foreign
       THEN Fail(w, "seed")
       ELSE /\ worker' = [worker EXCEPT ![w].pc = "insert", ![w].missing = Seeds \ registry]
            /\ UNCHANGED ddl
    /\ UNCHANGED <<db, faults>>

\* An id another transaction is inserting is waited for; one it has inserted
\* since the read violates the key.
InsertScopes(w) ==
    LET missing == worker[w].missing IN
    /\ At(w, "insert")
    /\ \A v \in Workers : worker[v].wrote \cap missing = {}
    /\ IF missing \cap registry # {}
       THEN Fail(w, "seed")
       ELSE /\ worker' = [worker EXCEPT ![w].pc = "statuses", ![w].wrote = missing]
            /\ UNCHANGED ddl
    /\ UNCHANGED <<db, faults>>

\* CallbackRequestStatusesSeeder deletes what is not a seed, which a request may
\* still refer to, and puts the seeds in whether they are there or not.
PutStatuses(w) ==
    /\ At(w, "statuses")
    /\ \A v \in Workers : ~worker[v].put
    /\ IF used
       THEN Fail(w, "seed")
       ELSE /\ worker' = [worker EXCEPT ![w].pc = "seeded", ![w].put = TRUE]
            /\ UNCHANGED ddl
    /\ UNCHANGED <<db, faults>>

CommitSeeds(w) ==
    /\ At(w, "seeded")
    /\ registry' = registry \cup worker[w].wrote
    /\ statuses' = CALLBACK_REQUEST_STATUSES
    /\ Enter(w, "nats")
    /\ UNCHANGED <<version, ddl, foreign, used, faults>>

Serve(w) ==
    /\ At(w, "nats")
    /\ Go(w, "serving")
    /\ UNCHANGED <<db, ddl, faults>>

Busy(w) == worker[w].pc \notin {"down", "dead"}

\* A statement or a commit fails.
Fault(w) ==
    /\ faults < MaxFaults
    /\ faults' = faults + 1
    /\ \/ worker[w].pc \in {"migrate", "ddl", "applied"} /\ Fail(w, "migrate")
       \/ worker[w].pc \in {"seed", "insert", "statuses", "seeded"} /\ Fail(w, "seed")
    /\ UNCHANGED db

\* The process dies, or NATS cannot be reached when the worker would serve; its
\* open transaction is gone.
Crash(w) ==
    /\ faults < MaxFaults
    /\ Busy(w)
    /\ faults' = faults + 1
    /\ worker' = [worker EXCEPT ![w] = [Idle EXCEPT !.pc = "dead"]]
    /\ ddl' = IF ddl = w THEN NoWorker ELSE ddl
    /\ UNCHANGED db

Work(w) ==
    \/ ReadVersion(w)
    \/ RunRevisions(w)
    \/ CommitMigration(w)
    \/ ReadScopes(w)
    \/ InsertScopes(w)
    \/ PutStatuses(w)
    \/ CommitSeeds(w)
    \/ Serve(w)

Next == \E w \in Workers : Start(w) \/ Work(w) \/ Fault(w) \/ Crash(w)

\* Nothing delays a running worker for ever; it need not be started.
Fairness == \A w \in Workers : WF_vars(Work(w))

Spec == Init /\ [][Next]_vars /\ Fairness

(***************************************************************************)
(* Properties                                                              *)
(***************************************************************************)

TypeOK ==
    /\ version \in 0 .. Latest
    /\ ddl \in Workers \cup {NoWorker}
    /\ registry \subseteq Seeds
    /\ statuses \subseteq {1, 2, 3}
    /\ faults \in 0 .. MaxFaults
    /\ \A w \in Workers :
         /\ worker[w].attempt \in 0 .. MaxAttempts
         /\ worker[w].wrote \cup worker[w].missing \subseteq Seeds

\* A worker that serves has the schema of its release and complete registries,
\* whichever worker applied and seeded them, and whatever failed on the way.
ServingIsReady ==
    \A w \in Workers : At(w, "serving") =>
        /\ version = Latest
        /\ Seeds \subseteq registry
        /\ statuses = CALLBACK_REQUEST_STATUSES

\* Workers that start together never make each other give up: what one loses to
\* another's transaction, its next attempt finds done.
NobodyGivesUp ==
    MaxAttempts >= 2 /\ faults = 0 /\ ~foreign /\ ~used =>
        \A w \in Workers : ~At(w, "dead")

\* Workers that wait for each other's locks all come to serve or to give up.
StartupEnds ==
    \A w \in Workers : At(w, "migrate") ~> worker[w].pc \in {"serving", "dead"}
================================================================================

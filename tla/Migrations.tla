----------------------------- MODULE Migrations -----------------------------
(***************************************************************************)
(* internal/database/database.go: Connect and Migrate in instances of the  *)
(* API that boot, crash and are started again over one database.           *)
(*                                                                         *)
(* A session of PostgreSQL may outlive the process that opened it: until   *)
(* the server notices, it keeps its place in the queue for the advisory    *)
(* lock, the lock itself, and a COMMIT it was sent.                        *)
(*                                                                         *)
(* A member of Procs is one instance at a time.  It starts again once the  *)
(* session of its former life is gone; one that is started sooner is       *)
(* another member.                                                         *)
(***************************************************************************)
EXTENDS Naturals

CONSTANTS
    Procs,
    Embedded     \* versions of the up-migrations in the binary of an instance

ASSUME MigrationsAssumption ==
    Embedded \in [Procs -> (SUBSET (Nat \ {0})) \ {{}}]

VARIABLES
    applied,     \* schema_migrations, and with each row what its migration does
    pc,          \* how far the instance has come
    sess,        \* its session for Migrate, as the server sees it
    cut,         \* instances whose end of that session is closed
    tx,          \* version whose COMMIT was sent, or NoVersion
    done,        \* isDone, and what the loop of Migrate has applied since
    sig          \* rootCtx is cancelled

bootVars == <<applied, pc, sess, cut, tx, done, sig>>

-----------------------------------------------------------------------------
NoVersion == 0
Versions  == UNION {Embedded[p] : p \in Procs}

\* A statement of Migrate is under way.
Migrating == {"lock", "read", "apply", "commit", "unlock"}
Booting   == Migrating \cup {"connect"}
Stages    == Booting \cup {"down", "booted", "failed"}

BootTypeOK ==
    /\ applied \subseteq Versions
    /\ pc \in [Procs -> Stages]
    /\ sess \in [Procs -> {"none", "waiting", "locked"}]
    /\ cut \subseteq {p \in Procs : sess[p] # "none"}
    /\ tx \in [Procs -> Versions \cup {NoVersion}]
    /\ done \in [Procs -> SUBSET Versions]
    /\ sig \in [Procs -> BOOLEAN]

BootInit ==
    /\ applied = {}
    /\ pc = [p \in Procs |-> "down"]
    /\ sess = [p \in Procs |-> "none"]
    /\ cut = {}
    /\ tx = [p \in Procs |-> NoVersion]
    /\ done = [p \in Procs |-> {}]
    /\ sig = [p \in Procs |-> FALSE]

\* loadUpMigrations sorts by version, and Migrate skips what isDone.
Latest(p) ==                                     \* variant: sorted the other way
    CHOOSE v \in Embedded[p] \ done[p] : \A w \in Embedded[p] \ done[p] : w <= v
NextVersion(p) ==
    CHOOSE v \in Embedded[p] \ done[p] : \A w \in Embedded[p] \ done[p] : v <= w

\* After a statement that left d done.  A cancelled context fails the next
\* statement before it is sent; the unlock does without that context.
NextStage(p, d) ==
    IF Embedded[p] \subseteq d \/ sig[p] THEN "unlock" ELSE "apply"

\* What Migrate returns to run, which then boots or exits.
NoErrors(p) == "booted"                          \* variant: errors are dropped
Outcome(p)  == IF Embedded[p] \subseteq done[p] THEN "booted" ELSE "failed"

Close(p) == IF sess[p] = "none" THEN cut ELSE cut \cup {p}

-----------------------------------------------------------------------------
Start(p) ==
    /\ pc[p] = "down" /\ sess[p] = "none"
    /\ pc' = [pc EXCEPT ![p] = "connect"]
    /\ UNCHANGED <<applied, sess, cut, tx, done, sig>>

Signal(p) ==
    /\ pc[p] # "down" /\ ~sig[p]
    /\ sig' = [sig EXCEPT ![p] = TRUE]
    /\ UNCHANGED <<applied, pc, sess, cut, tx, done>>

\* The ping is answered, a connection acquired, the lock asked for.
Connect(p) ==
    /\ pc[p] = "connect" /\ ~sig[p]
    /\ pc' = [pc EXCEPT ![p] = "lock"]
    /\ sess' = [sess EXCEPT ![p] = "waiting"]
    /\ UNCHANGED <<applied, cut, tx, done, sig>>

\* DBConnectTimeout, a cancelled context, no connection to be had.
ConnectFails(p) ==
    /\ pc[p] = "connect"
    /\ pc' = [pc EXCEPT ![p] = "failed"]
    /\ UNCHANGED <<applied, sess, cut, tx, done, sig>>

\* Variant: everyone has a key of its own.
GrantToAll(p) ==
    /\ sess[p] = "waiting"
    /\ sess' = [sess EXCEPT ![p] = "locked"]
    /\ pc' = [pc EXCEPT ![p] = IF @ # "lock" THEN @
                               ELSE IF sig[p] THEN "unlock" ELSE "read"]
    /\ UNCHANGED <<applied, cut, tx, done, sig>>

\* pg_advisory_lock returns, also when nobody reads its answer.
Grant(p) ==
    /\ sess[p] = "waiting" /\ \A q \in Procs : sess[q] # "locked"
    /\ sess' = [sess EXCEPT ![p] = "locked"]
    /\ pc' = [pc EXCEPT ![p] = IF @ # "lock" THEN @
                               ELSE IF sig[p] THEN "unlock" ELSE "read"]
    /\ UNCHANGED <<applied, cut, tx, done, sig>>

\* CREATE TABLE IF NOT EXISTS, SELECT version.
Read(p) ==
    /\ pc[p] = "read" /\ sess[p] = "locked"
    /\ done' = [done EXCEPT ![p] = applied]
    /\ pc' = [pc EXCEPT ![p] = NextStage(p, applied)]
    /\ UNCHANGED <<applied, sess, cut, tx, sig>>

\* BEGIN, the migration's SQL and the INSERT into schema_migrations, which
\* both fail when the version has been applied; the COMMIT is sent.
Apply(p) ==
    /\ pc[p] = "apply" /\ sess[p] = "locked" /\ ~sig[p]
    /\ NextVersion(p) \notin applied
    /\ tx' = [tx EXCEPT ![p] = NextVersion(p)]
    /\ pc' = [pc EXCEPT ![p] = "commit"]
    /\ UNCHANGED <<applied, sess, cut, done, sig>>

Commit(p) ==
    /\ pc[p] = "commit" /\ sess[p] = "locked" /\ tx[p] \notin applied
    /\ applied' = applied \cup {tx[p]}
    /\ done' = [done EXCEPT ![p] = @ \cup {tx[p]}]
    /\ tx' = [tx EXCEPT ![p] = NoVersion]
    /\ pc' = [pc EXCEPT ![p] = NextStage(p, done[p] \cup {tx[p]})]
    /\ UNCHANGED <<sess, cut, sig>>

\* The lock statement fails: nothing to unlock yet.
LockFails(p) ==
    /\ pc[p] = "lock"
    /\ pc' = [pc EXCEPT ![p] = "failed"]
    /\ sess' = [sess EXCEPT ![p] = "none"]
    /\ UNCHANGED <<applied, cut, tx, done, sig>>

\* A statement fails and the connection lives: rollback, then the deferred
\* unlock.  (Rolling back with a cancelled context closes the connection.)
StatementFails(p) ==
    /\ pc[p] \in {"read", "apply", "commit"} /\ sess[p] = "locked"
    /\ pc[p] = "apply" => ~sig[p]
    /\ tx' = [tx EXCEPT ![p] = NoVersion]
    /\ pc' = [pc EXCEPT ![p] = "unlock"]
    /\ UNCHANGED <<applied, sess, cut, done, sig>>

\* The connection breaks, or a context cancelled in the middle of a statement
\* closes it; the deferred unlock cannot be sent.
Cut(p) ==
    /\ pc[p] \in Migrating
    /\ pc' = [pc EXCEPT ![p] = IF @ = "unlock" THEN Outcome(p) ELSE "failed"]
    /\ cut' = Close(p)
    /\ done' = [done EXCEPT ![p] = {}]
    /\ UNCHANGED <<applied, sess, tx, sig>>

\* Variant: the connection goes back to the pool with the lock.
UnlockForgotten(p) ==
    /\ pc[p] = "unlock" /\ sess[p] = "locked"
    /\ pc' = [pc EXCEPT ![p] = Outcome(p)]
    /\ done' = [done EXCEPT ![p] = {}]
    /\ UNCHANGED <<applied, sess, cut, tx, sig>>

Unlock(p) ==
    /\ pc[p] = "unlock" /\ sess[p] = "locked"
    /\ sess' = [sess EXCEPT ![p] = "none"]
    /\ pc' = [pc EXCEPT ![p] = Outcome(p)]
    /\ done' = [done EXCEPT ![p] = {}]
    /\ UNCHANGED <<applied, cut, tx, sig>>

\* The server ends a session: it notices that nobody is there, or goes down.
LoseSession(p) ==
    /\ sess[p] # "none"
    /\ sess' = [sess EXCEPT ![p] = "none"]
    /\ cut' = cut \ {p}
    /\ tx' = [tx EXCEPT ![p] = NoVersion]
    /\ UNCHANGED <<applied, pc, done, sig>>

\* A COMMIT that was sent takes effect and nobody hears of it.
OrphanCommits(p) ==
    /\ p \in cut /\ tx[p] \notin applied \cup {NoVersion}
    /\ applied' = applied \cup {tx[p]}
    /\ tx' = [tx EXCEPT ![p] = NoVersion]
    /\ UNCHANGED <<pc, sess, cut, done, sig>>

\* The process is gone, its sessions are not.
Gone(p) ==
    /\ pc' = [pc EXCEPT ![p] = "down"]
    /\ cut' = Close(p)
    /\ done' = [done EXCEPT ![p] = {}]
    /\ sig' = [sig EXCEPT ![p] = FALSE]
    /\ UNCHANGED <<applied, sess, tx>>

Crash(p) == pc[p] # "down" /\ Gone(p)

\* run returns the error of Connect or Migrate.
ExitFailed(p) == pc[p] = "failed" /\ Gone(p)

BootStep(p) ==
    \/ Start(p) \/ Signal(p) \/ Connect(p) \/ ConnectFails(p)
    \/ Grant(p) \/ Read(p) \/ Apply(p) \/ Commit(p)
    \/ LockFails(p) \/ StatementFails(p) \/ Cut(p) \/ Unlock(p)
    \/ LoseSession(p) \/ OrphanCommits(p) \/ ExitFailed(p)

BootNext == \E p \in Procs : BootStep(p) \/ Crash(p)

\* Connecting ends, and a statement other than the wait for the lock does, with an
\* answer, an error or a broken connection; the wait ends when it is granted, when
\* the context is cancelled, or when its session is gone.
BootProceeds(p) ==
    \/ Connect(p) \/ ConnectFails(p)
    \/ Read(p) \/ Apply(p) \/ Commit(p) \/ StatementFails(p) \/ Unlock(p)
    \/ Cut(p) /\ (pc[p] = "lock" => sig[p] \/ sess[p] = "none")

\* The lock is granted again and again, if not to this instance then to others,
\* in the order in which they asked.
BootFairness(p) ==
    /\ WF_bootVars(BootProceeds(p))
    /\ SF_bootVars(Grant(p))
    /\ WF_bootVars(p \in cut /\ LoseSession(p))

BootSpec == BootInit /\ [][BootNext]_bootVars /\ \A p \in Procs : BootFairness(p)

-----------------------------------------------------------------------------
\* "two instances booting at once cannot race each other": what the holder of
\* the lock is about to apply has been applied by nobody else, however many
\* instances boot, die in the middle of a COMMIT or lose their sessions.  A boot
\* that raced would fail on the unique version, or apply a migration twice.
NoBootRace ==
    \A p \in Procs :
        sess[p] = "locked" =>
            /\ pc[p] = "apply" => NextVersion(p) \notin applied
            /\ tx[p] # NoVersion => tx[p] \notin applied

\* Migrations are applied in order: what an instance applies is the earliest
\* of its migrations that is missing, also when it finishes what another began.
AppliedInOrder ==
    [][\A v \in applied' \ applied : \E p \in Procs :
           /\ v \in Embedded[p]
           /\ \A w \in Embedded[p] : w < v => w \in applied]_bootVars

\* An instance that serves has the schema its code was written for: every
\* error of Migrate, a lost answer to the last COMMIT included, ends the boot.
BootedSeesSchema ==
    \A p \in Procs : pc[p] = "booted" => Embedded[p] \subseteq applied

\* No boot waits forever: an instance that dies with the lock, or loses the
\* connection that holds it, does not keep the others from starting.
BootsEnd == \A p \in Procs : (pc[p] \in Booting) ~> (pc[p] \notin Booting)
=============================================================================

-------------------------- MODULE LifecycleProofs --------------------------
(***************************************************************************)
(* Instances that boot over one database cannot race each other, for any   *)
(* number of instances and any set of migrations in each: whatever         *)
(* crashes, breaks or is cancelled, versions are applied once and in       *)
(* order, and an instance that serves has its schema.  This holds of the   *)
(* boots alone and in the whole life of the instances, since an instance   *)
(* that serves or shuts down takes only steps that its boot allows         *)
(* (LifeRunsBoot).  In a life the pool is also closed last.                *)
(*                                                                         *)
(* The invariant of the boot is about who may write to schema_migrations:  *)
(* a session with a COMMIT under way holds the lock (OneWriter), an        *)
(* instance that is still booting has its end of the session (PcKnows), so *)
(* a COMMIT of a dead instance and the steps of a living one exclude each  *)
(* other, and what the living one has read stays true (ReadIsCurrent).     *)
(*                                                                         *)
(* PoolOutlivesItsUsers is not inductive: that a request may be left       *)
(* behind only by a failed shutdown is decided when run returns, before    *)
(* the janitor has stopped, and that there is no janitor to wait for when  *)
(* run gives up during its wiring comes from the state before              *)
(* (ShutdownInOrder).                                                      *)
(*                                                                         *)
(* One report does not cost another since a request keeps account of its   *)
(* body (RequestsKeepAccount), and since the loop of parseReportingAPI     *)
(* collects the violations of a body of any length in their order          *)
(* (ReportingItemsCollected).                                              *)
(***************************************************************************)
EXTENDS Lifecycle, FiniteSetTheorems, TLAPS

\* The lock has one holder, and only its session has sent a COMMIT, of the
\* earliest version that is missing.
OneWriter ==
    /\ \A p, q \in Procs : sess[p] = "locked" /\ sess[q] = "locked" => p = q
    /\ \A p \in Procs : tx[p] # NoVersion =>
         /\ sess[p] = "locked"
         /\ tx[p] \in Embedded[p] \ applied
         /\ \A w \in Embedded[p] : w < tx[p] => w \in applied

\* What an instance knows from how far it has come.
PcKnows ==
    \A p \in Procs :
        /\ pc[p] \in Booting => p \notin cut
        /\ pc[p] = "connect" => sess[p] = "none"
        /\ pc[p] \in Migrating \ {"lock"} => sess[p] # "waiting"
        /\ pc[p] \in Booting \ {"commit"} => tx[p] = NoVersion
        /\ pc[p] = "commit" /\ sess[p] = "locked" => tx[p] # NoVersion
        /\ pc[p] = "apply" => ~(Embedded[p] \subseteq done[p])
        /\ pc[p] = "booted" => Embedded[p] \subseteq applied

\* isDone never claims too much, and misses nothing while the lock is held.
ReadIsCurrent ==
    \A p \in Procs :
        /\ done[p] \subseteq applied
        /\ sess[p] = "locked" /\ pc[p] \in {"apply", "commit"} => done[p] = applied

BootInv == BootTypeOK /\ OneWriter /\ PcKnows /\ ReadIsCurrent

-----------------------------------------------------------------------------
LEMMA LeastExists ==
  ASSUME NEW T, T \subseteq Nat, T # {}
  PROVE  \E x \in T : \A y \in T : x <= y
<1>1. PICK x \in T : \A y \in T : ~ (<<y, x>> \in OpToRel(<, Nat))
  BY NatLessThanWellFounded, WFMin
<1>2. ASSUME NEW y \in T PROVE x <= y
  <2>1. <<y, x>> \in Nat \X Nat /\ <<y, x>>[1] = y /\ <<y, x>>[2] = x
    OBVIOUS
  <2>2. ~ (y < x)
    BY <1>1, <2>1 DEF OpToRel
  <2>3. QED BY <2>2
<1>3. QED BY <1>2

LEMMA NextVersionIsLeast ==
  ASSUME NEW p \in Procs, ~(Embedded[p] \subseteq done[p])
  PROVE  /\ NextVersion(p) \in Embedded[p] \ done[p]
         /\ NextVersion(p) \in Nat \ {0}
         /\ \A w \in Embedded[p] : w < NextVersion(p) => w \in done[p]
<1> DEFINE T == Embedded[p] \ done[p]
<1>1. T \subseteq Nat \ {0} /\ T # {}
  BY MigrationsAssumption
<1>2. \E x \in T : \A y \in T : x <= y
  BY <1>1, LeastExists
<1>3. NextVersion(p) \in T /\ \A y \in T : NextVersion(p) <= y
  BY <1>2 DEF NextVersion
<1>4. QED BY <1>1, <1>3, MigrationsAssumption

-----------------------------------------------------------------------------
LEMMA StartKeeps ==
  ASSUME NEW p \in Procs, BootInv, Start(p)
  PROVE  BootInv'
<1> USE MigrationsAssumption
    DEF BootInv, BootTypeOK, OneWriter, PcKnows, ReadIsCurrent, Versions, Stages,
        Booting, Migrating, NoVersion, Start
<1>1. BootTypeOK'
  OBVIOUS
<1>2. OneWriter'
  OBVIOUS
<1>3. PcKnows'
  OBVIOUS
<1>4. ReadIsCurrent'
  OBVIOUS
<1>5. QED BY <1>1, <1>2, <1>3, <1>4

LEMMA SignalKeeps ==
  ASSUME NEW p \in Procs, BootInv, Signal(p)
  PROVE  BootInv'
<1> USE MigrationsAssumption
    DEF BootInv, BootTypeOK, OneWriter, PcKnows, ReadIsCurrent, Versions, Stages,
        Booting, Migrating, NoVersion, Signal
<1>1. BootTypeOK'
  OBVIOUS
<1>2. OneWriter'
  OBVIOUS
<1>3. PcKnows'
  OBVIOUS
<1>4. ReadIsCurrent'
  OBVIOUS
<1>5. QED BY <1>1, <1>2, <1>3, <1>4

LEMMA ConnectKeeps ==
  ASSUME NEW p \in Procs, BootInv, Connect(p)
  PROVE  BootInv'
<1> USE MigrationsAssumption
    DEF BootInv, BootTypeOK, OneWriter, PcKnows, ReadIsCurrent, Versions, Stages,
        Booting, Migrating, NoVersion, Connect
<1>1. BootTypeOK'
  OBVIOUS
<1>2. OneWriter'
  OBVIOUS
<1>3. PcKnows'
  OBVIOUS
<1>4. ReadIsCurrent'
  OBVIOUS
<1>5. QED BY <1>1, <1>2, <1>3, <1>4

LEMMA ConnectFailsKeeps ==
  ASSUME NEW p \in Procs, BootInv, ConnectFails(p)
  PROVE  BootInv'
<1> USE MigrationsAssumption
    DEF BootInv, BootTypeOK, OneWriter, PcKnows, ReadIsCurrent, Versions, Stages,
        Booting, Migrating, NoVersion, ConnectFails
<1>1. BootTypeOK'
  OBVIOUS
<1>2. OneWriter'
  OBVIOUS
<1>3. PcKnows'
  OBVIOUS
<1>4. ReadIsCurrent'
  OBVIOUS
<1>5. QED BY <1>1, <1>2, <1>3, <1>4

LEMMA GrantKeeps ==
  ASSUME NEW p \in Procs, BootInv, Grant(p)
  PROVE  BootInv'
<1> USE MigrationsAssumption
    DEF BootInv, BootTypeOK, OneWriter, PcKnows, ReadIsCurrent, Versions, Stages,
        Booting, Migrating, NoVersion, Grant
<1>1. BootTypeOK'
  OBVIOUS
<1>2. OneWriter'
  OBVIOUS
<1>3. PcKnows'
  OBVIOUS
<1>4. ReadIsCurrent'
  OBVIOUS
<1>5. QED BY <1>1, <1>2, <1>3, <1>4

LEMMA ReadKeeps ==
  ASSUME NEW p \in Procs, BootInv, Read(p)
  PROVE  BootInv'
<1> USE MigrationsAssumption
    DEF BootInv, BootTypeOK, OneWriter, PcKnows, ReadIsCurrent, Versions, Stages,
        Booting, Migrating, NoVersion, Read, NextStage
<1>1. BootTypeOK'
  OBVIOUS
<1>2. OneWriter'
  OBVIOUS
<1>3. PcKnows'
  OBVIOUS
<1>4. ReadIsCurrent'
  OBVIOUS
<1>5. QED BY <1>1, <1>2, <1>3, <1>4

LEMMA ApplyKeeps ==
  ASSUME NEW p \in Procs, BootInv, Apply(p)
  PROVE  BootInv'
<1> USE MigrationsAssumption, NextVersionIsLeast
    DEF BootInv, BootTypeOK, OneWriter, PcKnows, ReadIsCurrent, Versions, Stages,
        Booting, Migrating, NoVersion, Apply
<1>1. BootTypeOK'
  OBVIOUS
<1>2. OneWriter'
  OBVIOUS
<1>3. PcKnows'
  OBVIOUS
<1>4. ReadIsCurrent'
  OBVIOUS
<1>5. QED BY <1>1, <1>2, <1>3, <1>4

LEMMA CommitKeeps ==
  ASSUME NEW p \in Procs, BootInv, Commit(p)
  PROVE  BootInv'
<1> USE MigrationsAssumption
    DEF BootInv, BootTypeOK, OneWriter, PcKnows, ReadIsCurrent, Versions, Stages,
        Booting, Migrating, NoVersion, Commit, NextStage
<1>1. BootTypeOK'
  OBVIOUS
<1>2. OneWriter'
  OBVIOUS
<1>3. PcKnows'
  OBVIOUS
<1>4. ReadIsCurrent'
  OBVIOUS
<1>5. QED BY <1>1, <1>2, <1>3, <1>4

LEMMA LockFailsKeeps ==
  ASSUME NEW p \in Procs, BootInv, LockFails(p)
  PROVE  BootInv'
<1> USE MigrationsAssumption
    DEF BootInv, BootTypeOK, OneWriter, PcKnows, ReadIsCurrent, Versions, Stages,
        Booting, Migrating, NoVersion, LockFails
<1>1. BootTypeOK'
  OBVIOUS
<1>2. OneWriter'
  OBVIOUS
<1>3. PcKnows'
  OBVIOUS
<1>4. ReadIsCurrent'
  OBVIOUS
<1>5. QED BY <1>1, <1>2, <1>3, <1>4

LEMMA StatementFailsKeeps ==
  ASSUME NEW p \in Procs, BootInv, StatementFails(p)
  PROVE  BootInv'
<1> USE MigrationsAssumption
    DEF BootInv, BootTypeOK, OneWriter, PcKnows, ReadIsCurrent, Versions, Stages,
        Booting, Migrating, NoVersion, StatementFails
<1>1. BootTypeOK'
  OBVIOUS
<1>2. OneWriter'
  OBVIOUS
<1>3. PcKnows'
  OBVIOUS
<1>4. ReadIsCurrent'
  OBVIOUS
<1>5. QED BY <1>1, <1>2, <1>3, <1>4

LEMMA CutKeeps ==
  ASSUME NEW p \in Procs, BootInv, Cut(p)
  PROVE  BootInv'
<1> USE MigrationsAssumption
    DEF BootInv, BootTypeOK, OneWriter, PcKnows, ReadIsCurrent, Versions, Stages,
        Booting, Migrating, NoVersion, Cut, Close, Outcome
<1>1. BootTypeOK'
  OBVIOUS
<1>2. OneWriter'
  OBVIOUS
<1>3. PcKnows'
  OBVIOUS
<1>4. ReadIsCurrent'
  OBVIOUS
<1>5. QED BY <1>1, <1>2, <1>3, <1>4

LEMMA UnlockKeeps ==
  ASSUME NEW p \in Procs, BootInv, Unlock(p)
  PROVE  BootInv'
<1> USE MigrationsAssumption
    DEF BootInv, BootTypeOK, OneWriter, PcKnows, ReadIsCurrent, Versions, Stages,
        Booting, Migrating, NoVersion, Unlock, Outcome
<1>1. BootTypeOK'
  OBVIOUS
<1>2. OneWriter'
  OBVIOUS
<1>3. PcKnows'
  OBVIOUS
<1>4. ReadIsCurrent'
  OBVIOUS
<1>5. QED BY <1>1, <1>2, <1>3, <1>4

LEMMA LoseSessionKeeps ==
  ASSUME NEW p \in Procs, BootInv, LoseSession(p)
  PROVE  BootInv'
<1> USE MigrationsAssumption
    DEF BootInv, BootTypeOK, OneWriter, PcKnows, ReadIsCurrent, Versions, Stages,
        Booting, Migrating, NoVersion, LoseSession
<1>1. BootTypeOK'
  OBVIOUS
<1>2. OneWriter'
  OBVIOUS
<1>3. PcKnows'
  OBVIOUS
<1>4. ReadIsCurrent'
  OBVIOUS
<1>5. QED BY <1>1, <1>2, <1>3, <1>4

LEMMA OrphanCommitsKeeps ==
  ASSUME NEW p \in Procs, BootInv, OrphanCommits(p)
  PROVE  BootInv'
<1> USE MigrationsAssumption
    DEF BootInv, BootTypeOK, OneWriter, PcKnows, ReadIsCurrent, Versions, Stages,
        Booting, Migrating, NoVersion, OrphanCommits
<1>1. BootTypeOK'
  OBVIOUS
<1>2. OneWriter'
  OBVIOUS
<1>3. PcKnows'
  OBVIOUS
<1>4. ReadIsCurrent'
  OBVIOUS
<1>5. QED BY <1>1, <1>2, <1>3, <1>4

LEMMA GoneKeeps ==
  ASSUME NEW p \in Procs, BootInv, Gone(p)
  PROVE  BootInv'
<1> USE MigrationsAssumption
    DEF BootInv, BootTypeOK, OneWriter, PcKnows, ReadIsCurrent, Versions, Stages,
        Booting, Migrating, NoVersion, Gone, Close
<1>1. BootTypeOK'
  OBVIOUS
<1>2. OneWriter'
  OBVIOUS
<1>3. PcKnows'
  OBVIOUS
<1>4. ReadIsCurrent'
  OBVIOUS
<1>5. QED BY <1>1, <1>2, <1>3, <1>4

-----------------------------------------------------------------------------
LEMMA BootInvInit == BootInit => BootInv
BY MigrationsAssumption
   DEF BootInit, BootInv, BootTypeOK, OneWriter, PcKnows, ReadIsCurrent,
       Booting, Migrating, Stages, NoVersion, Versions

LEMMA BootStepKeeps ==
  ASSUME BootInv, [BootNext]_bootVars
  PROVE  BootInv'
<1>1. CASE UNCHANGED bootVars
  BY <1>1 DEF BootInv, BootTypeOK, OneWriter, PcKnows, ReadIsCurrent, bootVars,
              Versions, Stages, Booting, Migrating, NoVersion
<1>2. ASSUME NEW p \in Procs, BootStep(p) \/ Crash(p)
      PROVE  BootInv'
  BY <1>2, StartKeeps, SignalKeeps, ConnectKeeps, ConnectFailsKeeps, GrantKeeps,
     ReadKeeps, ApplyKeeps, CommitKeeps, LockFailsKeeps, StatementFailsKeeps,
     CutKeeps, UnlockKeeps, LoseSessionKeeps, OrphanCommitsKeeps, GoneKeeps
     DEF BootStep, Crash, ExitFailed
<1>3. QED BY <1>1, <1>2 DEF BootNext

LEMMA BootInvHolds == BootInit /\ [][BootNext]_bootVars => []BootInv
BY BootInvInit, BootStepKeeps, PTL

\* Every variable of the boot keeps its type; in particular an instance records
\* only versions that some binary has (Migrate, applyMigration).
THEOREM BootTypeCorrect == BootSpec => []BootTypeOK
<1>1. BootInv => BootTypeOK
  BY DEF BootInv
<1>2. QED BY <1>1, BootInvHolds, PTL DEF BootSpec

LEMMA InvNoBootRace ==
  ASSUME BootInv
  PROVE  NoBootRace
<1>1. ASSUME NEW p \in Procs, sess[p] = "locked", pc[p] = "apply"
      PROVE  NextVersion(p) \notin applied
  BY <1>1, NextVersionIsLeast DEF BootInv, PcKnows, ReadIsCurrent
<1>2. ASSUME NEW p \in Procs, tx[p] # NoVersion
      PROVE  tx[p] \notin applied
  BY <1>2 DEF BootInv, OneWriter
<1>3. QED BY <1>1, <1>2 DEF NoBootRace

\* Instances that boot at once, or after one that died at any point, do not race
\* each other for a migration (the advisory lock of Migrate).
THEOREM BootsDoNotRace == BootSpec => []NoBootRace
<1>1. BootInv => NoBootRace
  BY InvNoBootRace
<1>2. QED BY <1>1, BootInvHolds, PTL DEF BootSpec

\* An instance whose boot has succeeded has every migration it was built with,
\* also when another instance or a dead one has applied them (Migrate's errors end
\* run).
THEOREM BootedHasItsSchema == BootSpec => []BootedSeesSchema
<1>1. BootInv => BootedSeesSchema
  BY DEF BootInv, PcKnows, BootedSeesSchema
<1>2. QED BY <1>1, BootInvHolds, PTL DEF BootSpec

LEMMA BootStepInOrder ==
  ASSUME BootInv, [BootNext]_bootVars
  PROVE  \A v \in applied' \ applied : \E p \in Procs :
            /\ v \in Embedded[p]
            /\ \A w \in Embedded[p] : w < v => w \in applied
<1>1. CASE applied' = applied
  BY <1>1
<1>2. ASSUME NEW p \in Procs, Commit(p) \/ OrphanCommits(p)
      PROVE  /\ applied' = applied \cup {tx[p]}
             /\ tx[p] \in Embedded[p]
             /\ \A w \in Embedded[p] : w < tx[p] => w \in applied
  BY <1>2 DEF BootInv, OneWriter, PcKnows, Commit, OrphanCommits
<1>3. applied' = applied \/ \E p \in Procs : Commit(p) \/ OrphanCommits(p)
  BY DEF BootNext, BootStep, bootVars, Start, Signal, Connect, ConnectFails, Grant,
         Read, Apply, LockFails, StatementFails, Cut, Unlock, LoseSession, ExitFailed,
         Crash, Gone
<1>4. QED BY <1>1, <1>2, <1>3

\* Every migration that is applied comes after the earlier ones of the same
\* binary, whichever instances applied those (the sort of loadUpMigrations).
THEOREM MigrationsAreInOrder == BootSpec => AppliedInOrder
<1>1. BootInv /\ [BootNext]_bootVars =>
        [\A v \in applied' \ applied : \E p \in Procs :
            /\ v \in Embedded[p]
            /\ \A w \in Embedded[p] : w < v => w \in applied]_bootVars
  BY BootStepInOrder
<1>2. QED BY <1>1, BootInvHolds, PTL DEF BootSpec, AppliedInOrder

-----------------------------------------------------------------------------
(* The loop of parseReportingAPI, whose result is a recursive function.    *)
(* That there is one, and what it is after each turn, is shown by a least  *)
(* number of turns for which it would fail.                                *)

Turn(items, out, n) ==
    IF n = 0 THEN <<>>
    ELSE IF items[n] = "csp" THEN Append(out[n - 1], n) ELSE out[n - 1]
IsLoop(items, out, N) == out = [n \in 0..N |-> Turn(items, out, n)]

LEMMA LoopExists ==
  ASSUME NEW items, NEW N \in Nat
  PROVE  \E out : IsLoop(items, out, N)
<1> DEFINE T == {n \in Nat : ~ \E out : IsLoop(items, out, n)}
<1>1. SUFFICES ASSUME T # {} PROVE FALSE
  OBVIOUS
<1>2. PICK x \in T : \A y \in T : x <= y
  BY <1>1, LeastExists
<1>3. CASE x = 0
  <2> DEFINE out == [n \in 0..0 |-> <<>>]
  <2>1. \A n \in 0..0 : Turn(items, out, n) = <<>>
    BY DEF Turn
  <2>2. IsLoop(items, out, 0)
    BY <2>1 DEF IsLoop
  <2>3. QED BY <1>2, <1>3, <2>2
<1>4. CASE x # 0
  <2>1. x \in Nat /\ x - 1 \in Nat /\ x - 1 \notin T
    BY <1>2, <1>4
  <2>2. PICK out : IsLoop(items, out, x - 1)
    BY <2>1
  <2> DEFINE last == Turn(items, out, x)
             more == [n \in 0..x |-> IF n = x THEN last ELSE out[n]]
  <2>3. \A n \in 0..(x - 1) : out[n] = Turn(items, out, n)
    BY <2>2 DEF IsLoop
  <2> HIDE DEF last
  <2>4. ASSUME NEW n \in 0..x
        PROVE  more[n] = Turn(items, more, n)
    <3>1. CASE n = x
      <4>1. more[n - 1] = out[x - 1] /\ more[n] = last
        BY <1>4, <2>1, <3>1
      <4> HIDE DEF more
      <4>2. QED BY <1>4, <3>1, <4>1 DEF Turn, last
    <3>2. CASE n # x /\ n # 0
      <4>1. more[n - 1] = out[n - 1] /\ more[n] = out[n] /\ n \in 0..(x - 1)
        BY <2>1, <3>2
      <4> HIDE DEF more
      <4>2. QED BY <2>3, <4>1, <3>2 DEF Turn
    <3>3. CASE n # x /\ n = 0
      <4>1. more[n] = out[n] /\ n \in 0..(x - 1)
        BY <2>1, <3>3
      <4> HIDE DEF more
      <4>2. QED BY <2>3, <4>1, <3>3 DEF Turn
    <3>4. QED BY <3>1, <3>2, <3>3
  <2>5. more = [n \in 0..x |-> Turn(items, more, n)]
    <3>1. more = [n \in 0..x |-> more[n]]
      OBVIOUS
    <3> HIDE DEF more
    <3>2. QED BY <2>4, <3>1
  <2>6. IsLoop(items, more, x)
    BY <2>5 DEF IsLoop
  <2>7. QED BY <1>2, <2>6
<1>5. QED BY <1>3, <1>4

LEMMA ReportingItemsLoop ==
  ASSUME NEW items \in Seq(Items)
  PROVE  \E out : IsLoop(items, out, Len(items)) /\ ReportingItems(items) = out[Len(items)]
<1> DEFINE out == CHOOSE f : f = [n \in 0..Len(items) |->
                                    IF n = 0 THEN <<>>
                                    ELSE IF items[n] = "csp" THEN Append(f[n - 1], n)
                                    ELSE f[n - 1]]
<1>1. ReportingItems(items) = out[Len(items)]
  BY DEF ReportingItems
<1>2. PICK g : IsLoop(items, g, Len(items))
  BY LoopExists
<1>3. g = [n \in 0..Len(items) |->
             IF n = 0 THEN <<>>
             ELSE IF items[n] = "csp" THEN Append(g[n - 1], n) ELSE g[n - 1]]
  BY <1>2, Zenon DEF IsLoop, Turn
<1>4. out = [n \in 0..Len(items) |->
               IF n = 0 THEN <<>>
               ELSE IF items[n] = "csp" THEN Append(out[n - 1], n) ELSE out[n - 1]]
  BY <1>3, Zenon
<1> HIDE DEF out
<1>5. IsLoop(items, out, Len(items))
  BY <1>4, Zenon DEF IsLoop, Turn
<1>6. QED BY <1>1, <1>5

\* The place of item i among the violations.
Rank(items, i) == Cardinality({j \in 1..i : items[j] = "csp"})

LEMMA RankStep ==
  ASSUME NEW items, NEW n \in Nat \ {0}
  PROVE  /\ Rank(items, 0) = 0 /\ Rank(items, n - 1) \in Nat
         /\ Rank(items, n) = Rank(items, n - 1) + (IF items[n] = "csp" THEN 1 ELSE 0)
<1> DEFINE before == {j \in 1..(n - 1) : items[j] = "csp"}
<1>1. IsFiniteSet(before) /\ Cardinality(before) \in Nat
  <2>1. IsFiniteSet(1..(n - 1))
    BY FS_Interval
  <2>2. before \in SUBSET (1..(n - 1))
    OBVIOUS
  <2> HIDE DEF before
  <2>3. QED BY <2>1, <2>2, FS_Subset, FS_CardinalityType
<1>2. Rank(items, 0) = 0
  <2>1. {j \in 1..0 : items[j] = "csp"} = {}
    OBVIOUS
  <2>2. QED BY <2>1, FS_EmptySet DEF Rank
<1>3. CASE items[n] = "csp"
  <2>1. {j \in 1..n : items[j] = "csp"} = before \cup {n} /\ n \notin before
    BY <1>3
  <2> HIDE DEF before
  <2>2. Cardinality(before \cup {n}) = Cardinality(before) + 1
    BY <1>1, <2>1, FS_AddElement
  <2>3. QED BY <1>1, <1>2, <1>3, <2>1, <2>2 DEF Rank, before
<1>4. CASE items[n] # "csp"
  <2>1. {j \in 1..n : items[j] = "csp"} = before
    BY <1>4
  <2>2. QED BY <1>1, <1>2, <1>4, <2>1 DEF Rank
<1>5. QED BY <1>3, <1>4

\* What the loop has put out after n turns: the violations so far, in order.
Collected(items, s, n) ==
    /\ s \in Seq(Nat) /\ Len(s) = Rank(items, n)
    /\ \A m \in 1..Len(s) :
         s[m] \in 1..n /\ items[s[m]] = "csp" /\ Rank(items, s[m]) = m
    /\ \A i \in 1..n :
         items[i] = "csp" => Rank(items, i) \in 1..Len(s) /\ s[Rank(items, i)] = i

LEMMA CollectedTurn ==
  ASSUME NEW items, NEW n \in Nat \ {0}, NEW s, Collected(items, s, n - 1)
  PROVE  Collected(items, IF items[n] = "csp" THEN Append(s, n) ELSE s, n)
<1>0. s \in Seq(Nat) /\ Len(s) = Rank(items, n - 1)
  BY DEF Collected
<1>1. CASE items[n] = "csp"
  <2> DEFINE new == Append(s, n)
  <2>1. /\ new \in Seq(Nat) /\ Len(new) = Len(s) + 1 /\ new[Len(s) + 1] = n
        /\ \A m \in 1..Len(s) : new[m] = s[m]
    BY <1>0
  <2> HIDE DEF new
  <2>2. Rank(items, n) = Len(s) + 1 /\ Len(s) \in Nat
    BY <1>0, <1>1, RankStep
  <2>3. ASSUME NEW m \in 1..Len(new)
        PROVE  new[m] \in 1..n /\ items[new[m]] = "csp" /\ Rank(items, new[m]) = m
    <3>1. CASE m = Len(s) + 1
      BY <1>1, <2>1, <2>2, <3>1
    <3>2. CASE m \in 1..Len(s)
      BY <2>1, <3>2 DEF Collected
    <3>3. QED BY <2>1, <2>2, <3>1, <3>2
  <2>4. ASSUME NEW i \in 1..n, items[i] = "csp"
        PROVE  Rank(items, i) \in 1..Len(new) /\ new[Rank(items, i)] = i
    <3>1. CASE i = n
      BY <2>1, <2>2, <3>1
    <3>2. CASE i \in 1..(n - 1)
      <4>1. Rank(items, i) \in 1..Len(s) /\ s[Rank(items, i)] = i
        BY <2>4, <3>2 DEF Collected
      <4>2. QED BY <2>1, <2>2, <4>1
    <3>3. QED BY <3>1, <3>2
  <2>5. QED BY <1>1, <2>1, <2>2, <2>3, <2>4 DEF Collected, new
<1>2. CASE items[n] # "csp"
  <2>1. Rank(items, n) = Len(s)
    BY <1>0, <1>2, RankStep
  <2>2. \A i \in 1..n : items[i] = "csp" => i \in 1..(n - 1)
    BY <1>2
  <2>3. 1..(n - 1) \subseteq 1..n
    OBVIOUS
  <2>4. QED BY <1>0, <1>2, <2>1, <2>2, <2>3 DEF Collected
<1>3. QED BY <1>1, <1>2

LEMMA LoopCollects ==
  ASSUME NEW items, NEW N \in Nat, NEW out, IsLoop(items, out, N), NEW k \in 0..N
  PROVE  Collected(items, out[k], k)
<1> DEFINE T == {n \in 0..N : ~Collected(items, out[n], n)}
<1>1. SUFFICES ASSUME T # {} PROVE FALSE
  OBVIOUS
<1>2. PICK x \in T : \A y \in T : x <= y
  <2>1. T \subseteq Nat
    OBVIOUS
  <2> HIDE DEF T
  <2>2. QED BY <1>1, <2>1, LeastExists
<1>3. x \in 0..N /\ out[x] = Turn(items, out, x)
  BY <1>2 DEF IsLoop
<1>4. CASE x = 0
  <2>1. out[x] = <<>> /\ Rank(items, 0) = 0
    BY <1>3, <1>4, RankStep DEF Turn
  <2>2. Collected(items, out[x], x)
    BY <1>4, <2>1 DEF Collected
  <2>3. QED BY <1>2, <2>2
<1>5. CASE x # 0
  <2>1. x \in Nat \ {0} /\ x - 1 \in 0..N /\ x - 1 \notin T
    BY <1>2, <1>3, <1>5
  <2>2. Collected(items, out[x - 1], x - 1)
    BY <2>1
  <2>3. out[x] = IF items[x] = "csp" THEN Append(out[x - 1], x) ELSE out[x - 1]
    BY <1>3, <1>5 DEF Turn
  <2>4. Collected(items, out[x], x)
    BY <2>1, <2>2, <2>3, CollectedTurn
  <2>5. QED BY <1>2, <2>4
<1>6. QED BY <1>4, <1>5

LEMMA ReportingItemsCollected ==
  ASSUME NEW items \in Seq(Items)
  PROVE  Collected(items, ReportingItems(items), Len(items))
<1>1. PICK out : IsLoop(items, out, Len(items)) /\ ReportingItems(items) = out[Len(items)]
  BY ReportingItemsLoop
<1>2. QED BY <1>1, LoopCollects

Elements(s) == {s[m] : m \in 1..Len(s)}

\* What is stored are the items that ought to be, each once.
LEMMA ToStoreIsWanted ==
  ASSUME NEW b \in Bodies
  PROVE  ToStore(b) \in Seq(Nat) /\ Elements(ToStore(b)) = Wanted(b)
<1>0. MaxReports \in Nat /\ MaxReports >= 1
  BY CSPAssumption
<1>1. CASE b.shape = "array"
  <2> DEFINE items == b.items
             all == ReportingItems(items)
             N == Len(items)
  <2>1. items \in Seq(Items) /\ DOMAIN items = 1..N /\ N \in Nat
    BY <1>1 DEF Bodies
  <2>2. Collected(items, all, N)
    BY <2>1, ReportingItemsCollected
  <2>3. ToStore(b) = IF Len(all) > MaxReports THEN SubSeq(all, 1, MaxReports) ELSE all
    BY <1>1 DEF ToStore, Normalize
  <2>4. Wanted(b) = {i \in 1..N : items[i] = "csp" /\ Rank(items, i) <= MaxReports}
    BY <1>1, <2>1 DEF Wanted, Rank
  <2> HIDE DEF items, all, N
  <2>5. all \in Seq(Nat) /\ Len(all) \in Nat
    BY <2>2 DEF Collected
  <2> DEFINE kept == IF Len(all) > MaxReports THEN MaxReports ELSE Len(all)
  <2>6. kept \in Nat /\ kept <= MaxReports /\ kept <= Len(all)
        /\ \A r \in 1..Len(all) : r <= MaxReports => r \in 1..kept
    BY <1>0, <2>5
  <2>7. ToStore(b) \in Seq(Nat) /\ Len(ToStore(b)) = kept
        /\ \A m \in 1..kept : ToStore(b)[m] = all[m]
    BY <1>0, <2>3, <2>5
  <2> HIDE DEF kept
  <2>8. ASSUME NEW m \in 1..kept PROVE all[m] \in Wanted(b)
    BY <1>0, <2>2, <2>4, <2>5, <2>6 DEF Collected
  <2>9. ASSUME NEW i \in Wanted(b) PROVE \E m \in 1..kept : all[m] = i
    BY <2>2, <2>4, <2>6 DEF Collected
  <2>10. QED BY <2>7, <2>8, <2>9 DEF Elements
<1>2. CASE b.shape = "object"
  <2>1. /\ ObjectItems(b) \in Seq(Nat) /\ Len(ObjectItems(b)) <= 1
        /\ Elements(ObjectItems(b)) = Wanted(b)
    <3>1. CASE b.member \/ IsCustom(b)
      <4>1. ObjectItems(b) = <<1>> /\ Wanted(b) = {1}
        BY <1>2, <3>1 DEF ObjectItems, Wanted, IsCustom
      <4>2. QED BY <4>1 DEF Elements
    <3>2. CASE ~(b.member \/ IsCustom(b))
      <4>1. ObjectItems(b) = <<>> /\ Wanted(b) = {}
        BY <1>2, <3>2 DEF ObjectItems, Wanted, IsCustom
      <4>2. QED BY <4>1 DEF Elements
    <3>3. QED BY <3>1, <3>2
  <2>2. Normalize(b) = ObjectItems(b)
    BY <1>2 DEF Normalize
  <2>3. ToStore(b) = ObjectItems(b)
    BY <1>0, <2>1, <2>2 DEF ToStore
  <2>4. QED BY <2>1, <2>3
<1>3. CASE b.shape = "other"
  <2>1. ToStore(b) = <<>> /\ Wanted(b) = {}
    BY <1>0, <1>3 DEF ToStore, Normalize, Wanted
  <2>2. QED BY <2>1 DEF Elements
<1>4. QED BY <1>1, <1>2, <1>3 DEF Bodies

LEMMA HeadAndTail ==
  ASSUME NEW s \in Seq(Nat), s # <<>>
  PROVE  /\ Head(s) \in Nat /\ Tail(s) \in Seq(Nat)
         /\ Elements(s) = {Head(s)} \cup Elements(Tail(s))
<1> DEFINE rest == Tail(s)
<1>1. Head(s) = s[1] /\ Tail(s) \in Seq(Nat) /\ Len(s) \in Nat \ {0} /\ s[1] \in Nat
      /\ Len(Tail(s)) = Len(s) - 1 /\ \A m \in 1..(Len(s) - 1) : Tail(s)[m] = s[m + 1]
  OBVIOUS
<1> HIDE DEF rest
<1>2. Len(rest) = Len(s) - 1 /\ \A m \in 1..Len(rest) : rest[m] = s[m + 1]
  BY <1>1 DEF rest
<1>3. ASSUME NEW m \in 1..Len(s) PROVE s[m] \in {Head(s)} \cup Elements(rest)
  <2>1. CASE m = 1
    BY <1>1, <2>1
  <2>2. CASE m # 1
    <3>1. m - 1 \in 1..Len(rest) /\ rest[m - 1] = s[m]
      BY <1>1, <1>2, <2>2
    <3>2. QED BY <3>1 DEF Elements
  <2>3. QED BY <2>1, <2>2
<1>4. ASSUME NEW m \in 1..Len(rest) PROVE rest[m] \in Elements(s)
  <2>1. m + 1 \in 1..Len(s) /\ rest[m] = s[m + 1]
    BY <1>1, <1>2
  <2>2. QED BY <2>1 DEF Elements
<1>5. Head(s) \in Elements(s)
  BY <1>1 DEF Elements
<1>6. Elements(s) = {Head(s)} \cup Elements(rest)
  BY <1>3, <1>4, <1>5 DEF Elements
<1>7. QED BY <1>1, <1>6 DEF rest

-----------------------------------------------------------------------------
(* Whole lives.                                                            *)

LifeShape ==
    /\ main \in [Servers -> {"none", "serving", "draining", "joining", "closing"}]
    /\ err \in [Servers -> BOOLEAN]
    /\ janitor \in [Servers -> Janitor]
    /\ req \in [Servers -> Request]

ShutdownInOrder ==
    \A p \in Servers :
        /\ main[p] = "none" => janitor[p].at = "off" /\ req[p].doing = "none"
        /\ main[p] \in {"joining", "closing"} => (req[p].doing # "none" => err[p])
        /\ main[p] = "closing" => janitor[p].at \in {"off", "done"}
        /\ main[p] \in {"serving", "draining"} => janitor[p].at \in {"pass", "idle", "done"}

\* Of a report request, what has been tried and what is left are what it delivered.
RequestsKeepAccount ==
    \A p \in Servers :
        /\ req[p].held => req[p].left # <<>>
        /\ req[p].doing = "csp" =>
             req[p].body \in Sent
             /\ req[p].tried \cup Elements(req[p].left) = Wanted(req[p].body)

\* Exit is a crash to the boot: the process was up.
ServesBooted == \A p \in Servers : main[p] # "none" => pc[p] = "booted"

LifeInv == BootInv /\ LifeShape /\ ShutdownInOrder /\ ServesBooted /\ RequestsKeepAccount

-----------------------------------------------------------------------------
LEMMA PassType == Len(Pass) \in Nat /\ 1 \in 1..Len(Pass)
<1> DEFINE health == IfRetained("health")
           csp == IfRetained("csp")
           Tables == {"flows", "health", "csp"}
<1>0. \A t \in Tables : <<t>> \in Seq(Tables) /\ Len(<<t>>) = 1
  OBVIOUS
<1>1. health \in Seq(Tables) /\ csp \in Seq(Tables)
  <2>1. <<>> \in Seq(Tables)
    OBVIOUS
  <2>2. \A t \in Tables : IfRetained(t) \in Seq(Tables)
    BY <1>0, <2>1 DEF IfRetained
  <2>3. QED BY <2>2
<1>2. <<"flows">> \in Seq(Tables) /\ Len(<<"flows">>) = 1
  BY <1>0
<1> HIDE DEF health, csp, Tables
<1>3. /\ <<"flows">> \o health \in Seq(Tables)
      /\ Len(<<"flows">> \o health) = 1 + Len(health)
  BY <1>1, <1>2
<1>4. Len((<<"flows">> \o health) \o csp) = 1 + Len(health) + Len(csp)
  BY <1>1, <1>3
<1>5. Len(health) \in Nat /\ Len(csp) \in Nat
  BY <1>1
<1>6. QED BY <1>4, <1>5 DEF Pass, health, csp

LEMMA NothingType == JanitorOff \in Janitor /\ NoRequest \in Request
BY PassType DEF JanitorOff, Janitor, NoRequest, Request

LEMMA LifeInvInit == Init => LifeInv
<1> SUFFICES ASSUME Init PROVE LifeInv
  OBVIOUS
<1>1. BootInv /\ ServesBooted
  BY BootInvInit DEF Init, ServesBooted
<1>2. LifeShape
  BY NothingType DEF Init, LifeShape
<1>3. ShutdownInOrder
  BY DEF Init, ShutdownInOrder, JanitorOff, NoRequest
<1>4. RequestsKeepAccount
  BY DEF Init, RequestsKeepAccount, NoRequest
<1>5. QED BY <1>1, <1>2, <1>3, <1>4 DEF LifeInv

LEMMA LifeRunsBoot ==
  ASSUME LifeInv, [Next]_vars
  PROVE  [BootNext]_bootVars
<1>1. CASE UNCHANGED vars
  BY <1>1 DEF vars
<1>2. CASE Boot
  BY <1>2, LifecycleAssumption DEF Boot, BootNext
<1>3. ASSUME NEW p \in Servers, Exit(p)
      PROVE  BootNext
  BY <1>3, LifecycleAssumption DEF Exit, BootNext, Crash, LifeInv, ServesBooted
<1>4. CASE UNCHANGED bootVars
  BY <1>4
<1>5. UNCHANGED vars \/ Boot \/ UNCHANGED bootVars \/ \E p \in Servers : Exit(p)
  BY DEF Next, Proceed, Housekeep, Serve, Age, Wire, WireFails, ServeFails, SeeSignal,
         Drained, DrainTimesOut, JoinJanitor, Prune, PruneFails, JanitorTicks,
         JanitorStops, Ready, ServeCSP, Arrive, Acquire, StatementEnds, Answer
<1>6. QED BY <1>1, <1>2, <1>3, <1>4, <1>5

-----------------------------------------------------------------------------
LEMMA ForgottenKeeps ==
  ASSUME NEW p \in Servers, LifeInv, Forgotten(p)
  PROVE  LifeShape' /\ ShutdownInOrder' /\ RequestsKeepAccount'
<1>1. LifeShape'
  BY NothingType DEF LifeInv, LifeShape, Forgotten
<1>2. /\ \A q \in Servers : req'[q] = (IF q = p THEN NoRequest ELSE req[q])
      /\ \A q \in Servers : janitor'[q] = (IF q = p THEN JanitorOff ELSE janitor[q])
      /\ \A q \in Servers : main'[q] = (IF q = p THEN "none" ELSE main[q])
      /\ \A q \in Servers : err'[q] = (IF q = p THEN FALSE ELSE err[q])
  <2>1. /\ req \in [Servers -> Request] /\ janitor \in [Servers -> Janitor]
        /\ DOMAIN main = Servers /\ DOMAIN err = Servers
    BY DEF LifeInv, LifeShape
  <2>2. /\ req' = [req EXCEPT ![p] = NoRequest] /\ janitor' = [janitor EXCEPT ![p] = JanitorOff]
        /\ main' = [main EXCEPT ![p] = "none"] /\ err' = [err EXCEPT ![p] = FALSE]
    BY DEF Forgotten
  <2>3. QED BY <2>1, <2>2
<1>3. ShutdownInOrder'
  <2>1. JanitorOff.at = "off" /\ NoRequest.doing = "none"
    BY DEF JanitorOff, NoRequest
  <2>2. main'[p] = "none" /\ janitor'[p].at = "off" /\ req'[p].doing = "none"
    BY <1>2, <2>1
  <2>3. \A q \in Servers \ {p} : /\ main'[q] = main[q] /\ err'[q] = err[q]
                                 /\ janitor'[q] = janitor[q] /\ req'[q] = req[q]
    BY <1>2
  <2>4. QED BY <2>2, <2>3 DEF LifeInv, ShutdownInOrder
<1>4. RequestsKeepAccount'
  BY <1>2 DEF LifeInv, RequestsKeepAccount, NoRequest
<1>5. QED BY <1>1, <1>3, <1>4

LEMMA BootKeeps ==
  ASSUME LifeInv, Boot
  PROVE  LifeShape' /\ ShutdownInOrder' /\ ServesBooted' /\ RequestsKeepAccount'
<1>1. ASSUME NEW p \in Servers, Crash(p), Forgotten(p)
      PROVE  LifeShape' /\ ShutdownInOrder' /\ ServesBooted' /\ RequestsKeepAccount'
  <2>1. ServesBooted'
    BY <1>1, LifecycleAssumption
       DEF LifeInv, LifeShape, ServesBooted, Crash, Gone, Forgotten, BootInv, BootTypeOK
  <2>2. QED BY <1>1, <2>1, ForgottenKeeps
<1>2. ASSUME NEW p \in Procs, BootStep(p), UNCHANGED serveVars
      PROVE  LifeShape' /\ ShutdownInOrder' /\ ServesBooted' /\ RequestsKeepAccount'
  <2>1. LifeShape' /\ ShutdownInOrder' /\ RequestsKeepAccount'
    BY <1>2 DEF LifeInv, LifeShape, ShutdownInOrder, RequestsKeepAccount, serveVars
  <2>2. ASSUME NEW q \in Procs, pc[q] = "booted"
        PROVE  pc'[q] = "booted"
    BY <1>2, <2>2
       DEF LifeInv, BootInv, BootTypeOK, BootStep, Start, Signal, Connect, ConnectFails,
           Grant, Read, Apply, Commit, LockFails, StatementFails, Cut, Unlock,
           LoseSession, OrphanCommits, ExitFailed, Gone, Migrating
  <2>3. ServesBooted'
    BY <1>2, <2>2, LifecycleAssumption DEF LifeInv, ServesBooted, serveVars
  <2>4. QED BY <2>1, <2>3
<1>3. ASSUME NEW p \in Procs \ Servers, Crash(p), UNCHANGED serveVars
      PROVE  LifeShape' /\ ShutdownInOrder' /\ ServesBooted' /\ RequestsKeepAccount'
  BY <1>3, LifecycleAssumption
     DEF LifeInv, LifeShape, ShutdownInOrder, ServesBooted, RequestsKeepAccount, BootInv,
         BootTypeOK, serveVars, Crash, Gone
<1>4. QED BY <1>1, <1>2, <1>3 DEF Boot

LEMMA ExitKeeps ==
  ASSUME NEW p \in Servers, LifeInv, Exit(p)
  PROVE  LifeShape' /\ ShutdownInOrder' /\ ServesBooted' /\ RequestsKeepAccount'
<1>1. ServesBooted'
  BY LifecycleAssumption
     DEF LifeInv, LifeShape, ServesBooted, Exit, Gone, Forgotten, BootInv, BootTypeOK
<1>2. QED BY <1>1, ForgottenKeeps DEF Exit

LEMMA MainKeeps ==
  ASSUME NEW p \in Servers, LifeInv,
         \/ Wire(p) \/ WireFails(p) \/ ServeFails(p) \/ SeeSignal(p)
         \/ Drained(p) \/ DrainTimesOut(p) \/ JoinJanitor(p)
  PROVE  LifeShape' /\ ShutdownInOrder' /\ ServesBooted' /\ RequestsKeepAccount'
<1> USE DEF LifeInv, LifeShape, ShutdownInOrder, ServesBooted, RequestsKeepAccount, Main,
            Fails, bootVars
<1>1. CASE Wire(p)
  <2> DEFINE j == [at |-> "pass", step |-> 1, spent |-> Cancelled(p)]
  <2>1. Cancelled(p) \in BOOLEAN
    BY LifecycleAssumption DEF Cancelled, BootInv, BootTypeOK
  <2>2. j \in Janitor /\ j.at = "pass"
    BY <2>1, PassType DEF Janitor
  <2>3. janitor' = [janitor EXCEPT ![p] = j]
    BY <1>1 DEF Wire
  <2> HIDE DEF j
  <2>4. QED BY <1>1, <2>2, <2>3 DEF Wire
<1>2. CASE WireFails(p)
  BY <1>2 DEF WireFails
<1>3. CASE ServeFails(p)
  BY <1>3 DEF ServeFails
<1>4. CASE SeeSignal(p)
  BY <1>4 DEF SeeSignal
<1>5. CASE Drained(p)
  BY <1>5 DEF Drained
<1>6. CASE DrainTimesOut(p)
  BY <1>6 DEF DrainTimesOut
<1>7. CASE JoinJanitor(p)
  BY <1>7 DEF JoinJanitor
<1>8. QED BY <1>1, <1>2, <1>3, <1>4, <1>5, <1>6, <1>7

\* A janitor that is off or has returned does nothing.
LEMMA JanitorKeeps ==
  ASSUME NEW p \in Servers, LifeInv, Housekeep(p) \/ JanitorStops(p)
  PROVE  LifeShape' /\ ShutdownInOrder' /\ ServesBooted' /\ RequestsKeepAccount'
<1> DEFINE Active == {j \in Janitor : j.at # "off"}
<1>1. /\ janitor[p].at \in {"pass", "idle"}
      /\ \E j \in Active : janitor' = [janitor EXCEPT ![p] = j]
  <2>1. sig[p] \in BOOLEAN /\ Cancelled(p) \in BOOLEAN
    BY LifecycleAssumption DEF Cancelled, LifeInv, BootInv, BootTypeOK
  <2>2. janitor[p] \in Janitor /\ janitor[p].step \in 1..Len(Pass)
    BY DEF LifeInv, LifeShape, Janitor
  <2>3. [at |-> "idle", step |-> 1, spent |-> FALSE] \in Active
    BY PassType DEF Janitor
  <2>4. ASSUME NEW spent \in BOOLEAN, Stepped(p, spent), janitor[p].at = "pass"
        PROVE  \E j \in Active : janitor' = [janitor EXCEPT ![p] = j]
    <3>1. CASE janitor[p].step < Len(Pass)
      <4> DEFINE j == [at |-> "pass", step |-> janitor[p].step + 1,
                       spent |-> spent \/ Cancelled(p)]
      <4>1. janitor' = [janitor EXCEPT ![p] = j]
        BY <2>4, <3>1 DEF Stepped
      <4>2. (spent \/ Cancelled(p)) \in BOOLEAN
        BY <2>1, <2>4
      <4>3. janitor[p].step + 1 \in 1..Len(Pass)
        BY <2>2, <3>1, PassType
      <4>4. j \in Active
        BY <4>2, <4>3 DEF Janitor
      <4>5. QED BY <4>1, <4>4
    <3>2. CASE ~(janitor[p].step < Len(Pass))
      <4>1. janitor' = [janitor EXCEPT ![p] = [at |-> "idle", step |-> 1, spent |-> FALSE]]
        BY <2>4, <3>2 DEF Stepped
      <4>2. QED BY <2>3, <4>1
    <3>3. QED BY <3>1, <3>2
  <2>5. CASE Prune(p)
    BY <2>4, <2>5 DEF Prune
  <2>6. CASE PruneFails(p)
    <3>1. janitor[p].spent \in BOOLEAN
      BY <2>2 DEF Janitor
    <3>2. QED BY <2>4, <2>6, <3>1 DEF PruneFails
  <2>7. CASE JanitorTicks(p)
    <3>1. [at |-> "pass", step |-> 1, spent |-> Cancelled(p)] \in Active
      BY <2>1, PassType DEF Janitor
    <3>2. QED BY <2>7, <3>1 DEF JanitorTicks
  <2>8. CASE JanitorStops(p)
    <3>1. janitor' = [janitor EXCEPT ![p] = [janitor[p] EXCEPT !.at = "done"]]
      BY <2>8 DEF JanitorStops
    <3>2. [janitor[p] EXCEPT !.at = "done"] \in Active
      BY <2>2 DEF Janitor
    <3>3. QED BY <2>8, <3>1, <3>2 DEF JanitorStops
  <2>9. QED BY <2>5, <2>6, <2>7, <2>8 DEF Housekeep
<1>2. UNCHANGED <<bootVars, main, err, req>>
  BY DEF Housekeep, Prune, PruneFails, JanitorTicks, JanitorStops
<1>3. PICK j \in Active : janitor' = [janitor EXCEPT ![p] = j]
  BY <1>1
<1>4. j \in Janitor /\ j.at \in {"pass", "idle", "done"}
  BY <1>3 DEF Janitor
<1>5. janitor \in [Servers -> Janitor]
  BY DEF LifeInv, LifeShape
<1>6. /\ janitor' \in [Servers -> Janitor] /\ janitor'[p].at \in {"pass", "idle", "done"}
      /\ \A q \in Servers \ {p} : janitor'[q] = janitor[q]
  BY <1>3, <1>4, <1>5
<1>7. LifeShape' /\ ServesBooted' /\ RequestsKeepAccount'
  BY <1>2, <1>6 DEF LifeInv, LifeShape, ServesBooted, RequestsKeepAccount, bootVars
<1>8. ShutdownInOrder'
  BY <1>1, <1>2, <1>6 DEF LifeInv, ShutdownInOrder
<1>9. QED BY <1>7, <1>8

\* Requests begin while the instance serves, and only end after that.
RequestOK(r) ==
    /\ r \in Request
    /\ r.held => r.left # <<>>
    /\ r.doing = "csp" => r.body \in Sent /\ r.tried \cup Elements(r.left) = Wanted(r.body)

LEMMA NewRequest ==
  ASSUME NEW p \in Servers, Ready(p) \/ ServeCSP(p)
  PROVE  main[p] = "serving" /\ \E r : RequestOK(r) /\ req' = [req EXCEPT ![p] = r]
<1>1. CASE Ready(p)
  <2> DEFINE both == <<1, 2>>
             r == [NoRequest EXCEPT !.doing = "ready", !.left = both]
  <2>0. both \in Seq(Nat)
    OBVIOUS
  <2> HIDE DEF both
  <2>1. r \in Request /\ r.doing = "ready" /\ r.held = FALSE
    BY <2>0 DEF NoRequest, Request
  <2>2. req' = [req EXCEPT ![p] = r] /\ main[p] = "serving"
    BY <1>1 DEF Ready, Arrive, both
  <2> HIDE DEF r
  <2>3. QED BY <2>1, <2>2 DEF RequestOK
<1>2. CASE ServeCSP(p)
  <2>1. PICK b \in Sent :
          Arrive(p, [NoRequest EXCEPT !.doing = "csp", !.body = b, !.left = ToStore(b)])
    BY <1>2 DEF ServeCSP
  <2> DEFINE r == [NoRequest EXCEPT !.doing = "csp", !.body = b, !.left = ToStore(b)]
  <2>2. req' = [req EXCEPT ![p] = r] /\ main[p] = "serving"
    BY <2>1 DEF Arrive
  <2>3. ToStore(b) \in Seq(Nat) /\ Elements(ToStore(b)) = Wanted(b)
    BY ToStoreIsWanted, LifecycleAssumption
  <2>4. /\ r \in Request /\ r.held = FALSE /\ r.body = b /\ r.tried = {}
        /\ r.left = ToStore(b)
    BY <2>3 DEF NoRequest, Request
  <2> HIDE DEF r
  <2>5. QED BY <2>2, <2>3, <2>4 DEF RequestOK
<1>3. QED BY <1>1, <1>2

LEMMA RequestGoesOn ==
  ASSUME NEW p \in Servers, LifeInv, Serve(p)
  PROVE  \E r : /\ RequestOK(r) /\ r.doing \in {req[p].doing, "none"}
                /\ req' = [req EXCEPT ![p] = r]
<1> DEFINE old == req[p]
<1>1. RequestOK(old) /\ req \in [Servers -> Request]
  BY DEF LifeInv, LifeShape, RequestsKeepAccount, RequestOK
<1>2. CASE Acquire(p)
  <2> DEFINE r == [old EXCEPT !.held = TRUE]
  <2>1. req' = [req EXCEPT ![p] = r] /\ old.left # <<>>
    BY <1>2 DEF Acquire
  <2> HIDE DEF old
  <2>2. r \in Request /\ r.left = old.left /\ r.doing = old.doing /\ r.body = old.body
        /\ r.tried = old.tried
    BY <1>1 DEF RequestOK, Request
  <2> HIDE DEF r
  <2>3. QED BY <1>1, <2>1, <2>2 DEF RequestOK, old
<1>3. CASE StatementEnds(p)
  <2> DEFINE left == Tail(old.left)
             tried == old.tried \cup {Head(old.left)}
             r == [old EXCEPT !.held = FALSE, !.left = left, !.tried = tried]
  <2>1. old.left # <<>>
        /\ req' = [req EXCEPT ![p].held = FALSE, ![p].left = Tail(@),
                              ![p].tried = @ \cup {Head(req[p].left)}]
    BY <1>3 DEF StatementEnds
  <2>2. req' = [req EXCEPT ![p] = r]
    BY <1>1, <2>1 DEF Request
  <2>3. /\ left \in Seq(Nat) /\ Head(old.left) \in Nat
        /\ Elements(old.left) = {Head(old.left)} \cup Elements(left)
    BY <1>1, <2>1, HeadAndTail DEF RequestOK, Request
  <2>4. tried \in SUBSET Nat /\ tried \cup Elements(left) = old.tried \cup Elements(old.left)
    BY <1>1, <2>3 DEF RequestOK, Request
  <2> HIDE DEF old, left, tried
  <2>5. /\ r \in Request /\ r.held = FALSE /\ r.left = left /\ r.tried = tried
        /\ r.doing = old.doing /\ r.body = old.body
    BY <1>1, <2>3, <2>4 DEF RequestOK, Request
  <2> HIDE DEF r
  <2>6. QED BY <1>1, <2>2, <2>4, <2>5 DEF RequestOK, old
<1>4. CASE Answer(p)
  <2>1. NoRequest.doing = "none" /\ NoRequest.held = FALSE
    BY DEF NoRequest
  <2>2. QED BY <1>4, <2>1, NothingType DEF Answer, RequestOK
<1>5. QED BY <1>2, <1>3, <1>4 DEF Serve

LEMMA RequestKeeps ==
  ASSUME NEW p \in Servers, LifeInv, Ready(p) \/ ServeCSP(p) \/ Serve(p)
  PROVE  LifeShape' /\ ShutdownInOrder' /\ ServesBooted' /\ RequestsKeepAccount'
<1>1. PICK r : /\ RequestOK(r) /\ req' = [req EXCEPT ![p] = r]
               /\ main[p] # "serving" => r.doing \in {req[p].doing, "none"}
  BY NewRequest, RequestGoesOn
<1>2. UNCHANGED <<bootVars, main, err, janitor>>
  BY DEF Serve, Ready, ServeCSP, Arrive, Acquire, StatementEnds, Answer
<1>3. req \in [Servers -> Request] /\ r \in Request
  BY <1>1 DEF LifeInv, LifeShape, RequestOK
<1>4. /\ req' \in [Servers -> Request] /\ req'[p] = r
      /\ \A q \in Servers \ {p} : req'[q] = req[q]
  BY <1>1, <1>3
<1>5. LifeShape' /\ ServesBooted'
  BY <1>2, <1>4 DEF LifeInv, LifeShape, ServesBooted, bootVars
<1>6. ShutdownInOrder'
  BY <1>1, <1>2, <1>4 DEF LifeInv, ShutdownInOrder
<1>7. RequestsKeepAccount'
  BY <1>1, <1>4 DEF LifeInv, RequestsKeepAccount, RequestOK
<1>8. QED BY <1>5, <1>6, <1>7

LEMMA LifeStepKeeps ==
  ASSUME LifeInv, [Next]_vars
  PROVE  LifeInv'
<1>1. BootInv'
  BY LifeRunsBoot, BootStepKeeps DEF LifeInv
<1>2. CASE UNCHANGED <<bootVars, main, err, janitor, req>>
  BY <1>1, <1>2
  DEF LifeInv, LifeShape, ShutdownInOrder, ServesBooted, RequestsKeepAccount, bootVars
<1>3. CASE Boot
  BY <1>1, <1>3, BootKeeps DEF LifeInv
<1>4. ASSUME NEW p \in Servers,
             \/ Proceed(p) \/ ServeFails(p) \/ Housekeep(p) \/ JanitorStops(p)
             \/ Ready(p) \/ ServeCSP(p) \/ Serve(p)
      PROVE  LifeInv'
  BY <1>1, <1>4, ExitKeeps, MainKeeps, JanitorKeeps, RequestKeeps DEF Proceed, LifeInv
<1>5. QED BY <1>2, <1>3, <1>4 DEF Next, Age, vars, serveVars

LEMMA LifeInvHolds == Spec => []LifeInv
BY LifeInvInit, LifeStepKeeps, PTL DEF Spec

-----------------------------------------------------------------------------
\* Every variable keeps its type in a whole life.  In particular the janitor's
\* place stays within its pass, an instance that serves or drains has a janitor
\* that will return, and one that is past its boot has booted.
THEOREM LifeTypeCorrect == Spec => []TypeOK
<1>1. Init => stale \subseteq Aging
  BY DEF Init
<1>2. stale \subseteq Aging /\ [Next]_vars => (stale \subseteq Aging)'
  BY DEF Next, vars, serveVars, Boot, Forgotten, Proceed, Housekeep, Serve, Age, Wire,
         WireFails, ServeFails, SeeSignal, Drained, DrainTimesOut, JoinJanitor, Exit, Prune,
         PruneFails, JanitorTicks, JanitorStops, Ready, ServeCSP, Arrive, Acquire,
         StatementEnds, Answer
<1>3. LifeInv /\ stale \subseteq Aging => TypeOK
  BY DEF LifeInv, LifeShape, ShutdownInOrder, ServesBooted, RequestsKeepAccount, BootInv,
         TypeOK
<1>4. QED BY <1>1, <1>2, <1>3, LifeInvHolds, PTL DEF Spec

\* One report does not cost another: a report request that has ended has tried to
\* store exactly the violations that it delivered, up to the limit, whatever was
\* among them and whatever the database refused (Normalize, ServeHTTP).
THEOREM NoReportCostsAnother == Spec => []ReportsAreIndependent
<1>1. LifeInv => ReportsAreIndependent
  <2> SUFFICES ASSUME LifeInv, NEW p \in Servers, req[p].doing = "csp", req[p].left = <<>>
               PROVE  req[p].tried = Wanted(req[p].body)
    BY DEF ReportsAreIndependent
  <2>1. req[p].tried \cup Elements(req[p].left) = Wanted(req[p].body)
    BY DEF LifeInv, RequestsKeepAccount
  <2>2. Elements(req[p].left) = {}
    BY DEF Elements
  <2>3. QED BY <2>1, <2>2
<1>2. QED BY <1>1, LifeInvHolds, PTL

\* A whole life implements the boots of Migrations: seen from the database an
\* instance that is wired, serves, prunes or drains stands still, and one that
\* exits is one that crashes (run from its first line to its last deferred call).
THEOREM LivesAreBoots == Spec => BootInit /\ [][BootNext]_bootVars
<1>1. Init => BootInit
  BY DEF Init
<1>2. LifeInv /\ [Next]_vars => [BootNext]_bootVars
  BY LifeRunsBoot
<1>3. QED BY <1>1, <1>2, LifeInvHolds, PTL DEF Spec

\* When the pool of an instance is closed its janitor has returned, and a request
\* is left only if the shutdown had failed (the deferred calls of run).
THEOREM PoolIsClosedLast == Spec => []PoolOutlivesItsUsers
<1>1. LifeInv => PoolOutlivesItsUsers
  BY DEF LifeInv, ShutdownInOrder, PoolOutlivesItsUsers
<1>2. QED BY <1>1, LifeInvHolds, PTL

\* What instances do after their boot does not disturb a boot: a whole life is one
\* of Migrations, so no two of them race for a migration.
THEOREM LivesDoNotRace == Spec => []NoBootRace
<1>1. LifeInv => NoBootRace
  BY InvNoBootRace DEF LifeInv
<1>2. QED BY <1>1, LifeInvHolds, PTL

\* An instance has its schema from the moment it is wired to the moment it exits,
\* while others of any version boot, run and die.
THEOREM ServingHasItsSchema ==
    Spec => [](BootedSeesSchema
               /\ \A p \in Servers : main[p] # "none" => Embedded[p] \subseteq applied)
<1>1. LifeInv => /\ BootedSeesSchema
                 /\ \A p \in Servers : main[p] # "none" => Embedded[p] \subseteq applied
  BY LifecycleAssumption
     DEF LifeInv, ServesBooted, BootInv, PcKnows, BootedSeesSchema
<1>2. QED BY <1>1, LifeInvHolds, PTL

\* Also with instances that serve and shut down migrations are applied in order.
THEOREM LivesMigrateInOrder == Spec => AppliedInOrder
<1>1. LifeInv /\ [Next]_vars =>
        [\A v \in applied' \ applied : \E p \in Procs :
            /\ v \in Embedded[p]
            /\ \A w \in Embedded[p] : w < v => w \in applied]_bootVars
  BY LifeRunsBoot, BootStepInOrder DEF LifeInv
<1>2. QED BY <1>1, LifeInvHolds, PTL DEF Spec, AppliedInOrder
=============================================================================

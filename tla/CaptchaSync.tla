---------------------------- MODULE CaptchaSync ----------------------------
(***************************************************************************)
(* The captcha statistics of one account: the sync engine and the reset of *)
(* frontend/js/page-captcha.js in every page the user has open, on any     *)
(* device, and Stats, Sync and Reset of internal/captcha/captcha.go over   *)
(* the row of captcha_stats.                                               *)
(*                                                                         *)
(* A page is single-threaded: one step is the code between two awaits, and *)
(* what runs in the same turn of the event loop is one step.  A request is *)
(* on its way while its stage is "sent"; when the connection breaks the    *)
(* page sees an error and the request may still reach the server.          *)
(*                                                                         *)
(* Manual and automatic solves are treated alike and counted together.     *)
(* Of a sync with more solves than MaxDelta the server drops the rest, and *)
(* the page takes its answer for the whole: what is claimed about solves   *)
(* that get lost is claimed for syncs within MaxDelta.                     *)
(***************************************************************************)
EXTENDS Integers, FiniteSets

CONSTANTS
    Pages,
    MaxDelta,        \* maxDeltaPerSync (100000)
    MaxStreak,       \* maxStreak (1000000000)
    MaxLoads,        \* bound: times a page is opened
    MaxSolves,       \* bound: puzzles solved
    MaxResets,       \* bound: resets asked for
    MaxFaults,       \* bound: connections that break
    MaxAbandoned     \* bound: requests running with no page waiting

ASSUME CaptchaAssumption ==
    {MaxDelta, MaxStreak, MaxLoads, MaxSolves, MaxResets, MaxFaults, MaxAbandoned}
        \subseteq Nat

VARIABLES
    row,             \* the account's row of captcha_stats
    pages,
    abandoned,       \* syncs no page waits for, that may still be applied
    loads, solves, resets, faults,
    \* history: solves since the last reset was asked for, and whether the user
    \* has been told that it worked
    since, told

vars == <<row, pages, abandoned, loads, solves, resets, faults, since, told>>

-----------------------------------------------------------------------------
NoRow == [best |-> 0, current |-> 0, total |-> 0]      \* reads like an empty one
Row   == [best : Nat, current : Nat, total : Nat]
Body  == [delta : Nat, current : Nat, best : Nat]
Stage == {"none", "sent", "ok", "error"}
NoBody == [delta |-> 0, current |-> 0, best |-> 0]

Page ==
    [at : {"closed", "open", "leaving"},
     streak : Nat, best : Nat,            \* streakSignal, bestSignal
     pending : Nat, dirty : BOOLEAN,      \* pending, dirtyStreak
     timer : BOOLEAN,                     \* syncTimer # null
     sync : Stage, body : Body,           \* syncInFlight: sync # "none"
     inflight : Nat, had : BOOLEAN,       \* inflight, hadDirtyStreak
     stats : Stage, boot : Body,          \* the request of boot, its answer
     reset : {"none", "waiting", "sent", "ok", "error"},
     due : Int]       \* history: solves neither discarded nor in the row's total

Closed ==
    [at |-> "closed", streak |-> 0, best |-> 0, pending |-> 0, dirty |-> FALSE,
     timer |-> FALSE, sync |-> "none", body |-> NoBody, inflight |-> 0,
     had |-> FALSE, stats |-> "none", boot |-> NoBody, reset |-> "none", due |-> 0]

TypeOK ==
    /\ row \in Row
    /\ pages \in [Pages -> Page]
    /\ abandoned \subseteq [op : {"sync", "reset"}, body : Body]
    /\ loads \in 0 .. MaxLoads /\ solves \in 0 .. MaxSolves
    /\ resets \in 0 .. MaxResets /\ faults \in 0 .. MaxFaults
    /\ since \in 0 .. solves /\ told \in BOOLEAN

Init ==
    /\ row = NoRow
    /\ pages = [p \in Pages |-> Closed]
    /\ abandoned = {}
    /\ loads = 0 /\ solves = 0 /\ resets = 0 /\ faults = 0 /\ since = 0 /\ told = FALSE

Lower(a, b)  == IF a <= b THEN a ELSE b
Higher(a, b) == IF a >= b THEN a ELSE b
Open(p) == pages[p].at = "open"
Becomes(p, pg) == pages' = [pages EXCEPT ![p] = pg]
counts == <<loads, solves, resets, faults, since, told>>

-----------------------------------------------------------------------------
(* The sync engine of a page.                                              *)

HasWork(pg) == pg.pending > 0 \/ pg.dirty

\* Variant: a flush forgets to take the deltas it sends off the pile.
FlushKeepingPending(pg) ==
    IF pg.sync # "none" \/ ~HasWork(pg) THEN pg
    ELSE [pg EXCEPT !.sync = "sent", !.inflight = pg.pending,
                    !.had = pg.dirty, !.dirty = FALSE,
                    !.body = [delta |-> pg.pending, current |-> pg.streak, best |-> pg.best]]

\* flushSync and doFlush up to the await.
FlushSync(pg) ==
    IF pg.sync # "none" \/ ~HasWork(pg) THEN pg
    ELSE [pg EXCEPT !.sync = "sent", !.inflight = pg.pending, !.pending = 0,
                    !.had = pg.dirty, !.dirty = FALSE,
                    !.body = [delta |-> pg.pending, current |-> pg.streak, best |-> pg.best]]

\* performReset drops what is queued and the timer, before and after waiting for
\* a sync in the air, and sends its request in the same turn as the second time.
Discard(pg) == [pg EXCEPT !.due = @ - pg.pending, !.pending = 0, !.dirty = FALSE,
                          !.timer = FALSE]
SendReset(pg) == [Discard(pg) EXCEPT !.reset = "sent"]

\* Variant: what was sent is taken off the pile once more.
LandedSubtracting(pg) ==
    [pg EXCEPT !.sync = "none", !.pending = @ - pg.inflight, !.inflight = 0, !.had = FALSE,
               !.body = NoBody]

\* What doFlush leaves when its answer has been dealt with; a reset that waited
\* for it goes on.
Landed(pg) ==
    LET done == [pg EXCEPT !.sync = "none", !.inflight = 0, !.had = FALSE, !.body = NoBody]
    IN  IF pg.reset = "waiting" THEN SendReset(done) ELSE done

\* boot, after requireAuth; the puzzle is playable before the statistics are there.
Boot(p) ==
    /\ pages[p].at = "closed" /\ loads < MaxLoads
    /\ Becomes(p, [Closed EXCEPT !.at = "open", !.stats = "sent"])
    /\ loads' = loads + 1
    /\ UNCHANGED <<row, abandoned, solves, resets, faults, since, told>>

\* boot, after the await: the streak is resumed, the best one merged.
OnStats(p) ==
    /\ Open(p) /\ pages[p].stats = "ok"
    /\ Becomes(p, [pages[p] EXCEPT !.stats = "none", !.boot = NoBody,
                                   !.streak = pages[p].boot.current,
                                   !.best = Higher(@, pages[p].boot.best)])
    /\ UNCHANGED <<row, abandoned, counts>>

\* verify or finishAutoRound, then recordSolve.
Solve(p) ==
    /\ Open(p) /\ solves < MaxSolves
    /\ Becomes(p, [pages[p] EXCEPT !.streak = @ + 1, !.best = Higher(@, pages[p].streak + 1),
                                   !.pending = @ + 1, !.dirty = TRUE, !.timer = TRUE,
                                   !.due = @ + 1])
    /\ solves' = solves + 1 /\ since' = since + 1
    /\ UNCHANGED <<row, abandoned, loads, resets, faults, told>>

\* A wrong answer: recordStreakReset.
Miss(p) ==
    /\ Open(p)
    /\ Becomes(p, [pages[p] EXCEPT !.streak = 0, !.dirty = TRUE, !.timer = TRUE])
    /\ UNCHANGED <<row, abandoned, counts>>

TimerFires(p) ==
    /\ Open(p) /\ pages[p].timer
    /\ Becomes(p, FlushSync([pages[p] EXCEPT !.timer = FALSE]))
    /\ UNCHANGED <<row, abandoned, counts>>

\* stopAutoSolve, or the tab is hidden.
FlushNow(p) ==
    /\ Open(p)
    /\ Becomes(p, FlushSync(pages[p]))
    /\ UNCHANGED <<row, abandoned, counts>>

\* Variant: a success does not look for work that has come up since.
OnSyncOkIdle(p) ==
    /\ Open(p) /\ pages[p].sync = "ok"
    /\ Becomes(p, Landed([pages[p] EXCEPT !.best = Higher(@, pages[p].body.best)]))
    /\ UNCHANGED <<row, abandoned, counts>>

OnSyncOk(p) ==
    /\ Open(p) /\ pages[p].sync = "ok"
    /\ Becomes(p, Landed([pages[p] EXCEPT !.best = Higher(@, pages[p].body.best),
                                          !.timer = @ \/ HasWork(pages[p])]))
    /\ UNCHANGED <<row, abandoned, counts>>

\* Variant: the deltas of a failed sync are forgotten.
OnSyncErrorForgettingDeltas(p) ==
    /\ Open(p) /\ pages[p].sync = "error"
    /\ Becomes(p, Landed([pages[p] EXCEPT !.dirty = @ \/ pages[p].had, !.timer = TRUE]))
    /\ UNCHANGED <<row, abandoned, counts>>

OnSyncError(p) ==
    /\ Open(p) /\ pages[p].sync = "error"
    /\ Becomes(p, Landed([pages[p] EXCEPT !.pending = @ + pages[p].inflight,
                                          !.dirty = @ \/ pages[p].had, !.timer = TRUE]))
    /\ UNCHANGED <<row, abandoned, counts>>

\* The dialog is confirmed.  One reset of a page at a time is a bound.
PerformReset(p) ==
    /\ Open(p) /\ pages[p].reset = "none" /\ resets < MaxResets
    /\ Becomes(p, IF pages[p].sync = "none" THEN SendReset(pages[p])
                  ELSE [Discard(pages[p]) EXCEPT !.reset = "waiting"])
    /\ resets' = resets + 1 /\ since' = 0 /\ told' = FALSE
    /\ UNCHANGED <<row, abandoned, loads, solves, faults>>

OnReset(p) ==
    /\ Open(p)
    /\ \/ /\ pages[p].reset = "ok" /\ told' = TRUE
          /\ Becomes(p, [pages[p] EXCEPT !.reset = "none", !.streak = 0, !.best = 0])
       \/ /\ pages[p].reset = "error" /\ UNCHANGED told
          /\ Becomes(p, [pages[p] EXCEPT !.reset = "none"])
    /\ UNCHANGED <<row, abandoned, loads, solves, resets, faults, since>>

-----------------------------------------------------------------------------
(* Pages going away, and the network.                                      *)

\* pagehide: the listener flushes.  Nothing of the page runs after it, and only
\* what it has handed over or failed to still matters.
PageHide(p) ==
    /\ Open(p)
    /\ LET pg == FlushSync(pages[p]) IN
       Becomes(p, [Closed EXCEPT !.at = "leaving", !.pending = pg.pending,
                     !.reset = IF pg.reset = "sent" THEN "sent" ELSE "none",
                     !.sync = IF pg.sync = "sent" THEN "sent" ELSE "none",
                     !.body = IF pg.sync = "sent" THEN pg.body ELSE NoBody])
    /\ UNCHANGED <<row, abandoned, counts>>

\* What page p leaves behind when it stops waiting.
SyncOnItsWay(p) ==
    IF pages[p].sync = "sent" THEN {[op |-> "sync", body |-> pages[p].body]} ELSE {}
ResetOnItsWay(p) ==
    IF pages[p].reset = "sent" THEN {[op |-> "reset", body |-> NoBody]} ELSE {}

Abandon(requests) ==
    abandoned' = IF Cardinality(abandoned \cup requests) <= MaxAbandoned
                   THEN abandoned \cup requests ELSE abandoned

\* The page is gone: after pagehide, without it (a crash, a killed tab), or because
\* an answer was a 401 and the page moves to /login.
Unload(p) ==
    /\ pages[p].at # "closed"
    /\ Abandon(SyncOnItsWay(p) \cup ResetOnItsWay(p))
    /\ Becomes(p, Closed)
    /\ UNCHANGED <<row, counts>>

\* The connection of a sync or a reset breaks, before or after it took effect.
DisconnectSync(p) ==
    /\ Open(p) /\ pages[p].sync \in {"sent", "ok"} /\ faults < MaxFaults
    /\ Abandon(SyncOnItsWay(p))
    /\ Becomes(p, [pages[p] EXCEPT !.sync = "error", !.body = NoBody])
    /\ faults' = faults + 1
    /\ UNCHANGED <<row, loads, solves, resets, since, told>>

DisconnectReset(p) ==
    /\ Open(p) /\ pages[p].reset \in {"sent", "ok"} /\ faults < MaxFaults
    /\ Abandon(ResetOnItsWay(p))
    /\ Becomes(p, [pages[p] EXCEPT !.reset = "error"])
    /\ faults' = faults + 1
    /\ UNCHANGED <<row, loads, solves, resets, since, told>>

-----------------------------------------------------------------------------
(* The server.                                                             *)

\* Variant: the last page to write wins.
UpsertLastBest(body) ==
    [best |-> Lower(body.best, MaxStreak), current |-> Lower(body.current, MaxStreak),
     total |-> row.total + Lower(body.delta, MaxDelta)]

\* clampSync and SyncCaptchaStats.
Upsert(body) ==
    [best |-> Higher(row.best, Lower(Higher(body.best, body.current), MaxStreak)),
     current |-> Lower(body.current, MaxStreak),
     total |-> row.total + Lower(body.delta, MaxDelta)]

\* A failed call changes nothing; RequireAuth may refuse it as well.
Sync(p) ==
    /\ Open(p) /\ pages[p].sync = "sent"
    /\ \/ /\ row' = Upsert(pages[p].body)
          /\ Becomes(p, [pages[p] EXCEPT !.sync = "ok",
                                         !.body = [NoBody EXCEPT !.best = row'.best],
                                         !.due = @ - (row'.total - row.total)])
       \/ /\ Becomes(p, [pages[p] EXCEPT !.sync = "error", !.body = NoBody])
          /\ UNCHANGED row
    /\ UNCHANGED <<abandoned, counts>>

\* Stats; a failure leaves the page "offline".
Stats(p) ==
    /\ pages[p].stats = "sent"
    /\ Becomes(p, [pages[p] EXCEPT !.stats = "ok",
                                   !.boot = [delta |-> 0, current |-> row.current,
                                             best |-> row.best]])
       \/ Becomes(p, [pages[p] EXCEPT !.stats = "none"])
    /\ UNCHANGED <<row, abandoned, counts>>

\* Reset: DeleteCaptchaStats.
Reset(p) ==
    /\ Open(p) /\ pages[p].reset = "sent"
    /\ \/ row' = NoRow /\ Becomes(p, [pages[p] EXCEPT !.reset = "ok"])
       \/ UNCHANGED row /\ Becomes(p, [pages[p] EXCEPT !.reset = "error"])
    /\ UNCHANGED <<abandoned, counts>>

\* A request nobody waits for ends: without effect, or with it.
FinishAbandoned(a) ==
    /\ a \in abandoned
    /\ abandoned' = abandoned \ {a}
    /\ row' \in {row, IF a.op = "sync" THEN Upsert(a.body) ELSE NoRow}
    /\ UNCHANGED <<pages, counts>>

Next ==
    \/ \E p \in Pages :
         \/ Boot(p) \/ OnStats(p) \/ Solve(p) \/ Miss(p) \/ TimerFires(p) \/ FlushNow(p)
         \/ OnSyncOk(p) \/ OnSyncError(p) \/ PerformReset(p) \/ OnReset(p)
         \/ PageHide(p) \/ Unload(p)
         \/ DisconnectSync(p) \/ DisconnectReset(p)
         \/ Sync(p) \/ Stats(p) \/ Reset(p)
    \/ \E a \in abandoned : FinishAbandoned(a)

Spec == Init /\ [][Next]_vars

-----------------------------------------------------------------------------
(* Properties.                                                             *)

\* No solve of an open page gets lost: it is in the row's total, in the air or
\* waiting to be sent, whatever syncs fail and whatever is solved meanwhile; only
\* a reset discards any (doFlush, "nothing is lost"), as long as no sync carries
\* more than MaxDelta.
NothingLost ==
    \A p \in Pages : Open(p) =>
        pages[p].due <= pages[p].pending
                         + (IF pages[p].sync = "ok" THEN 0 ELSE pages[p].inflight)

\* A solve is counted twice only when the connection broke and the page could not
\* know that its sync had been applied (doFlush, SyncCaptchaStats).
NothingCountedTwice == faults = 0 => row.total <= solves

\* Unsent work never waits for nothing: a timer is set, or a sync is in the air
\* whose answer will look for it (scheduleSync).
WorkIsScheduled ==
    \A p \in Pages : Open(p) /\ HasWork(pages[p]) =>
        pages[p].timer \/ pages[p].sync # "none"

\* A page with nothing to send shows no best streak that the account does not
\* have (up to maxStreak), from any device, however syncs fail and overtake each
\* other; a reset makes an exception (dirtyStreak, GREATEST in SyncCaptchaStats).
BestIsSaved ==
    resets = 0 => \A p \in Pages :
        Open(p) /\ ~pages[p].dirty /\ pages[p].sync = "none" =>
            Lower(pages[p].best, MaxStreak) <= row.best

\* What page-captcha.js:11-12 says: a page that is closed in an orderly way has
\* handed over everything.
LastBatchSurvives == \A p \in Pages : pages[p].at = "leaving" => pages[p].pending = 0

\* What page-captcha.js:596-597 and ARCHITECTURE.md:316-318 say: once the user has
\* been told that the statistics are reset, no older streak comes back.
ResetForgets == told => row.best <= since
=============================================================================

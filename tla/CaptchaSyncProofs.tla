------------------------- MODULE CaptchaSyncProofs -------------------------
(***************************************************************************)
(* No solve is lost or counted twice, unsent work is scheduled and the     *)
(* best streak is kept, for every number of pages that write one row.      *)
(*                                                                         *)
(* Every step but FinishAbandoned replaces the record of one page.  Its    *)
(* lemma says what the step preserves there (PageStep), each conjunct the  *)
(* part of one theorem; the theorems put the pages, the row and what was   *)
(* left behind together.                                                   *)
(***************************************************************************)
EXTENDS CaptchaSync, FiniteSetTheorems, TLAPS

-----------------------------------------------------------------------------
(* Every step but FinishAbandoned replaces the record of one page.         *)

LEMMA ClosedType == Closed \in Page
  BY DEF Closed, Page, Body, NoBody, Stage

\* The page that is replaced, and the others, which stay.
LEMMA BecomesEffect ==
    ASSUME pages \in [Pages -> Page], NEW p \in Pages, NEW pg \in Page, Becomes(p, pg)
    PROVE  /\ pages' \in [Pages -> Page]
           /\ pages'[p] = pg
           /\ \A q \in Pages \ {p} : pages'[q] = pages[q]
  BY DEF Becomes

LEMMA FlushEffect ==
    ASSUME NEW pg \in Page
    PROVE  /\ FlushSync(pg) \in Page
           /\ \/ /\ FlushSync(pg) = pg /\ (pg.sync # "none" \/ ~HasWork(pg))
              \/ /\ pg.sync = "none" /\ HasWork(pg)
                 /\ FlushSync(pg).sync = "sent" /\ FlushSync(pg).inflight = pg.pending
                 /\ FlushSync(pg).pending = 0 /\ FlushSync(pg).had = pg.dirty
                 /\ FlushSync(pg).dirty = FALSE /\ FlushSync(pg).best = pg.best
                 /\ FlushSync(pg).body = [delta |-> pg.pending, current |-> pg.streak,
                                          best |-> pg.best]
                 /\ FlushSync(pg).timer = pg.timer /\ FlushSync(pg).due = pg.due
                 /\ FlushSync(pg).at = pg.at /\ FlushSync(pg).reset = pg.reset
                 /\ FlushSync(pg).stats = pg.stats /\ FlushSync(pg).boot = pg.boot
<1>1. CASE pg.sync # "none" \/ ~HasWork(pg)
  BY <1>1 DEF FlushSync
<1>2. CASE ~(pg.sync # "none" \/ ~HasWork(pg))
  <2> DEFINE body == [delta |-> pg.pending, current |-> pg.streak, best |-> pg.best]
             new == [pg EXCEPT !.sync = "sent", !.inflight = pg.pending, !.pending = 0,
                               !.had = pg.dirty, !.dirty = FALSE, !.body = body]
  <2>1. FlushSync(pg) = new
    BY <1>2 DEF FlushSync
  <2>2. body \in Body
    BY DEF Body, Page
  <2> HIDE DEF body
  <2>3. new \in Page
    BY <2>2 DEF Page, Stage
  <2>4. /\ new.sync = "sent" /\ new.inflight = pg.pending /\ new.pending = 0
        /\ new.had = pg.dirty /\ new.dirty = FALSE /\ new.body = body
        /\ new.best = pg.best /\ new.timer = pg.timer /\ new.due = pg.due
        /\ new.at = pg.at /\ new.reset = pg.reset /\ new.stats = pg.stats
        /\ new.boot = pg.boot
    BY DEF Page
  <2> HIDE DEF new
  <2>5. QED BY <1>2, <2>1, <2>3, <2>4 DEF body
<1>3. QED BY <1>1, <1>2

\* Two records of a page agree on the page, on its sync, on what waits to be sent.
SamePage(a, b) == a.at = b.at /\ a.streak = b.streak /\ a.best = b.best
                  /\ a.stats = b.stats /\ a.boot = b.boot
SameSync(a, b) == a.sync = b.sync /\ a.body = b.body /\ a.inflight = b.inflight
                  /\ a.had = b.had
SamePile(a, b) == a.pending = b.pending /\ a.dirty = b.dirty /\ a.timer = b.timer
                  /\ a.due = b.due
Emptied(a, b)  == a.due = b.due - b.pending /\ a.pending = 0
                  /\ a.dirty = FALSE /\ a.timer = FALSE

LEMMA DiscardEffect ==
    ASSUME NEW pg \in Page
    PROVE  /\ Discard(pg) \in Page
           /\ Emptied(Discard(pg), pg) /\ SamePage(Discard(pg), pg)
           /\ SameSync(Discard(pg), pg) /\ Discard(pg).reset = pg.reset
<1> DEFINE due == pg.due - pg.pending
           new == [pg EXCEPT !.due = due, !.pending = 0, !.dirty = FALSE, !.timer = FALSE]
<1>1. Discard(pg) = new
  BY DEF Discard, Page
<1>2. due \in Int
  BY DEF Page
<1> HIDE DEF due
<1>3. new \in Page
  BY <1>2 DEF Page
<1>4. /\ new.due = due /\ new.pending = 0 /\ new.dirty = FALSE /\ new.timer = FALSE
      /\ SamePage(new, pg) /\ SameSync(new, pg) /\ new.reset = pg.reset
  BY DEF Page, SamePage, SameSync
<1> HIDE DEF new
<1>5. QED BY <1>1, <1>3, <1>4 DEF due, Emptied

LEMMA SetResetEffect ==
    ASSUME NEW pg \in Page, NEW r \in {"none", "waiting", "sent", "ok", "error"}
    PROVE  LET new == [pg EXCEPT !.reset = r]
           IN  /\ new \in Page /\ new.reset = r
               /\ SamePage(new, pg) /\ SameSync(new, pg) /\ SamePile(new, pg)
<1> DEFINE new == [pg EXCEPT !.reset = r]
<1>1. new \in Page
  BY DEF Page
<1>2. new.reset = r /\ SamePage(new, pg) /\ SameSync(new, pg) /\ SamePile(new, pg)
  BY DEF Page, SamePage, SameSync, SamePile
<1>3. QED BY <1>1, <1>2

LEMMA SendResetEffect ==
    ASSUME NEW pg \in Page
    PROVE  /\ SendReset(pg) \in Page /\ SendReset(pg).reset = "sent"
           /\ Emptied(SendReset(pg), pg) /\ SamePage(SendReset(pg), pg)
           /\ SameSync(SendReset(pg), pg)
<1> DEFINE kept == Discard(pg)
           new == [kept EXCEPT !.reset = "sent"]
<1>1. /\ kept \in Page
      /\ Emptied(kept, pg) /\ SamePage(kept, pg) /\ SameSync(kept, pg)
  BY DiscardEffect
<1>2. SendReset(pg) = new
  BY DEF SendReset
<1> HIDE DEF kept
<1>3. /\ new \in Page /\ new.reset = "sent"
      /\ SamePage(new, kept) /\ SameSync(new, kept) /\ SamePile(new, kept)
  BY <1>1, SetResetEffect
<1> HIDE DEF new
<1>4. QED
  BY <1>1, <1>2, <1>3 DEF SamePage, SameSync, SamePile, Emptied

LEMMA LandedEffect ==
    ASSUME NEW pg \in Page
    PROVE  /\ Landed(pg) \in Page /\ SamePage(Landed(pg), pg)
           /\ Landed(pg).sync = "none" /\ Landed(pg).inflight = 0
           /\ \/ /\ pg.reset # "waiting" /\ Landed(pg).reset = pg.reset
                 /\ SamePile(Landed(pg), pg)
              \/ /\ pg.reset = "waiting" /\ Landed(pg).reset = "sent"
                 /\ Emptied(Landed(pg), pg)
<1> DEFINE done == [pg EXCEPT !.sync = "none", !.inflight = 0, !.had = FALSE,
                              !.body = NoBody]
<1>1. done \in Page
  BY DEF Page, Stage, NoBody, Body
<1>2. /\ done.sync = "none" /\ done.inflight = 0 /\ done.reset = pg.reset
      /\ SamePage(done, pg) /\ SamePile(done, pg)
  BY DEF Page, SamePage, SamePile
<1>3. Landed(pg) = IF pg.reset = "waiting" THEN SendReset(done) ELSE done
  BY <1>2 DEF Landed
<1> HIDE DEF done
<1>4. CASE pg.reset = "waiting"
  <2>1. /\ Landed(pg) \in Page /\ Landed(pg).reset = "sent"
        /\ Emptied(Landed(pg), done) /\ SamePage(Landed(pg), done)
        /\ SameSync(Landed(pg), done)
    BY <1>1, <1>3, <1>4, SendResetEffect
  <2>2. QED
    BY <1>2, <1>4, <2>1 DEF SamePage, SameSync, SamePile, Emptied
<1>5. CASE pg.reset # "waiting"
  BY <1>1, <1>2, <1>3, <1>5
<1>6. QED BY <1>4, <1>5

-----------------------------------------------------------------------------
(* What the record of one page satisfies: the invariant, page by page.     *)

WorkOK(pg) == pg.at = "open" /\ HasWork(pg) => pg.timer \/ pg.sync # "none"

\* A sync in the air accounts for what was solved before it was sent.
LostOK(pg) ==
    pg.at = "open" =>
        /\ pg.sync = "none" => pg.inflight = 0
        /\ pg.sync = "sent" => pg.body.delta = pg.inflight
        /\ pg.due <= pg.pending + (IF pg.sync = "ok" THEN 0 ELSE pg.inflight)

Saved(best, b) == Lower(best, MaxStreak) <= b

\* As long as nothing is reset, b being the best streak of the row.  A page that
\* is not dirty has sent its best streak, and will be dirty again if that fails.
BestOK(pg, b) ==
    /\ pg.reset = "none"
    /\ pg.at = "open" =>
        /\ pg.pending > 0 => pg.dirty
        /\ pg.sync # "none" => pg.had
        /\ pg.stats = "ok" => pg.boot.best <= b
        /\ pg.sync = "none" /\ ~pg.dirty => Saved(pg.best, b)
        /\ pg.sync = "sent" /\ ~pg.dirty => pg.best <= pg.body.best \/ Saved(pg.best, b)
        /\ pg.sync = "ok" => pg.body.best <= b /\ (~pg.dirty => Saved(pg.best, b))

\* No sync carries more than the server accepts at once.
DeltasFit == \A p \in Pages : pages[p].inflight <= MaxDelta

\* The solves that a page may still add to the row's total.
InTheAir(pg) ==
    CASE pg.sync = "sent"  -> pg.body.delta
      [] pg.sync = "error" -> pg.inflight
      [] OTHER             -> 0
Outstanding(pg) == pg.pending + InTheAir(pg)

\* A page that is told of a failure puts back what it had sent.
SentOK(pg) == pg.at = "open" /\ pg.sync = "sent" => pg.body.delta = pg.inflight

\* A step from old to new adds nothing to the total that was not outstanding.
Counts(old, new) ==
    SentOK(old) => /\ SentOK(new)
                   /\ row'.total + Outstanding(new)
                        <= row.total + Outstanding(old) + (solves' - solves)

\* What a step of page p preserves.
PageStep(p) ==
    /\ pages' \in [Pages -> Page]
    /\ \A q \in Pages \ {p} : pages'[q] = pages[q]
    /\ WorkOK(pages[p]) => WorkOK(pages'[p])
    /\ LostOK(pages[p]) /\ pages[p].inflight <= MaxDelta => LostOK(pages'[p])
    /\ resets' = 0 /\ BestOK(pages[p], row.best) => BestOK(pages'[p], row'.best)
    /\ faults' = faults => Counts(pages[p], pages'[p])

LEMMA PageStepIntro ==
    ASSUME TypeOK, NEW p \in Pages, NEW pg \in Page, Becomes(p, pg),
           WorkOK(pages[p]) => WorkOK(pg),
           LostOK(pages[p]) /\ pages[p].inflight <= MaxDelta => LostOK(pg),
           resets' = 0 /\ BestOK(pages[p], row.best) => BestOK(pg, row'.best),
           faults' = faults => Counts(pages[p], pg)
    PROVE  PageStep(p)
  BY BecomesEffect DEF TypeOK, PageStep

LEMMA OutstandingType ==
    ASSUME NEW pg \in Page
    PROVE  InTheAir(pg) \in Nat /\ Outstanding(pg) \in Nat
<1>1. pg.pending \in Nat /\ pg.inflight \in Nat /\ pg.body \in Body /\ pg.body.delta \in Nat
  BY DEF Page, Body
<1>2. InTheAir(pg) \in Nat
  BY <1>1 DEF InTheAir
<1>3. QED BY <1>1, <1>2 DEF Outstanding

\* A step that solves nothing and at most resets the row.
LEMMA CountsKept ==
    ASSUME TypeOK, NEW old \in Page, NEW new \in Page,
           row' = row \/ row' = NoRow, solves' = solves,
           SentOK(old) => SentOK(new) /\ Outstanding(new) <= Outstanding(old)
    PROVE  Counts(old, new)
<1>1. Outstanding(old) \in Nat /\ Outstanding(new) \in Nat
  BY OutstandingType
<1>2. row.total \in Nat /\ row'.total \in Nat /\ row'.total <= row.total
  BY DEF TypeOK, Row, NoRow
<1>3. solves' - solves = 0
  BY CaptchaAssumption DEF TypeOK
<1>4. QED BY <1>1, <1>2, <1>3 DEF Counts

LEMMA CountsSame ==
    ASSUME TypeOK, NEW old \in Page, NEW new \in Page,
           row' = row \/ row' = NoRow, solves' = solves,
           new.at = old.at, new.pending = old.pending, SameSync(new, old)
    PROVE  Counts(old, new)
<1>1. InTheAir(new) = InTheAir(old)
  BY DEF InTheAir, SameSync
<1>2. Outstanding(new) = Outstanding(old) /\ Outstanding(old) \in Nat
  BY <1>1, OutstandingType DEF Outstanding
<1>3. SentOK(old) => SentOK(new)
  BY DEF SentOK, SameSync
<1>4. QED BY <1>2, <1>3, CountsKept

-----------------------------------------------------------------------------
(* The steps of a page.                                                    *)

LEMMA BootStep ==
    ASSUME TypeOK, NEW p \in Pages, Boot(p)
    PROVE  PageStep(p)
<1> DEFINE new == [Closed EXCEPT !.at = "open", !.stats = "sent"]
<1>1. new \in Page
  BY ClosedType DEF Page, Stage
<1>2. /\ new.pending = 0 /\ new.dirty = FALSE /\ new.sync = "none" /\ new.inflight = 0
      /\ new.due = 0 /\ new.best = 0 /\ new.stats = "sent" /\ new.reset = "none"
  BY DEF Closed
<1>3. Becomes(p, new) /\ row' = row /\ row.best \in Nat
  BY DEF Boot, TypeOK, Row
<1> HIDE DEF new
<1>4. WorkOK(new) /\ LostOK(new) /\ BestOK(new, row'.best)
  BY <1>2, <1>3, CaptchaAssumption DEF WorkOK, HasWork, LostOK, BestOK, Saved, Lower
<1>5. Counts(pages[p], new)
  <2>1. SentOK(new) /\ Outstanding(new) = 0
    BY <1>2 DEF SentOK, Outstanding, InTheAir
  <2>2. pages[p] \in Page /\ solves' = solves
    BY DEF Boot, TypeOK
  <2>3. Outstanding(pages[p]) \in Nat
    BY <2>2, OutstandingType
  <2>4. QED BY <1>1, <1>3, <2>1, <2>2, <2>3, CountsKept
<1>6. QED BY <1>1, <1>3, <1>4, <1>5, PageStepIntro

LEMMA OnStatsStep ==
    ASSUME TypeOK, NEW p \in Pages, OnStats(p)
    PROVE  PageStep(p)
<1> DEFINE old == pages[p]
           best == Higher(old.best, old.boot.best)
           new == [old EXCEPT !.stats = "none", !.boot = NoBody,
                              !.streak = old.boot.current, !.best = best]
<1>1. old \in Page /\ old.stats = "ok" /\ row' = row /\ row.best \in Nat
  BY DEF OnStats, TypeOK, Row
<1>2. Becomes(p, new)
  BY <1>1 DEF OnStats, Page
<1>3. old.boot.current \in Nat /\ best \in Nat /\ old.best \in Nat /\ old.boot.best \in Nat
  BY <1>1 DEF Page, Body, Higher
<1>4. /\ old.boot.best <= row.best /\ Saved(old.best, row.best) => Saved(best, row.best)
      /\ best = old.best \/ best = old.boot.best
  BY <1>1, <1>3, CaptchaAssumption DEF Higher, Lower, Saved
<1>5. old.boot.best <= row.best => Saved(old.boot.best, row.best)
  BY <1>1, <1>3, CaptchaAssumption DEF Lower, Saved
<1> HIDE DEF old, best
<1>6. new \in Page
  BY <1>1, <1>3 DEF Page, Stage, NoBody, Body
<1>7. /\ new.best = best /\ new.stats = "none" /\ SamePile(new, old) /\ SameSync(new, old)
      /\ new.at = old.at /\ new.reset = old.reset
  BY <1>1 DEF Page, SamePile, SameSync
<1> HIDE DEF new
<1>8. WorkOK(old) => WorkOK(new)
  BY <1>7 DEF WorkOK, HasWork, SamePile, SameSync
<1>9. LostOK(old) => LostOK(new)
  BY <1>7 DEF LostOK, SamePile, SameSync
<1>10. old.at = "open"
  BY DEF OnStats, Open, old
<1>11. old.body.best \in Nat
  BY <1>1 DEF Page, Body
<1>12. BestOK(old, row.best) => BestOK(new, row.best)
  <2>1. CASE best = old.best
    BY <1>1, <1>7, <1>10, <2>1 DEF BestOK, SamePile, SameSync
  <2>2. CASE best = old.boot.best
    BY <1>1, <1>5, <1>7, <1>10, <2>2 DEF BestOK, SamePile, SameSync
  <2>3. QED BY <1>4, <2>1, <2>2
<1>13. solves' = solves
  BY DEF OnStats, counts
<1>14. Counts(old, new)
  BY <1>1, <1>6, <1>7, <1>13, CountsSame DEF SamePile
<1>15. QED BY <1>1, <1>2, <1>6, <1>8, <1>9, <1>12, <1>14, PageStepIntro DEF old

LEMMA SolveStep ==
    ASSUME TypeOK, NEW p \in Pages, Solve(p)
    PROVE  PageStep(p)
<1> DEFINE old == pages[p]
           best == Higher(old.best, old.streak + 1)
           new == [old EXCEPT !.streak = old.streak + 1, !.best = best,
                              !.pending = old.pending + 1, !.dirty = TRUE, !.timer = TRUE,
                              !.due = old.due + 1]
<1>1. old \in Page /\ row' = row /\ row.best \in Nat
  BY DEF Solve, TypeOK, Row
<1>2. Becomes(p, new)
  BY <1>1 DEF Solve, Page
<1>3. /\ old.streak + 1 \in Nat /\ best \in Nat /\ old.pending \in Nat /\ old.due \in Int
      /\ old.inflight \in Nat /\ old.pending + 1 \in Nat /\ old.due + 1 \in Int
  BY <1>1 DEF Page, Higher
<1> HIDE DEF old, best
<1>4. new \in Page
  BY <1>1, <1>3 DEF Page
<1>5. /\ new.best = best /\ new.pending = old.pending + 1 /\ new.dirty = TRUE
      /\ new.timer = TRUE /\ new.due = old.due + 1 /\ SameSync(new, old)
      /\ new.at = old.at /\ new.reset = old.reset /\ new.stats = old.stats
      /\ new.boot = old.boot
  BY <1>1 DEF Page, SameSync
<1> HIDE DEF new
<1>6. WorkOK(new)
  BY <1>5 DEF WorkOK
<1>7. LostOK(old) => LostOK(new)
  BY <1>3, <1>5 DEF LostOK, SameSync
<1>8. BestOK(old, row.best) => BestOK(new, row.best)
  BY <1>5 DEF BestOK, SameSync
<1>9. Counts(old, new)
  <2>1. InTheAir(new) = InTheAir(old) /\ InTheAir(old) \in Nat
    BY <1>1, <1>5, OutstandingType DEF InTheAir, SameSync
  <2>2. Outstanding(new) = Outstanding(old) + 1 /\ Outstanding(old) \in Nat
    BY <1>1, <1>3, <1>5, <2>1, OutstandingType DEF Outstanding
  <2>3. solves' - solves = 1 /\ row.total \in Nat
    BY CaptchaAssumption DEF Solve, TypeOK, Row
  <2>4. SentOK(old) => SentOK(new)
    BY <1>5 DEF SentOK, SameSync
  <2>5. QED BY <1>1, <2>2, <2>3, <2>4 DEF Counts
<1>10. QED BY <1>1, <1>2, <1>4, <1>6, <1>7, <1>8, <1>9, PageStepIntro DEF old

LEMMA MissStep ==
    ASSUME TypeOK, NEW p \in Pages, Miss(p)
    PROVE  PageStep(p)
<1> DEFINE old == pages[p]
           new == [old EXCEPT !.streak = 0, !.dirty = TRUE, !.timer = TRUE]
<1>1. old \in Page /\ row' = row /\ Becomes(p, new)
  BY DEF Miss, TypeOK
<1> HIDE DEF old
<1>2. new \in Page
  BY <1>1 DEF Page
<1>3. /\ new.dirty = TRUE /\ new.timer = TRUE /\ SameSync(new, old)
      /\ new.pending = old.pending /\ new.due = old.due /\ new.best = old.best
      /\ new.at = old.at /\ new.reset = old.reset /\ new.stats = old.stats
      /\ new.boot = old.boot
  BY <1>1 DEF Page, SameSync
<1> HIDE DEF new
<1>4. WorkOK(new) /\ (LostOK(old) => LostOK(new))
      /\ (BestOK(old, row.best) => BestOK(new, row.best))
  BY <1>3 DEF WorkOK, LostOK, BestOK, SameSync
<1>5. solves' = solves
  BY DEF Miss, counts
<1>6. Counts(old, new)
  BY <1>1, <1>2, <1>3, <1>5, CountsSame
<1>7. QED BY <1>1, <1>2, <1>4, <1>6, PageStepIntro DEF old

\* A flush leaves no work without a sync, and keeps account of what it takes.
LEMMA FlushKeeps ==
    ASSUME NEW pg \in Page, NEW b \in Nat
    PROVE  /\ WorkOK(FlushSync(pg))
           /\ LostOK(pg) => LostOK(FlushSync(pg))
           /\ BestOK(pg, b) => BestOK(FlushSync(pg), b)
           /\ SentOK(pg) => SentOK(FlushSync(pg))
           /\ Outstanding(FlushSync(pg)) = Outstanding(pg)
<1> DEFINE new == FlushSync(pg)
<1>1. CASE FlushSync(pg) = pg /\ (pg.sync # "none" \/ ~HasWork(pg))
  BY <1>1 DEF WorkOK
<1>2. CASE ~(FlushSync(pg) = pg /\ (pg.sync # "none" \/ ~HasWork(pg)))
  <2>1. /\ pg.sync = "none" /\ HasWork(pg)
        /\ new.sync = "sent" /\ new.inflight = pg.pending /\ new.pending = 0
        /\ new.had = pg.dirty /\ new.dirty = FALSE /\ new.best = pg.best
        /\ new.body = [delta |-> pg.pending, current |-> pg.streak, best |-> pg.best]
        /\ new.due = pg.due /\ new.at = pg.at /\ new.reset = pg.reset
        /\ new.stats = pg.stats /\ new.boot = pg.boot
    BY <1>2, FlushEffect
  <2>2. /\ pg.pending \in Nat /\ pg.inflight \in Nat /\ pg.due \in Int /\ pg.best \in Nat
        /\ pg.dirty \in BOOLEAN
    BY DEF Page
  <2>3. new.body.delta = pg.pending /\ new.body.best = pg.best
    BY <2>1
  <2> HIDE DEF new
  <2>4. WorkOK(new)
    BY <2>1 DEF WorkOK
  <2>5. LostOK(pg) => LostOK(new)
    BY <2>1, <2>2, <2>3 DEF LostOK
  <2>6. BestOK(pg, b) => BestOK(new, b)
    BY <2>1, <2>2, <2>3 DEF BestOK, HasWork
  <2>7. SentOK(new) /\ Outstanding(new) = Outstanding(pg)
    BY <2>1, <2>2, <2>3 DEF SentOK, Outstanding, InTheAir
  <2>8. QED BY <2>4, <2>5, <2>6, <2>7 DEF new
<1>3. QED BY <1>1, <1>2

LEMMA TimerFiresStep ==
    ASSUME TypeOK, NEW p \in Pages, TimerFires(p)
    PROVE  PageStep(p)
<1> DEFINE old == pages[p]
           mid == [old EXCEPT !.timer = FALSE]
<1>1. old \in Page /\ row' = row /\ row.best \in Nat /\ Becomes(p, FlushSync(mid))
  BY DEF TimerFires, TypeOK, Row
<1> HIDE DEF old
<1>2. mid \in Page
  BY <1>1 DEF Page
<1>3. /\ mid.pending = old.pending /\ mid.dirty = old.dirty /\ mid.due = old.due
      /\ SameSync(mid, old) /\ SamePage(mid, old) /\ mid.reset = old.reset
  BY <1>1 DEF Page, SameSync, SamePage
<1> HIDE DEF mid
<1>4. (LostOK(old) => LostOK(mid)) /\ (BestOK(old, row.best) => BestOK(mid, row.best))
  BY <1>3 DEF LostOK, BestOK, SameSync, SamePage
<1>5. /\ FlushSync(mid) \in Page /\ WorkOK(FlushSync(mid))
      /\ LostOK(mid) => LostOK(FlushSync(mid))
      /\ BestOK(mid, row.best) => BestOK(FlushSync(mid), row.best)
      /\ SentOK(mid) => SentOK(FlushSync(mid))
      /\ Outstanding(FlushSync(mid)) = Outstanding(mid)
  BY <1>1, <1>2, FlushEffect, FlushKeeps
<1>6. Counts(old, FlushSync(mid))
  <2>1. (SentOK(old) => SentOK(mid)) /\ Outstanding(mid) = Outstanding(old)
    BY <1>3 DEF SentOK, Outstanding, InTheAir, SameSync, SamePage
  <2>2. solves' = solves /\ Outstanding(old) \in Nat
    BY <1>1, OutstandingType DEF TimerFires, counts
  <2>3. QED BY <1>1, <1>5, <2>1, <2>2, CountsKept
<1>7. QED BY <1>1, <1>4, <1>5, <1>6, PageStepIntro DEF old

LEMMA FlushNowStep ==
    ASSUME TypeOK, NEW p \in Pages, FlushNow(p)
    PROVE  PageStep(p)
<1>1. /\ pages[p] \in Page /\ row' = row /\ row.best \in Nat
      /\ Becomes(p, FlushSync(pages[p]))
  BY DEF FlushNow, TypeOK, Row
<1>2. Counts(pages[p], FlushSync(pages[p]))
  <2>1. solves' = solves /\ Outstanding(pages[p]) \in Nat
    BY <1>1, OutstandingType DEF FlushNow, counts
  <2>2. /\ FlushSync(pages[p]) \in Page
        /\ SentOK(pages[p]) => SentOK(FlushSync(pages[p]))
        /\ Outstanding(FlushSync(pages[p])) = Outstanding(pages[p])
    BY <1>1, FlushEffect, FlushKeeps
  <2>3. Outstanding(FlushSync(pages[p])) <= Outstanding(pages[p])
    BY <2>1, <2>2
  <2>4. QED BY <1>1, <2>1, <2>2, <2>3, CountsKept
<1>3. QED BY <1>1, <1>2, FlushEffect, FlushKeeps, PageStepIntro

LEMMA OnSyncOkStep ==
    ASSUME TypeOK, NEW p \in Pages, OnSyncOk(p)
    PROVE  PageStep(p)
<1> DEFINE old == pages[p]
           best == Higher(old.best, old.body.best)
           timer == old.timer \/ HasWork(old)
           mid == [old EXCEPT !.best = best, !.timer = timer]
           new == Landed(mid)
<1>1. old \in Page /\ old.sync = "ok" /\ old.at = "open" /\ row' = row /\ row.best \in Nat
  BY DEF OnSyncOk, Open, TypeOK, Row
<1>2. Becomes(p, new)
  BY <1>1 DEF OnSyncOk, Page
<1>3. /\ old.best \in Nat /\ old.body.best \in Nat /\ best \in Nat /\ timer \in BOOLEAN
      /\ old.pending \in Nat /\ old.due \in Int /\ old.dirty \in BOOLEAN
  BY <1>1 DEF Page, Body, Higher, HasWork
<1>4. old.body.best <= row.best /\ Saved(old.best, row.best) => Saved(best, row.best)
  BY <1>1, <1>3, CaptchaAssumption DEF Higher, Lower, Saved
<1>5. HasWork(old) => timer
  OBVIOUS
<1> HIDE DEF old, best, timer
<1>6. mid \in Page
  BY <1>1, <1>3 DEF Page
<1>7. /\ mid.best = best /\ mid.timer = timer /\ mid.pending = old.pending
      /\ mid.dirty = old.dirty /\ mid.due = old.due /\ mid.at = old.at
      /\ mid.stats = old.stats /\ mid.boot = old.boot /\ mid.reset = old.reset
  BY <1>1 DEF Page
<1> HIDE DEF mid
<1>8. /\ new \in Page /\ SamePage(new, mid) /\ new.sync = "none" /\ new.inflight = 0
      /\ \/ mid.reset # "waiting" /\ new.reset = mid.reset /\ SamePile(new, mid)
         \/ mid.reset = "waiting" /\ new.reset = "sent" /\ Emptied(new, mid)
  BY <1>6, LandedEffect
<1> HIDE DEF new
<1>9. WorkOK(new)
  BY <1>5, <1>7, <1>8 DEF WorkOK, HasWork, SamePile, Emptied
<1>10. LostOK(old) => LostOK(new)
  BY <1>1, <1>3, <1>7, <1>8 DEF LostOK, SamePile, Emptied, SamePage
<1>11. BestOK(old, row.best) => BestOK(new, row.best)
  BY <1>1, <1>3, <1>4, <1>7, <1>8 DEF BestOK, SamePile, SamePage
<1>12. Counts(old, new)
  <2>1. Outstanding(old) = old.pending /\ Outstanding(new) = new.pending /\ SentOK(new)
    BY <1>1, <1>3, <1>7, <1>8 DEF Outstanding, InTheAir, SentOK, SamePile, Emptied
  <2>2. new.pending <= old.pending
    BY <1>3, <1>7, <1>8 DEF SamePile, Emptied
  <2>3. solves' = solves
    BY DEF OnSyncOk, counts
  <2>4. QED BY <1>1, <1>8, <2>1, <2>2, <2>3, CountsKept
<1>13. QED BY <1>1, <1>2, <1>8, <1>9, <1>10, <1>11, <1>12, PageStepIntro DEF old

LEMMA OnSyncErrorStep ==
    ASSUME TypeOK, NEW p \in Pages, OnSyncError(p)
    PROVE  PageStep(p)
<1> DEFINE old == pages[p]
           pending == old.pending + old.inflight
           dirty == old.dirty \/ old.had
           mid == [old EXCEPT !.pending = pending, !.dirty = dirty, !.timer = TRUE]
           new == Landed(mid)
<1>1. old \in Page /\ old.sync = "error" /\ old.at = "open" /\ row' = row
  BY DEF OnSyncError, Open, TypeOK
<1>2. Becomes(p, new)
  BY <1>1 DEF OnSyncError, Page
<1>3. /\ pending \in Nat /\ dirty \in BOOLEAN /\ pending = old.pending + old.inflight
      /\ old.due \in Int /\ (old.had => dirty)
  BY <1>1 DEF Page
<1> HIDE DEF old, pending, dirty
<1>4. mid \in Page
  BY <1>1, <1>3 DEF Page
<1>5. /\ mid.pending = pending /\ mid.dirty = dirty /\ mid.timer = TRUE
      /\ mid.due = old.due /\ SamePage(mid, old) /\ mid.reset = old.reset
  BY <1>1 DEF Page, SamePage
<1> HIDE DEF mid
<1>6. /\ new \in Page /\ SamePage(new, mid) /\ new.sync = "none" /\ new.inflight = 0
      /\ \/ mid.reset # "waiting" /\ new.reset = mid.reset /\ SamePile(new, mid)
         \/ mid.reset = "waiting" /\ new.reset = "sent" /\ Emptied(new, mid)
  BY <1>4, LandedEffect
<1> HIDE DEF new
<1>7. WorkOK(new)
  BY <1>5, <1>6 DEF WorkOK, HasWork, SamePile, Emptied
<1>8. LostOK(old) => LostOK(new)
  BY <1>1, <1>3, <1>5, <1>6 DEF LostOK, SamePile, Emptied, SamePage
<1>9. BestOK(old, row.best) => BestOK(new, row.best)
  BY <1>1, <1>3, <1>5, <1>6 DEF BestOK, SamePile, SamePage
<1>10. Counts(old, new)
  <2>1. Outstanding(old) = pending /\ Outstanding(new) = new.pending /\ SentOK(new)
    BY <1>1, <1>3, <1>5, <1>6 DEF Outstanding, InTheAir, SentOK, SamePile, Emptied
  <2>2. new.pending <= pending
    BY <1>3, <1>5, <1>6 DEF SamePile, Emptied
  <2>3. solves' = solves
    BY DEF OnSyncError, counts
  <2>4. QED BY <1>1, <1>6, <2>1, <2>2, <2>3, CountsKept
<1>11. QED BY <1>1, <1>2, <1>6, <1>7, <1>8, <1>9, <1>10, PageStepIntro DEF old

LEMMA PerformResetStep ==
    ASSUME TypeOK, NEW p \in Pages, PerformReset(p)
    PROVE  PageStep(p)
<1> DEFINE old == pages[p]
           kept == Discard(old)
           new == IF old.sync = "none" THEN SendReset(old)
                  ELSE [kept EXCEPT !.reset = "waiting"]
<1>1. old \in Page /\ resets \in Nat /\ resets' = resets + 1 /\ Becomes(p, new)
  BY CaptchaAssumption DEF PerformReset, TypeOK
<1>2. old.pending \in Nat /\ old.inflight \in Nat /\ old.due \in Int
  BY <1>1 DEF Page
<1> HIDE DEF old
<1>3. kept \in Page /\ Emptied(kept, old) /\ SamePage(kept, old) /\ SameSync(kept, old)
  BY <1>1, DiscardEffect
<1> HIDE DEF kept
<1>4. /\ new \in Page /\ Emptied(new, old) /\ SamePage(new, old) /\ SameSync(new, old)
  <2>1. CASE old.sync = "none"
    BY <1>1, <2>1, SendResetEffect
  <2>2. CASE old.sync # "none"
    <3> DEFINE last == [kept EXCEPT !.reset = "waiting"]
    <3>1. /\ last \in Page /\ SamePage(last, kept) /\ SameSync(last, kept)
          /\ SamePile(last, kept)
      BY <1>3, SetResetEffect
    <3>2. new = last
      BY <2>2
    <3> HIDE DEF last, new
    <3>3. QED BY <1>3, <3>1, <3>2 DEF SamePage, SameSync, SamePile, Emptied
  <2>3. QED BY <2>1, <2>2
<1> HIDE DEF new
<1>5. WorkOK(new)
  BY <1>4 DEF WorkOK, HasWork, Emptied
<1>6. LostOK(old) => LostOK(new)
  BY <1>2, <1>4 DEF LostOK, Emptied, SamePage, SameSync
<1>7. resets' # 0
  BY <1>1
<1>8. Counts(old, new)
  <2>1. InTheAir(new) = InTheAir(old) /\ InTheAir(old) \in Nat
    BY <1>1, <1>4, OutstandingType DEF InTheAir, SameSync
  <2>2. Outstanding(new) <= Outstanding(old)
    BY <1>2, <1>4, <2>1 DEF Outstanding, Emptied
  <2>3. SentOK(old) => SentOK(new)
    BY <1>4 DEF SentOK, SameSync, SamePage
  <2>4. solves' = solves /\ row' = row
    BY DEF PerformReset
  <2>5. QED BY <1>1, <1>4, <2>2, <2>3, <2>4, CountsKept
<1>9. QED BY <1>1, <1>4, <1>5, <1>6, <1>7, <1>8, PageStepIntro DEF old

LEMMA OnResetStep ==
    ASSUME TypeOK, NEW p \in Pages, OnReset(p)
    PROVE  PageStep(p)
<1> DEFINE old == pages[p]
           idle == [old EXCEPT !.reset = "none"]
           empty == [old EXCEPT !.reset = "none", !.streak = 0, !.best = 0]
<1>1. PICK new \in {idle, empty} : Becomes(p, new)
  BY DEF OnReset
<1>2. old \in Page /\ old.reset # "none"
  BY DEF OnReset, TypeOK
<1> HIDE DEF old
<1>3. /\ idle \in Page /\ SamePile(idle, old) /\ SameSync(idle, old) /\ idle.at = old.at
      /\ empty \in Page /\ SamePile(empty, old) /\ SameSync(empty, old)
      /\ empty.at = old.at
  BY <1>2 DEF Page, SamePile, SameSync
<1> HIDE DEF idle, empty
<1>4. new \in Page /\ SamePile(new, old) /\ SameSync(new, old) /\ new.at = old.at
  BY <1>3
<1>5. (WorkOK(old) => WorkOK(new)) /\ (LostOK(old) => LostOK(new))
  BY <1>4 DEF WorkOK, HasWork, LostOK, SamePile, SameSync
<1>6. ~BestOK(old, row.best)
  BY <1>2 DEF BestOK
<1>7. solves' = solves /\ row' = row
  BY DEF OnReset
<1>8. Counts(old, new)
  BY <1>2, <1>4, <1>7, CountsSame DEF SamePile
<1>9. QED BY <1>1, <1>4, <1>5, <1>6, <1>8, PageStepIntro DEF old

LEMMA PageHideStep ==
    ASSUME TypeOK, NEW p \in Pages, PageHide(p)
    PROVE  PageStep(p)
<1> DEFINE pg == FlushSync(pages[p])
           reset == IF pg.reset = "sent" THEN "sent" ELSE "none"
           sync == IF pg.sync = "sent" THEN "sent" ELSE "none"
           body == IF pg.sync = "sent" THEN pg.body ELSE NoBody
           new == [Closed EXCEPT !.at = "leaving", !.pending = pg.pending,
                                 !.reset = reset, !.sync = sync, !.body = body]
<1>1. pages[p] \in Page /\ Becomes(p, new) /\ row.best \in Nat
  BY DEF PageHide, TypeOK, Row
<1>2. /\ pg \in Page /\ (BestOK(pages[p], row.best) => BestOK(pg, row.best))
      /\ Outstanding(pg) = Outstanding(pages[p])
  BY <1>1, FlushEffect, FlushKeeps
<1> HIDE DEF pg
<1>3. /\ pg.pending \in Nat /\ sync \in Stage /\ body \in Body /\ reset \in {"sent", "none"}
      /\ (pg.reset = "none" => reset = "none")
      /\ sync = "none" \/ (pg.sync = "sent" /\ sync = "sent" /\ body = pg.body)
  BY <1>2 DEF Page, Stage, Body, NoBody
<1> HIDE DEF reset, sync, body
<1>4. new \in Page
  BY <1>3, ClosedType DEF Page
<1>5. /\ new.at = "leaving" /\ new.reset = reset /\ new.pending = pg.pending
      /\ new.sync = sync /\ new.body = body
  BY DEF Closed
<1> HIDE DEF new
<1>6. /\ WorkOK(new) /\ LostOK(new)
      /\ BestOK(pages[p], row.best) => BestOK(new, row'.best)
  BY <1>2, <1>3, <1>5 DEF WorkOK, LostOK, BestOK
<1>7. Counts(pages[p], new)
  <2>1. InTheAir(pg) \in Nat /\ InTheAir(new) <= InTheAir(pg)
    BY <1>2, <1>3, <1>5, OutstandingType DEF InTheAir
  <2>2. Outstanding(new) <= Outstanding(pages[p]) /\ SentOK(new)
    BY <1>2, <1>3, <1>4, <1>5, <2>1, OutstandingType DEF Outstanding, SentOK
  <2>3. solves' = solves /\ row' = row
    BY DEF PageHide, counts
  <2>4. QED BY <1>1, <1>4, <2>2, <2>3, CountsKept
<1>8. QED BY <1>1, <1>4, <1>6, <1>7, PageStepIntro

LEMMA ClosedOK ==
    ASSUME NEW b
    PROVE  /\ WorkOK(Closed) /\ LostOK(Closed) /\ BestOK(Closed, b)
           /\ SentOK(Closed) /\ Outstanding(Closed) = 0
  BY DEF Closed, WorkOK, LostOK, BestOK, SentOK, Outstanding, InTheAir

LEMMA UnloadStep ==
    ASSUME TypeOK, NEW p \in Pages, Unload(p)
    PROVE  PageStep(p)
<1>1. pages[p] \in Page /\ solves' = solves /\ row' = row /\ Becomes(p, Closed)
  BY DEF Unload, counts, TypeOK
<1>2. Outstanding(pages[p]) \in Nat
  BY <1>1, OutstandingType
<1>3. Counts(pages[p], Closed)
  BY <1>1, <1>2, ClosedType, ClosedOK, CountsKept
<1>4. QED BY <1>1, <1>3, ClosedType, ClosedOK, PageStepIntro

LEMMA DisconnectSyncStep ==
    ASSUME TypeOK, NEW p \in Pages, DisconnectSync(p)
    PROVE  PageStep(p)
<1> DEFINE old == pages[p]
           new == [old EXCEPT !.sync = "error", !.body = NoBody]
<1>1. /\ old \in Page /\ old.sync \in {"sent", "ok"} /\ Becomes(p, new)
      /\ row' = row
  BY DEF DisconnectSync, TypeOK
<1>2. old.pending \in Nat /\ old.inflight \in Nat /\ old.due \in Int
  BY <1>1 DEF Page
<1> HIDE DEF old
<1>3. new \in Page
  BY <1>1 DEF Page, Stage, NoBody, Body
<1>4. /\ new.sync = "error" /\ new.inflight = old.inflight /\ new.had = old.had
      /\ SamePage(new, old) /\ SamePile(new, old) /\ new.reset = old.reset
  BY <1>1 DEF Page, SamePage, SamePile
<1> HIDE DEF new
<1>5. /\ WorkOK(new)
      /\ LostOK(old) => LostOK(new)
      /\ BestOK(old, row.best) => BestOK(new, row.best)
  BY <1>1, <1>2, <1>4 DEF WorkOK, LostOK, BestOK, SamePage, SamePile
<1>6. faults' # faults
  BY CaptchaAssumption DEF DisconnectSync, TypeOK
<1>7. QED BY <1>1, <1>3, <1>5, <1>6, PageStepIntro DEF old

LEMMA DisconnectResetStep ==
    ASSUME TypeOK, NEW p \in Pages, DisconnectReset(p)
    PROVE  PageStep(p)
<1> DEFINE old == pages[p]
           new == [old EXCEPT !.reset = "error"]
<1>1. old \in Page /\ Becomes(p, new) /\ old.reset # "none"
  BY DEF DisconnectReset, TypeOK
<1> HIDE DEF old
<1>2. new \in Page /\ SamePage(new, old) /\ SameSync(new, old) /\ SamePile(new, old)
  BY <1>1, SetResetEffect
<1> HIDE DEF new
<1>3. /\ WorkOK(old) => WorkOK(new)
      /\ LostOK(old) => LostOK(new)
      /\ ~BestOK(old, row.best)
  BY <1>1, <1>2 DEF WorkOK, HasWork, LostOK, BestOK, SamePage, SameSync, SamePile
<1>4. faults' # faults
  BY CaptchaAssumption DEF DisconnectReset, TypeOK
<1>5. QED BY <1>1, <1>2, <1>3, <1>4, PageStepIntro DEF old

LEMMA UpsertEffect ==
    ASSUME row \in Row, NEW body \in Body
    PROVE  /\ Upsert(body) \in Row
           /\ Upsert(body).best >= row.best /\ Saved(body.best, Upsert(body).best)
           /\ Upsert(body).total = row.total + Lower(body.delta, MaxDelta)
<1> DEFINE best == Higher(row.best, Lower(Higher(body.best, body.current), MaxStreak))
<1>1. /\ row.best \in Nat /\ row.total \in Nat /\ MaxDelta \in Nat /\ MaxStreak \in Nat
      /\ body.best \in Nat /\ body.current \in Nat /\ body.delta \in Nat
  BY CaptchaAssumption DEF Row, Body
<1>2. best \in Nat /\ best >= row.best /\ Saved(body.best, best)
  BY <1>1 DEF Higher, Lower, Saved
<1>3. /\ row.total + Lower(body.delta, MaxDelta) \in Nat
      /\ Lower(body.current, MaxStreak) \in Nat
  BY <1>1 DEF Lower
<1> HIDE DEF best
<1>4. Upsert(body) = [best |-> best, current |-> Lower(body.current, MaxStreak),
                      total |-> row.total + Lower(body.delta, MaxDelta)]
  BY DEF Upsert, best
<1>5. QED BY <1>2, <1>3, <1>4 DEF Row

LEMMA SyncStep ==
    ASSUME TypeOK, NEW p \in Pages, Sync(p)
    PROVE  PageStep(p) /\ row' \in Row /\ row'.best >= row.best
<1> DEFINE old == pages[p]
<1>1. /\ old \in Page /\ old.sync = "sent" /\ old.at = "open" /\ row \in Row
      /\ row.best \in Nat /\ MaxDelta \in Nat
  BY CaptchaAssumption DEF Sync, Open, TypeOK, Row
<1>2. /\ old.pending \in Nat /\ old.inflight \in Nat /\ old.due \in Int /\ old.body \in Body
      /\ old.body.delta \in Nat /\ old.body.best \in Nat /\ old.best \in Nat
  BY <1>1 DEF Page, Body
<1>3. CASE /\ row' = Upsert(old.body)
           /\ Becomes(p, [old EXCEPT !.sync = "ok", !.body = [NoBody EXCEPT !.best = row'.best],
                                     !.due = @ - (row'.total - row.total)])
  <2> DEFINE body == [NoBody EXCEPT !.best = row'.best]
             due == old.due - Lower(old.body.delta, MaxDelta)
             new == [old EXCEPT !.sync = "ok", !.body = body, !.due = due]
  <2>1. /\ row' \in Row /\ row'.best >= row.best /\ Saved(old.body.best, row'.best)
        /\ row'.total = row.total + Lower(old.body.delta, MaxDelta)
    BY <1>1, <1>2, <1>3, UpsertEffect
  <2>2. row'.best \in Nat /\ row.total \in Nat /\ row'.total \in Nat
    BY <1>1, <2>1 DEF Row
  <2>3. due = old.due - (row'.total - row.total) /\ due \in Int
    BY <1>1, <1>2, <2>1, <2>2 DEF Lower
  <2>4. body \in Body /\ body.best = row'.best
    BY <2>2 DEF Body, NoBody
  <2>5. old.inflight <= MaxDelta /\ old.body.delta = old.inflight => due = old.due - old.inflight
    BY <1>1, <1>2 DEF Lower
  <2>6. Becomes(p, new)
    BY <1>1, <1>3, <2>3 DEF Page
  <2> HIDE DEF old, body, due
  <2>7. new \in Page
    BY <1>1, <2>3, <2>4 DEF Page, Stage
  <2>8. /\ new.sync = "ok" /\ new.body = body /\ new.due = due /\ new.pending = old.pending
        /\ new.dirty = old.dirty /\ new.had = old.had /\ new.reset = old.reset
        /\ SamePage(new, old)
    BY <1>1 DEF Page, SamePage
  <2>9. old.boot.best \in Nat
    BY <1>1 DEF Page, Body
  <2> HIDE DEF new
  <2>10. WorkOK(new)
    BY <2>8 DEF WorkOK
  <2>11. LostOK(old) /\ old.inflight <= MaxDelta => LostOK(new)
    BY <1>1, <1>2, <2>3, <2>5, <2>8 DEF LostOK, SamePage
  <2>12. BestOK(old, row.best) => BestOK(new, row'.best)
    <3>1. old.best <= old.body.best \/ Saved(old.best, row.best) => Saved(old.best, row'.best)
      BY <1>1, <1>2, <2>1, <2>2, CaptchaAssumption DEF Saved, Lower
    <3>2. QED BY <1>1, <1>2, <2>1, <2>2, <2>4, <2>8, <2>9, <3>1 DEF BestOK, SamePage
  <2>13. Counts(old, new)
    <3>1. /\ Outstanding(new) = old.pending /\ SentOK(new)
          /\ Outstanding(old) = old.pending + old.body.delta
      BY <1>1, <1>2, <2>8 DEF Outstanding, InTheAir, SentOK
    <3>2. Lower(old.body.delta, MaxDelta) \in Nat
          /\ Lower(old.body.delta, MaxDelta) <= old.body.delta
      BY <1>1, <1>2 DEF Lower
    <3>3. solves' - solves = 0
      BY CaptchaAssumption DEF Sync, counts, TypeOK
    <3>4. QED BY <1>2, <2>1, <2>2, <3>1, <3>2, <3>3 DEF Counts
  <2>14. QED BY <2>1, <2>6, <2>7, <2>10, <2>11, <2>12, <2>13, PageStepIntro DEF old
<1>4. CASE Becomes(p, [old EXCEPT !.sync = "error", !.body = NoBody]) /\ row' = row
  <2> DEFINE new == [old EXCEPT !.sync = "error", !.body = NoBody]
  <2> HIDE DEF old
  <2>1. new \in Page
    BY <1>1 DEF Page, Stage, NoBody, Body
  <2>2. /\ new.sync = "error" /\ new.inflight = old.inflight /\ new.had = old.had
        /\ SamePage(new, old) /\ SamePile(new, old) /\ new.reset = old.reset
    BY <1>1 DEF Page, SamePage, SamePile
  <2>3. Becomes(p, new)
    BY <1>4
  <2> HIDE DEF new
  <2>4. /\ WorkOK(new)
        /\ LostOK(old) => LostOK(new)
        /\ BestOK(old, row.best) => BestOK(new, row.best)
    BY <1>1, <1>2, <2>2 DEF WorkOK, LostOK, BestOK, SamePage, SamePile
  <2>5. Counts(old, new)
    <3>1. /\ Outstanding(new) = old.pending + old.inflight /\ SentOK(new)
          /\ Outstanding(old) = old.pending + old.body.delta
          /\ SentOK(old) => old.body.delta = old.inflight
      BY <1>1, <2>2 DEF Outstanding, InTheAir, SentOK, SamePile
    <3>2. solves' - solves = 0 /\ row.total \in Nat
      BY <1>1, CaptchaAssumption DEF Sync, counts, TypeOK, Row
    <3>3. QED BY <1>2, <1>4, <3>1, <3>2 DEF Counts
  <2>6. QED BY <1>1, <1>4, <2>1, <2>3, <2>4, <2>5, PageStepIntro DEF old
<1>5. QED BY <1>3, <1>4 DEF Sync

LEMMA StatsStep ==
    ASSUME TypeOK, NEW p \in Pages, Stats(p)
    PROVE  PageStep(p)
<1> DEFINE old == pages[p]
           answer == [delta |-> 0, current |-> row.current, best |-> row.best]
           offline == [old EXCEPT !.stats = "none"]
           answered == [old EXCEPT !.stats = "ok", !.boot = answer]
<1>1. PICK new \in {offline, answered} : Becomes(p, new)
  BY DEF Stats
<1>2. old \in Page /\ row.best \in Nat /\ row.current \in Nat /\ row' = row
  BY DEF Stats, TypeOK, Row
<1>3. answer \in Body /\ answer.best = row.best
  BY <1>2 DEF Body
<1> HIDE DEF old, answer
<1>4. /\ offline \in Page /\ SamePile(offline, old) /\ SameSync(offline, old)
      /\ offline.at = old.at /\ offline.reset = old.reset /\ offline.best = old.best
      /\ offline.stats = "none"
  BY <1>2 DEF Page, Stage, SamePile, SameSync
<1>5. /\ answered \in Page /\ SamePile(answered, old) /\ SameSync(answered, old)
      /\ answered.at = old.at /\ answered.reset = old.reset /\ answered.best = old.best
      /\ answered.boot = answer
  BY <1>2, <1>3 DEF Page, Stage, SamePile, SameSync
<1> HIDE DEF offline, answered
<1>6. /\ new \in Page /\ SamePile(new, old) /\ SameSync(new, old)
      /\ new.at = old.at /\ new.reset = old.reset /\ new.best = old.best
      /\ new.stats = "ok" => new.boot.best <= row.best
  BY <1>2, <1>3, <1>4, <1>5
<1>7. /\ WorkOK(old) => WorkOK(new)
      /\ LostOK(old) => LostOK(new)
      /\ BestOK(old, row.best) => BestOK(new, row.best)
  BY <1>6 DEF WorkOK, HasWork, LostOK, BestOK, SamePile, SameSync
<1>8. solves' = solves
  BY DEF Stats, counts
<1>9. Counts(old, new)
  BY <1>2, <1>6, <1>8, CountsSame DEF SamePile
<1>10. QED BY <1>1, <1>2, <1>6, <1>7, <1>9, PageStepIntro DEF old

LEMMA ResetStep ==
    ASSUME TypeOK, NEW p \in Pages, Reset(p)
    PROVE  PageStep(p)
<1> DEFINE old == pages[p]
           done == [old EXCEPT !.reset = "ok"]
           failed == [old EXCEPT !.reset = "error"]
<1>1. PICK new \in {done, failed} : Becomes(p, new)
  BY DEF Reset
<1>2. old \in Page /\ old.reset # "none"
  BY DEF Reset, TypeOK
<1> HIDE DEF old
<1>3. new \in Page /\ SamePage(new, old) /\ SameSync(new, old) /\ SamePile(new, old)
  BY <1>2, SetResetEffect
<1>4. /\ WorkOK(old) => WorkOK(new)
      /\ LostOK(old) => LostOK(new)
      /\ ~BestOK(old, row.best)
  BY <1>2, <1>3 DEF WorkOK, HasWork, LostOK, BestOK, SamePage, SameSync, SamePile
<1>5. solves' = solves /\ (row' = row \/ row' = NoRow)
  BY DEF Reset, counts
<1>6. Counts(old, new)
  BY <1>2, <1>3, <1>5, CountsSame DEF SamePile, SamePage
<1>7. QED BY <1>1, <1>3, <1>4, <1>6, PageStepIntro DEF old

PageAction(p) ==
    \/ Boot(p) \/ OnStats(p) \/ Solve(p) \/ Miss(p) \/ TimerFires(p) \/ FlushNow(p)
    \/ OnSyncOk(p) \/ OnSyncError(p) \/ PerformReset(p) \/ OnReset(p)
    \/ PageHide(p) \/ Unload(p) \/ DisconnectSync(p) \/ DisconnectReset(p)
    \/ Sync(p) \/ Stats(p) \/ Reset(p)

LEMMA PageActionSteps ==
    ASSUME TypeOK, NEW p \in Pages, PageAction(p)
    PROVE  PageStep(p)
  BY BootStep, OnStatsStep, SolveStep, MissStep, TimerFiresStep, FlushNowStep, OnSyncOkStep,
     OnSyncErrorStep, PerformResetStep, OnResetStep, PageHideStep, UnloadStep,
     DisconnectSyncStep, DisconnectResetStep, SyncStep, StatsStep, ResetStep DEF PageAction

-----------------------------------------------------------------------------
(* The rest of the state.                                                  *)

Request == [op : {"sync", "reset"}, body : Body]

RestOK ==
    /\ row \in Row
    /\ abandoned \subseteq Request
    /\ loads \in 0 .. MaxLoads /\ solves \in 0 .. MaxSolves
    /\ resets \in 0 .. MaxResets /\ faults \in 0 .. MaxFaults
    /\ since \in 0 .. solves /\ told \in BOOLEAN

\* As long as nothing is reset, the row's best streak grows and no reset is left behind.
RestGrows ==
    resets' = 0 => /\ resets = 0
                   /\ (\A p \in Pages : pages[p].reset = "none")
                        /\ (\A a \in abandoned : a.op = "sync")
                      => row'.best >= row.best /\ \A a \in abandoned' : a.op = "sync"

LEMMA AbandonedRequests ==
    ASSUME TypeOK, NEW p \in Pages, NEW R \in SUBSET (SyncOnItsWay(p) \cup ResetOnItsWay(p)),
           Abandon(R)
    PROVE  /\ abandoned' \subseteq Request
           /\ pages[p].reset = "none" /\ (\A a \in abandoned : a.op = "sync")
                => \A a \in abandoned' : a.op = "sync"
<1>1. pages[p].body \in Body
  BY DEF TypeOK, Page
<1>2. \A a \in SyncOnItsWay(p) : a \in Request /\ a.op = "sync"
  BY <1>1 DEF SyncOnItsWay, Request
<1>3. \A a \in ResetOnItsWay(p) : a \in Request /\ pages[p].reset # "none"
  BY DEF ResetOnItsWay, Request, NoBody, Body
<1>4. abandoned \subseteq Request
  BY DEF TypeOK, Request
<1>5. abandoned' \subseteq abandoned \cup R
  BY DEF Abandon
<1>6. QED BY <1>2, <1>3, <1>4, <1>5

LEMMA PageActionRest ==
    ASSUME TypeOK, NEW p \in Pages, PageAction(p)
    PROVE  RestOK' /\ RestGrows
<1>1. RestOK /\ row.best \in Nat
  BY DEF TypeOK, RestOK, Request, Row
<1>2. /\ {MaxLoads, MaxSolves, MaxResets, MaxFaults} \subseteq Nat
      /\ loads \in Nat /\ solves \in Nat /\ resets \in Nat /\ faults \in Nat /\ since \in Nat
  BY <1>1, CaptchaAssumption DEF RestOK
<1>3. CASE UNCHANGED <<row, abandoned, counts>>
  BY <1>1, <1>2, <1>3 DEF RestOK, RestGrows, counts
<1>4. CASE Boot(p)
  BY <1>1, <1>2, <1>4 DEF Boot, RestOK, RestGrows
<1>5. CASE Solve(p)
  BY <1>1, <1>2, <1>5 DEF Solve, RestOK, RestGrows
<1>6. CASE PerformReset(p)
  <2>1. /\ resets < MaxResets /\ resets' = resets + 1 /\ since' = 0 /\ told' = FALSE
        /\ UNCHANGED <<row, abandoned, loads, solves, faults>>
    BY <1>6 DEF PerformReset
  <2>2. resets' # 0 /\ resets' \in 0 .. MaxResets
    BY <1>2, <2>1
  <2>3. since' \in 0 .. solves'
    BY <1>1, <2>1 DEF RestOK
  <2>4. QED BY <1>1, <2>1, <2>2, <2>3 DEF RestOK, RestGrows
<1>7. CASE OnReset(p)
  BY <1>1, <1>2, <1>7 DEF OnReset, RestOK, RestGrows
<1>8. CASE Unload(p)
  BY <1>1, <1>2, <1>8, AbandonedRequests DEF Unload, RestOK, RestGrows, counts
<1>9. CASE DisconnectSync(p)
  <2>1. SyncOnItsWay(p) \in SUBSET (SyncOnItsWay(p) \cup ResetOnItsWay(p))
    OBVIOUS
  <2>2. QED
    BY <1>1, <1>2, <1>9, <2>1, AbandonedRequests DEF DisconnectSync, RestOK, RestGrows
<1>10. CASE DisconnectReset(p)
  <2>1. ResetOnItsWay(p) \in SUBSET (SyncOnItsWay(p) \cup ResetOnItsWay(p))
    OBVIOUS
  <2>2. QED
    BY <1>1, <1>2, <1>10, <2>1, AbandonedRequests DEF DisconnectReset, RestOK, RestGrows
<1>11. CASE Sync(p)
  <2>1. row' \in Row /\ row'.best >= row.best
    BY <1>11, SyncStep
  <2>2. UNCHANGED <<abandoned, counts>>
    BY <1>11 DEF Sync
  <2>3. QED BY <1>1, <1>2, <2>1, <2>2 DEF RestOK, RestGrows, counts
<1>12. CASE Reset(p)
  <2>1. row' \in Row /\ pages[p].reset # "none" /\ UNCHANGED <<abandoned, counts>>
    BY <1>1, <1>12 DEF Reset, RestOK, NoRow, Row
  <2>2. QED BY <1>1, <1>2, <2>1 DEF RestOK, RestGrows, counts
<1>13. CASE \/ OnStats(p) \/ Miss(p) \/ TimerFires(p) \/ FlushNow(p) \/ OnSyncOk(p)
            \/ OnSyncError(p) \/ PageHide(p) \/ Stats(p)
  <2>1. UNCHANGED <<row, abandoned, counts>>
    BY <1>13 DEF OnStats, Miss, TimerFires, FlushNow, OnSyncOk, OnSyncError, PageHide, Stats
  <2>2. QED BY <1>3, <2>1
<1>14. QED
  BY <1>4, <1>5, <1>6, <1>7, <1>8, <1>9, <1>10, <1>11, <1>12, <1>13 DEF PageAction

LEMMA FinishAbandonedStep ==
    ASSUME TypeOK, NEW a \in abandoned, FinishAbandoned(a)
    PROVE  pages' = pages /\ RestOK' /\ RestGrows
<1>1. RestOK /\ row.best \in Nat /\ a \in Request /\ a.body \in Body
  BY DEF TypeOK, RestOK, Request, Row
<1>2. a.op = "sync" => row' \in Row /\ row'.best >= row.best
  BY <1>1, UpsertEffect DEF FinishAbandoned, RestOK
<1>3. row' \in Row
  BY <1>1, UpsertEffect DEF FinishAbandoned, RestOK, NoRow, Row
<1>4. pages' = pages /\ UNCHANGED counts /\ abandoned' \subseteq abandoned
  BY DEF FinishAbandoned
<1>5. QED BY <1>1, <1>2, <1>3, <1>4 DEF RestOK, RestGrows, counts

-----------------------------------------------------------------------------
(* The theorems.                                                           *)

LEMMA TypeSplit ==
    ASSUME pages' \in [Pages -> Page], RestOK'
    PROVE  TypeOK'
  BY DEF TypeOK, RestOK, Request

LEMMA InitType == Init => TypeOK
<1> SUFFICES ASSUME Init PROVE TypeOK
  OBVIOUS
<1>1. pages \in [Pages -> Page]
  BY ClosedType DEF Init
<1>2. row \in Row
  BY DEF Init, NoRow, Row
<1>3. /\ loads \in 0 .. MaxLoads /\ solves \in 0 .. MaxSolves /\ resets \in 0 .. MaxResets
      /\ faults \in 0 .. MaxFaults /\ since \in 0 .. solves
  BY CaptchaAssumption DEF Init
<1>4. QED BY <1>1, <1>2, <1>3 DEF Init, TypeOK

LEMMA NextType == TypeOK /\ [Next]_vars => TypeOK'
<1> SUFFICES ASSUME TypeOK, [Next]_vars PROVE TypeOK'
  OBVIOUS
<1>1. pages \in [Pages -> Page]
  BY DEF TypeOK
<1>2. CASE \E p \in Pages : PageAction(p)
  <2>1. PICK p \in Pages : PageAction(p)
    BY <1>2
  <2>2. pages' \in [Pages -> Page] /\ RestOK'
    BY <2>1, PageActionSteps, PageActionRest DEF PageStep
  <2>3. QED BY <2>2, TypeSplit
<1>3. CASE \E a \in abandoned : FinishAbandoned(a)
  BY <1>1, <1>3, FinishAbandonedStep, TypeSplit
<1>4. CASE UNCHANGED vars
  BY <1>4 DEF vars, TypeOK
<1>5. QED BY <1>2, <1>3, <1>4 DEF Next, PageAction

\* Every state has the type TypeOK: in particular no page has a negative pile or
\* a stage that the code does not know.
THEOREM TypeCorrect == Spec => []TypeOK
  BY InitType, NextType, PTL DEF Spec

-----------------------------------------------------------------------------

\* Nothing of a page is forgotten: one step after another keeps the work of every
\* page scheduled.
WorkInv == \A p \in Pages : WorkOK(pages[p])

LEMMA NextWork == TypeOK /\ WorkInv /\ [Next]_vars => WorkInv'
<1> SUFFICES ASSUME TypeOK, WorkInv, [Next]_vars PROVE WorkInv'
  OBVIOUS
<1>1. CASE \E p \in Pages : PageAction(p)
  BY <1>1, PageActionSteps DEF PageStep, WorkInv
<1>2. CASE UNCHANGED pages
  BY <1>2 DEF WorkInv
<1>3. QED BY <1>1, <1>2, FinishAbandonedStep DEF Next, PageAction, vars

\* Unsent work never waits for nothing, however many pages there are and whatever
\* fails (scheduleSync, doFlush).
THEOREM NoWorkForgotten == Spec => []WorkIsScheduled
<1>1. Init => WorkInv
  BY ClosedOK DEF Init, WorkInv
<1>2. WorkInv => WorkIsScheduled
  BY DEF WorkInv, WorkOK, WorkIsScheduled, Open
<1>3. QED BY <1>1, <1>2, TypeCorrect, NextWork, PTL DEF Spec

\* A sync accounts for the solves of its page, as long as no sync carries more
\* than the server accepts at once.
LostInv == \A p \in Pages : LostOK(pages[p])

LEMMA NextLost == TypeOK /\ LostInv /\ DeltasFit /\ [Next]_vars => LostInv'
<1> SUFFICES ASSUME TypeOK, LostInv, DeltasFit, [Next]_vars PROVE LostInv'
  OBVIOUS
<1>1. CASE \E p \in Pages : PageAction(p)
  BY <1>1, PageActionSteps DEF PageStep, LostInv, DeltasFit
<1>2. CASE UNCHANGED pages
  BY <1>2 DEF LostInv
<1>3. QED BY <1>1, <1>2, FinishAbandonedStep DEF Next, PageAction, vars

\* No solve of an open page gets lost, whatever fails and in whatever order the
\* answers come, unless one sync carries more than maxDeltaPerSync solves.
THEOREM NoSolveLost == Spec /\ []DeltasFit => []NothingLost
<1>1. Init => LostInv
  BY ClosedOK DEF Init, LostInv
<1>2. LostInv => NothingLost
  BY DEF LostInv, LostOK, NothingLost, Open
<1>3. QED BY <1>1, <1>2, TypeCorrect, NextLost, PTL DEF Spec

\* As long as nothing is reset, what a page shows as its best streak is in the row,
\* on its way there, or marked as unsaved.
BestInv ==
    resets = 0 =>
        /\ \A p \in Pages : BestOK(pages[p], row.best)
        /\ \A a \in abandoned : a.op = "sync"

LEMMA BestOKGrows ==
    ASSUME NEW pg \in Page, NEW b \in Nat, NEW c \in Nat, b <= c, BestOK(pg, b)
    PROVE  BestOK(pg, c)
<1>1. pg.best \in Nat /\ pg.body.best \in Nat /\ pg.boot.best \in Nat
  BY DEF Page, Body
<1>2. QED BY <1>1, CaptchaAssumption DEF BestOK, Saved, Lower

LEMMA NextBest == TypeOK /\ TypeOK' /\ BestInv /\ [Next]_vars => BestInv'
<1> SUFFICES ASSUME TypeOK, TypeOK', BestInv, [Next]_vars, resets' = 0
             PROVE  BestInv'
  BY DEF BestInv
<1>1. row.best \in Nat /\ row'.best \in Nat /\ pages \in [Pages -> Page]
  BY DEF TypeOK, Row
<1>2. \A p \in Pages : pages[p] \in Page
  BY <1>1
<1>3. CASE \E p \in Pages : PageAction(p)
  <2>1. PICK p \in Pages : PageAction(p)
    BY <1>3
  <2>2. PageStep(p) /\ RestGrows
    BY <2>1, PageActionSteps, PageActionRest
  <2>3. /\ resets = 0 /\ \A q \in Pages : BestOK(pages[q], row.best)
        /\ \A a \in abandoned : a.op = "sync"
    BY <2>2 DEF RestGrows, BestInv
  <2>4. row.best <= row'.best /\ \A a \in abandoned' : a.op = "sync"
    BY <1>1, <2>2, <2>3 DEF RestGrows, BestOK
  <2>5. BestOK(pages'[p], row'.best)
    BY <2>2, <2>3 DEF PageStep
  <2>6. ASSUME NEW q \in Pages \ {p}
        PROVE  BestOK(pages'[q], row'.best)
    <3>1. pages'[q] = pages[q] /\ pages[q] \in Page /\ BestOK(pages[q], row.best)
      BY <1>2, <2>2, <2>3 DEF PageStep
    <3>2. QED BY <1>1, <2>4, <3>1, BestOKGrows
  <2>7. QED BY <2>4, <2>5, <2>6 DEF BestInv
<1>4. CASE \E a \in abandoned : FinishAbandoned(a)
  <2>1. pages' = pages /\ RestGrows
    BY <1>4, FinishAbandonedStep
  <2>2. /\ resets = 0 /\ \A q \in Pages : BestOK(pages[q], row.best)
        /\ \A a \in abandoned : a.op = "sync"
    BY <2>1 DEF RestGrows, BestInv
  <2>3. row.best <= row'.best /\ \A a \in abandoned' : a.op = "sync"
    BY <1>1, <2>1, <2>2 DEF RestGrows, BestOK
  <2>4. \A q \in Pages : BestOK(pages[q], row'.best)
    BY <1>1, <1>2, <2>2, <2>3, BestOKGrows
  <2>5. QED BY <2>1, <2>3, <2>4 DEF BestInv
<1>5. CASE UNCHANGED vars
  BY <1>5 DEF vars, BestInv
<1>6. QED BY <1>3, <1>4, <1>5 DEF Next, PageAction

\* A page with nothing to send shows no best streak that the account does not have,
\* for every number of pages and whatever fails, as long as nothing is reset.
THEOREM BestIsKept == Spec => []BestIsSaved
<1>1. Init => BestInv
  BY ClosedOK DEF Init, BestInv
<1>2. BestInv => BestIsSaved
  BY DEF BestInv, BestOK, BestIsSaved, Saved, Open
<1>3. QED BY <1>1, <1>2, TypeCorrect, NextBest, PTL DEF Spec

-----------------------------------------------------------------------------
(* Counting.  A solve that may still be added to the total is one of the   *)
(* units of a page, or of a request that nobody waits for.                 *)

UnitsOf(p) == {p} \X (1 .. Outstanding(pages[p]))
OfPages == UNION {UnitsOf(p) : p \in Pages}

BodyUnits(a) == {a} \X (1 .. a.body.delta)
OfAbandoned == UNION {BodyUnits(a) : a \in {r \in abandoned : r.op = "sync"}}

\* As long as no connection breaks, what is in the total and what may still be
\* added to it are not more than the solves.
CountInv ==
    /\ \A p \in Pages : SentOK(pages[p])
    /\ IsFiniteSet(OfPages) /\ IsFiniteSet(OfAbandoned)
    /\ row.total + Cardinality(OfPages) + Cardinality(OfAbandoned) <= solves

LEMMA ColumnSize ==
    ASSUME NEW x, NEW n \in Nat
    PROVE  IsFiniteSet({x} \X (1 .. n)) /\ Cardinality({x} \X (1 .. n)) = n
<1> DEFINE one == {x}
           many == 1 .. n
<1>1. IsFiniteSet(one) /\ Cardinality(one) = 1
  BY FS_Singleton
<1>2. IsFiniteSet(many) /\ Cardinality(many) = n
  BY FS_Interval
<1> HIDE DEF one, many
<1>3. IsFiniteSet(one \X many) /\ Cardinality(one \X many) = Cardinality(one) * Cardinality(many)
  BY <1>1, <1>2, FS_Product, Zenon
<1>4. Cardinality(one \X many) = n
  BY <1>1, <1>2, <1>3
<1>5. QED BY <1>3, <1>4 DEF one, many

\* One part of a finite set gives way to another that is disjoint from the rest.
LEMMA Replaced ==
    ASSUME NEW S, NEW A, NEW B, IsFiniteSet(S), IsFiniteSet(B), A \subseteq S,
           (S \ A) \cap B = {}
    PROVE  /\ IsFiniteSet((S \ A) \cup B)
           /\ Cardinality((S \ A) \cup B) = Cardinality(S) - Cardinality(A) + Cardinality(B)
<1>1. S \cap A = A
  OBVIOUS
<1>2. IsFiniteSet(S \ A) /\ Cardinality(S \ A) = Cardinality(S) - Cardinality(A)
  BY <1>1, FS_Difference
<1>3. IsFiniteSet(A) /\ Cardinality(S) \in Nat /\ Cardinality(A) \in Nat
      /\ Cardinality(B) \in Nat
  BY FS_Subset, FS_CardinalityType
<1> DEFINE rest == S \ A
<1>4. IsFiniteSet(rest) /\ Cardinality(rest \cap B) = 0
  BY <1>2, FS_EmptySet
<1>5. Cardinality(rest) = Cardinality(S) - Cardinality(A)
  BY <1>2
<1> HIDE DEF rest
<1>6. /\ IsFiniteSet(rest \cup B)
      /\ Cardinality(rest \cup B) = Cardinality(rest) + Cardinality(B) - Cardinality(rest \cap B)
  BY <1>4, FS_Union, Zenon
<1>7. Cardinality(rest \cup B) = Cardinality(S) - Cardinality(A) + Cardinality(B)
  BY <1>3, <1>4, <1>5, <1>6
<1>8. QED BY <1>6, <1>7 DEF rest

\* A step of one page replaces the units of that page.
LEMMA PageUnits ==
    ASSUME TypeOK, NEW p \in Pages, pages' \in [Pages -> Page],
           \A q \in Pages \ {p} : pages'[q] = pages[q], IsFiniteSet(OfPages)
    PROVE  /\ IsFiniteSet(OfPages')
           /\ Cardinality(OfPages')
                = Cardinality(OfPages) - Outstanding(pages[p]) + Outstanding(pages'[p])
<1> DEFINE A == {p} \X (1 .. Outstanding(pages[p]))
           B == {p} \X (1 .. Outstanding(pages'[p]))
<1>1. Outstanding(pages[p]) \in Nat /\ Outstanding(pages'[p]) \in Nat
  BY OutstandingType DEF TypeOK
<1>2. IsFiniteSet(A) /\ Cardinality(A) = Outstanding(pages[p])
      /\ IsFiniteSet(B) /\ Cardinality(B) = Outstanding(pages'[p])
  BY <1>1, ColumnSize
<1>3. \A x : x \in OfPages <=> \E q \in Pages : x \in {q} \X (1 .. Outstanding(pages[q]))
  BY DEF OfPages, UnitsOf
<1>4. \A x : x \in OfPages' <=> \E q \in Pages : x \in {q} \X (1 .. Outstanding(pages'[q]))
  BY DEF OfPages, UnitsOf
<1>5. A \subseteq OfPages
  BY <1>3
<1>6. \A x : x \in OfPages \ A
               <=> \E q \in Pages \ {p} : x \in {q} \X (1 .. Outstanding(pages[q]))
  BY <1>3
<1>7. OfPages' = (OfPages \ A) \cup B
  <2>1. \A x \in OfPages' : x \in (OfPages \ A) \cup B
    BY <1>4, <1>6
  <2>2. \A x \in OfPages \ A : x \in OfPages'
    BY <1>4, <1>6
  <2>3. \A x \in B : x \in OfPages'
    BY <1>4
  <2>4. QED BY <2>1, <2>2, <2>3
<1>8. (OfPages \ A) \cap B = {}
  BY <1>6
<1> HIDE DEF A, B
<1>9. QED BY <1>2, <1>5, <1>7, <1>8, Replaced

\* A sync that loses its page brings its own units along, if it is followed at all.
LEMMA AbandonedUnits ==
    ASSUME TypeOK, NEW p \in Pages, NEW R \in SUBSET (SyncOnItsWay(p) \cup ResetOnItsWay(p)),
           Abandon(R), IsFiniteSet(OfAbandoned)
    PROVE  /\ IsFiniteSet(OfAbandoned')
           /\ Cardinality(OfAbandoned') <= Cardinality(OfAbandoned) + InTheAir(pages[p])
<1> DEFINE body == pages[p].body
           B == IF pages[p].sync = "sent"
                  THEN {[op |-> "sync", body |-> body]} \X (1 .. body.delta) ELSE {}
<1>1. body \in Body /\ body.delta \in Nat /\ pages[p] \in Page
  BY DEF TypeOK, Page, Body
<1>2. IsFiniteSet(B) /\ Cardinality(B) <= InTheAir(pages[p]) /\ Cardinality(B) \in Nat
  <2>1. CASE pages[p].sync = "sent"
    <3>1. InTheAir(pages[p]) = body.delta
      BY <2>1 DEF InTheAir
    <3>2. IsFiniteSet(B) /\ Cardinality(B) = body.delta
      BY <1>1, <2>1, ColumnSize
    <3>3. QED BY <1>1, <3>1, <3>2
  <2>2. CASE pages[p].sync # "sent"
    <3>1. B = {} /\ InTheAir(pages[p]) \in Nat
      BY <1>1, <2>2, OutstandingType
    <3>2. QED BY <3>1, FS_EmptySet
  <2>3. QED BY <2>1, <2>2
<1>3. OfAbandoned' \subseteq OfAbandoned \cup B
  <2>1. SUFFICES ASSUME NEW x \in OfAbandoned' PROVE x \in OfAbandoned \cup B
    OBVIOUS
  <2>2. PICK a \in abandoned' : a.op = "sync" /\ x \in {a} \X (1 .. a.body.delta)
    BY <2>1 DEF OfAbandoned, BodyUnits
  <2>3. CASE a \in abandoned
    BY <2>2, <2>3 DEF OfAbandoned, BodyUnits
  <2>4. CASE a \notin abandoned
    <3>1. a \in SyncOnItsWay(p) \cup ResetOnItsWay(p)
      BY <2>2, <2>4 DEF Abandon
    <3>2. a \in SyncOnItsWay(p)
      BY <2>2, <3>1 DEF ResetOnItsWay
    <3>3. pages[p].sync = "sent" /\ a = [op |-> "sync", body |-> body]
      BY <3>2 DEF SyncOnItsWay
    <3>4. QED BY <2>2, <3>3
  <2>5. QED BY <2>3, <2>4
<1> HIDE DEF B
<1>4. IsFiniteSet(OfAbandoned \cup B) /\ Cardinality(OfAbandoned \cup B)
        <= Cardinality(OfAbandoned) + Cardinality(B)
  <2>1. IsFiniteSet(OfAbandoned \cap B)
    BY FS_Intersection
  <2>2. /\ Cardinality(OfAbandoned \cap B) \in Nat /\ Cardinality(OfAbandoned) \in Nat
    BY <2>1, FS_CardinalityType
  <2>3. /\ IsFiniteSet(OfAbandoned \cup B)
        /\ Cardinality(OfAbandoned \cup B)
             = Cardinality(OfAbandoned) + Cardinality(B) - Cardinality(OfAbandoned \cap B)
    BY <1>2, FS_Union, Zenon
  <2>4. QED BY <1>2, <2>2, <2>3
<1>5. IsFiniteSet(OfAbandoned') /\ Cardinality(OfAbandoned') <= Cardinality(OfAbandoned \cup B)
  BY <1>3, <1>4, FS_Subset
<1>6. /\ Cardinality(OfAbandoned') \in Nat /\ Cardinality(OfAbandoned \cup B) \in Nat
      /\ Cardinality(OfAbandoned) \in Nat /\ InTheAir(pages[p]) \in Nat
  BY <1>1, <1>4, <1>5, FS_CardinalityType, OutstandingType
<1>7. QED BY <1>2, <1>4, <1>5, <1>6

LEMMA CountPageAction ==
    ASSUME TypeOK, TypeOK', CountInv, NEW p \in Pages, PageAction(p), faults' = faults
    PROVE  CountInv'
<1> DEFINE before == Outstanding(pages[p])
           after == Outstanding(pages'[p])
<1>0. PageStep(p)
  BY PageActionSteps
<1>1. /\ SentOK(pages'[p])
      /\ row'.total + after <= row.total + before + (solves' - solves)
  BY <1>0 DEF PageStep, CountInv, Counts
<1>2. \A q \in Pages : SentOK(pages'[q])
  BY <1>0, <1>1 DEF PageStep, CountInv
<1>3. /\ IsFiniteSet(OfPages')
      /\ Cardinality(OfPages') = Cardinality(OfPages) - before + after
  BY <1>0, PageUnits DEF PageStep, CountInv
<1>4. /\ before \in Nat /\ after \in Nat /\ row.total \in Nat /\ row'.total \in Nat
      /\ solves \in Nat /\ solves' \in Nat
      /\ Cardinality(OfPages) \in Nat /\ Cardinality(OfAbandoned) \in Nat
  BY OutstandingType, FS_CardinalityType DEF TypeOK, Row, CountInv
<1>5. row.total + Cardinality(OfPages) + Cardinality(OfAbandoned) <= solves
      /\ IsFiniteSet(OfAbandoned)
  BY DEF CountInv
<1>6. CASE Unload(p)
  <2>1. /\ row' = row /\ solves' = solves /\ pages'[p] = Closed
        /\ Abandon(SyncOnItsWay(p) \cup ResetOnItsWay(p))
    BY <1>6 DEF Unload, counts, Becomes, TypeOK
  <2>2. /\ IsFiniteSet(OfAbandoned')
        /\ Cardinality(OfAbandoned') <= Cardinality(OfAbandoned) + InTheAir(pages[p])
    BY <1>5, <2>1, AbandonedUnits
  <2>3. after = 0 /\ InTheAir(pages[p]) <= before /\ InTheAir(pages[p]) \in Nat
    <3>1. pages[p] \in Page /\ pages[p].pending \in Nat
      BY DEF TypeOK, Page
    <3>2. after = 0
      BY <2>1, ClosedOK
    <3>3. InTheAir(pages[p]) \in Nat /\ before = pages[p].pending + InTheAir(pages[p])
      BY <3>1, OutstandingType DEF Outstanding
    <3>4. QED BY <3>1, <3>2, <3>3
  <2>4. Cardinality(OfAbandoned') \in Nat
    BY <2>2, FS_CardinalityType
  <2> HIDE DEF before, after
  <2>5. row'.total + Cardinality(OfPages') + Cardinality(OfAbandoned') <= solves'
    BY <1>3, <1>4, <1>5, <2>1, <2>2, <2>3, <2>4
  <2>6. QED BY <1>2, <1>3, <2>2, <2>5 DEF CountInv
<1>7. CASE ~Unload(p)
  <2>1. abandoned' = abandoned
    <3>1. faults \in Nat
      BY CaptchaAssumption DEF TypeOK
    <3>2. QED
      BY <1>7, <3>1 DEF PageAction, Boot, OnStats, Solve, Miss, TimerFires, FlushNow,
         OnSyncOk, OnSyncError, PerformReset, OnReset, PageHide, DisconnectSync,
         DisconnectReset, Sync, Stats, Reset
  <2>2. OfAbandoned' = OfAbandoned
    BY <2>1 DEF OfAbandoned, BodyUnits
  <2> HIDE DEF before, after
  <2>3. row'.total + Cardinality(OfPages') + Cardinality(OfAbandoned) <= solves'
    BY <1>1, <1>3, <1>4, <1>5
  <2>4. QED BY <1>2, <1>3, <1>5, <2>2, <2>3 DEF CountInv
<1>8. QED BY <1>6, <1>7

LEMMA CountFinishAbandoned ==
    ASSUME TypeOK, TypeOK', CountInv, NEW a \in abandoned, FinishAbandoned(a)
    PROVE  CountInv'
<1>1. /\ pages' = pages /\ solves' = solves /\ abandoned' = abandoned \ {a}
      /\ row' = row \/ row' = (IF a.op = "sync" THEN Upsert(a.body) ELSE NoRow)
  BY DEF FinishAbandoned, counts
<1>2. a.body \in Body /\ a.body.delta \in Nat /\ row \in Row /\ row.total \in Nat
      /\ MaxDelta \in Nat
  BY CaptchaAssumption DEF TypeOK, Body, Row
<1>3. OfPages' = OfPages /\ \A q \in Pages : SentOK(pages'[q])
  BY <1>1 DEF OfPages, UnitsOf, CountInv
<1>4. CASE a.op = "sync"
  <2> DEFINE A == {a} \X (1 .. a.body.delta)
  <2>1. IsFiniteSet(A) /\ Cardinality(A) = a.body.delta
    BY <1>2, ColumnSize
  <2>2. A \subseteq OfAbandoned
    BY <1>4 DEF OfAbandoned, BodyUnits
  <2>3. OfAbandoned' = OfAbandoned \ A
    <3>1. \A x : x \in OfAbandoned'
                  <=> \E r \in abandoned \ {a} : r.op = "sync" /\ x \in {r} \X (1 .. r.body.delta)
      BY <1>1 DEF OfAbandoned, BodyUnits
    <3>2. \A x : x \in OfAbandoned
                  <=> \E r \in abandoned : r.op = "sync" /\ x \in {r} \X (1 .. r.body.delta)
      BY DEF OfAbandoned, BodyUnits
    <3>3. \A x \in OfAbandoned' : x \in OfAbandoned \ A
      BY <3>1, <3>2
    <3>4. \A x \in OfAbandoned \ A : x \in OfAbandoned'
      BY <3>1, <3>2
    <3>5. QED BY <3>3, <3>4
  <2> HIDE DEF A
  <2>4. OfAbandoned \cap A = A /\ IsFiniteSet(OfAbandoned)
    BY <2>2 DEF CountInv
  <2>5. /\ IsFiniteSet(OfAbandoned')
        /\ Cardinality(OfAbandoned') = Cardinality(OfAbandoned) - a.body.delta
    <3>1. /\ IsFiniteSet(OfAbandoned \ A)
          /\ Cardinality(OfAbandoned \ A)
               = Cardinality(OfAbandoned) - Cardinality(OfAbandoned \cap A)
      BY <2>4, FS_Difference, Zenon
    <3>2. QED BY <2>1, <2>3, <2>4, <3>1
  <2>6. row'.total <= row.total + a.body.delta /\ row'.total \in Nat
    <3>1. Lower(a.body.delta, MaxDelta) \in Nat /\ Lower(a.body.delta, MaxDelta) <= a.body.delta
      BY <1>2 DEF Lower
    <3>2. Upsert(a.body).total = row.total + Lower(a.body.delta, MaxDelta)
      BY <1>2, UpsertEffect
    <3>3. QED BY <1>1, <1>2, <1>4, <3>1, <3>2
  <2>7. /\ Cardinality(OfPages) \in Nat /\ Cardinality(OfAbandoned) \in Nat
        /\ row.total + Cardinality(OfPages) + Cardinality(OfAbandoned) <= solves
        /\ IsFiniteSet(OfPages) /\ solves \in Nat
    BY FS_CardinalityType DEF CountInv, TypeOK
  <2>8. row'.total + Cardinality(OfPages) + Cardinality(OfAbandoned') <= solves
    BY <1>2, <2>5, <2>6, <2>7
  <2>9. QED BY <1>1, <1>3, <2>5, <2>7, <2>8 DEF CountInv
<1>5. CASE a.op # "sync"
  <2>1. OfAbandoned' = OfAbandoned
    BY <1>1, <1>5 DEF OfAbandoned, BodyUnits
  <2>2. row'.total <= row.total /\ row'.total \in Nat
    BY <1>1, <1>2, <1>5 DEF NoRow
  <2>3. /\ Cardinality(OfPages) \in Nat /\ Cardinality(OfAbandoned) \in Nat
        /\ row.total + Cardinality(OfPages) + Cardinality(OfAbandoned) <= solves
        /\ IsFiniteSet(OfPages) /\ IsFiniteSet(OfAbandoned) /\ solves \in Nat
    BY FS_CardinalityType DEF CountInv, TypeOK
  <2>4. row'.total + Cardinality(OfPages) + Cardinality(OfAbandoned) <= solves
    BY <1>2, <2>2, <2>3
  <2>5. QED BY <1>1, <1>3, <2>1, <2>3, <2>4 DEF CountInv
<1>6. QED BY <1>4, <1>5

CountedOnce == faults = 0 => CountInv

LEMMA NextCount == TypeOK /\ TypeOK' /\ CountedOnce /\ [Next]_vars => CountedOnce'
<1> SUFFICES ASSUME TypeOK, TypeOK', faults = 0 => CountInv, [Next]_vars, faults' = 0
             PROVE  CountInv'
  BY DEF CountedOnce
<1>1. CASE \E p \in Pages : PageAction(p)
  <2>1. PICK p \in Pages : PageAction(p)
    BY <1>1
  <2>2. faults' = faults
    <3>1. faults \in Nat /\ (faults' = faults \/ faults' = faults + 1)
      BY <2>1, CaptchaAssumption
      DEF TypeOK, counts, PageAction, Boot, OnStats, Solve, Miss, TimerFires, FlushNow,
          OnSyncOk, OnSyncError, PerformReset, OnReset, PageHide, Unload, DisconnectSync,
          DisconnectReset, Sync, Stats, Reset
    <3>2. QED BY <3>1
  <2>3. QED BY <2>1, <2>2, CountPageAction
<1>2. CASE \E a \in abandoned : FinishAbandoned(a)
  <2>1. faults' = faults
    BY <1>2 DEF FinishAbandoned, counts
  <2>2. QED BY <1>2, <2>1, CountFinishAbandoned
<1>3. CASE UNCHANGED vars
  BY <1>3 DEF vars, CountInv, OfPages, OfAbandoned, UnitsOf, BodyUnits
<1>4. QED BY <1>1, <1>2, <1>3 DEF Next, PageAction

\* As long as no connection breaks, no solve enters the total twice, for every
\* number of pages and whatever requests fail, overtake each other, lose their
\* page or run on without it.
THEOREM SolvesAreCountedOnce == Spec => []NothingCountedTwice
<1>1. Init => CountInv
  <2> SUFFICES ASSUME Init PROVE CountInv
    OBVIOUS
  <2>1. \A p \in Pages : pages[p] = Closed
    BY DEF Init
  <2>2. OfPages = {}
    <3>1. \A p \in Pages : 1 .. Outstanding(pages[p]) = {}
      BY <2>1, ClosedOK
    <3>2. QED BY <3>1 DEF OfPages, UnitsOf
  <2>3. OfAbandoned = {}
    BY DEF Init, OfAbandoned
  <2>4. row.total = 0 /\ solves = 0
    BY DEF Init, NoRow
  <2>5. QED BY <2>1, <2>2, <2>3, <2>4, ClosedOK, FS_EmptySet DEF CountInv
<1>2. TypeOK /\ CountedOnce => NothingCountedTwice
  <2> SUFFICES ASSUME TypeOK, faults = 0, CountInv PROVE row.total <= solves
    BY DEF CountedOnce, NothingCountedTwice
  <2>1. /\ Cardinality(OfPages) \in Nat /\ Cardinality(OfAbandoned) \in Nat
        /\ row.total \in Nat /\ solves \in Nat
    BY FS_CardinalityType DEF CountInv, TypeOK, Row
  <2>2. QED BY <2>1 DEF CountInv
<1>3. Init => CountedOnce
  BY <1>1 DEF CountedOnce
<1>4. QED BY <1>2, <1>3, TypeCorrect, NextCount, PTL DEF Spec
=============================================================================

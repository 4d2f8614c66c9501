-------------------------- MODULE NotesFeedProofs --------------------------
(***************************************************************************)
(* The notes page for any number of notes, authors, filters and filter     *)
(* changes: polling never stops, the filter holds, and paging back leaves  *)
(* no hole.                                                                *)
(*                                                                         *)
(* The last is about three things that move on their own: the table, the   *)
(* answers in the air and the cursor.  An answer is complete down to its   *)
(* oldest note (NewestIsComplete) and stays so below the first cursor,     *)
(* since what is committed there later counts as late (InFlight).  An      *)
(* answer to a poll that was in the air when the composer set the first    *)
(* cursor is not, but then there is nothing to page back from yet.         *)
(***************************************************************************)
EXTENDS NotesFeed, FiniteSetTheorems, WellFoundedInduction, TLAPS

Matches(i, f) == f = {} \/ AuthorOf[i] \in f

\* Of the notes below top, those from the oldest of ids on are in ids.
Complete(ids, top) ==
    \A i \in Matching(feed.filter) \ late :
        i < top /\ (ids = {} \/ i >= Min(ids)) => i \in ids

TableKnows ==
    /\ \A i \in notes \cup inserting : i < next
    /\ post # 0 => AuthorOf[post] = Me

FeedKnows ==
    /\ feed.oldest = 0 => /\ feed.shown = {} /\ feed.queued = {} /\ ~feed.more
                          /\ ~InAir(older) /\ base = 0
    /\ ~early => feed.oldest <= base
    /\ boot \in {"auth", "selection"} => ~early

PollInFlight ==
    /\ poll.stage = "sent" => poll.filter = feed.filter /\ poll.before = 0
    /\ poll.stage = "ok" =>
         /\ \A i \in poll.ids : Matches(i, feed.filter)
         /\ \/ Complete(poll.ids, base)
            \/ feed.oldest = base /\ ~feed.more /\ ~InAir(older)

OlderInFlight ==
    /\ older.stage = "sent" => older.filter = feed.filter /\ older.before = feed.oldest
    /\ older.stage = "ok" =>
         /\ \A i \in older.ids : Matches(i, feed.filter) /\ i < feed.oldest
         /\ Complete(older.ids, feed.oldest)

NotesInv ==
    /\ TypeOK /\ TableKnows /\ FeedKnows
    /\ ~early => PollInFlight /\ OlderInFlight
    /\ PollingNeverStops /\ FilterHolds /\ PagesAreWhole

-----------------------------------------------------------------------------
(* Pages.                                                                  *)

LEMMA HasLeast ==
  ASSUME NEW T, T \subseteq Nat, T # {}
  PROVE  \E x \in T : \A y \in T : x <= y
<1>1. PICK x \in T : \A y \in T : ~ (<<y, x>> \in OpToRel(<, Nat))
  BY NatLessThanWellFounded, WFMin
<1>2. ASSUME NEW y \in T PROVE x <= y
  <2>1. <<y, x>> \in Nat \X Nat /\ <<y, x>>[1] = y /\ <<y, x>>[2] = x
    OBVIOUS
  <2>2. ~ (y < x)
    BY <1>1, <2>1 DEF OpToRel
  <2>3. QED BY <2>2
<1>3. QED BY <1>2

LEMMA IdsAreNumbers ==
  /\ Ids \subseteq Nat \ {0} /\ Cardinality(Ids) \in Nat
  /\ \A i \in Ids : i <= Cardinality(Ids)
<1>1. Cardinality(Ids) \in Nat /\ Ids = 1 .. Cardinality(Ids)
  BY FS_CardinalityType, NotesAssumption
<1>2. QED BY <1>1

LEMMA CursorsAreNumbers ==
  \A x \in {0} \cup Ids : x \in Nat /\ ~(x < 0)
<1>1. \A x \in Nat : ~(x < 0)
  OBVIOUS
<1>2. QED BY <1>1, IdsAreNumbers

LEMMA MinIsLeast ==
  ASSUME NEW S, S \subseteq Ids, S # {}
  PROVE  Min(S) \in S /\ Min(S) \in Ids /\ \A i \in S : Min(S) <= i
<1>1. \E x \in S : \A y \in S : x <= y
  BY HasLeast, IdsAreNumbers
<1>2. QED BY <1>1 DEF Min

LEMMA HasGreatest ==
  ASSUME NEW S, S \subseteq Ids, S # {}
  PROVE  \E x \in S : \A y \in S : y <= x
<1> DEFINE n == Cardinality(Ids)
           T == {n - i : i \in S}
<1>1. n \in Nat /\ \A i \in S : i \in Nat /\ n - i \in Nat
  BY IdsAreNumbers
<1> HIDE DEF n
<1>2. PICK t \in T : \A u \in T : t <= u
  BY <1>1, HasLeast
<1>3. PICK x \in S : t = n - x
  OBVIOUS
<1>4. \A y \in S : n - x <= n - y
  BY <1>2, <1>3
<1>5. QED BY <1>1, <1>4

\* Newest(S) has everything of S from its own oldest note on.
LEMMA NewestIsComplete ==
  ASSUME NEW S, S \subseteq Ids
  PROVE  /\ Newest(S) \subseteq S
         /\ \A i \in S : Newest(S) = {} \/ i >= Min(Newest(S)) => i \in Newest(S)
<1> DEFINE Above(i) == {j \in S : j > i}
<1>1. Newest(S) = {i \in S : Cardinality(Above(i)) < PAGE} /\ Newest(S) \subseteq S
  BY DEF Newest
<1>2. \A i \in S : IsFiniteSet(Above(i)) /\ Cardinality(Above(i)) \in Nat
  <2> TAKE i \in S
  <2>1. Above(i) \in SUBSET Ids
    OBVIOUS
  <2> HIDE DEF Above
  <2>2. IsFiniteSet(Above(i))
    BY <2>1, FS_Subset, NotesAssumption
  <2>3. QED BY <2>2, FS_CardinalityType
<1>3. Newest(S) = {} => S = {}
  <2> SUFFICES ASSUME S # {} PROVE Newest(S) # {}
    OBVIOUS
  <2>1. PICK m \in S : \A y \in S : y <= m
    BY HasGreatest
  <2>2. Above(m) = {}
    <3>1. \A j \in S : j \in Nat /\ m \in Nat /\ j <= m
      BY <2>1, IdsAreNumbers
    <3>2. \A j \in S : ~(j > m)
      BY <3>1
    <3>3. QED BY <3>2
  <2>3. Cardinality(Above(m)) = 0
    BY <2>2, FS_EmptySet
  <2>4. QED BY <1>1, <2>3, NotesAssumption
<1>4. ASSUME NEW i \in S, Newest(S) # {}, i >= Min(Newest(S))
      PROVE  i \in Newest(S)
  <2> DEFINE m == Min(Newest(S))
  <2>1. m \in Newest(S) /\ m \in S
    BY <1>1, <1>4, MinIsLeast
  <2>2. Above(i) \in SUBSET Above(m)
    <3>1. \A j \in S : j \in Nat /\ i \in Nat /\ m \in Nat
      BY <1>4, <2>1, IdsAreNumbers
    <3>2. \A j \in S : j > i => j > m
      BY <1>4, <3>1
    <3>3. QED BY <3>2
  <2>3. Cardinality(Above(i)) <= Cardinality(Above(m))
    <3> HIDE DEF Above
    <3>1. QED BY <1>2, <2>1, <2>2, FS_Subset
  <2>4. Cardinality(Above(m)) < PAGE
    BY <1>1, <2>1
  <2> HIDE DEF m, Above
  <2>5. Cardinality(Above(i)) < PAGE
    BY <1>2, <2>1, <2>3, <2>4, NotesAssumption
  <2>6. QED BY <1>1, <2>5 DEF Above
<1>5. QED BY <1>1, <1>3, <1>4
-----------------------------------------------------------------------------
(* Steps that show nothing new.                                            *)

SameFeed(fd) ==
    /\ fd.filter = feed.filter /\ fd.shown = feed.shown /\ fd.queued = feed.queued
    /\ fd.oldest = feed.oldest /\ fd.more = feed.more

\* A poll ends or begins, or nothing that matters happens.
LEMMA QuietKeeps ==
  ASSUME NotesInv, TypeOK', TableKnows', PollingNeverStops', SameFeed(feed'),
         \/ poll' = poll
         \/ poll'.stage \in {"none", "stale"}
         \/ poll'.stage = "sent" /\ poll'.filter = feed.filter /\ poll'.before = 0,
         boot' \in {"auth", "selection"} => boot \in {"auth", "selection"},
         UNCHANGED <<notes, older, early, base, late>>
  PROVE  NotesInv'
<1>1. FeedKnows' /\ FilterHolds'
  BY DEF NotesInv, FeedKnows, FilterHolds, SameFeed, InAir
<1>2. PagesAreWhole'
  BY DEF NotesInv, PagesAreWhole, Matching, SameFeed
<1>3. ~early' => OlderInFlight'
  <2>1. OlderInFlight => OlderInFlight'
    BY DEF OlderInFlight, Complete, Matching, Matches, SameFeed
  <2>2. QED BY <2>1 DEF NotesInv
<1>4. ~early' => PollInFlight'
  <2>1. CASE poll' = poll
    <3>1. PollInFlight => PollInFlight'
      BY <2>1 DEF PollInFlight, Complete, Matching, Matches, SameFeed, InAir
    <3>2. QED BY <3>1 DEF NotesInv
  <2>2. CASE poll'.stage \in {"none", "stale"}
    BY <2>2 DEF PollInFlight
  <2>3. CASE poll'.stage = "sent" /\ poll'.filter = feed.filter /\ poll'.before = 0
    BY <2>3 DEF PollInFlight, SameFeed
  <2>4. QED BY <2>1, <2>2, <2>3
<1>5. QED BY <1>1, <1>2, <1>3, <1>4 DEF NotesInv

LEMMA Typed ==
  ASSUME NotesInv
  PROVE  /\ feed \in Feed /\ poll \in Request /\ older \in Request
         /\ notes \subseteq Ids /\ feed.filter \in SUBSET Authors
         /\ feed.shown \subseteq Ids /\ feed.queued \subseteq Ids
         /\ feed.oldest \in {0} \cup Ids /\ feed.oldest \in Nat /\ base \in Nat
         /\ 0 \notin Ids
<1>1. TypeOK
  BY DEF NotesInv
<1>2. Ids \subseteq Nat /\ 0 \notin Ids
  BY IdsAreNumbers
<1>3. /\ feed \in Feed /\ poll \in Request /\ older \in Request
      /\ notes \subseteq Ids /\ base \in {0} \cup Ids
  BY <1>1 DEF TypeOK
<1>4. /\ feed.filter \in SUBSET Authors /\ feed.oldest \in {0} \cup Ids
      /\ feed.shown \subseteq Ids /\ feed.queued \subseteq Ids
  BY <1>3 DEF Feed
<1>5. feed.oldest \in Nat /\ base \in Nat
  <2>1. \A x : x \in {0} \cup Ids => x \in Nat
    BY <1>2
  <2>2. QED BY <1>3, <1>4, <2>1
<1>6. QED BY <1>2, <1>3, <1>4, <1>5

\* Requests that have no answer yet.
LEMMA NewRequests ==
  ASSUME NotesInv, NEW f \in SUBSET Authors, NEW b \in {0} \cup Ids
  PROVE  /\ Idle \in Request /\ Idle.stage = "none"
         /\ Stale \in Request /\ Stale.stage = "stale"
         /\ LET r == [Idle EXCEPT !.stage = "sent", !.filter = f]
            IN  r \in Request /\ r.stage = "sent" /\ r.filter = f /\ r.before = 0
         /\ LET r == [Idle EXCEPT !.stage = "sent", !.filter = f, !.before = b]
            IN  r \in Request /\ r.stage = "sent" /\ r.filter = f /\ r.before = b
BY DEF Idle, Stale, Request

LEMMA PollOnceKeeps ==
  ASSUME NotesInv, NEW fd, fd.filter \in SUBSET Authors
  PROVE  /\ PollOnce(fd) \in Request /\ PollOnce(fd).stage # "none"
         /\ \/ PollOnce(fd) = poll /\ poll.stage # "none"
            \/ PollOnce(fd).stage = "sent" /\ PollOnce(fd).filter = fd.filter
                 /\ PollOnce(fd).before = 0
BY Typed, NewRequests DEF PollOnce

LEMMA TableGrows ==
  ASSUME NotesInv, next \in Ids
  PROVE  /\ (inserting \cup {next}) \subseteq Ids \ notes
         /\ next + 1 \in 1 .. Cardinality(Ids) + 1
         /\ \A i \in notes \cup inserting \cup {next} : i < next + 1
<1>1. /\ Ids \subseteq Nat \ {0} /\ Cardinality(Ids) \in Nat
      /\ \A i \in Ids : i <= Cardinality(Ids)
  BY IdsAreNumbers
<1>2. \A i \in notes \cup inserting : i < next /\ i \in Ids /\ i \in Nat
  BY <1>1 DEF NotesInv, TypeOK, TableKnows
<1>3. next \notin notes
  BY <1>2
<1>4. QED BY <1>1, <1>2, <1>3 DEF NotesInv, TypeOK

LEMMA WriteKeeps ==
  ASSUME NotesInv, Create \/ Post
  PROVE  NotesInv'
<1>1. /\ next \in Ids /\ inserting' = inserting \cup {next} /\ next' = next + 1
      /\ post' = post \/ (post' = next /\ AuthorOf[next] = Me)
      /\ UNCHANGED <<notes, boot, visible, feed, poll, older, deleting, changes, early, base, late>>
  BY DEF Create, Post, history
<1>2. TypeOK'
  BY <1>1, TableGrows DEF NotesInv, TypeOK
<1>3. TableKnows' /\ PollingNeverStops'
  BY <1>1, TableGrows DEF NotesInv, TableKnows, PollingNeverStops
<1>4. QED BY <1>1, <1>2, <1>3, QuietKeeps DEF SameFeed

LEMMA PageQuietKeeps ==
  ASSUME NotesInv,
         \/ OnAuth \/ OnPostError \/ Hide
         \/ \E i \in Ids : ConfirmDelete(i) \/ OnDeleteError(i)
  PROVE  NotesInv'
<1>1. /\ UNCHANGED <<table, poll, older, changes, history>>
      /\ post' \in {0, post} /\ deleting' \subseteq Ids
      /\ boot' \in {"auth", "selection", "authors", "done"} /\ visible' \in BOOLEAN
      /\ boot' = boot \/ (boot = "auth" /\ boot' = "selection")
      /\ \/ feed' = feed /\ UNCHANGED visible
         \/ feed' = [feed EXCEPT !.timer = FALSE] /\ ~visible'
  <2>1. /\ post \in {0, post} /\ deleting \subseteq Ids /\ visible \in BOOLEAN
        /\ boot \in {"auth", "selection", "authors", "done"}
    BY DEF NotesInv, TypeOK
  <2>2. CASE OnAuth
    BY <2>1, <2>2 DEF OnAuth, table, history
  <2>3. CASE OnPostError
    BY <2>1, <2>3 DEF OnPostError, table, history
  <2>4. CASE Hide
    BY <2>1, <2>4 DEF Hide, table, history
  <2>5. ASSUME NEW i \in Ids, ConfirmDelete(i) \/ OnDeleteError(i)
        PROVE  /\ UNCHANGED <<table, boot, visible, feed, poll, older, post, changes, history>>
               /\ deleting' \subseteq Ids
    BY <2>1, <2>5 DEF ConfirmDelete, OnDeleteError, table, history
  <2>6. QED BY <2>1, <2>2, <2>3, <2>4, <2>5 DEF table, history
<1>2. feed' \in Feed /\ SameFeed(feed')
  BY <1>1, Typed DEF SameFeed, Feed
<1>3. TypeOK' /\ TableKnows'
  BY <1>1, <1>2 DEF NotesInv, TypeOK, TableKnows, table, history
<1>4. PollingNeverStops'
  BY <1>1 DEF NotesInv, PollingNeverStops
<1>5. QED BY <1>1, <1>2, <1>3, <1>4, QuietKeeps DEF table, history

LEMMA PollStepsKeep ==
  ASSUME NotesInv, TimerFires \/ Show \/ OnAuthors \/ OnStalePoll \/ OnPollError
  PROVE  NotesInv'
<1>1. /\ UNCHANGED <<table, older, post, deleting, changes, history>>
      /\ boot' = boot \/ (boot = "authors" /\ boot' = "done")
      /\ visible' \in BOOLEAN
  <2>1. visible \in BOOLEAN
    BY DEF NotesInv, TypeOK
  <2>2. CASE TimerFires
    BY <2>1, <2>2 DEF TimerFires, table, history
  <2>3. CASE Show
    BY <2>3 DEF Show, table, history
  <2>4. CASE OnAuthors
    BY <2>1, <2>4 DEF OnAuthors, table, history
  <2>5. CASE OnStalePoll \/ OnPollError
    BY <2>1, <2>5 DEF OnStalePoll, OnPollError, table, history
  <2>6. QED BY <2>2, <2>3, <2>4, <2>5
<1>2. ASSUME NEW b \in BOOLEAN
      PROVE  LET fd == [feed EXCEPT !.timer = b] IN fd \in Feed /\ SameFeed(fd) /\ fd.timer = b
  BY Typed DEF SameFeed, Feed
<1>3. feed \in Feed /\ SameFeed(feed)
  BY Typed DEF SameFeed
<1>4. /\ feed' \in Feed /\ SameFeed(feed') /\ poll' \in Request
      /\ \/ poll' = poll
         \/ poll'.stage = "none"
         \/ poll'.stage = "sent" /\ poll'.filter = feed.filter /\ poll'.before = 0
      /\ poll'.stage # "none" \/ feed'.timer \/ ~visible'
  <2>1. CASE TimerFires
    BY <1>2, <2>1, Typed, PollOnceKeeps DEF TimerFires, table, history
  <2>2. CASE Show \/ OnAuthors
    BY <1>3, <2>2, Typed, PollOnceKeeps DEF Show, OnAuthors
  <2>3. CASE OnStalePoll
    BY <1>3, <2>3, Typed, NewRequests DEF OnStalePoll
  <2>4. CASE OnPollError
    <3>1. feed' = [feed EXCEPT !.timer = visible] /\ poll' = Idle /\ visible' = visible
      BY <2>4 DEF OnPollError, Scheduled
    <3>2. visible \in BOOLEAN
      BY DEF NotesInv, TypeOK
    <3>3. QED BY <1>2, <3>1, <3>2, Typed, NewRequests
  <2>5. QED BY <2>1, <2>2, <2>3, <2>4
<1>5. TypeOK' /\ TableKnows'
  BY <1>1, <1>4 DEF NotesInv, TypeOK, TableKnows, table, history
<1>6. PollingNeverStops'
  BY <1>4 DEF PollingNeverStops
<1>7. QED BY <1>1, <1>4, <1>5, <1>6, QuietKeeps DEF table, history

-----------------------------------------------------------------------------
(* The table and the answers.                                              *)

\* A note is deleted, or committed: below the first cursor it counts as late.
LEMMA TableChanges ==
  ASSUME NotesInv, TypeOK', TableKnows',
         late \subseteq late', \A i \in notes' \ notes : i >= base \/ i \in late',
         UNCHANGED <<boot, visible, feed, poll, older, early, base>>
  PROVE  NotesInv'
<1>1. FeedKnows' /\ FilterHolds' /\ PollingNeverStops'
  BY DEF NotesInv, FeedKnows, FilterHolds, PollingNeverStops, InAir
<1>2. \A i \in notes' : i \in Nat /\ i \in Ids
  BY IdsAreNumbers DEF TypeOK
<1>3. feed.oldest \in Nat /\ base \in Nat
  BY Typed
<1>4. \A f : \A i \in Matching(f)' \ late' : i < base => i \in Matching(f) \ late
  BY <1>2, <1>3 DEF Matching
<1>5. PagesAreWhole'
  BY <1>4 DEF NotesInv, PagesAreWhole, Matching
<1>6. ASSUME NEW ids, NEW top \in Nat, top <= base, Complete(ids, top)
      PROVE  \A i \in Matching(feed.filter)' \ late' :
               i < top /\ (ids = {} \/ i >= Min(ids)) => i \in ids
  <2> SUFFICES ASSUME NEW i \in Matching(feed.filter)' \ late', i < top,
                      ids = {} \/ i >= Min(ids)
               PROVE  i \in ids
    OBVIOUS
  <2>1. i \in Nat /\ (i \in notes' \ notes => i >= base \/ i \in late')
    BY <1>2 DEF Matching
  <2>2. i < base
    BY <1>3, <1>6, <2>1
  <2>3. i \in Matching(feed.filter) \ late
    BY <1>3, <2>1, <2>2 DEF Matching
  <2>4. QED BY <1>6, <2>3 DEF Complete
<1>7. ~early' => PollInFlight'
  <2>1. Complete(poll.ids, base) => Complete(poll.ids, base)'
    BY <1>3, <1>6 DEF Complete, Matching
  <2>2. PollInFlight => PollInFlight'
    BY <2>1 DEF PollInFlight, Matches, InAir
  <2>3. QED BY <2>2 DEF NotesInv
<1>8. ~early' => OlderInFlight'
  <2>1. feed.oldest <= base /\ Complete(older.ids, feed.oldest)
          => Complete(older.ids, feed.oldest)'
    BY <1>3, <1>6 DEF Complete, Matching
  <2>2. feed.oldest <= base /\ OlderInFlight => OlderInFlight'
    BY <2>1 DEF OlderInFlight, Matches
  <2>3. QED BY <2>2 DEF NotesInv, FeedKnows
<1>9. QED BY <1>1, <1>5, <1>7, <1>8 DEF NotesInv

LEMMA CommitDeleteKeep ==
  ASSUME NEW i \in Ids, NotesInv, Commit(i) \/ Delete(i)
  PROVE  NotesInv'
<1>1. TypeOK'
  BY DEF NotesInv, TypeOK, Commit, Delete, history
<1>2. TableKnows'
  BY DEF NotesInv, TableKnows, Commit, Delete
<1>3. /\ late \subseteq late' /\ \A j \in notes' \ notes : ~(j < base) \/ j \in late'
      /\ UNCHANGED <<boot, visible, feed, poll, older, early, base>>
  BY DEF Commit, Delete, history
<1>4. \A j \in notes' \ notes : j >= base \/ j \in late'
  <2>1. \A j \in notes' : j \in Nat
    BY <1>1, IdsAreNumbers DEF TypeOK
  <2>2. QED BY <1>3, <2>1, Typed
<1>5. QED BY <1>1, <1>2, <1>3, <1>4, TableChanges

\* What the server answers is complete from its oldest note on.
LEMMA ListIsComplete ==
  ASSUME NotesInv, NEW f, NEW before \in {0} \cup Ids
  PROVE  /\ ListNotes(f, before) \subseteq Ids
         /\ \A i \in ListNotes(f, before) : Matches(i, f) /\ (before = 0 \/ i < before)
         /\ \A i \in Matching(f) :
              /\ before = 0 \/ i < before
              /\ ListNotes(f, before) = {} \/ i >= Min(ListNotes(f, before))
              => i \in ListNotes(f, before)
<1> DEFINE S == {i \in Matching(f) : before = 0 \/ i < before}
<1>1. S \subseteq Ids /\ Matching(f) \subseteq Ids
  BY Typed DEF Matching
<1>2. \A i \in S : Matches(i, f)
  BY DEF Matching, Matches
<1>3. ListNotes(f, before) = Newest(S)
  BY DEF ListNotes
<1>4. \A i \in Matching(f) : before = 0 \/ i < before => i \in S
  OBVIOUS
<1>5. \A i \in S : before = 0 \/ i < before
  OBVIOUS
<1> HIDE DEF S
<1>6. QED BY <1>1, <1>2, <1>3, <1>4, <1>5, NewestIsComplete

LEMMA AnswerTyped ==
  ASSUME NotesInv, NEW r \in Request
  PROVE  /\ Answer(r) \in Request /\ Answer(r).stage = "ok"
         /\ Answer(r).ids = ListNotes(r.filter, r.before)
<1>1. ListNotes(r.filter, r.before) \subseteq Ids
  BY ListIsComplete DEF Request
<1>2. QED BY <1>1 DEF Answer, Idle, Request

LEMMA ListForPollKeeps == NotesInv /\ ListForPoll => NotesInv'
<1> SUFFICES ASSUME NotesInv, ListForPoll PROVE NotesInv'
  OBVIOUS
<1>1. /\ poll.stage = "sent" /\ poll' = Answer(poll)
      /\ UNCHANGED <<notes, inserting, next, boot, visible, feed, older, post, deleting,
                     changes, early, base, late>>
  BY DEF ListForPoll, table, history
<1>2. poll' \in Request /\ poll'.stage = "ok" /\ poll'.ids = ListNotes(poll.filter, poll.before)
  BY <1>1, Typed, AnswerTyped
<1>3. TypeOK'
  BY <1>1, <1>2 DEF NotesInv, TypeOK
<1>4. TableKnows' /\ FeedKnows' /\ PollingNeverStops' /\ FilterHolds'
  BY <1>1, <1>2 DEF NotesInv, TableKnows, FeedKnows, PollingNeverStops, FilterHolds, InAir
<1>5. PagesAreWhole'
  BY <1>1 DEF NotesInv, PagesAreWhole, Matching
<1>6. ~early' => OlderInFlight'
  BY <1>1 DEF NotesInv, OlderInFlight, Complete, Matching, Matches
<1>7. ASSUME ~early PROVE PollInFlight'
  <2>1. poll.filter = feed.filter /\ poll.before = 0
    BY <1>1, <1>7 DEF NotesInv, PollInFlight
  <2>2. poll'.ids = ListNotes(feed.filter, 0)
    BY <1>2, <2>1
  <2>3. /\ \A i \in poll'.ids : Matches(i, feed.filter)
        /\ \A i \in Matching(feed.filter) : poll'.ids = {} \/ i >= Min(poll'.ids) => i \in poll'.ids
    BY <2>2, ListIsComplete
  <2>4. QED BY <1>1, <1>2, <2>3 DEF PollInFlight, Complete, Matching, Matches
<1>8. QED BY <1>1, <1>3, <1>4, <1>5, <1>6, <1>7 DEF NotesInv

LEMMA ListOlderKeeps == NotesInv /\ ListOlder => NotesInv'
<1> SUFFICES ASSUME NotesInv, ListOlder PROVE NotesInv'
  OBVIOUS
<1>1. /\ older.stage = "sent" /\ older' = Answer(older)
      /\ UNCHANGED <<notes, inserting, next, boot, visible, feed, poll, post, deleting,
                     changes, early, base, late>>
  BY DEF ListOlder, table, history
<1>2. older' \in Request /\ older'.stage = "ok" /\ older'.ids = ListNotes(older.filter, older.before)
  BY <1>1, Typed, AnswerTyped
<1>3. TypeOK'
  BY <1>1, <1>2 DEF NotesInv, TypeOK
<1>4. TableKnows' /\ FeedKnows' /\ PollingNeverStops' /\ FilterHolds'
  BY <1>1, <1>2 DEF NotesInv, TableKnows, FeedKnows, PollingNeverStops, FilterHolds, InAir
<1>5. PagesAreWhole'
  BY <1>1 DEF NotesInv, PagesAreWhole, Matching
<1>6. ~early' => PollInFlight'
  BY <1>1, <1>2 DEF NotesInv, PollInFlight, Complete, Matching, Matches, InAir
<1>7. ASSUME ~early PROVE OlderInFlight'
  <2>1. older.filter = feed.filter /\ older.before = feed.oldest /\ feed.oldest # 0
    BY <1>1, <1>7 DEF NotesInv, OlderInFlight, FeedKnows, InAir
  <2>2. older'.ids = ListNotes(feed.filter, feed.oldest)
    BY <1>2, <2>1
  <2>3. /\ \A i \in older'.ids : Matches(i, feed.filter) /\ i < feed.oldest
        /\ \A i \in Matching(feed.filter) :
             i < feed.oldest /\ (older'.ids = {} \/ i >= Min(older'.ids)) => i \in older'.ids
    BY <2>1, <2>2, ListIsComplete, Typed
  <2>4. QED BY <1>1, <1>2, <2>3 DEF OlderInFlight, Complete, Matching, Matches
<1>8. QED BY <1>1, <1>3, <1>4, <1>5, <1>6, <1>7 DEF NotesInv

-----------------------------------------------------------------------------
(* Steps that change what is shown.                                        *)

ShownOrQueued(fd) == fd.shown \cup fd.queued

\* Notes are shown without moving the cursor.
LEMMA ShowKeeps ==
  ASSUME NotesInv, TypeOK', TableKnows',
         feed'.filter = feed.filter, feed'.oldest = feed.oldest, feed'.more = feed.more,
         feed'.timer = feed.timer, ShownOrQueued(feed) \cap notes \subseteq ShownOrQueued(feed'),
         feed.oldest = 0 => ShownOrQueued(feed') = {},
         \A i \in ShownOrQueued(feed') \ ShownOrQueued(feed) :
            feed.filter = {} \/ AuthorOf[i] \in feed.filter \cup {Me},
         UNCHANGED <<notes, boot, visible, poll, older, early, base, late>>
  PROVE  NotesInv'
<1>1. FeedKnows'
  BY DEF NotesInv, FeedKnows, ShownOrQueued, InAir
<1>2. FilterHolds' /\ PollingNeverStops'
  BY DEF NotesInv, FilterHolds, PollingNeverStops, ShownOrQueued
<1>3. PagesAreWhole'
  BY DEF NotesInv, PagesAreWhole, Matching, ShownOrQueued
<1>4. ~early' => PollInFlight' /\ OlderInFlight'
  <2>1. PollInFlight => PollInFlight'
    BY DEF PollInFlight, Complete, Matching, Matches, InAir
  <2>2. OlderInFlight => OlderInFlight'
    BY DEF OlderInFlight, Complete, Matching, Matches
  <2>3. QED BY <2>1, <2>2 DEF NotesInv
<1>5. QED BY <1>1, <1>2, <1>3, <1>4 DEF NotesInv

LEMMA ClickPillKeeps == NotesInv /\ ClickPill => NotesInv'
<1> SUFFICES ASSUME NotesInv, ClickPill PROVE NotesInv'
  OBVIOUS
<1> DEFINE fd == [feed EXCEPT !.shown = feed.shown \cup feed.queued, !.queued = {}]
<1>1. /\ fd \in Feed /\ fd.filter = feed.filter /\ fd.oldest = feed.oldest /\ fd.more = feed.more
      /\ fd.timer = feed.timer /\ fd.shown \cup fd.queued = feed.shown \cup feed.queued
  BY Typed DEF Feed
<1>2. /\ feed' = fd
      /\ UNCHANGED <<notes, inserting, next, boot, visible, poll, older, post, deleting,
                     changes, early, base, late>>
  BY DEF ClickPill, table, history
<1> HIDE DEF fd
<1>3. TypeOK' /\ TableKnows'
  BY <1>1, <1>2 DEF NotesInv, TypeOK, TableKnows
<1>4. feed.oldest = 0 => feed.shown \cup feed.queued = {}
  BY DEF NotesInv, FeedKnows
<1>5. QED BY <1>1, <1>2, <1>3, <1>4, ShowKeeps DEF ShownOrQueued

LEMMA OnDeleteKeeps ==
  ASSUME NEW i \in Ids, NotesInv, OnDelete(i)
  PROVE  NotesInv'
<1> DEFINE fd == [feed EXCEPT !.shown = feed.shown \ {i}, !.queued = feed.queued \ {i}]
<1>1. /\ fd \in Feed /\ fd.filter = feed.filter /\ fd.oldest = feed.oldest /\ fd.more = feed.more
      /\ fd.timer = feed.timer
      /\ fd.shown \cup fd.queued = (feed.shown \cup feed.queued) \ {i}
  BY Typed DEF Feed
<1>2. /\ feed' = fd /\ i \notin notes /\ deleting' = deleting \ {i}
      /\ UNCHANGED <<notes, inserting, next, boot, visible, poll, older, post,
                     changes, early, base, late>>
  BY DEF OnDelete, table, history
<1> HIDE DEF fd
<1>3. TypeOK' /\ TableKnows'
  BY <1>1, <1>2 DEF NotesInv, TypeOK, TableKnows
<1>4. feed.oldest = 0 => feed.shown \cup feed.queued = {}
  BY DEF NotesInv, FeedKnows
<1>5. QED BY <1>1, <1>2, <1>3, <1>4, ShowKeeps DEF ShownOrQueued

LEMMA OnPostKeeps == NotesInv /\ OnPost => NotesInv'
<1> SUFFICES ASSUME NotesInv, OnPost PROVE NotesInv'
  OBVIOUS
<1> DEFINE fd == [feed EXCEPT !.shown = feed.shown \cup {post},
                              !.oldest = IF feed.oldest = 0 THEN post ELSE feed.oldest]
<1>1. post \in Ids /\ post \in Nat /\ AuthorOf[post] = Me
  BY IdsAreNumbers DEF NotesInv, TypeOK, TableKnows, OnPost
<1>2. /\ fd \in Feed /\ fd.filter = feed.filter /\ fd.more = feed.more /\ fd.timer = feed.timer
      /\ fd.shown = feed.shown \cup {post} /\ fd.queued = feed.queued
      /\ fd.oldest = IF feed.oldest = 0 THEN post ELSE feed.oldest
  BY <1>1, Typed DEF Feed
<1>3. /\ feed' = fd /\ post' = 0 /\ base' = IF feed.oldest = 0 THEN fd.oldest ELSE base
      /\ UNCHANGED <<notes, inserting, next, boot, visible, poll, older, deleting,
                     changes, early, late>>
  BY DEF OnPost, SetBase, table
<1> HIDE DEF fd
<1>4. TypeOK' /\ TableKnows'
  <2>1. base' \in {0} \cup Ids
    BY <1>1, <1>2, <1>3 DEF NotesInv, TypeOK
  <2>2. QED BY <1>2, <1>3, <2>1 DEF NotesInv, TypeOK, TableKnows
<1>5. CASE feed.oldest # 0
  <2>1. base' = base /\ fd.oldest = feed.oldest
    BY <1>2, <1>3, <1>5
  <2>2. ShownOrQueued(fd) = ShownOrQueued(feed) \cup {post}
    BY <1>2 DEF ShownOrQueued
  <2>3. QED BY <1>1, <1>2, <1>3, <1>4, <1>5, <2>1, <2>2, ShowKeeps
\* The first cursor: there is nothing to page back from yet.
<1>6. CASE feed.oldest = 0
  <2>1. /\ fd.oldest = post /\ base' = post /\ post # 0
        /\ feed.shown = {} /\ feed.queued = {} /\ ~feed.more /\ ~InAir(older)
    BY <1>1, <1>2, <1>3, <1>6, IdsAreNumbers DEF NotesInv, FeedKnows
  <2>2. FeedKnows'
    BY <1>1, <1>3, <2>1 DEF NotesInv, FeedKnows
  <2>3. FilterHolds' /\ PollingNeverStops'
    BY <1>1, <1>2, <1>3, <2>1 DEF NotesInv, FilterHolds, PollingNeverStops
  <2>4. PagesAreWhole'
    <3>1. \A i \in notes : i \in Nat
      BY Typed, IdsAreNumbers
    <3>2. \A i \in notes : ~(post <= i /\ i < post)
      BY <1>1, <3>1
    <3>3. QED BY <1>3, <2>1, <3>2 DEF PagesAreWhole, Matching
  <2>5. ~early' => PollInFlight' /\ OlderInFlight'
    <3>1. PollInFlight => PollInFlight'
      BY <1>2, <1>3, <2>1 DEF PollInFlight, Matches, InAir
    <3>2. OlderInFlight'
      BY <1>3, <2>1 DEF OlderInFlight, InAir
    <3>3. QED BY <1>3, <3>1, <3>2 DEF NotesInv
  <2>6. QED BY <1>4, <2>2, <2>3, <2>4, <2>5 DEF NotesInv
<1>7. QED BY <1>5, <1>6

LEMMA LoadOlderKeeps == NotesInv /\ LoadOlder => NotesInv'
<1> SUFFICES ASSUME NotesInv, LoadOlder PROVE NotesInv'
  OBVIOUS
<1>1. /\ older' \in Request /\ older'.stage = "sent" /\ older'.filter = feed.filter
      /\ older'.before = feed.oldest /\ feed.more
      /\ UNCHANGED <<notes, inserting, next, boot, visible, feed, poll, post, deleting,
                     changes, early, base, late>>
  <2>1. /\ feed.more
        /\ older' = [Idle EXCEPT !.stage = "sent", !.filter = feed.filter,
                                 !.before = feed.oldest]
        /\ UNCHANGED <<notes, inserting, next, boot, visible, feed, poll, post, deleting,
                       changes, early, base, late>>
    BY DEF LoadOlder, table, history
  <2>2. feed.filter \in SUBSET Authors /\ feed.oldest \in {0} \cup Ids
    BY Typed
  <2>3. QED BY <2>1, <2>2 DEF Idle, Request
<1>2. TypeOK' /\ TableKnows'
  BY <1>1 DEF NotesInv, TypeOK, TableKnows
<1>3. FeedKnows' /\ FilterHolds' /\ PollingNeverStops'
  BY <1>1 DEF NotesInv, FeedKnows, FilterHolds, PollingNeverStops
<1>4. PagesAreWhole'
  BY <1>1 DEF NotesInv, PagesAreWhole, Matching
<1>5. PollInFlight => PollInFlight'
  BY <1>1 DEF PollInFlight, Complete, Matching, Matches
<1>6. OlderInFlight'
  BY <1>1 DEF OlderInFlight
<1>7. QED BY <1>1, <1>2, <1>3, <1>4, <1>5, <1>6 DEF NotesInv

LEMMA OnOlderKeeps == NotesInv /\ OnOlder => NotesInv'
<1> SUFFICES ASSUME NotesInv, OnOlder PROVE NotesInv'
  OBVIOUS
<1> DEFINE ids == older.ids
           fd  == OlderLoaded(ids)
<1>1. /\ older' = Idle /\ Idle \in Request /\ Idle.stage = "none"
      /\ feed' = IF older.stage = "ok" THEN fd ELSE feed
      /\ UNCHANGED <<notes, inserting, next, boot, visible, poll, post, deleting,
                     changes, early, base, late>>
  BY Typed, NewRequests DEF OnOlder, table, history
<1>2. ids \subseteq Ids
  BY Typed DEF Request
<1>3. /\ fd \in Feed /\ fd.filter = feed.filter /\ fd.timer = feed.timer
      /\ fd.shown = feed.shown \cup ids /\ fd.queued = feed.queued
      /\ fd.oldest = IF ids = {} THEN feed.oldest ELSE Min(ids)
      /\ fd.more => feed.more
  BY <1>2, Typed, MinIsLeast DEF OlderLoaded, Cursor, Feed
<1> HIDE DEF fd
<1>4. feed' \in Feed
  BY <1>1, <1>3, Typed
<1>5. TypeOK' /\ TableKnows'
  BY <1>1, <1>4 DEF NotesInv, TypeOK, TableKnows
<1>6. ~early' => OlderInFlight'
  BY <1>1 DEF OlderInFlight
<1>7. CASE older.stage # "ok"
  <2>1. feed' = feed
    BY <1>1, <1>7
  <2>2. FeedKnows' /\ FilterHolds' /\ PollingNeverStops'
    BY <1>1, <2>1 DEF NotesInv, FeedKnows, FilterHolds, PollingNeverStops, InAir
  <2>3. PagesAreWhole'
    BY <1>1, <2>1 DEF NotesInv, PagesAreWhole, Matching
  <2>4. PollInFlight => PollInFlight'
    BY <1>1, <2>1 DEF PollInFlight, Complete, Matching, Matches, InAir
  <2>5. QED BY <1>1, <1>5, <1>6, <2>2, <2>3, <2>4 DEF NotesInv
<1>8. CASE older.stage = "ok"
  <2>1. feed' = fd /\ feed.oldest # 0 /\ fd.oldest # 0
    BY <1>1, <1>2, <1>3, <1>8, MinIsLeast, Typed DEF NotesInv, FeedKnows, InAir
  <2>2. ~early => /\ feed.oldest <= base
                  /\ \A i \in ids : Matches(i, feed.filter) /\ i < feed.oldest
                  /\ Complete(ids, feed.oldest)
    BY <1>8 DEF NotesInv, FeedKnows, OlderInFlight
  <2>3. /\ fd.oldest \in Nat /\ feed.oldest \in Nat /\ base \in Nat
        /\ ids # {} => fd.oldest \in ids
        /\ \A i \in notes : i \in Nat
    <3>1. feed.oldest \in Nat /\ base \in Nat
      BY Typed
    <3>2. \A i \in notes : i \in Nat
      BY Typed, IdsAreNumbers
    <3>3. ids # {} => Min(ids) \in ids /\ Min(ids) \in Ids
      BY <1>2, MinIsLeast
    <3>4. ids # {} => Min(ids) \in ids /\ Min(ids) \in Nat
      BY <3>3, IdsAreNumbers
    <3>5. QED BY <1>3, <3>1, <3>2, <3>4
  <2>4. ~early => fd.oldest <= base
    BY <1>3, <2>2, <2>3
  <2>5. FeedKnows'
    BY <1>1, <2>1, <2>4 DEF NotesInv, FeedKnows
  <2>6. FilterHolds' /\ PollingNeverStops'
    BY <1>1, <1>3, <2>1, <2>2 DEF NotesInv, FilterHolds, PollingNeverStops, Matches
  <2>7. PagesAreWhole'
    <3> SUFFICES ASSUME ~early, NEW i \in Matching(feed.filter) \ late,
                        fd.oldest <= i, i < base
                 PROVE  i \in feed.shown \cup feed.queued \cup ids
      BY <1>1, <1>3, <2>1 DEF PagesAreWhole, Matching
    <3>1. i \in Nat
      BY <2>3 DEF Matching
    <3>2. CASE feed.oldest <= i
      BY <3>2 DEF NotesInv, PagesAreWhole
    <3>3. CASE i < feed.oldest
      BY <1>3, <2>2, <2>3, <3>1, <3>3 DEF Complete
    <3>4. QED BY <2>3, <3>1, <3>2, <3>3
  <2>8. PollInFlight => PollInFlight'
    BY <1>1, <1>3, <1>8, <2>1 DEF PollInFlight, Complete, Matching, Matches, InAir
  <2>9. QED BY <1>1, <1>5, <1>6, <2>5, <2>6, <2>7, <2>8 DEF NotesInv
<1>9. QED BY <1>7, <1>8

-----------------------------------------------------------------------------
(* A poll is answered.                                                     *)

LEMMA ReconciledIs ==
  ASSUME NotesInv, NEW ids, ids \subseteq Ids, NEW defer \in BOOLEAN
  PROVE  LET fd == Scheduled(Reconciled(ids, defer))
             S  == feed.shown \cup feed.queued
         IN  /\ fd \in Feed /\ fd.filter = feed.filter /\ fd.timer = visible
             /\ fd.shown \cup fd.queued = (S \ Deleted(S, ids)) \cup ids
             /\ fd.oldest = IF feed.oldest = 0 /\ ids # {} THEN Min(ids) ELSE feed.oldest
             /\ fd.more = (feed.more \/ (Cardinality(ids) >= PAGE /\ ~feed.end))
<1> DEFINE S     == feed.shown \cup feed.queued
           kept  == feed.shown \ Deleted(feed.shown, ids)
           waits == feed.queued \ Deleted(S, ids)
           new   == ids \ (kept \cup waits)
           queue == {i \in new : ~Mine(i) /\ defer /\ feed.loaded}
           old   == IF feed.oldest = 0 /\ ids # {} THEN Min(ids) ELSE feed.oldest
           more  == feed.more \/ (Cardinality(ids) >= PAGE /\ ~feed.end)
           fd    == [feed EXCEPT !.shown = kept \cup (new \ queue), !.queued = waits \cup queue,
                                 !.oldest = old, !.more = more, !.loaded = TRUE,
                                 !.timer = visible]
<1>1. Scheduled(Reconciled(ids, defer)) = fd
  BY Typed DEF Scheduled, Reconciled, Cursor, Feed
<1>2. kept \cup waits = S \ Deleted(S, ids)
  BY DEF Deleted
<1>3. /\ queue \subseteq new /\ new \subseteq ids /\ ids \subseteq new \cup kept \cup waits
      /\ kept \subseteq Ids /\ waits \subseteq Ids
  BY Typed
<1>4. old \in {0} \cup Ids /\ visible \in BOOLEAN /\ more \in BOOLEAN
  <2>1. feed.more \in BOOLEAN
    BY Typed DEF Feed
  <2>2. visible \in BOOLEAN
    BY DEF NotesInv, TypeOK
  <2>3. more \in BOOLEAN
    BY <2>1
  <2>4. old \in {0} \cup Ids
    BY Typed, MinIsLeast
  <2>5. QED BY <2>2, <2>3, <2>4
<1> HIDE DEF kept, waits, new, queue, old, more
<1>5. /\ fd \in Feed /\ fd.filter = feed.filter /\ fd.timer = visible
      /\ fd.shown = kept \cup (new \ queue) /\ fd.queued = waits \cup queue
      /\ fd.oldest = old /\ fd.more = more
  BY <1>3, <1>4, Typed DEF Feed
<1> HIDE DEF fd
<1>6. fd.shown \cup fd.queued = (S \ Deleted(S, ids)) \cup ids
  BY <1>2, <1>3, <1>5
<1>7. QED BY <1>1, <1>5, <1>6 DEF old, more

LEMMA OnPollKeeps == NotesInv /\ OnPoll => NotesInv'
<1> SUFFICES ASSUME NotesInv, OnPoll PROVE NotesInv'
  OBVIOUS
<1> DEFINE ids == poll.ids
           S   == feed.shown \cup feed.queued
<1>1. ids \subseteq Ids
  BY Typed DEF Request
<1>2. PICK defer \in BOOLEAN :
        feed' = Scheduled(Reconciled(ids, defer)) /\ SetBase(feed')
  BY DEF OnPoll
<1>3. /\ poll.stage = "ok" /\ poll' = Idle
      /\ base' = IF feed.oldest = 0 THEN feed'.oldest ELSE base
      /\ UNCHANGED <<notes, inserting, next, boot, visible, older, post, deleting,
                     changes, early, late>>
  BY <1>2 DEF OnPoll, SetBase, table
<1>4. /\ feed' \in Feed /\ feed'.filter = feed.filter /\ feed'.timer = visible
      /\ feed'.shown \cup feed'.queued = (S \ Deleted(S, ids)) \cup ids
      /\ feed'.oldest = IF feed.oldest = 0 /\ ids # {} THEN Min(ids) ELSE feed.oldest
      /\ feed'.more = (feed.more \/ (Cardinality(ids) >= PAGE /\ ~feed.end))
  BY <1>1, <1>2, ReconciledIs
<1>5. feed'.oldest \in {0} \cup Ids /\ feed'.oldest \in Nat
  <2>1. feed'.oldest \in {0} \cup Ids
    BY <1>4 DEF Feed
  <2>2. QED BY <2>1, CursorsAreNumbers
<1>6. TypeOK' /\ TableKnows'
  <2>1. poll' \in Request
    BY <1>3, NewRequests, Typed
  <2>2. base' \in {0} \cup Ids
    BY <1>3, <1>5 DEF NotesInv, TypeOK
  <2>3. QED BY <1>3, <1>4, <2>1, <2>2 DEF NotesInv, TypeOK, TableKnows
<1>7. PollingNeverStops'
  BY <1>3, <1>4 DEF PollingNeverStops
<1>8. PollInFlight'
  BY <1>3 DEF PollInFlight, Idle
<1>9. ~early => \A i \in ids : Matches(i, feed.filter)
  BY <1>3 DEF NotesInv, PollInFlight
<1>10. FilterHolds'
  <2> SUFFICES ASSUME ~early, NEW i \in S \cup ids
               PROVE  feed.filter = {} \/ AuthorOf[i] \in feed.filter \cup {Me}
    BY <1>3, <1>4 DEF FilterHolds
  <2>1. QED BY <1>9 DEF NotesInv, FilterHolds, Matches
<1>11. CASE feed.oldest # 0
  <2>1. feed'.oldest = feed.oldest /\ base' = base /\ (~early => feed.oldest <= base)
    BY <1>3, <1>4, <1>11 DEF NotesInv, FeedKnows
  <2>2. FeedKnows'
    BY <1>3, <1>11, <2>1 DEF NotesInv, FeedKnows
  <2>3. OlderInFlight => OlderInFlight'
    BY <1>3, <1>4, <2>1 DEF OlderInFlight, Complete, Matching, Matches
  <2>4. PagesAreWhole'
    <3> SUFFICES ASSUME ~early, NEW i \in Matching(feed.filter) \ late,
                        feed.oldest <= i, i < base
                 PROVE  i \in (S \ Deleted(S, ids)) \cup ids
      BY <1>3, <1>4, <2>1 DEF PagesAreWhole, Matching
    <3>1. i \in S
      BY DEF NotesInv, PagesAreWhole
    <3>2. Complete(ids, base)
      <4>1. i \in Nat /\ base \in Nat
        BY Typed, IdsAreNumbers DEF Matching
      <4>2. feed.oldest # base
        BY <4>1
      <4>3. QED BY <1>3, <4>2 DEF NotesInv, PollInFlight
    <3>3. i \in Deleted(S, ids) => i \in ids
      BY <3>2 DEF Deleted, Complete
    <3>4. QED BY <3>1, <3>3
  <2>5. QED BY <1>3, <1>6, <1>7, <1>8, <1>10, <2>2, <2>3, <2>4 DEF NotesInv
\* The first cursor, or none: nothing was shown.
<1>12. CASE feed.oldest = 0
  <2>1. /\ base' = feed'.oldest /\ S = {} /\ ~feed.more /\ ~InAir(older)
    BY <1>3, <1>12 DEF NotesInv, FeedKnows
  <2>2. feed'.oldest = 0 => /\ feed'.shown = {} /\ feed'.queued = {} /\ ~feed'.more
    <3> SUFFICES ASSUME feed'.oldest = 0
                 PROVE  feed'.shown = {} /\ feed'.queued = {} /\ ~feed'.more
      OBVIOUS
    <3>1. ids = {}
      <4>1. ids # {} => Min(ids) \in Ids
        BY <1>1, MinIsLeast
      <4>2. QED BY <1>4, <1>12, <4>1, Typed
    <3>2. Cardinality(ids) = 0
      BY <3>1, FS_EmptySet
    <3>3. ~feed'.more
      <4>1. ~(0 >= PAGE)
        BY NotesAssumption
      <4>2. QED BY <1>4, <2>1, <3>2, <4>1
    <3>4. feed'.shown \cup feed'.queued = {}
      BY <1>4, <2>1, <3>1
    <3>5. QED BY <3>3, <3>4
  <2>3. FeedKnows'
    BY <1>3, <1>5, <2>1, <2>2 DEF NotesInv, FeedKnows, InAir
  <2>4. OlderInFlight'
    BY <1>3, <2>1 DEF OlderInFlight, InAir
  <2>5. PagesAreWhole'
    <3>1. \A i \in notes : i \in Nat
      BY Typed, IdsAreNumbers
    <3>2. \A i \in notes : ~(feed'.oldest <= i /\ i < feed'.oldest)
      BY <1>5, <3>1
    <3>3. QED BY <1>3, <2>1, <3>2 DEF PagesAreWhole, Matching
  <2>6. QED BY <1>6, <1>7, <1>8, <1>10, <2>3, <2>4, <2>5 DEF NotesInv
<1>13. QED BY <1>11, <1>12

-----------------------------------------------------------------------------
(* The author filter.                                                      *)

LEMMA OnSelectionKeeps ==
  ASSUME NEW f \in Filters, NotesInv, OnSelection(f)
  PROVE  NotesInv'
<1> DEFINE fd == [feed EXCEPT !.filter = f]
<1>1. f \in SUBSET Authors
  BY NotesAssumption
<1>2. /\ fd \in Feed /\ fd.filter = f /\ fd.shown = feed.shown /\ fd.queued = feed.queued
      /\ fd.oldest = feed.oldest /\ fd.more = feed.more
  BY <1>1, Typed DEF Feed
<1>3. /\ boot = "selection" /\ boot' = "authors" /\ feed' = fd
      /\ early' = (f # feed.filter /\ (InAir(poll) \/ InAir(older) \/ feed.oldest # 0))
      /\ UNCHANGED <<notes, inserting, next, visible, poll, older, post, deleting, changes,
                     base, late>>
  BY DEF OnSelection, table
<1> HIDE DEF fd
<1>4. early = FALSE /\ early' \in BOOLEAN
  BY <1>3 DEF NotesInv, TypeOK, FeedKnows
<1>5. TypeOK' /\ TableKnows' /\ PollingNeverStops'
  BY <1>2, <1>3, <1>4 DEF NotesInv, TypeOK, TableKnows, PollingNeverStops
<1>6. FeedKnows'
  <2>1. ~early' => feed.oldest <= base
    BY <1>4 DEF NotesInv, FeedKnows
  <2>2. QED BY <1>2, <1>3, <2>1 DEF NotesInv, FeedKnows, InAir
<1>7. CASE f = feed.filter
  <2>1. early' = early
    BY <1>3, <1>4, <1>7
  <2>2. SameFeed(feed')
    BY <1>2, <1>3, <1>7 DEF SameFeed
  <2>3. QED BY <1>3, <1>5, <2>1, <2>2, QuietKeeps
<1>8. CASE f # feed.filter /\ ~early'
  <2>1. ~InAir(poll) /\ ~InAir(older) /\ feed.oldest = 0
    BY <1>3, <1>8
  <2>2. feed.shown = {} /\ feed.queued = {} /\ base = 0
    BY <2>1 DEF NotesInv, FeedKnows
  <2>3. PollInFlight' /\ OlderInFlight'
    BY <1>3, <2>1 DEF PollInFlight, OlderInFlight, InAir
  <2>4. FilterHolds'
    BY <1>2, <1>3, <2>2 DEF FilterHolds
  <2>5. PagesAreWhole'
    <3>1. \A i \in notes : ~(i < 0)
      BY Typed, CursorsAreNumbers
    <3>2. QED BY <1>3, <2>2, <3>1 DEF PagesAreWhole, Matching
  <2>6. QED BY <1>5, <1>6, <2>3, <2>4, <2>5 DEF NotesInv
<1>9. CASE early'
  BY <1>5, <1>6, <1>9 DEF NotesInv, FilterHolds, PagesAreWhole
<1>10. QED BY <1>7, <1>8, <1>9

LEMMA ChangeFilterKeeps ==
  ASSUME NEW f \in Filters, NotesInv, ChangeFilter(f)
  PROVE  NotesInv'
<1>1. f \in SUBSET Authors /\ MaxChanges \in Nat
  BY NotesAssumption
<1>2. /\ changes < MaxChanges /\ feed' = Empty(f) /\ changes' = changes + 1
      /\ poll' = IF poll.stage # "none" THEN Stale ELSE PollOnce(feed')
      /\ older' = IF older.stage # "none" THEN Stale ELSE Idle
      /\ early' = FALSE /\ base' = 0 /\ late' = {}
      /\ UNCHANGED <<notes, inserting, next, boot, visible, post, deleting>>
  BY DEF ChangeFilter, table
<1>3. /\ feed' \in Feed /\ feed'.filter = f /\ feed'.shown = {} /\ feed'.queued = {}
      /\ feed'.oldest = 0 /\ ~feed'.more
  BY <1>1, <1>2 DEF Empty, Feed
<1>4. /\ poll' \in Request
      /\ \/ poll'.stage = "stale"
         \/ poll'.stage = "sent" /\ poll'.filter = f /\ poll'.before = 0
  <2>1. CASE poll.stage # "none"
    BY <1>1, <1>2, <2>1, Typed, NewRequests
  <2>2. CASE poll.stage = "none"
    <3>1. poll' = [Idle EXCEPT !.stage = "sent", !.filter = f]
      BY <1>2, <1>3, <2>2 DEF PollOnce
    <3>2. QED BY <1>1, <3>1, Typed, NewRequests
  <2>3. QED BY <2>1, <2>2
<1>5. older' \in Request /\ older'.stage \in {"none", "stale"}
  BY <1>1, <1>2, Typed, NewRequests
<1>6. TypeOK' /\ TableKnows'
  <2>1. changes' \in 0 .. MaxChanges
    BY <1>1, <1>2 DEF NotesInv, TypeOK
  <2>2. QED BY <1>2, <1>3, <1>4, <1>5, <2>1 DEF NotesInv, TypeOK, TableKnows
<1>7. FeedKnows' /\ FilterHolds' /\ PollingNeverStops'
  BY <1>2, <1>3, <1>4, <1>5 DEF FeedKnows, FilterHolds, PollingNeverStops, InAir
<1>8. PollInFlight' /\ OlderInFlight'
  BY <1>3, <1>4, <1>5 DEF PollInFlight, OlderInFlight
<1>9. PagesAreWhole'
  <2>1. \A i \in notes : ~(i < 0)
    BY Typed, CursorsAreNumbers
  <2>2. QED BY <1>2, <2>1 DEF PagesAreWhole, Matching
<1>10. QED BY <1>6, <1>7, <1>8, <1>9 DEF NotesInv

-----------------------------------------------------------------------------
(* The theorems.                                                           *)

LEMMA NotesInvInit == Init => NotesInv
<1> SUFFICES ASSUME Init PROVE NotesInv
  OBVIOUS
<1>1. /\ notes = 1 .. Existing /\ inserting = {} /\ next = Existing + 1 /\ boot = "auth"
      /\ visible \in BOOLEAN /\ feed = Empty({}) /\ poll = Idle /\ older = Idle /\ post = 0
      /\ deleting = {} /\ changes = 0 /\ early = FALSE /\ base = 0 /\ late = {}
  BY DEF Init
<1>2. feed \in Feed /\ feed.oldest = 0 /\ feed.shown = {} /\ feed.queued = {} /\ ~feed.more
  BY <1>1 DEF Empty, Feed
<1>3. Idle \in Request /\ Idle.stage = "none"
  BY DEF Idle, Request
<1>4. Existing \in Nat /\ Existing <= Cardinality(Ids) /\ Cardinality(Ids) \in Nat
  BY NotesAssumption, IdsAreNumbers
<1>5. notes \subseteq Ids /\ next \in 1 .. Cardinality(Ids) + 1
  BY <1>1, <1>4, NotesAssumption
<1>6. TypeOK
  <2>1. changes \in 0 .. MaxChanges
    BY <1>1, NotesAssumption
  <2>2. QED BY <1>1, <1>2, <1>3, <1>5, <2>1 DEF TypeOK
<1>7. TableKnows
  BY <1>1, <1>4 DEF TableKnows
<1>8. FeedKnows /\ FilterHolds /\ PollingNeverStops
  BY <1>1, <1>2, <1>3 DEF FeedKnows, FilterHolds, PollingNeverStops, InAir
<1>9. PollInFlight /\ OlderInFlight
  BY <1>1, <1>3 DEF PollInFlight, OlderInFlight
<1>10. PagesAreWhole
  BY <1>1, <1>4 DEF PagesAreWhole, Matching
<1>11. QED BY <1>6, <1>7, <1>8, <1>9, <1>10 DEF NotesInv

LEMMA NotesInvStep == NotesInv /\ [Next]_vars => NotesInv'
<1> SUFFICES ASSUME NotesInv, [Next]_vars PROVE NotesInv'
  OBVIOUS
<1>1. CASE Create \/ Post
  BY <1>1, WriteKeeps
<1>2. CASE ListForPoll \/ ListOlder
  BY <1>2, ListForPollKeeps, ListOlderKeeps
<1>3. CASE OnPoll
  BY <1>3, OnPollKeeps
<1>4. CASE OnPollError \/ OnStalePoll \/ TimerFires \/ Show \/ OnAuthors
  BY <1>4, PollStepsKeep
<1>5. CASE Hide \/ OnAuth \/ OnPostError
  BY <1>5, PageQuietKeeps
<1>6. CASE ClickPill \/ LoadOlder \/ OnOlder \/ OnPost
  BY <1>6, ClickPillKeeps, LoadOlderKeeps, OnOlderKeeps, OnPostKeeps
<1>7. ASSUME NEW f \in Filters, OnSelection(f) \/ ChangeFilter(f) PROVE NotesInv'
  BY <1>7, OnSelectionKeeps, ChangeFilterKeeps
<1>8. ASSUME NEW i \in Ids, Commit(i) \/ Delete(i) PROVE NotesInv'
  BY <1>8, CommitDeleteKeep
<1>9. ASSUME NEW i \in Ids, ConfirmDelete(i) \/ OnDeleteError(i) PROVE NotesInv'
  BY <1>9, PageQuietKeeps
<1>10. ASSUME NEW i \in Ids, OnDelete(i) PROVE NotesInv'
  BY <1>10, OnDeleteKeeps
<1>11. CASE UNCHANGED vars
  BY <1>11 DEF vars, NotesInv, TypeOK, TableKnows, FeedKnows, PollInFlight, OlderInFlight,
               PollingNeverStops, FilterHolds, PagesAreWhole, Complete, Matching, Matches, InAir
<1>12. QED BY <1>1, <1>2, <1>3, <1>4, <1>5, <1>6, <1>7, <1>8, <1>9, <1>10, <1>11 DEF Next

LEMMA NotesInvAlways == Spec => []NotesInv
BY NotesInvInit, NotesInvStep, PTL DEF Spec

\* Every variable of the page and of the table keeps its type, for any number of
\* notes and any page size (page-notes.js, internal/notes/notes.go).
THEOREM NotesTypeCorrect == Spec => []TypeOK
<1>1. NotesInv => TypeOK
  BY DEF NotesInv
<1>2. QED BY <1>1, NotesInvAlways, PTL

\* An open, visible page always has a poll in the air or the timer of the next one,
\* whatever fails and however often the tab is hidden or the filter changed
\* (pollOnce's finally, visibilitychange, resetFeed).
THEOREM PollingGoesOn == Spec => []PollingNeverStops
<1>1. NotesInv => PollingNeverStops
  BY DEF NotesInv
<1>2. QED BY <1>1, NotesInvAlways, PTL

\* No answer asked for under an earlier filter reaches the feed (feedGen).
THEOREM FilterAlwaysHolds == Spec => []FilterHolds
<1>1. NotesInv => FilterHolds
  BY DEF NotesInv
<1>2. QED BY <1>1, NotesInvAlways, PTL

\* Between the cursor and where paging back began nothing is missing that was not
\* committed late, whatever polls remove and whoever writes meanwhile
\* ("Load older", the deletion window of pollOnce).
THEOREM PagingLeavesNoHole == Spec => []PagesAreWhole
<1>1. NotesInv => PagesAreWhole
  BY DEF NotesInv
<1>2. QED BY <1>1, NotesInvAlways, PTL
=============================================================================

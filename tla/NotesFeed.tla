----------------------------- MODULE NotesFeed -----------------------------
(***************************************************************************)
(* The notes page of frontend/js/page-notes.js in one tab, and List,       *)
(* Create and Delete of internal/notes/notes.go over the table of notes,   *)
(* which everybody else (the user's other devices too) writes as well.     *)
(*                                                                         *)
(* One step of the page is the code between two awaits; answers arrive in  *)
(* any order.  The identity column hands out ids when an INSERT starts;    *)
(* notes become visible in the order in which their INSERTs commit.  A     *)
(* request for notes is read by the server at one moment and its answer    *)
(* handled at another; of a post or a delete only the effect on the table  *)
(* and the handling of the answer are moments that matter.                 *)
(***************************************************************************)
EXTENDS Integers, FiniteSets, FiniteSetsExt

CONSTANTS
    Me,              \* the user of the tab
    AuthorOf,        \* who writes each note, as a sequence over the ids
    Existing,        \* how many notes there are when the page is opened
    PAGE,            \* notes of one answer (50)
    Filters,         \* bound: the author filters that are chosen
    MaxChanges       \* bound: changes of the author filter

Ids     == DOMAIN AuthorOf
Authors == {AuthorOf[i] : i \in Ids} \cup {Me}

ASSUME NotesAssumption ==
    /\ IsFiniteSet(Ids) /\ Ids = 1 .. Cardinality(Ids)
    /\ Existing \in 0 .. Cardinality(Ids)
    /\ PAGE \in Nat \ {0}
    /\ Filters \subseteq SUBSET Authors
    /\ MaxChanges \in Nat

VARIABLES
    notes,           \* committed and not deleted
    inserting,       \* INSERTs that have an id and have not committed
    next,            \* the identity column
    boot,            \* what boot is waiting for
    visible,
    feed,
    poll, older,     \* the requests for a page of notes
    post,            \* the note the composer is posting, or 0
    deleting,        \* notes the user has asked to delete
    changes,
    \* history: the saved filter has replaced that of a poll already begun; the first
    \* cursor; ids committed below it
    early, base, late

vars == <<notes, inserting, next, boot, visible, feed, poll, older, post, deleting, changes,
          early, base, late>>

table   == <<notes, inserting, next>>
history == <<early, base, late>>

-----------------------------------------------------------------------------
\* before: 0 for none; ids: the answer.  A stale request is one for a filter that
\* has changed since (gen # feedGen): nobody will look at its answer.
Request == [stage : {"none", "sent", "ok", "stale"}, filter : SUBSET Authors,
            before : {0} \cup Ids, ids : SUBSET Ids]
Idle  == [stage |-> "none", filter |-> {}, before |-> 0, ids |-> {}]
Stale == [Idle EXCEPT !.stage = "stale"]

Feed ==
    [filter : SUBSET Authors,          \* selectedAuthors
     shown  : SUBSET Ids,              \* noteMap
     queued : SUBSET Ids,              \* pendingNew
     oldest : {0} \cup Ids,            \* oldestLoadedId
     end    : BOOLEAN,                 \* reachedEnd
     more   : BOOLEAN,                 \* loadOlderBtn is there
     loaded : BOOLEAN,                 \* initialLoaded
     timer  : BOOLEAN]                 \* pollTimer # null

Empty(f) == [filter |-> f, shown |-> {}, queued |-> {}, oldest |-> 0, end |-> FALSE,
             more |-> FALSE, loaded |-> FALSE, timer |-> FALSE]

TypeOK ==
    /\ notes \subseteq Ids /\ inserting \subseteq Ids \ notes
    /\ next \in 1 .. Cardinality(Ids) + 1
    /\ boot \in {"auth", "selection", "authors", "done"}
    /\ visible \in BOOLEAN
    /\ feed \in Feed
    /\ poll \in Request /\ older \in Request
    /\ post \in {0} \cup Ids /\ deleting \subseteq Ids
    /\ changes \in 0 .. MaxChanges
    /\ early \in BOOLEAN /\ base \in {0} \cup Ids /\ late \subseteq Ids

Init ==
    /\ notes = 1 .. Existing /\ inserting = {} /\ next = Existing + 1
    /\ boot = "auth" /\ visible \in BOOLEAN
    /\ feed = Empty({})
    /\ poll = Idle /\ older = Idle /\ post = 0 /\ deleting = {}
    /\ changes = 0
    /\ early = FALSE /\ base = 0 /\ late = {}

-----------------------------------------------------------------------------
(* The table and the server.                                               *)

Matching(f) == {i \in notes : f = {} \/ AuthorOf[i] \in f}

Newest(S) == {i \in S : Cardinality({j \in S : j > i}) < PAGE}

\* ListNotes.
ListNotes(f, before) == Newest({i \in Matching(f) : before = 0 \/ i < before})

\* Somebody starts to create a note.
Create ==
    /\ next \in Ids
    /\ inserting' = inserting \cup {next} /\ next' = next + 1
    /\ UNCHANGED <<notes, boot, visible, feed, poll, older, post, deleting, changes, history>>

Commit(i) ==
    /\ i \in inserting
    /\ inserting' = inserting \ {i} /\ notes' = notes \cup {i}
    /\ late' = IF i < base THEN late \cup {i} ELSE late
    /\ UNCHANGED <<next, boot, visible, feed, poll, older, post, deleting, changes, early, base>>

\* DeleteNote, of this tab or elsewhere; its author deletes the note.
Delete(i) ==
    /\ i \in notes
    /\ notes' = notes \ {i}
    /\ UNCHANGED <<inserting, next, boot, visible, feed, poll, older, post, deleting, changes,
                   history>>

Answer(r) == [Idle EXCEPT !.stage = "ok", !.ids = ListNotes(r.filter, r.before)]

ListForPoll ==
    /\ poll.stage = "sent" /\ poll' = Answer(poll)
    /\ UNCHANGED <<table, boot, visible, feed, older, post, deleting, changes, history>>

ListOlder ==
    /\ older.stage = "sent" /\ older' = Answer(older)
    /\ UNCHANGED <<table, boot, visible, feed, poll, post, deleting, changes, history>>

-----------------------------------------------------------------------------
(* Polling.                                                                *)

\* pollOnce up to the await: at most one poll at a time.
PollOnce(fd) ==
    IF poll.stage # "none" THEN poll ELSE [Idle EXCEPT !.stage = "sent", !.filter = fd.filter]

Mine(i) == boot # "auth" /\ AuthorOf[i] = Me

\* Variant: whatever the answer does not have was deleted.
DeletedAll(S, ids) == S \ ids

\* What is in the window of the answer and not in the answer was deleted.
Deleted(S, ids) == {i \in S \ ids : ids = {} \/ i >= Min(ids)}

\* Variant: the cursor is past the oldest note.
CursorPast(ids) == Min(ids) + 1

Cursor(ids) == Min(ids)

\* pollOnce after the await; defer: the reader has scrolled down.
Reconciled(ids, defer) ==
    LET kept   == feed.shown \ Deleted(feed.shown, ids)
        waits  == feed.queued \ Deleted(feed.shown \cup feed.queued, ids)
        new    == ids \ (kept \cup waits)
        queue  == {i \in new : ~Mine(i) /\ defer /\ feed.loaded}
    IN  [feed EXCEPT !.shown = kept \cup (new \ queue), !.queued = waits \cup queue,
                     !.oldest = IF @ = 0 /\ ids # {} THEN Cursor(ids) ELSE @,
                     !.more = @ \/ (Cardinality(ids) >= PAGE /\ ~feed.end),
                     !.loaded = TRUE]

SetBase(fd) == base' = IF feed.oldest = 0 THEN fd.oldest ELSE base

\* scheduleNextPoll.
Scheduled(fd) == [fd EXCEPT !.timer = visible]

OnPoll ==
    /\ poll.stage = "ok"
    /\ \E defer \in BOOLEAN :
         /\ feed' = Scheduled(Reconciled(poll.ids, defer))
         /\ SetBase(feed')
    /\ poll' = Idle
    /\ UNCHANGED <<table, boot, visible, older, post, deleting, changes, early, late>>

\* Variant: after a failure nothing is scheduled.
OnPollErrorStopping ==
    /\ poll.stage = "sent"
    /\ poll' = Idle
    /\ UNCHANGED <<table, boot, visible, feed, older, post, deleting, changes, history>>

\* The request fails or its answer is lost.
OnPollError ==
    /\ poll.stage = "sent"
    /\ feed' = Scheduled(feed) /\ poll' = Idle
    /\ UNCHANGED <<table, boot, visible, older, post, deleting, changes, history>>

\* Variant: a stale answer just ends the cycle.
OnStalePollQuietly ==
    /\ poll.stage = "stale"
    /\ poll' = Idle
    /\ UNCHANGED <<table, boot, visible, feed, older, post, deleting, changes, history>>

\* Thrown away; the next poll starts in the same turn.
OnStalePoll ==
    /\ poll.stage = "stale"
    /\ poll' = [Idle EXCEPT !.stage = "sent", !.filter = feed.filter]
    /\ UNCHANGED <<table, boot, visible, feed, older, post, deleting, changes, history>>

TimerFires ==
    /\ feed.timer
    /\ feed' = [feed EXCEPT !.timer = FALSE] /\ poll' = PollOnce(feed)
    /\ UNCHANGED <<table, boot, visible, older, post, deleting, changes, history>>

\* visibilitychange; it is listened to from the beginning, before boot has ended.
Show ==
    /\ ~visible /\ visible' = TRUE
    /\ poll' = PollOnce(feed)
    /\ UNCHANGED <<table, boot, feed, older, post, deleting, changes, history>>

Hide ==
    /\ visible /\ visible' = FALSE
    /\ feed' = [feed EXCEPT !.timer = FALSE]
    /\ UNCHANGED <<table, boot, poll, older, post, deleting, changes, history>>

-----------------------------------------------------------------------------
(* boot and the author filter.                                             *)

OnAuth ==
    /\ boot = "auth" /\ boot' = "selection"
    /\ UNCHANGED <<table, visible, feed, poll, older, post, deleting, changes, history>>

InAir(r) == r.stage \in {"sent", "ok"}

\* The saved filter takes effect without a reset of the feed.
OnSelection(f) ==
    /\ boot = "selection" /\ boot' = "authors"
    /\ feed' = [feed EXCEPT !.filter = f]
    /\ early' = (f # feed.filter /\ (InAir(poll) \/ InAir(older) \/ feed.oldest # 0))
    /\ UNCHANGED <<table, visible, poll, older, post, deleting, changes, base, late>>

OnAuthors ==
    /\ boot = "authors" /\ boot' = "done"
    /\ poll' = PollOnce(feed)
    /\ UNCHANGED <<table, visible, feed, older, post, deleting, changes, history>>

\* Variant: requests in the air are not told that the filter has changed.
ChangeFilterKeepingGen(f) ==
    /\ f # feed.filter /\ changes < MaxChanges
    /\ feed' = Empty(f)
    /\ poll' = PollOnce(feed') /\ UNCHANGED older
    /\ changes' = changes + 1
    /\ early' = FALSE /\ base' = 0 /\ late' = {}
    /\ UNCHANGED <<table, boot, visible, post, deleting>>

\* applySelection and resetFeed.
ChangeFilter(f) ==
    /\ f # feed.filter /\ changes < MaxChanges
    /\ feed' = Empty(f)
    /\ poll' = IF poll.stage # "none" THEN Stale ELSE PollOnce(feed')
    /\ older' = IF older.stage # "none" THEN Stale ELSE Idle
    /\ changes' = changes + 1
    /\ early' = FALSE /\ base' = 0 /\ late' = {}
    /\ UNCHANGED <<table, boot, visible, post, deleting>>

-----------------------------------------------------------------------------
(* The rest of the page.                                                   *)

\* The pill.
ClickPill ==
    /\ feed.queued # {}
    /\ feed' = [feed EXCEPT !.shown = @ \cup feed.queued, !.queued = {}]
    /\ UNCHANGED <<table, boot, visible, poll, older, post, deleting, changes, history>>

LoadOlder ==
    /\ feed.more /\ older.stage = "none"
    /\ older' = [Idle EXCEPT !.stage = "sent", !.filter = feed.filter, !.before = feed.oldest]
    /\ UNCHANGED <<table, boot, visible, feed, poll, post, deleting, changes, history>>

OlderLoaded(ids) ==
    [feed EXCEPT !.shown = @ \cup ids, !.oldest = IF ids = {} THEN @ ELSE Cursor(ids),
                 !.end = @ \/ Cardinality(ids) < PAGE, !.more = @ /\ Cardinality(ids) >= PAGE]

\* An answer, one for an earlier filter, or a failure.
OnOlder ==
    /\ older.stage # "none" /\ older' = Idle
    /\ feed' = IF older.stage = "ok" THEN OlderLoaded(older.ids) ELSE feed
    /\ UNCHANGED <<table, boot, visible, poll, post, deleting, changes, history>>

\* The composer works from the beginning; one post at a time is a bound.
Post ==
    /\ post = 0
    /\ next \in Ids /\ AuthorOf[next] = Me
    /\ inserting' = inserting \cup {next} /\ next' = next + 1
    /\ post' = next
    /\ UNCHANGED <<notes, boot, visible, feed, poll, older, deleting, changes, history>>

OnPost ==
    /\ post # 0 /\ post \notin inserting /\ post' = 0
    /\ feed' = [feed EXCEPT !.shown = @ \cup {post},
                            !.oldest = IF @ = 0 THEN post ELSE @]
    /\ SetBase(feed')
    /\ UNCHANGED <<table, boot, visible, poll, older, deleting, changes, early, late>>

OnPostError ==
    /\ post # 0 /\ post' = 0
    /\ UNCHANGED <<table, boot, visible, feed, poll, older, deleting, changes, history>>

\* The dialog is confirmed.
ConfirmDelete(i) ==
    /\ i \in feed.shown \ deleting /\ Mine(i)
    /\ deleting' = deleting \cup {i}
    /\ UNCHANGED <<table, boot, visible, feed, poll, older, post, changes, history>>

\* The note is deleted, or was already (404).
OnDelete(i) ==
    /\ i \in deleting \ notes /\ deleting' = deleting \ {i}
    /\ feed' = [feed EXCEPT !.shown = @ \ {i}, !.queued = @ \ {i}]
    /\ UNCHANGED <<table, boot, visible, poll, older, post, changes, history>>

OnDeleteError(i) ==
    /\ i \in deleting /\ deleting' = deleting \ {i}
    /\ UNCHANGED <<table, boot, visible, feed, poll, older, post, changes, history>>

Next ==
    \/ Create \/ ListForPoll \/ ListOlder
    \/ OnPoll \/ OnPollError \/ OnStalePoll \/ TimerFires \/ Show \/ Hide
    \/ OnAuth \/ OnAuthors \/ ClickPill \/ LoadOlder \/ OnOlder
    \/ Post \/ OnPost \/ OnPostError
    \/ \E f \in Filters : OnSelection(f) \/ ChangeFilter(f)
    \/ \E i \in Ids : \/ Commit(i) \/ Delete(i)
                      \/ ConfirmDelete(i) \/ OnDelete(i) \/ OnDeleteError(i)

\* Timers fire, requests end and their answers are handled, and of the polls that
\* are repeated for ever one is answered at some time.
Fairness ==
    /\ WF_vars(TimerFires) /\ WF_vars(OnPoll) /\ WF_vars(OnStalePoll)
    /\ WF_vars(ListForPoll \/ OnPollError) /\ SF_vars(ListForPoll)

Spec == Init /\ [][Next]_vars /\ Fairness

-----------------------------------------------------------------------------
(* Properties.                                                             *)

\* A page that is open and visible never stops polling: one poll is in the air, or
\* the timer of the next one runs, through failures, stale answers, filter changes
\* and the tab being hidden and shown (pollOnce's finally, visibilitychange).
PollingNeverStops == boot = "done" /\ visible => poll.stage # "none" \/ feed.timer

\* The feed shows other people's notes of the chosen authors only, whatever was in
\* the air when the choice was made: feedGen throws it away, in pollOnce and in
\* "Load older".  The exception is a poll begun before boot had loaded the choice.
FilterHolds ==
    ~early => \A i \in feed.shown \cup feed.queued :
                feed.filter = {} \/ AuthorOf[i] \in feed.filter \cup {Me}

\* Paging back leaves no hole: between the cursor and where it started every note
\* there is can be seen, unless it was committed late, below the first cursor
\* ("Load older", the deletion window of pollOnce).
PagesAreWhole ==
    ~early => \A i \in Matching(feed.filter) \ late :
        feed.oldest <= i /\ i < base => i \in feed.shown \cup feed.queued

\* A page that stays visible converges: once everybody stops writing, it shows or
\* queues the newest notes there are and none of their range that was deleted,
\* in whatever order the answers came.
Converged ==
    LET window == ListNotes(feed.filter, 0) IN
    /\ window \subseteq feed.shown \cup feed.queued
    /\ Deleted(feed.shown \cup feed.queued, window) = {}

FeedConverges == <>[](visible /\ boot = "done") => <>[]Converged
=============================================================================

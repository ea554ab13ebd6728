------------------------------- MODULE Browser -------------------------------
(***************************************************************************)
(* The Discord browser reader (browser.py) on one channel: monitor polls   *)
(* the rendered page, its SnapshotTracker tells what is new from what is   *)
(* only context, and snapshot_matches looks at the page once more before   *)
(* an order is sent.  Whoever sits at the browser, and Discord's page      *)
(* itself, may do anything meanwhile: scroll, leave the channel, reload,   *)
(* lose the connection, sign out, close the tab.                           *)
(*                                                                         *)
(* Messages are numbered as they are posted.  All are of authors the       *)
(* channel allows; image addresses, which may change without a new         *)
(* revision, are left out, and so is the second channel: what it adds are  *)
(* more resets, when sign-in is pending in its tab.                        *)
(***************************************************************************)
EXTENDS Integers, FiniteSets, FiniteSetsExt

CONSTANTS
  Mounted,      \* rows the page shows at a time
  SeenLimit,    \* revisions the tracker keeps at most
  SeenKept,     \* and how many it keeps when they are more
  MaxPost,      \* bound: messages posted
  MaxTouch,     \* bound: edits and deletions
  MaxEpoch      \* bound: connections of the page

ASSUME BrowserAssumption ==
  /\ Mounted \in Nat \ {0} /\ SeenKept \in Nat \ {0} /\ SeenLimit \in Nat /\ SeenKept <= SeenLimit
  /\ MaxPost \in Nat \ {0} /\ MaxTouch \in Nat /\ MaxEpoch \in Nat \ {0}

Post == 1 .. MaxPost

\* What the page shows, from a page that is read as it should be to one that is gone: "blank"
\* looks like a channel without messages, "away" is offline, or asks for a sign-in.
Broken == {"away", "closed"}
View == Broken \union {"current", "history", "blank", "loading", "elsewhere"}

VARIABLES
  posted,       \* messages posted so far
  edited,       \* those of them that were edited
  removed,      \* and those that were deleted
  view,         \* what the tab shows
  epoch,        \* connection_epoch of the page
  tracker,      \* SnapshotTracker
  lastEpoch,    \* connection_epochs: the epoch of the last observation, 0 before the first
  unavailable,  \* the last poll could not read the end of the channel
  stalled,      \* more than half a minute since the last observation
  handing,      \* events of the last poll that on_message has yet to take
  copy,         \* what the relay was told of a message when it first was
  lost,         \* observed: the reader has lost the channel since it last read it
  doubtful      \* observed: messages that came, or stood, while the reader or the page was away

browserVars == <<posted, edited, removed, view, epoch, tracker, lastEpoch, unavailable, stalled,
                 handing, copy, lost, doubtful>>

pageVars == <<posted, edited, removed, view, epoch>>
readerVars == <<tracker, lastEpoch, unavailable, stalled, handing>>

Shown == (1 .. posted) \ removed
RevisionOf(m) == IF m \in edited THEN 2 ELSE 1
Untold ==
  {m \in 1 .. posted : copy[m].label = "none" /\ \A e \in handing : e.id # m}

\* A copy that cannot be verified, or need not any more.
Told(label) == [label |-> label, revision |-> 0, epoch |-> 0]

NewTracker == [needs |-> TRUE, started |-> FALSE, high |-> 0, cutoff |-> 0,
               seen |-> [m \in Post |-> 0]]

Newest(S, n) == {m \in S : Cardinality({k \in S : k > m}) < n}

-----------------------------------------------------------------------------
(* The channel and the page. *)

\* It is in doubt when nobody was reading, or the page was not connected.
PostMessage ==
  /\ posted < MaxPost
  /\ posted' = posted + 1
  /\ doubtful' = IF lost \/ view \in Broken THEN doubtful \union {posted + 1} ELSE doubtful
  /\ UNCHANGED <<edited, removed, view, epoch, readerVars, copy, lost>>

Touch(m) ==
  /\ m \in Shown /\ Cardinality(edited) + Cardinality(removed) < MaxTouch
  /\ \/ edited' = edited \union {m} /\ m \notin edited /\ UNCHANGED removed
     \/ removed' = removed \union {m} /\ UNCHANGED edited
  /\ UNCHANGED <<posted, view, epoch, readerVars, copy, lost, doubtful>>

\* Within one document: scrolled, another channel, rows not mounted yet, and back.
TurnPage(v) ==
  /\ view \notin Broken /\ v \notin Broken /\ v # view
  /\ view' = v
  /\ UNCHANGED <<posted, edited, removed, epoch, readerVars, copy, lost, doubtful>>

\* A new document, or an offline event: a new connection_epoch.
Reconnects(v) ==
  /\ view' = v
  /\ epoch' = epoch + 1
  /\ doubtful' = doubtful \union (1 .. posted)

Break(v) ==
  /\ view \notin Broken /\ v \in Broken \union {"loading"} /\ epoch < MaxEpoch
  /\ Reconnects(v)
  /\ UNCHANGED <<posted, edited, removed, readerVars, copy, lost>>

\* The connection is back, or the person has signed in.
Reappear ==
  /\ view = "away"
  /\ view' = "loading"
  /\ UNCHANGED <<posted, edited, removed, epoch, readerVars, copy, lost, doubtful>>

-----------------------------------------------------------------------------
(* SnapshotTracker. *)

\* reset
Afresh(t) == [t EXCEPT !.needs = TRUE, !.cutoff = 0]

Known(t) == {m \in Post : t.seen[m] # 0}

\* Nothing on the page is known: messages may be missing in between.
Gap(t, rows) == Known(t) # {} /\ Known(t) \intersect rows = {}

Contextual(t, rows, force, m) ==
  \/ t.needs \/ force \/ Gap(t, rows)
  \/ m <= t.cutoff
  \/ t.seen[m] # 0
  \/ m <= t.high

\* The events of observe: rows that are new or edited.
Events(t, rows, force) ==
  {[id |-> m, revision |-> RevisionOf(m), epoch |-> epoch,
    label |-> IF Contextual(t, rows, force, m) THEN "baseline" ELSE "live"] :
   m \in {m \in rows : t.seen[m] # RevisionOf(m)}}

\* The bounded cache.
KeptSeen(seen) ==
  LET known == {m \in Post : seen[m] # 0}
  IN IF Cardinality(known) <= SeenLimit THEN seen
     ELSE [m \in Post |-> IF m \in Newest(known, SeenKept) THEN seen[m] ELSE 0]

\* observe of a page without rows: when it is the first, all that comes from now on is live.
AfterNothing(t) ==
  [t EXCEPT !.needs = @ /\ t.started, !.started = TRUE, !.cutoff = posted]

AfterRows(t, rows) ==
  [needs |-> FALSE, started |-> TRUE, high |-> Max(rows \union {t.high}),
   cutoff |-> IF \E m \in rows : m > t.cutoff THEN 0 ELSE t.cutoff,
   seen |-> KeptSeen([m \in Post |-> IF m \in rows THEN RevisionOf(m) ELSE t.seen[m]])]

-----------------------------------------------------------------------------
(* monitor. *)

\* Mutant of StartsAfresh: a channel that was away is taken up where it was left.
StartsAfreshUnlessBack == stalled \/ lastEpoch \notin {0, epoch}

\* The observation has paused, the browser's connection has changed, or the channel was away.
StartsAfresh == stalled \/ lastEpoch \notin {0, epoch} \/ unavailable

Tracking == IF StartsAfresh THEN Afresh(tracker) ELSE tracker

\* The end of the channel is on the page, or the page looks empty.
PollReads ==
  /\ handing = {} /\ view \in {"current", "blank"}
  /\ LET rows == IF view = "blank" THEN {} ELSE Newest(Shown, Mounted)
     IN IF rows = {}
        THEN tracker' = AfterNothing(Tracking) /\ handing' = {}
        ELSE /\ tracker' = AfterRows(Tracking, rows)
             /\ handing' = Events(Tracking, rows, FALSE)
  /\ lastEpoch' = epoch /\ unavailable' = FALSE /\ stalled' = FALSE
  /\ lost' = FALSE
  /\ UNCHANGED <<pageVars, copy, doubtful>>

Loses == lost' = TRUE /\ doubtful' = doubtful \union Untold

\* Scrolled into history: older rows, context only until the end of the channel is back.
PollScrolled ==
  /\ handing = {} /\ view = "history"
  /\ \E top \in Shown :
       LET rows == Newest({m \in Shown : m <= top}, Mounted)
       IN /\ tracker' = AfterRows(Afresh(tracker), rows)
          /\ handing' = Events(Afresh(tracker), rows, TRUE)
  /\ lastEpoch' = epoch /\ unavailable' = TRUE /\ stalled' = FALSE
  /\ Loses
  /\ UNCHANGED <<pageVars, copy>>

\* Every other page, and a read that fails: sign-in is pending, the tab is closed and opened
\* again, the channel is left and, when it is time, entered again.
PollFails ==
  /\ handing = {}
  /\ tracker' = Afresh(tracker)
  /\ unavailable' = TRUE /\ lost' = TRUE
  /\ \/ /\ view' = IF view = "closed" THEN "elsewhere" ELSE view
        /\ doubtful' = doubtful \union Untold
        /\ UNCHANGED epoch
     \/ view \in {"elsewhere", "closed"} /\ epoch < MaxEpoch /\ Reconnects("loading")
  /\ UNCHANGED <<posted, edited, removed, lastEpoch, stalled, handing, copy>>

\* last_success is more than half a minute ago: the poll loop was held up.
Stall ==
  /\ ~stalled
  /\ stalled' = TRUE
  /\ Loses
  /\ UNCHANGED <<pageVars, tracker, lastEpoch, unavailable, handing, copy>>

\* on_message takes the events by their ids; the page may have changed since the poll.
Hand(e) ==
  /\ e \in handing /\ \A f \in handing : e.id <= f.id
  /\ copy' = IF copy[e.id].label # "none" THEN copy
             ELSE [copy EXCEPT ![e.id] = IF e.label = "live"
                                         THEN [label |-> "live", revision |-> e.revision,
                                               epoch |-> e.epoch]
                                         ELSE Told(e.label)]
  /\ handing' = handing \ {e}
  /\ UNCHANGED <<pageVars, tracker, lastEpoch, unavailable, stalled, lost, doubtful>>

\* on_message raises, or the relay stops: the next start opens the browser anew.
Restarts ==
  /\ epoch < MaxEpoch
  /\ Reconnects("loading")
  /\ tracker' = NewTracker /\ lastEpoch' = 0 /\ unavailable' = FALSE /\ stalled' = FALSE
  /\ handing' = {}
  /\ lost' = TRUE
  /\ UNCHANGED <<posted, edited, removed, copy>>

\* verify, and snapshot_matches of a live message: the same connection shows it as it was told,
\* and nothing newer.
Verify(m) ==
  /\ copy[m].label = "live"
  /\ view = "current" /\ copy[m].epoch = epoch
  /\ m \in Shown /\ RevisionOf(m) = copy[m].revision
  /\ \A k \in Shown : k <= m
  /\ copy' = [copy EXCEPT ![m] = Told("sent")]
  /\ UNCHANGED <<pageVars, readerVars, lost, doubtful>>

-----------------------------------------------------------------------------
BrowserInit ==
  /\ posted = 0 /\ edited = {} /\ removed = {}
  /\ view = "loading" /\ epoch = 1
  /\ tracker = NewTracker /\ lastEpoch = 0 /\ unavailable = FALSE /\ stalled = FALSE
  /\ handing = {}
  /\ copy = [m \in Post |-> Told("none")]
  /\ lost = TRUE /\ doubtful = {}

BrowserNext ==
  \/ PostMessage
  \/ \E m \in Post : Touch(m) \/ Verify(m)
  \/ \E v \in View : TurnPage(v) \/ Break(v)
  \/ Reappear
  \/ PollReads
  \/ PollScrolled
  \/ PollFails
  \/ Stall
  \/ \E e \in handing : Hand(e)
  \/ Restarts

BrowserSpec == BrowserInit /\ [][BrowserNext]_browserVars

-----------------------------------------------------------------------------
(* Properties. *)

BrowserTypeOK ==
  /\ posted \in 0 .. MaxPost /\ edited \subseteq Post /\ removed \subseteq Post
  /\ view \in View /\ epoch \in 1 .. MaxEpoch
  /\ tracker \in [needs: BOOLEAN, started: BOOLEAN, high: 0 .. MaxPost, cutoff: 0 .. MaxPost,
                  seen: [Post -> 0 .. 2]]
  /\ lastEpoch \in 0 .. MaxEpoch /\ unavailable \in BOOLEAN /\ stalled \in BOOLEAN
  /\ handing \subseteq [id: Post, revision: 1 .. 2, epoch: 1 .. MaxEpoch,
                       label: {"baseline", "live"}]
  /\ copy \in [Post -> [label: {"none", "baseline", "live", "sent"}, revision: 0 .. 2,
                        epoch: 0 .. MaxEpoch]]
  /\ lost \in BOOLEAN /\ doubtful \subseteq Post

\* browser.py:213 (context only after startup, gaps and outages) and browser.py:492: no poll
\* takes for live a message that came while the reader had lost the channel, and no order is
\* sent on a message that has seen the page's connection break.  The order of polls, outages,
\* scrolling and stalls is anything.
OnlyFollowedIsLive ==
  [][/\ handing = {} => \A e \in handing' : e.label = "live" => e.id \notin doubtful
     /\ \A m \in doubtful : copy'[m].label = "sent" => copy[m].label = "sent"]_browserVars
=============================================================================

------------------------------ MODULE Gateway ------------------------------
(***************************************************************************)
(* The Discord gateway reader (gateway.py) of one configured channel:      *)
(* what Discord shows, the reader's cache of it, the sessions that are     *)
(* torn down and built up again, and the queue of observations on their    *)
(* way to the engine.                                                      *)
(*                                                                         *)
(* A message is its number: snowflake ids grow with time.  Revision 1 is   *)
(* the text as posted, revision 2 the edited text; a record of revision 2  *)
(* is one with "edited_timestamp".  Other authors and channels, lookups,   *)
(* rate limits and the bounds of the cache are left out.                   *)
(***************************************************************************)
EXTENDS Integers, Sequences, FiniteSets, FiniteSetsExt

CONSTANTS
  MaxMessage,   \* bound: messages ever posted
  MaxSession,   \* bound: gateway sessions and restarts of the process
  Mutable       \* messages whose author may edit or delete them

ASSUME GatewayAssumption ==
  /\ MaxMessage \in Nat
  /\ MaxSession \in Nat
  /\ Mutable \subseteq 1 .. MaxMessage

VARIABLES
  source,     \* what Discord shows: message -> state
  link,       \* the websocket delivers events and acknowledges heartbeats
  sessions,   \* sessions and restarts of the process so far
  ready,      \* the channel's history has been read in this session
  page,       \* the page of history of this session
  cache,      \* GatewayReader.latest, invalidated and recovery_candidates
  inbox       \* observations queued for delivery to the engine

gatewayVars == <<source, link, sessions, ready, page, cache, inbox>>

Message  == 1 .. MaxMessage
Revision == {1, 2}

\* An observation.  "live" was received as it was posted, "baseline" is history or an edit.
Copy == [id: Message, rev: Revision, kind: {"live", "baseline"}]

\* A candidate is a record of the current session: it stands for the comparisons of
\* browser_connection_epoch, as a new session starts with none.
Cached == [rev: Revision \union {0}, kind: {"none", "live", "baseline"},
           valid: BOOLEAN, candidate: BOOLEAN]
NotCached == [rev |-> 0, kind |-> "none", valid |-> FALSE, candidate |-> FALSE]

\* The page as the server made it: 0 where it shows no message.
Page   == [state: {"none", "fetched", "loaded"}, rev: [Message -> Revision \union {0}]]
NoPage == [state |-> "none", rev |-> [m \in Message |-> 0]]

Posted == Max({m \in Message : source[m] # "none"} \union {0})

\* latest_by_group: the newest record that counts in this session.
Latest == Max({m \in Message : cache[m].candidate} \union {0})

-----------------------------------------------------------------------------
(* Events of the websocket. *)

\* GatewayReader.observe and _remember.
Observe(copy, valid) ==
  /\ cache' = [cache EXCEPT ![copy.id] =
                 [rev |-> copy.rev, kind |-> copy.kind,
                  valid |-> valid, candidate |-> valid /\ ready]]
  /\ inbox' = Append(inbox, copy)

\* A message is posted; without a ready channel it is only history.
Post ==
  /\ Posted < MaxMessage
  /\ source' = [source EXCEPT ![Posted + 1] = "original"]
  /\ \/ /\ link
        /\ Observe([id |-> Posted + 1, rev |-> 1,
                    kind |-> IF ready THEN "live" ELSE "baseline"], TRUE)
     \/ ~link /\ UNCHANGED <<cache, inbox>>
  /\ UNCHANGED <<link, sessions, ready, page>>

\* A message is edited.  The reader hears of it if it knows the message, and
\* invalidates what it held.
Edit(m) ==
  /\ m \in Mutable /\ source[m] = "original"
  /\ source' = [source EXCEPT ![m] = "edited"]
  /\ \/ link /\ cache[m].rev # 0 /\ Observe([id |-> m, rev |-> 2, kind |-> "baseline"], FALSE)
     \/ (~link \/ cache[m].rev = 0) /\ UNCHANGED <<cache, inbox>>
  /\ UNCHANGED <<link, sessions, ready, page>>

\* A message is deleted.  The reader forgets it; the engine is not told.
Delete(m) ==
  /\ m \in Mutable /\ source[m] \in {"original", "edited"}
  /\ source' = [source EXCEPT ![m] = "deleted"]
  /\ cache' = IF link THEN [cache EXCEPT ![m] = NotCached] ELSE cache
  /\ UNCHANGED <<link, sessions, ready, page, inbox>>

-----------------------------------------------------------------------------
(* Sessions. *)

\* No record counts any more, and a page on its way is discarded.
EndSession ==
  /\ ready' = FALSE
  /\ page' = NoPage
  /\ cache' = [m \in Message |-> [cache[m] EXCEPT !.candidate = FALSE]]

Disconnect ==
  /\ link
  /\ link' = FALSE
  /\ EndSession
  /\ UNCHANGED <<source, sessions, inbox>>

Connect ==
  /\ ~link /\ sessions < MaxSession
  /\ link' = TRUE
  /\ sessions' = sessions + 1
  /\ EndSession
  /\ UNCHANGED <<source, inbox>>

\* The server answers the request for history; the answer is still under way.
FetchHistory ==
  /\ link /\ page.state = "none"
  /\ page' = [state |-> "fetched",
              rev |-> [m \in Message |-> CASE source[m] = "original" -> 1
                                           [] source[m] = "edited" -> 2
                                           [] OTHER -> 0]]
  /\ UNCHANGED <<source, link, sessions, ready, cache, inbox>>

\* The observations of the page, oldest first.
History ==
  LET upTo[m \in 0 .. MaxMessage] ==
        IF m = 0 THEN <<>>
        ELSE IF page.rev[m] = 0 THEN upTo[m - 1]
        ELSE Append(upTo[m - 1], [id |-> m, rev |-> page.rev[m], kind |-> "baseline"])
  IN  upTo[MaxMessage]

\* _bootstrap_channel: the page is observed in order, whatever came in between.
LoadHistory ==
  /\ page.state = "fetched"
  /\ page' = [page EXCEPT !.state = "loaded"]
  /\ cache' = [m \in Message |->
                 IF page.rev[m] = 0 THEN cache[m]
                 ELSE [rev |-> page.rev[m], kind |-> "baseline",
                       valid |-> TRUE, candidate |-> FALSE]]
  /\ inbox' = inbox \o History
  /\ UNCHANGED <<source, link, sessions, ready>>

\* The page has been delivered: its records count from now on.
BecomeReady ==
  /\ page.state = "loaded" /\ ~ready
  /\ inbox = <<>>
  /\ ready' = TRUE
  /\ cache' = [m \in Message |->
                 [cache[m] EXCEPT !.candidate = page.rev[m] # 0 /\ cache[m].valid]]
  /\ UNCHANGED <<source, link, sessions, page, inbox>>

GatewayInit ==
  /\ source = [m \in Message |-> "none"]
  /\ link = FALSE
  /\ sessions = 0
  /\ ready = FALSE
  /\ page = NoPage
  /\ cache = [m \in Message |-> NotCached]
  /\ inbox = <<>>

\* The process ends: the reader starts again with nothing.
GatewayRestart ==
  /\ sessions < MaxSession
  /\ sessions' = sessions + 1
  /\ link' = FALSE
  /\ ready' = FALSE
  /\ page' = NoPage
  /\ cache' = [m \in Message |-> NotCached]
  /\ inbox' = <<>>
  /\ UNCHANGED source

GatewayNext ==
  \/ Post
  \/ \E m \in Message : Edit(m) \/ Delete(m)
  \/ Disconnect
  \/ Connect
  \/ FetchHistory
  \/ LoadHistory
  \/ BecomeReady

-----------------------------------------------------------------------------
(* GatewayReader.verify: may an order be sent on the text of message m?  A   *)
(* candidate exists only in a connected session with a ready channel.        *)

Shows(m, kind) == /\ cache[m].candidate
                  /\ cache[m].rev = 1
                  /\ cache[m].kind = kind

\* A live message: nothing newer is known.
Verify(m) == Shows(m, "live") /\ Latest <= m

\* A missed message, stored as "kind": nothing is known beyond the watermark.
VerifyMissed(m, kind, watermark) ==
  /\ Shows(m, kind)
  /\ m <= watermark
  /\ Latest <= watermark
=============================================================================

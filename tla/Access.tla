------------------------------- MODULE Access -------------------------------
(***************************************************************************)
(* How the gateway reader (gateway.py) proves that it may read the         *)
(* configured channels: lookups and a bounded history read in passes under *)
(* session_lock, failures that end a channel's part until Discord tells of *)
(* a change, and the Retry-After of Discord, which holds for all of them.  *)
(*                                                                         *)
(* What a history contains and who may act on it is module Gateway.  An    *)
(* answer is made by Discord before it is received, and events overtake    *)
(* it.  Heartbeats are acknowledged while the websocket is up.             *)
(*                                                                         *)
(* Who waits for session_lock goes on waiting when the connection is lost: *)
(* a session or a recheck then begins without one, reads histories by HTTP *)
(* and makes channels ready.  report_health takes the lock when it finds   *)
(* it free: that it waits, when the lock is just being handed on to one    *)
(* who waits, is left out.                                                 *)
(***************************************************************************)
EXTENDS Integers, FiniteSets

CONSTANTS
  Channel,       \* the configured channels
  FetchLimit,    \* _CHANNEL_FETCH_ATTEMPTS
  MaxPenalty,    \* bound: ticks of a Retry-After
  MaxChange      \* bound: connections, and changes Discord tells of

ASSUME AccessAssumption ==
  /\ IsFiniteSet(Channel) /\ Channel # {}    \* two, or it reads none (gateway.py:1564)
  /\ FetchLimit \in Nat \ {0} /\ MaxPenalty \in Nat \ {0} /\ MaxChange \in Nat

VARIABLES
  right,        \* Discord: what the account may do with each channel
  changes,      \* changes so far
  link,         \* the websocket: "new", "up" or "down"
  missed,       \* channels deleted while it was not up, which the reader has not been told
  halted,       \* auth_rejected, or the fatal future is set
  known,        \* channels in the client's cache
  fetched,      \* fetched_channels
  starting,     \* calls of on_ready and on_resumed that wait for session_lock
  usable,       \* channel_ready of this session
  failure,      \* channel_failures
  lookups,      \* channel_lookup_attempts
  pacing,       \* channel_retry_at lies ahead
  penalty,      \* provider_retry_at, in ticks from now
  imposed,      \* what is left of the longest Retry-After the reader has been told
  pass,         \* start_session under session_lock
  call,         \* its request to Discord
  recheck,      \* channels _retry_denied_channels waits for the lock to verify
  owed          \* channels whose access has changed after a denial and was not tried since

accessVars == <<right, changes, link, missed, halted, known, fetched, starting, usable, failure,
                lookups, pacing, penalty, imposed, pass, call, recheck, owed>>

Terminal == {"denied", "missing"}
Failure == Terminal \union {"none", "limited", "lookup"}

\* "todo" has the channels not resolved yet, "read" those whose history is to be read.
\* A pass is "stale" once its generation is over.
NoPass == [kind |-> "none", todo |-> {}, read |-> {}, stale |-> FALSE]
PassKind == {"session", "health", "recheck"}
NoRequest == [for |-> "none", of |-> CHOOSE c \in Channel : TRUE, again |-> FALSE, reply |-> "none",
              wait |-> 0, outdated |-> FALSE]
Reply == {"none", "open", "denied", "missing", "limited", "unauthorized", "broken"}

Online == link = "up"
Unusable == Channel \ usable
Larger(a, b) == IF a > b THEN a ELSE b

-----------------------------------------------------------------------------
(* Events. *)

\* Mutant of PenaltyKept: it is forgotten with the session's own pacing.
PenaltyForgotten == 0

\* Discord's deadline outlives the session.
PenaltyKept == penalty

\* on_disconnect: the generation is over.  Who waits for session_lock is not cancelled.
LoseConnection ==
  /\ Online /\ halted = "no"
  /\ link' = "down" /\ missed' = {} /\ fetched' = {}
  /\ usable' = {} /\ failure' = [c \in Channel |-> "none"]
  /\ lookups' = [c \in Channel |-> 0] /\ pacing' = FALSE
  /\ penalty' = PenaltyKept
  /\ pass' = [pass EXCEPT !.stale = pass # NoPass]
  /\ owed' = {}
  /\ UNCHANGED <<right, changes, halted, known, starting, imposed, call, recheck>>

\* on_ready: the library has connected anew and filled its cache.
MakeConnection ==
  /\ ~Online /\ halted = "no" /\ changes < MaxChange
  /\ link' = "up" /\ changes' = changes + 1 /\ starting' = starting + 1
  /\ known' \in SUBSET {c \in Channel : right[c] = "open"}
  /\ UNCHANGED <<right, missed, halted, fetched, usable, failure, lookups, pacing, penalty,
                 imposed, pass, call, recheck, owed>>

\* Mutant of Outdated: the revision does not count.
OutdatedNever(c) == call.outdated

\* _clear_channel_readiness: a history under way is of an earlier revision of the channel.
Outdated(c) == call.outdated \/ (call.for = "history" /\ call.of = c)

\* on_resumed: Discord has repeated what was missed.  The deletions count, and the creations after
\* them; what else it repeats is undone by the session that follows.
ResumeConnection ==
  /\ link = "down" /\ halted = "no" /\ changes < MaxChange
  /\ link' = "up" /\ changes' = changes + 1 /\ starting' = starting + 1
  /\ LET again == {c \in missed : right[c] # "missing"} IN
     /\ known' = (known \ missed) \union again
     /\ failure' = [c \in Channel |-> IF c \in again THEN "none"
                                     ELSE IF c \in missed THEN "missing" ELSE failure[c]]
     /\ pacing' = (pacing /\ again = {})
  /\ usable' = usable \ missed /\ fetched' = fetched \ missed /\ missed' = {}
  /\ call' = [call EXCEPT !.outdated = @ \/ \E c \in missed : Outdated(c)]
  /\ UNCHANGED <<right, halted, lookups, penalty, imposed, pass, recheck, owed>>

\* Mutant of Forgiven: the denial stays on record.
ForgivenInName(c) ==
  /\ lookups' = [lookups EXCEPT ![c] = 0]
  /\ pacing' = FALSE
  /\ recheck' \in {recheck, recheck \union {c}}
  /\ UNCHANGED failure

\* _retry_denied_channels, for the channels that have been found denied.  Without a recent
\* heartbeat the next pass has to do.
Forgiven(c) ==
  /\ failure' = [failure EXCEPT ![c] = "none"]
  /\ lookups' = [lookups EXCEPT ![c] = 0]
  /\ pacing' = FALSE
  /\ recheck' \in {recheck, recheck \union {c}}

\* on_guild_channel_update, on_member_update, on_guild_role_update: rights are given or taken.
ChangeRight(c) ==
  /\ right[c] # "missing" /\ changes < MaxChange /\ halted = "no"
  /\ right' = [right EXCEPT ![c] = IF @ = "open" THEN "denied" ELSE "open"]
  /\ changes' = changes + 1
  /\ IF Online /\ failure[c] = "denied" /\ c \notin usable
     THEN Forgiven(c) /\ owed' = owed \union {c}
     ELSE UNCHANGED <<failure, lookups, pacing, recheck, owed>>
  /\ UNCHANGED <<link, missed, halted, known, fetched, starting, usable, penalty, imposed, pass,
                 call>>

\* on_guild_channel_delete, on_guild_channel_create.
RemoveChannel(c) ==
  /\ right[c] # "missing" /\ changes < MaxChange /\ halted = "no"
  /\ right' = [right EXCEPT ![c] = "missing"] /\ changes' = changes + 1
  /\ IF Online
     THEN /\ usable' = usable \ {c} /\ known' = known \ {c} /\ fetched' = fetched \ {c}
          /\ failure' = [failure EXCEPT ![c] = "missing"]
          /\ call' = [call EXCEPT !.outdated = Outdated(c)]
          /\ missed' = missed \ {c}
     ELSE missed' = missed \union {c} /\ UNCHANGED <<usable, known, fetched, failure, call>>
  /\ owed' = owed \ {c}
  /\ UNCHANGED <<link, halted, starting, lookups, pacing, penalty, imposed, pass, recheck>>

CreateChannel(c) ==
  /\ right[c] = "missing" /\ changes < MaxChange /\ halted = "no"
  /\ right' = [right EXCEPT ![c] = "open"] /\ changes' = changes + 1
  /\ IF Online
     THEN /\ known' = known \union {c}
          /\ failure' = [failure EXCEPT ![c] = IF @ = "missing" THEN "none" ELSE @]
          /\ pacing' = (pacing /\ failure[c] # "missing")
     ELSE UNCHANGED <<known, failure, pacing>>
  /\ UNCHANGED <<link, missed, halted, fetched, starting, usable, lookups, penalty, imposed, pass,
                 call, recheck, owed>>

-----------------------------------------------------------------------------
(* Passes. *)

Free == pass = NoPass
InPass(c, channels) == c \in channels /\ call = NoRequest /\ ~pass.stale
Begun(kind, channels) ==
  pass' = IF channels = {} THEN NoPass
          ELSE [kind |-> kind, todo |-> channels, read |-> {}, stale |-> FALSE]

BeginSession ==
  /\ starting > 0 /\ halted = "no" /\ Free
  /\ starting' = starting - 1
  /\ usable' = {} /\ fetched' = {} /\ failure' = [c \in Channel |-> "none"]
  /\ lookups' = [c \in Channel |-> 0] /\ owed' = {}
  /\ missed' = IF Online THEN {} ELSE missed
  /\ Begun("session", IF penalty = 0 THEN Channel ELSE {})
  /\ UNCHANGED <<right, changes, link, halted, known, pacing, penalty, imposed, call, recheck>>

\* report_health finds a channel that is not ready, neither deadline ahead, and the lock free.
BeginRecovery ==
  /\ Online /\ starting = 0 /\ recheck = {} /\ halted = "no" /\ Free /\ Unusable # {}
  /\ ~pacing /\ penalty = 0
  /\ Begun("health", Unusable)
  /\ UNCHANGED <<right, changes, link, missed, halted, known, fetched, starting, usable, failure,
                 lookups, pacing, penalty, imposed, call, recheck, owed>>

\* A recheck has the lock; nothing is asked before Discord's deadline.
BeginRecheck ==
  /\ halted = "no" /\ Free
  /\ \E channels \in SUBSET recheck :
       /\ channels # {}
       /\ recheck' = recheck \ channels
       /\ Begun("recheck", IF penalty = 0 THEN channels \ usable ELSE {})
  /\ UNCHANGED <<right, changes, link, missed, halted, known, fetched, starting, usable, failure,
                 lookups, pacing, penalty, imposed, call, owed>>

\* _find_channel.
Cached(c) == c \in known \union fetched

\* _resolve_channels, a channel that the cache knows: only its history proves access.
ResolveFromCache(c) ==
  /\ InPass(c, pass.todo) /\ Cached(c) /\ failure[c] \notin Terminal
  /\ failure' = [failure EXCEPT ![c] = "none"] /\ pacing' = TRUE
  /\ pass' = [pass EXCEPT !.todo = @ \ {c}, !.read = @ \union {c}]
  /\ UNCHANGED <<right, changes, link, missed, halted, known, fetched, starting, usable, lookups,
                 penalty, imposed, call, recheck, owed>>

\* One that is denied, missing, or was looked up often enough stays as it is.
LeaveUnresolved(c) ==
  /\ InPass(c, pass.todo)
  /\ failure[c] \in Terminal \/ (~Cached(c) /\ lookups[c] = FetchLimit)
  /\ failure' = [failure EXCEPT ![c] = IF @ \in Terminal THEN @ ELSE "lookup"] /\ pacing' = TRUE
  /\ pass' = [pass EXCEPT !.todo = @ \ {c}]
  /\ UNCHANGED <<right, changes, link, missed, halted, known, fetched, starting, usable, lookups,
                 penalty, imposed, call, recheck, owed>>

AskLookup(c) ==
  /\ InPass(c, pass.todo) /\ penalty = 0
  /\ ~Cached(c) /\ failure[c] \notin Terminal /\ lookups[c] < FetchLimit
  /\ lookups' = [lookups EXCEPT ![c] = @ + 1] /\ pacing' = TRUE
  /\ call' = [NoRequest EXCEPT !.for = "lookup", !.of = c] /\ owed' = owed \ {c}
  /\ UNCHANGED <<right, changes, link, missed, halted, known, fetched, starting, usable, failure,
                 penalty, imposed, pass, recheck>>

\* _bootstrap_channel.
AskHistory(c) ==
  /\ InPass(c, pass.read) /\ penalty = 0
  /\ call' = [NoRequest EXCEPT !.for = "history", !.of = c] /\ owed' = owed \ {c}
  /\ UNCHANGED <<right, changes, link, missed, halted, known, fetched, starting, usable, failure,
                 lookups, pacing, penalty, imposed, pass, recheck>>

\* Discord's deadline lies ahead: no lookup is made, no history read.
GiveWay ==
  /\ ~Free /\ ~pass.stale /\ call = NoRequest /\ penalty > 0
  /\ failure' = [c \in Channel |-> IF c \in pass.read THEN "limited" ELSE failure[c]]
  /\ pass' = NoPass
  /\ UNCHANGED <<right, changes, link, missed, halted, known, fetched, starting, usable, lookups,
                 pacing, penalty, imposed, call, recheck, owed>>

\* Discord answers, by the rights of the moment.
DiscordAnswers ==
  /\ call.for # "none" /\ call.reply = "none" /\ (call.again => penalty = 0)
  /\ \/ \E reply \in {right[call.of], "unauthorized", "broken"} :
          call' = [call EXCEPT !.reply = reply]
     \/ \E n \in 1 .. MaxPenalty : call' = [call EXCEPT !.reply = "limited", !.wait = n]
  /\ UNCHANGED <<right, changes, link, missed, halted, known, fetched, starting, usable, failure,
                 lookups, pacing, penalty, imposed, pass, recheck, owed>>

\* max(provider_retry_at, ...), and what the reader has been told.
Penalized ==
  /\ penalty' = Larger(penalty, call.wait)
  /\ imposed' = Larger(imposed, call.wait)

\* A lookup: 403 and 404 are final, 429 ends the pass for who has nothing on record yet.
LookupEnds ==
  /\ call.for = "lookup" /\ call.reply \notin {"none", "unauthorized"} /\ ~pass.stale
  /\ LET c == call.of IN
     /\ call' = NoRequest
     /\ CASE call.reply = "open" ->
               /\ fetched' = fetched \union {c} /\ failure' = [failure EXCEPT ![c] = "none"]
               /\ pass' = [pass EXCEPT !.todo = @ \ {c}, !.read = @ \union {c}]
               /\ UNCHANGED <<penalty, imposed>>
          [] call.reply = "limited" ->
               /\ Penalized
               /\ failure' = [d \in Channel |->
                                IF d = c \/ (d \in Unusable \ pass.read /\ failure[d] = "none")
                                THEN "limited" ELSE failure[d]]
               /\ pass' = [pass EXCEPT !.todo = {}]
               /\ UNCHANGED fetched
          [] OTHER ->
               /\ failure' = [failure EXCEPT ![c] = IF call.reply = "broken" THEN "lookup" ELSE call.reply]
               /\ pass' = [pass EXCEPT !.todo = @ \ {c}]
               /\ UNCHANGED <<fetched, penalty, imposed>>
  /\ UNCHANGED <<right, changes, link, missed, halted, known, starting, usable, lookups, pacing,
                 recheck, owed>>

\* The generation is over: the answer to a lookup is dropped unread, its Retry-After included.
LookupIsStale ==
  /\ call.for = "lookup" /\ call.reply # "none" /\ pass.stale
  /\ call' = NoRequest
  /\ UNCHANGED <<right, changes, link, missed, halted, known, fetched, starting, usable, failure,
                 lookups, pacing, penalty, imposed, pass, recheck, owed>>

\* A history: the first 429 is waited out on the spot; a second, or another failure, is fatal.
\* A channel that was deleted meanwhile has a new revision and is not ready by it.
HistoryEnds ==
  /\ call.for = "history" /\ call.reply \notin {"none", "unauthorized"}
  /\ LET c == call.of
         done == pass' = [pass EXCEPT !.read = @ \ {c}] /\ call' = NoRequest IN
     CASE call.reply = "open" ->
            /\ IF pass.stale \/ call.outdated THEN UNCHANGED <<usable, failure>>
               ELSE usable' = usable \union {c} /\ failure' = [failure EXCEPT ![c] = "none"]
            /\ done /\ UNCHANGED <<halted, penalty, imposed>>
       [] call.reply \in Terminal ->
            /\ failure' = [failure EXCEPT ![c] = call.reply]
            /\ done /\ UNCHANGED <<usable, halted, penalty, imposed>>
       [] call.reply = "limited" /\ ~call.again ->
            /\ Penalized
            /\ call' = [call EXCEPT !.again = TRUE, !.reply = "none", !.wait = 0]
            /\ UNCHANGED <<usable, failure, pass, halted>>
       [] OTHER ->
            /\ halted' = "fatal" /\ pass' = NoPass /\ call' = NoRequest
            /\ UNCHANGED <<usable, failure, penalty, imposed>>
  /\ UNCHANGED <<right, changes, link, missed, known, fetched, starting, lookups, pacing, recheck,
                 owed>>

\* 401: the reader waits for a new sign-in.  A recheck runs in an event handler of the library,
\* whose errors stop the reader.
SessionRejected ==
  /\ call.reply = "unauthorized" /\ (call.for = "lookup" => ~pass.stale)
  /\ halted' = IF pass.kind = "recheck" THEN "fatal" ELSE "login"
  /\ pass' = NoPass /\ call' = NoRequest
  /\ UNCHANGED <<right, changes, link, missed, known, fetched, starting, usable, failure, lookups,
                 pacing, penalty, imposed, recheck, owed>>

EndPass ==
  /\ ~Free /\ (pass.stale \/ (pass.todo = {} /\ pass.read = {})) /\ call = NoRequest
  /\ pass' = NoPass
  /\ UNCHANGED <<right, changes, link, missed, halted, known, fetched, starting, usable, failure,
                 lookups, pacing, penalty, imposed, call, recheck, owed>>

\* The pacing of 30 s is over.
PacingEnds ==
  /\ pacing /\ pacing' = FALSE
  /\ UNCHANGED <<right, changes, link, missed, halted, known, fetched, starting, usable, failure,
                 lookups, penalty, imposed, pass, call, recheck, owed>>

PenaltyTick ==
  /\ imposed > 0
  /\ imposed' = imposed - 1
  /\ penalty' = IF penalty = 0 THEN 0 ELSE penalty - 1
  /\ UNCHANGED <<right, changes, link, missed, halted, known, fetched, starting, usable, failure,
                 lookups, pacing, pass, call, recheck, owed>>

-----------------------------------------------------------------------------
AccessInit ==
  /\ right \in [Channel -> {"open", "denied"}]
  /\ changes = 0 /\ link = "new" /\ missed = {} /\ halted = "no"
  /\ known = {} /\ fetched = {} /\ starting = 0 /\ usable = {}
  /\ failure = [c \in Channel |-> "none"] /\ lookups = [c \in Channel |-> 0]
  /\ pacing = FALSE /\ penalty = 0 /\ imposed = 0
  /\ pass = NoPass /\ call = NoRequest /\ recheck = {} /\ owed = {}

AccessNext ==
  \/ LoseConnection
  \/ MakeConnection
  \/ ResumeConnection
  \/ \E c \in Channel :
       \/ ChangeRight(c)
       \/ RemoveChannel(c)
       \/ CreateChannel(c)
       \/ ResolveFromCache(c)
       \/ LeaveUnresolved(c)
       \/ AskLookup(c)
       \/ AskHistory(c)
  \/ BeginSession
  \/ BeginRecovery
  \/ BeginRecheck
  \/ GiveWay
  \/ DiscordAnswers
  \/ LookupEnds
  \/ LookupIsStale
  \/ HistoryEnds
  \/ SessionRejected
  \/ EndPass
  \/ PacingEnds
  \/ PenaltyTick

\* The reader's tasks go on, time passes and requests have deadlines.
AccessFairness ==
  /\ WF_accessVars(BeginSession) /\ WF_accessVars(BeginRecovery)
  /\ WF_accessVars(BeginRecheck)
  /\ WF_accessVars(EndPass) /\ WF_accessVars(GiveWay)
  /\ WF_accessVars(DiscordAnswers)
  /\ WF_accessVars(LookupEnds \/ LookupIsStale \/ HistoryEnds \/ SessionRejected)
  /\ WF_accessVars(PacingEnds) /\ WF_accessVars(PenaltyTick)
  /\ \A c \in Channel :
       WF_accessVars(ResolveFromCache(c) \/ LeaveUnresolved(c) \/ AskLookup(c) \/ AskHistory(c))

AccessSpec == AccessInit /\ [][AccessNext]_accessVars /\ AccessFairness

-----------------------------------------------------------------------------
(* Properties. *)

AccessTypeOK ==
  /\ right \in [Channel -> {"open", "denied", "missing"}]
  /\ changes \in 0 .. MaxChange /\ link \in {"new", "up", "down"} /\ missed \subseteq Channel
  /\ halted \in {"no", "login", "fatal"}
  /\ known \subseteq Channel /\ fetched \subseteq Channel /\ usable \subseteq Channel
  /\ starting \in 0 .. changes /\ pacing \in BOOLEAN
  /\ failure \in [Channel -> Failure] /\ lookups \in [Channel -> 0 .. FetchLimit]
  /\ penalty \in 0 .. MaxPenalty /\ imposed \in 0 .. MaxPenalty
  /\ pass \in [kind: PassKind \union {"none"}, todo: SUBSET Channel, read: SUBSET Channel,
               stale: BOOLEAN]
  /\ call \in [for: {"none", "lookup", "history"}, of: Channel, again: BOOLEAN, reply: Reply,
               wait: 0 .. MaxPenalty, outdated: BOOLEAN]
  /\ recheck \subseteq Channel /\ owed \subseteq Channel

\* gateway.py:392, container.md:59: neither a change of access nor a reconnect makes the reader
\* ask before the time Discord has told it.
RetryAfterIsKept ==
  [][call = NoRequest /\ call' # NoRequest => imposed = 0]_accessVars

\* gateway.py:1208: no history that was asked for before a channel was deleted makes it ready,
\* whenever it arrives and whatever pass reads it.  A channel that is ready and deleted was deleted
\* while the connection was down: neither has Discord told of it, nor has a session begun since.
ReadyIsNotGone == \A c \in usable : right[c] = "missing" => c \in missed

\* gateway.py:712: a channel that was denied is tried again after its access changes, whatever
\* pass, penalty or other channel is in the way.
ChangeIsTried == \A c \in Channel : (c \in owed /\ halted = "no") ~> (c \notin owed \/ halted # "no")
=============================================================================

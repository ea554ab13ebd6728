-------------------------------- MODULE Watch --------------------------------
(***************************************************************************)
(* WatchEntries (watch.py) and the cache of prepared contracts it keeps    *)
(* warm in the broker (broker.py): an alert that puts an option on watch   *)
(* is resolved to a contract, again and again; an entry that comes later   *)
(* takes the contract from it and is checked against it once more before   *)
(* it is sent.  The polling of its quote is in Rotation.                   *)
(*                                                                         *)
(* Options are model values; a contract is an option and its expiry, the   *)
(* day of the alert or the nearest later one.  Alerts are numbered.        *)
(***************************************************************************)
EXTENDS Integers, Sequences, FiniteSets, SequencesExt

CONSTANTS
  WatchOption,    \* options that alerts name
  WatchLimit,     \* watches kept, 8 in the code
  Asks,           \* expiries that alerts and entries ask for
  MaxWatch        \* bound: alerts that put an option on watch

ASSUME WatchAssumption ==
  /\ WatchLimit \in Nat \ {0}
  /\ Asks \subseteq {"nearest", "today", "later"}
  /\ MaxWatch \in Nat

VARIABLES
  watch,   \* entries by alert, those that are gone included
  kept,    \* the alerts in entries, oldest first
  listed,  \* options whose contract of the day is listed
  warm,    \* _prepared_entries: contracts whose metadata are fresh
  buying   \* the entry under Engine.lock

watchVars == <<watch, kept, listed, warm, buying>>

Nearest == "nearest"
Today == "today"
Later == "later"
Unresolved == "none"

NotBuying == [step |-> "free", option |-> Unresolved, asked |-> Unresolved, upTo |-> 0,
              expiry |-> Unresolved, source |-> 0]

Alerts == 1 .. Len(watch)
Kept == ToSet(kept)
Busy(w) == watch[w].prep # "idle"

\* Entries whose alert stands, within the hour and the day (_current).
Current(w) == watch[w].current

\* The expiry watch w would give to an entry that asks for one, or none (match, one turn).
Offers(w, job) ==
  LET have == watch[w].contract IN
  /\ watch[w].option = job.option /\ w <= job.upTo
  /\ Current(w)
  /\ have # Unresolved
  /\ IF job.asked = Nearest THEN watch[w].asked = Nearest ELSE have = job.asked
  /\ ~(Busy(w) /\ watch[w].asked = Nearest /\ have # Today)

\* The newest watch that fits, 0 when none does (match).
Match(job) ==
  LET fits == {w \in Kept : Offers(w, job)} IN
  IF fits = {} THEN 0 ELSE CHOOSE w \in fits : \A v \in fits : v <= w

-----------------------------------------------------------------------------
(* Watches come and go. *)

\* note: a fresh alert of a signals channel; the oldest watch makes room.
Note ==
  /\ Len(watch) < MaxWatch
  /\ \E o \in WatchOption, asked \in Asks :
       watch' = Append(watch, [option |-> o, asked |-> asked, contract |-> Unresolved,
                               prep |-> "scheduled", target |-> Unresolved,
                               current |-> TRUE])
  /\ LET all == Append(kept, Len(watch) + 1) IN
     kept' = IF Len(all) > WatchLimit THEN Tail(all) ELSE all
  /\ UNCHANGED <<listed, warm, buying>>

\* The alert is edited or deleted, an hour passes or the day ends.
Lapse(w) ==
  /\ w \in Kept /\ Current(w)
  /\ watch' = [watch EXCEPT ![w].current = FALSE]
  /\ UNCHANGED <<kept, listed, warm, buying>>

\* The exchange lists the contract of the day.
List(o) ==
  /\ o \notin listed
  /\ listed' = listed \union {o}
  /\ UNCHANGED <<watch, kept, warm, buying>>

\* run: a watch that lapsed is dropped.
Drop(w) ==
  /\ ~Current(w)
  /\ \E i \in 1 .. Len(kept) : kept[i] = w /\ kept' = RemoveAt(kept, i)
  /\ UNCHANGED <<watch, listed, warm, buying>>

\* run: a watch is prepared again 45 to 55 seconds after the last time.
Again(w) ==
  /\ w \in Kept /\ Current(w) /\ ~Busy(w)
  /\ watch' = [watch EXCEPT ![w].prep = "scheduled"]
  /\ UNCHANGED <<kept, listed, warm, buying>>

-----------------------------------------------------------------------------
(* _prepare, from one await to the next. *)

\* A fallback is withdrawn while it is looked up again; the contract of the day stays.
BeginPrepare(w) ==
  /\ watch[w].prep = "scheduled"
  /\ LET e == watch[w] IN
     watch' = [watch EXCEPT ![w] =
       IF ~Current(w) THEN [e EXCEPT !.prep = "idle"]
       ELSE IF e.asked # Nearest THEN [e EXCEPT !.prep = "warming", !.target = e.asked]
       ELSE IF e.contract = Today THEN [e EXCEPT !.prep = "warming", !.target = Today]
       ELSE [e EXCEPT !.prep = "resolving", !.contract = Unresolved]]
  /\ UNCHANGED <<kept, listed, warm, buying>>

\* nearest_expiry answers.
ResolvedTo(o) == IF o \in listed THEN Today ELSE Later

Resolve(w) ==
  /\ watch[w].prep = "resolving"
  /\ watch' = [watch EXCEPT ![w].prep = "warming", ![w].target = ResolvedTo(watch[w].option)]
  /\ UNCHANGED <<kept, listed, warm, buying>>

\* prewarm_entry has cached the metadata of the contract.
Prewarm(w) ==
  /\ watch[w].prep = "warming"
  /\ warm' = warm \union {<<watch[w].option, watch[w].target>>}
  /\ LET e == [watch[w] EXCEPT !.prep = "idle", !.target = Unresolved] IN
     watch' = [watch EXCEPT ![w] =
       IF Current(w) THEN [e EXCEPT !.contract = watch[w].target] ELSE e]
  /\ UNCHANGED <<kept, listed, buying>>

\* Either read fails.
FailPrepare(w) ==
  /\ watch[w].prep \in {"resolving", "warming"}
  /\ watch' = [watch EXCEPT ![w].prep = "idle", ![w].target = Unresolved,
                            ![w].contract = Unresolved]
  /\ UNCHANGED <<kept, listed, warm, buying>>

\* prepared_entry: a minute after it was read.
Expires(c) ==
  /\ c \in warm
  /\ warm' = warm \ {c}
  /\ UNCHANGED <<watch, kept, listed, buying>>

SameContract(v, w) == watch[v].option = watch[w].option /\ watch[v].contract = watch[w].contract

-----------------------------------------------------------------------------
(* An entry, under Engine.lock. *)

\* Its expiry is given, or resolved by a warm watch, or looked up.
TakeEntry ==
  /\ buying.step = "free"
  /\ \E o \in WatchOption, asked \in Asks :
       LET job == [NotBuying EXCEPT !.option = o, !.asked = asked, !.upTo = Len(watch)]
           w == Match(job)
           given == w # 0 /\ <<o, watch[w].contract>> \in warm IN
       buying' =
         IF asked # Nearest THEN [job EXCEPT !.step = "resolved", !.expiry = asked]
         ELSE IF given THEN [job EXCEPT !.step = "resolved", !.expiry = watch[w].contract,
                                        !.asked = watch[w].contract]
         ELSE [job EXCEPT !.step = "resolving"]
  /\ UNCHANGED <<watch, kept, listed, warm>>

LookUpExpiry ==
  /\ buying.step = "resolving"
  /\ LET expiry == ResolvedTo(buying.option) IN
     buying' = [buying EXCEPT !.step = "resolved", !.expiry = expiry, !.asked = expiry]
  /\ UNCHANGED <<watch, kept, listed, warm>>

\* plan: with a watch and warm metadata the entry needs no quote; its watch is noted.
PlanEntry ==
  /\ buying.step = "resolved"
  /\ LET w == Match(buying) IN
     buying' = [buying EXCEPT !.step = "planned",
                  !.source = IF w # 0 /\ <<buying.option, buying.expiry>> \in warm THEN w ELSE 0]
  /\ UNCHANGED <<watch, kept, listed, warm>>

\* submit: the order of a prepared entry is made from metadata that are warm still.
Review ==
  /\ buying.step = "planned"
  /\ buying' = IF buying.source # 0 /\ <<buying.option, buying.expiry>> \notin warm
               THEN NotBuying ELSE [buying EXCEPT !.step = "reviewed"]
  /\ UNCHANGED <<watch, kept, listed, warm>>

\* Mutant of StillMatches: the watch found by plan is taken for granted.
StillMatchesOnce == TRUE

\* verify_dispatch: the same watch matches the entry still.
StillMatches == buying.source # 0 => Match(buying) = buying.source

\* The last check and the call that places the order, with no await between them.
SendEntry ==
  /\ buying.step = "reviewed" /\ StillMatches
  /\ buying' = [buying EXCEPT !.step = "sent"]
  /\ UNCHANGED <<watch, kept, listed, warm>>

\* The entry ends: it was sent, or it was held on the way.
EndEntry ==
  /\ buying.step # "free"
  /\ buying' = NotBuying
  /\ UNCHANGED <<watch, kept, listed, warm>>

-----------------------------------------------------------------------------

WatchInit ==
  /\ watch = <<>> /\ kept = <<>>
  /\ listed \in SUBSET WatchOption
  /\ warm = {}
  /\ buying = NotBuying

WatchNext ==
  \/ Note
  \/ \E w \in Alerts :
       \/ Lapse(w)
       \/ Drop(w)
       \/ Again(w)
       \/ BeginPrepare(w)
       \/ Resolve(w)
       \/ Prewarm(w)
       \/ FailPrepare(w)
  \/ \E o \in WatchOption : List(o)
  \/ \E c \in warm : Expires(c)
  \/ TakeEntry
  \/ LookUpExpiry
  \/ PlanEntry
  \/ Review
  \/ SendEntry
  \/ EndEntry

WatchSpec == WatchInit /\ [][WatchNext]_watchVars

-----------------------------------------------------------------------------

WatchExpiry == {Unresolved, Today, Later}

WatchTypeOK ==
  /\ Len(watch) <= MaxWatch
  /\ \A w \in Alerts : watch[w] \in
       [option: WatchOption, asked: Asks, contract: WatchExpiry,
        prep: {"idle", "scheduled", "resolving", "warming"}, target: WatchExpiry,
        current: BOOLEAN]
  /\ Kept \subseteq Alerts /\ listed \subseteq WatchOption
  /\ warm \subseteq WatchOption \X {Today, Later}
  /\ buying.step \in {"free", "resolving", "resolved", "planned", "reviewed", "sent"}
  /\ buying.source \in 0 .. MaxWatch

\* core.py:858: an entry prepared by a watch is sent only while the alert stands, its contract
\* is the one the watch gives, no newer watch gives it, and it is not a fallback that is being
\* looked up again.
PreparedEntryStands ==
  [][SendEntry /\ buying.source # 0 =>
       LET w == buying.source IN
       /\ w \in Kept /\ Current(w)
       /\ watch[w].option = buying.option /\ watch[w].contract = buying.expiry
       /\ (watch[w].asked = Nearest /\ buying.expiry = Later) => watch[w].prep = "idle"
       /\ \A v \in Kept : v > w /\ v <= buying.upTo /\ Current(v) /\ ~Busy(v)
                          => ~SameContract(v, w)]_watchVars
=============================================================================

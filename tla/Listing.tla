------------------------------- MODULE Listing -------------------------------
(***************************************************************************)
(* RobinhoodBroker.nearest_expiry (broker.py): an entry that names no      *)
(* expiry takes the contract of the day it was posted, or the next one     *)
(* that trades if there is none.  The calendar of the chain and a bulk     *)
(* query may both leave a contract out, and contracts are listed and       *)
(* halted while the lookup goes on.                                        *)
(*                                                                         *)
(* Dates are numbered from the day asked for, 0; the bulk query spans Near *)
(* of them.  A contract is absent, tradable, or "refused": listed, but     *)
(* inactive, not tradable, adjusted or otherwise not a standard contract.  *)
(***************************************************************************)
EXTENDS Integers, FiniteSets

CONSTANTS Near, LastDate    \* dates of the bulk query; bound: the last date

ASSUME ListingAssumption == Near \in Nat \ {0} /\ LastDate \in Nat

Date == 0 .. LastDate
NearDate == {d \in Date : d < Near}
Standing == {"absent", "refused", "tradable"}

VARIABLES
  standing,  \* of the contract on each date
  lookup     \* nearest_expiry

listingVars == <<standing, lookup>>

NoDate == -1
NotLooking ==
  [step |-> "idle", read |-> {}, calendar |-> {}, bulk |-> {}, left |-> {}, chosen |-> NoDate,
   wasAbsent |-> FALSE]

EndsWith(date) == [lookup EXCEPT !.step = "done", !.chosen = date]

-----------------------------------------------------------------------------

\* A contract is listed, halted or released; none is taken off the list.
Relist(d) ==
  /\ standing' \in {[standing EXCEPT ![d] = s] : s \in {"refused", "tradable"} \ {standing[d]}}
  /\ UNCHANGED lookup

BeginLookup ==
  /\ lookup.step \in {"idle", "done"}
  /\ lookup' = [NotLooking EXCEPT !.step = "reading", !.wasAbsent = standing[0] = "absent"]
  /\ UNCHANGED standing

\* get_option_chains: the calendar, or part of it.
ReadCalendar ==
  /\ lookup.step = "reading" /\ "calendar" \notin lookup.read
  /\ \E dates \in SUBSET {d \in Date : standing[d] # "absent"} :
       lookup' = [lookup EXCEPT !.calendar = dates, !.read = @ \union {"calendar"}]
  /\ UNCHANGED standing

\* get_option_instruments for the near dates, or part of it.
ReadBulk ==
  /\ lookup.step = "reading" /\ "bulk" \notin lookup.read
  /\ \E dates \in SUBSET {d \in NearDate : standing[d] = "tradable"} :
       lookup' = [lookup EXCEPT !.bulk = dates, !.read = @ \union {"bulk"}]
  /\ UNCHANGED standing

\* The day asked for is among the bulk rows, or it is asked for by itself.
Choose ==
  /\ lookup.step = "reading" /\ lookup.read = {"calendar", "bulk"}
  /\ lookup' = IF 0 \in lookup.bulk THEN EndsWith(0) ELSE [lookup EXCEPT !.step = "probing"]
  /\ UNCHANGED standing

\* Mutant of ProvesAbsent: the query keeps its status filters.
ProvesAbsentFiltered(s) == s # "tradable"

\* What answer about the day asked for lets the lookup go on to later dates.
ProvesAbsent(s) == s = "absent"

Probe ==
  /\ lookup.step = "probing"
  /\ lookup' =
       IF standing[0] = "tradable" THEN EndsWith(0)
       ELSE IF ProvesAbsent(standing[0])
       THEN [lookup EXCEPT !.step = "later",
                           !.left = (lookup.calendar \union lookup.bulk) \ {0}]
       ELSE EndsWith(NoDate)
  /\ UNCHANGED standing

\* The next later date: a near one by its bulk row, which the calendar must confirm, a far one
\* by a query of its own.
TryLater ==
  /\ lookup.step = "later" /\ lookup.left # {}
  /\ LET d == CHOOSE x \in lookup.left : \A y \in lookup.left : x <= y
         trades == IF d \in NearDate THEN d \in lookup.bulk ELSE standing[d] = "tradable" IN
     lookup' = IF ~trades THEN [lookup EXCEPT !.left = @ \ {d}]
               ELSE EndsWith(IF d \in lookup.calendar THEN d ELSE NoDate)
  /\ UNCHANGED standing

\* No date is left, or a read fails.
GiveUpLookup ==
  /\ lookup.step \notin {"idle", "done"}
  /\ lookup' = EndsWith(NoDate)
  /\ UNCHANGED standing

ListingInit == standing \in [Date -> Standing] /\ lookup = NotLooking

ListingNext ==
  \/ \E d \in Date : Relist(d)
  \/ BeginLookup
  \/ ReadCalendar
  \/ ReadBulk
  \/ Choose
  \/ Probe
  \/ TryLater
  \/ GiveUpLookup

ListingSpec == ListingInit /\ [][ListingNext]_listingVars

-----------------------------------------------------------------------------

ListingTypeOK ==
  /\ standing \in [Date -> Standing]
  /\ lookup.step \in {"idle", "reading", "probing", "later", "done"}
  /\ lookup.read \subseteq {"calendar", "bulk"}
  /\ lookup.calendar \subseteq Date /\ lookup.bulk \subseteq NearDate /\ lookup.left \subseteq Date
  /\ lookup.chosen \in Date \union {NoDate} /\ lookup.wasAbsent \in BOOLEAN

\* broker.py:2126: an entry goes to a later expiry only when the day asked for was not listed as
\* the lookup began, whatever the calendar and the bulk query left out and whatever is halted
\* or listed meanwhile.
NoDateIsSkipped == lookup.chosen > 0 => lookup.wasAbsent
=============================================================================

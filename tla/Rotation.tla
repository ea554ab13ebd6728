------------------------------ MODULE Rotation ------------------------------
(***************************************************************************)
(* How WatchEntries.run (watch.py) shares the broker's quotes among the    *)
(* watches that are hot: one batch at a time, of the watches polled        *)
(* longest ago.                                                            *)
(*                                                                         *)
(* A watch is "ready" when it is current and hot, its contract is set and  *)
(* its metadata are fresh, and no preparation of it is under way: what     *)
(* module Watch makes of those comes and goes here at will.  Times of the  *)
(* last poll matter by their order, so they are kept as ranks.             *)
(***************************************************************************)
EXTENDS Integers, FiniteSets

CONSTANTS
  Hot,            \* the watches, numbered by age
  Contract,       \* the contract of each
  BatchLimit      \* quotes in one batch, watch_market_batch_limit

ASSUME RotationAssumption ==
  /\ Hot \subseteq Nat /\ IsFiniteSet(Hot)
  /\ BatchLimit \in Nat \ {0}

VARIABLES
  ready,   \* watches that may be polled
  gone,    \* watches dropped from entries
  polled,  \* market_polled_at: the rank of the last poll, 0 for never
  asked    \* _refresh_market_batch: the watches whose quotes are out

rotationVars == <<ready, gone, polled, asked>>

Largest(S) == CHOOSE n \in S : \A k \in S : k <= n

\* The same order in the smallest numbers; 0 stays 0.
Ranks(times) ==
  [w \in Hot |-> IF times[w] = 0 THEN 0
                 ELSE 1 + Cardinality({times[v] : v \in {u \in Hot : 0 < times[u] /\ times[u] < times[w]}})]

\* Watches of one contract that may be polled share one place.
Sharing(w) == {v \in ready : Contract[v] = Contract[w]}
Candidates == {w \in ready : \A v \in Sharing(w) : v <= w}
Turn(w) == Largest({polled[v] : v \in Sharing(w)})

\* Those whose last poll is furthest back, the oldest watch first among equals.
EarlierTurn(v, w) == Turn(v) < Turn(w) \/ (Turn(v) = Turn(w) /\ v < w)
NextBatch == {w \in Candidates : Cardinality({v \in Candidates : EarlierTurn(v, w)}) < BatchLimit}

-----------------------------------------------------------------------------

\* A watch becomes or ceases to be ready.
GetReady(w) ==
  /\ w \notin ready \union gone
  /\ ready' = ready \union {w}
  /\ UNCHANGED <<gone, polled, asked>>

Unready(w) ==
  /\ w \in ready
  /\ ready' = ready \ {w}
  /\ UNCHANGED <<gone, polled, asked>>

\* A watch lapses or is evicted: for good.
LeaveWatches(w) ==
  /\ w \notin gone
  /\ gone' = gone \union {w}
  /\ ready' = ready \ {w}
  /\ polled' = Ranks([polled EXCEPT ![w] = 0])
  /\ UNCHANGED asked

\* A poll is due and none is under way: the newest of those that share takes over their turn.
BeginQuotes ==
  /\ asked = {} /\ Candidates # {}
  /\ asked' = NextBatch
  /\ polled' = Ranks([w \in Hot |-> IF w \in Candidates THEN Turn(w) ELSE polled[w]])
  /\ UNCHANGED <<ready, gone>>

\* Mutant of Polled: a watch keeps its turn until a poll of it succeeds.
PolledWhenAnswered(w, answered) == w \in answered

\* Whose last poll is now: every watch of the batch, whatever came of it.
Polled(w, answered) == w \in asked

\* The batch answers for some of its watches; it fails, or is late, for all of them.
EndQuotes ==
  /\ asked # {}
  /\ \E answered \in SUBSET asked :
       polled' = Ranks([w \in Hot |-> IF w \in gone THEN 0
                                      ELSE IF Polled(w, answered) THEN Cardinality(Hot) + 1
                                      ELSE polled[w]])
  /\ asked' = {}
  /\ UNCHANGED <<ready, gone>>

RotationInit ==
  /\ ready = {} /\ gone = {}
  /\ polled = [w \in Hot |-> 0]
  /\ asked = {}

RotationNext ==
  \/ \E w \in Hot :
       \/ GetReady(w)
       \/ Unready(w)
       \/ LeaveWatches(w)
  \/ BeginQuotes
  \/ EndQuotes

\* run comes round four times a second, and a batch has a deadline of eight seconds.
RotationFairness ==
  /\ WF_rotationVars(BeginQuotes)
  /\ WF_rotationVars(EndQuotes)

RotationSpec == RotationInit /\ [][RotationNext]_rotationVars /\ RotationFairness

-----------------------------------------------------------------------------

RotationTypeOK ==
  /\ ready \subseteq Hot \ gone /\ gone \subseteq Hot /\ asked \subseteq Hot
  /\ polled \in [Hot -> 0 .. Cardinality(Hot)]

\* The rotation: a contract on watch that stays ready has its quote polled, through one of its
\* watches, whichever of the others fail, and however often.
ReadyIsPolled ==
  \A w \in Hot : w \in ready ~> (w \notin ready \/ \E v \in asked : Contract[v] = Contract[w])
=============================================================================

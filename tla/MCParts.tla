------------------------------- MODULE MCParts -------------------------------
(* The parts of the relay that share no state with each other, checked side by *)
(* side: one of them is chosen at the start and runs as its module says.  The   *)
(* sign-ins of the two providers are parts of their own.                       *)
EXTENDS Monitor, Outbox, ReadBudget, Market, Watch, Rotation, Snapshot, Listing,
        Paper, Modes, SignIn, Expiry, Router, Access, Browser

CONSTANT Part   \* the parts that may run

VARIABLE part   \* the part that runs

\* The third watch is of the same contract as the second.
RotationContract == [w \in Hot |-> IF w <= 2 THEN w ELSE 2]

\* A part with several initial states that does not run rests in one of them.
PartsInit ==
  /\ part \in Part
  /\ MonitorInit /\ OutboxInit /\ BudgetInit /\ MarketInit /\ WatchInit /\ RotationInit
  /\ SnapshotInit /\ ListingInit /\ PaperInit /\ ModesInit /\ SignInInit /\ ExpiryInit
  /\ RouterInit /\ AccessInit /\ BrowserInit
  /\ part = "watch"    \/ listed = {}
  /\ part = "snapshot" \/ \A c \in AccountContract : contracts[c] = 0
  /\ part = "listing"  \/ \A d \in Date : standing[d] = "absent"
  /\ part = "modes"    \/ config.mode = "paper"
  /\ part = "router"   \/ mode = "codex"
  /\ part = "access"   \/ \A c \in Channel : right[c] = "open"

\* The variables of every part but p keep their values.
Rests(p) ==
  /\ IF p = "monitor"  THEN TRUE ELSE UNCHANGED monitorVars
  /\ IF p = "outbox"   THEN TRUE ELSE UNCHANGED outboxVars
  /\ IF p = "budget"   THEN TRUE ELSE UNCHANGED budgetVars
  /\ IF p = "market"   THEN TRUE ELSE UNCHANGED marketVars
  /\ IF p = "watch"    THEN TRUE ELSE UNCHANGED watchVars
  /\ IF p = "rotation" THEN TRUE ELSE UNCHANGED rotationVars
  /\ IF p = "snapshot" THEN TRUE ELSE UNCHANGED snapshotVars
  /\ IF p = "listing"  THEN TRUE ELSE UNCHANGED listingVars
  /\ IF p = "paper"    THEN TRUE ELSE UNCHANGED paperVars
  /\ IF p = "modes"    THEN TRUE ELSE UNCHANGED <<modesVars, orderVars>>
  /\ IF p \in Provider THEN TRUE ELSE UNCHANGED signInVars
  /\ IF p = "expiry"   THEN TRUE ELSE UNCHANGED expiryVars
  /\ IF p = "router"   THEN TRUE ELSE UNCHANGED routerVars
  /\ IF p = "access"   THEN TRUE ELSE UNCHANGED accessVars
  /\ IF p = "browser"  THEN TRUE ELSE UNCHANGED browserVars
  /\ UNCHANGED part

PartsNext ==
  \/ part = "monitor"  /\ MonitorNext  /\ Rests("monitor")
  \/ part = "outbox"   /\ OutboxNext   /\ Rests("outbox")
  \/ part = "budget"   /\ BudgetNext   /\ Rests("budget")
  \/ part = "market"   /\ MarketNext   /\ Rests("market")
  \/ part = "watch"    /\ WatchNext    /\ Rests("watch")
  \/ part = "rotation" /\ RotationNext /\ Rests("rotation")
  \/ part = "snapshot" /\ SnapshotNext /\ Rests("snapshot")
  \/ part = "listing"  /\ ListingNext  /\ Rests("listing")
  \/ part = "paper"    /\ PaperNext    /\ Rests("paper")
  \/ part = "modes"    /\ ModesNext    /\ Rests("modes")
  \/ part \in Provider /\ ProviderNext(part) /\ Rests(part)
  \/ part = "expiry"   /\ ExpiryNext   /\ Rests("expiry")
  \/ part = "router"   /\ RouterNext   /\ Rests("router")
  \/ part = "access"   /\ AccessNext   /\ Rests("access")
  \/ part = "browser"  /\ BrowserNext  /\ Rests("browser")

partsVars == <<part, monitorVars, outboxVars, budgetVars, marketVars, watchVars, rotationVars,
               snapshotVars, listingVars, paperVars, modesVars, orderVars, signInVars, expiryVars,
               routerVars, accessVars, browserVars>>

\* Each part's own fairness: at rest the other parts have nothing to do, but for the loop
\* of Modes.
PartsFairness ==
  /\ MonitorFairness /\ OutboxFairness /\ RotationFairness /\ ExpiryFairness
  /\ RouterFairness /\ AccessFairness
  /\ WF_modesVars(part = "modes" /\ ModesLoop)

PartsSpec == PartsInit /\ [][PartsNext]_partsVars /\ PartsFairness

\* Every variable of every part has its type.
PartsTypeOK ==
  /\ part \in Part
  /\ MonitorTypeOK /\ OutboxTypeOK /\ BudgetTypeOK /\ MarketTypeOK /\ WatchTypeOK
  /\ RotationTypeOK /\ SnapshotTypeOK /\ ListingTypeOK /\ PaperTypeOK /\ ModesTypeOK
  /\ SignInTypeOK /\ ExpiryTypeOK /\ RouterTypeOK /\ AccessTypeOK /\ BrowserTypeOK
=============================================================================

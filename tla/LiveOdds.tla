------------------------------ MODULE LiveOdds ------------------------------
(***************************************************************************)
(* Odds on their way to one customer and back: the writes and broadcasts   *)
(* of the leader (OddsEngine.tick, publish, snapshot), the map that        *)
(* useLiveOdds keeps, the slip of MatchesView and the check of             *)
(* expectedOdds in placeBet.  The selections are those of open markets.    *)
(***************************************************************************)
EXTENDS Integers, Sequences

CONSTANTS
  Selections, MatchOf,  \* and the match of each
  Prices,        \* odds a selection may have
  Opening,       \* the odds when the page loads the matches (sel.odds)
  None,          \* no entry in a map, no request, no pending snapshot
  MaxMoves,      \* BOUND: changes of odds
  MaxFailures    \* BOUND: connections and messages lost, requests that fail

\* What every instance assumes of the constants.
LiveOddsAssumption ==
  /\ None \notin Prices
  /\ Opening \in [Selections -> Prices]
  /\ MaxMoves \in Nat /\ MaxFailures \in Nat

VARIABLES
  odds,      \* selections.odds
  updates,   \* what the tick in progress has written and not yet published
  channel,   \* messages on their way to the customer's instance
  socket,    \* "closed", "open"
  snapshot,  \* of the open connection: none, asked, or read with its rows
  live,      \* the map of useLiveOdds
  slip,      \* lockedOdds of the selections on the slip
  request,   \* the POST /bets in flight, with the map its handler closes over
  bet,       \* the last accepted bet, with the odds on screen at the click
  moves, failures,
  raced      \* history: an update was lost, or overtook the connection's snapshot

wire == <<socket, snapshot, live, raced>>
screen == <<slip, request, bet>>
counts == <<moves, failures>>
vars == <<odds, updates, channel, wire, screen, counts>>

NoUpdates == <<>>
Maps == [Selections -> Prices \union {None}]
Empty == [s \in Selections |-> None]
NoSnapshot == [stage |-> "none", rows |-> Empty]

Init ==
  /\ odds = Opening
  /\ updates = NoUpdates
  /\ channel = <<>>
  /\ socket = "closed" /\ snapshot = NoSnapshot /\ live = Empty /\ raced = FALSE
  /\ slip = Empty /\ request = None /\ bet = None
  /\ moves = 0 /\ failures = 0

CountFailure == failures < MaxFailures /\ failures' = failures + 1 /\ UNCHANGED moves

-----------------------------------------------------------------------------
With(map, s, price) == [t \in DOMAIN map \union {s} |-> IF t = s THEN price ELSE map[t]]

\* tick: one UPDATE, at most one for each selection.
Drift(s, price) ==
  /\ s \notin DOMAIN updates
  /\ price # odds[s]
  /\ moves < MaxMoves
  /\ odds' = [odds EXCEPT ![s] = price]
  /\ updates' = With(updates, s, price)
  /\ moves' = moves + 1
  /\ UNCHANGED <<channel, wire, screen, failures>>

Publish ==
  /\ updates # NoUpdates
  /\ channel' = Append(channel, updates)
  /\ updates' = NoUpdates
  /\ UNCHANGED <<odds, wire, screen, counts>>

\* An error in tick or publish: what was written is not announced.
TickFails ==
  /\ updates # NoUpdates
  /\ CountFailure
  /\ updates' = NoUpdates
  /\ raced' = TRUE
  /\ UNCHANGED <<odds, channel, socket, snapshot, live, screen>>

\* setOdds: the entries of a message alone, and over a copy of the map.
OnlyData(map, data) == [s \in Selections |-> IF s \in DOMAIN data THEN data[s] ELSE None]
Applied(map, data) == [s \in Selections |-> IF s \in DOMAIN data THEN data[s] ELSE map[s]]

\* broadcastLocal: to the sockets open at that moment.
Broadcast ==
  /\ channel # <<>>
  /\ channel' = Tail(channel)
  /\ IF socket = "open"
     THEN /\ live' = Applied(live, Head(channel))
          /\ raced' = (raced \/ snapshot.stage = "read")
     ELSE UNCHANGED <<live, raced>>
  /\ UNCHANGED <<odds, updates, socket, snapshot, screen, counts>>

\* The instance's subscription is down when the message passes.
MessageLost ==
  /\ channel # <<>>
  /\ CountFailure
  /\ channel' = Tail(channel)
  /\ raced' = TRUE
  /\ UNCHANGED <<odds, updates, socket, snapshot, live, screen>>

-----------------------------------------------------------------------------
\* connect, and the server's answer to a connection: snapshot().
Connect ==
  /\ socket = "closed"
  /\ socket' = "open"
  /\ snapshot' = [stage |-> "asked", rows |-> Empty]
  /\ raced' = (raced /\ channel # <<>>)
  /\ UNCHANGED <<odds, updates, channel, live, screen, counts>>

SnapshotRead ==
  /\ snapshot.stage = "asked"
  /\ snapshot' = [stage |-> "read", rows |-> odds]
  /\ UNCHANGED <<odds, updates, channel, socket, live, raced, screen, counts>>

SnapshotSend ==
  /\ snapshot.stage = "read"
  /\ live' = Applied(live, snapshot.rows)
  /\ snapshot' = NoSnapshot
  /\ UNCHANGED <<odds, updates, channel, socket, raced, screen, counts>>

SnapshotFails ==
  /\ snapshot # NoSnapshot
  /\ CountFailure
  /\ snapshot' = NoSnapshot
  /\ raced' = TRUE
  /\ UNCHANGED <<odds, updates, channel, socket, live, screen>>

Disconnect ==
  /\ socket = "open"
  /\ CountFailure
  /\ socket' = "closed"
  /\ snapshot' = NoSnapshot
  /\ UNCHANGED <<odds, updates, channel, live, raced, screen>>

-----------------------------------------------------------------------------
OnSlip == {s \in Selections : slip[s] # None}

Or(map, fallback) == [s \in Selections |-> IF map[s] # None THEN map[s] ELSE fallback[s]]

\* The odds of the match list (oddsFor) and those of the slip.
OddsFor(s) == Or(live, Opening)[s]
Displayed == Or(live, slip)

\* toggleSelection: adds it in place of another of its match, or removes it.
Toggle(s) ==
  /\ slip' = [t \in Selections |->
                CASE t = s               -> IF slip[s] # None THEN None ELSE OddsFor(s)
                  [] slip[s] # None      -> slip[t]
                  [] MatchOf[t] = MatchOf[s] -> None
                  [] OTHER               -> slip[t]]
  /\ UNCHANGED <<odds, updates, channel, wire, request, bet, counts>>

\* expectedOdds of place: the odds locked in the slip, and those that it shows.
ExpectedLocked == slip
Expected == Displayed

\* place; the button is disabled while a request is in flight.
Place ==
  /\ request = None
  /\ OnSlip # {}
  /\ request' = [expected |-> [s \in OnSlip |-> Expected[s]], legs |-> <<>>,
                 live |-> live, seen |-> [s \in OnSlip |-> Displayed[s]]]
  /\ UNCHANGED <<odds, updates, channel, wire, slip, bet, counts>>

Unresolved == DOMAIN request.expected \ DOMAIN request.legs

\* placeBet: the odds of one leg are read, and are the expected ones.
ResolveLeg(s) ==
  /\ request # None
  /\ s \in Unresolved
  /\ odds[s] = request.expected[s]
  /\ request' = [request EXCEPT !.legs = With(@, s, odds[s])]
  /\ UNCHANGED <<odds, updates, channel, wire, slip, bet, counts>>

\* placeBet: odds_changed.  The slip is locked at the odds of the map that the
\* click saw.
OddsChanged(s) ==
  /\ request # None
  /\ s \in Unresolved
  /\ odds[s] # request.expected[s]
  /\ slip' = [t \in Selections |-> IF slip[t] = None THEN None ELSE Or(request.live, slip)[t]]
  /\ request' = None
  /\ UNCHANGED <<odds, updates, channel, wire, bet, counts>>

\* The bet is stored with the odds of its legs, and the slip emptied.
Accept ==
  /\ request # None
  /\ Unresolved = {}
  /\ bet' = [legs |-> request.legs, seen |-> request.seen]
  /\ slip' = Empty
  /\ request' = None
  /\ UNCHANGED <<odds, updates, channel, wire, counts>>

\* Any other error of the request.
RequestFails ==
  /\ request # None
  /\ CountFailure
  /\ request' = None
  /\ UNCHANGED <<odds, updates, channel, wire, slip, bet>>

-----------------------------------------------------------------------------
Next ==
  \/ \E s \in Selections :
       \/ \E price \in Prices : Drift(s, price)
       \/ Toggle(s) \/ ResolveLeg(s) \/ OddsChanged(s)
  \/ Publish \/ TickFails \/ Broadcast \/ MessageLost
  \/ Connect \/ SnapshotRead \/ SnapshotSend \/ SnapshotFails \/ Disconnect
  \/ Place \/ Accept \/ RequestFails

Spec == Init /\ [][Next]_vars

-----------------------------------------------------------------------------
Partial == UNION {[S -> Prices] : S \in SUBSET Selections}

TypeOK ==
  /\ odds \in [Selections -> Prices]
  /\ updates \in Partial
  /\ \A n \in 1..Len(channel) : channel[n] \in Partial
  /\ socket \in {"closed", "open"}
  /\ snapshot.stage \in {"none", "asked", "read"} /\ snapshot.rows \in Maps
  /\ live \in Maps /\ slip \in Maps
  /\ request # None => /\ request.expected \in Partial
                       /\ request.legs \in Partial
  /\ moves \in 0..MaxMoves /\ failures \in 0..MaxFailures

\* A bet is only ever accepted at the odds that the slip showed when the customer
\* confirmed it, whatever moved, arrived late or was toggled since.
AcceptedAsSeen == bet # None => bet.legs = bet.seen

\* Once everything written is announced and delivered, the customer sees the odds
\* in force, unless the connection lost a message or got one before its snapshot.
QuietMapIsCurrent ==
  socket = "open" /\ snapshot = NoSnapshot /\ updates = NoUpdates /\ channel = <<>> /\ ~raced
    => live = odds
=============================================================================

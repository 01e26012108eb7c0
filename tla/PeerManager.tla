---------------------------- MODULE PeerManager ----------------------------
(***************************************************************************)
(* type P2PNetworkProduction of pkg/network/p2p_production.go: three loops *)
(* that discover, score and count peers, and a goroutine for every peer    *)
(* that is dialled.                                                        *)
(*                                                                         *)
(* The host's connections and the manager's map p.peers are two records of *)
(* the same thing.  Nothing tells the map that a connection is gone; the   *)
(* score of an entry has to sink below the threshold first, and until it   *)
(* does the entry keeps the peer from being dialled again.                 *)
(*                                                                         *)
(* Scores are in hundredths and rounded down.  libp2p, the discovery       *)
(* service and the peers are external: a dial reaches a peer that is up.   *)
(***************************************************************************)
EXTENDS Integers, FiniteSets

CONSTANTS
    Peer,
    Callers,    \* peers that may connect to this node on their own
    Boot,       \* the bootstrap peers
    MaxPeers,   \* 200 in the code
    MinPeers,   \* 10 in the code
    Buffer,     \* 10 in the code: trimming aims at MaxPeers - Buffer
    Decay,      \* 95 in the code, in percent
    Boost,      \* 100 in the code, for an inbound connection
    Penalty,    \* 500 in the code, from the tick on when an entry is stale
    StaleAfter, \* 5 in the code: ticks of a minute in five minutes
    Threshold,  \* 5000 in the code: a score below -Threshold is poor
    MaxDials,   \* bound on the goroutines that dial one peer
    MaxLosses   \* bound on connections lost and peers that go down

ASSUME PeerManagerAssumption ==
    /\ IsFiniteSet(Peer) /\ Callers \subseteq Peer /\ Boot \subseteq Peer
    /\ MaxPeers \in Nat /\ MinPeers \in 0 .. MaxPeers /\ Buffer \in 0 .. MaxPeers
    /\ Decay \in 0 .. 100 /\ Boost \in Nat /\ Penalty \in Nat /\ StaleAfter \in Nat
    /\ Threshold \in Nat /\ MaxDials \in Nat \ {0} /\ MaxLosses \in Nat

VARIABLES
    up,         \* the peers that run and can be reached
    conns,      \* conns[p]: direction of the host's connection to p, if any
    peers,      \* the keys of the map p.peers
    score, age, \* of the entries; age counts ticks up to StaleAfter
    found,      \* found[f]: what the discovery service will still name to finder f
    dialing,    \* dialing[p]: goroutines in host.Connect
    joined,     \* joined[p]: those behind it that wait for the lock
    scored,     \* the scoring loop is between its two functions
    crashed,    \* a goroutine has panicked
    losses

vars == <<up, conns, peers, score, age, found, dialing, joined, scored, crashed, losses>>

(* The two loops that call findPeers.                                      *)
Finder == {"discovery", "management"}

TypeOK ==
    /\ up \subseteq Peer
    /\ conns \in [Peer -> {"none", "inbound", "outbound"}]
    /\ peers \subseteq Peer
    /\ score \in [Peer -> Int]
    /\ age \in [Peer -> 0 .. StaleAfter]
    /\ found \in [Finder -> SUBSET Peer]
    /\ dialing \in [Peer -> 0 .. MaxDials]
    /\ joined \in [Peer -> 0 .. MaxDials]
    /\ scored \in BOOLEAN
    /\ crashed \in BOOLEAN
    /\ losses \in 0 .. MaxLosses

(* bootstrapDHT has connected to the bootstrap peers that are up; it does  *)
(* not enter them into the map.                                            *)
Init ==
    /\ up \in SUBSET Peer
    /\ conns = [p \in Peer |-> IF p \in up \cap Boot THEN "outbound" ELSE "none"]
    /\ peers = {}
    /\ score = [p \in Peer |-> 0]
    /\ age = [p \in Peer |-> 0]
    /\ found = [f \in Finder |-> {}]
    /\ dialing = [p \in Peer |-> 0]
    /\ joined = [p \in Peer |-> 0]
    /\ scored = FALSE
    /\ crashed = FALSE
    /\ losses = 0

Connected == {p \in Peer : conns[p] # "none"}

----------------------------------------------------------------------------
(***************************************************************************)
(* Discovery.  An operator named ...Bug is a plausible mistake in the      *)
(* definition that follows it.                                             *)
(***************************************************************************)

(* The peers that have advertised themselves, whether they are up or not.  *)
FindPeers(f) ==
    /\ found[f] = {}
    /\ f = "management" => Cardinality(Connected) < MinPeers
    /\ found' = [found EXCEPT ![f] = Peer]
    /\ UNCHANGED <<up, conns, peers, score, age, dialing, joined, scored, crashed, losses>>

Skipped(f, p) ==
    /\ p \in peers
    /\ found' = [found EXCEPT ![f] = @ \ {p}]
    /\ UNCHANGED dialing

(* The size of the map, read without the lock, ends the search.            *)
Full(f, p) ==
    /\ p \notin peers
    /\ Cardinality(peers) >= MaxPeers
    /\ found' = [found EXCEPT ![f] = {}]
    /\ UNCHANGED dialing

(* Goroutines that dial are not counted.                                   *)
Launch(f, p) ==
    /\ p \notin peers
    /\ Cardinality(peers) < MaxPeers
    /\ found' = [found EXCEPT ![f] = @ \ {p}]
    /\ dialing' = [dialing EXCEPT ![p] = IF @ + joined[p] < MaxDials THEN @ + 1 ELSE @]

NextFound(f) ==
    /\ \E p \in found[f] : Skipped(f, p) \/ Full(f, p) \/ Launch(f, p)
    /\ UNCHANGED <<up, conns, peers, score, age, joined, scored, crashed, losses>>

(* connectToPeer: host.Connect returns at once if there is a connection.   *)
Dial(p) ==
    /\ dialing[p] > 0
    /\ dialing' = [dialing EXCEPT ![p] = @ - 1]
    /\ \/ /\ p \in up \/ conns[p] # "none"
          /\ conns' = [conns EXCEPT ![p] = IF @ = "none" THEN "outbound" ELSE @]
          /\ joined' = [joined EXCEPT ![p] = @ + 1]
       \/ /\ p \notin up /\ conns[p] = "none"
          /\ UNCHANGED <<conns, joined>>
    /\ UNCHANGED <<up, peers, score, age, found, scored, crashed, losses>>

(* A new entry, also where there is one; it takes the first connection of  *)
(* the host, and panics if that is gone by now.                            *)
Track(p) ==
    /\ joined[p] > 0
    /\ joined' = [joined EXCEPT ![p] = @ - 1]
    /\ \/ /\ conns[p] # "none"
          /\ peers' = peers \cup {p}
          /\ score' = [score EXCEPT ![p] = 0]
          /\ age' = [age EXCEPT ![p] = 0]
          /\ UNCHANGED crashed
       \/ /\ conns[p] = "none"
          /\ crashed' = TRUE
          /\ UNCHANGED <<peers, score, age>>
    /\ UNCHANGED <<up, conns, found, dialing, scored, losses>>

----------------------------------------------------------------------------
(***************************************************************************)
(* Scores and the number of connections.                                   *)
(***************************************************************************)

(* What becomes of the entries and connections of the peers in S.          *)
Drop(S, closed) ==
    /\ peers' = peers \ S
    /\ conns' = [p \in Peer |-> IF p \in closed THEN "none" ELSE conns[p]]
    /\ score' = [p \in Peer |-> IF p \in S THEN 0 ELSE score[p]]
    /\ age' = [p \in Peer |-> IF p \in S THEN 0 ELSE age[p]]

(* The second condition nested in the first.                               *)
ConnectedOnlyBug(p) ==
    (Decay * score[p]) \div 100
        + (IF conns[p] = "inbound" THEN Boost ELSE 0)
        - (IF age[p] = StaleAfter /\ conns[p] # "none" THEN Penalty ELSE 0)

(* The entry's LastSeen is the time it was made: every entry gets stale.   *)
Rescored(p) ==
    (Decay * score[p]) \div 100
        + (IF conns[p] = "inbound" THEN Boost ELSE 0)
        - (IF age[p] = StaleAfter THEN Penalty ELSE 0)

UpdatePeerScores ==
    /\ ~scored
    /\ scored' = TRUE
    /\ score' = [p \in Peer |-> IF p \in peers THEN Rescored(p) ELSE 0]
    /\ age' = [p \in Peer |-> IF p \in peers /\ age[p] < StaleAfter THEN age[p] + 1 ELSE age[p]]
    /\ UNCHANGED <<up, conns, peers, found, dialing, joined, crashed, losses>>

RemovePoorPeers ==
    /\ scored
    /\ scored' = FALSE
    /\ LET poor == {p \in peers : score[p] < -Threshold} IN Drop(poor, poor)
    /\ UNCHANGED <<up, found, dialing, joined, crashed, losses>>

(* maintainPeerCount and trimExcessPeers: the host lists its peers in any  *)
(* order, and of those beyond the target the ones with an entry and no     *)
(* positive score go.                                                      *)
TrimExcessPeers ==
    /\ found["management"] = {}
    /\ Cardinality(Connected) > MaxPeers
    /\ \E excess \in SUBSET Connected :
           /\ Cardinality(excess) = Cardinality(Connected) - (MaxPeers - Buffer)
           /\ LET trimmed == {p \in excess \cap peers : score[p] <= 0} IN Drop(trimmed, trimmed)
    /\ UNCHANGED <<up, found, dialing, joined, scored, crashed, losses>>

----------------------------------------------------------------------------
(***************************************************************************)
(* The network.                                                            *)
(***************************************************************************)
Call(p) ==
    /\ p \in Callers \cap up
    /\ conns[p] = "none"
    /\ conns' = [conns EXCEPT ![p] = "inbound"]
    /\ UNCHANGED <<up, peers, score, age, found, dialing, joined, scored, crashed, losses>>

Lose(p, remaining) ==
    /\ losses < MaxLosses
    /\ losses' = losses + 1
    /\ up' = remaining
    /\ conns' = [conns EXCEPT ![p] = "none"]
    /\ UNCHANGED <<peers, score, age, found, dialing, joined, scored, crashed>>

Disconnect(p) == conns[p] # "none" /\ Lose(p, up)

GoDown(p) == p \in up /\ Lose(p, up \ {p})

ComeUp(p) ==
    /\ p \notin up
    /\ up' = up \cup {p}
    /\ UNCHANGED <<conns, peers, score, age, found, dialing, joined, scored, crashed, losses>>

Next ==
    /\ ~crashed
    /\ \/ \E f \in Finder : FindPeers(f) \/ NextFound(f)
       \/ \E p \in Peer : Dial(p) \/ Track(p)
       \/ UpdatePeerScores \/ RemovePoorPeers \/ TrimExcessPeers
       \/ \E p \in Peer : Call(p) \/ Disconnect(p) \/ GoDown(p) \/ ComeUp(p)

Step(A) == ~crashed /\ A

(* Tickers tick, the discovery service answers or times out, goroutines    *)
(* run and get the lock.  Nothing is assumed of the peers.                 *)
Fairness ==
    /\ \A f \in Finder : WF_vars(Step(FindPeers(f))) /\ WF_vars(Step(NextFound(f)))
    /\ \A p \in Peer : WF_vars(Step(Dial(p))) /\ WF_vars(Step(Track(p)))
    /\ WF_vars(Step(UpdatePeerScores)) /\ WF_vars(Step(RemovePoorPeers))

Spec == Init /\ [][Next]_vars /\ Fairness

----------------------------------------------------------------------------
(***************************************************************************)
(* Properties.                                                             *)
(***************************************************************************)

(* A peer that is down for good is forgotten: its entry does not keep a    *)
(* slot of the map for ever, though no event tells the map of the loss.    *)
GoneAreForgotten ==
    \A p \in Peer : <>[](p \notin up) => <>[](p \notin peers) \/ <>crashed

(* While enough peers are up the node is connected to enough of them again *)
(* and again: entries of lost connections, which keep a peer from being    *)
(* dialled and fill the map, delay this but do not prevent it.             *)
EnoughPeers ==
    <>[](Cardinality(up) >= MinPeers)
        => []<>(Cardinality(Connected) >= MinPeers) \/ <>crashed

=============================================================================

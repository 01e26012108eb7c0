----------------------------- MODULE SyncProofs -----------------------------
(***************************************************************************)
(* Theorems about Sync for any finite set of events, and for any nodes,    *)
(* streams, requests, limits and bounds.                                   *)
(***************************************************************************)
EXTENDS Sync, DataFacts

----------------------------------------------------------------------------
(***************************************************************************)
(* The invariant.  It is about one session at a time, and is stated of     *)
(* values: of a stream S, the rounds R and the graphs K.                   *)
(***************************************************************************)

(* The events of the first n responses that are under way.                 *)
Ids(S, n) == {S.pipe[i].event : i \in 1 .. n}

(* What the client has once it has read them.                              *)
Got(S, K, n) == K[S.client] \cup Ids(S, n)

(* What the server had to send from the first round to the one before r,   *)
(* and of round r.                                                         *)
Due(S, R, r) == {e \in S.had : S.first <= R[e] /\ R[e] < r}
OfRound(S, R, r) == {e \in S.had : R[e] = r}

(* The response at i: when the client comes to it, it has all that is due  *)
(* below its event's round.  One that says there is no more is of the last *)
(* round, or comes after all that is due, or after the limit.              *)
Entry(S, R, K, i) ==
    IF S.pipe[i].event = NoEvent
    THEN S.sent >= Limit \/ Due(S, R, S.last) \subseteq Got(S, K, i - 1)
    ELSE /\ R[S.pipe[i].event] > 0
         /\ Due(S, R, R[S.pipe[i].event]) \subseteq Got(S, K, i - 1)
         /\ ~ S.pipe[i].hasMore => R[S.pipe[i].event] >= S.last

(* A server at work has lost nothing of what it had, has sent all that is  *)
(* due below its round, and of the round all that it is not about to send. *)
Work(S, R, K) ==
    /\ S.had \subseteq K[S.server]
    /\ \A e \in S.todo : R[e] = S.at /\ R[e] > 0
    /\ Due(S, R, S.at) \subseteq Got(S, K, Len(S.pipe))
    /\ S.todo # {} => OfRound(S, R, S.at) \subseteq S.todo \cup Got(S, K, Len(S.pipe))

AtWork(S) == S.phase = "running" /\ S.serving = "open"

Sound(S, R, K) ==
    /\ S.client # S.server
    /\ \A e \in S.had : R[e] > 0
    /\ Due(S, R, S.reached) \subseteq K[S.client]
    /\ S.phase = "complete" => S.sent >= Limit \/ Due(S, R, S.last) \subseteq K[S.client]
    /\ \A i \in 1 .. Len(S.pipe) : Entry(S, R, K, i)
    /\ AtWork(S) => Work(S, R, K)

(* What a graph holds, and what is on its way to it, has been created.     *)
Created ==
    \A n \in Node : /\ \A e \in known[n] : round[e] > 0
                    /\ \A i \in 1 .. Len(eventChan[n]) : round[eventChan[n][i]] > 0

SyncInv ==
    /\ TypeOK
    /\ Created
    /\ \A s \in Session : sessions[s] # Unused => Sound(sessions[s], round, known)

(* The rounds and the graphs of some moment.                               *)
Rounds == [Event -> Nat]
KnownSets == [Node -> SUBSET Event]

----------------------------------------------------------------------------
(***************************************************************************)
(* Lemmas about a stream.                                                  *)
(***************************************************************************)

(* A stream reads as its fields.                                           *)
LEMMA StreamFields ==
    ASSUME NEW S \in Stream
    PROVE  /\ S.client \in Node /\ S.server \in Node /\ S.first \in Nat /\ S.last \in Nat
           /\ S.had \subseteq Event /\ S.reached \in Nat /\ S.at \in Nat
           /\ S.todo \subseteq Event /\ S.size \in Nat /\ S.sent \in Nat
           /\ S.pipe \in Seq(Response) /\ Len(S.pipe) \in Nat
           /\ \A i \in 1 .. Len(S.pipe) : /\ S.pipe[i].event \in Event \cup {NoEvent}
                                          /\ S.pipe[i].hasMore \in BOOLEAN
  <1>1. /\ S.client \in Node /\ S.server \in Node /\ S.first \in Nat /\ S.last \in Nat
        /\ S.had \subseteq Event /\ S.reached \in Nat /\ S.at \in Nat
        /\ S.todo \subseteq Event /\ S.size \in Nat /\ S.sent \in Nat
        /\ S.pipe \in Seq(Response)
    BY DEF Stream
  <1>2. Len(S.pipe) \in Nat /\ \A i \in 1 .. Len(S.pipe) : S.pipe[i] \in Response
    BY <1>1, LenProperties
  <1>3. QED
    BY <1>1, <1>2 DEF Response

(* The graphs grow and events are created: what was sound stays so.        *)
LEMMA SoundGrows ==
    ASSUME NEW S \in Stream, NEW R \in Rounds, NEW Q \in Rounds,
           NEW K \in KnownSets, NEW L \in KnownSets, Sound(S, R, K),
           \A e \in Event : R[e] > 0 => Q[e] = R[e],
           K[S.client] \subseteq L[S.client],
           AtWork(S) => K[S.server] \subseteq L[S.server]
    PROVE  Sound(S, Q, L)
  <1>1. /\ \A e \in S.had : R[e] > 0 /\ Q[e] = R[e]
        /\ \A r : Due(S, Q, r) = Due(S, R, r) /\ OfRound(S, Q, r) = OfRound(S, R, r)
    BY StreamFields DEF Sound, Due, OfRound
  <1>2. \A n : Got(S, K, n) \subseteq Got(S, L, n)
    BY DEF Got
  <1>3. ASSUME NEW i \in 1 .. Len(S.pipe)
        PROVE  Entry(S, Q, L, i)
    <2>1. Entry(S, R, K, i)
      BY DEF Sound
    <2>2. CASE S.pipe[i].event = NoEvent
      BY <1>1, <1>2, <2>1, <2>2 DEF Entry
    <2>3. CASE S.pipe[i].event # NoEvent
      <3>1. R[S.pipe[i].event] > 0
        BY <2>1, <2>3 DEF Entry
      <3>2. Q[S.pipe[i].event] = R[S.pipe[i].event]
        BY <2>3, <3>1, StreamFields
      <3>3. QED
        BY <1>1, <1>2, <2>1, <2>3, <3>2 DEF Entry
    <2>4. QED
      BY <2>2, <2>3
  <1>4. AtWork(S) => Work(S, Q, L)
    <2> SUFFICES ASSUME AtWork(S) PROVE Work(S, Q, L)
      OBVIOUS
    <2>1. Work(S, R, K)
      BY DEF Sound
    <2>2. \A e \in S.todo : Q[e] = S.at /\ Q[e] > 0
      BY <2>1, StreamFields DEF Work
    <2>3. QED
      BY <1>1, <1>2, <2>1, <2>2 DEF Work
  <1>5. /\ Due(S, Q, S.reached) \subseteq L[S.client]
        /\ S.phase = "complete" => S.sent >= Limit \/ Due(S, Q, S.last) \subseteq L[S.client]
    BY <1>1 DEF Sound
  <1>6. QED
    BY <1>1, <1>3, <1>4, <1>5 DEF Sound

(* A request: nothing is due yet.                                          *)
LEMMA RequestSound ==
    ASSUME NEW S \in Stream, NEW R \in Rounds, NEW K \in KnownSets,
           \A n \in Node : \A e \in K[n] : R[e] > 0,
           S.client # S.server, S.had = K[S.server], S.reached = S.first, S.at = S.first,
           S.todo = {},
           S.pipe = <<>>, S.phase = "running"
    PROVE  Sound(S, R, K)
  <1>1. /\ S.server \in Node /\ S.had \subseteq Event /\ S.first \in Nat
        /\ \A e \in S.had : R[e] \in Nat
    BY StreamFields DEF Rounds
  <1>2. Due(S, R, S.first) = {}
    BY <1>1 DEF Due
  <1>3. Len(S.pipe) = 0
    BY EmptySeq
  <1>4. \A i \in 1 .. Len(S.pipe) : Entry(S, R, K, i)
    BY <1>3
  <1>5. Work(S, R, K)
    BY <1>2 DEF Work
  <1>6. QED
    BY <1>1, <1>2, <1>4, <1>5 DEF Sound

(* The session ends with nothing read, or the server stops serving.        *)
LEMMA ClosedSound ==
    ASSUME NEW S \in Stream, NEW T \in Stream, NEW R, NEW K, Sound(S, R, K),
           T.client = S.client, T.server = S.server, T.first = S.first, T.last = S.last,
           T.had = S.had, T.reached = S.reached, T.sent = S.sent,
           T.pipe = S.pipe \/ T.pipe = <<>>,
           T.phase # "complete" \/ T.phase = S.phase, ~ AtWork(T)
    PROVE  Sound(T, R, K)
  <1>1. \A r : Due(T, R, r) = Due(S, R, r)
    BY DEF Due
  <1>2. \A i \in 1 .. Len(T.pipe) : Entry(T, R, K, i)
    <2>1. CASE T.pipe = <<>>
      BY <2>1, EmptySeq
    <2>2. CASE T.pipe = S.pipe
      <3>1. \A n : Got(T, K, n) = Got(S, K, n)
        BY <2>2 DEF Got, Ids
      <3>2. \A i \in 1 .. Len(T.pipe) : Entry(S, R, K, i)
        BY <2>2 DEF Sound
      <3>3. QED
        BY <1>1, <2>2, <3>1, <3>2 DEF Entry
    <2>3. QED
      BY <2>1, <2>2
  <1>3. QED
    BY <1>1, <1>2 DEF Sound

(* A response is added behind those under way.                             *)
LEMMA IdsAppend ==
    ASSUME NEW S \in Stream, NEW T \in Stream, NEW resp \in Response,
           T.pipe = Append(S.pipe, resp)
    PROVE  /\ Len(T.pipe) = Len(S.pipe) + 1
           /\ \A i \in 1 .. Len(S.pipe) : T.pipe[i] = S.pipe[i]
           /\ T.pipe[Len(S.pipe) + 1] = resp
           /\ \A n \in 0 .. Len(S.pipe) : Ids(T, n) = Ids(S, n)
           /\ Ids(T, Len(S.pipe) + 1) = Ids(S, Len(S.pipe)) \cup {resp.event}
  <1>1. S.pipe \in Seq(Response) /\ Len(S.pipe) \in Nat
    BY StreamFields
  <1>2. /\ Len(T.pipe) = Len(S.pipe) + 1
        /\ \A i \in 1 .. Len(S.pipe) : T.pipe[i] = S.pipe[i]
        /\ T.pipe[Len(S.pipe) + 1] = resp
    BY <1>1, AppendProperties
  <1>3. \A n \in 0 .. Len(S.pipe) : Ids(T, n) = Ids(S, n)
    BY <1>1, <1>2 DEF Ids
  <1>4. Ids(T, Len(S.pipe) + 1) = Ids(S, Len(S.pipe)) \cup {resp.event}
    <2>1. \A i : i \in 1 .. Len(S.pipe) + 1 <=> i \in 1 .. Len(S.pipe) \/ i = Len(S.pipe) + 1
      BY <1>1
    <2>2. QED
      BY <1>2, <2>1 DEF Ids
  <1>5. QED
    BY <1>2, <1>3, <1>4

(* The first response is taken from those under way.                       *)
LEMMA IdsTail ==
    ASSUME NEW S \in Stream, NEW T \in Stream, S.pipe # <<>>, T.pipe = Tail(S.pipe)
    PROVE  /\ Len(S.pipe) \in Nat /\ Len(T.pipe) = Len(S.pipe) - 1
           /\ \A i \in 1 .. Len(T.pipe) : T.pipe[i] = S.pipe[i + 1]
           /\ \A n \in 0 .. Len(T.pipe) : Ids(S, n + 1) = Ids(T, n) \cup {S.pipe[1].event}
  <1>1. S.pipe \in Seq(Response)
    BY StreamFields
  <1>2. /\ Len(S.pipe) \in Nat /\ Len(T.pipe) = Len(S.pipe) - 1 /\ Len(S.pipe) > 0
        /\ \A i \in 1 .. Len(S.pipe) - 1 : T.pipe[i] = S.pipe[i + 1]
    BY <1>1, TailFacts
  <1>3. ASSUME NEW n \in 0 .. Len(T.pipe)
        PROVE  Ids(S, n + 1) = Ids(T, n) \cup {S.pipe[1].event}
    <2>1. \A i \in 1 .. n : i + 1 \in 1 .. n + 1 /\ T.pipe[i] = S.pipe[i + 1]
      BY <1>2
    <2>2. \A i \in 1 .. n + 1 : i = 1 \/ (i - 1 \in 1 .. n /\ T.pipe[i - 1] = S.pipe[i])
      BY <1>2
    <2>3. 1 \in 1 .. n + 1
      BY <1>2
    <2>4. QED
      BY <2>1, <2>2, <2>3 DEF Ids
  <1>4. QED
    BY <1>2, <1>3

(* The next round is looked up: it is sent from here, or is empty.         *)
LEMMA NextRoundSound ==
    ASSUME NEW S \in Stream, NEW T \in Stream, NEW R \in Rounds, NEW K \in KnownSets,
           Sound(S, R, K), \A e \in K[S.server] : R[e] > 0, AtWork(S), S.todo = {},
           T.client = S.client, T.server = S.server, T.first = S.first, T.last = S.last,
           T.had = S.had, T.phase = S.phase, T.reached = S.reached, T.serving = S.serving,
           T.sent = S.sent, T.pipe = S.pipe,
           T.todo = {e \in K[S.server] : R[e] = S.at},
           T.at = IF T.todo = {} THEN S.at + 1 ELSE S.at
    PROVE  Sound(T, R, K)
  <1>1. /\ S.server \in Node /\ S.had \subseteq Event /\ S.at \in Nat
        /\ \A e \in S.had : R[e] \in Nat
    BY StreamFields DEF Rounds
  <1>2. Work(S, R, K)
    BY DEF Sound
  <1>3. \A r : Due(T, R, r) = Due(S, R, r) /\ OfRound(T, R, r) = OfRound(S, R, r)
    BY DEF Due, OfRound
  <1>4. \A n : Got(T, K, n) = Got(S, K, n)
    BY DEF Got, Ids
  <1>5. \A i \in 1 .. Len(T.pipe) : Entry(T, R, K, i)
    <2>1. \A i \in 1 .. Len(T.pipe) : Entry(S, R, K, i)
      BY DEF Sound
    <2>2. QED
      BY <1>3, <1>4, <2>1 DEF Entry
  <1>6. OfRound(S, R, S.at) \subseteq T.todo
    BY <1>2 DEF OfRound, Work
  <1>7. Work(T, R, K)
    <2>1. CASE T.todo = {}
      <3>1. Due(S, R, S.at + 1) = Due(S, R, S.at) \cup {e \in OfRound(S, R, S.at) : S.first <= R[e]}
        BY <1>1 DEF Due, OfRound
      <3>2. Due(S, R, S.at + 1) \subseteq Got(S, K, Len(S.pipe))
        BY <1>2, <1>6, <2>1, <3>1 DEF Work
      <3>3. QED
        BY <1>2, <1>3, <1>4, <2>1, <3>2 DEF Work
    <2>2. CASE T.todo # {}
      <3>1. \A e \in T.todo : R[e] = S.at /\ R[e] > 0
        OBVIOUS
      <3>2. QED
        BY <1>2, <1>3, <1>4, <1>6, <2>2, <3>1 DEF Work
    <2>3. QED
      BY <2>1, <2>2
  <1>8. QED
    BY <1>3, <1>5, <1>7 DEF Sound, AtWork

(* An event of the round is sent.                                          *)
LEMMA SendEventSound ==
    ASSUME NEW S \in Stream, NEW T \in Stream, NEW R \in Rounds, NEW K \in KnownSets,
           Sound(S, R, K), AtWork(S), NEW e \in S.todo, e # NoEvent,
           T.client = S.client, T.server = S.server, T.first = S.first, T.last = S.last,
           T.had = S.had, T.phase = S.phase, T.reached = S.reached, T.serving = S.serving,
           T.sent = S.sent + 1, T.todo = S.todo \ {e},
           T.pipe = Append(S.pipe, [event |-> e, hasMore |-> HasMore(S)]),
           T.at = IF S.todo = {e} THEN S.at + 1 ELSE S.at
    PROVE  Sound(T, R, K)
  <1>1. /\ S.client \in Node /\ S.had \subseteq Event /\ S.at \in Nat /\ S.last \in Nat
        /\ S.sent \in Nat /\ S.size \in Nat /\ S.todo \subseteq Event /\ Len(S.pipe) \in Nat
        /\ \A x \in S.had : R[x] \in Nat
    BY StreamFields DEF Rounds
  <1>2. Work(S, R, K)
    BY DEF Sound
  <1>3. \A r : Due(T, R, r) = Due(S, R, r) /\ OfRound(T, R, r) = OfRound(S, R, r)
    BY DEF Due, OfRound
  <1> DEFINE resp == [event |-> e, hasMore |-> HasMore(S)]
             n == Len(S.pipe)
  <1>4. resp \in Response /\ resp.event = e /\ resp.hasMore = HasMore(S)
    BY <1>1 DEF Response, HasMore
  <1> HIDE DEF resp
  <1>5. /\ Len(T.pipe) = n + 1
        /\ \A i \in 1 .. n : T.pipe[i] = S.pipe[i]
        /\ T.pipe[n + 1] = resp
        /\ \A i \in 0 .. n : Ids(T, i) = Ids(S, i)
        /\ Ids(T, n + 1) = Ids(S, n) \cup {resp.event}
    <2>1. T.pipe = Append(S.pipe, resp)
      BY DEF resp
    <2>2. QED
      BY <1>4, <2>1, IdsAppend
  <1> HIDE DEF n
  <1>6. /\ \A i \in 0 .. n : Got(T, K, i) = Got(S, K, i)
        /\ Got(T, K, n + 1) = Got(S, K, n) \cup {e}
    BY <1>4, <1>5 DEF Got
  <1>7. R[e] = S.at /\ R[e] > 0
    BY <1>2 DEF Work
  <1>8. n \in Nat /\ Due(S, R, S.at) \subseteq Got(S, K, n)
    BY <1>1, <1>2 DEF Work, n
  <1>9. ASSUME NEW i \in 1 .. Len(T.pipe)
        PROVE  Entry(T, R, K, i)
    <2>1. CASE i = n + 1
      <3>1. T.pipe[i].event = e /\ i - 1 = n
        BY <1>4, <1>5, <1>8, <2>1
      <3>2. ~ T.pipe[i].hasMore => R[e] >= S.last
        <4>1. ~ HasMore(S) => S.at >= S.last
          BY <1>1 DEF HasMore
        <4>2. T.pipe[i].hasMore = HasMore(S)
          BY <1>4, <1>5, <2>1, Zenon
        <4>3. QED
          BY <1>7, <4>1, <4>2, Zenon
      <3>3. Due(T, R, R[e]) \subseteq Got(T, K, n)
        BY <1>3, <1>6, <1>7, <1>8
      <3>4. QED
        BY <1>7, <3>1, <3>2, <3>3 DEF Entry
    <2>2. CASE i # n + 1
      <3>1. i \in 1 .. n /\ i - 1 \in 0 .. n
        BY <1>5, <1>8, <2>2
      <3>2. Entry(S, R, K, i)
        BY <3>1 DEF Sound, n
      <3>3. T.pipe[i] = S.pipe[i] /\ Got(T, K, i - 1) = Got(S, K, i - 1)
        BY <1>5, <1>6, <3>1
      <3>4. T.sent >= Limit \/ ~ S.sent >= Limit
        BY <1>1, SyncAssumption
      <3>5. QED
        BY <1>3, <3>2, <3>3, <3>4 DEF Entry
    <2>3. QED
      BY <2>1, <2>2
  <1>10. Work(T, R, K)
    <2>1. S.todo # {}
      OBVIOUS
    <2>2. OfRound(S, R, S.at) \subseteq S.todo \cup Got(S, K, n)
      BY <1>2, <2>1 DEF Work, n
    <2>3. CASE S.todo = {e}
      <3>1. T.todo = {} /\ T.at = S.at + 1
        BY <2>3
      <3>2. Due(S, R, S.at + 1) = Due(S, R, S.at) \cup {x \in OfRound(S, R, S.at) : S.first <= R[x]}
        BY <1>1, StreamFields DEF Due, OfRound
      <3>3. Due(T, R, T.at) \subseteq Got(T, K, n + 1)
        BY <1>3, <1>6, <1>8, <2>2, <2>3, <3>1, <3>2
      <3>4. QED
        BY <1>2, <1>5, <3>1, <3>3 DEF Work
    <2>4. CASE S.todo # {e}
      <3>1. T.at = S.at
        BY <2>4
      <3>2. OfRound(T, R, T.at) \subseteq T.todo \cup Got(T, K, n + 1)
        BY <1>3, <1>6, <2>2, <3>1
      <3>3. Due(T, R, T.at) \subseteq Got(T, K, n + 1)
        BY <1>3, <1>6, <1>8, <3>1
      <3>4. \A x \in T.todo : R[x] = T.at /\ R[x] > 0
        BY <1>2, <3>1 DEF Work
      <3>5. T.had \subseteq K[T.server]
        BY <1>2 DEF Work
      <3>6. QED
        BY <1>5, <3>2, <3>3, <3>4, <3>5 DEF Work
    <2>5. QED
      BY <2>3, <2>4
  <1>11. QED
    BY <1>3, <1>9, <1>10 DEF Sound, AtWork

(* The last response: the server is past the range, or at the limit.       *)
LEMMA SendLastSound ==
    ASSUME NEW S \in Stream, NEW T \in Stream, NEW R \in Rounds, NEW K \in KnownSets,
           Sound(S, R, K), AtWork(S), S.at > S.last \/ S.sent >= Limit,
           T.client = S.client, T.server = S.server, T.first = S.first, T.last = S.last,
           T.had = S.had, T.phase = S.phase, T.reached = S.reached, T.sent = S.sent,
           T.serving = "closed",
           T.pipe = Append(S.pipe, [event |-> NoEvent, hasMore |-> FALSE])
    PROVE  Sound(T, R, K)
  <1>1. /\ S.client \in Node /\ S.had \subseteq Event /\ S.at \in Nat /\ S.last \in Nat
        /\ S.first \in Nat /\ \A x \in S.had : R[x] \in Nat
    BY StreamFields DEF Rounds
  <1>2. Work(S, R, K)
    BY DEF Sound
  <1>3. \A r : Due(T, R, r) = Due(S, R, r)
    BY DEF Due
  <1> DEFINE resp == [event |-> NoEvent, hasMore |-> FALSE]
             n == Len(S.pipe)
  <1>4. resp \in Response /\ resp.event = NoEvent
    BY DEF Response
  <1> HIDE DEF resp
  <1>5. /\ Len(T.pipe) = n + 1
        /\ \A i \in 1 .. n : T.pipe[i] = S.pipe[i]
        /\ T.pipe[n + 1] = resp
        /\ \A i \in 0 .. n : Ids(T, i) = Ids(S, i)
    <2>1. T.pipe = Append(S.pipe, resp)
      BY DEF resp
    <2>2. QED
      BY <1>4, <2>1, IdsAppend
  <1>6. n \in Nat /\ Due(S, R, S.at) \subseteq Got(S, K, n)
    BY <1>2, StreamFields DEF Work
  <1> HIDE DEF n
  <1>7. \A i \in 0 .. n : Got(T, K, i) = Got(S, K, i)
    BY <1>5 DEF Got
  <1>8. ASSUME NEW i \in 1 .. Len(T.pipe)
        PROVE  Entry(T, R, K, i)
    <2>1. CASE i = n + 1
      <3>1. T.pipe[i].event = NoEvent /\ i - 1 = n
        BY <1>4, <1>5, <1>6, <2>1
      <3>2. S.at > S.last => Due(S, R, S.last) \subseteq Due(S, R, S.at)
        BY <1>1 DEF Due
      <3>3. T.sent >= Limit \/ Due(T, R, T.last) \subseteq Got(T, K, n)
        BY <1>3, <1>6, <1>7, <3>2
      <3>4. QED
        BY <3>1, <3>3 DEF Entry
    <2>2. CASE i # n + 1
      <3>1. i \in 1 .. n /\ i - 1 \in 0 .. n
        BY <1>5, <1>6, <2>2
      <3>2. Entry(S, R, K, i)
        BY <3>1 DEF Sound, n
      <3>3. T.pipe[i] = S.pipe[i] /\ Got(T, K, i - 1) = Got(S, K, i - 1)
        BY <1>5, <1>7, <3>1
      <3>4. QED
        BY <1>3, <3>2, <3>3 DEF Entry
    <2>3. QED
      BY <2>1, <2>2
  <1>9. QED
    BY <1>3, <1>8 DEF Sound, AtWork

(* The client takes the first response into its graph, and goes on or      *)
(* closes the session, which then is complete.                             *)
LEMMA ReadSound ==
    ASSUME NEW S \in Stream, NEW T \in Stream, NEW R \in Rounds,
           NEW K \in KnownSets, NEW L \in KnownSets, Sound(S, R, K),
           S.phase = "running", S.pipe # <<>>, NEW resp, resp = S.pipe[1],
           T.client = S.client, T.server = S.server, T.first = S.first, T.last = S.last,
           T.had = S.had, T.sent = S.sent, T.at = S.at,
           T.reached = IF resp.event = NoEvent THEN S.reached ELSE R[resp.event],
           L[S.client] = K[S.client] \cup ({resp.event} \ {NoEvent}),
           K[S.server] \subseteq L[S.server],
           \/ /\ resp.hasMore
              /\ T.pipe = Tail(S.pipe) /\ T.phase = S.phase /\ T.serving = S.serving
              /\ T.todo = S.todo
           \/ ~ resp.hasMore /\ T.pipe = <<>> /\ T.phase = "complete"
    PROVE  Sound(T, R, L)
  <1>1. /\ S.client \in Node /\ S.had \subseteq Event /\ S.at \in Nat /\ S.last \in Nat
        /\ S.first \in Nat /\ \A x \in S.had : R[x] \in Nat /\ x # NoEvent
        /\ resp.event \in Event => R[resp.event] \in Nat
    BY StreamFields, SyncAssumption DEF Rounds
  <1>2. \A r : Due(T, R, r) = Due(S, R, r) /\ OfRound(T, R, r) = OfRound(S, R, r)
    BY DEF Due, OfRound
  <1>3. 1 \in 1 .. Len(S.pipe)
    BY StreamFields, TailFacts
  <1>4. /\ Entry(S, R, K, 1) /\ Got(S, K, 0) = K[S.client]
        /\ resp.event \in Event \cup {NoEvent}
    <2>1. Entry(S, R, K, 1)
      BY <1>3 DEF Sound
    <2>2. Ids(S, 0) = {}
      BY DEF Ids
    <2>3. QED
      BY <1>3, <2>1, <2>2, StreamFields DEF Got
  <1>5. IF resp.event = NoEvent
        THEN S.sent >= Limit \/ Due(S, R, S.last) \subseteq K[S.client]
        ELSE /\ Due(S, R, R[resp.event]) \subseteq K[S.client]
             /\ ~ resp.hasMore => R[resp.event] >= S.last
    BY <1>4 DEF Entry
  <1>6. Due(T, R, T.reached) \subseteq L[T.client]
    BY <1>2, <1>5 DEF Sound
  <1>7. CASE resp.hasMore
    <2>1. /\ T.pipe = Tail(S.pipe) /\ T.phase = S.phase /\ T.serving = S.serving
          /\ T.todo = S.todo
      BY <1>7
    <2>2. /\ Len(S.pipe) \in Nat /\ Len(T.pipe) = Len(S.pipe) - 1
          /\ \A i \in 1 .. Len(T.pipe) : T.pipe[i] = S.pipe[i + 1]
          /\ \A n \in 0 .. Len(T.pipe) : Ids(S, n + 1) = Ids(T, n) \cup {S.pipe[1].event}
      BY <2>1, IdsTail
    <2>3. ASSUME NEW n \in 0 .. Len(T.pipe), NEW X \in SUBSET S.had
          PROVE  X \subseteq Got(S, K, n + 1) => X \subseteq Got(T, L, n)
      BY <1>1, <2>2 DEF Got
    <2>4. ASSUME NEW i \in 1 .. Len(T.pipe)
          PROVE  Entry(T, R, L, i)
      <3>1. /\ i + 1 \in 1 .. Len(S.pipe) /\ i - 1 \in 0 .. Len(T.pipe)
            /\ (i + 1) - 1 = (i - 1) + 1
        BY <2>2
      <3>2. Entry(S, R, K, i + 1)
        BY <3>1 DEF Sound
      <3>3. \A r : Due(S, R, r) \subseteq Got(S, K, (i + 1) - 1)
                       => Due(T, R, r) \subseteq Got(T, L, i - 1)
        <4>1. \A r : Due(S, R, r) \in SUBSET S.had
          BY DEF Due
        <4>2. QED
          BY <1>2, <2>3, <3>1, <4>1
      <3>4. T.pipe[i] = S.pipe[i + 1]
        BY <2>2
      <3>5. QED
        BY <3>2, <3>3, <3>4 DEF Entry
    <2>5. AtWork(T) => Work(T, R, L)
      <3> SUFFICES ASSUME AtWork(T) PROVE Work(T, R, L)
        OBVIOUS
      <3>1. Work(S, R, K)
        BY <2>1 DEF Sound, AtWork
      <3>2. Len(T.pipe) \in 0 .. Len(T.pipe) /\ Len(S.pipe) = Len(T.pipe) + 1
        BY <2>2, StreamFields
      <3>3. Due(T, R, T.at) \subseteq Got(T, L, Len(T.pipe))
        <4>1. Due(S, R, S.at) \in SUBSET S.had
          BY DEF Due
        <4>2. QED
          BY <1>2, <2>3, <3>1, <3>2, <4>1 DEF Work
      <3>4. T.todo # {} => OfRound(T, R, T.at) \subseteq T.todo \cup Got(T, L, Len(T.pipe))
        <4>1. OfRound(S, R, S.at) \ S.todo \in SUBSET S.had
          BY DEF OfRound
        <4>2. S.todo # {} => OfRound(S, R, S.at) \ S.todo \subseteq Got(S, K, Len(S.pipe))
          BY <3>1 DEF Work
        <4>3. S.todo # {} => OfRound(S, R, S.at) \ S.todo \subseteq Got(T, L, Len(T.pipe))
          BY <2>3, <3>2, <4>1, <4>2
        <4>4. QED
          BY <1>2, <2>1, <4>3
      <3>5. QED
        BY <2>1, <3>1, <3>3, <3>4 DEF Work
    <2>6. T.phase # "complete"
      BY <2>1
    <2>7. QED
      BY <1>6, <2>4, <2>5, <2>6 DEF Sound
  <1>8. CASE ~ resp.hasMore
    <2>1. T.pipe = <<>> /\ T.phase = "complete"
      BY <1>8
    <2>2. T.sent >= Limit \/ Due(T, R, T.last) \subseteq L[T.client]
      <3>1. CASE resp.event = NoEvent
        BY <1>2, <1>5, <3>1
      <3>2. CASE resp.event # NoEvent
        <4>1. R[resp.event] >= S.last /\ R[resp.event] \in Nat
          BY <1>1, <1>4, <1>5, <1>8, <3>2
        <4>2. Due(S, R, S.last) \subseteq Due(S, R, R[resp.event])
          BY <1>1, <4>1 DEF Due
        <4>3. QED
          BY <1>2, <1>5, <3>2, <4>2
      <3>3. QED
        BY <3>1, <3>2
    <2>3. \A i \in 1 .. Len(T.pipe) : Entry(T, R, L, i)
      BY <2>1, EmptySeq
    <2>4. QED
      BY <1>6, <2>1, <2>2, <2>3 DEF Sound, AtWork
  <1>9. QED
    BY <1>7, <1>8

----------------------------------------------------------------------------
(***************************************************************************)
(* Lemmas about the state.                                                 *)
(***************************************************************************)

(* The rounds of finitely many events are bounded.                         *)
LEMMA RoundsBounded ==
    ASSUME NEW R \in Rounds, NEW E \in SUBSET Event
    PROVE  \E b \in Nat : \A e \in E : R[e] <= b
  <1> DEFINE Good == {s \in SUBSET Event : \E b \in Nat : \A e \in s : R[e] <= b}
  <1>1. {} \in Good
    OBVIOUS
  <1>2. ASSUME NEW s \in SUBSET Event, s # {}, s \ {Chosen(s)} \in Good
        PROVE  s \in Good
    <2>1. PICK c : c = Chosen(s)
      OBVIOUS
    <2>2. c \in s /\ c \in Event
      BY <1>2, <2>1 DEF Chosen
    <2>3. PICK b \in Nat : \A e \in s \ {c} : R[e] <= b
      BY <1>2, <2>1
    <2>4. R[c] \in Nat /\ \A e \in s : R[e] \in Nat
      BY <2>2 DEF Rounds
    <2>5. R[c] + b \in Nat /\ \A e \in s : R[e] <= R[c] + b
      BY <2>3, <2>4
    <2>6. QED
      BY <2>5
  <1> HIDE DEF Good
  <1>3. SUBSET Event \subseteq Good
    BY <1>1, <1>2, SyncAssumption, SubsetInduction
  <1>4. QED
    BY <1>3 DEF Good

(* The current round of a node is a number.                                *)
LEMMA CurrentRoundTyped ==
    ASSUME TypeOK, NEW n \in Node
    PROVE  CurrentRound(n) \in Nat
  <1>1. PICK E, R : E = known[n] /\ R = round
    OBVIOUS
  <1>2. E \in SUBSET Event /\ R \in Rounds
    BY <1>1 DEF TypeOK, Rounds
  <1>3. PICK b \in Nat : \A e \in E : R[e] <= b
    BY <1>2, RoundsBounded
  <1> DEFINE X == {0} \cup {R[e] : e \in E}
  <1>4. X \in SUBSET (0 .. b) /\ X # {}
    BY <1>2, <1>3 DEF Rounds
  <1>5. Max(X) \in X
    <2> HIDE DEF X
    <2>1. QED
      BY <1>4, MaxOfInterval
  <1>6. Max(X) \in Nat
    BY <1>4, <1>5
  <1>7. QED
    BY <1>1, <1>6 DEF CurrentRound

(* A stream in use.                                                        *)
LEMMA InUse ==
    ASSUME TypeOK, NEW s \in Session,
           sessions[s] # Unused \/ sessions[s].phase = "running"
    PROVE  sessions[s] \in Stream
  BY DEF TypeOK, Unused

(* A step that leaves the streams alone, and makes the graphs grow.        *)
LEMMA SessionsKept ==
    ASSUME SyncInv, TypeOK', Created', sessions' = sessions,
           \A e \in Event : round[e] > 0 => round'[e] = round[e],
           \A n \in Node : known[n] \subseteq known'[n]
    PROVE  SyncInv'
  <1>1. ASSUME NEW s \in Session, sessions[s] # Unused
        PROVE  Sound(sessions[s], round', known')
    <2>1. PICK S, R, Q, K, L :
              S = sessions[s] /\ R = round /\ Q = round' /\ K = known /\ L = known'
      OBVIOUS
    <2>2. S \in Stream /\ S.client \in Node /\ S.server \in Node
      BY <1>1, <2>1, InUse, StreamFields DEF SyncInv
    <2>3. /\ R \in Rounds /\ Q \in Rounds /\ K \in KnownSets /\ L \in KnownSets
          /\ Sound(S, R, K)
          /\ \A e \in Event : R[e] > 0 => Q[e] = R[e]
          /\ K[S.client] \subseteq L[S.client] /\ K[S.server] \subseteq L[S.server]
      BY <1>1, <2>1, <2>2 DEF SyncInv, TypeOK, Rounds, KnownSets
    <2>4. Sound(S, Q, L)
      BY <2>2, <2>3, SoundGrows
    <2>5. QED
      BY <2>1, <2>4
  <1>2. QED
    BY <1>1 DEF SyncInv

(* A step of one stream.                                                   *)
LEMMA OneSession ==
    ASSUME SyncInv, TypeOK', Created', NEW s \in Session,
           \A u \in Session : u # s => sessions'[u] = sessions[u],
           round' = round, \A n \in Node : known[n] \subseteq known'[n],
           Sound(sessions'[s], round, known')
    PROVE  SyncInv'
  <1>1. ASSUME NEW u \in Session, u # s, sessions[u] # Unused
        PROVE  Sound(sessions[u], round, known')
    <2>1. PICK S, R, K, L : S = sessions[u] /\ R = round /\ K = known /\ L = known'
      OBVIOUS
    <2>2. S \in Stream /\ S.client \in Node /\ S.server \in Node
      BY <1>1, <2>1, InUse, StreamFields DEF SyncInv
    <2>3. /\ R \in Rounds /\ K \in KnownSets /\ L \in KnownSets
          /\ Sound(S, R, K)
          /\ K[S.client] \subseteq L[S.client] /\ K[S.server] \subseteq L[S.server]
      BY <1>1, <2>1, <2>2 DEF SyncInv, TypeOK, Rounds, KnownSets
    <2>4. Sound(S, R, L)
      BY <2>2, <2>3, SoundGrows
    <2>5. QED
      BY <2>1, <2>4
  <1>2. QED
    BY <1>1 DEF SyncInv

----------------------------------------------------------------------------
(***************************************************************************)
(* Gossip.                                                                 *)
(***************************************************************************)

(* An event is created above the rounds of its creator's graph.            *)
LEMMA CreateKeeps ==
    ASSUME SyncInv, NEW n \in Node, Create(n)
    PROVE  SyncInv'
  <1>1. PICK e \in Event :
            /\ round[e] = 0
            /\ round' = [round EXCEPT ![e] = CurrentRound(n) + 1]
            /\ known' = [known EXCEPT ![n] = @ \cup {e}]
            /\ stored' = [stored EXCEPT ![n] = @ \cup {e}]
            /\ UNCHANGED <<eventChan, marks, sessions, faults>>
    BY DEF Create
  <1>2. PICK r : r = CurrentRound(n) + 1
    OBVIOUS
  <1>3. r \in Nat /\ r > 0
    BY <1>2, CurrentRoundTyped DEF SyncInv
  <1>4. TypeOK'
    BY <1>1, <1>2, <1>3 DEF SyncInv, TypeOK
  <1>5. /\ round'[e] > 0
        /\ \A x \in Event : round[x] > 0 => round'[x] = round[x]
    BY <1>1, <1>2, <1>3 DEF SyncInv, TypeOK
  <1>6. \A x \in Event : round[x] > 0 => round'[x] > 0
    BY <1>5
  <1>7. Created'
    <2>1. \A m \in Node : known'[m] \subseteq known[m] \cup {e}
      BY <1>1 DEF SyncInv, TypeOK
    <2>2. \A m \in Node : \A i \in 1 .. Len(eventChan[m]) : eventChan[m][i] \in Event
      BY LenProperties DEF SyncInv, TypeOK
    <2>3. \A m \in Node : known[m] \subseteq Event
      BY DEF SyncInv, TypeOK
    <2>4. \A m \in Node : \A x \in known'[m] : round'[x] > 0
      BY <1>5, <1>6, <2>1, <2>3 DEF SyncInv, Created
    <2>5. \A m \in Node : \A i \in 1 .. Len(eventChan[m]) : round'[eventChan[m][i]] > 0
      BY <1>6, <2>2 DEF SyncInv, Created
    <2>6. QED
      BY <1>1, <2>4, <2>5 DEF Created
  <1>8. \A m \in Node : known[m] \subseteq known'[m]
    BY <1>1 DEF SyncInv, TypeOK
  <1>9. QED
    BY <1>1, <1>4, <1>5, <1>7, <1>8, SessionsKept

(* An event of another node is received.                                   *)
LEMMA GossipKeeps ==
    ASSUME SyncInv, NEW n \in Node, NEW e \in Event, HandleEventMessage(n, e)
    PROVE  SyncInv'
  <1>1. PICK c, d : c = eventChan[n] /\ d = Append(c, e)
    OBVIOUS
  <1>2. c \in Seq(Event) /\ d \in Seq(Event) /\ \A i \in 1 .. Len(d) : round[d[i]] > 0
    <2>1. c \in Seq(Event) /\ \A i \in 1 .. Len(c) : round[c[i]] > 0
      BY <1>1 DEF SyncInv, Created, TypeOK
    <2>2. /\ d \in Seq(Event) /\ Len(d) = Len(c) + 1 /\ d[Len(c) + 1] = e
          /\ \A i \in 1 .. Len(c) : d[i] = c[i]
      BY <1>1, <2>1, AppendProperties
    <2>3. Len(c) \in Nat
      BY <2>1, LenProperties
    <2>4. QED
      BY <2>1, <2>2, <2>3 DEF HandleEventMessage
  <1>3. /\ eventChan' = [eventChan EXCEPT ![n] = d]
        /\ UNCHANGED <<round, known, stored, marks, sessions, faults>>
    BY <1>1 DEF HandleEventMessage
  <1>4. TypeOK'
    BY <1>2, <1>3 DEF SyncInv, TypeOK
  <1>5. Created'
    BY <1>2, <1>3 DEF SyncInv, TypeOK, Created
  <1>6. QED
    BY <1>3, <1>4, <1>5, SessionsKept

(* An event received is added to the graph.                                *)
LEMMA EventLoopKeeps ==
    ASSUME SyncInv, NEW n \in Node, EventLoop(n)
    PROVE  SyncInv'
  <1>1. PICK c, d, e : c = eventChan[n] /\ d = Tail(c) /\ e = Head(c)
    OBVIOUS
  <1>2. /\ eventChan' = [eventChan EXCEPT ![n] = d]
        /\ known' = [known EXCEPT ![n] = @ \cup {e}]
        /\ UNCHANGED <<round, stored, marks, sessions, faults>>
    BY <1>1 DEF EventLoop
  <1>3. c \in Seq(Event) /\ c # <<>> /\ \A i \in 1 .. Len(c) : round[c[i]] > 0
    BY <1>1 DEF SyncInv, Created, TypeOK, EventLoop
  <1>4. /\ Len(c) \in Nat /\ Len(c) > 0 /\ e = c[1] /\ d \in Seq(Event) /\ Len(d) = Len(c) - 1
        /\ \A i \in 1 .. Len(c) - 1 : d[i] = c[i + 1]
    BY <1>1, <1>3, TailFacts
  <1>5. e \in Event /\ round[e] > 0
    BY <1>3, <1>4, LenProperties
  <1>6. \A i \in 1 .. Len(d) : round[d[i]] > 0
    BY <1>3, <1>4
  <1>7. TypeOK'
    BY <1>2, <1>4, <1>5 DEF SyncInv, TypeOK
  <1>8. Created'
    BY <1>2, <1>5, <1>6 DEF SyncInv, TypeOK, Created
  <1>9. \A m \in Node : known[m] \subseteq known'[m]
    BY <1>2 DEF SyncInv, TypeOK
  <1>10. QED
    BY <1>2, <1>7, <1>8, <1>9, SessionsKept

----------------------------------------------------------------------------
(***************************************************************************)
(* The client.                                                             *)
(***************************************************************************)

(* The marks of a node change one at a time.                               *)
LEMMA MarksTyped ==
    ASSUME TypeOK, NEW n \in Node, NEW m \in Node,
           NEW x \in {"absent", "connected", "disconnected"},
           marks' = [marks EXCEPT ![n][m] = x]
    PROVE  marks' \in [Node -> [Node -> {"absent", "connected", "disconnected"}]]
  BY DEF TypeOK

(* A stream is replaced by another, and nothing else that has a type       *)
(* changes but the marks, the graphs, the store and the count of faults.   *)
LEMMA StreamReplaced ==
    ASSUME SyncInv, NEW s \in Session, NEW T \in Stream,
           sessions' = [sessions EXCEPT ![s] = T],
           marks' \in [Node -> [Node -> {"absent", "connected", "disconnected"}]],
           known' \in KnownSets, stored' \in [Node -> SUBSET Event],
           \A n \in Node : /\ known[n] \subseteq known'[n]
                           /\ \A e \in known'[n] : round[e] > 0,
           faults' \in 0 .. MaxFaults, UNCHANGED <<round, eventChan>>,
           Sound(T, round, known')
    PROVE  SyncInv'
  <1>1. /\ sessions' \in [Session -> Stream \cup {Unused}] /\ sessions'[s] = T
        /\ \A u \in Session : u # s => sessions'[u] = sessions[u]
    BY DEF SyncInv, TypeOK
  <1>2. TypeOK'
    BY <1>1 DEF SyncInv, TypeOK, KnownSets
  <1>3. Created'
    BY DEF SyncInv, Created
  <1>4. QED
    BY <1>1, <1>2, <1>3, OneSession

(* The same, of a step that changes neither the graphs nor the store.      *)
LEMMA StreamAlone ==
    ASSUME SyncInv, NEW s \in Session, NEW T \in Stream,
           sessions' = [sessions EXCEPT ![s] = T],
           marks' \in [Node -> [Node -> {"absent", "connected", "disconnected"}]],
           faults' \in 0 .. MaxFaults, UNCHANGED <<round, known, stored, eventChan>>,
           Sound(T, round, known)
    PROVE  SyncInv'
  <1>1. /\ known' \in KnownSets /\ stored' \in [Node -> SUBSET Event]
        /\ \A n \in Node : /\ known[n] \subseteq known'[n]
                           /\ \A e \in known'[n] : round[e] > 0
    BY DEF SyncInv, TypeOK, Created, KnownSets
  <1>2. Sound(T, round, known')
    OBVIOUS
  <1>3. QED
    BY <1>1, <1>2, StreamReplaced

(* What the state gives for the lemmas about streams.                      *)
LEMMA StreamOf ==
    ASSUME SyncInv, NEW s \in Session, NEW S, S = sessions[s], S.phase = "running"
    PROVE  /\ S \in Stream /\ Sound(S, round, known)
           /\ round \in Rounds /\ known \in KnownSets
           /\ \A n \in Node : \A e \in known[n] : round[e] > 0
           /\ marks \in [Node -> [Node -> {"absent", "connected", "disconnected"}]]
           /\ faults \in 0 .. MaxFaults
  <1>1. S \in Stream /\ S # Unused
    BY InUse DEF SyncInv, Unused
  <1>2. QED
    BY <1>1 DEF SyncInv, TypeOK, Created, Rounds, KnownSets

(* A request opens a stream that is sound.                                 *)
LEMMA RequestKeeps ==
    ASSUME SyncInv, NEW s \in Session, NEW n \in Node, NEW m \in Node,
           NEW first \in Nat, NEW last \in Nat, n # m,
           Request(s, n, m, first, last),
           marks' \in [Node -> [Node -> {"absent", "connected", "disconnected"}]],
           UNCHANGED <<round, known, stored, eventChan, faults>>
    PROVE  SyncInv'
  <1>1. PICK had : had = known[m]
    OBVIOUS
  <1>2. had \subseteq Event /\ <<>> \in Seq(Response)
    BY <1>1 DEF SyncInv, TypeOK
  <1>3. PICK T : T = [client |-> n, server |-> m, first |-> first, last |-> last, had |-> had,
                      phase |-> "running", reached |-> first, serving |-> "open", at |-> first,
                      todo |-> {}, size |-> 0, sent |-> 0, pipe |-> <<>>]
    OBVIOUS
  <1>4. T \in Stream
    BY <1>2, <1>3 DEF Stream
  <1>5. /\ T.client # T.server /\ T.server = m /\ T.had = had
        /\ T.reached = T.first /\ T.at = T.first /\ T.todo = {}
        /\ T.pipe = <<>> /\ T.phase = "running"
    BY <1>3
  <1>6. /\ round \in Rounds /\ known \in KnownSets /\ faults' \in 0 .. MaxFaults
        /\ \A k \in Node : \A e \in known[k] : round[e] > 0
    BY DEF SyncInv, TypeOK, Created, Rounds, KnownSets
  <1>7. Sound(T, round, known)
    BY <1>1, <1>4, <1>5, <1>6, RequestSound
  <1>8. sessions' = [sessions EXCEPT ![s] = T]
    BY <1>1, <1>3 DEF Request
  <1>9. QED
    BY <1>4, <1>6, <1>7, <1>8, StreamAlone

(* A request for the rounds above the node's own.                          *)
LEMMA SyncWithPeersKeeps ==
    ASSUME SyncInv, NEW s \in Session, NEW n \in Node, NEW m \in Node, SyncWithPeers(s, n, m)
    PROVE  SyncInv'
  <1>1. PICK first, last : first = CurrentRound(n) + 1 /\ last = CurrentRound(n) + Window
    OBVIOUS
  <1>2. first \in Nat /\ last \in Nat
    BY <1>1, CurrentRoundTyped, SyncAssumption DEF SyncInv
  <1>3. marks' \in [Node -> [Node -> {"absent", "connected", "disconnected"}]]
    BY MarksTyped DEF SyncWithPeers, SyncInv
  <1>4. /\ n # m /\ Request(s, n, m, first, last)
        /\ UNCHANGED <<round, known, stored, eventChan, faults>>
    BY <1>1 DEF SyncWithPeers, Admitted
  <1>5. QED
    BY <1>2, <1>3, <1>4, RequestKeeps

(* A request for one of the ranges callers ask for.                        *)
LEMMA SyncWithPeerKeeps ==
    ASSUME SyncInv, NEW s \in Session, NEW n \in Node, NEW m \in Node, SyncWithPeer(s, n, m)
    PROVE  SyncInv'
  <1>1. PICK r \in Ranges : n # m /\ Request(s, n, m, r[1], r[2])
    BY DEF SyncWithPeer
  <1>2. r[1] \in Nat /\ r[2] \in Nat
    BY SyncAssumption
  <1>3. /\ marks' \in [Node -> [Node -> {"absent", "connected", "disconnected"}]]
        /\ UNCHANGED <<round, known, stored, eventChan, faults>>
    BY DEF SyncWithPeer, SyncInv, TypeOK
  <1>4. QED
    BY <1>1, <1>2, <1>3, RequestKeeps

(* No request is made: only a mark changes.                                *)
LEMMA SyncFailsKeeps ==
    ASSUME SyncInv, NEW n \in Node, NEW m \in Node, SyncFails(n, m)
    PROVE  SyncInv'
  <1>1. marks' \in [Node -> [Node -> {"absent", "connected", "disconnected"}]]
    BY MarksTyped DEF SyncFails, SyncInv
  <1>2. /\ faults' \in 0 .. MaxFaults
        /\ UNCHANGED <<round, known, stored, eventChan, sessions>>
    BY SyncAssumption DEF SyncFails, Fault, SyncInv, TypeOK
  <1>3. TypeOK' /\ Created'
    BY <1>1, <1>2 DEF SyncInv, TypeOK, Created
  <1>4. QED
    BY <1>2, <1>3, SessionsKept DEF SyncInv, TypeOK

(* The client has got to another round.                                    *)
LEMMA ReachedFields ==
    ASSUME NEW S \in Stream, NEW reached \in Nat, NEW T, T = [S EXCEPT !.reached = reached]
    PROVE  /\ T \in Stream /\ T.client = S.client /\ T.server = S.server
           /\ T.first = S.first /\ T.last = S.last /\ T.had = S.had /\ T.sent = S.sent
           /\ T.at = S.at /\ T.reached = reached /\ T.phase = S.phase /\ T.pipe = S.pipe
           /\ T.serving = S.serving
  BY DEF Stream

(* A mark that is reset is still a mark.                                   *)
LEMMA UnmarkTyped ==
    ASSUME TypeOK, NEW s \in Session, sessions[s] \in Stream, Unmark(s)
    PROVE  marks' \in [Node -> [Node -> {"absent", "connected", "disconnected"}]]
  <1>1. sessions[s].client \in Node /\ sessions[s].server \in Node
    BY StreamFields
  <1>2. QED
    BY <1>1 DEF TypeOK, Unmark

(* The session ends by its stream or its deadline.                         *)
LEMMA EndKeeps ==
    ASSUME SyncInv, NEW s \in Session, sessions[s].phase = "running",
           NEW phase \in {"cut", "failed"}, sessions' = [sessions EXCEPT ![s] = Ended(s, phase)],
           Unmark(s), UNCHANGED <<round, known, stored, eventChan, faults>>
    PROVE  SyncInv'
  <1>1. PICK S, T : S = sessions[s] /\ T = Ended(s, phase)
    OBVIOUS
  <1>2. /\ S \in Stream /\ Sound(S, round, known)
        /\ faults' \in 0 .. MaxFaults
    BY <1>1, StreamOf
  <1>3. /\ T \in Stream /\ T.client = S.client /\ T.server = S.server
        /\ T.first = S.first /\ T.last = S.last
        /\ T.had = S.had /\ T.reached = S.reached /\ T.sent = S.sent
        /\ T.pipe = <<>> /\ T.phase # "complete" /\ ~ AtWork(T)
    <2>1. T = [S EXCEPT !.phase = phase, !.pipe = <<>>, !.serving = "closed", !.todo = {}]
      BY <1>1 DEF Ended
    <2>2. <<>> \in Seq(Response) /\ {} \in SUBSET Event
      OBVIOUS
    <2>3. QED
      BY <1>2, <2>1, <2>2 DEF AtWork, Stream
  <1>4. Sound(T, round, known)
    BY <1>2, <1>3, ClosedSound
  <1>5. marks' \in [Node -> [Node -> {"absent", "connected", "disconnected"}]]
    BY <1>1, <1>2, UnmarkTyped DEF SyncInv
  <1>6. QED
    BY <1>1, <1>2, <1>3, <1>4, <1>5, StreamAlone

(* A response is read.                                                     *)
LEMMA ReadKeeps ==
    ASSUME SyncInv, NEW s \in Session, Read(s)
    PROVE  SyncInv'
  <1>1. PICK S : S = sessions[s]
    OBVIOUS
  <1>2. PICK resp : resp = Head(S.pipe)
    OBVIOUS
  <1>3. PICK reached : reached = IF resp.event = NoEvent THEN S.reached ELSE round[resp.event]
    OBVIOUS
  <1>4. /\ S.phase = "running" /\ S.pipe # <<>>
        /\ Take(S.client, resp.event)
        /\ \/ /\ resp.hasMore
              /\ sessions' = [sessions EXCEPT ![s].pipe = Tail(@), ![s].reached = reached]
              /\ UNCHANGED marks
           \/ /\ ~resp.hasMore
              /\ sessions' = [sessions EXCEPT
                                  ![s] = [Ended(s, "complete") EXCEPT !.reached = reached]]
              /\ Unmark(s)
        /\ UNCHANGED <<round, eventChan>>
    BY <1>1, <1>2, <1>3 DEF Read
  <1>5. /\ S \in Stream /\ Sound(S, round, known) /\ S.client \in Node /\ S.server \in Node
        /\ round \in Rounds /\ known \in KnownSets
        /\ \A n \in Node : \A e \in known[n] : round[e] > 0
        /\ marks \in [Node -> [Node -> {"absent", "connected", "disconnected"}]]
        /\ faults \in 0 .. MaxFaults
    BY <1>1, <1>4, StreamOf, StreamFields
  <1>6. /\ resp = S.pipe[1] /\ resp.event \in Event \cup {NoEvent}
        /\ resp.event # NoEvent => round[resp.event] > 0
        /\ Tail(S.pipe) \in Seq(Response)
    <2>1. S.pipe \in Seq(Response) /\ 1 \in 1 .. Len(S.pipe)
      BY <1>4, <1>5, StreamFields, TailFacts
    <2>2. resp = S.pipe[1] /\ Tail(S.pipe) \in Seq(Response)
      BY <1>2, <1>4, <2>1, TailFacts
    <2>3. Entry(S, round, known, 1)
      BY <1>5, <2>1 DEF Sound
    <2>4. resp.event \in Event \cup {NoEvent}
      BY <1>5, <2>1, <2>2, StreamFields
    <2>5. QED
      BY <2>2, <2>3, <2>4 DEF Entry
  <1>7. reached \in Nat
    BY <1>3, <1>5, <1>6, StreamFields DEF Rounds
  <1>8. PICK x : x = {resp.event} \ {NoEvent}
    OBVIOUS
  <1>9. x \subseteq Event /\ \A e \in x : round[e] > 0
    BY <1>6, <1>8
  <1>10. /\ known' = [known EXCEPT ![S.client] = @ \cup x]
         /\ stored' \in [Node -> SUBSET Event] /\ faults' \in 0 .. MaxFaults
    <2>1. known' = [known EXCEPT ![S.client] = @ \cup x]
      BY <1>4, <1>8 DEF Take
    <2>2. PICK y : y = {resp.event} \ (known[S.client] \cup {NoEvent})
      OBVIOUS
    <2>3. y \subseteq Event
      BY <1>6, <2>2
    <2>4. \/ stored' = [stored EXCEPT ![S.client] = @ \cup y] /\ UNCHANGED faults
          \/ UNCHANGED stored /\ Fault
      BY <1>4, <2>2 DEF Take
    <2>5. stored' \in [Node -> SUBSET Event]
      <3>1. stored \in [Node -> SUBSET Event] /\ S.client \in Node
        BY <1>5 DEF SyncInv, TypeOK
      <3>2. CASE stored' = [stored EXCEPT ![S.client] = @ \cup y]
        BY <2>3, <3>1, <3>2
      <3>3. QED
        BY <2>4, <3>1, <3>2
    <2>6. faults' \in 0 .. MaxFaults
      BY <1>5, <2>4, SyncAssumption DEF Fault
    <2>7. QED
      BY <2>1, <2>5, <2>6
  <1>11. PICK L : L = known'
    OBVIOUS
  <1>12. /\ L \in KnownSets /\ L[S.client] = known[S.client] \cup x
         /\ \A n \in Node : known[n] \subseteq L[n] /\ \A e \in L[n] : round[e] > 0
    BY <1>5, <1>9, <1>10, <1>11 DEF KnownSets
  <1>13. PICK T : T = IF resp.hasMore
                      THEN [S EXCEPT !.pipe = Tail(@), !.reached = reached]
                      ELSE [Ended(s, "complete") EXCEPT !.reached = reached]
    OBVIOUS
  <1>14. sessions' = [sessions EXCEPT ![s] = T]
    BY <1>1, <1>4, <1>13
  <1>15. /\ T \in Stream /\ T.client = S.client /\ T.server = S.server
         /\ T.first = S.first /\ T.last = S.last /\ T.had = S.had /\ T.sent = S.sent
         /\ T.at = S.at /\ T.reached = reached
         /\ \/ /\ resp.hasMore
               /\ T.pipe = Tail(S.pipe) /\ T.phase = S.phase /\ T.serving = S.serving
               /\ T.todo = S.todo
            \/ ~ resp.hasMore /\ T.pipe = <<>> /\ T.phase = "complete"
    <2>1. CASE resp.hasMore
      <3>1. T = [S EXCEPT !.pipe = Tail(S.pipe), !.reached = reached]
        BY <1>13, <2>1
      <3>2. QED
        BY <1>5, <1>6, <1>7, <2>1, <3>1 DEF Stream
    <2>2. CASE ~ resp.hasMore
      <3>1. PICK E : E = [S EXCEPT !.phase = "complete", !.pipe = <<>>, !.serving = "closed",
                                   !.todo = {}]
        OBVIOUS
      <3>2. T = [E EXCEPT !.reached = reached]
        BY <1>1, <1>13, <2>2, <3>1 DEF Ended
      <3>3. /\ E \in Stream /\ E.client = S.client /\ E.server = S.server
            /\ E.first = S.first /\ E.last = S.last /\ E.had = S.had /\ E.sent = S.sent
            /\ E.at = S.at /\ E.phase = "complete" /\ E.pipe = <<>>
        <4>1. <<>> \in Seq(Response) /\ {} \in SUBSET Event
          OBVIOUS
        <4>2. QED
          BY <1>5, <3>1, <4>1 DEF Stream
      <3>4. /\ T \in Stream /\ T.client = E.client /\ T.server = E.server
            /\ T.first = E.first /\ T.last = E.last /\ T.had = E.had /\ T.sent = E.sent
            /\ T.at = E.at /\ T.reached = reached /\ T.phase = E.phase /\ T.pipe = E.pipe
        BY <1>7, <3>2, <3>3, ReachedFields
      <3>5. QED
        BY <2>2, <3>3, <3>4
    <2>3. QED
      BY <2>1, <2>2
  <1>16. Sound(T, round, L)
    BY <1>3, <1>4, <1>5, <1>6, <1>8, <1>12, <1>15, ReadSound
  <1>17. marks' \in [Node -> [Node -> {"absent", "connected", "disconnected"}]]
    BY <1>1, <1>4, <1>5, UnmarkTyped DEF SyncInv
  <1>18. QED
    BY <1>4, <1>10, <1>11, <1>12, <1>14, <1>15, <1>16, <1>17, StreamReplaced

(* Every step of the client.                                               *)
LEMMA ClientKeeps ==
    ASSUME SyncInv, NEW s \in Session, ClientStep(s)
    PROVE  SyncInv'
  <1>1. CASE Read(s)
    BY <1>1, ReadKeeps
  <1>2. CASE ReadEOF(s)
    BY <1>2, EndKeeps DEF ReadEOF
  <1>3. CASE ReadTimeout(s)
    BY <1>3, EndKeeps DEF ReadTimeout
  <1>4. QED
    BY <1>1, <1>2, <1>3 DEF ClientStep

----------------------------------------------------------------------------
(***************************************************************************)
(* The server.                                                             *)
(***************************************************************************)

(* The server looks a round up.                                            *)
LEMMA NextRoundKeeps ==
    ASSUME SyncInv, NEW s \in Session, NextRound(s)
    PROVE  SyncInv'
  <1>1. PICK S, events : S = sessions[s] /\ events = {e \in known[S.server] : round[e] = S.at}
    OBVIOUS
  <1>2. PICK at, size : at = (IF events = {} THEN S.at + 1 ELSE S.at) /\ size = Cardinality(events)
    OBVIOUS
  <1>3. /\ S \in Stream /\ Sound(S, round, known) /\ S.phase = "running" /\ AtWork(S)
        /\ S.todo = {} /\ round \in Rounds /\ known \in KnownSets
        /\ \A n \in Node : \A e \in known[n] : round[e] > 0
        /\ marks \in [Node -> [Node -> {"absent", "connected", "disconnected"}]]
        /\ faults \in 0 .. MaxFaults
    <2>1. S.phase = "running" /\ AtWork(S) /\ S.todo = {}
      BY <1>1 DEF NextRound, Serving, AtWork
    <2>2. QED
      BY <1>1, <2>1, StreamOf
  <1>4. /\ S.server \in Node /\ events \in SUBSET Event /\ at \in Nat /\ size \in Nat
    <2>1. S.server \in Node /\ S.at \in Nat
      BY <1>3, StreamFields
    <2>2. events \in SUBSET Event
      BY <1>1, <1>3, <2>1 DEF KnownSets
    <2>3. size \in Nat
      BY <1>2, <2>2, SyncAssumption, FS_Subset, FS_CardinalityType
    <2>4. QED
      BY <1>2, <2>1, <2>2, <2>3
  <1>5. PICK T : T = [S EXCEPT !.todo = events, !.size = size, !.at = at]
    OBVIOUS
  <1>6. sessions' = [sessions EXCEPT ![s] = T]
    BY <1>1, <1>2, <1>5 DEF NextRound, GetEventsByRound
  <1>7. /\ T \in Stream
        /\ T.client = S.client /\ T.server = S.server /\ T.first = S.first /\ T.last = S.last
        /\ T.had = S.had /\ T.phase = S.phase /\ T.reached = S.reached
        /\ T.serving = S.serving /\ T.sent = S.sent /\ T.pipe = S.pipe
        /\ T.todo = events /\ T.at = at
    BY <1>3, <1>4, <1>5 DEF Stream
  <1>8. Sound(T, round, known)
    <2>1. T.todo = {e \in known[S.server] : round[e] = S.at}
      BY <1>1, <1>7
    <2>2. T.at = IF T.todo = {} THEN S.at + 1 ELSE S.at
      BY <1>2, <1>7
    <2>3. \A e \in known[S.server] : round[e] > 0
      BY <1>3, <1>4
    <2>4. QED
      BY <1>3, <1>7, <2>1, <2>2, <2>3, NextRoundSound
  <1>9. UNCHANGED <<round, known, stored, eventChan, marks, faults>>
    BY DEF NextRound
  <1>10. QED
    BY <1>3, <1>6, <1>7, <1>8, <1>9, StreamAlone

(* The server sends an event.                                              *)
LEMMA SendEventKeeps ==
    ASSUME SyncInv, NEW s \in Session, SendEvent(s)
    PROVE  SyncInv'
  <1>1. PICK S : S = sessions[s]
    OBVIOUS
  <1>2. PICK e \in S.todo :
            sessions' = [sessions EXCEPT
               ![s].pipe = Append(@, [event |-> e, hasMore |-> HasMore(S)]),
               ![s].sent = @ + 1,
               ![s].todo = @ \ {e},
               ![s].at = IF S.todo = {e} THEN @ + 1 ELSE @]
    BY <1>1 DEF SendEvent
  <1>3. /\ S \in Stream /\ Sound(S, round, known) /\ AtWork(S)
        /\ round \in Rounds /\ known \in KnownSets
        /\ marks \in [Node -> [Node -> {"absent", "connected", "disconnected"}]]
        /\ faults \in 0 .. MaxFaults
    <2>1. S.phase = "running" /\ AtWork(S)
      BY <1>1 DEF SendEvent, Serving, AtWork
    <2>2. QED
      BY <1>1, <2>1, StreamOf
  <1>4. PICK pipe, sent, todo, at :
            /\ pipe = Append(S.pipe, [event |-> e, hasMore |-> HasMore(S)])
            /\ sent = S.sent + 1
            /\ todo = S.todo \ {e}
            /\ at = IF S.todo = {e} THEN S.at + 1 ELSE S.at
    OBVIOUS
  <1>5. /\ pipe \in Seq(Response) /\ sent \in Nat /\ todo \in SUBSET Event /\ at \in Nat
        /\ e # NoEvent
    <2>1. /\ S.pipe \in Seq(Response) /\ S.sent \in Nat /\ S.todo \subseteq Event /\ S.at \in Nat
      BY <1>3, StreamFields
    <2>2. [event |-> e, hasMore |-> HasMore(S)] \in Response
      BY <2>1 DEF Response, HasMore
    <2>3. QED
      BY <1>4, <2>1, <2>2, AppendProperties, SyncAssumption
  <1>6. PICK T : T = [S EXCEPT !.pipe = pipe, !.sent = sent, !.todo = todo, !.at = at]
    OBVIOUS
  <1>7. sessions' = [sessions EXCEPT ![s] = T]
    BY <1>1, <1>2, <1>4, <1>6
  <1>8. /\ T \in Stream
        /\ T.client = S.client /\ T.server = S.server /\ T.first = S.first /\ T.last = S.last
        /\ T.had = S.had /\ T.phase = S.phase /\ T.reached = S.reached /\ T.serving = S.serving
        /\ T.sent = sent /\ T.todo = todo /\ T.pipe = pipe /\ T.at = at
    BY <1>3, <1>5, <1>6 DEF Stream
  <1>9. Sound(T, round, known)
    BY <1>3, <1>4, <1>5, <1>8, SendEventSound
  <1>10. UNCHANGED <<round, known, stored, eventChan, marks, faults>>
    BY DEF SendEvent
  <1>11. QED
    BY <1>3, <1>7, <1>8, <1>9, <1>10, StreamAlone

(* The server sends the last response.                                     *)
LEMMA SendLastKeeps ==
    ASSUME SyncInv, NEW s \in Session, SendLast(s)
    PROVE  SyncInv'
  <1>1. PICK S : S = sessions[s]
    OBVIOUS
  <1>2. /\ S \in Stream /\ Sound(S, round, known) /\ AtWork(S)
        /\ S.at > S.last \/ S.sent >= Limit
        /\ round \in Rounds /\ known \in KnownSets
        /\ marks \in [Node -> [Node -> {"absent", "connected", "disconnected"}]]
        /\ faults \in 0 .. MaxFaults
    <2>1. S.phase = "running" /\ AtWork(S) /\ (S.at > S.last \/ S.sent >= Limit)
      BY <1>1 DEF SendLast, Serving, AtWork
    <2>2. QED
      BY <1>1, <2>1, StreamOf
  <1>3. PICK pipe : pipe = Append(S.pipe, [event |-> NoEvent, hasMore |-> FALSE])
    OBVIOUS
  <1>4. pipe \in Seq(Response)
    <2>1. S.pipe \in Seq(Response)
      BY <1>2, StreamFields
    <2>2. [event |-> NoEvent, hasMore |-> FALSE] \in Response
      BY DEF Response
    <2>3. QED
      BY <1>3, <2>1, <2>2, AppendProperties
  <1>5. PICK T : T = [S EXCEPT !.pipe = pipe, !.serving = "closed"]
    OBVIOUS
  <1>6. sessions' = [sessions EXCEPT ![s] = T]
    BY <1>1, <1>3, <1>5 DEF SendLast
  <1>7. /\ T \in Stream
        /\ T.client = S.client /\ T.server = S.server /\ T.first = S.first /\ T.last = S.last
        /\ T.had = S.had /\ T.phase = S.phase /\ T.reached = S.reached /\ T.sent = S.sent
        /\ T.serving = "closed" /\ T.pipe = pipe
    BY <1>2, <1>4, <1>5 DEF Stream
  <1>8. Sound(T, round, known)
    BY <1>2, <1>3, <1>7, SendLastSound
  <1>9. UNCHANGED <<round, known, stored, eventChan, marks, faults>>
    BY DEF SendLast
  <1>10. QED
    BY <1>2, <1>6, <1>7, <1>8, <1>9, StreamAlone

(* The server fails or hangs.                                              *)
LEMMA SendFailsKeeps ==
    ASSUME SyncInv, NEW s \in Session, SendFails(s)
    PROVE  SyncInv'
  <1>1. PICK how \in {"closed", "stalled"} : sessions' = [sessions EXCEPT ![s].serving = how]
    BY DEF SendFails
  <1>2. PICK S, T : S = sessions[s] /\ T = [S EXCEPT !.serving = how]
    OBVIOUS
  <1>3. /\ S \in Stream /\ Sound(S, round, known)
        /\ S.phase = "running"
        /\ marks \in [Node -> [Node -> {"absent", "connected", "disconnected"}]]
        /\ faults \in 0 .. MaxFaults
    <2>1. S.phase = "running"
      BY <1>2 DEF SendFails, Serving
    <2>2. QED
      BY <1>2, <2>1, StreamOf
  <1>4. sessions' = [sessions EXCEPT ![s] = T]
    BY <1>1, <1>2
  <1>5. /\ T \in Stream /\ T.server = S.server
        /\ T.client = S.client /\ T.first = S.first /\ T.last = S.last /\ T.had = S.had
        /\ T.reached = S.reached /\ T.sent = S.sent /\ T.pipe = S.pipe /\ T.phase = S.phase
        /\ ~ AtWork(T)
    BY <1>2, <1>3 DEF Stream, AtWork
  <1>6. Sound(T, round, known)
    BY <1>3, <1>5, ClosedSound
  <1>7. /\ faults' \in 0 .. MaxFaults
        /\ UNCHANGED <<round, known, stored, eventChan, marks>>
    BY <1>3, SyncAssumption DEF SendFails, Fault
  <1>8. QED
    BY <1>3, <1>4, <1>5, <1>6, <1>7, StreamAlone

----------------------------------------------------------------------------
(***************************************************************************)
(* A restart takes the graph of its node, and the sessions that node is    *)
(* the client of with it; those it serves end, with what they had sent.    *)
(***************************************************************************)
LEMMA RestartKeeps ==
    ASSUME SyncInv, NEW n \in Node, Restart(n)
    PROVE  SyncInv'
  <1>1. /\ known' = [known EXCEPT ![n] = {}]
        /\ eventChan' = [eventChan EXCEPT ![n] = <<>>]
        /\ marks' = [marks EXCEPT ![n] = [m \in Node |-> "absent"]]
        /\ UNCHANGED <<round, stored>>
        /\ faults' \in 0 .. MaxFaults
    <2>1. faults \in 0 .. MaxFaults /\ Fault
      BY DEF Restart, SyncInv, TypeOK
    <2>2. faults' \in 0 .. MaxFaults
      BY <2>1, SyncAssumption DEF Fault
    <2>3. QED
      BY <2>2 DEF Restart
  <1>2. /\ known' \in KnownSets
        /\ \A m \in Node : m # n => known'[m] = known[m]
        /\ eventChan' \in [Node -> Seq(Event)]
        /\ \A m \in Node : known'[m] \subseteq known[m]
        /\ \A m \in Node : eventChan'[m] = eventChan[m] \/ eventChan'[m] = <<>>
    BY <1>1 DEF SyncInv, TypeOK, KnownSets
  <1>3. marks' \in [Node -> [Node -> {"absent", "connected", "disconnected"}]]
    BY <1>1 DEF SyncInv, TypeOK
  <1>4. ASSUME NEW s \in Session
        PROVE  /\ sessions'[s] \in Stream \cup {Unused}
               /\ sessions'[s] # Unused => Sound(sessions'[s], round, known')
    <2>1. PICK S, T, R, K, L : /\ S = sessions[s] /\ T = sessions'[s]
                               /\ R = round /\ K = known /\ L = known'
      OBVIOUS
    <2>2. /\ S \in Stream \cup {Unused} /\ R \in Rounds /\ K \in KnownSets /\ L \in KnownSets
          /\ S # Unused => S \in Stream /\ Sound(S, R, K)
      BY <1>2, <2>1 DEF SyncInv, TypeOK, Rounds, KnownSets
    <2>3. T = CASE S # Unused /\ S.client = n -> Unused
                [] AtWork(S) /\ S.server = n -> [S EXCEPT !.serving = "closed", !.todo = {}]
                [] OTHER -> S
      BY <2>1 DEF Restart, Serving, AtWork
    <2>4. CASE S = Unused
      <3>1. ~ AtWork(S)
        BY <2>4 DEF AtWork, Unused
      <3>2. T = Unused
        BY <2>3, <2>4, <3>1
      <3>3. QED
        BY <2>1, <3>2
    <2>5. CASE S # Unused /\ S.client = n
      <3>1. T = Unused
        <4>1. S.server # n
          BY <2>2, <2>5 DEF Sound
        <4>2. QED
          BY <2>3, <2>5, <4>1
      <3>2. QED
        BY <2>1, <3>1
    <2>6. CASE S # Unused /\ S.client # n
      <3>1. S \in Stream /\ Sound(S, R, K) /\ S.client \in Node /\ S.server \in Node
        BY <2>2, <2>6, StreamFields
      <3>2. L[S.client] = K[S.client]
        BY <1>2, <2>1, <2>6, <3>1
      <3>3. CASE AtWork(S) /\ S.server = n
        <4>1. T = [S EXCEPT !.serving = "closed", !.todo = {}]
          BY <2>3, <2>6, <3>3
        <4>2. /\ T \in Stream /\ T.client = S.client /\ T.server = S.server
              /\ T.first = S.first /\ T.last = S.last /\ T.had = S.had
              /\ T.reached = S.reached /\ T.sent = S.sent /\ T.pipe = S.pipe
              /\ T.phase = S.phase /\ ~ AtWork(T)
          BY <3>1, <4>1 DEF Stream, AtWork
        <4>3. Sound(T, R, K)
          BY <3>1, <4>2, ClosedSound
        <4>4. Sound(T, R, L)
          BY <2>2, <3>2, <4>2, <4>3, SoundGrows
        <4>5. QED
          BY <2>1, <4>2, <4>4
      <3>4. CASE ~ (AtWork(S) /\ S.server = n)
        <4>1. T = S
          BY <2>3, <2>6, <3>4
        <4>2. AtWork(S) => L[S.server] = K[S.server]
          BY <1>2, <2>1, <3>1, <3>4
        <4>3. Sound(S, R, L)
          BY <2>2, <3>1, <3>2, <4>2, SoundGrows
        <4>4. QED
          BY <2>1, <3>1, <4>1, <4>3
      <3>5. QED
        BY <3>3, <3>4
    <2>7. QED
      BY <2>4, <2>5, <2>6
  <1>5. sessions' \in [Session -> Stream \cup {Unused}]
    <2> DEFINE F(s) == CASE sessions[s] # Unused /\ sessions[s].client = n -> Unused
                         [] Serving(s) /\ sessions[s].server = n
                              -> [sessions[s] EXCEPT !.serving = "closed", !.todo = {}]
                         [] OTHER -> sessions[s]
    <2>1. sessions' = [s \in Session |-> F(s)]
      BY DEF Restart
    <2> HIDE DEF F
    <2>2. QED
      BY <1>4, <2>1
  <1>6. TypeOK'
    BY <1>1, <1>2, <1>3, <1>5 DEF SyncInv, TypeOK, KnownSets
  <1>7. Created'
    <2>1. \A m \in Node : \A e \in known'[m] : round'[e] > 0
      BY <1>1, <1>2 DEF SyncInv, Created
    <2>2. \A m \in Node : \A i \in 1 .. Len(eventChan'[m]) : round'[eventChan'[m][i]] > 0
      BY <1>1, <1>2, EmptySeq DEF SyncInv, Created
    <2>3. QED
      BY <2>1, <2>2 DEF Created
  <1>8. QED
    BY <1>1, <1>4, <1>6, <1>7 DEF SyncInv

----------------------------------------------------------------------------
(***************************************************************************)
(* The theorems.                                                           *)
(***************************************************************************)

(* Nothing is known, under way or asked for at the start.                  *)
LEMMA InvInit ==
    ASSUME Init
    PROVE  SyncInv
  <1>1. TypeOK
    BY SyncAssumption DEF Init, TypeOK
  <1>2. Created
    BY EmptySeq DEF Init, Created
  <1>3. \A s \in Session : sessions[s] = Unused
    BY DEF Init
  <1>4. QED
    BY <1>1, <1>2, <1>3 DEF SyncInv

(* Every step keeps the invariant.                                         *)
LEMMA InvStep ==
    ASSUME SyncInv, [Next]_vars
    PROVE  SyncInv'
  <1>1. CASE \E n \in Node : Create(n) \/ EventLoop(n) \/ Restart(n)
    BY <1>1, CreateKeeps, EventLoopKeeps, RestartKeeps
  <1>2. CASE \E n \in Node, e \in Event : HandleEventMessage(n, e)
    BY <1>2, GossipKeeps
  <1>3. CASE \E n, m \in Node : SyncFails(n, m)
    BY <1>3, SyncFailsKeeps
  <1>4. CASE \E s \in Session, n, m \in Node : SyncWithPeers(s, n, m) \/ SyncWithPeer(s, n, m)
    BY <1>4, SyncWithPeersKeeps, SyncWithPeerKeeps
  <1>5. CASE \E s \in Session : ClientStep(s) \/ ServerStep(s) \/ SendFails(s)
    BY <1>5, ClientKeeps, NextRoundKeeps, SendEventKeeps, SendLastKeeps, SendFailsKeeps
       DEF ServerStep
  <1>6. CASE UNCHANGED vars
    BY <1>6 DEF vars, SyncInv, TypeOK, Created
  <1>7. QED
    BY <1>1, <1>2, <1>3, <1>4, <1>5, <1>6 DEF Next

(* The invariant holds in every behaviour.                                 *)
LEMMA InvAlways == Spec => []SyncInv
  <1>1. Init => SyncInv
    BY InvInit
  <1>2. SyncInv /\ [Next]_vars => SyncInv'
    BY InvStep
  <1>3. QED
    BY <1>1, <1>2, PTL DEF Spec

(* The variables have their types, the current rounds of nodes are         *)
(* numbers and every response is an event or the last.                     *)
THEOREM TypeCorrect == Spec => []TypeOK
  <1>1. SyncInv => TypeOK
    BY DEF SyncInv
  <1>2. QED
    BY <1>1, InvAlways, PTL

(* No session leaves a hole (handleSyncStream sends round by round).       *)
THEOREM SessionsLeaveNoHole == Spec => []RoundsArriveInOrder
  <1>1. SyncInv => RoundsArriveInOrder
    BY DEF SyncInv, Sound, Due, RoundsArriveInOrder, Below
  <1>2. QED
    BY <1>1, InvAlways, PTL

(* A session that ends because there is no more has brought all there was. *)
THEOREM CompleteSessionsAreComplete == Spec => []CompleteBelowLast
  <1>1. ASSUME SyncInv, NEW s \in Session, sessions[s].phase = "complete", sessions[s].sent < Limit
        PROVE  Below(s, sessions[s].last) \subseteq known[sessions[s].client]
    <2>1. sessions[s] # Unused
      BY <1>1 DEF Unused
    <2>2. sessions[s] \in Stream /\ Sound(sessions[s], round, known)
      BY <1>1, <2>1, InUse DEF SyncInv
    <2>3. ~ sessions[s].sent >= Limit
      BY <1>1, <2>2, StreamFields, SyncAssumption
    <2>4. QED
      BY <1>1, <2>2, <2>3 DEF Sound, Due, Below
  <1>2. SyncInv => CompleteBelowLast
    BY <1>1 DEF CompleteBelowLast
  <1>3. QED
    BY <1>2, InvAlways, PTL

=============================================================================

---------------------------- MODULE OrderBookPoll ----------------------------
(***************************************************************************)
(* The order book data source: the loop that waits for new blocks on a     *)
(* websocket or, without one, polls, and the poll that turns the node's    *)
(* order books into one snapshot and then diffs, and its trade histories   *)
(* into a tape of trades, pair after pair, with an await at each request.  *)
(*                                                                         *)
(* A book maps levels (side and price) to amounts, 0 where there is none.  *)
(* External: the markets, and whoever subscribes to pairs.                 *)
(***************************************************************************)
EXTENDS Naturals, Sequences, FiniteSets, SequencesExt

CONSTANTS
  Pairs, Levels,
  Bids,          \* the levels that are bids; the others are asks
  Moving,        \* bound: the pairs and levels whose amount may change
  MaxAmount,     \* bound: amount of a level
  Trades,        \* fingerprints of trades; equal trades have equal ones
  Window,        \* how many trades a history request returns
  MaxTrades,     \* bound: trades of all pairs together
  Unpolled,      \* the pair has no entry in _last_books
  FirstPairs,    \* the configured trading pairs, in order
  Faults         \* whether requests to the node fail

Books == [Levels -> 0..MaxAmount]

ASSUME BooksAssumption ==
  /\ Unpolled \notin Books
  /\ Bids \subseteq Levels /\ Moving \subseteq Pairs \X Levels
  /\ MaxAmount \in Nat /\ Window \in Nat \ {0} /\ MaxTrades \in Nat
  /\ FirstPairs \in Seq(Pairs) /\ Faults \in BOOLEAN

VARIABLES
  book, history,  \* external: each pair's levels, and its trades in order
  pairs,          \* _trading_pairs
  link,           \* where listen_for_subscriptions stands
  todo,           \* _poll_and_publish: the pairs that are left, or "idle"
  step,           \* the request it awaits for the first of them
  bids,           \* the answer to the request for its bids
  last,           \* _last_books
  seen,           \* _seen_trade_ids
  stream,         \* history: what the published snapshot and diffs build
  tape            \* history: positions of the published trades

market == <<book, history>>
vars == <<market, pairs, link, todo, step, bids, last, seen, stream, tape>>

TypeOK ==
  /\ book \in [Pairs -> Books]
  /\ history \in [Pairs -> Seq(Trades)]
  /\ pairs \in Seq(Pairs) /\ todo \in Seq(Pairs)
  /\ link \in {"connecting", "listening", "fallback", "sleeping"}
  /\ step \in {"idle", "bids", "asks", "trades"}
  /\ (step = "idle" <=> todo = <<>>)
  /\ step # "idle" => link \in {"listening", "fallback"}
  /\ bids \in [Bids -> 0..MaxAmount]
  /\ last \in [Pairs -> Books \cup {Unpolled}]
  /\ seen \in [Pairs -> SUBSET Trades]
  /\ stream \in [Pairs -> Books \cup {Unpolled}]
  /\ tape \in [Pairs -> Seq(Nat)]

Init ==
  /\ book = [p \in Pairs |-> [l \in Levels |-> 0]]
  /\ history = [p \in Pairs |-> <<>>]
  /\ pairs = FirstPairs
  /\ link = "connecting"
  /\ todo = <<>> /\ step = "idle"
  /\ bids = [l \in Bids |-> 0]
  /\ last = [p \in Pairs |-> Unpolled]
  /\ seen = [p \in Pairs |-> {}]
  /\ stream = [p \in Pairs |-> Unpolled]
  /\ tape = [p \in Pairs |-> <<>>]

-----------------------------------------------------------------------------
(* listen_for_subscriptions. *)

Connect == /\ link = "connecting"
           /\ link' = "listening"
           /\ UNCHANGED <<market, pairs, todo, step, bids, last, seen, stream, tape>>

(* Connecting fails, or the websocket ends between two polls.              *)
Disconnect == /\ link = "connecting" \/ (link = "listening" /\ step = "idle")
              /\ link' = "fallback"
              /\ UNCHANGED <<market, pairs, todo, step, bids, last, seen, stream, tape>>

(* A poll is over: the loop listens on, or sleeps after the fallback poll. *)
Over == link' = IF link = "fallback" THEN "sleeping" ELSE link

Wake == /\ link = "sleeping"
        /\ link' = "connecting"
        /\ UNCHANGED <<market, pairs, todo, step, bids, last, seen, stream, tape>>

-----------------------------------------------------------------------------
(* _poll_and_publish. *)

(* Mutant: a poll without a pair is one that goes on.                      *)
StartPollUnchecked ==
  /\ link \in {"listening", "fallback"} /\ step = "idle"
  /\ todo' = pairs /\ step' = "bids"
  /\ UNCHANGED <<market, pairs, link, bids, last, seen, stream, tape>>

(* On a new block, or once in the fallback.                                *)
StartPoll ==
  /\ link \in {"listening", "fallback"} /\ step = "idle"
  /\ todo' = pairs
  /\ IF pairs = <<>> THEN Over /\ step' = "idle" ELSE step' = "bids" /\ UNCHANGED link
  /\ UNCHANGED <<market, pairs, bids, last, seen, stream, tape>>

(* Mutant: levels that are gone make no diff.                              *)
DiffPresent(previous, current) ==
  [l \in {k \in Levels : current[k] # 0 /\ previous[k] # current[k]} |-> current[l]]

(* _diff_levels: the levels whose amount changed, 0 for those gone.        *)
DiffLevels(previous, current) ==
  [l \in {k \in Levels : previous[k] # current[k]} |-> current[l]]

(* What a diff message makes of a book.                                    *)
Patched(b, diff) == [l \in Levels |-> IF l \in DOMAIN diff THEN diff[l] ELSE b[l]]

(* A snapshot the first time, a diff against the last poll after that.     *)
Publish(p, current) ==
  stream' = [stream EXCEPT ![p] =
               IF last[p] = Unpolled THEN current
               ELSE Patched(@, DiffLevels(last[p], current))]

(* get_order_book asks for the bids and then for the asks.                 *)
ReadBids(p) ==
  /\ step = "bids" /\ p = Head(todo)
  /\ bids' = [l \in Bids |-> book[p][l]]
  /\ step' = "asks"
  /\ UNCHANGED <<market, pairs, link, todo, last, seen, stream, tape>>

(* The bids as they were, the asks as they are.                            *)
Polled(p) == [l \in Levels |-> IF l \in Bids THEN bids[l] ELSE book[p][l]]

ReadAsks(p) ==
  /\ step = "asks" /\ p = Head(todo)
  /\ Publish(p, Polled(p))
  /\ last' = [last EXCEPT ![p] = Polled(p)]
  /\ bids' = [l \in Bids |-> 0]
  /\ step' = "trades"
  /\ UNCHANGED <<market, pairs, link, todo, seen, tape>>

(* The positions of the trades the node returns.                           *)
Returned(p) == {k \in DOMAIN history[p] : k + Window > Len(history[p])}

(* The first trade of each fingerprint not seen before.                    *)
Fresh(p) ==
  {k \in Returned(p) : /\ history[p][k] \notin seen[p]
                       /\ \A j \in Returned(p) : j < k => history[p][j] # history[p][k]}

(* Mutant: in the order of the answer, newest first.                       *)
Unreversed(S) == CHOOSE s \in [1..Cardinality(S) -> S] :
                   \A i, j \in DOMAIN s : i < j => s[i] > s[j]

(* Oldest first.                                                           *)
InOrder(S) == CHOOSE s \in [1..Cardinality(S) -> S] :
                \A i, j \in DOMAIN s : i < j => s[i] < s[j]

ReadHistory(p) ==
  /\ step = "trades" /\ p = Head(todo)
  /\ tape' = [tape EXCEPT ![p] = @ \o InOrder(Fresh(p))]
  /\ seen' = [seen EXCEPT ![p] = @ \cup {history[p][k] : k \in Returned(p)}]
  /\ todo' = Tail(todo)
  /\ IF Tail(todo) = <<>> THEN Over /\ step' = "idle" ELSE step' = "bids" /\ UNCHANGED link
  /\ UNCHANGED <<market, pairs, bids, last, stream>>

(* Mutant: nothing catches the exception, and the loop ends.               *)
PollEndsLoop == /\ Faults
                /\ step # "idle"
                /\ todo' = <<>> /\ step' = "idle" /\ link' = "ended"
                /\ UNCHANGED <<market, pairs, bids, last, seen, stream, tape>>

(* A request fails and with it the poll, for the pairs that are left too.  *)
(* While listening the exception ends the listening as well.               *)
PollFails == /\ Faults
             /\ step # "idle"
             /\ todo' = <<>> /\ step' = "idle" /\ bids' = [l \in Bids |-> 0]
             /\ link' = IF link = "listening" THEN "fallback" ELSE "sleeping"
             /\ UNCHANGED <<market, pairs, last, seen, stream, tape>>

-----------------------------------------------------------------------------
(* subscribe_to_trading_pair, unsubscribe_from_trading_pair: the last book *)
(* and the seen trades stay.                                               *)

Subscribe(p) == /\ p \notin Range(pairs)
                /\ pairs' = Append(pairs, p)
                /\ UNCHANGED <<market, link, todo, step, bids, last, seen, stream, tape>>

Unsubscribe(p) == /\ \E i \in DOMAIN pairs : pairs[i] = p /\ pairs' = RemoveAt(pairs, i)
                  /\ UNCHANGED <<market, link, todo, step, bids, last, seen, stream, tape>>

(* The market moves (external). *)

ChangeLevel == \E p \in Pairs, l \in Levels, n \in 0..MaxAmount :
                 /\ <<p, l>> \in Moving /\ n # book[p][l]
                 /\ book' = [book EXCEPT ![p][l] = n]
                 /\ UNCHANGED <<history, pairs, link, todo, step, bids, last, seen, stream, tape>>

NewTrade == \E p \in Pairs, t \in Trades :
              /\ MapThenSumSet(LAMBDA q : Len(history[q]), Pairs) < MaxTrades
              /\ history' = [history EXCEPT ![p] = Append(@, t)]
              /\ UNCHANGED <<book, pairs, link, todo, step, bids, last, seen, stream, tape>>

Next == \/ Connect \/ Disconnect \/ Wake \/ StartPoll \/ PollFails
        \/ \E p \in Pairs : \/ ReadBids(p) \/ ReadAsks(p) \/ ReadHistory(p)
                            \/ Subscribe(p) \/ Unsubscribe(p)
        \/ ChangeLevel \/ NewTrade

Spec == Init /\ [][Next]_vars

(* The loop goes on: connecting ends one way or the other, the sleep ends, *)
(* and while the websocket is up blocks arrive. A request that is made for *)
(* a pair again and again is answered some time.                           *)
FairSpec == /\ Spec
            /\ WF_vars(Connect \/ Disconnect) /\ WF_vars(Wake) /\ WF_vars(StartPoll)
            /\ \A p \in Pairs : SF_vars(ReadBids(p)) /\ SF_vars(ReadAsks(p))
                              /\ SF_vars(ReadHistory(p))

-----------------------------------------------------------------------------
(* Properties. *)

(* The snapshot and the diffs published for a pair build the book of its   *)
(* last poll, over failed polls, fallbacks, and pairs that are dropped and *)
(* subscribed again.                                                       *)
StreamRebuildsBook == stream = last

(* Trades are published in the order they were made, and none twice.       *)
TapeInOrder ==
  \A p \in Pairs : \A i, j \in DOMAIN tape[p] :
    i < j => /\ tape[p][i] < tape[p][j]
             /\ history[p][tape[p][i]] # history[p][tape[p][j]]

(* A trade the node still returns is published, as long as its pair stays  *)
(* subscribed: with or without a websocket, and in spite of failing polls. *)
TradesPublished ==
  \A p \in Pairs, k \in 1..MaxTrades :
    k \in DOMAIN history[p]
    ~> p \notin Range(pairs) \/ k \notin Returned(p) \/ history[p][k] \in seen[p]
=============================================================================

--------------------------- MODULE OrderBookProofs ---------------------------
(***************************************************************************)
(* The published snapshot and diffs always build the last polled book, the *)
(* published trades are in order and none is there twice, and the          *)
(* variables keep their types, for any pairs, levels, bounds and failures. *)
(***************************************************************************)
EXTENDS OrderBookPoll, FoldLemmas, SequenceTheorems

BookType == /\ book \in [Pairs -> Books]
            /\ bids \in [Bids -> 0..MaxAmount]
            /\ last \in [Pairs -> Books \cup {Unpolled}]
            /\ stream = last

(* A diff against the last book, applied to it, gives the new one: levels  *)
(* that came, changed and went.                                            *)
LEMMA DiffRoundTrip ==
  ASSUME NEW previous \in Books, NEW current \in Books
  PROVE  Patched(previous, DiffLevels(previous, current)) = current
  BY DEF Patched, DiffLevels, Books

(* What a poll of p publishes keeps the stream on the polled books.        *)
LEMMA PublishFollows ==
  ASSUME BookType, NEW p \in Pairs, Publish(p, Polled(p)),
         last' = [last EXCEPT ![p] = Polled(p)]
  PROVE  /\ stream' = last'
         /\ last' \in [Pairs -> Books \cup {Unpolled}]
<1>1. Polled(p) \in Books
  BY DEF BookType, Polled, Books
<1>2. CASE last[p] = Unpolled
  BY <1>1, <1>2 DEF BookType, Publish
<1>3. CASE last[p] # Unpolled
  <2>1. last[p] \in Books
    BY <1>3 DEF BookType
  <2>2. Patched(last[p], DiffLevels(last[p], Polled(p))) = Polled(p)
    BY <1>1, <2>1, DiffRoundTrip
  <2>3. stream' = [stream EXCEPT ![p] = Polled(p)]
    BY <1>3, <2>2 DEF BookType, Publish
  <2> QED
    BY <1>1, <2>3 DEF BookType
<1> QED
  BY <1>2, <1>3

(* The polled books, the answer for the bids and the stream stay books,    *)
(* and the stream is what was polled last.                                 *)
LEMMA BookInductive == Spec => []BookType
<1>1. Init => BookType
  BY BooksAssumption DEF Init, BookType, Books
<1>2. BookType /\ [Next]_vars => BookType'
  <2> SUFFICES ASSUME BookType, [Next]_vars
               PROVE  BookType'
    OBVIOUS
  <2>1. ASSUME NEW p \in Pairs, ReadAsks(p)
        PROVE  BookType'
    <3>1. stream' = last' /\ last' \in [Pairs -> Books \cup {Unpolled}]
      BY <2>1, PublishFollows DEF ReadAsks
    <3>2. bids' \in [Bids -> 0..MaxAmount]
      BY <2>1, BooksAssumption DEF ReadAsks
    <3> QED
      BY <2>1, <3>1, <3>2 DEF ReadAsks, BookType, market
  <2>0. ASSUME NEW p \in Pairs, ReadBids(p)
        PROVE  BookType'
    <3>1. bids' \in [Bids -> 0..MaxAmount]
      BY <2>0, BooksAssumption DEF ReadBids, BookType, Books
    <3> QED
      BY <2>0, <3>1 DEF ReadBids, BookType, market
  <2>2. CASE ChangeLevel
    <3>1. PICK p \in Pairs, l \in Levels, n \in 0..MaxAmount :
            book' = [book EXCEPT ![p][l] = n]
      BY <2>2 DEF ChangeLevel
    <3>2. [book[p] EXCEPT ![l] = n] \in Books
      BY DEF BookType, Books
    <3> QED
      BY <2>2, <3>1, <3>2 DEF ChangeLevel, BookType
  <2>3. CASE Connect
    BY <2>3 DEF Connect, BookType, market
  <2>4. CASE Disconnect
    BY <2>4 DEF Disconnect, BookType, market
  <2>5. CASE Wake
    BY <2>5 DEF Wake, BookType, market
  <2>6. CASE StartPoll
    BY <2>6 DEF StartPoll, BookType, market
  <2>7. CASE PollFails
    <3>1. bids' \in [Bids -> 0..MaxAmount]
      BY <2>7, BooksAssumption DEF PollFails
    <3> QED
      BY <2>7, <3>1 DEF PollFails, BookType, market
  <2>8. ASSUME NEW p \in Pairs, ReadHistory(p)
        PROVE  BookType'
    BY <2>8 DEF ReadHistory, BookType, market
  <2>9. ASSUME NEW p \in Pairs, Subscribe(p) \/ Unsubscribe(p)
        PROVE  BookType'
    BY <2>9 DEF Subscribe, Unsubscribe, BookType, market
  <2>10. CASE NewTrade
    BY <2>10 DEF NewTrade, BookType
  <2>11. CASE UNCHANGED vars
    BY <2>11 DEF vars, BookType, market
  <2> QED
    BY <2>0, <2>1, <2>2, <2>3, <2>4, <2>5, <2>6, <2>7, <2>8, <2>9, <2>10, <2>11 DEF Next
<1> QED
  BY <1>1, <1>2, PTL DEF Spec

(* The stream of published messages builds the last polled book of every   *)
(* pair, whatever fails and whichever pairs come and go.                   *)
THEOREM StreamFollowsBook == Spec => []StreamRebuildsBook
<1>1. BookType => StreamRebuildsBook
  BY DEF BookType, StreamRebuildsBook
<1> QED
  BY <1>1, BookInductive, PTL

-----------------------------------------------------------------------------
(* Where the loop and its poll stand. *)

QueueType == /\ pairs \in Seq(Pairs) /\ todo \in Seq(Pairs)
             /\ link \in {"connecting", "listening", "fallback", "sleeping"}
             /\ step \in {"idle", "bids", "asks", "trades"}
             /\ (step = "idle" <=> todo = <<>>)
             /\ step # "idle" => link \in {"listening", "fallback"}

(* A poll takes the pairs one by one and ends with the last, with a        *)
(* failure or, when there are none, at once; until then the loop waits.    *)
LEMMA QueueInductive == Spec => []QueueType
<1>1. Init => QueueType
  BY BooksAssumption DEF Init, QueueType
<1>2. QueueType /\ [Next]_vars => QueueType'
  <2> SUFFICES ASSUME QueueType, [Next]_vars
               PROVE  QueueType'
    OBVIOUS
  <2>1. CASE Connect
    BY <2>1 DEF Connect, QueueType
  <2>2. CASE Disconnect
    BY <2>2 DEF Disconnect, QueueType
  <2>3. CASE Wake
    BY <2>3 DEF Wake, QueueType
  <2>4. CASE StartPoll
    BY <2>4 DEF StartPoll, Over, QueueType
  <2>5. CASE PollFails
    BY <2>5 DEF PollFails, QueueType
  <2>6. ASSUME NEW p \in Pairs, ReadBids(p) \/ ReadAsks(p)
        PROVE  QueueType'
    BY <2>6 DEF ReadBids, ReadAsks, QueueType
  <2>7. ASSUME NEW p \in Pairs, ReadHistory(p)
        PROVE  QueueType'
    <3>1. todo # <<>>
      BY <2>7 DEF ReadHistory, QueueType
    <3>2. todo' \in Seq(Pairs)
      BY <2>7, <3>1, HeadTailProperties DEF ReadHistory, QueueType
    <3> QED
      BY <2>7, <3>2 DEF ReadHistory, Over, QueueType
  <2>8. ASSUME NEW p \in Pairs, Subscribe(p)
        PROVE  QueueType'
    BY <2>8, AppendProperties DEF Subscribe, QueueType
  <2>9. ASSUME NEW p \in Pairs, Unsubscribe(p)
        PROVE  QueueType'
    <3>1. PICK i \in DOMAIN pairs : pairs' = RemoveAt(pairs, i)
      BY <2>9 DEF Unsubscribe
    <3>2. i \in 1..Len(pairs) /\ Len(pairs) \in Nat
      BY LenProperties DEF QueueType
    <3>3. SubSeq(pairs, 1, i - 1) \in Seq(Pairs) /\ SubSeq(pairs, i + 1, Len(pairs)) \in Seq(Pairs)
      BY <3>2, SubSeqProperties DEF QueueType
    <3>4. pairs' \in Seq(Pairs)
      BY <3>1, <3>3, ConcatProperties DEF RemoveAt
    <3> QED
      BY <2>9, <3>4 DEF Unsubscribe, QueueType
  <2>10. CASE ChangeLevel \/ NewTrade \/ UNCHANGED vars
    BY <2>10 DEF ChangeLevel, NewTrade, vars, QueueType
  <2> QED
    BY <2>1, <2>2, <2>3, <2>4, <2>5, <2>6, <2>7, <2>8, <2>9, <2>10 DEF Next
<1> QED
  BY <1>1, <1>2, PTL DEF Spec

-----------------------------------------------------------------------------
(* Sorting positions. *)

Increasing(s) == \A i, j \in DOMAIN s : i < j => s[i] < s[j]

Sortable(S) == \E s \in [1..Cardinality(S) -> S] : Increasing(s)

(* A set of positions that has its greatest added to it can be sorted when *)
(* it could without it.                                                    *)
LEMMA SortsOneMore ==
  ASSUME NEW n \in Nat \ {0}, NEW S \in SUBSET (1..n), n \in S, Sortable(S \ {n})
  PROVE  Sortable(S)
<1> DEFINE R == S \ {n}
           c == Cardinality(R)
<1>1. IsFiniteSet(R)
  <2>1. IsFiniteSet(1..n)
    BY FS_Interval
  <2> QED
    BY <2>1, FS_Subset
<1>2. c \in Nat
  BY <1>1, FS_CardinalityType
<1>3. Cardinality(S) = c + 1
  <2>1. S = R \cup {n} /\ n \notin R
    OBVIOUS
  <2> HIDE DEF R
  <2> QED
    BY <1>1, <2>1, FS_AddElement
<1>4. PICK s \in [1..c -> R] : Increasing(s)
  BY DEF Sortable
<1> DEFINE more == [i \in 1..(c + 1) |-> IF i = c + 1 THEN n ELSE s[i]]
<1> HIDE DEF c
<1>5. ASSUME NEW i \in 1..c
      PROVE  s[i] \in S /\ s[i] < n
  <2>1. s[i] \in R
    BY <1>4
  <2>2. \A v \in S \ {n} : v \in S /\ v \in 1..n /\ v # n
    OBVIOUS
  <2>3. \A v \in 1..n : v # n => v < n
    OBVIOUS
  <2> QED
    BY <2>1, <2>2, <2>3
<1>6. more \in [1..(c + 1) -> S]
  BY <1>2, <1>5
<1>7. ASSUME NEW i \in 1..(c + 1), NEW j \in 1..(c + 1), i < j
      PROVE  more[i] < more[j]
  <2>1. i \in 1..c /\ more[i] = s[i]
    BY <1>2, <1>7
  <2>2. CASE j = c + 1
    BY <1>2, <1>5, <2>1, <2>2
  <2>3. CASE j \in 1..c
    BY <1>2, <1>4, <1>7, <2>1, <2>3 DEF Increasing
  <2> QED
    BY <1>2, <2>2, <2>3
<1>8. Increasing(more)
  BY <1>6, <1>7 DEF Increasing
<1> QED
  BY <1>3, <1>6, <1>8 DEF Sortable

(* Every set of positions can be sorted: the least n up to which one       *)
(* cannot be would be 0, or above one that can be.                         *)
LEMMA PositionsSort ==
  ASSUME NEW n \in Nat, NEW S \in SUBSET (1..n)
  PROVE  Sortable(S)
<1> DEFINE U == {m \in Nat : \E T \in SUBSET (1..m) : ~Sortable(T)}
<1>1. SUFFICES ASSUME U # {}
               PROVE  FALSE
  OBVIOUS
<1>2. PICK m \in U : \A k \in U : m <= k
  BY <1>1, LeastNumber
<1>3. PICK T \in SUBSET (1..m) : ~Sortable(T)
  BY <1>2
<1>4. m \in Nat
  BY <1>2
<1>5. CASE m = 0
  <2>1. T = {}
    BY <1>5
  <2>2. Cardinality(T) = 0
    BY <2>1, FS_EmptySet
  <2>3. [i \in 1..0 |-> 0] \in [1..Cardinality(T) -> T] /\ Increasing([i \in 1..0 |-> 0])
    BY <2>2 DEF Increasing
  <2> QED
    BY <1>3, <2>3 DEF Sortable
<1>6. CASE m # 0
  <2>1. T \ {m} \in SUBSET (1..(m - 1)) /\ m - 1 \in Nat /\ ~(m <= m - 1)
    BY <1>4, <1>6
  <2>2. Sortable(T \ {m})
    BY <1>2, <2>1
  <2>3. CASE m \in T
    BY <1>3, <1>4, <1>6, <2>2, <2>3, SortsOneMore
  <2>4. CASE m \notin T
    <3>1. T \ {m} = T
      BY <2>4
    <3> QED
      BY <1>3, <2>2, <3>1
  <2> QED
    BY <2>3, <2>4
<1> QED
  BY <1>5, <1>6

(* What InOrder returns for a set of positions.                            *)
LEMMA InOrderSorts ==
  ASSUME NEW n \in Nat, NEW S \in SUBSET (1..n)
  PROVE  /\ InOrder(S) \in Seq(S)
         /\ Increasing(InOrder(S))
<1>1. \E s \in [1..Cardinality(S) -> S] : \A i, j \in DOMAIN s : i < j => s[i] < s[j]
  BY PositionsSort DEF Sortable, Increasing
<1>2. InOrder(S) \in [1..Cardinality(S) -> S] /\ Increasing(InOrder(S))
  BY <1>1 DEF InOrder, Increasing
<1>3. Cardinality(S) \in Nat
  <2>1. IsFiniteSet(1..n)
    BY FS_Interval
  <2>2. IsFiniteSet(S)
    BY <2>1, FS_Subset
  <2> QED
    BY <2>2, FS_CardinalityType
<1> QED
  BY <1>2, <1>3, SeqDef

-----------------------------------------------------------------------------
(* The tape. *)

(* With history h up to n read: its trades that were still returned then   *)
(* have been seen, and the tape has positions up to n, in order, of trades *)
(* that are different and have been seen.                                  *)
ReadUpTo(n, h, known, published) ==
  /\ \A k \in 1..n : k + Window > n => h[k] \in known
  /\ \A i \in DOMAIN published : published[i] \in 1..n /\ h[published[i]] \in known
  /\ \A i, j \in DOMAIN published : i < j => /\ published[i] < published[j]
                                             /\ h[published[i]] # h[published[j]]

TapeType == /\ history \in [Pairs -> Seq(Trades)]
            /\ seen \in [Pairs -> SUBSET Trades]
            /\ tape \in [Pairs -> Seq(Nat)]

TapeInv == \A p \in Pairs : \E n \in 0..Len(history[p]) :
             ReadUpTo(n, history[p], seen[p], tape[p])

(* A trade that is made changes nothing up to the last that was read.      *)
LEMMA TradeAfterRead ==
  ASSUME NEW h \in Seq(Trades), NEW t \in Trades, NEW n \in 0..Len(h),
         NEW known, NEW published \in Seq(Nat), ReadUpTo(n, h, known, published)
  PROVE  /\ n \in 0..Len(Append(h, t))
         /\ ReadUpTo(n, Append(h, t), known, published)
<1>1. Len(h) \in Nat
  BY LenProperties
<1>2. Len(Append(h, t)) = Len(h) + 1 /\ \A k \in 1..n : Append(h, t)[k] = h[k]
  BY <1>1, AppendProperties
<1> QED
  BY <1>1, <1>2 DEF ReadUpTo

(* What is fresh lies after what was read, in the answer, and is new.      *)
LEMMA FreshAfterRead ==
  ASSUME TapeType, NEW p \in Pairs, NEW n \in 0..Len(history[p]),
         ReadUpTo(n, history[p], seen[p], tape[p])
  PROVE  /\ Fresh(p) \in SUBSET (1..Len(history[p]))
         /\ \A k \in Fresh(p) : /\ n < k /\ k \in Returned(p)
                                /\ history[p][k] \notin seen[p]
         /\ \A j, k \in Fresh(p) : j < k => history[p][j] # history[p][k]
<1> DEFINE h == history[p]
           N == Len(h)
<1>1. h \in Seq(Trades) /\ DOMAIN h = 1..N /\ N \in Nat
  BY LenProperties DEF TapeType
<1>2. ASSUME NEW k \in Fresh(p)
      PROVE  /\ k \in 1..N /\ k \in Returned(p) /\ k + Window > N
             /\ h[k] \notin seen[p]
             /\ \A j \in Returned(p) : j < k => h[j] # h[k]
  BY <1>1 DEF Fresh, Returned
<1> HIDE DEF h, N
<1>3. ASSUME NEW k \in Fresh(p)
      PROVE  n < k
  <2>1. n \in 0..N /\ \A i \in 1..n : i + Window > n => h[i] \in seen[p]
    BY DEF ReadUpTo, h, N
  <2>2. k \in 1..n => ~(k + Window > n)
    BY <1>2, <2>1
  <2> QED
    BY <1>1, <1>2, <2>1, <2>2, BooksAssumption
<1>4. Fresh(p) \in SUBSET (1..N)
  BY <1>2
<1> QED
  BY <1>2, <1>3, <1>4 DEF h, N

(* A read leaves nothing of the history unread, and its trades follow      *)
(* those of the tape.                                                      *)
LEMMA ReadToEnd ==
  ASSUME TapeType, NEW p \in Pairs, NEW n \in 0..Len(history[p]),
         ReadUpTo(n, history[p], seen[p], tape[p]),
         NEW known, known = seen[p] \cup {history[p][k] : k \in Returned(p)}
  PROVE  /\ tape[p] \o InOrder(Fresh(p)) \in Seq(Nat)
         /\ known \in SUBSET Trades
         /\ ReadUpTo(Len(history[p]), history[p], known, tape[p] \o InOrder(Fresh(p)))
<1> DEFINE h == history[p]
           N == Len(h)
           F == Fresh(p)
           old == tape[p]
           new == InOrder(F)
           all == old \o new
<1>1. h \in Seq(Trades) /\ DOMAIN h = 1..N /\ N \in Nat /\ seen[p] \in SUBSET Trades
  BY LenProperties DEF TapeType
<1>2. F \in SUBSET (1..N)
  BY FreshAfterRead
<1>3. \A k \in F : n < k /\ k \in Returned(p) /\ h[k] \notin seen[p]
  BY FreshAfterRead
<1>4. \A j, k \in F : j < k => h[j] # h[k]
  BY FreshAfterRead
<1>5. new \in Seq(F) /\ Increasing(new)
  BY <1>1, <1>2, InOrderSorts
<1>6. \A k \in 1..N : k \in Returned(p) <=> k + Window > N
  BY <1>1 DEF Returned
<1>7. \A k \in Returned(p) : k \in 1..N /\ h[k] \in known
  BY <1>1 DEF Returned
<1>8. known \in SUBSET Trades
  BY <1>1, <1>7, ElementOfSeq
<1>9. seen[p] \subseteq known
  OBVIOUS
<1>10. /\ n \in 0..N /\ old \in Seq(Nat)
       /\ \A i \in DOMAIN old : old[i] \in 1..n /\ h[old[i]] \in seen[p]
       /\ \A i, j \in DOMAIN old : i < j => old[i] < old[j] /\ h[old[i]] # h[old[j]]
  BY DEF TapeType, ReadUpTo
<1> HIDE DEF h, N, F, old, new, all
<1>11. new \in Seq(Nat)
  <2>1. F \subseteq Nat
    BY <1>1, <1>2
  <2> QED
    BY <1>5, <2>1, SeqMonotonic
<1>12. all \in Seq(Nat) /\ Len(all) = Len(old) + Len(new)
       /\ \A i \in 1..Len(all) : all[i] = IF i <= Len(old) THEN old[i] ELSE new[i - Len(old)]
  BY <1>10, <1>11, ConcatProperties DEF all
<1>13. /\ DOMAIN old = 1..Len(old) /\ Len(old) \in Nat
       /\ DOMAIN new = 1..Len(new) /\ Len(new) \in Nat
       /\ DOMAIN all = 1..Len(all)
  BY <1>10, <1>11, <1>12, LenProperties
<1>14. \A i \in DOMAIN new : new[i] \in F
  BY <1>5, <1>13, ElementOfSeq
<1>15. \A i, j \in DOMAIN new : i < j => new[i] < new[j]
  BY <1>5 DEF Increasing
<1>16. \A i \in DOMAIN all : \/ i \in DOMAIN old /\ all[i] = old[i]
                             \/ /\ i - Len(old) \in DOMAIN new /\ i > Len(old)
                                /\ all[i] = new[i - Len(old)]
  BY <1>12, <1>13
<1>17. ASSUME NEW i \in DOMAIN all
       PROVE  all[i] \in 1..N /\ h[all[i]] \in known
  <2>1. CASE i \in DOMAIN old /\ all[i] = old[i]
    BY <1>1, <1>9, <1>10, <2>1
  <2>2. CASE i - Len(old) \in DOMAIN new /\ all[i] = new[i - Len(old)]
    BY <1>2, <1>3, <1>7, <1>14, <2>2
  <2> QED
    BY <1>16, <2>1, <2>2
<1>18. ASSUME NEW i \in DOMAIN all, NEW j \in DOMAIN all, i < j
       PROVE  all[i] < all[j] /\ h[all[i]] # h[all[j]]
  <2>1. CASE /\ i \in DOMAIN old /\ all[i] = old[i]
             /\ j \in DOMAIN old /\ all[j] = old[j]
    BY <1>10, <1>18, <2>1
  <2>2. CASE /\ i \in DOMAIN old /\ all[i] = old[i]
             /\ j - Len(old) \in DOMAIN new /\ all[j] = new[j - Len(old)]
    <3>1. all[i] \in 1..n /\ h[all[i]] \in seen[p]
      BY <1>10, <2>2
    <3>2. all[j] \in F /\ all[j] \in 1..N
      BY <1>2, <1>14, <2>2
    <3>3. n < all[j] /\ h[all[j]] \notin seen[p]
      BY <1>3, <3>2
    <3> QED
      BY <1>1, <1>10, <3>1, <3>2, <3>3
  <2>3. CASE /\ i - Len(old) \in DOMAIN new /\ all[i] = new[i - Len(old)]
             /\ j - Len(old) \in DOMAIN new /\ all[j] = new[j - Len(old)]
    <3>1. i - Len(old) < j - Len(old)
      BY <1>13, <1>18, <1>12
    <3>2. all[i] < all[j]
      BY <1>15, <2>3, <3>1
    <3> QED
      BY <1>4, <1>14, <2>3, <3>2
  <2>4. ~(i > Len(old) /\ j \in DOMAIN old)
    BY <1>12, <1>13, <1>18
  <2> QED
    BY <1>16, <2>1, <2>2, <2>3, <2>4
<1>19. \A k \in 1..N : k + Window > N => h[k] \in known
  BY <1>6, <1>7
<1>20. ReadUpTo(N, h, known, all)
  BY <1>17, <1>18, <1>19 DEF ReadUpTo
<1> QED
  BY <1>8, <1>12, <1>20 DEF h, N, F, old, new, all

(* The history of a pair has been read, and its tape built, up to a trade. *)
LEMMA TapeInductive == Spec => [](TapeType /\ TapeInv)
<1>1. Init => TapeType /\ TapeInv
  <2> SUFFICES ASSUME Init
               PROVE  TapeType /\ TapeInv
    OBVIOUS
  <2>1. TapeType
    BY EmptySeq DEF Init, TapeType
  <2>2. ASSUME NEW p \in Pairs
        PROVE  0 \in 0..Len(history[p]) /\ ReadUpTo(0, history[p], seen[p], tape[p])
    BY EmptySeq DEF Init, ReadUpTo
  <2> QED
    BY <2>1, <2>2 DEF TapeInv
<1>2. TapeType /\ TapeInv /\ [Next]_vars => TapeType' /\ TapeInv'
  <2> SUFFICES ASSUME TapeType, TapeInv, [Next]_vars
               PROVE  TapeType' /\ TapeInv'
    OBVIOUS
  <2>1. CASE UNCHANGED <<history, seen, tape>>
    BY <2>1 DEF TapeType, TapeInv
  <2>2. CASE NewTrade
    <3>1. PICK p \in Pairs, t \in Trades : history' = [history EXCEPT ![p] = Append(@, t)]
      BY <2>2 DEF NewTrade
    <3>2. seen' = seen /\ tape' = tape
      BY <2>2 DEF NewTrade
    <3>3. \A q \in Pairs : /\ history[q] \in Seq(Trades) /\ tape[q] \in Seq(Nat)
                           /\ history'[q] = IF q = p THEN Append(history[q], t) ELSE history[q]
      BY <3>1 DEF TapeType
    <3>4. Append(history[p], t) \in Seq(Trades)
      BY <3>3, AppendProperties
    <3>5. TapeType'
      BY <3>1, <3>2, <3>4 DEF TapeType
    <3>6. ASSUME NEW q \in Pairs
          PROVE  \E n \in 0..Len(history'[q]) : ReadUpTo(n, history'[q], seen'[q], tape'[q])
      <4>1. PICK n \in 0..Len(history[q]) : ReadUpTo(n, history[q], seen[q], tape[q])
        BY DEF TapeInv
      <4>2. CASE q = p
        <5>1. /\ n \in 0..Len(Append(history[q], t))
              /\ ReadUpTo(n, Append(history[q], t), seen[q], tape[q])
          BY <3>3, <4>1, TradeAfterRead
        <5> QED
          BY <3>2, <3>3, <4>2, <5>1
      <4>3. CASE q # p
        BY <3>2, <3>3, <4>1, <4>3
      <4> QED
        BY <4>2, <4>3
    <3> QED
      BY <3>5, <3>6 DEF TapeInv
  <2>3. ASSUME NEW p \in Pairs, ReadHistory(p)
        PROVE  TapeType' /\ TapeInv'
    <3> DEFINE known == seen[p] \cup {history[p][k] : k \in Returned(p)}
               published == tape[p] \o InOrder(Fresh(p))
    <3>1. PICK n \in 0..Len(history[p]) : ReadUpTo(n, history[p], seen[p], tape[p])
      BY DEF TapeInv
    <3>2. /\ published \in Seq(Nat) /\ known \in SUBSET Trades
          /\ ReadUpTo(Len(history[p]), history[p], known, published)
      BY <3>1, ReadToEnd
    <3>3. /\ history' = history /\ seen' = [seen EXCEPT ![p] = known]
          /\ tape' = [tape EXCEPT ![p] = published]
      BY <2>3 DEF ReadHistory, market
    <3>4. Len(history[p]) \in 0..Len(history[p])
      BY LenProperties DEF TapeType
    <3> HIDE DEF known, published
    <3>5. TapeType'
      BY <3>2, <3>3 DEF TapeType
    <3>6. ASSUME NEW q \in Pairs
          PROVE  \E m \in 0..Len(history'[q]) : ReadUpTo(m, history'[q], seen'[q], tape'[q])
      BY <3>2, <3>3, <3>4 DEF TapeInv, TapeType
    <3> QED
      BY <3>5, <3>6 DEF TapeInv
  <2>4. CASE Connect \/ Disconnect \/ Wake \/ StartPoll \/ PollFails \/ ChangeLevel
    BY <2>1, <2>4 DEF Connect, Disconnect, Wake, StartPoll, PollFails, ChangeLevel, market
  <2>5. ASSUME NEW p \in Pairs, ReadBids(p) \/ ReadAsks(p) \/ Subscribe(p) \/ Unsubscribe(p)
        PROVE  TapeType' /\ TapeInv'
    BY <2>1, <2>5 DEF ReadBids, ReadAsks, Subscribe, Unsubscribe, market
  <2>6. CASE UNCHANGED vars
    BY <2>1, <2>6 DEF vars, market
  <2> QED
    BY <2>2, <2>3, <2>4, <2>5, <2>6 DEF Next
<1> QED
  BY <1>1, <1>2, PTL DEF Spec

(* Trades are published in the order they were made and none twice, over   *)
(* failed polls, histories longer than a request returns and pairs that    *)
(* come and go.                                                            *)
THEOREM TapeFollowsHistory == Spec => []TapeInOrder
<1>1. TapeInv => TapeInOrder
  BY DEF TapeInv, ReadUpTo, TapeInOrder
<1> QED
  BY <1>1, TapeInductive, PTL

(* Every variable keeps its type, and the place in the poll, the pairs     *)
(* that are left and the loop agree.                                       *)
THEOREM TypesHold == Spec => []TypeOK
<1>1. BookType /\ QueueType /\ TapeType => TypeOK
  BY DEF BookType, QueueType, TapeType, TypeOK
<1> QED
  BY <1>1, BookInductive, QueueInductive, TapeInductive, PTL
=============================================================================
